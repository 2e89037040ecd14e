------------------------- MODULE MCFindingLifecycle -------------------------
(* Instances of FindingLifecycle, with the routes module PathTo computes. *)
EXTENDS FindingLifecycle, TLC

MCWindow == [p \in Policies |-> IF p = "tight" THEN 1 ELSE 2]
MCWarnAt == [p \in Policies |-> 50]
MCLadder == <<1, 2>>
MCNoLadder == <<>>
\* Combined with nothing, the routes are a table and not looked for again.
MCRoute == Route @@ <<>>

\* The states requested: of the scans' business, and one.
MCScanTargets == {"triaged", "in_progress", "remediated", "verification",
                  "verified", "false_positive"}
MCOneTarget == {"remediated"}
MCTwoTargets == {"in_progress", "remediated"}

\* Undated, and due on a day of the run.
MCNoDate == {None}
MCSomeDates == {None, 1}
=============================================================================
