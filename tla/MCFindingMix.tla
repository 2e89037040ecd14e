--------------------------- MODULE MCFindingMix ---------------------------
(* Scans or acceptances over one finding: together they exceed what TLC can
   enumerate, so a behaviour has one of the two. *)
EXTENDS MCFindingLifecycle

\* Who moves the finding in a behaviour, besides operators and time.
VARIABLE mix

MCInit ==
  /\ Init
  /\ \/ mix = "scans"
     \/ mix = "acceptances" /\ finding.owner = Nobody /\ finding.state \in {"new", "triaged", "remediated"}

\* Operators accept beside the scans without a date.
Scans ==
  /\ mix = "scans"
  /\ SweepNext \/ ImportNext \/ CorrelateNext \/ OperatorNext \/ Tick
  /\ finding'.until = None

\* Two acceptances over a finding of nobody's that is at most remediated.
AcceptanceMoves ==
  /\ mix = "acceptances"
  /\ \/ AcceptanceNext \/ Tick \/ ResolveTicket
     \/ \E target \in MCOneTarget : Transition(target) \/ RunWorkflow(target)
     \/ \E target \in MCOneTarget \cup {finding.state} : Sweep(0, target)
     \/ \E until \in Dates : AcceptRisk(until)
     \/ \E policy \in Policies : UpdateSla(policy) \/ Correlate(policy, Nobody)

MCNext == (Scans \/ AcceptanceMoves) /\ UNCHANGED mix

MCSpec == MCInit /\ [][MCNext]_<<vars, mix>>

\* The acceptances differ in nothing but their names.
Perms == Permutations(Acceptances)
=============================================================================
