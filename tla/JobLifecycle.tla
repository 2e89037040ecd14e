----------------------------- MODULE JobLifecycle -----------------------------
(***************************************************************************)
(* What the dispatcher promises about a scan job, without requests, rows   *)
(* or leases: a job waits, is worked on by one agent at a time, goes back  *)
(* to the queue a bounded number of times, and ends once; its output       *)
(* counts at most once and only by ending it.  One transaction may move    *)
(* several jobs (the reaper, the scanning switch), each by one step.       *)
(***************************************************************************)
EXTENDS Integers

CONSTANTS Jobs, Agents, NoAgent, MaxAttempts

VARIABLE life   \* for each job: phase, holder, tries and number of imports

Phases == {"none", "waiting", "held", "ended"}

Life == [phase : Phases, holder : Agents \cup {NoAgent},
         tries : 0 .. MaxAttempts, imports : 0 .. 1]

Unborn == [phase |-> "none", holder |-> NoAgent, tries |-> 0, imports |-> 0]

Queue(x, y) ==
    /\ x = Unborn
    /\ y = [x EXCEPT !.phase = "waiting"]

Grant(x, y) ==
    /\ x.phase = "waiting"
    /\ x.tries < MaxAttempts
    /\ \E a \in Agents :
           y = [x EXCEPT !.phase = "held", !.holder = a, !.tries = @ + 1]

\* The agent failed or went silent, and another attempt is left.
Return(x, y) ==
    /\ x.phase = "held"
    /\ x.tries < MaxAttempts
    /\ y = [x EXCEPT !.phase = "waiting", !.holder = NoAgent]

\* The holder's output ends the job, with or without being imported.
Settle(x, y) ==
    /\ x.phase = "held"
    /\ \E n \in 0 .. 1 :
           y = [x EXCEPT !.phase = "ended", !.holder = NoAgent, !.imports = n]

Withdraw(x, y) ==
    /\ x.phase = "waiting"
    /\ y = [x EXCEPT !.phase = "ended"]

\* The holder's registration is deleted; the job stays held, by nobody.
Orphan(x, y) ==
    /\ x.phase = "held"
    /\ y = [x EXCEPT !.holder = NoAgent]

Step(x, y) ==
    \/ Queue(x, y)
    \/ Grant(x, y)
    \/ Return(x, y)
    \/ Settle(x, y)
    \/ Withdraw(x, y)
    \/ Orphan(x, y)

Init == life = [j \in Jobs |-> Unborn]

Next ==
    /\ life' \in [Jobs -> Life]
    /\ \A j \in Jobs : life'[j] = life[j] \/ Step(life[j], life'[j])

Spec == Init /\ [][Next]_life
=============================================================================
