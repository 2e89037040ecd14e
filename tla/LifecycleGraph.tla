--------------------------- MODULE LifecycleGraph ---------------------------
(***************************************************************************)
(* The lifecycle of a finding as data: the states of models/vulnerability, *)
(* the transitions the service layer allows, the groups of states the      *)
(* services test for, and the route correlation.path_to takes between two  *)
(* states, given by what it computes: of the shortest walks through the    *)
(* graph, the first in alphabetical order.  Module PathTo runs the         *)
(* breadth-first search of the code against this definition.               *)
(***************************************************************************)
EXTENDS Integers, Sequences

\* FindingState, in the alphabetical order that sorted() gives its values.
Alphabet == <<"accepted_risk", "assigned", "closed", "deferred", "duplicate",
              "exception", "false_positive", "in_progress", "mitigation", "new",
              "remediated", "risk_assessed", "triaged", "verification",
              "verified">>

States == {Alphabet[i] : i \in DOMAIN Alphabet}

AllowedTransitions ==
  [s \in States |->
     CASE s = "new"           -> {"triaged", "false_positive", "duplicate", "deferred"}
       [] s = "triaged"       -> {"risk_assessed", "false_positive", "duplicate",
                                  "accepted_risk", "exception", "deferred"}
       [] s = "risk_assessed" -> {"assigned", "accepted_risk", "exception",
                                  "deferred", "false_positive"}
       [] s = "assigned"      -> {"in_progress", "mitigation", "deferred",
                                  "accepted_risk", "exception"}
       [] s = "in_progress"   -> {"mitigation", "remediated", "deferred",
                                  "accepted_risk", "exception"}
       [] s = "mitigation"    -> {"remediated", "in_progress", "accepted_risk",
                                  "exception"}
       [] s = "remediated"    -> {"verification", "in_progress"}
       [] s = "verification"  -> {"verified", "in_progress"}
       [] s = "verified"      -> {"closed", "in_progress"}
       [] s = "closed"        -> {"in_progress"}
       [] s = "deferred"      -> {"triaged", "assigned", "in_progress"}
       [] s \in {"false_positive", "duplicate"}  -> {"new"}
       [] s \in {"accepted_risk", "exception"}   -> {"triaged", "in_progress"}]

OpenStates == {"new", "triaged", "risk_assessed", "assigned", "in_progress",
               "mitigation", "remediated", "verification", "deferred"}

\* REOPENABLE_STATES: the states that assert "this is fixed".
Reopenable == {"remediated", "verified", "closed"}

CanTransition(current, target) == target \in AllowedTransitions[current]

\* sorted(successors)
Sorted(S) ==
  LET upto[n \in 0 .. Len(Alphabet)] ==
        IF n = 0 THEN <<>> ELSE IF Alphabet[n] \in S THEN Append(upto[n - 1], Alphabet[n]) ELSE upto[n - 1]
  IN  upto[Len(Alphabet)]

-----------------------------------------------------------------------------
\* The states from which target is at most n transitions away.
Within(target) ==
  LET ball[n \in 0 .. Len(Alphabet)] ==
        IF n = 0 THEN {target}
        ELSE LET nearer == ball[n - 1]
             IN  {s \in States : s \in nearer \/ AllowedTransitions[s] \cap nearer # {}}
  IN  ball

\* Every state can be reached from every other, so the distance is defined.
Distance ==
  [p \in States \X States |->
     CHOOSE n \in 0 .. Len(Alphabet) :
        /\ p[1] \in Within(p[2])[n]
        /\ n > 0 => p[1] \notin Within(p[2])[n - 1]]

\* The route path_to returns from p[1] to p[2]: each hop is the alphabetically
\* first successor that is one transition closer.
Route[p \in States \X States] ==
  IF p[1] = p[2] THEN <<>>
  ELSE LET nearer == {s \in AllowedTransitions[p[1]] :
                        Distance[<<s, p[2]>>] = Distance[p] - 1}
           hop    == Head(SelectSeq(Alphabet, LAMBDA s : s \in nearer))
       IN  <<hop>> \o Route[<<hop, p[2]>>]

\* A walk from one state to another, each hop an allowed transition.
IsWalk(route, from, to) ==
  LET stop(i) == IF i = 0 THEN from ELSE route[i]
  IN  /\ stop(Len(route)) = to
      /\ \A i \in DOMAIN route : CanTransition(stop(i - 1), route[i])
=============================================================================
