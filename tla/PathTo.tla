------------------------------- MODULE PathTo -------------------------------
(***************************************************************************)
(* The search of correlation.path_to: breadth first over the allowed       *)
(* transitions, successors in alphabetical order, one step per state taken *)
(* from the queue.  found is the value returned.  A queue that runs empty  *)
(* would be the None of the code: AlwaysReachable says it never does.      *)
(***************************************************************************)
EXTENDS LifecycleGraph

VARIABLES current, target, \* the arguments
          queue,           \* the states to expand, each with its trail
          seen,            \* the states ever queued
          status,          \* "searching" or "found"
          found            \* the route returned

routeVars == <<current, target, queue, seen, status, found>>

RouteInit ==
  /\ current \in States
  /\ target \in States
  /\ queue = <<[state |-> current, trail |-> <<>>]>>
  /\ seen = {current}
  /\ status = IF current = target THEN "found" ELSE "searching"
  /\ found = <<>>

\* The successors of the head that were not seen, in the order of the loop.
Fresh == Sorted(AllowedTransitions[Head(queue).state] \ seen)

FreshStates == {Fresh[i] : i \in DOMAIN Fresh}

\* (Definitions named Bug_ are plausible mistakes; no specification uses them.)
\* The hop is nested instead of appended.
Bug_ExtendedNested(s) == [state |-> s, trail |-> <<Head(queue).trail, s>>]

Extended(s) == [state |-> s, trail |-> Append(Head(queue).trail, s)]

\* The queue is a stack.
Bug_QueuedAsStack == [i \in DOMAIN Fresh |-> Extended(Fresh[i])] \o Tail(queue)

\* The queue after the head was expanded.
Queued == Tail(queue) \o [i \in DOMAIN Fresh |-> Extended(Fresh[i])]

\* A successor of the head is the target: the search returns.
Return ==
  /\ status = "searching" /\ queue # <<>>
  /\ target \in FreshStates
  /\ status' = "found"
  /\ found' = Extended(target).trail
  /\ UNCHANGED <<current, target, queue, seen>>

\* None is: the unseen ones are queued.
Expand ==
  /\ status = "searching" /\ queue # <<>>
  /\ target \notin FreshStates
  /\ queue' = Queued
  /\ seen' = seen \cup FreshStates
  /\ UNCHANGED <<current, target, status, found>>

RouteNext == Return \/ Expand

-----------------------------------------------------------------------------
RouteTypeOK ==
  /\ current \in States /\ target \in States
  /\ queue \in Seq([state : States, trail : Seq(States)])
  /\ seen \subseteq States
  /\ status \in {"searching", "found"}
  /\ found \in Seq(States)

\* The route returned is the one module LifecycleGraph defines: a walk through the
\* allowed transitions, none shorter, and of the shortest the alphabetically first
\* ("Shortest legal sequence"); and the queue never runs empty before: path_to
\* never returns None, so that advance meets no refused transition half way.
RoutesAreFirst ==
  IF status = "found" THEN found = Route[<<current, target>>] ELSE queue # <<>>
=============================================================================
