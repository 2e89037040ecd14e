-------------------------- MODULE FindingLifecycle --------------------------
(***************************************************************************)
(* One finding, from its detection on, under everything that moves it:     *)
(* imports and the correlation engine that see it or stop seeing it        *)
(* (services/correlation, services/engagements, services/importers), the   *)
(* requests of operators (api/v1/findings), tickets and workflows that     *)
(* advance it, risk acceptances that take it out of the queue and put it   *)
(* back, and its SLA: deadline, breach, warning and escalation             *)
(* (services/sla).                                                         *)
(*                                                                         *)
(* No operation reads one finding to write another, so one is enough.  An  *)
(* action is one transaction, and the transactions are taken one at a      *)
(* time.  Time counts in the unit whose multiple is one second in          *)
(* max(due - start, 1.0); dates and hours are taken on the same clock.     *)
(***************************************************************************)
EXTENDS LifecycleGraph

CONSTANTS
  Tests,          \* scan tests that import into the organization
  Policies,       \* enabled SLA policies; one always resolves
  Window,         \* remediate_within_hours of each policy
  WarnAt,         \* warn_at_percent of each policy
  Ladder,         \* after_hours of the escalation levels, in order
  Owners,         \* teams and users an assignment rule may name
  Acceptances,    \* risk acceptances that may be requested
  Dates,          \* the expiry dates acceptances are given, None for no date
  Path,           \* the route path_to finds between two states
  Targets,        \* the states operators and workflows ask for
  MaxAbsences,    \* bound: the largest threshold; the counters saturate there
  MaxClock        \* bound: the last time considered

None == -1         \* NULL, where a time or a count is expected
Nobody == "nobody" \* NULL, where an owner is expected

ASSUME SlaAssumption ==
  /\ Window \in [Policies -> Nat]
  /\ WarnAt \in [Policies -> Nat]
  /\ Ladder \in Seq(Nat)
  /\ \A j, k \in DOMAIN Ladder : j <= k => Ladder[j] <= Ladder[k]
ASSUME TestAssumption == MaxAbsences \in Nat \ {0}
ASSUME OwnerAssumption == Nobody \notin Owners
ASSUME ClockAssumption == MaxClock \in Nat
ASSUME TargetAssumption == Targets \subseteq States
ASSUME DateAssumption == Dates \subseteq -1 .. MaxClock
ASSUME PathAssumption ==
  /\ Path \in [States \X States -> Seq(States)]
  /\ \A p \in States \X States : IsWalk(Path[p], p[1], p[2])

VARIABLES
  clock,
  finding,     \* the finding's row, with the events of the last transaction
  warned,      \* an SlaEvent "warned" of the finding exists
  absences,    \* consecutive_absences of each test's sighting of it; None when
               \* the test has none.  The status of the sighting is ABSENT when
               \* the counter is positive
  acceptances  \* the risk acceptances that cover it

vars == <<clock, finding, warned, absences, acceptances>>

Time == 0 .. MaxClock
MaybeTime == Time \cup {None}

\* finding.fixed is remediated_at, until is accepted_until, level is
\* escalation_level; moves and sla are the states FindingEvents of the last
\* transaction led through, and its SlaEvents.
Finding ==
  [state : States, detected : Time, fixed : MaybeTime, owner : Owners \cup {Nobody},
   policy : Policies, due : Nat, breached : BOOLEAN, level : 0 .. Len(Ladder),
   until : MaybeTime, moves : Seq(States),
   sla : SUBSET {"set", "warned", "breached", "met", "escalated"}]

\* previous_state is kept from the approval on: the one stored with the request
\* is overwritten before anything reads it.
Acceptance ==
  [state : {"unknown", "pending", "active", "rejected", "revoked", "expired"},
   previous : States, expires : MaybeTime, reactivate : BOOLEAN, restart : BOOLEAN]

-----------------------------------------------------------------------------
(* What the services do to a row. *)

\* A transaction begins: it has written no event.
Clean(row) == [row EXCEPT !.moves = <<>>, !.sla = {}]

\* (Definitions named Bug_ are plausible mistakes; no specification uses them.)
\* The route is appended to the events as one entry.
Bug_ThroughNested(row, route) ==
  [row EXCEPT !.state = IF route = <<>> THEN @ ELSE route[Len(route)],
              !.moves = Append(@, route)]

\* correlation.transition, once for each state of the route: remediated_at is
\* set unless it was before, and close_sla records the verdict.
Through(row, route) ==
  LET fixes == \E i \in DOMAIN route : route[i] = "remediated"
  IN  [row EXCEPT
         !.state = IF route = <<>> THEN @ ELSE route[Len(route)],
         !.fixed = IF fixes /\ @ = None THEN clock ELSE @,
         !.moves = @ \o route,
         !.sla   = @ \cup (IF fixes THEN {IF row.breached THEN "breached" ELSE "met"}
                           ELSE {})]

\* correlation.advance
Advanced(row, target) == Through(row, Path[<<row.state, target>>])

\* A service writes the state itself, with an event of its own.
Written(row, target) ==
  [row EXCEPT !.state = target, !.moves = Append(@, target)]

\* A regression is recognised by closed_at, which remediated does not set.
Bug_RedetectedClosed(row) ==
  IF row.state = "closed"
  THEN [Written(row, "new") EXCEPT !.fixed = None, !.detected = clock]
  ELSE row

\* ensure_finding on a row that exists: a fixed finding is a regression.
Redetected(row) ==
  IF row.state \in Reopenable
  THEN [Written(row, "new") EXCEPT !.fixed = None, !.breached = FALSE,
                                   !.level = 0, !.detected = clock]
  ELSE row

\* apply_assignment: an owner that changed moves an unassigned finding on.
Routed(row, owner) ==
  LET named == [row EXCEPT !.owner = owner]
  IN  IF owner \in {Nobody, row.owner} THEN row
      ELSE IF row.state \in {"new", "triaged", "risk_assessed"}
           THEN Advanced(named, "assigned")
           ELSE named

\* The window is counted from now.
Bug_TimedFromNow(row, policy) ==
  [row EXCEPT !.policy = policy, !.due = clock + Window[policy]]

\* The deadline under a policy, counted from the detection.
Timed(row, policy) ==
  [row EXCEPT !.policy = policy, !.due = row.detected + Window[policy],
              !.sla = @ \cup {"set"}]

\* apply_sla without force keeps the deadline of a policy that did not change.
AppliedSla(row, policy) == IF policy = row.policy THEN row ELSE Timed(row, policy)

\* process_finding
Processed(row, policy, owner) == AppliedSla(Routed(row, owner), policy)

\* reconcile_test closes the finding: the state and the time of the fix are
\* written, and the SLA is left alone.
ClosedAbsent(row) == [Written(row, "remediated") EXCEPT !.fixed = clock]

\* Any previous state is restored; the state is not looked at; the clock is
\* always restarted; the breach is forgotten whether it is or not.
Bug_ReactivatedAsWas(row, acceptance, policy) ==
  IF row.state # "accepted_risk" THEN row
  ELSE Timed([Written(row, acceptance.previous) EXCEPT !.until = None], policy)
Bug_ReactivatedAfresh(row, acceptance, policy) ==
  IF row.state # "accepted_risk" THEN row
  ELSE Timed([Written(row, "triaged") EXCEPT !.detected = clock], policy)
Bug_ReactivatedForgiven(row, acceptance, policy) ==
  IF row.state # "accepted_risk" THEN row
  ELSE Timed([Written(row, "triaged") EXCEPT !.breached = FALSE, !.level = 0], policy)

\* _reactivate: an acceptance lets the finding go.
Reactivated(row, acceptance, policy) ==
  LET target == IF acceptance.previous \in OpenStates THEN acceptance.previous
                ELSE "triaged"
      back   == [Written(row, target) EXCEPT !.until = None]
      fresh  == [back EXCEPT !.detected = clock, !.breached = FALSE, !.level = 0]
  IN  IF row.state # "accepted_risk" THEN row
      ELSE Timed(IF acceptance.restart THEN fresh ELSE back, policy)

-----------------------------------------------------------------------------
(* Detection. *)

\* The row ensure_finding inserts.
Detected(policy) ==
  [state |-> "new", detected |-> clock, fixed |-> None, owner |-> Nobody,
   policy |-> policy, due |-> clock + Window[policy], breached |-> FALSE,
   level |-> 0, until |-> None, moves |-> <<>>, sla |-> {"set"}]

\* The correlation engine has just created and processed the finding, and a
\* workflow of finding.created may have moved it.
Init ==
  /\ clock = 0
  /\ \E policy \in Policies, owner \in Owners \cup {Nobody} :
        LET row == Routed(Detected(policy), owner)
        IN  \E target \in Targets \cup {row.state} : finding = Advanced(row, target)
  /\ warned = FALSE
  /\ absences = [t \in Tests |-> None]
  /\ acceptances = [a \in Acceptances |->
       [state |-> "unknown", previous |-> "new", expires |-> None,
        reactivate |-> FALSE, restart |-> FALSE]]

\* correlate_cve matches the installation again.  The policy is the one the
\* finding's score, severity and asset select now; the owner the one the
\* assignment rules name now.
Correlate(policy, owner) ==
  /\ finding' = Processed(Redetected(Clean(finding)), policy, owner)
  /\ UNCHANGED <<clock, warned, absences, acceptances>>

\* An import into test t with a record of the finding.
ImportSees(t, policy, owner) ==
  /\ finding' = Processed(Redetected(Clean(finding)), policy, owner)
  /\ absences' = [absences EXCEPT ![t] = 0]
  /\ UNCHANGED <<clock, warned, acceptances>>

\* A finding in any state is closed.
Bug_ImportMissesAny(t, closeAbsent, threshold) ==
  /\ absences[t] # None
  /\ closeAbsent
  /\ absences' = [absences EXCEPT ![t] = MaxAbsences]
  /\ finding' = ClosedAbsent(Clean(finding))
  /\ UNCHANGED <<clock, warned, acceptances>>

\* An import into test t without one, where t had reported it: reconcile_test.
\* close_absent left unset is as good as set, the threshold decides; an agent that
\* does not attest coverage imports with it off.  The threshold is that of the
\* engagement's type (0, 1 or 2), unless the import brings one.
ImportMisses(t, closeAbsent, threshold) ==
  LET counted == IF absences[t] < MaxAbsences THEN absences[t] + 1 ELSE absences[t]
      closes  == closeAbsent /\ threshold > 0 /\ counted >= threshold
  IN  /\ absences[t] # None
      /\ finding.state \in OpenStates
      /\ absences' = [absences EXCEPT ![t] = counted]
      /\ finding' = IF closes THEN ClosedAbsent(Clean(finding)) ELSE Clean(finding)
      /\ UNCHANGED <<clock, warned, acceptances>>

-----------------------------------------------------------------------------
(* Operators, tickets and workflows. *)

\* POST /findings/{id}/transition and the bulk form.
Transition(target) ==
  /\ CanTransition(finding.state, target)
  /\ finding' = Through(Clean(finding), <<target>>)
  /\ UNCHANGED <<clock, warned, absences, acceptances>>

\* POST /findings/{id}/accept-risk; a finding accepted before only has its
\* date replaced.
AcceptRisk(until) ==
  LET route == IF finding.state = "accepted_risk" THEN <<>> ELSE <<"accepted_risk">>
  IN  /\ finding.state = "accepted_risk" \/ CanTransition(finding.state, "accepted_risk")
      /\ finding' = [Through(Clean(finding), route) EXCEPT !.until = until]
      /\ UNCHANGED <<clock, warned, absences, acceptances>>

\* POST /findings/bulk-assign: no state changes.
Assign(owner) ==
  /\ finding' = [Clean(finding) EXCEPT !.owner = owner]
  /\ UNCHANGED <<clock, warned, absences, acceptances>>

\* A remediation ticket of the finding is resolved (ticketing.transition_ticket).
ResolveTicket ==
  /\ finding.state \notin Reopenable
  /\ finding' = Advanced(Clean(finding), "remediated")
  /\ UNCHANGED <<clock, warned, absences, acceptances>>

\* A workflow fired by a ticket moves the finding (transition_finding).
RunWorkflow(target) ==
  /\ finding' = Advanced(Clean(finding), target)
  /\ UNCHANGED <<clock, warned, absences, acceptances>>

\* PATCH /sla/{id}: deadlines of open findings are computed again.
UpdateSla(policy) ==
  /\ finding.state \in OpenStates
  /\ finding' = Timed(Clean(finding), policy)
  /\ UNCHANGED <<clock, warned, absences, acceptances>>

-----------------------------------------------------------------------------
(* Risk acceptances. *)

RequestAcceptance(a, expires, reactivate, restart) ==
  /\ acceptances[a].state = "unknown"
  /\ acceptances' = [acceptances EXCEPT ![a] =
       [state |-> "pending", previous |-> "new", expires |-> expires,
        reactivate |-> reactivate, restart |-> restart]]
  /\ finding' = Clean(finding)
  /\ UNCHANGED <<clock, warned, absences>>

\* approve, by somebody else than the requester: from any state of the finding.
Approve(a) ==
  /\ acceptances[a].state = "pending"
  /\ acceptances' = [acceptances EXCEPT ![a].state = "active",
                                        ![a].previous = finding.state]
  /\ finding' = [Written(Clean(finding), "accepted_risk")
                   EXCEPT !.until = acceptances[a].expires]
  /\ UNCHANGED <<clock, warned, absences>>

Reject(a) ==
  /\ acceptances[a].state = "pending"
  /\ acceptances' = [acceptances EXCEPT ![a].state = "rejected"]
  /\ finding' = Clean(finding)
  /\ UNCHANGED <<clock, warned, absences>>

Revoke(a, policy) ==
  /\ acceptances[a].state = "active"
  /\ acceptances' = [acceptances EXCEPT ![a].state = "revoked"]
  /\ finding' = Reactivated(Clean(finding), acceptances[a], policy)
  /\ UNCHANGED <<clock, warned, absences>>

DueAcceptances ==
  {a \in Acceptances : /\ acceptances[a].state = "active"
                       /\ acceptances[a].expires # None
                       /\ acceptances[a].expires <= clock}

\* expire_due.  The rows come in no order, and the first that reactivates takes
\* the finding out of accepted_risk, so that the others leave it alone.
ExpireDue(policy) ==
  LET releasing == {a \in DueAcceptances : acceptances[a].reactivate}
  IN  /\ acceptances' = [a \in Acceptances |->
            IF a \in DueAcceptances THEN [acceptances[a] EXCEPT !.state = "expired"]
            ELSE acceptances[a]]
      /\ \/ /\ releasing = {}
            /\ finding' = Clean(finding)
         \/ \E a \in releasing :
               finding' = Reactivated(Clean(finding), acceptances[a], policy)
      /\ UNCHANGED <<clock, warned, absences>>

-----------------------------------------------------------------------------
(* The SLA sweep and the clock. *)

\* Only a finding that was warned is marked.
Bug_OverdueWarned == clock > finding.due /\ ~finding.breached /\ warned

Overdue == clock > finding.due /\ ~finding.breached

\* warn_at_percent of the window has passed, on time, and nobody was told.
WarningDue ==
  LET window == finding.due - finding.detected
      total  == IF window > 1 THEN window ELSE 1
  IN  /\ ~finding.breached
      /\ clock <= finding.due
      /\ (clock - finding.detected) * 100 >= WarnAt[finding.policy] * total
      /\ ~warned

\* The steps of the ladder whose hours have passed are the first k.
LadderReached(k) ==
  \A j \in DOMAIN Ladder : j <= k <=> clock - finding.detected >= Ladder[j]

\* evaluate_findings, then the workflows its events fire, one of which may move
\* the finding.
Sweep(level, target) ==
  LET escalates == level > finding.level
      swept == [Clean(finding) EXCEPT
                  !.breached = @ \/ Overdue,
                  !.level = IF escalates THEN level ELSE @,
                  !.sla = (IF Overdue THEN {"breached"} ELSE {})
                          \cup (IF WarningDue THEN {"warned"} ELSE {})
                          \cup (IF escalates THEN {"escalated"} ELSE {})]
  IN  /\ finding.state \in OpenStates
      /\ LadderReached(level)
      /\ target = finding.state \/ swept.sla # {}
      /\ finding' = Advanced(swept, target)
      /\ warned' = (warned \/ WarningDue)
      /\ UNCHANGED <<clock, absences, acceptances>>

Tick ==
  /\ clock < MaxClock
  /\ clock' = clock + 1
  /\ finding' = Clean(finding)
  /\ UNCHANGED <<warned, absences, acceptances>>

-----------------------------------------------------------------------------
SweepNext == \E level \in 0 .. Len(Ladder), target \in Targets \cup {finding.state} :
                Sweep(level, target)

ImportNext ==
  \E t \in Tests :
     \/ \E policy \in Policies, owner \in Owners \cup {Nobody} :
           ImportSees(t, policy, owner)
     \/ \E closeAbsent \in BOOLEAN, threshold \in 0 .. MaxAbsences :
           ImportMisses(t, closeAbsent, threshold)

CorrelateNext == \E policy \in Policies, owner \in Owners \cup {Nobody} :
                    Correlate(policy, owner)

OperatorNext ==
  \/ \E target \in Targets : Transition(target) \/ RunWorkflow(target)
  \/ \E until \in Dates : AcceptRisk(until)
  \/ \E owner \in Owners \cup {Nobody} : Assign(owner)
  \/ \E policy \in Policies : UpdateSla(policy)
  \/ ResolveTicket

ExpiryNext == \E policy \in Policies : ExpireDue(policy)

AcceptanceNext ==
  \/ \E a \in Acceptances :
        \/ \E expires \in Dates, reactivate, restart \in BOOLEAN :
              RequestAcceptance(a, expires, reactivate, restart)
        \/ Approve(a)
        \/ Reject(a)
        \/ \E policy \in Policies : Revoke(a, policy)
  \/ ExpiryNext

Next == SweepNext \/ ImportNext \/ CorrelateNext \/ OperatorNext \/ AcceptanceNext \/ Tick

Spec == Init /\ [][Next]_vars

\* veyrs-maintenance.timer runs the sweep every hour, and time passes.  No timer
\* and no command runs expire_due, and nobody is bound to call its endpoint.
FairSpec == Spec /\ WF_vars(SweepNext) /\ WF_vars(Tick)

-----------------------------------------------------------------------------
(* Properties that hold. *)

TypeOK ==
  /\ clock \in Time
  /\ finding \in Finding
  /\ warned \in BOOLEAN
  /\ absences \in [Tests -> {None} \cup 0 .. MaxAbsences]
  /\ acceptances \in [Acceptances -> Acceptance]

\* No sequence of re-detections, acceptances, restarts and policy edits gives a
\* finding more than the window of its policy, counted from its detection
\* (sla.apply_sla, engagements._reactivate: "an acceptance cannot launder an
\* already-overdue finding into a fresh SLA window").
OneWindow == finding.due <= finding.detected + Window[finding.policy]

\* A breach is forgotten only when the clock is started again: closing,
\* reassigning, accepting or re-rating a finding leaves it breached
\* (Finding.sla_breached).
BreachSticks ==
  [][finding.breached /\ ~finding'.breached => finding'.detected = clock]_vars

\* The escalation level falls only when the clock is started again, so that no
\* level is announced twice for one detection: not when the finding is accepted,
\* released, re-rated or swept (evaluate_findings, Finding.escalation_level).
EscalationClimbs ==
  [][finding'.level < finding.level => finding'.detected = clock]_vars

\* The moves of the last transaction, each with the state it started from.
Hops(from, moves) ==
  {[from |-> IF i = 1 THEN from ELSE moves[i - 1], to |-> moves[i]] :
     i \in DOMAIN moves}

\* The moves made beside the graph: a regression, a closure by absence, an
\* approved acceptance and the end of one.
BesideTheGraph(hop) ==
  \/ hop.from \in Reopenable /\ hop.to = "new"
  \/ hop.from \in OpenStates /\ hop.to = "remediated"
  \/ hop.to = "accepted_risk"
  \/ hop.from = "accepted_risk" /\ hop.to \in OpenStates

\* Whatever moves a finding, and however many states it walks in one
\* transaction, the events account for the whole way, hop by hop, and every hop
\* is an allowed transition or one of the four the services write themselves: a
\* false positive, say, is never closed by an import (FindingEvent).
MovesAreAccounted ==
  [][/\ \A hop \in Hops(finding.state, finding'.moves) :
          CanTransition(hop.from, hop.to) \/ BesideTheGraph(hop)
     /\ finding'.state = IF finding'.moves = <<>> THEN finding.state
                         ELSE finding'.moves[Len(finding'.moves)]]_vars

\* A scan that sees the finding does not leave it among those believed fixed,
\* whatever the other tests, the assignment rules and the SLA do with it in the
\* same transaction (correlation.ensure_finding, "a failed patch would silently
\* vanish from the queue").
SeenIsNotFixed ==
  [][(\E t \in Tests, policy \in Policies, owner \in Owners \cup {Nobody} :
        ImportSees(t, policy, owner)) => finding'.state \notin Reopenable]_vars

\* Acceptance a ends and is meant to put the finding back.
Releases(a) ==
  /\ acceptances[a].state = "active"
  /\ \/ acceptances'[a].state = "revoked"
     \/ acceptances'[a].state = "expired" /\ acceptances[a].reactivate

\* Whichever acceptances end together, a finding one of them kept accepted is
\* open again afterwards, has no acceptance date left and has its deadline
\* counted from its detection (engagements._reactivate).
ReleaseReopens ==
  [][(\E a \in Acceptances : Releases(a)) /\ finding.state = "accepted_risk"
     => /\ finding'.state \in OpenStates
        /\ finding'.until = None
        /\ finding'.due = finding'.detected + Window[finding'.policy]]_vars

\* The clock of a finding is started again by a regression and by an acceptance
\* that says so; by nothing else, so that a deadline cannot be pushed out by
\* accepting and revoking (engagements._reactivate, ensure_finding).
ClockRestartsOnPurpose ==
  [][finding'.detected # finding.detected
     => \/ finding.state \in Reopenable /\ finding'.moves # <<>>
           /\ finding'.moves[1] = "new"
        \/ \E a \in Acceptances : Releases(a) /\ acceptances[a].restart]_vars

\* A finding that stays open and overdue is marked breached by a later sweep
\* (evaluate_findings, run by veyrs-maintenance.timer).
OverdueIsBreached ==
  (finding.state \in OpenStates /\ clock > finding.due)
    ~> (finding.breached \/ finding.state \notin OpenStates \/ clock <= finding.due)

\* The marks of a late finding are taken off only with a new detection: its breach
\* and the level that was announced (Finding.sla_breached, escalation_level).
MarksAreKept == BreachSticks /\ EscalationClimbs

-----------------------------------------------------------------------------
(* What the documents say and the code does otherwise. *)

\* "reopened as a regression ... and the SLA clock restarts" (USER_GUIDE).
RegressionRestartsSla ==
  [][finding.state \in Reopenable /\ finding'.detected # finding.detected
       /\ finding'.moves # <<>> /\ finding'.moves[1] = "new"
     => finding'.due = finding'.detected + Window[finding'.policy]]_vars
=============================================================================
