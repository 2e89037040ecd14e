------------------------------ MODULE Ticketing ------------------------------
(***************************************************************************)
(* How remediation work is opened and moved: POST /tickets, the one route   *)
(* for a finding's remediation, workflows, the automation that considers    *)
(* every finding an import processes, and its backfill (services/ticketing, *)
(* services/autoticket, services/remediation, services/ticketing_mode,      *)
(* api/v1/tickets).                                                         *)
(*                                                                          *)
(* A server thread runs a transaction: it looks (what exists, what the      *)
(* budget leaves), then takes a reference from the counter of the type,     *)
(* whose row it keeps locked until it ends, or raises an issue in the       *)
(* external system, which no rollback undoes.  SELECTs see what others      *)
(* committed before the statement and what the transaction itself flushed.  *)
(***************************************************************************)
EXTENDS Integers, FiniteSets, Sequences, TicketGraph
LOCAL INSTANCE FiniteSetsExt

CONSTANTS
  Findings,
  Threads,       \* server threads
  Users,         \* who requests and approves
  Admins,        \* users with ticket:admin
  NoOne,         \* NULL, where a user, a thread or a finding is expected
  Cap,           \* max_per_run of the automation's policy
  Limit,         \* the limit a backfill is called with
  Traffics       \* the mixes considered: the events, the tickets, the modes to begin in

ASSUME TicketingAssumption ==
  /\ NoOne \notin Findings \cup Threads \cup Users
  /\ Admins \subseteq Users
  /\ Cap \in Nat \ {0} /\ Limit \in Nat \ {0} /\ IsFiniteSet(Threads)
  /\ \A t \in Traffics : t.most \in Nat /\ t.modes \subseteq [enabled : BOOLEAN, external : BOOLEAN]

VARIABLES
  tickets,    \* committed tickets, in the order of their commits
  counter,    \* last_value of each type's TicketCounter, Missing without a row
  holder,     \* the thread that locks that row, or has inserted it
  condition,  \* of each finding: open, remediated (open to the code) or shut
  link,       \* the ExternalLink of each finding
  issues,     \* issues the external system holds for it
  lost,       \* of those, the ones whose transaction was rolled back
  mode,       \* the automation's switch and where remediation work is kept
  tx,         \* the transaction of each thread
  traffic     \* the mix of events, chosen at the start

ticketingVars ==
  <<tickets, counter, holder, condition, link, issues, lost, mode, tx, traffic>>

Missing == -1

Row == [type : TicketTypes, state : TicketStates, finding : Findings \cup {NoOne},
        ref : Nat, auto : BOOLEAN, recent : BOOLEAN, requester : Users \cup {NoOne},
        approved : BOOLEAN, approver : Users \cup {NoOne}]

\* A state the graph does not know.
Bug_NewTicket(type, f, ref, auto, requester) ==
  [type |-> type, state |-> "new", finding |-> f, ref |-> ref, auto |-> auto,
   recent |-> TRUE, requester |-> requester, approved |-> FALSE, approver |-> NoOne]

NewTicket(type, f, ref, auto, requester) ==
  [type |-> type, state |-> "open", finding |-> f, ref |-> ref, auto |-> auto,
   recent |-> TRUE, requester |-> requester, approved |-> FALSE, approver |-> NoOne]

\* active is is_active; recent, created within the budget's window.
Link == [exists : BOOLEAN, active : BOOLEAN, recent : BOOLEAN]
NoLink == [exists |-> FALSE, active |-> FALSE, recent |-> FALSE]
FreshLink == [exists |-> TRUE, active |-> TRUE, recent |-> TRUE]

Tx == [op : {"idle", "import", "backfill", "request", "create", "move"},
       phase : {"look", "select", "insert", "push"}, todo : SUBSET Findings,
       want : Findings \cup {NoOne}, type : TicketTypes, by : Users \cup {NoOne},
       made : Seq(Row), last : [TicketTypes -> Nat \cup {Missing}],
       pushed : SUBSET Findings, moving : Nat, copy : TicketStates]

IdleTx ==
  [op |-> "idle", phase |-> "look", todo |-> {}, want |-> NoOne,
   type |-> "remediation", by |-> NoOne, made |-> <<>>,
   last |-> [t \in TicketTypes |-> Missing], pushed |-> {}, moving |-> 0,
   copy |-> "open"]

-----------------------------------------------------------------------------
(* What a transaction sees. *)

SeenTickets(w) == tickets \o tx[w].made
SeenLink(w, f) == IF f \in tx[w].pushed THEN FreshLink ELSE link[f]

\* open_ticket_for_finding
OpenTicketSeen(w, f) ==
  \E i \in DOMAIN SeenTickets(w) :
     LET t == SeenTickets(w)[i]
     IN  t.finding = f /\ t.type = "remediation" /\ t.state \in OpenTicketStates

\* existing_for_finding: in the queue of the current mode only.
Existing(w, f) == IF mode.external THEN SeenLink(w, f).active ELSE OpenTicketSeen(w, f)

\* recent_auto_created: tickets the automation opened, or any external links.
RecentAutoCreated(w) ==
  IF mode.external
  THEN Cardinality({f \in Findings : SeenLink(w, f).recent})
  ELSE Cardinality({i \in DOMAIN SeenTickets(w) :
                      SeenTickets(w)[i].auto /\ SeenTickets(w)[i].recent})

BudgetLeft(w) == RecentAutoCreated(w) < Cap

\* Bound: whether one more ticket or issue may be begun.
RoomLeft ==
  LET Begun(w) == Len(tx[w].made) + (IF tx[w].phase = "look" THEN 0 ELSE 1)
  IN  Len(tickets) + MapThenSumSet(Begun, Threads) < traffic.most

\* autoticket.matches, as far as the state decides: remediated is in OPEN_STATES.
\* Scores, severities, exposure and owners may always reject a finding (Skip).
Matches(f) == condition[f] \in {"open", "remediated"}

\* consider, and backfill up to its limit.
Considers(f, w) == mode.enabled /\ Matches(f) /\ BudgetLeft(w)
Backfills(f, w) == Matches(f) /\ Len(tx[w].made) + Cardinality(tx[w].pushed) < Limit

\* Whether the transaction wants remediation work for f: a request or a workflow
\* asks for it whatever its state.
Earns(w, f) ==
  CASE tx[w].op = "import"   -> Considers(f, w)
    [] tx[w].op = "backfill" -> Backfills(f, w)
    [] OTHER                 -> TRUE

\* require_internal
RequireInternal == ~mode.external

-----------------------------------------------------------------------------
(* Opening work. *)

Begin(w, op, t) ==
  /\ op \in traffic.events
  /\ tx[w].op = "idle"
  /\ tx' = [tx EXCEPT ![w] = [t EXCEPT !.op = op]]
  /\ UNCHANGED <<tickets, counter, holder, condition, link, issues, lost, mode, traffic>>

\* An import, or another batch that processes findings S.
ImportBegin(w, S) == Begin(w, "import", [IdleTx EXCEPT !.todo = S])

\* POST /tickets/automation/backfill with dry_run off, over the open findings.
BackfillBegin(w) ==
  Begin(w, "backfill", [IdleTx EXCEPT !.todo = {f \in Findings : Matches(f)}])

\* POST /findings/{id}/remediation
RemediationBegin(w, f) == Begin(w, "request", [IdleTx EXCEPT !.todo = {f}])

\* POST /tickets: refused in external mode; a remediation ticket of a finding
\* that has an open one is not opened again.
CreateBegin(w, type, f, user) ==
  /\ RequireInternal
  /\ type = "remediation" /\ f # NoOne => ~OpenTicketSeen(w, f)
  /\ RoomLeft
  /\ Begin(w, "create", [IdleTx EXCEPT !.want = f, !.type = type, !.by = user,
                                       !.phase = "select"])

\* A finding earns nothing, has work already, or is rejected by the policy.
Skip(w, f) ==
  /\ tx[w].phase = "look" /\ f \in tx[w].todo
  /\ tx' = [tx EXCEPT ![w].todo = @ \ {f}]
  /\ UNCHANGED <<tickets, counter, holder, condition, link, issues, lost, mode, traffic>>

\* open_for_finding up to the point where something is written.
Look(w, f) ==
  /\ tx[w].phase = "look" /\ f \in tx[w].todo
  /\ Earns(w, f)
  /\ ~Existing(w, f)
  /\ RoomLeft
  /\ tx' = [tx EXCEPT ![w].todo = @ \ {f}, ![w].want = f,
                      ![w].phase = IF mode.external THEN "push" ELSE "select"]
  /\ UNCHANGED <<tickets, counter, holder, condition, link, issues, lost, mode, traffic>>

\* create_ticket with the reference n.
Opened(w, n) ==
  LET t == tx[w]
  IN  [t EXCEPT !.made = Append(@, NewTicket(t.type, t.want, n, t.op = "import", t.by)),
                !.last[t.type] = n, !.want = NoOne, !.phase = "look"]

\* next_reference: SELECT ... FOR UPDATE.  It waits for the row's lock; a row
\* somebody inserted and did not commit is not seen at all.
SelectCounter(w) ==
  LET type == tx[w].type
      own  == tx[w].last[type]
  IN  /\ tx[w].phase = "select"
      /\ \/ /\ own # Missing
            /\ tx' = [tx EXCEPT ![w] = Opened(w, own + 1)]
            /\ UNCHANGED holder
         \/ /\ own = Missing /\ counter[type] = Missing
            /\ tx' = [tx EXCEPT ![w].phase = "insert"]
            /\ UNCHANGED holder
         \/ /\ own = Missing /\ counter[type] # Missing
            /\ holder[type] = NoOne
            /\ holder' = [holder EXCEPT ![type] = w]
            /\ tx' = [tx EXCEPT ![w] = Opened(w, counter[type] + 1)]
      /\ UNCHANGED <<tickets, counter, condition, link, issues, lost, mode, traffic>>

\* next_reference: the first row of a type.  The unique index makes a second
\* inserter wait for the first, and fail if that one commits (Abort).
InsertCounter(w) ==
  LET type == tx[w].type
  IN  /\ tx[w].phase = "insert"
      /\ holder[type] = NoOne /\ counter[type] = Missing
      /\ holder' = [holder EXCEPT ![type] = w]
      /\ tx' = [tx EXCEPT ![w] = Opened(w, 1)]
      /\ UNCHANGED <<tickets, counter, condition, link, issues, lost, mode, traffic>>

\* push_finding: the issue is raised at once; a link that was detached is used
\* again, and its issue updated.
PushFinding(w) ==
  LET f == tx[w].want
  IN  /\ tx[w].phase = "push"
      /\ \A v \in Threads \ {w} : f \notin tx[v].pushed
      /\ issues[f] < traffic.most
      /\ issues' = [issues EXCEPT ![f] = IF link[f].exists THEN @ ELSE @ + 1]
      /\ \/ /\ ~link[f].active
            /\ tx' = [tx EXCEPT ![w].pushed = @ \cup {f}, ![w].want = NoOne,
                                ![w].phase = "look"]
            /\ UNCHANGED lost
         \/ /\ link[f].active
            /\ tx' = [tx EXCEPT ![w].want = NoOne, ![w].phase = "look"]
            /\ UNCHANGED lost
      /\ UNCHANGED <<tickets, counter, holder, condition, link, mode, traffic>>

Released(w) == [t \in TicketTypes |-> IF holder[t] = w THEN NoOne ELSE holder[t]]

CommitWork(w) ==
  LET t == tx[w]
  IN  /\ t.op \in {"import", "backfill", "request", "create"}
      /\ t.phase = "look" /\ t.todo = {}
      /\ tickets' = tickets \o t.made
      /\ counter' = [k \in TicketTypes |->
                       IF t.last[k] = Missing THEN counter[k] ELSE t.last[k]]
      /\ holder' = Released(w)
      /\ link' = [f \in Findings |-> IF f \in t.pushed THEN
                    [exists |-> TRUE, active |-> TRUE,
                     recent |-> IF link[f].exists THEN link[f].recent ELSE TRUE]
                    ELSE link[f]]
      /\ tx' = [tx EXCEPT ![w] = IdleTx]
      /\ UNCHANGED <<condition, issues, lost, mode, traffic>>

\* A rollback: a lost connection, a worker that dies, a unique index, an external
\* system that refuses, a deadlock PostgreSQL resolves.  Issues stay raised.
Abort(w) ==
  /\ tx[w].op # "idle"
  /\ lost' = [f \in Findings |->
                IF f \in tx[w].pushed /\ ~link[f].exists THEN lost[f] + 1 ELSE lost[f]]
  /\ holder' = Released(w)
  /\ tx' = [tx EXCEPT ![w] = IdleTx]
  /\ UNCHANGED <<tickets, counter, condition, link, issues, mode, traffic>>

-----------------------------------------------------------------------------
(* Moving tickets. *)

\* POST /tickets/{id}/transition loads the ticket.
MoveBegin(w, i) ==
  /\ i \in DOMAIN tickets
  /\ Begin(w, "move", [IdleTx EXCEPT !.moving = i, !.copy = tickets[i].state])

\* Whoever asks may approve.
Bug_MoveCommit(w, target, user) ==
  LET i == tx[w].moving
      t == tickets[i]
  IN  /\ tx[w].op = "move"
      /\ CanTransitionTicket(t.type, tx[w].copy, target)
      /\ tickets' = [tickets EXCEPT
           ![i].state = target,
           ![i].approved = @ \/ target = "approved",
           ![i].approver = IF target = "approved" THEN user ELSE @]
      /\ tx' = [tx EXCEPT ![w] = IdleTx]
      /\ UNCHANGED <<counter, holder, condition, link, issues, lost, mode, traffic>>

\* transition_ticket.  The graph is asked about the state that was loaded.  A
\* resolved remediation ticket advances its finding.
MoveCommit(w, target, user) ==
  LET i == tx[w].moving
      t == tickets[i]
      advances == target = "resolved" /\ t.type = "remediation" /\ t.finding # NoOne
  IN  /\ tx[w].op = "move"
      /\ CanTransitionTicket(t.type, tx[w].copy, target)
      /\ target = "approved" /\ t.requester = user => user \in Admins
      /\ tickets' = [tickets EXCEPT
           ![i].state = target,
           ![i].approved = @ \/ target = "approved",
           ![i].approver = IF target = "approved" THEN user ELSE @]
      /\ condition' = [f \in Findings |->
           IF advances /\ f = t.finding /\ condition[f] = "open" THEN "remediated"
           ELSE condition[f]]
      /\ tx' = [tx EXCEPT ![w] = IdleTx]
      /\ UNCHANGED <<counter, holder, link, issues, lost, mode, traffic>>

-----------------------------------------------------------------------------
(* What happens around it. *)

\* Findings are verified, closed and found again (FindingLifecycle).
FindingMoves(f, c) ==
  /\ "scan" \in traffic.events
  /\ condition[f] # c
  /\ condition' = [condition EXCEPT ![f] = c]
  /\ UNCHANGED <<tickets, counter, holder, link, issues, lost, mode, tx, traffic>>

\* set_policy
SetPolicy(enabled) ==
  /\ "configure" \in traffic.events
  /\ mode.enabled # enabled
  /\ mode' = [mode EXCEPT !.enabled = enabled]
  /\ UNCHANGED <<tickets, counter, holder, condition, link, issues, lost, tx, traffic>>

\* set_mode, whose connector exists; tickets that are open stay where they are.
SetMode(external) ==
  /\ "configure" \in traffic.events
  /\ mode.external # external
  /\ mode' = [mode EXCEPT !.external = external]
  /\ UNCHANGED <<tickets, counter, holder, condition, link, issues, lost, tx, traffic>>

\* POST /links/{id}/unlink
Unlink(f) ==
  /\ "unlink" \in traffic.events
  /\ link[f].active
  /\ link' = [link EXCEPT ![f].active = FALSE]
  /\ UNCHANGED <<tickets, counter, holder, condition, issues, lost, mode, tx, traffic>>

\* The window of the budget passes; a transaction is shorter than it.
HourPasses ==
  /\ "hour" \in traffic.events
  /\ \A w \in Threads : tx[w].op = "idle"
  /\ tickets' = [i \in DOMAIN tickets |-> [tickets[i] EXCEPT !.recent = FALSE]]
  /\ link' = [f \in Findings |-> [link[f] EXCEPT !.recent = FALSE]]
  /\ UNCHANGED <<counter, holder, condition, issues, lost, mode, tx, traffic>>

-----------------------------------------------------------------------------
TicketingInit ==
  /\ tickets = <<>>
  /\ counter = [t \in TicketTypes |-> Missing]
  /\ holder = [t \in TicketTypes |-> NoOne]
  /\ condition = [f \in Findings |-> "open"]
  /\ link = [f \in Findings |-> NoLink]
  /\ issues = [f \in Findings |-> 0]
  /\ lost = [f \in Findings |-> 0]
  /\ tx = [w \in Threads |-> IdleTx]
  /\ traffic \in Traffics
  /\ mode \in traffic.modes

WorkNext(w) ==
  \/ \E S \in SUBSET Findings \ {{}} : ImportBegin(w, S)
  \/ BackfillBegin(w)
  \/ \E f \in Findings : RemediationBegin(w, f) \/ Skip(w, f) \/ Look(w, f)
  \/ \E type \in TicketTypes, f \in Findings \cup {NoOne}, user \in Users :
        (type = "change" => f = NoOne) /\ CreateBegin(w, type, f, user)
  \/ SelectCounter(w) \/ InsertCounter(w) \/ PushFinding(w)
  \/ CommitWork(w) \/ Abort(w)
  \/ \E i \in 1 .. Len(tickets) : MoveBegin(w, i)
  \/ \E target \in TicketStates, user \in Users : MoveCommit(w, target, user)

AroundNext ==
  \/ \E f \in Findings : Unlink(f) \/ \E c \in {"open", "shut"} : FindingMoves(f, c)
  \/ \E b \in BOOLEAN : SetPolicy(b) \/ SetMode(b)
  \/ HourPasses

TicketingNext == AroundNext \/ \E w \in Threads : WorkNext(w)

TicketingSpec == TicketingInit /\ [][TicketingNext]_ticketingVars

-----------------------------------------------------------------------------
TicketingTypeOK ==
  /\ tickets \in Seq(Row)
  /\ counter \in [TicketTypes -> Nat \cup {Missing}]
  /\ holder \in [TicketTypes -> Threads \cup {NoOne}]
  /\ condition \in [Findings -> {"open", "remediated", "shut"}]
  /\ link \in [Findings -> Link]
  /\ issues \in [Findings -> Nat] /\ lost \in [Findings -> Nat]
  /\ mode \in [enabled : BOOLEAN, external : BOOLEAN]
  /\ tx \in [Threads -> Tx]
  /\ traffic \in Traffics

\* The references of each type are 1, 2, 3 ... without gap or repetition, with
\* concurrent transactions, rollbacks and a first ticket opened twice at the
\* same time (next_reference, UNIQUE (organization_id, reference)).
ReferencesAreDense ==
  \A type \in TicketTypes :
     LET of == {i \in DOMAIN tickets : tickets[i].type = type}
     IN  /\ {tickets[i].ref : i \in of} = 1 .. Cardinality(of)
         /\ counter[type] = IF of = {} THEN Missing ELSE Cardinality(of)

\* The budget counts without locking anything.  Tickets are taken one
\* transaction at a time all the same, by the lock of the counter, so that each
\* further transaction adds at most the one it had decided on
\* (autoticket.recent_auto_created).  External issues take no reference: there
\* each transaction spends a budget of its own.
AutomationIsBounded ==
  Cardinality({i \in DOMAIN tickets : tickets[i].auto /\ tickets[i].recent})
    <= Cap + Cardinality(Threads) - 1

\* A change that is or was worked on has been approved, by somebody else than its
\* requester unless that is an administrator, whatever requests raced over it
\* ("Change tickets require approval before they can be scheduled").
ChangesAreApproved ==
  \A i \in DOMAIN tickets :
     LET t == tickets[i]
     IN  t.type = "change" /\ t.state \in WorkStates
         => t.approved /\ (t.approver = t.requester => t.approver \in Admins)

\* Every issue raised for a finding is the one its link names, or belongs to a
\* transaction that is open or was rolled back: unlinking and raising it again
\* makes no second one (itsm.push_finding, "Idempotent per finding").
IssuesAreAccounted ==
  \A f \in Findings :
     issues[f] = lost[f] + (IF link[f].exists THEN 1 ELSE 0)
                 + Cardinality({w \in Threads : f \in tx[w].pushed /\ ~link[f].exists})

\* What concurrent transactions owe the work they open (services/ticketing.py,
\* autoticket.py, itsm.py).
WorkIsAccounted ==
  ReferencesAreDense /\ AutomationIsBounded /\ ChangesAreApproved /\ IssuesAreAccounted

-----------------------------------------------------------------------------
(* What the documents say and the code does otherwise. *)

\* "Closed and remediated findings never get one" (services/autoticket).
FixedIsNotTicketed ==
  [][\A w \in Threads, f \in Findings :
       tx[w].op \in {"import", "backfill"} /\ tx[w].want = NoOne /\ tx'[w].want = f
       => condition[f] = "open"]_ticketingVars
=============================================================================
