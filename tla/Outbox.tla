------------------------------- MODULE Outbox -------------------------------
(***************************************************************************)
(* Notifications: rows queued by the transaction of what they tell about,    *)
(* and the dispatcher that mails them (services/notifications, the inbox of  *)
(* api/v1/tickets).  The digest queues its rows and dispatches them in one   *)
(* transaction, on the timer or from the console, and any administrator may  *)
(* flush the queue meanwhile.  A dispatcher loads its batch once, mails it   *)
(* row by row, and writes what became of it at the end.                      *)
(***************************************************************************)
EXTENDS Integers, FiniteSets

CONSTANTS
  Notices,      \* rows, numbered in the order they are created
  Mailed,       \* those on the email channel; the others are read in the console
  Dispatchers,  \* processes that may flush the queue at the same time
  MaxTries,     \* attempts before a row is given up (5)
  BatchLimit,   \* rows of a batch (200)
  MaxCrashes    \* bound: dispatchers that die

ASSUME OutboxAssumption ==
  /\ Notices \subseteq Nat /\ Mailed \subseteq Notices
  /\ MaxTries \in Nat \ {0} /\ BatchLimit \in Nat \ {0} /\ MaxCrashes \in Nat

VARIABLES
  outbox,      \* the committed rows
  dispatcher,  \* each process: the rows it loaded or made, and what became of them
  smtpEnabled, \* notify_email_enabled
  mailings,    \* history: transport attempts of each row, and how many delivered it
  excused,     \* history: rows of a dispatcher that died, or that two had at once
  crashes

outboxVars == <<outbox, dispatcher, smtpEnabled, mailings, excused, crashes>>

Notification == [status : {"none", "pending", "sent", "failed"}, attempts : 0 .. MaxTries]
Missing == [status |-> "none", attempts |-> 0]
Pending == [status |-> "pending", attempts |-> 0]

Asleep == [step |-> "idle", batch |-> {}, todo |-> {}, own |-> {},
           copy |-> [n \in Notices |-> Missing]]

OutboxInit ==
  /\ outbox = [n \in Notices |-> Missing]
  /\ dispatcher = [d \in Dispatchers |-> Asleep]
  /\ smtpEnabled \in BOOLEAN
  /\ mailings = [n \in Notices |-> [tried |-> 0, delivered |-> 0]]
  /\ excused = {} /\ crashes = 0

-----------------------------------------------------------------------------
(* queue *)

\* The next row to be made: nobody has it, committed or not.
Unmade ==
  {n \in Notices : outbox[n].status = "none" /\ \A d \in Dispatchers : n \notin dispatcher[d].own}

Earliest(n, rows) == n \in rows /\ \A m \in rows : n <= m

\* queue, in the transaction of a sweep, a ticket or a rule.  A recipient who muted
\* the event and the channel gets no row.
Queue ==
  /\ \E n \in Notices : Earliest(n, Unmade) /\ outbox' = [outbox EXCEPT ![n] = Pending]
  /\ UNCHANGED <<dispatcher, smtpEnabled, mailings, excused, crashes>>

-----------------------------------------------------------------------------
(* dispatch *)

\* The oldest rows with attempts left, those that nothing can deliver left out of
\* the batch and not skipped in it.
Loadable(own) ==
  {n \in Notices : /\ n \in own \/ (outbox[n].status = "pending" /\ outbox[n].attempts < MaxTries)
                   /\ n \in Mailed => smtpEnabled}

Oldest(rows) == {n \in rows : Cardinality({m \in rows : m < n}) < BatchLimit}

BeginBatch(d, own) ==
  LET batch == Oldest(Loadable(own))
      held == UNION {dispatcher[e].batch : e \in Dispatchers \ {d}}
  IN  /\ dispatcher[d].step = "idle"
      /\ dispatcher' = [dispatcher EXCEPT ![d] =
           [step |-> "sending", batch |-> batch, todo |-> batch, own |-> own,
            copy |-> [n \in Notices |-> IF n \in own THEN Pending
                                        ELSE IF n \in batch THEN outbox[n] ELSE Missing]]]
      /\ excused' = excused \cup (batch \cap held)
      /\ UNCHANGED <<outbox, smtpEnabled, mailings, crashes>>

\* POST /notifications/dispatch
Flush(d) == BeginBatch(d, {})

\* digest.run and dispatch in one transaction: the new row is this session's alone.
SendDigest(d) == \E n \in Notices : Earliest(n, Unmade) /\ BeginBatch(d, {n})

\* What the row of a dispatcher becomes after an attempt.
Bug_Outcome(row, delivered) ==
  [attempts |-> row.attempts + 1,
   status |-> IF delivered THEN "sent" ELSE "failed"]

Outcome(row, delivered) ==
  [attempts |-> row.attempts + 1,
   status |-> IF delivered THEN "sent"
              ELSE IF row.attempts + 1 >= MaxTries THEN "failed" ELSE "pending"]

\* An in-app row is delivered by being there; a mail may fail.
Attempt(d, n, delivered) ==
  /\ Earliest(n, dispatcher[d].todo)
  /\ delivered \/ n \in Mailed
  /\ dispatcher' = [dispatcher EXCEPT ![d].todo = @ \ {n},
                                      ![d].copy[n] = Outcome(@, delivered)]
  /\ mailings' = [mailings EXCEPT ![n].tried = @ + 1,
                                  ![n].delivered = IF delivered THEN @ + 1 ELSE @]
  /\ UNCHANGED <<outbox, smtpEnabled, excused, crashes>>

\* The columns that changed: a status that is still pending is not written over
\* another dispatcher's.
Written(d, n) ==
  LET copy == dispatcher[d].copy[n] IN
  IF n \in dispatcher[d].own THEN copy
  ELSE [copy EXCEPT !.status = IF @ = "pending" THEN outbox[n].status ELSE @]

CommitBatch(d) ==
  /\ dispatcher[d].step = "sending" /\ dispatcher[d].todo = {}
  /\ outbox' = [n \in Notices |-> IF n \in dispatcher[d].batch \cup dispatcher[d].own
                                  THEN Written(d, n) ELSE outbox[n]]
  /\ dispatcher' = [dispatcher EXCEPT ![d] = Asleep]
  /\ UNCHANGED <<smtpEnabled, mailings, excused, crashes>>

\* The process dies: nothing of the batch was written, and what it mailed is mailed.
DieDispatching(d) ==
  /\ dispatcher[d].step = "sending" /\ crashes < MaxCrashes
  /\ crashes' = crashes + 1
  /\ excused' = excused \cup dispatcher[d].batch
  /\ dispatcher' = [dispatcher EXCEPT ![d] = Asleep]
  /\ UNCHANGED <<outbox, smtpEnabled, mailings>>

OutboxNext ==
  \/ Queue
  \/ \E d \in Dispatchers :
       \/ Flush(d) \/ SendDigest(d) \/ CommitBatch(d) \/ DieDispatching(d)
       \/ \E n \in Notices, ok \in BOOLEAN : Attempt(d, n, ok)

OutboxSpec == OutboxInit /\ [][OutboxNext]_outboxVars

-----------------------------------------------------------------------------
OutboxTypeOK ==
  /\ outbox \in [Notices -> Notification]
  /\ \A d \in Dispatchers :
       /\ dispatcher[d].step \in {"idle", "sending"}
       /\ dispatcher[d].todo \subseteq dispatcher[d].batch
       /\ dispatcher[d].batch \subseteq Notices /\ dispatcher[d].own \subseteq Notices
       /\ dispatcher[d].copy \in [Notices -> Notification]
  /\ smtpEnabled \in BOOLEAN
  /\ mailings \in [Notices -> [tried : Nat, delivered : Nat]]
  /\ excused \subseteq Notices /\ crashes \in 0 .. MaxCrashes

\* "A transient SMTP outage does not silently drop a breach notice": a row is given
\* up only after MaxTries real attempts, however many dispatchers and crashes there
\* were, and a row that reads sent was delivered.
GivesUpLate ==
  \A n \in Notices :
     /\ outbox[n].status = "failed" => mailings[n].tried >= MaxTries
     /\ outbox[n].status = "sent" => mailings[n].delivered > 0

\* "Safe to call repeatedly": nobody is mailed the same row twice, and a row that
\* was delivered is never tried again, unless two dispatchers had loaded it at once
\* or the one that mailed it died before it wrote so.
MailedOnce ==
  \A n \in Notices \ excused :
     /\ mailings[n].delivered <= 1
     /\ mailings[n].delivered = 1 => outbox[n].status \notin {"failed"}

\* What two dispatchers over one outbox owe the people in it
\* (notifications.dispatch, digest.run).
NoticesAreAccounted == GivesUpLate /\ MailedOnce
=============================================================================
