------------------------------ MODULE ItsmSync ------------------------------
(***************************************************************************)
(* One ticket and its twin in an external system: pushes guarded by a        *)
(* digest, polls, and signed webhooks that arrive late, twice and in any     *)
(* order (services/itsm, services/itsm_inbound, api/v1/integrations).        *)
(*                                                                           *)
(* A push is a transaction with a remote call in its middle: it loads the    *)
(* link, the remote system changes, and the link is written at the end.      *)
(***************************************************************************)
EXTENDS Integers, FiniteSets, TicketGraph

CONSTANTS
  Pushers,      \* requests that push the ticket
  Issues,       \* issues the remote system can be asked for
  NoIssue,
  Statuses,     \* what the remote system calls the states of an issue
  Wanted,       \* the states operators ask for
  Mappings,     \* values of inbound_transitions an operator configures
  MaxMail,      \* bound: webhooks in flight
  MaxSecrets,   \* bound: signing secrets of a connector
  MaxConnectors \* bound: connectors in a row, where pushes race

ASSUME ItsmAssumption ==
  /\ NoIssue \notin Issues
  /\ Statuses # {} /\ [s \in Statuses |-> "unmapped"] \in Mappings
  /\ Mappings \subseteq [Statuses -> TicketStates \cup {"unmapped", "mistyped"}]
  /\ Wanted \subseteq TicketStates
  /\ MaxMail \in Nat /\ MaxSecrets \in Nat /\ MaxConnectors \in Nat

VARIABLES
  connector,   \* the ItsmConnector row, or NoConnector
  ticket,      \* the state of the ticket: all of its payload that changes here
  flaw,        \* its finding: open or remediated
  twin,        \* the ExternalLink row, or NoTwin
  remote,      \* of each issue, the payload it holds and its status
  mail,        \* webhooks in flight
  push,        \* the transaction of each pusher
  unsure,      \* history: an answer of the remote was not recorded as it came
  consent,     \* history: an operator resolved the ticket, or mapped a status so
  aspect       \* bound: pushes race, or the remote system talks back

itsmVars == <<connector, ticket, flaw, twin, remote, mail, push, unsure, consent, aspect>>

Connector == [exists : BOOLEAN, epoch : Nat, enabled : BOOLEAN, inbound : BOOLEAN,
              secret : Nat, mapping : Mappings]
NoMapping == [s \in Statuses |-> "unmapped"]

Twin == [exists : BOOLEAN, issue : Issues \cup {NoIssue}, active : BOOLEAN,
         digest : TicketStates, status : Statuses]
NoTwin == [exists |-> FALSE, issue |-> NoIssue, active |-> FALSE, digest |-> "open",
           status |-> CHOOSE s \in Statuses : TRUE]

Issue == [exists : BOOLEAN, payload : TicketStates, status : Statuses]
Webhook == [issue : Issues, status : Statuses, secret : Nat]
Push == [phase : {"idle", "loaded", "answered"}, payload : TicketStates,
         issue : Issues \cup {NoIssue}, epoch : Nat]
IdlePush == [phase |-> "idle", payload |-> "open", issue |-> NoIssue, epoch |-> 0]

Busy == {w \in Pushers : push[w].phase # "idle"}

-----------------------------------------------------------------------------
(* Connectors. *)

\* create_connector; no secret exists yet.
CreateConnector(inbound, mapping) ==
  /\ ~connector.exists
  /\ connector.epoch < (IF aspect = "inbound" THEN 1 ELSE MaxConnectors)
  /\ aspect = "outbound" => ~inbound /\ mapping = NoMapping
  /\ connector' = [exists |-> TRUE, epoch |-> connector.epoch + 1, enabled |-> TRUE,
                   inbound |-> inbound, secret |-> 0, mapping |-> mapping]
  /\ consent' = (consent \/ \E s \in Statuses : mapping[s] = "resolved")
  /\ UNCHANGED <<ticket, flaw, twin, remote, mail, push, unsure, aspect>>

\* update_connector: inbound needs a secret; what a status maps to is not checked.
UpdateConnector(enabled, inbound, mapping) ==
  /\ connector.exists /\ aspect = "inbound"
  /\ inbound => connector.secret > 0
  /\ connector' = [connector EXCEPT !.enabled = enabled, !.inbound = inbound,
                                    !.mapping = mapping]
  /\ connector' # connector
  /\ consent' = (consent \/ \E s \in Statuses : mapping[s] = "resolved")
  /\ UNCHANGED <<ticket, flaw, twin, remote, mail, push, unsure, aspect>>

\* No secret is minted twice: those of a connector are numbered from its epoch.
RotateInboundSecret ==
  /\ connector.exists /\ aspect = "inbound"
  /\ connector.secret + 1 < MaxSecrets * (connector.epoch + 1)
  /\ connector' = [connector EXCEPT !.secret =
                     IF @ = 0 THEN MaxSecrets * connector.epoch ELSE @ + 1]
  /\ UNCHANGED <<ticket, flaw, twin, remote, mail, push, unsure, consent, aspect>>

\* delete_connector: its links go with it, the issues stay.
DeleteConnector ==
  /\ connector.exists
  /\ connector' = [connector EXCEPT !.exists = FALSE, !.enabled = FALSE,
                     !.inbound = FALSE, !.secret = 0, !.mapping = NoMapping]
  /\ twin' = NoTwin
  /\ UNCHANGED <<ticket, flaw, remote, mail, push, unsure, consent, aspect>>

-----------------------------------------------------------------------------
(* Out: pushes. *)

\* The link is not looked for.
Bug_PushLoad(w) ==
  /\ push[w].phase = "idle" /\ (aspect = "inbound" => Busy = {})
  /\ connector.exists /\ connector.enabled
  /\ push' = [push EXCEPT ![w] = [phase |-> "loaded", payload |-> ticket,
                                  issue |-> NoIssue, epoch |-> connector.epoch]]
  /\ unsure' = (unsure \/ Busy # {})
  /\ UNCHANGED <<connector, ticket, flaw, twin, remote, mail, consent, aspect>>

\* push_ticket up to the remote call; a payload whose digest is the link's is
\* not sent.
PushLoad(w) ==
  /\ push[w].phase = "idle" /\ (aspect = "inbound" => Busy = {})
  /\ connector.exists /\ connector.enabled
  /\ ~(twin.exists /\ twin.digest = ticket)
  /\ push' = [push EXCEPT ![w] = [phase |-> "loaded", payload |-> ticket,
                                  issue |-> twin.issue, epoch |-> connector.epoch]]
  /\ unsure' = (unsure \/ Busy # {})
  /\ UNCHANGED <<connector, ticket, flaw, twin, remote, mail, consent, aspect>>

\* Adapter.create and Adapter.update: the remote system answers.
RemoteAnswers(w) ==
  /\ push[w].phase = "loaded"
  /\ \/ /\ push[w].issue = NoIssue
        /\ \E i \in Issues :
             /\ ~remote[i].exists
             /\ remote' = [remote EXCEPT ![i].exists = TRUE,
                                         ![i].payload = push[w].payload]
             /\ push' = [push EXCEPT ![w].issue = i, ![w].phase = "answered"]
     \/ /\ push[w].issue # NoIssue
        /\ remote' = [remote EXCEPT ![push[w].issue].payload = push[w].payload]
        /\ push' = [push EXCEPT ![w].phase = "answered"]
  /\ UNCHANGED <<connector, ticket, flaw, twin, mail, unsure, consent, aspect>>

\* ItsmError: shown on both rows, committed; the digest stays the one of what the
\* remote last took.
RemoteRefuses(w) ==
  /\ push[w].phase = "loaded"
  /\ push' = [push EXCEPT ![w] = IdlePush]
  /\ UNCHANGED <<connector, ticket, flaw, twin, remote, mail, unsure, consent, aspect>>

\* The rest of push_ticket, and the commit.  A first push inserts the link: the
\* unique key refuses it when another did so, as does a deleted connector.
PushCommit(w) ==
  LET p == push[w]
      first == ~twin.exists
  IN  /\ p.phase = "answered"
      /\ connector.exists /\ p.epoch = connector.epoch
      /\ first \/ twin.issue = p.issue
      /\ \E status \in {twin.status, remote[p.issue].status} :
           twin' = [exists |-> TRUE, issue |-> p.issue, digest |-> p.payload,
                    active |-> IF first THEN TRUE ELSE twin.active,
                    status |-> IF first THEN remote[p.issue].status ELSE status]
      /\ push' = [push EXCEPT ![w] = IdlePush]
      /\ UNCHANGED <<connector, ticket, flaw, remote, mail, unsure, consent, aspect>>

\* A rollback: the worker dies, the connection is lost, a key refuses the row.
PushAbort(w) ==
  /\ push[w].phase # "idle"
  /\ unsure' = (unsure \/ push[w].phase = "answered")
  /\ push' = [push EXCEPT ![w] = IdlePush]
  /\ UNCHANGED <<connector, ticket, flaw, twin, remote, mail, consent, aspect>>

-----------------------------------------------------------------------------
(* In: polls and webhooks. *)

\* pull_status: of the VEYRS side, only the link changes.
PullStatus == twin' = [twin EXCEPT !.status = remote[twin.issue].status]

\* refresh_link
RefreshLink ==
  /\ twin.exists
  /\ PullStatus
  /\ UNCHANGED <<connector, ticket, flaw, remote, mail, push, unsure, consent, aspect>>

\* pull_connector: active links only.
PullConnector ==
  /\ connector.exists /\ twin.active
  /\ PullStatus
  /\ UNCHANGED <<connector, ticket, flaw, remote, mail, push, unsure, consent, aspect>>

\* unlink_link
UnlinkTwin ==
  /\ twin.active
  /\ twin' = [twin EXCEPT !.active = FALSE]
  /\ UNCHANGED <<connector, ticket, flaw, remote, mail, push, unsure, consent, aspect>>

\* mapped_state
MappedState(status) == connector.mapping[status]

\* transition_ticket, if the graph allows it: a resolved remediation ticket
\* advances its finding.
TransitionTo(target) ==
  LET legal == CanTransitionTicket("remediation", ticket, target)
  IN  /\ ticket' = IF legal THEN target ELSE ticket
      /\ flaw' = IF legal /\ target = "resolved" THEN "remediated" ELSE flaw

\* handle_inbound, for an event whose record is linked.
HandleInbound(e) ==
  /\ twin' = [twin EXCEPT !.status = e.status]
  /\ IF MappedState(e.status) \in {"unmapped", ticket} THEN UNCHANGED <<ticket, flaw>>
     ELSE TransitionTo(MappedState(e.status))

\* itsm_webhook: it may be delivered again.
ItsmWebhook(e, again) ==
  /\ e \in mail
  /\ mail' = IF again THEN mail ELSE mail \ {e}
  /\ IF connector.inbound /\ connector.secret = e.secret
           /\ twin.exists /\ twin.issue = e.issue
     THEN HandleInbound(e)
     ELSE UNCHANGED <<ticket, flaw, twin>>
  /\ UNCHANGED <<connector, remote, push, unsure, consent, aspect>>

-----------------------------------------------------------------------------
(* Operators and the remote system. *)

LocalTransition(target) ==
  /\ CanTransitionTicket("remediation", ticket, target)
  /\ TransitionTo(target)
  /\ consent' = (consent \/ target = "resolved")
  /\ UNCHANGED <<connector, twin, remote, mail, push, unsure, aspect>>

\* The finding is found again.
FlawReopens ==
  /\ flaw = "remediated"
  /\ flaw' = "open"
  /\ UNCHANGED <<connector, ticket, twin, remote, mail, push, unsure, consent, aspect>>

\* Somebody moves the issue; the remote system signs with the secret it was given.
RemoteMoves(i, status) ==
  /\ remote[i].exists /\ remote[i].status # status /\ aspect = "inbound"
  /\ remote' = [remote EXCEPT ![i].status = status]
  /\ mail' = IF connector.secret = 0 \/ Cardinality(mail) >= MaxMail THEN mail
             ELSE mail \cup {[issue |-> i, status |-> status,
                              secret |-> connector.secret]}
  /\ UNCHANGED <<connector, ticket, flaw, twin, push, unsure, consent, aspect>>

-----------------------------------------------------------------------------
ItsmInit ==
  /\ connector = [exists |-> FALSE, epoch |-> 0, enabled |-> FALSE, inbound |-> FALSE,
                  secret |-> 0, mapping |-> NoMapping]
  /\ ticket = "open" /\ flaw = "open"
  /\ twin = NoTwin
  /\ remote = [i \in Issues |-> [exists |-> FALSE, payload |-> "open",
                                 status |-> CHOOSE s \in Statuses : TRUE]]
  /\ mail = {}
  /\ push = [w \in Pushers |-> IdlePush]
  /\ unsure = FALSE /\ consent = FALSE
  /\ aspect \in {"outbound", "inbound"}

ItsmNext ==
  \/ \E b \in BOOLEAN, m \in Mappings : CreateConnector(b, m)
  \/ \E b, c \in BOOLEAN, m \in Mappings : UpdateConnector(b, c, m)
  \/ RotateInboundSecret \/ DeleteConnector \/ UnlinkTwin \/ FlawReopens
  \/ RefreshLink \/ PullConnector
  \/ \E w \in Pushers : \/ PushLoad(w) \/ RemoteAnswers(w) \/ RemoteRefuses(w)
                        \/ PushCommit(w) \/ PushAbort(w)
  \/ \E e \in mail, b \in BOOLEAN : ItsmWebhook(e, b)
  \/ \E t \in Wanted : LocalTransition(t)
  \/ \E i \in Issues, s \in Statuses : RemoteMoves(i, s)

ItsmSpec == ItsmInit /\ [][ItsmNext]_itsmVars

-----------------------------------------------------------------------------
ItsmTypeOK ==
  /\ connector \in Connector /\ ticket \in TicketStates
  /\ flaw \in {"open", "remediated"}
  /\ twin \in Twin /\ remote \in [Issues -> Issue] /\ mail \subseteq Webhook
  /\ push \in [Pushers -> Push] /\ unsure \in BOOLEAN /\ consent \in BOOLEAN
  /\ aspect \in {"outbound", "inbound"}

\* When a push would be silent, because the link carries the digest of the ticket
\* as it is, the remote issue does hold it: unless pushes overlapped or one was
\* rolled back after the remote system had answered, however often connectors
\* were replaced, pushes refused and tickets moved in between (push_ticket).
SilenceIsAgreement ==
  twin.exists /\ twin.digest = ticket /\ ~unsure /\ Busy = {}
  => remote[twin.issue].payload = ticket

\* One connector has one issue for the ticket, again unless an answer was lost: a
\* second issue needs a rollback, an overlap or a new connector.
OneIssueForTheTicket ==
  ~unsure => Cardinality({i \in Issues : remote[i].exists}) <= connector.epoch

\* No webhook, late, repeated or out of order, fixes the finding unless an operator
\* resolved the ticket or mapped a status to it ("There is no route from Jira says
\* Done to the vulnerability is closed that a human did not switch on").
ClosureIsConsented == flaw = "remediated" => consent

\* A ticket that was closed or cancelled stays so, whatever the remote says.
FinishedStaysFinished ==
  ticket \in {"closed", "cancelled"} => ticket' = ticket

\* What pushes, polls and webhooks owe a ticket and its twin (services/itsm.py,
\* itsm_inbound.py).
TwinsAgree ==
  [][/\ (SilenceIsAgreement /\ OneIssueForTheTicket /\ ClosureIsConsented)'
     /\ FinishedStaysFinished]_itsmVars
=============================================================================
