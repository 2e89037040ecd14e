----------------------------- MODULE OrgSettings -----------------------------
(***************************************************************************)
(* organizations.settings: one JSON document that holds the scanning switch, *)
(* the ticketing mode, the risk register switch, the cadence of the feeds,   *)
(* the autoticket policy, the digest with the time it last went out, and     *)
(* the three directories.                                                    *)
(*                                                                           *)
(* Every writer loads the row, replaces one section in its copy and writes   *)
(* the whole document back at its commit; nothing locks the row and nothing  *)
(* compares it.  A console request holds its copy for as long as it runs.    *)
(* The digest of the hourly timer loads every organization at the start of   *)
(* the tick, and holds the copy while it builds and mails everybody's        *)
(* digest: its session never reads a row it has loaded again.                *)
(***************************************************************************)
EXTENDS Integers

CONSTANTS
  Requests,    \* console requests that may run at the same time
  DayHours,    \* hours in a day
  GuardHours,  \* the least time between two scheduled digests (12)
  MaxWrites,   \* bound: writes of the document
  MaxHours     \* bound: hours that pass

ASSUME OrgSettingsAssumption ==
  DayHours \in Nat \ {0} /\ GuardHours \in 1 .. DayHours /\ MaxWrites \in Nat /\ MaxHours \in Nat

VARIABLES
  settings,   \* the document
  request,    \* the requests, each with the copy it loaded
  tick,       \* the digest process, with the copy it loaded
  hours,      \* hours passed
  writes,
  told,       \* history: what the last writer of each section gave it
  contended   \* history: the sections last written while somebody held an older copy

settingsVars == <<settings, request, tick, hours, writes, told, contended>>

Switches    == {"scanning", "ticketing", "risk_register", "intel_schedule", "auto_ticket"}
Directories == {"ldap", "radius", "oidc"}
Sections    == Switches \cup Directories \cup {"digest"}

Never == -1

Directory == [enabled : BOOLEAN, complete : BOOLEAN, secret : BOOLEAN]
Digest    == [enabled : BOOLEAN, hour : 0 .. DayHours - 1, last : Int]

\* scanning: it runs; ticketing: external; intel_schedule: hourly, not daily.
Shipped ==
  [s \in Sections |->
     CASE s \in Directories -> [enabled |-> FALSE, complete |-> FALSE, secret |-> FALSE]
       [] s = "digest" -> [enabled |-> TRUE, hour |-> 0, last |-> Never]
       [] OTHER -> s \in {"scanning", "risk_register"}]

Idle == [loaded |-> FALSE, seen |-> Shipped]

SettingsInit ==
  /\ settings = Shipped /\ told = Shipped
  /\ request = [r \in Requests |-> Idle] /\ tick = Idle
  /\ hours = 0 /\ writes = 0 /\ contended = {}

-----------------------------------------------------------------------------
(* Load, change, write. *)

Load(r) ==
  /\ ~request[r].loaded
  /\ request' = [request EXCEPT ![r] = [loaded |-> TRUE, seen |-> settings]]
  /\ UNCHANGED <<settings, tick, hours, writes, told, contended>>

\* A document with the section alone.
Bug_Saved(copy, s, value) == [Shipped EXCEPT ![s] = value]

\* {**settings, KEY: block}
Saved(copy, s, value) == [copy EXCEPT ![s] = value]

Write(copy, s, value, others) ==
  /\ writes < MaxWrites
  /\ writes' = writes + 1
  /\ settings' = Saved(copy, s, value)
  /\ told' = [told EXCEPT ![s] = value]
  /\ contended' = IF others THEN contended \cup {s} ELSE contended \ {s}
  /\ UNCHANGED hours

Save(r, s, value) ==
  /\ request[r].loaded
  /\ Write(request[r].seen, s, value, tick.loaded \/ \E q \in Requests \ {r} : request[q].loaded)
  /\ request' = [request EXCEPT ![r] = Idle]
  /\ UNCHANGED tick

\* Refused with 403, 404 or 422, or the secret could not be sealed.
Refuse(r) ==
  /\ request[r].loaded
  /\ request' = [request EXCEPT ![r] = Idle]
  /\ UNCHANGED <<settings, tick, hours, writes, told, contended>>

SetScanning(r)     == \E on \in BOOLEAN : Save(r, "scanning", on)
SetMode(r)         == \E external \in BOOLEAN : Save(r, "ticketing", external)
SetRiskRegister(r) == \E on \in BOOLEAN : Save(r, "risk_register", on)
SetSchedule(r)     == \E hourly \in BOOLEAN : Save(r, "intel_schedule", hourly)
SetAutoticket(r)   == \E on \in BOOLEAN : Save(r, "auto_ticket", on)

SetPolicy(r) ==
  \E on \in BOOLEAN, h \in 0 .. DayHours - 1 :
     Save(r, "digest", [request[r].seen["digest"] EXCEPT !.enabled = on, !.hour = h])

\* What a form sends is laid over what is stored; no secret leaves the stored one.
Merged(old, on, complete, secret) ==
  [enabled |-> on, complete |-> complete, secret |-> secret \/ old.secret]

\* validate, of the merged section.  LDAP may search without a password of its own.
LdapAccepts(new) == new.enabled => new.complete

RadiusAccepts(new) == new.enabled => new.complete /\ new.secret

OidcAccepts(new) == new.enabled => new.complete /\ new.secret

\* ldap_auth.set_config: the one form that can also clear its password.
SetLdap(r) ==
  \E on, complete, clear, secret \in BOOLEAN :
     LET new == Merged(request[r].seen["ldap"], on, complete, secret)
     IN  LdapAccepts(new) /\ Save(r, "ldap", [new EXCEPT !.secret = @ /\ ~clear])

SetRadius(r) ==
  \E on, complete, secret \in BOOLEAN :
     LET new == Merged(request[r].seen["radius"], on, complete, secret)
     IN  RadiusAccepts(new) /\ Save(r, "radius", new)

SetOidc(r) ==
  \E on, complete, secret \in BOOLEAN :
     LET new == Merged(request[r].seen["oidc"], on, complete, secret)
     IN  OidcAccepts(new) /\ Save(r, "oidc", new)

-----------------------------------------------------------------------------
(* The digest. *)

DueNow(policy) ==
  /\ policy.enabled /\ hours % DayHours = policy.hour
  /\ policy.last = Never \/ hours - policy.last >= GuardHours

\* The timer, or a restart that fires it again within the hour.  Nothing is due:
\* the process ends and leaves nothing.
RunCli ==
  /\ ~tick.loaded
  /\ DueNow(settings["digest"])
  /\ tick' = [loaded |-> TRUE, seen |-> settings]
  /\ UNCHANGED <<settings, request, hours, writes, told, contended>>

Marked(copy) == [copy["digest"] EXCEPT !.last = hours]

\* _mark_run, and the commit that also queues and sends the digest.
MarkRun ==
  /\ tick.loaded
  /\ Write(tick.seen, "digest", Marked(tick.seen), \E r \in Requests : request[r].loaded)
  /\ tick' = Idle
  /\ UNCHANGED request

\* POST /notifications/digest/send: neither the hour nor the switch is asked.
DigestSend(r) == Save(r, "digest", Marked(request[r].seen))

DieDigest ==
  /\ tick.loaded
  /\ tick' = Idle
  /\ UNCHANGED <<settings, request, hours, writes, told, contended>>

Hour ==
  /\ hours < MaxHours
  /\ hours' = hours + 1
  /\ UNCHANGED <<settings, request, tick, writes, told, contended>>

SettingsNext ==
  \/ \E r \in Requests :
       \/ Load(r) \/ Refuse(r) \/ SetScanning(r) \/ SetMode(r) \/ SetRiskRegister(r) \/ SetSchedule(r)
       \/ SetAutoticket(r) \/ SetPolicy(r) \/ SetLdap(r) \/ SetRadius(r) \/ SetOidc(r)
       \/ DigestSend(r)
  \/ RunCli \/ MarkRun \/ DieDigest \/ Hour

SettingsSpec == SettingsInit /\ [][SettingsNext]_settingsVars

-----------------------------------------------------------------------------
Document(d) ==
  /\ DOMAIN d = Sections
  /\ \A s \in Switches : d[s] \in BOOLEAN
  /\ \A s \in Directories : d[s] \in Directory
  /\ d["digest"] \in Digest

SettingsTypeOK ==
  /\ Document(settings) /\ Document(told)
  /\ \A p \in {request[r] : r \in Requests} \cup {tick} : p.loaded \in BOOLEAN /\ Document(p.seen)
  /\ hours \in 0 .. MaxHours /\ writes \in 0 .. MaxWrites
  /\ contended \subseteq Sections

\* A section keeps what its last writer gave it, whatever is written to the other
\* sections later: it is lost only to a writer that had loaded the document before
\* that write and was still running (the sections of organizations.settings).
LostOnlyToOverlap ==
  \A s \in Sections \ contended : settings[s] = told[s]

\* Whatever edits overlap, a directory that is switched on has every field that
\* sign-in needs (validate is given the merged section, not the form).
EnabledIsComplete ==
  /\ \A s \in Directories : settings[s].enabled => settings[s].complete
  /\ \A s \in {"radius", "oidc"} : settings[s].enabled => settings[s].secret

\* A restarted timer does not mail everybody twice: two scheduled digests are
\* GuardHours apart, counted from the last digest of either kind, unless a request
\* that ran beside it put an older mark back (digest.due_now).
DigestOnce ==
  tick.loaded /\ ~tick'.loaded /\ writes' # writes
  => \/ told["digest"].last = Never \/ hours - told["digest"].last >= GuardHours
     \/ "digest" \in contended

\* What requests and the digest owe the one document they all rewrite
\* (models/tenancy.Organization.settings).
SettingsAreKept ==
  [][(LostOnlyToOverlap /\ EnabledIsComplete)' /\ DigestOnce]_settingsVars

-----------------------------------------------------------------------------
(* What the documents say and the code does otherwise. *)

\* "Without it, a backlog queued before the flip drains afterwards and the estate
\* gets scanned by a platform whose operator believes it was stopped"
\* (services/scanning): once switched off, scanning stays off until it is switched on.
OffStaysOff == ~told["scanning"] => ~settings["scanning"]
=============================================================================
