--------------------------- MODULE FindingIdentity ---------------------------
(***************************************************************************)
(* Which finding a record of a report is: the algorithms of services/dedupe,  *)
(* and what correlation.ensure_finding keeps of the answer.                   *)
(*                                                                            *)
(* The things a tool reports move about between two reports, and the tool may *)
(* begin to give them ids of its own.  A report is imported for an engagement,*)
(* one record after the other, in any order.  A hash is the tuple it is of.   *)
(***************************************************************************)
EXTENDS Integers, Sequences, FiniteSets

CONSTANTS
  Things,        \* what the tool finds, each with an id of its own
  Places,        \* where it finds them: the fields that are hashed
  Nowhere,       \* where a thing is that is not there
  Engagements,
  NoId,
  MaxReports     \* bound: reports imported, and times something moves

ASSUME FindingIdentityAssumption ==
  Things # {} /\ NoId \notin Things /\ Nowhere \notin Places /\ MaxReports \in Nat

VARIABLES
  config,       \* DedupeConfig of the tool: [algorithm, scope]
  confined,     \* Engagement.dedupe_within_engagement
  place,        \* external: where each thing is
  emits,        \* external: the tool gives ids
  report,       \* the records still to be imported, and for which engagement
  matched,      \* the findings: [key, id]
  reports, moves,
  about         \* history, per finding: the things whose id it was given, and if one took it over

identityVars == <<config, confined, place, emits, report, matched, reports, moves, about>>

Algorithms == {"legacy", "unique_id_from_tool", "hash_code", "unique_id_or_hash_code"}
MostFindings == Cardinality(Things) * MaxReports
Slots == 1 .. MostFindings

NoFinding == [exists |-> FALSE, key |-> <<>>, id |-> NoId]
Present == {t \in Things : place[t] # Nowhere}

IdentityInit ==
  /\ config \in [algorithm : Algorithms, scope : {"organization", "engagement"}]
  /\ confined \in [Engagements -> BOOLEAN]
  /\ place \in [Things -> Places \cup {Nowhere}]
  /\ \A s, t \in Present : s # t => place[s] # place[t]
  /\ emits \in BOOLEAN
  /\ report = [records |-> {}, for |-> CHOOSE e \in Engagements : TRUE]
  /\ matched = [f \in Slots |-> NoFinding] /\ reports = 0 /\ moves = 0
  /\ about = [f \in Slots |-> [things |-> {}, taken |-> FALSE]]

----------------------------------------------------------------------------
\* resolve_identity: what is hashed.  An engagement confines if it says so and the
\* configuration says so too; a legacy key names neither tool nor engagement.
ScopeRef(e) == IF config.scope = "engagement" /\ confined[e] THEN e ELSE "org"

Legacy(r)   == [algorithm |-> "legacy", key |-> <<r.place>>, id |-> r.id]
ByOwnId(r)  == [algorithm |-> "unique_id_from_tool", key |-> <<ScopeRef(report.for), "id", r.id>>, id |-> r.id]
ByFields(r) == [algorithm |-> config.algorithm, key |-> <<ScopeRef(report.for), "fields", r.place>>, id |-> r.id]

Resolved(r) ==
  CASE config.algorithm = "legacy" -> Legacy(r)
    [] config.algorithm = "unique_id_from_tool" -> IF r.id = NoId THEN Legacy(r) ELSE ByOwnId(r)
    [] OTHER -> ByFields(r)

Held == {f \in Slots : matched[f].exists}

\* find_existing: the tool's id if there is one and a finding has it, else the key.
ById(i)  == {f \in Held : i.algorithm = "unique_id_or_hash_code" /\ i.id # NoId /\ matched[f].id = i.id}
ByKey(i) == {f \in Held : matched[f].key = i.key}

Existing(i) == IF ById(i) # {} THEN ById(i) ELSE ByKey(i)

\* ensure_finding keeps the identity current, but never takes the key of another.
Rekeyed(f, i) ==
  [exists |-> TRUE,
   key |-> IF ByKey(i) \subseteq {f} THEN i.key ELSE matched[f].key,
   id |-> IF i.id # NoId THEN i.id ELSE matched[f].id]

Takes(f, i) == matched[f].id # NoId /\ i.id # NoId /\ matched[f].id # i.id

Note(f, r, taken) ==
  about' = [about EXCEPT ![f].things = IF r.id = NoId THEN @ ELSE @ \cup {r.thing}, ![f].taken = @ \/ taken]

ImportRecord ==
  \E r \in report.records :
    LET i == Resolved(r) IN
    /\ report' = [report EXCEPT !.records = @ \ {r}]
    /\ \/ \E f \in Existing(i) :
            matched' = [matched EXCEPT ![f] = Rekeyed(f, i)] /\ Note(f, r, Takes(f, i))
       \/ /\ Existing(i) = {}
          /\ \E f \in Slots \ Held :
               /\ \A g \in Slots \ Held : f <= g
               /\ matched' = [matched EXCEPT ![f] = [exists |-> TRUE, key |-> i.key, id |-> i.id]]
               /\ Note(f, r, FALSE)
    /\ UNCHANGED <<config, confined, place, emits, reports, moves>>

----------------------------------------------------------------------------
ReportBegins ==
  \E e \in Engagements :
    /\ report.records = {} /\ reports < MaxReports /\ reports' = reports + 1
    /\ report' = [records |-> {[thing |-> t, place |-> place[t], id |-> IF emits THEN t ELSE NoId] : t \in Present},
                  for |-> e]
    /\ UNCHANGED <<config, confined, place, emits, matched, moves, about>>

\* Code is edited and services are moved: never two things in one place.
Move ==
  \E t \in Things, p \in Places \cup {Nowhere} :
    /\ report.records = {} /\ moves < MaxReports /\ moves' = moves + 1
    /\ p # place[t] /\ \A s \in Present : p # place[s]
    /\ place' = [place EXCEPT ![t] = p]
    /\ UNCHANGED <<config, confined, emits, report, matched, reports, about>>

BeginsToEmit ==
  /\ ~emits /\ report.records = {} /\ emits' = TRUE
  /\ UNCHANGED <<config, confined, place, report, matched, reports, moves, about>>

IdentityNext == ImportRecord \/ ReportBegins \/ Move \/ BeginsToEmit

IdentitySpec == IdentityInit /\ [][IdentityNext]_identityVars

----------------------------------------------------------------------------
IdentityTypeOK ==
  /\ config.algorithm \in Algorithms /\ reports \in 0 .. MaxReports
  /\ \A f \in Held : about[f].things \subseteq Things
  /\ \A f \in Slots : matched[f].id \in Things \cup {NoId}

\* No key is held twice, whatever was rekeyed (ensure_finding, "a duplicate here is
\* worse than a stale key").
KeysAreUnique == \A f, g \in Held : f # g => matched[f].key # matched[g].key

\* A finding whose tool gives ids is about one thing, unless a thing whose id no
\* finding has came to its place and took it over (find_existing falls back to the
\* fields); and no thing is two findings of one scope, whatever moved or was rekeyed.
ThingsKeepTheirFinding ==
  LET own == config.algorithm \in {"unique_id_from_tool", "unique_id_or_hash_code"} IN
  /\ \A f \in Held : own => Cardinality(about[f].things) <= 1 \/ about[f].taken
  /\ \A f, g \in Held :
       own /\ (config.algorithm = "unique_id_from_tool" => config.scope = "organization")
         /\ matched[f].id = matched[g].id /\ matched[f].id # NoId => f = g

IdentitiesAreKept == KeysAreUnique /\ ThingsKeepTheirFinding
=============================================================================
