---------------------------- MODULE RiskRegister ----------------------------
(***************************************************************************)
(* The risk register: what a person wrote down about a risk, the RACI        *)
(* matrix that owns it and the objects it is linked to.                      *)
(*                                                                           *)
(* A request reads the risk when it begins and commits the columns it        *)
(* changed; nothing but the counter of the codes and the unique indexes is   *)
(* locked or compared, so two requests about one risk may overlap.  Teams    *)
(* are deleted, with the seats that name them, beside all this.              *)
(***************************************************************************)
EXTENDS Integers, FiniteSets

CONSTANTS
  Writers,     \* requests that may run at the same time
  Levels,      \* likelihoods and impacts that are typed in
  Matrices,    \* RACI matrices that are put: sets of [raci, user, team]
  NoOne,       \* no user, no team, no copy
  MaxRisks,    \* bound: risks written down
  MaxEdits     \* bound: requests that begin, and teams that go

ASSUME RiskRegisterAssumption ==
  /\ MaxRisks \in Nat /\ MaxEdits \in Nat /\ Levels \subseteq 1 .. 5 /\ Levels # {}
  /\ \A m \in Matrices :
       /\ IsFiniteSet(m)
       /\ \A s \in m : /\ s = [raci |-> s.raci, user |-> s.user, team |-> s.team]
                        /\ s.raci \in {"R", "A", "C", "I"} /\ (s.raci = "A" => s.user # NoOne)
       /\ \A s, t \in m : s.raci = "A" /\ t.raci = "A" => s = t

VARIABLES
  risks,    \* the register, by the number of the code
  counter,  \* ticket_counters["risk_register"], 0 before its row exists
  seats,    \* risk_register_raci: [risk, put, raci, user, team]
  linked,   \* the risks linked to the one object there is
  links,    \* the events of the links: [linked, unlinked] per risk
  writer,   \* the requests in progress, with what they read
  edits,
  torn      \* history: <<risk, aspect>> last written by requests that overlapped

registerVars == <<risks, counter, seats, linked, links, writer, edits, torn>>

Codes    == 1 .. MaxRisks
Statuses == {"identified", "closed"}

NoRisk == [exists |-> FALSE, deleted |-> FALSE, status |-> "identified", note |-> FALSE,
           closedAt |-> FALSE, likelihood |-> 1, impact |-> 1, score |-> 1]

Free == [op |-> "free", code |-> 0, saw |-> NoRisk, rows |-> {}, to |-> NoOne, put |-> 0]

RegisterInit ==
  /\ risks = [c \in Codes |-> NoRisk] /\ counter = 0
  /\ seats = {} /\ linked = {} /\ links = [c \in Codes |-> [linked |-> 0, unlinked |-> 0]]
  /\ writer = [w \in Writers |-> Free] /\ edits = 0 /\ torn = {}

Edit == edits < MaxEdits /\ edits' = edits + 1

Begin(w, request) ==
  /\ Edit /\ writer[w].op = "free"
  /\ writer' = [writer EXCEPT ![w] = [request EXCEPT !.put = edits]]
  /\ UNCHANGED <<risks, counter, seats, linked, links, torn>>

Done(w) == writer' = [writer EXCEPT ![w] = Free] /\ UNCHANGED edits

Visible(c) == risks[c].exists /\ ~risks[c].deleted

Of(c) == {s \in seats : s.risk = c}

----------------------------------------------------------------------------
(* Codes.                                                                   *)

\* The row of the counter is locked until the request ends; before it exists there
\* is nothing to lock, and the second of two first requests breaks a unique index.
CreateBegins(w) ==
  /\ counter < MaxRisks
  /\ counter > 0 => \A v \in Writers : writer[v].op # "create"
  /\ \E m \in Matrices : Begin(w, [Free EXCEPT !.op = "create", !.code = counter + 1, !.to = m])

Seated(c, put, m) == {[risk |-> c, put |-> put, raci |-> s.raci, user |-> s.user, team |-> s.team] : s \in m}

CreateEnds(w) ==
  LET c == writer[w].code IN
  /\ writer[w].op = "create" /\ Done(w)
  /\ IF counter = c - 1
     THEN /\ counter' = c
          /\ risks' = [risks EXCEPT ![c].exists = TRUE]
          /\ seats' = seats \cup Seated(c, writer[w].put, writer[w].to)
     ELSE UNCHANGED <<counter, risks, seats>>
  /\ UNCHANGED <<linked, links, torn>>

----------------------------------------------------------------------------
(* Fields.                                                                  *)

\* A change applied to what was read: the score and the date of the closure follow.
Assigned(saw, change) ==
  LET new == [f \in DOMAIN saw |-> IF f \in DOMAIN change THEN change[f] ELSE saw[f]]
  IN  [new EXCEPT !.closedAt = new.status = "closed", !.score = new.likelihood * new.impact]

Acceptable(row) == row.status = "closed" => row.note

Changes ==
  [likelihood : Levels] \cup [impact : Levels] \cup [status : Statuses] \cup [note : BOOLEAN]
  \cup [status : {"closed"}, note : {TRUE}]

\* PATCH /{risk_id}: a closure without a note is refused.
PatchBegins(w) ==
  \E c \in Codes, change \in Changes :
    /\ Visible(c) /\ Acceptable(Assigned(risks[c], change))
    /\ Begin(w, [Free EXCEPT !.op = "patch", !.code = c, !.saw = risks[c], !.to = Assigned(risks[c], change)])

\* What a patch decides together, with what it derives from that.
Factors(row) == <<row.likelihood, row.impact, row.score>>
Closure(row) == <<row.status, row.note, row.closedAt>>

\* What a commit over a changed row leaves in doubt, and one over the row it read settles.
Judged(c, aspect, clean) == IF clean THEN torn \ {<<c, aspect>>} ELSE torn \cup {<<c, aspect>>}

PatchEnds(w) ==
  LET c == writer[w].code
      saw == writer[w].saw
      new == writer[w].to
      now == risks[c]
  IN
  /\ writer[w].op = "patch" /\ Done(w)
  /\ risks' = [risks EXCEPT ![c] = [f \in DOMAIN now |-> IF new[f] # saw[f] THEN new[f] ELSE now[f]]]
  /\ torn' = (torn \ {<<c, "score">>, <<c, "closure">>})
             \cup (IF Factors(now) = Factors(saw) THEN {} ELSE {<<c, "score">>})
             \cup (IF Closure(now) = Closure(saw) THEN {} ELSE {<<c, "closure">>})
  /\ UNCHANGED <<counter, seats, linked, links>>

\* DELETE /{risk_id}: nothing but the mark is written.
DeleteRisk ==
  \E c \in Codes :
    /\ Edit /\ Visible(c)
    /\ risks' = [risks EXCEPT ![c].deleted = TRUE]
    /\ UNCHANGED <<counter, seats, linked, links, writer, torn>>

----------------------------------------------------------------------------
(* The matrix.                                                              *)

\* PUT /{risk_id}/raci reads the rows it will delete.
RaciBegins(w) ==
  \E c \in Codes, m \in Matrices :
    Visible(c) /\ Begin(w, [Free EXCEPT !.op = "raci", !.code = c, !.rows = Of(c), !.to = m])

\* The rows it read go, those another request put meanwhile stay.
Replaced(w) ==
  (Of(writer[w].code) \ writer[w].rows) \cup Seated(writer[w].code, writer[w].put, writer[w].to)

Accountable(rows) == {s \in rows : s.raci = "A"}

\* uq_risk_register_one_accountable; the other unique index sees only seats that
\* name a person in a team, as NULLs differ.
Unique(rows) ==
  /\ Cardinality(Accountable(rows)) <= 1
  /\ \A s, t \in rows : s # t /\ s.user # NoOne /\ s.team # NoOne
                        => <<s.raci, s.user, s.team>> # <<t.raci, t.user, t.team>>

RaciEnds(w) ==
  LET c == writer[w].code IN
  /\ writer[w].op = "raci" /\ Done(w)
  /\ IF Unique(Replaced(w))
     THEN /\ seats' = (seats \ Of(c)) \cup Replaced(w)
          /\ torn' = Judged(c, "matrix", Of(c) \subseteq writer[w].rows)
     ELSE UNCHANGED <<seats, torn>>
  /\ UNCHANGED <<risks, counter, linked, links>>

\* A team is deleted: ON DELETE CASCADE takes the seats that name it, a person's too.
DeleteTeam ==
  \E team \in {s.team : s \in seats} \ {NoOne} :
    /\ Edit
    /\ seats' = {s \in seats : s.team # team}
    /\ torn' = torn \cup {<<s.risk, "seat lost">> : s \in {t \in seats : t.team = team}}
    /\ UNCHANGED <<risks, counter, linked, links, writer>>

----------------------------------------------------------------------------
(* Links.                                                                   *)

\* POST /{risk_id}/links: a link that is there is answered, not made.
LinkBegins(w) ==
  \E c \in Codes : Visible(c) /\ c \notin linked /\ Begin(w, [Free EXCEPT !.op = "link", !.code = c])

LinkEnds(w) ==
  LET c == writer[w].code IN
  /\ writer[w].op = "link" /\ Done(w)
  /\ IF c \in linked
     THEN UNCHANGED <<linked, links>>
     ELSE linked' = linked \cup {c} /\ links' = [links EXCEPT ![c].linked = @ + 1]
  /\ UNCHANGED <<risks, counter, seats, torn>>

UnlinkBegins(w) ==
  \E c \in linked : Visible(c) /\ Begin(w, [Free EXCEPT !.op = "unlink", !.code = c])

\* A DELETE that finds no row warns, and the event is written all the same.
UnlinkEnds(w) ==
  LET c == writer[w].code IN
  /\ writer[w].op = "unlink" /\ Done(w)
  /\ linked' = linked \ {c} /\ links' = [links EXCEPT ![c].unlinked = @ + 1]
  /\ torn' = IF c \in linked THEN torn ELSE torn \cup {<<c, "links">>}
  /\ UNCHANGED <<risks, counter, seats>>

RegisterNext ==
  \/ \E w \in Writers :
       \/ CreateBegins(w) \/ CreateEnds(w) \/ PatchBegins(w) \/ PatchEnds(w)
       \/ RaciBegins(w) \/ RaciEnds(w) \/ LinkBegins(w) \/ LinkEnds(w) \/ UnlinkBegins(w) \/ UnlinkEnds(w)
  \/ DeleteRisk \/ DeleteTeam

RegisterSpec == RegisterInit /\ [][RegisterNext]_registerVars

----------------------------------------------------------------------------
RegisterTypeOK ==
  /\ counter \in 0 .. MaxRisks /\ linked \subseteq Codes /\ edits \in 0 .. MaxEdits
  /\ \A c \in Codes : risks[c].likelihood \in Levels \cup {1} /\ risks[c].score \in 1 .. 25
  /\ \A s \in seats : s.risk \in Codes /\ s.raci \in {"R", "A", "C", "I"}

\* No two risks share a code and none is skipped, whoever rolls back (next_code).
CodesAreDense == {c \in Codes : risks[c].exists} = 1 .. counter

\* A score is the product of its factors unless two requests wrote factors of one
\* risk at the same time (_apply_scores, "a score that disagrees with its own
\* factors is a number two people will read differently").
ScoresAgree ==
  \A c \in Codes : risks[c].score = risks[c].likelihood * risks[c].impact \/ <<c, "score">> \in torn

\* A closed risk says why and since when, an open one is not dated, with the same
\* exception (_assign).
ClosuresAreExplained ==
  \A c \in Codes :
    \/ /\ risks[c].closedAt = (risks[c].status = "closed")
       /\ Acceptable(risks[c])
    \/ <<c, "closure">> \in torn

\* One person at most is accountable, however the matrices put overlap, and a matrix
\* is the one statement somebody put, unless two were put at the same time or a team
\* it names was deleted (set_raci, uq_risk_register_one_accountable).
MatricesAreStatements ==
  \A c \in Codes :
    /\ Cardinality(Accountable(Of(c))) <= 1
    /\ \A s \in Accountable(Of(c)) : s.user # NoOne
    /\ \/ {[raci |-> s.raci, user |-> s.user, team |-> s.team] : s \in Of(c)} \in Matrices \cup {{}}
          /\ Cardinality({s.put : s \in Of(c)}) <= 1
       \/ {<<c, "matrix">>, <<c, "seat lost">>} \cap torn # {}

\* The history tells whether a risk is linked, unless one link was removed twice.
LinksAreTold ==
  \A c \in Codes :
    links[c].linked - links[c].unlinked = (IF c \in linked THEN 1 ELSE 0) \/ <<c, "links">> \in torn

RegisterIsKept ==
  CodesAreDense /\ ScoresAgree /\ ClosuresAreExplained /\ MatricesAreStatements /\ LinksAreTold
=============================================================================
