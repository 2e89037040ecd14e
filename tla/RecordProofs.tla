------------------------- MODULE RecordProofs -------------------------
(***************************************************************************)
(* The register of risks, the claims of compliance, the runbooks and the      *)
(* identities of findings are kept, and the sources of the estate reconciled, *)
(* for any number of writers, requests, clerks, reports and sources.          *)
(***************************************************************************)
EXTENDS MCRecords, SequenceTheorems, FiniteSetTheorems, WellFoundedInduction, TLAPS

(***************************************************************************)
(* The risk register.                                                      *)
(***************************************************************************)
RiskRow == [exists : BOOLEAN, deleted : BOOLEAN, status : Statuses, note : BOOLEAN, closedAt : BOOLEAN,
            likelihood : Levels \cup {1}, impact : Levels \cup {1}, score : 1 .. 25]

RegisterTyped ==
  /\ risks \in [Codes -> RiskRow] /\ counter \in 0 .. MaxRisks /\ edits \in 0 .. MaxEdits
  /\ linked \subseteq Codes /\ links \in [Codes -> [linked : Int, unlinked : Int]]
  /\ DOMAIN writer = Writers

\* Every seat is of a risk there is, names a role and, if it is accountable, a person.
SeatsFit ==
  /\ IsFiniteSet(seats)
  /\ \A s \in seats : /\ s.risk \in Codes /\ risks[s.risk].exists /\ s.raci \in {"R", "A", "C", "I"}
                      /\ s.raci = "A" => s.user # NoOne

Derived(row) == row.score = row.likelihood * row.impact
Dated(row) == row.closedAt = (row.status = "closed") /\ Acceptable(row)

\* What a request holds: the number of the next risk, a row that agrees with itself, a
\* matrix somebody put.
Working(t, rs) ==
  /\ t.op \in {"patch", "raci", "link", "unlink"} => t.code \in Codes /\ rs[t.code].exists
  /\ t.op = "create" => t.code \in Codes /\ t.to \in Matrices
  /\ t.op = "patch" => t.saw \in RiskRow /\ t.to \in RiskRow /\ Derived(t.to) /\ Dated(t.to) /\ t.to.exists = t.saw.exists
  /\ t.op = "raci" => t.to \in Matrices

\* A matrix is one statement, of one person who is accountable at most.
Stated(c) ==
  /\ \A s, u \in Accountable(Of(c)) : s = u
  /\ \/ /\ {[raci |-> s.raci, user |-> s.user, team |-> s.team] : s \in Of(c)} \in Matrices \cup {{}}
        /\ \A s, u \in Of(c) : s.put = u.put
     \/ {<<c, "matrix">>, <<c, "seat lost">>} \cap torn # {}

\* The inductive invariant.
RegisterInv ==
  /\ RegisterTyped /\ SeatsFit /\ CodesAreDense /\ ScoresAgree /\ ClosuresAreExplained /\ LinksAreTold
  /\ \A w \in Writers : Working(writer[w], risks)
  /\ \A c \in Codes : Stated(c)

\* The product of two levels, or of one and the first row's.
LEMMA ProductsFit ==
  ASSUME NEW l \in Levels \cup {1}, NEW i \in Levels \cup {1}
  PROVE  l * i \in 1 .. 25
<1>1. l \in 1 .. 5 /\ i \in 1 .. 5
  BY RiskRegisterAssumption
<1>2. l \in {1, 2, 3, 4, 5}
  BY <1>1
<1> QED BY <1>1, <1>2

\* A row, column by column.
LEMMA RowFacts ==
  ASSUME NEW row \in RiskRow
  PROVE  /\ row.exists \in BOOLEAN /\ row.deleted \in BOOLEAN /\ row.status \in Statuses /\ row.note \in BOOLEAN
         /\ row.closedAt \in BOOLEAN /\ row.likelihood \in Levels \cup {1} /\ row.impact \in Levels \cup {1}
         /\ row.score \in 1 .. 25
         /\ DOMAIN row = {"exists", "deleted", "status", "note", "closedAt", "likelihood", "impact", "score"}
BY DEF RiskRow

\* A function over the columns whose values fit is a row.
LEMMA RowMade ==
  ASSUME NEW r,
         r = [f \in {"exists", "deleted", "status", "note", "closedAt", "likelihood", "impact", "score"} |-> r[f]],
         r.exists \in BOOLEAN, r.deleted \in BOOLEAN, r.status \in Statuses, r.note \in BOOLEAN,
         r.closedAt \in BOOLEAN, r.likelihood \in Levels \cup {1}, r.impact \in Levels \cup {1}, r.score \in 1 .. 25
  PROVE  r \in RiskRow
BY DEF RiskRow

\* What two requests make of one row is a row; where what one of them read still holds,
\* it is what that one wants.
LEMMA RowsMerge ==
  ASSUME NEW now \in RiskRow, NEW saw \in RiskRow, NEW new \in RiskRow, new.exists = saw.exists, now.exists,
         Derived(new), Dated(new)
  PROVE  LET m == [f \in DOMAIN now |-> IF new[f] # saw[f] THEN new[f] ELSE now[f]] IN
         /\ m \in RiskRow /\ m.exists
         /\ Factors(now) = Factors(saw) => Derived(m)
         /\ Closure(now) = Closure(saw) => Dated(m)
<1> DEFINE m == [f \in DOMAIN now |-> IF new[f] # saw[f] THEN new[f] ELSE now[f]]
<1>1. /\ m = [f \in {"exists", "deleted", "status", "note", "closedAt", "likelihood", "impact", "score"} |-> m[f]]
      /\ m.exists = now.exists
      /\ m.deleted \in {new.deleted, now.deleted}
      /\ m.status = (IF new.status # saw.status THEN new.status ELSE now.status)
      /\ m.note = (IF new.note # saw.note THEN new.note ELSE now.note)
      /\ m.closedAt = (IF new.closedAt # saw.closedAt THEN new.closedAt ELSE now.closedAt)
      /\ m.likelihood = (IF new.likelihood # saw.likelihood THEN new.likelihood ELSE now.likelihood)
      /\ m.impact = (IF new.impact # saw.impact THEN new.impact ELSE now.impact)
      /\ m.score = (IF new.score # saw.score THEN new.score ELSE now.score)
  BY RowFacts
<1> HIDE DEF m
<1>2. m \in RiskRow
  BY <1>1, RowFacts, RowMade
<1>3. ASSUME Factors(now) = Factors(saw) PROVE Derived(m)
  <2>1. now.likelihood = saw.likelihood /\ now.impact = saw.impact /\ now.score = saw.score
    BY <1>3 DEF Factors
  <2>2. m.likelihood = new.likelihood /\ m.impact = new.impact /\ m.score = new.score
    BY <1>1, <2>1
  <2> QED BY <2>2 DEF Derived
<1>4. ASSUME Closure(now) = Closure(saw) PROVE Dated(m)
  <2>1. now.status = saw.status /\ now.note = saw.note /\ now.closedAt = saw.closedAt
    BY <1>4 DEF Closure
  <2>2. m.status = new.status /\ m.note = new.note /\ m.closedAt = new.closedAt
    BY <1>1, <2>1
  <2> QED BY <2>2 DEF Dated, Acceptable
<1> QED BY <1>1, <1>2, <1>3, <1>4 DEF m

\* A change that is applied to a row gives one that agrees with itself.
LEMMA AssignedFits ==
  ASSUME NEW saw \in RiskRow, NEW change \in Changes, Acceptable(Assigned(saw, change))
  PROVE  LET a == Assigned(saw, change) IN a \in RiskRow /\ a.exists = saw.exists /\ Derived(a) /\ Dated(a)
<1> DEFINE a == Assigned(saw, change)
           n == [f \in DOMAIN saw |-> IF f \in DOMAIN change THEN change[f] ELSE saw[f]]
<1>1. /\ "exists" \notin DOMAIN change /\ "deleted" \notin DOMAIN change
      /\ "status" \in DOMAIN change => change["status"] \in Statuses
      /\ "note" \in DOMAIN change => change["note"] \in BOOLEAN
      /\ "likelihood" \in DOMAIN change => change["likelihood"] \in Levels
      /\ "impact" \in DOMAIN change => change["impact"] \in Levels
  BY DEF Changes, Statuses
<1>2. DOMAIN saw = {"exists", "deleted", "status", "note", "closedAt", "likelihood", "impact", "score"}
  BY RowFacts
<1>3. /\ n.exists = saw.exists /\ n.deleted = saw.deleted /\ n.status \in Statuses /\ n.note \in BOOLEAN
      /\ n.likelihood \in Levels \cup {1} /\ n.impact \in Levels \cup {1}
      /\ DOMAIN n = {"exists", "deleted", "status", "note", "closedAt", "likelihood", "impact", "score"}
      /\ n = [f \in DOMAIN n |-> n[f]]
  BY <1>1, <1>2, RowFacts
<1>4. a = [n EXCEPT !.closedAt = n.status = "closed", !.score = n.likelihood * n.impact]
  BY DEF Assigned
<1> HIDE DEF n, a
<1>5. /\ a.exists = n.exists /\ a.deleted = n.deleted /\ a.status = n.status /\ a.note = n.note
      /\ a.likelihood = n.likelihood /\ a.impact = n.impact
      /\ a.closedAt = (n.status = "closed") /\ a.score = n.likelihood * n.impact
      /\ a = [f \in {"exists", "deleted", "status", "note", "closedAt", "likelihood", "impact", "score"} |-> a[f]]
  BY <1>3, <1>4
<1>6. a.score \in 1 .. 25 /\ a.closedAt \in BOOLEAN /\ a.exists \in BOOLEAN /\ a.deleted \in BOOLEAN
  BY <1>3, <1>5, ProductsFit, RowFacts
<1>7. a \in RiskRow
  BY <1>3, <1>5, <1>6, RowMade
<1>8. Derived(a) /\ Dated(a)
  BY <1>5 DEF Derived, Dated, a
<1> QED BY <1>3, <1>5, <1>7, <1>8 DEF a

\* A matrix of one accountable, seated at a risk.
LEMMA SeatedFits ==
  ASSUME NEW c \in Codes, NEW put, NEW m \in Matrices
  PROVE  /\ IsFiniteSet(Seated(c, put, m))
         /\ \A s \in Seated(c, put, m) : /\ s.risk = c /\ s.put = put /\ s.raci \in {"R", "A", "C", "I"}
                                         /\ s.raci = "A" => s.user # NoOne
         /\ \A s, u \in Accountable(Seated(c, put, m)) : s = u
         /\ {[raci |-> s.raci, user |-> s.user, team |-> s.team] : s \in Seated(c, put, m)} = m
<1> DEFINE F(s) == [risk |-> c, put |-> put, raci |-> s.raci, user |-> s.user, team |-> s.team]
           G(s) == [raci |-> s.raci, user |-> s.user, team |-> s.team]
<1>1. /\ IsFiniteSet(m)
      /\ \A s \in m : s = G(s) /\ s.raci \in {"R", "A", "C", "I"} /\ (s.raci = "A" => s.user # NoOne)
      /\ \A s, t \in m : s.raci = "A" /\ t.raci = "A" => s = t
  BY RiskRegisterAssumption
<1>2. Seated(c, put, m) = {F(s) : s \in m}
  BY DEF Seated
<1>3. \A s : /\ F(s).risk = c /\ F(s).put = put /\ F(s).raci = s.raci /\ F(s).user = s.user /\ F(s).team = s.team
             /\ G(F(s)) = G(s)
  OBVIOUS
<1>4. IsFiniteSet({F(s) : s \in m})
  <2>1. {F(s) : s \in m} = {F(s) : s \in m} /\ IsFiniteSet(m)
    BY <1>1
  <2> DEFINE h == [s \in m |-> F(s)]
  <2>2. h \in Surjection(m, {F(s) : s \in m})
    <3> HIDE DEF F
    <3> QED BY DEF Surjection
  <2> QED BY <2>1, <2>2, FS_Surjection
<1> HIDE DEF F
<1>5. \A s \in Seated(c, put, m) : /\ s.risk = c /\ s.put = put /\ s.raci \in {"R", "A", "C", "I"}
                                   /\ s.raci = "A" => s.user # NoOne
  <2> HIDE DEF G
  <2> QED BY <1>1, <1>2, <1>3
<1>6. ASSUME NEW s \in Accountable(Seated(c, put, m)), NEW u \in Accountable(Seated(c, put, m)) PROVE s = u
  <2>1. PICK p \in m, q \in m : s = F(p) /\ u = F(q)
    BY <1>2 DEF Accountable
  <2>2. p.raci = "A" /\ q.raci = "A"
    BY <1>3, <2>1 DEF Accountable
  <2> QED BY <1>1, <2>1, <2>2
<1>7. {G(s) : s \in Seated(c, put, m)} = m
  <2> HIDE DEF G
  <2>1. \A s \in m : G(F(s)) = s
    BY <1>1, <1>3
  <2> QED BY <1>2, <2>1
<1> QED BY <1>2, <1>4, <1>5, <1>6, <1>7

\* At most one, counted or compared.
LEMMA AtMostOne ==
  ASSUME NEW S, IsFiniteSet(S)
  PROVE  Cardinality(S) <= 1 <=> \A s, u \in S : s = u
<1>1. Cardinality(S) \in Nat
  BY FS_CardinalityType
<1>2. ASSUME Cardinality(S) <= 1, NEW s \in S, NEW u \in S PROVE s = u
  <2>1. IsFiniteSet(S \ {s}) /\ Cardinality(S \ {s}) = Cardinality(S) - 1
    BY FS_RemoveElement
  <2>2. Cardinality(S \ {s}) = 0
    BY <1>1, <1>2, <2>1, FS_CardinalityType
  <2>3. S \ {s} = {}
    BY <2>1, <2>2, FS_EmptySet
  <2> QED BY <2>3
<1>3. ASSUME \A s, u \in S : s = u PROVE Cardinality(S) <= 1
  <2>1. CASE S = {}
    BY <2>1, FS_EmptySet
  <2>2. CASE S # {}
    <3>1. PICK s \in S : TRUE
      BY <2>2
    <3>2. S = {s}
      BY <1>3, <3>1
    <3>3. Cardinality({s}) = 1
      BY FS_Singleton
    <3> QED BY <3>2, <3>3
  <2> QED BY <2>1, <2>2
<1> QED BY <1>2, <1>3

LEMMA RegisterStarts == RegisterInit => RegisterInv
<1> SUFFICES ASSUME RegisterInit PROVE RegisterInv
  OBVIOUS
<1>1. NoRisk \in RiskRow /\ ~NoRisk.exists /\ Derived(NoRisk) /\ Dated(NoRisk)
  <2>1. NoRisk \in RiskRow
    BY DEF NoRisk, RiskRow, Statuses
  <2>2. ~NoRisk.exists /\ Derived(NoRisk)
    BY DEF NoRisk, Derived
  <2>3. Dated(NoRisk)
    BY DEF NoRisk, Dated, Acceptable
  <2> QED BY <2>1, <2>2, <2>3
<1>2. \A c \in Codes : risks[c] = NoRisk
  BY DEF RegisterInit
<1>3. RegisterTyped
  <2>1. risks \in [Codes -> RiskRow]
    BY <1>1 DEF RegisterInit
  <2>2. counter \in 0 .. MaxRisks /\ edits \in 0 .. MaxEdits
    BY RiskRegisterAssumption DEF RegisterInit
  <2> QED BY <2>1, <2>2 DEF RegisterInit, RegisterTyped
<1>4. SeatsFit
  BY FS_EmptySet DEF RegisterInit, SeatsFit
<1>5. CodesAreDense
  BY <1>1, <1>2 DEF RegisterInit, CodesAreDense
<1>6. ScoresAgree /\ ClosuresAreExplained
  BY <1>1, <1>2 DEF ScoresAgree, ClosuresAreExplained, Derived, Dated
<1>7. LinksAreTold
  BY DEF RegisterInit, LinksAreTold
<1>8. \A w \in Writers : Working(writer[w], risks)
  BY DEF RegisterInit, Working, Free
<1>9. \A c \in Codes : Stated(c)
  BY DEF RegisterInit, Stated, Of, Accountable
<1> QED BY <1>3, <1>4, <1>5, <1>6, <1>7, <1>8, <1>9 DEF RegisterInv

\* A request that ends lets go of what it held; the others hold what they held.
LEMMA RegisterWritersKept ==
  ASSUME RegisterInv, NEW w \in Writers, Done(w), \A c \in Codes : risks[c].exists => risks'[c].exists
  PROVE  /\ DOMAIN writer' = Writers /\ edits' \in 0 .. MaxEdits
         /\ \A v \in Writers : Working(writer'[v], risks')
<1>1. DOMAIN writer = Writers /\ writer' = [writer EXCEPT ![w] = Free] /\ edits' = edits /\ edits \in 0 .. MaxEdits
  BY DEF Done, RegisterInv, RegisterTyped
<1>2. Working(Free, risks')
  BY DEF Working, Free
<1>3. ASSUME NEW v \in Writers, v # w PROVE Working(writer'[v], risks')
  <2>1. writer'[v] = writer[v] /\ Working(writer[v], risks)
    BY <1>1, <1>3 DEF RegisterInv
  <2> QED BY <2>1 DEF Working
<1>4. writer'[w] = Free
  BY <1>1
<1> QED BY <1>1, <1>2, <1>3, <1>4

\* The seats of a risk, and what is said of them, when another's change.
LEMMA StatedKept ==
  ASSUME NEW c \in Codes, Stated(c), Of(c)' = Of(c),
         \A what \in {"matrix", "seat lost"} : <<c, what>> \in torn => <<c, what>> \in torn'
  PROVE  Stated(c)'
<1>1. {<<c, "matrix">>, <<c, "seat lost">>} \cap torn # {} => {<<c, "matrix">>, <<c, "seat lost">>} \cap torn' # {}
  OBVIOUS
<1>2. \A s, u \in Accountable(Of(c)') : s = u
  BY DEF Stated
<1>3. Accountable(Of(c))' = Accountable(Of(c)')
  BY DEF Accountable
<1> QED BY <1>1, <1>2, <1>3 DEF Stated

\* A request that begins holds what it read.
LEMMA RegisterBegins ==
  ASSUME RegisterInv, NEW w \in Writers, NEW r, Begin(w, r), Working([r EXCEPT !.put = edits], risks)
  PROVE  RegisterInv'
<1>1. /\ DOMAIN writer = Writers /\ writer' = [writer EXCEPT ![w] = [r EXCEPT !.put = edits]]
      /\ edits' = edits + 1 /\ edits < MaxEdits /\ edits \in 0 .. MaxEdits
      /\ UNCHANGED <<risks, counter, seats, linked, links, torn>>
  BY DEF Begin, Edit, RegisterInv, RegisterTyped
<1>2. \A v \in Writers : Working(writer'[v], risks')
  BY <1>1 DEF RegisterInv
<1>3. edits' \in 0 .. MaxEdits
  BY <1>1, RiskRegisterAssumption
<1>4. RegisterTyped'
  BY <1>1, <1>3 DEF RegisterInv, RegisterTyped
<1>5. SeatsFit'
  BY <1>1 DEF RegisterInv, SeatsFit
<1>6. CodesAreDense' /\ ScoresAgree' /\ ClosuresAreExplained' /\ LinksAreTold'
  BY <1>1 DEF RegisterInv, CodesAreDense, ScoresAgree, ClosuresAreExplained, LinksAreTold
<1>7. ASSUME NEW c \in Codes PROVE Stated(c)'
  <2>1. Of(c)' = Of(c) /\ torn' = torn
    BY <1>1 DEF Of
  <2> QED BY <2>1, StatedKept DEF RegisterInv
<1> QED BY <1>2, <1>4, <1>5, <1>6, <1>7 DEF RegisterInv

LEMMA RegisterOpens ==
  ASSUME RegisterInv, NEW w \in Writers,
         CreateBegins(w) \/ PatchBegins(w) \/ RaciBegins(w) \/ LinkBegins(w) \/ UnlinkBegins(w)
  PROVE  RegisterInv'
<1>1. CASE CreateBegins(w)
  <2>1. PICK m \in Matrices : counter < MaxRisks /\ Begin(w, [Free EXCEPT !.op = "create", !.code = counter + 1, !.to = m])
    BY <1>1 DEF CreateBegins
  <2>2. counter + 1 \in Codes
    BY <2>1, RiskRegisterAssumption DEF RegisterInv, RegisterTyped, Codes
  <2>3. Working([[Free EXCEPT !.op = "create", !.code = counter + 1, !.to = m] EXCEPT !.put = edits], risks)
    BY <2>2 DEF Working, Free
  <2> QED BY <2>1, <2>3, RegisterBegins
<1>2. CASE PatchBegins(w)
  <2>1. PICK c \in Codes, change \in Changes :
          /\ Visible(c) /\ Acceptable(Assigned(risks[c], change))
          /\ Begin(w, [Free EXCEPT !.op = "patch", !.code = c, !.saw = risks[c], !.to = Assigned(risks[c], change)])
    BY <1>2 DEF PatchBegins
  <2>2. risks[c] \in RiskRow /\ risks[c].exists
    BY <2>1 DEF RegisterInv, RegisterTyped, Visible
  <2> DEFINE a == Assigned(risks[c], change)
  <2>3. a \in RiskRow /\ a.exists = risks[c].exists /\ Derived(a) /\ Dated(a)
    BY <2>1, <2>2, AssignedFits
  <2> HIDE DEF a
  <2>4. Working([[Free EXCEPT !.op = "patch", !.code = c, !.saw = risks[c], !.to = a] EXCEPT !.put = edits], risks)
    BY <2>2, <2>3 DEF Working, Free
  <2> QED BY <2>1, <2>4, RegisterBegins DEF a
<1>3. CASE RaciBegins(w)
  <2>1. PICK c \in Codes, m \in Matrices :
          Visible(c) /\ Begin(w, [Free EXCEPT !.op = "raci", !.code = c, !.rows = Of(c), !.to = m])
    BY <1>3 DEF RaciBegins
  <2>2. Working([[Free EXCEPT !.op = "raci", !.code = c, !.rows = Of(c), !.to = m] EXCEPT !.put = edits], risks)
    BY <2>1 DEF Working, Free, Visible
  <2> QED BY <2>1, <2>2, RegisterBegins
<1>4. CASE LinkBegins(w)
  <2>1. PICK c \in Codes : Visible(c) /\ Begin(w, [Free EXCEPT !.op = "link", !.code = c])
    BY <1>4 DEF LinkBegins
  <2>2. Working([[Free EXCEPT !.op = "link", !.code = c] EXCEPT !.put = edits], risks)
    BY <2>1 DEF Working, Free, Visible
  <2> QED BY <2>1, <2>2, RegisterBegins
<1>5. CASE UnlinkBegins(w)
  <2>1. PICK c \in linked : Visible(c) /\ Begin(w, [Free EXCEPT !.op = "unlink", !.code = c])
    BY <1>5 DEF UnlinkBegins
  <2>2. c \in Codes
    BY DEF RegisterInv, RegisterTyped
  <2>3. Working([[Free EXCEPT !.op = "unlink", !.code = c] EXCEPT !.put = edits], risks)
    BY <2>1, <2>2 DEF Working, Free, Visible
  <2> QED BY <2>1, <2>3, RegisterBegins
<1> QED BY <1>1, <1>2, <1>3, <1>4, <1>5

LEMMA CreateKeeps ==
  ASSUME RegisterInv, NEW w \in Writers, CreateEnds(w)
  PROVE  RegisterInv'
<1> DEFINE c == writer[w].code
           m == writer[w].to
<1>1. c \in Codes /\ m \in Matrices /\ Done(w) /\ UNCHANGED <<linked, links, torn>>
  BY DEF CreateEnds, RegisterInv, Working
<1>2. \/ /\ counter = c - 1 /\ counter' = c /\ risks' = [risks EXCEPT ![c].exists = TRUE]
         /\ seats' = seats \cup Seated(c, writer[w].put, m)
      \/ UNCHANGED <<counter, risks, seats>>
  BY DEF CreateEnds
<1> HIDE DEF c, m
<1>3. CASE UNCHANGED <<counter, risks, seats>>
  <2>1. RegisterTyped'
    BY <1>1, <1>3, RegisterWritersKept DEF RegisterInv, RegisterTyped
  <2>2. SeatsFit'
    BY <1>3 DEF RegisterInv, SeatsFit
  <2>3. CodesAreDense' /\ ScoresAgree' /\ ClosuresAreExplained' /\ LinksAreTold'
    BY <1>1, <1>3 DEF RegisterInv, CodesAreDense, ScoresAgree, ClosuresAreExplained, LinksAreTold
  <2>4. ASSUME NEW d \in Codes PROVE Stated(d)'
    <3>1. Of(d)' = Of(d) /\ torn' = torn
      BY <1>1, <1>3 DEF Of
    <3> QED BY <3>1, StatedKept DEF RegisterInv
  <2>5. \A v \in Writers : Working(writer'[v], risks')
    BY <1>1, <1>3, RegisterWritersKept
  <2> QED BY <2>1, <2>2, <2>3, <2>4, <2>5 DEF RegisterInv
<1>4. CASE /\ counter = c - 1 /\ counter' = c /\ risks' = [risks EXCEPT ![c].exists = TRUE]
           /\ seats' = seats \cup Seated(c, writer[w].put, m)
  <2>1. /\ risks \in [Codes -> RiskRow] /\ counter \in 0 .. MaxRisks /\ c \in Nat /\ c \in 1 .. MaxRisks
    BY <1>1 DEF RegisterInv, RegisterTyped, Codes
  <2> DEFINE row == [risks[c] EXCEPT !.exists = TRUE]
  <2>2. /\ row \in RiskRow /\ row.exists /\ row.status = risks[c].status /\ row.note = risks[c].note
        /\ row.closedAt = risks[c].closedAt /\ row.likelihood = risks[c].likelihood
        /\ row.impact = risks[c].impact /\ row.score = risks[c].score
    BY <1>1, <2>1 DEF RiskRow
  <2>3. risks'[c] = row /\ \A d \in Codes : d # c => risks'[d] = risks[d]
    BY <1>1, <1>4, <2>1
  <2>4. risks' \in [Codes -> RiskRow]
    BY <1>4, <2>1, <2>2
  <2> HIDE DEF row
  <2>5. \A d \in Codes : risks[d].exists => risks'[d].exists
    BY <2>2, <2>3
  <2>6. RegisterTyped'
    BY <1>1, <1>4, <2>1, <2>4, <2>5, RegisterWritersKept DEF RegisterInv, RegisterTyped
  <2>7. CodesAreDense'
    <3>1. {d \in Codes : risks[d].exists} = 1 .. counter
      BY DEF RegisterInv, CodesAreDense
    <3>2. {d \in Codes : risks'[d].exists} = {d \in Codes : risks[d].exists} \cup {c}
      BY <1>1, <2>2, <2>3
    <3>3. 1 .. counter' = (1 .. counter) \cup {c}
      BY <1>4, <2>1
    <3> QED BY <3>1, <3>2, <3>3 DEF CodesAreDense
  <2>8. ~risks[c].exists
    <3>1. c \notin 1 .. counter
      BY <1>4, <2>1
    <3> QED BY <1>1, <3>1 DEF RegisterInv, CodesAreDense
  <2>9. SeatsFit'
    <3>1. IsFiniteSet(seats')
      BY <1>1, <1>4, SeatedFits, FS_Union DEF RegisterInv, SeatsFit
    <3>2. ASSUME NEW s \in seats'
          PROVE  /\ s.risk \in Codes /\ risks'[s.risk].exists /\ s.raci \in {"R", "A", "C", "I"}
                 /\ s.raci = "A" => s.user # NoOne
      <4>1. CASE s \in seats
        BY <4>1, <2>5 DEF RegisterInv, SeatsFit
      <4>2. CASE s \in Seated(c, writer[w].put, m)
        BY <4>2, <1>1, <2>2, <2>3, SeatedFits
      <4> QED BY <1>4, <4>1, <4>2
    <3> QED BY <3>1, <3>2 DEF SeatsFit
  <2>10. ScoresAgree' /\ ClosuresAreExplained'
    <3>1. ScoresAgree'
      BY <1>1, <2>2, <2>3 DEF RegisterInv, ScoresAgree
    <3>2. ClosuresAreExplained'
      BY <1>1, <2>2, <2>3 DEF RegisterInv, ClosuresAreExplained, Acceptable
    <3> QED BY <3>1, <3>2
  <2>11. LinksAreTold'
    BY <1>1 DEF RegisterInv, LinksAreTold
  <2>12. ASSUME NEW d \in Codes PROVE Stated(d)'
    <3>1. CASE d # c
      <4>1. Of(d)' = Of(d)
        BY <1>1, <1>4, <3>1, SeatedFits DEF Of
      <4> QED BY <1>1, <4>1, StatedKept DEF RegisterInv
    <3>2. CASE d = c
      <4>1. Of(d)' = Seated(c, writer[w].put, m)
        BY <1>1, <1>4, <3>2, <2>8, SeatedFits DEF Of, RegisterInv, SeatsFit
      <4>2. {[raci |-> s.raci, user |-> s.user, team |-> s.team] : s \in Of(d)'} \in Matrices
        <5> DEFINE F(s) == [raci |-> s.raci, user |-> s.user, team |-> s.team]
        <5>1. {F(s) : s \in Seated(c, writer[w].put, m)} = m
          BY <1>1, SeatedFits
        <5> HIDE DEF F
        <5>2. {F(s) : s \in Of(d)'} = m
          BY <4>1, <5>1
        <5> QED BY <1>1, <5>2 DEF F
      <4>3. \A s, u \in Of(d)' : s.put = u.put
        BY <1>1, <4>1, SeatedFits
      <4>4. \A s, u \in Accountable(Of(d)') : s = u
        BY <1>1, <4>1, SeatedFits
      <4>5. Accountable(Of(d))' = Accountable(Of(d)')
        BY DEF Accountable
      <4> QED BY <4>2, <4>3, <4>4, <4>5 DEF Stated
    <3> QED BY <3>1, <3>2
  <2>13. \A v \in Writers : Working(writer'[v], risks')
    BY <1>1, <2>5, RegisterWritersKept
  <2> QED BY <2>6, <2>7, <2>9, <2>10, <2>11, <2>12, <2>13 DEF RegisterInv
<1> QED BY <1>2, <1>3, <1>4

LEMMA PatchKeeps ==
  ASSUME RegisterInv, NEW w \in Writers, PatchEnds(w)
  PROVE  RegisterInv'
<1> DEFINE c == writer[w].code
           saw == writer[w].saw
           new == writer[w].to
           now == risks[c]
           row == [f \in DOMAIN now |-> IF new[f] # saw[f] THEN new[f] ELSE now[f]]
<1>1. /\ c \in Codes /\ now.exists /\ saw \in RiskRow /\ new \in RiskRow /\ Derived(new) /\ Dated(new)
      /\ new.exists = saw.exists
  BY DEF PatchEnds, RegisterInv, Working
<1>2. risks \in [Codes -> RiskRow] /\ now \in RiskRow
  BY <1>1 DEF RegisterInv, RegisterTyped
<1>3. /\ Done(w) /\ risks' = [risks EXCEPT ![c] = row] /\ UNCHANGED <<counter, seats, linked, links>>
      /\ torn' = (torn \ {<<c, "score">>, <<c, "closure">>})
                 \cup (IF Factors(now) = Factors(saw) THEN {} ELSE {<<c, "score">>})
                 \cup (IF Closure(now) = Closure(saw) THEN {} ELSE {<<c, "closure">>})
  BY DEF PatchEnds
<1>4. /\ row \in RiskRow /\ row.exists
      /\ Factors(now) = Factors(saw) => Derived(row)
      /\ Closure(now) = Closure(saw) => Dated(row)
  <2> HIDE DEF saw, new, now
  <2> QED BY <1>1, <1>2, RowsMerge
<1>5. risks'[c] = row /\ \A d \in Codes : d # c => risks'[d] = risks[d]
  <2> HIDE DEF row, c
  <2> QED BY <1>1, <1>2, <1>3
<1> HIDE DEF row, now, new, saw, c
<1>6. \A d \in Codes : risks[d].exists <=> risks'[d].exists
  BY <1>1, <1>4, <1>5 DEF now
<1>7. risks' \in [Codes -> RiskRow]
  BY <1>2, <1>3, <1>4
<1>8. RegisterTyped' /\ \A v \in Writers : Working(writer'[v], risks')
  <2>1. DOMAIN writer' = Writers /\ edits' \in 0 .. MaxEdits /\ \A v \in Writers : Working(writer'[v], risks')
    BY <1>3, <1>6, RegisterWritersKept
  <2> QED BY <1>3, <1>7, <2>1 DEF RegisterInv, RegisterTyped
<1>9. SeatsFit'
  BY <1>3, <1>6 DEF RegisterInv, SeatsFit
<1>10. CodesAreDense' /\ LinksAreTold'
  <2>1. CodesAreDense'
    BY <1>3, <1>6 DEF RegisterInv, CodesAreDense
  <2>2. ASSUME NEW d \in Codes, <<d, "links">> \in torn PROVE <<d, "links">> \in torn'
    BY <1>3, <2>2
  <2>3. LinksAreTold'
    BY <1>3, <2>2 DEF RegisterInv, LinksAreTold
  <2> QED BY <2>1, <2>3
<1>11. ScoresAgree'
  <2>1. ASSUME NEW d \in Codes, d # c, <<d, "score">> \in torn PROVE <<d, "score">> \in torn'
    BY <1>3, <2>1
  <2>2. Factors(now) # Factors(saw) => <<c, "score">> \in torn'
    BY <1>3
  <2> QED BY <1>4, <1>5, <2>1, <2>2 DEF RegisterInv, ScoresAgree, Derived
<1>12. ClosuresAreExplained'
  <2>1. ASSUME NEW d \in Codes, d # c, <<d, "closure">> \in torn PROVE <<d, "closure">> \in torn'
    BY <1>3, <2>1
  <2>2. Closure(now) # Closure(saw) => <<c, "closure">> \in torn'
    BY <1>3
  <2>3. Dated(row) \/ <<c, "closure">> \in torn'
    BY <1>4, <2>2
  <2>4. ASSUME NEW d \in Codes, d # c PROVE Dated(risks'[d]) \/ <<d, "closure">> \in torn'
    BY <1>5, <2>1, <2>4 DEF RegisterInv, ClosuresAreExplained, Dated
  <2>5. \A d \in Codes : Dated(risks'[d]) \/ <<d, "closure">> \in torn'
    BY <1>5, <2>3, <2>4
  <2> QED BY <2>5 DEF ClosuresAreExplained, Dated
<1>13. ASSUME NEW d \in Codes PROVE Stated(d)'
  <2>1. Of(d)' = Of(d)
    BY <1>3 DEF Of
  <2>2. \A what \in {"matrix", "seat lost"} : <<d, what>> \in torn => <<d, what>> \in torn'
    BY <1>3
  <2> QED BY <2>1, <2>2, StatedKept DEF RegisterInv
<1> QED BY <1>8, <1>9, <1>10, <1>11, <1>12, <1>13 DEF RegisterInv

LEMMA DeleteRiskKeeps ==
  ASSUME RegisterInv, DeleteRisk
  PROVE  RegisterInv'
<1>1. PICK c \in Codes : /\ Edit /\ Visible(c) /\ risks' = [risks EXCEPT ![c].deleted = TRUE]
                         /\ UNCHANGED <<counter, seats, linked, links, writer, torn>>
  BY DEF DeleteRisk
<1>2. risks \in [Codes -> RiskRow]
  BY DEF RegisterInv, RegisterTyped
<1> DEFINE row == [risks[c] EXCEPT !.deleted = TRUE]
<1>3. /\ row \in RiskRow /\ row.exists = risks[c].exists /\ row.status = risks[c].status /\ row.note = risks[c].note
      /\ row.closedAt = risks[c].closedAt /\ row.likelihood = risks[c].likelihood
      /\ row.impact = risks[c].impact /\ row.score = risks[c].score
  BY <1>2 DEF RiskRow
<1>4. risks'[c] = row /\ \A d \in Codes : d # c => risks'[d] = risks[d]
  BY <1>1, <1>2
<1>5. risks' \in [Codes -> RiskRow]
  BY <1>1, <1>2, <1>3
<1> HIDE DEF row
<1>6. \A d \in Codes : risks[d].exists <=> risks'[d].exists
  BY <1>3, <1>4
<1>7. edits' \in 0 .. MaxEdits
  BY <1>1, RiskRegisterAssumption DEF Edit, RegisterInv, RegisterTyped
<1>8. RegisterTyped'
  BY <1>1, <1>5, <1>7 DEF RegisterInv, RegisterTyped
<1>9. SeatsFit' /\ CodesAreDense' /\ LinksAreTold'
  BY <1>1, <1>6 DEF RegisterInv, SeatsFit, CodesAreDense, LinksAreTold
<1>10. ScoresAgree'
  BY <1>1, <1>3, <1>4 DEF RegisterInv, ScoresAgree
<1>11. ClosuresAreExplained'
  BY <1>1, <1>3, <1>4 DEF RegisterInv, ClosuresAreExplained, Acceptable
<1>12. \A w \in Writers : Working(writer'[w], risks')
  BY <1>1, <1>6 DEF RegisterInv, Working
<1>13. ASSUME NEW d \in Codes PROVE Stated(d)'
  <2>1. Of(d)' = Of(d) /\ torn' = torn
    BY <1>1 DEF Of
  <2> QED BY <2>1, StatedKept DEF RegisterInv
<1> QED BY <1>8, <1>9, <1>10, <1>11, <1>12, <1>13 DEF RegisterInv

LEMMA RaciKeeps ==
  ASSUME RegisterInv, NEW w \in Writers, RaciEnds(w)
  PROVE  RegisterInv'
<1>0. PICK c : c = writer[w].code
  OBVIOUS
<1> DEFINE m == writer[w].to
           put == writer[w].put
           next == Replaced(w)
           mine == Seated(c, put, m)
<1>1. c \in Codes /\ risks[c].exists /\ m \in Matrices
  BY <1>0 DEF RaciEnds, RegisterInv, Working
<1>2. Done(w) /\ UNCHANGED <<risks, counter, linked, links>>
  BY DEF RaciEnds
<1>3. \/ /\ Unique(next) /\ seats' = (seats \ Of(c)) \cup next
         /\ torn' = Judged(c, "matrix", Of(c) \subseteq writer[w].rows)
      \/ UNCHANGED <<seats, torn>>
  BY <1>0 DEF RaciEnds
<1>4. next = (Of(c) \ writer[w].rows) \cup mine
  BY <1>0 DEF Replaced
<1> HIDE DEF m, put, next, mine
<1>5. /\ IsFiniteSet(mine)
      /\ \A s \in mine : /\ s.risk = c /\ s.put = put /\ s.raci \in {"R", "A", "C", "I"}
                         /\ s.raci = "A" => s.user # NoOne
      /\ {[raci |-> s.raci, user |-> s.user, team |-> s.team] : s \in mine} = m
  BY <1>1, SeatedFits DEF mine
<1>6. RegisterTyped' /\ \A v \in Writers : Working(writer'[v], risks')
  <2>1. DOMAIN writer' = Writers /\ edits' \in 0 .. MaxEdits /\ \A v \in Writers : Working(writer'[v], risks')
    BY <1>2, RegisterWritersKept
  <2> QED BY <1>2, <2>1 DEF RegisterInv, RegisterTyped
<1>7. \A d \in Codes, what \in {"score", "closure", "links", "seat lost"} : <<d, what>> \in torn => <<d, what>> \in torn'
  BY <1>3 DEF Judged
<1>8. CodesAreDense' /\ ScoresAgree' /\ ClosuresAreExplained' /\ LinksAreTold'
  <2>1. CodesAreDense'
    BY <1>2 DEF RegisterInv, CodesAreDense
  <2>2. ScoresAgree'
    BY <1>2, <1>7 DEF RegisterInv, ScoresAgree
  <2>3. ClosuresAreExplained'
    BY <1>2, <1>7 DEF RegisterInv, ClosuresAreExplained
  <2>4. LinksAreTold'
    BY <1>2, <1>7 DEF RegisterInv, LinksAreTold
  <2> QED BY <2>1, <2>2, <2>3, <2>4
<1>9. CASE UNCHANGED <<seats, torn>>
  <2>1. SeatsFit'
    BY <1>2, <1>9 DEF RegisterInv, SeatsFit
  <2>2. ASSUME NEW d \in Codes PROVE Stated(d)'
    <3>1. Of(d)' = Of(d) /\ torn' = torn
      BY <1>9 DEF Of
    <3> QED BY <3>1, StatedKept DEF RegisterInv
  <2> QED BY <1>6, <1>8, <2>1, <2>2 DEF RegisterInv
<1>10. CASE /\ Unique(next) /\ seats' = (seats \ Of(c)) \cup next
            /\ torn' = Judged(c, "matrix", Of(c) \subseteq writer[w].rows)
  <2>1. IsFiniteSet(seats') /\ IsFiniteSet(next)
    <3>1. IsFiniteSet(Of(c) \ writer[w].rows) /\ IsFiniteSet(seats \ Of(c))
      BY FS_Subset DEF RegisterInv, SeatsFit, Of
    <3>2. IsFiniteSet(next)
      BY <1>4, <1>5, <3>1, FS_Union
    <3> QED BY <1>10, <3>1, <3>2, FS_Union
  <2>2. seats' \subseteq seats \cup mine
    BY <1>4, <1>10 DEF Of
  <2>3. SeatsFit'
    BY <1>1, <1>2, <1>5, <2>1, <2>2 DEF RegisterInv, SeatsFit
  <2>4. Of(c)' = next
    BY <1>4, <1>5, <1>10 DEF Of
  <2>5. Stated(c)'
    <3>1. Cardinality(Accountable(next)) <= 1 /\ IsFiniteSet(Accountable(next))
      BY <1>10, <2>1, FS_Subset DEF Unique, Accountable
    <3>2. \A s, u \in Accountable(next) : s = u
      BY <3>1, AtMostOne
    <3>3. Accountable(Of(c))' = Accountable(next)
      BY <2>4 DEF Accountable
    <3>4. CASE Of(c) \subseteq writer[w].rows
      <4>1. next = mine
        BY <1>4, <3>4
      <4> DEFINE F(s) == [raci |-> s.raci, user |-> s.user, team |-> s.team]
      <4>2. {F(s) : s \in mine} = m
        BY <1>5
      <4> HIDE DEF F
      <4>3. {F(s) : s \in Of(c)'} \in Matrices
        BY <1>1, <2>4, <4>1, <4>2
      <4>4. \A s, u \in Of(c)' : s.put = u.put
        BY <1>5, <2>4, <4>1
      <4> QED BY <3>2, <3>3, <4>3, <4>4 DEF Stated, F
    <3>5. CASE ~(Of(c) \subseteq writer[w].rows)
      <4>1. <<c, "matrix">> \in torn'
        BY <1>10, <3>5 DEF Judged
      <4> QED BY <3>2, <3>3, <4>1 DEF Stated
    <3> QED BY <3>4, <3>5
  <2>6. ASSUME NEW d \in Codes, d # c PROVE Stated(d)'
    <3>1. Of(d)' = Of(d)
      BY <1>4, <1>5, <1>10, <2>6 DEF Of
    <3>2. \A what \in {"matrix", "seat lost"} : <<d, what>> \in torn => <<d, what>> \in torn'
      BY <1>10, <2>6 DEF Judged
    <3> QED BY <3>1, <3>2, StatedKept DEF RegisterInv
  <2> QED BY <1>6, <1>8, <2>3, <2>5, <2>6 DEF RegisterInv
<1> QED BY <1>3, <1>9, <1>10

LEMMA TeamKeeps ==
  ASSUME RegisterInv, DeleteTeam
  PROVE  RegisterInv'
<1>1. PICK team : /\ Edit /\ seats' = {s \in seats : s.team # team}
                  /\ torn' = torn \cup {<<s.risk, "seat lost">> : s \in {t \in seats : t.team = team}}
                  /\ UNCHANGED <<risks, counter, linked, links, writer>>
  BY DEF DeleteTeam
<1>2. edits' \in 0 .. MaxEdits
  <2>1. edits < MaxEdits /\ edits' = edits + 1
    BY <1>1 DEF Edit
  <2>2. edits \in 0 .. MaxEdits /\ MaxEdits \in Nat
    BY RiskRegisterAssumption DEF RegisterInv, RegisterTyped
  <2> QED BY <2>1, <2>2
<1>3. RegisterTyped'
  BY <1>1, <1>2 DEF RegisterInv, RegisterTyped
<1>4. IsFiniteSet(seats')
  BY <1>1, FS_Subset DEF RegisterInv, SeatsFit
<1>5. SeatsFit'
  BY <1>1, <1>4 DEF RegisterInv, SeatsFit
<1>6. torn \subseteq torn'
  BY <1>1
<1>7. CodesAreDense' /\ ScoresAgree' /\ ClosuresAreExplained' /\ LinksAreTold'
  <2>1. CodesAreDense' /\ ScoresAgree'
    BY <1>1, <1>6 DEF RegisterInv, CodesAreDense, ScoresAgree
  <2>2. ClosuresAreExplained'
    BY <1>1, <1>6 DEF RegisterInv, ClosuresAreExplained
  <2>3. LinksAreTold'
    BY <1>1, <1>6 DEF RegisterInv, LinksAreTold
  <2> QED BY <2>1, <2>2, <2>3
<1>8. \A w \in Writers : Working(writer'[w], risks')
  BY <1>1 DEF RegisterInv
<1>9. ASSUME NEW d \in Codes PROVE Stated(d)'
  <2>1. CASE \E s \in Of(d) : s.team = team
    <3>1. <<d, "seat lost">> \in torn'
      BY <1>1, <2>1 DEF Of
    <3>2. \A s, u \in Accountable(Of(d)') : s = u
      BY <1>1 DEF RegisterInv, Stated, Of, Accountable
    <3>3. Accountable(Of(d))' = Accountable(Of(d)')
      BY DEF Accountable
    <3> QED BY <3>1, <3>2, <3>3 DEF Stated
  <2>2. CASE ~\E s \in Of(d) : s.team = team
    <3>1. Of(d)' = Of(d)
      BY <1>1, <2>2 DEF Of
    <3> QED BY <1>6, <3>1, StatedKept DEF RegisterInv
  <2> QED BY <2>1, <2>2
<1> QED BY <1>3, <1>5, <1>7, <1>8, <1>9 DEF RegisterInv

LEMMA LinkKeeps ==
  ASSUME RegisterInv, NEW w \in Writers, LinkEnds(w) \/ UnlinkEnds(w)
  PROVE  RegisterInv'
<1>0. PICK c : c = writer[w].code
  OBVIOUS
<1>1. c \in Codes /\ Done(w) /\ UNCHANGED <<risks, counter, seats>>
  BY <1>0 DEF LinkEnds, UnlinkEnds, RegisterInv, Working
<1>2. \/ UNCHANGED <<linked, links, torn>>
      \/ /\ c \notin linked /\ linked' = linked \cup {c} /\ links' = [links EXCEPT ![c].linked = @ + 1] /\ torn' = torn
      \/ /\ linked' = linked \ {c} /\ links' = [links EXCEPT ![c].unlinked = @ + 1]
         /\ torn' = IF c \in linked THEN torn ELSE torn \cup {<<c, "links">>}
  BY <1>0 DEF LinkEnds, UnlinkEnds
<1>3. links \in [Codes -> [linked : Int, unlinked : Int]] /\ linked \subseteq Codes
  BY DEF RegisterInv, RegisterTyped
<1>4. linked' \subseteq Codes /\ links' \in [Codes -> [linked : Int, unlinked : Int]]
  <2>1. [links[c] EXCEPT !.linked = @ + 1] \in [linked : Int, unlinked : Int]
    BY <1>1, <1>3
  <2>2. [links[c] EXCEPT !.unlinked = @ + 1] \in [linked : Int, unlinked : Int]
    BY <1>1, <1>3
  <2> QED BY <1>1, <1>2, <1>3, <2>1, <2>2
<1>5. RegisterTyped' /\ \A v \in Writers : Working(writer'[v], risks')
  <2>1. DOMAIN writer' = Writers /\ edits' \in 0 .. MaxEdits /\ \A v \in Writers : Working(writer'[v], risks')
    BY <1>1, RegisterWritersKept
  <2> QED BY <1>1, <1>4, <2>1 DEF RegisterInv, RegisterTyped
<1>6. torn \subseteq torn'
  BY <1>2
<1>7. SeatsFit' /\ CodesAreDense' /\ ScoresAgree'
  BY <1>1, <1>6 DEF RegisterInv, SeatsFit, CodesAreDense, ScoresAgree
<1>8. ClosuresAreExplained'
  BY <1>1, <1>6 DEF RegisterInv, ClosuresAreExplained
<1>9. ASSUME NEW d \in Codes PROVE Stated(d)'
  <2>1. Of(d)' = Of(d)
    BY <1>1 DEF Of
  <2> QED BY <1>6, <2>1, StatedKept DEF RegisterInv
<1>10. LinksAreTold'
  <2>1. ASSUME NEW d \in Codes
        PROVE  links'[d].linked - links'[d].unlinked = (IF d \in linked' THEN 1 ELSE 0) \/ <<d, "links">> \in torn'
    <3>1. /\ links[d].linked \in Int /\ links[d].unlinked \in Int
          /\ links[d].linked - links[d].unlinked = (IF d \in linked THEN 1 ELSE 0) \/ <<d, "links">> \in torn
      BY <1>3 DEF RegisterInv, LinksAreTold
    <3>2. CASE d # c
      <4>1. links'[d] = links[d] /\ (d \in linked' <=> d \in linked)
        BY <1>1, <1>2, <1>3, <3>2
      <4> QED BY <1>6, <3>1, <4>1
    <3>3. CASE d = c /\ UNCHANGED <<linked, links, torn>>
      BY <3>1, <3>3
    <3>4. CASE d = c /\ c \notin linked /\ linked' = linked \cup {c} /\ links' = [links EXCEPT ![c].linked = @ + 1] /\ torn' = torn
      <4>1. links'[d].linked = links[d].linked + 1 /\ links'[d].unlinked = links[d].unlinked
        BY <1>1, <1>3, <3>4
      <4>2. d \notin linked /\ d \in linked'
        BY <3>4
      <4> QED BY <3>1, <3>4, <4>1, <4>2
    <3>5. CASE /\ d = c /\ linked' = linked \ {c} /\ links' = [links EXCEPT ![c].unlinked = @ + 1]
               /\ torn' = IF c \in linked THEN torn ELSE torn \cup {<<c, "links">>}
      <4>1. links'[d].linked = links[d].linked /\ links'[d].unlinked = links[d].unlinked + 1
        BY <1>1, <1>3, <3>5
      <4>2. d \notin linked' /\ (d \notin linked => <<d, "links">> \in torn')
        BY <3>5
      <4> QED BY <1>6, <3>1, <4>1, <4>2
    <3> QED BY <1>2, <3>2, <3>3, <3>4, <3>5
  <2> QED BY <2>1 DEF LinksAreTold
<1> QED BY <1>5, <1>7, <1>8, <1>9, <1>10 DEF RegisterInv

\* Every step keeps the invariant.
LEMMA RegisterStep ==
  ASSUME RegisterInv, [RegisterNext]_registerVars
  PROVE  RegisterInv'
<1>1. CASE \E w \in Writers :
             CreateBegins(w) \/ PatchBegins(w) \/ RaciBegins(w) \/ LinkBegins(w) \/ UnlinkBegins(w)
  BY <1>1, RegisterOpens
<1>2. CASE \E w \in Writers : CreateEnds(w)
  BY <1>2, CreateKeeps
<1>3. CASE \E w \in Writers : PatchEnds(w)
  BY <1>3, PatchKeeps
<1>4. CASE \E w \in Writers : RaciEnds(w)
  BY <1>4, RaciKeeps
<1>5. CASE \E w \in Writers : LinkEnds(w) \/ UnlinkEnds(w)
  BY <1>5, LinkKeeps
<1>6. CASE DeleteRisk
  BY <1>6, DeleteRiskKeeps
<1>7. CASE DeleteTeam
  BY <1>7, TeamKeeps
<1>8. CASE UNCHANGED registerVars
  <2>1. RegisterTyped' /\ SeatsFit' /\ CodesAreDense' /\ ScoresAgree'
    BY <1>8 DEF registerVars, RegisterInv, RegisterTyped, SeatsFit, CodesAreDense, ScoresAgree
  <2>2. ClosuresAreExplained' /\ LinksAreTold'
    BY <1>8 DEF registerVars, RegisterInv, ClosuresAreExplained, LinksAreTold
  <2>3. \A w \in Writers : Working(writer'[w], risks')
    BY <1>8 DEF registerVars, RegisterInv
  <2>4. ASSUME NEW d \in Codes PROVE Stated(d)'
    <3>1. Of(d)' = Of(d) /\ torn' = torn
      BY <1>8 DEF registerVars, Of
    <3> QED BY <3>1, StatedKept DEF RegisterInv
  <2> QED BY <2>1, <2>2, <2>3, <2>4 DEF RegisterInv
<1> QED BY <1>1, <1>2, <1>3, <1>4, <1>5, <1>6, <1>7, <1>8 DEF RegisterNext

\* What is kept of a risk follows from the invariant.
LEMMA RegisterFollows == RegisterInv => RegisterIsKept /\ RegisterTypeOK
<1> SUFFICES ASSUME RegisterInv PROVE RegisterIsKept /\ RegisterTypeOK
  OBVIOUS
<1>1. MatricesAreStatements
  <2>1. ASSUME NEW c \in Codes
        PROVE  /\ Cardinality(Accountable(Of(c))) <= 1
               /\ \A s \in Accountable(Of(c)) : s.user # NoOne
               /\ \/ /\ {[raci |-> s.raci, user |-> s.user, team |-> s.team] : s \in Of(c)} \in Matrices \cup {{}}
                     /\ Cardinality({s.put : s \in Of(c)}) <= 1
                  \/ {<<c, "matrix">>, <<c, "seat lost">>} \cap torn # {}
    <3>1. Stated(c) /\ SeatsFit
      BY DEF RegisterInv
    <3>2. IsFiniteSet(Of(c)) /\ IsFiniteSet(Accountable(Of(c)))
      BY <3>1, FS_Subset DEF SeatsFit, Of, Accountable
    <3>3. Cardinality(Accountable(Of(c))) <= 1
      BY <3>1, <3>2, AtMostOne DEF Stated
    <3>4. \A s \in Accountable(Of(c)) : s.user # NoOne
      BY <3>1 DEF SeatsFit, Of, Accountable
    <3>5. ASSUME \A s, u \in Of(c) : s.put = u.put PROVE Cardinality({s.put : s \in Of(c)}) <= 1
      <4> DEFINE P == {s.put : s \in Of(c)}
      <4>1. \A p, q \in P : p = q
        BY <3>5
      <4>2. IsFiniteSet(P)
        <5>1. [s \in Of(c) |-> s.put] \in Surjection(Of(c), P)
          BY DEF Surjection
        <5> QED BY <3>2, <5>1, FS_Surjection
      <4> HIDE DEF P
      <4>3. Cardinality(P) <= 1
        BY <4>1, <4>2, AtMostOne
      <4> QED BY <4>3 DEF P
    <3> QED BY <3>1, <3>3, <3>4, <3>5 DEF Stated
  <2> QED BY <2>1 DEF MatricesAreStatements
<1>2. RegisterTypeOK
  BY RowFacts DEF RegisterInv, RegisterTyped, SeatsFit, RegisterTypeOK
<1> QED BY <1>1, <1>2 DEF RegisterInv, RegisterIsKept

\* What the register keeps of every risk, for any number of risks, of writers, of
\* matrices and of edits (services/risk_register).
THEOREM RegisterKept == RegisterSpec => []RegisterIsKept
<1>1. RegisterInv => RegisterIsKept
  BY RegisterFollows
<1> QED BY RegisterStarts, RegisterStep, <1>1, PTL DEF RegisterSpec

----------------------------------------------------------------------------
(***************************************************************************)
(* Compliance.                                                             *)
(***************************************************************************)
PositionRow == [exists : BOOLEAN, status : Positions, justified : BOOLEAN, period : BOOLEAN,
                review : {"ahead", "overdue", "none"}]

ComplianceTyped ==
  /\ Shipped \subseteq catalogue /\ catalogue \subseteq Controls /\ partial \in BOOLEAN
  /\ position \in [Controls -> PositionRow] /\ claim \in [Controls -> Positions]
  /\ asks \in 0 .. MaxAsks /\ DOMAIN request = Requests

\* No gap is made before the assessment is complete.
AssessmentFits ==
  /\ assessment.status \in {"in_progress", "complete"} /\ assessment.gaps \in [Controls -> Nat]
  /\ DOMAIN assessment.snapshot \subseteq Controls
  /\ assessment.status = "in_progress" => \A c \in Controls : assessment.gaps[c] = 0

\* What a request read of the catalogue is still there; what it claims not to apply is
\* justified by what it brings or by what it read.
Reads(q, cat) ==
  /\ q.saw \in [Controls -> PositionRow] /\ q.installed \subseteq cat
  /\ q.op = "claim" =>
       /\ q.control \in Controls /\ q.status \in Positions /\ q.period \in BOOLEAN
       /\ q.justification \in {"kept", "blank", "text"}
       /\ q.status = "not_applicable" => q.justification = "text" \/ q.saw[q.control].justified
  /\ q.op = "refresh" => q.set \subseteq Signalled
  /\ q.op = "import" => q.set \subseteq Controls

\* The inductive invariant.
ComplianceInv ==
  /\ ComplianceTyped /\ AssessmentFits /\ ComplianceIsKept
  /\ \A r \in Requests : Reads(request[r], catalogue)

LEMMA PositionFacts ==
  ASSUME NEW row \in PositionRow
  PROVE  /\ row.exists \in BOOLEAN /\ row.status \in Positions /\ row.justified \in BOOLEAN
         /\ row.period \in BOOLEAN /\ row.review \in {"ahead", "overdue", "none"}
         /\ row = [exists |-> row.exists, status |-> row.status, justified |-> row.justified,
                   period |-> row.period, review |-> row.review]
BY DEF PositionRow

LEMMA IdleReads ==
  ASSUME NEW cat
  PROVE  Reads(Idle, cat)
<1>1. NoPosition \in PositionRow
  BY DEF NoPosition, PositionRow, Positions
<1>2. /\ Idle.saw = [c \in Controls |-> NoPosition] /\ Idle.installed = {} /\ Idle.op = "idle"
  BY DEF Idle
<1>3. Idle.saw \in [Controls -> PositionRow]
  BY <1>1, <1>2
<1> QED BY <1>2, <1>3 DEF Reads

LEMMA ComplianceStarts == ComplianceInit => ComplianceInv
<1> SUFFICES ASSUME ComplianceInit PROVE ComplianceInv
  OBVIOUS
<1>1. NoPosition \in PositionRow /\ NoPosition.status = "not_assessed"
  BY DEF NoPosition, PositionRow, Positions
<1>2. ComplianceTyped
  <2>1. position \in [Controls -> PositionRow] /\ claim \in [Controls -> Positions]
    BY <1>1 DEF ComplianceInit, Positions
  <2>2. asks \in 0 .. MaxAsks /\ catalogue = Shipped /\ Shipped \subseteq Controls
    BY ComplianceAssumption DEF ComplianceInit
  <2> QED BY <2>1, <2>2 DEF ComplianceInit, ComplianceTyped
<1>3. AssessmentFits
  <2>1. /\ assessment.status = "in_progress" /\ assessment.gaps = [c \in Controls |-> 0]
        /\ DOMAIN assessment.snapshot = {}
    BY DEF ComplianceInit
  <2> QED BY <2>1 DEF AssessmentFits
<1>4. ClaimsAreHuman /\ ExclusionsAreJustified
  BY <1>1 DEF ComplianceInit, ClaimsAreHuman, ExclusionsAreJustified
<1>5. AssessmentsAreFrozen
  BY DEF ComplianceInit, AssessmentsAreFrozen
<1>6. CatalogueIsHonest
  BY DEF ComplianceInit, CatalogueIsHonest
<1>7. \A r \in Requests : Reads(request[r], catalogue)
  BY IdleReads DEF ComplianceInit
<1> QED BY <1>2, <1>3, <1>4, <1>5, <1>6, <1>7 DEF ComplianceInv, ComplianceIsKept

\* A request that ends lets go of what it read; the catalogue only grows.
LEMMA RequestsKept ==
  ASSUME ComplianceInv, NEW r \in Requests, Answered(r), catalogue \subseteq catalogue'
  PROVE  /\ DOMAIN request' = Requests /\ asks' \in 0 .. MaxAsks
         /\ \A q \in Requests : Reads(request'[q], catalogue')
<1>1. DOMAIN request = Requests /\ request' = [request EXCEPT ![r] = Idle] /\ asks' = asks /\ asks \in 0 .. MaxAsks
  BY DEF Answered, ComplianceInv, ComplianceTyped
<1>2. ASSUME NEW q \in Requests, q # r PROVE Reads(request'[q], catalogue')
  <2>1. request'[q] = request[q] /\ Reads(request[q], catalogue)
    BY <1>1, <1>2 DEF ComplianceInv
  <2> QED BY <2>1 DEF Reads
<1>3. Reads(request'[r], catalogue')
  BY <1>1, IdleReads
<1> QED BY <1>1, <1>2, <1>3

LEMMA AskKeeps ==
  ASSUME ComplianceInv, NEW r \in Requests, NEW what, Ask(r, what),
         Reads([what EXCEPT !.saw = position, !.installed = catalogue], catalogue)
  PROVE  ComplianceInv'
<1>1. /\ DOMAIN request = Requests /\ asks \in 0 .. MaxAsks
      /\ request' = [request EXCEPT ![r] = [what EXCEPT !.saw = position, !.installed = catalogue]]
      /\ asks' = asks + 1 /\ asks < MaxAsks
      /\ UNCHANGED <<catalogue, partial, position, assessment, claim, mixed>>
  BY DEF Ask, ComplianceInv, ComplianceTyped
<1>2. \A q \in Requests : Reads(request'[q], catalogue')
  BY <1>1 DEF ComplianceInv
<1>3. asks' \in 0 .. MaxAsks
  BY <1>1, ComplianceAssumption
<1>4. ComplianceTyped' /\ AssessmentFits'
  BY <1>1, <1>3 DEF ComplianceInv, ComplianceTyped, AssessmentFits
<1>5. ComplianceIsKept'
  <2>1. ClaimsAreHuman' /\ ExclusionsAreJustified'
    BY <1>1 DEF ComplianceInv, ComplianceIsKept, ClaimsAreHuman, ExclusionsAreJustified
  <2>2. AssessmentsAreFrozen' /\ CatalogueIsHonest'
    BY <1>1 DEF ComplianceInv, ComplianceIsKept, AssessmentsAreFrozen, CatalogueIsHonest
  <2> QED BY <2>1, <2>2 DEF ComplianceIsKept
<1> QED BY <1>2, <1>4, <1>5 DEF ComplianceInv

LEMMA ComplianceAsks ==
  ASSUME ComplianceInv, NEW r \in Requests,
         \/ ClaimBegins(r) \/ EvidenceBegins(r) \/ RefreshBegins(r)
         \/ CoverageBegins(r) \/ CompletionBegins(r) \/ ImportBegins(r)
  PROVE  ComplianceInv'
<1>1. position \in [Controls -> PositionRow] /\ catalogue \subseteq Controls
  BY DEF ComplianceInv, ComplianceTyped
<1>2. CASE ClaimBegins(r)
  <2>1. PICK c \in catalogue, said \in Claims, given \in {"kept", "blank", "text"}, period \in BOOLEAN :
          /\ said = "not_applicable" => given = "text" \/ position[c].justified
          /\ Ask(r, [Idle EXCEPT !.op = "claim", !.control = c, !.status = said,
                                 !.justification = given, !.period = period])
    BY <1>2 DEF ClaimBegins
  <2> DEFINE q == [[Idle EXCEPT !.op = "claim", !.control = c, !.status = said,
                                !.justification = given, !.period = period]
                    EXCEPT !.saw = position, !.installed = catalogue]
  <2>2. /\ q.op = "claim" /\ q.control = c /\ q.status = said /\ q.justification = given /\ q.period = period
        /\ q.saw = position /\ q.installed = catalogue
    BY DEF Idle
  <2> HIDE DEF q
  <2>3. said \in Positions /\ c \in Controls
    BY <1>1, ComplianceAssumption
  <2>4. Reads(q, catalogue)
    BY <1>1, <2>1, <2>2, <2>3 DEF Reads
  <2> QED BY <2>1, <2>4, AskKeeps DEF q
<1>3. CASE EvidenceBegins(r)
  <2>1. PICK c \in catalogue : Ask(r, [Idle EXCEPT !.op = "evidence", !.set = {c}])
    BY <1>3 DEF EvidenceBegins
  <2>2. Reads([[Idle EXCEPT !.op = "evidence", !.set = {c}] EXCEPT !.saw = position, !.installed = catalogue], catalogue)
    BY <1>1 DEF Reads, Idle
  <2> QED BY <2>1, <2>2, AskKeeps
<1>4. CASE RefreshBegins(r)
  <2>1. PICK passing \in SUBSET Signalled : Ask(r, [Idle EXCEPT !.op = "refresh", !.set = passing])
    BY <1>4 DEF RefreshBegins
  <2>2. Reads([[Idle EXCEPT !.op = "refresh", !.set = passing] EXCEPT !.saw = position, !.installed = catalogue], catalogue)
    BY <1>1 DEF Reads, Idle
  <2> QED BY <2>1, <2>2, AskKeeps
<1>5. CASE CoverageBegins(r)
  <2>1. Ask(r, [Idle EXCEPT !.op = "coverage"])
    BY <1>5 DEF CoverageBegins
  <2>2. Reads([[Idle EXCEPT !.op = "coverage"] EXCEPT !.saw = position, !.installed = catalogue], catalogue)
    BY <1>1 DEF Reads, Idle
  <2> QED BY <2>1, <2>2, AskKeeps
<1>6. CASE CompletionBegins(r)
  <2>1. Ask(r, [Idle EXCEPT !.op = "complete"])
    BY <1>6 DEF CompletionBegins
  <2>2. Reads([[Idle EXCEPT !.op = "complete"] EXCEPT !.saw = position, !.installed = catalogue], catalogue)
    BY <1>1 DEF Reads, Idle
  <2> QED BY <2>1, <2>2, AskKeeps
<1>7. CASE ImportBegins(r)
  <2>1. PICK rows \in SUBSET Controls \ {{}} : Ask(r, [Idle EXCEPT !.op = "import", !.set = rows])
    BY <1>7 DEF ImportBegins
  <2>2. rows \subseteq Controls
    OBVIOUS
  <2>3. Reads([[Idle EXCEPT !.op = "import", !.set = rows] EXCEPT !.saw = position, !.installed = catalogue], catalogue)
    BY <1>1, <2>2 DEF Reads, Idle
  <2> QED BY <2>1, <2>3, AskKeeps
<1> QED BY <1>2, <1>3, <1>4, <1>5, <1>6, <1>7

\* What changes positions leaves the assessment and the catalogue as they are.
LEMMA PositionsKeep ==
  ASSUME ComplianceInv, UNCHANGED <<catalogue, partial, assessment>>,
         \A k \in {<<"assessment", "gaps">>, <<"catalogue", "partial">>} : k \in mixed => k \in mixed',
         position' \in [Controls -> PositionRow], claim' \in [Controls -> Positions],
         DOMAIN request' = Requests, asks' \in 0 .. MaxAsks,
         \A q \in Requests : Reads(request'[q], catalogue'),
         ClaimsAreHuman', ExclusionsAreJustified'
  PROVE  ComplianceInv'
<1>1. ComplianceTyped' /\ AssessmentFits'
  BY DEF ComplianceInv, ComplianceTyped, AssessmentFits
<1>2. AssessmentsAreFrozen'
  BY DEF ComplianceInv, ComplianceIsKept, AssessmentsAreFrozen
<1>3. CatalogueIsHonest'
  BY DEF ComplianceInv, ComplianceIsKept, CatalogueIsHonest
<1> QED BY <1>1, <1>2, <1>3 DEF ComplianceInv, ComplianceIsKept

\* A claim, or nothing.
LEMMA ClaimKeeps ==
  ASSUME ComplianceInv, NEW r \in Requests, ClaimEnds(r)
  PROVE  ComplianceInv'
<1>0. PICK c, q : c = request[r].control /\ q = request[r]
  OBVIOUS
<1> DEFINE saw == q.saw[c]
           now == position[c]
           wanted == [saw EXCEPT !.status = q.status, !.justified = Justified(saw, q.justification)]
           undisturbed == now.status = saw.status /\ now.justified = saw.justified
           row == [exists |-> TRUE,
                   status |-> IF wanted.status # saw.status THEN wanted.status ELSE now.status,
                   justified |-> IF wanted.justified # saw.justified THEN wanted.justified ELSE now.justified,
                   period |-> IF q.period # saw.period THEN q.period ELSE now.period,
                   review |-> IF q.period THEN "ahead" ELSE "none"]
           doubt == (IF undisturbed THEN {} ELSE {<<c, "status">>, <<c, "justification">>})
                      \cup (IF saw.justified /\ ~wanted.justified THEN {<<c, "justification">>} ELSE {})
<1>1. /\ q.op = "claim" /\ Answered(r) /\ UNCHANGED <<catalogue, partial, assessment>>
      /\ \/ UNCHANGED <<position, claim, mixed>>
         \/ /\ position' = [position EXCEPT ![c] = row] /\ claim' = [claim EXCEPT ![c] = q.status]
            /\ mixed' = (mixed \ {<<c, "status">>, <<c, "justification">>}) \cup doubt
  BY <1>0 DEF ClaimEnds, Judge
<1>2. /\ c \in Controls /\ q.status \in Positions /\ q.period \in BOOLEAN /\ q.saw \in [Controls -> PositionRow]
      /\ q.justification \in {"kept", "blank", "text"}
      /\ q.status = "not_applicable" => q.justification = "text" \/ q.saw[c].justified
  BY <1>0, <1>1 DEF ComplianceInv, Reads
<1>3. position \in [Controls -> PositionRow] /\ claim \in [Controls -> Positions]
  BY DEF ComplianceInv, ComplianceTyped
<1>4. saw \in PositionRow /\ now \in PositionRow
  BY <1>2, <1>3
<1> HIDE DEF saw, now
<1>5. wanted.status = q.status /\ wanted.justified = Justified(saw, q.justification)
  BY <1>4, PositionFacts
<1>6. wanted.justified \in BOOLEAN
  BY <1>2, <1>4, <1>5, PositionFacts DEF Justified
<1> HIDE DEF wanted
<1>7. row \in PositionRow
  <2>1. row.status \in Positions /\ row.justified \in BOOLEAN /\ row.period \in BOOLEAN /\ row.review \in {"ahead", "none"}
    BY <1>2, <1>4, <1>5, <1>6, PositionFacts
  <2> QED BY <2>1 DEF PositionRow
<1>8. undisturbed => row.status = q.status /\ row.justified = wanted.justified
  BY <1>5
<1>9. /\ DOMAIN request' = Requests /\ asks' \in 0 .. MaxAsks
      /\ \A p \in Requests : Reads(request'[p], catalogue')
  BY <1>1, RequestsKept
<1>10. CASE UNCHANGED <<position, claim, mixed>>
  <2>1. ClaimsAreHuman' /\ ExclusionsAreJustified'
    BY <1>10 DEF ComplianceInv, ComplianceIsKept, ClaimsAreHuman, ExclusionsAreJustified
  <2> QED BY <1>1, <1>3, <1>9, <1>10, <2>1, PositionsKeep
<1>11. CASE /\ position' = [position EXCEPT ![c] = row] /\ claim' = [claim EXCEPT ![c] = q.status]
            /\ mixed' = (mixed \ {<<c, "status">>, <<c, "justification">>}) \cup doubt
  <2>0. /\ undisturbed \/ (<<c, "status">> \in doubt /\ <<c, "justification">> \in doubt)
        /\ (saw.justified /\ ~wanted.justified) => <<c, "justification">> \in doubt
    OBVIOUS
  <2> HIDE DEF row, doubt
  <2>1. position' \in [Controls -> PositionRow] /\ claim' \in [Controls -> Positions]
    BY <1>2, <1>3, <1>7, <1>11
  <2>2. /\ position'[c] = row /\ claim'[c] = q.status
        /\ \A d \in Controls : d # c => position'[d] = position[d] /\ claim'[d] = claim[d]
    BY <1>2, <1>3, <1>11
  <2>3. ASSUME NEW d, d # c, NEW what, <<d, what>> \in mixed PROVE <<d, what>> \in mixed'
    BY <1>11, <2>3
  <2>4. \A k \in {<<"assessment", "gaps">>, <<"catalogue", "partial">>} : k \in mixed => k \in mixed'
    BY <1>11
  <2>5. ClaimsAreHuman'
    <3>1. position'[c].status = claim'[c] \/ <<c, "status">> \in mixed'
      BY <1>8, <1>11, <2>0, <2>2
    <3>2. ASSUME NEW d \in Controls, d # c
          PROVE  \/ position'[d].status = claim'[d]
                 \/ claim'[d] = "not_assessed" /\ position'[d].status = "partial" /\ d \in Signalled
                 \/ claim'[d] = "implemented" /\ position'[d].status = "stale" /\ position'[d].review = "overdue"
                 \/ <<d, "status">> \in mixed'
      BY <2>2, <2>3, <3>2 DEF ComplianceInv, ComplianceIsKept, ClaimsAreHuman
    <3> QED BY <3>1, <3>2 DEF ClaimsAreHuman
  <2>6. ExclusionsAreJustified'
    <3>1. ASSUME row.status = "not_applicable" PROVE row.justified \/ <<c, "justification">> \in mixed'
      <4>1. CASE undisturbed
        <5>1. q.justification = "text" \/ saw.justified
          BY <1>2, <1>8, <3>1, <4>1 DEF saw
        <5>2. wanted.justified \/ (saw.justified /\ ~wanted.justified)
          BY <1>2, <1>5, <5>1 DEF Justified
        <5> QED BY <1>8, <1>11, <2>0, <4>1, <5>2
      <4>2. CASE ~undisturbed
        BY <1>11, <2>0, <4>2
      <4> QED BY <4>1, <4>2
    <3>2. ASSUME NEW d \in Controls, d # c, position'[d].status = "not_applicable"
          PROVE  position'[d].justified \/ <<d, "justification">> \in mixed'
      BY <2>2, <2>3, <3>2 DEF ComplianceInv, ComplianceIsKept, ExclusionsAreJustified
    <3> QED BY <2>2, <3>1, <3>2 DEF ExclusionsAreJustified
  <2> QED BY <1>1, <1>9, <2>1, <2>4, <2>5, <2>6, PositionsKeep
<1> QED BY <1>1, <1>10, <1>11

\* Rows are opened without a word about the control.
LEMMA CreatedFits ==
  ASSUME position \in [Controls -> PositionRow], NEW touched
  PROVE  /\ Created(touched) \in [Controls -> PositionRow]
         /\ \A c \in Controls : /\ Created(touched)[c].status = position[c].status
                                /\ Created(touched)[c].justified = position[c].justified
                                /\ Created(touched)[c].review = position[c].review
<1>1. ASSUME NEW c \in Controls
      PROVE  /\ Created(touched)[c] \in PositionRow /\ Created(touched)[c].status = position[c].status
             /\ Created(touched)[c].justified = position[c].justified
             /\ Created(touched)[c].review = position[c].review
  <2>1. position[c] \in PositionRow
    OBVIOUS
  <2>2. Created(touched)[c] = IF c \in touched THEN [position[c] EXCEPT !.exists = TRUE] ELSE position[c]
    BY DEF Created
  <2>3. LET e == [position[c] EXCEPT !.exists = TRUE] IN
        e \in PositionRow /\ e.status = position[c].status /\ e.justified = position[c].justified /\ e.review = position[c].review
    BY <2>1 DEF PositionRow
  <2> QED BY <2>1, <2>2, <2>3
<1>2. Created(touched) = [c \in Controls |-> Created(touched)[c]]
  BY DEF Created
<1> QED BY <1>1, <1>2

LEMMA EvidenceKeeps ==
  ASSUME ComplianceInv, NEW r \in Requests, EvidenceEnds(r)
  PROVE  ComplianceInv'
<1>1. /\ Answered(r) /\ UNCHANGED <<catalogue, partial, assessment, claim, mixed>>
      /\ position' = position \/ position' = Created(request[r].set)
  BY DEF EvidenceEnds
<1>2. position \in [Controls -> PositionRow] /\ claim \in [Controls -> Positions]
  BY DEF ComplianceInv, ComplianceTyped
<1>3. /\ position' \in [Controls -> PositionRow]
      /\ \A c \in Controls : /\ position'[c].status = position[c].status
                             /\ position'[c].justified = position[c].justified
                             /\ position'[c].review = position[c].review
  BY <1>1, <1>2, CreatedFits
<1>4. /\ DOMAIN request' = Requests /\ asks' \in 0 .. MaxAsks
      /\ \A p \in Requests : Reads(request'[p], catalogue')
  BY <1>1, RequestsKept
<1>5. ClaimsAreHuman'
  BY <1>1, <1>3 DEF ComplianceInv, ComplianceIsKept, ClaimsAreHuman
<1>6. ExclusionsAreJustified'
  BY <1>1, <1>3 DEF ComplianceInv, ComplianceIsKept, ExclusionsAreJustified
<1> QED BY <1>1, <1>2, <1>3, <1>4, <1>5, <1>6, PositionsKeep

LEMMA ReviewKeeps ==
  ASSUME ComplianceInv, ReviewFallsDue
  PROVE  ComplianceInv'
<1>1. PICK c \in Controls :
        /\ position[c].review = "ahead" /\ position' = [position EXCEPT ![c].review = "overdue"]
        /\ UNCHANGED <<catalogue, partial, assessment, request, asks, claim, mixed>>
  BY DEF ReviewFallsDue
<1>2. /\ position \in [Controls -> PositionRow] /\ claim \in [Controls -> Positions] /\ DOMAIN request = Requests
      /\ asks \in 0 .. MaxAsks /\ \A p \in Requests : Reads(request[p], catalogue)
  BY DEF ComplianceInv, ComplianceTyped
<1> DEFINE row == [position[c] EXCEPT !.review = "overdue"]
<1>3. row \in PositionRow /\ row.status = position[c].status /\ row.justified = position[c].justified /\ row.review = "overdue"
  BY <1>2 DEF PositionRow
<1>4. position'[c] = row /\ \A d \in Controls : d # c => position'[d] = position[d]
  BY <1>1, <1>2
<1>5. position' \in [Controls -> PositionRow]
  BY <1>1, <1>2, <1>3
<1> HIDE DEF row
<1>6. \A d \in Controls : /\ position'[d].status = position[d].status /\ position'[d].justified = position[d].justified
                          /\ position[d].review = "overdue" => position'[d].review = "overdue"
  BY <1>3, <1>4
<1>7. ClaimsAreHuman'
  BY <1>1, <1>6 DEF ComplianceInv, ComplianceIsKept, ClaimsAreHuman
<1>8. ExclusionsAreJustified'
  BY <1>1, <1>6 DEF ComplianceInv, ComplianceIsKept, ExclusionsAreJustified
<1> QED BY <1>1, <1>2, <1>5, <1>7, <1>8, PositionsKeep

\* A row whose status is written.
LEMMA StatusWritten ==
  ASSUME NEW row \in PositionRow, NEW s \in Positions
  PROVE  LET e == [row EXCEPT !.status = s] IN
         e \in PositionRow /\ e.status = s /\ e.justified = row.justified /\ e.review = row.review
BY DEF PositionRow

LEMMA RefreshKeeps ==
  ASSUME ComplianceInv, NEW r \in Requests, RefreshEnds(r)
  PROVE  ComplianceInv'
<1>0. PICK lifted, q : lifted = Lifted(r) /\ q = request[r]
  OBVIOUS
<1>1. /\ q.op = "refresh" /\ Answered(r) /\ UNCHANGED <<catalogue, partial, assessment, claim>>
      /\ \/ UNCHANGED <<position, mixed>>
         \/ /\ position' = [c \in Controls |-> IF c \in lifted THEN [Created(Signalled)[c] EXCEPT !.status = "partial"]
                                               ELSE Created(Signalled)[c]]
            /\ mixed' = (mixed \ {}) \cup {<<c, "status">> : c \in {d \in lifted : position[d].status # q.saw[d].status}}
  BY <1>0 DEF RefreshEnds, Judge
<1>2. /\ position \in [Controls -> PositionRow] /\ claim \in [Controls -> Positions]
      /\ Signalled \subseteq Controls
  BY ComplianceAssumption DEF ComplianceInv, ComplianceTyped
<1>3. /\ DOMAIN request' = Requests /\ asks' \in 0 .. MaxAsks
      /\ \A p \in Requests : Reads(request'[p], catalogue')
  BY <1>1, RequestsKept
<1>4. \A c \in lifted : c \in Signalled /\ q.saw[c].status = "not_assessed"
  BY <1>0, <1>1 DEF Lifted, ComplianceInv, Reads
<1>5. CASE UNCHANGED <<position, mixed>>
  <2>1. ClaimsAreHuman' /\ ExclusionsAreJustified'
    BY <1>1, <1>5 DEF ComplianceInv, ComplianceIsKept, ClaimsAreHuman, ExclusionsAreJustified
  <2> QED BY <1>1, <1>2, <1>3, <1>5, <2>1, PositionsKeep
<1>6. CASE /\ position' = [c \in Controls |-> IF c \in lifted THEN [Created(Signalled)[c] EXCEPT !.status = "partial"]
                                              ELSE Created(Signalled)[c]]
           /\ mixed' = (mixed \ {}) \cup {<<c, "status">> : c \in {d \in lifted : position[d].status # q.saw[d].status}}
  <2>1. ASSUME NEW c \in Controls
        PROVE  /\ position'[c] \in PositionRow /\ position'[c].justified = position[c].justified
               /\ position'[c].review = position[c].review
               /\ position'[c].status = IF c \in lifted THEN "partial" ELSE position[c].status
    <3> DEFINE e == Created(Signalled)[c]
    <3>1. e \in PositionRow /\ e.status = position[c].status /\ e.justified = position[c].justified /\ e.review = position[c].review
      BY <1>2, CreatedFits
    <3>2. position'[c] = IF c \in lifted THEN [e EXCEPT !.status = "partial"] ELSE e
      BY <1>6
    <3> HIDE DEF e
    <3>3. "partial" \in Positions
      BY DEF Positions
    <3> QED BY <3>1, <3>2, <3>3, StatusWritten
  <2>2. position' \in [Controls -> PositionRow]
    BY <1>6, <2>1
  <2>3. mixed \subseteq mixed' /\ \A c \in lifted : position[c].status # "not_assessed" => <<c, "status">> \in mixed'
    BY <1>4, <1>6
  <2>4. ClaimsAreHuman'
    <3>1. ASSUME NEW c \in Controls
          PROVE  \/ position'[c].status = claim'[c]
                 \/ claim'[c] = "not_assessed" /\ position'[c].status = "partial" /\ c \in Signalled
                 \/ claim'[c] = "implemented" /\ position'[c].status = "stale" /\ position'[c].review = "overdue"
                 \/ <<c, "status">> \in mixed'
      <4>1. \/ position[c].status = claim[c]
            \/ claim[c] = "not_assessed" /\ position[c].status = "partial" /\ c \in Signalled
            \/ claim[c] = "implemented" /\ position[c].status = "stale" /\ position[c].review = "overdue"
            \/ <<c, "status">> \in mixed
        BY DEF ComplianceInv, ComplianceIsKept, ClaimsAreHuman
      <4> QED BY <1>1, <1>4, <2>1, <2>3, <4>1
    <3> QED BY <3>1 DEF ClaimsAreHuman
  <2>5. ExclusionsAreJustified'
    BY <2>1, <2>3 DEF ComplianceInv, ComplianceIsKept, ExclusionsAreJustified
  <2> QED BY <1>1, <1>2, <1>3, <2>2, <2>3, <2>4, <2>5, PositionsKeep
<1> QED BY <1>1, <1>5, <1>6

LEMMA CoverageKeeps ==
  ASSUME ComplianceInv, NEW r \in Requests, CoverageEnds(r)
  PROVE  ComplianceInv'
<1>0. PICK late, due : late = Overdue(request[r].saw) /\ due = Overdue(position)
  OBVIOUS
<1>1. /\ Answered(r) /\ UNCHANGED <<catalogue, partial, assessment, claim>>
      /\ position' = [c \in Controls |-> IF c \in late THEN [position[c] EXCEPT !.status = "stale"] ELSE position[c]]
      /\ mixed' = (mixed \ {}) \cup {<<c, "status">> : c \in late \ due}
  BY <1>0 DEF CoverageEnds, Judge
<1>2. position \in [Controls -> PositionRow] /\ claim \in [Controls -> Positions]
  BY DEF ComplianceInv, ComplianceTyped
<1>3. /\ DOMAIN request' = Requests /\ asks' \in 0 .. MaxAsks
      /\ \A p \in Requests : Reads(request'[p], catalogue')
  BY <1>1, RequestsKept
<1>4. \A c \in due : position[c].status = "implemented" /\ position[c].review = "overdue"
  BY <1>0 DEF Overdue
<1>5. ASSUME NEW c \in Controls
      PROVE  /\ position'[c] \in PositionRow /\ position'[c].justified = position[c].justified
             /\ position'[c].review = position[c].review
             /\ position'[c].status = IF c \in late THEN "stale" ELSE position[c].status
  <2>1. position[c] \in PositionRow /\ "stale" \in Positions
    BY <1>2 DEF Positions
  <2>2. position'[c] = IF c \in late THEN [position[c] EXCEPT !.status = "stale"] ELSE position[c]
    BY <1>1
  <2> QED BY <2>1, <2>2, StatusWritten
<1>6. position' \in [Controls -> PositionRow]
  BY <1>1, <1>5
<1>7. mixed \subseteq mixed' /\ \A c \in late : c \notin due => <<c, "status">> \in mixed'
  BY <1>1
<1>8. ClaimsAreHuman'
  <2>1. ASSUME NEW c \in Controls
        PROVE  \/ position'[c].status = claim'[c]
               \/ claim'[c] = "not_assessed" /\ position'[c].status = "partial" /\ c \in Signalled
               \/ claim'[c] = "implemented" /\ position'[c].status = "stale" /\ position'[c].review = "overdue"
               \/ <<c, "status">> \in mixed'
    <3>1. \/ position[c].status = claim[c]
          \/ claim[c] = "not_assessed" /\ position[c].status = "partial" /\ c \in Signalled
          \/ claim[c] = "implemented" /\ position[c].status = "stale" /\ position[c].review = "overdue"
          \/ <<c, "status">> \in mixed
      BY DEF ComplianceInv, ComplianceIsKept, ClaimsAreHuman
    <3> QED BY <1>1, <1>4, <1>5, <1>7, <3>1
  <2> QED BY <2>1 DEF ClaimsAreHuman
<1>9. ExclusionsAreJustified'
  BY <1>5, <1>7 DEF ComplianceInv, ComplianceIsKept, ExclusionsAreJustified
<1> QED BY <1>1, <1>2, <1>3, <1>6, <1>7, <1>8, <1>9, PositionsKeep


LEMMA CompletionKeeps ==
  ASSUME ComplianceInv, NEW r \in Requests, CompletionEnds(r)
  PROVE  ComplianceInv'
<1>0. PICK read, frozen, was : /\ read = request[r] /\ frozen = [c \in read.installed |-> read.saw[c].status]
                               /\ was = assessment.gaps
  OBVIOUS
<1> DEFINE more == [c \in Controls |-> was[c] + (IF c \in Open(frozen) THEN 1 ELSE 0)]
<1>1. /\ Answered(r) /\ UNCHANGED <<catalogue, partial, position, claim>>
      /\ assessment' = [status |-> "complete", snapshot |-> frozen, gaps |-> more]
      /\ mixed' = mixed \cup (IF assessment.status = "complete" THEN {<<"assessment", "gaps">>} ELSE {})
  BY <1>0 DEF CompletionEnds, Judge
<1>2. /\ was \in [Controls -> Nat] /\ assessment.status \in {"in_progress", "complete"}
      /\ assessment.status = "in_progress" => \A c \in Controls : was[c] = 0
  BY <1>0 DEF ComplianceInv, AssessmentFits
<1>3. DOMAIN frozen = read.installed /\ read.installed \subseteq Controls
  BY <1>0 DEF ComplianceInv, ComplianceTyped, Reads
<1>4. \A c \in Controls : more[c] = was[c] + (IF c \in Open(frozen) THEN 1 ELSE 0)
  OBVIOUS
<1>5. more \in [Controls -> Nat]
  BY <1>2
<1> HIDE DEF more
<1>6. assessment'.status = "complete" /\ assessment'.snapshot = frozen /\ assessment'.gaps = more
  BY <1>1
<1>7. /\ DOMAIN request' = Requests /\ asks' \in 0 .. MaxAsks
      /\ \A p \in Requests : Reads(request'[p], catalogue')
  BY <1>1, RequestsKept
<1>8. ComplianceTyped'
  BY <1>1, <1>7 DEF ComplianceInv, ComplianceTyped
<1>9. AssessmentFits'
  BY <1>3, <1>5, <1>6 DEF AssessmentFits
<1>10. AssessmentsAreFrozen'
  <2>1. CASE assessment.status = "in_progress"
    <3>1. \A c \in Controls : more[c] = (IF c \in Open(frozen) THEN 1 ELSE 0)
      BY <1>2, <1>4, <2>1
    <3> QED BY <1>6, <3>1 DEF AssessmentsAreFrozen
  <2>2. CASE assessment.status = "complete"
    <3>1. <<"assessment", "gaps">> \in mixed'
      BY <1>1, <2>2
    <3>2. Open(frozen) \subseteq Controls
      BY <1>3 DEF Open
    <3>3. ASSUME NEW c \in Open(frozen) PROVE more[c] >= 1
      <4>1. c \in Controls /\ was[c] \in Nat /\ more[c] = was[c] + 1
        BY <1>2, <1>4, <3>2
      <4> QED BY <4>1
    <3> QED BY <1>6, <3>1, <3>3 DEF AssessmentsAreFrozen
  <2> QED BY <1>2, <2>1, <2>2
<1>11. ClaimsAreHuman' /\ ExclusionsAreJustified'
  BY <1>1 DEF ComplianceInv, ComplianceIsKept, ClaimsAreHuman, ExclusionsAreJustified
<1>12. CatalogueIsHonest'
  BY <1>1 DEF ComplianceInv, ComplianceIsKept, CatalogueIsHonest
<1> QED BY <1>7, <1>8, <1>9, <1>10, <1>11, <1>12 DEF ComplianceInv, ComplianceIsKept

\* What counts as many controls as there are is all of them.
LEMMA AllInstalled ==
  ASSUME NEW S \in SUBSET Controls
  PROVE  /\ Cardinality(S) \in Nat /\ Cardinality(Controls) \in Nat
         /\ Cardinality(S) < Cardinality(Controls) <=> S # Controls
<1>1. IsFiniteSet(Controls)
  BY ComplianceAssumption
<1>2. /\ IsFiniteSet(S) /\ Cardinality(S) <= Cardinality(Controls)
      /\ Cardinality(S) = Cardinality(Controls) => S = Controls
  BY <1>1, FS_Subset
<1>3. Cardinality(S) \in Nat /\ Cardinality(Controls) \in Nat
  BY <1>1, <1>2, FS_CardinalityType
<1> QED BY <1>2, <1>3

LEMMA ImportKeeps ==
  ASSUME ComplianceInv, NEW r \in Requests, ImportEnds(r)
  PROVE  ComplianceInv'
<1>0. PICK read, rows : read = request[r].installed /\ rows = request[r].set \ read
  OBVIOUS
<1>1. /\ request[r].op = "import" /\ Answered(r) /\ UNCHANGED <<position, assessment, claim>>
      /\ \/ UNCHANGED <<catalogue, partial, mixed>>
         \/ /\ catalogue' = catalogue \cup rows
            /\ \E saw \in {read, catalogue} :
                 partial' = (partial /\ Cardinality(saw \cup rows) < Cardinality(Controls))
            /\ mixed' = mixed \cup (IF catalogue = read THEN {} ELSE {<<"catalogue", "partial">>})
  BY <1>0 DEF ImportEnds, Judge
<1>2. read \subseteq catalogue /\ rows \subseteq Controls
  BY <1>0, <1>1 DEF ComplianceInv, Reads
<1>3. Shipped \subseteq catalogue /\ catalogue \subseteq Controls /\ partial \in BOOLEAN
  BY DEF ComplianceInv, ComplianceTyped
<1>4. /\ catalogue \subseteq catalogue' /\ catalogue' \subseteq Controls /\ mixed \subseteq mixed'
  BY <1>1, <1>2, <1>3
<1>5. /\ ~partial => catalogue = Controls
      /\ catalogue = Controls => ~partial \/ Shipped = Controls \/ <<"catalogue", "partial">> \in mixed
  BY DEF ComplianceInv, ComplianceIsKept, CatalogueIsHonest
<1>6. partial' \in BOOLEAN /\ CatalogueIsHonest'
  <2>1. CASE UNCHANGED <<catalogue, partial, mixed>>
    BY <1>3, <1>5, <2>1 DEF CatalogueIsHonest
  <2>2. CASE /\ catalogue' = catalogue \cup rows
             /\ \E saw \in {read, catalogue} :
                  partial' = (partial /\ Cardinality(saw \cup rows) < Cardinality(Controls))
             /\ mixed' = mixed \cup (IF catalogue = read THEN {} ELSE {<<"catalogue", "partial">>})
    <3>1. PICK saw \in {read, catalogue} :
            partial' = (partial /\ Cardinality(saw \cup rows) < Cardinality(Controls))
      BY <2>2
    <3>2. saw \cup rows \in SUBSET Controls /\ saw \cup rows \subseteq catalogue'
      BY <1>2, <1>3, <2>2
    <3>3. Cardinality(saw \cup rows) < Cardinality(Controls) <=> saw \cup rows # Controls
      BY <3>2, AllInstalled
    <3>4. partial' = (partial /\ saw \cup rows # Controls)
      BY <3>1, <3>3
    <3>5. ~partial' => catalogue' = Controls
      BY <1>4, <1>5, <3>2, <3>4
    <3>6. ASSUME catalogue' = Controls
          PROVE  ~partial' \/ Shipped = Controls \/ <<"catalogue", "partial">> \in mixed'
      <4>1. CASE catalogue = read
        BY <2>2, <3>4, <3>6, <4>1
      <4>2. CASE catalogue # read
        BY <2>2, <4>2
      <4> QED BY <4>1, <4>2
    <3> QED BY <3>4, <3>5, <3>6, <1>3 DEF CatalogueIsHonest
  <2> QED BY <1>1, <2>1, <2>2
<1>7. /\ DOMAIN request' = Requests /\ asks' \in 0 .. MaxAsks
      /\ \A p \in Requests : Reads(request'[p], catalogue')
  BY <1>1, <1>4, RequestsKept
<1>8. ComplianceTyped' /\ AssessmentFits'
  BY <1>1, <1>3, <1>4, <1>6, <1>7 DEF ComplianceInv, ComplianceTyped, AssessmentFits
<1>9. ClaimsAreHuman' /\ ExclusionsAreJustified' /\ AssessmentsAreFrozen'
  <2>1. ClaimsAreHuman /\ ExclusionsAreJustified /\ AssessmentsAreFrozen
    BY DEF ComplianceInv, ComplianceIsKept
  <2>2. ClaimsAreHuman'
    BY <1>1, <1>4, <2>1 DEF ClaimsAreHuman
  <2>3. ExclusionsAreJustified'
    BY <1>1, <1>4, <2>1 DEF ExclusionsAreJustified
  <2>4. AssessmentsAreFrozen'
    BY <1>1, <1>4, <2>1 DEF AssessmentsAreFrozen
  <2> QED BY <2>2, <2>3, <2>4
<1> QED BY <1>6, <1>7, <1>8, <1>9 DEF ComplianceInv, ComplianceIsKept

LEMMA FallsDueKeeps ==
  ASSUME ComplianceInv, ReviewFallsDue
  PROVE  ComplianceInv'
<1>1. PICK c \in Controls : /\ position[c].review = "ahead" /\ position' = [position EXCEPT ![c].review = "overdue"]
                            /\ UNCHANGED <<catalogue, partial, assessment, request, asks, claim, mixed>>
  BY DEF ReviewFallsDue
<1>2. position \in [Controls -> PositionRow] /\ claim \in [Controls -> Positions]
  BY DEF ComplianceInv, ComplianceTyped
<1>3. ASSUME NEW d \in Controls
      PROVE  /\ position'[d] \in PositionRow /\ position'[d].status = position[d].status
             /\ position'[d].justified = position[d].justified
             /\ position[d].review = "overdue" => position'[d].review = "overdue"
  <2>1. CASE d # c
    BY <1>1, <1>2, <2>1
  <2>2. CASE d = c
    <3>1. position'[c] = [position[c] EXCEPT !.review = "overdue"] /\ position[c] \in PositionRow
      BY <1>1, <1>2
    <3> QED BY <1>1, <2>2, <3>1 DEF PositionRow
  <2> QED BY <2>1, <2>2
<1>4. position' \in [Controls -> PositionRow]
  <2>1. position' = [d \in Controls |-> position'[d]]
    BY <1>1, <1>2
  <2> QED BY <1>3, <2>1
<1>5. ClaimsAreHuman'
  BY <1>1, <1>3 DEF ComplianceInv, ComplianceIsKept, ClaimsAreHuman
<1>6. ExclusionsAreJustified'
  BY <1>1, <1>3 DEF ComplianceInv, ComplianceIsKept, ExclusionsAreJustified
<1>7. /\ DOMAIN request' = Requests /\ asks' \in 0 .. MaxAsks
      /\ \A q \in Requests : Reads(request'[q], catalogue')
  BY <1>1 DEF ComplianceInv, ComplianceTyped
<1> QED BY <1>1, <1>2, <1>4, <1>5, <1>6, <1>7, PositionsKeep

LEMMA ComplianceStep == ComplianceInv /\ [ComplianceNext]_complianceVars => ComplianceInv'
<1> SUFFICES ASSUME ComplianceInv, [ComplianceNext]_complianceVars PROVE ComplianceInv'
  OBVIOUS
<1>1. ASSUME NEW r \in Requests,
             \/ ClaimBegins(r) \/ ClaimEnds(r) \/ EvidenceBegins(r) \/ EvidenceEnds(r)
             \/ RefreshBegins(r) \/ RefreshEnds(r) \/ CoverageBegins(r) \/ CoverageEnds(r)
             \/ CompletionBegins(r) \/ CompletionEnds(r) \/ ImportBegins(r) \/ ImportEnds(r)
      PROVE  ComplianceInv'
  <2>1. CASE \/ ClaimBegins(r) \/ EvidenceBegins(r) \/ RefreshBegins(r)
             \/ CoverageBegins(r) \/ CompletionBegins(r) \/ ImportBegins(r)
    BY <2>1, ComplianceAsks
  <2>2. CASE ClaimEnds(r)
    BY <2>2, ClaimKeeps
  <2>3. CASE EvidenceEnds(r)
    BY <2>3, EvidenceKeeps
  <2>4. CASE RefreshEnds(r)
    BY <2>4, RefreshKeeps
  <2>5. CASE CoverageEnds(r)
    BY <2>5, CoverageKeeps
  <2>6. CASE CompletionEnds(r)
    BY <2>6, CompletionKeeps
  <2>7. CASE ImportEnds(r)
    BY <2>7, ImportKeeps
  <2> QED BY <1>1, <2>1, <2>2, <2>3, <2>4, <2>5, <2>6, <2>7
<1>2. CASE UNCHANGED complianceVars
  <2>1. UNCHANGED <<catalogue, partial, position, assessment, request, asks, claim, mixed>>
    BY <1>2 DEF complianceVars
  <2>2. ComplianceTyped' /\ AssessmentFits' /\ \A r \in Requests : Reads(request'[r], catalogue')
    BY <2>1 DEF ComplianceInv, ComplianceTyped, AssessmentFits
  <2>3. ClaimsAreHuman' /\ ExclusionsAreJustified'
    BY <2>1 DEF ComplianceInv, ComplianceIsKept, ClaimsAreHuman, ExclusionsAreJustified
  <2>4. AssessmentsAreFrozen' /\ CatalogueIsHonest'
    BY <2>1 DEF ComplianceInv, ComplianceIsKept, AssessmentsAreFrozen, CatalogueIsHonest
  <2> QED BY <2>2, <2>3, <2>4 DEF ComplianceInv, ComplianceIsKept
<1> QED BY <1>1, <1>2, FallsDueKeeps DEF ComplianceNext

LEMMA ComplianceFollows == ComplianceInv => ComplianceIsKept /\ ComplianceTypeOK
<1> SUFFICES ASSUME ComplianceInv PROVE ComplianceIsKept /\ ComplianceTypeOK
  OBVIOUS
<1>1. \A c \in Controls : position[c].status \in Positions /\ claim[c] \in Positions
  BY PositionFacts DEF ComplianceInv, ComplianceTyped
<1> QED BY <1>1 DEF ComplianceInv, ComplianceTyped, AssessmentFits, ComplianceTypeOK

\* What is claimed of a control is a person's claim or what signals and calendar may make
\* of it, exclusions are justified, complete assessments hold the gaps of their snapshot
\* and the catalogue is called partial just while it is: for any controls, whatever
\* requests overlap in whatever order (set_status, refresh_automated_evidence,
\* mark_stale_implementations, complete_assessment, import_controls_csv).
THEOREM ComplianceKept == ComplianceSpec => []ComplianceIsKept
<1>1. ComplianceInv => ComplianceIsKept
  BY ComplianceFollows
<1> QED BY <1>1, ComplianceStarts, ComplianceStep, PTL DEF ComplianceSpec

----------------------------------------------------------------------------
(***************************************************************************)
(* Runbooks.                                                               *)
(***************************************************************************)
Payloads == Texts \X Nat \X BOOLEAN
WikiPage == [text : Payloads, number : Nat, theirs : BOOLEAN, gone : BOOLEAN]

RunbooksTyped ==
  /\ article \in [text : Texts, version : Nat \ {0}, tagged : BOOLEAN]
  /\ revisions \in Seq(Texts) /\ worked \in 0 .. MaxWork /\ blurred \in BOOLEAN
  /\ wiki \in Seq(WikiPage) /\ DOMAIN clerk = Clerks
  /\ link.exists \in BOOLEAN /\ link.page \in 0 .. Len(wiki) /\ (link.exists => link.page # 0)

\* What a clerk holds fits the article and the wiki as they are by now.
Holds(k, art, pages) ==
  /\ DOMAIN k = {"op", "saw", "link", "to", "page", "number"}
  /\ k.op = "edit" => k.to \in Texts \X BOOLEAN /\ k.saw.version \in 1 .. art.version
  /\ k.op \in {"publish", "fetched", "sent"} =>
       k.to \in Payloads /\ (k.link.exists => k.link.page \in 1 .. Len(pages))
  /\ k.op = "fetched" => k.link.exists /\ k.page = k.link.page /\ k.number \in Nat
  /\ k.op = "sent" => k.page \in 1 .. Len(pages)

Mirrors(page, digest) == page.text = digest \/ page.theirs \/ page.gone

\* Until two publications overlap or an answer is lost, at most one is under way and it
\* read the link that is there; the page is fresh for the link, or, once it is sent, for
\* what was sent; and there is no page but the linked one and the one just created.
Mirrored ==
  /\ \A c, d \in Clerks : Publishing(c) /\ Publishing(d) => c = d
  /\ \A c \in Clerks : Publishing(c) => clerk[c].link = link
  /\ (\A c \in Clerks : clerk[c].op # "sent") /\ link.exists => Mirrors(wiki[link.page], link.digest)
  /\ \A c \in Clerks : clerk[c].op = "sent" => Mirrors(wiki[clerk[c].page], clerk[c].to)
  /\ Len(wiki) <= 1
  /\ (\A c \in Clerks : clerk[c].op # "sent") /\ ~link.exists => Len(wiki) = 0

\* The inductive invariant.
RunbooksInv ==
  /\ RunbooksTyped /\ RevisionsAreWhole
  /\ \A c \in Clerks : Holds(clerk[c], article, wiki)
  /\ blurred \/ Mirrored

\* What a clerk is given, and keeps when the work goes on.
LEMMA HoldsFields ==
  ASSUME NEW k, DOMAIN k = {"op", "saw", "link", "to", "page", "number"},
         NEW o, NEW p, NEW n, NEW s, NEW l, NEW t
  PROVE  /\ LET m == [k EXCEPT !.op = o] IN
            /\ DOMAIN m = {"op", "saw", "link", "to", "page", "number"}
            /\ m.op = o /\ m.saw = k.saw /\ m.link = k.link /\ m.to = k.to /\ m.page = k.page /\ m.number = k.number
         /\ LET m == [k EXCEPT !.op = o, !.page = p] IN
            /\ DOMAIN m = {"op", "saw", "link", "to", "page", "number"}
            /\ m.op = o /\ m.saw = k.saw /\ m.link = k.link /\ m.to = k.to /\ m.page = p /\ m.number = k.number
         /\ LET m == [k EXCEPT !.op = o, !.page = p, !.number = n] IN
            /\ DOMAIN m = {"op", "saw", "link", "to", "page", "number"}
            /\ m.op = o /\ m.saw = k.saw /\ m.link = k.link /\ m.to = k.to /\ m.page = p /\ m.number = n
         /\ LET m == [k EXCEPT !.op = o, !.saw = s, !.link = l, !.to = t] IN
            /\ DOMAIN m = {"op", "saw", "link", "to", "page", "number"}
            /\ m.op = o /\ m.saw = s /\ m.link = l /\ m.to = t /\ m.page = k.page /\ m.number = k.number
OBVIOUS

LEMMA AwayHolds ==
  ASSUME NEW art, NEW pages
  PROVE  /\ Away.op = "away" /\ DOMAIN Away = {"op", "saw", "link", "to", "page", "number"}
         /\ Holds(Away, art, pages)
BY DEF Away, Holds

\* Versions and pages are never taken back.
LEMMA HoldsOn ==
  ASSUME NEW k, NEW art, NEW later, NEW pages, NEW more, Holds(k, art, pages),
         art.version \in Nat, later.version \in Nat, art.version <= later.version,
         Len(pages) \in Nat, Len(more) \in Nat, Len(pages) <= Len(more)
  PROVE  Holds(k, later, more)
<1>1. \A n \in 1 .. art.version : n \in 1 .. later.version
  OBVIOUS
<1>2. \A n \in 1 .. Len(pages) : n \in 1 .. Len(more)
  OBVIOUS
<1> HIDE DEF Payloads
<1> QED BY <1>1, <1>2 DEF Holds

LEMMA RunbooksStart == RunbooksInit => RunbooksInv
<1> SUFFICES ASSUME RunbooksInit PROVE RunbooksInv
  OBVIOUS
<1>1. PICK text \in Texts : article = [text |-> text, version |-> 1, tagged |-> FALSE] /\ revisions = <<text>>
  BY DEF RunbooksInit
<1>2. Len(wiki) = 0 /\ wiki \in Seq(WikiPage) /\ clerk = [c \in Clerks |-> Away] /\ blurred = FALSE /\ link = NoLink /\ worked = 0
  BY DEF RunbooksInit
<1>3. link.exists = FALSE /\ link.page = 0
  BY <1>2 DEF NoLink, NoPage
<1>4. article.text = text /\ article.version = 1 /\ article.tagged = FALSE
  BY <1>1
<1>5. revisions \in Seq(Texts) /\ Len(revisions) = 1 /\ revisions[1] = text
  BY <1>1
<1>6. RunbooksTyped
  <2>1. article \in [text : Texts, version : Nat \ {0}, tagged : BOOLEAN]
    BY <1>1
  <2>2. worked \in 0 .. MaxWork
    BY <1>2, RunbooksAssumption
  <2>3. link.page \in 0 .. Len(wiki)
    BY <1>2, <1>3
  <2>4. DOMAIN clerk = Clerks
    BY <1>2
  <2> QED BY <1>2, <1>3, <1>5, <2>1, <2>2, <2>3, <2>4 DEF RunbooksTyped
<1>7. RevisionsAreWhole
  BY <1>4, <1>5 DEF RevisionsAreWhole
<1>8. \A c \in Clerks : clerk[c].op = "away" /\ Holds(clerk[c], article, wiki)
  BY <1>2, AwayHolds
<1>9. Mirrored
  BY <1>2, <1>3, <1>8 DEF Mirrored, Publishing
<1> QED BY <1>6, <1>7, <1>8, <1>9 DEF RunbooksInv

\* What leaves the link and the wiki alone, and every publication with what it holds.
LEMMA MirrorUndisturbed ==
  ASSUME blurred \/ Mirrored, UNCHANGED <<link, wiki, blurred>>,
         \A c \in Clerks : \/ clerk'[c] = clerk[c]
                           \/ ~Publishing(c) /\ ~Publishing(c)'
  PROVE  blurred' \/ Mirrored'
<1>1. \A c \in Clerks : /\ Publishing(c)' => Publishing(c) /\ clerk'[c] = clerk[c]
                        /\ clerk'[c].op = "sent" <=> clerk[c].op = "sent"
  BY DEF Publishing
<1> SUFFICES ASSUME ~blurred PROVE Mirrored'
  OBVIOUS
<1>2. Mirrored
  OBVIOUS
<1>3. ASSUME NEW c \in Clerks, clerk'[c].op = "sent" PROVE clerk'[c] = clerk[c]
  BY <1>1, <1>3 DEF Publishing
<1>4. (\A c \in Clerks : clerk'[c].op # "sent") <=> (\A c \in Clerks : clerk[c].op # "sent")
  BY <1>1
<1>5. \A c, d \in Clerks : Publishing(c)' /\ Publishing(d)' => c = d
  BY <1>1, <1>2 DEF Mirrored
<1>6. \A c \in Clerks : Publishing(c)' => clerk'[c].link = link'
  BY <1>1, <1>2 DEF Mirrored
<1>7. \A c \in Clerks : clerk'[c].op = "sent" => Mirrors(wiki'[clerk'[c].page], clerk'[c].to)
  BY <1>1, <1>2, <1>3 DEF Mirrored
<1>8. (\A c \in Clerks : clerk'[c].op # "sent") /\ link'.exists => Mirrors(wiki'[link'.page], link'.digest)
  BY <1>2, <1>4 DEF Mirrored
<1>9. Len(wiki') <= 1 /\ ((\A c \in Clerks : clerk'[c].op # "sent") /\ ~link'.exists => Len(wiki') = 0)
  BY <1>2, <1>4 DEF Mirrored
<1> QED BY <1>5, <1>6, <1>7, <1>8, <1>9 DEF Mirrored

\* A clerk who turns to something that fits leaves the others as they were.
LEMMA ClerkTurns ==
  ASSUME RunbooksInv, NEW c \in Clerks, NEW k, clerk' = [clerk EXCEPT ![c] = k],
         article'.version \in Nat, article.version <= article'.version,
         Len(wiki') \in Nat, Len(wiki) <= Len(wiki'), Holds(k, article', wiki')
  PROVE  /\ DOMAIN clerk' = Clerks /\ clerk'[c] = k /\ \A d \in Clerks : d # c => clerk'[d] = clerk[d]
         /\ \A d \in Clerks : Holds(clerk'[d], article', wiki')
<1>1. DOMAIN clerk = Clerks /\ article.version \in Nat /\ Len(wiki) \in Nat
  BY DEF RunbooksInv, RunbooksTyped
<1>2. /\ DOMAIN clerk' = Clerks /\ clerk'[c] = k /\ \A d \in Clerks : d # c => clerk'[d] = clerk[d]
  BY <1>1
<1>3. ASSUME NEW d \in Clerks, d # c PROVE Holds(clerk[d], article', wiki')
  <2>1. Holds(clerk[d], article, wiki)
    BY DEF RunbooksInv
  <2> QED BY <1>1, <2>1, HoldsOn
<1> QED BY <1>2, <1>3

----------------------------------------------------------------------------
LEMMA EditBeginsKeeps ==
  ASSUME RunbooksInv, NEW c \in Clerks, EditBegins(c)
  PROVE  RunbooksInv'
<1>1. PICK text \in Texts, tagged \in BOOLEAN :
        Serve(c, [op |-> "edit", to |-> <<text, tagged>>]) /\ UNCHANGED blurred
  BY DEF EditBegins
<1> DEFINE k == [Away EXCEPT !.op = "edit", !.saw = article, !.link = link, !.to = <<text, tagged>>]
<1>2. /\ clerk[c].op = "away" /\ worked < MaxWork /\ worked' = worked + 1
      /\ clerk' = [clerk EXCEPT ![c] = k] /\ UNCHANGED <<article, revisions, link, wiki, blurred>>
  BY <1>1 DEF Serve, Work
<1>3. /\ DOMAIN k = {"op", "saw", "link", "to", "page", "number"}
      /\ k.op = "edit" /\ k.saw = article /\ k.to = <<text, tagged>>
  BY AwayHolds, HoldsFields
<1>4. article.version \in Nat /\ article.version \in 1 .. article.version /\ Len(wiki) \in Nat
  <2>1. article.version \in Nat \ {0} /\ Len(wiki) \in Nat
    BY DEF RunbooksInv, RunbooksTyped
  <2> QED BY <2>1
<1>4a. /\ article'.version \in Nat /\ article.version <= article'.version
       /\ Len(wiki') \in Nat /\ Len(wiki) <= Len(wiki')
  BY <1>2, <1>4
<1>5. Holds(k, article', wiki')
  BY <1>2, <1>3, <1>4 DEF Holds
<1> HIDE DEF k
<1>6. /\ DOMAIN clerk' = Clerks /\ clerk'[c] = k /\ \A d \in Clerks : d # c => clerk'[d] = clerk[d]
      /\ \A d \in Clerks : Holds(clerk'[d], article', wiki')
  BY <1>2, <1>4a, <1>5, ClerkTurns
<1>7. worked' \in 0 .. MaxWork
  BY <1>2, RunbooksAssumption DEF RunbooksInv, RunbooksTyped
<1>8. RunbooksTyped'
  BY <1>2, <1>6, <1>7 DEF RunbooksInv, RunbooksTyped
<1>9. RevisionsAreWhole'
  BY <1>2 DEF RunbooksInv, RevisionsAreWhole
<1>10. k.op = "edit"
  BY <1>3
<1>11. \A d \in Clerks : clerk'[d] = clerk[d] \/ (~Publishing(d) /\ ~Publishing(d)')
  BY <1>2, <1>6, <1>10 DEF Publishing
<1>12. blurred' \/ Mirrored'
  BY <1>2, <1>11, MirrorUndisturbed DEF RunbooksInv
<1> QED BY <1>6, <1>8, <1>9, <1>12 DEF RunbooksInv

LEMMA EditEndsKeeps ==
  ASSUME RunbooksInv, NEW c \in Clerks, EditEnds(c)
  PROVE  RunbooksInv'
<1>0. PICK k, next, said, tag :
        /\ k = clerk[c] /\ next = Version(c) /\ said = k.to[1] /\ tag = k.to[2]
  OBVIOUS
<1>1. /\ k.op = "edit" /\ clerk' = [clerk EXCEPT ![c] = Away] /\ UNCHANGED <<worked, link, wiki, blurred>>
      /\ \/ UNCHANGED <<article, revisions>>
         \/ /\ said # k.saw.text => next \notin DOMAIN revisions
            /\ revisions' = IF said # k.saw.text THEN Append(revisions, said) ELSE revisions
            /\ article' = [text |-> IF said # k.saw.text THEN said ELSE article.text,
                           version |-> IF next # k.saw.version THEN next ELSE article.version,
                           tagged |-> IF tag # k.saw.tagged THEN tag ELSE article.tagged]
  BY <1>0 DEF EditEnds, Served, Revised
<1>2. /\ k.to \in Texts \X BOOLEAN /\ k.saw.version \in 1 .. article.version
  BY <1>0, <1>1 DEF RunbooksInv, Holds
<1>3. /\ article \in [text : Texts, version : Nat \ {0}, tagged : BOOLEAN] /\ revisions \in Seq(Texts)
      /\ Len(wiki) \in Nat /\ DOMAIN revisions = 1 .. Len(revisions) /\ Len(revisions) \in Nat
  BY DEF RunbooksInv, RunbooksTyped
<1>4. article.version = Len(revisions) /\ article.text = revisions[article.version]
  BY DEF RunbooksInv, RevisionsAreWhole
<1>5. said \in Texts /\ tag \in BOOLEAN
  BY <1>0, <1>2
<1>6. next = k.saw.version + (IF said # k.saw.text THEN 1 ELSE 0)
  BY <1>0 DEF Version, Revised
<1>7. /\ article' \in [text : Texts, version : Nat \ {0}, tagged : BOOLEAN] /\ revisions' \in Seq(Texts)
      /\ article.version <= article'.version
      /\ article'.version = Len(revisions') /\ article'.text = revisions'[article'.version]
  <2>1. CASE UNCHANGED <<article, revisions>>
    <3>1. article.version <= article.version
      BY <1>3
    <3> QED BY <1>3, <1>4, <2>1, <3>1
  <2>2. CASE /\ said = k.saw.text /\ revisions' = revisions
             /\ article' = [text |-> article.text, version |-> article.version,
                            tagged |-> IF tag # k.saw.tagged THEN tag ELSE article.tagged]
    <3>1. article.version <= article.version
      BY <1>3
    <3>2. article'.text = article.text /\ article'.version = article.version
      BY <2>2
    <3>3. article' \in [text : Texts, version : Nat \ {0}, tagged : BOOLEAN]
      BY <1>3, <1>5, <2>2
    <3> QED BY <1>3, <1>4, <2>2, <3>1, <3>2, <3>3
  <2>3. CASE /\ said # k.saw.text /\ next \notin DOMAIN revisions /\ revisions' = Append(revisions, said)
             /\ article' = [text |-> said, version |-> next,
                            tagged |-> IF tag # k.saw.tagged THEN tag ELSE article.tagged]
    <3>1. next = k.saw.version + 1
      BY <1>6, <2>3
    <3>2. next = Len(revisions) + 1
      BY <1>2, <1>3, <1>4, <2>3, <3>1
    <3>3. /\ revisions' \in Seq(Texts) /\ Len(revisions') = Len(revisions) + 1
          /\ revisions'[Len(revisions) + 1] = said
      BY <1>3, <1>5, <2>3, AppendProperties
    <3>4. next \in Nat \ {0} /\ article.version <= next
      BY <1>3, <1>4, <3>2
    <3>5. article'.text = said /\ article'.version = next
      BY <2>3
    <3>6. article' \in [text : Texts, version : Nat \ {0}, tagged : BOOLEAN]
      BY <1>3, <1>5, <2>3, <3>4
    <3> QED BY <3>2, <3>3, <3>4, <3>5, <3>6
  <2>4. next = k.saw.version \/ said # k.saw.text
    BY <1>2, <1>6
  <2>5. said # k.saw.text => next # k.saw.version
    BY <1>2, <1>6
  <2> QED BY <1>1, <2>1, <2>2, <2>3, <2>4, <2>5
<1>8. article'.version \in Nat /\ Len(wiki') \in Nat /\ Len(wiki) <= Len(wiki')
  BY <1>1, <1>3, <1>7
<1>9. /\ DOMAIN clerk' = Clerks /\ clerk'[c] = Away /\ \A d \in Clerks : d # c => clerk'[d] = clerk[d]
      /\ \A d \in Clerks : Holds(clerk'[d], article', wiki')
  BY <1>1, <1>7, <1>8, ClerkTurns, AwayHolds
<1>10. RunbooksTyped'
  BY <1>1, <1>7, <1>9 DEF RunbooksInv, RunbooksTyped
<1>11. \A d \in Clerks : clerk'[d] = clerk[d] \/ (~Publishing(d) /\ ~Publishing(d)')
  BY <1>0, <1>1, <1>9, AwayHolds DEF Publishing
<1>12. blurred' \/ Mirrored'
  BY <1>1, <1>11, MirrorUndisturbed DEF RunbooksInv
<1> QED BY <1>7, <1>9, <1>10, <1>12 DEF RunbooksInv, RevisionsAreWhole

----------------------------------------------------------------------------
LEMMA PublishBeginsKeeps ==
  ASSUME RunbooksInv, NEW c \in Clerks, PublishBegins(c)
  PROVE  RunbooksInv'
<1> DEFINE k == [Away EXCEPT !.op = "publish", !.saw = article, !.link = link, !.to = Payload(article)]
<1>1. /\ clerk[c].op = "away" /\ worked < MaxWork /\ worked' = worked + 1
      /\ clerk' = [clerk EXCEPT ![c] = k] /\ UNCHANGED <<article, revisions, link, wiki>>
      /\ blurred' = (blurred \/ \E d \in Clerks : Publishing(d))
  BY DEF PublishBegins, Serve, Work
<1>2. /\ DOMAIN k = {"op", "saw", "link", "to", "page", "number"}
      /\ k.op = "publish" /\ k.link = link /\ k.to = Payload(article)
  BY AwayHolds, HoldsFields
<1>3. /\ article \in [text : Texts, version : Nat \ {0}, tagged : BOOLEAN] /\ blurred \in BOOLEAN
      /\ Len(wiki) \in Nat /\ link.page \in 0 .. Len(wiki) /\ (link.exists => link.page # 0)
  BY DEF RunbooksInv, RunbooksTyped
<1>4. /\ article'.version \in Nat /\ article.version <= article'.version
      /\ Len(wiki') \in Nat /\ Len(wiki) <= Len(wiki')
  BY <1>1, <1>3
<1>5. Payload(article) \in Payloads
  BY <1>3 DEF Payload, Payloads
<1>6. link.exists => link.page \in 1 .. Len(wiki)
  BY <1>3
<1>7. Holds(k, article', wiki')
  BY <1>1, <1>2, <1>5, <1>6 DEF Holds
<1> HIDE DEF k
<1>8. /\ DOMAIN clerk' = Clerks /\ clerk'[c] = k /\ \A d \in Clerks : d # c => clerk'[d] = clerk[d]
      /\ \A d \in Clerks : Holds(clerk'[d], article', wiki')
  BY <1>1, <1>4, <1>7, ClerkTurns
<1>9. worked' \in 0 .. MaxWork
  BY <1>1, RunbooksAssumption DEF RunbooksInv, RunbooksTyped
<1>10. RunbooksTyped'
  BY <1>1, <1>8, <1>9 DEF RunbooksInv, RunbooksTyped
<1>11. RevisionsAreWhole'
  BY <1>1 DEF RunbooksInv, RevisionsAreWhole
<1>12. ASSUME ~blurred' PROVE Mirrored'
  <2>1. Mirrored /\ \A d \in Clerks : ~Publishing(d)
    BY <1>1, <1>12 DEF RunbooksInv
  <2>2. \A d \in Clerks : Publishing(d)' => d = c
    BY <1>8, <2>1 DEF Publishing
  <2>3. \A d \in Clerks : clerk[d].op # "sent" /\ clerk'[d].op # "sent"
    BY <1>2, <1>8, <2>1 DEF Publishing
  <2>4. \A d, e \in Clerks : Publishing(d)' /\ Publishing(e)' => d = e
    BY <2>2
  <2>5. \A d \in Clerks : Publishing(d)' => clerk'[d].link = link'
    BY <1>1, <1>2, <1>8, <2>2
  <2>6. /\ link'.exists => Mirrors(wiki'[link'.page], link'.digest)
        /\ Len(wiki') <= 1 /\ (~link'.exists => Len(wiki') = 0)
    BY <1>1, <2>1, <2>3 DEF Mirrored
  <2> QED BY <2>3, <2>4, <2>5, <2>6 DEF Mirrored
<1> QED BY <1>8, <1>10, <1>11, <1>12 DEF RunbooksInv

\* After an overlap or a lost answer only what is typed is left to keep.
LEMMA Blurs ==
  ASSUME RunbooksInv, NEW c \in Clerks, NEW k, clerk' = [clerk EXCEPT ![c] = k],
         UNCHANGED <<article, revisions, link, worked>>,
         wiki' \in Seq(WikiPage), Len(wiki) <= Len(wiki'), Holds(k, article, wiki'),
         blurred' \in BOOLEAN, blurred' \/ Mirrored'
  PROVE  RunbooksInv'
<1>1. /\ article.version \in Nat /\ Len(wiki) \in Nat /\ Len(wiki') \in Nat /\ link.page \in 0 .. Len(wiki)
  BY DEF RunbooksInv, RunbooksTyped
<1>2. /\ article'.version \in Nat /\ article.version <= article'.version /\ Holds(k, article', wiki')
  BY <1>1
<1>3. /\ DOMAIN clerk' = Clerks /\ \A d \in Clerks : Holds(clerk'[d], article', wiki')
  BY <1>1, <1>2, ClerkTurns
<1>4. link'.page \in 0 .. Len(wiki')
  BY <1>1
<1>5. RunbooksTyped'
  BY <1>3, <1>4 DEF RunbooksInv, RunbooksTyped
<1>6. RevisionsAreWhole'
  BY DEF RunbooksInv, RevisionsAreWhole
<1> QED BY <1>3, <1>5, <1>6 DEF RunbooksInv

LEMMA PublishFailsKeeps ==
  ASSUME RunbooksInv, NEW c \in Clerks, PublishFails(c)
  PROVE  RunbooksInv'
<1>1. /\ Publishing(c) /\ clerk' = [clerk EXCEPT ![c] = Away] /\ UNCHANGED <<article, revisions, link, wiki, worked>>
      /\ blurred' = (blurred \/ clerk[c].op = "sent")
  BY DEF PublishFails, Served
<1>2. /\ wiki \in Seq(WikiPage) /\ Len(wiki) \in Nat /\ DOMAIN clerk = Clerks /\ blurred \in BOOLEAN
  BY DEF RunbooksInv, RunbooksTyped
<1>3. clerk'[c] = Away /\ \A d \in Clerks : d # c => clerk'[d] = clerk[d]
  BY <1>1, <1>2
<1>4. ASSUME ~blurred' PROVE Mirrored'
  <2>1. Mirrored /\ clerk[c].op # "sent"
    BY <1>1, <1>4 DEF RunbooksInv
  <2>2. \A d \in Clerks : Publishing(d) => d = c
    BY <1>1, <2>1 DEF Mirrored
  <2>3. \A d \in Clerks : ~Publishing(d)' /\ clerk'[d].op # "sent" /\ clerk[d].op # "sent"
    BY <1>3, <2>1, <2>2, AwayHolds DEF Publishing
  <2>4. /\ link'.exists => Mirrors(wiki'[link'.page], link'.digest)
        /\ Len(wiki') <= 1 /\ (~link'.exists => Len(wiki') = 0)
    BY <1>1, <2>1, <2>3 DEF Mirrored
  <2> QED BY <2>3, <2>4 DEF Mirrored
<1>5. Len(wiki) <= Len(wiki') /\ wiki' \in Seq(WikiPage)
  BY <1>1, <1>2
<1>6. blurred' \in BOOLEAN
  BY <1>1, <1>2
<1> QED BY <1>1, <1>4, <1>5, <1>6, AwayHolds, Blurs

\* What was sent is on the page, whatever the link says by now.
LEMMA Sends ==
  ASSUME RunbooksInv, NEW c \in Clerks, Publishing(c), Mirrored,
         clerk'[c].op = "sent", clerk'[c].link = clerk[c].link, clerk'[c].to = clerk[c].to,
         \A d \in Clerks : d # c => clerk'[d] = clerk[d],
         link' = link, Len(wiki') <= 1, Mirrors(wiki'[clerk'[c].page], clerk'[c].to)
  PROVE  Mirrored'
<1>1. \A d \in Clerks : Publishing(d) => d = c
  BY DEF Mirrored
<1>2. \A d \in Clerks : Publishing(d)' => d = c
  BY <1>1 DEF Publishing
<1>3. \A d \in Clerks : clerk'[d].op = "sent" => d = c
  BY <1>2 DEF Publishing
<1>4. clerk'[c].link = link'
  BY DEF Mirrored
<1> QED BY <1>2, <1>3, <1>4 DEF Mirrored

LEMMA PageCreateKeeps ==
  ASSUME RunbooksInv, NEW c \in Clerks, NEW answered \in BOOLEAN, Create(c, answered)
  PROVE  RunbooksInv'
<1>0. PICK k, page : k = clerk[c] /\ page = [text |-> k.to, number |-> 1, theirs |-> FALSE, gone |-> FALSE]
  OBVIOUS
<1>1. /\ k.op = "publish" /\ ~k.link.exists /\ wiki' = Append(wiki, page)
      /\ UNCHANGED <<article, revisions, link, worked>>
      /\ IF answered
         THEN clerk' = [clerk EXCEPT ![c].op = "sent", ![c].page = Len(wiki) + 1] /\ UNCHANGED blurred
         ELSE clerk' = [clerk EXCEPT ![c] = Away] /\ blurred' = TRUE
  BY <1>0 DEF Create, Served
<1>2. /\ wiki \in Seq(WikiPage) /\ Len(wiki) \in Nat /\ DOMAIN clerk = Clerks /\ blurred \in BOOLEAN
  BY DEF RunbooksInv, RunbooksTyped
<1>3. Holds(k, article, wiki) /\ k.to \in Payloads
  BY <1>0, <1>1 DEF RunbooksInv, Holds
<1>4. page \in WikiPage /\ page.text = k.to
  BY <1>0, <1>3 DEF WikiPage
<1>5. /\ wiki' \in Seq(WikiPage) /\ Len(wiki') = Len(wiki) + 1 /\ wiki'[Len(wiki) + 1] = page
  BY <1>1, <1>2, <1>4, AppendProperties
<1>6. Len(wiki) <= Len(wiki') /\ Len(wiki') \in Nat
  BY <1>2, <1>5
<1>7. CASE answered
  <2> DEFINE m == [k EXCEPT !.op = "sent", !.page = Len(wiki) + 1]
  <2>1. clerk' = [clerk EXCEPT ![c] = m]
    BY <1>0, <1>1, <1>7
  <2>2. /\ DOMAIN m = {"op", "saw", "link", "to", "page", "number"}
        /\ m.op = "sent" /\ m.link = k.link /\ m.to = k.to /\ m.page = Len(wiki) + 1
    BY <1>3, HoldsFields DEF Holds
  <2> HIDE DEF m
  <2>3. m.page \in 1 .. Len(wiki')
    BY <1>2, <1>5, <2>2
  <2>4. Holds(m, article, wiki')
    BY <1>1, <1>3, <2>2, <2>3 DEF Holds
  <2>5. clerk'[c] = m /\ \A d \in Clerks : d # c => clerk'[d] = clerk[d]
    BY <1>2, <2>1
  <2>6. ASSUME ~blurred' PROVE Mirrored'
    <3>1. Mirrored /\ Publishing(c)
      BY <1>0, <1>1, <1>7, <2>6 DEF RunbooksInv, Publishing
    <3>2. k.link = link /\ \A d \in Clerks : clerk[d].op # "sent"
      BY <1>0, <1>1, <3>1 DEF Mirrored, Publishing
    <3>3. Len(wiki) = 0
      BY <1>1, <3>1, <3>2 DEF Mirrored
    <3>4. Len(wiki') <= 1
      BY <1>5, <3>3
    <3>5. Mirrors(wiki'[clerk'[c].page], clerk'[c].to)
      BY <1>4, <1>5, <2>2, <2>5 DEF Mirrors
    <3> QED BY <1>0, <1>1, <2>2, <2>5, <3>1, <3>4, <3>5, Sends
  <2>7. blurred' \in BOOLEAN
    BY <1>1, <1>2, <1>7
  <2> QED BY <1>1, <1>5, <1>6, <2>1, <2>4, <2>6, <2>7, Blurs
<1>8. CASE ~answered
  BY <1>1, <1>5, <1>6, <1>8, AwayHolds, Blurs
<1> QED BY <1>7, <1>8

LEMMA FetchKeeps ==
  ASSUME RunbooksInv, NEW c \in Clerks, Fetch(c)
  PROVE  RunbooksInv'
<1>0. PICK k, p, n : k = clerk[c] /\ p = k.link.page /\ n = wiki[p].number + 1
  OBVIOUS
<1> DEFINE m == [k EXCEPT !.op = "fetched", !.page = p, !.number = n]
<1>1. /\ k.op = "publish" /\ k.link.exists
      /\ clerk' = [clerk EXCEPT ![c].op = "fetched", ![c].page = p, ![c].number = n]
      /\ UNCHANGED <<article, revisions, link, wiki, worked, blurred>>
  BY <1>0 DEF Fetch
<1>2. /\ wiki \in Seq(WikiPage) /\ Len(wiki) \in Nat /\ DOMAIN clerk = Clerks /\ blurred \in BOOLEAN
  BY DEF RunbooksInv, RunbooksTyped
<1>3. Holds(k, article, wiki) /\ p \in 1 .. Len(wiki)
  BY <1>0, <1>1 DEF RunbooksInv, Holds
<1>4. wiki[p] \in WikiPage
  BY <1>2, <1>3, ElementOfSeq
<1>5. n \in Nat
  BY <1>0, <1>4 DEF WikiPage
<1>6. clerk' = [clerk EXCEPT ![c] = m]
  BY <1>0, <1>1
<1>7. /\ DOMAIN m = {"op", "saw", "link", "to", "page", "number"}
      /\ m.op = "fetched" /\ m.link = k.link /\ m.to = k.to /\ m.page = p /\ m.number = n
  BY <1>3, HoldsFields DEF Holds
<1> HIDE DEF m
<1>8. Holds(m, article, wiki')
  BY <1>0, <1>1, <1>3, <1>5, <1>7 DEF Holds
<1>9. clerk'[c] = m /\ \A d \in Clerks : d # c => clerk'[d] = clerk[d]
  BY <1>2, <1>6
<1>10. ASSUME ~blurred' PROVE Mirrored'
  <2>1. Mirrored /\ Publishing(c)
    BY <1>0, <1>1, <1>10 DEF RunbooksInv, Publishing
  <2>2. \A d \in Clerks : clerk'[d].op # "sent" /\ clerk[d].op # "sent"
    BY <1>0, <1>1, <1>7, <1>9, <2>1 DEF Mirrored, Publishing
  <2>3. \A d \in Clerks : Publishing(d)' => d = c
    BY <1>9, <2>1 DEF Mirrored, Publishing
  <2>4. clerk'[c].link = link'
    BY <1>0, <1>1, <1>7, <1>9, <2>1 DEF Mirrored
  <2>5. /\ link'.exists => Mirrors(wiki'[link'.page], link'.digest)
        /\ Len(wiki') <= 1 /\ (~link'.exists => Len(wiki') = 0)
    BY <1>1, <2>1, <2>2 DEF Mirrored
  <2> QED BY <2>2, <2>3, <2>4, <2>5 DEF Mirrored
<1>11. Len(wiki) <= Len(wiki') /\ wiki' \in Seq(WikiPage) /\ blurred' \in BOOLEAN
  BY <1>1, <1>2
<1> QED BY <1>1, <1>6, <1>8, <1>10, <1>11, Blurs

\* What becomes of a page that is written to, edited there or removed.
LEMMA PageFields ==
  ASSUME NEW page \in WikiPage
  PROVE  /\ \A text \in Payloads :
              LET q == [page EXCEPT !.text = text, !.number = @ + 1, !.theirs = FALSE]
              IN  q \in WikiPage /\ q.text = text
         /\ LET q == [page EXCEPT !.number = @ + 1, !.theirs = TRUE] IN q \in WikiPage /\ q.theirs
         /\ LET q == [page EXCEPT !.gone = TRUE] IN q \in WikiPage /\ q.gone
<1>1. PICK n : n = page.number + 1
  OBVIOUS
<1>2. n \in Nat
  BY <1>1 DEF WikiPage
<1>3. \A text \in Payloads :
        LET q == [page EXCEPT !.text = text, !.number = n, !.theirs = FALSE]
        IN  q \in WikiPage /\ q.text = text
  BY <1>2 DEF WikiPage
<1>4. LET q == [page EXCEPT !.number = n, !.theirs = TRUE] IN q \in WikiPage /\ q.theirs
  BY <1>2 DEF WikiPage
<1>5. LET q == [page EXCEPT !.gone = TRUE] IN q \in WikiPage /\ q.gone
  BY DEF WikiPage
<1> QED BY <1>1, <1>3, <1>4, <1>5

\* A page that is written on keeps its number and its fields.
LEMMA PageWritten ==
  ASSUME NEW pages \in Seq(WikiPage), NEW p \in 1 .. Len(pages), NEW page \in WikiPage,
         NEW after, after = [pages EXCEPT ![p] = page]
  PROVE  /\ after \in Seq(WikiPage) /\ Len(after) = Len(pages) /\ after[p] = page
         /\ \A q \in 1 .. Len(pages) : q # p => after[q] = pages[q]
<1> HIDE DEF WikiPage
<1>1. after \in Seq(WikiPage) /\ Len(after) = Len(pages)
      /\ \A q \in 1 .. Len(pages) : after[q] = IF q = p THEN page ELSE pages[q]
  BY ExceptSeq
<1> QED BY <1>1

LEMMA UpdateKeeps ==
  ASSUME RunbooksInv, NEW c \in Clerks, NEW answered \in BOOLEAN, Update(c, answered)
  PROVE  RunbooksInv'
<1>0. PICK k, p, page :
        /\ k = clerk[c] /\ p = k.page
        /\ page = [wiki[p] EXCEPT !.text = k.to, !.number = @ + 1, !.theirs = FALSE]
  OBVIOUS
<1>1. /\ k.op = "fetched" /\ UNCHANGED <<article, revisions, link, worked>>
      /\ wiki' = [wiki EXCEPT ![p].text = k.to, ![p].number = @ + 1, ![p].theirs = FALSE]
      /\ IF answered
         THEN clerk' = [clerk EXCEPT ![c].op = "sent"] /\ UNCHANGED blurred
         ELSE clerk' = [clerk EXCEPT ![c] = Away] /\ blurred' = TRUE
  BY <1>0 DEF Update, Served, Step
<1>2. /\ wiki \in Seq(WikiPage) /\ Len(wiki) \in Nat /\ DOMAIN clerk = Clerks /\ blurred \in BOOLEAN
  BY DEF RunbooksInv, RunbooksTyped
<1>3. Holds(k, article, wiki) /\ k.to \in Payloads /\ p \in 1 .. Len(wiki)
  BY <1>0, <1>1 DEF RunbooksInv, Holds
<1>4. wiki[p] \in WikiPage
  BY <1>2, <1>3, ElementOfSeq
<1>5. page \in WikiPage /\ page.text = k.to
  BY <1>0, <1>3, <1>4, PageFields
<1>6. wiki' = [wiki EXCEPT ![p] = page]
  BY <1>0, <1>1, <1>2, <1>3
<1>7. wiki' \in Seq(WikiPage) /\ Len(wiki') = Len(wiki) /\ wiki'[p] = page
  BY <1>2, <1>3, <1>5, <1>6, PageWritten
<1>8. Len(wiki) <= Len(wiki')
  BY <1>2, <1>7
<1>9. CASE answered
  <2> DEFINE m == [k EXCEPT !.op = "sent"]
  <2>1. clerk' = [clerk EXCEPT ![c] = m]
    BY <1>0, <1>1, <1>9
  <2>2. /\ DOMAIN m = {"op", "saw", "link", "to", "page", "number"}
        /\ m.op = "sent" /\ m.link = k.link /\ m.to = k.to /\ m.page = p
    BY <1>0, <1>3, HoldsFields DEF Holds
  <2> HIDE DEF m
  <2>3. k.link.exists => k.link.page \in 1 .. Len(wiki')
    BY <1>1, <1>3, <1>7 DEF Holds
  <2>4. Holds(m, article, wiki')
    BY <1>3, <1>7, <2>2, <2>3 DEF Holds
  <2>5. clerk'[c] = m /\ \A d \in Clerks : d # c => clerk'[d] = clerk[d]
    BY <1>2, <2>1
  <2>6. ASSUME ~blurred' PROVE Mirrored'
    <3>1. Mirrored /\ Publishing(c)
      BY <1>0, <1>1, <1>9, <2>6 DEF RunbooksInv, Publishing
    <3>2. Len(wiki') <= 1
      BY <1>7, <3>1 DEF Mirrored
    <3>3. Mirrors(wiki'[clerk'[c].page], clerk'[c].to)
      BY <1>5, <1>7, <2>2, <2>5 DEF Mirrors
    <3> QED BY <1>0, <1>1, <2>2, <2>5, <3>1, <3>2, <3>3, Sends
  <2>7. blurred' \in BOOLEAN
    BY <1>1, <1>2, <1>9
  <2> QED BY <1>1, <1>7, <1>8, <2>1, <2>4, <2>6, <2>7, Blurs
<1>10. CASE ~answered
  BY <1>1, <1>7, <1>8, <1>10, AwayHolds, Blurs
<1> QED BY <1>9, <1>10

LEMMA PublishEndsKeeps ==
  ASSUME RunbooksInv, NEW c \in Clerks, PublishEnds(c)
  PROVE  RunbooksInv'
<1>0. PICK k : k = clerk[c]
  OBVIOUS
<1>1. /\ k.op = "sent" /\ clerk' = [clerk EXCEPT ![c] = Away]
      /\ link' = IF ~k.link.exists /\ link.exists THEN link ELSE [exists |-> TRUE, page |-> k.page, digest |-> k.to]
      /\ UNCHANGED <<article, revisions, wiki, worked, blurred>>
  BY <1>0 DEF PublishEnds, Served
<1>2. k.page \in 1 .. Len(wiki)
  BY <1>0, <1>1 DEF RunbooksInv, Holds
<1>3. /\ article.version \in Nat /\ Len(wiki) \in Nat /\ DOMAIN clerk = Clerks
      /\ link.exists \in BOOLEAN /\ link.page \in 0 .. Len(wiki) /\ (link.exists => link.page # 0)
  BY DEF RunbooksInv, RunbooksTyped
<1>4. /\ article'.version \in Nat /\ article.version <= article'.version
      /\ Len(wiki') \in Nat /\ Len(wiki) <= Len(wiki')
  BY <1>1, <1>3
<1>5. /\ DOMAIN clerk' = Clerks /\ clerk'[c] = Away /\ \A d \in Clerks : d # c => clerk'[d] = clerk[d]
      /\ \A d \in Clerks : Holds(clerk'[d], article', wiki')
  BY <1>1, <1>4, AwayHolds, ClerkTurns
<1>6. link'.exists \in BOOLEAN /\ link'.page \in 0 .. Len(wiki') /\ (link'.exists => link'.page # 0)
  <2>1. CASE link' = link
    BY <1>1, <1>3, <2>1
  <2>2. CASE link' = [exists |-> TRUE, page |-> k.page, digest |-> k.to]
    <3>1. link'.exists = TRUE /\ link'.page = k.page
      BY <2>2
    <3>2. k.page \in 0 .. Len(wiki) /\ k.page # 0
      BY <1>2, <1>3
    <3> QED BY <1>1, <3>1, <3>2
  <2> QED BY <1>1, <2>1, <2>2
<1>7. RunbooksTyped'
  BY <1>1, <1>5, <1>6 DEF RunbooksInv, RunbooksTyped
<1>8. RevisionsAreWhole'
  BY <1>1 DEF RunbooksInv, RevisionsAreWhole
<1>9. ASSUME ~blurred' PROVE Mirrored'
  <2>1. Mirrored /\ Publishing(c)
    BY <1>0, <1>1, <1>9 DEF RunbooksInv, Publishing
  <2>2. \A d \in Clerks : Publishing(d) => d = c
    BY <2>1 DEF Mirrored
  <2>3. \A d \in Clerks : ~Publishing(d)' /\ clerk'[d].op # "sent"
    BY <1>5, <2>2, AwayHolds DEF Publishing
  <2>4. k.link = link /\ Mirrors(wiki[k.page], k.to) /\ Len(wiki) <= 1
    BY <1>0, <1>1, <2>1 DEF Mirrored
  <2>5. link' = [exists |-> TRUE, page |-> k.page, digest |-> k.to]
    BY <1>1, <2>4
  <2>6. link'.exists /\ link'.page = k.page /\ link'.digest = k.to
    BY <2>5
  <2> QED BY <1>1, <2>3, <2>4, <2>6 DEF Mirrored
<1> QED BY <1>5, <1>7, <1>8, <1>9 DEF RunbooksInv

\* What people do in the wiki excuses the page it is done to.
LEMMA DoneThere ==
  ASSUME RunbooksInv, NEW p \in 1 .. Len(wiki), NEW page \in WikiPage,
         page.theirs \/ page.gone, wiki' = [wiki EXCEPT ![p] = page],
         Work, UNCHANGED <<article, revisions, link, clerk, blurred>>
  PROVE  RunbooksInv'
<1>1. /\ wiki \in Seq(WikiPage) /\ Len(wiki) \in Nat /\ article.version \in Nat
      /\ link.page \in 0 .. Len(wiki) /\ (link.exists => link.page # 0)
  BY DEF RunbooksInv, RunbooksTyped
<1>2. /\ wiki' \in Seq(WikiPage) /\ Len(wiki') = Len(wiki) /\ wiki'[p] = page
      /\ \A q \in 1 .. Len(wiki) : q # p => wiki'[q] = wiki[q]
  BY <1>1, PageWritten
<1>3. worked' \in 0 .. MaxWork
  BY RunbooksAssumption DEF RunbooksInv, RunbooksTyped, Work
<1>4. RunbooksTyped'
  BY <1>2, <1>3 DEF RunbooksInv, RunbooksTyped
<1>5. RevisionsAreWhole'
  BY DEF RunbooksInv, RevisionsAreWhole
<1>6. \A c \in Clerks : Holds(clerk'[c], article', wiki')
  <2> TAKE c \in Clerks
  <2>1. Holds(clerk[c], article, wiki)
    BY DEF RunbooksInv
  <2>2. Len(wiki) <= Len(wiki') /\ Len(wiki') \in Nat /\ article.version <= article.version
    BY <1>1, <1>2
  <2>3. Holds(clerk[c], article, wiki')
    BY <1>1, <2>1, <2>2, HoldsOn
  <2> QED BY <2>3
<1>7. ASSUME ~blurred' PROVE Mirrored'
  <2>1. Mirrored
    BY <1>7 DEF RunbooksInv
  <2>2. ASSUME NEW q \in 1 .. Len(wiki), NEW digest, Mirrors(wiki[q], digest) PROVE Mirrors(wiki'[q], digest)
    BY <1>2, <2>2 DEF Mirrors
  <2>3. link.exists => link.page \in 1 .. Len(wiki)
    BY <1>1
  <2>4. \A c \in Clerks : clerk[c].op = "sent" => clerk[c].page \in 1 .. Len(wiki)
    BY DEF RunbooksInv, Holds
  <2>5. \A c, d \in Clerks : Publishing(c)' /\ Publishing(d)' => c = d
    BY <2>1 DEF Mirrored, Publishing
  <2>6. \A c \in Clerks : Publishing(c)' => clerk'[c].link = link'
    BY <2>1 DEF Mirrored, Publishing
  <2>7. (\A c \in Clerks : clerk'[c].op # "sent") /\ link'.exists => Mirrors(wiki'[link'.page], link'.digest)
    BY <2>1, <2>2, <2>3 DEF Mirrored
  <2>8. \A c \in Clerks : clerk'[c].op = "sent" => Mirrors(wiki'[clerk'[c].page], clerk'[c].to)
    BY <2>1, <2>2, <2>4 DEF Mirrored
  <2>9. Len(wiki') <= 1 /\ ((\A c \in Clerks : clerk'[c].op # "sent") /\ ~link'.exists => Len(wiki') = 0)
    BY <1>2, <2>1 DEF Mirrored
  <2> QED BY <2>5, <2>6, <2>7, <2>8, <2>9 DEF Mirrored
<1> QED BY <1>4, <1>5, <1>6, <1>7 DEF RunbooksInv

LEMMA RunbooksStep == RunbooksInv /\ [RunbooksNext]_runbookVars => RunbooksInv'
<1> SUFFICES ASSUME RunbooksInv, [RunbooksNext]_runbookVars PROVE RunbooksInv'
  OBVIOUS
<1>1. ASSUME NEW c \in Clerks,
             \/ EditBegins(c) \/ EditEnds(c) \/ PublishBegins(c) \/ PublishFails(c)
             \/ \E answered \in BOOLEAN : Create(c, answered) \/ Update(c, answered)
             \/ Fetch(c) \/ PublishEnds(c)
      PROVE  RunbooksInv'
  <2>1. CASE EditBegins(c)
    BY <2>1, EditBeginsKeeps
  <2>2. CASE EditEnds(c)
    BY <2>2, EditEndsKeeps
  <2>3. CASE PublishBegins(c)
    BY <2>3, PublishBeginsKeeps
  <2>4. CASE PublishFails(c)
    BY <2>4, PublishFailsKeeps
  <2>5. CASE \E answered \in BOOLEAN : Create(c, answered) \/ Update(c, answered)
    BY <2>5, PageCreateKeeps, UpdateKeeps
  <2>6. CASE Fetch(c)
    BY <2>6, FetchKeeps
  <2>7. CASE PublishEnds(c)
    BY <2>7, PublishEndsKeeps
  <2> QED BY <1>1, <2>1, <2>2, <2>3, <2>4, <2>5, <2>6, <2>7
<1>2. ASSUME EditedThere \/ RemovedThere PROVE RunbooksInv'
  <2>1. wiki \in Seq(WikiPage) /\ DOMAIN wiki = 1 .. Len(wiki)
    BY DEF RunbooksInv, RunbooksTyped
  <2>2. CASE EditedThere
    <3>1. PICK p \in 1 .. Len(wiki) :
            /\ Work /\ wiki' = [wiki EXCEPT ![p].number = @ + 1, ![p].theirs = TRUE]
            /\ UNCHANGED <<article, revisions, link, clerk, blurred>>
      BY <2>1, <2>2 DEF EditedThere
    <3>2. PICK page : page = [wiki[p] EXCEPT !.number = @ + 1, !.theirs = TRUE]
      OBVIOUS
    <3>3. wiki[p] \in WikiPage
      BY <2>1, <3>1, ElementOfSeq
    <3>4. page \in WikiPage /\ page.theirs
      BY <3>2, <3>3, PageFields
    <3>5. wiki' = [wiki EXCEPT ![p] = page]
      BY <2>1, <3>1, <3>2
    <3> QED BY <3>1, <3>4, <3>5, DoneThere
  <2>3. CASE RemovedThere
    <3>1. PICK p \in 1 .. Len(wiki) :
            /\ Work /\ wiki' = [wiki EXCEPT ![p].gone = TRUE]
            /\ UNCHANGED <<article, revisions, link, clerk, blurred>>
      BY <2>1, <2>3 DEF RemovedThere
    <3>2. PICK page : page = [wiki[p] EXCEPT !.gone = TRUE]
      OBVIOUS
    <3>3. wiki[p] \in WikiPage
      BY <2>1, <3>1, ElementOfSeq
    <3>4. page \in WikiPage /\ page.gone
      BY <3>2, <3>3, PageFields
    <3>5. wiki' = [wiki EXCEPT ![p] = page]
      BY <2>1, <3>1, <3>2
    <3> QED BY <3>1, <3>4, <3>5, DoneThere
  <2> QED BY <1>2, <2>2, <2>3
<1>3. CASE UNCHANGED runbookVars
  <2>1. UNCHANGED <<article, revisions, link, wiki, clerk, worked, blurred>>
    BY <1>3 DEF runbookVars
  <2>2. blurred' \/ Mirrored'
    BY <2>1, MirrorUndisturbed DEF RunbooksInv
  <2> QED BY <2>1, <2>2 DEF RunbooksInv, RunbooksTyped, RevisionsAreWhole
<1> QED BY <1>1, <1>2, <1>3 DEF RunbooksNext

LEMMA RunbooksFollow == RunbooksInv => RunbooksAreKept /\ RunbooksTypeOK
<1> SUFFICES ASSUME RunbooksInv PROVE RunbooksAreKept /\ RunbooksTypeOK
  OBVIOUS
<1>1. /\ article \in [text : Texts, version : Nat \ {0}, tagged : BOOLEAN]
      /\ revisions \in Seq(Texts) /\ link.page \in 0 .. Len(wiki) /\ worked \in 0 .. MaxWork
      /\ Len(wiki) \in Nat
  BY DEF RunbooksInv, RunbooksTyped
<1>2. MirrorIsCurrent
  <2>1. CASE Mirrored /\ \A c \in Clerks : ~Publishing(c)
    <3>1. \A c \in Clerks : clerk[c].op # "sent"
      BY <2>1 DEF Publishing
    <3> QED BY <2>1, <3>1 DEF Mirrored, MirrorIsCurrent, Mirrors
  <2>2. CASE blurred \/ \E c \in Clerks : Publishing(c)
    BY <2>2 DEF MirrorIsCurrent
  <2> QED BY <2>1, <2>2 DEF RunbooksInv
<1>3. PagesAreNotDoubled
  <2>1. Mirrored => ~(Len(wiki) > 1)
    BY <1>1 DEF Mirrored
  <2> QED BY <2>1 DEF RunbooksInv, PagesAreNotDoubled
<1>4. article.text \in Texts /\ article.version \in Nat
  BY <1>1
<1> QED BY <1>1, <1>2, <1>3, <1>4 DEF RunbooksInv, RunbooksAreKept, RunbooksTypeOK

\* The revisions of a runbook are whole, and, until publications overlap or an answer is
\* lost, its one page says what was published of it: for any texts and any number of
\* requests (threatintel.update_article, docs.publish_article).
THEOREM RunbooksKept == RunbooksSpec => []RunbooksAreKept
<1>1. RunbooksInv => RunbooksAreKept
  BY RunbooksFollow
<1> QED BY <1>1, RunbooksStart, RunbooksStep, PTL DEF RunbooksSpec

----------------------------------------------------------------------------
(***************************************************************************)
(* The identity of findings.                                               *)
(***************************************************************************)
IdentityTyped ==
  /\ config \in [algorithm : Algorithms, scope : {"organization", "engagement"}]
  /\ DOMAIN report = {"records", "for"} /\ reports \in 0 .. MaxReports
  /\ \A r \in report.records : r.thing \in Things /\ r.id \in {NoId, r.thing}
  /\ DOMAIN matched = Slots /\ DOMAIN about = Slots
  /\ \A f \in Slots : /\ matched[f].exists \in BOOLEAN /\ matched[f].id \in Things \cup {NoId}
                      /\ about[f] \in [things : SUBSET Things, taken : BOOLEAN]
                      /\ ~matched[f].exists => matched[f].id = NoId

\* What was not taken over was only ever given the id it has.
IdsAreOwn == \A f \in Slots : about[f].taken \/ about[f].things \subseteq {matched[f].id} \ {NoId}

\* No id is held twice where it is looked up across the organisation; where the id is
\* the key, that is because no key is.
IdsAreUnique ==
  /\ config.algorithm = "unique_id_or_hash_code" =>
       \A f, g \in Held : matched[f].id = matched[g].id /\ matched[f].id # NoId => f = g
  /\ config.algorithm = "unique_id_from_tool" /\ config.scope = "organization" =>
       \A f \in Held : matched[f].id # NoId => matched[f].key = <<"org", "id", matched[f].id>>

\* The inductive invariant.
IdentityInv == IdentityTyped /\ KeysAreUnique /\ IdsAreOwn /\ IdsAreUnique

\* A record keeps its own id, whatever its key becomes.
LEMMA ResolvedFacts ==
  ASSUME NEW r, config.algorithm \in Algorithms
  PROVE  /\ Resolved(r).id = r.id
         /\ config.algorithm = "unique_id_or_hash_code" => Resolved(r).algorithm = "unique_id_or_hash_code"
         /\ config.algorithm = "unique_id_from_tool" /\ config.scope = "organization" /\ r.id # NoId =>
              Resolved(r).key = <<"org", "id", r.id>>
<1>1. /\ Legacy(r).id = r.id /\ ByOwnId(r).id = r.id /\ ByFields(r).id = r.id
      /\ ByFields(r).algorithm = config.algorithm /\ ByOwnId(r).key = <<ScopeRef(report.for), "id", r.id>>
  BY DEF Legacy, ByOwnId, ByFields
<1>2. config.scope = "organization" => ScopeRef(report.for) = "org"
  BY DEF ScopeRef
<1>3. CASE config.algorithm = "legacy"
  <2>1. Resolved(r) = Legacy(r)
    BY <1>3 DEF Resolved
  <2> QED BY <1>1, <1>3, <2>1
<1>4. CASE config.algorithm = "unique_id_from_tool"
  <2>1. Resolved(r) = IF r.id = NoId THEN Legacy(r) ELSE ByOwnId(r)
    BY <1>4 DEF Resolved
  <2> QED BY <1>1, <1>2, <1>4, <2>1
<1>5. CASE config.algorithm \notin {"legacy", "unique_id_from_tool"}
  <2>1. Resolved(r) = ByFields(r)
    BY <1>5 DEF Resolved
  <2> QED BY <1>1, <1>5, <2>1
<1> QED BY <1>3, <1>4, <1>5

LEMMA IdentityStarts == IdentityInit => IdentityInv
<1> SUFFICES ASSUME IdentityInit PROVE IdentityInv
  OBVIOUS
<1>1. NoFinding.exists = FALSE /\ NoFinding.id = NoId
  BY DEF NoFinding
<1>2. /\ DOMAIN matched = Slots /\ DOMAIN about = Slots
      /\ \A f \in Slots : matched[f] = NoFinding /\ about[f] = [things |-> {}, taken |-> FALSE]
  BY DEF IdentityInit
<1>3. /\ report.records = {} /\ DOMAIN report = {"records", "for"} /\ reports = 0
      /\ config \in [algorithm : Algorithms, scope : {"organization", "engagement"}]
  BY DEF IdentityInit
<1>4. reports \in 0 .. MaxReports
  BY <1>3, FindingIdentityAssumption
<1>5. IdentityTyped
  <2>1. \A f \in Slots : /\ matched[f].exists \in BOOLEAN /\ matched[f].id \in Things \cup {NoId}
                         /\ about[f] \in [things : SUBSET Things, taken : BOOLEAN]
                         /\ ~matched[f].exists => matched[f].id = NoId
    <3> TAKE f \in Slots
    <3>1. matched[f].exists = FALSE /\ matched[f].id = NoId /\ about[f] = [things |-> {}, taken |-> FALSE]
      BY <1>1, <1>2
    <3>2. matched[f].exists \in BOOLEAN /\ matched[f].id \in Things \cup {NoId}
      BY <3>1
    <3>3. {} \in SUBSET Things /\ FALSE \in BOOLEAN
      OBVIOUS
    <3>4. about[f] \in [things : SUBSET Things, taken : BOOLEAN]
      BY <3>1, <3>3
    <3> QED BY <3>1, <3>2, <3>4
  <2> QED BY <1>2, <1>3, <1>4, <2>1 DEF IdentityTyped
<1>6. Held = {}
  BY <1>1, <1>2 DEF Held
<1>7. IdsAreOwn
  BY <1>2 DEF IdsAreOwn
<1> QED BY <1>5, <1>6, <1>7 DEF IdentityInv, KeysAreUnique, IdsAreUnique

\* What leaves the findings alone.
LEMMA IdentityUndisturbed ==
  ASSUME IdentityInv, UNCHANGED <<config, matched, about>>,
         DOMAIN report' = {"records", "for"}, reports' \in 0 .. MaxReports,
         \A r \in report'.records : r.thing \in Things /\ r.id \in {NoId, r.thing}
  PROVE  IdentityInv'
<1>1. IdentityTyped' /\ IdsAreOwn'
  BY DEF IdentityInv, IdentityTyped, IdsAreOwn
<1>2. KeysAreUnique' /\ IdsAreUnique'
  BY DEF IdentityInv, KeysAreUnique, IdsAreUnique, Held
<1> QED BY <1>1, <1>2 DEF IdentityInv

\* One finding is written.
LEMMA FindingWritten ==
  ASSUME IdentityInv, NEW f \in Slots, NEW row, NEW r \in report.records,
         row.exists = TRUE, row.id \in Things \cup {NoId}, UNCHANGED <<config, reports>>,
         report' = [report EXCEPT !.records = @ \ {r}],
         matched' = [matched EXCEPT ![f] = row], NEW taken \in BOOLEAN, Note(f, r, taken),
         taken \/ about[f].taken \/ (matched[f].id \in {NoId, row.id} /\ r.id \in {NoId, row.id}),
         \A g \in Held : g # f => matched[g].key # row.key,
         config.algorithm = "unique_id_or_hash_code" /\ row.id # NoId =>
           \A g \in Held : g # f => matched[g].id # row.id,
         config.algorithm = "unique_id_from_tool" /\ config.scope = "organization" /\ row.id # NoId =>
           row.key = <<"org", "id", row.id>>
  PROVE  IdentityInv'
<1>1. /\ DOMAIN matched = Slots /\ DOMAIN about = Slots /\ reports \in 0 .. MaxReports
      /\ config \in [algorithm : Algorithms, scope : {"organization", "engagement"}]
      /\ DOMAIN report = {"records", "for"} /\ r.thing \in Things /\ r.id \in {NoId, r.thing}
      /\ about[f] \in [things : SUBSET Things, taken : BOOLEAN]
  BY DEF IdentityInv, IdentityTyped
<1>2. /\ DOMAIN matched' = Slots /\ matched'[f] = row /\ \A g \in Slots : g # f => matched'[g] = matched[g]
  BY <1>1
<1>3. PICK given : given = IF r.id = NoId THEN about[f].things ELSE about[f].things \cup {r.thing}
  OBVIOUS
<1>4. about' = [about EXCEPT ![f].things = given, ![f].taken = @ \/ taken]
  BY <1>3 DEF Note
<1>5. /\ DOMAIN about' = Slots /\ \A g \in Slots : g # f => about'[g] = about[g]
      /\ about'[f].things = given /\ about'[f].taken = (about[f].taken \/ taken)
      /\ DOMAIN about'[f] = {"things", "taken"}
  BY <1>1, <1>4
<1>6. about'[f] \in [things : SUBSET Things, taken : BOOLEAN]
  <2>1. about'[f] = [things |-> given, taken |-> about[f].taken \/ taken]
    BY <1>1, <1>4
  <2>2. given \in SUBSET Things
    BY <1>1, <1>3
  <2> QED BY <1>1, <2>1, <2>2
<1>7. /\ DOMAIN report' = {"records", "for"} /\ report'.records \subseteq report.records
  BY <1>1
<1>8. IdentityTyped'
  <2>1. \A g \in Slots : /\ matched'[g].exists \in BOOLEAN /\ matched'[g].id \in Things \cup {NoId}
                         /\ about'[g] \in [things : SUBSET Things, taken : BOOLEAN]
                         /\ ~matched'[g].exists => matched'[g].id = NoId
    BY <1>2, <1>5, <1>6 DEF IdentityInv, IdentityTyped
  <2>2. \A q \in report'.records : q.thing \in Things /\ q.id \in {NoId, q.thing}
    BY <1>7 DEF IdentityInv, IdentityTyped
  <2>3. config' \in [algorithm : Algorithms, scope : {"organization", "engagement"}] /\ reports' \in 0 .. MaxReports
    BY <1>1
  <2> QED BY <1>2, <1>5, <1>7, <2>1, <2>2, <2>3 DEF IdentityTyped, Slots, MostFindings
<1>9. /\ Held' \subseteq Held \cup {f} /\ f \in Held'
  BY <1>2 DEF Held, Slots, MostFindings
<1>10. KeysAreUnique'
  <2> SUFFICES ASSUME NEW g \in Held', NEW h \in Held', g # h PROVE matched'[g].key # matched'[h].key
    BY DEF KeysAreUnique
  <2>1. g \in Slots /\ h \in Slots /\ g \in Held \cup {f} /\ h \in Held \cup {f}
    BY <1>9 DEF Held, Slots, MostFindings
  <2> QED BY <1>2, <2>1 DEF IdentityInv, KeysAreUnique
<1>11. IdsAreOwn'
  <2> SUFFICES ASSUME NEW g \in Slots, ~about'[g].taken PROVE about'[g].things \subseteq {matched'[g].id} \ {NoId}
    BY DEF IdsAreOwn, Slots, MostFindings
  <2>1. CASE g # f
    BY <1>2, <1>5, <2>1 DEF IdentityInv, IdsAreOwn
  <2>2. CASE g = f
    <3>1. ~about[f].taken /\ ~taken
      BY <1>5, <2>2
    <3>2. about[f].things \subseteq {matched[f].id} \ {NoId}
      BY <3>1 DEF IdentityInv, IdsAreOwn
    <3>3. matched[f].id \in {NoId, row.id} /\ r.id \in {NoId, row.id}
      BY <3>1
    <3>4. given \subseteq {row.id} \ {NoId}
      BY <1>1, <1>3, <3>2, <3>3
    <3> QED BY <1>2, <1>5, <2>2, <3>4
  <2> QED BY <2>1, <2>2
<1>12. IdsAreUnique'
  <2>1. ASSUME config.algorithm = "unique_id_or_hash_code", NEW g \in Held', NEW h \in Held',
               matched'[g].id = matched'[h].id, matched'[g].id # NoId
        PROVE  g = h
    <3>1. g \in Slots /\ h \in Slots /\ g \in Held \cup {f} /\ h \in Held \cup {f}
      BY <1>9 DEF Held, Slots, MostFindings
    <3> QED BY <1>2, <2>1, <3>1 DEF IdentityInv, IdsAreUnique
  <2>2. ASSUME config.algorithm = "unique_id_from_tool", config.scope = "organization",
               NEW g \in Held', matched'[g].id # NoId
        PROVE  matched'[g].key = <<"org", "id", matched'[g].id>>
    <3>1. g \in Slots /\ g \in Held \cup {f}
      BY <1>9 DEF Held, Slots, MostFindings
    <3> QED BY <1>2, <2>2, <3>1 DEF IdentityInv, IdsAreUnique
  <2> QED BY <2>1, <2>2 DEF IdsAreUnique
<1> QED BY <1>8, <1>10, <1>11, <1>12 DEF IdentityInv

LEMMA ImportRecordKeeps ==
  ASSUME IdentityInv, ImportRecord
  PROVE  IdentityInv'
<1>0. PICK r \in report.records :
        /\ report' = [report EXCEPT !.records = @ \ {r}] /\ UNCHANGED <<config, reports>>
        /\ \/ \E f \in Existing(Resolved(r)) :
                /\ matched' = [matched EXCEPT ![f] = Rekeyed(f, Resolved(r))]
                /\ Note(f, r, Takes(f, Resolved(r)))
           \/ /\ Existing(Resolved(r)) = {}
              /\ \E f \in Slots \ Held :
                   /\ matched' = [matched EXCEPT ![f] = [exists |-> TRUE, key |-> Resolved(r).key, id |-> Resolved(r).id]]
                   /\ Note(f, r, FALSE)
  BY DEF ImportRecord
<1>1. PICK i :
        /\ i = Resolved(r) /\ report' = [report EXCEPT !.records = @ \ {r}] /\ UNCHANGED <<config, reports>>
        /\ \/ \E f \in Existing(i) :
                matched' = [matched EXCEPT ![f] = Rekeyed(f, i)] /\ Note(f, r, Takes(f, i))
           \/ /\ Existing(i) = {}
              /\ \E f \in Slots \ Held :
                   /\ matched' = [matched EXCEPT ![f] = [exists |-> TRUE, key |-> i.key, id |-> i.id]]
                   /\ Note(f, r, FALSE)
  BY <1>0
<1>2. /\ r.thing \in Things /\ r.id \in {NoId, r.thing} /\ config.algorithm \in Algorithms
      /\ \A f \in Slots : matched[f].id \in Things \cup {NoId}
  BY DEF IdentityInv, IdentityTyped
<1>3. /\ i.id = r.id
      /\ config.algorithm = "unique_id_or_hash_code" => i.algorithm = "unique_id_or_hash_code"
      /\ config.algorithm = "unique_id_from_tool" /\ config.scope = "organization" /\ r.id # NoId =>
           i.key = <<"org", "id", r.id>>
  BY <1>1, <1>2, ResolvedFacts
<1>4. /\ \A f \in ByKey(i) : f \in Held /\ matched[f].key = i.key
      /\ \A f \in Held : matched[f].key = i.key => f \in ByKey(i)
      /\ \A f \in ById(i) : f \in Held /\ matched[f].id = i.id /\ i.id # NoId /\ i.algorithm = "unique_id_or_hash_code"
      /\ \A f \in Held : i.algorithm = "unique_id_or_hash_code" /\ i.id # NoId /\ matched[f].id = i.id => f \in ById(i)
  BY DEF ByKey, ById
<1>5. Existing(i) = IF ById(i) # {} THEN ById(i) ELSE ByKey(i)
  BY DEF Existing
<1>6. Held \subseteq Slots
  BY DEF Held
<1>7. ASSUME NEW f \in Existing(i),
             matched' = [matched EXCEPT ![f] = Rekeyed(f, i)], Note(f, r, Takes(f, i))
      PROVE  IdentityInv'
  <2>1. PICK row, taken : row = Rekeyed(f, i) /\ taken = Takes(f, i)
    OBVIOUS
  <2>2. /\ row.exists = TRUE /\ row.key = IF ByKey(i) \subseteq {f} THEN i.key ELSE matched[f].key
        /\ row.id = IF i.id # NoId THEN i.id ELSE matched[f].id
    BY <2>1 DEF Rekeyed
  <2>3. f \in Held /\ f \in Slots
    BY <1>4, <1>5, <1>6, <1>7
  <2>4. row.id \in Things \cup {NoId}
    BY <1>2, <1>3, <2>2, <2>3
  <2>5. /\ taken \in BOOLEAN
        /\ taken \/ about[f].taken \/ (matched[f].id \in {NoId, row.id} /\ r.id \in {NoId, row.id})
    BY <1>3, <2>1, <2>2 DEF Takes
  <2>6. ASSUME NEW g \in Held, g # f PROVE matched[g].key # row.key
    <3>1. CASE ByKey(i) \subseteq {f}
      BY <1>4, <2>2, <2>6, <3>1
    <3>2. CASE ~(ByKey(i) \subseteq {f})
      BY <2>2, <2>3, <2>6, <3>2 DEF IdentityInv, KeysAreUnique
    <3> QED BY <3>1, <3>2
  <2>7. ASSUME config.algorithm = "unique_id_or_hash_code", row.id # NoId, NEW g \in Held, g # f
        PROVE  matched[g].id # row.id
    <3>1. \A h, k \in Held : matched[h].id = matched[k].id /\ matched[h].id # NoId => h = k
      BY <2>7 DEF IdentityInv, IdsAreUnique
    <3>2. CASE i.id = NoId
      BY <2>2, <2>3, <2>7, <3>1, <3>2
    <3>3. CASE i.id # NoId /\ ById(i) # {}
      BY <1>4, <1>5, <1>7, <2>2, <2>3, <2>7, <3>1, <3>3
    <3>4. CASE i.id # NoId /\ ById(i) = {}
      BY <1>3, <1>4, <2>2, <2>7, <3>4
    <3> QED BY <3>2, <3>3, <3>4
  <2>8. ASSUME config.algorithm = "unique_id_from_tool", config.scope = "organization", row.id # NoId
        PROVE  row.key = <<"org", "id", row.id>>
    <3>1. \A g \in Held : matched[g].id # NoId => matched[g].key = <<"org", "id", matched[g].id>>
      BY <2>8 DEF IdentityInv, IdsAreUnique
    <3>2. i.algorithm # "unique_id_or_hash_code"
      BY <1>1, <2>8 DEF Resolved, Legacy, ByOwnId
    <3>3. f \in ByKey(i)
      BY <1>4, <1>5, <1>7, <3>2
    <3>4. row.key = i.key /\ matched[f].key = i.key
      BY <1>4, <2>2, <3>3
    <3>5. CASE i.id # NoId
      BY <1>3, <2>2, <2>8, <3>4, <3>5
    <3>6. CASE i.id = NoId
      BY <2>2, <2>3, <2>8, <3>1, <3>4, <3>6
    <3> QED BY <3>5, <3>6
  <2>9. matched' = [matched EXCEPT ![f] = row] /\ Note(f, r, taken)
    BY <1>7, <2>1
  <2>10. \A g \in Held : g # f => matched[g].key # row.key
    BY <2>6
  <2>11. config.algorithm = "unique_id_or_hash_code" /\ row.id # NoId =>
           \A g \in Held : g # f => matched[g].id # row.id
    BY <2>7
  <2>12. config.algorithm = "unique_id_from_tool" /\ config.scope = "organization" /\ row.id # NoId =>
           row.key = <<"org", "id", row.id>>
    BY <2>8
  <2>13. row.exists = TRUE
    BY <2>2
  <2>14. report' = [report EXCEPT !.records = @ \ {r}] /\ UNCHANGED <<config, reports>>
    BY <1>1
  <2>15. CASE taken = TRUE
    <3>1. TRUE \in BOOLEAN /\ Note(f, r, TRUE)
      BY <2>9, <2>15
    <3> QED BY <2>3, <2>4, <2>9, <2>10, <2>11, <2>12, <2>13, <2>14, <3>1, FindingWritten
  <2>16. CASE taken = FALSE
    <3>1. FALSE \in BOOLEAN /\ Note(f, r, FALSE)
      BY <2>9, <2>16
    <3>2. about[f].taken \/ (matched[f].id \in {NoId, row.id} /\ r.id \in {NoId, row.id})
      BY <2>5, <2>16
    <3> QED BY <2>3, <2>4, <2>9, <2>10, <2>11, <2>12, <2>13, <2>14, <3>1, <3>2, FindingWritten
  <2> QED BY <2>5, <2>15, <2>16
<1>8. ASSUME Existing(i) = {}, NEW f \in Slots \ Held,
             matched' = [matched EXCEPT ![f] = [exists |-> TRUE, key |-> i.key, id |-> i.id]], Note(f, r, FALSE)
      PROVE  IdentityInv'
  <2>1. PICK row : row = [exists |-> TRUE, key |-> i.key, id |-> i.id]
    OBVIOUS
  <2>2. row.exists = TRUE /\ row.key = i.key /\ row.id = i.id
    BY <2>1
  <2>3. ById(i) = {} /\ ByKey(i) = {}
    BY <1>5, <1>8
  <2>4. row.id \in Things \cup {NoId}
    BY <1>2, <1>3, <2>2
  <2>5. \A g \in Held : matched[g].key # row.key
    BY <1>4, <2>2, <2>3
  <2>6. config.algorithm = "unique_id_or_hash_code" /\ row.id # NoId =>
           \A g \in Held : g # f => matched[g].id # row.id
    BY <1>3, <1>4, <2>2, <2>3
  <2>7. config.algorithm = "unique_id_from_tool" /\ config.scope = "organization" /\ row.id # NoId =>
           row.key = <<"org", "id", row.id>>
    BY <1>3, <2>2
  <2>8. FALSE \/ about[f].taken \/ (matched[f].id \in {NoId, row.id} /\ r.id \in {NoId, row.id})
    <3>1. f \in Slots /\ ~matched[f].exists
      BY DEF Held
    <3>2. matched[f].id = NoId
      BY <3>1 DEF IdentityInv, IdentityTyped
    <3> QED BY <1>3, <2>2, <3>2
  <2>9. matched' = [matched EXCEPT ![f] = row] /\ Note(f, r, FALSE) /\ FALSE \in BOOLEAN /\ f \in Slots
    BY <1>8, <2>1
  <2>10. row.exists = TRUE
    BY <2>2
  <2> QED BY <1>1, <2>4, <2>5, <2>6, <2>7, <2>8, <2>9, <2>10, FindingWritten
<1> QED BY <1>1, <1>7, <1>8

LEMMA IdentityStep == IdentityInv /\ [IdentityNext]_identityVars => IdentityInv'
<1> SUFFICES ASSUME IdentityInv, [IdentityNext]_identityVars PROVE IdentityInv'
  OBVIOUS
<1>1. /\ DOMAIN report = {"records", "for"} /\ reports \in 0 .. MaxReports
      /\ \A r \in report.records : r.thing \in Things /\ r.id \in {NoId, r.thing}
  BY DEF IdentityInv, IdentityTyped
<1>2. CASE ReportBegins
  <2>1. PICK e \in Engagements :
          /\ reports < MaxReports /\ reports' = reports + 1 /\ UNCHANGED <<config, matched, about>>
          /\ report' = [records |-> {[thing |-> t, place |-> place[t], id |-> IF emits THEN t ELSE NoId] : t \in Present},
                        for |-> e]
    BY <1>2 DEF ReportBegins
  <2>2. reports' \in 0 .. MaxReports
    BY <1>1, <2>1, FindingIdentityAssumption
  <2>3. /\ DOMAIN report' = {"records", "for"}
        /\ report'.records = {[thing |-> t, place |-> place[t], id |-> IF emits THEN t ELSE NoId] : t \in Present}
    BY <2>1
  <2>4. ASSUME NEW r \in report'.records PROVE r.thing \in Things /\ r.id \in {NoId, r.thing}
    <3>1. PICK t \in Present : r = [thing |-> t, place |-> place[t], id |-> IF emits THEN t ELSE NoId]
      BY <2>3
    <3> QED BY <3>1 DEF Present
  <2> QED BY <2>1, <2>2, <2>3, <2>4, IdentityUndisturbed
<1>3. CASE Move
  <2>1. UNCHANGED <<config, report, reports, matched, about>>
    BY <1>3 DEF Move
  <2> QED BY <1>1, <2>1, IdentityUndisturbed
<1>4. CASE BeginsToEmit
  <2>1. UNCHANGED <<config, report, reports, matched, about>>
    BY <1>4 DEF BeginsToEmit
  <2> QED BY <1>1, <2>1, IdentityUndisturbed
<1>5. CASE UNCHANGED identityVars
  <2>1. UNCHANGED <<config, report, reports, matched, about>>
    BY <1>5 DEF identityVars
  <2> QED BY <1>1, <2>1, IdentityUndisturbed
<1> QED BY <1>2, <1>3, <1>4, <1>5, ImportRecordKeeps DEF IdentityNext

LEMMA IdentityFollows == IdentityInv => IdentitiesAreKept /\ IdentityTypeOK
<1> SUFFICES ASSUME IdentityInv PROVE IdentitiesAreKept /\ IdentityTypeOK
  OBVIOUS
<1>1. ASSUME NEW f \in Held PROVE Cardinality(about[f].things) <= 1 \/ about[f].taken
  <2>1. f \in Slots
    BY DEF Held
  <2>2. about[f].taken \/ about[f].things \subseteq {matched[f].id}
    BY <2>1 DEF IdentityInv, IdsAreOwn
  <2>3. CASE about[f].things \subseteq {matched[f].id}
    <3>1. IsFiniteSet({matched[f].id}) /\ Cardinality({matched[f].id}) = 1
      BY FS_Singleton
    <3> QED BY <2>3, <3>1, FS_Subset
  <2> QED BY <2>2, <2>3
<1>2. ASSUME config.algorithm \in {"unique_id_from_tool", "unique_id_or_hash_code"},
             config.algorithm = "unique_id_from_tool" => config.scope = "organization",
             NEW f \in Held, NEW g \in Held, matched[f].id = matched[g].id, matched[f].id # NoId
      PROVE  f = g
  <2>1. CASE config.algorithm = "unique_id_or_hash_code"
    BY <1>2, <2>1 DEF IdentityInv, IdsAreUnique
  <2>2. CASE config.algorithm = "unique_id_from_tool"
    <3>1. matched[f].key = matched[g].key
      BY <1>2, <2>2 DEF IdentityInv, IdsAreUnique
    <3> QED BY <3>1 DEF IdentityInv, KeysAreUnique
  <2> QED BY <1>2, <2>1, <2>2
<1>3. ThingsKeepTheirFinding
  BY <1>1, <1>2 DEF ThingsKeepTheirFinding
<1>4. IdentityTypeOK
  BY DEF IdentityInv, IdentityTyped, IdentityTypeOK, Held
<1> QED BY <1>3, <1>4 DEF IdentityInv, IdentitiesAreKept

\* No key is held twice, a finding is about the thing whose id it has unless it was taken
\* over, and no thing is two findings of one scope: for any things, places and
\* engagements (resolve_identity, find_existing, ensure_finding).
THEOREM IdentitiesKept == IdentitySpec => []IdentitiesAreKept
<1>1. IdentityInv => IdentitiesAreKept
  BY IdentityFollows
<1> QED BY <1>1, IdentityStarts, IdentityStep, PTL DEF IdentitySpec

----------------------------------------------------------------------------
\* A set of numbers has a least one.
LEMMA LeastNatural ==
  ASSUME NEW S \in SUBSET Nat, S # {}
  PROVE  \E m \in S : \A k \in S : m <= k
<1> DEFINE R == {p \in Nat \X Nat : p[1] < p[2]}
<1>1. R = OpToRel(<, Nat)
  BY DEF OpToRel
<1>2. IsWellFoundedOn(R, Nat)
  BY <1>1, NatLessThanWellFounded
<1>3. \E x \in S : \A y \in S : ~(<<y, x>> \in R)
  <2> HIDE DEF R
  <2> QED BY <1>2, WFMin
<1>4. PICK m \in S : \A y \in S : ~(<<y, m>> \in R)
  BY <1>3
<1>5. \A k \in S : ~(k < m)
  BY <1>4
<1> QED
  BY <1>5

(***************************************************************************)
(* The sources of the estate.                                              *)
(***************************************************************************)
TxColumns == {"kind", "st", "reg", "old", "oldReg", "seen", "n", "markAbsent", "rows"}

RowColumns ==
  {"exists", "host", "serial", "site", "said", "identity", "answers", "absent", "status", "asset", "byHand"}

RowFits(r, row) ==
  /\ DOMAIN row = RowColumns
  /\ row.host \in Hosts \cup {Nothing} /\ row.serial \in Serials \cup {Nothing} /\ row.site \in {r[1], Nothing}
  /\ row.asset \in AssetIds \cup {NoAsset} /\ row.status \in {"matched", "unmatched", "ignored"}
  /\ row.exists \in BOOLEAN /\ row.absent \in BOOLEAN

AssetFits(a) ==
  /\ DOMAIN a = {"exists", "deleted", "host", "serial", "site", "slugs"}
  /\ a.site \in Feeds \cup {Nothing} /\ a.slugs \subseteq Feeds /\ a.exists \in BOOLEAN

TableFits(st) == DOMAIN st = Rows /\ \A r \in Rows : RowFits(r, st[r])
EstateFits(reg) == DOMAIN reg = AssetIds /\ \A i \in AssetIds : AssetFits(reg[i])
LinksFit(st, reg) == \A r \in Rows : st[r].asset # NoAsset => reg[st[r].asset].exists

\* What is in hand: rows, assets, and links that lead.
Handy(tx) == DOMAIN tx = TxColumns /\ TableFits(tx.st) /\ EstateFits(tx.reg) /\ LinksFit(tx.st, tx.reg)

\* All but the rows and the assets.
Besides(t, tx) ==
  /\ DOMAIN t = DOMAIN tx /\ t.kind = tx.kind /\ t.old = tx.old /\ t.oldReg = tx.oldReg /\ t.seen = tx.seen
  /\ t.n = tx.n /\ t.markAbsent = tx.markAbsent /\ t.rows = tx.rows

\* A row is copied into an asset: the one it is tied to, one of its name, or a new one.
Copied(t, tx, r, i) ==
  /\ i \in AssetIds /\ t.reg[i].exists /\ DOMAIN t.reg = DOMAIN tx.reg
  /\ t.reg[i].deleted = tx.reg[i].deleted /\ t.reg[i].host = tx.st[r].host
  /\ t.reg[i].site = Or(tx.st[r].site, tx.reg[i].site)
  /\ \A j \in AssetIds \ {i} : t.reg[j] = tx.reg[j]
  /\ t.st[r].asset = i
  /\ \/ tx.st[r].asset = i
     \/ tx.st[r].asset = NoAsset /\ i \in Live(tx.reg) /\ tx.reg[i].host = tx.st[r].host
     \/ /\ tx.st[r].asset = NoAsset /\ \A j \in Live(tx.reg) : tx.reg[j].host # tx.st[r].host
        /\ ~tx.reg[i].exists

\* The row that was promoted is as it was, but for its link.
Alike(new, was) ==
  /\ new.exists = was.exists /\ new.absent = was.absent /\ new.host = was.host /\ new.site = was.site
  /\ new.serial = was.serial /\ (new.status = "ignored" <=> was.status = "ignored")

Put(t, tx, r, creates) ==
  /\ Besides(t, tx) /\ \A q \in Rows \ {r} : t.st[q] = tx.st[q]
  /\ Alike(t.st[r], tx.st[r])
  /\ IF Promotes(tx.st[r], creates) THEN \E i \in AssetIds : Copied(t, tx, r, i) ELSE t = tx

LEMMA AssetsNumbered == AssetIds \subseteq Nat /\ IsFiniteSet(AssetIds) /\ NoAsset \notin AssetIds /\ MaxAssets \in Nat
<1>1. MaxAssets \in Nat
  BY AssetSourcesAssumption
<1>2. IsFiniteSet(1 .. MaxAssets)
  BY <1>1, FS_Interval
<1> QED
  BY <1>1, <1>2 DEF AssetIds, NoAsset

LEMMA LeastOf ==
  ASSUME NEW S \in SUBSET AssetIds, S # {}
  PROVE  Min(S) \in S
<1>1. S \in SUBSET Nat
  BY AssetsNumbered
<1>2. PICK m \in S : \A k \in S : m <= k
  BY <1>1, LeastNatural
<1> QED
  BY <1>2 DEF Min

LEMMA RowNumbers ==
  ASSUME NEW r \in Rows
  PROVE  r = <<r[1], r[2]>> /\ r[1] \in Feeds /\ r[2] \in ExternalKeys
BY DEF Rows

\* What the promotion of one row does.
LEMMA PromotionPuts ==
  ASSUME NEW tx, Handy(tx), NEW r \in Rows, NEW creates,
         Promotes(tx.st[r], creates) /\ tx.st[r].asset = NoAsset => Spare(tx.reg) # {},
         NEW t, t = PromoteRecord(tx, r, creates)
  PROVE  /\ Put(t, tx, r, creates) /\ Handy(t)
         /\ \A i \in AssetIds : tx.reg[i].exists => t.reg[i].exists
         /\ \E x : Spare(tx.reg) \ {x} \subseteq Spare(t.reg)
         /\ ~Promotes(tx.st[r], creates) \/ tx.st[r].asset # NoAsset => Spare(tx.reg) \subseteq Spare(t.reg)
<1> DEFINE row    == tx.st[r]
           byHost == {i \in Live(tx.reg) : tx.reg[i].host = row.host}
           i      == IF row.asset # NoAsset THEN row.asset ELSE IF byHost # {} THEN Min(byHost) ELSE Min(Spare(tx.reg))
           w      == Written([tx.reg[i] EXCEPT !.exists = TRUE], row, r)
           bound   == [row EXCEPT !.asset = i, !.status = IF row.asset = NoAsset THEN "matched" ELSE @]
<1>1. CASE ~Promotes(tx.st[r], creates)
  <2>1. t = tx
    BY <1>1 DEF PromoteRecord
  <2> QED
    BY <1>1, <2>1 DEF Put, Besides, Alike
<1>2. CASE Promotes(tx.st[r], creates)
  <2>1. t = [tx EXCEPT !.reg[i] = w, !.st[r].asset = i, !.st[r].status = IF row.asset = NoAsset THEN "matched" ELSE @]
    BY <1>2 DEF PromoteRecord
  <2>2. RowFits(r, row) /\ row.host # Nothing /\ row.status # "ignored"
    BY <1>2 DEF Handy, TableFits, Promotes
  <2>3. /\ i \in AssetIds
        /\ \/ row.asset = i
           \/ row.asset = NoAsset /\ i \in Live(tx.reg) /\ tx.reg[i].host = row.host
           \/ row.asset = NoAsset /\ (\A j \in Live(tx.reg) : tx.reg[j].host # row.host) /\ ~tx.reg[i].exists
    <3>1. CASE row.asset # NoAsset
      BY <2>2, <3>1 DEF RowFits
    <3>2. CASE row.asset = NoAsset /\ byHost # {}
      <4>1. byHost \in SUBSET AssetIds
        BY DEF Live
      <4>2. i = Min(byHost)
        BY <3>2
      <4> HIDE DEF i
      <4>3. i \in byHost
        <5> HIDE DEF byHost
        <5> QED BY <3>2, <4>1, <4>2, LeastOf
      <4>4. i \in Live(tx.reg) /\ tx.reg[i].host = row.host
        BY <4>3
      <4> QED
        BY <3>2, <4>1, <4>3, <4>4
    <3>3. CASE row.asset = NoAsset /\ byHost = {}
      <4>1. Spare(tx.reg) # {} /\ Spare(tx.reg) \in SUBSET AssetIds
        BY <1>2, <3>3 DEF Spare
      <4>2. i = Min(Spare(tx.reg))
        BY <3>3
      <4>3. \A j \in Live(tx.reg) : tx.reg[j].host # row.host
        BY <3>3
      <4> HIDE DEF i
      <4>4. i \in Spare(tx.reg)
        BY <4>1, <4>2, LeastOf
      <4>5. i \in AssetIds /\ ~tx.reg[i].exists
        BY <4>4 DEF Spare, Taken
      <4> QED
        BY <3>3, <4>3, <4>5
    <3> QED
      BY <3>1, <3>2, <3>3
  <2> DEFINE a == tx.reg[i]
             b == [a EXCEPT !.exists = TRUE]
  <2>4. AssetFits(a)
    BY <2>3 DEF Handy, EstateFits
  <2>5. DOMAIN b = DOMAIN a /\ b.exists = TRUE /\ b.deleted = a.deleted /\ b.host = a.host /\ b.site = a.site /\ b.slugs = a.slugs
    <3> HIDE DEF a
    <3> QED BY <2>4 DEF AssetFits
  <2>6. w = [b EXCEPT !.host = Or(row.host, @), !.site = Or(row.site, @), !.serial = Or(row.serial, @), !.slugs = @ \cup {r[1]}]
    BY DEF Written
  <2>7. bound = [row EXCEPT !.asset = i, !.status = IF row.asset = NoAsset THEN "matched" ELSE @]
    OBVIOUS
  <2>8. t = [tx EXCEPT !.reg = [tx.reg EXCEPT ![i] = w], !.st = [tx.st EXCEPT ![r] = bound]]
    <3>1. DOMAIN tx = TxColumns /\ DOMAIN tx.reg = AssetIds /\ DOMAIN tx.st = Rows
      BY DEF Handy, TableFits, EstateFits
    <3> HIDE DEF i, w
    <3> QED
      BY <2>1, <3>1
  <2> HIDE DEF i, w, bound, a, b, row
  <2>9. /\ DOMAIN w = DOMAIN a /\ w.exists = TRUE /\ w.deleted = a.deleted /\ w.host = row.host
        /\ w.site = Or(row.site, a.site) /\ w.slugs = a.slugs \cup {r[1]}
    BY <2>2, <2>4, <2>5, <2>6 DEF AssetFits, Or
  <2>10. AssetFits(w)
    BY <2>2, <2>4, <2>9, RowNumbers DEF AssetFits, RowFits, Or
  <2>11. /\ DOMAIN bound = RowColumns /\ bound.asset = i /\ bound.exists = row.exists /\ bound.absent = row.absent
         /\ bound.host = row.host /\ bound.site = row.site /\ bound.serial = row.serial
         /\ bound.status \in {"matched", row.status}
    BY <2>2, <2>7 DEF RowFits, RowColumns
  <2>12. RowFits(r, bound) /\ Alike(bound, row)
    BY <2>2, <2>3, <2>11 DEF RowFits, Alike
  <2>13. Besides(t, tx) /\ t.reg = [tx.reg EXCEPT ![i] = w] /\ t.st = [tx.st EXCEPT ![r] = bound]
    <3>1. DOMAIN tx = TxColumns
      BY DEF Handy
    <3> QED
      BY <2>8, <3>1 DEF Besides, TxColumns
  <2>14. /\ DOMAIN t.reg = AssetIds /\ t.reg[i] = w /\ \A j \in AssetIds \ {i} : t.reg[j] = tx.reg[j]
         /\ DOMAIN t.st = Rows /\ t.st[r] = bound /\ \A q \in Rows \ {r} : t.st[q] = tx.st[q]
    BY <2>3, <2>13 DEF Handy, TableFits, EstateFits
  <2>15. Copied(t, tx, r, i)
    BY <2>3, <2>9, <2>11, <2>14 DEF Copied, Handy, EstateFits, a, row
  <2>16. \A j \in AssetIds : tx.reg[j].exists => t.reg[j].exists
    BY <2>9, <2>14
  <2>17. Handy(t)
    <3>1. TableFits(t.st)
      BY <2>12, <2>14 DEF Handy, TableFits
    <3>2. EstateFits(t.reg)
      BY <2>10, <2>14 DEF Handy, EstateFits
    <3>3. LinksFit(t.st, t.reg)
      <4> SUFFICES ASSUME NEW q \in Rows, t.st[q].asset # NoAsset PROVE t.reg[t.st[q].asset].exists
        BY DEF LinksFit
      <4>1. CASE q = r
        BY <2>9, <2>11, <2>14, <4>1
      <4>2. CASE q # r
        <5>1. t.st[q] = tx.st[q] /\ tx.st[q].asset \in AssetIds /\ tx.reg[tx.st[q].asset].exists
          BY <2>14, <4>2 DEF Handy, LinksFit, TableFits, RowFits
        <5> QED
          BY <2>16, <5>1
      <4> QED
        BY <4>1, <4>2
    <3> QED
      BY <2>13, <3>1, <3>2, <3>3 DEF Handy, Besides
  <2>18. Put(t, tx, r, creates)
    BY <1>2, <2>3, <2>12, <2>13, <2>14, <2>15 DEF Put, row
  <2>19. Spare(tx.reg) \ {i} \subseteq Spare(t.reg)
    BY <2>14 DEF Spare, Taken
  <2>20. row.asset # NoAsset => tx.reg[i].exists
    <3>1. row.asset # NoAsset => tx.reg[row.asset].exists
      BY DEF Handy, LinksFit, row
    <3> QED
      BY <2>3, <3>1
  <2>21. row.asset # NoAsset => i \notin Spare(tx.reg)
    BY <2>3, <2>20 DEF Spare, Taken
  <2> QED
    BY <1>2, <2>16, <2>17, <2>18, <2>19, <2>21 DEF row
<1> QED
  BY <1>1, <1>2

(* The names of the assets. *)

\* An asset has the name it had, or the one of the last row that was copied into it.
NamedByRows(tx, H) ==
  \A i \in AssetIds :
    tx.reg[i].exists =>
      \/ tx.oldReg[i].exists /\ tx.reg[i].host = tx.oldReg[i].host
      \/ \E r \in H : tx.st[r].asset = i /\ tx.st[r].host = tx.reg[i].host /\ tx.st[r].host # Nothing

\* Two assets of one name are explained, one of which the transaction registered.
Explained(tx, H, i, j) ==
  \/ tx.oldReg[j].exists /\ tx.oldReg[j].host # tx.reg[j].host
  \/ \E r \in H : tx.st[r].asset \in {i, j} /\ tx.st[r].host \notin {Nothing, tx.reg[i].host}

NamesFit(tx, H) ==
  /\ NamedByRows(tx, H)
  /\ \A i, j \in Live(tx.reg) :
       i # j /\ ~tx.oldReg[i].exists /\ tx.reg[i].host = tx.reg[j].host => Explained(tx, H, i, j)

LEMMA NamesStay ==
  ASSUME NEW tx, NEW t, NEW H \in SUBSET Rows, NEW G \in SUBSET Rows, NamesFit(tx, H), H \subseteq G,
         t.reg = tx.reg, t.oldReg = tx.oldReg, \A r \in H : t.st[r].asset = tx.st[r].asset /\ t.st[r].host = tx.st[r].host
  PROVE  NamesFit(t, G)
<1>1. NamedByRows(t, G)
  BY DEF NamesFit, NamedByRows
<1>2. ASSUME NEW i \in Live(t.reg), NEW j \in Live(t.reg), i # j, ~t.oldReg[i].exists, t.reg[i].host = t.reg[j].host
      PROVE  Explained(t, G, i, j)
  <2>1. Explained(tx, H, i, j)
    BY <1>2 DEF NamesFit
  <2> QED
    BY <2>1 DEF Explained
<1> QED
  BY <1>1, <1>2 DEF NamesFit

LEMMA NamesKept ==
  ASSUME NEW tx, NEW t, NEW H \in SUBSET Rows, NamesFit(tx, H),
         t.reg = tx.reg, t.oldReg = tx.oldReg, \A r \in H : t.st[r].asset = tx.st[r].asset /\ t.st[r].host = tx.st[r].host
  PROVE  NamesFit(t, H)
<1> PICK G : G = H
  OBVIOUS
<1>1. H \subseteq G /\ G \in SUBSET Rows
  OBVIOUS
<1>2. NamesFit(t, G)
  BY <1>1, NamesStay
<1> QED
  BY <1>2

LEMMA NamesPut ==
  ASSUME NEW tx, NEW t, NEW H \in SUBSET Rows, NamesFit(tx, H), NEW r \in Rows \ H, NEW creates,
         Put(t, tx, r, creates), LinksFit(tx.st, tx.reg)
  PROVE  NamesFit(t, H \cup {r})
<1>1. /\ t.oldReg = tx.oldReg /\ \A q \in H : t.st[q] = tx.st[q]
  BY DEF Put, Besides
<1>2. CASE ~Promotes(tx.st[r], creates)
  <2>1. t = tx
    BY <1>2 DEF Put
  <2> QED
    BY <2>1, NamesStay
<1>3. CASE Promotes(tx.st[r], creates)
  <2>1. PICK c \in AssetIds : Copied(t, tx, r, c)
    BY <1>3 DEF Put
  <2>2. tx.st[r].host # Nothing /\ t.st[r].host = tx.st[r].host /\ t.st[r].asset = c
    BY <1>3, <2>1 DEF Promotes, Put, Alike, Copied
  <2>3. PICK h : h = tx.st[r].host
    OBVIOUS
  <2>4. /\ h # Nothing /\ t.st[r].host = h /\ t.st[r].asset = c /\ t.reg[c].host = h /\ t.reg[c].exists
        /\ t.reg[c].deleted = tx.reg[c].deleted
        /\ \A j \in AssetIds \ {c} : t.reg[j] = tx.reg[j]
    BY <2>1, <2>2, <2>3 DEF Copied
  <2>5. NamedByRows(t, H \cup {r})
    <3> SUFFICES ASSUME NEW i \in AssetIds, t.reg[i].exists
                 PROVE  \/ t.oldReg[i].exists /\ t.reg[i].host = t.oldReg[i].host
                        \/ \E q \in H \cup {r} : t.st[q].asset = i /\ t.st[q].host = t.reg[i].host /\ t.st[q].host # Nothing
      BY DEF NamedByRows
    <3>1. CASE i = c
      BY <2>4, <3>1
    <3>2. CASE i # c
      <4>1. t.reg[i] = tx.reg[i]
        BY <2>4, <3>2
      <4> QED
        BY <1>1, <4>1 DEF NamesFit, NamedByRows
    <3> QED
      BY <3>1, <3>2
  <2>6. ASSUME NEW i \in Live(t.reg), NEW j \in Live(t.reg), i # j, ~t.oldReg[i].exists, t.reg[i].host = t.reg[j].host
        PROVE  Explained(t, H \cup {r}, i, j)
    <3>1. i \in AssetIds /\ j \in AssetIds
      BY DEF Live
    <3>2. ASSUME i \in Live(tx.reg), j \in Live(tx.reg), tx.reg[i].host = t.reg[i].host, tx.reg[j].host = t.reg[j].host
          PROVE  Explained(t, H \cup {r}, i, j)
      <4>1. Explained(tx, H, i, j)
        BY <1>1, <2>6, <3>2 DEF NamesFit
      <4> QED
        BY <1>1, <3>2, <4>1 DEF Explained
    <3>3. CASE i # c /\ j # c
      <4>1. t.reg[i] = tx.reg[i] /\ t.reg[j] = tx.reg[j]
        BY <2>4, <3>1, <3>3
      <4>2. i \in Live(tx.reg) /\ j \in Live(tx.reg)
        BY <4>1 DEF Live
      <4> QED
        BY <3>2, <4>1, <4>2
    <3>4. CASE i = c \/ j = c
      <4>1. PICK o \in {i, j} : o # c /\ {i, j} = {o, c}
        BY <2>6, <3>4
      <4>2. o \in Live(tx.reg) /\ t.reg[o] = tx.reg[o] /\ tx.reg[o].host = h
        <5>1. o \in AssetIds /\ t.reg[o] = tx.reg[o] /\ o \in Live(t.reg)
          BY <2>4, <3>1, <4>1
        <5>2. t.reg[o].host = t.reg[c].host
          BY <2>6, <4>1
        <5> QED
          BY <2>4, <5>1, <5>2 DEF Live
      <4>3. t.reg[i].host = h
        BY <2>4, <2>6, <4>1, <4>2
      <4>4. CASE tx.st[r].asset = NoAsset /\ ~tx.reg[c].exists /\ \A k \in Live(tx.reg) : tx.reg[k].host # tx.st[r].host
        BY <2>3, <4>2, <4>4
      <4>5. CASE tx.reg[c].exists /\ tx.reg[c].host = h
        <5>1. c \in Live(tx.reg)
          <6>1. c \in Live(t.reg)
            BY <4>1
          <6> QED
            BY <2>4, <4>5, <6>1 DEF Live
        <5> QED
          BY <2>4, <3>2, <4>1, <4>2, <4>5, <5>1
      <4>6. CASE tx.reg[c].exists /\ tx.reg[c].host # h
        <5>1. CASE tx.oldReg[c].exists /\ tx.oldReg[c].host # h
          <6>1. j = c
            BY <1>1, <2>6, <4>1, <5>1
          <6> QED
            BY <1>1, <2>4, <5>1, <6>1 DEF Explained
        <5>2. CASE ~(tx.oldReg[c].exists /\ tx.oldReg[c].host # h)
          <6>1. PICK q \in H : tx.st[q].asset = c /\ tx.st[q].host = tx.reg[c].host /\ tx.st[q].host # Nothing
            BY <4>6, <5>2 DEF NamesFit, NamedByRows
          <6>2. t.st[q].asset = c /\ t.st[q].host \notin {Nothing, t.reg[i].host}
            BY <1>1, <4>3, <4>6, <6>1
          <6> QED
            BY <3>4, <6>1, <6>2 DEF Explained
        <5> QED
          BY <5>1, <5>2
      <4>7. \/ tx.st[r].asset = NoAsset /\ ~tx.reg[c].exists /\ \A k \in Live(tx.reg) : tx.reg[k].host # tx.st[r].host
            \/ tx.reg[c].exists
        <5>1. CASE tx.st[r].asset = c
          <6>1. c # NoAsset
            BY AssetsNumbered
          <6> QED
            BY <5>1, <6>1 DEF LinksFit
        <5>2. CASE c \in Live(tx.reg)
          BY <5>2 DEF Live
        <5> QED
          BY <2>1, <5>1, <5>2 DEF Copied
      <4> QED
        BY <4>4, <4>5, <4>6, <4>7
    <3> QED
      BY <3>3, <3>4
  <2> QED
    BY <2>5, <2>6 DEF NamesFit
<1> QED
  BY <1>2, <1>3

(* A reading. *)

EntryFits(e) == e \in Entries

\* A sync on its way through its export.
Going(tx, f, st, reg) ==
  /\ Handy(tx) /\ tx.kind = "sync" /\ tx.old = st /\ tx.oldReg = reg /\ tx.seen \subseteq ExternalKeys
  /\ \A r \in Rows : r[1] # f \/ r[2] \notin tx.seen => tx.st[r] = st[r]
  /\ \A k \in tx.seen : ~tx.st[<<f, k>>].absent /\ tx.st[<<f, k>>].exists
  /\ \A i \in AssetIds : reg[i].exists => tx.reg[i].exists
  /\ NamesFit(tx, {<<f, k>> : k \in tx.seen})

Room(tx, f, n) == source[f].auto /\ source[f].creates => Cardinality(Spare(tx.reg)) >= n

LEMMA SpareFinite == ASSUME NEW reg PROVE IsFiniteSet(Spare(reg)) /\ Cardinality(Spare(reg)) \in Nat /\ Spare(reg) \subseteq AssetIds
<1>1. Spare(reg) \subseteq AssetIds
  BY DEF Spare
<1> QED
  BY <1>1, AssetsNumbered, FS_Subset, FS_CardinalityType

LEMMA OneSpareLess ==
  ASSUME NEW p, NEW q, NEW n \in Nat, Cardinality(Spare(p)) >= n + 1, NEW x, Spare(p) \ {x} \subseteq Spare(q)
  PROVE  Cardinality(Spare(q)) >= n
<1>1. /\ IsFiniteSet(Spare(p)) /\ Cardinality(Spare(p)) \in Nat
      /\ IsFiniteSet(Spare(q)) /\ Cardinality(Spare(q)) \in Nat
  BY SpareFinite
<1> DEFINE P == Spare(p)
           Q == Spare(q)
<1> HIDE DEF P, Q
<1>2. IsFiniteSet(P \ {x}) /\ Cardinality(P \ {x}) = IF x \in P THEN Cardinality(P) - 1 ELSE Cardinality(P)
  BY <1>1, FS_RemoveElement DEF P
<1>3. Cardinality(P \ {x}) <= Cardinality(Q)
  BY <1>1, <1>2, FS_Subset DEF P, Q
<1> QED
  BY <1>1, <1>2, <1>3 DEF P, Q

\* What an entry says has its columns, and a site of its own source.
Said(f, said) ==
  /\ DOMAIN said = {"host", "serial", "site"}
  /\ said.host \in Hosts \cup {Nothing} /\ said.serial \in Serials \cup {Nothing} /\ said.site \in {f, Nothing}

LEMMA NarrowSaid ==
  ASSUME NEW f, NEW e \in Entries, NEW narrowed
  PROVE  Said(f, Narrow(Normalized(f, e), narrowed))
<1> DEFINE s == Normalized(f, e)
           z == [s EXCEPT !.site = Nothing]
<1>1. e.host \in Hosts \cup {Nothing} /\ e.serial \in Serials \cup {Nothing}
  BY DEF Entries, Nothing
<1>2. DOMAIN s = {"host", "serial", "site"} /\ s.host = e.host /\ s.serial = e.serial /\ s.site \in {f, Nothing}
  BY DEF Normalized
<1> HIDE DEF s
<1>3. DOMAIN z = DOMAIN s /\ z.host = s.host /\ z.serial = s.serial /\ z.site = Nothing
  BY <1>2
<1>4. Narrow(s, narrowed) = IF narrowed THEN z ELSE s
  BY DEF Narrow
<1> HIDE DEF z
<1>5. Said(f, s) /\ Said(f, z)
  BY <1>1, <1>2, <1>3 DEF Said
<1> QED
  BY <1>4, <1>5 DEF s

\* The asset a record is tied to is none, or one there is.
LEMMA ResolvesFit ==
  ASSUME NEW tx, Handy(tx), NEW f, NEW said
  PROVE  /\ Resolve(tx, f, said).asset \in AssetIds \cup {NoAsset}
         /\ Resolve(tx, f, said).asset # NoAsset => tx.reg[Resolve(tx, f, said).asset].exists
<1> DEFINE hit == ResolveAsset(tx.reg, said)
           kin   == Siblings(tx.st, f, said)
           r     == CHOOSE s \in kin : TRUE
           to    == Resolve(tx, f, said)
<1>1. /\ hit \in AssetIds \cup {NoAsset}
      /\ hit # NoAsset => tx.reg[hit].exists
  <2> DEFINE bySerial == {i \in Live(tx.reg) : said.serial # Nothing /\ tx.reg[i].serial = said.serial}
             byName   == {i \in Live(tx.reg) : said.host # Nothing /\ tx.reg[i].host = said.host}
  <2>1. hit = IF bySerial # {} THEN Min(bySerial) ELSE IF byName # {} THEN Min(byName) ELSE NoAsset
    BY DEF ResolveAsset
  <2>2. bySerial \subseteq Live(tx.reg) /\ byName \subseteq Live(tx.reg)
    OBVIOUS
  <2>3. Live(tx.reg) \subseteq AssetIds /\ \A i \in Live(tx.reg) : tx.reg[i].exists
    BY DEF Live
  <2> HIDE DEF bySerial, byName, hit
  <2>4. bySerial # {} => Min(bySerial) \in bySerial
    BY <2>2, <2>3, LeastOf
  <2>5. byName # {} => Min(byName) \in byName
    BY <2>2, <2>3, LeastOf
  <2> QED
    BY <2>1, <2>2, <2>3, <2>4, <2>5
<1>2. to = IF hit # NoAsset \/ kin = {} THEN [asset |-> hit, identity |-> Identity(said)]
           ELSE IF tx.st[r].asset # NoAsset THEN [asset |-> tx.st[r].asset, identity |-> Identity(said)]
           ELSE [asset |-> NoAsset, identity |-> Or(tx.st[r].identity, Identity(said))]
  BY DEF Resolve
<1>3. kin # {} => r \in Rows
  <2>1. kin \subseteq Rows
    BY DEF Siblings
  <2> HIDE DEF kin
  <2> QED
    BY <2>1
<1> HIDE DEF hit, kin, r, to
<1>4. to.asset \in {hit, NoAsset} \/ (r \in Rows /\ to.asset = tx.st[r].asset)
  BY <1>2, <1>3
<1>5. r \in Rows => tx.st[r].asset \in AssetIds \cup {NoAsset} /\ (tx.st[r].asset # NoAsset => tx.reg[tx.st[r].asset].exists)
  BY DEF Handy, TableFits, RowFits, LinksFit
<1> QED
  BY <1>1, <1>4, <1>5 DEF to

LEMMA StagedFits ==
  ASSUME NEW r \in Rows, NEW row, RowFits(r, row), NEW said, Said(r[1], said), NEW e, NEW to,
         to.asset \in AssetIds \cup {NoAsset}
  PROVE  /\ RowFits(r, Staged(row, said, e, to))
         /\ ~Staged(row, said, e, to).absent /\ Staged(row, said, e, to).exists
         /\ Staged(row, said, e, to).asset \in {row.asset, to.asset}
<1> DEFINE kept == row.status = "ignored"
           z == Staged(row, said, e, to)
<1>1. DOMAIN row = RowColumns
  BY DEF RowFits
<1>2. /\ DOMAIN z = RowColumns
      /\ z.host = Or(said.host, row.host) /\ z.serial = Or(said.serial, row.serial) /\ z.site = Or(said.site, row.site)
      /\ z.absent = FALSE /\ z.exists = TRUE
      /\ z.asset = (IF kept THEN row.asset ELSE to.asset)
      /\ z.status = (IF kept THEN row.status ELSE IF to.asset = NoAsset THEN "unmatched" ELSE "matched")
  BY <1>1 DEF Staged, RowColumns
<1> HIDE DEF z
<1>3. RowFits(r, z)
  BY <1>2 DEF RowFits, Said, Or
<1> QED
  BY <1>2, <1>3 DEF z

\* One entry read.
LEMMA IngestStep ==
  ASSUME NEW f \in Feeds, NEW st, NEW reg, NEW tx, Going(tx, f, st, reg), NEW e \in Entries,
         NEW n \in Nat, Room(tx, f, n + 1), NEW dry, ~dry, NEW t, t = IngestRecord(tx, f, e, dry)
  PROVE  Going(t, f, st, reg) /\ Room(t, f, n)
<1> DEFINE r    == <<f, e.key>>
           row  == tx.st[r]
           said == Narrow(Normalized(f, e), source[f].narrowed)
           to   == Resolve(tx, f, said)
           sr   == Staged(row, said, e, to)
           m    == Tally(tx.n, tx.old[r], to.asset)
           next == [tx EXCEPT !.seen = @ \cup {e.key}, !.n = m, !.st[r] = sr]
           same == [tx EXCEPT !.seen = @ \cup {e.key}, !.n.unchanged = @ + 1,
                              !.n.matched = @ + (IF row.asset # NoAsset THEN 1 ELSE 0),
                              !.n.unmatched = @ + (IF row.asset = NoAsset THEN 1 ELSE 0)]
           H    == {<<f, k>> : k \in tx.seen}
<1>1. e.key \in ExternalKeys /\ r \in Rows /\ r[1] = f /\ r[2] = e.key /\ r = <<f, e.key>>
  BY DEF Entries, Rows
<1>2. t = IF e.key \in tx.seen THEN [tx EXCEPT !.n.rejected = @ + 1]
          ELSE IF Unchanged(row, said, e) THEN same
          ELSE IF source[f].auto THEN PromoteRecord(next, r, source[f].creates) ELSE next
  BY DEF IngestRecord
<1>3. DOMAIN tx = TxColumns /\ TableFits(tx.st) /\ EstateFits(tx.reg) /\ LinksFit(tx.st, tx.reg)
  BY DEF Going, Handy
<1>0. tx.seen \subseteq ExternalKeys /\ tx.kind = "sync" /\ tx.old = st /\ tx.oldReg = reg
  BY DEF Going
<1>9. /\ \A q \in Rows : q[1] # f \/ q[2] \notin tx.seen => tx.st[q] = st[q]
      /\ \A k \in tx.seen : ~tx.st[<<f, k>>].absent /\ tx.st[<<f, k>>].exists
      /\ \A i \in AssetIds : reg[i].exists => tx.reg[i].exists
  BY DEF Going
<1>4. Room(tx, f, n)
  <2>1. Cardinality(Spare(tx.reg)) \in Nat
    BY SpareFinite
  <2> QED
    BY <2>1 DEF Room
<1>5. CASE e.key \in tx.seen
  <2>1. t = [tx EXCEPT !.n.rejected = @ + 1]
    BY <1>2, <1>5
  <2>2. /\ DOMAIN t = DOMAIN tx /\ t.kind = tx.kind /\ t.st = tx.st /\ t.reg = tx.reg /\ t.old = tx.old
        /\ t.oldReg = tx.oldReg /\ t.seen = tx.seen
    BY <1>3, <2>1 DEF TxColumns
  <2>3. NamesFit(t, H)
    <3>1. NamesFit(tx, H) /\ H \in SUBSET Rows
      BY DEF Going, Rows
    <3> HIDE DEF H
    <3>2. H \subseteq H /\ \A q \in H : t.st[q].asset = tx.st[q].asset /\ t.st[q].host = tx.st[q].host
      BY <2>2
    <3> QED
      BY <2>2, <3>1, <3>2, NamesStay
  <2>4. Handy(t)
    BY <1>3, <2>2 DEF Handy
  <2>5. Room(t, f, n)
    BY <1>4, <2>2 DEF Room
  <2> QED
    BY <2>2, <2>3, <2>4, <2>5 DEF Going
<1>6. H \in SUBSET Rows /\ NamesFit(tx, H)
  BY DEF Going, Rows
<1>7. CASE e.key \notin tx.seen /\ Unchanged(row, said, e)
  <2>1. t = same
    BY <1>2, <1>7
  <2>2. /\ DOMAIN t = DOMAIN tx /\ t.kind = tx.kind /\ t.st = tx.st /\ t.reg = tx.reg /\ t.old = tx.old
        /\ t.oldReg = tx.oldReg /\ t.seen = tx.seen \cup {e.key}
    BY <1>3, <2>1 DEF TxColumns
  <2>3. row.exists /\ ~row.absent
    BY <1>7 DEF Unchanged, Same
  <2> DEFINE G == {<<f, k>> : k \in t.seen}
  <2>4. NamesFit(t, G)
    <3>1. t.seen \subseteq ExternalKeys /\ tx.seen \subseteq t.seen
      BY <1>0, <1>1, <2>2
    <3>2. G \in SUBSET Rows /\ H \subseteq G
      <4>1. \A k \in t.seen : <<f, k>> \in Rows
        BY <3>1 DEF Rows
      <4>2. H \subseteq G
        BY <3>1
      <4> QED
        BY <4>1, <4>2
    <3> HIDE DEF H, G
    <3>3. \A q \in H : t.st[q].asset = tx.st[q].asset /\ t.st[q].host = tx.st[q].host
      BY <2>2
    <3> QED
      BY <1>6, <2>2, <3>2, <3>3, NamesStay
  <2>5. Handy(t)
    BY <1>3, <2>2 DEF Handy
  <2>6. Room(t, f, n)
    BY <1>4, <2>2 DEF Room
  <2>7. \A k \in t.seen : ~t.st[<<f, k>>].absent /\ t.st[<<f, k>>].exists
    BY <1>9, <2>2, <2>3
  <2>8. t.seen \subseteq ExternalKeys /\ \A q \in Rows : q[1] # f \/ q[2] \notin t.seen => t.st[q] = st[q]
    BY <1>0, <1>1, <1>9, <2>2
  <2> HIDE DEF r, row, said, to, sr, m, next, same
  <2> QED
    BY <1>0, <1>1, <1>9, <2>2, <2>4, <2>5, <2>6, <2>7, <2>8 DEF Going
<1>8. CASE e.key \notin tx.seen /\ ~Unchanged(row, said, e)
  <2>1. RowFits(r, row) /\ Said(f, said)
    BY <1>1, <1>3, NarrowSaid DEF TableFits
  <2>2. to.asset \in AssetIds \cup {NoAsset} /\ (to.asset # NoAsset => tx.reg[to.asset].exists)
    <3>1. Handy(tx)
      BY DEF Going
    <3> HIDE DEF said
    <3> QED
      BY <3>1, ResolvesFit
  <2>3. RowFits(r, sr) /\ ~sr.absent /\ sr.exists /\ sr.asset \in {row.asset, to.asset}
    <3> HIDE DEF r, row, said, to
    <3> QED
      BY <1>1, <2>1, <2>2, StagedFits
  <2>4. t = IF source[f].auto THEN PromoteRecord(next, r, source[f].creates) ELSE next
    BY <1>2, <1>8
  <2>5. next = [tx EXCEPT !.seen = @ \cup {e.key}, !.n = m, !.st[r] = sr]
    OBVIOUS
  <2>6. row = tx.st[r]
    OBVIOUS
  <2>7. r \notin H
    BY <1>8
  <2>8. {<<f, k>> : k \in tx.seen \cup {e.key}} = H \cup {r}
    OBVIOUS
  <2>9. H \cup {r} \subseteq Rows
    BY <1>1, <1>6
  <2> HIDE DEF r, row, said, to, sr, m, next, same, H
  <2>10. /\ DOMAIN next = DOMAIN tx /\ next.kind = tx.kind /\ next.st = [tx.st EXCEPT ![r] = sr] /\ next.reg = tx.reg
         /\ next.old = tx.old /\ next.oldReg = tx.oldReg /\ next.seen = tx.seen \cup {e.key}
    BY <1>3, <2>5 DEF TxColumns
  <2>11. DOMAIN next.st = Rows /\ next.st[r] = sr /\ \A q \in Rows \ {r} : next.st[q] = tx.st[q]
    BY <1>1, <1>3, <2>10 DEF TableFits
  <2> PICK z : z = next
    OBVIOUS
  <2> PICK G : G = H \cup {r}
    OBVIOUS
  <2>20. /\ DOMAIN z = DOMAIN tx /\ z.kind = tx.kind /\ z.reg = tx.reg
         /\ z.old = tx.old /\ z.oldReg = tx.oldReg /\ z.seen = tx.seen \cup {e.key}
    BY <2>10
  <2>21. DOMAIN z.st = Rows /\ z.st[r] = sr /\ \A q \in Rows \ {r} : z.st[q] = tx.st[q]
    BY <2>11
  <2>12. Handy(z)
    <3>1. TableFits(z.st)
      BY <1>3, <2>3, <2>21 DEF TableFits
    <3>2. LinksFit(z.st, z.reg)
      <4> SUFFICES ASSUME NEW q \in Rows, z.st[q].asset # NoAsset PROVE tx.reg[z.st[q].asset].exists
        BY <2>20 DEF LinksFit
      <4>1. CASE q = r
        <5>1. row.asset # NoAsset => tx.reg[row.asset].exists
          BY <1>1, <1>3, <2>6 DEF LinksFit
        <5> QED
          BY <2>2, <2>3, <2>21, <4>1, <5>1
      <4>2. CASE q # r
        BY <1>3, <2>21, <4>2 DEF LinksFit
      <4> QED
        BY <4>1, <4>2
    <3> QED
      BY <1>3, <2>20, <3>1, <3>2 DEF Handy
  <2>13. NamesFit(z, H)
    <3>1. H \subseteq H /\ \A q \in H : z.st[q].asset = tx.st[q].asset /\ z.st[q].host = tx.st[q].host
      BY <1>6, <2>7, <2>21
    <3>2. z.reg = tx.reg /\ z.oldReg = tx.oldReg
      BY <2>20
    <3> QED
      BY <1>6, <3>1, <3>2, NamesStay
  <2>14. \A q \in Rows \ {r} : q[1] # f \/ q[2] \notin tx.seen => tx.st[q] = st[q]
    BY <1>9
  <2>15. \A q \in Rows : q[1] # f \/ q[2] \notin z.seen => q # r /\ (q[1] # f \/ q[2] \notin tx.seen)
    BY <1>1, <2>20
  <2>16. ASSUME Handy(t), t.kind = z.kind, t.old = z.old, t.oldReg = z.oldReg, t.seen = z.seen,
                \A q \in Rows \ {r} : t.st[q] = z.st[q],
                t.st[r].absent = sr.absent, t.st[r].exists = sr.exists,
                \A i \in AssetIds : z.reg[i].exists => t.reg[i].exists,
                NamesFit(t, G)
         PROVE  Going(t, f, st, reg)
    <3>1. \A q \in Rows : q[1] # f \/ q[2] \notin t.seen => t.st[q] = st[q]
      <4> SUFFICES ASSUME NEW q \in Rows, q[1] # f \/ q[2] \notin t.seen PROVE t.st[q] = st[q]
        OBVIOUS
      <4>1. q # r /\ (q[1] # f \/ q[2] \notin tx.seen)
        BY <2>15, <2>16
      <4> QED
        BY <2>21, <2>14, <2>16, <4>1
    <3>2. \A k \in t.seen : ~t.st[<<f, k>>].absent /\ t.st[<<f, k>>].exists
      <4> SUFFICES ASSUME NEW k \in t.seen PROVE ~t.st[<<f, k>>].absent /\ t.st[<<f, k>>].exists
        OBVIOUS
      <4>1. CASE k = e.key
        BY <1>1, <2>3, <2>16, <4>1
      <4>2. CASE k # e.key
        <5>1. k \in tx.seen /\ <<f, k>> \in Rows /\ <<f, k>> # r
          <6>1. k \in tx.seen
            BY <2>20, <2>16, <4>2
          <6>2. k \in ExternalKeys
            BY <1>0, <6>1
          <6>3. <<f, k>> \in Rows
            BY <6>2 DEF Rows
          <6>4. <<f, k>> # r
            BY <1>1, <4>2
          <6> QED
            BY <6>1, <6>3, <6>4
        <5>2. t.st[<<f, k>>] = tx.st[<<f, k>>]
          BY <2>21, <2>16, <5>1
        <5> QED
          BY <1>9, <5>1, <5>2
      <4> QED
        BY <4>1, <4>2
    <3>3. t.seen \subseteq ExternalKeys
      BY <1>0, <1>1, <2>20, <2>16
    <3>4. \A i \in AssetIds : reg[i].exists => t.reg[i].exists
      BY <1>9, <2>20, <2>16
    <3>5. NamesFit(t, {<<f, k>> : k \in t.seen})
      BY <2>8, <2>20, <2>16
    <3> QED
      BY <1>0, <2>20, <2>16, <3>1, <3>2, <3>3, <3>4, <3>5 DEF Going
  <2>17. CASE source[f].auto
    <3> PICK c : c = source[f].creates
      OBVIOUS
    <3>1. t = PromoteRecord(z, r, c)
      BY <2>4, <2>17
    <3>2. Promotes(z.st[r], c) /\ z.st[r].asset = NoAsset => Spare(z.reg) # {}
      <4> SUFFICES ASSUME c PROVE Spare(z.reg) # {}
        BY DEF Promotes
      <4>1. Cardinality(Spare(tx.reg)) >= n + 1
        BY <2>17 DEF Room
      <4>2. Cardinality({}) = 0
        BY FS_EmptySet
      <4> QED
        BY <2>20, <4>1, <4>2
    <3>3. /\ Put(t, z, r, c) /\ Handy(t)
          /\ \A i \in AssetIds : z.reg[i].exists => t.reg[i].exists
          /\ \E x : Spare(z.reg) \ {x} \subseteq Spare(t.reg)
      <4> PICK q \in Rows : q = r
        BY <1>1
      <4>1. t = PromoteRecord(z, q, c) /\ (Promotes(z.st[q], c) /\ z.st[q].asset = NoAsset => Spare(z.reg) # {})
        BY <3>1, <3>2
      <4>5. q \in Rows
        OBVIOUS
      <4>2. Put(t, z, q, c) /\ Handy(t)
        BY <2>12, <4>1, PromotionPuts
      <4>3. \A i \in AssetIds : z.reg[i].exists => t.reg[i].exists
        BY <2>12, <4>1, PromotionPuts
      <4>4. \E x : Spare(z.reg) \ {x} \subseteq Spare(t.reg)
        BY ONLY <2>12, <4>1, <4>5, PromotionPuts
      <4> QED
        BY <4>2, <4>3, <4>4
    <3>4. NamesFit(t, G)
      BY <1>1, <1>6, <2>7, <2>12, <2>13, <3>3, NamesPut DEF Handy
    <3>5. Besides(t, z) /\ Alike(t.st[r], sr) /\ \A q \in Rows \ {r} : t.st[q] = z.st[q]
      BY <2>21, <3>3 DEF Put
    <3>6. Going(t, f, st, reg)
      BY <2>16, <3>3, <3>4, <3>5 DEF Besides, Alike
    <3>7. Room(t, f, n)
      <4> SUFFICES ASSUME source[f].creates PROVE Cardinality(Spare(t.reg)) >= n
        BY DEF Room
      <4>1. Cardinality(Spare(z.reg)) >= n + 1
        BY <2>20, <2>17 DEF Room
      <4> QED
        BY <3>3, <4>1, OneSpareLess
    <3> QED
      BY <3>6, <3>7
  <2>18. CASE ~source[f].auto
    <3>1. t = z
      BY <2>4, <2>18
    <3>2. NamesFit(t, G)
      <4>0. H \in SUBSET Rows /\ G \in SUBSET Rows
        BY <2>9
      <4>1. H \subseteq G /\ \A q \in H : t.st[q].asset = z.st[q].asset /\ t.st[q].host = z.st[q].host
        BY <2>9, <3>1
      <4>2. t.reg = z.reg /\ t.oldReg = z.oldReg
        BY <3>1
      <4> QED
        BY ONLY <2>13, <4>0, <4>1, <4>2, NamesStay
    <3>3. Going(t, f, st, reg)
      BY <2>21, <2>12, <2>16, <3>1, <3>2
    <3>4. Room(t, f, n)
      BY <1>4, <2>20, <3>1 DEF Room
    <3> QED
      BY <3>3, <3>4
  <2> QED
    BY <2>17, <2>18
<1> QED
  BY <1>5, <1>7, <1>8

\* The records of an export one after the other.
Unfolds(g, f, export, dry, st, reg) ==
  /\ g[0] = Begun("sync", st, reg)
  /\ \A n \in 1 .. Len(export) : g[n] = IngestRecord(g[n - 1], f, export[n], dry)
  /\ Ingested(f, export, dry, st, reg) = g[Len(export)]

LEMMA IngestingUnfolds ==
  ASSUME NEW export, Len(export) \in Nat, NEW f, NEW dry, NEW st, NEW reg
  PROVE  \E g : Unfolds(g, f, export, dry, st, reg)
<1> DEFINE N == Len(export)
           Is(g, m) == g = [n \in 0 .. m |-> IF n = 0 THEN Begun("sync", st, reg) ELSE IngestRecord(g[n - 1], f, export[n], dry)]
           B == {m \in 0 .. N : ~\E g : Is(g, m)}
<1>0. N \in Nat
  OBVIOUS
<1>3. Ingested(f, export, dry, st, reg) = (CHOOSE g : Is(g, N))[N]
  BY Zenon DEF Ingested
<1> HIDE DEF N
<1>1. \E g : Is(g, N)
  <2> SUFFICES ASSUME ~\E g : Is(g, N) PROVE FALSE
    OBVIOUS
  <2>1. B \in SUBSET Nat /\ B # {}
    <3>1. N \in 0 .. N
      BY <1>0
    <3> HIDE DEF Is
    <3>2. B \subseteq 0 .. N /\ N \in B
      BY <3>1
    <3> HIDE DEF B
    <3> QED
      BY <3>2
  <2>2. PICK m \in B : \A k \in B : m <= k
    <3> HIDE DEF B
    <3> QED BY <2>1, LeastNatural
  <2>3. m \in 0 .. N /\ (~\E g : Is(g, m)) /\ \A k \in 0 .. N : (~\E g : Is(g, k)) => m <= k
    <3> HIDE DEF Is
    <3> QED BY <2>2
  <2>4. CASE m = 0
    <3> DEFINE h == [n \in 0 .. 0 |-> Begun("sync", st, reg)]
    <3>1. h = [n \in 0 .. 0 |-> IF n = 0 THEN Begun("sync", st, reg) ELSE IngestRecord(h[n - 1], f, export[n], dry)]
      OBVIOUS
    <3>2. Is(h, 0)
      BY <3>1
    <3> HIDE DEF Is, h
    <3> QED
      BY <2>3, <2>4, <3>2
  <2>5. CASE m # 0
    <3>1. m - 1 \in 0 .. N /\ m \in Nat /\ ~(m <= m - 1)
      BY <1>0, <2>3, <2>5
    <3>2. \E g : Is(g, m - 1)
      <4> HIDE DEF Is
      <4> QED BY <2>3, <3>1
    <3>3. PICK g : Is(g, m - 1)
      BY <3>2
    <3> DEFINE h == [n \in 0 .. m |-> IF n = m THEN IngestRecord(g[m - 1], f, export[m], dry) ELSE g[n]]
    <3>4. /\ DOMAIN g = 0 .. (m - 1) /\ g[0] = Begun("sync", st, reg)
          /\ \A n \in 0 .. (m - 1) : n # 0 => g[n] = IngestRecord(g[n - 1], f, export[n], dry)
      BY <2>5, <3>1, <3>3
    <3>5. \A n \in 0 .. m : h[n] = IF n = 0 THEN Begun("sync", st, reg) ELSE IngestRecord(h[n - 1], f, export[n], dry)
      <4> TAKE n \in 0 .. m
      <4>1. CASE n = m
        <5>1. h[n - 1] = g[m - 1] /\ h[n] = IngestRecord(g[m - 1], f, export[m], dry) /\ n # 0
          BY <2>5, <3>1, <4>1
        <5> HIDE DEF h
        <5> QED
          BY <4>1, <5>1
      <4>2. CASE n # m /\ n # 0
        <5>1. h[n] = g[n] /\ n - 1 \in 0 .. m /\ n - 1 # m /\ n \in 0 .. (m - 1)
          BY <3>1, <4>2
        <5>2. h[n - 1] = g[n - 1]
          BY <5>1
        <5> HIDE DEF h
        <5> QED
          BY <3>4, <4>2, <5>1, <5>2
      <4>3. CASE n = 0
        BY <2>5, <3>4, <4>3
      <4> QED
        BY <4>1, <4>2, <4>3
    <3>6. DOMAIN h = 0 .. m /\ h = [n \in 0 .. m |-> h[n]]
      OBVIOUS
    <3> HIDE DEF h
    <3>7. Is(h, m)
      BY <3>5, <3>6
    <3> HIDE DEF Is
    <3> QED
      BY <2>3, <3>7
  <2> QED
    BY <2>4, <2>5
<1>2. Is(CHOOSE g : Is(g, N), N)
  <2> HIDE DEF Is
  <2> QED BY <1>1, Zenon
<1> DEFINE g == CHOOSE g : Is(g, N)
<1>4. Is(g, N)
  BY <1>2
<1>5. Ingested(f, export, dry, st, reg) = g[N]
  BY <1>3
<1> HIDE DEF g
<1>6. g[0] = Begun("sync", st, reg) /\ \A n \in 1 .. N : g[n] = IngestRecord(g[n - 1], f, export[n], dry)
  BY <1>0, <1>4
<1>7. Unfolds(g, f, export, dry, st, reg)
  BY <1>5, <1>6 DEF N, Unfolds
<1> QED
  BY <1>7

\* Before the first one.
LEMMA BeginsGoing ==
  ASSUME NEW f \in Feeds, NEW st, NEW reg, TableFits(st), EstateFits(reg), LinksFit(st, reg)
  PROVE  Going(Begun("sync", st, reg), f, st, reg)
<1> DEFINE b == Begun("sync", st, reg)
<1>1. /\ DOMAIN b = TxColumns /\ b.kind = "sync" /\ b.st = st /\ b.reg = reg /\ b.old = st /\ b.oldReg = reg
      /\ b.seen = {}
  BY DEF Begun, TxColumns
<1> HIDE DEF b
<1>2. {<<f, k>> : k \in b.seen} = {}
  BY <1>1
<1>3. NamesFit(b, {})
  BY <1>1 DEF NamesFit, NamedByRows, Live
<1>4. Handy(b)
  BY <1>1 DEF Handy
<1>5. b.seen \subseteq ExternalKeys
  BY <1>1
<1>6. NamesFit(b, {<<f, k>> : k \in b.seen})
  BY <1>2, <1>3
<1>7. /\ \A r \in Rows : b.st[r] = st[r]
      /\ \A i \in AssetIds : reg[i].exists => b.reg[i].exists
  BY <1>1
<1>8. Going(b, f, st, reg)
  BY <1>1, <1>4, <1>5, <1>6, <1>7 DEF Going
<1> QED
  BY <1>8 DEF b

LEMMA IngestedGoing ==
  ASSUME NEW f \in Feeds, NEW st, NEW reg, TableFits(st), EstateFits(reg), LinksFit(st, reg),
         NEW export \in Seq(Entries), NEW dry, ~dry, NEW more \in Nat,
         source[f].auto /\ source[f].creates => Cardinality(Spare(reg)) >= Len(export) + more,
         NEW t, t = Ingested(f, export, dry, st, reg)
  PROVE  Going(t, f, st, reg) /\ Room(t, f, more)
<1> DEFINE N == Len(export)
           Ready(tx, n) == Going(tx, f, st, reg) /\ Room(tx, f, N + more - n)
<1>0. N \in Nat /\ \A n \in 1 .. N : export[n] \in Entries
  BY LenProperties, ElementOfSeq
<1>1. PICK g : /\ g[0] = Begun("sync", st, reg)
               /\ \A n \in 1 .. Len(export) : g[n] = IngestRecord(g[n - 1], f, export[n], dry)
               /\ Ingested(f, export, dry, st, reg) = g[Len(export)]
  <2>1. Len(export) \in Nat
    BY <1>0
  <2> HIDE DEF N, Ready
  <2>2. PICK g : Unfolds(g, f, export, dry, st, reg)
    BY <2>1, IngestingUnfolds
  <2> QED
    BY <2>2 DEF Unfolds
<1>2. Ready(g[0], 0)
  <2>1. Going(g[0], f, st, reg)
    BY <1>1, BeginsGoing
  <2>2. g[0].reg = reg
    BY <1>1 DEF Begun
  <2> QED
    BY <1>0, <2>1, <2>2 DEF Room
<1> DEFINE B == {n \in 0 .. N : ~Ready(g[n], n)}
<1>3. SUFFICES ASSUME B # {} PROVE FALSE
  <2>1. N \in 0 .. N /\ N + more - N = more
    BY <1>0
  <2>2. B = {} => Ready(g[N], N)
    <3> HIDE DEF Ready
    <3> QED BY <2>1
  <2>3. t = g[N]
    BY <1>1
  <2> HIDE DEF B, N
  <2> QED
    BY <2>1, <2>2, <2>3
<1>4. PICK m \in B : \A k \in B : m <= k
  <2>1. B \in SUBSET Nat
    BY <1>0
  <2> HIDE DEF B
  <2> QED
    BY <1>3, <2>1, LeastNatural
<1>5. m \in 0 .. N /\ ~Ready(g[m], m) /\ \A k \in 0 .. N : ~Ready(g[k], k) => m <= k
  <2> HIDE DEF Ready
  <2> QED BY <1>4
<1>6. m # 0
  <2> HIDE DEF Ready
  <2> QED BY <1>2, <1>5
<1>7. m - 1 \in 0 .. N /\ m \in 1 .. N /\ ~(m <= m - 1) /\ N + more - m \in Nat /\ N + more - (m - 1) = N + more - m + 1
  BY <1>0, <1>5, <1>6
<1>8. Ready(g[m - 1], m - 1)
  <2> HIDE DEF Ready
  <2> QED BY <1>5, <1>7
<1>9. Going(g[m - 1], f, st, reg) /\ Room(g[m - 1], f, N + more - m + 1)
  BY <1>7, <1>8
<1>10. g[m] = IngestRecord(g[m - 1], f, export[m], dry) /\ export[m] \in Entries
  BY <1>0, <1>1, <1>7
<1> DEFINE left == N + more - m
<1>11. left \in Nat /\ Room(g[m - 1], f, left + 1)
  BY <1>7, <1>9
<1> HIDE DEF left
<1>12. Going(g[m], f, st, reg) /\ Room(g[m], f, left)
  BY <1>9, <1>10, <1>11, IngestStep
<1> QED
  BY <1>5, <1>12 DEF left

\* A source that was read: its rows say so, the others are as they were.
ReadOf(t, f) ==
  /\ Handy(t) /\ t.kind = "sync" /\ t.seen \subseteq ExternalKeys
  /\ TableFits(t.old) /\ EstateFits(t.oldReg)
  /\ \A r \in Rows : r[1] # f => t.st[r] = t.old[r]
  /\ \A r \in Rows : r[1] = f /\ r[2] \in t.seen => t.st[r].exists /\ ~t.st[r].absent
  /\ \A r \in Rows : r[1] = f /\ r[2] \notin t.seen =>
       /\ t.st[r].exists = t.old[r].exists
       /\ t.st[r].absent <=> t.old[r].absent \/ (t.markAbsent /\ t.old[r].exists)
  /\ \A i \in AssetIds : t.oldReg[i].exists => t.reg[i].exists
  /\ NamesFit(t, {<<f, k>> : k \in t.seen})

\* The register has room for an export, and for some more.
Fitting(f, reg, export, more) ==
  source[f].auto /\ source[f].creates => Cardinality(Spare(reg)) >= Len(export) + more

LEMMA IngestReads ==
  ASSUME NEW f \in Feeds, NEW st, NEW reg, TableFits(st), EstateFits(reg), LinksFit(st, reg),
         NEW export \in Seq(Entries), NEW mark, NEW dry, ~dry, NEW more \in Nat,
         Fitting(f, reg, export, more),
         NEW t, t = Ingest(f, export, mark, dry, st, reg)
  PROVE  ReadOf(t, f) /\ t.old = st /\ t.oldReg = reg /\ t.markAbsent = mark /\ Room(t, f, more)
<1> PICK tx : tx = Ingested(f, export, dry, st, reg)
  OBVIOUS
<1>1. Going(tx, f, st, reg) /\ Room(tx, f, more)
  BY IngestedGoing DEF Fitting
<1> DEFINE gone == IF mark THEN Missing(tx, f) ELSE {}
           rows == [r \in Rows |-> IF r \in gone /\ ~dry THEN [tx.st[r] EXCEPT !.absent = TRUE] ELSE tx.st[r]]
           left == Cardinality(gone)
<1>2. t = [tx EXCEPT !.n.absent = left, !.markAbsent = mark, !.st = rows]
  BY DEF Ingest
<1>3. DOMAIN tx = TxColumns /\ TableFits(tx.st) /\ EstateFits(tx.reg) /\ LinksFit(tx.st, tx.reg)
  BY <1>1 DEF Going, Handy
<1>4. /\ tx.kind = "sync" /\ tx.old = st /\ tx.oldReg = reg /\ tx.seen \subseteq ExternalKeys
      /\ \A r \in Rows : r[1] # f \/ r[2] \notin tx.seen => tx.st[r] = st[r]
      /\ \A k \in tx.seen : ~tx.st[<<f, k>>].absent /\ tx.st[<<f, k>>].exists
      /\ \A i \in AssetIds : reg[i].exists => tx.reg[i].exists
      /\ NamesFit(tx, {<<f, k>> : k \in tx.seen})
  BY <1>1 DEF Going
<1>5. \A r \in Rows : r \in gone <=> mark /\ r[1] = f /\ st[r].exists /\ ~st[r].absent /\ r[2] \notin tx.seen
  BY <1>4 DEF Missing
<1> HIDE DEF gone, left
<1>6. \A r \in Rows : rows[r] = IF r \in gone THEN [tx.st[r] EXCEPT !.absent = TRUE] ELSE tx.st[r]
  OBVIOUS
<1>7. DOMAIN rows = Rows
  OBVIOUS
<1> HIDE DEF rows
<1>8. /\ DOMAIN t = TxColumns /\ t.kind = "sync" /\ t.old = st /\ t.oldReg = reg /\ t.reg = tx.reg /\ t.seen = tx.seen
      /\ t.markAbsent = mark /\ t.st = rows
  BY <1>2, <1>3, <1>4 DEF TxColumns
<1>9. \A r \in Rows : /\ RowFits(r, rows[r]) /\ rows[r].exists = tx.st[r].exists /\ rows[r].asset = tx.st[r].asset
                      /\ rows[r].host = tx.st[r].host
                      /\ rows[r].absent = IF r \in gone THEN TRUE ELSE tx.st[r].absent
  <2> SUFFICES ASSUME NEW r \in Rows
               PROVE  /\ RowFits(r, rows[r]) /\ rows[r].exists = tx.st[r].exists /\ rows[r].asset = tx.st[r].asset
                      /\ rows[r].host = tx.st[r].host
                      /\ rows[r].absent = IF r \in gone THEN TRUE ELSE tx.st[r].absent
    OBVIOUS
  <2>1. RowFits(r, tx.st[r])
    BY <1>3 DEF TableFits
  <2> PICK w : w = tx.st[r]
    OBVIOUS
  <2> DEFINE z == [w EXCEPT !.absent = TRUE]
  <2>2. DOMAIN w = RowColumns
    BY <2>1 DEF RowFits
  <2>3. /\ DOMAIN z = DOMAIN w /\ z.exists = w.exists /\ z.asset = w.asset /\ z.host = w.host /\ z.absent = TRUE
        /\ z.serial = w.serial /\ z.site = w.site /\ z.status = w.status
    BY <2>2 DEF RowColumns
  <2> HIDE DEF z
  <2>4. RowFits(r, z)
    BY <2>1, <2>3 DEF RowFits
  <2>5. rows[r] = IF r \in gone THEN z ELSE w
    BY <1>6 DEF z
  <2> QED
    BY <2>1, <2>3, <2>4, <2>5
<1>10. Handy(t)
  <2>1. TableFits(t.st)
    BY <1>7, <1>8, <1>9 DEF TableFits
  <2>2. LinksFit(t.st, t.reg)
    <3> SUFFICES ASSUME NEW q \in Rows, t.st[q].asset # NoAsset PROVE t.reg[t.st[q].asset].exists
      BY DEF LinksFit
    <3>1. t.st[q].asset = tx.st[q].asset /\ t.reg = tx.reg
      BY <1>8, <1>9
    <3>2. tx.st[q].asset # NoAsset => tx.reg[tx.st[q].asset].exists
      BY <1>3 DEF LinksFit
    <3> QED
      BY <3>1, <3>2
  <2> QED
    BY <1>3, <1>8, <2>1, <2>2 DEF Handy
<1>11. \A r \in Rows : r[1] # f => t.st[r] = t.old[r]
  <2> SUFFICES ASSUME NEW r \in Rows, r[1] # f PROVE t.st[r] = t.old[r]
    OBVIOUS
  <2>1. r \notin gone
    BY <1>5
  <2>2. rows[r] = tx.st[r]
    BY <1>6, <2>1
  <2>3. tx.st[r] = st[r]
    BY <1>4
  <2> QED
    BY <1>8, <2>2, <2>3
<1>12. \A r \in Rows : r[1] = f /\ r[2] \in t.seen => t.st[r].exists /\ ~t.st[r].absent
  <2> SUFFICES ASSUME NEW r \in Rows, r[1] = f, r[2] \in t.seen PROVE t.st[r].exists /\ ~t.st[r].absent
    OBVIOUS
  <2>1. r = <<f, r[2]>> /\ r[2] \in tx.seen
    BY <1>8, RowNumbers
  <2>2. ~tx.st[r].absent /\ tx.st[r].exists /\ r \notin gone
    BY <1>4, <1>5, <2>1
  <2> QED
    BY <1>8, <1>9, <2>2
<1>13. \A r \in Rows : r[1] = f /\ r[2] \notin t.seen =>
         /\ t.st[r].exists = t.old[r].exists
         /\ t.st[r].absent <=> t.old[r].absent \/ (t.markAbsent /\ t.old[r].exists)
  <2> SUFFICES ASSUME NEW r \in Rows, r[1] = f, r[2] \notin t.seen
               PROVE  /\ t.st[r].exists = t.old[r].exists
                      /\ t.st[r].absent <=> t.old[r].absent \/ (t.markAbsent /\ t.old[r].exists)
    OBVIOUS
  <2>1. tx.st[r] = st[r]
    BY <1>4, <1>8
  <2>2. r \in gone <=> mark /\ st[r].exists /\ ~st[r].absent
    BY <1>5, <1>8
  <2>3. t.st[r].exists = st[r].exists /\ t.st[r].absent = IF r \in gone THEN TRUE ELSE st[r].absent
    BY <1>8, <1>9, <2>1
  <2> QED
    BY <1>8, <2>2, <2>3
<1>14. NamesFit(t, {<<f, k>> : k \in t.seen})
  <2> PICK H : H = {<<f, k>> : k \in t.seen}
    OBVIOUS
  <2>1. \A k \in t.seen : <<f, k>> \in Rows
    BY <1>4, <1>8 DEF Rows
  <2>2. H \in SUBSET Rows /\ NamesFit(tx, H)
    BY <1>4, <1>8, <2>1
  <2>3. \A r \in H : t.st[r].asset = tx.st[r].asset /\ t.st[r].host = tx.st[r].host
    BY <1>8, <1>9, <2>2
  <2>4. t.reg = tx.reg /\ t.oldReg = tx.oldReg
    BY <1>4, <1>8
  <2>5. NamesFit(t, H)
    BY ONLY <2>2, <2>3, <2>4, NamesKept
  <2> QED
    BY <2>5
<1>15. Room(t, f, more)
  BY <1>1, <1>8 DEF Room
<1>16. \A i \in AssetIds : t.oldReg[i].exists => t.reg[i].exists
  BY <1>4, <1>8
<1> QED
  BY <1>4, <1>8, <1>10, <1>11, <1>12, <1>13, <1>14, <1>15, <1>16 DEF ReadOf

(* A promotion. *)

Pr(r) == source[r[1]].priority

\* The row that is copied next, and what is left then.
NextOf(left) == CHOOSE r \in left : \A q \in left : source[r[1]].priority >= source[q[1]].priority
Advanced(was, creates) ==
  [tx |-> PromoteRecord(was.tx, NextOf(was.left), creates), left |-> was.left \ {NextOf(was.left)}]

SourceColumns == {"exists", "enabled", "auto", "creates", "narrowed", "priority", "failed"}

Configured ==
  /\ DOMAIN source = Feeds
  /\ \A f \in Feeds : DOMAIN source[f] = SourceColumns /\ source[f].priority \in 1 .. Len(FeedOrder)

LEMMA PromotingUnfolds ==
  ASSUME NEW rows, Cardinality(rows) \in Nat, NEW tx, NEW creates
  PROVE  \E g : /\ g[0] = [tx |-> tx, left |-> rows]
                /\ \A n \in 1 .. Cardinality(rows) : g[n] = Advanced(g[n - 1], creates)
                /\ Promoted(tx, rows, creates) = g[Cardinality(rows)].tx
<1> DEFINE N == Cardinality(rows)
           Is(g, m) == g = [n \in 0 .. m |-> IF n = 0 THEN [tx |-> tx, left |-> rows] ELSE Advanced(g[n - 1], creates)]
           B == {m \in 0 .. N : ~\E g : Is(g, m)}
<1>0. N \in Nat
  OBVIOUS
<1>3. Promoted(tx, rows, creates) = (CHOOSE g : Is(g, N))[N].tx
  BY Zenon DEF Promoted, Advanced, NextOf
<1> HIDE DEF N
<1>1. \E g : Is(g, N)
  <2> SUFFICES ASSUME ~\E g : Is(g, N) PROVE FALSE
    OBVIOUS
  <2>1. B \in SUBSET Nat /\ B # {}
    <3>1. N \in 0 .. N
      BY <1>0
    <3> HIDE DEF Is
    <3>2. B \subseteq 0 .. N /\ N \in B
      BY <3>1
    <3> HIDE DEF B
    <3> QED
      BY <3>2
  <2>2. PICK m \in B : \A k \in B : m <= k
    <3> HIDE DEF B
    <3> QED BY <2>1, LeastNatural
  <2>3. m \in 0 .. N /\ (~\E g : Is(g, m)) /\ \A k \in 0 .. N : (~\E g : Is(g, k)) => m <= k
    <3> HIDE DEF Is
    <3> QED BY <2>2
  <2>4. CASE m = 0
    <3> DEFINE h == [n \in 0 .. 0 |-> [tx |-> tx, left |-> rows]]
    <3>1. h = [n \in 0 .. 0 |-> IF n = 0 THEN [tx |-> tx, left |-> rows] ELSE Advanced(h[n - 1], creates)]
      OBVIOUS
    <3>2. Is(h, 0)
      BY <3>1
    <3> HIDE DEF Is, h
    <3> QED
      BY <2>3, <2>4, <3>2
  <2>5. CASE m # 0
    <3>1. m - 1 \in 0 .. N /\ m \in Nat /\ ~(m <= m - 1)
      BY <1>0, <2>3, <2>5
    <3>2. \E g : Is(g, m - 1)
      <4> HIDE DEF Is
      <4> QED BY <2>3, <3>1
    <3>3. PICK g : Is(g, m - 1)
      BY <3>2
    <3> DEFINE h == [n \in 0 .. m |-> IF n = m THEN Advanced(g[m - 1], creates) ELSE g[n]]
    <3>4. /\ DOMAIN g = 0 .. (m - 1) /\ g[0] = [tx |-> tx, left |-> rows]
          /\ \A n \in 0 .. (m - 1) : n # 0 => g[n] = Advanced(g[n - 1], creates)
      BY <2>5, <3>1, <3>3
    <3>5. \A n \in 0 .. m : h[n] = IF n = 0 THEN [tx |-> tx, left |-> rows] ELSE Advanced(h[n - 1], creates)
      <4> TAKE n \in 0 .. m
      <4>1. CASE n = m
        <5>1. h[n - 1] = g[m - 1] /\ h[n] = Advanced(g[m - 1], creates) /\ n # 0
          BY <2>5, <3>1, <4>1
        <5> HIDE DEF h
        <5> QED
          BY <4>1, <5>1
      <4>2. CASE n # m /\ n # 0
        <5>1. h[n] = g[n] /\ n - 1 \in 0 .. m /\ n - 1 # m /\ n \in 0 .. (m - 1)
          BY <3>1, <4>2
        <5>2. h[n - 1] = g[n - 1]
          BY <5>1
        <5> HIDE DEF h
        <5> QED
          BY <3>4, <4>2, <5>1, <5>2
      <4>3. CASE n = 0
        BY <2>5, <3>4, <4>3
      <4> QED
        BY <4>1, <4>2, <4>3
    <3>6. DOMAIN h = 0 .. m /\ h = [n \in 0 .. m |-> h[n]]
      OBVIOUS
    <3> HIDE DEF h
    <3>7. Is(h, m)
      BY <3>5, <3>6
    <3> HIDE DEF Is
    <3> QED
      BY <2>3, <3>7
  <2> QED
    BY <2>4, <2>5
<1>2. Is(CHOOSE g : Is(g, N), N)
  <2> HIDE DEF Is
  <2> QED BY <1>1, Zenon
<1> DEFINE g == CHOOSE g : Is(g, N)
<1>4. Is(g, N)
  BY <1>2
<1>5. Promoted(tx, rows, creates) = g[N].tx
  BY <1>3
<1> HIDE DEF g
<1>6. g[0] = [tx |-> tx, left |-> rows] /\ \A n \in 1 .. N : g[n] = Advanced(g[n - 1], creates)
  BY <1>0, <1>4
<1> QED
  BY <1>5, <1>6 DEF N

LEMMA FeedsFinite == IsFiniteSet(Feeds) /\ IsFiniteSet(Rows) /\ Len(FeedOrder) \in Nat /\ FeedOrder \in [1 .. Len(FeedOrder) -> Feeds]
<1>1. FeedOrder \in Seq(Feeds)
  BY AssetSourcesAssumption
<1>2. Len(FeedOrder) \in Nat /\ DOMAIN FeedOrder = 1 .. Len(FeedOrder) /\ FeedOrder \in [1 .. Len(FeedOrder) -> Feeds]
  BY <1>1, LenProperties
<1>3. IsFiniteSet(1 .. Len(FeedOrder))
  BY <1>2, FS_Interval
<1>4. FeedOrder \in Surjection(1 .. Len(FeedOrder), Feeds)
  BY <1>2 DEF Surjection, Feeds
<1>5. IsFiniteSet(Feeds)
  BY <1>3, <1>4, FS_Surjection
<1> QED
  BY <1>2, <1>5, FS_Product, AssetSourcesAssumption DEF Rows

\* The next one is of the highest number.
LEMMA Highest ==
  ASSUME Configured, NEW left \in SUBSET Rows, left # {}
  PROVE  NextOf(left) \in left /\ \A q \in left : Pr(NextOf(left)) >= Pr(q)
<1> DEFINE S == {Len(FeedOrder) - Pr(q) : q \in left}
<1>1. \A q \in left : Pr(q) \in 1 .. Len(FeedOrder)
  BY RowNumbers DEF Configured, Pr
<1>2. Len(FeedOrder) \in Nat
  BY FeedsFinite
<1>3. S \in SUBSET Nat /\ S # {}
  BY <1>1, <1>2
<1>4. PICK m \in S : \A k \in S : m <= k
  <2> HIDE DEF S
  <2> QED BY <1>3, LeastNatural
<1>5. PICK r \in left : m = Len(FeedOrder) - Pr(r)
  BY <1>4
<1>6. \A q \in left : Pr(r) >= Pr(q)
  <2> TAKE q \in left
  <2>1. Len(FeedOrder) - Pr(q) \in S
    OBVIOUS
  <2>2. m <= Len(FeedOrder) - Pr(q)
    BY <1>4, <2>1
  <2> QED
    BY <1>1, <1>2, <1>5, <2>2
<1>7. \E x \in left : \A q \in left : source[x[1]].priority >= source[q[1]].priority
  BY <1>5, <1>6 DEF Pr
<1> QED
  BY <1>7 DEF NextOf, Pr

\* The rows among D whose site an asset should have.
Among(tx, D, i) ==
  {r \in D : tx.st[r].asset = i /\ tx.st[r].status # "ignored" /\ tx.st[r].site # Nothing /\ tx.st[r].host # Nothing}

Decided(tx, D, i) ==
  Among(tx, D, i) # {} =>
    \E best \in Among(tx, D, i) : tx.reg[i].site = tx.st[best].site /\ \A r \in Among(tx, D, i) : Pr(best) <= Pr(r)

\* A promotion that has copied some rows, and has others left.
Promoting(tx, left, rows, creates, st, reg) ==
  /\ Handy(tx) /\ tx.kind = "promotion" /\ tx.old = st /\ tx.oldReg = reg /\ left \subseteq rows /\ rows \subseteq Rows
  /\ \A r \in Rows : tx.st[r].exists = st[r].exists /\ tx.st[r].absent = st[r].absent
  /\ \A i \in AssetIds : reg[i].exists => tx.reg[i].exists
  /\ NamesFit(tx, rows \ left)
  /\ \A q \in left, r \in rows \ left : Pr(q) <= Pr(r)
  /\ \A i \in AssetIds : Decided(tx, rows \ left, i)
  /\ creates => Cardinality(Spare(tx.reg)) >= Cardinality(left)

LEMMA Decides ==
  ASSUME NEW tx, NEW t, NEW D \in SUBSET Rows, NEW r \in Rows \ D, NEW creates, Put(t, tx, r, creates),
         NEW i \in AssetIds, Decided(tx, D, i), \A q \in D : Pr(r) <= Pr(q), Pr(r) <= Pr(r)
  PROVE  Decided(t, D \cup {r}, i)
<1> DEFINE A == Among(tx, D, i)
           Z == Among(t, D \cup {r}, i)
<1>0. i # NoAsset
  BY AssetsNumbered
<1>1. \A q \in D : t.st[q] = tx.st[q]
  BY DEF Put
<1>2. \A q : q \in A <=> q \in D /\ tx.st[q].asset = i /\ tx.st[q].status # "ignored" /\ tx.st[q].site # Nothing /\ tx.st[q].host # Nothing
  BY DEF Among
<1>3. \A q : q \in Z <=> q \in D \cup {r} /\ t.st[q].asset = i /\ t.st[q].status # "ignored" /\ t.st[q].site # Nothing /\ t.st[q].host # Nothing
  BY DEF Among
<1>4. Decided(tx, D, i) <=> (A # {} => \E best \in A : tx.reg[i].site = tx.st[best].site /\ \A q \in A : Pr(best) <= Pr(q))
  BY DEF Decided
<1>5. Decided(t, D \cup {r}, i) <=> (Z # {} => \E best \in Z : t.reg[i].site = t.st[best].site /\ \A q \in Z : Pr(best) <= Pr(q))
  BY DEF Decided
<1> HIDE DEF A, Z
<1>6. A \subseteq D /\ Z \ {r} = A
  BY <1>1, <1>2, <1>3
<1>7. ASSUME r \notin Z, t.reg[i].site = tx.reg[i].site PROVE Decided(t, D \cup {r}, i)
  <2>1. Z = A
    BY <1>6, <1>7
  <2>2. \A q \in A : t.st[q].site = tx.st[q].site
    BY <1>1, <1>6
  <2> QED
    BY <1>4, <1>5, <1>7, <2>1, <2>2
<1>8. CASE ~Promotes(tx.st[r], creates)
  <2>1. t = tx
    BY <1>8 DEF Put
  <2>2. r \notin Z
    BY <1>0, <1>3, <1>8, <2>1 DEF Promotes
  <2> QED
    BY <1>7, <2>1, <2>2
<1>9. CASE Promotes(tx.st[r], creates)
  <2>1. PICK c \in AssetIds : Copied(t, tx, r, c)
    BY <1>9 DEF Put
  <2>2. t.st[r].asset = c /\ t.reg[c].site = Or(tx.st[r].site, tx.reg[c].site) /\ \A j \in AssetIds \ {c} : t.reg[j] = tx.reg[j]
    BY <2>1 DEF Copied
  <2>3. t.st[r].site = tx.st[r].site
    BY DEF Put, Alike
  <2>4. CASE i # c
    <3>1. r \notin Z
      BY <1>3, <2>2, <2>4
    <3>2. t.reg[i].site = tx.reg[i].site
      BY <2>2, <2>4
    <3> QED
      BY <1>7, <3>1, <3>2
  <2>5. CASE i = c /\ tx.st[r].site = Nothing
    <3>1. r \notin Z
      BY <1>3, <2>3, <2>5
    <3>2. t.reg[i].site = tx.reg[i].site
      BY <2>2, <2>5 DEF Or
    <3> QED
      BY <1>7, <3>1, <3>2
  <2>6. CASE i = c /\ tx.st[r].site # Nothing
    <3>1. t.reg[i].site = t.st[r].site
      BY <2>2, <2>3, <2>6 DEF Or
    <3>2. r \in Z
      <4>1. t.st[r].host = tx.st[r].host /\ (t.st[r].status = "ignored" <=> tx.st[r].status = "ignored")
        BY DEF Put, Alike
      <4> QED
        BY <1>3, <1>9, <2>2, <2>3, <2>6, <4>1 DEF Promotes
    <3>3. \A q \in Z : Pr(r) <= Pr(q)
      BY <1>6
    <3> QED
      BY <1>5, <3>1, <3>2, <3>3
  <2> QED
    BY <2>4, <2>5, <2>6
<1> QED
  BY <1>8, <1>9

LEMMA PromoteStep ==
  ASSUME Configured, NEW tx, NEW left, NEW rows, NEW creates, NEW st, NEW reg,
         Promoting(tx, left, rows, creates, st, reg), left # {},
         NEW t, t = PromoteRecord(tx, NextOf(left), creates)
  PROVE  Promoting(t, left \ {NextOf(left)}, rows, creates, st, reg)
<1> PICK r : r = NextOf(left)
  OBVIOUS
<1>1. Handy(tx) /\ tx.kind = "promotion" /\ tx.old = st /\ tx.oldReg = reg /\ left \subseteq rows /\ rows \subseteq Rows
  BY DEF Promoting
<1>2. left \in SUBSET Rows
  BY <1>1
<1>3. r \in left /\ \A q \in left : Pr(r) >= Pr(q)
  BY <1>2, Highest
<1>4. r \in Rows /\ \A q \in rows : Pr(q) \in Int
  BY <1>1, <1>3, RowNumbers DEF Configured, Pr
<1>5. /\ IsFiniteSet(left) /\ Cardinality(left) \in Nat /\ Cardinality(left) # 0 /\ Cardinality(left \ {r}) = Cardinality(left) - 1
  <2>1. IsFiniteSet(left)
    BY <1>2, FeedsFinite, FS_Subset
  <2> QED
    BY <1>3, <2>1, FS_CardinalityType, FS_EmptySet, FS_RemoveElement
<1>6. Promotes(tx.st[r], creates) /\ tx.st[r].asset = NoAsset => Spare(tx.reg) # {}
  <2> SUFFICES ASSUME creates, Spare(tx.reg) = {} PROVE FALSE
    BY DEF Promotes
  <2>1. Cardinality(Spare(tx.reg)) >= Cardinality(left)
    BY DEF Promoting
  <2>2. Cardinality(Spare(tx.reg)) = 0
    BY FS_EmptySet
  <2> QED
    BY ONLY <1>5, <2>1, <2>2
<1>7. t = PromoteRecord(tx, r, creates)
  OBVIOUS
<1>8. /\ Put(t, tx, r, creates) /\ Handy(t)
      /\ \A i \in AssetIds : tx.reg[i].exists => t.reg[i].exists
  BY ONLY <1>1, <1>4, <1>6, <1>7, PromotionPuts
<1>9. \E x : Spare(tx.reg) \ {x} \subseteq Spare(t.reg)
  BY ONLY <1>1, <1>4, <1>6, <1>7, PromotionPuts
<1> DEFINE D == rows \ left
           E == rows \ (left \ {r})
<1>10. D \in SUBSET Rows /\ r \in Rows \ D /\ E = D \cup {r}
  BY <1>1, <1>3
<1>11. NamesFit(tx, D) /\ (\A q \in left, d \in D : Pr(q) <= Pr(d)) /\ \A i \in AssetIds : Decided(tx, D, i)
  BY DEF Promoting
<1> HIDE DEF D, E
<1>12. NamesFit(t, E)
  <2>1. LinksFit(tx.st, tx.reg)
    BY <1>1 DEF Handy
  <2>2. NamesFit(t, D \cup {r})
    BY ONLY <1>8, <1>10, <1>11, <2>1, NamesPut
  <2> QED
    BY <1>10, <2>2
<1>13. \A i \in AssetIds : Decided(t, E, i)
  <2> TAKE i \in AssetIds
  <2>1. (\A q \in D : Pr(r) <= Pr(q)) /\ Pr(r) <= Pr(r)
    BY <1>1, <1>3, <1>4, <1>11
  <2>2. Decided(tx, D, i) /\ i \in AssetIds
    BY <1>11
  <2>3. Decided(t, D \cup {r}, i)
    BY ONLY <1>8, <1>10, <2>1, <2>2, Decides
  <2> QED
    BY <1>10, <2>3
<1>14. \A q \in left \ {r}, d \in E : Pr(q) <= Pr(d)
  BY <1>1, <1>3, <1>4, <1>10, <1>11
<1>15. \A q \in Rows : t.st[q].exists = st[q].exists /\ t.st[q].absent = st[q].absent
  <2> SUFFICES ASSUME NEW q \in Rows PROVE t.st[q].exists = st[q].exists /\ t.st[q].absent = st[q].absent
    OBVIOUS
  <2>1. tx.st[q].exists = st[q].exists /\ tx.st[q].absent = st[q].absent
    BY DEF Promoting
  <2>2. t.st[q].exists = tx.st[q].exists /\ t.st[q].absent = tx.st[q].absent
    BY <1>8 DEF Put, Alike
  <2> QED
    BY <2>1, <2>2
<1>16. /\ t.kind = "promotion" /\ t.old = st /\ t.oldReg = reg
       /\ \A i \in AssetIds : reg[i].exists => t.reg[i].exists
  <2>1. \A i \in AssetIds : reg[i].exists => tx.reg[i].exists
    BY DEF Promoting
  <2> QED
    BY <1>1, <1>8, <2>1 DEF Put, Besides
<1>17. creates => Cardinality(Spare(t.reg)) >= Cardinality(left \ {r})
  <2> SUFFICES ASSUME creates PROVE Cardinality(Spare(t.reg)) >= Cardinality(left \ {r})
    OBVIOUS
  <2> PICK n \in Nat : n = Cardinality(left) - 1
    BY <1>5
  <2>0. n \in Nat
    OBVIOUS
  <2>1. Cardinality(Spare(tx.reg)) >= n + 1
    BY <1>5 DEF Promoting
  <2>2. Cardinality(Spare(t.reg)) >= n
    BY ONLY <1>9, <2>0, <2>1, OneSpareLess
  <2> QED
    BY <1>5, <2>2
<1>18. left \ {r} \subseteq rows
  BY <1>1
<1>19. Promoting(t, left \ {r}, rows, creates, st, reg)
  BY <1>1, <1>8, <1>12, <1>13, <1>14, <1>15, <1>16, <1>17, <1>18 DEF Promoting, E
<1> QED
  BY <1>19

LEMMA PromotedWhole ==
  ASSUME Configured, NEW st, NEW reg, TableFits(st), EstateFits(reg), LinksFit(st, reg),
         NEW rows \in SUBSET Rows, NEW creates, creates => Cardinality(Spare(reg)) >= Cardinality(rows),
         NEW t, t = Promoted(Begun("promotion", st, reg), rows, creates)
  PROVE  Promoting(t, {}, rows, creates, st, reg)
<1> PICK b : b = Begun("promotion", st, reg)
  OBVIOUS
<1> PICK N : N = Cardinality(rows)
  OBVIOUS
<1> DEFINE Fits(s, n) ==
             /\ IsFiniteSet(s.left) /\ Cardinality(s.left) = N - n
             /\ Promoting(s.tx, s.left, rows, creates, st, reg)
<1>0. IsFiniteSet(rows) /\ N \in Nat
  <2>1. IsFiniteSet(rows)
    BY FeedsFinite, FS_Subset
  <2> QED
    BY <2>1, FS_CardinalityType
<1>1. PICK g : /\ g[0] = [tx |-> b, left |-> rows]
               /\ \A n \in 1 .. Cardinality(rows) : g[n] = Advanced(g[n - 1], creates)
               /\ Promoted(b, rows, creates) = g[Cardinality(rows)].tx
  <2>1. Cardinality(rows) \in Nat
    BY <1>0
  <2> HIDE DEF Fits
  <2> QED
    BY ONLY <2>1, PromotingUnfolds
<1>2. t = g[N].tx
  BY <1>1
<1>3. Promoting(b, rows, rows, creates, st, reg)
  <2>1. /\ DOMAIN b = TxColumns /\ b.kind = "promotion" /\ b.st = st /\ b.reg = reg /\ b.old = st /\ b.oldReg = reg
    BY DEF Begun, TxColumns
  <2>2. rows \ rows = {}
    OBVIOUS
  <2>3. NamesFit(b, {})
    BY <2>1 DEF NamesFit, NamedByRows, Live
  <2>4. Handy(b)
    BY <2>1 DEF Handy
  <2>5. \A i \in AssetIds : Decided(b, {}, i)
    BY DEF Decided, Among
  <2>6. /\ NamesFit(b, rows \ rows) /\ (\A i \in AssetIds : Decided(b, rows \ rows, i))
        /\ \A q \in rows, r \in rows \ rows : Pr(q) <= Pr(r)
    BY <2>2, <2>3, <2>5
  <2>7. /\ \A r \in Rows : b.st[r].exists = st[r].exists /\ b.st[r].absent = st[r].absent
        /\ \A i \in AssetIds : reg[i].exists => b.reg[i].exists
        /\ creates => Cardinality(Spare(b.reg)) >= Cardinality(rows)
    BY <2>1
  <2> QED
    BY <2>1, <2>4, <2>6, <2>7 DEF Promoting
<1>4. Fits(g[0], 0)
  <2>1. g[0].tx = b /\ g[0].left = rows
    BY <1>1
  <2> QED
    BY <1>0, <1>3, <2>1
<1> DEFINE B == {n \in 0 .. N : ~Fits(g[n], n)}
<1>5. SUFFICES ASSUME B # {} PROVE FALSE
  <2>1. N \in 0 .. N
    BY <1>0
  <2>2. B = {} => Fits(g[N], N)
    <3> HIDE DEF Fits
    <3> QED BY <2>1
  <2>3. Fits(g[N], N) => g[N].left = {}
    BY <1>0, FS_EmptySet
  <2>4. Fits(g[N], N) => Promoting(g[N].tx, g[N].left, rows, creates, st, reg)
    OBVIOUS
  <2> HIDE DEF B, Fits
  <2> QED
    BY <1>2, <2>2, <2>3, <2>4
<1>6. PICK m \in B : \A k \in B : m <= k
  <2>1. B \in SUBSET Nat
    BY <1>0
  <2> HIDE DEF B
  <2> QED
    BY <1>5, <2>1, LeastNatural
<1>7. m \in 0 .. N /\ ~Fits(g[m], m) /\ \A k \in 0 .. N : ~Fits(g[k], k) => m <= k
  <2> HIDE DEF Fits
  <2> QED BY <1>6
<1>8. m # 0
  <2> HIDE DEF Fits
  <2> QED BY <1>4, <1>7
<1>9. m - 1 \in 0 .. N /\ m \in 1 .. N /\ ~(m <= m - 1) /\ N - m \in Nat /\ N - (m - 1) = N - m + 1
  BY <1>0, <1>7, <1>8
<1> PICK s : s = g[m - 1]
  OBVIOUS
<1>10. IsFiniteSet(s.left) /\ Cardinality(s.left) = N - m + 1 /\ Promoting(s.tx, s.left, rows, creates, st, reg)
  <2>1. Fits(g[m - 1], m - 1)
    <3> HIDE DEF Fits
    <3> QED BY <1>7, <1>9
  <2> QED
    BY <1>9, <2>1
<1>11. s.left # {} /\ s.left \in SUBSET Rows
  <2>1. Cardinality({}) = 0
    BY FS_EmptySet
  <2>2. s.left # {}
    BY <1>9, <1>10, <2>1
  <2>3. s.left \subseteq rows
    BY <1>10 DEF Promoting
  <2> QED
    BY <2>2, <2>3
<1> PICK r : r = NextOf(s.left)
  OBVIOUS
<1>12. g[m] = [tx |-> PromoteRecord(s.tx, r, creates), left |-> s.left \ {r}]
  BY <1>1, <1>9 DEF Advanced
<1>13. g[m].tx = PromoteRecord(s.tx, r, creates) /\ g[m].left = s.left \ {r}
  BY <1>12
<1>14. Promoting(g[m].tx, s.left \ {r}, rows, creates, st, reg)
  BY <1>10, <1>11, <1>13, PromoteStep
<1>15. r \in s.left
  BY <1>11, Highest
<1>16. IsFiniteSet(s.left \ {r}) /\ Cardinality(s.left \ {r}) = N - m
  <2>1. IsFiniteSet(s.left \ {r}) /\ Cardinality(s.left \ {r}) = Cardinality(s.left) - 1
    BY <1>10, <1>15, FS_RemoveElement
  <2>2. (N - m + 1) - 1 = N - m
    BY <1>9
  <2> QED
    BY ONLY <1>10, <2>1, <2>2
<1>17. Fits(g[m], m)
  BY <1>13, <1>14, <1>16
<1> QED
  BY <1>7, <1>17

(* The invariant. *)

DecidedBy(src, tx, D, i) ==
  Among(tx, D, i) # {} =>
    \E best \in Among(tx, D, i) :
      /\ tx.reg[i].site = tx.st[best].site
      /\ \A r \in Among(tx, D, i) : src[best[1]].priority <= src[r[1]].priority

\* A reading under way, and what is committed meanwhile.
ReadFits(tx, f, st, reg, there) ==
  /\ ReadOf(tx, f)
  /\ \A i \in AssetIds : tx.oldReg[i].exists => reg[i].exists
  /\ there => \A r \in Rows : r[1] = f => tx.old[r].absent = st[r].absent /\ tx.old[r].exists = st[r].exists

\* A promotion under way.
PromotionFits(tx, reg, src) ==
  /\ Handy(tx) /\ tx.kind = "promotion" /\ TableFits(tx.old) /\ EstateFits(tx.oldReg) /\ tx.rows \subseteq Rows
  /\ \A r \in Rows : tx.st[r].exists = tx.old[r].exists /\ tx.st[r].absent = tx.old[r].absent
  /\ \A i \in AssetIds : tx.oldReg[i].exists => tx.reg[i].exists /\ reg[i].exists
  /\ NamesFit(tx, tx.rows)
  /\ \A i \in AssetIds : DecidedBy(src, tx, tx.rows, i)

\* What is committed.
CommittedFits(src, st, reg, out) ==
  /\ DOMAIN src = Feeds /\ \A f \in Feeds : DOMAIN src[f] = SourceColumns /\ src[f].priority \in 1 .. Len(FeedOrder)
  /\ TableFits(st) /\ EstateFits(reg) /\ LinksFit(st, reg)
  /\ out \subseteq Rows /\ \A r \in Rows : st[r].absent <=> r \in out
  /\ \A r \in Rows : st[r].exists => src[r[1]].exists

SourcesInv ==
  /\ CommittedFits(source, staged, register, unlisted) /\ turns \in 0 .. MaxTurns
  /\ DOMAIN work = Feeds \cup {"operator"}
  /\ \A f \in Feeds : work[f].kind # "none" => ReadFits(work[f], f, staged, register, source[f].exists)
  /\ work["operator"].kind # "none" => PromotionFits(work["operator"], register, source)

\* What others commit does not disturb what is under way.
LEMMA ReadingStays ==
  ASSUME NEW tx, NEW f, NEW st, NEW reg, NEW there, ReadFits(tx, f, st, reg, there),
         NEW st2, NEW reg2, NEW there2, \A i \in AssetIds : reg[i].exists => reg2[i].exists,
         there2 => there,
         there2 => \A r \in Rows : r[1] = f => st2[r].absent = st[r].absent /\ st2[r].exists = st[r].exists
  PROVE  ReadFits(tx, f, st2, reg2, there2)
<1>1. \A i \in AssetIds : tx.oldReg[i].exists => reg2[i].exists
  BY DEF ReadFits
<1>2. there2 => \A r \in Rows : r[1] = f => tx.old[r].absent = st2[r].absent /\ tx.old[r].exists = st2[r].exists
  BY DEF ReadFits
<1> QED
  BY <1>1, <1>2 DEF ReadFits

LEMMA PromotionStays ==
  ASSUME NEW tx, NEW reg, NEW src, PromotionFits(tx, reg, src), NEW reg2, NEW src2,
         \A i \in AssetIds : reg[i].exists => reg2[i].exists,
         \A f \in Feeds : src2[f].priority = src[f].priority
  PROVE  PromotionFits(tx, reg2, src2)
<1>1. \A i \in AssetIds : DecidedBy(src2, tx, tx.rows, i)
  <2> TAKE i \in AssetIds
  <2> PICK A : A = Among(tx, tx.rows, i)
    OBVIOUS
  <2>1. A \subseteq Rows
    BY DEF PromotionFits, Among
  <2>2. \A r \in A : src2[r[1]].priority = src[r[1]].priority
    BY <2>1, RowNumbers
  <2>3. A # {} => \E best \in A : tx.reg[i].site = tx.st[best].site /\ \A r \in A : src[best[1]].priority <= src[r[1]].priority
    BY DEF PromotionFits, DecidedBy
  <2>4. A # {} => \E best \in A : tx.reg[i].site = tx.st[best].site /\ \A r \in A : src2[best[1]].priority <= src2[r[1]].priority
    BY <2>2, <2>3
  <2> QED
    BY <2>4 DEF DecidedBy
<1>2. \A i \in AssetIds : tx.oldReg[i].exists => tx.reg[i].exists /\ reg2[i].exists
  BY DEF PromotionFits
<1> QED
  BY <1>1, <1>2 DEF PromotionFits

(* A commit. *)

LEMMA MergedRow ==
  ASSUME NEW r, NEW was, NEW new, NEW now, RowFits(r, was), RowFits(r, new), RowFits(r, now),
         NEW m, m = Merged(was, new, now)
  PROVE  /\ RowFits(r, m) /\ m.asset \in {new.asset, now.asset}
         /\ m.exists = IF new.exists # was.exists THEN new.exists ELSE now.exists
         /\ m.absent = IF new.absent # was.absent THEN new.absent ELSE now.absent
<1>1. DOMAIN now = RowColumns
  BY DEF RowFits
<1>2. DOMAIN m = RowColumns /\ \A c \in RowColumns : m[c] = IF new[c] # was[c] THEN new[c] ELSE now[c]
  BY <1>1 DEF Merged
<1>3. {"exists", "host", "serial", "site", "absent", "status", "asset"} \subseteq RowColumns
  BY DEF RowColumns
<1>4. /\ m.exists = (IF new.exists # was.exists THEN new.exists ELSE now.exists)
      /\ m.absent = (IF new.absent # was.absent THEN new.absent ELSE now.absent)
      /\ m.asset \in {new.asset, now.asset} /\ m.host \in {new.host, now.host} /\ m.serial \in {new.serial, now.serial}
      /\ m.site \in {new.site, now.site} /\ m.status \in {new.status, now.status}
  BY <1>2, <1>3
<1>5. RowFits(r, m)
  BY <1>2, <1>4 DEF RowFits
<1> QED
  BY <1>4, <1>5

LEMMA MergedAsset ==
  ASSUME NEW was, NEW new, NEW now, AssetFits(was), AssetFits(new), AssetFits(now),
         was.exists => new.exists /\ now.exists, NEW m, m = Merged(was, new, now)
  PROVE  AssetFits(m) /\ (m.exists <=> new.exists \/ now.exists)
<1>1. DOMAIN now = {"exists", "deleted", "host", "serial", "site", "slugs"}
  BY DEF AssetFits
<1>2. DOMAIN m = DOMAIN now /\ \A c \in DOMAIN now : m[c] = IF new[c] # was[c] THEN new[c] ELSE now[c]
  BY DEF Merged
<1>3. /\ m.exists = (IF new.exists # was.exists THEN new.exists ELSE now.exists)
      /\ m.site \in {new.site, now.site} /\ m.slugs \in {new.slugs, now.slugs}
  BY <1>1, <1>2
<1>4. was.exists \in BOOLEAN /\ new.exists \in BOOLEAN /\ now.exists \in BOOLEAN
  BY DEF AssetFits
<1>5. m.exists \in BOOLEAN /\ (m.exists <=> new.exists \/ now.exists)
  BY <1>3, <1>4
<1>6. AssetFits(m)
  BY <1>1, <1>2, <1>3, <1>5 DEF AssetFits
<1> QED
  BY <1>5, <1>6

\* What a commit leaves.
LEMMA Commits ==
  ASSUME NEW tx, Handy(tx), TableFits(tx.old), EstateFits(tx.oldReg), NEW st, NEW reg,
         TableFits(st), EstateFits(reg), LinksFit(st, reg),
         \A i \in AssetIds : tx.oldReg[i].exists => tx.reg[i].exists /\ reg[i].exists,
         NEW st2, st2 = [r \in Rows |-> Merged(tx.old[r], tx.st[r], st[r])],
         NEW reg2, reg2 = [i \in AssetIds |-> Merged(tx.oldReg[i], tx.reg[i], reg[i])]
  PROVE  /\ TableFits(st2) /\ EstateFits(reg2) /\ LinksFit(st2, reg2)
         /\ \A i \in AssetIds : reg[i].exists => reg2[i].exists
         /\ \A r \in Rows :
              /\ st2[r].exists = IF tx.st[r].exists # tx.old[r].exists THEN tx.st[r].exists ELSE st[r].exists
              /\ st2[r].absent = IF tx.st[r].absent # tx.old[r].absent THEN tx.st[r].absent ELSE st[r].absent
<1>1. ASSUME NEW r \in Rows
      PROVE  /\ RowFits(r, st2[r]) /\ st2[r].asset \in {tx.st[r].asset, st[r].asset}
             /\ st2[r].exists = IF tx.st[r].exists # tx.old[r].exists THEN tx.st[r].exists ELSE st[r].exists
             /\ st2[r].absent = IF tx.st[r].absent # tx.old[r].absent THEN tx.st[r].absent ELSE st[r].absent
  <2>1. RowFits(r, tx.old[r]) /\ RowFits(r, tx.st[r]) /\ RowFits(r, st[r])
    BY DEF Handy, TableFits
  <2>2. st2[r] = Merged(tx.old[r], tx.st[r], st[r])
    OBVIOUS
  <2> QED
    BY ONLY <2>1, <2>2, MergedRow
<1>2. ASSUME NEW i \in AssetIds
      PROVE  AssetFits(reg2[i]) /\ (reg2[i].exists <=> tx.reg[i].exists \/ reg[i].exists)
  <2>1. AssetFits(tx.oldReg[i]) /\ AssetFits(tx.reg[i]) /\ AssetFits(reg[i])
    BY DEF Handy, EstateFits
  <2>2. reg2[i] = Merged(tx.oldReg[i], tx.reg[i], reg[i])
    OBVIOUS
  <2>3. tx.oldReg[i].exists => tx.reg[i].exists /\ reg[i].exists
    OBVIOUS
  <2> QED
    BY ONLY <2>1, <2>2, <2>3, MergedAsset
<1>3. TableFits(st2) /\ EstateFits(reg2)
  BY <1>1, <1>2 DEF TableFits, EstateFits
<1>4. LinksFit(st2, reg2)
  <2> SUFFICES ASSUME NEW r \in Rows, st2[r].asset # NoAsset PROVE reg2[st2[r].asset].exists
    BY DEF LinksFit
  <2> PICK a : a = st2[r].asset
    OBVIOUS
  <2>1. a \in AssetIds
    BY <1>3 DEF TableFits, RowFits
  <2>2. a = tx.st[r].asset => tx.reg[a].exists
    BY DEF Handy, LinksFit
  <2>3. a = st[r].asset => reg[a].exists
    BY DEF LinksFit
  <2>4. a \in {tx.st[r].asset, st[r].asset}
    BY <1>1
  <2> QED
    BY <1>2, <2>1, <2>2, <2>3, <2>4
<1> QED
  BY <1>1, <1>2, <1>3, <1>4

(* The steps. *)

LEMMA SourceSet ==
  ASSUME NEW src, DOMAIN src = Feeds,
         \A f \in Feeds : DOMAIN src[f] = SourceColumns /\ src[f].priority \in 1 .. Len(FeedOrder),
         NEW f \in Feeds, NEW flag \in SourceColumns \ {"priority"}, NEW v,
         NEW new, new = [src EXCEPT ![f][flag] = v]
  PROVE  /\ DOMAIN new = Feeds
         /\ \A g \in Feeds : DOMAIN new[g] = SourceColumns /\ new[g].priority \in 1 .. Len(FeedOrder)
         /\ \A g \in Feeds : new[g].priority = src[g].priority
         /\ \A g \in Feeds \ {f} : new[g] = src[g]
         /\ flag # "exists" => new[f].exists = src[f].exists
<1> PICK s : s = src[f]
  OBVIOUS
<1> PICK z : z = [s EXCEPT ![flag] = v]
  OBVIOUS
<1>1. new[f] = z /\ DOMAIN new = Feeds /\ \A g \in Feeds \ {f} : new[g] = src[g]
  OBVIOUS
<1>2. {"priority", "exists"} \subseteq DOMAIN s /\ DOMAIN s = SourceColumns
  BY DEF SourceColumns
<1>3. DOMAIN z = SourceColumns /\ z.priority = s.priority /\ (flag # "exists" => z.exists = s.exists)
  BY <1>2
<1> QED
  BY <1>1, <1>3

\* What of the sources matters: they keep their place, and none comes back.
LEMMA SourcesStay ==
  ASSUME SourcesInv, staged' = staged, register' = register, unlisted' = unlisted, work' = work, turns' \in 0 .. MaxTurns,
         DOMAIN source' = Feeds,
         \A f \in Feeds : DOMAIN source'[f] = SourceColumns /\ source'[f].priority \in 1 .. Len(FeedOrder),
         \A f \in Feeds : source'[f].priority = source[f].priority,
         \A f \in Feeds : source'[f].exists = source[f].exists
  PROVE  SourcesInv'
<1>1. CommittedFits(source', staged', register', unlisted')
  <2>1. CommittedFits(source, staged, register, unlisted)
    BY DEF SourcesInv
  <2>2. \A r \in Rows : staged[r].exists => source'[r[1]].exists
    BY <2>1, RowNumbers DEF CommittedFits
  <2> QED
    BY <2>1, <2>2 DEF CommittedFits
<1>2. \A f \in Feeds : work'[f].kind # "none" => ReadFits(work'[f], f, staged', register', source'[f].exists)
  BY DEF SourcesInv
<1>3. work'["operator"].kind # "none" => PromotionFits(work'["operator"], register', source')
  <2> SUFFICES ASSUME work["operator"].kind # "none" PROVE PromotionFits(work["operator"], register, source')
    OBVIOUS
  <2> PICK x : x = work["operator"]
    OBVIOUS
  <2>1. PromotionFits(x, register, source)
    BY DEF SourcesInv
  <2>2. PromotionFits(x, register, source')
    BY <2>1, PromotionStays
  <2> QED
    BY <2>2
<1> QED
  BY <1>1, <1>2, <1>3 DEF SourcesInv

LEMMA TurnTaken == ASSUME turns \in 0 .. MaxTurns, Turn PROVE turns' \in 0 .. MaxTurns
BY AssetSourcesAssumption DEF Turn

LEMMA NotAFeed == "operator" \notin Feeds
BY AssetSourcesAssumption

LEMMA FailsKeeps == ASSUME SourcesInv, NEW f \in Feeds, SyncFails(f) PROVE SourcesInv'
<1>1. turns' \in 0 .. MaxTurns
  BY TurnTaken DEF SyncFails, SourcesInv
<1>2. DOMAIN source = Feeds /\ \A g \in Feeds : DOMAIN source[g] = SourceColumns /\ source[g].priority \in 1 .. Len(FeedOrder)
  BY DEF SourcesInv, CommittedFits
<1> PICK new : new = [source EXCEPT ![f]["failed"] = TRUE]
  OBVIOUS
<1>3. "failed" \in SourceColumns \ {"priority"} /\ "failed" # "exists"
  BY DEF SourceColumns
<1>4. /\ DOMAIN new = Feeds
      /\ \A g \in Feeds : DOMAIN new[g] = SourceColumns /\ new[g].priority \in 1 .. Len(FeedOrder)
      /\ \A g \in Feeds : new[g].priority = source[g].priority
      /\ \A g \in Feeds \ {f} : new[g] = source[g]
      /\ new[f].exists = source[f].exists
  BY <1>2, <1>3, SourceSet
<1>5. source' = new /\ UNCHANGED <<staged, register, work, unlisted>>
  BY DEF SyncFails
<1> QED
  BY <1>1, <1>4, <1>5, SourcesStay

LEMMA UpdateSourceKeeps == ASSUME SourcesInv, NEW f \in Feeds, UpdateSource(f) PROVE SourcesInv'
<1>1. turns' \in 0 .. MaxTurns
  BY TurnTaken DEF UpdateSource, SourcesInv
<1>2. DOMAIN source = Feeds /\ \A g \in Feeds : DOMAIN source[g] = SourceColumns /\ source[g].priority \in 1 .. Len(FeedOrder)
  BY DEF SourcesInv, CommittedFits
<1> PICK flag \in {"enabled", "auto", "creates", "narrowed"} : source' = [source EXCEPT ![f][flag] = ~@]
  BY DEF UpdateSource
<1> PICK new : new = [source EXCEPT ![f][flag] = ~source[f][flag]]
  OBVIOUS
<1>3. flag \in SourceColumns \ {"priority"} /\ flag # "exists"
  BY DEF SourceColumns
<1> PICK v : v = ~source[f][flag]
  OBVIOUS
<1>4. /\ DOMAIN new = Feeds
      /\ \A g \in Feeds : DOMAIN new[g] = SourceColumns /\ new[g].priority \in 1 .. Len(FeedOrder)
      /\ \A g \in Feeds : new[g].priority = source[g].priority
      /\ \A g \in Feeds \ {f} : new[g] = source[g]
      /\ new[f].exists = source[f].exists
  BY <1>2, <1>3, SourceSet
<1>5. source' = new /\ UNCHANGED <<staged, register, work, unlisted>>
  BY <1>2 DEF UpdateSource
<1> QED
  BY <1>1, <1>4, <1>5, SourcesStay

LEMMA DeleteSourceKeeps == ASSUME SourcesInv, NEW f \in Feeds, DeleteSource(f) PROVE SourcesInv'
<1>1. turns' \in 0 .. MaxTurns
  BY TurnTaken DEF DeleteSource, SourcesInv
<1>2. CommittedFits(source, staged, register, unlisted)
  BY DEF SourcesInv
<1>3. DOMAIN source = Feeds /\ \A g \in Feeds : DOMAIN source[g] = SourceColumns /\ source[g].priority \in 1 .. Len(FeedOrder)
  BY <1>2 DEF CommittedFits
<1> PICK new : new = [source EXCEPT ![f]["exists"] = FALSE]
  OBVIOUS
<1>4. "exists" \in SourceColumns \ {"priority"}
  BY DEF SourceColumns
<1>5. /\ DOMAIN new = Feeds
      /\ \A g \in Feeds : DOMAIN new[g] = SourceColumns /\ new[g].priority \in 1 .. Len(FeedOrder)
      /\ \A g \in Feeds : new[g].priority = source[g].priority
      /\ \A g \in Feeds \ {f} : new[g] = source[g]
  BY <1>3, <1>4, SourceSet
<1>6. source' = new /\ UNCHANGED <<register, work>>
  BY DEF DeleteSource
<1>7. ~source'[f].exists
  BY <1>3, <1>6 DEF SourceColumns
<1>8. /\ DOMAIN staged' = Rows
      /\ \A r \in Rows : r[1] # f => staged'[r] = staged[r]
      /\ \A r \in Rows : r[1] = f => staged'[r] = BlankRow
      /\ unlisted' = {r \in unlisted : r[1] # f}
  BY DEF DeleteSource
<1>9. \A r \in Rows : RowFits(r, BlankRow)
  BY DEF RowFits, BlankRow, RowColumns, Nothing, NoAsset
<1>10. ~BlankRow.absent /\ ~BlankRow.exists /\ BlankRow.asset = NoAsset
  BY DEF BlankRow
<1>11. CommittedFits(source', staged', register', unlisted')
  <2>1. TableFits(staged')
    BY <1>2, <1>8, <1>9 DEF TableFits, CommittedFits
  <2>2. LinksFit(staged', register')
    BY <1>2, <1>6, <1>8, <1>10 DEF LinksFit, CommittedFits
  <2>3. unlisted' \subseteq Rows /\ \A r \in Rows : staged'[r].absent <=> r \in unlisted'
    BY <1>2, <1>8, <1>10 DEF CommittedFits
  <2>4. \A r \in Rows : staged'[r].exists => source'[r[1]].exists
    <3> SUFFICES ASSUME NEW r \in Rows, staged'[r].exists PROVE source'[r[1]].exists
      OBVIOUS
    <3>1. r[1] # f
      BY <1>8, <1>10
    <3> QED
      BY <1>2, <1>5, <1>6, <1>8, <3>1, RowNumbers DEF CommittedFits
  <2> QED
    BY <1>2, <1>5, <1>6, <2>1, <2>2, <2>3, <2>4 DEF CommittedFits
<1>12. \A g \in Feeds : work'[g].kind # "none" => ReadFits(work'[g], g, staged', register', source'[g].exists)
  <2> SUFFICES ASSUME NEW g \in Feeds, work[g].kind # "none" PROVE ReadFits(work[g], g, staged', register, source'[g].exists)
    BY <1>6
  <2> PICK x : x = work[g]
    OBVIOUS
  <2>1. ReadFits(x, g, staged, register, source[g].exists)
    BY DEF SourcesInv
  <2>2. source'[g].exists => g # f /\ source[g].exists
    BY <1>5, <1>6, <1>7
  <2>3. source'[g].exists => \A r \in Rows : r[1] = g => staged'[r].absent = staged[r].absent /\ staged'[r].exists = staged[r].exists
    BY <1>8, <2>2
  <2>4. ReadFits(x, g, staged', register, source'[g].exists)
    BY <2>1, <2>2, <2>3, ReadingStays
  <2> QED
    BY <2>4
<1>13. work'["operator"].kind # "none" => PromotionFits(work'["operator"], register', source')
  <2> SUFFICES ASSUME work["operator"].kind # "none" PROVE PromotionFits(work["operator"], register, source')
    BY <1>6
  <2> PICK x : x = work["operator"]
    OBVIOUS
  <2>1. PromotionFits(x, register, source)
    BY DEF SourcesInv
  <2>2. PromotionFits(x, register, source')
    BY <1>5, <1>6, <2>1, PromotionStays
  <2> QED
    BY <2>2
<1> QED
  BY <1>1, <1>6, <1>11, <1>12, <1>13 DEF SourcesInv

\* A change to the rows and to the assets that leaves what is listed and what there is.
LEMMA EstateStays ==
  ASSUME SourcesInv, turns' \in 0 .. MaxTurns, UNCHANGED <<source, work, unlisted>>,
         TableFits(staged'), EstateFits(register'), LinksFit(staged', register'),
         \A r \in Rows : staged'[r].exists = staged[r].exists /\ staged'[r].absent = staged[r].absent,
         \A i \in AssetIds : register[i].exists => register'[i].exists
  PROVE  SourcesInv'
<1>1. CommittedFits(source', staged', register', unlisted')
  BY DEF SourcesInv, CommittedFits
<1>2. \A g \in Feeds : work'[g].kind # "none" => ReadFits(work'[g], g, staged', register', source'[g].exists)
  <2> SUFFICES ASSUME NEW g \in Feeds, work[g].kind # "none" PROVE ReadFits(work[g], g, staged', register', source[g].exists)
    OBVIOUS
  <2> PICK x : x = work[g]
    OBVIOUS
  <2>1. ReadFits(x, g, staged, register, source[g].exists)
    BY DEF SourcesInv
  <2>2. ReadFits(x, g, staged', register', source[g].exists)
    BY <2>1, ReadingStays
  <2> QED
    BY <2>2
<1>3. work'["operator"].kind # "none" => PromotionFits(work'["operator"], register', source')
  <2> SUFFICES ASSUME work["operator"].kind # "none" PROVE PromotionFits(work["operator"], register', source)
    OBVIOUS
  <2> PICK x : x = work["operator"]
    OBVIOUS
  <2>1. PromotionFits(x, register, source)
    BY DEF SourcesInv
  <2>2. PromotionFits(x, register', source)
    BY <2>1, PromotionStays
  <2> QED
    BY <2>2
<1> QED
  BY <1>1, <1>2, <1>3 DEF SourcesInv

\* One row is given another link or status.
LEMMA RowSet ==
  ASSUME NEW st, NEW reg, TableFits(st), LinksFit(st, reg), NEW r \in Rows, NEW row, RowFits(r, row),
         row.exists = st[r].exists, row.absent = st[r].absent, row.asset # NoAsset => reg[row.asset].exists,
         NEW st2, DOMAIN st2 = Rows, st2[r] = row, \A q \in Rows \ {r} : st2[q] = st[q]
  PROVE  /\ TableFits(st2) /\ LinksFit(st2, reg)
         /\ \A q \in Rows : st2[q].exists = st[q].exists /\ st2[q].absent = st[q].absent
<1>2. TableFits(st2)
  BY DEF TableFits
<1>3. LinksFit(st2, reg)
  BY DEF LinksFit
<1>4. \A q \in Rows : st2[q].exists = st[q].exists /\ st2[q].absent = st[q].absent
  OBVIOUS
<1> QED
  BY <1>2, <1>3, <1>4

LEMMA PatchRecordKeeps == ASSUME SourcesInv, NEW r \in Rows, PatchRecord(r) PROVE SourcesInv'
<1>1. turns' \in 0 .. MaxTurns
  BY TurnTaken DEF PatchRecord, SourcesInv
<1>2. TableFits(staged) /\ EstateFits(register) /\ LinksFit(staged, register)
  BY DEF SourcesInv, CommittedFits
<1> PICK w : w = staged[r]
  OBVIOUS
<1>3. RowFits(r, w) /\ DOMAIN w = RowColumns
  BY <1>2 DEF TableFits, RowFits
<1>4. w.asset # NoAsset => register[w.asset].exists
  BY <1>2 DEF LinksFit
<1> DEFINE Patched(z) == RowFits(r, z) /\ z.exists = w.exists /\ z.absent = w.absent /\ (z.asset # NoAsset => register[z.asset].exists)
<1>5. \E z : Patched(z) /\ staged' = [staged EXCEPT ![r] = z]
  <2>1. CASE staged' = [staged EXCEPT ![r].status = "ignored"]
    <3> PICK z : z = [w EXCEPT !.status = "ignored"]
      OBVIOUS
    <3>1. /\ DOMAIN z = RowColumns /\ z.exists = w.exists /\ z.absent = w.absent /\ z.asset = w.asset /\ z.status = "ignored"
          /\ z.host = w.host /\ z.serial = w.serial /\ z.site = w.site
      BY <1>3 DEF RowColumns
    <3>2. Patched(z)
      BY <1>3, <1>4, <3>1 DEF RowFits
    <3>3. staged' = [staged EXCEPT ![r] = z]
      BY <2>1
    <3> QED
      BY <3>2, <3>3
  <2>2. CASE staged' = [staged EXCEPT ![r].status = IF @ = "ignored" /\ staged[r].asset # NoAsset THEN "matched" ELSE "unmatched"]
    <3> PICK v \in {"matched", "unmatched"} : v = IF w.status = "ignored" /\ w.asset # NoAsset THEN "matched" ELSE "unmatched"
      OBVIOUS
    <3> PICK z : z = [w EXCEPT !.status = v]
      OBVIOUS
    <3>1. /\ DOMAIN z = RowColumns /\ z.exists = w.exists /\ z.absent = w.absent /\ z.asset = w.asset /\ z.status = v
          /\ z.host = w.host /\ z.serial = w.serial /\ z.site = w.site
      BY <1>3 DEF RowColumns
    <3>2. Patched(z)
      BY <1>3, <1>4, <3>1 DEF RowFits
    <3>3. staged' = [staged EXCEPT ![r] = z]
      BY <1>2, <2>2 DEF TableFits
    <3> QED
      BY <3>2, <3>3
  <2>3. CASE staged' = [staged EXCEPT ![r].asset = NoAsset, ![r].byHand = FALSE, ![r].status = IF @ = "ignored" THEN @ ELSE "unmatched"]
    <3> PICK v \in {"ignored", "unmatched"} : v = IF w.status = "ignored" THEN w.status ELSE "unmatched"
      OBVIOUS
    <3> PICK z : z = [w EXCEPT !.asset = NoAsset, !.byHand = FALSE, !.status = v]
      OBVIOUS
    <3>1. /\ DOMAIN z = RowColumns /\ z.exists = w.exists /\ z.absent = w.absent /\ z.asset = NoAsset /\ z.status = v
          /\ z.host = w.host /\ z.serial = w.serial /\ z.site = w.site
      BY <1>3 DEF RowColumns
    <3>2. Patched(z)
      BY <1>3, <3>1 DEF RowFits
    <3>3. staged' = [staged EXCEPT ![r] = z]
      <4>1. DOMAIN staged = Rows /\ "asset" \in DOMAIN w /\ "byHand" \in DOMAIN w /\ "status" \in DOMAIN w
        BY <1>2, <1>3 DEF TableFits, RowColumns
      <4> QED
        BY <2>3, <4>1
    <3> QED
      BY <3>2, <3>3
  <2>4. CASE \E i \in {j \in AssetIds : register[j].exists} :
               staged' = [staged EXCEPT ![r].asset = i, ![r].byHand = TRUE, ![r].status = "matched"]
    <3> PICK i \in {j \in AssetIds : register[j].exists} :
               staged' = [staged EXCEPT ![r].asset = i, ![r].byHand = TRUE, ![r].status = "matched"]
      BY <2>4
    <3> PICK z : z = [w EXCEPT !.asset = i, !.byHand = TRUE, !.status = "matched"]
      OBVIOUS
    <3>1. /\ DOMAIN z = RowColumns /\ z.exists = w.exists /\ z.absent = w.absent /\ z.asset = i /\ z.status = "matched"
          /\ z.host = w.host /\ z.serial = w.serial /\ z.site = w.site
      BY <1>3 DEF RowColumns
    <3>2. Patched(z)
      BY <1>3, <3>1 DEF RowFits
    <3>3. staged' = [staged EXCEPT ![r] = z]
      <4>1. DOMAIN staged = Rows /\ "asset" \in DOMAIN w /\ "byHand" \in DOMAIN w /\ "status" \in DOMAIN w
        BY <1>2, <1>3 DEF TableFits, RowColumns
      <4> QED
        BY <4>1
    <3> QED
      BY <3>2, <3>3
  <2> HIDE DEF Patched
  <2> QED
    BY <2>1, <2>2, <2>3, <2>4 DEF PatchRecord
<1> PICK z : Patched(z) /\ staged' = [staged EXCEPT ![r] = z]
  BY <1>5
<1>6. /\ TableFits(staged') /\ LinksFit(staged', register)
      /\ \A q \in Rows : staged'[q].exists = staged[q].exists /\ staged'[q].absent = staged[q].absent
  <2>1. RowFits(r, z) /\ z.exists = staged[r].exists /\ z.absent = staged[r].absent /\ (z.asset # NoAsset => register[z.asset].exists)
    BY DEF Patched
  <2>2. r \in Rows /\ staged' = [staged EXCEPT ![r] = z]
    OBVIOUS
  <2>3. TableFits(staged) /\ LinksFit(staged, register)
    BY <1>2
  <2> PICK s : s = staged
    OBVIOUS
  <2> PICK a : a = register
    OBVIOUS
  <2>4. RowFits(r, z) /\ z.exists = s[r].exists /\ z.absent = s[r].absent /\ (z.asset # NoAsset => a[z.asset].exists)
    BY <2>1
  <2>5. TableFits(s) /\ LinksFit(s, a) /\ r \in Rows
    BY <2>3
  <2> PICK t : t = [s EXCEPT ![r] = z]
    OBVIOUS
  <2>6. DOMAIN t = Rows /\ t[r] = z /\ \A q \in Rows \ {r} : t[q] = s[q]
    BY <2>5 DEF TableFits
  <2>7. TableFits(t) /\ LinksFit(t, a) /\ \A q \in Rows : t[q].exists = s[q].exists /\ t[q].absent = s[q].absent
    BY ONLY <2>4, <2>5, <2>6, RowSet
  <2> QED
    BY <2>2, <2>7
<1>7. UNCHANGED <<source, register, work, unlisted>>
  BY DEF PatchRecord
<1> QED
  BY <1>1, <1>2, <1>6, <1>7, EstateStays

LEMMA DeleteAssetKeeps == ASSUME SourcesInv, NEW i \in AssetIds, DeleteAsset(i) PROVE SourcesInv'
<1>1. turns' \in 0 .. MaxTurns
  BY TurnTaken DEF DeleteAsset, SourcesInv
<1>2. TableFits(staged) /\ EstateFits(register) /\ LinksFit(staged, register)
  BY DEF SourcesInv, CommittedFits
<1> PICK a : a = register[i]
  OBVIOUS
<1> PICK z : z = [a EXCEPT !.deleted = TRUE]
  OBVIOUS
<1>3. register' = [register EXCEPT ![i] = z] /\ UNCHANGED <<source, staged, work, unlisted>>
  BY DEF DeleteAsset
<1>4. AssetFits(a)
  BY <1>2 DEF EstateFits
<1>5. AssetFits(z) /\ z.exists = a.exists
  BY <1>4 DEF AssetFits
<1>6. DOMAIN register' = AssetIds /\ register'[i] = z /\ \A j \in AssetIds \ {i} : register'[j] = register[j]
  BY <1>2, <1>3 DEF EstateFits
<1>7. EstateFits(register')
  BY <1>2, <1>5, <1>6 DEF EstateFits
<1>8. \A j \in AssetIds : register[j].exists => register'[j].exists
  BY <1>5, <1>6
<1>9. LinksFit(staged', register')
  <2> SUFFICES ASSUME NEW r \in Rows, staged[r].asset # NoAsset PROVE register'[staged[r].asset].exists
    BY <1>3 DEF LinksFit
  <2>1. staged[r].asset \in AssetIds /\ register[staged[r].asset].exists
    BY <1>2 DEF LinksFit, TableFits, RowFits
  <2> QED
    BY <1>8, <2>1
<1> QED
  BY <1>1, <1>2, <1>3, <1>7, <1>8, <1>9, EstateStays

\* What ends is gone, and nothing begins.
LEMMA EstateMoves ==
  ASSUME SourcesInv, turns' \in 0 .. MaxTurns, UNCHANGED <<source, unlisted>>,
         DOMAIN work' = Feeds \cup {"operator"},
         \A w \in Feeds \cup {"operator"} : work'[w] = work[w] \/ work'[w].kind = "none",
         TableFits(staged'), EstateFits(register'), LinksFit(staged', register'),
         \A r \in Rows : staged'[r].exists = staged[r].exists /\ staged'[r].absent = staged[r].absent,
         \A i \in AssetIds : register[i].exists => register'[i].exists
  PROVE  SourcesInv'
<1>1. CommittedFits(source', staged', register', unlisted')
  BY DEF SourcesInv, CommittedFits
<1>2. \A g \in Feeds : work'[g].kind # "none" => ReadFits(work'[g], g, staged', register', source'[g].exists)
  <2> SUFFICES ASSUME NEW g \in Feeds, work'[g].kind # "none" PROVE ReadFits(work'[g], g, staged', register', source[g].exists)
    OBVIOUS
  <2> PICK x : x = work[g]
    OBVIOUS
  <2>1. work'[g] = x /\ x.kind # "none"
    OBVIOUS
  <2>2. ReadFits(x, g, staged, register, source[g].exists)
    BY <2>1 DEF SourcesInv
  <2>3. ReadFits(x, g, staged', register', source[g].exists)
    BY <2>2, ReadingStays
  <2> QED
    BY <2>1, <2>3
<1>3. work'["operator"].kind # "none" => PromotionFits(work'["operator"], register', source')
  <2> SUFFICES ASSUME work'["operator"].kind # "none" PROVE PromotionFits(work'["operator"], register', source)
    OBVIOUS
  <2> PICK x : x = work["operator"]
    OBVIOUS
  <2>1. work'["operator"] = x /\ x.kind # "none"
    OBVIOUS
  <2>2. PromotionFits(x, register, source)
    BY <2>1 DEF SourcesInv
  <2>3. PromotionFits(x, register', source)
    BY <2>2, PromotionStays
  <2> QED
    BY <2>1, <2>3
<1> QED
  BY <1>1, <1>2, <1>3 DEF SourcesInv

\* One transaction begins.
LEMMA WorkBegins ==
  ASSUME SourcesInv, turns' \in 0 .. MaxTurns, UNCHANGED <<source, staged, register, unlisted>>,
         NEW w \in Feeds \cup {"operator"}, NEW t, work' = [work EXCEPT ![w] = t],
         w \in Feeds => ReadFits(t, w, staged, register, source[w].exists),
         w = "operator" => PromotionFits(t, register, source)
  PROVE  SourcesInv'
<1>1. /\ DOMAIN work' = Feeds \cup {"operator"} /\ work'[w] = t
      /\ \A v \in Feeds \cup {"operator"} : v # w => work'[v] = work[v]
  BY DEF SourcesInv
<1>2. \A g \in Feeds : work'[g].kind # "none" => ReadFits(work'[g], g, staged', register', source'[g].exists)
  BY <1>1 DEF SourcesInv
<1>3. work'["operator"].kind # "none" => PromotionFits(work'["operator"], register', source')
  BY <1>1 DEF SourcesInv
<1> QED
  BY <1>1, <1>2, <1>3 DEF SourcesInv

LEMMA SyncBeginsKeeps == ASSUME SourcesInv, NEW f \in Feeds, SyncBegins(f) PROVE SourcesInv'
<1>1. turns' \in 0 .. MaxTurns
  BY TurnTaken DEF SyncBegins, SourcesInv
<1>2. TableFits(staged) /\ EstateFits(register) /\ LinksFit(staged, register)
  BY DEF SourcesInv, CommittedFits
<1> PICK export \in Exports, mark \in BOOLEAN :
      /\ source[f].auto /\ source[f].creates => Cardinality(Spare(register)) >= Len(export)
      /\ work' = [work EXCEPT ![f] = Ingest(f, export, mark, FALSE, staged, register)]
  BY DEF SyncBegins
<1> PICK more \in Nat : more = 0
  OBVIOUS
<1> PICK dry : dry = FALSE
  OBVIOUS
<1> PICK st : st = staged
  OBVIOUS
<1> PICK reg : reg = register
  OBVIOUS
<1> PICK t : t = Ingest(f, export, mark, dry, st, reg)
  OBVIOUS
<1>3. export \in Seq(Entries) /\ Len(export) \in Nat
  BY AssetSourcesAssumption, LenProperties
<1>4. Fitting(f, reg, export, more)
  BY <1>3 DEF Fitting
<1>5. ~dry /\ more \in Nat /\ f \in Feeds /\ t = Ingest(f, export, mark, dry, st, reg)
  OBVIOUS
<1>6. TableFits(st) /\ EstateFits(reg) /\ LinksFit(st, reg)
  BY <1>2
<1>7. ReadOf(t, f) /\ t.old = st /\ t.oldReg = reg
  BY ONLY <1>3, <1>4, <1>5, <1>6, IngestReads
<1>8. ReadFits(t, f, staged, register, source[f].exists)
  BY <1>7 DEF ReadFits
<1>9. work' = [work EXCEPT ![f] = t]
  OBVIOUS
<1>10. UNCHANGED <<source, staged, register, unlisted>>
  BY DEF SyncBegins
<1> QED
  BY <1>1, <1>8, <1>9, <1>10, NotAFeed, WorkBegins

LEMMA PromoteBeginsKeeps == ASSUME SourcesInv, PromoteBegins PROVE SourcesInv'
<1>1. turns' \in 0 .. MaxTurns
  BY TurnTaken DEF PromoteBegins, SourcesInv
<1>2. TableFits(staged) /\ EstateFits(register) /\ LinksFit(staged, register)
  BY DEF SourcesInv, CommittedFits
<1> PICK rows \in SUBSET {r \in Rows : staged[r].exists} \ {{}}, creates \in BOOLEAN :
      /\ creates => Cardinality(Spare(register)) >= Cardinality(rows)
      /\ work' = [work EXCEPT !["operator"] =
                    [Promoted(Begun("promotion", staged, register), rows, creates) EXCEPT !.rows = rows]]
  BY DEF PromoteBegins
<1> PICK st : st = staged
  OBVIOUS
<1> PICK reg : reg = register
  OBVIOUS
<1> PICK t : t = Promoted(Begun("promotion", st, reg), rows, creates)
  OBVIOUS
<1> PICK z : z = [t EXCEPT !.rows = rows]
  OBVIOUS
<1>3. Configured
  BY DEF SourcesInv, CommittedFits, Configured
<1>4. rows \in SUBSET Rows
  OBVIOUS
<1>5. /\ TableFits(st) /\ EstateFits(reg) /\ LinksFit(st, reg)
      /\ creates => Cardinality(Spare(reg)) >= Cardinality(rows)
  BY <1>2
<1>6. t = Promoted(Begun("promotion", st, reg), rows, creates)
  OBVIOUS
<1>7. Promoting(t, {}, rows, creates, st, reg)
  BY ONLY <1>3, <1>4, <1>5, <1>6, PromotedWhole
<1>8. /\ DOMAIN t = TxColumns /\ TableFits(t.st) /\ EstateFits(t.reg) /\ LinksFit(t.st, t.reg)
      /\ t.kind = "promotion" /\ t.old = st /\ t.oldReg = reg
      /\ \A r \in Rows : t.st[r].exists = st[r].exists /\ t.st[r].absent = st[r].absent
      /\ \A i \in AssetIds : reg[i].exists => t.reg[i].exists
  BY <1>7 DEF Promoting, Handy
<1>9. /\ DOMAIN z = TxColumns /\ z.st = t.st /\ z.reg = t.reg /\ z.kind = t.kind /\ z.old = t.old /\ z.oldReg = t.oldReg
      /\ z.rows = rows
  BY <1>8 DEF TxColumns
<1>10. rows \ {} = rows
  OBVIOUS
<1>11. NamesFit(z, rows)
  <2>1. NamesFit(t, rows)
    BY <1>7, <1>10 DEF Promoting
  <2>2. \A r \in rows : z.st[r].asset = t.st[r].asset /\ z.st[r].host = t.st[r].host
    BY <1>9
  <2>3. z.reg = t.reg /\ z.oldReg = t.oldReg
    BY <1>9
  <2> QED
    BY ONLY <1>4, <2>1, <2>2, <2>3, NamesKept
<1>12. \A i \in AssetIds : DecidedBy(source, z, rows, i)
  <2> TAKE i \in AssetIds
  <2>1. Decided(t, rows, i)
    BY <1>7, <1>10 DEF Promoting
  <2>2. Among(z, rows, i) = Among(t, rows, i)
    BY <1>9 DEF Among
  <2> QED
    BY <1>9, <2>1, <2>2 DEF Decided, DecidedBy, Pr
<1>13. PromotionFits(z, register, source)
  BY <1>4, <1>5, <1>8, <1>9, <1>11, <1>12 DEF PromotionFits, Handy
<1>14. work' = [work EXCEPT !["operator"] = z]
  OBVIOUS
<1>15. UNCHANGED <<source, staged, register, unlisted>>
  BY DEF PromoteBegins
<1> QED
  BY <1>1, <1>13, <1>14, <1>15, NotAFeed, WorkBegins

LEMMA PromoteEndsKeeps == ASSUME SourcesInv, PromoteEnds PROVE SourcesInv'
<1> PICK tx : tx = work["operator"]
  OBVIOUS
<1>1. /\ tx.kind # "none" /\ work' = [work EXCEPT !["operator"] = Resting] /\ UNCHANGED <<turns, source, unlisted>>
  BY DEF PromoteEnds, Ends
<1>2. PromotionFits(tx, register, source)
  BY <1>1 DEF SourcesInv
<1>3. /\ DOMAIN work' = Feeds \cup {"operator"}
      /\ \A w \in Feeds \cup {"operator"} : work'[w] = work[w] \/ work'[w].kind = "none"
  BY <1>1 DEF SourcesInv, Resting
<1>4. TableFits(staged) /\ EstateFits(register) /\ LinksFit(staged, register) /\ turns' \in 0 .. MaxTurns
  BY <1>1 DEF SourcesInv, CommittedFits
<1>5. CASE Possible("operator")
  <2>1. /\ staged' = [r \in Rows |-> Merged(tx.old[r], tx.st[r], staged[r])]
        /\ register' = [i \in AssetIds |-> Merged(tx.oldReg[i], tx.reg[i], register[i])]
    BY <1>5 DEF PromoteEnds, Ends
  <2>2. /\ Handy(tx) /\ TableFits(tx.old) /\ EstateFits(tx.oldReg)
        /\ \A i \in AssetIds : tx.oldReg[i].exists => tx.reg[i].exists /\ register[i].exists
        /\ \A r \in Rows : tx.st[r].exists = tx.old[r].exists /\ tx.st[r].absent = tx.old[r].absent
    BY <1>2 DEF PromotionFits
  <2> PICK s : s = staged
    OBVIOUS
  <2> PICK g : g = register
    OBVIOUS
  <2> PICK s2 : s2 = [r \in Rows |-> Merged(tx.old[r], tx.st[r], s[r])]
    OBVIOUS
  <2> PICK g2 : g2 = [i \in AssetIds |-> Merged(tx.oldReg[i], tx.reg[i], g[i])]
    OBVIOUS
  <2>3. /\ TableFits(s) /\ EstateFits(g) /\ LinksFit(s, g)
        /\ \A i \in AssetIds : tx.oldReg[i].exists => tx.reg[i].exists /\ g[i].exists
    BY <1>4, <2>2
  <2>4. /\ s2 = [r \in Rows |-> Merged(tx.old[r], tx.st[r], s[r])]
        /\ g2 = [i \in AssetIds |-> Merged(tx.oldReg[i], tx.reg[i], g[i])]
    OBVIOUS
  <2>5. /\ TableFits(s2) /\ EstateFits(g2) /\ LinksFit(s2, g2)
        /\ \A i \in AssetIds : g[i].exists => g2[i].exists
        /\ \A r \in Rows :
             /\ s2[r].exists = IF tx.st[r].exists # tx.old[r].exists THEN tx.st[r].exists ELSE s[r].exists
             /\ s2[r].absent = IF tx.st[r].absent # tx.old[r].absent THEN tx.st[r].absent ELSE s[r].absent
    BY ONLY <2>2, <2>3, <2>4, Commits
  <2>6. staged' = s2 /\ register' = g2
    BY <2>1
  <2>7. \A r \in Rows : s2[r].exists = staged[r].exists /\ s2[r].absent = staged[r].absent
    BY <2>2, <2>5
  <2> QED
    BY <1>1, <1>3, <1>4, <2>5, <2>6, <2>7, EstateMoves
<1>6. CASE ~Possible("operator")
  <2>1. UNCHANGED <<staged, register>>
    BY <1>6 DEF PromoteEnds, Ends
  <2> QED
    BY <1>1, <1>3, <1>4, <2>1, EstateMoves
<1> QED
  BY <1>5, <1>6

\* What a transaction changed is committed, the rest stays.
RowsCommitted(tx, st, st2) ==
  \A r \in Rows :
    /\ st2[r].exists = IF tx.st[r].exists # tx.old[r].exists THEN tx.st[r].exists ELSE st[r].exists
    /\ st2[r].absent = IF tx.st[r].absent # tx.old[r].absent THEN tx.st[r].absent ELSE st[r].absent

\* What a reading commits about its own rows, and about those of others.
Reported(tx, f, st, st2) ==
  /\ \A r \in Rows : r[1] # f => st2[r].exists = st[r].exists /\ st2[r].absent = st[r].absent
  /\ \A r \in Rows : r[1] = f /\ r[2] \in tx.seen => ~st2[r].absent
  /\ \A r \in Rows : r[1] = f /\ r[2] \notin tx.seen =>
       (st2[r].absent <=> st[r].absent \/ (tx.markAbsent /\ tx.old[r].exists))

LEMMA ReadingCommits ==
  ASSUME NEW tx, NEW f, NEW st, NEW reg, NEW there, there, ReadFits(tx, f, st, reg, there), TableFits(st),
         NEW st2,
         RowsCommitted(tx, st, st2)
  PROVE  Reported(tx, f, st, st2)
<1>1. /\ Handy(tx) /\ TableFits(tx.old)
      /\ \A r \in Rows : r[1] # f => tx.st[r] = tx.old[r]
      /\ \A r \in Rows : r[1] = f /\ r[2] \in tx.seen => tx.st[r].exists /\ ~tx.st[r].absent
      /\ \A r \in Rows : r[1] = f /\ r[2] \notin tx.seen =>
           /\ tx.st[r].exists = tx.old[r].exists
           /\ tx.st[r].absent <=> tx.old[r].absent \/ (tx.markAbsent /\ tx.old[r].exists)
      /\ \A r \in Rows : r[1] = f => tx.old[r].absent = st[r].absent /\ tx.old[r].exists = st[r].exists
  BY DEF ReadFits, ReadOf
<1>2. \A r \in Rows : tx.st[r].absent \in BOOLEAN /\ tx.old[r].absent \in BOOLEAN /\ st[r].absent \in BOOLEAN
  BY <1>1 DEF TableFits, RowFits, Handy
<1>3. \A r \in Rows : r[1] # f => st2[r].exists = st[r].exists /\ st2[r].absent = st[r].absent
  BY <1>1 DEF RowsCommitted
<1>4. \A r \in Rows : r[1] = f => st2[r].absent = tx.st[r].absent
  BY <1>1 DEF RowsCommitted
<1>5. \A r \in Rows : r[1] = f /\ r[2] \in tx.seen => ~st2[r].absent
  BY <1>1, <1>4
<1>6. \A r \in Rows : r[1] = f /\ r[2] \notin tx.seen =>
        (st2[r].absent <=> st[r].absent \/ (tx.markAbsent /\ tx.old[r].exists))
  BY <1>1, <1>4
<1> QED
  BY <1>3, <1>5, <1>6 DEF Reported

LEMMA SyncEndsKeeps == ASSUME SourcesInv, NEW f \in Feeds, SyncEnds(f) PROVE SourcesInv'
<1> PICK tx : tx = work[f]
  OBVIOUS
<1>1. /\ tx.kind # "none" /\ work' = [work EXCEPT ![f] = Resting] /\ turns' = turns
  BY DEF SyncEnds, Ends
<1>2. ReadFits(tx, f, staged, register, source[f].exists)
  BY <1>1 DEF SourcesInv
<1>3. /\ DOMAIN work' = Feeds \cup {"operator"} /\ work'[f].kind = "none"
      /\ \A w \in Feeds \cup {"operator"} : w # f => work'[w] = work[w]
  BY <1>1 DEF SourcesInv, Resting
<1>4. CommittedFits(source, staged, register, unlisted) /\ turns' \in 0 .. MaxTurns
  BY <1>1 DEF SourcesInv
<1>5. TableFits(staged) /\ EstateFits(register) /\ LinksFit(staged, register)
  BY <1>4 DEF CommittedFits
<1>6. Possible(f) <=> source[f].exists
  BY DEF Possible, About
<1>7. CASE ~Possible(f)
  <2>1. UNCHANGED <<staged, register, unlisted, source>>
    BY <1>7 DEF SyncEnds, Ends
  <2>2. \A w \in Feeds \cup {"operator"} : work'[w] = work[w] \/ work'[w].kind = "none"
    BY <1>3
  <2> QED
    BY <1>3, <1>4, <1>5, <2>1, <2>2, EstateMoves
<1>8. CASE Possible(f)
  <2>0. source[f].exists
    BY <1>6, <1>8
  <2>1. /\ staged' = [r \in Rows |-> Merged(tx.old[r], tx.st[r], staged[r])]
        /\ register' = [i \in AssetIds |-> Merged(tx.oldReg[i], tx.reg[i], register[i])]
    BY <1>8 DEF SyncEnds, Ends
  <2>2. /\ unlisted' = (unlisted \ {<<f, k>> : k \in tx.seen})
                         \cup (IF tx.markAbsent THEN {r \in Rows : r[1] = f /\ tx.old[r].exists /\ r[2] \notin tx.seen} ELSE {})
        /\ source' = [source EXCEPT ![f].failed = FALSE]
    BY <1>8, <2>0 DEF SyncEnds
  <2>3. /\ Handy(tx) /\ TableFits(tx.old) /\ EstateFits(tx.oldReg) /\ tx.seen \subseteq ExternalKeys
        /\ \A i \in AssetIds : tx.oldReg[i].exists => tx.reg[i].exists /\ register[i].exists
    BY <1>2 DEF ReadFits, ReadOf
  <2> PICK s : s = staged
    OBVIOUS
  <2> PICK g : g = register
    OBVIOUS
  <2> PICK s2 : s2 = [r \in Rows |-> Merged(tx.old[r], tx.st[r], s[r])]
    OBVIOUS
  <2> PICK g2 : g2 = [i \in AssetIds |-> Merged(tx.oldReg[i], tx.reg[i], g[i])]
    OBVIOUS
  <2>4. /\ TableFits(s) /\ EstateFits(g) /\ LinksFit(s, g)
        /\ \A i \in AssetIds : tx.oldReg[i].exists => tx.reg[i].exists /\ g[i].exists
    BY <1>5, <2>3
  <2>5. /\ s2 = [r \in Rows |-> Merged(tx.old[r], tx.st[r], s[r])]
        /\ g2 = [i \in AssetIds |-> Merged(tx.oldReg[i], tx.reg[i], g[i])]
    OBVIOUS
  <2>6. /\ TableFits(s2) /\ EstateFits(g2) /\ LinksFit(s2, g2)
        /\ \A i \in AssetIds : g[i].exists => g2[i].exists
        /\ \A r \in Rows :
             /\ s2[r].exists = IF tx.st[r].exists # tx.old[r].exists THEN tx.st[r].exists ELSE s[r].exists
             /\ s2[r].absent = IF tx.st[r].absent # tx.old[r].absent THEN tx.st[r].absent ELSE s[r].absent
    BY ONLY <2>3, <2>4, <2>5, Commits
  <2>7. staged' = s2 /\ register' = g2
    BY <2>1
  <2> PICK there : there = source[f].exists
    OBVIOUS
  <2>8. ReadFits(tx, f, s, g, there) /\ there
    BY <1>2, <2>0
  <2>9. /\ \A r \in Rows : r[1] # f => s2[r].exists = s[r].exists /\ s2[r].absent = s[r].absent
        /\ \A r \in Rows : r[1] = f /\ r[2] \in tx.seen => ~s2[r].absent
        /\ \A r \in Rows : r[1] = f /\ r[2] \notin tx.seen =>
             (s2[r].absent <=> s[r].absent \/ (tx.markAbsent /\ tx.old[r].exists))
    <3>1. RowsCommitted(tx, s, s2)
      BY <2>6 DEF RowsCommitted
    <3>2. TableFits(s)
      BY <2>4
    <3>3. Reported(tx, f, s, s2)
      BY ONLY <2>8, <3>1, <3>2, ReadingCommits
    <3> QED
      BY <3>3 DEF Reported
  <2>10. DOMAIN source = Feeds /\ \A h \in Feeds : DOMAIN source[h] = SourceColumns /\ source[h].priority \in 1 .. Len(FeedOrder)
    BY <1>4 DEF CommittedFits
  <2> PICK new : new = [source EXCEPT ![f]["failed"] = FALSE]
    OBVIOUS
  <2>11. "failed" \in SourceColumns \ {"priority"} /\ "failed" # "exists"
    BY DEF SourceColumns
  <2>12. /\ DOMAIN new = Feeds
         /\ \A h \in Feeds : DOMAIN new[h] = SourceColumns /\ new[h].priority \in 1 .. Len(FeedOrder)
         /\ \A h \in Feeds : new[h].priority = source[h].priority
         /\ \A h \in Feeds \ {f} : new[h] = source[h]
         /\ new[f].exists = source[f].exists
    BY <2>10, <2>11, SourceSet
  <2>13. source' = new
    BY <2>2
  <2>14. unlisted' \subseteq Rows /\ \A r \in Rows : s2[r].absent <=> r \in unlisted'
    <3>1. unlisted \subseteq Rows /\ \A r \in Rows : s[r].absent <=> r \in unlisted
      BY <1>4 DEF CommittedFits
    <3>2. \A r \in Rows : r \in {<<f, k>> : k \in tx.seen} <=> r[1] = f /\ r[2] \in tx.seen
      BY RowNumbers
    <3>3. \A r \in Rows : r \in unlisted' <=>
            \/ r \in unlisted /\ ~(r[1] = f /\ r[2] \in tx.seen)
            \/ tx.markAbsent /\ r[1] = f /\ tx.old[r].exists /\ r[2] \notin tx.seen
      BY <2>2, <3>2
    <3>4. unlisted' \subseteq Rows
      BY <2>2, <3>1
    <3>5. ASSUME NEW r \in Rows PROVE s2[r].absent <=> r \in unlisted'
      <4>0. s2[r].absent \in BOOLEAN /\ s[r].absent \in BOOLEAN
        BY <2>4, <2>6 DEF TableFits, RowFits
      <4>1. CASE r[1] # f
        BY <2>9, <3>1, <3>3, <4>0, <4>1
      <4>2. CASE r[1] = f /\ r[2] \in tx.seen
        BY <2>9, <3>1, <3>3, <4>0, <4>2
      <4>3. CASE r[1] = f /\ r[2] \notin tx.seen
        BY <2>9, <3>1, <3>3, <4>0, <4>3
      <4> QED
        BY <4>1, <4>2, <4>3
    <3> QED
      BY <3>4, <3>5
  <2>15. \A r \in Rows : s2[r].exists => source'[r[1]].exists
    <3> SUFFICES ASSUME NEW r \in Rows, s2[r].exists PROVE new[r[1]].exists
      BY <2>13
    <3>1. CASE r[1] = f
      BY <2>0, <2>12, <3>1
    <3>2. CASE r[1] # f
      <4>1. source[r[1]].exists
        BY <1>4, <2>9, <3>2 DEF CommittedFits
      <4> QED
        BY <2>12, <3>2, <4>1, RowNumbers
    <3> QED
      BY <3>1, <3>2
  <2>16. CommittedFits(source', staged', register', unlisted')
    BY <2>6, <2>7, <2>12, <2>13, <2>14, <2>15 DEF CommittedFits
  <2>17. \A h \in Feeds : work'[h].kind # "none" => ReadFits(work'[h], h, staged', register', source'[h].exists)
    <3> SUFFICES ASSUME NEW h \in Feeds, work'[h].kind # "none" PROVE ReadFits(work'[h], h, s2, g2, new[h].exists)
      BY <2>7, <2>13
    <3>1. h # f
      BY <1>3
    <3> PICK x : x = work[h]
      OBVIOUS
    <3>2. work'[h] = x /\ x.kind # "none"
      BY <1>3, <3>1
    <3> PICK open : open = source[h].exists
      OBVIOUS
    <3>3. ReadFits(x, h, s, g, open)
      BY <3>2 DEF SourcesInv
    <3>4. \A i \in AssetIds : g[i].exists => g2[i].exists
      BY <2>6
    <3>5. \A r \in Rows : r[1] = h => s2[r].absent = s[r].absent /\ s2[r].exists = s[r].exists
      BY <2>9, <3>1
    <3>6. ReadFits(x, h, s2, g2, open)
      BY <3>3, <3>4, <3>5, ReadingStays
    <3>7. new[h] = source[h]
      BY <2>12, <3>1
    <3> QED
      BY ONLY <3>2, <3>6, <3>7, open = source[h].exists
  <2>18. work'["operator"].kind # "none" => PromotionFits(work'["operator"], register', source')
    <3> SUFFICES ASSUME work'["operator"].kind # "none" PROVE PromotionFits(work'["operator"], g2, new)
      BY <2>7, <2>13
    <3> PICK x : x = work["operator"]
      OBVIOUS
    <3>1. work'["operator"] = x /\ x.kind # "none"
      BY <1>3, NotAFeed
    <3> PICK src : src = source
      OBVIOUS
    <3>2. PromotionFits(x, g, src)
      BY <3>1 DEF SourcesInv
    <3>3. \A i \in AssetIds : g[i].exists => g2[i].exists
      BY <2>6
    <3>4. \A h \in Feeds : new[h].priority = src[h].priority
      BY <2>12
    <3>5. PromotionFits(x, g2, new)
      BY ONLY <3>2, <3>3, <3>4, PromotionStays
    <3> QED
      BY <3>1, <3>5
  <2> QED
    BY <1>3, <1>4, <2>16, <2>17, <2>18 DEF SourcesInv
<1> QED
  BY <1>7, <1>8

LEMMA SourcesStep == SourcesInv /\ [SourcesNext]_sourceVars => SourcesInv'
<1> SUFFICES ASSUME SourcesInv, [SourcesNext]_sourceVars PROVE SourcesInv'
  OBVIOUS
<1>1. CASE SourcesNext
  <2>1. ASSUME NEW f \in Feeds, SyncBegins(f) \/ SyncFails(f) \/ SyncEnds(f) \/ UpdateSource(f) \/ DeleteSource(f)
        PROVE  SourcesInv'
    BY <2>1, SyncBeginsKeeps, FailsKeeps, SyncEndsKeeps, UpdateSourceKeeps, DeleteSourceKeeps
  <2>2. CASE PromoteBegins \/ PromoteEnds
    BY <2>2, PromoteBeginsKeeps, PromoteEndsKeeps
  <2>3. ASSUME NEW r \in Rows, PatchRecord(r) PROVE SourcesInv'
    BY <2>3, PatchRecordKeeps
  <2>4. ASSUME NEW i \in AssetIds, DeleteAsset(i) PROVE SourcesInv'
    BY <2>4, DeleteAssetKeeps
  <2> QED
    BY <1>1, <2>1, <2>2, <2>3, <2>4 DEF SourcesNext
<1>2. CASE UNCHANGED sourceVars
  BY <1>2 DEF SourcesInv, sourceVars
<1> QED
  BY <1>1, <1>2

(* The beginning. *)

OnceMore(n, export, was) == Ingest(FeedOrder[n], export, TRUE, FALSE, was.st, was.reg)

LEMMA ReadingUnfolds ==
  ASSUME NEW export, NEW empty
  PROVE  \E g : /\ g[0] = empty
                /\ \A n \in 1 .. Len(FeedOrder) : g[n] = OnceMore(n, export, g[n - 1])
                /\ ReadInTurn(export, empty) = g[Len(FeedOrder)]
<1> DEFINE N == Len(FeedOrder)
           Is(g, m) == g = [n \in 0 .. m |-> IF n = 0 THEN empty
                                             ELSE OnceMore(n, export, g[n - 1])]
           B == {m \in 0 .. N : ~\E g : Is(g, m)}
<1>0. N \in Nat
  BY FeedsFinite
<1>3. ReadInTurn(export, empty) = (CHOOSE g : Is(g, N))[N]
  BY Zenon DEF ReadInTurn, OnceMore
<1> HIDE DEF N
<1>1. \E g : Is(g, N)
  <2> SUFFICES ASSUME ~\E g : Is(g, N) PROVE FALSE
    OBVIOUS
  <2>1. B \in SUBSET Nat /\ B # {}
    <3>1. N \in 0 .. N
      BY <1>0
    <3> HIDE DEF Is
    <3>2. B \subseteq 0 .. N /\ N \in B
      BY <3>1
    <3> HIDE DEF B
    <3> QED
      BY <3>2
  <2>2. PICK m \in B : \A k \in B : m <= k
    <3> HIDE DEF B
    <3> QED BY <2>1, LeastNatural
  <2>3. m \in 0 .. N /\ (~\E g : Is(g, m)) /\ \A k \in 0 .. N : (~\E g : Is(g, k)) => m <= k
    <3> HIDE DEF Is
    <3> QED BY <2>2
  <2>4. CASE m = 0
    <3> DEFINE h == [n \in 0 .. 0 |-> empty]
    <3>1. h = [n \in 0 .. 0 |-> IF n = 0 THEN empty
                                ELSE OnceMore(n, export, h[n - 1])]
      OBVIOUS
    <3>2. Is(h, 0)
      BY <3>1
    <3> HIDE DEF Is, h
    <3> QED
      BY <2>3, <2>4, <3>2
  <2>5. CASE m # 0
    <3>1. m - 1 \in 0 .. N /\ m \in Nat /\ ~(m <= m - 1)
      BY <1>0, <2>3, <2>5
    <3>2. \E g : Is(g, m - 1)
      <4> HIDE DEF Is
      <4> QED BY <2>3, <3>1
    <3>3. PICK g : Is(g, m - 1)
      BY <3>2
    <3> DEFINE last == OnceMore(m, export, g[m - 1])
               h == [n \in 0 .. m |-> IF n = m THEN last ELSE g[n]]
    <3>4. /\ DOMAIN g = 0 .. (m - 1) /\ g[0] = empty
          /\ \A n \in 0 .. (m - 1) : n # 0 => g[n] = OnceMore(n, export, g[n - 1])
      BY <2>5, <3>1, <3>3
    <3>5. \A n \in 0 .. m : h[n] = IF n = 0 THEN empty
                                   ELSE OnceMore(n, export, h[n - 1])
      <4> TAKE n \in 0 .. m
      <4>1. CASE n = m
        <5>1. h[n - 1] = g[m - 1] /\ h[n] = last /\ n # 0
          BY <2>5, <3>1, <4>1
        <5> HIDE DEF h
        <5> QED
          BY <4>1, <5>1
      <4>2. CASE n # m /\ n # 0
        <5>1. h[n] = g[n] /\ n - 1 \in 0 .. m /\ n - 1 # m /\ n \in 0 .. (m - 1)
          BY <3>1, <4>2
        <5>2. h[n - 1] = g[n - 1]
          BY <5>1
        <5> HIDE DEF h
        <5> QED
          BY <3>4, <4>2, <5>1, <5>2
      <4>3. CASE n = 0
        BY <2>5, <3>4, <4>3
      <4> QED
        BY <4>1, <4>2, <4>3
    <3>6. DOMAIN h = 0 .. m /\ h = [n \in 0 .. m |-> h[n]]
      OBVIOUS
    <3> HIDE DEF h
    <3>7. Is(h, m)
      BY <3>5, <3>6
    <3> HIDE DEF Is
    <3> QED
      BY <2>3, <3>7
  <2> QED
    BY <2>4, <2>5
<1>2. Is(CHOOSE g : Is(g, N), N)
  <2> HIDE DEF Is
  <2> QED BY <1>1, Zenon
<1> DEFINE g == CHOOSE g : Is(g, N)
<1>4. Is(g, N)
  BY <1>2
<1>5. ReadInTurn(export, empty) = g[N]
  BY <1>3
<1> HIDE DEF g
<1>6. g[0] = empty /\ \A n \in 1 .. N : g[n] = OnceMore(n, export, g[n - 1])
  BY <1>0, <1>4
<1> QED
  BY <1>5, <1>6 DEF N

\* Some sources were read, the others have no rows; none has lost one.
Laid(s, n, more) ==
  /\ TableFits(s.st) /\ EstateFits(s.reg) /\ LinksFit(s.st, s.reg)
  /\ \A r \in Rows : ~s.st[r].absent
  /\ \A r \in Rows : (\A k \in 1 .. n : FeedOrder[k] # r[1]) => ~s.st[r].exists
  /\ Cardinality(Spare(s.reg)) >= more \/ \A f \in Feeds : ~(source[f].auto /\ source[f].creates)

LEMMA OneMoreRead ==
  ASSUME NEW n \in 1 .. Len(FeedOrder), NEW s, NEW export \in Exports, NEW more \in Nat,
         NEW enough, enough = Len(export) + more, Laid(s, n - 1, enough),
         \A f, g \in Feeds : source[f].auto /\ source[f].creates <=> source[g].auto /\ source[g].creates,
         NEW t, t = OnceMore(n, export, s)
  PROVE  Laid(t, n, more)
<1> PICK f : f = FeedOrder[n]
  OBVIOUS
<1> PICK mark : mark = TRUE
  OBVIOUS
<1> PICK dry : dry = FALSE
  OBVIOUS
<1> PICK st : st = s.st
  OBVIOUS
<1> PICK reg : reg = s.reg
  OBVIOUS
<1>1. f \in Feeds /\ ~dry /\ more \in Nat /\ t = Ingest(f, export, mark, dry, st, reg) /\ n \in Nat /\ n - 1 \in Nat
  <2>1. Len(FeedOrder) \in Nat /\ FeedOrder \in [1 .. Len(FeedOrder) -> Feeds]
    BY FeedsFinite
  <2>2. f \in Feeds /\ n \in Nat /\ n - 1 \in Nat
    BY <2>1
  <2>3. t = Ingest(f, export, mark, dry, st, reg)
    BY DEF OnceMore
  <2> QED
    BY <2>2, <2>3
<1>2. export \in Seq(Entries) /\ Len(export) \in Nat
  BY AssetSourcesAssumption, LenProperties
<1>3. TableFits(st) /\ EstateFits(reg) /\ LinksFit(st, reg)
  BY DEF Laid
<1>4. Fitting(f, reg, export, more)
  BY <1>1 DEF Laid, Fitting
<1>5. ReadOf(t, f) /\ t.old = st /\ t.oldReg = reg /\ t.markAbsent = mark /\ Room(t, f, more)
  BY ONLY <1>1, <1>2, <1>3, <1>4, IngestReads
<1>6. \A k \in 1 .. (n - 1) : FeedOrder[k] # f
  <2>1. DOMAIN FeedOrder = 1 .. Len(FeedOrder)
    BY FeedsFinite
  <2>2. \A i, j \in DOMAIN FeedOrder : FeedOrder[i] = FeedOrder[j] => i = j
    BY AssetSourcesAssumption
  <2> QED
    BY <1>1, <2>1, <2>2, FeedsFinite
<1>7. \A r \in Rows : r[1] = f => ~st[r].exists
  BY <1>6 DEF Laid
<1>8. /\ \A r \in Rows : r[1] # f => t.st[r] = st[r]
      /\ \A r \in Rows : r[1] = f /\ r[2] \in t.seen => t.st[r].exists /\ ~t.st[r].absent
      /\ \A r \in Rows : r[1] = f /\ r[2] \notin t.seen =>
           /\ t.st[r].exists = st[r].exists
           /\ t.st[r].absent <=> st[r].absent \/ (t.markAbsent /\ st[r].exists)
      /\ TableFits(t.st) /\ EstateFits(t.reg) /\ LinksFit(t.st, t.reg)
  BY <1>5 DEF ReadOf, Handy
<1>9. \A r \in Rows : ~st[r].absent
  BY DEF Laid
<1>10. \A r \in Rows : ~t.st[r].absent
  BY <1>7, <1>8, <1>9
<1>11. ASSUME NEW r \in Rows, \A k \in 1 .. n : FeedOrder[k] # r[1] PROVE ~t.st[r].exists
  <2>1. r[1] # f /\ \A k \in 1 .. (n - 1) : FeedOrder[k] # r[1]
    BY <1>1, <1>11
  <2> QED
    BY <1>8, <2>1 DEF Laid
<1>12. Cardinality(Spare(t.reg)) >= more \/ \A g \in Feeds : ~(source[g].auto /\ source[g].creates)
  BY <1>1, <1>5 DEF Room
<1> QED
  BY <1>8, <1>10, <1>11, <1>12 DEF Laid

LEMMA ReadWhole ==
  ASSUME NEW export \in Exports, NEW empty, NEW total, total = Len(FeedOrder) * Len(export), Laid(empty, 0, total),
         \A f, g \in Feeds : source[f].auto /\ source[f].creates <=> source[g].auto /\ source[g].creates,
         NEW t, t = ReadInTurn(export, empty)
  PROVE  Laid(t, Len(FeedOrder), 0)
<1> PICK N : N = Len(FeedOrder)
  OBVIOUS
<1> PICK len : len = Len(export)
  OBVIOUS
<1>0. N \in Nat /\ len \in Nat /\ export \in Seq(Entries)
  BY FeedsFinite, AssetSourcesAssumption, LenProperties
<1> DEFINE Ready(s, n) == Laid(s, n, (N - n) * len)
<1>1. PICK g : /\ g[0] = empty
               /\ \A n \in 1 .. Len(FeedOrder) : g[n] = OnceMore(n, export, g[n - 1])
               /\ ReadInTurn(export, empty) = g[Len(FeedOrder)]
  <2> HIDE DEF Ready
  <2> QED BY ReadingUnfolds
<1>2. Ready(g[0], 0)
  <2>1. (N - 0) * len = total
    BY <1>0
  <2> QED
    BY <1>1, <2>1
<1> DEFINE B == {n \in 0 .. N : ~Ready(g[n], n)}
<1>3. SUFFICES ASSUME B # {} PROVE FALSE
  <2>1. N \in 0 .. N /\ (N - N) * len = 0
    BY <1>0
  <2>2. B = {} => Ready(g[N], N)
    <3> HIDE DEF Ready
    <3> QED BY <2>1
  <2>3. t = g[N]
    BY <1>1
  <2>4. Ready(g[N], N) <=> Laid(g[N], N, (N - N) * len)
    OBVIOUS
  <2> HIDE DEF B, Ready
  <2> QED
    BY <2>1, <2>2, <2>3, <2>4
<1>4. PICK m \in B : \A k \in B : m <= k
  <2>1. B \in SUBSET Nat
    BY <1>0
  <2> HIDE DEF B
  <2> QED
    BY <1>3, <2>1, LeastNatural
<1>5. m \in 0 .. N /\ ~Ready(g[m], m) /\ \A k \in 0 .. N : ~Ready(g[k], k) => m <= k
  <2> HIDE DEF Ready
  <2> QED BY <1>4
<1>6. m # 0
  <2> HIDE DEF Ready
  <2> QED BY <1>2, <1>5
<1>7. m - 1 \in 0 .. N /\ m \in 1 .. N /\ ~(m <= m - 1) /\ N - m \in Nat /\ N - (m - 1) = (N - m) + 1
  BY <1>0, <1>5, <1>6
<1>8. Ready(g[m - 1], m - 1)
  <2> HIDE DEF Ready
  <2> QED BY <1>5, <1>7
<1> PICK s : s = g[m - 1]
  OBVIOUS
<1> PICK left : left = N - m
  OBVIOUS
<1> PICK more : more = left * len
  OBVIOUS
<1> PICK enough : enough = len + more
  OBVIOUS
<1>9. left \in Nat /\ more \in Nat /\ (left + 1) * len = enough
  <2>1. left \in Nat
    BY <1>7
  <2>2. \A a, b \in Nat : a * b \in Nat /\ (a + 1) * b = b + a * b
    OBVIOUS
  <2> QED
    BY <1>0, <2>1, <2>2
<1>10. Laid(s, m - 1, enough)
  <2>1. Laid(s, m - 1, (N - (m - 1)) * len)
    BY <1>8
  <2>2. N - (m - 1) = left + 1
    BY <1>7
  <2> QED
    BY ONLY <1>9, <2>1, <2>2
<1>11. g[m] = OnceMore(m, export, s) /\ m \in 1 .. Len(FeedOrder) /\ enough = Len(export) + more
  BY <1>1, <1>7
<1> PICK z : z = g[m]
  OBVIOUS
<1>12. z = OnceMore(m, export, s) /\ m \in 1 .. Len(FeedOrder) /\ enough = Len(export) + more /\ more \in Nat /\ export \in Exports
  BY <1>9, <1>11
<1>13. \A f, h \in Feeds : source[f].auto /\ source[f].creates <=> source[h].auto /\ source[h].creates
  OBVIOUS
<1>14. Laid(z, m, more)
  BY ONLY <1>10, <1>12, <1>13, OneMoreRead
<1>15. Ready(g[m], m)
  BY <1>14
<1> QED
  <2> HIDE DEF Ready
  <2> QED BY <1>5, <1>15

\* Before the first reading.
LEMMA Untouched ==
  ASSUME work = [w \in Feeds \cup {"operator"} |-> Resting],
         NEW asset, asset \in {BlankAsset, [BlankAsset EXCEPT !.exists = TRUE, !.host = FirstHost]},
         NEW empty, empty = [st  |-> [r \in Rows |-> BlankRow], reg |-> [i \in AssetIds |-> IF i = 1 THEN asset ELSE BlankAsset]],
         NEW total \in Nat, total + 1 <= MaxAssets
  PROVE  Laid(empty, 0, total)
<1> PICK st : st = empty.st
  OBVIOUS
<1> PICK reg : reg = empty.reg
  OBVIOUS
<1>1. /\ DOMAIN st = Rows /\ \A r \in Rows : st[r] = BlankRow
      /\ DOMAIN reg = AssetIds /\ \A i \in AssetIds : reg[i] = IF i = 1 THEN asset ELSE BlankAsset
  OBVIOUS
<1>2. \A r \in Rows : RowFits(r, BlankRow)
  BY DEF RowFits, BlankRow, RowColumns, Nothing, NoAsset
<1>3. ~BlankRow.absent /\ ~BlankRow.exists /\ BlankRow.asset = NoAsset
  BY DEF BlankRow
<1>4. AssetFits(asset) /\ AssetFits(BlankAsset) /\ ~BlankAsset.exists
  <2>1. AssetFits(BlankAsset) /\ ~BlankAsset.exists
    BY DEF AssetFits, BlankAsset, Nothing
  <2> PICK z : z = [BlankAsset EXCEPT !.exists = TRUE, !.host = FirstHost]
    OBVIOUS
  <2>2. DOMAIN z = DOMAIN BlankAsset /\ z.exists = TRUE /\ z.site = Nothing /\ z.slugs = {}
    BY DEF BlankAsset
  <2>3. AssetFits(z)
    BY <2>1, <2>2 DEF AssetFits
  <2>4. asset \in {BlankAsset, z}
    OBVIOUS
  <2> QED
    BY <2>1, <2>3, <2>4
<1>5. TableFits(st) /\ EstateFits(reg) /\ LinksFit(st, reg)
  BY <1>1, <1>2, <1>3, <1>4 DEF TableFits, EstateFits, LinksFit
<1>6. 2 .. MaxAssets \subseteq Spare(reg)
  <2>1. \A w \in DOMAIN work : work[w].kind = "none"
    BY DEF Resting
  <2>2. Taken(reg) \subseteq {i \in AssetIds : reg[i].exists}
    BY <2>1 DEF Taken
  <2>3. \A i \in 2 .. MaxAssets : i \in AssetIds /\ i # 1 /\ ~reg[i].exists
    BY <1>1, <1>4, AssetsNumbered DEF AssetIds
  <2> QED
    BY <2>2, <2>3 DEF Spare
<1>7. Cardinality(Spare(reg)) >= total
  <2>1. MaxAssets \in Nat
    BY AssetsNumbered
  <2> PICK b \in Int : b = MaxAssets
    BY <2>1
  <2>2. Cardinality(2 .. b) = IF 2 > b THEN 0 ELSE b - 2 + 1
    <3>1. 2 \in Int /\ b \in Int
      OBVIOUS
    <3> QED
      BY ONLY <3>1, FS_Interval
  <2>3. IsFiniteSet(Spare(reg)) /\ Cardinality(Spare(reg)) \in Nat
    BY SpareFinite
  <2>4. Cardinality(2 .. MaxAssets) <= Cardinality(Spare(reg))
    BY <1>6, <2>3, FS_Subset
  <2> QED
    BY <2>1, <2>2, <2>3, <2>4
<1>8. /\ \A r \in Rows : ~st[r].absent
      /\ \A r \in Rows : ~st[r].exists
  BY <1>1, <1>3
<1>9. empty.st = st /\ empty.reg = reg
  OBVIOUS
<1> QED
  BY <1>5, <1>7, <1>8, <1>9 DEF Laid

LEMMA SourcesInitially == SourcesInit => SourcesInv
<1> SUFFICES ASSUME SourcesInit PROVE SourcesInv
  OBVIOUS
<1> PICK auto \in BOOLEAN, export \in Exports, asset \in {BlankAsset, [BlankAsset EXCEPT !.exists = TRUE, !.host = FirstHost]} :
      /\ source = [f \in Feeds |->
                     [exists |-> TRUE, enabled |-> TRUE, auto |-> auto, creates |-> auto, narrowed |-> FALSE,
                      priority |-> CHOOSE i \in DOMAIN FeedOrder : FeedOrder[i] = f, failed |-> FALSE]]
      /\ work = [w \in Feeds \cup {"operator"} |-> Resting]
      /\ LET read == ReadInTurn(export, [st  |-> [r \in Rows |-> BlankRow],
                                        reg |-> [i \in AssetIds |-> IF i = 1 THEN asset ELSE BlankAsset]])
         IN  staged = read.st /\ register = read.reg
      /\ unlisted = {} /\ turns = 0
  BY DEF SourcesInit
<1> PICK empty : empty = [st  |-> [r \in Rows |-> BlankRow], reg |-> [i \in AssetIds |-> IF i = 1 THEN asset ELSE BlankAsset]]
  OBVIOUS
<1> PICK read : read = ReadInTurn(export, empty)
  OBVIOUS
<1> PICK total : total = Len(FeedOrder) * Len(export)
  OBVIOUS
<1>1. staged = read.st /\ register = read.reg
  OBVIOUS
<1>2. \A f \in Feeds :
        /\ DOMAIN source[f] = SourceColumns /\ source[f].exists = TRUE /\ source[f].auto = auto /\ source[f].creates = auto
        /\ source[f].priority = CHOOSE i \in DOMAIN FeedOrder : FeedOrder[i] = f
  BY DEF SourceColumns
<1>3. \A f \in Feeds : source[f].priority \in 1 .. Len(FeedOrder)
  <2> TAKE f \in Feeds
  <2>1. DOMAIN FeedOrder = 1 .. Len(FeedOrder)
    BY FeedsFinite
  <2>2. \E i \in DOMAIN FeedOrder : FeedOrder[i] = f
    BY DEF Feeds
  <2>3. (CHOOSE i \in DOMAIN FeedOrder : FeedOrder[i] = f) \in DOMAIN FeedOrder
    BY ONLY <2>2
  <2> QED
    BY <1>2, <2>1, <2>3
<1>4. total \in Nat /\ total + 1 <= MaxAssets
  <2>1. /\ Len(FeedOrder) \in Nat /\ Len(export) \in Nat /\ MaxAssets \in Nat
        /\ 1 + Len(FeedOrder) * Len(export) <= MaxAssets
    BY FeedsFinite, AssetsNumbered, AssetSourcesAssumption, LenProperties
  <2>2. \A a, b \in Nat : a * b \in Nat
    OBVIOUS
  <2> QED
    BY <2>1, <2>2
<1>5. Laid(empty, 0, total)
  <2>1. /\ work = [w \in Feeds \cup {"operator"} |-> Resting]
        /\ asset \in {BlankAsset, [BlankAsset EXCEPT !.exists = TRUE, !.host = FirstHost]}
        /\ empty = [st  |-> [r \in Rows |-> BlankRow], reg |-> [i \in AssetIds |-> IF i = 1 THEN asset ELSE BlankAsset]]
    OBVIOUS
  <2> QED
    BY ONLY <1>4, <2>1, Untouched
<1>6. \A f, g \in Feeds : source[f].auto /\ source[f].creates <=> source[g].auto /\ source[g].creates
  BY <1>2
<1>7. read = ReadInTurn(export, empty) /\ total = Len(FeedOrder) * Len(export) /\ export \in Exports
  OBVIOUS
<1>8. Laid(read, Len(FeedOrder), 0)
  BY ONLY <1>5, <1>6, <1>7, ReadWhole
<1>9. DOMAIN source = Feeds
  OBVIOUS
<1>10. CommittedFits(source, staged, register, unlisted)
  <2>1. /\ TableFits(staged) /\ EstateFits(register) /\ LinksFit(staged, register)
        /\ \A r \in Rows : ~staged[r].absent
    BY <1>1, <1>8 DEF Laid
  <2>2. unlisted \subseteq Rows /\ \A r \in Rows : staged[r].absent <=> r \in unlisted
    BY <2>1
  <2>3. \A r \in Rows : source[r[1]].exists
    BY <1>2, RowNumbers
  <2> QED
    BY <1>2, <1>3, <1>9, <2>1, <2>2, <2>3 DEF CommittedFits
<1>11. turns \in 0 .. MaxTurns
  BY AssetSourcesAssumption
<1>12. DOMAIN work = Feeds \cup {"operator"} /\ \A w \in Feeds \cup {"operator"} : work[w].kind = "none"
  BY DEF Resting
<1> QED
  BY <1>10, <1>11, <1>12 DEF SourcesInv

(* A preview. *)

\* A preview beside the sync it previews: the same counts, the same register, and the
\* same rows but those the sync has written.
Abreast(a, b, f, st, reg) ==
  /\ DOMAIN a = TxColumns /\ DOMAIN b = TxColumns /\ a.seen = b.seen /\ a.n = b.n
  /\ a.reg = reg /\ b.reg = reg /\ a.old = st /\ b.old = st /\ a.st = st /\ DOMAIN b.st = Rows
  /\ \A r \in Rows : r[1] # f \/ r[2] \notin b.seen => b.st[r] = st[r]

LEMMA ResolvesAlike ==
  ASSUME NEW a, NEW b, NEW f, NEW said, a.reg = b.reg, \A r \in Rows : r[1] # f => a.st[r] = b.st[r]
  PROVE  Resolve(a, f, said) = Resolve(b, f, said)
<1> DEFINE hit == ResolveAsset(a.reg, said)
           kin   == Siblings(a.st, f, said)
           kith  == Siblings(b.st, f, said)
           r     == CHOOSE s \in kin : TRUE
           other == {q \in Rows : q[1] # f}
<1>1. kin = kith
  <2> DEFINE sharing(s) == {q \in Rows : q[1] # f /\ s[q].exists /\ s[q].answers \cap Answers(said) # {}}
             tied(s)  == {q \in sharing(s) : s[q].asset # NoAsset}
  <2>1. sharing(a.st) = sharing(b.st)
    OBVIOUS
  <2>2. tied(a.st) = tied(b.st)
    OBVIOUS
  <2>3. kin = (IF tied(a.st) # {} THEN tied(a.st) ELSE sharing(a.st))
    BY DEF Siblings
  <2>4. kith = (IF tied(b.st) # {} THEN tied(b.st) ELSE sharing(b.st))
    BY DEF Siblings
  <2> HIDE DEF sharing, tied, kin, kith
  <2> QED
    BY <2>1, <2>2, <2>3, <2>4
<1>2. kin \subseteq other
  BY DEF Siblings
<1>3. Resolve(a, f, said) =
        IF hit # NoAsset \/ kin = {} THEN [asset |-> hit, identity |-> Identity(said)]
        ELSE IF a.st[r].asset # NoAsset THEN [asset |-> a.st[r].asset, identity |-> Identity(said)]
        ELSE [asset |-> NoAsset, identity |-> Or(a.st[r].identity, Identity(said))]
  BY DEF Resolve
<1>4. Resolve(b, f, said) =
        IF hit # NoAsset \/ kin = {} THEN [asset |-> hit, identity |-> Identity(said)]
        ELSE IF b.st[r].asset # NoAsset THEN [asset |-> b.st[r].asset, identity |-> Identity(said)]
        ELSE [asset |-> NoAsset, identity |-> Or(b.st[r].identity, Identity(said))]
  <2>1. Resolve(b, f, said) =
          LET s == CHOOSE q \in kith : TRUE IN
          IF ResolveAsset(b.reg, said) # NoAsset \/ kith = {} THEN [asset |-> ResolveAsset(b.reg, said), identity |-> Identity(said)]
          ELSE IF b.st[s].asset # NoAsset THEN [asset |-> b.st[s].asset, identity |-> Identity(said)]
          ELSE [asset |-> NoAsset, identity |-> Or(b.st[s].identity, Identity(said))]
    BY DEF Resolve
  <2>2. ResolveAsset(b.reg, said) = hit
    OBVIOUS
  <2> HIDE DEF kin, kith, hit
  <2> QED
    BY <1>1, <2>1, <2>2
<1>5. kin # {} => r \in other
  <2>1. kin # {} => r \in kin
    <3> HIDE DEF kin
    <3> QED OBVIOUS
  <2> HIDE DEF kin, r, other
  <2> QED
    BY <1>2, <2>1
<1>6. kin # {} => a.st[r] = b.st[r]
  BY <1>5
<1> HIDE DEF kin, hit, r
<1> QED
  BY <1>3, <1>4, <1>6

Counted(tx, k, x, y) ==
  [tx EXCEPT !.seen = @ \cup {k}, !.n.unchanged = @ + 1, !.n.matched = @ + x, !.n.unmatched = @ + y]

Recounted(n, x, y) == [n EXCEPT !.unchanged = @ + 1, !.matched = @ + x, !.unmatched = @ + y]

LEMMA SameCounted ==
  ASSUME NEW tx, DOMAIN tx = TxColumns, NEW k, NEW x, NEW y, NEW z, z = Counted(tx, k, x, y)
  PROVE  /\ DOMAIN z = TxColumns /\ z.seen = tx.seen \cup {k} /\ z.reg = tx.reg /\ z.old = tx.old /\ z.st = tx.st
         /\ z.n = Recounted(tx.n, x, y)
BY DEF TxColumns, Counted, Recounted

LEMMA AbreastStep ==
  ASSUME NEW f \in Feeds, ~source[f].auto, NEW st, NEW reg, NEW a, NEW b, Abreast(a, b, f, st, reg),
         DOMAIN st = Rows, NEW e \in Entries, NEW dry, dry, NEW wet, ~wet,
         NEW s, s = IngestRecord(a, f, e, dry), NEW t, t = IngestRecord(b, f, e, wet)
  PROVE  Abreast(s, t, f, st, reg)
<1> DEFINE r    == <<f, e.key>>
           row  == st[r]
           said == Narrow(Normalized(f, e), source[f].narrowed)
           to   == Resolve(a, f, said)
           sr   == Staged(row, said, e, to)
           m    == Tally(a.n, st[r], to.asset)
           same(tx) == [tx EXCEPT !.seen = @ \cup {e.key}, !.n.unchanged = @ + 1,
                              !.n.matched = @ + (IF row.asset # NoAsset THEN 1 ELSE 0),
                              !.n.unmatched = @ + (IF row.asset = NoAsset THEN 1 ELSE 0)]
           next(tx) == [tx EXCEPT !.seen = @ \cup {e.key}, !.n = m, !.st[r] = sr]
<1>1. e.key \in ExternalKeys /\ r \in Rows /\ r[1] = f /\ r[2] = e.key
  BY DEF Entries, Rows
<1>2. /\ DOMAIN a = TxColumns /\ DOMAIN b = TxColumns /\ a.seen = b.seen /\ a.n = b.n
      /\ a.reg = reg /\ b.reg = reg /\ a.old = st /\ b.old = st /\ a.st = st /\ DOMAIN b.st = Rows
      /\ \A q \in Rows : q[1] # f \/ q[2] \notin b.seen => b.st[q] = st[q]
  BY DEF Abreast
<1>3. CASE e.key \in a.seen
  <2>1. s = [a EXCEPT !.n.rejected = @ + 1] /\ t = [b EXCEPT !.n.rejected = @ + 1]
    BY <1>2, <1>3 DEF IngestRecord
  <2>2. /\ DOMAIN s = TxColumns /\ s.seen = a.seen /\ s.reg = a.reg /\ s.old = a.old /\ s.st = a.st
        /\ s.n = [a.n EXCEPT !.rejected = @ + 1]
        /\ DOMAIN t = TxColumns /\ t.seen = b.seen /\ t.reg = b.reg /\ t.old = b.old /\ t.st = b.st
        /\ t.n = [b.n EXCEPT !.rejected = @ + 1]
    BY <1>2, <2>1 DEF TxColumns
  <2> QED
    BY <1>2, <2>2 DEF Abreast
<1>4. CASE e.key \notin a.seen
  <2>1. b.st[r] = st[r]
    BY <1>1, <1>2, <1>4
  <2>2. Resolve(b, f, said) = to
    <3>1. a.reg = b.reg /\ \A q \in Rows : q[1] # f => a.st[q] = b.st[q]
      BY <1>2
    <3> HIDE DEF said
    <3> QED
      BY <3>1, ResolvesAlike
  <2>3. CASE Unchanged(row, said, e)
    <3>1. s = same(a) /\ t = same(b)
      BY <1>2, <1>4, <2>1, <2>3 DEF IngestRecord
    <3> PICK x : x = IF row.asset # NoAsset THEN 1 ELSE 0
      OBVIOUS
    <3> PICK y : y = IF row.asset = NoAsset THEN 1 ELSE 0
      OBVIOUS
    <3> DEFINE z == Recounted(a.n, x, y)
    <3> HIDE DEF row
    <3>2. /\ DOMAIN s = TxColumns /\ s.seen = a.seen \cup {e.key} /\ s.reg = a.reg /\ s.old = a.old /\ s.st = a.st
          /\ s.n = z
      <4>1. s = Counted(a, e.key, x, y)
        BY <3>1 DEF Counted
      <4>2. /\ DOMAIN s = TxColumns /\ s.seen = a.seen \cup {e.key} /\ s.reg = a.reg /\ s.old = a.old /\ s.st = a.st
            /\ s.n = Recounted(a.n, x, y)
        <5>1. DOMAIN a = TxColumns
          BY <1>2
        <5> QED
          BY ONLY <4>1, <5>1, SameCounted
      <4> QED
        BY <4>2
    <3>3. /\ DOMAIN t = TxColumns /\ t.seen = b.seen \cup {e.key} /\ t.reg = b.reg /\ t.old = b.old /\ t.st = b.st
          /\ t.n = z
      <4>1. t = Counted(b, e.key, x, y)
        BY <3>1 DEF Counted
      <4>2. /\ DOMAIN t = TxColumns /\ t.seen = b.seen \cup {e.key} /\ t.reg = b.reg /\ t.old = b.old /\ t.st = b.st
            /\ t.n = Recounted(b.n, x, y)
        BY <1>2, <4>1, SameCounted
      <4> QED
        BY <1>2, <4>2
    <3> HIDE DEF z
    <3> QED
      BY <1>2, <3>2, <3>3 DEF Abreast
  <2>4. CASE ~Unchanged(row, said, e)
    <3>1. s = [next(a) EXCEPT !.st = a.st]
      <4>1. a.st[r] = row /\ a.old[r] = row
        BY <1>2
      <4> QED
        BY <1>2, <1>4, <2>4, <4>1 DEF IngestRecord
    <3>2. t = next(b)
      BY <1>2, <1>4, <2>1, <2>2, <2>4 DEF IngestRecord
    <3> HIDE DEF r, row, said, to, sr, m
    <3>3. /\ DOMAIN s = TxColumns /\ s.seen = a.seen \cup {e.key} /\ s.reg = a.reg /\ s.old = a.old /\ s.st = a.st
          /\ s.n = m
      BY <1>2, <3>1 DEF TxColumns
    <3>4. /\ DOMAIN t = TxColumns /\ t.seen = b.seen \cup {e.key} /\ t.reg = b.reg /\ t.old = b.old
          /\ t.st = [b.st EXCEPT ![r] = sr] /\ t.n = m
      BY <1>2, <3>2 DEF TxColumns
    <3>5. DOMAIN t.st = Rows /\ \A q \in Rows : q # r => t.st[q] = b.st[q]
      BY <1>2, <3>4
    <3>6. \A q \in Rows : q[1] # f \/ q[2] \notin t.seen => t.st[q] = st[q]
      <4> SUFFICES ASSUME NEW q \in Rows, q[1] # f \/ q[2] \notin t.seen PROVE t.st[q] = st[q]
        OBVIOUS
      <4>1. q # r /\ (q[1] # f \/ q[2] \notin b.seen)
        BY <1>1, <3>4
      <4> QED
        BY <1>2, <3>5, <4>1
    <3> QED
      BY <1>2, <3>3, <3>4, <3>5, <3>6 DEF Abreast
  <2> QED
    BY <2>3, <2>4
<1> QED
  BY <1>3, <1>4

LEMMA CountsAgree ==
  ASSUME NEW f \in Feeds, ~source[f].auto, NEW st, NEW reg, DOMAIN st = Rows, NEW export \in Seq(Entries), NEW mark,
         NEW dry, dry, NEW wet, ~wet
  PROVE  Ingest(f, export, mark, dry, st, reg).n = Ingest(f, export, mark, wet, st, reg).n
<1> PICK N : N = Len(export)
  OBVIOUS
<1>0. N \in Nat /\ Len(export) \in Nat /\ \A n \in 1 .. N : export[n] \in Entries
  BY LenProperties, ElementOfSeq
<1>1. PICK g : Unfolds(g, f, export, dry, st, reg)
  BY <1>0, IngestingUnfolds
<1>2. PICK h : Unfolds(h, f, export, wet, st, reg)
  BY <1>0, IngestingUnfolds
<1>3. Abreast(g[0], h[0], f, st, reg)
  BY <1>1, <1>2 DEF Unfolds, Abreast, Begun, TxColumns
<1> DEFINE B == {n \in 0 .. N : ~Abreast(g[n], h[n], f, st, reg)}
<1>4. B = {}
  <2> SUFFICES ASSUME B # {} PROVE FALSE
    OBVIOUS
  <2>1. B \in SUBSET Nat
    BY <1>0
  <2>2. PICK m \in B : \A k \in B : m <= k
    <3> HIDE DEF B
    <3> QED BY <2>1, LeastNatural
  <2>3. m \in 0 .. N /\ ~Abreast(g[m], h[m], f, st, reg) /\ \A k \in 0 .. N : ~Abreast(g[k], h[k], f, st, reg) => m <= k
    BY <2>2
  <2>4. m # 0
    BY <1>3, <2>3
  <2>5. m - 1 \in 0 .. N /\ m \in 1 .. N /\ ~(m <= m - 1)
    BY <1>0, <2>3, <2>4
  <2>6. Abreast(g[m - 1], h[m - 1], f, st, reg)
    BY <2>3, <2>5
  <2> PICK a : a = g[m - 1]
    OBVIOUS
  <2> PICK b : b = h[m - 1]
    OBVIOUS
  <2> PICK e : e = export[m]
    OBVIOUS
  <2> PICK s : s = g[m]
    OBVIOUS
  <2> PICK t : t = h[m]
    OBVIOUS
  <2>7. s = IngestRecord(a, f, e, dry) /\ t = IngestRecord(b, f, e, wet) /\ e \in Entries /\ dry /\ ~wet
    BY <1>0, <1>1, <1>2, <2>5 DEF Unfolds
  <2>8. Abreast(a, b, f, st, reg) /\ f \in Feeds /\ ~source[f].auto /\ DOMAIN st = Rows
    BY <2>6
  <2>9. Abreast(s, t, f, st, reg)
    BY ONLY <2>7, <2>8, AbreastStep
  <2> QED
    BY <2>3, <2>9
<1> PICK a : a = Ingested(f, export, dry, st, reg)
  OBVIOUS
<1> PICK b : b = Ingested(f, export, wet, st, reg)
  OBVIOUS
<1>5. Abreast(a, b, f, st, reg)
  <2>1. N \in 0 .. N
    BY <1>0
  <2>2. Abreast(g[N], h[N], f, st, reg)
    BY <1>4, <2>1
  <2> QED
    BY <1>1, <1>2, <2>2 DEF Unfolds
<1>6. DOMAIN a = TxColumns /\ DOMAIN b = TxColumns /\ a.n = b.n /\ Missing(a, f) = Missing(b, f)
  BY <1>5 DEF Abreast, Missing
<1> DEFINE gone(tx) == IF mark THEN Missing(tx, f) ELSE {}
           rows(tx, d) == [r \in Rows |-> IF r \in gone(tx) /\ ~d THEN [tx.st[r] EXCEPT !.absent = TRUE] ELSE tx.st[r]]
<1>7. /\ Ingest(f, export, mark, dry, st, reg) = [a EXCEPT !.n.absent = Cardinality(gone(a)), !.markAbsent = mark, !.st = rows(a, dry)]
      /\ Ingest(f, export, mark, wet, st, reg) = [b EXCEPT !.n.absent = Cardinality(gone(b)), !.markAbsent = mark, !.st = rows(b, wet)]
  BY DEF Ingest
<1>8. gone(a) = gone(b)
  BY <1>6
<1> HIDE DEF gone, rows
<1>9. /\ Ingest(f, export, mark, dry, st, reg).n = [a.n EXCEPT !.absent = Cardinality(gone(a))]
      /\ Ingest(f, export, mark, wet, st, reg).n = [b.n EXCEPT !.absent = Cardinality(gone(b))]
  BY <1>6, <1>7 DEF TxColumns
<1> QED
  BY <1>6, <1>8, <1>9

(* What follows. *)

LEMMA SourcesFollows == SourcesInv => SourcesTypeOK /\ AssetsAreReconciled
<1> SUFFICES ASSUME SourcesInv PROVE SourcesTypeOK /\ AssetsAreReconciled
  OBVIOUS
<1>1. /\ TableFits(staged) /\ EstateFits(register) /\ LinksFit(staged, register)
      /\ unlisted \subseteq Rows /\ \A r \in Rows : staged[r].absent <=> r \in unlisted
      /\ \A r \in Rows : staged[r].exists => source[r[1]].exists
  BY DEF SourcesInv, CommittedFits
<1>2. SourcesTypeOK
  <2>1. \A r \in Rows : RowFits(r, staged[r])
    BY <1>1 DEF TableFits
  <2>2. \A i \in AssetIds : AssetFits(register[i])
    BY <1>1 DEF EstateFits
  <2>3. turns \in 0 .. MaxTurns
    BY DEF SourcesInv
  <2> QED
    BY <1>1, <2>1, <2>2, <2>3 DEF SourcesTypeOK, RowFits, AssetFits
<1>3. LinksLead
  BY <1>1 DEF LinksLead, LinksFit
<1>4. AbsenceIsStated
  BY <1>1 DEF AbsenceIsStated
<1>5. PreviewsAgree
  <2> SUFFICES ASSUME NEW f \in Feeds, NEW export \in Exports, ~source[f].auto
               PROVE  Previewed(f, export, TRUE) = Previewed(f, export, FALSE)
    BY DEF PreviewsAgree
  <2> PICK mark : mark = TRUE
    OBVIOUS
  <2> PICK dry : dry = TRUE
    OBVIOUS
  <2> PICK wet : wet = FALSE
    OBVIOUS
  <2> PICK st : st = staged
    OBVIOUS
  <2> PICK reg : reg = register
    OBVIOUS
  <2>1. DOMAIN st = Rows /\ export \in Seq(Entries) /\ dry /\ ~wet
    BY <1>1, AssetSourcesAssumption DEF TableFits
  <2>2. f \in Feeds /\ ~source[f].auto
    OBVIOUS
  <2>3. Ingest(f, export, mark, dry, st, reg).n = Ingest(f, export, mark, wet, st, reg).n
    BY <2>1, <2>2, CountsAgree
  <2> QED
    BY <2>3 DEF Previewed
<1>6. PriorityDecides
  <2> PICK tx : tx = work["operator"]
    OBVIOUS
  <2> SUFFICES ASSUME tx.kind = "promotion", NEW i \in AssetIds, Stating(tx, i) # {}
               PROVE  \E best \in Stating(tx, i) :
                        /\ tx.reg[i].site = tx.st[best].site
                        /\ \A r \in Stating(tx, i) : source[best[1]].priority <= source[r[1]].priority
    BY DEF PriorityDecides
  <2>1. DecidedBy(source, tx, tx.rows, i)
    <3>1. work["operator"].kind # "none"
      OBVIOUS
    <3>2. PromotionFits(work["operator"], register, source)
      BY <3>1 DEF SourcesInv
    <3> QED
      BY <3>2 DEF PromotionFits
  <2>2. Stating(tx, i) = Among(tx, tx.rows, i)
    BY DEF Stating, Among
  <2> QED
    BY <2>1, <2>2 DEF DecidedBy
<1>7. HostsAreRegisteredOnce
  <2> SUFFICES ASSUME NEW w \in DOMAIN work, work[w].kind # "none"
               PROVE  LET tx == work[w] IN
                      \A i, j \in Live(tx.reg) :
                        i # j /\ ~tx.oldReg[i].exists /\ tx.reg[i].host = tx.reg[j].host
                          => \/ tx.oldReg[j].exists /\ tx.oldReg[j].host # tx.reg[j].host
                             \/ \E r \in Handled(w) : tx.st[r].asset \in {i, j} /\ tx.st[r].host \notin {Nothing, tx.reg[i].host}
    BY DEF HostsAreRegisteredOnce
  <2> PICK tx : tx = work[w]
    OBVIOUS
  <2>1. NamesFit(tx, Handled(w))
    <3>1. CASE w \in Feeds
      <4>1. ReadFits(work[w], w, staged, register, source[w].exists)
        BY <3>1 DEF SourcesInv
      <4>2. NamesFit(tx, {<<w, k>> : k \in tx.seen})
        BY <4>1 DEF ReadFits, ReadOf
      <4> QED
        BY <3>1, <4>2 DEF Handled
    <3>2. CASE w \notin Feeds
      <4>1. w = "operator"
        BY <3>2 DEF SourcesInv
      <4>2. PromotionFits(work[w], register, source)
        BY <4>1 DEF SourcesInv
      <4>3. NamesFit(tx, tx.rows)
        BY <4>2 DEF PromotionFits
      <4> QED
        BY <3>2, <4>3 DEF Handled
    <3> QED
      BY <3>1, <3>2
  <2> QED
    BY <2>1 DEF NamesFit, Explained
<1> QED
  BY <1>2, <1>3, <1>4, <1>5, <1>6, <1>7 DEF AssetsAreReconciled

\* Over any reachable state of the sources and the register: the sources' tables stay
\* consistent with the register they refer to, and whatever the order in which the sources
\* and the operator's requests commit, the estate stays reconciled (AssetSources).
THEOREM EstateIsReconciled == SourcesSpec => [](SourcesTypeOK /\ AssetsAreReconciled)
<1>1. SourcesInit => SourcesInv
  BY SourcesInitially
<1>2. SourcesInv /\ [SourcesNext]_sourceVars => SourcesInv'
  BY SourcesStep
<1>3. SourcesInv => SourcesTypeOK /\ AssetsAreReconciled
  BY SourcesFollows
<1> QED
  BY <1>1, <1>2, <1>3, PTL DEF SourcesSpec

----------------------------------------------------------------------------
(***************************************************************************)
(* The search for a route.                                                 *)
(***************************************************************************)
Sorting(g, S) ==
  /\ g[0] = <<>> /\ Sorted(S) = g[Len(Alphabet)]
  /\ \A n \in 1 .. Len(Alphabet) : g[n] = IF Alphabet[n] \in S THEN Append(g[n - 1], Alphabet[n]) ELSE g[n - 1]

LEMMA AlphabetFits == Len(Alphabet) \in Nat /\ \A n \in 1 .. Len(Alphabet) : Alphabet[n] \in States
<1>2. Len(Alphabet) \in Nat /\ DOMAIN Alphabet = 1 .. Len(Alphabet)
  <2>1. Len(Alphabet) = 15
    BY DEF Alphabet
  <2>2. DOMAIN Alphabet = 1 .. 15
    BY DEF Alphabet
  <2> QED
    BY <2>1, <2>2
<1> QED
  BY <1>2 DEF States

LEMMA SortingUnfolds ==
  ASSUME NEW S
  PROVE  \E g : Sorting(g, S)
<1> DEFINE N == Len(Alphabet)
           Turned(was, n) == IF Alphabet[n] \in S THEN Append(was, Alphabet[n]) ELSE was
           Is(g, m) == g = [n \in 0 .. m |-> IF n = 0 THEN <<>> ELSE Turned(g[n - 1], n)]
           B == {m \in 0 .. N : ~\E g : Is(g, m)}
<1>0. N \in Nat
  BY AlphabetFits
<1>3. Sorted(S) = (CHOOSE g : Is(g, N))[N]
  BY Zenon DEF Sorted
<1> HIDE DEF N, Turned
<1>1. \E g : Is(g, N)
  <2> SUFFICES ASSUME ~\E g : Is(g, N) PROVE FALSE
    OBVIOUS
  <2>1. B \in SUBSET Nat /\ B # {}
    <3>1. N \in 0 .. N
      BY <1>0
    <3> HIDE DEF Is
    <3>2. B \subseteq 0 .. N /\ N \in B
      BY <3>1
    <3> HIDE DEF B
    <3> QED
      BY <3>2
  <2>2. PICK m \in B : \A k \in B : m <= k
    <3> HIDE DEF B
    <3> QED BY <2>1, LeastNatural
  <2>3. m \in 0 .. N /\ (~\E g : Is(g, m)) /\ \A k \in 0 .. N : (~\E g : Is(g, k)) => m <= k
    <3> HIDE DEF Is
    <3> QED BY <2>2
  <2>4. CASE m = 0
    <3> DEFINE h == [n \in 0 .. 0 |-> <<>>]
    <3>1. h = [n \in 0 .. 0 |-> IF n = 0 THEN <<>> ELSE Turned(h[n - 1], n)]
      OBVIOUS
    <3>2. Is(h, 0)
      BY <3>1
    <3> HIDE DEF Is, h
    <3> QED
      BY <2>3, <2>4, <3>2
  <2>5. CASE m # 0
    <3>1. m - 1 \in 0 .. N /\ m \in Nat /\ ~(m <= m - 1)
      BY <1>0, <2>3, <2>5
    <3>2. \E g : Is(g, m - 1)
      <4> HIDE DEF Is
      <4> QED BY <2>3, <3>1
    <3>3. PICK g : Is(g, m - 1)
      BY <3>2
    <3> DEFINE h == [n \in 0 .. m |-> IF n = m THEN Turned(g[m - 1], m) ELSE g[n]]
    <3>4. /\ DOMAIN g = 0 .. (m - 1) /\ g[0] = <<>>
          /\ \A n \in 0 .. (m - 1) : n # 0 => g[n] = Turned(g[n - 1], n)
      BY <2>5, <3>1, <3>3
    <3>5. \A n \in 0 .. m : h[n] = IF n = 0 THEN <<>> ELSE Turned(h[n - 1], n)
      <4> TAKE n \in 0 .. m
      <4>1. CASE n = m
        <5>1. h[n - 1] = g[m - 1] /\ h[n] = Turned(g[m - 1], m) /\ n # 0
          BY <2>5, <3>1, <4>1
        <5> HIDE DEF h
        <5> QED
          BY <4>1, <5>1
      <4>2. CASE n # m /\ n # 0
        <5>1. h[n] = g[n] /\ n - 1 \in 0 .. m /\ n - 1 # m /\ n \in 0 .. (m - 1)
          BY <3>1, <4>2
        <5>2. h[n - 1] = g[n - 1]
          BY <5>1
        <5> HIDE DEF h
        <5> QED
          BY <3>4, <4>2, <5>1, <5>2
      <4>3. CASE n = 0
        BY <2>5, <3>4, <4>3
      <4> QED
        BY <4>1, <4>2, <4>3
    <3>6. DOMAIN h = 0 .. m /\ h = [n \in 0 .. m |-> h[n]]
      OBVIOUS
    <3> HIDE DEF h
    <3>7. Is(h, m)
      BY <3>5, <3>6
    <3> HIDE DEF Is
    <3> QED
      BY <2>3, <3>7
  <2> QED
    BY <2>4, <2>5
<1>2. Is(CHOOSE g : Is(g, N), N)
  <2> HIDE DEF Is
  <2> QED BY <1>1, Zenon
<1> DEFINE g == CHOOSE g : Is(g, N)
<1>4. Is(g, N)
  BY <1>2
<1>5. Sorted(S) = g[N]
  BY <1>3
<1> HIDE DEF g
<1>6. g[0] = <<>> /\ \A n \in 1 .. N : g[n] = Turned(g[n - 1], n)
  BY <1>0, <1>4
<1>7. Sorting(g, S)
  BY <1>5, <1>6 DEF N, Turned, Sorting
<1> QED
  BY <1>7

\* What sorted() gives is a sequence of states.
LEMMA SortedFits ==
  ASSUME NEW S
  PROVE  Sorted(S) \in Seq(States)
<1>1. PICK g : Sorting(g, S)
  BY SortingUnfolds
<1> PICK N : N = Len(Alphabet)
  OBVIOUS
<1>2. N \in Nat /\ \A n \in 1 .. N : Alphabet[n] \in States
  BY AlphabetFits
<1>3. g[0] \in Seq(States)
  BY <1>1 DEF Sorting
<1> DEFINE B == {n \in 0 .. N : g[n] \notin Seq(States)}
<1>4. B = {}
  <2> SUFFICES ASSUME B # {} PROVE FALSE
    OBVIOUS
  <2>1. B \in SUBSET Nat
    BY <1>2
  <2>2. PICK m \in B : \A k \in B : m <= k
    <3> HIDE DEF B
    <3> QED BY <2>1, LeastNatural
  <2>3. m \in 0 .. N /\ g[m] \notin Seq(States) /\ \A k \in 0 .. N : g[k] \notin Seq(States) => m <= k
    BY <2>2
  <2>4. m # 0
    BY <1>3, <2>3
  <2>5. m - 1 \in 0 .. N /\ m \in 1 .. N /\ ~(m <= m - 1)
    BY <1>2, <2>3, <2>4
  <2>6. g[m - 1] \in Seq(States)
    BY <2>3, <2>5
  <2>7. g[m] = IF Alphabet[m] \in S THEN Append(g[m - 1], Alphabet[m]) ELSE g[m - 1]
    BY <1>1, <2>5 DEF Sorting
  <2>8. Append(g[m - 1], Alphabet[m]) \in Seq(States)
    BY <1>2, <2>5, <2>6, AppendProperties
  <2> QED
    BY <2>3, <2>6, <2>7, <2>8
<1>5. N \in 0 .. N
  BY <1>2
<1> QED
  BY <1>1, <1>4, <1>5 DEF Sorting

Stops == [state : States, trail : Seq(States)]

LEMMA RouteStarts == RouteInit => RouteTypeOK
<1> SUFFICES ASSUME RouteInit PROVE RouteTypeOK
  OBVIOUS
<1>1. [state |-> current, trail |-> <<>>] \in Stops
  BY DEF RouteInit, Stops
<1>2. <<[state |-> current, trail |-> <<>>]>> \in Seq(Stops)
  BY <1>1
<1> QED
  BY <1>2 DEF RouteInit, RouteTypeOK, Stops

LEMMA RouteStep == RouteTypeOK /\ [RouteNext]_routeVars => RouteTypeOK'
<1> SUFFICES ASSUME RouteTypeOK, [RouteNext]_routeVars PROVE RouteTypeOK'
  OBVIOUS
<1>1. queue \in Seq(Stops) /\ current \in States /\ target \in States
  BY DEF RouteTypeOK, Stops
<1>2. Fresh \in Seq(States)
  BY SortedFits DEF Fresh
<1>3. FreshStates \subseteq States
  BY <1>2, ElementOfSeq DEF FreshStates
<1>4. queue # <<>> => Head(queue) \in Stops
  BY <1>1, HeadTailProperties
<1>5. ASSUME queue # <<>>, NEW s \in States PROVE Extended(s) \in Stops
  <2>1. Head(queue).trail \in Seq(States)
    BY <1>4, <1>5 DEF Stops
  <2>2. Append(Head(queue).trail, s) \in Seq(States)
    BY <2>1, AppendProperties
  <2> QED
    BY <2>2 DEF Extended, Stops
<1>6. CASE Return
  <2>1. Extended(target) \in Stops
    BY <1>1, <1>5, <1>6 DEF Return
  <2>2. found' \in Seq(States)
    BY <1>6, <2>1 DEF Return, Stops
  <2> QED
    BY <1>6, <2>2 DEF Return, RouteTypeOK
<1>7. CASE Expand
  <2> DEFINE more == [i \in DOMAIN Fresh |-> Extended(Fresh[i])]
  <2>1. queue # <<>>
    BY <1>7 DEF Expand
  <2>2. Len(Fresh) \in Nat /\ DOMAIN Fresh = 1 .. Len(Fresh) /\ \A i \in 1 .. Len(Fresh) : Fresh[i] \in States
    BY <1>2, LenProperties, ElementOfSeq
  <2>3. more \in [1 .. Len(Fresh) -> Stops]
    <3>1. \A i \in 1 .. Len(Fresh) : Extended(Fresh[i]) \in Stops
      BY <1>5, <2>1, <2>2
    <3> QED
      BY <2>2, <3>1
  <2>4. more \in Seq(Stops)
    <3> HIDE DEF more
    <3> QED
      BY <2>2, <2>3, SeqDef
  <2>5. Tail(queue) \in Seq(Stops)
    BY <1>1, <2>1, HeadTailProperties
  <2>6. Queued \in Seq(Stops)
    <3>1. Queued = Tail(queue) \o more
      BY DEF Queued
    <3> HIDE DEF more
    <3> QED
      BY <2>4, <2>5, <3>1, ConcatProperties
  <2>7. queue' \in Seq(Stops) /\ seen' \subseteq States
    BY <1>3, <1>7, <2>6 DEF Expand, RouteTypeOK
  <2> QED
    BY <1>7, <2>7 DEF Expand, RouteTypeOK, Stops
<1>8. CASE UNCHANGED routeVars
  BY <1>8 DEF routeVars, RouteTypeOK
<1> QED
  BY <1>6, <1>7, <1>8 DEF RouteNext
\* What sorted() gives are the states of the set, each of them.
LEMMA SortedKeeps ==
  ASSUME NEW S \in SUBSET States
  PROVE  {Sorted(S)[i] : i \in DOMAIN Sorted(S)} = S
<1>1. PICK g : Sorting(g, S)
  BY SortingUnfolds
<1> PICK N : N = Len(Alphabet)
  OBVIOUS
<1>2. N \in Nat /\ \A n \in 1 .. N : Alphabet[n] \in States
  BY AlphabetFits
<1> DEFINE Elements(s) == {s[i] : i \in DOMAIN s}
           First(n) == {Alphabet[j] : j \in 1 .. n}
           Fits(n) == g[n] \in Seq(States) /\ Elements(g[n]) = S \cap First(n)
           B == {n \in 0 .. N : ~Fits(n)}
<1>3. Fits(0)
  <2>1. g[0] = <<>>
    BY <1>1 DEF Sorting
  <2>2. Elements(<<>>) = {} /\ First(0) = {}
    OBVIOUS
  <2> QED
    BY <2>1, <2>2
<1>4. ASSUME NEW m \in 1 .. N, Fits(m - 1) PROVE Fits(m)
  <2>1. g[m] = IF Alphabet[m] \in S THEN Append(g[m - 1], Alphabet[m]) ELSE g[m - 1]
    BY <1>1, <1>2 DEF Sorting
  <2>2. First(m) = First(m - 1) \cup {Alphabet[m]}
    BY <1>2
  <2>3. CASE Alphabet[m] \notin S
    BY <1>4, <2>1, <2>2, <2>3
  <2>4. CASE Alphabet[m] \in S
    <3> PICK q : q = g[m - 1]
      OBVIOUS
    <3> PICK a : a = Alphabet[m]
      OBVIOUS
    <3>1. q \in Seq(States) /\ a \in States
      BY <1>2, <1>4
    <3>2. Append(q, a) \in Seq(States)
      BY <3>1, AppendProperties
    <3>3. Elements(Append(q, a)) = Elements(q) \cup {a}
      <4> PICK n : n = Len(q)
        OBVIOUS
      <4> PICK w : w = Append(q, a)
        OBVIOUS
      <4>1. n \in Nat /\ DOMAIN q = 1 .. n
        BY <3>1, LenProperties
      <4>2. DOMAIN w = 1 .. n + 1 /\ w[n + 1] = a /\ \A i \in 1 .. n : w[i] = q[i]
        BY <3>1, <3>2, <4>1, AppendProperties, LenProperties
      <4>3. 1 .. n + 1 = 1 .. n \cup {n + 1}
        BY <4>1
      <4>4. Elements(w) = Elements(q) \cup {a}
        BY ONLY <4>1, <4>2, <4>3
      <4> QED
        BY <4>4
    <3>4. g[m] = Append(q, a)
      BY <2>1, <2>4
    <3>5. Elements(q) = S \cap First(m - 1)
      BY <1>4
    <3> HIDE DEF Elements, First
    <3> QED
      BY <2>2, <2>4, <3>2, <3>3, <3>4, <3>5
  <2> QED
    BY <2>3, <2>4
<1>5. B = {}
  <2> SUFFICES ASSUME B # {} PROVE FALSE
    OBVIOUS
  <2> HIDE DEF Fits
  <2>1. B \in SUBSET Nat
    BY <1>2
  <2>2. PICK m \in B : \A k \in B : m <= k
    <3> HIDE DEF B
    <3> QED BY <2>1, LeastNatural
  <2>3. m # 0
    BY <1>3, <2>2
  <2>4. m - 1 \in 0 .. N /\ m \in 1 .. N /\ ~(m <= m - 1)
    BY <1>2, <2>2, <2>3
  <2>5. Fits(m - 1)
    BY <2>2, <2>4
  <2> QED
    BY <1>4, <2>2, <2>4, <2>5
<1>6. Fits(N)
  <2> HIDE DEF Fits
  <2> QED BY <1>2, <1>5
<1>7. First(N) = States
  BY AlphabetFits DEF States, Alphabet
<1>8. Sorted(S) = g[N]
  BY <1>1 DEF Sorting
<1> HIDE DEF First
<1> QED
  BY <1>6, <1>7, <1>8

LEMMA EveryState ==
  /\ States = {"accepted_risk", "assigned", "closed", "deferred", "duplicate", "exception", "false_positive",
               "in_progress", "mitigation", "new", "remediated", "risk_assessed", "triaged", "verification", "verified"}
<1> DEFINE A == <<"accepted_risk", "assigned", "closed", "deferred", "duplicate", "exception", "false_positive",
               "in_progress", "mitigation", "new", "remediated", "risk_assessed", "triaged", "verification", "verified">>
<1>1. DOMAIN A = 1 .. 15
  OBVIOUS
<1>2. 1 .. 15 = {1, 2, 3, 4, 5, 6, 7, 8, 9, 10, 11, 12, 13, 14, 15}
  OBVIOUS
<1> QED
  BY <1>1, <1>2 DEF States, Alphabet

\* Every transition leads to a state.
LEMMA SuccessorsAreStates == \A s \in States : AllowedTransitions[s] \subseteq States
BY EveryState DEF AllowedTransitions

\* A set of states that no transition leaves is empty or is all of them.
LEMMA EveryStateIsReached ==
  ASSUME NEW C \in SUBSET States, NEW s \in C, \A c \in C : AllowedTransitions[c] \subseteq C
  PROVE  C = States
<1>1. "in_progress" \in C
  BY EveryState DEF AllowedTransitions
<1>2. {"remediated", "mitigation", "deferred", "accepted_risk", "exception"} \subseteq C
  BY <1>1, EveryState DEF AllowedTransitions
<1>3. {"verification", "triaged", "assigned"} \subseteq C
  BY <1>2, EveryState DEF AllowedTransitions
<1>4. {"verified", "risk_assessed", "false_positive", "duplicate"} \subseteq C
  BY <1>3, EveryState DEF AllowedTransitions
<1>5. {"closed", "new"} \subseteq C
  BY <1>4, EveryState DEF AllowedTransitions
<1> QED
  BY <1>1, <1>2, <1>3, <1>4, <1>5, EveryState

\* A walk with one more hop.
LEMMA WalkGoesOn ==
  ASSUME NEW route \in Seq(States), NEW from \in States, NEW mid \in States, NEW to \in AllowedTransitions[mid],
         IsWalk(route, from, mid)
  PROVE  IsWalk(Append(route, to), from, to)
<1>1. to \in States
  BY SuccessorsAreStates
<1> DEFINE longer == Append(route, to)
           n == Len(route)
           stop(i) == IF i = 0 THEN from ELSE route[i]
           after(i) == IF i = 0 THEN from ELSE longer[i]
<1>2. n \in Nat /\ longer \in Seq(States) /\ Len(longer) = n + 1 /\ longer[n + 1] = to
      /\ \A i \in 1 .. n : longer[i] = route[i]
  BY <1>1, AppendProperties, LenProperties
<1>3. DOMAIN longer = 1 .. n + 1 /\ DOMAIN route = 1 .. n
  BY <1>2, LenProperties
<1>4. stop(n) = mid /\ \A i \in 1 .. n : CanTransition(stop(i - 1), route[i])
  BY <1>3 DEF IsWalk
<1> HIDE DEF longer, n
<1>5. after(n) = mid
  BY <1>2, <1>4
<1>6. \A i \in 1 .. n + 1 : CanTransition(after(i - 1), longer[i])
  <2> SUFFICES ASSUME NEW i \in 1 .. n + 1 PROVE CanTransition(after(i - 1), longer[i])
    OBVIOUS
  <2>1. CASE i = n + 1
    <3>1. i - 1 = n
      BY <1>2, <2>1
    <3> QED
      BY <1>2, <1>5, <2>1, <3>1 DEF CanTransition
  <2>2. CASE i # n + 1
    <3>1. i \in 1 .. n /\ (i - 1 # 0 => i - 1 \in 1 .. n)
      BY <1>2, <2>2
    <3>2. after(i - 1) = stop(i - 1) /\ longer[i] = route[i]
      BY <1>2, <3>1
    <3> QED
      BY <1>4, <3>1, <3>2
  <2> QED
    BY <2>1, <2>2
<1>7. after(n + 1) = to
  BY <1>2
<1>8. after(Len(longer)) = to /\ \A i \in DOMAIN longer : CanTransition(after(i - 1), longer[i])
  BY <1>2, <1>3, <1>6, <1>7
<1>9. IsWalk(longer, from, to)
  BY <1>8 DEF IsWalk
<1> QED
  BY <1>9 DEF longer

\* The stops whose trail is a walk to them.
Reached == {p \in Stops : IsWalk(p.trail, current, p.state)}

Waiting == {queue[i].state : i \in DOMAIN queue}

\* The trails are walks; who was seen waits or was expanded; the target was not seen.
RouteInv ==
  /\ RouteTypeOK
  /\ queue \in Seq(Reached)
  /\ status = "found" => IsWalk(found, current, target)
  /\ status = "searching" =>
       /\ current \in seen /\ target \notin seen
       /\ \A s \in seen : s \in Waiting \/ AllowedTransitions[s] \subseteq seen

LEMMA SearchStarts == RouteInit => RouteInv
<1> SUFFICES ASSUME RouteInit PROVE RouteInv
  OBVIOUS
<1>1. RouteTypeOK
  BY RouteStarts
<1>2. IsWalk(<<>>, current, current)
  BY DEF IsWalk
<1>3. [state |-> current, trail |-> <<>>] \in Reached
  BY <1>2 DEF RouteInit, Reached, Stops
<1>4. queue \in Seq(Reached)
  BY <1>3 DEF RouteInit
<1>5. current \in Waiting
  BY DEF RouteInit, Waiting
<1>6. status = "found" => IsWalk(found, current, target)
  BY <1>2 DEF RouteInit
<1> HIDE DEF Waiting
<1>7. status = "searching" =>
       /\ current \in seen /\ target \notin seen
       /\ \A s \in seen : s \in Waiting \/ AllowedTransitions[s] \subseteq seen
  BY <1>5 DEF RouteInit
<1> QED
  BY <1>1, <1>4, <1>6, <1>7 DEF RouteInv

LEMMA SearchStep == RouteInv /\ [RouteNext]_routeVars => RouteInv'
<1> SUFFICES ASSUME RouteInv, [RouteNext]_routeVars PROVE RouteInv'
  OBVIOUS
<1>1. RouteTypeOK'
  BY RouteStep DEF RouteInv
<1>2. CASE UNCHANGED routeVars
  BY <1>1, <1>2 DEF routeVars, RouteInv, Reached, Waiting
<1> SUFFICES ASSUME RouteNext PROVE RouteInv'
  BY <1>2
<1> PICK head : head = Head(queue)
  OBVIOUS
<1>3. queue # <<>> /\ current' = current /\ target' = target /\ status = "searching"
  BY DEF RouteNext, Return, Expand
<1>4. head \in Reached /\ current \in States /\ target \in States /\ seen \subseteq States
  BY <1>3, HeadTailProperties DEF RouteInv, RouteTypeOK
<1>5. head.state \in States /\ head.trail \in Seq(States) /\ IsWalk(head.trail, current, head.state)
  BY <1>4 DEF Reached, Stops
<1>6. FreshStates = AllowedTransitions[head.state] \ seen
  <2>1. AllowedTransitions[head.state] \ seen \in SUBSET States
    BY <1>5, SuccessorsAreStates
  <2> QED
    BY <2>1, SortedKeeps DEF FreshStates, Fresh
<1>7. ASSUME NEW s \in FreshStates PROVE Extended(s) \in Reached
  <2>1. s \in AllowedTransitions[head.state] /\ s \in States
    BY <1>5, <1>6, <1>7, SuccessorsAreStates
  <2>2. IsWalk(Append(head.trail, s), current, s)
    BY <1>4, <1>5, <2>1, WalkGoesOn
  <2>3. Append(head.trail, s) \in Seq(States)
    BY <1>5, <2>1, AppendProperties
  <2> QED
    BY <2>1, <2>2, <2>3 DEF Extended, Reached, Stops
<1>8. Reached' = Reached
  BY <1>3 DEF Reached
<1>9. CASE Return
  <2>1. Extended(target) \in Reached
    BY <1>7, <1>9 DEF Return
  <2>2. IsWalk(Extended(target).trail, current, target)
    BY <2>1 DEF Extended, Reached
  <2>3. queue' = queue /\ status' = "found" /\ found' = Extended(target).trail
    BY <1>9 DEF Return
  <2>4. IsWalk(found', current', target')
    BY <1>3, <2>2, <2>3
  <2>5. queue' \in Seq(Reached')
    BY <1>8, <2>3 DEF RouteInv
  <2> QED
    BY <1>1, <2>3, <2>4, <2>5 DEF RouteInv
<1>10. CASE Expand
  <2> DEFINE more == [i \in DOMAIN Fresh |-> Extended(Fresh[i])]
  <2>1. Fresh \in Seq(States)
    BY SortedFits DEF Fresh
  <2> PICK n : n = Len(Fresh)
    OBVIOUS
  <2>2. n \in Nat /\ DOMAIN Fresh = 1 .. n /\ \A i \in 1 .. n : Extended(Fresh[i]) \in Reached
    BY <1>7, <2>1, LenProperties DEF FreshStates
  <2>3. more \in [1 .. n -> Reached]
    BY <2>2
  <2>4. more \in Seq(Reached) /\ Len(more) = n /\ \A i \in 1 .. n : more[i] = Extended(Fresh[i])
    BY <2>2, <2>3
  <2>5. queue \in Seq(Reached)
    BY DEF RouteInv
  <2>6. Tail(queue) \in Seq(Reached)
    BY <1>3, <2>5, HeadTailProperties
  <2>7. queue' = Tail(queue) \o more
    BY <1>10 DEF Expand, Queued
  <2> HIDE DEF more
  <2>8. queue' \in Seq(Reached)
    BY <2>4, <2>6, <2>7, ConcatProperties
  <2>9. \A i \in DOMAIN queue : queue[i].state \in Waiting' \/ queue[i].state = head.state
    <3> PICK l : l = Len(queue)
      OBVIOUS
    <3> PICK t : t = Tail(queue)
      OBVIOUS
    <3>1. l \in Nat /\ DOMAIN queue = 1 .. l /\ queue[1] = head
      BY <1>3, <2>5, LenProperties
    <3>2. Len(t) = l - 1 /\ \A i \in 1 .. l - 1 : t[i] = queue[i + 1]
      BY <1>3, <2>5, HeadTailProperties
    <3>3. t \o more = queue' /\ t \in Seq(Reached) /\ Len(queue') = (l - 1) + n
      <4>1. t \in Seq(Reached) /\ t \o more = queue'
        BY <2>6, <2>7
      <4>2. Len(t \o more) = Len(t) + Len(more)
        BY ONLY <2>4, <4>1, ConcatProperties
      <4> QED
        BY <2>4, <3>2, <4>1, <4>2
    <3>4. DOMAIN queue' = 1 .. (l - 1) + n
      BY <2>8, <3>3, LenProperties
    <3>5. ASSUME NEW i \in 1 .. l, i # 1 PROVE queue[i].state \in Waiting'
      <4>1. i - 1 \in 1 .. l - 1 /\ i - 1 \in 1 .. (l - 1) + n /\ (i - 1) + 1 = i
        BY <2>2, <3>1, <3>5
      <4>2. queue'[i - 1] = t[i - 1]
        BY <2>4, <3>2, <3>3, <4>1, ConcatProperties
      <4>3. queue'[i - 1] = queue[i]
        BY <3>2, <4>1, <4>2
      <4> QED
        BY <3>4, <4>1, <4>3 DEF Waiting
    <3> QED
      BY <3>1, <3>5
  <2>10. FreshStates \subseteq Waiting'
    <3> PICK t : t = Tail(queue)
      OBVIOUS
    <3> PICK l : l = Len(t)
      OBVIOUS
    <3>1. l \in Nat /\ t \in Seq(Reached) /\ Len(queue') = l + n /\ queue' = t \o more
      BY <2>4, <2>6, <2>7, ConcatProperties, LenProperties
    <3>2. DOMAIN queue' = 1 .. l + n
      BY <2>8, <3>1, LenProperties
    <3>3. SUFFICES ASSUME NEW i \in 1 .. n PROVE Fresh[i] \in Waiting'
      BY <2>2 DEF FreshStates
    <3>4. l + i \in 1 .. l + n /\ ~(l + i <= l) /\ (l + i) - l = i
      BY <2>2, <3>1
    <3>5. queue'[l + i] = more[i]
      BY <2>4, <3>1, <3>4, ConcatProperties
    <3>6. more[i].state = Fresh[i]
      <4>1. \A s : Extended(s).state = s
        BY DEF Extended
      <4> QED
        BY <2>4, <4>1
    <3> QED
      BY <3>2, <3>4, <3>5, <3>6 DEF Waiting
  <2>11. seen' = seen \cup FreshStates /\ target \notin FreshStates /\ status' = "searching"
    BY <1>3, <1>10 DEF Expand
  <2>12. current' \in seen' /\ target' \notin seen'
    BY <1>3, <2>11 DEF RouteInv
  <2>13. \A s \in Waiting : s \in Waiting' \/ s = head.state
    BY <2>9 DEF Waiting
  <2>14. AllowedTransitions[head.state] \subseteq seen'
    BY <1>6, <2>11
  <2>15. \A s \in seen : s \in Waiting \/ AllowedTransitions[s] \subseteq seen
    BY <1>3 DEF RouteInv
  <2> HIDE DEF more
  <2>16. \A s \in seen' : s \in Waiting' \/ AllowedTransitions[s] \subseteq seen'
    BY ONLY <2>10, <2>11, <2>13, <2>14, <2>15
  <2>17. queue' \in Seq(Reached')
    BY <1>8, <2>8
  <2> QED
    BY <1>1, <2>11, <2>12, <2>16, <2>17 DEF RouteInv
<1> QED
  BY <1>9, <1>10 DEF RouteNext

\* While the search goes on there is a state to expand, and what it returns is a walk.
SearchIsLegal == IF status = "found" THEN IsWalk(found, current, target) ELSE queue # <<>>

LEMMA SearchFollows == RouteInv => SearchIsLegal
<1> SUFFICES ASSUME RouteInv, status = "searching", queue = <<>> PROVE FALSE
  BY DEF RouteInv, RouteTypeOK, SearchIsLegal
<1>1. Waiting = {}
  BY DEF Waiting
<1>2. seen \in SUBSET States /\ current \in seen /\ target \in States /\ target \notin seen
  BY DEF RouteInv, RouteTypeOK
<1>3. \A s \in seen : AllowedTransitions[s] \subseteq seen
  BY <1>1 DEF RouteInv
<1> QED
  BY <1>2, <1>3, EveryStateIsReached

----------------------------------------------------------------------------
(***************************************************************************)
(* All of them together.                                                   *)
(***************************************************************************)
RecordVars == <<routeVars, sourceVars, registerVars, complianceVars, runbookVars, identityVars, subject>>

\* A step is of one subject, and leaves the others as they are.
LEMMA OneSubjectMoves ==
  ASSUME [MCNext]_RecordVars
  PROVE  /\ [RouteNext]_routeVars /\ [SourcesNext]_sourceVars
         /\ [RegisterNext]_registerVars /\ [ComplianceNext]_complianceVars
         /\ [RunbooksNext]_runbookVars /\ [IdentityNext]_identityVars
<1>1. CASE MCNext
  BY <1>1 DEF MCNext
<1>2. CASE UNCHANGED RecordVars
  BY <1>2 DEF RecordVars
<1> QED BY <1>1, <1>2

RecordsInv == RouteInv /\ SourcesInv /\ RegisterInv /\ ComplianceInv /\ RunbooksInv /\ IdentityInv

LEMMA RecordsStart == MCInit => RecordsInv
BY SearchStarts, SourcesInitially, RegisterStarts, ComplianceStarts, RunbooksStart, IdentityStarts DEF MCInit, RecordsInv

LEMMA RecordsStep == RecordsInv /\ [MCNext]_RecordVars => RecordsInv'
<1> SUFFICES ASSUME RecordsInv, [MCNext]_RecordVars PROVE RecordsInv'
  OBVIOUS
<1> QED
  BY OneSubjectMoves, SearchStep, SourcesStep, RegisterStep, ComplianceStep, RunbooksStep, IdentityStep DEF RecordsInv

LEMMA RecordsFollow == RecordsInv => RecordsTypeOK /\ AssetsAreReconciled /\ RecordsAreKept /\ SearchIsLegal
BY SearchFollows, SourcesFollows, RegisterFollows, ComplianceFollows, RunbooksFollow, IdentityFollows
   DEF RecordsInv, RouteInv, RecordsTypeOK, RecordsAreKept

\* The register of risks, the claims of compliance, the runbooks and the identities of
\* findings are kept, whatever overlaps in any of them and whichever of them runs
\* (services/risk_register, compliance, threatintel, dedupe).
THEOREM RecordsKept == MCSpec => []RecordsAreKept
BY RecordsStart, RecordsStep, RecordsFollow, PTL DEF MCSpec, RecordVars

\* Links lead to assets there are, a preview counts what the sync counts, a row is absent
\* when a complete reading left it out and not otherwise, the source with the lowest
\* priority number has the last word, and no host is registered twice, whatever syncs,
\* promotions and requests overlap, for any sources, keys, exports and number of assets
\* (services/cmdb: _ingest, resolve_asset, promote; services/inventory: upsert_asset).
THEOREM AssetsReconciled == MCSpec => []AssetsAreReconciled
BY RecordsStart, RecordsStep, RecordsFollow, PTL DEF MCSpec, RecordVars

\* Every subject keeps its types, whichever of them runs.
THEOREM RecordsTyped == MCSpec => []RecordsTypeOK
BY RecordsStart, RecordsStep, RecordsFollow, PTL DEF MCSpec, RecordVars

\* The search for a route never returns None, and what it returns is a sequence of allowed
\* transitions from the one state to the other, which is all that the theorems about the
\* life of a finding assume of Path (services/correlation.py: path_to).
THEOREM RoutesAreLegal == MCSpec => []SearchIsLegal
BY RecordsStart, RecordsStep, RecordsFollow, PTL DEF MCSpec, RecordVars
=============================================================================
