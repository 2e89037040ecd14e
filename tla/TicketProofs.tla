---------------------------- MODULE TicketProofs ----------------------------
(***************************************************************************)
(* What is to be remediated: that the tickets keep their references, their   *)
(* budget and their approvals, that a ticket and its twin keep agreeing, that *)
(* the fix plans are sound, that the inventory is kept, and that all of them  *)
(* hold in MCTicketing, whichever part of it moves.                          *)
(***************************************************************************)
EXTENDS MCTicketing, SequenceTheorems, FiniteSetTheorems, WellFoundedInduction, TLAPS

\* Every set of numbers that is not empty has a least one.
LEMMA LeastNatural ==
  ASSUME NEW S \in SUBSET Nat, S # {}
  PROVE  \E m \in S : \A k \in S : m <= k
<1> DEFINE R == {p \in Nat \X Nat : p[1] < p[2]}
<1>1. R = OpToRel(<, Nat)
  BY DEF OpToRel
<1>2. IsWellFoundedOn(R, Nat)
  BY <1>1, NatLessThanWellFounded
<1>3. \E x \in S : \A y \in S : ~(<<y, x>> \in R)
  <2> HIDE DEF R
  <2> QED BY <1>2, WFMin
<1>4. PICK m \in S : \A y \in S : ~(<<y, m>> \in R)
  BY <1>3
<1>5. \A k \in S : ~(k < m)
  BY <1>4
<1> QED
  BY <1>5

----------------------------------------------------------------------------
(***************************************************************************)
(* Remediation work.                                                       *)
(***************************************************************************)
TypeOf(s, k) == {i \in DOMAIN s : s[i].type = k}
RefsOf(s, k) == {s[i].ref : i \in TypeOf(s, k)}
AutoOf(s) == {i \in DOMAIN s : s[i].auto /\ s[i].recent}

\* The last reference of a type that is committed, and that a transaction took.
Base(k) == IF counter[k] = Missing THEN 0 ELSE counter[k]
Reached(w, k) == IF tx[w].last[k] = Missing THEN Base(k) ELSE tx[w].last[k]

\* What a transaction has under way.
Sober(t) ==
  /\ t.op \in {"idle", "move"} =>
       t.made = <<>> /\ t.pushed = {} /\ t.todo = {} /\ t.phase = "look" /\ \A k \in TicketTypes : t.last[k] = Missing
  /\ t.op = "import" => t.type = "remediation"
  /\ t.pushed \cap t.todo = {}
  /\ t.phase = "push" => t.want \in Findings \ (t.pushed \cup t.todo)
  /\ \A i \in DOMAIN t.made :
       /\ t.made[i].state = "open" /\ t.last[t.made[i].type] # Missing
       /\ t.made[i].auto => t.made[i].type = "remediation"

\* Who took references of a type holds its counter, and nobody else does.
LocksAreHeld == \A w \in Threads, k \in TicketTypes : tx[w].last[k] # Missing <=> holder[k] = w

\* The references a transaction took follow the committed ones.
TakenAreDense ==
  \A w \in Threads, k \in TicketTypes :
    /\ tx[w].last[k] # Missing => tx[w].last[k] > Base(k)
    /\ RefsOf(tx[w].made, k) = (Base(k) + 1) .. Reached(w, k)
    /\ Cardinality(TypeOf(tx[w].made, k)) = Reached(w, k) - Base(k)

\* The transactions that have decided on a ticket of the automation.
Deciding == {w \in Threads : tx[w].op = "import" /\ tx[w].phase \in {"select", "insert"}}

Autos(w) == Cardinality(AutoOf(tx[w].made))
Committed == Cardinality(AutoOf(tickets))

\* Beyond the first, which may have been decided on before others committed, a
\* transaction stays within the budget; all of them together exceed it by one each.
BudgetIsKept ==
  \A w \in Threads :
    /\ Autos(w) > 0 => \/ Autos(w) = 1 /\ w \notin Deciding
                       \/ Committed + Autos(w) + (IF w \in Deciding THEN 1 ELSE 0) <= Cap
    /\ Committed + Autos(w) + Cardinality(Deciding) <= Cap + Cardinality(Threads) - 1

\* Whoever loads a change finds it approved when the state it loads says so.
Approved(t) == t.approved /\ (t.approver = t.requester => t.approver \in Admins)
Worked == WorkStates \cup {"approved"}
ApprovalsAreKept ==
  /\ \A i \in DOMAIN tickets : tickets[i].type = "change" /\ tickets[i].state \in Worked => Approved(tickets[i])
  /\ \A w \in Threads : tx[w].op = "move" =>
       /\ tx[w].moving \in DOMAIN tickets
       /\ tickets[tx[w].moving].type = "change" /\ tx[w].copy \in Worked => Approved(tickets[tx[w].moving])

PushesAreApart == \A v, w \in Threads : v # w => tx[v].pushed \cap tx[w].pushed = {}

\* The three parts that hold of references, of the budget and of issues.
RefInv == LocksAreHeld /\ TakenAreDense /\ ReferencesAreDense
BudgetInv == BudgetIsKept /\ Committed <= Cap + Cardinality(Threads) - 1
IssueInv == PushesAreApart /\ IssuesAreAccounted /\ \A f \in Findings : link[f].active => link[f].exists

\* The inductive invariant.
WorkInv ==
  /\ TicketingTypeOK /\ RefInv /\ BudgetInv /\ ApprovalsAreKept /\ IssueInv
  /\ \A w \in Threads : Sober(tx[w])

(* Counting in sequences. *)

\* A set has as many elements as another that is told apart by them.
LEMMA SameNumber ==
  ASSUME NEW S, IsFiniteSet(S), NEW T, NEW f \in [S -> T],
         \A x, y \in S : f[x] = f[y] => x = y, \A y \in T : \E x \in S : f[x] = y
  PROVE  IsFiniteSet(T) /\ Cardinality(T) = Cardinality(S)
<1>1. f \in Bijection(S, T)
  BY DEF Bijection, Injection, Surjection, IsInjective
<1>2. ExistsBijection(S, T)
  BY <1>1 DEF ExistsBijection
<1> QED BY <1>2, FS_Bijection

LEMMA IndexesFinite ==
  ASSUME NEW s \in Seq(Row), NEW I \in SUBSET DOMAIN s
  PROVE  IsFiniteSet(I) /\ Cardinality(I) \in Nat /\ I \subseteq Nat
<1>1. Len(s) \in Nat /\ DOMAIN s = 1 .. Len(s)
  BY LenProperties
<1>2. IsFiniteSet(1 .. Len(s))
  BY <1>1, FS_Interval
<1> QED
  BY <1>1, <1>2, FS_Subset, FS_CardinalityType

LEMMA OneMoreIndex ==
  ASSUME NEW s \in Seq(Row), NEW I \in SUBSET DOMAIN s
  PROVE  IsFiniteSet(I \cup {Len(s) + 1}) /\ Cardinality(I \cup {Len(s) + 1}) = Cardinality(I) + 1
<1>1. Len(s) \in Nat /\ DOMAIN s = 1 .. Len(s)
  BY LenProperties
<1>2. Len(s) + 1 \notin I
  BY <1>1
<1> QED
  BY <1>2, IndexesFinite, FS_AddElement

\* The indexes of a sequence, and those of another after it.
LEMMA IndexesAdd ==
  ASSUME NEW s \in Seq(Row), NEW I \in SUBSET DOMAIN s, NEW t \in Seq(Row), NEW J \in SUBSET DOMAIN t
  PROVE  Cardinality(I \cup {Len(s) + j : j \in J}) = Cardinality(I) + Cardinality(J)
<1> DEFINE K == {Len(s) + j : j \in J}
           f == [j \in J |-> Len(s) + j]
<1>1. Len(s) \in Nat /\ DOMAIN s = 1 .. Len(s) /\ Len(t) \in Nat /\ DOMAIN t = 1 .. Len(t)
  BY LenProperties
<1>2. J \subseteq Nat /\ IsFiniteSet(J) /\ IsFiniteSet(I)
  BY IndexesFinite
<1>3. f \in [J -> K] /\ (\A a, b \in J : f[a] = f[b] => a = b) /\ (\A x \in K : \E j \in J : f[j] = x)
  BY <1>1, <1>2
<1>4. IsFiniteSet(K) /\ Cardinality(K) = Cardinality(J)
  <2> HIDE DEF f, K
  <2> QED BY <1>2, <1>3, SameNumber
<1>5. I \cap K = {}
  BY <1>1, <1>2
<1> HIDE DEF K
<1>6. Cardinality(I \cap K) = 0
  BY <1>5, FS_EmptySet
<1>7. Cardinality(I \cup K) = Cardinality(I) + Cardinality(K) - Cardinality(I \cap K)
  BY <1>2, <1>4, FS_Union
<1>8. Cardinality(I) \in Nat /\ Cardinality(K) \in Nat
  BY <1>2, <1>4, FS_CardinalityType
<1>9. Cardinality(I \cup K) = Cardinality(I) + Cardinality(J)
  BY <1>4, <1>6, <1>7, <1>8
<1> QED
  BY <1>9 DEF K

LEMMA TypeOfAppend ==
  ASSUME NEW s \in Seq(Row), NEW x \in Row, NEW k
  PROVE  /\ TypeOf(Append(s, x), k) = TypeOf(s, k) \cup (IF x.type = k THEN {Len(s) + 1} ELSE {})
         /\ RefsOf(Append(s, x), k) = RefsOf(s, k) \cup (IF x.type = k THEN {x.ref} ELSE {})
         /\ AutoOf(Append(s, x)) = AutoOf(s) \cup (IF x.auto /\ x.recent THEN {Len(s) + 1} ELSE {})
<1>1. Len(s) \in Nat /\ DOMAIN s = 1 .. Len(s)
  BY LenProperties
<1>2. DOMAIN Append(s, x) = DOMAIN s \cup {Len(s) + 1} /\ Append(s, x)[Len(s) + 1] = x
      /\ \A i \in DOMAIN s : Append(s, x)[i] = s[i]
  BY <1>1, AppendProperties
<1>3. Len(s) + 1 \notin DOMAIN s
  BY <1>1
<1> HIDE <1>1
<1> DEFINE z == Append(s, x)
           n == Len(s) + 1
<1>4. DOMAIN z = DOMAIN s \cup {n} /\ z[n] = x /\ n \notin DOMAIN s /\ \A i \in DOMAIN s : z[i] = s[i]
  BY <1>2, <1>3
<1> HIDE DEF z, n
<1>5. TypeOf(z, k) = TypeOf(s, k) \cup (IF x.type = k THEN {n} ELSE {})
  BY <1>4 DEF TypeOf
<1>6. RefsOf(z, k) = RefsOf(s, k) \cup (IF x.type = k THEN {x.ref} ELSE {})
  <2>1. \A i \in TypeOf(s, k) : z[i].ref = s[i].ref
    BY <1>4 DEF TypeOf
  <2>2. CASE x.type = k
    BY <1>4, <1>5, <2>1, <2>2 DEF RefsOf
  <2>3. CASE x.type # k
    BY <1>4, <1>5, <2>1, <2>3 DEF RefsOf
  <2> QED
    BY <2>2, <2>3
<1>7. AutoOf(z) = AutoOf(s) \cup (IF x.auto /\ x.recent THEN {n} ELSE {})
  BY <1>4 DEF AutoOf
<1> QED
  BY <1>5, <1>6, <1>7 DEF z, n

LEMMA TypeOfConcat ==
  ASSUME NEW s \in Seq(Row), NEW t \in Seq(Row), NEW k
  PROVE  /\ Cardinality(TypeOf(s \o t, k)) = Cardinality(TypeOf(s, k)) + Cardinality(TypeOf(t, k))
         /\ RefsOf(s \o t, k) = RefsOf(s, k) \cup RefsOf(t, k)
         /\ Cardinality(AutoOf(s \o t)) = Cardinality(AutoOf(s)) + Cardinality(AutoOf(t))
<1>1. Len(s) \in Nat /\ DOMAIN s = 1 .. Len(s) /\ Len(t) \in Nat /\ DOMAIN t = 1 .. Len(t)
  BY LenProperties
<1>2. /\ DOMAIN (s \o t) = 1 .. (Len(s) + Len(t))
      /\ \A i \in DOMAIN s : (s \o t)[i] = s[i]
      /\ \A j \in DOMAIN t : (s \o t)[Len(s) + j] = t[j]
  <2>1. s \o t \in Seq(Row) /\ Len(s \o t) = Len(s) + Len(t)
    BY ConcatProperties
  <2>2. DOMAIN (s \o t) = 1 .. (Len(s) + Len(t))
    BY <2>1, LenProperties
  <2>3. \A i \in 1 .. (Len(s) + Len(t)) : (s \o t)[i] = IF i <= Len(s) THEN s[i] ELSE t[i - Len(s)]
    BY ConcatProperties
  <2>4. \A i \in DOMAIN s : i \in 1 .. (Len(s) + Len(t)) /\ i <= Len(s)
    BY <1>1
  <2>5. \A j \in DOMAIN t : Len(s) + j \in 1 .. (Len(s) + Len(t)) /\ ~(Len(s) + j <= Len(s)) /\ (Len(s) + j) - Len(s) = j
    BY <1>1
  <2> QED
    BY <2>2, <2>3, <2>4, <2>5
<1>3. \A i \in 1 .. (Len(s) + Len(t)) : i \in DOMAIN s \/ \E j \in DOMAIN t : i = Len(s) + j
  <2> SUFFICES ASSUME NEW i \in 1 .. (Len(s) + Len(t)), i \notin DOMAIN s PROVE \E j \in DOMAIN t : i = Len(s) + j
    OBVIOUS
  <2>1. i - Len(s) \in DOMAIN t /\ i = Len(s) + (i - Len(s))
    BY <1>1
  <2> QED
    BY <2>1
<1>4. \A i \in DOMAIN s : i \in DOMAIN (s \o t)
  BY <1>1, <1>2
<1>5. \A j \in DOMAIN t : Len(s) + j \in DOMAIN (s \o t)
  BY <1>1, <1>2
<1> DEFINE z == s \o t
           Up(J) == {Len(s) + j : j \in J}
<1>6. /\ \A i \in DOMAIN s : i \in DOMAIN z /\ z[i] = s[i]
      /\ \A j \in DOMAIN t : Len(s) + j \in DOMAIN z /\ z[Len(s) + j] = t[j]
      /\ \A i \in DOMAIN z : i \in DOMAIN s \/ \E j \in DOMAIN t : i = Len(s) + j
  BY <1>2, <1>3, <1>4, <1>5
<1> HIDE DEF z
<1>7. TypeOf(z, k) = TypeOf(s, k) \cup Up(TypeOf(t, k))
  BY <1>6 DEF TypeOf
<1>8. AutoOf(z) = AutoOf(s) \cup Up(AutoOf(t))
  BY <1>6 DEF AutoOf
<1>9. TypeOf(s, k) \subseteq DOMAIN s /\ TypeOf(t, k) \subseteq DOMAIN t /\ AutoOf(s) \subseteq DOMAIN s /\ AutoOf(t) \subseteq DOMAIN t
  BY DEF TypeOf, AutoOf
<1>10. RefsOf(z, k) = RefsOf(s, k) \cup RefsOf(t, k)
  <2>1. \A i \in TypeOf(s, k) : i \in TypeOf(z, k) /\ z[i].ref = s[i].ref
    BY <1>6 DEF TypeOf
  <2>2. \A j \in TypeOf(t, k) : Len(s) + j \in TypeOf(z, k) /\ z[Len(s) + j].ref = t[j].ref
    BY <1>6 DEF TypeOf
  <2>3. \A i \in TypeOf(z, k) : i \in TypeOf(s, k) \/ \E j \in TypeOf(t, k) : i = Len(s) + j
    BY <1>7
  <2> HIDE DEF Up
  <2> QED
    BY <2>1, <2>2, <2>3 DEF RefsOf
<1>101. \A I \in SUBSET DOMAIN s, J \in SUBSET DOMAIN t : Cardinality(I \cup Up(J)) = Cardinality(I) + Cardinality(J)
  BY IndexesAdd
<1> HIDE DEF Up
<1>11. Cardinality(TypeOf(z, k)) = Cardinality(TypeOf(s, k)) + Cardinality(TypeOf(t, k))
  BY <1>7, <1>9, <1>101
<1>12. Cardinality(AutoOf(z)) = Cardinality(AutoOf(s)) + Cardinality(AutoOf(t))
  BY <1>8, <1>9, <1>101
<1> QED
  BY <1>10, <1>11, <1>12 DEF z

LEMMA CountsTyped ==
  ASSUME NEW s \in Seq(Row), NEW k
  PROVE  /\ Cardinality(TypeOf(s, k)) \in Nat /\ Cardinality(AutoOf(s)) \in Nat
         /\ IsFiniteSet(TypeOf(s, k)) /\ IsFiniteSet(AutoOf(s))
         /\ TypeOf(s, k) = {} <=> Cardinality(TypeOf(s, k)) = 0
<1>1. TypeOf(s, k) \subseteq DOMAIN s /\ AutoOf(s) \subseteq DOMAIN s
  BY DEF TypeOf, AutoOf
<1> QED
  BY <1>1, IndexesFinite, FS_EmptySet

\* Sequences that differ in other columns only.
LEMMA CountsAgree ==
  ASSUME NEW s, NEW t, DOMAIN s = DOMAIN t,
         \A i \in DOMAIN s : s[i].type = t[i].type /\ s[i].ref = t[i].ref
  PROVE  \A k : TypeOf(s, k) = TypeOf(t, k) /\ RefsOf(s, k) = RefsOf(t, k)
<1> TAKE k
<1>1. TypeOf(s, k) = TypeOf(t, k)
  BY DEF TypeOf
<1>2. \A i \in TypeOf(s, k) : s[i].ref = t[i].ref
  BY DEF TypeOf
<1> QED
  BY <1>1, <1>2 DEF RefsOf

(* References. *)

LEMMA BaseTyped ==
  ASSUME TicketingTypeOK
  PROVE  /\ \A k \in TicketTypes : Base(k) \in Nat
         /\ \A w \in Threads, k \in TicketTypes :
              tx[w].last[k] \in Nat \cup {Missing} /\ Reached(w, k) \in Nat /\ tx[w].made \in Seq(Row)
<1>1. \A k \in TicketTypes : counter[k] \in Nat \cup {Missing}
  BY DEF TicketingTypeOK
<1>2. \A w \in Threads, k \in TicketTypes : tx[w].last[k] \in Nat \cup {Missing}
  BY DEF TicketingTypeOK, Tx
<1>3. \A w \in Threads : tx[w].made \in Seq(Row)
  BY DEF TicketingTypeOK, Tx
<1> QED
  BY <1>1, <1>2, <1>3 DEF Base, Reached

LEMMA ReferencesMean ==
  ReferencesAreDense <=>
    \A k \in TicketTypes :
      /\ RefsOf(tickets, k) = 1 .. Cardinality(TypeOf(tickets, k))
      /\ counter[k] = IF TypeOf(tickets, k) = {} THEN Missing ELSE Cardinality(TypeOf(tickets, k))
BY DEF ReferencesAreDense, RefsOf, TypeOf

LEMMA BaseCounts ==
  ASSUME TicketingTypeOK, ReferencesAreDense, NEW k \in TicketTypes
  PROVE  Base(k) = Cardinality(TypeOf(tickets, k)) /\ RefsOf(tickets, k) = 1 .. Base(k)
<1>1. tickets \in Seq(Row)
  BY DEF TicketingTypeOK
<1>2. Cardinality(TypeOf(tickets, k)) \in Nat /\ (TypeOf(tickets, k) = {} <=> Cardinality(TypeOf(tickets, k)) = 0)
  BY <1>1, CountsTyped
<1>3. counter[k] = IF TypeOf(tickets, k) = {} THEN Missing ELSE Cardinality(TypeOf(tickets, k))
  BY ReferencesMean
<1>4. Base(k) = Cardinality(TypeOf(tickets, k))
  BY <1>2, <1>3 DEF Base, Missing
<1> QED
  BY <1>4, ReferencesMean

LEMMA RefStands ==
  ASSUME RefInv, counter' = counter, holder' = holder, DOMAIN tickets' = DOMAIN tickets,
         \A i \in DOMAIN tickets : tickets'[i].type = tickets[i].type /\ tickets'[i].ref = tickets[i].ref,
         \A v \in Threads : tx'[v].last = tx[v].last /\ tx'[v].made = tx[v].made
  PROVE  RefInv'
<1>1. LocksAreHeld'
  BY DEF RefInv, LocksAreHeld
<1>2. \A k : TypeOf(tickets', k) = TypeOf(tickets, k) /\ RefsOf(tickets', k) = RefsOf(tickets, k)
  BY CountsAgree
<1>3. ReferencesAreDense'
  BY <1>2, ReferencesMean DEF RefInv, ReferencesAreDense, RefsOf, TypeOf
<1>4. \A k : Base(k)' = Base(k)
  BY DEF Base
<1>5. \A v \in Threads : \A k : Reached(v, k)' = Reached(v, k)
  BY <1>4 DEF Reached
<1>6. TakenAreDense'
  BY <1>4, <1>5 DEF RefInv, TakenAreDense
<1> QED
  BY <1>1, <1>3, <1>6 DEF RefInv

LEMMA DenseStands ==
  ASSUME ReferencesAreDense, tickets' = tickets, counter' = counter
  PROVE  ReferencesAreDense'
<1>1. \A k \in TicketTypes :
        /\ RefsOf(tickets', k) = 1 .. Cardinality(TypeOf(tickets', k))
        /\ counter'[k] = IF TypeOf(tickets', k) = {} THEN Missing ELSE Cardinality(TypeOf(tickets', k))
  BY ReferencesMean
<1> QED
  BY <1>1 DEF ReferencesAreDense, RefsOf, TypeOf

\* A transaction takes the next reference of a type.
LEMMA RefTakes ==
  ASSUME TicketingTypeOK, RefInv, NEW w \in Threads, NEW k \in TicketTypes, NEW r \in Row,
         r.type = k, r.ref = Reached(w, k) + 1,
         holder[k] \in {w, NoOne}, holder' = [holder EXCEPT ![k] = w],
         tx'[w].made = Append(tx[w].made, r), tx'[w].last = [tx[w].last EXCEPT ![k] = Reached(w, k) + 1],
         \A v \in Threads \ {w} : tx'[v] = tx[v],
         tickets' = tickets, counter' = counter
  PROVE  RefInv'
<1>1. /\ \A j \in TicketTypes : Base(j) \in Nat
      /\ \A v \in Threads, j \in TicketTypes :
           tx[v].last[j] \in Nat \cup {Missing} /\ Reached(v, j) \in Nat /\ tx[v].made \in Seq(Row)
  BY BaseTyped
<1>2. /\ tx[w].last \in [TicketTypes -> Nat \cup {Missing}]
      /\ holder \in [TicketTypes -> Threads \cup {NoOne}]
  BY DEF TicketingTypeOK, Tx
<1>3. tx'[w].last[k] = Reached(w, k) + 1 /\ \A j \in TicketTypes \ {k} : tx'[w].last[j] = tx[w].last[j]
  BY <1>2
<1>4. holder'[k] = w /\ \A j \in TicketTypes \ {k} : holder'[j] = holder[j]
  BY <1>2
<1>5. NoOne \notin Threads
  BY TicketingAssumption
<1>6. \A v \in Threads \ {w} : tx[v].last[k] = Missing
  BY <1>5 DEF RefInv, LocksAreHeld
<1>7. Reached(w, k) + 1 # Missing
  BY <1>1 DEF Missing
<1>8. LocksAreHeld'
  <2> SUFFICES ASSUME NEW v \in Threads, NEW j \in TicketTypes PROVE tx'[v].last[j] # Missing <=> holder'[j] = v
    BY DEF LocksAreHeld
  <2>0. tx[v].last[j] # Missing <=> holder[j] = v
    BY DEF RefInv, LocksAreHeld
  <2>1. CASE j = k /\ v = w
    BY <1>3, <1>4, <1>7, <2>1
  <2>2. CASE j = k /\ v # w
    <3>1. tx'[v] = tx[v] /\ tx[v].last[k] = Missing /\ holder'[k] # v
      BY <1>4, <1>6, <2>2
    <3> QED
      BY <2>2, <3>1
  <2>3. CASE j # k
    <3>1. tx'[v].last[j] = tx[v].last[j]
      BY <1>3, <2>3
    <3>2. holder'[j] = holder[j]
      BY <1>4, <2>3
    <3> QED
      BY <2>0, <3>1, <3>2
  <2> QED
    BY <2>1, <2>2, <2>3
<1>9. ReferencesAreDense'
  BY DenseStands DEF RefInv
<1>10. \A j : Base(j)' = Base(j)
  BY DEF Base
<1>11. /\ Reached(w, k)' = Reached(w, k) + 1 /\ \A j \in TicketTypes \ {k} : Reached(w, j)' = Reached(w, j)
       /\ \A v \in Threads \ {w} : \A j \in TicketTypes : Reached(v, j)' = Reached(v, j)
  BY <1>3, <1>7, <1>10 DEF Reached
<1>13. /\ \A j : j # k => /\ TypeOf(tx'[w].made, j) = TypeOf(tx[w].made, j)
                           /\ RefsOf(tx'[w].made, j) = RefsOf(tx[w].made, j)
       /\ TypeOf(tx'[w].made, k) = TypeOf(tx[w].made, k) \cup {Len(tx[w].made) + 1}
       /\ RefsOf(tx'[w].made, k) = RefsOf(tx[w].made, k) \cup {Reached(w, k) + 1}
  <2>1. tx[w].made \in Seq(Row)
    BY <1>1
  <2>2. \A j : /\ TypeOf(Append(tx[w].made, r), j) = TypeOf(tx[w].made, j) \cup (IF r.type = j THEN {Len(tx[w].made) + 1} ELSE {})
               /\ RefsOf(Append(tx[w].made, r), j) = RefsOf(tx[w].made, j) \cup (IF r.type = j THEN {r.ref} ELSE {})
    BY <2>1, TypeOfAppend
  <2>3. ASSUME NEW j, j # k
        PROVE  TypeOf(tx'[w].made, j) = TypeOf(tx[w].made, j) /\ RefsOf(tx'[w].made, j) = RefsOf(tx[w].made, j)
    <3>1. (IF r.type = j THEN {Len(tx[w].made) + 1} ELSE {}) = {} /\ (IF r.type = j THEN {r.ref} ELSE {}) = {}
      BY <2>3
    <3>2. /\ TypeOf(tx'[w].made, j) = TypeOf(tx[w].made, j) \cup (IF r.type = j THEN {Len(tx[w].made) + 1} ELSE {})
          /\ RefsOf(tx'[w].made, j) = RefsOf(tx[w].made, j) \cup (IF r.type = j THEN {r.ref} ELSE {})
      BY <2>2
    <3>3. /\ TypeOf(tx'[w].made, j) = TypeOf(tx[w].made, j) \cup {}
          /\ RefsOf(tx'[w].made, j) = RefsOf(tx[w].made, j) \cup {}
      BY <3>1, <3>2
    <3> QED
      BY <3>3
  <2>4. /\ TypeOf(tx'[w].made, k) = TypeOf(tx[w].made, k) \cup {Len(tx[w].made) + 1}
        /\ RefsOf(tx'[w].made, k) = RefsOf(tx[w].made, k) \cup {Reached(w, k) + 1}
    BY <2>2
  <2> QED
    BY <2>3, <2>4
<1>12. TakenAreDense'
  <2> SUFFICES ASSUME NEW v \in Threads, NEW j \in TicketTypes
               PROVE  /\ tx'[v].last[j] # Missing => tx'[v].last[j] > Base(j)
                      /\ RefsOf(tx'[v].made, j) = (Base(j) + 1) .. Reached(v, j)'
                      /\ Cardinality(TypeOf(tx'[v].made, j)) = Reached(v, j)' - Base(j)
    BY <1>10 DEF TakenAreDense
  <2>1. CASE v # w
    BY <1>11, <2>1 DEF RefInv, TakenAreDense
  <2>2. CASE v = w /\ j # k
    <3>1. TypeOf(tx'[w].made, j) = TypeOf(tx[w].made, j) /\ RefsOf(tx'[w].made, j) = RefsOf(tx[w].made, j)
      BY <1>13, <2>2
    <3>2. Reached(w, j)' = Reached(w, j) /\ tx'[w].last[j] = tx[w].last[j]
      BY <1>3, <1>11, <2>2
    <3>3. /\ tx[w].last[j] # Missing => tx[w].last[j] > Base(j)
          /\ RefsOf(tx[w].made, j) = (Base(j) + 1) .. Reached(w, j)
          /\ Cardinality(TypeOf(tx[w].made, j)) = Reached(w, j) - Base(j)
      BY DEF RefInv, TakenAreDense
    <3> QED
      BY <2>2, <3>1, <3>2, <3>3
  <2>3. CASE v = w /\ j = k
    <3>1. /\ TypeOf(tx'[w].made, k) = TypeOf(tx[w].made, k) \cup {Len(tx[w].made) + 1}
          /\ RefsOf(tx'[w].made, k) = RefsOf(tx[w].made, k) \cup {Reached(w, k) + 1}
      BY <1>13
    <3>2. Cardinality(TypeOf(tx'[w].made, k)) = Cardinality(TypeOf(tx[w].made, k)) + 1
      <4>1. TypeOf(tx[w].made, k) \in SUBSET DOMAIN tx[w].made
        BY DEF TypeOf
      <4> QED
        <5>1. tx[w].made \in Seq(Row)
          BY <1>1
        <5> QED
          BY <3>1, <4>1, <5>1, OneMoreIndex
    <3>3. /\ RefsOf(tx[w].made, k) = (Base(k) + 1) .. Reached(w, k)
          /\ Cardinality(TypeOf(tx[w].made, k)) = Reached(w, k) - Base(k)
          /\ tx[w].last[k] # Missing => tx[w].last[k] > Base(k)
      BY DEF RefInv, TakenAreDense
    <3>4. Reached(w, k) >= Base(k) /\ Base(k) \in Nat /\ Reached(w, k) \in Nat
      BY <1>1, <3>3 DEF Reached
    <3>5. ((Base(k) + 1) .. Reached(w, k)) \cup {Reached(w, k) + 1} = (Base(k) + 1) .. (Reached(w, k) + 1)
      BY <3>4
    <3>6. RefsOf(tx'[w].made, k) = (Base(k) + 1) .. (Reached(w, k) + 1)
      BY <3>1, <3>3, <3>5
    <3>7. Cardinality(TypeOf(tx'[w].made, k)) = (Reached(w, k) + 1) - Base(k)
      BY <3>2, <3>3, <3>4
    <3>8. Reached(w, k) + 1 > Base(k)
      BY <3>4
    <3> QED
      BY <1>3, <1>11, <2>3, <3>6, <3>7, <3>8
  <2> QED
    BY <2>1, <2>2, <2>3
<1> QED
  BY <1>8, <1>9, <1>12 DEF RefInv

LEMMA EmptyCounts ==
  /\ \A k : TypeOf(<<>>, k) = {} /\ RefsOf(<<>>, k) = {}
  /\ AutoOf(<<>>) = {} /\ Cardinality(AutoOf(<<>>)) = 0
  /\ \A k : Cardinality(TypeOf(<<>>, k)) = 0
<1>1. DOMAIN <<>> = {}
  OBVIOUS
<1>2. \A k : TypeOf(<<>>, k) = {}
  BY <1>1 DEF TypeOf
<1>3. AutoOf(<<>>) = {}
  BY <1>1 DEF AutoOf
<1>4. \A k : RefsOf(<<>>, k) = {}
  BY <1>2 DEF RefsOf
<1> QED
  BY <1>2, <1>3, <1>4, FS_EmptySet

\* A transaction gives its locks back.
LEMMA LocksAreReleased ==
  ASSUME TicketingTypeOK, LocksAreHeld, NEW w \in Threads, holder' = Released(w),
         \A k \in TicketTypes : tx'[w].last[k] = Missing,
         \A v \in Threads \ {w} : tx'[v] = tx[v]
  PROVE  LocksAreHeld'
<1> SUFFICES ASSUME NEW v \in Threads, NEW k \in TicketTypes PROVE tx'[v].last[k] # Missing <=> holder'[k] = v
  BY DEF LocksAreHeld
<1>1. holder'[k] = IF holder[k] = w THEN NoOne ELSE holder[k]
  BY DEF Released
<1>2. NoOne \notin Threads
  BY TicketingAssumption
<1> QED
  BY <1>1, <1>2 DEF LocksAreHeld

LEMMA RefAborts ==
  ASSUME TicketingTypeOK, RefInv, NEW w \in Threads, holder' = Released(w),
         \A k \in TicketTypes : tx'[w].last[k] = Missing,
         tx'[w].made = <<>>,
         \A v \in Threads \ {w} : tx'[v] = tx[v],
         tickets' = tickets, counter' = counter
  PROVE  RefInv'
<1>1. LocksAreHeld'
  BY LocksAreReleased DEF RefInv
<1>2. ReferencesAreDense'
  BY DenseStands DEF RefInv
<1>3. \A k : Base(k)' = Base(k)
  BY DEF Base
<1>4. \A k \in TicketTypes : Base(k) \in Nat
  BY BaseTyped
<1>5. TakenAreDense'
  <2> SUFFICES ASSUME NEW v \in Threads, NEW k \in TicketTypes
               PROVE  /\ tx'[v].last[k] # Missing => tx'[v].last[k] > Base(k)
                      /\ RefsOf(tx'[v].made, k) = (Base(k) + 1) .. Reached(v, k)'
                      /\ Cardinality(TypeOf(tx'[v].made, k)) = Reached(v, k)' - Base(k)
    BY <1>3 DEF TakenAreDense
  <2>1. CASE v # w
    <3>1. Reached(v, k)' = Reached(v, k)
      BY <1>3, <2>1 DEF Reached
    <3> QED
      BY <2>1, <3>1 DEF RefInv, TakenAreDense
  <2>2. CASE v = w
    <3>1. Reached(v, k)' = Base(k)
      BY <1>3, <2>2 DEF Reached
    <3>2. RefsOf(tx'[v].made, k) = {} /\ Cardinality(TypeOf(tx'[v].made, k)) = 0
      BY <2>2, EmptyCounts
    <3>3. (Base(k) + 1) .. Base(k) = {} /\ Base(k) - Base(k) = 0
      BY <1>4
    <3> QED
      BY <2>2, <3>1, <3>2, <3>3
  <2> QED
    BY <2>1, <2>2
<1> QED
  BY <1>1, <1>2, <1>5 DEF RefInv

LEMMA RefCommits ==
  ASSUME TicketingTypeOK, RefInv, NEW w \in Threads, holder' = Released(w),
         \A k \in TicketTypes : tx'[w].last[k] = Missing,
         tx'[w].made = <<>>,
         \A v \in Threads \ {w} : tx'[v] = tx[v],
         tickets' = tickets \o tx[w].made,
         counter' = [k \in TicketTypes |-> IF tx[w].last[k] = Missing THEN counter[k] ELSE tx[w].last[k]]
  PROVE  RefInv'
<1>1. LocksAreHeld'
  BY LocksAreReleased DEF RefInv
<1>2. /\ \A k \in TicketTypes : Base(k) \in Nat
      /\ \A v \in Threads, k \in TicketTypes :
           tx[v].last[k] \in Nat \cup {Missing} /\ Reached(v, k) \in Nat /\ tx[v].made \in Seq(Row)
  BY BaseTyped
<1>3. \A k \in TicketTypes : Base(k)' = Reached(w, k)
  BY <1>2 DEF Base, Reached
<1>4. tickets \in Seq(Row)
  BY DEF TicketingTypeOK
<1>5. \A k \in TicketTypes :
        /\ RefsOf(tx[w].made, k) = (Base(k) + 1) .. Reached(w, k)
        /\ Cardinality(TypeOf(tx[w].made, k)) = Reached(w, k) - Base(k)
        /\ tx[w].last[k] # Missing => tx[w].last[k] > Base(k)
  BY DEF RefInv, TakenAreDense
<1>6. \A k \in TicketTypes : Reached(w, k) >= Base(k)
  BY <1>2, <1>5 DEF Reached
<1>7. \A k \in TicketTypes : Cardinality(TypeOf(tickets', k)) = Reached(w, k) /\ RefsOf(tickets', k) = 1 .. Reached(w, k)
  <2> TAKE k \in TicketTypes
  <2>1. Base(k) = Cardinality(TypeOf(tickets, k)) /\ RefsOf(tickets, k) = 1 .. Base(k)
    BY BaseCounts DEF RefInv
  <2>2. /\ Cardinality(TypeOf(tickets', k)) = Cardinality(TypeOf(tickets, k)) + Cardinality(TypeOf(tx[w].made, k))
        /\ RefsOf(tickets', k) = RefsOf(tickets, k) \cup RefsOf(tx[w].made, k)
    BY <1>2, <1>4, TypeOfConcat
  <2>3. Cardinality(TypeOf(tickets', k)) = Reached(w, k)
    BY <1>2, <1>5, <2>1, <2>2
  <2>4. (1 .. Base(k)) \cup ((Base(k) + 1) .. Reached(w, k)) = 1 .. Reached(w, k)
    BY <1>2, <1>6
  <2> QED
    BY <1>5, <2>1, <2>2, <2>3, <2>4
<1>8. ReferencesAreDense'
  <2>0. tickets' \in Seq(Row)
    <3>1. tx[w].made \in Seq(Row)
      BY DEF TicketingTypeOK, Tx
    <3>2. tickets \o tx[w].made \in Seq(Row)
      BY <1>4, <3>1, ConcatProperties
    <3> QED
      BY <3>2
  <2> SUFFICES ASSUME NEW k \in TicketTypes
               PROVE  /\ RefsOf(tickets', k) = 1 .. Cardinality(TypeOf(tickets', k))
                      /\ counter'[k] = IF TypeOf(tickets', k) = {} THEN Missing ELSE Cardinality(TypeOf(tickets', k))
    BY DEF ReferencesAreDense, RefsOf, TypeOf
  <2>1. TypeOf(tickets', k) = {} <=> Reached(w, k) = 0
    BY <1>7, <2>0, CountsTyped
  <2>2. CASE tx[w].last[k] # Missing
    <3>1. counter'[k] = Reached(w, k) /\ Reached(w, k) # 0
      BY <1>2, <1>5, <2>2 DEF Reached
    <3> QED
      BY <1>7, <2>1, <3>1
  <2>3. CASE tx[w].last[k] = Missing
    <3>1. counter'[k] = counter[k] /\ Reached(w, k) = Base(k)
      BY <2>3 DEF Reached
    <3>2. counter[k] = IF TypeOf(tickets, k) = {} THEN Missing ELSE Cardinality(TypeOf(tickets, k))
      BY ReferencesMean DEF RefInv
    <3>3. TypeOf(tickets, k) = {} <=> Base(k) = 0
      BY <1>4, BaseCounts, CountsTyped DEF RefInv
    <3>4. counter[k] = IF Base(k) = 0 THEN Missing ELSE Base(k)
      BY <3>2, <3>3, BaseCounts DEF RefInv
    <3> QED
      BY <1>7, <2>1, <3>1, <3>4
  <2> QED
    BY <2>2, <2>3
<1>9. TakenAreDense'
  <2> SUFFICES ASSUME NEW v \in Threads, NEW k \in TicketTypes
               PROVE  /\ tx'[v].last[k] # Missing => tx'[v].last[k] > Reached(w, k)
                      /\ RefsOf(tx'[v].made, k) = (Reached(w, k) + 1) .. Reached(v, k)'
                      /\ Cardinality(TypeOf(tx'[v].made, k)) = Reached(v, k)' - Reached(w, k)
    BY <1>3 DEF TakenAreDense
  <2>1. CASE v = w
    <3>1. Reached(v, k)' = Reached(w, k)
      BY <1>3, <2>1 DEF Reached
    <3>2. RefsOf(tx'[v].made, k) = {} /\ Cardinality(TypeOf(tx'[v].made, k)) = 0
      BY <2>1, EmptyCounts
    <3>3. (Reached(w, k) + 1) .. Reached(w, k) = {} /\ Reached(w, k) - Reached(w, k) = 0
      BY <1>2
    <3> QED
      BY <2>1, <3>1, <3>2, <3>3
  <2>2. CASE v # w /\ tx[w].last[k] = Missing
    <3>1. Reached(w, k) = Base(k) /\ Base(k)' = Base(k) /\ tx'[v] = tx[v]
      BY <1>3, <2>2 DEF Reached
    <3>2. Reached(v, k)' = Reached(v, k)
      BY <3>1 DEF Reached
    <3> QED
      BY <3>1, <3>2 DEF RefInv, TakenAreDense
  <2>3. CASE v # w /\ tx[w].last[k] # Missing
    <3>1. tx[v].last[k] = Missing /\ tx'[v] = tx[v]
      BY <2>3 DEF RefInv, LocksAreHeld
    <3>2. Reached(v, k)' = Reached(w, k) /\ Reached(v, k) = Base(k)
      BY <1>3, <3>1 DEF Reached
    <3>3. RefsOf(tx[v].made, k) = (Base(k) + 1) .. Base(k) /\ Cardinality(TypeOf(tx[v].made, k)) = Base(k) - Base(k)
      BY <3>2 DEF RefInv, TakenAreDense
    <3>4. (Base(k) + 1) .. Base(k) = {} /\ Base(k) - Base(k) = 0 /\ (Reached(w, k) + 1) .. Reached(w, k) = {}
          /\ Reached(w, k) - Reached(w, k) = 0
      BY <1>2
    <3> QED
      BY <3>1, <3>2, <3>3, <3>4
  <2> QED
    BY <2>1, <2>2, <2>3
<1> QED
  BY <1>1, <1>8, <1>9 DEF RefInv

(* The budget. *)

LEMMA BudgetTyped ==
  ASSUME TicketingTypeOK
  PROVE  /\ Committed \in Nat /\ Cap \in Nat /\ Cap > 0 /\ Cardinality(Threads) \in Nat
         /\ \A v \in Threads : Autos(v) \in Nat
         /\ IsFiniteSet(Deciding) /\ Cardinality(Deciding) \in Nat /\ Deciding \subseteq Threads
<1>1. tickets \in Seq(Row) /\ \A v \in Threads : tx[v].made \in Seq(Row)
  BY DEF TicketingTypeOK, Tx
<1>2. Committed \in Nat /\ \A v \in Threads : Autos(v) \in Nat
  BY <1>1, CountsTyped DEF Committed, Autos
<1>3. IsFiniteSet(Threads) /\ Cap \in Nat /\ Cap > 0
  BY TicketingAssumption
<1>4. Deciding \subseteq Threads
  BY DEF Deciding
<1> QED
  BY <1>2, <1>3, <1>4, FS_Subset, FS_CardinalityType

LEMMA BudgetTypedNext == TicketingTypeOK' => (Committed \in Nat /\ Cardinality(Deciding) \in Nat)'
<1>1. TicketingTypeOK => Committed \in Nat /\ Cardinality(Deciding) \in Nat
  BY BudgetTyped
<1> QED
  BY <1>1, PTL

\* Less of everything.
LEMMA BudgetShrinks ==
  ASSUME TicketingTypeOK, TicketingTypeOK', BudgetInv, Committed' <= Committed,
         \A v \in Threads : Autos(v)' = Autos(v) \/ Autos(v)' = 0,
         Deciding' \subseteq Deciding
  PROVE  BudgetInv'
<1>1. /\ Committed \in Nat /\ Cap \in Nat /\ Cap > 0 /\ Cardinality(Threads) \in Nat
      /\ \A v \in Threads : Autos(v) \in Nat
      /\ IsFiniteSet(Deciding) /\ Cardinality(Deciding) \in Nat
  BY BudgetTyped
<1>2. Committed' \in Nat /\ Cardinality(Deciding)' \in Nat
  BY BudgetTypedNext
<1>3. Cardinality(Deciding)' <= Cardinality(Deciding)
  BY <1>1, FS_Subset
<1>4. ASSUME NEW v \in Threads
      PROVE  /\ Autos(v)' > 0 => \/ Autos(v)' = 1 /\ v \notin Deciding'
                                 \/ Committed' + Autos(v)' + (IF v \in Deciding' THEN 1 ELSE 0) <= Cap
             /\ Committed' + Autos(v)' + Cardinality(Deciding)' <= Cap + Cardinality(Threads) - 1
  <2>1. /\ Autos(v) > 0 => \/ Autos(v) = 1 /\ v \notin Deciding
                           \/ Committed + Autos(v) + (IF v \in Deciding THEN 1 ELSE 0) <= Cap
        /\ Committed + Autos(v) + Cardinality(Deciding) <= Cap + Cardinality(Threads) - 1
    BY DEF BudgetInv, BudgetIsKept
  <2>2. Autos(v) \in Nat /\ (Autos(v)' = Autos(v) \/ Autos(v)' = 0)
    BY <1>1
  <2>3. Committed' + Autos(v)' + Cardinality(Deciding)' <= Cap + Cardinality(Threads) - 1
    BY <1>1, <1>2, <1>3, <2>1, <2>2
  <2>4. CASE v \in Deciding'
    <3>1. v \in Deciding
      BY <2>4
    <3> QED
      BY <1>1, <1>2, <2>1, <2>2, <2>3, <2>4, <3>1
  <2>5. CASE v \notin Deciding'
    BY <1>1, <1>2, <2>1, <2>2, <2>3, <2>5
  <2> QED
    BY <2>4, <2>5
<1>5. BudgetIsKept'
  BY <1>4 DEF BudgetIsKept
<1>6. Committed' <= Cap + Cardinality(Threads) - 1
  BY <1>1, <1>2 DEF BudgetInv
<1> QED
  BY <1>5, <1>6 DEF BudgetInv

LEMMA BudgetDecides ==
  ASSUME TicketingTypeOK, TicketingTypeOK', BudgetInv, NEW w \in Threads, w \notin Deciding,
         Deciding' = Deciding \cup {w}, Committed + Autos(w) < Cap,
         Committed' = Committed, \A v \in Threads : Autos(v)' = Autos(v)
  PROVE  BudgetInv'
<1>1. /\ Committed \in Nat /\ Cap \in Nat /\ Cap > 0 /\ Cardinality(Threads) \in Nat
      /\ \A v \in Threads : Autos(v) \in Nat
      /\ IsFiniteSet(Deciding) /\ Cardinality(Deciding) \in Nat /\ IsFiniteSet(Threads) /\ Deciding \subseteq Threads
  BY BudgetTyped, TicketingAssumption
<1>2. Cardinality(Deciding)' = Cardinality(Deciding) + 1
  BY <1>1, FS_AddElement
<1>3. Cardinality(Deciding) + 1 <= Cardinality(Threads)
  <2>1. IsFiniteSet(Deciding \cup {w}) /\ Deciding \cup {w} \subseteq Threads
    BY <1>1, FS_AddElement
  <2>2. Cardinality(Deciding \cup {w}) <= Cardinality(Threads)
    BY <1>1, <2>1, FS_Subset
  <2> QED
    BY <1>2, <2>2
<1>4. ASSUME NEW v \in Threads, v \notin Deciding, v # w PROVE Cardinality(Deciding) + 2 <= Cardinality(Threads)
  <2>1. IsFiniteSet(Deciding \cup {w}) /\ Cardinality(Deciding \cup {w}) = Cardinality(Deciding) + 1
    BY <1>1, <1>2, FS_AddElement
  <2>2. v \notin Deciding \cup {w}
    BY <1>4
  <2>3. IsFiniteSet((Deciding \cup {w}) \cup {v}) /\ Cardinality((Deciding \cup {w}) \cup {v}) = Cardinality(Deciding) + 1 + 1
    BY <2>1, <2>2, FS_AddElement
  <2>4. (Deciding \cup {w}) \cup {v} \subseteq Threads
    BY <1>1
  <2>5. Cardinality((Deciding \cup {w}) \cup {v}) <= Cardinality(Threads)
    BY <1>1, <2>4, FS_Subset
  <2> QED
    BY <1>1, <2>3, <2>5
<1>5. ASSUME NEW v \in Threads
      PROVE  /\ Autos(v) > 0 => \/ Autos(v) = 1 /\ v \notin Deciding'
                                \/ Committed + Autos(v) + (IF v \in Deciding' THEN 1 ELSE 0) <= Cap
             /\ Committed + Autos(v) + (Cardinality(Deciding) + 1) <= Cap + Cardinality(Threads) - 1
  <2>1. Autos(v) > 0 => \/ Autos(v) = 1 /\ v \notin Deciding
                        \/ Committed + Autos(v) + (IF v \in Deciding THEN 1 ELSE 0) <= Cap
    BY DEF BudgetInv, BudgetIsKept
  <2>2. Autos(v) \in Nat /\ Autos(w) \in Nat
    BY <1>1
  <2>3. CASE v = w
    BY <1>1, <1>3, <2>2, <2>3
  <2>4. CASE v # w /\ v \in Deciding
    <3>1. v \in Deciding'
      BY <2>4
    <3> QED
      BY <1>1, <1>3, <2>1, <2>2, <2>4, <3>1
  <2>5. CASE v # w /\ v \notin Deciding
    <3>1. v \notin Deciding'
      BY <2>5
    <3>2. Cardinality(Deciding) + 2 <= Cardinality(Threads)
      BY <1>4, <2>5
    <3> QED
      BY <1>1, <2>1, <2>2, <2>5, <3>1, <3>2
  <2> QED
    BY <2>3, <2>4, <2>5
<1>6. BudgetIsKept'
  BY <1>2, <1>5 DEF BudgetIsKept
<1> QED
  BY <1>6 DEF BudgetInv

LEMMA BudgetTakes ==
  ASSUME TicketingTypeOK, TicketingTypeOK', BudgetInv, NEW w \in Threads, w \in Deciding,
         Deciding' = Deciding \ {w}, Committed' = Committed,
         Autos(w)' = Autos(w) + 1, \A v \in Threads \ {w} : Autos(v)' = Autos(v)
  PROVE  BudgetInv'
<1>1. /\ Committed \in Nat /\ Cap \in Nat /\ Cap > 0 /\ Cardinality(Threads) \in Nat
      /\ \A v \in Threads : Autos(v) \in Nat
      /\ IsFiniteSet(Deciding) /\ Cardinality(Deciding) \in Nat
  BY BudgetTyped
<1>2. Cardinality(Deciding)' = Cardinality(Deciding) - 1
  BY <1>1, FS_RemoveElement
<1>3. ASSUME NEW v \in Threads
      PROVE  /\ Autos(v)' > 0 => \/ Autos(v)' = 1 /\ v \notin Deciding'
                                 \/ Committed + Autos(v)' + (IF v \in Deciding' THEN 1 ELSE 0) <= Cap
             /\ Committed + Autos(v)' + (Cardinality(Deciding) - 1) <= Cap + Cardinality(Threads) - 1
  <2>1. /\ Autos(v) > 0 => \/ Autos(v) = 1 /\ v \notin Deciding
                           \/ Committed + Autos(v) + (IF v \in Deciding THEN 1 ELSE 0) <= Cap
        /\ Committed + Autos(v) + Cardinality(Deciding) <= Cap + Cardinality(Threads) - 1
    BY DEF BudgetInv, BudgetIsKept
  <2>2. Autos(v) \in Nat
    BY <1>1
  <2>3. CASE v = w
    <3>1. v \in Deciding /\ v \notin Deciding' /\ Autos(v)' = Autos(v) + 1
      BY <2>3
    <3> QED
      BY <1>1, <2>1, <2>2, <3>1
  <2>4. CASE v # w
    <3>1. (v \in Deciding <=> v \in Deciding') /\ Autos(v)' = Autos(v)
      BY <2>4
    <3> QED
      BY <1>1, <2>1, <2>2, <3>1
  <2> QED
    BY <2>3, <2>4
<1>4. BudgetIsKept'
  BY <1>2, <1>3 DEF BudgetIsKept
<1> QED
  BY <1>4 DEF BudgetInv

LEMMA BudgetCommits ==
  ASSUME TicketingTypeOK, TicketingTypeOK', BudgetInv, NEW w \in Threads,
         Deciding' = Deciding, Committed' = Committed + Autos(w),
         Autos(w)' = 0, \A v \in Threads \ {w} : Autos(v)' = Autos(v) /\ (Autos(w) = 0 \/ Autos(v) = 0)
  PROVE  BudgetInv'
<1>1. /\ Committed \in Nat /\ Cap \in Nat /\ Cap > 0 /\ Cardinality(Threads) \in Nat
      /\ \A v \in Threads : Autos(v) \in Nat
      /\ IsFiniteSet(Deciding) /\ Cardinality(Deciding) \in Nat
  BY BudgetTyped
<1>2. Committed + Autos(w) + Cardinality(Deciding) <= Cap + Cardinality(Threads) - 1
  BY DEF BudgetInv, BudgetIsKept
<1>3. ASSUME NEW v \in Threads
      PROVE  /\ Autos(v)' > 0 => \/ Autos(v)' = 1 /\ v \notin Deciding
                                 \/ (Committed + Autos(w)) + Autos(v)' + (IF v \in Deciding THEN 1 ELSE 0) <= Cap
             /\ (Committed + Autos(w)) + Autos(v)' + Cardinality(Deciding) <= Cap + Cardinality(Threads) - 1
  <2>1. /\ Autos(v) > 0 => \/ Autos(v) = 1 /\ v \notin Deciding
                           \/ Committed + Autos(v) + (IF v \in Deciding THEN 1 ELSE 0) <= Cap
        /\ Committed + Autos(v) + Cardinality(Deciding) <= Cap + Cardinality(Threads) - 1
    BY DEF BudgetInv, BudgetIsKept
  <2>2. Autos(v) \in Nat /\ Autos(w) \in Nat
    BY <1>1
  <2>3. CASE v = w
    BY <1>1, <1>2, <2>2, <2>3
  <2>4. CASE v # w /\ Autos(w) = 0
    <3>1. Autos(v)' = Autos(v)
      BY <2>4
    <3> QED
      BY <1>1, <2>1, <2>2, <2>4, <3>1
  <2>5. CASE v # w /\ Autos(v) = 0
    <3>1. Autos(v)' = 0
      BY <2>5
    <3> QED
      BY <1>1, <1>2, <2>2, <3>1
  <2> QED
    BY <2>3, <2>4, <2>5
<1>4. BudgetIsKept'
  BY <1>3 DEF BudgetIsKept
<1>5. Committed + Autos(w) <= Cap + Cardinality(Threads) - 1
  BY <1>1, <1>2
<1> QED
  BY <1>4, <1>5 DEF BudgetInv

\* Tickets of the automation are taken under the lock of one counter.
LEMMA AutosHold ==
  ASSUME TicketingTypeOK, LocksAreHeld, NEW v \in Threads, Sober(tx[v]), Autos(v) > 0
  PROVE  holder["remediation"] = v
<1>1. tx[v].made \in Seq(Row)
  BY DEF TicketingTypeOK, Tx
<1>2. AutoOf(tx[v].made) # {}
  BY FS_EmptySet DEF Autos
<1>3. PICK i \in DOMAIN tx[v].made : tx[v].made[i].auto
  BY <1>2 DEF AutoOf
<1>4. tx[v].made[i].type = "remediation" /\ tx[v].last[tx[v].made[i].type] # Missing
  BY <1>3 DEF Sober
<1> QED
  BY <1>4 DEF LocksAreHeld, TicketTypes

(* Issues. *)

Waiting(f) == {w \in Threads : f \in tx[w].pushed /\ ~link[f].exists}

LEMMA WaitingFinite == \A f : IsFiniteSet(Waiting(f)) /\ Cardinality(Waiting(f)) \in Nat
<1>1. IsFiniteSet(Threads)
  BY TicketingAssumption
<1>2. \A f : Waiting(f) \subseteq Threads
  BY DEF Waiting
<1> QED
  BY <1>1, <1>2, FS_Subset, FS_CardinalityType

LEMMA IssuesMean ==
  IssuesAreAccounted <=>
    \A f \in Findings : issues[f] = lost[f] + (IF link[f].exists THEN 1 ELSE 0) + Cardinality(Waiting(f))
BY DEF IssuesAreAccounted, Waiting

LEMMA IssuesStand ==
  ASSUME IssueInv, issues' = issues, lost' = lost,
         \A f \in Findings : link'[f].exists = link[f].exists /\ (link'[f].active => link'[f].exists),
         \A v \in Threads : tx'[v].pushed = tx[v].pushed
  PROVE  IssueInv'
<1>1. PushesAreApart'
  BY DEF IssueInv, PushesAreApart
<1>2. \A f \in Findings : Waiting(f)' = Waiting(f)
  BY DEF Waiting
<1>3. \A f \in Findings : issues'[f] = lost'[f] + (IF link'[f].exists THEN 1 ELSE 0) + Cardinality(Waiting(f)')
  BY <1>2, IssuesMean DEF IssueInv
<1>4. IssuesAreAccounted'
  BY <1>3 DEF IssuesAreAccounted, Waiting
<1> QED
  BY <1>1, <1>4 DEF IssueInv

\* A transaction raises an issue, or uses the link there is.
LEMMA IssueRaised ==
  ASSUME TicketingTypeOK, IssueInv, NEW w \in Threads, NEW f \in Findings,
         \A v \in Threads : f \notin tx[v].pushed,
         issues' = [issues EXCEPT ![f] = IF link[f].exists THEN @ ELSE @ + 1], lost' = lost, link' = link,
         tx'[w].pushed = tx[w].pushed \cup {f}, \A v \in Threads \ {w} : tx'[v] = tx[v]
  PROVE  IssueInv'
<1>1. PushesAreApart'
  <2> SUFFICES ASSUME NEW v \in Threads, NEW u \in Threads, v # u PROVE tx'[v].pushed \cap tx'[u].pushed = {}
    BY DEF PushesAreApart
  <2>1. tx[v].pushed \cap tx[u].pushed = {}
    BY DEF IssueInv, PushesAreApart
  <2> QED
    BY <2>1
<1>2. \A g \in Findings \ {f} : Waiting(g)' = Waiting(g)
  BY DEF Waiting
<1>3. issues \in [Findings -> Nat] /\ lost \in [Findings -> Nat]
  BY DEF TicketingTypeOK
<1>4. issues'[f] = lost'[f] + (IF link'[f].exists THEN 1 ELSE 0) + Cardinality(Waiting(f)')
  <2>1. issues[f] = lost[f] + (IF link[f].exists THEN 1 ELSE 0) + Cardinality(Waiting(f))
    BY IssuesMean DEF IssueInv
  <2>2. Waiting(f) = {}
    BY DEF Waiting
  <2>3. CASE link[f].exists
    <3>1. Waiting(f)' = {}
      BY <2>3 DEF Waiting
    <3> QED
      BY <1>3, <2>1, <2>2, <2>3, <3>1
  <2>4. CASE ~link[f].exists
    <3>1. Waiting(f)' = {w}
      BY <2>4 DEF Waiting
    <3>2. Cardinality(Waiting(f)') = 1 /\ Cardinality(Waiting(f)) = 0
      BY <2>2, <3>1, FS_EmptySet, FS_Singleton
    <3>3. issues'[f] = issues[f] + 1
      BY <1>3, <2>4
    <3> QED
      BY <1>3, <2>1, <2>4, <3>2, <3>3
  <2> QED
    BY <2>3, <2>4
<1>5. \A g \in Findings \ {f} : issues'[g] = lost'[g] + (IF link'[g].exists THEN 1 ELSE 0) + Cardinality(Waiting(g)')
  BY <1>2, <1>3, IssuesMean DEF IssueInv
<1>6. IssuesAreAccounted'
  BY <1>4, <1>5 DEF IssuesAreAccounted, Waiting
<1> QED
  BY <1>1, <1>6 DEF IssueInv

\* A transaction that ends pushes nothing any more.
LEMMA PushesEnd ==
  ASSUME IssueInv, NEW w \in Threads, tx'[w].pushed = {}, \A v \in Threads \ {w} : tx'[v] = tx[v]
  PROVE  /\ PushesAreApart'
         /\ \A f \in Findings :
              f \in tx[w].pushed => (\A v \in Threads \ {w} : f \notin tx[v].pushed) /\ (\A v \in Threads : f \notin tx'[v].pushed)
<1>1. \A v, u \in Threads : v # u => tx[v].pushed \cap tx[u].pushed = {}
  BY DEF IssueInv, PushesAreApart
<1>2. PushesAreApart'
  <2> SUFFICES ASSUME NEW v \in Threads, NEW u \in Threads, v # u PROVE tx'[v].pushed \cap tx'[u].pushed = {}
    BY DEF PushesAreApart
  <2>1. tx[v].pushed \cap tx[u].pushed = {}
    BY <1>1
  <2> QED
    BY <2>1
<1>3. ASSUME NEW f \in Findings, f \in tx[w].pushed
      PROVE  (\A v \in Threads \ {w} : f \notin tx[v].pushed) /\ (\A v \in Threads : f \notin tx'[v].pushed)
  <2>1. ASSUME NEW v \in Threads \ {w} PROVE f \notin tx[v].pushed
    <3>1. tx[v].pushed \cap tx[w].pushed = {}
      BY <1>1
    <3> QED
      BY <1>3, <3>1
  <2>2. ASSUME NEW v \in Threads PROVE f \notin tx'[v].pushed
    BY <2>1
  <2> QED
    BY <2>1, <2>2
<1> QED
  BY <1>2, <1>3

\* A commit makes the links of what was raised.
LEMMA IssuesLinked ==
  ASSUME TicketingTypeOK, IssueInv, NEW w \in Threads, issues' = issues, lost' = lost,
         tx'[w].pushed = {}, \A v \in Threads \ {w} : tx'[v] = tx[v],
         \A f \in Findings : link'[f].active => link'[f].exists,
         \A f \in Findings : link'[f].exists <=> (link[f].exists \/ f \in tx[w].pushed)
  PROVE  IssueInv'
<1>1. /\ PushesAreApart'
      /\ \A f \in Findings :
           f \in tx[w].pushed => (\A v \in Threads \ {w} : f \notin tx[v].pushed) /\ (\A v \in Threads : f \notin tx'[v].pushed)
  BY PushesEnd
<1>2. lost \in [Findings -> Nat]
  BY DEF TicketingTypeOK
<1>3. ASSUME NEW f \in Findings
      PROVE  issues'[f] = lost'[f] + (IF link'[f].exists THEN 1 ELSE 0) + Cardinality(Waiting(f)')
  <2>1. issues[f] = lost[f] + (IF link[f].exists THEN 1 ELSE 0) + Cardinality(Waiting(f))
    BY IssuesMean DEF IssueInv
  <2>2. CASE f \in tx[w].pushed /\ ~link[f].exists
    <3>1. Waiting(f) = {w}
      BY <1>1, <2>2 DEF Waiting
    <3>2. Waiting(f)' = {}
      BY <2>2 DEF Waiting
    <3>3. Cardinality(Waiting(f)) = 1 /\ Cardinality(Waiting(f)') = 0
      BY <3>1, <3>2, FS_EmptySet, FS_Singleton
    <3>4. (IF link'[f].exists THEN 1 ELSE 0) = 1 /\ (IF link[f].exists THEN 1 ELSE 0) = 0
      BY <2>2
    <3>5. lost[f] \in Nat
      BY <1>2
    <3> QED
      BY <2>1, <3>3, <3>4, <3>5
  <2>3. CASE f \notin tx[w].pushed
    <3>1. (IF link'[f].exists THEN 1 ELSE 0) = (IF link[f].exists THEN 1 ELSE 0)
      BY <2>3
    <3>2. Waiting(f)' = Waiting(f)
      BY <2>3 DEF Waiting
    <3> QED
      BY <2>1, <3>1, <3>2
  <2>4. CASE link[f].exists
    <3>1. (IF link'[f].exists THEN 1 ELSE 0) = 1 /\ (IF link[f].exists THEN 1 ELSE 0) = 1
      BY <2>4
    <3>2. Waiting(f)' = {} /\ Waiting(f) = {}
      BY <2>4 DEF Waiting
    <3> QED
      BY <2>1, <3>1, <3>2
  <2> QED
    BY <2>2, <2>3, <2>4
<1>4. IssuesAreAccounted'
  BY <1>3 DEF IssuesAreAccounted, Waiting
<1> QED
  BY <1>1, <1>4 DEF IssueInv

\* A rollback loses what was raised.
LEMMA IssuesLost ==
  ASSUME TicketingTypeOK, IssueInv, NEW w \in Threads, issues' = issues, link' = link,
         tx'[w].pushed = {}, \A v \in Threads \ {w} : tx'[v] = tx[v],
         lost' = [f \in Findings |-> IF f \in tx[w].pushed /\ ~link[f].exists THEN lost[f] + 1 ELSE lost[f]]
  PROVE  IssueInv'
<1>1. /\ PushesAreApart'
      /\ \A f \in Findings :
           f \in tx[w].pushed => (\A v \in Threads \ {w} : f \notin tx[v].pushed) /\ (\A v \in Threads : f \notin tx'[v].pushed)
  BY PushesEnd
<1>2. lost \in [Findings -> Nat]
  BY DEF TicketingTypeOK
<1>3. ASSUME NEW f \in Findings
      PROVE  issues'[f] = lost'[f] + (IF link'[f].exists THEN 1 ELSE 0) + Cardinality(Waiting(f)')
  <2>1. issues[f] = lost[f] + (IF link[f].exists THEN 1 ELSE 0) + Cardinality(Waiting(f))
    BY IssuesMean DEF IssueInv
  <2>5. (IF link'[f].exists THEN 1 ELSE 0) = (IF link[f].exists THEN 1 ELSE 0)
        /\ (IF link[f].exists THEN 1 ELSE 0) \in Nat
    OBVIOUS
  <2>6. lost[f] \in Nat
    BY <1>2
  <2>2. CASE f \in tx[w].pushed /\ ~link[f].exists
    <3>1. Waiting(f) = {w}
      BY <1>1, <2>2 DEF Waiting
    <3>2. Waiting(f)' = {}
      BY <1>1, <2>2 DEF Waiting
    <3>3. Cardinality(Waiting(f)) = 1 /\ Cardinality(Waiting(f)') = 0
      BY <3>1, <3>2, FS_EmptySet, FS_Singleton
    <3>4. lost'[f] = lost[f] + 1
      BY <2>2
    <3> QED
      BY <2>1, <2>5, <2>6, <3>3, <3>4
  <2>3. CASE f \notin tx[w].pushed \/ link[f].exists
    <3>1. lost'[f] = lost[f]
      BY <2>3
    <3>2. Waiting(f)' = Waiting(f)
      BY <2>3 DEF Waiting
    <3> QED
      BY <2>1, <2>5, <3>1, <3>2
  <2> QED
    BY <2>2, <2>3
<1>4. IssuesAreAccounted'
  BY <1>3 DEF IssuesAreAccounted, Waiting
<1> QED
  BY <1>1, <1>4 DEF IssueInv

(* Approvals. *)

\* What a transaction that moves a ticket knows of it.
Knows(t, ts) ==
  t.op = "move" =>
    /\ t.moving \in DOMAIN ts
    /\ ts[t.moving].type = "change" /\ t.copy \in Worked => Approved(ts[t.moving])

LEMMA ApprovalsMean ==
  ApprovalsAreKept <=>
    /\ \A i \in DOMAIN tickets : tickets[i].type = "change" /\ tickets[i].state \in Worked => Approved(tickets[i])
    /\ \A w \in Threads : Knows(tx[w], tickets)
BY DEF ApprovalsAreKept, Knows

\* Rows change in none of the columns an approval is about, and others come.
LEMMA ApprovalsStand ==
  ASSUME ApprovalsAreKept,
         \A i \in DOMAIN tickets :
           /\ i \in DOMAIN tickets' /\ tickets'[i].type = tickets[i].type /\ tickets'[i].state = tickets[i].state
           /\ tickets'[i].approved = tickets[i].approved /\ tickets'[i].approver = tickets[i].approver
           /\ tickets'[i].requester = tickets[i].requester,
         \A i \in DOMAIN tickets' : i \in DOMAIN tickets \/ tickets'[i].state \notin Worked,
         \A v \in Threads : tx'[v].op = "move" => Knows(tx'[v], tickets)
  PROVE  ApprovalsAreKept'
<1>1. \A i \in DOMAIN tickets : Approved(tickets[i]) => Approved(tickets'[i])
  BY DEF Approved
<1>2. \A i \in DOMAIN tickets' : tickets'[i].type = "change" /\ tickets'[i].state \in Worked => Approved(tickets'[i])
  BY <1>1, ApprovalsMean
<1>3. \A v \in Threads : Knows(tx'[v], tickets')
  BY <1>1 DEF Knows
<1> QED
  BY <1>2, <1>3 DEF ApprovalsAreKept, Knows

(* Transactions. *)

Decides(t) == t.op = "import" /\ t.phase \in {"select", "insert"}

LEMMA DecidingIs == Deciding = {v \in Threads : Decides(tx[v])}
BY DEF Deciding, Decides

\* A transaction turns to something else; it has written nothing more.
LEMMA TxTurns ==
  ASSUME WorkInv, NEW w \in Threads, NEW x \in Tx, tx' = [tx EXCEPT ![w] = x],
         x.made = tx[w].made, x.last = tx[w].last, x.pushed = tx[w].pushed, Sober(x),
         x.op = "move" => Knows(x, tickets),
         Decides(x) => w \in Deciding \/ Committed + Autos(w) < Cap,
         UNCHANGED <<tickets, counter, holder, condition, link, issues, lost, mode, traffic>>
  PROVE  WorkInv'
<1>1. tx \in [Threads -> Tx]
  BY DEF WorkInv, TicketingTypeOK
<1>2. tx'[w] = x /\ \A v \in Threads \ {w} : tx'[v] = tx[v]
  BY <1>1
<1>3. TicketingTypeOK'
  BY <1>1 DEF WorkInv, TicketingTypeOK
<1>4. \A v \in Threads : tx'[v].last = tx[v].last /\ tx'[v].made = tx[v].made /\ tx'[v].pushed = tx[v].pushed
  BY <1>2
<1>5. RefInv'
  BY <1>4, RefStands DEF WorkInv
<1>6. Committed' = Committed /\ \A v \in Threads : Autos(v)' = Autos(v)
  BY <1>4 DEF Committed, Autos
<1>7. BudgetInv'
  <2>1. Deciding' = {v \in Threads : Decides(tx'[v])}
    BY DEF Deciding, Decides
  <2>2. TicketingTypeOK /\ BudgetInv
    BY DEF WorkInv
  <2>3. Committed \in Nat
    BY <2>2, BudgetTyped
  <2>4. CASE Decides(x) /\ w \notin Deciding
    <3>1. Deciding' = Deciding \cup {w}
      BY <1>2, <2>1, <2>4, DecidingIs
    <3> QED
      BY <1>3, <1>6, <2>2, <2>4, <3>1, BudgetDecides
  <2>5. CASE ~(Decides(x) /\ w \notin Deciding)
    <3>1. Deciding' \subseteq Deciding
      BY <1>2, <2>1, <2>5, DecidingIs
    <3>2. Committed' <= Committed
      BY <1>6, <2>3
    <3> QED
      BY <1>3, <1>6, <2>2, <3>1, <3>2, BudgetShrinks
  <2> QED
    BY <2>4, <2>5
<1>8. ApprovalsAreKept'
  <2>1. \A v \in Threads : tx'[v].op = "move" => Knows(tx'[v], tickets)
    BY <1>2, ApprovalsMean DEF WorkInv
  <2> QED
    BY <2>1, ApprovalsStand DEF WorkInv
<1>9. IssueInv'
  <2>1. \A f \in Findings : link'[f].active => link'[f].exists
    BY DEF WorkInv, IssueInv
  <2> QED
    BY <1>4, <2>1, IssuesStand DEF WorkInv
<1>10. \A v \in Threads : Sober(tx'[v])
  BY <1>2 DEF WorkInv
<1>11. (\A v \in Threads : Sober(tx[v]))'
  BY <1>10 DEF Sober
<1> QED
  BY <1>3, <1>5, <1>7, <1>8, <1>9, <1>11 DEF WorkInv

\* Nothing is under way.
LEMMA IdleTxIs ==
  /\ IdleTx \in Tx /\ Sober(IdleTx) /\ ~Decides(IdleTx)
  /\ IdleTx.made = <<>> /\ IdleTx.pushed = {} /\ IdleTx.todo = {} /\ IdleTx.op = "idle" /\ IdleTx.phase = "look"
  /\ IdleTx.last = [t \in TicketTypes |-> Missing]
<1>1. <<>> \in Seq(Row) /\ "remediation" \in TicketTypes /\ "open" \in TicketStates
  BY DEF TicketTypes, TicketStates, OpenTicketStates
<1>2. IdleTx \in Tx
  BY <1>1 DEF IdleTx, Tx
<1>3. /\ IdleTx.made = <<>> /\ IdleTx.pushed = {} /\ IdleTx.todo = {} /\ IdleTx.op = "idle" /\ IdleTx.phase = "look"
      /\ IdleTx.last = [t \in TicketTypes |-> Missing] /\ IdleTx.type = "remediation"
  BY DEF IdleTx
<1>4. DOMAIN IdleTx.made = {}
  BY <1>3
<1>5. Sober(IdleTx)
  BY <1>3, <1>4 DEF Sober
<1>6. ~Decides(IdleTx)
  BY <1>3 DEF Decides
<1> QED
  BY <1>2, <1>3, <1>5, <1>6

LEMMA IdleHasNothing ==
  ASSUME WorkInv, NEW w \in Threads, tx[w].op \in {"idle", "move"}
  PROVE  /\ tx[w].made = <<>> /\ tx[w].pushed = {} /\ tx[w].todo = {} /\ tx[w].phase = "look"
         /\ tx[w].last = [t \in TicketTypes |-> Missing]
<1>1. Sober(tx[w]) /\ tx[w].last \in [TicketTypes -> Nat \cup {Missing}]
  BY DEF WorkInv, TicketingTypeOK, Tx
<1>2. \A k \in TicketTypes : tx[w].last[k] = Missing
  BY <1>1 DEF Sober
<1>3. tx[w].last = [t \in TicketTypes |-> Missing]
  BY <1>1, <1>2
<1> QED
  BY <1>1, <1>3 DEF Sober

\* A transaction begins.
LEMMA BeginKeepsWork ==
  ASSUME WorkInv, NEW w \in Threads, NEW op \in {"import", "backfill", "request", "create", "move"},
         NEW t \in Tx, Begin(w, op, t),
         t.made = <<>>, t.pushed = {}, t.last = [k \in TicketTypes |-> Missing],
         op = "move" => t.phase = "look" /\ t.todo = {} /\ Knows([t EXCEPT !.op = op], tickets),
         op = "import" => t.type = "remediation" /\ t.phase = "look",
         t.phase # "push"
  PROVE  WorkInv'
<1> DEFINE x == [t EXCEPT !.op = op]
<1>1. /\ x \in Tx /\ x.op = op /\ x.made = t.made /\ x.pushed = t.pushed /\ x.last = t.last
      /\ x.phase = t.phase /\ x.todo = t.todo /\ x.type = t.type
  BY DEF Tx
<1>2. x.op = "move" => Knows(x, tickets)
  BY <1>1
<1>3. tx' = [tx EXCEPT ![w] = x] /\ tx[w].op = "idle"
      /\ UNCHANGED <<tickets, counter, holder, condition, link, issues, lost, mode, traffic>>
  BY DEF Begin
<1> HIDE DEF x
<1>4. x.made = tx[w].made /\ x.last = tx[w].last /\ x.pushed = tx[w].pushed
  BY <1>1, <1>3, IdleHasNothing
<1>5. Sober(x)
  <2>1. DOMAIN x.made = {}
    BY <1>1
  <2> QED
    BY <1>1, <2>1 DEF Sober
<1>6. ~Decides(x)
  BY <1>1 DEF Decides
<1> QED
  BY <1>1, <1>2, <1>3, <1>4, <1>5, <1>6, TxTurns

LEMMA ImportBeginKeepsWork ==
  ASSUME WorkInv, NEW w \in Threads, NEW S \in SUBSET Findings, ImportBegin(w, S)
  PROVE  WorkInv'
<1> DEFINE t == [IdleTx EXCEPT !.todo = S]
<1>1. t \in Tx /\ t.made = <<>> /\ t.pushed = {} /\ t.last = [k \in TicketTypes |-> Missing]
      /\ t.type = "remediation" /\ t.phase = "look"
  <2>1. IdleTx \in Tx
    BY IdleTxIs
  <2>2. t \in Tx
    BY <2>1 DEF Tx
  <2> QED
    BY <2>2 DEF IdleTx
<1>2. Begin(w, "import", t)
  BY DEF ImportBegin
<1> HIDE DEF t
<1> QED
  BY <1>1, <1>2, BeginKeepsWork

LEMMA BackfillBeginKeepsWork ==
  ASSUME WorkInv, NEW w \in Threads, BackfillBegin(w)
  PROVE  WorkInv'
<1> DEFINE t == [IdleTx EXCEPT !.todo = {f \in Findings : Matches(f)}]
<1>1. t \in Tx /\ t.made = <<>> /\ t.pushed = {} /\ t.last = [k \in TicketTypes |-> Missing]
      /\ t.phase = "look"
  <2>1. IdleTx \in Tx
    BY IdleTxIs
  <2>2. t \in Tx
    BY <2>1 DEF Tx
  <2> QED
    BY <2>2 DEF IdleTx
<1>2. Begin(w, "backfill", t)
  BY DEF BackfillBegin
<1> HIDE DEF t
<1> QED
  BY <1>1, <1>2, BeginKeepsWork

LEMMA RemediationBeginKeepsWork ==
  ASSUME WorkInv, NEW w \in Threads, NEW f \in Findings, RemediationBegin(w, f)
  PROVE  WorkInv'
<1> DEFINE t == [IdleTx EXCEPT !.todo = {f}]
<1>1. t \in Tx /\ t.made = <<>> /\ t.pushed = {} /\ t.last = [k \in TicketTypes |-> Missing]
      /\ t.phase = "look"
  <2>1. IdleTx \in Tx
    BY IdleTxIs
  <2>2. t \in Tx
    BY <2>1 DEF Tx
  <2> QED
    BY <2>2 DEF IdleTx
<1>2. Begin(w, "request", t)
  BY DEF RemediationBegin
<1> HIDE DEF t
<1> QED
  BY <1>1, <1>2, BeginKeepsWork

LEMMA CreateBeginKeepsWork ==
  ASSUME WorkInv, NEW w \in Threads, NEW type \in TicketTypes, NEW f \in Findings \cup {NoOne},
         NEW user \in Users, CreateBegin(w, type, f, user)
  PROVE  WorkInv'
<1> DEFINE t == [IdleTx EXCEPT !.want = f, !.type = type, !.by = user, !.phase = "select"]
<1>1. t \in Tx /\ t.made = <<>> /\ t.pushed = {} /\ t.last = [k \in TicketTypes |-> Missing]
      /\ t.phase = "select"
  <2>1. IdleTx \in Tx
    BY IdleTxIs
  <2>2. t \in Tx
    BY <2>1 DEF Tx
  <2> QED
    BY <2>2 DEF IdleTx
<1>2. Begin(w, "create", t)
  BY DEF CreateBegin
<1> HIDE DEF t
<1> QED
  BY <1>1, <1>2, BeginKeepsWork

LEMMA MoveBeginKeepsWork ==
  ASSUME WorkInv, NEW w \in Threads, NEW i \in 1 .. Len(tickets), MoveBegin(w, i)
  PROVE  WorkInv'
<1> DEFINE t == [IdleTx EXCEPT !.moving = i, !.copy = tickets[i].state]
<1>0. i \in DOMAIN tickets /\ i \in Nat /\ tickets[i].state \in TicketStates
  <2>1. tickets \in Seq(Row)
    BY DEF WorkInv, TicketingTypeOK
  <2>2. i \in DOMAIN tickets /\ i \in Nat /\ tickets[i] \in Row
    BY <2>1, ElementOfSeq, LenProperties
  <2> QED
    BY <2>2 DEF Row
<1>1. t \in Tx /\ t.made = <<>> /\ t.pushed = {} /\ t.last = [k \in TicketTypes |-> Missing]
      /\ t.phase = "look" /\ t.todo = {} /\ t.moving = i /\ t.copy = tickets[i].state
  <2>1. IdleTx \in Tx
    BY IdleTxIs
  <2>2. t \in Tx
    BY <1>0, <2>1 DEF Tx
  <2> QED
    BY <2>2 DEF IdleTx
<1>2. Begin(w, "move", t)
  BY DEF MoveBegin
<1> HIDE DEF t
<1>3. Knows([t EXCEPT !.op = "move"], tickets)
  <2>1. [t EXCEPT !.op = "move"].moving = i /\ [t EXCEPT !.op = "move"].copy = tickets[i].state
    BY <1>1 DEF Tx
  <2>2. tickets[i].type = "change" /\ tickets[i].state \in Worked => Approved(tickets[i])
    BY <1>0 DEF WorkInv, ApprovalsAreKept
  <2> QED
    BY <1>0, <2>1, <2>2 DEF Knows
<1> QED
  BY <1>1, <1>2, <1>3, BeginKeepsWork

LEMMA SkipKeepsWork ==
  ASSUME WorkInv, NEW w \in Threads, NEW f \in Findings, Skip(w, f)
  PROVE  WorkInv'
<1> DEFINE x == [tx[w] EXCEPT !.todo = @ \ {f}]
<1>0. tx[w] \in Tx /\ Sober(tx[w]) /\ tx \in [Threads -> Tx]
  BY DEF WorkInv, TicketingTypeOK
<1>1. /\ x \in Tx /\ x.op = tx[w].op /\ x.made = tx[w].made /\ x.pushed = tx[w].pushed /\ x.last = tx[w].last
      /\ x.phase = tx[w].phase /\ x.todo = tx[w].todo \ {f} /\ x.type = tx[w].type
  BY <1>0 DEF Tx
<1>2. tx' = [tx EXCEPT ![w] = x] /\ tx[w].phase = "look" /\ f \in tx[w].todo
      /\ UNCHANGED <<tickets, counter, holder, condition, link, issues, lost, mode, traffic>>
  BY DEF Skip
<1> HIDE DEF x
<1>3. x.op \notin {"idle", "move"}
  BY <1>1, <1>2, IdleHasNothing
<1>4. Sober(x)
  BY <1>0, <1>1, <1>2, <1>3 DEF Sober
<1>5. ~Decides(x)
  BY <1>1, <1>2 DEF Decides
<1> QED
  BY <1>1, <1>2, <1>3, <1>4, <1>5, TxTurns

\* The budget is counted over what is committed and what the transaction made.
LEMMA BudgetCounted ==
  ASSUME TicketingTypeOK, NEW w \in Threads, ~mode.external
  PROVE  RecentAutoCreated(w) = Committed + Autos(w)
<1>1. tickets \in Seq(Row) /\ tx[w].made \in Seq(Row)
  BY DEF TicketingTypeOK, Tx
<1>2. RecentAutoCreated(w) = Cardinality(AutoOf(tickets \o tx[w].made))
  BY DEF RecentAutoCreated, SeenTickets, AutoOf
<1>3. Cardinality(AutoOf(tickets \o tx[w].made)) = Cardinality(AutoOf(tickets)) + Cardinality(AutoOf(tx[w].made))
  BY <1>1, TypeOfConcat
<1> QED
  BY <1>2, <1>3 DEF Committed, Autos

LEMMA LookKeepsWork ==
  ASSUME WorkInv, NEW w \in Threads, NEW f \in Findings, Look(w, f)
  PROVE  WorkInv'
<1> DEFINE x == [tx[w] EXCEPT !.todo = @ \ {f}, !.want = f, !.phase = IF mode.external THEN "push" ELSE "select"]
<1>0. tx[w] \in Tx /\ Sober(tx[w]) /\ tx \in [Threads -> Tx] /\ TicketingTypeOK
  BY DEF WorkInv, TicketingTypeOK
<1>1. /\ x \in Tx /\ x.op = tx[w].op /\ x.made = tx[w].made /\ x.pushed = tx[w].pushed /\ x.last = tx[w].last
      /\ x.phase = (IF mode.external THEN "push" ELSE "select")
      /\ x.todo = tx[w].todo \ {f} /\ x.type = tx[w].type /\ x.want = f
  BY <1>0 DEF Tx
<1>2. /\ tx' = [tx EXCEPT ![w] = x] /\ tx[w].phase = "look" /\ f \in tx[w].todo
      /\ UNCHANGED <<tickets, counter, holder, condition, link, issues, lost, mode, traffic>>
  <2>1. tx' = [tx EXCEPT ![w] = x]
    BY <1>0 DEF Look
  <2> QED
    BY <2>1 DEF Look
<1>3. Decides(x) => Committed + Autos(w) < Cap
  <2> SUFFICES ASSUME Decides(x) PROVE Committed + Autos(w) < Cap
    OBVIOUS
  <2> HIDE DEF x
  <2>1. x.op = "import" /\ x.phase \in {"select", "insert"}
    BY DEF Decides
  <2>2. tx[w].op = "import" /\ ~mode.external
    BY <1>1, <2>1
  <2>3. BudgetLeft(w)
    BY <2>2 DEF Look, Earns, Considers
  <2> QED
    BY <1>0, <2>2, <2>3, BudgetCounted DEF BudgetLeft
<1> HIDE DEF x
<1>4. x.op \notin {"idle", "move"}
  BY <1>1, <1>2, IdleHasNothing
<1>5. Sober(x)
  BY <1>0, <1>1, <1>2, <1>4 DEF Sober
<1> QED
  BY <1>1, <1>2, <1>3, <1>4, <1>5, TxTurns

\* create_ticket, under the lock of the counter of its type.
LEMMA TicketIsMade ==
  ASSUME WorkInv, NEW w \in Threads, NEW k \in TicketTypes, NEW n \in Nat,
         tx[w].phase \in {"select", "insert"}, k = tx[w].type, n = Reached(w, k) + 1,
         holder[k] \in {w, NoOne}, holder' = [holder EXCEPT ![k] = w],
         tx' = [tx EXCEPT ![w] = Opened(w, n)],
         UNCHANGED <<tickets, counter, condition, link, issues, lost, mode, traffic>>
  PROVE  WorkInv'
<1> DEFINE t == tx[w]
           r == NewTicket(t.type, t.want, n, t.op = "import", t.by)
           x == Opened(w, n)
<1>0. t \in Tx /\ Sober(t) /\ tx \in [Threads -> Tx] /\ TicketingTypeOK
  BY DEF WorkInv, TicketingTypeOK
<1>1. /\ r \in Row /\ r.type = k /\ r.ref = n /\ r.state = "open" /\ r.recent
      /\ r.auto = (t.op = "import")
  <2>1. t.type \in TicketTypes /\ t.want \in Findings \cup {NoOne} /\ t.by \in Users \cup {NoOne}
    BY <1>0 DEF Tx
  <2>2. "open" \in TicketStates
    BY DEF TicketStates, OpenTicketStates
  <2> QED
    BY <2>1, <2>2 DEF NewTicket, Row
<1>2. t.made \in Seq(Row) /\ t.last \in [TicketTypes -> Nat \cup {Missing}]
  BY <1>0 DEF Tx
<1>3. Append(t.made, r) \in Seq(Row) /\ [t.last EXCEPT ![k] = n] \in [TicketTypes -> Nat \cup {Missing}]
  <2> HIDE DEF r, t
  <2> QED
    BY <1>1, <1>2, AppendProperties
<1>4. /\ x \in Tx /\ x.op = t.op /\ x.made = Append(t.made, r) /\ x.pushed = t.pushed
      /\ x.last = [t.last EXCEPT ![k] = n] /\ x.phase = "look" /\ x.todo = t.todo /\ x.type = t.type
  <2>1. x = [t EXCEPT !.made = Append(t.made, r), !.last = [t.last EXCEPT ![k] = n], !.want = NoOne, !.phase = "look"]
    BY <1>0 DEF Opened, Tx
  <2> HIDE DEF r, x, t
  <2> QED
    BY <1>0, <1>3, <2>1 DEF Tx
<1>5. t.op \notin {"idle", "move"}
  BY IdleHasNothing
<1>6. tx'[w] = x /\ \A v \in Threads \ {w} : tx'[v] = tx[v]
  BY <1>0
<1> HIDE DEF x, r
<1>7. TicketingTypeOK'
  <2>1. tx' \in [Threads -> Tx]
    <3>1. tx' = [tx EXCEPT ![w] = x]
      BY DEF x
    <3> QED
      BY <1>0, <1>4, <3>1
  <2>2. holder' \in [TicketTypes -> Threads \cup {NoOne}]
    BY <1>0 DEF TicketingTypeOK
  <2> QED
    BY <1>0, <2>1, <2>2 DEF TicketingTypeOK
<1>8. RefInv'
  <2>1. tx'[w].made = Append(tx[w].made, r) /\ tx'[w].last = [tx[w].last EXCEPT ![k] = Reached(w, k) + 1]
    BY <1>4, <1>6
  <2>2. r \in Row /\ r.type = k /\ r.ref = Reached(w, k) + 1
    BY <1>1
  <2> QED
    BY <1>0, <1>6, <2>1, <2>2, RefTakes DEF WorkInv
<1>9. Committed' = Committed /\ \A v \in Threads \ {w} : Autos(v)' = Autos(v)
  BY <1>6 DEF Committed, Autos
<1>10. Deciding' = Deciding \ {w}
  <2>1. Deciding' = {v \in Threads : Decides(tx'[v])}
    BY DEF Deciding, Decides
  <2>2. ~Decides(x)
    BY <1>4 DEF Decides
  <2> QED
    BY <1>6, <2>1, <2>2, DecidingIs
<1>11. AutoOf(tx'[w].made) = AutoOf(tx[w].made) \cup (IF t.op = "import" THEN {Len(tx[w].made) + 1} ELSE {})
  <2>1. AutoOf(Append(t.made, r)) = AutoOf(t.made) \cup (IF r.auto /\ r.recent THEN {Len(t.made) + 1} ELSE {})
    BY <1>1, <1>2, TypeOfAppend
  <2> QED
    BY <1>1, <1>4, <1>6, <2>1
<1>12. AutoOf(tx[w].made) \in SUBSET DOMAIN tx[w].made
  BY DEF AutoOf
<1>13. BudgetInv'
  <2>1. CASE t.op = "import"
    <3>1. Autos(w)' = Autos(w) + 1
      <4>1. AutoOf(tx'[w].made) = AutoOf(tx[w].made) \cup {Len(tx[w].made) + 1}
        BY <1>11, <2>1
      <4>2. Cardinality(AutoOf(tx[w].made) \cup {Len(tx[w].made) + 1}) = Cardinality(AutoOf(tx[w].made)) + 1
        BY <1>2, <1>12, OneMoreIndex
      <4> QED
        BY <4>1, <4>2 DEF Autos
    <3>2. w \in Deciding
      BY <2>1 DEF Deciding
    <3> QED
      BY <1>7, <1>9, <1>10, <3>1, <3>2, BudgetTakes DEF WorkInv
  <2>2. CASE t.op # "import"
    <3>1. AutoOf(tx'[w].made) = AutoOf(tx[w].made)
      BY <1>11, <2>2
    <3>2. \A v \in Threads : Autos(v)' = Autos(v)
      BY <1>9, <3>1 DEF Autos
    <3>3. Committed' <= Committed
      BY <1>0, <1>9, BudgetTyped
    <3> QED
      BY <1>7, <1>10, <3>2, <3>3, BudgetShrinks DEF WorkInv
  <2> QED
    BY <2>1, <2>2
<1>14. ApprovalsAreKept'
  <2>1. \A v \in Threads : tx'[v].op = "move" => Knows(tx'[v], tickets)
    <3>1. \A v \in Threads \ {w} : Knows(tx'[v], tickets)
      BY <1>6, ApprovalsMean DEF WorkInv
    <3>2. tx'[w].op # "move"
      BY <1>4, <1>5, <1>6
    <3> QED
      BY <3>1, <3>2
  <2> QED
    BY <2>1, ApprovalsStand DEF WorkInv
<1>15. IssueInv'
  <2>1. \A f \in Findings : link'[f].active => link'[f].exists
    BY DEF WorkInv, IssueInv
  <2>2. \A v \in Threads : tx'[v].pushed = tx[v].pushed
    BY <1>4, <1>6
  <2> QED
    BY <2>1, <2>2, IssuesStand DEF WorkInv
<1>16. Sober(x)
  <2>1. x.op \notin {"idle", "move"} /\ (x.op = "import" => x.type = "remediation") /\ x.pushed \cap x.todo = {} /\ x.phase # "push"
    BY <1>0, <1>4, <1>5 DEF Sober
  <2>2. ASSUME NEW i \in DOMAIN x.made
        PROVE  /\ x.made[i].state = "open" /\ x.last[x.made[i].type] # Missing
               /\ x.made[i].auto => x.made[i].type = "remediation"
    <3>1. Len(t.made) \in Nat /\ DOMAIN t.made = 1 .. Len(t.made) /\ DOMAIN x.made = 1 .. (Len(t.made) + 1)
      <4> HIDE DEF t
      <4> QED
        BY <1>1, <1>2, <1>3, <1>4, AppendProperties, LenProperties
    <3>2. x.made[Len(t.made) + 1] = r /\ \A j \in DOMAIN t.made : x.made[j] = t.made[j]
      <4> HIDE DEF t
      <4> QED
        BY <1>1, <1>2, <1>4, <3>1, AppendProperties
    <3>3. n # Missing /\ x.last[k] = n /\ \A j \in TicketTypes : t.last[j] # Missing => x.last[j] # Missing
      <4> HIDE DEF t
      <4> QED
        BY <1>2, <1>4 DEF Missing
    <3>4. CASE i = Len(t.made) + 1
      <4>1. x.made[i] = r
        BY <3>2, <3>4
      <4>2. r.auto => r.type = "remediation"
        BY <1>0, <1>1 DEF Sober
      <4> QED
        BY <1>1, <3>3, <4>1, <4>2
    <3>5. CASE i # Len(t.made) + 1
      <4>1. i \in DOMAIN t.made
        BY <3>1, <3>5
      <4>2. x.made[i] = t.made[i] /\ t.made[i] \in Row
        BY <1>2, <3>2, <4>1, ElementOfSeq, <3>1
      <4>3. /\ t.made[i].state = "open" /\ t.last[t.made[i].type] # Missing
            /\ t.made[i].auto => t.made[i].type = "remediation"
        BY <1>0, <4>1 DEF Sober
      <4>4. t.made[i].type \in TicketTypes
        BY <4>2 DEF Row
      <4> QED
        BY <3>3, <4>2, <4>3, <4>4
    <3> QED
      BY <3>4, <3>5
  <2> QED
    BY <2>1, <2>2 DEF Sober
<1>17. \A v \in Threads : Sober(tx'[v])
  BY <1>6, <1>16 DEF WorkInv
<1>18. (\A v \in Threads : Sober(tx[v]))'
  BY <1>17 DEF Sober
<1> QED
  BY <1>7, <1>8, <1>13, <1>14, <1>15, <1>18 DEF WorkInv

LEMMA SelectCounterKeepsWork ==
  ASSUME WorkInv, NEW w \in Threads, SelectCounter(w)
  PROVE  WorkInv'
<1> DEFINE k == tx[w].type
           own == tx[w].last[k]
<1>0. tx[w] \in Tx /\ Sober(tx[w]) /\ tx \in [Threads -> Tx] /\ TicketingTypeOK
  BY DEF WorkInv, TicketingTypeOK
<1>1. k \in TicketTypes /\ holder \in [TicketTypes -> Threads \cup {NoOne}]
  BY <1>0 DEF Tx, TicketingTypeOK
<1>2. Reached(w, k) \in Nat /\ tx[w].phase = "select"
      /\ UNCHANGED <<tickets, counter, condition, link, issues, lost, mode, traffic>>
  BY <1>0, <1>1, BaseTyped DEF SelectCounter
<1>3. CASE own # Missing /\ tx' = [tx EXCEPT ![w] = Opened(w, own + 1)] /\ UNCHANGED holder
  <2>1. own = Reached(w, k) /\ holder[k] = w
    BY <1>1, <1>3 DEF Reached, WorkInv, RefInv, LocksAreHeld
  <2>2. holder' = [holder EXCEPT ![k] = w]
    BY <1>1, <1>3, <2>1
  <2> HIDE DEF own, k
  <2>3. own + 1 \in Nat /\ own + 1 = Reached(w, k) + 1
    BY <1>2, <2>1
  <2> QED
    BY <1>1, <1>2, <1>3, <2>1, <2>2, <2>3, TicketIsMade DEF k
<1>4. CASE own = Missing /\ counter[k] = Missing /\ tx' = [tx EXCEPT ![w].phase = "insert"] /\ UNCHANGED holder
  <2> DEFINE x == [tx[w] EXCEPT !.phase = "insert"]
  <2>1. /\ x \in Tx /\ x.op = tx[w].op /\ x.made = tx[w].made /\ x.pushed = tx[w].pushed /\ x.last = tx[w].last
        /\ x.phase = "insert" /\ x.todo = tx[w].todo /\ x.type = tx[w].type
    BY <1>0 DEF Tx
  <2>2. tx' = [tx EXCEPT ![w] = x]
    BY <1>4
  <2> HIDE DEF x
  <2>3. x.op \notin {"idle", "move"}
    BY <1>2, <2>1, IdleHasNothing
  <2>4. Sober(x)
    BY <1>0, <2>1, <2>3 DEF Sober
  <2>5. Decides(x) => w \in Deciding
    BY <1>2, <2>1 DEF Decides, Deciding
  <2> QED
    BY <1>2, <1>4, <2>1, <2>2, <2>3, <2>4, <2>5, TxTurns
<1>5. CASE /\ own = Missing /\ counter[k] # Missing /\ holder[k] = NoOne
           /\ holder' = [holder EXCEPT ![k] = w]
           /\ tx' = [tx EXCEPT ![w] = Opened(w, counter[k] + 1)]
  <2>1. counter[k] = Reached(w, k)
    BY <1>5 DEF Reached, Base
  <2>2. counter[k] + 1 \in Nat /\ counter[k] + 1 = Reached(w, k) + 1
    BY <1>2, <2>1
  <2> HIDE DEF own, k
  <2> QED
    BY <1>1, <1>2, <1>5, <2>2, TicketIsMade DEF k
<1> QED
  BY <1>3, <1>4, <1>5 DEF SelectCounter

LEMMA InsertCounterKeepsWork ==
  ASSUME WorkInv, NEW w \in Threads, InsertCounter(w)
  PROVE  WorkInv'
<1> DEFINE k == tx[w].type
<1>0. tx[w] \in Tx /\ TicketingTypeOK
  BY DEF WorkInv, TicketingTypeOK
<1>1. k \in TicketTypes
  BY <1>0 DEF Tx
<1>2. /\ tx[w].phase = "insert" /\ holder[k] = NoOne /\ counter[k] = Missing
      /\ holder' = [holder EXCEPT ![k] = w]
      /\ tx' = [tx EXCEPT ![w] = Opened(w, 1)]
      /\ UNCHANGED <<tickets, counter, condition, link, issues, lost, mode, traffic>>
  BY DEF InsertCounter
<1>3. NoOne # w
  BY TicketingAssumption
<1>4. tx[w].last[k] = Missing
  BY <1>1, <1>2, <1>3 DEF WorkInv, RefInv, LocksAreHeld
<1>5. Reached(w, k) = 0
  BY <1>2, <1>4 DEF Reached, Base
<1>6. 1 = Reached(w, k) + 1 /\ 1 \in Nat
  BY <1>5
<1> QED
  BY <1>1, <1>2, <1>6, TicketIsMade

LEMMA PushFindingKeepsWork ==
  ASSUME WorkInv, NEW w \in Threads, PushFinding(w)
  PROVE  WorkInv'
<1> DEFINE f == tx[w].want
<1>0. tx[w] \in Tx /\ Sober(tx[w]) /\ tx \in [Threads -> Tx] /\ TicketingTypeOK
  BY DEF WorkInv, TicketingTypeOK
<1>1. tx[w].phase = "push" /\ f \in Findings \ (tx[w].pushed \cup tx[w].todo)
  BY <1>0 DEF PushFinding, Sober
<1>2. tx[w].op \notin {"idle", "move"}
  BY <1>1, IdleHasNothing
<1>3. issues \in [Findings -> Nat] /\ lost \in [Findings -> Nat]
  BY <1>0 DEF TicketingTypeOK
<1>4. /\ \A v \in Threads \ {w} : f \notin tx[v].pushed
      /\ issues' = [issues EXCEPT ![f] = IF link[f].exists THEN @ ELSE @ + 1]
      /\ UNCHANGED <<lost, tickets, counter, holder, condition, link, mode, traffic>>
  BY DEF PushFinding
<1>5. CASE ~link[f].active /\ tx' = [tx EXCEPT ![w].pushed = @ \cup {f}, ![w].want = NoOne, ![w].phase = "look"]
  <2> DEFINE x == [tx[w] EXCEPT !.pushed = @ \cup {f}, !.want = NoOne, !.phase = "look"]
  <2>1. /\ x \in Tx /\ x.op = tx[w].op /\ x.made = tx[w].made /\ x.pushed = tx[w].pushed \cup {f} /\ x.last = tx[w].last
        /\ x.phase = "look" /\ x.todo = tx[w].todo /\ x.type = tx[w].type
    BY <1>0, <1>1 DEF Tx
  <2>2. tx' = [tx EXCEPT ![w] = x]
    BY <1>0, <1>5
  <2>3. tx'[w] = x /\ \A v \in Threads \ {w} : tx'[v] = tx[v]
    BY <1>0, <2>2
  <2> HIDE DEF x
  <2>4. TicketingTypeOK'
    <3>1. tx' \in [Threads -> Tx]
      BY <1>0, <2>1, <2>2
    <3>2. issues' \in [Findings -> Nat]
      <4> HIDE DEF f
      <4>1. issues[f] \in Nat /\ issues[f] + 1 \in Nat
        BY <1>1, <1>3
      <4> QED
        BY <1>3, <1>4, <4>1
    <3> QED
      BY <1>0, <1>4, <3>1, <3>2 DEF TicketingTypeOK
  <2>5. \A v \in Threads : tx'[v].last = tx[v].last /\ tx'[v].made = tx[v].made
    BY <2>1, <2>3
  <2>6. RefInv'
    BY <1>4, <2>5, RefStands DEF WorkInv
  <2>7. BudgetInv'
    <3>1. Committed' = Committed /\ \A v \in Threads : Autos(v)' = Autos(v)
      BY <1>4, <2>5 DEF Committed, Autos
    <3>2. Deciding' \subseteq Deciding
      BY <2>1, <2>3 DEF Deciding
    <3>3. Committed' <= Committed
      BY <1>0, <3>1, BudgetTyped
    <3> QED
      BY <2>4, <3>1, <3>2, <3>3, BudgetShrinks DEF WorkInv
  <2>8. ApprovalsAreKept'
    <3>1. \A v \in Threads : tx'[v].op = "move" => Knows(tx'[v], tickets)
      <4>1. \A v \in Threads \ {w} : Knows(tx'[v], tickets)
        BY <2>3, ApprovalsMean DEF WorkInv
      <4>2. tx'[w].op # "move"
        BY <1>2, <2>1, <2>3
      <4> QED
        BY <4>1, <4>2
    <3> QED
      BY <1>4, <3>1, ApprovalsStand DEF WorkInv
  <2>9. IssueInv'
    <3>1. \A v \in Threads : f \notin tx[v].pushed
      BY <1>1, <1>4
    <3>2. tx'[w].pushed = tx[w].pushed \cup {f}
      BY <2>1, <2>3
    <3> QED
      BY <1>0, <1>1, <1>4, <2>3, <3>1, <3>2, IssueRaised DEF WorkInv
  <2>10. Sober(x)
    BY <1>0, <1>1, <1>2, <2>1 DEF Sober
  <2>11. \A v \in Threads : Sober(tx'[v])
    BY <2>3, <2>10 DEF WorkInv
  <2>12. (\A v \in Threads : Sober(tx[v]))'
    BY <2>11 DEF Sober
  <2> QED
    BY <2>4, <2>6, <2>7, <2>8, <2>9, <2>12 DEF WorkInv
<1>6. CASE link[f].active /\ tx' = [tx EXCEPT ![w].want = NoOne, ![w].phase = "look"]
  <2> DEFINE x == [tx[w] EXCEPT !.want = NoOne, !.phase = "look"]
  <2>1. /\ x \in Tx /\ x.op = tx[w].op /\ x.made = tx[w].made /\ x.pushed = tx[w].pushed /\ x.last = tx[w].last
        /\ x.phase = "look" /\ x.todo = tx[w].todo /\ x.type = tx[w].type
    BY <1>0 DEF Tx
  <2>2. tx' = [tx EXCEPT ![w] = x]
    BY <1>0, <1>6
  <2> HIDE DEF x
  <2>3. link[f].exists
    BY <1>1, <1>6 DEF WorkInv, IssueInv
  <2>4. issues' = issues
    BY <1>1, <1>3, <1>4, <2>3
  <2>5. Sober(x)
    BY <1>0, <1>2, <2>1 DEF Sober
  <2>6. ~Decides(x)
    BY <2>1 DEF Decides
  <2>7. UNCHANGED <<tickets, counter, holder, condition, link, issues, lost, mode, traffic>>
    BY <1>4, <2>4
  <2> QED
    BY <1>2, <2>1, <2>2, <2>5, <2>6, <2>7, TxTurns
<1> QED
  BY <1>5, <1>6 DEF PushFinding

\* The thread of a transaction that ends is idle, the others go on.
LEMMA TxEnds ==
  ASSUME WorkInv, NEW w \in Threads, tx' = [tx EXCEPT ![w] = IdleTx]
  PROVE  /\ tx' \in [Threads -> Tx] /\ \A v \in Threads \ {w} : tx'[v] = tx[v]
         /\ tx'[w].made = <<>> /\ tx'[w].pushed = {} /\ \A k \in TicketTypes : tx'[w].last[k] = Missing
         /\ Autos(w)' = 0 /\ \A v \in Threads \ {w} : Autos(v)' = Autos(v)
         /\ Deciding' = Deciding \ {w}
         /\ (\A v \in Threads : Sober(tx[v]))'
         /\ \A v \in Threads : tx'[v].op = "move" => v # w /\ tx[v].op = "move" /\ Knows(tx'[v], tickets)
<1>0. tx \in [Threads -> Tx]
  BY DEF WorkInv, TicketingTypeOK
<1>1. tx'[w] = IdleTx /\ \A v \in Threads \ {w} : tx'[v] = tx[v]
  BY <1>0
<1>2. tx' \in [Threads -> Tx]
  BY <1>0, IdleTxIs
<1>3. tx'[w].made = <<>> /\ tx'[w].pushed = {} /\ \A k \in TicketTypes : tx'[w].last[k] = Missing
  BY <1>1, IdleTxIs
<1>4. Autos(w)' = 0 /\ \A v \in Threads \ {w} : Autos(v)' = Autos(v)
  BY <1>1, <1>3, EmptyCounts DEF Autos
<1>5. Deciding' = Deciding \ {w}
  <2>1. Deciding' = {v \in Threads : Decides(tx'[v])}
    BY DEF Deciding, Decides
  <2> QED
    BY <1>1, <2>1, DecidingIs, IdleTxIs
<1>6. \A v \in Threads : Sober(tx'[v])
  BY <1>1, IdleTxIs DEF WorkInv
<1>7. (\A v \in Threads : Sober(tx[v]))'
  BY <1>6 DEF Sober
<1>8. \A v \in Threads : tx'[v].op = "move" => v # w /\ tx[v].op = "move" /\ Knows(tx'[v], tickets)
  BY <1>1, IdleTxIs, ApprovalsMean DEF WorkInv
<1> QED
  BY <1>1, <1>2, <1>3, <1>4, <1>5, <1>7, <1>8

LEMMA CommitWorkKeepsWork ==
  ASSUME WorkInv, NEW w \in Threads, CommitWork(w)
  PROVE  WorkInv'
<1> DEFINE t == tx[w]
<1>0. t \in Tx /\ Sober(t) /\ TicketingTypeOK
  BY DEF WorkInv, TicketingTypeOK
<1>1. /\ t.op # "move" /\ t.phase = "look"
      /\ tickets' = tickets \o t.made
      /\ counter' = [k \in TicketTypes |-> IF t.last[k] = Missing THEN counter[k] ELSE t.last[k]]
      /\ holder' = Released(w)
      /\ tx' = [tx EXCEPT ![w] = IdleTx]
      /\ UNCHANGED <<condition, issues, lost, mode, traffic>>
  BY DEF CommitWork
<1>2. link' = [f \in Findings |-> IF f \in t.pushed THEN
                 [exists |-> TRUE, active |-> TRUE, recent |-> IF link[f].exists THEN link[f].recent ELSE TRUE]
                 ELSE link[f]]
  BY DEF CommitWork
<1>3. /\ tx' \in [Threads -> Tx] /\ \A v \in Threads \ {w} : tx'[v] = tx[v]
      /\ tx'[w].made = <<>> /\ tx'[w].pushed = {} /\ \A k \in TicketTypes : tx'[w].last[k] = Missing
      /\ Autos(w)' = 0 /\ \A v \in Threads \ {w} : Autos(v)' = Autos(v)
      /\ Deciding' = Deciding \ {w}
      /\ (\A v \in Threads : Sober(tx[v]))'
      /\ \A v \in Threads : tx'[v].op = "move" => v # w /\ tx[v].op = "move" /\ Knows(tx'[v], tickets)
  BY <1>1, TxEnds
<1>4. tickets \in Seq(Row) /\ t.made \in Seq(Row) /\ t.last \in [TicketTypes -> Nat \cup {Missing}]
  BY <1>0 DEF Tx, TicketingTypeOK
<1>5. tickets' \in Seq(Row)
  BY <1>1, <1>4, ConcatProperties
<1>6. \A f \in Findings : /\ link'[f] \in Link /\ (link'[f].exists <=> (link[f].exists \/ f \in t.pushed))
                          /\ link'[f].active => link'[f].exists
  <2> TAKE f \in Findings
  <2>1. link[f] \in Link /\ (link[f].active => link[f].exists)
    BY <1>0 DEF WorkInv, IssueInv, TicketingTypeOK
  <2>2. CASE f \in t.pushed
    <3> DEFINE y == [exists |-> TRUE, active |-> TRUE, recent |-> IF link[f].exists THEN link[f].recent ELSE TRUE]
    <3>1. link'[f] = y
      BY <1>2, <2>2
    <3>2. y \in Link /\ y.exists
      BY <2>1 DEF Link
    <3> QED
      BY <2>2, <3>1, <3>2
  <2>3. CASE f \notin t.pushed
    <3>1. link'[f] = link[f]
      BY <1>2, <2>3
    <3> QED
      BY <2>1, <2>3, <3>1
  <2> QED
    BY <2>2, <2>3
<1> HIDE DEF t
<1>7. TicketingTypeOK'
  <2>1. counter' \in [TicketTypes -> Nat \cup {Missing}]
    BY <1>0, <1>1, <1>4 DEF TicketingTypeOK
  <2>2. holder' \in [TicketTypes -> Threads \cup {NoOne}]
    BY <1>0, <1>1 DEF TicketingTypeOK, Released
  <2>3. link' \in [Findings -> Link]
    BY <1>2, <1>6
  <2> QED
    BY <1>0, <1>1, <1>3, <1>5, <2>1, <2>2, <2>3 DEF TicketingTypeOK
<1>8. RefInv'
  BY <1>0, <1>1, <1>3, RefCommits DEF t, WorkInv
<1>9. BudgetInv'
  <2>1. Committed' = Committed + Autos(w)
    <3>1. Cardinality(AutoOf(tickets \o t.made)) = Cardinality(AutoOf(tickets)) + Cardinality(AutoOf(t.made))
      BY <1>4, TypeOfConcat
    <3> QED
      BY <1>1, <3>1 DEF Committed, Autos, t
  <2>2. Deciding' = Deciding
    <3>1. w \notin Deciding
      BY <1>1 DEF t, Deciding
    <3> QED
      BY <1>3, <3>1
  <2>3. \A v \in Threads \ {w} : Autos(w) = 0 \/ Autos(v) = 0
    <3> SUFFICES ASSUME NEW v \in Threads, v # w, Autos(w) # 0, Autos(v) # 0 PROVE FALSE
      OBVIOUS
    <3>1. Autos(w) > 0 /\ Autos(v) > 0
      <4>1. Autos(w) \in Nat /\ Autos(v) \in Nat
        BY <1>0, BudgetTyped
      <4> QED
        BY <4>1
    <3>2. LocksAreHeld /\ Sober(tx[v]) /\ Sober(tx[w])
      BY DEF WorkInv, RefInv
    <3> QED
      BY <1>0, <3>1, <3>2, AutosHold
  <2> QED
    BY <1>0, <1>3, <1>7, <2>1, <2>2, <2>3, BudgetCommits DEF WorkInv
<1>10. ApprovalsAreKept'
  <2>1. /\ Len(tickets) \in Nat /\ DOMAIN tickets = 1 .. Len(tickets) /\ Len(t.made) \in Nat /\ DOMAIN t.made = 1 .. Len(t.made)
        /\ Len(tickets') = Len(tickets) + Len(t.made) /\ DOMAIN tickets' = 1 .. Len(tickets')
        /\ \A i \in 1 .. (Len(tickets) + Len(t.made)) : tickets'[i] = IF i <= Len(tickets) THEN tickets[i] ELSE t.made[i - Len(tickets)]
    BY <1>1, <1>4, <1>5, ConcatProperties, LenProperties
  <2>2. \A i \in DOMAIN tickets : i \in DOMAIN tickets' /\ tickets'[i] = tickets[i]
    BY <2>1
  <2>3. ASSUME NEW i \in DOMAIN tickets' PROVE i \in DOMAIN tickets \/ tickets'[i].state \notin Worked
    <3>1. CASE i \notin DOMAIN tickets
      <4>1. i - Len(tickets) \in DOMAIN t.made /\ tickets'[i] = t.made[i - Len(tickets)]
        BY <2>1, <3>1
      <4>2. t.made[i - Len(tickets)].state = "open"
        BY <1>0, <4>1 DEF Sober
      <4> QED
        BY <4>1, <4>2 DEF Worked, WorkStates
    <3> QED
      BY <3>1
  <2>4. ApprovalsAreKept
    BY DEF WorkInv
  <2>5. \A i \in DOMAIN tickets :
           /\ i \in DOMAIN tickets' /\ tickets'[i].type = tickets[i].type /\ tickets'[i].state = tickets[i].state
           /\ tickets'[i].approved = tickets[i].approved /\ tickets'[i].approver = tickets[i].approver
           /\ tickets'[i].requester = tickets[i].requester
    BY <2>2
  <2> QED
    BY <1>3, <2>3, <2>4, <2>5, ApprovalsStand
<1>11. IssueInv'
  BY <1>0, <1>1, <1>3, <1>6, IssuesLinked DEF t, WorkInv
<1> QED
  BY <1>3, <1>7, <1>8, <1>9, <1>10, <1>11 DEF WorkInv

LEMMA AbortKeepsWork ==
  ASSUME WorkInv, NEW w \in Threads, Abort(w)
  PROVE  WorkInv'
<1>0. TicketingTypeOK
  BY DEF WorkInv
<1>1. /\ lost' = [f \in Findings |-> IF f \in tx[w].pushed /\ ~link[f].exists THEN lost[f] + 1 ELSE lost[f]]
      /\ holder' = Released(w)
      /\ tx' = [tx EXCEPT ![w] = IdleTx]
      /\ UNCHANGED <<tickets, counter, condition, link, issues, mode, traffic>>
  BY DEF Abort
<1>3. /\ tx' \in [Threads -> Tx] /\ \A v \in Threads \ {w} : tx'[v] = tx[v]
      /\ tx'[w].made = <<>> /\ tx'[w].pushed = {} /\ \A k \in TicketTypes : tx'[w].last[k] = Missing
      /\ Autos(w)' = 0 /\ \A v \in Threads \ {w} : Autos(v)' = Autos(v)
      /\ Deciding' = Deciding \ {w}
      /\ (\A v \in Threads : Sober(tx[v]))'
      /\ \A v \in Threads : tx'[v].op = "move" => v # w /\ tx[v].op = "move" /\ Knows(tx'[v], tickets)
  BY <1>1, TxEnds
<1>7. TicketingTypeOK'
  <2>1. lost' \in [Findings -> Nat]
    <3>1. \A f \in Findings : lost[f] \in Nat /\ lost[f] + 1 \in Nat
      BY <1>0 DEF TicketingTypeOK
    <3> QED
      BY <1>1, <3>1
  <2>2. holder' \in [TicketTypes -> Threads \cup {NoOne}]
    BY <1>0, <1>1 DEF TicketingTypeOK, Released
  <2> QED
    BY <1>0, <1>1, <1>3, <2>1, <2>2 DEF TicketingTypeOK
<1>8. RefInv'
  BY <1>0, <1>1, <1>3, RefAborts DEF WorkInv
<1>9. BudgetInv'
  <2>1. Committed' = Committed
    BY <1>1 DEF Committed
  <2>2. Committed' <= Committed
    BY <1>0, <2>1, BudgetTyped
  <2>3. \A v \in Threads : Autos(v)' = Autos(v) \/ Autos(v)' = 0
    BY <1>3
  <2> QED
    BY <1>0, <1>3, <1>7, <2>2, <2>3, BudgetShrinks DEF WorkInv
<1>10. ApprovalsAreKept'
  BY <1>1, <1>3, ApprovalsStand DEF WorkInv
<1>11. IssueInv'
  BY <1>0, <1>1, <1>3, IssuesLost DEF WorkInv
<1> QED
  BY <1>3, <1>7, <1>8, <1>9, <1>10, <1>11 DEF WorkInv

\* Where work on a change begins, and where it goes on.
LEMMA WorkIsReached ==
  ASSUME NEW copy \in TicketStates, NEW target \in TicketStates,
         CanTransitionTicket("change", copy, target), target \in Worked, target # "approved"
  PROVE  copy \in Worked
<1>1. target \in ChangeTransitions[copy] /\ target \in WorkStates
  BY DEF CanTransitionTicket, AllowedTicketTransitions, Worked
<1> QED
  BY <1>1 DEF ChangeTransitions, WorkStates, Worked, TicketStates, OpenTicketStates

LEMMA MoveCommitKeepsWork ==
  ASSUME WorkInv, NEW w \in Threads, NEW target \in TicketStates, NEW user \in Users, MoveCommit(w, target, user)
  PROVE  WorkInv'
<1> DEFINE i == tx[w].moving
           t == tickets[i]
           r == [t EXCEPT !.state = target, !.approved = @ \/ target = "approved",
                          !.approver = IF target = "approved" THEN user ELSE @]
<1>0. tx[w] \in Tx /\ TicketingTypeOK /\ tickets \in Seq(Row)
  BY DEF WorkInv, TicketingTypeOK
<1>1. tx[w].op = "move" /\ Knows(tx[w], tickets)
  BY ApprovalsMean DEF MoveCommit, WorkInv
<1>2. i \in DOMAIN tickets /\ t \in Row
  BY <1>0, <1>1, ElementOfSeq, LenProperties DEF Knows
<1>3. /\ CanTransitionTicket(t.type, tx[w].copy, target)
      /\ target = "approved" /\ t.requester = user => user \in Admins
      /\ tx' = [tx EXCEPT ![w] = IdleTx]
      /\ UNCHANGED <<counter, holder, link, issues, lost, mode, traffic>>
  BY DEF MoveCommit
<1>4. tickets' = [tickets EXCEPT ![i] = r]
  <2>1. \A j \in DOMAIN tickets : tickets[j] \in Row
    BY <1>0, ElementOfSeq, LenProperties
  <2>2. tickets' = [tickets EXCEPT ![i].state = target, ![i].approved = @ \/ target = "approved",
                                   ![i].approver = IF target = "approved" THEN user ELSE @]
    BY DEF MoveCommit
  <2> QED
    BY <1>2, <2>1, <2>2 DEF Row
<1>5. /\ r \in Row /\ r.type = t.type /\ r.ref = t.ref /\ r.auto = t.auto /\ r.recent = t.recent /\ r.requester = t.requester
      /\ r.state = target /\ (r.approved <=> (t.approved \/ target = "approved"))
      /\ r.approver = IF target = "approved" THEN user ELSE t.approver
  BY <1>2 DEF Row
<1>6. DOMAIN tickets' = DOMAIN tickets /\ tickets'[i] = r /\ \A j \in DOMAIN tickets \ {i} : tickets'[j] = tickets[j]
  <2> HIDE DEF r
  <2> QED
    BY <1>2, <1>4
<1>7. tickets' \in Seq(Row)
  <2> HIDE DEF r
  <2> QED
    BY <1>0, <1>2, <1>4, <1>5, ExceptSeq
<1>8. Approved(t) => Approved(r)
  BY <1>3, <1>5 DEF Approved
<1>9. r.type = "change" /\ r.state \in Worked => Approved(r)
  <2> SUFFICES ASSUME r.type = "change", r.state \in Worked PROVE Approved(r)
    OBVIOUS
  <2>1. CASE target = "approved"
    BY <1>3, <1>5, <2>1 DEF Approved
  <2>2. CASE target # "approved"
    <3>1. tx[w].copy \in TicketStates /\ CanTransitionTicket("change", tx[w].copy, target) /\ target \in Worked
      BY <1>0, <1>3, <1>5 DEF Tx
    <3>2. tx[w].copy \in Worked
      BY <2>2, <3>1, WorkIsReached
    <3>3. Approved(t)
      BY <1>1, <1>5, <3>2 DEF Knows
    <3> QED
      BY <1>8, <3>3
  <2> QED
    BY <2>1, <2>2
<1> HIDE DEF r
<1>10. /\ tx' \in [Threads -> Tx] /\ \A v \in Threads \ {w} : tx'[v] = tx[v]
       /\ tx'[w].made = <<>> /\ tx'[w].pushed = {} /\ \A k \in TicketTypes : tx'[w].last[k] = Missing
       /\ Autos(w)' = 0 /\ \A v \in Threads \ {w} : Autos(v)' = Autos(v)
       /\ Deciding' = Deciding \ {w}
       /\ (\A v \in Threads : Sober(tx[v]))'
       /\ \A v \in Threads : tx'[v].op = "move" => v # w /\ tx[v].op = "move" /\ Knows(tx'[v], tickets)
  BY <1>3, TxEnds
<1>11. TicketingTypeOK'
  <2>1. condition' \in [Findings -> {"open", "remediated", "shut"}]
    BY <1>0 DEF TicketingTypeOK, MoveCommit
  <2> QED
    BY <1>0, <1>3, <1>7, <1>10, <2>1 DEF TicketingTypeOK
<1>12. \A v \in Threads : tx'[v].last = tx[v].last /\ tx'[v].made = tx[v].made /\ tx'[v].pushed = tx[v].pushed
  <2>1. tx'[w] = IdleTx
    BY <1>0, <1>3 DEF TicketingTypeOK
  <2>2. tx[w].last = IdleTx.last /\ tx[w].made = IdleTx.made /\ tx[w].pushed = IdleTx.pushed
    BY <1>1, IdleHasNothing, IdleTxIs
  <2> QED
    BY <1>10, <2>1, <2>2
<1>13. \A j \in DOMAIN tickets :
         /\ tickets'[j].type = tickets[j].type /\ tickets'[j].ref = tickets[j].ref
         /\ tickets'[j].auto = tickets[j].auto /\ tickets'[j].recent = tickets[j].recent
  BY <1>5, <1>6
<1>14. RefInv'
  BY <1>3, <1>6, <1>12, <1>13, RefStands DEF WorkInv
<1>15. BudgetInv'
  <2>1. AutoOf(tickets') = AutoOf(tickets)
    BY <1>6, <1>13 DEF AutoOf
  <2>2. Committed' = Committed
    BY <2>1 DEF Committed
  <2>3. Committed' <= Committed
    BY <1>0, <2>2, BudgetTyped
  <2>4. \A v \in Threads : Autos(v)' = Autos(v)
    BY <1>12 DEF Autos
  <2> QED
    BY <1>0, <1>10, <1>11, <2>3, <2>4, BudgetShrinks DEF WorkInv
<1>16. ApprovalsAreKept'
  <2>1. \A j \in DOMAIN tickets' : tickets'[j].type = "change" /\ tickets'[j].state \in Worked => Approved(tickets'[j])
    <3> SUFFICES ASSUME NEW j \in DOMAIN tickets, tickets'[j].type = "change", tickets'[j].state \in Worked
                 PROVE  Approved(tickets'[j])
      BY <1>6
    <3>1. CASE j = i
      BY <1>6, <1>9, <3>1
    <3>2. CASE j # i
      <4>1. tickets'[j] = tickets[j]
        BY <1>6, <3>2
      <4>2. tickets[j].type = "change" /\ tickets[j].state \in Worked => Approved(tickets[j])
        BY ApprovalsMean DEF WorkInv
      <4> QED
        BY <4>1, <4>2
    <3> QED
      BY <3>1, <3>2
  <2>2. \A j \in DOMAIN tickets : Approved(tickets[j]) => Approved(tickets'[j])
    BY <1>6, <1>8
  <2>3. \A v \in Threads : Knows(tx'[v], tickets')
    <3> SUFFICES ASSUME NEW v \in Threads, tx'[v].op = "move" PROVE Knows(tx'[v], tickets')
      BY DEF Knows
    <3>1. Knows(tx'[v], tickets)
      BY <1>10
    <3> QED
      BY <1>6, <1>13, <2>2, <3>1 DEF Knows
  <2> QED
    BY <2>1, <2>3 DEF ApprovalsAreKept, Knows
<1>17. IssueInv'
  <2>1. \A f \in Findings : link'[f].active => link'[f].exists
    BY <1>3 DEF WorkInv, IssueInv
  <2> QED
    BY <1>3, <1>12, <2>1, IssuesStand DEF WorkInv
<1> QED
  BY <1>10, <1>11, <1>14, <1>15, <1>16, <1>17 DEF WorkInv

\* What happens around the transactions leaves them alone.
LEMMA AroundKeepsWork ==
  ASSUME WorkInv, TicketingTypeOK', tx' = tx, counter' = counter, holder' = holder, issues' = issues, lost' = lost,
         DOMAIN tickets' = DOMAIN tickets,
         \A i \in DOMAIN tickets :
           /\ tickets'[i].type = tickets[i].type /\ tickets'[i].ref = tickets[i].ref
           /\ tickets'[i].state = tickets[i].state /\ tickets'[i].requester = tickets[i].requester
           /\ tickets'[i].approved = tickets[i].approved /\ tickets'[i].approver = tickets[i].approver,
         Committed' <= Committed,
         \A f \in Findings : link'[f].exists = link[f].exists /\ (link'[f].active => link'[f].exists)
  PROVE  WorkInv'
<1>1. RefInv'
  BY RefStands DEF WorkInv
<1>2. BudgetInv'
  <2>1. \A v \in Threads : Autos(v)' = Autos(v)
    BY DEF Autos
  <2>2. Deciding' = Deciding
    BY DEF Deciding
  <2> QED
    BY <2>1, <2>2, BudgetShrinks DEF WorkInv
<1>3. ApprovalsAreKept'
  <2>1. \A v \in Threads : tx'[v].op = "move" => Knows(tx'[v], tickets)
    BY ApprovalsMean DEF WorkInv
  <2> QED
    BY <2>1, ApprovalsStand DEF WorkInv
<1>4. IssueInv'
  BY IssuesStand DEF WorkInv
<1>5. \A v \in Threads : Sober(tx'[v])
  BY DEF WorkInv
<1>6. (\A v \in Threads : Sober(tx[v]))'
  BY <1>5 DEF Sober
<1> QED
  BY <1>1, <1>2, <1>3, <1>4, <1>6 DEF WorkInv

LEMMA FindingMovesKeepsWork ==
  ASSUME WorkInv, NEW f \in Findings, NEW c \in {"open", "shut"}, FindingMoves(f, c)
  PROVE  WorkInv'
<1>0. TicketingTypeOK
  BY DEF WorkInv
<1>1. UNCHANGED <<tickets, counter, holder, link, issues, lost, mode, tx, traffic>> /\ condition' = [condition EXCEPT ![f] = c]
  BY DEF FindingMoves
<1>2. TicketingTypeOK'
  BY <1>0, <1>1 DEF TicketingTypeOK
<1>3. Committed' <= Committed
  BY <1>0, <1>1, BudgetTyped DEF Committed
<1>4. \A g \in Findings : link'[g].exists = link[g].exists /\ (link'[g].active => link'[g].exists)
  BY <1>1 DEF WorkInv, IssueInv
<1> QED
  BY <1>1, <1>2, <1>3, <1>4, AroundKeepsWork

LEMMA ModeKeepsWork ==
  ASSUME WorkInv, NEW b \in BOOLEAN, SetPolicy(b) \/ SetMode(b)
  PROVE  WorkInv'
<1>0. TicketingTypeOK
  BY DEF WorkInv
<1>1. /\ UNCHANGED <<tickets, counter, holder, condition, link, issues, lost, tx, traffic>>
      /\ mode' = [mode EXCEPT !.enabled = b] \/ mode' = [mode EXCEPT !.external = b]
  BY DEF SetPolicy, SetMode
<1>2. TicketingTypeOK'
  BY <1>0, <1>1 DEF TicketingTypeOK
<1>3. Committed' <= Committed
  BY <1>0, <1>1, BudgetTyped DEF Committed
<1>4. \A g \in Findings : link'[g].exists = link[g].exists /\ (link'[g].active => link'[g].exists)
  BY <1>1 DEF WorkInv, IssueInv
<1> QED
  BY <1>1, <1>2, <1>3, <1>4, AroundKeepsWork

LEMMA UnlinkKeepsWork ==
  ASSUME WorkInv, NEW f \in Findings, Unlink(f)
  PROVE  WorkInv'
<1>0. TicketingTypeOK /\ link \in [Findings -> Link]
  BY DEF WorkInv, TicketingTypeOK
<1>1. UNCHANGED <<tickets, counter, holder, condition, issues, lost, mode, tx, traffic>>
      /\ link' = [link EXCEPT ![f].active = FALSE]
  BY DEF Unlink
<1>2. ASSUME NEW g \in Findings
      PROVE  link'[g] \in Link /\ link'[g].exists = link[g].exists /\ (link'[g].active => link'[g].exists)
  <2>1. link[g] \in Link /\ (link[g].active => link[g].exists)
    BY <1>0 DEF WorkInv, IssueInv
  <2>2. CASE g = f
    <3>1. link'[g] = [link[g] EXCEPT !.active = FALSE]
      BY <1>0, <1>1, <2>2
    <3> QED
      BY <2>1, <3>1 DEF Link
  <2>3. CASE g # f
    BY <1>0, <1>1, <2>1, <2>3
  <2> QED
    BY <2>2, <2>3
<1>3. link' \in [Findings -> Link]
  BY <1>0, <1>1, <1>2
<1>4. TicketingTypeOK'
  BY <1>0, <1>1, <1>3 DEF TicketingTypeOK
<1>5. Committed' <= Committed
  BY <1>0, <1>1, BudgetTyped DEF Committed
<1> QED
  BY <1>1, <1>2, <1>4, <1>5, AroundKeepsWork

LEMMA HourPassesKeepsWork ==
  ASSUME WorkInv, HourPasses
  PROVE  WorkInv'
<1>0. TicketingTypeOK /\ link \in [Findings -> Link] /\ tickets \in Seq(Row)
  BY DEF WorkInv, TicketingTypeOK
<1>1. /\ tickets' = [i \in DOMAIN tickets |-> [tickets[i] EXCEPT !.recent = FALSE]]
      /\ link' = [f \in Findings |-> [link[f] EXCEPT !.recent = FALSE]]
      /\ UNCHANGED <<counter, holder, condition, issues, lost, mode, tx, traffic>>
  BY DEF HourPasses
<1>2. Len(tickets) \in Nat /\ DOMAIN tickets = 1 .. Len(tickets) /\ \A i \in DOMAIN tickets : tickets[i] \in Row
  BY <1>0, ElementOfSeq, LenProperties
<1>3. ASSUME NEW i \in DOMAIN tickets
      PROVE  /\ tickets'[i] \in Row /\ ~tickets'[i].recent
             /\ tickets'[i].type = tickets[i].type /\ tickets'[i].ref = tickets[i].ref
             /\ tickets'[i].state = tickets[i].state /\ tickets'[i].requester = tickets[i].requester
             /\ tickets'[i].approved = tickets[i].approved /\ tickets'[i].approver = tickets[i].approver
  <2>1. tickets[i] \in Row /\ tickets'[i] = [tickets[i] EXCEPT !.recent = FALSE]
    BY <1>1, <1>2
  <2> QED
    BY <2>1 DEF Row
<1>4. tickets' \in Seq(Row) /\ DOMAIN tickets' = DOMAIN tickets
  BY <1>1, <1>2, <1>3, SeqDef
<1>5. \A f \in Findings : link'[f] \in Link /\ link'[f].exists = link[f].exists /\ link'[f].active = link[f].active
  BY <1>0, <1>1 DEF Link
<1>6. \A f \in Findings : link'[f].exists = link[f].exists /\ (link'[f].active => link'[f].exists)
  BY <1>5 DEF WorkInv, IssueInv
<1>7. TicketingTypeOK'
  <2>1. link' \in [Findings -> Link]
    BY <1>1, <1>5
  <2> QED
    BY <1>0, <1>1, <1>4, <2>1 DEF TicketingTypeOK
<1>8. Committed' <= Committed
  <2>1. AutoOf(tickets') = {}
    BY <1>3, <1>4 DEF AutoOf
  <2>2. Cardinality(AutoOf(tickets')) = 0
    BY <2>1, FS_EmptySet
  <2>3. Committed' = 0
    BY <2>2 DEF Committed
  <2> QED
    BY <1>0, <2>3, BudgetTyped
<1> QED
  BY <1>1, <1>3, <1>4, <1>6, <1>7, <1>8, AroundKeepsWork

LEMMA WorkInit ==
  ASSUME TicketingInit
  PROVE  WorkInv
<1>1. TicketingTypeOK
  <2>1. <<>> \in Seq(Row)
    OBVIOUS
  <2>2. traffic \in Traffics /\ mode \in [enabled : BOOLEAN, external : BOOLEAN]
    BY TicketingAssumption DEF TicketingInit
  <2>3. NoLink \in Link
    BY DEF NoLink, Link
  <2> QED
    BY <2>1, <2>2, <2>3, IdleTxIs DEF TicketingInit, TicketingTypeOK
<1>2. \A w \in Threads : tx[w] = IdleTx
  BY DEF TicketingInit
<1>3. NoOne \notin Threads
  BY TicketingAssumption
<1>4. \A k \in TicketTypes : counter[k] = Missing /\ holder[k] = NoOne /\ Base(k) = 0
  BY DEF TicketingInit, Base
<1>5. \A w \in Threads, k \in TicketTypes :
        /\ tx[w].last[k] = Missing /\ tx[w].made = <<>> /\ Reached(w, k) = 0
  BY <1>2, <1>4, IdleTxIs DEF Reached
<1>6. RefInv
  <2>1. LocksAreHeld
    BY <1>3, <1>4, <1>5 DEF LocksAreHeld
  <2>2. TakenAreDense
    <3> SUFFICES ASSUME NEW w \in Threads, NEW k \in TicketTypes
                 PROVE  /\ tx[w].last[k] # Missing => tx[w].last[k] > Base(k)
                        /\ RefsOf(tx[w].made, k) = (Base(k) + 1) .. Reached(w, k)
                        /\ Cardinality(TypeOf(tx[w].made, k)) = Reached(w, k) - Base(k)
      BY DEF TakenAreDense
    <3>1. RefsOf(tx[w].made, k) = {} /\ Cardinality(TypeOf(tx[w].made, k)) = 0
      BY <1>5, EmptyCounts
    <3>2. (0 + 1) .. 0 = {} /\ 0 - 0 = 0
      OBVIOUS
    <3> QED
      BY <1>4, <1>5, <3>1, <3>2
  <2>3. ReferencesAreDense
    <3> SUFFICES ASSUME NEW k \in TicketTypes
                 PROVE  /\ RefsOf(tickets, k) = 1 .. Cardinality(TypeOf(tickets, k))
                        /\ counter[k] = IF TypeOf(tickets, k) = {} THEN Missing ELSE Cardinality(TypeOf(tickets, k))
      BY ReferencesMean
    <3>1. TypeOf(tickets, k) = {} /\ RefsOf(tickets, k) = {} /\ Cardinality(TypeOf(tickets, k)) = 0
      BY EmptyCounts DEF TicketingInit
    <3>2. 1 .. 0 = {}
      OBVIOUS
    <3> QED
      BY <1>4, <3>1, <3>2
  <2> QED
    BY <2>1, <2>2, <2>3 DEF RefInv
<1>7. BudgetInv
  <2>1. Committed = 0 /\ \A w \in Threads : Autos(w) = 0
    BY <1>2, EmptyCounts, IdleTxIs DEF TicketingInit, Committed, Autos
  <2>2. Cardinality(Deciding) = 0
    <3>1. Deciding = {}
      BY <1>2, DecidingIs, IdleTxIs
    <3> QED
      BY <3>1, FS_EmptySet
  <2>3. Cap \in Nat /\ Cap > 0 /\ Cardinality(Threads) \in Nat
    BY <1>1, BudgetTyped
  <2>4. 0 <= Cap + Cardinality(Threads) - 1
    BY <2>3
  <2> QED
    BY <2>1, <2>2, <2>3, <2>4 DEF BudgetInv, BudgetIsKept
<1>8. ApprovalsAreKept
  <2>1. DOMAIN tickets = {}
    BY DEF TicketingInit
  <2>2. \A w \in Threads : tx[w].op # "move"
    BY <1>2, IdleTxIs
  <2> QED
    BY <2>1, <2>2 DEF ApprovalsAreKept
<1>9. IssueInv
  <2>1. \A w \in Threads : tx[w].pushed = {}
    BY <1>2, IdleTxIs
  <2>2. \A f \in Findings : ~link[f].exists /\ ~link[f].active /\ issues[f] = 0 /\ lost[f] = 0
    BY DEF TicketingInit, NoLink
  <2>3. \A f \in Findings : Cardinality(Waiting(f)) = 0
    <3>1. \A f \in Findings : Waiting(f) = {}
      BY <2>1 DEF Waiting
    <3> QED
      BY <3>1, FS_EmptySet
  <2>4. IssuesAreAccounted
    BY <2>2, <2>3, IssuesMean
  <2> QED
    BY <2>1, <2>2, <2>4 DEF IssueInv, PushesAreApart
<1>10. \A w \in Threads : Sober(tx[w])
  BY <1>2, IdleTxIs
<1> QED
  BY <1>1, <1>6, <1>7, <1>8, <1>9, <1>10 DEF WorkInv

LEMMA WorkStands ==
  ASSUME WorkInv, UNCHANGED ticketingVars
  PROVE  WorkInv'
<1>0. TicketingTypeOK
  BY DEF WorkInv
<1>1. UNCHANGED <<tickets, counter, holder, condition, link, issues, lost, mode, tx, traffic>>
  BY DEF ticketingVars
<1>2. TicketingTypeOK'
  BY <1>0, <1>1 DEF TicketingTypeOK
<1>3. Committed' <= Committed
  BY <1>0, <1>1, BudgetTyped DEF Committed
<1>4. \A g \in Findings : link'[g].exists = link[g].exists /\ (link'[g].active => link'[g].exists)
  BY <1>1 DEF WorkInv, IssueInv
<1> QED
  BY <1>1, <1>2, <1>3, <1>4, AroundKeepsWork

\* Every step keeps the books.
LEMMA WorkStep == WorkInv /\ [TicketingNext]_ticketingVars => WorkInv'
<1> SUFFICES ASSUME WorkInv, [TicketingNext]_ticketingVars PROVE WorkInv'
  OBVIOUS
<1>1. CASE UNCHANGED ticketingVars
  BY <1>1, WorkStands
<1>2. CASE AroundNext
  <2>1. CASE \E f \in Findings : Unlink(f)
    BY <2>1, UnlinkKeepsWork
  <2>2. CASE \E f \in Findings, c \in {"open", "shut"} : FindingMoves(f, c)
    BY <2>2, FindingMovesKeepsWork
  <2>3. CASE \E b \in BOOLEAN : SetPolicy(b) \/ SetMode(b)
    BY <2>3, ModeKeepsWork
  <2>4. CASE HourPasses
    BY <2>4, HourPassesKeepsWork
  <2> QED
    BY <1>2, <2>1, <2>2, <2>3, <2>4 DEF AroundNext
<1>3. CASE \E w \in Threads : WorkNext(w)
  <2>1. PICK w \in Threads : WorkNext(w)
    BY <1>3
  <2>2. CASE \E S \in SUBSET Findings \ {{}} : ImportBegin(w, S)
    BY <2>2, ImportBeginKeepsWork
  <2>3. CASE BackfillBegin(w)
    BY <2>3, BackfillBeginKeepsWork
  <2>4. CASE \E f \in Findings : RemediationBegin(w, f)
    BY <2>4, RemediationBeginKeepsWork
  <2>5. CASE \E f \in Findings : Skip(w, f)
    BY <2>5, SkipKeepsWork
  <2>6. CASE \E f \in Findings : Look(w, f)
    BY <2>6, LookKeepsWork
  <2>7. CASE \E type \in TicketTypes, f \in Findings \cup {NoOne}, user \in Users : CreateBegin(w, type, f, user)
    BY <2>7, CreateBeginKeepsWork
  <2>8. CASE SelectCounter(w)
    BY <2>8, SelectCounterKeepsWork
  <2>9. CASE InsertCounter(w)
    BY <2>9, InsertCounterKeepsWork
  <2>10. CASE PushFinding(w)
    BY <2>10, PushFindingKeepsWork
  <2>11. CASE CommitWork(w)
    BY <2>11, CommitWorkKeepsWork
  <2>12. CASE Abort(w)
    BY <2>12, AbortKeepsWork
  <2>13. CASE \E i \in 1 .. Len(tickets) : MoveBegin(w, i)
    BY <2>13, MoveBeginKeepsWork
  <2>14. CASE \E target \in TicketStates, user \in Users : MoveCommit(w, target, user)
    BY <2>14, MoveCommitKeepsWork
  <2> QED
    BY <2>1, <2>2, <2>3, <2>4, <2>5, <2>6, <2>7, <2>8, <2>9, <2>10, <2>11, <2>12, <2>13, <2>14 DEF WorkNext
<1> QED
  BY <1>1, <1>2, <1>3 DEF TicketingNext

LEMMA WorkFollows ==
  ASSUME WorkInv
  PROVE  TicketingTypeOK /\ WorkIsAccounted
<1>1. AutomationIsBounded
  BY DEF WorkInv, BudgetInv, AutomationIsBounded, Committed, AutoOf
<1>2. ChangesAreApproved
  BY DEF WorkInv, ApprovalsAreKept, ChangesAreApproved, Worked, Approved
<1> QED
  BY <1>1, <1>2 DEF WorkInv, RefInv, IssueInv, WorkIsAccounted

\* The references of each type are dense, the automation exceeds its budget by
\* less than the number of threads, no change is worked on that nobody else
\* approved, and every external issue is linked, pending or known as lost, for
\* any number of threads, findings and users (services/ticketing, autoticket,
\* itsm).
THEOREM WorkStaysAccounted == TicketingSpec => []TicketingTypeOK /\ []WorkIsAccounted
<1>1. TicketingInit => WorkInv
  BY WorkInit
<1>2. WorkInv /\ [TicketingNext]_ticketingVars => WorkInv'
  BY WorkStep
<1>3. WorkInv => TicketingTypeOK /\ WorkIsAccounted
  BY WorkFollows
<1> QED
  BY <1>1, <1>2, <1>3, PTL DEF TicketingSpec

----------------------------------------------------------------------------
(***************************************************************************)
(* The twin of a ticket.                                                   *)
(***************************************************************************)

\* A link names an issue, and a push that was answered names one that exists.
LinksFit ==
  /\ twin.exists <=> twin.issue \in Issues
  /\ twin.active => twin.exists
  /\ \A w \in Pushers :
       /\ push[w].epoch <= connector.epoch
       /\ push[w].phase = "answered" => push[w].issue \in Issues

Answered(w) == push[w].phase = "answered"
OfNow(w) == connector.exists /\ push[w].epoch = connector.epoch

\* A push that will raise an issue.
Raises(w) == push[w].phase = "loaded" /\ push[w].issue = NoIssue

Raised == {i \in Issues : remote[i].exists}

\* Issues that may still come: the first one of the connector, and the one a push for
\* a connector that was deleted is under way with.
FirstToCome == connector.exists /\ ~twin.exists /\ \A w \in Pushers : ~(Answered(w) /\ OfNow(w))
LooseToCome == \E w \in Pushers : Raises(w) /\ ~OfNow(w)
One(b) == IF b THEN 1 ELSE 0

\* While every answer was recorded: one push at a time, what the remote holds is what
\* the link or the push that was answered says, and issues are counted by connectors.
AnswersAreKept ==
  /\ \A v, w \in Busy : v = w
  /\ \A w \in Pushers : Answered(w) => remote[push[w].issue].payload = push[w].payload
  /\ twin.exists /\ (\A w \in Pushers : ~Answered(w)) => remote[twin.issue].payload = twin.digest
  /\ \A w \in Pushers : Raises(w) /\ OfNow(w) => ~twin.exists
  /\ Cardinality(Raised) + One(FirstToCome) + One(LooseToCome) <= connector.epoch

ConsentIsKept ==
  /\ flaw = "remediated" => consent
  /\ \A s \in Statuses : connector.mapping[s] = "resolved" => consent

\* The inductive invariant.
SyncInv ==
  /\ ItsmTypeOK /\ LinksFit /\ IsFiniteSet(Raised) /\ ConsentIsKept
  /\ ~unsure => AnswersAreKept

\* Of what a push does to the remote issues only the payload and existence matter.
LEMMA RaisedCounted ==
  ASSUME IsFiniteSet(Raised), NEW i \in Issues, i \notin Raised, Raised' = Raised \cup {i}
  PROVE  IsFiniteSet(Raised') /\ Cardinality(Raised') = Cardinality(Raised) + 1
BY FS_AddElement

LEMMA RaisedTyped ==
  ASSUME IsFiniteSet(Raised)
  PROVE  Cardinality(Raised) \in Nat
BY FS_CardinalityType

\* Tickets move along the graph, and the finished ones do not.
LEMMA GraphKeepsStates ==
  ASSUME NEW s \in TicketStates, NEW t, CanTransitionTicket("remediation", s, t)
  PROVE  t \in TicketStates /\ s \notin {"closed", "cancelled"}
BY DEF CanTransitionTicket, AllowedTicketTransitions, DefaultTransitions, TicketStates, OpenTicketStates

LEMMA SyncInit == ItsmInit => SyncInv
<1> SUFFICES ASSUME ItsmInit PROVE SyncInv
  OBVIOUS
<1> USE ItsmAssumption DEF ItsmInit
<1>0. PICK s0 \in Statuses : s0 = CHOOSE s \in Statuses : TRUE
  OBVIOUS
<1>1. Raised = {}
  BY DEF Raised
<1>2. IsFiniteSet(Raised) /\ Cardinality(Raised) = 0
  BY <1>1, FS_EmptySet
<1>3. connector \in Connector
  BY DEF Connector, NoMapping
<1>4. twin \in Twin
  BY <1>0 DEF Twin, NoTwin, TicketStates, OpenTicketStates
<1>5. remote \in [Issues -> Issue]
  BY <1>0 DEF Issue, TicketStates, OpenTicketStates
<1>6. push \in [Pushers -> Push]
  BY DEF Push, IdlePush, TicketStates, OpenTicketStates
<1>7. ItsmTypeOK
  BY <1>3, <1>4, <1>5, <1>6 DEF ItsmTypeOK, TicketStates, OpenTicketStates
<1>8. LinksFit
  BY DEF LinksFit, NoTwin, IdlePush
<1>9. ConsentIsKept
  BY DEF ConsentIsKept, NoMapping
<1>10. ~FirstToCome /\ ~LooseToCome
  BY DEF FirstToCome, LooseToCome, Raises, IdlePush
<1>11. AnswersAreKept
  BY <1>2, <1>10 DEF AnswersAreKept, Busy, Answered, Raises, NoTwin, IdlePush, One
<1> QED
  BY <1>2, <1>7, <1>8, <1>9, <1>11 DEF SyncInv

(* Connectors. *)

LEMMA CreateKeepsSync ==
  ASSUME SyncInv, NEW b \in BOOLEAN, NEW m \in Mappings, CreateConnector(b, m)
  PROVE  SyncInv'
<1> USE ItsmAssumption DEF SyncInv, CreateConnector
<1>1. ItsmTypeOK'
  BY DEF ItsmTypeOK, Connector
<1>2. connector.epoch \in Nat /\ connector'.epoch = connector.epoch + 1 /\ connector'.exists /\ ~connector.exists
      /\ connector'.mapping = m
  BY DEF ItsmTypeOK, Connector
<1>3. \A w \in Pushers : push[w].epoch \in Nat
  BY DEF ItsmTypeOK, Push
<1>4. LinksFit'
  BY <1>2, <1>3 DEF LinksFit
<1>5. Raised' = Raised
  BY DEF Raised
<1>6. ConsentIsKept'
  BY <1>2 DEF ConsentIsKept, ItsmTypeOK
<1>7. ASSUME ~unsure' PROVE AnswersAreKept'
  <2>1. AnswersAreKept
    BY <1>7
  <2>2. ~FirstToCome
    BY <1>2 DEF FirstToCome
  <2>3. \A w \in Pushers : ~OfNow(w) /\ ~OfNow(w)'
    BY <1>2, <1>3 DEF OfNow, LinksFit
  <2>4. LooseToCome' <=> LooseToCome
    BY <2>3 DEF LooseToCome, Raises
  <2>5. Cardinality(Raised)' = Cardinality(Raised) /\ Cardinality(Raised) \in Nat
    BY <1>5, RaisedTyped
  <2>6. One(LooseToCome') = One(LooseToCome) /\ One(LooseToCome) \in {0, 1} /\ One(FirstToCome) = 0
        /\ One(FirstToCome') \in {0, 1}
    BY <2>2, <2>4 DEF One
  <2>7. (Cardinality(Raised) + One(FirstToCome) + One(LooseToCome) <= connector.epoch)'
    BY <1>2, <2>1, <2>5, <2>6 DEF AnswersAreKept
  <2> QED
    BY <2>1, <2>3, <2>7 DEF AnswersAreKept, Answered, Raises, Busy
<1> QED
  BY <1>1, <1>4, <1>5, <1>6, <1>7

\* What a step owes that leaves the counts alone.
LEMMA AnswersStand ==
  ASSUME AnswersAreKept, push' = push, connector'.exists = connector.exists, connector'.epoch = connector.epoch,
         twin'.exists = twin.exists, twin'.issue = twin.issue, twin'.digest = twin.digest,
         twin'.active => twin'.exists,
         \A i \in Issues : remote'[i].exists = remote[i].exists /\ remote'[i].payload = remote[i].payload,
         LinksFit
  PROVE  AnswersAreKept' /\ LinksFit' /\ Raised' = Raised
<1>1. Raised' = Raised
  BY DEF Raised
<1>2. (FirstToCome' <=> FirstToCome) /\ (LooseToCome' <=> LooseToCome)
  BY DEF FirstToCome, LooseToCome, Answered, OfNow, Raises
<1>3. One(FirstToCome') = One(FirstToCome) /\ One(LooseToCome') = One(LooseToCome)
  BY <1>2 DEF One
<1>4. LinksFit'
  BY DEF LinksFit
<1>5. (Cardinality(Raised) + One(FirstToCome) + One(LooseToCome) <= connector.epoch)'
  BY <1>1, <1>3 DEF AnswersAreKept
<1>6. \A w \in Pushers : (Answered(w) <=> Answered(w)') /\ (Raises(w) <=> Raises(w)') /\ (OfNow(w) <=> OfNow(w)')
  BY DEF Answered, Raises, OfNow
<1>7. Busy' = Busy
  BY DEF Busy
<1>8. (\A w \in Pushers : Answered(w) => remote[push[w].issue].payload = push[w].payload)'
  BY <1>6 DEF AnswersAreKept, LinksFit, Answered
<1>9. (twin.exists /\ (\A w \in Pushers : ~Answered(w)) => remote[twin.issue].payload = twin.digest)'
  BY <1>6 DEF AnswersAreKept, LinksFit
<1>10. (\A w \in Pushers : Raises(w) /\ OfNow(w) => ~twin.exists)'
  BY <1>6 DEF AnswersAreKept
<1> QED
  BY <1>1, <1>4, <1>5, <1>7, <1>8, <1>9, <1>10 DEF AnswersAreKept

\* A step that leaves links, counts and payloads alone keeps the invariant when it
\* keeps the types and the consent.
LEMMA SyncStands ==
  ASSUME SyncInv, ItsmTypeOK', ConsentIsKept', unsure' = unsure, push' = push,
         connector'.exists = connector.exists, connector'.epoch = connector.epoch,
         twin'.exists = twin.exists, twin'.issue = twin.issue, twin'.digest = twin.digest,
         twin'.active => twin'.exists,
         \A i \in Issues : remote'[i].exists = remote[i].exists /\ remote'[i].payload = remote[i].payload
  PROVE  SyncInv'
<1>1. Raised' = Raised
  BY DEF Raised
<1>2. LinksFit'
  BY DEF SyncInv, LinksFit
<1>3. ASSUME ~unsure' PROVE AnswersAreKept'
  BY <1>3, AnswersStand DEF SyncInv
<1> QED
  BY <1>1, <1>2, <1>3 DEF SyncInv

LEMMA UpdateKeepsSync ==
  ASSUME SyncInv, NEW b \in BOOLEAN, NEW c \in BOOLEAN, NEW m \in Mappings, UpdateConnector(b, c, m)
  PROVE  SyncInv'
<1>1. connector'.exists = connector.exists /\ connector'.epoch = connector.epoch /\ connector'.mapping = m
  BY DEF UpdateConnector, SyncInv, ItsmTypeOK, Connector
<1>2. ItsmTypeOK'
  BY DEF UpdateConnector, SyncInv, ItsmTypeOK, Connector
<1>3. ConsentIsKept'
  BY <1>1 DEF UpdateConnector, SyncInv, ConsentIsKept, ItsmTypeOK
<1> QED
  BY <1>1, <1>2, <1>3, SyncStands DEF UpdateConnector, SyncInv, LinksFit

LEMMA RotateKeepsSync ==
  ASSUME SyncInv, RotateInboundSecret
  PROVE  SyncInv'
<1> DEFINE z == IF connector.secret = 0 THEN MaxSecrets * connector.epoch ELSE connector.secret + 1
<1>1. connector' = [connector EXCEPT !.secret = z]
  BY DEF RotateInboundSecret
<1>2. connector.epoch \in Nat /\ connector.secret \in Nat /\ MaxSecrets \in Nat
  BY ItsmAssumption DEF SyncInv, ItsmTypeOK, Connector
<1>3. z \in Nat
  BY <1>2
<1> HIDE DEF z
<1>4. connector'.exists = connector.exists /\ connector'.epoch = connector.epoch
      /\ connector'.mapping = connector.mapping /\ connector' \in Connector
  BY <1>1, <1>3 DEF SyncInv, ItsmTypeOK, Connector
<1>5. ItsmTypeOK'
  BY <1>4 DEF RotateInboundSecret, SyncInv, ItsmTypeOK
<1>6. ConsentIsKept'
  BY <1>4 DEF RotateInboundSecret, SyncInv, ConsentIsKept
<1> QED
  BY <1>4, <1>5, <1>6, SyncStands DEF RotateInboundSecret, SyncInv, LinksFit

LEMMA DeleteKeepsSync ==
  ASSUME SyncInv, DeleteConnector
  PROVE  SyncInv'
<1> USE ItsmAssumption DEF SyncInv, DeleteConnector
<1>0. PICK s0 \in Statuses : s0 = CHOOSE s \in Statuses : TRUE
  OBVIOUS
<1>1. connector' \in Connector /\ ~connector'.exists /\ connector.exists /\ connector'.epoch = connector.epoch
      /\ connector'.mapping = NoMapping
  BY DEF ItsmTypeOK, Connector, NoMapping
<1>2. twin' \in Twin /\ ~twin'.exists /\ twin'.issue = NoIssue
  BY <1>0 DEF Twin, NoTwin, TicketStates, OpenTicketStates
<1>21. ~twin'.active
  BY DEF NoTwin
<1>3. ItsmTypeOK'
  BY <1>1, <1>2 DEF ItsmTypeOK
<1>4. LinksFit'
  BY <1>1, <1>2, <1>21 DEF LinksFit
<1>5. Raised' = Raised
  BY DEF Raised
<1>6. ConsentIsKept'
  BY <1>1 DEF ConsentIsKept, NoMapping
<1>7. ASSUME ~unsure' PROVE AnswersAreKept'
  <2>1. AnswersAreKept
    BY <1>7
  <2>2. ~FirstToCome'
    BY <1>1 DEF FirstToCome
  <2>3. LooseToCome' => FirstToCome \/ LooseToCome
    <3> SUFFICES ASSUME NEW w \in Pushers, Raises(w), OfNow(w) PROVE FirstToCome
      BY DEF LooseToCome, Raises
    <3>1. w \in Busy /\ ~Answered(w)
      BY DEF Raises, Busy, Answered
    <3>2. \A v \in Pushers : ~Answered(v)
      BY <2>1, <3>1 DEF AnswersAreKept, Busy, Answered
    <3> QED
      BY <1>1, <2>1, <3>2 DEF FirstToCome, AnswersAreKept
  <2>4. Cardinality(Raised)' = Cardinality(Raised) /\ Cardinality(Raised) \in Nat /\ connector.epoch \in Nat
    BY <1>5, RaisedTyped DEF ItsmTypeOK, Connector
  <2>5. One(FirstToCome') + One(LooseToCome') <= One(FirstToCome) + One(LooseToCome)
        /\ One(FirstToCome') + One(LooseToCome') \in Nat /\ One(FirstToCome) + One(LooseToCome) \in Nat
    BY <2>2, <2>3 DEF One
  <2>6. (Cardinality(Raised) + One(FirstToCome) + One(LooseToCome) <= connector.epoch)'
    BY <1>1, <2>1, <2>4, <2>5 DEF AnswersAreKept, One
  <2>7. \A w \in Pushers : ~OfNow(w)'
    BY <1>1 DEF OfNow
  <2> QED
    BY <1>2, <2>1, <2>6, <2>7 DEF AnswersAreKept, Answered, Raises, Busy
<1> QED
  BY <1>3, <1>4, <1>5, <1>6, <1>7

(* Pushes. *)

LEMMA LoadKeepsSync ==
  ASSUME SyncInv, NEW w \in Pushers, PushLoad(w)
  PROVE  SyncInv'
<1> USE DEF SyncInv, PushLoad
<1>1. /\ push'[w].phase = "loaded" /\ push'[w].issue = twin.issue /\ push'[w].epoch = connector.epoch
      /\ push'[w].payload = ticket
      /\ \A v \in Pushers \ {w} : push'[v] = push[v]
      /\ connector.exists /\ push[w].phase = "idle"
  BY DEF ItsmTypeOK, Push
<1>2. push' \in [Pushers -> Push]
  <2>1. [phase |-> "loaded", payload |-> ticket, issue |-> twin.issue, epoch |-> connector.epoch] \in Push
    BY DEF ItsmTypeOK, Push, Twin, Connector
  <2> QED
    BY <2>1 DEF ItsmTypeOK
<1>3. ItsmTypeOK'
  BY <1>2 DEF ItsmTypeOK
<1>4. LinksFit'
  <2>1. \A v \in Pushers : push'[v].epoch <= connector.epoch
    BY <1>1 DEF LinksFit, ItsmTypeOK, Connector
  <2>2. \A v \in Pushers : push'[v].phase = "answered" => push'[v].issue \in Issues
    BY <1>1 DEF LinksFit
  <2> QED
    BY <2>1, <2>2 DEF LinksFit
<1>5. Raised' = Raised
  BY DEF Raised
<1>6. ConsentIsKept'
  BY DEF ConsentIsKept
<1>7. ASSUME ~unsure' PROVE AnswersAreKept'
  <2>1. AnswersAreKept /\ Busy = {}
    BY <1>7
  <2>2. \A v \in Pushers : push[v].phase = "idle"
    BY <2>1 DEF Busy
  <2>3. \A v \in Pushers : ~Answered(v) /\ ~Answered(v)'
    BY <1>1, <2>2 DEF Answered
  <2>4. \A v \in Pushers : Raises(v)' => v = w
    BY <1>1, <2>2 DEF Raises
  <2>5. OfNow(w)'
    BY <1>1 DEF OfNow
  <2>6. ~LooseToCome'
    BY <2>4, <2>5 DEF LooseToCome
  <2>7. FirstToCome' <=> FirstToCome
    BY <2>3 DEF FirstToCome
  <2>8. Cardinality(Raised)' = Cardinality(Raised) /\ Cardinality(Raised) \in Nat /\ connector.epoch \in Nat
    BY <1>5, RaisedTyped DEF ItsmTypeOK, Connector
  <2>9. One(FirstToCome') = One(FirstToCome) /\ One(LooseToCome') = 0 /\ One(FirstToCome) \in {0, 1} /\ One(LooseToCome) \in {0, 1}
    BY <2>6, <2>7 DEF One
  <2>10. (Cardinality(Raised) + One(FirstToCome) + One(LooseToCome) <= connector.epoch)'
    BY <2>1, <2>8, <2>9 DEF AnswersAreKept
  <2>11. \A v \in Busy' : v = w
    BY <1>1, <2>2 DEF Busy
  <2>12. (twin.exists /\ (\A v \in Pushers : ~Answered(v)) => remote[twin.issue].payload = twin.digest)'
    BY <2>1, <2>3 DEF AnswersAreKept
  <2>13. (\A v \in Pushers : Raises(v) /\ OfNow(v) => ~twin.exists)'
    BY <1>1, <2>4, ItsmAssumption DEF LinksFit, Raises
  <2> QED
    BY <2>3, <2>10, <2>11, <2>12, <2>13 DEF AnswersAreKept
<1> QED
  BY <1>3, <1>4, <1>5, <1>6, <1>7

\* A push ends, and nothing else changes.
LEMMA EndKeepsSync ==
  ASSUME SyncInv, NEW w \in Pushers, push' = [push EXCEPT ![w] = IdlePush], unsure' \in BOOLEAN,
         ~unsure' => ~unsure /\ push[w].phase = "loaded",
         UNCHANGED <<connector, ticket, flaw, twin, remote, mail, consent, aspect>>
  PROVE  SyncInv'
<1> USE DEF SyncInv
<1>1. IdlePush \in Push /\ push'[w] = IdlePush /\ \A v \in Pushers \ {w} : push'[v] = push[v]
  BY DEF ItsmTypeOK, Push, IdlePush, TicketStates, OpenTicketStates
<1>2. ItsmTypeOK'
  BY <1>1 DEF ItsmTypeOK
<1>3. LinksFit'
  BY <1>1 DEF LinksFit, IdlePush, ItsmTypeOK, Connector
<1>5. Raised' = Raised
  BY DEF Raised
<1>6. ConsentIsKept'
  BY DEF ConsentIsKept
<1>7. ASSUME ~unsure' PROVE AnswersAreKept'
  <2>1. AnswersAreKept /\ push[w].phase = "loaded"
    BY <1>7
  <2>2. \A v \in Pushers : push'[v].phase = "idle"
    BY <1>1, <2>1 DEF AnswersAreKept, Busy, IdlePush
  <2>3. \A v \in Pushers : ~Answered(v) /\ ~Answered(v)' /\ ~Raises(v)'
    BY <2>1, <2>2 DEF AnswersAreKept, Busy, Answered, Raises
  <2>4. ~LooseToCome'
    BY <2>3 DEF LooseToCome
  <2>5. FirstToCome' <=> FirstToCome
    BY <2>3 DEF FirstToCome
  <2>6. Cardinality(Raised)' = Cardinality(Raised) /\ Cardinality(Raised) \in Nat /\ connector.epoch \in Nat
    BY <1>5, RaisedTyped DEF ItsmTypeOK, Connector
  <2>7. One(FirstToCome') = One(FirstToCome) /\ One(LooseToCome') = 0 /\ One(FirstToCome) \in {0, 1} /\ One(LooseToCome) \in {0, 1}
    BY <2>4, <2>5 DEF One
  <2>8. (Cardinality(Raised) + One(FirstToCome) + One(LooseToCome) <= connector.epoch)'
    BY <2>1, <2>6, <2>7 DEF AnswersAreKept
  <2>9. Busy' = {}
    BY <2>2 DEF Busy
  <2>10. (twin.exists /\ (\A v \in Pushers : ~Answered(v)) => remote[twin.issue].payload = twin.digest)'
    BY <2>1, <2>3 DEF AnswersAreKept
  <2> QED
    BY <2>3, <2>8, <2>9, <2>10 DEF AnswersAreKept
<1> QED
  BY <1>2, <1>3, <1>5, <1>6, <1>7

LEMMA RefuseKeepsSync ==
  ASSUME SyncInv, NEW w \in Pushers, RemoteRefuses(w)
  PROVE  SyncInv'
BY EndKeepsSync DEF RemoteRefuses, SyncInv, ItsmTypeOK

LEMMA AbortKeepsSync ==
  ASSUME SyncInv, NEW w \in Pushers, PushAbort(w)
  PROVE  SyncInv'
<1>1. push[w].phase \in {"loaded", "answered"}
  BY DEF PushAbort, SyncInv, ItsmTypeOK, Push
<1>2. unsure' \in BOOLEAN
  BY DEF PushAbort, SyncInv, ItsmTypeOK
<1>3. ~unsure' => ~unsure /\ push[w].phase = "loaded"
  BY <1>1 DEF PushAbort
<1> QED
  BY <1>2, <1>3, EndKeepsSync DEF PushAbort

\* The remote system takes a push: of a new issue, or of the one that is linked.
LEMMA AnswerKeepsSync ==
  ASSUME SyncInv, NEW w \in Pushers, NEW i \in Issues, push[w].phase = "loaded",
         \/ push[w].issue = NoIssue /\ ~remote[i].exists
         \/ push[w].issue = i,
         remote' \in [Issues -> Issue], push' \in [Pushers -> Push],
         remote'[i].payload = push[w].payload,
         remote'[i].exists = (remote[i].exists \/ push[w].issue = NoIssue),
         \A j \in Issues \ {i} : remote'[j] = remote[j],
         push'[w].phase = "answered", push'[w].issue = i, push'[w].payload = push[w].payload,
         push'[w].epoch = push[w].epoch,
         \A v \in Pushers \ {w} : push'[v] = push[v],
         UNCHANGED <<connector, ticket, flaw, twin, mail, unsure, consent, aspect>>
  PROVE  SyncInv'
<1> USE DEF SyncInv
<1>1. ItsmTypeOK'
  BY DEF ItsmTypeOK
<1>2. LinksFit'
  BY DEF LinksFit
<1>3. ConsentIsKept'
  BY DEF ConsentIsKept
<1>4. CASE push[w].issue = NoIssue
  <2>1. i \notin Raised /\ Raised' = Raised \cup {i}
    BY <1>4, ItsmAssumption DEF Raised
  <2>2. IsFiniteSet(Raised)' /\ Cardinality(Raised)' = Cardinality(Raised) + 1
    BY <2>1, RaisedCounted
  <2>3. ASSUME ~unsure PROVE AnswersAreKept'
    <3>1. AnswersAreKept
      BY <2>3
    <3>2. Raises(w) /\ \A v \in Pushers \ {w} : push[v].phase = "idle"
      BY <1>4, <3>1 DEF Raises, AnswersAreKept, Busy
    <3>3. \A v \in Pushers : ~Answered(v) /\ ~Raises(v)' /\ (Answered(v)' <=> v = w) /\ (OfNow(v)' <=> OfNow(v))
      BY <3>2 DEF Answered, Raises, OfNow
    <3>4. ~LooseToCome'
      BY <3>3 DEF LooseToCome
    <3>5. CASE OfNow(w)
      <4>1. FirstToCome /\ ~FirstToCome'
        BY <3>1, <3>2, <3>3, <3>5 DEF FirstToCome, AnswersAreKept, OfNow
      <4> QED
        <5>1. Cardinality(Raised) \in Nat /\ connector.epoch \in Nat
          BY RaisedTyped DEF ItsmTypeOK, Connector
        <5>2. One(FirstToCome) = 1 /\ One(FirstToCome') = 0 /\ One(LooseToCome') = 0 /\ One(LooseToCome) \in {0, 1}
          BY <3>4, <4>1 DEF One
        <5>3. (Cardinality(Raised) + One(FirstToCome) + One(LooseToCome) <= connector.epoch)'
          BY <2>2, <3>1, <5>1, <5>2 DEF AnswersAreKept
        <5>4. \A u, v \in Busy' : u = v
          BY <3>2 DEF Busy
        <5> QED
          BY <3>3, <5>3, <5>4 DEF AnswersAreKept
    <3>6. CASE ~OfNow(w)
      <4>1. LooseToCome /\ (FirstToCome' <=> FirstToCome)
        BY <3>2, <3>3, <3>6 DEF FirstToCome, LooseToCome
      <4>2. Cardinality(Raised) \in Nat /\ connector.epoch \in Nat
        BY RaisedTyped DEF ItsmTypeOK, Connector
      <4>3. One(FirstToCome) = One(FirstToCome') /\ One(LooseToCome') = 0 /\ One(LooseToCome) = 1 /\ One(FirstToCome) \in {0, 1}
        BY <3>4, <4>1 DEF One
      <4>4. (Cardinality(Raised) + One(FirstToCome) + One(LooseToCome) <= connector.epoch)'
        BY <2>2, <3>1, <4>2, <4>3 DEF AnswersAreKept
      <4>5. \A u, v \in Busy' : u = v
        BY <3>2 DEF Busy
      <4> QED
        BY <3>3, <4>4, <4>5 DEF AnswersAreKept
    <3> QED
      BY <3>5, <3>6
  <2> QED
    BY <1>1, <1>2, <1>3, <2>2, <2>3
<1>5. CASE push[w].issue # NoIssue
  <2>1. Raised' = Raised
    BY <1>5 DEF Raised
  <2>2. ASSUME ~unsure PROVE AnswersAreKept'
    <3>1. AnswersAreKept
      BY <2>2
    <3>2. \A v \in Pushers \ {w} : push[v].phase = "idle"
      BY <3>1 DEF AnswersAreKept, Busy
    <3>3. \A v \in Pushers : ~Answered(v) /\ ~Raises(v)' /\ ~Raises(v) /\ (Answered(v)' <=> v = w) /\ (OfNow(v)' <=> OfNow(v))
      BY <1>5, <3>2 DEF Answered, Raises, OfNow
    <3>4. ~LooseToCome' /\ ~LooseToCome
      BY <3>3 DEF LooseToCome
    <3>5. FirstToCome' => FirstToCome
      BY <3>3 DEF FirstToCome
    <3>6. Cardinality(Raised)' = Cardinality(Raised) /\ Cardinality(Raised) \in Nat /\ connector.epoch \in Nat
      BY <2>1, RaisedTyped DEF ItsmTypeOK, Connector
    <3>7. One(FirstToCome') <= One(FirstToCome) /\ One(LooseToCome') = 0 /\ One(LooseToCome) = 0
          /\ One(FirstToCome) \in {0, 1} /\ One(FirstToCome') \in {0, 1}
      BY <3>4, <3>5 DEF One
    <3>8. (Cardinality(Raised) + One(FirstToCome) + One(LooseToCome) <= connector.epoch)'
      BY <3>1, <3>6, <3>7 DEF AnswersAreKept
    <3>9. \A u, v \in Busy' : u = v
      BY <3>2 DEF Busy
    <3> QED
      BY <3>3, <3>8, <3>9 DEF AnswersAreKept
  <2> QED
    BY <1>1, <1>2, <1>3, <2>1, <2>2
<1> QED
  BY <1>4, <1>5

LEMMA RemoteAnswersKeepsSync ==
  ASSUME SyncInv, NEW w \in Pushers, RemoteAnswers(w)
  PROVE  SyncInv'
<1>1. push[w] \in Push /\ push[w].phase = "loaded" /\ push[w].payload \in TicketStates
  BY DEF RemoteAnswers, SyncInv, ItsmTypeOK, Push
<1>2. CASE push[w].issue = NoIssue
  <2>1. PICK i \in Issues : /\ ~remote[i].exists
                            /\ remote' = [remote EXCEPT ![i].exists = TRUE, ![i].payload = push[w].payload]
                            /\ push' = [push EXCEPT ![w].issue = i, ![w].phase = "answered"]
    BY <1>2 DEF RemoteAnswers
  <2>2. remote[i] \in Issue
    BY DEF SyncInv, ItsmTypeOK
  <2>3. /\ remote'[i].exists = TRUE /\ remote'[i].payload = push[w].payload /\ remote'[i] \in Issue
        /\ \A j \in Issues \ {i} : remote'[j] = remote[j]
        /\ remote' \in [Issues -> Issue]
    BY <1>1, <2>1, <2>2 DEF SyncInv, ItsmTypeOK, Issue
  <2>4. /\ push'[w].phase = "answered" /\ push'[w].issue = i /\ push'[w].payload = push[w].payload
        /\ push'[w].epoch = push[w].epoch
        /\ \A v \in Pushers \ {w} : push'[v] = push[v]
        /\ push' \in [Pushers -> Push]
    BY <1>1, <2>1 DEF SyncInv, ItsmTypeOK, Push
  <2>5. UNCHANGED <<connector, ticket, flaw, twin, mail, unsure, consent, aspect>>
    BY DEF RemoteAnswers
  <2>6. remote'[i].exists = (remote[i].exists \/ push[w].issue = NoIssue)
    BY <1>2, <2>3
  <2> QED
    BY <1>1, <1>2, <2>1, <2>3, <2>4, <2>5, <2>6, AnswerKeepsSync
<1>3. CASE push[w].issue # NoIssue
  <2>0. PICK i \in Issues : i = push[w].issue
    BY <1>1, <1>3 DEF Push
  <2>1. /\ remote' = [remote EXCEPT ![i].payload = push[w].payload]
        /\ push' = [push EXCEPT ![w].phase = "answered"]
    BY <1>3, <2>0 DEF RemoteAnswers
  <2>2. remote[i] \in Issue
    BY DEF SyncInv, ItsmTypeOK
  <2>3. /\ remote'[i].exists = remote[i].exists /\ remote'[i].payload = push[w].payload /\ remote'[i] \in Issue
        /\ remote[i].exists \in BOOLEAN
        /\ \A j \in Issues \ {i} : remote'[j] = remote[j]
        /\ remote' \in [Issues -> Issue]
    BY <1>1, <2>1, <2>2 DEF SyncInv, ItsmTypeOK, Issue
  <2>4. /\ push'[w].phase = "answered" /\ push'[w].issue = i /\ push'[w].payload = push[w].payload
        /\ push'[w].epoch = push[w].epoch
        /\ \A v \in Pushers \ {w} : push'[v] = push[v]
        /\ push' \in [Pushers -> Push]
    BY <1>1, <2>0, <2>1 DEF SyncInv, ItsmTypeOK, Push
  <2>5. UNCHANGED <<connector, ticket, flaw, twin, mail, unsure, consent, aspect>>
    BY DEF RemoteAnswers
  <2>6. remote'[i].exists = (remote[i].exists \/ push[w].issue = NoIssue)
    BY <1>3, <2>3
  <2> QED
    BY <1>1, <2>0, <2>3, <2>4, <2>5, <2>6, AnswerKeepsSync
<1> QED
  BY <1>2, <1>3

LEMMA CommitKeepsSync ==
  ASSUME SyncInv, NEW w \in Pushers, PushCommit(w)
  PROVE  SyncInv'
<1> USE DEF SyncInv
<1>0. PICK i \in Issues : i = push[w].issue
  BY DEF PushCommit, LinksFit
<1>1. push[w] \in Push /\ push[w].phase = "answered" /\ OfNow(w) /\ (twin.exists => twin.issue = i)
  BY <1>0 DEF PushCommit, OfNow, ItsmTypeOK
<1>2. PICK status \in {twin.status, remote[i].status} :
        twin' = [exists |-> TRUE, issue |-> i, digest |-> push[w].payload,
                 active |-> IF ~twin.exists THEN TRUE ELSE twin.active,
                 status |-> IF ~twin.exists THEN remote[i].status ELSE status]
  BY <1>0 DEF PushCommit
<1>3. twin' \in Twin /\ twin'.exists /\ twin'.issue = i /\ twin'.digest = push[w].payload
  <2>1. status \in Statuses /\ remote[i].status \in Statuses /\ push[w].payload \in TicketStates /\ twin.active \in BOOLEAN
    BY <1>1, <1>2 DEF ItsmTypeOK, Twin, Issue, Push
  <2> QED
    BY <1>2, <2>1 DEF Twin
<1>4. IdlePush \in Push /\ push'[w] = IdlePush /\ push' \in [Pushers -> Push] /\ \A v \in Pushers \ {w} : push'[v] = push[v]
  BY DEF PushCommit, ItsmTypeOK, Push, IdlePush, TicketStates, OpenTicketStates
<1>5. UNCHANGED <<connector, ticket, flaw, remote, mail, unsure, consent, aspect>>
  BY DEF PushCommit
<1>6. ItsmTypeOK'
  BY <1>3, <1>4, <1>5 DEF ItsmTypeOK
<1>7. LinksFit'
  BY <1>3, <1>4, <1>5 DEF LinksFit, IdlePush, ItsmTypeOK, Connector
<1>8. Raised' = Raised
  BY <1>5 DEF Raised
<1>9. ConsentIsKept'
  BY <1>5 DEF ConsentIsKept
<1>10. ASSUME ~unsure' PROVE AnswersAreKept'
  <2>1. AnswersAreKept
    BY <1>5, <1>10
  <2>2. \A v \in Pushers : push'[v].phase = "idle"
    BY <1>1, <1>4, <2>1 DEF AnswersAreKept, Busy, IdlePush
  <2>3. \A v \in Pushers : ~Answered(v)' /\ ~Raises(v)'
    BY <2>2 DEF Answered, Raises
  <2>4. ~LooseToCome' /\ ~FirstToCome'
    BY <1>3, <2>3 DEF LooseToCome, FirstToCome
  <2>5. Cardinality(Raised)' = Cardinality(Raised) /\ Cardinality(Raised) \in Nat /\ connector.epoch \in Nat
    BY <1>8, RaisedTyped DEF ItsmTypeOK, Connector
  <2>6. One(FirstToCome') = 0 /\ One(LooseToCome') = 0 /\ One(FirstToCome) \in {0, 1} /\ One(LooseToCome) \in {0, 1}
    BY <2>4 DEF One
  <2>7. (Cardinality(Raised) + One(FirstToCome) + One(LooseToCome) <= connector.epoch)'
    BY <1>5, <2>1, <2>5, <2>6 DEF AnswersAreKept
  <2>8. Busy' = {}
    BY <2>2 DEF Busy
  <2>9. remote'[twin'.issue].payload = twin'.digest
    BY <1>0, <1>1, <1>3, <1>5, <2>1 DEF AnswersAreKept, Answered
  <2> QED
    BY <2>3, <2>7, <2>8, <2>9 DEF AnswersAreKept
<1> QED
  BY <1>5, <1>6, <1>7, <1>8, <1>9, <1>10

(* Polls, webhooks, operators and the remote system. *)

\* Of the link only the status or the switch changes.
LEMMA TwinStands ==
  ASSUME SyncInv, NEW s \in Statuses, NEW b \in BOOLEAN, b => twin.exists,
         twin' = [twin EXCEPT !.status = s] \/ twin' = [twin EXCEPT !.active = b],
         UNCHANGED <<connector, ticket, flaw, remote, mail, push, unsure, consent, aspect>>
  PROVE  SyncInv'
<1>1. twin' \in Twin /\ twin'.exists = twin.exists /\ twin'.issue = twin.issue /\ twin'.digest = twin.digest
  BY DEF SyncInv, ItsmTypeOK, Twin
<1>2. ItsmTypeOK' /\ ConsentIsKept'
  BY <1>1 DEF SyncInv, ItsmTypeOK, ConsentIsKept
<1>3. twin'.active => twin'.exists
  BY <1>1 DEF SyncInv, LinksFit, ItsmTypeOK, Twin
<1> QED
  BY <1>1, <1>2, <1>3, SyncStands

LEMMA PollKeepsSync ==
  ASSUME SyncInv, RefreshLink \/ PullConnector \/ UnlinkTwin
  PROVE  SyncInv'
<1>1. CASE UnlinkTwin
  <2>1. PICK s \in Statuses : TRUE
    BY ItsmAssumption
  <2> QED
    BY <1>1, <2>1, TwinStands DEF UnlinkTwin
<1>2. CASE twin.issue \in Issues /\ (RefreshLink \/ PullConnector)
  <2>1. PICK s \in Statuses : s = remote[twin.issue].status
    BY <1>2 DEF SyncInv, ItsmTypeOK, Issue
  <2> QED
    BY <1>2, <2>1, TwinStands DEF RefreshLink, PullConnector, PullStatus
<1> QED
  BY <1>1, <1>2 DEF RefreshLink, PullConnector, SyncInv, LinksFit

LEMMA WebhookKeepsSync ==
  ASSUME SyncInv, NEW e \in mail, NEW b \in BOOLEAN, ItsmWebhook(e, b)
  PROVE  SyncInv'
<1>1. e \in Webhook /\ e.status \in Statuses /\ mail' \subseteq mail /\ mail \subseteq Webhook
  BY DEF SyncInv, ItsmTypeOK, Webhook, ItsmWebhook
<1>2. UNCHANGED <<connector, remote, push, unsure, consent, aspect>>
  BY DEF ItsmWebhook
<1>3. twin' \in Twin /\ twin'.exists = twin.exists /\ twin'.issue = twin.issue /\ twin'.digest = twin.digest
      /\ twin'.active = twin.active
  BY <1>1 DEF SyncInv, ItsmTypeOK, Twin, ItsmWebhook, HandleInbound
<1>4. ticket \in TicketStates /\ flaw \in {"open", "remediated"}
  BY DEF SyncInv, ItsmTypeOK
<1>5. \/ UNCHANGED <<ticket, flaw>>
      \/ TransitionTo(connector.mapping[e.status])
  BY DEF ItsmWebhook, HandleInbound, MappedState
<1>6. ticket' \in TicketStates /\ flaw' \in {"open", "remediated"}
      /\ (flaw' = "remediated" => flaw = "remediated" \/ connector.mapping[e.status] = "resolved")
  <2>1. CASE UNCHANGED <<ticket, flaw>>
    BY <1>4, <2>1
  <2>2. CASE TransitionTo(connector.mapping[e.status])
    BY <1>4, <2>2, GraphKeepsStates DEF TransitionTo
  <2> QED
    BY <1>5, <2>1, <2>2
<1>7. ItsmTypeOK'
  BY <1>1, <1>2, <1>3, <1>6 DEF SyncInv, ItsmTypeOK
<1>8. ConsentIsKept'
  BY <1>1, <1>2, <1>6 DEF SyncInv, ConsentIsKept
<1> QED
  BY <1>2, <1>3, <1>7, <1>8, SyncStands DEF SyncInv, LinksFit

LEMMA OperatorsKeepSync ==
  ASSUME SyncInv, FlawReopens \/ \E t \in Wanted : LocalTransition(t)
  PROVE  SyncInv'
<1>1. ticket \in TicketStates /\ flaw \in {"open", "remediated"} /\ consent \in BOOLEAN
  BY DEF SyncInv, ItsmTypeOK
<1>2. /\ UNCHANGED <<connector, twin, remote, mail, push, unsure, aspect>>
      /\ ticket' \in TicketStates /\ flaw' \in {"open", "remediated"} /\ consent' \in BOOLEAN
      /\ consent => consent'
      /\ flaw' = "remediated" => flaw = "remediated" \/ consent'
  <2>1. CASE FlawReopens
    BY <1>1, <2>1 DEF FlawReopens
  <2>2. CASE \E t \in Wanted : LocalTransition(t)
    <3>1. PICK t \in Wanted : LocalTransition(t)
      BY <2>2
    <3>2. t \in TicketStates
      BY ItsmAssumption
    <3>3. UNCHANGED <<connector, twin, remote, mail, push, unsure, aspect>> /\ consent' = (consent \/ t = "resolved")
      BY <3>1 DEF LocalTransition
    <3>4. ticket' = t /\ flaw' = IF t = "resolved" THEN "remediated" ELSE flaw
      BY <3>1 DEF LocalTransition, TransitionTo
    <3> QED
      BY <1>1, <3>2, <3>3, <3>4
  <2> QED
    BY <2>1, <2>2
<1>3. ItsmTypeOK'
  BY <1>2 DEF SyncInv, ItsmTypeOK
<1>4. ConsentIsKept'
  BY <1>2 DEF SyncInv, ConsentIsKept
<1> QED
  BY <1>2, <1>3, <1>4, SyncStands DEF SyncInv, LinksFit

LEMMA RemoteMovesKeepsSync ==
  ASSUME SyncInv, NEW i \in Issues, NEW s \in Statuses, RemoteMoves(i, s)
  PROVE  SyncInv'
<1>1. remote[i] \in Issue /\ remote' = [remote EXCEPT ![i].status = s] /\ connector.secret \in Nat
  BY DEF SyncInv, ItsmTypeOK, RemoteMoves, Connector
<1>2. remote' \in [Issues -> Issue]
      /\ \A j \in Issues : remote'[j].exists = remote[j].exists /\ remote'[j].payload = remote[j].payload
  BY <1>1 DEF SyncInv, ItsmTypeOK, Issue
<1>3. mail' \subseteq Webhook
  BY <1>1 DEF SyncInv, ItsmTypeOK, RemoteMoves, Webhook
<1>4. ItsmTypeOK' /\ ConsentIsKept'
  BY <1>2, <1>3 DEF SyncInv, ItsmTypeOK, ConsentIsKept, RemoteMoves
<1> QED
  BY <1>2, <1>4, SyncStands DEF RemoteMoves, SyncInv, LinksFit

\* Every step keeps the invariant.
LEMMA SyncStep == SyncInv /\ [ItsmNext]_itsmVars => SyncInv'
<1> SUFFICES ASSUME SyncInv, [ItsmNext]_itsmVars PROVE SyncInv'
  OBVIOUS
<1>1. CASE UNCHANGED itsmVars
  <2>1. ItsmTypeOK' /\ ConsentIsKept'
    BY <1>1 DEF SyncInv, ItsmTypeOK, ConsentIsKept, itsmVars
  <2> QED
    BY <1>1, <2>1, SyncStands DEF itsmVars, SyncInv, LinksFit
<1>2. CASE ItsmNext
  BY <1>2, CreateKeepsSync, UpdateKeepsSync, RotateKeepsSync, DeleteKeepsSync, LoadKeepsSync,
     RemoteAnswersKeepsSync, RefuseKeepsSync, CommitKeepsSync, AbortKeepsSync, PollKeepsSync,
     WebhookKeepsSync, OperatorsKeepSync, RemoteMovesKeepsSync DEF ItsmNext
<1> QED
  BY <1>1, <1>2

\* The invariant says what the run checks.
LEMMA SyncFollows == SyncInv => ItsmTypeOK /\ SilenceIsAgreement /\ OneIssueForTheTicket /\ ClosureIsConsented
<1> SUFFICES ASSUME SyncInv PROVE ItsmTypeOK /\ SilenceIsAgreement /\ OneIssueForTheTicket /\ ClosureIsConsented
  OBVIOUS
<1>1. SilenceIsAgreement
  BY DEF SyncInv, AnswersAreKept, SilenceIsAgreement, Busy, Answered
<1>2. OneIssueForTheTicket
  <2> SUFFICES ASSUME ~unsure PROVE Cardinality(Raised) <= connector.epoch
    BY DEF OneIssueForTheTicket, Raised
  <2>1. Cardinality(Raised) \in Nat /\ connector.epoch \in Nat
    BY RaisedTyped DEF SyncInv, ItsmTypeOK, Connector
  <2>2. One(FirstToCome) \in {0, 1} /\ One(LooseToCome) \in {0, 1}
    BY DEF One
  <2> QED
    BY <2>1, <2>2 DEF SyncInv, AnswersAreKept
<1> QED
  BY <1>1, <1>2 DEF SyncInv, ConsentIsKept, ClosureIsConsented

\* A ticket that was closed or cancelled never moves again.
LEMMA FinishedTicketsRest == SyncInv /\ [ItsmNext]_itsmVars => FinishedStaysFinished
<1> SUFFICES ASSUME SyncInv, ItsmNext, ticket \in {"closed", "cancelled"} PROVE ticket' = ticket
  BY DEF FinishedStaysFinished, itsmVars
<1>1. ticket \in TicketStates
  BY DEF SyncInv, ItsmTypeOK
<1>2. \A t : TransitionTo(t) => ticket' = ticket
  BY <1>1, GraphKeepsStates DEF TransitionTo
<1>3. ASSUME NEW e \in mail, NEW b \in BOOLEAN, ItsmWebhook(e, b) PROVE ticket' = ticket
  BY <1>2, <1>3 DEF ItsmWebhook, HandleInbound
<1>4. ASSUME NEW t \in Wanted, LocalTransition(t) PROVE ticket' = ticket
  BY <1>2, <1>4 DEF LocalTransition
<1> QED
  BY <1>3, <1>4 DEF ItsmNext, CreateConnector, UpdateConnector, RotateInboundSecret, DeleteConnector, UnlinkTwin,
     FlawReopens, RefreshLink, PullConnector, PushLoad, RemoteAnswers, RemoteRefuses, PushCommit, PushAbort, RemoteMoves

THEOREM TwinsKeepAgreeing == ItsmSpec => []ItsmTypeOK /\ TwinsAgree
<1>1. SyncInv /\ SyncInv' /\ [ItsmNext]_itsmVars
        => [(SilenceIsAgreement /\ OneIssueForTheTicket /\ ClosureIsConsented)' /\ FinishedStaysFinished]_itsmVars
  <2>1. SyncInv' => (SilenceIsAgreement /\ OneIssueForTheTicket /\ ClosureIsConsented)'
    BY SyncFollows, PTL
  <2> QED
    BY <2>1, FinishedTicketsRest
<1>2. ItsmSpec => []SyncInv
  BY SyncInit, SyncStep, PTL DEF ItsmSpec
<1>3. SyncInv => ItsmTypeOK
  BY SyncFollows
<1> QED
  BY <1>1, <1>2, <1>3, PTL DEF TwinsAgree, ItsmSpec

----------------------------------------------------------------------------
(***************************************************************************)
(* Fix plans.                                                              *)
(***************************************************************************)

\* Versions, and places in them.
Ver == Seq({0, 1} \X Nat)
Places == Nat \ {0}

LEMMA VersionsAreVersions == Versions \subseteq Ver
BY FixPlanAssumption DEF Ver

LEMMA SegmentTyped ==
  ASSUME NEW v \in Ver, NEW i \in Places
  PROVE  /\ Segment(v, i) \in {0, 1} \X Nat
         /\ Segment(v, i)[1] \in Nat /\ Segment(v, i)[2] \in Nat
         /\ Segment(v, i) = <<Segment(v, i)[1], Segment(v, i)[2]>>
         /\ i > Len(v) => Segment(v, i) = <<1, 0>>
<1>1. Len(v) \in Nat /\ DOMAIN v = 1 .. Len(v)
  BY LenProperties DEF Ver
<1>2. i \in DOMAIN v => v[i] \in {0, 1} \X Nat
  BY <1>1, ElementOfSeq DEF Ver
<1>3. Segment(v, i) \in {0, 1} \X Nat
  BY <1>2 DEF Segment
<1>4. i > Len(v) => Segment(v, i) = <<1, 0>>
  BY <1>1 DEF Segment, Places
<1> QED
  BY <1>3, <1>4

\* Segments are ordered from the first to the last.
LEMMA BeforeIsOrder ==
  ASSUME NEW s \in {0, 1} \X Nat, NEW t \in {0, 1} \X Nat, NEW u \in {0, 1} \X Nat
  PROVE  /\ ~Before(s, s)
         /\ Before(s, t) /\ Before(t, u) => Before(s, u)
         /\ s # t => Before(s, t) \/ Before(t, s)
<1>1. /\ s[1] \in Nat /\ s[2] \in Nat /\ s = <<s[1], s[2]>>
      /\ t[1] \in Nat /\ t[2] \in Nat /\ t = <<t[1], t[2]>>
      /\ u[1] \in Nat /\ u[2] \in Nat
  OBVIOUS
<1>2. s # t => s[1] # t[1] \/ s[2] # t[2]
  BY <1>1
<1> QED
  BY <1>1, <1>2 DEF Before

\* Older, whatever the lengths.
Less(v, w) ==
  \E i \in Places : Before(Segment(v, i), Segment(w, i)) /\ \A j \in 1 .. (i - 1) : Segment(v, j) = Segment(w, j)

LEMMA OlderIsLess ==
  ASSUME NEW v \in Ver, NEW w \in Ver
  PROVE  Older(v, w) <=> Less(v, w)
<1>1. Len(v) \in Nat /\ Len(w) \in Nat
  BY LenProperties DEF Ver
<1>2. ASSUME NEW i \in Places, Before(Segment(v, i), Segment(w, i)) PROVE i \in 1 .. (Len(v) + Len(w))
  <2>1. CASE i > Len(v) /\ i > Len(w)
    <3>1. Segment(v, i) = <<1, 0>> /\ Segment(w, i) = <<1, 0>>
      BY <2>1, SegmentTyped
    <3>2. ~Before(<<1, 0>>, <<1, 0>>)
      BY DEF Before
    <3> QED
      BY <1>2, <3>1, <3>2
  <2>2. CASE i <= Len(v) \/ i <= Len(w)
    BY <1>1, <2>2 DEF Places
  <2> QED
    BY <1>1, <2>1, <2>2 DEF Places
<1>3. \A i \in 1 .. (Len(v) + Len(w)) : i \in Places
  BY <1>1 DEF Places
<1> QED
  BY <1>2, <1>3 DEF Older, Less

LEMMA LessIrreflexive ==
  ASSUME NEW v \in Ver
  PROVE  ~Less(v, v)
BY SegmentTyped, BeforeIsOrder DEF Less

LEMMA LessTransitive ==
  ASSUME NEW u \in Ver, NEW v \in Ver, NEW w \in Ver, Less(u, v), Less(v, w)
  PROVE  Less(u, w)
<1>1. PICK i \in Places : Before(Segment(u, i), Segment(v, i)) /\ \A j \in 1 .. (i - 1) : Segment(u, j) = Segment(v, j)
  BY DEF Less
<1>2. PICK k \in Places : Before(Segment(v, k), Segment(w, k)) /\ \A j \in 1 .. (k - 1) : Segment(v, j) = Segment(w, j)
  BY DEF Less
<1>3. CASE i < k
  <2>1. i \in 1 .. (k - 1) /\ \A j \in 1 .. (i - 1) : j \in 1 .. (k - 1)
    BY <1>3 DEF Places
  <2>2. Before(Segment(u, i), Segment(w, i)) /\ \A j \in 1 .. (i - 1) : Segment(u, j) = Segment(w, j)
    BY <1>1, <1>2, <2>1
  <2> QED
    BY <2>2 DEF Less
<1>4. CASE k < i
  <2>1. k \in 1 .. (i - 1) /\ \A j \in 1 .. (k - 1) : j \in 1 .. (i - 1)
    BY <1>4 DEF Places
  <2>2. Before(Segment(u, k), Segment(w, k)) /\ \A j \in 1 .. (k - 1) : Segment(u, j) = Segment(w, j)
    BY <1>1, <1>2, <2>1
  <2> QED
    BY <2>2 DEF Less
<1>5. CASE i = k
  <2>1. Before(Segment(u, i), Segment(w, i))
    BY <1>1, <1>2, <1>5, SegmentTyped, BeforeIsOrder
  <2>2. \A j \in 1 .. (i - 1) : Segment(u, j) = Segment(w, j)
    BY <1>1, <1>2, <1>5
  <2> QED
    BY <2>1, <2>2 DEF Less
<1> QED
  BY <1>3, <1>4, <1>5 DEF Places

LEMMA OlderIsOrder ==
  /\ \A v \in Ver : ~Older(v, v) /\ SameVersion(v, v)
  /\ \A u, v, w \in Ver : Older(u, v) /\ Older(v, w) => Older(u, w)
<1>1. \A v \in Ver : ~Older(v, v)
  BY OlderIsLess, LessIrreflexive
<1>2. \A u, v, w \in Ver : Older(u, v) /\ Older(v, w) => Older(u, w)
  BY OlderIsLess, LessTransitive
<1> QED
  BY <1>1, <1>2 DEF SameVersion

\* Two versions are the same when every segment is.
LEMMA SameSegments ==
  ASSUME NEW v \in Ver, NEW w \in Ver, SameVersion(v, w)
  PROVE  \A i \in Places : Segment(v, i) = Segment(w, i)
<1> DEFINE D == {i \in Places : Segment(v, i) # Segment(w, i)}
<1> SUFFICES ASSUME D # {} PROVE FALSE
  OBVIOUS
<1>1. D \in SUBSET Nat
  BY DEF Places
<1>2. PICK i \in D : \A k \in D : i <= k
  <2> HIDE DEF D
  <2> QED BY <1>1, LeastNatural
<1>3. i \in Places /\ Segment(v, i) # Segment(w, i)
  OBVIOUS
<1>4. \A j \in 1 .. (i - 1) : Segment(v, j) = Segment(w, j)
  <2> SUFFICES ASSUME NEW j \in 1 .. (i - 1), Segment(v, j) # Segment(w, j) PROVE FALSE
    OBVIOUS
  <2>1. j \in Places /\ j < i
    BY <1>3 DEF Places
  <2>2. j \in D
    BY <2>1
  <2> QED
    BY <1>2, <1>3, <2>1, <2>2 DEF Places
<1>5. Before(Segment(v, i), Segment(w, i)) \/ Before(Segment(w, i), Segment(v, i))
  BY <1>3, SegmentTyped, BeforeIsOrder
<1>6. \A j \in 1 .. (i - 1) : Segment(w, j) = Segment(v, j)
  BY <1>4
<1>7. Less(v, w) \/ Less(w, v)
  BY <1>3, <1>4, <1>5, <1>6 DEF Less
<1> QED
  BY <1>7, OlderIsLess DEF SameVersion

\* What is the same version is older and newer than the same ones.
LEMMA SameIsCongruent ==
  ASSUME NEW v \in Ver, NEW w \in Ver, SameVersion(v, w), NEW u \in Ver
  PROVE  /\ Older(v, u) <=> Older(w, u)
         /\ Older(u, v) <=> Older(u, w)
         /\ SameVersion(v, u) <=> SameVersion(w, u)
         /\ SameVersion(u, v) <=> SameVersion(u, w)
<1>1. \A i \in Places : Segment(v, i) = Segment(w, i)
  BY SameSegments
<1>2. \A i \in Places : \A j \in 1 .. (i - 1) : j \in Places
  BY DEF Places
<1>3. (Less(v, u) <=> Less(w, u)) /\ (Less(u, v) <=> Less(u, w))
  BY <1>1, <1>2 DEF Less
<1> QED
  BY <1>3, OlderIsLess DEF SameVersion

\* Of finitely many versions there is one than which none is older.
LEMMA OldestOfMany ==
  ASSUME NEW n \in Nat \ {0}, NEW s \in [1 .. n -> Ver]
  PROVE  \E i \in 1 .. n : \A j \in 1 .. n : ~Older(s[j], s[i])
<1> DEFINE Has(m) == \E i \in 1 .. m : \A j \in 1 .. m : ~Older(s[j], s[i])
           B == {m \in 1 .. n : ~Has(m)}
<1> SUFFICES ASSUME ~Has(n) PROVE FALSE
  OBVIOUS
<1>1. B \in SUBSET Nat /\ B # {}
  <2>1. n \in 1 .. n
    OBVIOUS
  <2> HIDE DEF Has
  <2>2. B \subseteq 1 .. n /\ n \in B
    BY <2>1
  <2> HIDE DEF B
  <2> QED
    BY <2>2
<1>2. PICK m \in B : \A k \in B : m <= k
  <2> HIDE DEF B
  <2> QED BY <1>1, LeastNatural
<1>3. m \in 1 .. n /\ ~Has(m)
  OBVIOUS
<1>31. \A k \in 1 .. n : ~Has(k) => m <= k
  <2> HIDE DEF Has
  <2> QED BY <1>2
<1>4. CASE m = 1
  <2>0. s[1] \in Ver
    <3>1. 1 \in 1 .. n
      OBVIOUS
    <3> QED BY <3>1
  <2>1. ~Older(s[1], s[1]) /\ 1 \in 1 .. m /\ \A j \in 1 .. m : j = 1
    BY <1>3, <1>4, <2>0, OlderIsOrder
  <2>2. Has(m)
    <3>1. ~Older(s[1], s[1])
      BY <2>1
    <3>2. \A j \in 1 .. m : ~Older(s[j], s[1])
      BY <2>1, <3>1
    <3> QED BY <2>1, <3>2
  <2> HIDE DEF Has
  <2> QED
    BY <1>3, <2>2
<1>5. CASE m # 1
  <2>1. m - 1 \in 1 .. n /\ m - 1 < m
    BY <1>3, <1>5
  <2>2. Has(m - 1)
    <3> HIDE DEF Has, B
    <3> QED BY <1>31, <1>3, <2>1
  <2>3. PICK i \in 1 .. (m - 1) : \A j \in 1 .. (m - 1) : ~Older(s[j], s[i])
    BY <2>2
  <2>4. \A j \in 1 .. m : j = m \/ j \in 1 .. (m - 1)
    BY <1>3
  <2>5. i \in 1 .. m /\ i \in 1 .. n /\ m \in 1 .. m
    BY <1>3
  <2>6. s[i] \in Ver /\ s[m] \in Ver /\ \A j \in 1 .. (m - 1) : s[j] \in Ver
    BY <1>3, <2>5
  <2> HIDE DEF Has, B
  <2>7. CASE Older(s[m], s[i])
    <3>1. ~Older(s[m], s[m])
      BY <2>6, OlderIsOrder
    <3>2. \A j \in 1 .. (m - 1) : ~Older(s[j], s[m])
      BY <2>3, <2>6, <2>7, OlderIsOrder
    <3>3. \A j \in 1 .. m : ~Older(s[j], s[m])
      BY <2>4, <3>1, <3>2
    <3> QED
      BY <1>3, <2>5, <3>3 DEF Has
  <2>8. CASE ~Older(s[m], s[i])
    <3>1. \A j \in 1 .. m : ~Older(s[j], s[i])
      BY <2>3, <2>4, <2>8
    <3> QED
      BY <1>3, <2>5, <3>1 DEF Has
  <2> QED
    BY <2>7, <2>8
<1> QED
  BY <1>4, <1>5

LEMMA OldestIsOldest ==
  ASSUME NEW S \in SUBSET Versions, S # {}
  PROVE  Oldest(S) \in S /\ \A w \in S : ~Older(w, Oldest(S))
<1>1. IsFiniteSet(S)
  BY FixPlanAssumption, FS_Subset
<1>2. PICK n \in Nat : ExistsBijection(1 .. n, S)
  BY <1>1, FS_NatBijection
<1>3. PICK s \in Bijection(1 .. n, S) : TRUE
  BY <1>2 DEF ExistsBijection
<1>4. s \in [1 .. n -> S] /\ \A v \in S : \E i \in 1 .. n : s[i] = v
  BY <1>3 DEF Bijection, Injection, Surjection
<1>5. n # 0
  BY <1>4
<1>6. s \in [1 .. n -> Ver]
  BY <1>4, VersionsAreVersions
<1>7. PICK i \in 1 .. n : \A j \in 1 .. n : ~Older(s[j], s[i])
  BY <1>5, <1>6, OldestOfMany
<1> DEFINE P(v) == v \in S /\ \A w \in S : ~Older(w, v)
<1>8. P(s[i])
  <2>1. \A w \in S : \E j \in 1 .. n : s[j] = w
    BY <1>4
  <2> QED
    BY <1>4, <1>7, <2>1
<1>9. P(CHOOSE v : P(v))
  <2> HIDE DEF P
  <2> QED BY <1>8, Zenon
<1>10. Oldest(S) = CHOOSE v : P(v)
  BY Zenon DEF Oldest
<1> QED
  BY <1>9, <1>10, Zenon

(* The way to a target. *)

ViasTyped == \A i \in DOMAIN rules : rules[i].via \in Versions \cup {Wild}

\* Nothing a rule wants to be stopped at is jumped over between v and x.
Obeys(v, x) ==
  \A i \in CoveringRules(v) : ~(rules[i].via # Wild /\ Older(v, rules[i].via) /\ Older(rules[i].via, x))

LEMMA StopsTyped ==
  ASSUME ViasTyped, NEW v, NEW t
  PROVE  /\ Stops(v, t) \in SUBSET Versions
         /\ \A x \in Stops(v, t) : Older(v, x) /\ Older(x, t) /\ \E i \in DOMAIN rules : rules[i].via = x
<1>1. \A i \in CoveringRules(v) : rules[i].via # Wild => rules[i].via \in Versions
  BY DEF ViasTyped, CoveringRules
<1>2. CoveringRules(v) \subseteq DOMAIN rules
  BY DEF CoveringRules
<1> QED
  BY <1>1, <1>2 DEF Stops

LEMMA NextStopClimbs ==
  ASSUME ViasTyped, NEW v \in Versions, NEW t \in Versions, Older(v, t)
  PROVE  /\ NextStop(v, t) \in Versions /\ Older(v, NextStop(v, t)) /\ Obeys(v, NextStop(v, t))
         /\ \/ NextStop(v, t) = t
            \/ Older(NextStop(v, t), t) /\ \E i \in DOMAIN rules : rules[i].via = NextStop(v, t)
<1> DEFINE x == NextStop(v, t)
<1>1. /\ Stops(v, t) \in SUBSET Versions
      /\ \A s \in Stops(v, t) : Older(v, s) /\ Older(s, t) /\ \E i \in DOMAIN rules : rules[i].via = s
  BY StopsTyped
<1>2. ASSUME NEW i \in CoveringRules(v), rules[i].via # Wild, Older(v, rules[i].via), Older(rules[i].via, t)
      PROVE  rules[i].via \in Stops(v, t)
  BY <1>2 DEF Stops
<1>3. CASE Stops(v, t) = {}
  <2>1. x = t
    BY <1>3 DEF NextStop
  <2>2. Obeys(v, t)
    BY <1>2, <1>3 DEF Obeys
  <2> QED
    BY <2>1, <2>2
<1>4. CASE Stops(v, t) # {}
  <2>1. x = Oldest(Stops(v, t))
    BY <1>4 DEF NextStop
  <2>2. x \in Stops(v, t) /\ \A s \in Stops(v, t) : ~Older(s, x)
    BY <1>1, <1>4, <2>1, OldestIsOldest
  <2>3. x \in Versions /\ Older(v, x) /\ Older(x, t) /\ \E i \in DOMAIN rules : rules[i].via = x
    BY <1>1, <2>2
  <2> HIDE DEF x
  <2>4. Obeys(v, x)
    <3> SUFFICES ASSUME NEW i \in CoveringRules(v), rules[i].via # Wild, Older(v, rules[i].via), Older(rules[i].via, x)
                 PROVE  FALSE
      BY DEF Obeys
    <3>1. rules[i].via \in Versions
      BY DEF ViasTyped, CoveringRules
    <3>2. Older(rules[i].via, t)
      BY <2>3, <3>1, VersionsAreVersions, OlderIsOrder
    <3> QED
      BY <1>2, <2>2, <3>2
  <2> QED
    BY <2>3, <2>4 DEF x
<1> QED
  BY <1>3, <1>4

\* One more hop.
Hop(p, n, t) == IF n > 1 /\ SameVersion(p[Len(p)], t) THEN p ELSE Append(p, NextStop(p[Len(p)], t))

LEMMA PathUnfolds ==
  ASSUME NEW v, NEW t
  PROVE  \E g : /\ DOMAIN g = 0 .. MaxHops /\ g[0] = <<v>> /\ \A n \in 1 .. MaxHops : g[n] = Hop(g[n - 1], n, t)
                /\ UpgradePath(v, t) = g[MaxHops]
<1> DEFINE Is(g, m) == g = [n \in 0 .. m |-> IF n = 0 THEN <<v>> ELSE Hop(g[n - 1], n, t)]
           B == {m \in 0 .. MaxHops : ~\E g : Is(g, m)}
<1>0. MaxHops \in Nat \ {0}
  BY FixPlanAssumption
<1>1. \E g : Is(g, MaxHops)
  <2> SUFFICES ASSUME ~\E g : Is(g, MaxHops) PROVE FALSE
    OBVIOUS
  <2>1. B \in SUBSET Nat /\ B # {}
    <3>1. MaxHops \in 0 .. MaxHops
      BY <1>0
    <3> HIDE DEF Is
    <3>2. B \subseteq 0 .. MaxHops /\ MaxHops \in B
      BY <3>1
    <3> HIDE DEF B
    <3> QED
      BY <3>2
  <2>2. PICK m \in B : \A k \in B : m <= k
    <3> HIDE DEF B
    <3> QED BY <2>1, LeastNatural
  <2>3. m \in 0 .. MaxHops /\ (~\E g : Is(g, m)) /\ \A k \in 0 .. MaxHops : (~\E g : Is(g, k)) => m <= k
    <3> HIDE DEF Is
    <3> QED BY <2>2
  <2>4. CASE m = 0
    <3> DEFINE h == [n \in 0 .. 0 |-> <<v>>]
    <3>1. h = [n \in 0 .. 0 |-> IF n = 0 THEN <<v>> ELSE Hop(h[n - 1], n, t)]
      OBVIOUS
    <3>2. Is(h, 0)
      BY <3>1
    <3> HIDE DEF Is, h
    <3> QED
      BY <2>3, <2>4, <3>2
  <2>5. CASE m # 0
    <3>1. m - 1 \in 0 .. MaxHops /\ m \in Nat /\ ~(m <= m - 1)
      BY <1>0, <2>3, <2>5
    <3>2. \E g : Is(g, m - 1)
      <4> HIDE DEF Is
      <4> QED BY <2>3, <3>1
    <3>3. PICK g : Is(g, m - 1)
      BY <3>2
    <3> DEFINE h == [n \in 0 .. m |-> IF n = m THEN Hop(g[m - 1], m, t) ELSE g[n]]
    <3>4. DOMAIN g = 0 .. (m - 1) /\ g[0] = <<v>> /\ \A n \in 0 .. (m - 1) : n # 0 => g[n] = Hop(g[n - 1], n, t)
      BY <2>5, <3>1, <3>3
    <3>5. \A n \in 0 .. m : h[n] = IF n = 0 THEN <<v>> ELSE Hop(h[n - 1], n, t)
      <4> TAKE n \in 0 .. m
      <4>1. CASE n = m
        <5>1. h[n - 1] = g[m - 1] /\ h[n] = Hop(g[m - 1], m, t) /\ n # 0
          BY <2>5, <3>1, <4>1
        <5> HIDE DEF h
        <5> QED
          BY <4>1, <5>1
      <4>2. CASE n # m /\ n # 0
        <5>1. h[n] = g[n] /\ n - 1 \in 0 .. m /\ n - 1 # m /\ n \in 0 .. (m - 1)
          BY <3>1, <4>2
        <5>2. h[n - 1] = g[n - 1]
          BY <5>1
        <5> HIDE DEF h
        <5> QED
          BY <3>4, <4>2, <5>1, <5>2
      <4>3. CASE n = 0
        BY <2>5, <3>4, <4>3
      <4> QED
        BY <4>1, <4>2, <4>3
    <3>6. DOMAIN h = 0 .. m /\ h = [n \in 0 .. m |-> h[n]]
      OBVIOUS
    <3> HIDE DEF h
    <3>7. Is(h, m)
      BY <3>5, <3>6
    <3> HIDE DEF Is
    <3> QED
      BY <2>3, <3>7
  <2> QED
    BY <2>4, <2>5
<1>2. Is(CHOOSE g : Is(g, MaxHops), MaxHops)
  <2> HIDE DEF Is
  <2> QED BY <1>1, Zenon
<1>3. UpgradePath(v, t) = (CHOOSE g : Is(g, MaxHops))[MaxHops]
  BY Zenon DEF UpgradePath, Hop
<1> DEFINE g == CHOOSE g : Is(g, MaxHops)
<1>4. Is(g, MaxHops)
  BY <1>2
<1>5. UpgradePath(v, t) = g[MaxHops]
  BY <1>3
<1> HIDE DEF g
<1>6. DOMAIN g = 0 .. MaxHops /\ g[0] = <<v>> /\ \A n \in 1 .. MaxHops : g[n] = Hop(g[n - 1], n, t)
  BY <1>0, <1>4
<1> QED
  BY <1>5, <1>6

\* The rules that may stop whoever is at x.
Ahead(x) == {i \in DOMAIN rules : rules[i].via # Wild /\ Older(x, rules[i].via)}

\* What is a way towards t after n hops.
Leads(p, n, t) ==
  /\ p \in Seq(Versions) /\ Len(p) >= 1
  /\ \A k \in 1 .. (Len(p) - 1) : Older(p[k], p[k + 1]) /\ Obeys(p[k], p[k + 1])
  /\ \/ p[Len(p)] = t
     \/ Older(p[Len(p)], t) /\ Cardinality(Ahead(p[Len(p)])) + n <= Len(rules)

LEMMA AheadShrinks ==
  ASSUME ViasTyped, Len(rules) \in Nat, DOMAIN rules = 1 .. Len(rules),
         NEW v \in Versions, NEW x \in Versions, Older(v, x), \E i \in DOMAIN rules : rules[i].via = x
  PROVE  /\ Cardinality(Ahead(x)) \in Nat /\ Cardinality(Ahead(v)) \in Nat
         /\ Cardinality(Ahead(x)) + 1 <= Cardinality(Ahead(v))
<1>1. PICK i \in DOMAIN rules : rules[i].via = x
  OBVIOUS
<1>2. IsFiniteSet(DOMAIN rules)
  BY FS_Interval
<1>3. Ahead(v) \subseteq DOMAIN rules /\ Ahead(x) \subseteq DOMAIN rules
  BY DEF Ahead
<1>4. IsFiniteSet(Ahead(v)) /\ IsFiniteSet(Ahead(x))
  BY <1>2, <1>3, FS_Subset
<1>5. Cardinality(Ahead(x)) \in Nat /\ Cardinality(Ahead(v)) \in Nat
  BY <1>4, FS_CardinalityType
<1>6. x # Wild
  BY FixPlanAssumption
<1>7. i \in Ahead(v) /\ i \notin Ahead(x)
  BY <1>1, <1>6, VersionsAreVersions, OlderIsOrder DEF Ahead
<1>8. Ahead(x) \subseteq Ahead(v)
  <2> SUFFICES ASSUME NEW j \in Ahead(x) PROVE j \in Ahead(v)
    OBVIOUS
  <2>1. j \in DOMAIN rules /\ rules[j].via # Wild /\ Older(x, rules[j].via)
    BY DEF Ahead
  <2>2. rules[j].via \in Versions
    BY <2>1 DEF ViasTyped
  <2>3. Older(v, rules[j].via)
    BY <2>1, <2>2, VersionsAreVersions, OlderIsOrder
  <2> QED
    BY <2>1, <2>3 DEF Ahead
<1>9. Cardinality(Ahead(x) \cup {i}) = Cardinality(Ahead(x)) + 1 /\ Ahead(x) \cup {i} \subseteq Ahead(v)
  BY <1>4, <1>7, <1>8, FS_AddElement
<1>10. Cardinality(Ahead(x) \cup {i}) <= Cardinality(Ahead(v))
  BY <1>4, <1>9, FS_Subset
<1> QED
  BY <1>5, <1>9, <1>10

LEMMA HopLeads ==
  ASSUME ViasTyped, Len(rules) \in Nat, DOMAIN rules = 1 .. Len(rules),
         NEW t \in Versions, NEW n \in Nat \ {0}, NEW p, Leads(p, n - 1, t),
         n = 1 => Older(p[Len(p)], t)
  PROVE  Leads(Hop(p, n, t), n, t)
<1> DEFINE l == p[Len(p)]
           x == NextStop(l, t)
           q == Append(p, x)
<1>1. p \in Seq(Versions) /\ Len(p) \in Nat /\ Len(p) >= 1 /\ l \in Versions
  <2>1. p \in Seq(Versions) /\ Len(p) \in Nat /\ Len(p) >= 1
    BY LenProperties DEF Leads
  <2>2. Len(p) \in 1 .. Len(p)
    BY <2>1
  <2> QED
    BY <2>1, <2>2, ElementOfSeq
<1>2. l = t => SameVersion(l, t) /\ ~Older(l, t)
  BY <1>1, VersionsAreVersions, OlderIsOrder
<1>3. Older(l, t) => ~SameVersion(l, t)
  BY DEF SameVersion
<1>4. CASE l = t
  <2>1. n > 1 /\ SameVersion(l, t)
    BY <1>2, <1>4
  <2>2. Hop(p, n, t) = p
    BY <2>1 DEF Hop
  <2> QED
    BY <1>4, <2>2 DEF Leads
<1>5. CASE l # t
  <2>1. Older(l, t) /\ Cardinality(Ahead(l)) + (n - 1) <= Len(rules)
    BY <1>5 DEF Leads
  <2>2. Hop(p, n, t) = q
    BY <1>3, <2>1 DEF Hop
  <2>3. /\ x \in Versions /\ Older(l, x) /\ Obeys(l, x)
        /\ \/ x = t
           \/ Older(x, t) /\ \E i \in DOMAIN rules : rules[i].via = x
    BY <1>1, <2>1, NextStopClimbs
  <2> HIDE DEF x
  <2>4. /\ q \in Seq(Versions) /\ Len(q) = Len(p) + 1 /\ q[Len(p) + 1] = x
        /\ \A k \in 1 .. Len(p) : q[k] = p[k]
    BY <1>1, <2>3, AppendProperties
  <2> HIDE DEF q
  <2>5. \A k \in 1 .. (Len(q) - 1) : Older(q[k], q[k + 1]) /\ Obeys(q[k], q[k + 1])
    <3> TAKE k \in 1 .. (Len(q) - 1)
    <3>1. k \in 1 .. Len(p) /\ q[k] = p[k]
      BY <1>1, <2>4
    <3>2. CASE k = Len(p)
      <4>1. q[k] = l /\ q[k + 1] = x
        BY <2>4, <3>1, <3>2
      <4> QED
        BY <2>3, <4>1
    <3>3. CASE k # Len(p)
      <4>1. k \in 1 .. (Len(p) - 1) /\ k + 1 \in 1 .. Len(p)
        BY <1>1, <3>1, <3>3
      <4>2. q[k + 1] = p[k + 1] /\ Older(p[k], p[k + 1]) /\ Obeys(p[k], p[k + 1])
        BY <2>4, <4>1 DEF Leads
      <4> QED
        BY <3>1, <4>2
    <3> QED
      BY <3>2, <3>3
  <2>6. q[Len(q)] = x
    BY <2>4
  <2>7. x = t \/ (Older(x, t) /\ Cardinality(Ahead(x)) + n <= Len(rules))
    <3>1. ASSUME Older(x, t), \E i \in DOMAIN rules : rules[i].via = x
          PROVE  Cardinality(Ahead(x)) + n <= Len(rules)
      <4>1. /\ Cardinality(Ahead(x)) \in Nat /\ Cardinality(Ahead(l)) \in Nat
            /\ Cardinality(Ahead(x)) + 1 <= Cardinality(Ahead(l))
        BY <1>1, <2>3, <3>1, AheadShrinks
      <4> QED
        BY <2>1, <4>1
    <3> QED
      BY <2>3, <3>1
  <2>8. Len(q) >= 1
    BY <1>1, <2>4
  <2>9. Leads(q, n, t)
    BY <2>4, <2>5, <2>6, <2>7, <2>8 DEF Leads
  <2> QED
    BY <2>2, <2>9
<1> QED
  BY <1>4, <1>5

LEMMA PathLeads ==
  ASSUME ViasTyped, Len(rules) \in Nat, DOMAIN rules = 1 .. Len(rules),
         NEW v \in Versions, NEW t \in Versions, Older(v, t)
  PROVE  Leads(UpgradePath(v, t), MaxHops, t)
<1>0. MaxHops \in Nat \ {0}
  BY FixPlanAssumption
<1>1. PICK g : /\ DOMAIN g = 0 .. MaxHops /\ g[0] = <<v>> /\ \A n \in 1 .. MaxHops : g[n] = Hop(g[n - 1], n, t)
               /\ UpgradePath(v, t) = g[MaxHops]
  BY PathUnfolds
<1>2. g[0] \in Seq(Versions) /\ Len(g[0]) = 1 /\ g[0][Len(g[0])] = v
  BY <1>1
<1>3. Leads(g[0], 0, t)
  <2>1. Ahead(v) \subseteq DOMAIN rules
    BY DEF Ahead
  <2>2. IsFiniteSet(DOMAIN rules) /\ Cardinality(DOMAIN rules) = Len(rules)
    <3>1. IsFiniteSet(1 .. Len(rules)) /\ Cardinality(1 .. Len(rules)) = IF 1 > Len(rules) THEN 0 ELSE Len(rules) - 1 + 1
      BY FS_Interval
    <3> QED
      BY <3>1
  <2>3. Cardinality(Ahead(v)) <= Len(rules) /\ Cardinality(Ahead(v)) \in Nat
    BY <2>1, <2>2, FS_Subset, FS_CardinalityType
  <2>4. Cardinality(Ahead(v)) + 0 <= Len(rules)
    BY <2>3
  <2>5. 1 .. (Len(g[0]) - 1) = {}
    BY <1>2
  <2> QED
    BY <1>2, <2>4, <2>5 DEF Leads
<1> DEFINE B == {n \in 0 .. MaxHops : ~Leads(g[n], n, t)}
<1>4. B = {}
  <2> SUFFICES ASSUME B # {} PROVE FALSE
    OBVIOUS
  <2>1. B \in SUBSET Nat
    BY <1>0
  <2>2. PICK m \in B : \A k \in B : m <= k
    <3> HIDE DEF B
    <3> QED BY <2>1, LeastNatural
  <2>3. m \in 0 .. MaxHops /\ ~Leads(g[m], m, t) /\ \A k \in 0 .. MaxHops : ~Leads(g[k], k, t) => m <= k
    BY <2>2
  <2>4. m # 0
    BY <1>3, <2>3
  <2>5. m \in 1 .. MaxHops /\ m - 1 \in 0 .. MaxHops /\ ~(m <= m - 1) /\ m \in Nat \ {0}
    BY <1>0, <2>3, <2>4
  <2>6. Leads(g[m - 1], m - 1, t)
    BY <2>3, <2>5
  <2>7. m = 1 => Older(g[m - 1][Len(g[m - 1])], t)
    BY <1>2
  <2>8. g[m] = Hop(g[m - 1], m, t)
    BY <1>1, <2>5
  <2>9. Leads(Hop(g[m - 1], m, t), m, t)
    BY <2>5, <2>6, <2>7, HopLeads
  <2> QED
    BY <2>3, <2>8, <2>9
<1>5. MaxHops \in 0 .. MaxHops
  BY <1>0
<1> QED
  BY <1>1, <1>4, <1>5

\* The way arrives, when the rules are fewer than the hops it may have.
LEMMA PathsArrive ==
  ASSUME ViasTyped, Len(rules) \in Nat, DOMAIN rules = 1 .. Len(rules), Len(rules) <= MaxRules, MaxRules < MaxHops
  PROVE  PathsObeyTheRules
<1> SUFFICES ASSUME NEW v \in Versions, NEW t \in Versions, Older(v, t)
             PROVE  LET path == UpgradePath(v, t)
                        last == Len(path)
                    IN  /\ SameVersion(path[last], t)
                        /\ \A n \in 1 .. (last - 1) :
                             /\ Older(path[n], path[n + 1])
                             /\ \A i \in CoveringRules(path[n]) :
                                  ~(rules[i].via # Wild /\ Older(path[n], rules[i].via) /\ Older(rules[i].via, path[n + 1]))
  BY DEF PathsObeyTheRules
<1> DEFINE p == UpgradePath(v, t)
<1>1. Leads(p, MaxHops, t)
  BY PathLeads
<1> HIDE DEF p
<1>2. p[Len(p)] = t
  <2>1. MaxRules \in Nat /\ MaxHops \in Nat
    BY FixPlanAssumption
  <2>2. \A x : Cardinality(Ahead(x)) \in Nat
    <3> TAKE x
    <3>1. Ahead(x) \subseteq DOMAIN rules /\ IsFiniteSet(DOMAIN rules)
      BY FS_Interval DEF Ahead
    <3> QED
      BY <3>1, FS_Subset, FS_CardinalityType
  <2>3. Cardinality(Ahead(p[Len(p)])) \in Nat
    BY <2>2
  <2>4. ~(Cardinality(Ahead(p[Len(p)])) + MaxHops <= Len(rules))
    BY <2>1, <2>3
  <2> QED
    BY <1>1, <2>4 DEF Leads
<1>3. SameVersion(p[Len(p)], t)
  BY <1>2, VersionsAreVersions, OlderIsOrder
<1>4. \A n \in 1 .. (Len(p) - 1) : Older(p[n], p[n + 1]) /\ Obeys(p[n], p[n + 1])
  BY <1>1 DEF Leads
<1> QED
  BY <1>3, <1>4 DEF p, Obeys

(* Plans and rules. *)

\* A flaw hits a version when it hits the same one.
LEMMA HitsAreCongruent ==
  ASSUME published \in [Flaws -> Knowledge], NEW c \in Flaws, NEW v \in Versions, NEW w \in Versions, SameVersion(v, w),
         Hits(c, v)
  PROVE  Hits(c, w)
<1>1. PICK r \in published[c].ranges : Covers(r, v)
  BY DEF Hits
<1>2. published[c] \in [ranges : SUBSET VersionRange, advised : SUBSET Versions]
  BY FixPlanAssumption
<1>3. r \in VersionRange
  BY <1>2
<1>4. /\ r.pinned \in Versions \cup {Wild} /\ r.lower.at \in Versions \cup {Wild} /\ r.upper.at \in Versions \cup {Wild}
  BY <1>3 DEF VersionRange, VersionBound
<1>5. v \in Ver /\ w \in Ver /\ w # Wild
  BY VersionsAreVersions, FixPlanAssumption
<1>6. CASE r.pinned # Wild
  <2>1. SameVersion(v, r.pinned) /\ r.pinned \in Ver
    BY <1>1, <1>4, <1>6, VersionsAreVersions DEF Covers
  <2>2. SameVersion(w, r.pinned)
    BY <1>5, <2>1, SameIsCongruent
  <2> QED
    BY <1>1, <1>5, <1>6, <2>2 DEF Covers, Hits
<1>7. CASE r.pinned = Wild
  <2>1. Above(v, r.lower) /\ Below(v, r.upper)
    BY <1>1, <1>7 DEF Covers, InRange
  <2>2. Above(w, r.lower)
    <3>1. CASE r.lower.at = Wild
      BY <3>1 DEF Above
    <3>2. CASE r.lower.at # Wild
      <4>1. r.lower.at \in Ver
        BY <1>4, <3>2, VersionsAreVersions
      <4> QED
        BY <1>5, <2>1, <4>1, SameIsCongruent DEF Above
    <3> QED
      BY <3>1, <3>2
  <2>3. Below(w, r.upper)
    <3>1. CASE r.upper.at = Wild
      BY <3>1 DEF Below
    <3>2. CASE r.upper.at # Wild
      <4>1. r.upper.at \in Ver
        BY <1>4, <3>2, VersionsAreVersions
      <4> QED
        BY <1>5, <2>1, <4>1, SameIsCongruent DEF Below
    <3> QED
      BY <3>1, <3>2
  <2> QED
    BY <1>1, <1>5, <1>7, <2>2, <2>3 DEF Covers, InRange, Hits
<1> QED
  BY <1>6, <1>7

Rule == [exists : BOOLEAN, lower : VersionBound, upper : VersionBound, via : Versions \cup {Wild}, note : BOOLEAN]

\* A request has read a rule that nobody else changes, unless its crossing is noted.
Reads(e) ==
  LET i == editor[e].rule
  IN  /\ i \in DOMAIN rules /\ editor[e].saw \in Rule /\ editor[e].patch \in Patches
      /\ \/ crossed[i]
         \/ /\ \A d \in Editors \ {e} : editor[d].rule # i
            /\ rules[i].exists => rules[i] = editor[e].saw
            /\ Sane(Merged(editor[e].saw, editor[e].patch))

EditsInv ==
  /\ rules \in Seq(Rule) /\ Len(rules) <= MaxRules /\ crossed \in Seq(BOOLEAN) /\ Len(crossed) = Len(rules)
  /\ editor \in [Editors -> [rule : Nat, saw : Rule \cup {<<>>}, patch : Patches \cup {<<>>}]]
  /\ \A e \in Editors : editor[e] = Idle \/ Reads(e)
  /\ RulesAreSane

PlanInv ==
  /\ published \in [Flaws -> Knowledge] /\ installed \in Versions \cup {Wild} /\ opened \in SUBSET Flaws
  /\ plan \in [target : Versions \cup {Wild}, fixes : SUBSET Flaws]
  /\ plan.target # Wild => \A c \in plan.fixes : ~Hits(c, plan.target)

\* The inductive invariant.
FixInv == EditsInv /\ PlanInv

LEMMA RulesIndexed ==
  ASSUME EditsInv
  PROVE  /\ Len(rules) \in Nat /\ DOMAIN rules = 1 .. Len(rules) /\ DOMAIN crossed = DOMAIN rules
         /\ \A i \in DOMAIN rules : rules[i] \in Rule /\ crossed[i] \in BOOLEAN /\ i # 0
         /\ ViasTyped
<1>1. /\ Len(rules) \in Nat /\ DOMAIN rules = 1 .. Len(rules)
      /\ Len(crossed) \in Nat /\ DOMAIN crossed = 1 .. Len(crossed)
  BY LenProperties DEF EditsInv
<1>2. \A i \in DOMAIN rules : rules[i] \in Rule /\ crossed[i] \in BOOLEAN /\ i # 0
  BY <1>1, ElementOfSeq DEF EditsInv
<1>3. ViasTyped
  BY <1>2 DEF ViasTyped, Rule
<1> QED
  BY <1>1, <1>2, <1>3 DEF EditsInv

LEMMA EditsStand ==
  ASSUME EditsInv, UNCHANGED <<rules, editor, crossed>>
  PROVE  EditsInv'
<1>1. \A e \in Editors : editor'[e] = Idle \/ Reads(e)'
  BY DEF EditsInv, Reads
<1>2. RulesAreSane'
  BY DEF EditsInv, RulesAreSane
<1> QED
  BY <1>1, <1>2 DEF EditsInv

LEMMA PlanStands ==
  ASSUME PlanInv, UNCHANGED <<published, plan>>, installed' \in Versions \cup {Wild}, opened' \in SUBSET Flaws
  PROVE  PlanInv'
<1>1. \A c : Hits(c, plan.target)' <=> Hits(c, plan.target)
  BY DEF Hits
<1> QED
  BY <1>1 DEF PlanInv

LEMMA FixInitially ==
  ASSUME FixInit
  PROVE  FixInv
<1>1. MaxRules \in Nat /\ Len(<<>>) = 0 /\ DOMAIN <<>> = {}
  BY FixPlanAssumption
<1>2. EditsInv
  <2>1. editor \in [Editors -> [rule : Nat, saw : Rule \cup {<<>>}, patch : Patches \cup {<<>>}]]
    BY DEF FixInit, Idle
  <2>2. \A e \in Editors : editor[e] = Idle
    BY DEF FixInit
  <2>3. RulesAreSane
    BY <1>1 DEF FixInit, RulesAreSane
  <2>4. rules \in Seq(Rule) /\ crossed \in Seq(BOOLEAN) /\ rules = <<>> /\ crossed = <<>>
    BY DEF FixInit
  <2> QED
    BY <1>1, <2>1, <2>2, <2>3, <2>4 DEF EditsInv
<1>3. PlanInv
  BY DEF FixInit, PlanInv
<1> QED
  BY <1>2, <1>3 DEF FixInv

LEMMA CreateRuleKeepsFix ==
  ASSUME FixInv, CreateRule
  PROVE  FixInv'
<1>1. PICK d \in Drafts :
        /\ Len(rules) < MaxRules /\ Sane(d)
        /\ rules' = Append(rules, [exists |-> TRUE, lower |-> d.lower, upper |-> d.upper, via |-> d.via, note |-> d.note])
        /\ crossed' = Append(crossed, FALSE)
        /\ UNCHANGED <<editor, published, installed, opened, plan>>
  BY DEF CreateRule
<1> DEFINE r == [exists |-> TRUE, lower |-> d.lower, upper |-> d.upper, via |-> d.via, note |-> d.note]
<1>2. d \in [lower : VersionBound, upper : VersionBound, via : Versions \cup {Wild}, note : BOOLEAN]
  BY FixPlanAssumption
<1>3. r \in Rule
  BY <1>2 DEF Rule
<1>4. Sane(r)
  <2>1. r.lower = d.lower /\ r.upper = d.upper /\ r.via = d.via /\ r.note = d.note
    OBVIOUS
  <2> HIDE DEF r
  <2> QED
    BY <1>1, <2>1 DEF Sane
<1>5. rules' = Append(rules, r)
  BY <1>1
<1> HIDE DEF r
<1>6. EditsInv
  BY DEF FixInv
<1>7. /\ Len(rules) \in Nat /\ DOMAIN rules = 1 .. Len(rules) /\ DOMAIN crossed = DOMAIN rules
  BY <1>6, RulesIndexed
<1>8. /\ rules' \in Seq(Rule) /\ Len(rules') = Len(rules) + 1 /\ rules'[Len(rules) + 1] = r
      /\ \A i \in DOMAIN rules : rules'[i] = rules[i]
  BY <1>3, <1>5, <1>6, <1>7, AppendProperties DEF EditsInv
<1>9. /\ crossed' \in Seq(BOOLEAN) /\ Len(crossed') = Len(rules) + 1
      /\ \A i \in DOMAIN rules : crossed'[i] = crossed[i]
  <2>1. PICK z \in BOOLEAN : crossed' = Append(crossed, z)
    BY <1>1
  <2>2. crossed \in Seq(BOOLEAN) /\ Len(crossed) = Len(rules)
    BY <1>6 DEF EditsInv
  <2> QED
    BY <1>7, <2>1, <2>2, AppendProperties
<1>10. DOMAIN rules' = DOMAIN rules \cup {Len(rules) + 1}
  BY <1>7, <1>8, LenProperties
<1>11. RulesAreSane'
  <2> SUFFICES ASSUME NEW i \in DOMAIN rules', rules'[i].exists PROVE Sane(rules'[i]) \/ crossed'[i]
    BY DEF RulesAreSane
  <2>1. CASE i \in DOMAIN rules
    BY <1>6, <1>8, <1>9, <2>1 DEF EditsInv, RulesAreSane
  <2>2. CASE i = Len(rules) + 1
    BY <1>4, <1>8, <2>2
  <2> QED
    BY <1>10, <2>1, <2>2
<1>12. ASSUME NEW e \in Editors, editor[e] # Idle PROVE Reads(e)'
  <2>1. Reads(e)
    BY <1>6, <1>12 DEF EditsInv
  <2>2. /\ editor[e].rule \in DOMAIN rules' /\ rules'[editor[e].rule] = rules[editor[e].rule]
        /\ crossed'[editor[e].rule] = crossed[editor[e].rule]
    BY <1>8, <1>9, <1>10, <2>1 DEF Reads
  <2> QED
    BY <1>1, <2>1, <2>2 DEF Reads
<1>13. EditsInv'
  <2>1. Len(rules') <= MaxRules
    BY <1>1, <1>7, <1>8, FixPlanAssumption
  <2> QED
    BY <1>1, <1>6, <1>8, <1>9, <1>11, <1>12, <2>1 DEF EditsInv
<1>14. PlanInv'
  BY <1>1, PlanStands DEF FixInv, PlanInv
<1> QED
  BY <1>13, <1>14 DEF FixInv

LEMMA DeleteRuleKeepsFix ==
  ASSUME FixInv, DeleteRule
  PROVE  FixInv'
<1>1. PICK i \in DOMAIN rules :
        rules' = [rules EXCEPT ![i].exists = FALSE] /\ UNCHANGED <<editor, published, installed, opened, plan, crossed>>
  BY DEF DeleteRule
<1>2. EditsInv
  BY DEF FixInv
<1>3. /\ Len(rules) \in Nat /\ DOMAIN rules = 1 .. Len(rules)
      /\ \A j \in DOMAIN rules : rules[j] \in Rule
  BY <1>2, RulesIndexed
<1> DEFINE r == [rules[i] EXCEPT !.exists = FALSE]
<1>4. r \in Rule /\ ~r.exists
  BY <1>3 DEF Rule
<1>5. rules' = [rules EXCEPT ![i] = r]
  BY <1>1, <1>3
<1> HIDE DEF r
<1>6. rules' \in Seq(Rule) /\ DOMAIN rules' = DOMAIN rules /\ Len(rules') = Len(rules)
      /\ rules'[i] = r /\ \A j \in DOMAIN rules \ {i} : rules'[j] = rules[j]
  BY <1>2, <1>3, <1>4, <1>5, ExceptSeq DEF EditsInv
<1>7. RulesAreSane'
  BY <1>1, <1>2, <1>4, <1>6 DEF EditsInv, RulesAreSane
<1>8. ASSUME NEW e \in Editors, editor[e] # Idle PROVE Reads(e)'
  <2>1. Reads(e)
    BY <1>2, <1>8 DEF EditsInv
  <2>2. rules'[editor[e].rule].exists => rules'[editor[e].rule] = rules[editor[e].rule]
    BY <1>4, <1>6, <2>1 DEF Reads
  <2> QED
    BY <1>1, <1>6, <2>1, <2>2 DEF Reads
<1>9. EditsInv'
  BY <1>1, <1>2, <1>6, <1>7, <1>8 DEF EditsInv
<1>10. PlanInv'
  BY <1>1, PlanStands DEF FixInv, PlanInv
<1> QED
  BY <1>9, <1>10 DEF FixInv

LEMMA PatchBeginsKeepsFix ==
  ASSUME FixInv, NEW e \in Editors, PatchBegins(e)
  PROVE  FixInv'
<1>1. PICK i \in DOMAIN rules, p \in Patches :
        /\ editor[e] = Idle /\ rules[i].exists /\ Sane(Merged(rules[i], p))
        /\ editor' = [editor EXCEPT ![e] = [rule |-> i, saw |-> rules[i], patch |-> p]]
        /\ crossed' = [crossed EXCEPT ![i] = @ \/ \E d \in Editors : editor[d].rule = i]
        /\ UNCHANGED <<rules, published, installed, opened, plan>>
  BY DEF PatchBegins
<1>2. EditsInv
  BY DEF FixInv
<1>3. /\ Len(rules) \in Nat /\ DOMAIN rules = 1 .. Len(rules) /\ DOMAIN crossed = DOMAIN rules
      /\ \A j \in DOMAIN rules : rules[j] \in Rule /\ crossed[j] \in BOOLEAN /\ j # 0
  BY <1>2, RulesIndexed
<1>4. editor \in [Editors -> [rule : Nat, saw : Rule \cup {<<>>}, patch : Patches \cup {<<>>}]] /\ crossed \in Seq(BOOLEAN)
      /\ Len(crossed) = Len(rules)
  BY <1>2 DEF EditsInv
<1> DEFINE x == [rule |-> i, saw |-> rules[i], patch |-> p]
<1>5. x \in [rule : Nat, saw : Rule \cup {<<>>}, patch : Patches \cup {<<>>}] /\ x.rule = i /\ x.saw = rules[i] /\ x.patch = p
  BY <1>3
<1>6. editor' = [editor EXCEPT ![e] = x]
  BY <1>1
<1> HIDE DEF x
<1>7. editor'[e] = x /\ \A d \in Editors \ {e} : editor'[d] = editor[d]
  BY <1>4, <1>6
<1>8. editor' \in [Editors -> [rule : Nat, saw : Rule \cup {<<>>}, patch : Patches \cup {<<>>}]]
  BY <1>4, <1>5, <1>6
<1>9. PICK b \in BOOLEAN : b <=> (crossed[i] \/ \E d \in Editors : editor[d].rule = i)
  <2>1. (crossed[i] \/ \E d \in Editors : editor[d].rule = i) \in BOOLEAN
    OBVIOUS
  <2> QED
    BY <2>1
<1>10. crossed' = [crossed EXCEPT ![i] = b]
  <2>1. (crossed[i] \/ \E d \in Editors : editor[d].rule = i) = b
    BY <1>9
  <2> QED
    BY <1>1, <1>3, <2>1
<1>11. crossed' \in Seq(BOOLEAN) /\ Len(crossed') = Len(rules) /\ crossed'[i] = b
       /\ \A j \in DOMAIN rules \ {i} : crossed'[j] = crossed[j]
  BY <1>3, <1>4, <1>10, ExceptSeq
<1>12. \A j \in DOMAIN rules : crossed[j] => crossed'[j]
  BY <1>9, <1>11
<1>13. RulesAreSane'
  BY <1>1, <1>2, <1>12 DEF EditsInv, RulesAreSane
<1>14. Reads(e)'
  <2>1. CASE b
    <3>1. crossed'[i]
      BY <1>11, <2>1
    <3>2. editor'[e].rule = i /\ editor'[e].saw \in Rule /\ editor'[e].patch \in Patches /\ i \in DOMAIN rules'
      BY <1>1, <1>3, <1>5, <1>7
    <3> QED
      BY <3>1, <3>2 DEF Reads
  <2>2. CASE ~b
    <3>1. \A d \in Editors \ {e} : editor'[d].rule # i
      BY <1>7, <1>9, <2>2
    <3> QED
      BY <1>1, <1>3, <1>5, <1>7, <3>1 DEF Reads
  <2> QED
    BY <2>1, <2>2
<1>15. ASSUME NEW d \in Editors, d # e, editor[d] # Idle PROVE Reads(d)'
  <2>1. Reads(d) /\ editor'[d] = editor[d]
    BY <1>2, <1>7, <1>15 DEF EditsInv
  <2>2. CASE editor[d].rule = i
    <3>1. b
      BY <1>9, <2>2
    <3> QED
      BY <1>1, <1>11, <2>1, <2>2, <3>1 DEF Reads
  <2>3. CASE editor[d].rule # i
    <3>1. crossed'[editor[d].rule] = crossed[editor[d].rule]
      BY <1>11, <2>1, <2>3 DEF Reads
    <3>2. \A c \in Editors \ {d} : editor[c].rule # editor[d].rule => editor'[c].rule # editor[d].rule
      BY <1>5, <1>7, <2>3
    <3> QED
      BY <1>1, <2>1, <3>1, <3>2 DEF Reads
  <2> QED
    BY <2>2, <2>3
<1>16. \A d \in Editors : editor'[d] = Idle \/ Reads(d)'
  BY <1>7, <1>14, <1>15
<1>17. EditsInv'
  BY <1>1, <1>2, <1>8, <1>11, <1>13, <1>16 DEF EditsInv
<1>18. PlanInv'
  BY <1>1, PlanStands DEF FixInv, PlanInv
<1> QED
  BY <1>17, <1>18 DEF FixInv

\* A rule that is read, patched and written stays a rule.
LEMMA MergedIsRule ==
  ASSUME NEW saw \in Rule, NEW p \in Patches
  PROVE  Merged(saw, p) \in Rule
<1> DEFINE m == Merged(saw, p)
           fields == {"exists", "lower", "upper", "via", "note"}
<1>1. DOMAIN saw = fields
  BY DEF Rule
<1>2. m = [f \in fields |-> IF f \in DOMAIN p THEN p[f] ELSE saw[f]]
  BY <1>1 DEF Merged
<1>3. /\ DOMAIN p \subseteq {"lower", "upper", "via", "note"} /\ ("note" \in DOMAIN p => p["note"] \in BOOLEAN)
      /\ \A f \in DOMAIN p \cap {"lower", "upper"} : p[f] \in VersionBound
      /\ "via" \in DOMAIN p => p["via"] \in Versions \cup {Wild}
  BY FixPlanAssumption
<1>4. /\ saw["exists"] \in BOOLEAN /\ saw["lower"] \in VersionBound /\ saw["upper"] \in VersionBound
      /\ saw["via"] \in Versions \cup {Wild} /\ saw["note"] \in BOOLEAN
  BY DEF Rule
<1>5. m["exists"] \in BOOLEAN
  <2>1. m["exists"] = saw["exists"]
    BY <1>2, <1>3
  <2> QED
    BY <1>4, <2>1
<1>6. m["note"] \in BOOLEAN
  <2>1. CASE "note" \in DOMAIN p
    <3>1. m["note"] = p["note"]
      BY <1>2, <2>1
    <3> QED
      BY <1>3, <2>1, <3>1
  <2>2. CASE "note" \notin DOMAIN p
    <3>1. m["note"] = saw["note"]
      BY <1>2, <2>2
    <3> QED
      BY <1>4, <3>1
  <2> QED
    BY <2>1, <2>2
<1>7. m["lower"] \in VersionBound /\ m["upper"] \in VersionBound /\ m["via"] \in Versions \cup {Wild}
  BY <1>2, <1>3, <1>4
<1>8. m = [f \in fields |-> m[f]]
  BY <1>2
<1> HIDE DEF m
<1> QED
  BY <1>5, <1>6, <1>7, <1>8 DEF m, Rule

\* Columns of two rules together are a rule.
LEMMA MixedIsRule ==
  ASSUME NEW r \in Rule, NEW s \in Rule, NEW D
  PROVE  [f \in DOMAIN r |-> IF f \in D THEN s[f] ELSE r[f]] \in Rule
<1> DEFINE fields == {"exists", "lower", "upper", "via", "note"}
           m == [f \in DOMAIN r |-> IF f \in D THEN s[f] ELSE r[f]]
<1>1. DOMAIN r = fields
  BY DEF Rule
<1>2. m = [f \in fields |-> m[f]] /\ \A f \in fields : m[f] = s[f] \/ m[f] = r[f]
  BY <1>1
<1>3. /\ r["exists"] \in BOOLEAN /\ r["lower"] \in VersionBound /\ r["upper"] \in VersionBound
      /\ r["via"] \in Versions \cup {Wild} /\ r["note"] \in BOOLEAN
  BY DEF Rule
<1>4. /\ s["exists"] \in BOOLEAN /\ s["lower"] \in VersionBound /\ s["upper"] \in VersionBound
      /\ s["via"] \in Versions \cup {Wild} /\ s["note"] \in BOOLEAN
  BY DEF Rule
<1> HIDE DEF m
<1>5. m["exists"] \in BOOLEAN
  BY <1>2, <1>3, <1>4, Zenon
<1>6. m["note"] \in BOOLEAN
  BY <1>2, <1>3, <1>4, Zenon
<1>7. m["lower"] \in VersionBound /\ m["upper"] \in VersionBound /\ m["via"] \in Versions \cup {Wild}
  BY <1>2, <1>3, <1>4
<1>8. m \in Rule
  BY <1>2, <1>5, <1>6, <1>7 DEF Rule
<1> QED
  BY <1>8 DEF m

LEMMA PatchEndsKeepsFix ==
  ASSUME FixInv, NEW e \in Editors, PatchEnds(e)
  PROVE  FixInv'
<1> DEFINE i == editor[e].rule
           saw == editor[e].saw
           after == Merged(saw, editor[e].patch)
<1>1. /\ editor[e] # Idle /\ editor' = [editor EXCEPT ![e] = Idle]
      /\ UNCHANGED <<published, installed, opened, plan, crossed>>
  BY DEF PatchEnds
<1>2. EditsInv
  BY DEF FixInv
<1>3. Reads(e)
  BY <1>1, <1>2 DEF EditsInv
<1>4. /\ Len(rules) \in Nat /\ DOMAIN rules = 1 .. Len(rules) /\ DOMAIN crossed = DOMAIN rules
      /\ \A j \in DOMAIN rules : rules[j] \in Rule /\ j # 0
  BY <1>2, RulesIndexed
<1>5. i \in DOMAIN rules /\ saw \in Rule /\ after \in Rule
  BY <1>3, MergedIsRule DEF Reads
<1>6. /\ editor' \in [Editors -> [rule : Nat, saw : Rule \cup {<<>>}, patch : Patches \cup {<<>>}]]
      /\ editor'[e] = Idle /\ \A d \in Editors \ {e} : editor'[d] = editor[d]
  BY <1>1, <1>2 DEF EditsInv, Idle
<1>7. /\ rules' \in Seq(Rule) /\ DOMAIN rules' = DOMAIN rules /\ Len(rules') = Len(rules)
      /\ \A j \in DOMAIN rules \ {i} : rules'[j] = rules[j]
      /\ rules'[i].exists => \/ crossed[i]
                             \/ rules'[i] = after
  <2>1. CASE ~rules[i].exists
    <3>1. rules' = rules
      BY <2>1 DEF PatchEnds
    <3> QED
      BY <1>2, <2>1, <3>1 DEF EditsInv
  <2>2. CASE rules[i].exists
    <3> DEFINE old == rules[i]
               D == {f \in DOMAIN old : after[f] # saw[f]}
               r == [f \in DOMAIN old |-> IF f \in D THEN after[f] ELSE old[f]]
    <3>1. rules' = [rules EXCEPT ![i] = [f \in DOMAIN old |-> IF after[f] # saw[f] THEN after[f] ELSE old[f]]]
      BY <1>4, <1>5, <2>2 DEF PatchEnds
    <3>2. [f \in DOMAIN old |-> IF after[f] # saw[f] THEN after[f] ELSE old[f]] = r
      OBVIOUS
    <3>3. rules' = [rules EXCEPT ![i] = r]
      BY <3>1, <3>2
    <3>4. old \in Rule
      BY <1>4, <1>5
    <3>5. r \in Rule
      <4> HIDE DEF old, D, after
      <4> QED BY <1>5, <3>4, MixedIsRule
    <3>6. old = saw => r = after
      <4>1. DOMAIN after = DOMAIN saw /\ after = [f \in DOMAIN after |-> after[f]]
        BY DEF Merged
      <4> HIDE DEF after, saw
      <4>2. ASSUME old = saw PROVE \A f \in DOMAIN old : r[f] = after[f]
        <5> HIDE DEF old
        <5> QED BY <4>2
      <4>3. DOMAIN r = DOMAIN old /\ r = [f \in DOMAIN old |-> r[f]]
        OBVIOUS
      <4> HIDE DEF r, old
      <4> QED
        BY <4>1, <4>2, <4>3
    <3>7. crossed[i] \/ old = saw
      BY <1>3, <2>2 DEF Reads
    <3> HIDE DEF r
    <3>8. rules'[i] = r
      BY <1>5, <3>3
    <3>9. /\ rules' \in Seq(Rule) /\ DOMAIN rules' = DOMAIN rules /\ Len(rules') = Len(rules)
          /\ \A j \in DOMAIN rules \ {i} : rules'[j] = rules[j]
      BY <1>2, <1>4, <1>5, <3>3, <3>5, ExceptSeq DEF EditsInv
    <3> QED
      BY <3>6, <3>7, <3>8, <3>9
  <2> QED
    BY <2>1, <2>2
<1>8. crossed[i] \/ Sane(after)
  BY <1>3 DEF Reads
<1>9. ~crossed[i] => \A d \in Editors \ {e} : editor[d].rule # i
  BY <1>3 DEF Reads
<1> HIDE DEF i, after, saw
<1>10. RulesAreSane'
  <2> SUFFICES ASSUME NEW j \in DOMAIN rules, rules'[j].exists PROVE Sane(rules'[j]) \/ crossed[j]
    BY <1>1, <1>7 DEF RulesAreSane
  <2>1. CASE j = i
    BY <1>7, <1>8, <2>1
  <2>2. CASE j # i
    BY <1>2, <1>7, <2>2 DEF EditsInv, RulesAreSane
  <2> QED
    BY <2>1, <2>2
<1>11. ASSUME NEW d \in Editors, d # e, editor[d] # Idle PROVE Reads(d)'
  <2>1. Reads(d) /\ editor'[d] = editor[d]
    BY <1>2, <1>6, <1>11 DEF EditsInv
  <2>2. CASE editor[d].rule = i
    <3>1. crossed'[editor[d].rule]
      BY <1>1, <1>9, <1>11, <2>2
    <3> QED
      BY <1>7, <2>1, <3>1 DEF Reads
  <2>3. CASE editor[d].rule # i
    <3>1. rules'[editor[d].rule] = rules[editor[d].rule]
      BY <1>7, <2>1, <2>3 DEF Reads
    <3>2. editor[d].rule # 0
      BY <1>4, <2>1 DEF Reads
    <3>3. \A c \in Editors \ {d} : editor[c].rule # editor[d].rule => editor'[c].rule # editor[d].rule
      BY <1>6, <3>2 DEF Idle
    <3> QED
      BY <1>1, <1>7, <2>1, <3>1, <3>3 DEF Reads
  <2> QED
    BY <2>2, <2>3
<1>12. \A d \in Editors : editor'[d] = Idle \/ Reads(d)'
  BY <1>6, <1>11
<1>13. EditsInv'
  BY <1>1, <1>2, <1>6, <1>7, <1>10, <1>12 DEF EditsInv
<1>14. PlanInv'
  BY <1>1, PlanStands DEF FixInv, PlanInv
<1> QED
  BY <1>13, <1>14 DEF FixInv

LEMMA PublishKeepsFix ==
  ASSUME FixInv, Publish
  PROVE  FixInv'
<1>1. PICK c \in Flaws, k \in Knowledge :
        /\ published' = [published EXCEPT ![c] = k]
        /\ plan' = [plan EXCEPT !.fixes = @ \ {c}]
        /\ UNCHANGED <<rules, editor, installed, opened, crossed>>
  BY DEF Publish
<1>2. PlanInv
  BY DEF FixInv
<1>3. /\ published' \in [Flaws -> Knowledge] /\ \A d \in Flaws \ {c} : published'[d] = published[d]
      /\ plan' \in [target : Versions \cup {Wild}, fixes : SUBSET Flaws]
      /\ plan'.target = plan.target /\ plan'.fixes = plan.fixes \ {c}
  BY <1>1, <1>2 DEF PlanInv
<1>4. ASSUME plan'.target # Wild, NEW d \in plan'.fixes PROVE ~Hits(d, plan.target)'
  <2>1. d \in Flaws \ {c} /\ d \in plan.fixes
    BY <1>2, <1>3 DEF PlanInv
  <2>2. ~Hits(d, plan.target)
    BY <1>2, <1>3, <1>4, <2>1 DEF PlanInv
  <2> QED
    BY <1>3, <2>1, <2>2 DEF Hits
<1>5. PlanInv'
  BY <1>1, <1>2, <1>3, <1>4 DEF PlanInv
<1> QED
  BY <1>1, <1>5, EditsStand DEF FixInv

LEMMA CorrelateKeepsFix ==
  ASSUME FixInv, Correlate
  PROVE  FixInv'
<1>1. opened' \in SUBSET Flaws /\ UNCHANGED <<rules, editor, published, installed, plan, crossed>>
  BY DEF Correlate, FixInv, PlanInv
<1>2. installed' \in Versions \cup {Wild}
  BY <1>1 DEF FixInv, PlanInv
<1> QED
  BY <1>1, <1>2, EditsStand, PlanStands DEF FixInv

LEMMA CloseKeepsFix ==
  ASSUME FixInv, Close
  PROVE  FixInv'
<1>1. opened' \in SUBSET Flaws /\ UNCHANGED <<rules, editor, published, installed, plan, crossed>>
  BY DEF Close, FixInv, PlanInv
<1>2. installed' \in Versions \cup {Wild}
  BY <1>1 DEF FixInv, PlanInv
<1> QED
  BY <1>1, <1>2, EditsStand, PlanStands DEF FixInv

LEMMA CandidatesAreVersions ==
  ASSUME PlanInv
  PROVE  Candidates \in SUBSET Versions
<1> SUFFICES ASSUME NEW c \in Flaws PROVE ExactFixes(c) \subseteq Versions
  BY DEF Candidates, PlanInv
<1>1. published[c] \in [ranges : SUBSET VersionRange, advised : SUBSET Versions]
  BY FixPlanAssumption DEF PlanInv
<1>2. \A r \in published[c].ranges : r.upper.at \in Versions \cup {Wild}
  BY <1>1 DEF VersionRange, VersionBound
<1>3. published[c].advised \subseteq Versions
  BY <1>1
<1>4. RangeFixes(c) \subseteq Versions
  BY <1>2 DEF RangeFixes
<1> QED
  BY <1>3, <1>4 DEF ExactFixes

LEMMA FollowKeepsFix ==
  ASSUME FixInv, Follow
  PROVE  FixInv'
<1>1. PICK v \in Targets :
        plan' = [target |-> v, fixes |-> FixesOf(v)] /\ UNCHANGED <<rules, editor, published, installed, opened, crossed>>
  BY DEF Follow
<1>2. PlanInv
  BY DEF FixInv
<1>3. v \in Versions
  <2>1. PICK S \in {FixesAll, OnBranch} \ {{}} : v = Oldest(S)
    BY DEF Targets
  <2>2. S \in SUBSET Versions /\ S # {}
    BY <1>2, CandidatesAreVersions DEF FixesAll, OnBranch
  <2> QED
    BY <2>1, <2>2, OldestIsOldest
<1>4. FixesOf(v) \subseteq Flaws /\ \A c \in FixesOf(v) : ~Hits(c, v)
  BY <1>2 DEF PlanInv, FixesOf, KnownFix, FixedBy
<1>5. plan'.target = v /\ plan'.fixes = FixesOf(v)
  BY <1>1
<1>6. \A c \in plan'.fixes : ~Hits(c, plan.target)'
  <2>1. \A c : Hits(c, plan.target)' <=> Hits(c, v)
    BY <1>1, <1>5 DEF Hits
  <2> QED
    BY <1>4, <1>5, <2>1
<1>7. plan' \in [target : Versions \cup {Wild}, fixes : SUBSET Flaws]
  <2>1. FixesOf(v) \in SUBSET Flaws
    BY <1>4
  <2> QED
    BY <1>1, <1>3, <2>1
<1>8. PlanInv'
  BY <1>1, <1>2, <1>6, <1>7 DEF PlanInv
<1> QED
  BY <1>1, <1>8, EditsStand DEF FixInv

LEMMA UpgradeKeepsFix ==
  ASSUME FixInv, Upgrade
  PROVE  FixInv'
<1>1. /\ plan.target # Wild /\ installed # Wild /\ Older(installed, plan.target)
      /\ installed' = NextStop(installed, plan.target)
      /\ UNCHANGED <<rules, editor, published, opened, plan, crossed>>
  BY DEF Upgrade
<1>2. plan.target \in Versions /\ installed \in Versions /\ opened' \in SUBSET Flaws
  BY <1>1 DEF FixInv, PlanInv
<1>3. ViasTyped
  BY RulesIndexed DEF FixInv
<1>4. installed' \in Versions \cup {Wild}
  BY <1>1, <1>2, <1>3, NextStopClimbs
<1> QED
  BY <1>1, <1>2, <1>4, EditsStand, PlanStands DEF FixInv

LEMMA FixStep == FixInv /\ [FixNext]_fixVars => FixInv'
<1> SUFFICES ASSUME FixInv, [FixNext]_fixVars PROVE FixInv'
  OBVIOUS
<1>1. CASE UNCHANGED fixVars
  <2>1. UNCHANGED <<rules, editor, published, installed, opened, plan, crossed>>
    BY <1>1 DEF fixVars
  <2>2. installed' \in Versions \cup {Wild} /\ opened' \in SUBSET Flaws
    BY <2>1 DEF FixInv, PlanInv
  <2> QED
    BY <2>1, <2>2, EditsStand, PlanStands DEF FixInv
<1>2. CASE \E e \in Editors : PatchBegins(e)
  BY <1>2, PatchBeginsKeepsFix
<1>3. CASE \E e \in Editors : PatchEnds(e)
  BY <1>3, PatchEndsKeepsFix
<1> QED
  BY <1>1, <1>2, <1>3, CreateRuleKeepsFix, DeleteRuleKeepsFix, PublishKeepsFix, CorrelateKeepsFix, CloseKeepsFix,
     FollowKeepsFix, UpgradeKeepsFix DEF FixNext

LEMMA FixFollows ==
  ASSUME FixInv
  PROVE  /\ FixTypeOK /\ PlansKeepTheirWord /\ RulesAreSane
         /\ MaxRules < MaxHops => FixPlansAreSound
<1>1. FixTypeOK /\ RulesAreSane
  BY DEF FixInv, EditsInv, PlanInv, FixTypeOK
<1>2. PlansKeepTheirWord
  <2> SUFFICES ASSUME plan.target # Wild, installed # Wild, SameVersion(installed, plan.target),
                      NEW c \in plan.fixes, Hits(c, installed)
               PROVE  FALSE
    BY DEF PlansKeepTheirWord
  <2>1. plan.target \in Versions /\ installed \in Versions /\ c \in Flaws /\ ~Hits(c, plan.target)
    BY DEF FixInv, PlanInv
  <2>2. published \in [Flaws -> Knowledge]
    BY DEF FixInv, PlanInv
  <2> QED
    BY <2>1, <2>2, HitsAreCongruent
<1>3. ASSUME MaxRules < MaxHops PROVE PathsObeyTheRules
  BY <1>3, RulesIndexed, PathsArrive DEF FixInv, EditsInv
<1> QED
  BY <1>1, <1>2, <1>3 DEF FixPlansAreSound

\* Every way to a fixed version climbs, arrives and jumps over no rule, who
\* followed a plan to its end is rid of what it said it fixes, and no rule is
\* empty or leads backwards unless two requests changed it at once, for all
\* versions, flaws and operators, while the rules are fewer than the hops a way
\* may have: upgrade_path cuts what is longer (services/fix_plan, versions).
THEOREM FixPlansStaySound ==
  ASSUME MaxRules < MaxHops
  PROVE  FixSpec => []FixTypeOK /\ []FixPlansAreSound
<1>1. FixInit => FixInv
  BY FixInitially
<1>2. FixInv /\ [FixNext]_fixVars => FixInv'
  BY FixStep
<1>3. FixInv => FixTypeOK /\ FixPlansAreSound
  BY FixFollows
<1> QED
  BY <1>1, <1>2, <1>3, PTL DEF FixSpec

----------------------------------------------------------------------------
(***************************************************************************)
(* The inventory.                                                          *)
(***************************************************************************)

\* What is a sequence, whatever its elements.
Lined(q) == Len(q) \in Nat /\ q = [i \in 1 .. Len(q) |-> q[i]]

LEMMA LinedUp ==
  ASSUME NEW n \in Nat, NEW q, q = [i \in 1 .. n |-> q[i]]
  PROVE  Lined(q) /\ Len(q) = n /\ DOMAIN q = 1 .. n
<1> DEFINE S == {q[i] : i \in 1 .. n}
<1>1. q \in [1 .. n -> S]
  <2>1. \A i \in 1 .. n : q[i] \in S
    OBVIOUS
  <2> HIDE DEF S
  <2> QED
    BY <2>1
<1> HIDE DEF S
<1>2. q \in Seq(S)
  BY <1>1, SeqDef
<1>3. Len(q) \in Nat /\ DOMAIN q = 1 .. Len(q) /\ DOMAIN q = 1 .. n
  BY <1>1, <1>2, LenProperties
<1>4. Len(q) = n
  BY <1>3
<1> QED
  BY <1>3, <1>4 DEF Lined

LEMMA LinedDomain ==
  ASSUME NEW q, Lined(q)
  PROVE  DOMAIN q = 1 .. Len(q) /\ Len(q) \in Nat /\ \A i \in DOMAIN q : i \in Nat
<1>1. DOMAIN q = 1 .. Len(q) /\ Len(q) \in Nat
  BY DEF Lined
<1> QED
  BY <1>1

LEMMA LinedAppends ==
  ASSUME NEW q, Lined(q), NEW x
  PROVE  /\ Lined(Append(q, x)) /\ Len(Append(q, x)) = Len(q) + 1
         /\ DOMAIN Append(q, x) = DOMAIN q \cup {Len(q) + 1} /\ Len(q) + 1 \notin DOMAIN q
         /\ Append(q, x)[Len(q) + 1] = x /\ \A i \in DOMAIN q : Append(q, x)[i] = q[i]
<1> DEFINE S == {q[i] : i \in DOMAIN q} \cup {x}
<1>1. DOMAIN q = 1 .. Len(q) /\ Len(q) \in Nat
  BY LinedDomain
<1>2. q \in [1 .. Len(q) -> S] /\ x \in S
  <2>1. \A i \in 1 .. Len(q) : q[i] \in S
    BY <1>1
  <2>2. x \in S
    OBVIOUS
  <2> HIDE DEF S
  <2> QED
    BY <2>1, <2>2 DEF Lined
<1> HIDE DEF S
<1>3. q \in Seq(S)
  BY <1>1, <1>2, SeqDef
<1>4. /\ Append(q, x) \in Seq(S) /\ Len(Append(q, x)) = Len(q) + 1
      /\ Append(q, x)[Len(q) + 1] = x /\ \A i \in 1 .. Len(q) : Append(q, x)[i] = q[i]
  BY <1>2, <1>3, AppendProperties
<1> DEFINE z == Append(q, x)
           n == Len(q) + 1
<1>5. z \in Seq(S) /\ Len(z) = n /\ n \in Nat
  BY <1>1, <1>4
<1> HIDE DEF z, n
<1>6. z \in [1 .. n -> S]
  BY <1>5, LenProperties
<1>7. Lined(z) /\ DOMAIN z = 1 .. n
  <2>1. z = [i \in 1 .. n |-> z[i]]
    BY <1>6
  <2> QED
    BY <1>5, <2>1, LinedUp
<1>8. 1 .. (Len(q) + 1) = 1 .. Len(q) \cup {Len(q) + 1} /\ Len(q) + 1 \notin 1 .. Len(q)
  BY <1>1
<1> QED
  BY <1>1, <1>4, <1>7, <1>8 DEF z, n

LEMMA LinedReplaces ==
  ASSUME NEW q, Lined(q), NEW i \in DOMAIN q, NEW x
  PROVE  /\ Lined([q EXCEPT ![i] = x]) /\ DOMAIN [q EXCEPT ![i] = x] = DOMAIN q
         /\ [q EXCEPT ![i] = x][i] = x /\ \A j \in DOMAIN q \ {i} : [q EXCEPT ![i] = x][j] = q[j]
<1> DEFINE z == [q EXCEPT ![i] = x]
<1>1. DOMAIN q = 1 .. Len(q) /\ Len(q) \in Nat
  BY LinedDomain
<1>2. /\ DOMAIN z = DOMAIN q /\ z[i] = x /\ \A j \in DOMAIN q \ {i} : z[j] = q[j]
      /\ z = [j \in DOMAIN q |-> z[j]]
  OBVIOUS
<1> HIDE DEF z
<1>3. z = [j \in 1 .. Len(q) |-> z[j]]
  BY <1>1, <1>2
<1>4. Lined(z)
  BY <1>1, <1>3, LinedUp
<1> QED
  BY <1>2, <1>4 DEF z

\* A row has its columns.
Columns(r) == DOMAIN r = {"exists", "product", "version", "by"}

\* What is being installed: nothing that was named is lost, and what was not
\* flushed was named.
Kept(s) ==
  /\ s.seen = {item[1] : item \in s.items}
  /\ \A item \in s.items :
       \E i \in DOMAIN s.rows : s.rows[i].row.exists /\ <<s.rows[i].row.product, s.rows[i].row.version>> = item

Tidy(s) ==
  /\ DOMAIN s = {"registry", "catalogue", "seen", "items", "choice", "rows"}
  /\ Lined(s.rows) /\ registry \subseteq s.registry
  /\ \A i \in DOMAIN s.rows :
       /\ DOMAIN s.rows[i] = {"row", "flushed"} /\ Columns(s.rows[i].row) /\ s.rows[i].row.product \in s.registry
       /\ ~s.rows[i].flushed => s.rows[i].row.product \in s.seen
  /\ Kept(s)

LEMMA GrownTidy ==
  ASSUME NEW s, NEW t, Tidy(s), DOMAIN t = DOMAIN s, t.rows = s.rows, t.seen = s.seen, t.items = s.items,
         s.registry \subseteq t.registry
  PROVE  Tidy(t)
BY DEF Tidy, Kept

LEMMA FlushedTidy ==
  ASSUME NEW s, Tidy(s)
  PROVE  /\ Tidy(Flushed(s)) /\ DOMAIN Flushed(s) = DOMAIN s /\ Flushed(s).registry = s.registry
         /\ Flushed(s).seen = s.seen /\ Flushed(s).items = s.items
<1> DEFINE q == [i \in DOMAIN s.rows |-> [s.rows[i] EXCEPT !.flushed = TRUE]]
           t == Flushed(s)
<1>1. DOMAIN s.rows = 1 .. Len(s.rows) /\ Len(s.rows) \in Nat
  BY LinedDomain DEF Tidy
<1>2. /\ DOMAIN t = DOMAIN s /\ t.registry = s.registry /\ t.seen = s.seen /\ t.items = s.items /\ t.rows = q
  BY DEF Tidy, Flushed
<1>3. ASSUME NEW i \in DOMAIN s.rows
      PROVE  DOMAIN q[i] = {"row", "flushed"} /\ q[i].row = s.rows[i].row /\ q[i].flushed
  <2>1. DOMAIN s.rows[i] = {"row", "flushed"}
    BY DEF Tidy
  <2>2. q[i] = [s.rows[i] EXCEPT !.flushed = TRUE]
    OBVIOUS
  <2> HIDE DEF q
  <2> QED
    BY <2>1, <2>2
<1>4. q = [i \in 1 .. Len(s.rows) |-> q[i]]
  BY <1>1
<1> HIDE DEF q, t
<1>5. Lined(q) /\ DOMAIN q = DOMAIN s.rows
  BY <1>1, <1>4, LinedUp
<1>6. Tidy(t)
  BY <1>2, <1>3, <1>5 DEF Tidy, Kept
<1> QED
  BY <1>2, <1>6 DEF t

\* One item placed: a row of its own, or one that was the same or is renamed.
LEMMA PlacedTidy ==
  ASSUME NEW k, Tidy(k), NEW product \in k.registry, NEW version, NEW row, Columns(row),
         row.exists, row.product = product, row.version = version,
         NEW t, DOMAIN t = DOMAIN k, t.registry = k.registry, t.seen = k.seen \cup {product},
         t.items = k.items \cup {<<product, version>>},
         \/ t.rows = Append(k.rows, [row |-> row, flushed |-> FALSE])
         \/ \E j \in HeldRows(k, product) :
              /\ k.rows[j].row.version = version \/ product \notin k.seen
              /\ t.rows = [k.rows EXCEPT ![j].row = row]
  PROVE  Tidy(t)
<1>1. Lined(k.rows) /\ DOMAIN k.rows = 1 .. Len(k.rows) /\ Len(k.rows) \in Nat
  BY LinedDomain DEF Tidy
<1>2. t.seen = {item[1] : item \in t.items}
  <2>1. k.seen = {item[1] : item \in k.items} /\ <<product, version>>[1] = product
    BY DEF Tidy, Kept
  <2> QED
    BY <2>1
<1>3. \A i \in DOMAIN k.rows :
        /\ DOMAIN k.rows[i] = {"row", "flushed"} /\ Columns(k.rows[i].row) /\ k.rows[i].row.product \in k.registry
        /\ ~k.rows[i].flushed => k.rows[i].row.product \in k.seen
  BY DEF Tidy
<1>4. \A item \in k.items :
        \E i \in DOMAIN k.rows : k.rows[i].row.exists /\ <<k.rows[i].row.product, k.rows[i].row.version>> = item
  BY DEF Tidy, Kept
<1>5. CASE t.rows = Append(k.rows, [row |-> row, flushed |-> FALSE])
  <2> DEFINE x == [row |-> row, flushed |-> FALSE]
             n == Len(k.rows) + 1
  <2>1. DOMAIN x = {"row", "flushed"} /\ x.row = row
    OBVIOUS
  <2>2. t.rows = Append(k.rows, x)
    BY <1>5
  <2> HIDE DEF x
  <2>3. /\ Lined(t.rows) /\ DOMAIN t.rows = DOMAIN k.rows \cup {n}
        /\ t.rows[n] = x /\ \A i \in DOMAIN k.rows : t.rows[i] = k.rows[i]
    BY <1>1, <2>2, LinedAppends
  <2> HIDE DEF n
  <2>4. \A i \in DOMAIN t.rows :
          /\ DOMAIN t.rows[i] = {"row", "flushed"} /\ Columns(t.rows[i].row) /\ t.rows[i].row.product \in t.registry
          /\ ~t.rows[i].flushed => t.rows[i].row.product \in t.seen
    BY <1>3, <2>1, <2>3
  <2>5. \A item \in t.items :
          \E i \in DOMAIN t.rows : t.rows[i].row.exists /\ <<t.rows[i].row.product, t.rows[i].row.version>> = item
    <3> SUFFICES ASSUME NEW item \in t.items
                 PROVE  \E i \in DOMAIN t.rows : t.rows[i].row.exists /\ <<t.rows[i].row.product, t.rows[i].row.version>> = item
      OBVIOUS
    <3>1. CASE item = <<product, version>>
      <4>1. n \in DOMAIN t.rows /\ t.rows[n].row = row
        BY <2>1, <2>3
      <4> QED
        BY <3>1, <4>1
    <3>2. CASE item \in k.items
      <4>1. PICK i \in DOMAIN k.rows : k.rows[i].row.exists /\ <<k.rows[i].row.product, k.rows[i].row.version>> = item
        BY <1>4, <3>2
      <4>2. i \in DOMAIN t.rows /\ t.rows[i] = k.rows[i]
        BY <2>3
      <4> QED
        BY <4>1, <4>2
    <3> QED
      BY <3>1, <3>2
  <2>6. registry \subseteq t.registry /\ DOMAIN t = {"registry", "catalogue", "seen", "items", "choice", "rows"}
    BY DEF Tidy
  <2> QED
    BY <1>2, <2>3, <2>4, <2>5, <2>6 DEF Tidy, Kept
<1>6. ASSUME NEW j \in HeldRows(k, product), k.rows[j].row.version = version \/ product \notin k.seen,
             t.rows = [k.rows EXCEPT ![j].row = row]
      PROVE  Tidy(t)
  <2> DEFINE x == [k.rows[j] EXCEPT !.row = row]
  <2>1. j \in DOMAIN k.rows /\ k.rows[j].flushed /\ k.rows[j].row.product = product
    BY DEF HeldRows
  <2>2. DOMAIN x = {"row", "flushed"} /\ x.row = row /\ x.flushed = k.rows[j].flushed
    BY <1>3, <2>1
  <2>3. t.rows = [k.rows EXCEPT ![j] = x]
    BY <1>6
  <2> HIDE DEF x
  <2>4. /\ Lined(t.rows) /\ DOMAIN t.rows = DOMAIN k.rows
        /\ t.rows[j] = x /\ \A i \in DOMAIN k.rows \ {j} : t.rows[i] = k.rows[i]
    BY <1>1, <2>1, <2>3, LinedReplaces
  <2>5. \A i \in DOMAIN t.rows :
          /\ DOMAIN t.rows[i] = {"row", "flushed"} /\ Columns(t.rows[i].row) /\ t.rows[i].row.product \in t.registry
          /\ ~t.rows[i].flushed => t.rows[i].row.product \in t.seen
    BY <1>3, <2>1, <2>2, <2>4
  <2>6. \A item \in t.items :
          \E i \in DOMAIN t.rows : t.rows[i].row.exists /\ <<t.rows[i].row.product, t.rows[i].row.version>> = item
    <3> SUFFICES ASSUME NEW item \in t.items
                 PROVE  \E i \in DOMAIN t.rows : t.rows[i].row.exists /\ <<t.rows[i].row.product, t.rows[i].row.version>> = item
      OBVIOUS
    <3>1. CASE item = <<product, version>>
      <4>1. j \in DOMAIN t.rows /\ t.rows[j].row = row
        BY <2>1, <2>2, <2>4
      <4> QED
        BY <3>1, <4>1
    <3>2. CASE item \in k.items /\ item # <<product, version>>
      <4>1. PICK i \in DOMAIN k.rows : k.rows[i].row.exists /\ <<k.rows[i].row.product, k.rows[i].row.version>> = item
        BY <1>4, <3>2
      <4>2. i # j
        <5>1. SUFFICES ASSUME i = j PROVE FALSE
          OBVIOUS
        <5>2. item[1] = product /\ item = <<product, k.rows[j].row.version>>
          BY <2>1, <4>1, <5>1
        <5>3. product \in k.seen
          BY <3>2, <5>2 DEF Tidy, Kept
        <5> QED
          BY <1>6, <3>2, <5>2, <5>3
      <4>3. i \in DOMAIN t.rows /\ t.rows[i] = k.rows[i]
        BY <2>4, <4>2
      <4> QED
        BY <4>1, <4>3
    <3> QED
      BY <3>1, <3>2
  <2>7. registry \subseteq t.registry /\ DOMAIN t = {"registry", "catalogue", "seen", "items", "choice", "rows"}
    BY DEF Tidy
  <2> QED
    BY <1>2, <2>4, <2>5, <2>6, <2>7 DEF Tidy, Kept
<1> QED
  BY <1>5, <1>6

\* Installing one item keeps what is being installed tidy, whatever the name resolves to.
LEMMA InstalledTidy ==
  ASSUME NEW s, Tidy(s), NEW spec, NEW by
  PROVE  Tidy(Installed(s, spec, by))
<1> DEFINE version == spec.version
           product == CHOOSE p \in Identities(s.registry, spec) : p = s.choice \/ s.choice \notin Identities(s.registry, spec)
           grown   == [Flushed(s) EXCEPT !.registry = @ \cup {product}]
           known   == IF product \in s.registry THEN s ELSE grown
           same    == {i \in HeldRows(known, product) : known.rows[i].row.version = version}
           which   == IF same # {} THEN same ELSE IF Renamed(known, product, version) THEN HeldRows(known, product) ELSE {}
           row     == [exists |-> TRUE, product |-> product, version |-> version, by |-> by]
           first   == CHOOSE i \in which : \A j \in which : i <= j
           placed  == IF which = {} THEN Append(known.rows, [row |-> row, flushed |-> FALSE])
                      ELSE [known.rows EXCEPT ![first].row = row]
           done    == [known EXCEPT !.rows = placed, !.seen = @ \cup {product}, !.items = @ \cup {<<product, version>>}]
           noted   == [Flushed(done) EXCEPT !.catalogue = @ \cup {<<product, version>>}]
<1>1. Installed(s, spec, by) = IF version = NoVersion \/ <<product, version>> \in known.catalogue THEN done ELSE noted
  BY DEF Installed
<1>2. Columns(row) /\ row.exists /\ row.product = product /\ row.version = version
  BY DEF Columns
<1>3. /\ placed = IF which = {} THEN Append(known.rows, [row |-> row, flushed |-> FALSE])
                  ELSE [known.rows EXCEPT ![first].row = row]
      /\ done = [known EXCEPT !.rows = placed, !.seen = @ \cup {product}, !.items = @ \cup {<<product, version>>}]
      /\ noted = [Flushed(done) EXCEPT !.catalogue = @ \cup {<<product, version>>}]
      /\ grown = [Flushed(s) EXCEPT !.registry = @ \cup {product}]
      /\ known = IF product \in s.registry THEN s ELSE grown
  OBVIOUS
<1>4. /\ \A i \in which : i \in HeldRows(known, product)
      /\ \A i \in which : known.rows[i].row.version = version \/ product \notin known.seen
  BY DEF Renamed
<1>5. which # {} /\ which \subseteq Nat => first \in which
  <2> SUFFICES ASSUME which # {}, which \subseteq Nat PROVE first \in which
    OBVIOUS
  <2> HIDE DEF which
  <2>1. PICK i \in which : \A j \in which : i <= j
    BY LeastNatural
  <2> QED
    BY <2>1
<1> HIDE DEF product, row, which, first, placed, done, noted, grown, known, version
<1>6. Tidy(known) /\ product \in known.registry
  <2>1. CASE product \in s.registry
    BY <1>3, <2>1
  <2>2. CASE product \notin s.registry
    <3> DEFINE f == Flushed(s)
    <3>1. Tidy(f) /\ DOMAIN f = DOMAIN s
      BY FlushedTidy
    <3>2. grown = [f EXCEPT !.registry = @ \cup {product}] /\ known = grown
      BY <1>3, <2>2
    <3> HIDE DEF f
    <3>3. "registry" \in DOMAIN f
      BY <3>1 DEF Tidy
    <3>4. /\ DOMAIN grown = DOMAIN f /\ grown.registry = f.registry \cup {product}
          /\ grown.rows = f.rows /\ grown.seen = f.seen /\ grown.items = f.items
      BY <3>2, <3>3
    <3>5. Tidy(grown)
      <4>1. f.registry \subseteq grown.registry
        BY <3>4
      <4> QED
        BY <3>1, <3>4, <4>1, GrownTidy
    <3> QED
      BY <3>2, <3>4, <3>5
  <2> QED
    BY <2>1, <2>2
<1>7. DOMAIN known = {"registry", "catalogue", "seen", "items", "choice", "rows"}
  BY <1>6 DEF Tidy
<1>8. /\ DOMAIN done = DOMAIN known /\ done.registry = known.registry /\ done.rows = placed
      /\ done.seen = known.seen \cup {product} /\ done.items = known.items \cup {<<product, version>>}
  BY <1>3, <1>7
<1>9. Tidy(done)
  <2>1. CASE which = {}
    <3>1. done.rows = Append(known.rows, [row |-> row, flushed |-> FALSE])
      BY <1>3, <1>8, <2>1
    <3> QED
      BY <1>2, <1>6, <1>8, <3>1, PlacedTidy
  <2>2. CASE which # {}
    <3>1. which \subseteq Nat
      <4>1. \A i \in DOMAIN known.rows : i \in Nat
        BY <1>6, LinedDomain DEF Tidy
      <4> QED
        BY <1>4, <4>1 DEF HeldRows
    <3>2. first \in which
      BY <1>5, <2>2, <3>1
    <3>3. /\ first \in HeldRows(known, product) /\ (known.rows[first].row.version = version \/ product \notin known.seen)
          /\ done.rows = [known.rows EXCEPT ![first].row = row]
      BY <1>3, <1>4, <1>8, <2>2, <3>2
    <3> QED
      BY <1>2, <1>6, <1>8, <3>3, PlacedTidy
  <2> QED
    BY <2>1, <2>2
<1>10. Tidy(noted)
  <2> DEFINE f == Flushed(done)
  <2>1. Tidy(f)
    BY <1>9, FlushedTidy
  <2>2. noted = [f EXCEPT !.catalogue = @ \cup {<<product, version>>}]
    BY <1>3
  <2> HIDE DEF f
  <2>3. /\ DOMAIN noted = DOMAIN f /\ noted.registry = f.registry /\ noted.rows = f.rows
        /\ noted.seen = f.seen /\ noted.items = f.items
    BY <2>2
  <2> QED
    BY <2>1, <2>3, GrownTidy
<1> QED
  BY <1>1, <1>9, <1>10

\* The state an installation begins with, and the items of a report in turn.
LEMMA BegunTidy ==
  ASSUME Lined(rows), \A i \in DOMAIN rows : Columns(rows[i]) /\ rows[i].product \in registry, NEW choice
  PROVE  Tidy(Begun(choice)) /\ DOMAIN Begun(choice).rows = DOMAIN rows
<1> DEFINE q == [i \in DOMAIN rows |-> [row |-> rows[i], flushed |-> TRUE]]
           b == Begun(choice)
<1>1. /\ DOMAIN b = {"registry", "catalogue", "seen", "items", "choice", "rows"}
      /\ b.registry = registry /\ b.seen = {} /\ b.items = {} /\ b.rows = q
  BY DEF Begun
<1>2. \A i \in DOMAIN rows : DOMAIN q[i] = {"row", "flushed"} /\ q[i].row = rows[i] /\ q[i].flushed
  OBVIOUS
<1>3. DOMAIN rows = 1 .. Len(rows) /\ Len(rows) \in Nat
  BY LinedDomain
<1>4. q = [i \in 1 .. Len(rows) |-> q[i]]
  BY <1>3
<1> HIDE DEF q, b
<1>5. Lined(q) /\ DOMAIN q = DOMAIN rows
  BY <1>3, <1>4, LinedUp
<1>6. Kept(b)
  BY <1>1 DEF Kept
<1> QED
  BY <1>1, <1>2, <1>5, <1>6 DEF b, Tidy

LEMMA InstallingUnfolds ==
  ASSUME NEW items, Len(items) \in Nat, NEW by, NEW choice
  PROVE  \E g : /\ g[0] = Begun(choice) /\ \A n \in 1 .. Len(items) : g[n] = Installed(g[n - 1], items[n], by)
                /\ AllInstalled(items, by, choice) = g[Len(items)]
<1> DEFINE N == Len(items)
           Is(g, m) == g = [n \in 0 .. m |-> IF n = 0 THEN Begun(choice) ELSE Installed(g[n - 1], items[n], by)]
           B == {m \in 0 .. N : ~\E g : Is(g, m)}
<1>0. N \in Nat
  OBVIOUS
<1>3. AllInstalled(items, by, choice) = (CHOOSE g : Is(g, N))[N]
  BY Zenon DEF AllInstalled
<1> HIDE DEF N
<1>1. \E g : Is(g, N)
  <2> SUFFICES ASSUME ~\E g : Is(g, N) PROVE FALSE
    OBVIOUS
  <2>1. B \in SUBSET Nat /\ B # {}
    <3>1. N \in 0 .. N
      BY <1>0
    <3> HIDE DEF Is
    <3>2. B \subseteq 0 .. N /\ N \in B
      BY <3>1
    <3> HIDE DEF B
    <3> QED
      BY <3>2
  <2>2. PICK m \in B : \A k \in B : m <= k
    <3> HIDE DEF B
    <3> QED BY <2>1, LeastNatural
  <2>3. m \in 0 .. N /\ (~\E g : Is(g, m)) /\ \A k \in 0 .. N : (~\E g : Is(g, k)) => m <= k
    <3> HIDE DEF Is
    <3> QED BY <2>2
  <2>4. CASE m = 0
    <3> DEFINE h == [n \in 0 .. 0 |-> Begun(choice)]
    <3>1. h = [n \in 0 .. 0 |-> IF n = 0 THEN Begun(choice) ELSE Installed(h[n - 1], items[n], by)]
      OBVIOUS
    <3>2. Is(h, 0)
      BY <3>1
    <3> HIDE DEF Is, h
    <3> QED
      BY <2>3, <2>4, <3>2
  <2>5. CASE m # 0
    <3>1. m - 1 \in 0 .. N /\ m \in Nat /\ ~(m <= m - 1)
      BY <1>0, <2>3, <2>5
    <3>2. \E g : Is(g, m - 1)
      <4> HIDE DEF Is
      <4> QED BY <2>3, <3>1
    <3>3. PICK g : Is(g, m - 1)
      BY <3>2
    <3> DEFINE h == [n \in 0 .. m |-> IF n = m THEN Installed(g[m - 1], items[m], by) ELSE g[n]]
    <3>4. /\ DOMAIN g = 0 .. (m - 1) /\ g[0] = Begun(choice)
          /\ \A n \in 0 .. (m - 1) : n # 0 => g[n] = Installed(g[n - 1], items[n], by)
      BY <2>5, <3>1, <3>3
    <3>5. \A n \in 0 .. m : h[n] = IF n = 0 THEN Begun(choice) ELSE Installed(h[n - 1], items[n], by)
      <4> TAKE n \in 0 .. m
      <4>1. CASE n = m
        <5>1. h[n - 1] = g[m - 1] /\ h[n] = Installed(g[m - 1], items[m], by) /\ n # 0
          BY <2>5, <3>1, <4>1
        <5> HIDE DEF h
        <5> QED
          BY <4>1, <5>1
      <4>2. CASE n # m /\ n # 0
        <5>1. h[n] = g[n] /\ n - 1 \in 0 .. m /\ n - 1 # m /\ n \in 0 .. (m - 1)
          BY <3>1, <4>2
        <5>2. h[n - 1] = g[n - 1]
          BY <5>1
        <5> HIDE DEF h
        <5> QED
          BY <3>4, <4>2, <5>1, <5>2
      <4>3. CASE n = 0
        BY <2>5, <3>4, <4>3
      <4> QED
        BY <4>1, <4>2, <4>3
    <3>6. DOMAIN h = 0 .. m /\ h = [n \in 0 .. m |-> h[n]]
      OBVIOUS
    <3> HIDE DEF h
    <3>7. Is(h, m)
      BY <3>5, <3>6
    <3> HIDE DEF Is
    <3> QED
      BY <2>3, <3>7
  <2> QED
    BY <2>4, <2>5
<1>2. Is(CHOOSE g : Is(g, N), N)
  <2> HIDE DEF Is
  <2> QED BY <1>1, Zenon
<1> DEFINE g == CHOOSE g : Is(g, N)
<1>4. Is(g, N)
  BY <1>2
<1>5. AllInstalled(items, by, choice) = g[N]
  BY <1>3
<1> HIDE DEF g
<1>6. g[0] = Begun(choice) /\ \A n \in 1 .. N : g[n] = Installed(g[n - 1], items[n], by)
  BY <1>0, <1>4
<1> QED
  BY <1>5, <1>6 DEF N

LEMMA AllInstalledTidy ==
  ASSUME NEW items, Len(items) \in Nat, NEW by, NEW choice, Tidy(Begun(choice))
  PROVE  Tidy(AllInstalled(items, by, choice))
<1>1. PICK g : /\ g[0] = Begun(choice) /\ \A n \in 1 .. Len(items) : g[n] = Installed(g[n - 1], items[n], by)
               /\ AllInstalled(items, by, choice) = g[Len(items)]
  BY InstallingUnfolds
<1> DEFINE B == {m \in 0 .. Len(items) : ~Tidy(g[m])}
<1>2. SUFFICES ASSUME B # {} PROVE FALSE
  <2>1. Len(items) \in 0 .. Len(items)
    OBVIOUS
  <2> QED
    BY <1>1, <2>1
<1>3. PICK m \in B : \A k \in B : m <= k
  <2>1. B \in SUBSET Nat
    OBVIOUS
  <2> HIDE DEF B
  <2> QED
    BY <1>2, <2>1, LeastNatural
<1>4. m \in 0 .. Len(items) /\ m # 0
  BY <1>1, <1>3
<1>5. m - 1 \in 0 .. Len(items) /\ m \in 1 .. Len(items) /\ ~(m <= m - 1)
  BY <1>4
<1>6. Tidy(g[m - 1])
  BY <1>3, <1>5
<1>7. Tidy(Installed(g[m - 1], items[m], by))
  BY <1>6, InstalledTidy
<1>8. g[m] = Installed(g[m - 1], items[m], by)
  BY <1>1, <1>5
<1> QED
  BY <1>3, <1>7, <1>8

\* The rows as a table: each has its columns and is of a product that is known.
Ranged(q, known) == Lined(q) /\ \A i \in DOMAIN q : Columns(q[i]) /\ q[i].product \in known

InventoryInv == InventoryTypeOK /\ InventoryIsKept /\ Ranged(rows, registry)

\* What a sweep leaves of what was installed, and that what it told is whole.
LEMMA PrunedWhole ==
  ASSUME NEW s, Tidy(s), NEW by, NEW after, after = Pruned(s, by)
  PROVE  /\ Ranged(after, s.registry)
         /\ \A item \in s.items : \E i \in DOMAIN after : after[i].exists /\ <<after[i].product, after[i].version>> = item
         /\ by \in Sweeping =>
              \A i \in DOMAIN after : after[i].exists /\ after[i].by = by => \E item \in s.items : item[1] = after[i].product
<1> DEFINE Gone(i) == by \in Sweeping /\ s.rows[i].flushed /\ s.rows[i].row.by = by /\ s.rows[i].row.product \notin s.seen
<1>1. /\ DOMAIN after = DOMAIN s.rows
      /\ after = [i \in DOMAIN s.rows |-> after[i]]
      /\ \A i \in DOMAIN s.rows : Gone(i) => after[i] = [s.rows[i].row EXCEPT !.exists = FALSE]
      /\ \A i \in DOMAIN s.rows : ~Gone(i) => after[i] = s.rows[i].row
  BY DEF Pruned
<1>2. \A i \in DOMAIN s.rows : Columns(s.rows[i].row) /\ s.rows[i].row.product \in s.registry
  BY DEF Tidy
<1>3. \A i \in DOMAIN s.rows : ~s.rows[i].flushed => s.rows[i].row.product \in s.seen
  BY DEF Tidy
<1>4. DOMAIN s.rows = 1 .. Len(s.rows) /\ Len(s.rows) \in Nat
  BY LinedDomain DEF Tidy
<1>5. Lined(after)
  BY <1>1, <1>4, LinedUp
<1>6. ASSUME NEW i \in DOMAIN s.rows, Gone(i)
      PROVE  Columns(after[i]) /\ after[i].product = s.rows[i].row.product /\ ~after[i].exists
  <2> DEFINE r == s.rows[i].row
             z == [r EXCEPT !.exists = FALSE]
  <2>1. Columns(r) /\ after[i] = z
    BY <1>1, <1>2, <1>6
  <2> HIDE DEF r
  <2>2. Columns(z) /\ z.product = r.product /\ z.exists = FALSE
    BY <2>1 DEF Columns
  <2> HIDE DEF z
  <2> QED
    BY <2>1, <2>2 DEF r
<1> DEFINE Here(i) == ~Gone(i)
<1>7. \A i \in DOMAIN s.rows : Here(i) => after[i] = s.rows[i].row
  BY <1>1
<1>8. \A i \in DOMAIN s.rows : s.rows[i].row.product \in s.seen => Here(i)
  OBVIOUS
<1>9. \A i \in DOMAIN s.rows : Here(i) /\ by \in Sweeping /\ s.rows[i].row.by = by => s.rows[i].row.product \in s.seen
  BY <1>3
<1>10. \A i \in DOMAIN s.rows : ~Here(i) => Columns(after[i]) /\ after[i].product = s.rows[i].row.product /\ ~after[i].exists
  BY <1>6
<1> HIDE DEF Gone, Here
<1>11. Ranged(after, s.registry)
  BY <1>1, <1>2, <1>5, <1>7, <1>10 DEF Ranged
<1>12. s.seen = {item[1] : item \in s.items}
  BY DEF Tidy, Kept
<1>13. ASSUME NEW item \in s.items
       PROVE  \E i \in DOMAIN after : after[i].exists /\ <<after[i].product, after[i].version>> = item
  <2>1. PICK i \in DOMAIN s.rows : s.rows[i].row.exists /\ <<s.rows[i].row.product, s.rows[i].row.version>> = item
    BY DEF Tidy, Kept
  <2>2. s.rows[i].row.product \in s.seen
    BY <1>12, <2>1
  <2>3. after[i] = s.rows[i].row
    BY <1>7, <1>8, <2>2
  <2> QED
    BY <1>1, <2>1, <2>3
<1>14. ASSUME by \in Sweeping, NEW i \in DOMAIN after, after[i].exists, after[i].by = by
       PROVE  \E item \in s.items : item[1] = after[i].product
  <2>1. Here(i)
    BY <1>1, <1>10, <1>14
  <2>2. after[i] = s.rows[i].row
    BY <1>1, <1>7, <2>1
  <2>3. after[i].product \in s.seen
    BY <1>1, <1>9, <1>14, <2>1, <2>2
  <2> QED
    BY <1>12, <2>3
<1> QED
  BY <1>11, <1>13, <1>14

\* A row of a product appended, or put in the place of another.
LEMMA RowRanged ==
  ASSUME NEW q, NEW known, Ranged(q, known), NEW row, Columns(row), NEW after,
         after = Append(q, row) \/ \E i \in DOMAIN q : after = [q EXCEPT ![i] = row]
  PROVE  Ranged(after, known \cup {row.product})
<1>1. Lined(q) /\ \A i \in DOMAIN q : Columns(q[i]) /\ q[i].product \in known
  BY DEF Ranged
<1>2. CASE after = Append(q, row)
  <2> DEFINE n == Len(q) + 1
  <2>1. Lined(after) /\ DOMAIN after = DOMAIN q \cup {n} /\ after[n] = row /\ \A i \in DOMAIN q : after[i] = q[i]
    BY <1>1, <1>2, LinedAppends
  <2> HIDE DEF n
  <2> QED
    BY <1>1, <2>1 DEF Ranged
<1>3. ASSUME NEW i \in DOMAIN q, after = [q EXCEPT ![i] = row]
      PROVE  Ranged(after, known \cup {row.product})
  <2>1. Lined(after) /\ DOMAIN after = DOMAIN q /\ after[i] = row /\ \A j \in DOMAIN q \ {i} : after[j] = q[j]
    BY <1>1, <1>3, LinedReplaces
  <2> QED
    BY <1>1, <2>1 DEF Ranged
<1> QED
  BY <1>2, <1>3

LEMMA InventoryInitially == InventoryInit => InventoryInv
<1> SUFFICES ASSUME InventoryInit PROVE InventoryInv
  OBVIOUS
<1>1. /\ registry = {} /\ cited = {} /\ rows = <<>> /\ exposed = {} /\ reported = 0 /\ told = Silence /\ passed = {}
  BY DEF InventoryInit
<1>2. DOMAIN rows = {} /\ Len(rows) = 0
  BY <1>1
<1>3. MaxReported \in Nat
  BY SoftwareInventoryAssumption
<1>4. InventoryTypeOK
  BY <1>1, <1>2, <1>3 DEF InventoryTypeOK
<1>5. InventoryIsKept
  BY <1>1, <1>2 DEF InventoryIsKept, ExposureIsFound, ReportsAreKeptWhole, RowsAreUnique, Unique
<1>6. Lined(rows)
  <2>1. rows = [i \in 1 .. 0 |-> rows[i]]
    BY <1>1
  <2> QED
    BY <2>1, LinedUp
<1> QED
  BY <1>2, <1>4, <1>5, <1>6 DEF InventoryInv, Ranged

LEMMA InventoryRests == InventoryInv /\ UNCHANGED inventoryVars => InventoryInv'
<1> SUFFICES ASSUME InventoryInv, UNCHANGED inventoryVars PROVE InventoryInv'
  OBVIOUS
<1>1. /\ registry' = registry /\ cited' = cited /\ catalogue' = catalogue /\ rows' = rows
      /\ exposed' = exposed /\ reported' = reported /\ told' = told /\ passed' = passed
  BY DEF inventoryVars
<1> QED
  BY <1>1 DEF InventoryInv, InventoryTypeOK, InventoryIsKept, ExposureIsFound, ReportsAreKeptWhole, RowsAreUnique,
              Unique, Ranged

\* A request counted is within the bound.
LEMMA ReportCounted == InventoryTypeOK /\ Report => reported' \in 0 .. MaxReported
<1>1. MaxReported \in Nat
  BY SoftwareInventoryAssumption
<1> QED
  BY <1>1 DEF InventoryTypeOK, Report

\* A table that is kept after a request: correlated, or passed by.
LEMMA TableKept ==
  ASSUME InventoryInv, Report, NEW after, rows' = after, cited' = cited, registry \subseteq registry',
         Ranged(after, registry'), Unique(after), Correlated(after) \/ PassedBy(after), ReportsAreKeptWhole'
  PROVE  InventoryInv'
<1>1. InventoryTypeOK'
  <2>1. reported' \in 0 .. MaxReported
    BY ReportCounted DEF InventoryInv
  <2>2. cited' \subseteq registry' /\ cited' \subseteq Dictionary
    BY DEF InventoryInv, InventoryTypeOK
  <2>3. \A i \in DOMAIN rows' : rows'[i].product \in registry'
    BY DEF Ranged
  <2> QED
    BY <2>1, <2>2, <2>3 DEF InventoryTypeOK
<1>2. RowsAreUnique'
  BY DEF RowsAreUnique, Unique
<1>3. ExposureIsFound'
  <2> SUFFICES ASSUME NEW i \in DOMAIN after, i \notin passed',
                      after[i].exists, after[i].product \in cited, after[i].version \in Vulnerable
               PROVE  after[i].product \in exposed'
    BY DEF ExposureIsFound
  <2>1. CASE Correlated(after)
    <3>1. after[i].product \in Affected(after, cited)
      BY DEF Affected
    <3> QED
      BY <2>1, <3>1 DEF Correlated
  <2>2. CASE PassedBy(after)
    <3>1. i \in DOMAIN rows /\ after[i] = rows[i] /\ i \notin passed
      BY <2>2 DEF PassedBy
    <3>2. rows[i].product \in exposed
      BY <3>1 DEF InventoryInv, InventoryIsKept, ExposureIsFound
    <3> QED
      BY <2>2, <3>1, <3>2 DEF PassedBy
  <2> QED
    BY <2>1, <2>2
<1>4. Ranged(rows, registry)'
  BY DEF Ranged
<1> QED
  BY <1>1, <1>2, <1>3, <1>4 DEF InventoryInv, InventoryIsKept

\* A request of which nothing is kept.
LEMMA NothingKept ==
  InventoryInv /\ Report /\ told' = Silence /\ UNCHANGED <<registry, cited, rows, exposed, passed>> => InventoryInv'
<1> SUFFICES ASSUME InventoryInv, Report, told' = Silence, UNCHANGED <<registry, cited, rows, exposed, passed>>
             PROVE  InventoryInv'
  OBVIOUS
<1>1. reported' \in 0 .. MaxReported
  BY ReportCounted DEF InventoryInv
<1>2. registry' = registry /\ cited' = cited /\ rows' = rows /\ exposed' = exposed /\ passed' = passed /\ told' = Silence
  OBVIOUS
<1> QED
  BY <1>1, <1>2 DEF InventoryInv, InventoryTypeOK, InventoryIsKept, ExposureIsFound, ReportsAreKeptWhole, RowsAreUnique,
                    Unique, Ranged, Silence

LEMMA InstallKeeps == InventoryInv /\ Install => InventoryInv'
<1> SUFFICES ASSUME InventoryInv, Install PROVE InventoryInv'
  OBVIOUS
<1>1. PICK by \in Sources, items \in Reports, choice \in Dictionary :
        LET s == AllInstalled(items, by, choice)
            after == Pruned(s, by)
        IN
        /\ Report /\ UNCHANGED cited
        /\ IF Unique(after)
           THEN /\ registry' = s.registry /\ catalogue' = s.catalogue /\ rows' = after
                /\ told' = [by |-> by, items |-> s.items]
                /\ IF by \in Correlating THEN Correlated(after) ELSE PassedBy(after)
           ELSE told' = Silence /\ UNCHANGED <<registry, catalogue, rows, exposed, passed>>
  BY Zenon DEF Install
<1>2. PICK s : s = AllInstalled(items, by, choice)
  OBVIOUS
<1>3. PICK after : after = Pruned(s, by)
  OBVIOUS
<1>4. /\ Report /\ cited' = cited
      /\ IF Unique(after)
         THEN /\ registry' = s.registry /\ catalogue' = s.catalogue /\ rows' = after
              /\ told' = [by |-> by, items |-> s.items]
              /\ IF by \in Correlating THEN Correlated(after) ELSE PassedBy(after)
         ELSE told' = Silence /\ UNCHANGED <<registry, catalogue, rows, exposed, passed>>
  BY <1>1, <1>2, <1>3, Zenon
<1>5. CASE Unique(after)
  <2>1. /\ registry' = s.registry /\ rows' = after /\ told' = [by |-> by, items |-> s.items]
        /\ (Correlated(after) \/ PassedBy(after))
    BY <1>4, <1>5
  <2>2. Tidy(s)
    <3>1. Tidy(Begun(choice))
      BY BegunTidy DEF InventoryInv, Ranged
    <3>2. Len(items) \in Nat
      BY SoftwareInventoryAssumption
    <3> QED
      BY <1>2, <3>1, <3>2, AllInstalledTidy
  <2>3. /\ Ranged(after, s.registry)
        /\ \A item \in s.items : \E i \in DOMAIN after : after[i].exists /\ <<after[i].product, after[i].version>> = item
        /\ by \in Sweeping =>
             \A i \in DOMAIN after : after[i].exists /\ after[i].by = by => \E item \in s.items : item[1] = after[i].product
    BY <1>3, <2>2, PrunedWhole
  <2>4. ReportsAreKeptWhole'
    <3>1. told'.by = by /\ told'.items = s.items
      BY <2>1
    <3> QED
      BY <2>1, <2>3, <3>1 DEF ReportsAreKeptWhole
  <2>5. registry \subseteq registry'
    BY <2>1, <2>2 DEF Tidy
  <2> QED
    BY <1>4, <1>5, <2>1, <2>3, <2>4, <2>5, TableKept
<1>6. CASE ~Unique(after)
  BY <1>4, <1>6, NothingKept
<1> QED
  BY <1>5, <1>6

LEMMA SilenceIsWhole == told' = Silence => ReportsAreKeptWhole'
BY DEF ReportsAreKeptWhole, Silence

LEMMA AddProductsKeeps == InventoryInv /\ AddProducts => InventoryInv'
<1> SUFFICES ASSUME InventoryInv, AddProducts PROVE InventoryInv'
  OBVIOUS
<1>1. PICK items \in Reports :
        LET spec == items[1]
            product == <<spec.vendor, spec.name>>
            held == {i \in DOMAIN rows : rows[i].exists /\ rows[i].product = product}
            row == [exists |-> TRUE, product |-> product, version |-> spec.version, by |-> "operator"]
        IN
        /\ Report /\ Len(items) = 1 /\ spec.vendor # "unsaid" /\ told' = Silence /\ UNCHANGED cited
        /\ \E after \in IF held = {} THEN {Append(rows, row)} ELSE {[rows EXCEPT ![i] = row] : i \in held} :
             IF Unique(after)
             THEN /\ registry' = registry \cup {product} /\ rows' = after /\ Correlated(after)
                  /\ catalogue' = catalogue \cup IF spec.version = NoVersion THEN {} ELSE {<<product, spec.version>>}
             ELSE UNCHANGED <<registry, catalogue, rows, exposed, passed>>
  BY Zenon DEF AddProducts
<1> DEFINE product == <<items[1].vendor, items[1].name>>
           held == {i \in DOMAIN rows : rows[i].exists /\ rows[i].product = product}
           row == [exists |-> TRUE, product |-> product, version |-> items[1].version, by |-> "operator"]
<1>2. Report /\ told' = Silence /\ cited' = cited
  BY <1>1
<1>3. PICK after \in (IF held = {} THEN {Append(rows, row)} ELSE {[rows EXCEPT ![i] = row] : i \in held}) :
        IF Unique(after)
        THEN registry' = registry \cup {product} /\ rows' = after /\ Correlated(after)
        ELSE UNCHANGED <<registry, catalogue, rows, exposed, passed>>
  BY <1>1
<1>4. Columns(row) /\ row.product = product
  BY DEF Columns
<1>5. after = Append(rows, row) \/ \E i \in DOMAIN rows : after = [rows EXCEPT ![i] = row]
  <2>1. held \subseteq DOMAIN rows
    OBVIOUS
  <2> HIDE DEF held, row
  <2> QED
    BY <1>3, <2>1
<1> HIDE DEF held, row, product
<1>6. Ranged(after, registry \cup {product})
  BY <1>4, <1>5, RowRanged DEF InventoryInv
<1>7. CASE Unique(after)
  <2>1. registry' = registry \cup {product} /\ rows' = after /\ Correlated(after)
    BY <1>3, <1>7
  <2>2. registry \subseteq registry' /\ Ranged(after, registry')
    BY <1>6, <2>1
  <2> QED
    BY <1>2, <1>7, <2>1, <2>2, SilenceIsWhole, TableKept
<1>8. CASE ~Unique(after)
  BY <1>2, <1>3, <1>8, NothingKept
<1> QED
  BY <1>7, <1>8

LEMMA ResolveInstallationKeeps == InventoryInv /\ ResolveInstallation => InventoryInv'
<1> SUFFICES ASSUME InventoryInv, ResolveInstallation PROVE InventoryInv'
  OBVIOUS
<1>1. PICK items \in Reports :
        LET spec == items[1]
            product == <<IF spec.vendor = "unsaid" THEN "unknown" ELSE spec.vendor, spec.name>>
            held == {i \in DOMAIN rows : rows[i].exists /\ rows[i].product = product}
            row == [exists |-> TRUE, product |-> product, version |-> spec.version, by |-> "scanner"]
        IN
        /\ Report /\ Len(items) = 1 /\ told' = Silence /\ UNCHANGED <<cited, catalogue>>
        /\ \E after \in IF held = {} THEN {Append(rows, row)}
                        ELSE {[rows EXCEPT ![i].version = IF @ = NoVersion THEN spec.version ELSE @] : i \in held} :
             IF Unique(after) THEN registry' = registry \cup {product} /\ rows' = after /\ PassedBy(after)
             ELSE UNCHANGED <<registry, rows, exposed, passed>>
  BY Zenon DEF ResolveInstallation
<1> DEFINE version == items[1].version
           product == <<IF items[1].vendor = "unsaid" THEN "unknown" ELSE items[1].vendor, items[1].name>>
           held == {i \in DOMAIN rows : rows[i].exists /\ rows[i].product = product}
           row == [exists |-> TRUE, product |-> product, version |-> version, by |-> "scanner"]
           Filled(i) == [rows[i] EXCEPT !.version = IF @ = NoVersion THEN version ELSE @]
<1>2. Report /\ told' = Silence /\ cited' = cited
  BY <1>1
<1>3. PICK after \in (IF held = {} THEN {Append(rows, row)}
                      ELSE {[rows EXCEPT ![i].version = IF @ = NoVersion THEN version ELSE @] : i \in held}) :
        IF Unique(after) THEN registry' = registry \cup {product} /\ rows' = after /\ PassedBy(after)
        ELSE UNCHANGED <<registry, rows, exposed, passed>>
  BY <1>1
<1>4. Columns(row) /\ row.product = product
  BY DEF Columns
<1>5. \A i \in DOMAIN rows : [rows EXCEPT ![i].version = IF @ = NoVersion THEN version ELSE @] = [rows EXCEPT ![i] = Filled(i)]
  OBVIOUS
<1>6. \A i \in held : i \in DOMAIN rows /\ rows[i].product = product
  OBVIOUS
<1>7. \A i \in DOMAIN rows : Columns(rows[i])
  BY DEF InventoryInv, Ranged
<1>8. \A i \in DOMAIN rows : Columns(Filled(i)) /\ Filled(i).product = rows[i].product
  BY <1>7 DEF Columns
<1>9. \E r : Columns(r) /\ r.product = product /\ (after = Append(rows, r) \/ \E i \in DOMAIN rows : after = [rows EXCEPT ![i] = r])
  <2> HIDE DEF held, row, Filled, version, product
  <2>1. CASE after = Append(rows, row)
    BY <1>4, <2>1
  <2>2. CASE after # Append(rows, row)
    <3>1. PICK i \in held : after = [rows EXCEPT ![i].version = IF @ = NoVersion THEN version ELSE @]
      BY <1>3, <2>2
    <3>2. i \in DOMAIN rows /\ rows[i].product = product
      BY <1>6
    <3>3. after = [rows EXCEPT ![i] = Filled(i)]
      BY <1>5, <3>1, <3>2
    <3> QED
      BY <1>8, <3>2, <3>3
  <2> QED
    BY <2>1, <2>2
<1> HIDE DEF held, row, product, Filled, version
<1>10. Ranged(after, registry \cup {product})
  BY <1>9, RowRanged DEF InventoryInv
<1>11. CASE Unique(after)
  <2>1. registry' = registry \cup {product} /\ rows' = after /\ PassedBy(after)
    BY <1>3, <1>11
  <2>2. registry \subseteq registry' /\ Ranged(after, registry')
    BY <1>10, <2>1
  <2> QED
    BY <1>2, <1>11, <2>1, <2>2, SilenceIsWhole, TableKept
<1>12. CASE ~Unique(after)
  BY <1>2, <1>3, <1>12, NothingKept
<1> QED
  BY <1>11, <1>12

LEMMA RemoveProductKeeps == InventoryInv /\ RemoveProduct => InventoryInv'
<1> SUFFICES ASSUME InventoryInv, RemoveProduct PROVE InventoryInv'
  OBVIOUS
<1>1. PICK i \in DOMAIN rows :
        /\ Report /\ rows[i].exists /\ rows' = [rows EXCEPT ![i].exists = FALSE] /\ told' = Silence
        /\ UNCHANGED <<registry, cited, catalogue, exposed, passed>>
  BY DEF RemoveProduct
<1>2. PICK row : row = [rows[i] EXCEPT !.exists = FALSE]
  OBVIOUS
<1>3. Ranged(rows, registry)
  BY DEF InventoryInv
<1>4. Columns(row) /\ row.product = rows[i].product /\ row.exists = FALSE
  <2>1. Columns(rows[i])
    BY <1>3 DEF Ranged
  <2> QED
    BY <1>2, <2>1 DEF Columns
<1>5. PICK after : after = [rows EXCEPT ![i] = row]
  OBVIOUS
<1>6. rows' = after
  BY <1>1, <1>2, <1>5
<1>7. DOMAIN after = DOMAIN rows /\ after[i] = row /\ \A j \in DOMAIN rows \ {i} : after[j] = rows[j]
  BY <1>3, <1>5, LinedReplaces DEF Ranged
<1>8. Ranged(after, registry)
  <2>1. Ranged(after, registry \cup {row.product})
    BY <1>3, <1>4, <1>5, RowRanged
  <2>2. registry \cup {row.product} = registry
    BY <1>3, <1>4 DEF Ranged
  <2> QED
    BY <2>1, <2>2
<1>9. /\ registry' = registry /\ cited' = cited /\ exposed' = exposed /\ passed' = passed
  BY <1>1
<1>10. \A j \in DOMAIN after : after[j].exists => j \in DOMAIN rows /\ after[j] = rows[j]
  BY <1>4, <1>7
<1>11. InventoryTypeOK'
  <2>1. reported' \in 0 .. MaxReported
    BY <1>1, ReportCounted DEF InventoryInv
  <2> QED
    BY <1>6, <1>8, <1>9, <2>1 DEF InventoryInv, InventoryTypeOK, Ranged
<1>12. RowsAreUnique'
  BY <1>6, <1>10 DEF InventoryInv, InventoryIsKept, RowsAreUnique, Unique
<1>13. ExposureIsFound'
  BY <1>6, <1>9, <1>10 DEF InventoryInv, InventoryIsKept, ExposureIsFound
<1>14. ReportsAreKeptWhole'
  BY <1>1, SilenceIsWhole
<1>15. Ranged(rows, registry)'
  BY <1>6, <1>8, <1>9 DEF Ranged
<1> QED
  BY <1>11, <1>12, <1>13, <1>14, <1>15 DEF InventoryInv, InventoryIsKept

LEMMA FeedCitesKeeps == InventoryInv /\ FeedCites => InventoryInv'
<1> SUFFICES ASSUME InventoryInv, FeedCites PROVE InventoryInv'
  OBVIOUS
<1>1. PICK product \in Dictionary \ cited :
        /\ Report /\ registry' = registry \cup {product} /\ cited' = cited \cup {product} /\ told' = Silence
        /\ exposed' = exposed \cup (Affected(rows, cited') \cap {product})
        /\ UNCHANGED <<catalogue, rows, passed>>
  BY DEF FeedCites
<1>2. rows' = rows /\ passed' = passed
  BY <1>1
<1>3. InventoryTypeOK'
  <2>1. reported' \in 0 .. MaxReported
    BY <1>1, ReportCounted DEF InventoryInv
  <2> QED
    BY <1>1, <1>2, <2>1 DEF InventoryInv, InventoryTypeOK
<1>4. RowsAreUnique'
  BY <1>2 DEF InventoryInv, InventoryIsKept, RowsAreUnique, Unique
<1>5. ExposureIsFound'
  <2> SUFFICES ASSUME NEW i \in DOMAIN rows, i \notin passed,
                      rows[i].exists, rows[i].product \in cited', rows[i].version \in Vulnerable
               PROVE  rows[i].product \in exposed'
    BY <1>2 DEF ExposureIsFound
  <2>1. CASE rows[i].product \in cited
    BY <1>1, <2>1 DEF InventoryInv, InventoryIsKept, ExposureIsFound
  <2>2. CASE rows[i].product \notin cited
    <3>1. rows[i].product = product
      BY <1>1, <2>2
    <3>2. rows[i].product \in Affected(rows, cited')
      BY DEF Affected
    <3> QED
      BY <1>1, <3>1, <3>2
  <2> QED
    BY <2>1, <2>2
<1>6. ReportsAreKeptWhole'
  BY <1>1, SilenceIsWhole
<1>7. Ranged(rows, registry)'
  BY <1>1, <1>2 DEF InventoryInv, Ranged
<1> QED
  BY <1>3, <1>4, <1>5, <1>6, <1>7 DEF InventoryInv, InventoryIsKept

LEMMA InventoryStep == InventoryInv /\ [InventoryNext]_inventoryVars => InventoryInv'
<1> SUFFICES ASSUME InventoryInv, [InventoryNext]_inventoryVars PROVE InventoryInv'
  OBVIOUS
<1>1. CASE Install
  BY <1>1, InstallKeeps
<1>2. CASE AddProducts
  BY <1>2, AddProductsKeeps
<1>3. CASE ResolveInstallation
  BY <1>3, ResolveInstallationKeeps
<1>4. CASE RemoveProduct
  BY <1>4, RemoveProductKeeps
<1>5. CASE FeedCites
  BY <1>5, FeedCitesKeeps
<1>6. CASE UNCHANGED inventoryVars
  BY <1>6, InventoryRests
<1> QED
  BY <1>1, <1>2, <1>3, <1>4, <1>5, <1>6 DEF InventoryNext

\* Whatever is reported, in whatever order and by whom, a report that is kept is kept
\* whole, no version of a product becomes two rows, and nothing vulnerable that was
\* correlated is without a finding (services/inventory).
THEOREM InventoryStaysKept == InventorySpec => []InventoryTypeOK /\ []InventoryIsKept
<1>1. InventoryInit => InventoryInv
  BY InventoryInitially
<1>2. InventoryInv /\ [InventoryNext]_inventoryVars => InventoryInv'
  BY InventoryStep
<1>3. InventoryInv => InventoryTypeOK /\ InventoryIsKept
  BY DEF InventoryInv
<1> QED
  BY <1>1, <1>2, <1>3, PTL DEF InventorySpec

----------------------------------------------------------------------------
(***************************************************************************)
(* All of them together.                                                   *)
(***************************************************************************)
RemediationVars == <<ticketingVars, itsmVars, fixVars, inventoryVars, half>>

\* A step is of one part, and leaves the others as they are.
LEMMA OnePartMoves ==
  ASSUME [MCNext]_RemediationVars
  PROVE  /\ [TicketingNext]_ticketingVars /\ [ItsmNext]_itsmVars /\ [InventoryNext]_inventoryVars
         /\ half' = half
         /\ half = "fixes" => [FixNext]_fixVars
         /\ half # "fixes" => UNCHANGED fixVars
<1>1. CASE MCNext
  BY <1>1 DEF MCNext
<1>2. CASE UNCHANGED RemediationVars
  BY <1>2 DEF RemediationVars
<1> QED BY <1>1, <1>2

\* The fix plans are there only when they are what moves.
PlansInv == (half = "fixes" => FixInv) /\ FixTypeOK

RemediationInv == WorkInv /\ SyncInv /\ PlansInv /\ InventoryInv

LEMMA PlansInit == MCInit => PlansInv
<1> SUFFICES ASSUME MCInit PROVE PlansInv
  OBVIOUS
<1>1. CASE half = "fixes"
  BY <1>1, FixInitially, FixFollows DEF MCInit, PlansInv
<1>2. CASE half # "fixes"
  <2>1. rules = <<>> /\ installed = Wild /\ opened = {} /\ plan = [target |-> Wild, fixes |-> {}]
    BY <1>2 DEF MCInit
  <2>2. MaxRules \in Nat /\ Len(rules) = 0
    BY <2>1, FixPlanAssumption
  <2>3. plan.target = Wild /\ plan.fixes = {}
    BY <2>1
  <2> QED
    BY <1>2, <2>1, <2>2, <2>3 DEF PlansInv, FixTypeOK
<1> QED
  BY <1>1, <1>2

LEMMA PlansTypedNext == FixInv' => FixTypeOK'
<1>1. FixInv => FixTypeOK
  BY FixFollows
<1> QED
  BY <1>1, PTL

LEMMA PlansStep ==
  ASSUME PlansInv, [MCNext]_RemediationVars
  PROVE  PlansInv'
<1>1. CASE half = "fixes"
  <2>1. FixInv'
    BY <1>1, OnePartMoves, FixStep DEF PlansInv
  <2> QED
    BY <1>1, <2>1, PlansTypedNext, OnePartMoves DEF PlansInv
<1>2. CASE half # "fixes"
  <2>1. half' = half /\ UNCHANGED fixVars
    BY <1>2, OnePartMoves
  <2>2. installed' = installed /\ opened' = opened /\ rules' = rules /\ plan' = plan
    BY <2>1 DEF fixVars
  <2> QED
    BY <1>2, <2>1, <2>2 DEF PlansInv, FixTypeOK
<1> QED
  BY <1>1, <1>2

LEMMA RemediationInvHolds == MCSpec => []RemediationInv
<1>1. MCInit => RemediationInv
  BY WorkInit, SyncInit, InventoryInitially, PlansInit DEF MCInit, RemediationInv
<1>2. RemediationInv /\ [MCNext]_RemediationVars => RemediationInv'
  BY OnePartMoves, WorkStep, SyncStep, PlansStep, InventoryStep DEF RemediationInv
<1> QED
  BY <1>1, <1>2, PTL DEF MCSpec, RemediationVars

\* Tickets, twins, fix plans and the inventory are what they are declared to be,
\* whichever of them moves (models of ticketing, ITSM links, upgrade rules, asset_products).
THEOREM TicketsTyped == MCSpec => []TicketsTypeOK
<1>1. RemediationInv => TicketsTypeOK
  BY WorkFollows, SyncFollows DEF RemediationInv, PlansInv, InventoryInv, TicketsTypeOK
<1> QED
  BY <1>1, RemediationInvHolds, PTL

\* What is to be remediated is known, has a way out that works, and is worked on:
\* references, budget, approvals and issues, fix plans, and the inventory, while the
\* rules are fewer than the hops a way may have (services/ticketing, fix_plan, inventory).
THEOREM RemediationStaysSound ==
  ASSUME MaxRules < MaxHops
  PROVE  MCSpec => []RemediationIsSound
<1>1. RemediationInv => RemediationIsSound
  BY WorkFollows, FixFollows DEF RemediationInv, PlansInv, InventoryInv, RemediationIsSound
<1> QED
  BY <1>1, RemediationInvHolds, PTL

\* A ticket and its twin keep agreeing, also where tickets, plans and the inventory move
\* beside them (services/itsm, itsm_inbound).
THEOREM TwinsAgreeThroughout == MCSpec => TwinsAgree
<1>1. RemediationInv /\ RemediationInv' /\ [MCNext]_RemediationVars
        => [(SilenceIsAgreement /\ OneIssueForTheTicket /\ ClosureIsConsented)' /\ FinishedStaysFinished]_itsmVars
  <2>1. RemediationInv' => (SilenceIsAgreement /\ OneIssueForTheTicket /\ ClosureIsConsented)'
    <3>1. RemediationInv => SilenceIsAgreement /\ OneIssueForTheTicket /\ ClosureIsConsented
      BY SyncFollows DEF RemediationInv
    <3> QED
      BY <3>1, PTL
  <2>2. RemediationInv /\ [MCNext]_RemediationVars => FinishedStaysFinished
    BY OnePartMoves, FinishedTicketsRest DEF RemediationInv
  <2> QED
    BY <2>1, <2>2
<1> QED
  BY <1>1, RemediationInvHolds, PTL DEF MCSpec, RemediationVars, TwinsAgree
=============================================================================
