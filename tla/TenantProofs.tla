---------------------------- MODULE TenantProofs ----------------------------
(***************************************************************************)
(* Theorems of the schedule of the feeds, of the assistant, of what an agent  *)
(* may scan and of the workflows, for every set of tenants, requests, targets *)
(* and transactions; and of the six services of a tenant side by side.        *)
(***************************************************************************)
EXTENDS MCPlatform, PlatformProofs, FiniteSetTheorems, WellFoundedInduction

\* A set and its image under an injection have the same number of elements.
LEMMA SameSize ==
  ASSUME NEW S, IsFiniteSet(S), NEW T, NEW f \in [S -> T],
         \A x, y \in S : f[x] = f[y] => x = y, \A y \in T : \E x \in S : f[x] = y
  PROVE  IsFiniteSet(T) /\ Cardinality(T) = Cardinality(S)
<1>1. f \in Bijection(S, T)
  BY DEF Bijection, Injection, Surjection, IsInjective
<1>2. ExistsBijection(S, T)
  BY <1>1 DEF ExistsBijection
<1> QED BY <1>2, FS_Bijection

\* Who gives every element of a set one of as many places gives none of them two.
LEMMA OnceEach ==
  ASSUME NEW S, IsFiniteSet(S), NEW f \in [1 .. Cardinality(S) -> S], \A y \in S : \E x \in 1 .. Cardinality(S) : f[x] = y
  PROVE  \A x, y \in 1 .. Cardinality(S) : f[x] = f[y] => x = y
<1> DEFINE n == Cardinality(S)
<1>1. n \in Nat
  BY FS_CardinalityType
<1>2. IsFiniteSet(1 .. n) /\ Cardinality(1 .. n) = Cardinality(S)
  BY <1>1, FS_Interval
<1>3. f \in Surjection(1 .. n, S)
  BY DEF Surjection
<1>4. f \in Injection(1 .. n, S)
  <2> HIDE DEF n
  <2> QED BY <1>2, <1>3, FS_SurjSameCardinalityImpliesInj
<1> QED BY <1>4 DEF Injection, IsInjective

LOCAL INSTANCE FiniteSetsExt

\* A set of naturals has a least element.
LEMMA LeastNatural ==
  ASSUME NEW S \in SUBSET Nat, S # {}
  PROVE  \E m \in S : \A k \in S : m <= k
<1> DEFINE R == {p \in Nat \X Nat : p[1] < p[2]}
<1>1. R = OpToRel(<, Nat)
  BY DEF OpToRel
<1>2. IsWellFoundedOn(R, Nat)
  BY <1>1, NatLessThanWellFounded
<1>3. \E x \in S : \A y \in S : ~(<<y, x>> \in R)
  <2> HIDE DEF R
  <2> QED BY <1>2, WFMin
<1>4. PICK m \in S : \A y \in S : ~(<<y, m>> \in R)
  BY <1>3
<1>5. ASSUME NEW k \in S PROVE m <= k
  <2>1. k < m => <<k, m>> \in R
    OBVIOUS
  <2>2. ~(<<k, m>> \in R)
    BY <1>4
  <2> HIDE DEF R
  <2> QED BY <2>1, <2>2
<1> QED BY <1>5

(***************************************************************************)
(* The schedule.                                                           *)
(***************************************************************************)
Hours(n) == n * MaxRunHours
Places == DOMAIN FeedOrder
AllHours == Hours(Len(FeedOrder))

\* How long the feed at a place may have waited since it was due or since it was tried:
\* for the fetches before it, for the timer, and for the fetches of the turn that missed it.
Waited(i) ==
  IF due = {} THEN AllHours + (TimerHours - toTimer)
  ELSE IF i \in due THEN AllHours + TimerHours + Hours(Min(due) - 1) + ran
  ELSE Hours(Min(due) - 1) + ran

OnTime ==
  \A i \in Places :
    LET f == FeedOrder[i] IN
    f \notin restless /\ Demand(f) # {} =>
      attempt[f] <= Waited(i) \/ age[f] <= EffectiveInterval(f) + Waited(i)

\* The inductive invariant.
CadenceInv == CadenceTypeOK /\ OnTime

\* Fetches take the hours of those before them and their own.
LEMMA HoursAdd ==
  /\ \A n \in Nat : Hours(n) \in Nat /\ Hours(n + 1) = Hours(n) + MaxRunHours
  /\ \A n, k \in Nat : n <= k => Hours(n) <= Hours(k)
<1>1. MaxRunHours \in Nat
  BY CadenceAssumption
<1>2. \A n \in Nat : Hours(n) \in Nat
  BY <1>1 DEF Hours
<1>3. ASSUME NEW n \in Nat PROVE Hours(n + 1) = Hours(n) + MaxRunHours
  BY <1>1 DEF Hours
<1>4. ASSUME NEW n \in Nat, NEW k \in Nat, n <= k PROVE Hours(n) <= Hours(k)
  <2>1. k - n \in Nat /\ k = n + (k - n)
    BY <1>4
  <2>2. Hours(n + (k - n)) = Hours(n) + Hours(k - n)
    BY <1>1, <2>1 DEF Hours
  <2>3. Hours(k - n) \in Nat /\ Hours(n) \in Nat
    BY <1>2, <2>1
  <2>4. Hours(k) = Hours(n) + Hours(k - n)
    BY <2>1, <2>2
  <2> HIDE DEF Hours
  <2> QED BY <2>3, <2>4
<1> QED BY <1>2, <1>3, <1>4

\* The least element of a set, named.
LEMMA LeastIsMin ==
  ASSUME NEW S \in SUBSET Nat, S # {}
  PROVE  Min(S) \in S /\ \A y \in S : Min(S) <= y
<1> DEFINE P(m) == m \in S /\ \A y \in S : m <= y
<1>1. \E m : P(m)
  BY LeastNatural
<1>2. Min(S) = CHOOSE m : P(m)
  BY Zenon DEF Min
<1>3. P(CHOOSE m : P(m))
  <2> HIDE DEF P
  <2> QED BY <1>1, Zenon
<1> QED BY <1>2, <1>3, Zenon

\* The places of the feeds, and the constants.
LEMMA PlacesFacts ==
  /\ Len(FeedOrder) \in Nat /\ Places = 1 .. Len(FeedOrder) /\ Places \subseteq Nat
  /\ \A i \in Places : FeedOrder[i] \in ScheduledFeeds
  /\ \A f \in ScheduledFeeds : \E i \in Places : FeedOrder[i] = f
  /\ \A i, j \in Places : FeedOrder[i] = FeedOrder[j] => i = j
  /\ AllHours \in Nat /\ Slack = TimerHours + AllHours + AllHours /\ TimerHours \in Nat /\ MaxRunHours \in Nat
<1>1. FeedOrder \in Seq(ScheduledFeeds) /\ \A i, j \in Places : FeedOrder[i] = FeedOrder[j] => i = j
  BY CadenceAssumption DEF Places
<1>2. Len(FeedOrder) \in Nat /\ Places = 1 .. Len(FeedOrder)
  BY <1>1 DEF Places
<1>3. AllHours \in Nat /\ Slack = TimerHours + AllHours + AllHours
  BY <1>2, HoursAdd DEF AllHours, Slack, Hours
<1> QED BY <1>1, <1>2, <1>3, CadenceAssumption DEF Places, ScheduledFeeds

\* The intervals that are asked for, and the tightest.
LEMMA DemandFacts ==
  ASSUME CadenceTypeOK, NEW f \in ScheduledFeeds
  PROVE  /\ Demand(f) \subseteq Nat \ {0}
         /\ EffectiveInterval(f) \in Nat
         /\ \A o \in active : wanted[o][f] # 0 => Demand(f) # {} /\ EffectiveInterval(f) <= wanted[o][f]
<1>1. Intervals \cup {0, DefaultInterval} \subseteq Nat
  BY CadenceAssumption
<1>2. \A o \in active : wanted[o][f] \in Nat
  BY <1>1 DEF CadenceTypeOK
<1>3. Demand(f) \in SUBSET Nat /\ 0 \notin Demand(f)
  BY <1>2 DEF Demand
<1>4. DefaultInterval \in Nat
  BY <1>1
<1>5. CASE Demand(f) = {}
  <2>1. \A o \in active : wanted[o][f] = 0
    BY <1>5 DEF Demand
  <2> QED BY <1>3, <1>4, <1>5, <2>1 DEF EffectiveInterval
<1>6. CASE Demand(f) # {}
  <2>1. Min(Demand(f)) \in Demand(f) /\ \A y \in Demand(f) : Min(Demand(f)) <= y
    BY <1>3, <1>6, LeastIsMin
  <2>2. EffectiveInterval(f) = Min(Demand(f))
    BY <1>6 DEF EffectiveInterval
  <2>3. \A o \in active : wanted[o][f] # 0 => wanted[o][f] \in Demand(f)
    BY DEF Demand
  <2> QED BY <1>3, <1>6, <2>1, <2>2, <2>3
<1> QED BY <1>5, <1>6

\* The first of the feeds that are due.
LEMMA FirstOf ==
  ASSUME NEW S \in SUBSET Places, S # {}
  PROVE  /\ Min(S) \in S /\ Min(S) \in Places /\ FeedOrder[Min(S)] \in ScheduledFeeds
         /\ \A i \in S : Min(S) <= i
         /\ Min(S) - 1 \in Nat /\ Min(S) \in Nat /\ Hours(Min(S) - 1) \in Nat
         /\ Hours(Min(S)) = Hours(Min(S) - 1) + MaxRunHours /\ Hours(Min(S)) <= AllHours
<1>1. Min(S) \in S /\ \A i \in S : Min(S) <= i
  BY PlacesFacts, LeastIsMin
<1>2. Min(S) \in 1 .. Len(FeedOrder) /\ Len(FeedOrder) \in Nat
  BY <1>1, PlacesFacts
<1>3. Min(S) - 1 \in Nat /\ Min(S) \in Nat /\ (Min(S) - 1) + 1 = Min(S) /\ Min(S) <= Len(FeedOrder)
  BY <1>2
<1>4. Hours(Min(S)) = Hours(Min(S) - 1) + MaxRunHours /\ Hours(Min(S)) <= AllHours /\ Hours(Min(S) - 1) \in Nat
  BY <1>2, <1>3, HoursAdd DEF AllHours
<1> QED BY <1>1, <1>3, <1>4, PlacesFacts

LEMMA FirstDue ==
  ASSUME CadenceTypeOK, due # {}
  PROVE  /\ Hours(Min(due) - 1) \in Nat /\ Hours(Min(due) - 1) + MaxRunHours <= AllHours
         /\ ran \in Nat /\ ran <= MaxRunHours
<1>1. due \in SUBSET Places
  BY DEF CadenceTypeOK, Places
<1>2. ran \in Nat /\ ran <= MaxRunHours
  BY PlacesFacts DEF CadenceTypeOK
<1> QED BY <1>1, <1>2, FirstOf

\* A feed never waits longer than the slack.
LEMMA WaitedFits ==
  ASSUME CadenceTypeOK, NEW i \in Places
  PROVE  Waited(i) \in Nat /\ Waited(i) <= Slack
<1>1. toTimer \in Nat /\ toTimer <= TimerHours
  BY PlacesFacts DEF CadenceTypeOK
<1>2. CASE due = {}
  BY <1>1, <1>2, PlacesFacts DEF Waited
<1>3. CASE due # {} /\ i \in due
  <2> DEFINE h == Hours(Min(due) - 1)
  <2>1. Waited(i) = AllHours + TimerHours + h + ran
    BY <1>3 DEF Waited
  <2>2. h \in Nat /\ h + MaxRunHours <= AllHours /\ ran \in Nat /\ ran <= MaxRunHours
    BY <1>3, FirstDue
  <2> HIDE DEF h
  <2> QED BY <2>1, <2>2, PlacesFacts
<1>4. CASE due # {} /\ i \notin due
  BY <1>4, PlacesFacts, FirstDue DEF Waited
<1> QED BY <1>2, <1>3, <1>4

\* The ages, as numbers.
LEMMA AgesFacts ==
  ASSUME CadenceTypeOK, NEW f \in ScheduledFeeds
  PROVE  age[f] \in Nat /\ attempt[f] \in Nat
<1>1. OldestAge \in Nat /\ Slack \in Nat
  BY PlacesFacts, CadenceAssumption DEF OldestAge
<1> QED BY <1>1 DEF CadenceTypeOK

LEMMA CadenceStarts == CadenceInit => CadenceInv
<1> SUFFICES ASSUME CadenceInit PROVE CadenceInv
  OBVIOUS
<1>1. OldestAge \in Nat /\ Slack \in Nat
  BY PlacesFacts, CadenceAssumption DEF OldestAge
<1>2. /\ age \in [ScheduledFeeds -> 0 .. OldestAge] /\ attempt \in [ScheduledFeeds -> 0 .. Slack + 1]
      /\ ran \in 0 .. MaxRunHours /\ toTimer \in 0 .. TimerHours /\ changes \in 0 .. MaxChanges
  BY <1>1, CadenceAssumption DEF CadenceInit
<1>3. /\ wanted \in [Organizations -> [ScheduledFeeds -> Intervals \cup {0, DefaultInterval}]]
      /\ active \subseteq Organizations /\ due \subseteq DOMAIN FeedOrder /\ restless \subseteq ScheduledFeeds
  BY DEF CadenceInit
<1>4. OnTime
  BY PlacesFacts DEF CadenceInit, OnTime
<1> QED BY <1>2, <1>3, <1>4 DEF CadenceInv, CadenceTypeOK

\* A feed that is not due is not late.
LEMMA NotDue ==
  ASSUME CadenceTypeOK, NEW i \in Places, Demand(FeedOrder[i]) # {}, ~Due(FeedOrder[i])
  PROVE  age[FeedOrder[i]] < EffectiveInterval(FeedOrder[i])
<1>1. FeedOrder[i] \in ScheduledFeeds
  BY PlacesFacts
<1>2. ~(age[FeedOrder[i]] >= EffectiveInterval(FeedOrder[i]))
  BY DEF Due, EffectiveEnabled, SinceLastRun
<1> QED BY <1>1, <1>2, AgesFacts, DemandFacts

LEMMA TickKeeps ==
  ASSUME CadenceInv, Tick
  PROVE  CadenceInv'
<1>1. /\ toTimer = 0 /\ due = {} /\ due' = {i \in Places : Due(FeedOrder[i])} /\ toTimer' = TimerHours /\ ran' = 0
      /\ UNCHANGED <<wanted, active, age, attempt, changes, restless>>
  BY DEF Tick, Places
<1>2. CadenceTypeOK
  BY DEF CadenceInv
<1>3. CadenceTypeOK'
  BY <1>1, <1>2, PlacesFacts DEF CadenceTypeOK, Places
<1>4. ASSUME NEW i \in Places, FeedOrder[i] \notin restless, Demand(FeedOrder[i]) # {}
      PROVE  LET f == FeedOrder[i] IN attempt[f] <= Waited(i)' \/ age[f] <= EffectiveInterval(f) + Waited(i)'
  <2> DEFINE f == FeedOrder[i]
  <2>1. f \in ScheduledFeeds /\ age[f] \in Nat /\ attempt[f] \in Nat /\ EffectiveInterval(f) \in Nat
    BY <1>2, PlacesFacts, AgesFacts, DemandFacts
  <2>2. CASE Due(f)
    <3>1. attempt[f] <= Waited(i) \/ age[f] <= EffectiveInterval(f) + Waited(i)
      BY <1>4 DEF CadenceInv, OnTime
    <3>2. Waited(i) = AllHours + TimerHours
      BY <1>1, PlacesFacts DEF Waited
    <3>3. due' # {} /\ i \in due'
      BY <1>1, <2>2
    <3>4. Waited(i)' = AllHours + TimerHours + Hours(Min(due') - 1) + ran'
      BY <3>3 DEF Waited
    <3>5. Hours(Min(due') - 1) \in Nat /\ ran' = 0
      BY <1>1, <3>3, FirstOf
    <3>6. Waited(i) \in Nat /\ Waited(i) <= Waited(i)'
      BY <3>2, <3>4, <3>5, PlacesFacts
    <3> DEFINE e == EffectiveInterval(f)
               v == Waited(i)
               w == Waited(i)'
    <3>7. w \in Nat
      BY <3>4, <3>5, PlacesFacts
    <3>8. /\ age[f] \in Nat /\ attempt[f] \in Nat /\ e \in Nat /\ v \in Nat /\ v <= w
          /\ attempt[f] <= v \/ age[f] <= e + v
      BY <2>1, <3>1, <3>6
    <3> HIDE DEF f, e, v, w
    <3>9. attempt[f] <= w \/ age[f] <= e + w
      BY <3>7, <3>8
    <3> QED BY <3>9 DEF f, e, w
  <2>3. CASE ~Due(f)
    <3>1. age[f] < EffectiveInterval(f)
      BY <1>2, <1>4, <2>3, NotDue
    <3>2. Waited(i)' \in Nat
      <4>1. CASE due' = {}
        BY <1>1, <4>1, PlacesFacts DEF Waited
      <4>2. CASE due' # {}
        <5>1. Hours(Min(due') - 1) \in Nat /\ i \notin due'
          BY <1>1, <2>3, <4>2, FirstOf
        <5>2. Waited(i)' = Hours(Min(due') - 1) + ran'
          BY <4>2, <5>1 DEF Waited
        <5> QED BY <1>1, <5>1, <5>2
      <4> QED BY <4>1, <4>2
    <3> QED BY <2>1, <3>1, <3>2
  <2> QED BY <2>2, <2>3
<1>5. OnTime'
  BY <1>1, <1>4 DEF OnTime, Demand, EffectiveInterval
<1> QED BY <1>3, <1>5 DEF CadenceInv

LEMMA TickMissedKeeps ==
  ASSUME CadenceInv, TickMissed
  PROVE  CadenceInv'
<1>1. due # {} /\ toTimer' = TimerHours /\ UNCHANGED <<wanted, active, age, attempt, due, ran, changes, restless>>
  BY DEF TickMissed
<1>2. CadenceTypeOK'
  BY <1>1, PlacesFacts DEF CadenceInv, CadenceTypeOK
<1>3. \A i \in Places : Waited(i)' = Waited(i)
  BY <1>1 DEF Waited
<1>4. OnTime'
  BY <1>1, <1>3 DEF CadenceInv, OnTime, Demand, EffectiveInterval
<1> QED BY <1>2, <1>4 DEF CadenceInv

LEMMA HourPassesKeeps ==
  ASSUME CadenceInv, HourPasses
  PROVE  CadenceInv'
<1>1. /\ toTimer > 0 /\ (due # {} => ran < MaxRunHours) /\ toTimer' = toTimer - 1 /\ ran' = IF due = {} THEN 0 ELSE ran + 1
      /\ age' = [f \in ScheduledFeeds |-> Older(age[f], OldestAge)]
      /\ attempt' = [f \in ScheduledFeeds |-> Older(attempt[f], Slack + 1)]
      /\ UNCHANGED <<wanted, active, due, changes, restless>>
  BY DEF HourPasses
<1>2. CadenceTypeOK /\ OnTime
  BY DEF CadenceInv
<1>3. OldestAge \in Nat /\ Slack \in Nat
  BY PlacesFacts, CadenceAssumption DEF OldestAge
<1>4. \A n, most \in Nat : n <= most => Older(n, most) \in 0 .. most /\ Older(n, most) <= n + 1
  BY DEF Older
<1>5. /\ age' \in [ScheduledFeeds -> 0 .. OldestAge] /\ attempt' \in [ScheduledFeeds -> 0 .. Slack + 1]
      /\ \A f \in ScheduledFeeds : age'[f] <= age[f] + 1 /\ attempt'[f] <= attempt[f] + 1
  <2>1. \A f \in ScheduledFeeds : age[f] \in 0 .. OldestAge /\ attempt[f] \in 0 .. Slack + 1
    BY <1>2 DEF CadenceTypeOK
  <2>2. ASSUME NEW f \in ScheduledFeeds
        PROVE  /\ Older(age[f], OldestAge) \in 0 .. OldestAge /\ Older(age[f], OldestAge) <= age[f] + 1
               /\ Older(attempt[f], Slack + 1) \in 0 .. Slack + 1 /\ Older(attempt[f], Slack + 1) <= attempt[f] + 1
    <3>1. age[f] \in Nat /\ age[f] <= OldestAge /\ attempt[f] \in Nat /\ attempt[f] <= Slack + 1 /\ Slack + 1 \in Nat
      BY <1>3, <2>1
    <3> QED BY <1>3, <1>4, <3>1
  <2> QED BY <1>1, <2>2
<1>6. toTimer' \in 0 .. TimerHours /\ ran' \in 0 .. MaxRunHours /\ toTimer \in Nat
  BY <1>1, <1>2, PlacesFacts DEF CadenceTypeOK
<1>7. CadenceTypeOK'
  BY <1>1, <1>2, <1>5, <1>6 DEF CadenceTypeOK
<1>8. ASSUME NEW i \in Places PROVE Waited(i)' = Waited(i) + 1
  <2>1. CASE due = {}
    BY <1>1, <1>6, <2>1, PlacesFacts DEF Waited
  <2>2. CASE due # {}
    <3> DEFINE h == Hours(Min(due) - 1)
    <3>1. h \in Nat /\ ran \in Nat /\ ran' = ran + 1 /\ due' = due
      BY <1>1, <1>2, <2>2, FirstDue
    <3>2. /\ Waited(i) = IF i \in due THEN AllHours + TimerHours + h + ran ELSE h + ran
          /\ Waited(i)' = IF i \in due THEN AllHours + TimerHours + h + ran' ELSE h + ran'
      BY <2>2, <3>1 DEF Waited
    <3> HIDE DEF h
    <3> QED BY <3>1, <3>2, PlacesFacts
  <2> QED BY <2>1, <2>2
<1>9. ASSUME NEW i \in Places, FeedOrder[i] \notin restless, Demand(FeedOrder[i]) # {}
      PROVE  LET f == FeedOrder[i] IN attempt'[f] <= Waited(i)' \/ age'[f] <= EffectiveInterval(f) + Waited(i)'
  <2> DEFINE f == FeedOrder[i]
             w == Waited(i)
             e == EffectiveInterval(f)
  <2>1. f \in ScheduledFeeds /\ age[f] \in Nat /\ attempt[f] \in Nat /\ e \in Nat /\ w \in Nat
    BY <1>2, PlacesFacts, AgesFacts, DemandFacts, WaitedFits
  <2>2. attempt[f] <= w \/ age[f] <= e + w
    BY <1>2, <1>9 DEF OnTime
  <2>3. /\ age'[f] \in Nat /\ attempt'[f] \in Nat /\ age'[f] <= age[f] + 1 /\ attempt'[f] <= attempt[f] + 1
    BY <1>3, <1>5, <2>1
  <2>4. Waited(i)' = w + 1
    BY <1>8
  <2> HIDE DEF f, w, e
  <2>5. attempt'[f] <= w + 1 \/ age'[f] <= e + (w + 1)
    BY <2>1, <2>2, <2>3
  <2> QED BY <2>4, <2>5 DEF f, e
<1>10. OnTime'
  BY <1>1, <1>9 DEF OnTime, Demand, EffectiveInterval
<1> QED BY <1>7, <1>10 DEF CadenceInv

LEMMA FetchedKeeps ==
  ASSUME CadenceInv, NEW ok \in BOOLEAN, Fetched(ok)
  PROVE  CadenceInv'
<1>1. CadenceTypeOK /\ OnTime /\ due # {} /\ due \in SUBSET Places
  BY DEF CadenceInv, CadenceTypeOK, Places, Fetched
<1>2. PICK q \in Places : q = Min(due)
  BY <1>1, FirstOf
<1> DEFINE g == FeedOrder[q]
<1>3. /\ attempt' = [attempt EXCEPT ![g] = 0] /\ age' = IF ok THEN [age EXCEPT ![g] = 0] ELSE age
      /\ restless' = IF ok THEN restless \ {g} ELSE restless
      /\ due' = due \ {q} /\ ran' = 0 /\ UNCHANGED <<wanted, active, toTimer, changes>>
  BY <1>2 DEF Fetched
<1>4. /\ q \in due /\ q \in Places /\ g \in ScheduledFeeds /\ \A i \in due : q <= i
      /\ q - 1 \in Nat /\ q \in Nat /\ Hours(q - 1) \in Nat
      /\ Hours(q) = Hours(q - 1) + MaxRunHours /\ Hours(q) <= AllHours
  BY <1>1, <1>2, FirstOf
<1>5. OldestAge \in Nat /\ Slack \in Nat
  BY PlacesFacts, CadenceAssumption DEF OldestAge
<1> HIDE DEF g
<1>6. CadenceTypeOK'
  <2>1. age' \in [ScheduledFeeds -> 0 .. OldestAge] /\ attempt' \in [ScheduledFeeds -> 0 .. Slack + 1]
    <3>1. age \in [ScheduledFeeds -> 0 .. OldestAge] /\ attempt \in [ScheduledFeeds -> 0 .. Slack + 1]
      BY <1>1 DEF CadenceTypeOK
    <3>2. 0 \in 0 .. OldestAge /\ 0 \in 0 .. Slack + 1
      BY <1>5 
    <3>3. attempt' \in [ScheduledFeeds -> 0 .. Slack + 1]
      BY <1>1, <1>2, <1>3, <3>1, <3>2
    <3>4. age' = age \/ age' = [age EXCEPT ![g] = 0]
      BY <1>1, <1>2, <1>3 
    <3>5. age' \in [ScheduledFeeds -> 0 .. OldestAge]
      BY <3>1, <3>2, <3>4
    <3> QED BY <3>3, <3>5
  <2>2. ran' \in 0 .. MaxRunHours /\ due' \subseteq DOMAIN FeedOrder
    BY <1>1, <1>2, <1>3, PlacesFacts DEF Places
  <2>3. /\ wanted' \in [Organizations -> [ScheduledFeeds -> Intervals \cup {0, DefaultInterval}]]
        /\ active' \subseteq Organizations /\ toTimer' \in 0 .. TimerHours /\ changes' \in 0 .. MaxChanges
        /\ restless' \subseteq ScheduledFeeds
    BY <1>1, <1>2, <1>3 DEF CadenceTypeOK
  <2> QED BY <2>1, <2>2, <2>3 DEF CadenceTypeOK
<1>7. toTimer \in Nat /\ toTimer <= TimerHours /\ ran \in Nat /\ ran <= MaxRunHours
  BY <1>1, PlacesFacts DEF CadenceTypeOK
<1>8. due' # {} => q <= Min(due') - 1 /\ Min(due') - 1 \in Nat /\ Hours(Min(due') - 1) \in Nat /\ Hours(q) <= Hours(Min(due') - 1)
  <2> SUFFICES ASSUME due' # {}
               PROVE  q <= Min(due') - 1 /\ Min(due') - 1 \in Nat /\ Hours(Min(due') - 1) \in Nat /\ Hours(q) <= Hours(Min(due') - 1)
    OBVIOUS
  <2> DEFINE m == Min(due')
  <2>1. m \in due' /\ m - 1 \in Nat /\ m \in Nat /\ Hours(m - 1) \in Nat
    BY <1>1, <1>3, FirstOf
  <2> HIDE DEF m
  <2>2. q <= m /\ q # m
    BY <1>1, <1>2, <1>3, <1>4, <2>1
  <2>3. q <= m - 1
    BY <1>4, <2>1, <2>2
  <2>4. Hours(q) <= Hours(m - 1)
    BY <1>4, <2>1, <2>3, HoursAdd
  <2> QED BY <2>1, <2>3, <2>4 DEF m
<1>9. ASSUME NEW i \in Places, i # q PROVE Waited(i)' \in Nat /\ Waited(i) \in Nat /\ Waited(i) <= Waited(i)'
  <2> DEFINE h == Hours(q - 1)
             k == Hours(Min(due') - 1)
  <2>1. Waited(i) = IF i \in due THEN AllHours + TimerHours + h + ran ELSE h + ran
    BY <1>1, <1>2, <1>3 DEF Waited
  <2>2. i \in due' <=> i \in due
    BY <1>1, <1>2, <1>3, <1>9 
  <2>3. CASE due' = {}
    <3>1. Waited(i)' = AllHours + (TimerHours - toTimer) /\ i \notin due
      BY <1>1, <1>2, <1>3, <2>2, <2>3 DEF Waited
    <3>2. Waited(i) = h + ran /\ h \in Nat /\ h + MaxRunHours <= AllHours
      BY <1>4, <2>1, <3>1
    <3> HIDE DEF h
    <3> QED BY <1>7, <3>1, <3>2, PlacesFacts
  <2>4. CASE due' # {}
    <3>1. Waited(i)' = IF i \in due THEN AllHours + TimerHours + k + 0 ELSE k + 0
      BY <1>1, <1>2, <1>3, <2>2, <2>4 DEF Waited
    <3>2. h \in Nat /\ k \in Nat /\ h + MaxRunHours <= k
      BY <1>4, <1>8, <2>4
    <3> HIDE DEF h, k
    <3> QED BY <1>7, <2>1, <3>1, <3>2, PlacesFacts
  <2> QED BY <2>3, <2>4
<1>10. Waited(q)' \in Nat
  <2> DEFINE k == Hours(Min(due') - 1)
  <2>1. q \notin due'
    BY <1>1, <1>2, <1>3 
  <2>2. CASE due' = {}
    <3>1. Waited(q)' = AllHours + (TimerHours - toTimer)
      BY <1>3, <2>1, <2>2 DEF Waited
    <3> QED BY <1>7, <3>1, PlacesFacts
  <2>3. CASE due' # {}
    <3>1. Waited(q)' = k + ran'
      BY <2>1, <2>3 DEF Waited
    <3>2. k \in Nat /\ ran' = 0
      BY <1>1, <1>2, <1>3, <1>8, <2>3
    <3> HIDE DEF k
    <3> QED BY <3>1, <3>2
  <2> QED BY <2>2, <2>3
<1>11. ASSUME NEW i \in Places, FeedOrder[i] \notin restless', Demand(FeedOrder[i]) # {}
       PROVE  LET f == FeedOrder[i] IN attempt'[f] <= Waited(i)' \/ age'[f] <= EffectiveInterval(f) + Waited(i)'
  <2> DEFINE f == FeedOrder[i]
             e == EffectiveInterval(f)
             v == Waited(i)
             w == Waited(i)'
  <2>1. f \in ScheduledFeeds /\ age[f] \in Nat /\ attempt[f] \in Nat /\ e \in Nat
    BY <1>1, PlacesFacts, AgesFacts, DemandFacts
  <2>2. CASE i = q
    <3>1. attempt'[f] = 0
      BY <1>1, <1>2, <1>3, <2>1, <2>2 DEF g, CadenceTypeOK
    <3>2. w \in Nat
      BY <1>10, <2>2
    <3> HIDE DEF f, e, w
    <3>3. attempt'[f] <= w
      BY <3>1, <3>2
    <3> QED BY <3>3 DEF f, w
  <2>3. CASE i # q
    <3>1. f # g
      BY <1>4, <2>3, PlacesFacts DEF g
    <3>2. attempt'[f] = attempt[f] /\ age'[f] = age[f] /\ f \notin restless
      BY <1>1, <1>2, <1>3, <1>11, <2>1, <3>1 DEF CadenceTypeOK
    <3>3. attempt[f] <= v \/ age[f] <= e + v
      BY <1>1, <1>11, <3>2 DEF OnTime
    <3>4. v \in Nat /\ w \in Nat /\ v <= w
      BY <1>9, <2>3
    <3> HIDE DEF f, e, v, w
    <3>5. attempt[f] <= w \/ age[f] <= e + w
      BY <2>1, <3>3, <3>4
    <3> QED BY <3>2, <3>5 DEF f, e, w
  <2> QED BY <2>2, <2>3
<1>12. OnTime'
  BY <1>1, <1>2, <1>3, <1>11 DEF OnTime, Demand, EffectiveInterval
<1> QED BY <1>6, <1>12 DEF CadenceInv

\* Who changes the schedule of a feed makes it restless, and no other feed's.
LEMMA AskForKeeps ==
  ASSUME CadenceInv, NEW o \in Organizations, NEW f \in ScheduledFeeds, NEW h \in Intervals \cup {0}, AskFor(o, f, h)
  PROVE  CadenceInv'
<1>1. /\ changes < MaxChanges /\ changes' = changes + 1 /\ wanted' = [wanted EXCEPT ![o][f] = h]
      /\ restless' = restless \cup {f} /\ UNCHANGED <<active, age, attempt, due, ran, toTimer>>
  BY DEF AskFor
<1>2. CadenceTypeOK /\ OnTime
  BY DEF CadenceInv
<1>3. changes' \in 0 .. MaxChanges
  BY <1>1, <1>2, CadenceAssumption DEF CadenceTypeOK
<1>4. wanted' \in [Organizations -> [ScheduledFeeds -> Intervals \cup {0, DefaultInterval}]]
  BY <1>1, <1>2 DEF CadenceTypeOK
<1>5. CadenceTypeOK'
  BY <1>1, <1>2, <1>3, <1>4 DEF CadenceTypeOK
<1>6. ASSUME NEW d \in ScheduledFeeds, d # f PROVE Demand(d)' = Demand(d)
  <2>1. \A p \in active : wanted'[p][d] = wanted[p][d]
    BY <1>1, <1>2, <1>6 DEF CadenceTypeOK
  <2> QED BY <1>1, <2>1 DEF Demand
<1>7. \A i \in Places : Waited(i)' = Waited(i)
  BY <1>1 DEF Waited
<1>8. OnTime'
  <2> SUFFICES ASSUME NEW i \in Places, FeedOrder[i] \notin restless', Demand(FeedOrder[i])' # {}
               PROVE  \/ attempt'[FeedOrder[i]] <= Waited(i)'
                      \/ age'[FeedOrder[i]] <= EffectiveInterval(FeedOrder[i])' + Waited(i)'
    BY DEF OnTime
  <2>1. FeedOrder[i] \in ScheduledFeeds /\ FeedOrder[i] # f /\ FeedOrder[i] \notin restless
    BY <1>1, PlacesFacts
  <2>2. Demand(FeedOrder[i])' = Demand(FeedOrder[i]) /\ EffectiveInterval(FeedOrder[i])' = EffectiveInterval(FeedOrder[i])
    BY <1>6, <2>1 DEF EffectiveInterval
  <2> QED BY <1>1, <1>2, <1>7, <2>1, <2>2 DEF OnTime
<1> QED BY <1>5, <1>8 DEF CadenceInv

LEMMA SetActiveKeeps ==
  ASSUME CadenceInv, NEW o \in Organizations, SetActive(o)
  PROVE  CadenceInv'
<1>1. /\ changes < MaxChanges /\ changes' = changes + 1 /\ active' \subseteq Organizations
      /\ restless' = ScheduledFeeds /\ UNCHANGED <<wanted, age, attempt, due, ran, toTimer>>
  BY DEF SetActive, CadenceInv, CadenceTypeOK
<1>2. changes' \in 0 .. MaxChanges
  BY <1>1, CadenceAssumption DEF CadenceInv, CadenceTypeOK
<1>3. CadenceTypeOK'
  BY <1>1, <1>2 DEF CadenceInv, CadenceTypeOK
<1>4. OnTime'
  BY <1>1, PlacesFacts DEF OnTime
<1> QED BY <1>3, <1>4 DEF CadenceInv

LEMMA CadenceStep == CadenceInv /\ [CadenceNext]_cadenceVars => CadenceInv'
<1> SUFFICES ASSUME CadenceInv, [CadenceNext]_cadenceVars PROVE CadenceInv'
  OBVIOUS
<1>1. CASE Tick \/ TickMissed \/ HourPasses
  BY <1>1, TickKeeps, TickMissedKeeps, HourPassesKeeps
<1>2. CASE \E ok \in BOOLEAN : Fetched(ok)
  BY <1>2, FetchedKeeps
<1>3. CASE \E o \in Organizations : \/ SetActive(o)
                                  \/ \E f \in ScheduledFeeds, h \in Intervals \cup {0} : AskFor(o, f, h)
  BY <1>3, SetActiveKeeps, AskForKeeps
<1>4. CASE UNCHANGED cadenceVars
  <2>1. CadenceTypeOK'
    BY <1>4 DEF CadenceInv, CadenceTypeOK, cadenceVars
  <2>2. OnTime'
    BY <1>4 DEF CadenceInv, OnTime, cadenceVars, Waited, Demand, EffectiveInterval
  <2> QED BY <2>1, <2>2 DEF CadenceInv
<1> QED BY <1>1, <1>2, <1>3, <1>4 DEF CadenceNext

LEMMA CadenceInvariance == CadenceSpec => []CadenceInv
BY CadenceStarts, CadenceStep, PTL DEF CadenceSpec

LEMMA NobodyIsLate == ASSUME CadenceInv PROVE NobodyGetsLess
<1> SUFFICES ASSUME NEW o \in active, NEW f \in ScheduledFeeds \ restless, wanted[o][f] # 0
             PROVE  age[f] <= wanted[o][f] + Slack \/ attempt[f] <= Slack
  BY DEF NobodyGetsLess
<1>1. CadenceTypeOK /\ OnTime
  BY DEF CadenceInv
<1>2. PICK i \in Places : FeedOrder[i] = f
  BY PlacesFacts
<1> DEFINE e == EffectiveInterval(f)
           w == Waited(i)
           n == wanted[o][f]
<1>3. Demand(f) # {} /\ e <= n /\ e \in Nat /\ age[f] \in Nat /\ attempt[f] \in Nat
  BY <1>1, DemandFacts, AgesFacts
<1>4. w \in Nat /\ w <= Slack /\ Slack \in Nat
  BY <1>1, WaitedFits, PlacesFacts
<1>5. n \in Nat
  BY <1>1, CadenceAssumption DEF CadenceTypeOK
<1>6. attempt[f] <= w \/ age[f] <= e + w
  BY <1>1, <1>2, <1>3 DEF OnTime
<1> HIDE DEF e, w, n
<1>7. age[f] <= n + Slack \/ attempt[f] <= Slack
  BY <1>3, <1>4, <1>5, <1>6
<1> QED BY <1>7 DEF n

\* No organization's feed is fetched less often than it asked, but for the hours between
\* two starts of the timer and those of two turns of fetches; and a fetch that failed is
\* tried again within as much (services/intel_schedule, scripts/sync-intel.sh).
THEOREM NobodyGetsLessEver == CadenceSpec => []NobodyGetsLess
<1>1. CadenceInv => NobodyGetsLess
  BY NobodyIsLate
<1> QED BY CadenceInvariance, <1>1, PTL

(***************************************************************************)
(* The assistant.                                                          *)
(***************************************************************************)
Provider == [exists : BOOLEAN, kind : {e.kind : e \in Endpoints}, external : BOOLEAN, default : BOOLEAN,
             serves : {e.serves : e \in Endpoints}]
Waiting == [stage : {"quiet", "called", "stopped"}, of : Nat, provider : Nat]
AuditLine == [decision : {"allowed", "blocked", "degraded"}, external : BOOLEAN, of : Nat, today : BOOLEAN]
SentCall == [ask : Asks, carries : SUBSET UNION {a.carries : a \in Asks}, external : BOOLEAN, provider : Nat, policy : Policies]

AiTyped ==
  /\ policy \in Policies /\ providers \in Seq(Provider) /\ asker \in [Askers -> Waiting]
  /\ audit \in Seq(AuditLine) /\ sent \in Seq(SentCall) /\ limits \subseteq Nat
  /\ asked \in 0 .. MaxAsked /\ acts \in 0 .. MaxAdmin

\* Who waits for an answer knows its call and its endpoint, and nobody else waits for it.
WaitingsFit ==
  /\ \A r \in Askers :
       \/ asker[r] = Quiet
       \/ /\ asker[r].stage # "quiet" /\ asker[r].of \in DOMAIN sent /\ asker[r].provider \in DOMAIN providers
          /\ sent[asker[r].of].provider = asker[r].provider
  /\ \A q, r \in Askers : q # r /\ asker[q].of # 0 => asker[q].of # asker[r].of

\* A line is of a call that was made and that nobody waits for.
LinesFit ==
  \A n \in DOMAIN audit :
    /\ audit[n].of \in 0 .. Len(sent) /\ (audit[n].external => audit[n].of # 0)
    /\ \A r \in Askers : audit[n].of # 0 => audit[n].of # asker[r].of

\* What was sent went to an endpoint that was configured, and says where it went.
CallsFit ==
  \A m \in DOMAIN sent :
    /\ sent[m].provider \in DOMAIN providers
    /\ sent[m].external <=> External(providers[sent[m].provider])

\* The calls of the day that count, and those that will.
Counted == {n \in DOMAIN audit : audit[n].today /\ audit[n].decision # "blocked"}
Called == {r \in Askers : asker[r].stage = "called"}
Slip == IF crowded THEN Cardinality(Askers) - 1 ELSE 0

BudgetFits ==
  0 \notin limits =>
    \/ Cardinality(Counted) + Cardinality(Called) = 0
    \/ \E limit \in limits : Cardinality(Counted) + Cardinality(Called) <= limit + Slip

\* The inductive invariant.
AiInv ==
  /\ AiTyped /\ WaitingsFit /\ LinesFit /\ CallsFit
  /\ OnlyWhatMayLeaves /\ LinesAreHonest /\ BudgetFits


\* The endpoint that is chosen serves: the order of preference has a first among them.
LEMMA SelectedServes ==
  ASSUME AiTyped, NEW ask \in Asks, Serving(ask) # {}
  PROVE  Selected(ask) \in Serving(ask)
<1> DEFINE S == Serving(ask)
           D == {i \in S : providers[i].default}
           first == IF D # {} THEN D ELSE S
           N == {i \in first : ~providers[i].external}
           last == IF N # {} THEN N ELSE first
<1>1. S \subseteq DOMAIN providers /\ DOMAIN providers \subseteq Nat
  BY DEF Serving, AiTyped
<1>2. \A i \in DOMAIN providers : providers[i].default \in BOOLEAN /\ providers[i].external \in BOOLEAN
  <2>1. \A i \in DOMAIN providers : providers[i] \in Provider
    BY DEF AiTyped
  <2> QED BY <2>1 DEF Provider
<1>3. last \in SUBSET Nat /\ last # {} /\ last \subseteq S
  BY <1>1
<1>4. PICK m \in last : \A k \in last : m <= k
  BY <1>3, LeastNatural
<1>5. ASSUME NEW j \in S PROVE Preferred(m, j)
  <2>1. CASE j \in last
    <3>1. providers[m].default = providers[j].default /\ providers[m].external = providers[j].external
      BY <1>1, <1>2, <1>3, <2>1
    <3>2. m <= j
      BY <1>4, <2>1
    <3> QED BY <3>1, <3>2 DEF Preferred
  <2>2. CASE j \in first \ last
    <3>1. providers[m].default = providers[j].default /\ ~providers[m].external /\ providers[j].external
      BY <1>1, <1>2, <1>3, <2>2
    <3> QED BY <3>1 DEF Preferred
  <2>3. CASE j \notin first
    <3>1. providers[m].default /\ ~providers[j].default
      BY <1>1, <1>2, <1>3, <2>3
    <3> QED BY <3>1 DEF Preferred
  <2> QED BY <2>1, <2>2, <2>3
<1>6. m \in S
  BY <1>3
<1> HIDE DEF S, last
<1>7. \E i \in S : \A j \in S : Preferred(i, j)
  BY <1>5, <1>6
<1> QED BY <1>7 DEF S, Selected

\* What waits after a request was sent, and after it was answered.
LEMMA CalledGrows ==
  ASSUME NEW r \in Askers, asker \in [Askers -> Waiting], asker[r] = Quiet,
         NEW new \in Waiting, new.stage = "called", asker' = [asker EXCEPT ![r] = new]
  PROVE  /\ Cardinality(Called') = Cardinality(Called) + 1
         /\ Cardinality(Called') \in Nat /\ Cardinality(Called) \in Nat /\ Cardinality(Called') <= Cardinality(Askers)
<1>1. Called' = Called \cup {r} /\ r \notin Called
  BY DEF Called, Quiet, Waiting
<1>2. IsFiniteSet(Called) /\ IsFiniteSet(Called') /\ Cardinality(Called') <= Cardinality(Askers)
  <2>1. Called \in SUBSET Askers /\ Called' \in SUBSET Askers /\ IsFiniteSet(Askers)
    BY AiAssumption DEF Called
  <2> QED BY <2>1, FS_Subset
<1> QED BY <1>1, <1>2, FS_AddElement, FS_CardinalityType

LEMMA CalledShrinks ==
  ASSUME NEW r \in Askers, asker \in [Askers -> Waiting], asker[r].stage = "called",
         NEW new \in Waiting, new.stage # "called", asker' = [asker EXCEPT ![r] = new]
  PROVE  /\ Cardinality(Called') + 1 = Cardinality(Called)
         /\ Cardinality(Called') \in Nat /\ Cardinality(Called) \in Nat
<1>1. Called' = Called \ {r} /\ r \in Called
  BY DEF Called, Waiting
<1>2. IsFiniteSet(Called)
  <2>1. Called \in SUBSET Askers /\ IsFiniteSet(Askers)
    BY AiAssumption DEF Called
  <2> QED BY <2>1, FS_Subset
<1>3. IsFiniteSet(Called')
  BY <1>1, <1>2, FS_RemoveElement
<1>4. Cardinality(Called') = Cardinality(Called) - 1 /\ Cardinality(Called) \in Nat /\ Cardinality(Called') \in Nat
  BY <1>1, <1>2, <1>3, FS_RemoveElement, FS_CardinalityType
<1> QED BY <1>4

\* The others that wait are fewer than there are.
LEMMA OthersAreFewer ==
  ASSUME NEW r \in Askers, asker[r] = Quiet
  PROVE  Cardinality(Called) \in Nat /\ Cardinality(Askers) \in Nat /\ Cardinality(Called) <= Cardinality(Askers) - 1
<1>1. Called \in SUBSET (Askers \ {r}) /\ IsFiniteSet(Askers)
  BY AiAssumption DEF Called, Quiet
<1>2. IsFiniteSet(Askers \ {r}) /\ Cardinality(Askers \ {r}) = Cardinality(Askers) - 1 /\ Cardinality(Askers) \in Nat
  BY <1>1, FS_RemoveElement, FS_CardinalityType
<1> QED BY <1>1, <1>2, FS_Subset, FS_CardinalityType

LEMMA CountedType ==
  ASSUME audit \in Seq(AuditLine)
  PROVE  IsFiniteSet(Counted) /\ Cardinality(Counted) \in Nat
<1>1. Len(audit) \in Nat /\ Counted \in SUBSET (1 .. Len(audit))
  BY DEF Counted
<1>2. IsFiniteSet(1 .. Len(audit))
  BY <1>1, FS_Interval
<1>3. IsFiniteSet(Counted)
  BY <1>1, <1>2, FS_Subset
<1> QED BY <1>3, FS_CardinalityType

\* A line at the end of the log counts once if it is of a call that counts.
LEMMA LineCounts ==
  ASSUME audit \in Seq(AuditLine), NEW line \in AuditLine, line.today, audit' = Append(audit, line)
  PROVE  /\ audit' \in Seq(AuditLine) /\ DOMAIN audit' = 1 .. Len(audit) + 1 /\ audit'[Len(audit) + 1] = line
         /\ Len(audit) \in Nat /\ DOMAIN audit = 1 .. Len(audit) /\ \A n \in DOMAIN audit : audit'[n] = audit[n]
         /\ Cardinality(Counted) \in Nat
         /\ Cardinality(Counted') = IF line.decision = "blocked" THEN Cardinality(Counted) ELSE Cardinality(Counted) + 1
<1>1. /\ audit' \in Seq(AuditLine) /\ Len(audit') = Len(audit) + 1 /\ audit'[Len(audit) + 1] = line
      /\ Len(audit) \in Nat /\ DOMAIN audit = 1 .. Len(audit) /\ \A n \in DOMAIN audit : audit'[n] = audit[n]
  BY AppendProperties
<1>2. DOMAIN audit' = 1 .. Len(audit) + 1
  BY <1>1
<1>3. Counted' = IF line.decision = "blocked" THEN Counted ELSE Counted \cup {Len(audit) + 1}
  BY <1>1, <1>2 DEF Counted
<1>4. Len(audit) + 1 \notin Counted
  BY <1>1 DEF Counted
<1> QED BY <1>1, <1>2, <1>3, <1>4, CountedType, FS_AddElement

LEMMA CalledType == Cardinality(Called) \in Nat /\ Cardinality(Askers) \in Nat
<1>1. Called \in SUBSET Askers /\ IsFiniteSet(Askers)
  BY AiAssumption DEF Called
<1> QED BY <1>1, FS_Subset, FS_CardinalityType

LEMMA AiStarts == AiInit => AiInv
<1> SUFFICES ASSUME AiInit PROVE AiInv
  OBVIOUS
<1>1. AiTyped
  <2>1. Quiet \in Waiting
    BY DEF Quiet, Waiting
  <2>2. policy \in Policies /\ asked \in 0 .. MaxAsked /\ acts \in 0 .. MaxAdmin /\ asker \in [Askers -> Waiting]
    <3>1. asker \in [Askers -> Waiting]
      BY <2>1 DEF AiInit
    <3>2. Defaults \in Policies /\ MaxAsked \in Nat /\ MaxAdmin \in Nat
      BY AiAssumption
    <3> QED BY <3>1, <3>2 DEF AiInit
  <2>3. providers \in Seq(Provider) /\ audit \in Seq(AuditLine) /\ sent \in Seq(SentCall) /\ limits \subseteq Nat
    BY DEF AiInit
  <2> QED BY <2>2, <2>3 DEF AiTyped
<1>2. WaitingsFit /\ LinesFit /\ CallsFit /\ OnlyWhatMayLeaves /\ LinesAreHonest
  BY DEF AiInit, WaitingsFit, LinesFit, CallsFit, OnlyWhatMayLeaves, LinesAreHonest, Quiet
<1>3. BudgetFits
  <2>1. Counted = {} /\ Called = {}
    BY DEF AiInit, Counted, Called, Quiet
  <2> QED BY <2>1, FS_EmptySet DEF BudgetFits
<1> QED BY <1>1, <1>2, <1>3 DEF AiInv

\* A line at the end of the log, of no call or of one that has none and that nobody
\* waits for any more.
LEMMA LogGrows ==
  ASSUME AiInv, NEW line \in AuditLine, line.today, audit' = Append(audit, line), UNCHANGED <<sent, providers>>,
         line.of \in 0 .. Len(sent), \A n \in DOMAIN audit : line.of # 0 => audit[n].of # line.of,
         \A q \in Askers : /\ asker'[q].of = 0 \/ asker'[q].of = asker[q].of
                           /\ line.of # 0 => asker'[q].of # line.of
                           /\ asker[q].of # 0 => asker'[q].of = asker[q].of \/ asker[q].of = line.of,
         (line.decision = "blocked") => (line.of = 0), line.external => line.of # 0 /\ sent[line.of].external,
         (line.of # 0 /\ sent[line.of].external) => (line.external \/ line.decision = "degraded")
  PROVE  LinesFit' /\ LinesAreHonest'
<1>1. /\ DOMAIN audit' = 1 .. Len(audit) + 1 /\ audit'[Len(audit) + 1] = line
      /\ Len(audit) \in Nat /\ DOMAIN audit = 1 .. Len(audit) /\ \A n \in DOMAIN audit : audit'[n] = audit[n]
  BY LineCounts DEF AiInv, AiTyped
<1> DEFINE last == Len(audit) + 1
<1>2. \A n \in DOMAIN audit' : n = last \/ (n \in DOMAIN audit /\ n # last)
  <2>1. DOMAIN audit' = 1 .. Len(audit) + 1 /\ Len(audit) \in Nat /\ DOMAIN audit = 1 .. Len(audit)
    BY <1>1
  <2> QED BY <2>1
<1>3. last \in DOMAIN audit' /\ audit'[last] = line /\ DOMAIN audit \subseteq DOMAIN audit'
  BY <1>1
<1> HIDE DEF last
<1>4. LinesFit'
  BY <1>1, <1>2, <1>3 DEF AiInv, LinesFit
<1>5. \A n, k \in DOMAIN audit' : n # k /\ audit'[n].of # 0 => audit'[n].of # audit'[k].of
  BY <1>1, <1>2, <1>3 DEF AiInv, LinesAreHonest
<1>6. \A n \in DOMAIN audit' :
        /\ audit'[n].decision = "blocked" => audit'[n].of = 0
        /\ audit'[n].external => sent[audit'[n].of].external
        /\ audit'[n].of # 0 /\ sent[audit'[n].of].external => audit'[n].external \/ audit'[n].decision = "degraded"
  BY <1>1, <1>2, <1>3 DEF AiInv, LinesAreHonest
<1>7. ASSUME NEW m \in DOMAIN sent
      PROVE  \/ \E n \in DOMAIN audit' : audit'[n].of = m
             \/ \E q \in Askers : asker'[q].of = m
             \/ ~providers[sent[m].provider].exists
  <2>1. m # 0
    BY DEF AiInv, AiTyped
  <2>2. CASE \E n \in DOMAIN audit : audit[n].of = m
    BY <1>1, <1>3, <2>2
  <2>3. CASE \E q \in Askers : asker[q].of = m
    <3>1. PICK q \in Askers : asker[q].of = m
      BY <2>3
    <3>2. asker'[q].of = m \/ line.of = m
      BY <2>1, <3>1
    <3> QED BY <1>3, <3>2
  <2>4. CASE ~providers[sent[m].provider].exists
    BY <2>4
  <2> QED BY <2>2, <2>3, <2>4 DEF AiInv, LinesAreHonest
<1>8. LinesAreHonest'
  BY <1>5, <1>6, <1>7 DEF LinesAreHonest
<1> QED BY <1>4, <1>8

\* A question that is let through was inside a limit of the day, but for the others that
\* are on their way.
LEMMA BudgetGrows ==
  ASSUME AiInv, NEW r \in Askers, asker[r] = Quiet, limits' = limits \cup {policy.limit},
         crowded => crowded', ~crowded' => \A q \in Askers : asker[q] = Quiet,
         \/ Cardinality(Counted') + Cardinality(Called') = Cardinality(Counted) + Cardinality(Called)
         \/ /\ Cardinality(Counted') + Cardinality(Called') = Cardinality(Counted) + Cardinality(Called) + 1
            /\ policy.limit = 0 \/ Cardinality(Counted) + 1 <= policy.limit
  PROVE  BudgetFits'
<1> DEFINE c == Cardinality(Counted)
           d == Cardinality(Called)
           a == Cardinality(Askers)
           sum == Cardinality(Counted') + Cardinality(Called')
<1>1. c \in Nat /\ d \in Nat /\ a \in Nat /\ d <= a - 1
  BY CountedType, OthersAreFewer DEF AiInv, AiTyped
<1>2. ~crowded' => d = 0
  <2>1. ~crowded' => Called = {}
    BY DEF Called, Quiet
  <2> QED BY <2>1, FS_EmptySet
<1>3. Slip' = IF crowded' THEN a - 1 ELSE 0
  BY DEF Slip
<1>4. Slip \in Nat /\ Slip' \in Nat /\ Slip <= Slip'
  <2>1. a - 1 \in Nat
    BY <1>1
  <2>2. CASE crowded
    BY <1>3, <2>1, <2>2 DEF Slip
  <2>3. CASE ~crowded
    <3>1. Slip = 0
      BY <2>3 DEF Slip
    <3> QED BY <1>3, <2>1, <3>1
  <2> QED BY <2>2, <2>3
<1>5. limits \subseteq limits' /\ limits \subseteq Nat /\ policy.limit \in limits' /\ policy.limit \in Nat
  BY AiAssumption DEF AiInv, AiTyped
<1>6. SUFFICES ASSUME 0 \notin limits'
               PROVE  sum = 0 \/ \E limit \in limits' : sum <= limit + Slip'
  BY DEF BudgetFits
<1>7. c + d = 0 \/ \E limit \in limits : c + d <= limit + Slip
  BY <1>5, <1>6 DEF AiInv, BudgetFits
<1>8. sum = c + d \/ (sum = c + d + 1 /\ (policy.limit = 0 \/ c + 1 <= policy.limit))
  OBVIOUS
<1> HIDE DEF c, d, a, sum
<1>9. CASE sum = c + d
  <2>1. CASE c + d = 0
    BY <1>9, <2>1
  <2>2. CASE \E limit \in limits : c + d <= limit + Slip
    <3>1. PICK limit \in limits : c + d <= limit + Slip
      BY <2>2
    <3>2. limit \in limits' /\ limit \in Nat
      BY <1>5
    <3>3. \A x, l, u, v \in Nat : x <= l + u /\ u <= v => x <= l + v
      OBVIOUS
    <3>4. sum \in Nat /\ sum <= limit + Slip
      BY <1>1, <1>9, <3>1
    <3>5. sum <= limit + Slip'
      BY <1>4, <3>2, <3>3, <3>4
    <3> QED BY <3>2, <3>5
  <2> QED BY <1>7, <2>1, <2>2
<1>10. CASE sum = c + d + 1 /\ (policy.limit = 0 \/ c + 1 <= policy.limit)
  <2>1. policy.limit # 0
    BY <1>5, <1>6
  <2>2. d <= Slip'
    <3>1. CASE crowded'
      BY <1>1, <1>3, <3>1
    <3>2. CASE ~crowded'
      BY <1>2, <1>4, <3>2
    <3> QED BY <3>1, <3>2
  <2>3. sum <= policy.limit + Slip'
    BY <1>1, <1>4, <1>5, <1>10, <2>1, <2>2
  <2> QED BY <1>5, <2>3
<1> QED BY <1>8, <1>9, <1>10

\* A question that is answered without a call.
LEMMA AnsweredAtOnce ==
  ASSUME AiInv, NEW r \in Askers, NEW ask \in Asks, UNCHANGED <<asker, sent, policy, providers, acts>>,
         asked < MaxAsked, asked' = asked + 1, asker[r] = Quiet, limits' = limits \cup {policy.limit},
         crowded => crowded', ~crowded' => \A q \in Askers : asker[q] = Quiet,
         NEW line \in AuditLine, line.of = 0, ~line.external, line.today, audit' = Append(audit, line),
         (line.decision = "blocked") <=> Refused(ask)
  PROVE  AiInv'
<1>1. policy.limit \in Nat
  BY AiAssumption DEF AiInv, AiTyped
<1>2. audit' \in Seq(AuditLine)
  BY LineCounts DEF AiInv, AiTyped
<1>3. AiTyped'
  <2>1. asked' \in 0 .. MaxAsked /\ limits' \subseteq Nat
    <3>1. asked \in 0 .. MaxAsked /\ limits \subseteq Nat /\ MaxAsked \in Nat
      BY AiAssumption DEF AiInv, AiTyped
    <3>2. asked' \in 0 .. MaxAsked
      BY <3>1
    <3>3. limits' \subseteq Nat
      BY <1>1, <3>1
    <3> QED BY <3>2, <3>3
  <2> QED BY <1>2, <2>1 DEF AiInv, AiTyped
<1>4. WaitingsFit' /\ CallsFit' /\ OnlyWhatMayLeaves'
  BY DEF AiInv, WaitingsFit, CallsFit, OnlyWhatMayLeaves, External
<1>5. LinesFit' /\ LinesAreHonest'
  <2>1. Len(sent) \in Nat
    BY DEF AiInv, AiTyped
  <2> QED BY <2>1, LogGrows
<1>6. BudgetFits'
  <2> DEFINE c == Cardinality(Counted)
  <2>1. Called' = Called /\ c \in Nat /\ Cardinality(Called) \in Nat
    BY CountedType, CalledType DEF AiInv, AiTyped, Called
  <2>2. Cardinality(Counted') = IF Refused(ask) THEN c ELSE c + 1
    BY LineCounts DEF AiInv, AiTyped
  <2>3. ~Refused(ask) => policy.limit = 0 \/ c + 1 <= policy.limit
    <3>1. ~Refused(ask) => policy.limit = 0 \/ ~(c >= policy.limit)
      BY Zenon DEF Refused, CallsToday, Counted
    <3> QED BY <1>1, <2>1, <3>1
  <2> QED BY <2>1, <2>2, <2>3, BudgetGrows
<1> QED BY <1>3, <1>4, <1>5, <1>6 DEF AiInv

\* What is sent is what the policy lets out, to an endpoint it may go to.
LEMMA WhatIsSent ==
  ASSUME AiInv, NEW ask \in Asks, ~Refused(ask), Serving(ask) # {}
  PROVE  LET provider == Selected(ask)
             external == External(providers[provider])
             call == [ask |-> ask, carries |-> Sanitized(ask, external), external |-> external, provider |-> provider, policy |-> policy]
         IN  /\ provider \in DOMAIN providers /\ provider \in Nat /\ call \in SentCall
             /\ ask.permitted /\ ask.capability \notin policy.disabled
             /\ external => policy.external /\ ask.class <= policy.maxExternal /\ "address" \notin call.carries
             /\ ~external => policy.local /\ ask.class <= policy.maxLocal
             /\ policy.redact => "secret" \notin call.carries
             /\ policy.guard => "injection" \notin call.carries
<1> DEFINE provider == Selected(ask)
           external == External(providers[provider])
           kept == Sanitized(ask, external)
<1>1. provider \in Serving(ask)
  BY SelectedServes DEF AiInv
<1>2. provider \in DOMAIN providers /\ provider \in Nat /\ Allowed(providers[provider], ask.class) /\ policy \in Policies
  BY <1>1 DEF Serving, AiInv, AiTyped
<1>3. providers[provider] \in Provider /\ external \in BOOLEAN
  BY <1>2 DEF AiInv, AiTyped, External
<1>4. ask.permitted /\ ask.capability \notin policy.disabled /\ (policy.guard => "injection" \notin ask.carries)
  BY DEF Refused
<1>5. /\ external => policy.external /\ ask.class <= policy.maxExternal
      /\ ~external => policy.local /\ ask.class <= policy.maxLocal
  BY <1>2 DEF Allowed, Ceiling
<1>6. /\ kept \subseteq ask.carries /\ (external => "address" \notin kept) /\ (policy.redact => "secret" \notin kept)
  BY DEF Sanitized
<1>7. kept \in SUBSET UNION {a.carries : a \in Asks}
  BY <1>6
<1> HIDE DEF provider, external, kept
<1>8. [ask |-> ask, carries |-> kept, external |-> external, provider |-> provider, policy |-> policy] \in SentCall
  BY <1>2, <1>3, <1>7 DEF SentCall
<1> QED BY <1>2, <1>4, <1>5, <1>6, <1>8 DEF provider, external, kept

\* A question that goes to an endpoint.
LEMMA SendingKeeps ==
  ASSUME AiInv, NEW r \in Askers, NEW ask \in Asks, UNCHANGED <<audit, policy, providers, acts>>,
         asked < MaxAsked, asked' = asked + 1, asker[r] = Quiet, limits' = limits \cup {policy.limit},
         crowded => crowded', ~crowded' => \A q \in Askers : asker[q] = Quiet, ~Refused(ask),
         NEW provider \in DOMAIN providers, provider \in Nat,
         NEW call \in SentCall, call.provider = provider, call.policy = policy, call.ask = ask,
         call.external <=> External(providers[provider]),
         ask.permitted /\ ask.capability \notin policy.disabled,
         call.external => policy.external /\ ask.class <= policy.maxExternal /\ "address" \notin call.carries,
         ~call.external => policy.local /\ ask.class <= policy.maxLocal,
         policy.redact => "secret" \notin call.carries, policy.guard => "injection" \notin call.carries,
         sent' = Append(sent, call),
         asker' = [asker EXCEPT ![r] = [stage |-> "called", of |-> Len(sent) + 1, provider |-> provider]]
  PROVE  AiInv'
<1> DEFINE last == Len(sent) + 1
           waiting == [stage |-> "called", of |-> last, provider |-> provider]
<1>1. policy.limit \in Nat
  BY AiAssumption DEF AiInv, AiTyped
<1>2. /\ sent' \in Seq(SentCall) /\ Len(sent') = Len(sent) + 1 /\ sent'[Len(sent) + 1] = call
      /\ Len(sent) \in Nat /\ DOMAIN sent = 1 .. Len(sent) /\ \A n \in DOMAIN sent : sent'[n] = sent[n]
  BY AppendProperties DEF AiInv, AiTyped
<1>3. /\ last \in Nat /\ last # 0 /\ last \in DOMAIN sent' /\ sent'[last] = call /\ last \notin DOMAIN sent
      /\ DOMAIN sent \subseteq DOMAIN sent' /\ \A n \in DOMAIN sent' : n = last \/ n \in DOMAIN sent
  <2>1. DOMAIN sent' = 1 .. Len(sent) + 1
    BY <1>2
  <2> QED BY <1>2, <2>1
<1>4. waiting \in Waiting /\ waiting.stage = "called" /\ waiting.of = last /\ waiting.provider = provider
  BY <1>3 DEF Waiting
<1>5. asker' = [asker EXCEPT ![r] = waiting]
  OBVIOUS
<1>6. Len(sent') = last /\ Len(sent) \in Nat /\ \A n \in 0 .. Len(sent) : n \in 0 .. last /\ n # last
  BY <1>2
<1> HIDE DEF last, waiting
<1>7. asker \in [Askers -> Waiting] /\ asker' \in [Askers -> Waiting] /\ asker'[r] = waiting /\ \A q \in Askers \ {r} : asker'[q] = asker[q]
  BY <1>4, <1>5 DEF AiInv, AiTyped
<1>8. AiTyped'
  <2>1. asked' \in 0 .. MaxAsked /\ limits' \subseteq Nat
    <3>1. asked \in 0 .. MaxAsked /\ limits \subseteq Nat /\ MaxAsked \in Nat
      BY AiAssumption DEF AiInv, AiTyped
    <3>2. asked' \in 0 .. MaxAsked
      BY <3>1
    <3>3. limits' \subseteq Nat
      BY <1>1, <3>1
    <3> QED BY <3>2, <3>3
  <2> QED BY <1>2, <1>7, <2>1 DEF AiInv, AiTyped
<1>9. \A q \in Askers : asker[q].of = 0 \/ asker[q].of \in DOMAIN sent
  BY DEF AiInv, WaitingsFit, Quiet
<1>10. WaitingsFit'
  <2>1. ASSUME NEW q \in Askers, asker'[q] # Quiet
        PROVE  /\ asker'[q].stage # "quiet" /\ asker'[q].of \in DOMAIN sent' /\ asker'[q].provider \in DOMAIN providers
               /\ sent'[asker'[q].of].provider = asker'[q].provider
    <3>1. CASE q = r
      BY <1>3, <1>4, <1>7, <3>1
    <3>2. CASE q # r
      BY <1>2, <1>3, <1>7, <2>1, <3>2 DEF AiInv, WaitingsFit
    <3> QED BY <3>1, <3>2
  <2>2. ASSUME NEW p \in Askers, NEW q \in Askers, p # q, asker'[p].of # 0
        PROVE  asker'[p].of # asker'[q].of
    <3>1. CASE p # r /\ q # r
      BY <1>7, <2>2, <3>1 DEF AiInv, WaitingsFit
    <3>2. CASE p = r \/ q = r
      BY <1>3, <1>4, <1>7, <1>9, <2>2, <3>2
    <3> QED BY <3>1, <3>2
  <2> QED BY <2>1, <2>2 DEF WaitingsFit
<1>11. LinesFit'
  BY <1>4, <1>6, <1>7 DEF AiInv, LinesFit
<1>12. CallsFit'
  BY <1>2, <1>3 DEF AiInv, CallsFit, External
<1>13. OnlyWhatMayLeaves'
  <2> SUFFICES ASSUME NEW n \in DOMAIN sent'
               PROVE  LET s == sent'[n]
                          row == providers[s.provider]
                          outside == row.external \/ row.kind = "hosted"
                      IN  /\ s.ask.permitted /\ s.ask.capability \notin s.policy.disabled
                          /\ outside => s.policy.external /\ s.ask.class <= s.policy.maxExternal /\ "address" \notin s.carries
                          /\ ~outside => s.policy.local /\ s.ask.class <= s.policy.maxLocal
                          /\ s.policy.redact => "secret" \notin s.carries
                          /\ s.policy.guard => "injection" \notin s.carries
    BY DEF OnlyWhatMayLeaves
  <2>1. CASE n = last
    BY <1>3, <2>1 DEF External
  <2>2. CASE n \in DOMAIN sent
    BY <1>2, <2>2 DEF AiInv, OnlyWhatMayLeaves
  <2> QED BY <1>3, <2>1, <2>2
<1>14. LinesAreHonest'
  <2>1. \A n \in DOMAIN audit : audit[n].of = 0 \/ audit[n].of \in DOMAIN sent
    BY <1>2 DEF AiInv, LinesFit
  <2>2. \A n \in DOMAIN audit : audit[n].external => audit[n].of # 0
    BY DEF AiInv, LinesFit
  <2>3. \A n \in DOMAIN audit :
          /\ audit[n].decision = "blocked" => audit[n].of = 0
          /\ audit[n].external => sent'[audit[n].of].external
          /\ audit[n].of # 0 /\ sent'[audit[n].of].external => audit[n].external \/ audit[n].decision = "degraded"
    BY <1>2, <2>1, <2>2 DEF AiInv, LinesAreHonest
  <2>4. ASSUME NEW m \in DOMAIN sent'
        PROVE  \/ \E n \in DOMAIN audit : audit[n].of = m
               \/ \E q \in Askers : asker'[q].of = m
               \/ ~providers[sent'[m].provider].exists
    <3>1. CASE m = last
      BY <1>4, <1>7, <3>1
    <3>2. CASE m \in DOMAIN sent
      <4>1. m # 0 /\ sent'[m] = sent[m]
        BY <1>2, <3>2
      <4>2. \A q \in Askers : asker[q].of = m => asker'[q].of = m
        BY <1>7, <4>1 DEF Quiet
      <4> QED BY <3>2, <4>1, <4>2 DEF AiInv, LinesAreHonest
    <3> QED BY <1>3, <3>1, <3>2
  <2>5. \A n, k \in DOMAIN audit : n # k /\ audit[n].of # 0 => audit[n].of # audit[k].of
    BY DEF AiInv, LinesAreHonest
  <2> QED BY <2>3, <2>4, <2>5 DEF LinesAreHonest
<1>15. BudgetFits'
  <2> DEFINE c == Cardinality(Counted)
  <2>1. Counted' = Counted /\ c \in Nat /\ Cardinality(Called') = Cardinality(Called) + 1 /\ Cardinality(Called) \in Nat
    BY <1>4, <1>5, <1>7, CountedType, CalledGrows DEF AiInv, AiTyped, Counted
  <2>2. policy.limit = 0 \/ c + 1 <= policy.limit
    <3>1. policy.limit = 0 \/ ~(c >= policy.limit)
      BY Zenon DEF Refused, CallsToday, Counted
    <3> QED BY <1>1, <2>1, <3>1
  <2>3. Cardinality(Counted') + Cardinality(Called') = Cardinality(Counted) + Cardinality(Called) + 1
    BY <2>1
  <2> QED BY <2>2, <2>3, BudgetGrows
<1> QED BY <1>8, <1>10, <1>11, <1>12, <1>13, <1>14, <1>15 DEF AiInv

\* What a question comes to.
LEMMA AskKeeps ==
  ASSUME AiInv, NEW r \in Askers, Ask(r)
  PROVE  AiInv'
<1>1. PICK ask \in Asks :
        /\ asked < MaxAsked /\ asked' = asked + 1 /\ asker[r] = Quiet /\ limits' = limits \cup {policy.limit}
        /\ crowded' = (crowded \/ \E q \in Askers : asker[q] # Quiet)
        /\ IF Refused(ask) \/ Serving(ask) = {}
           THEN /\ audit' = Append(audit, Line(IF Refused(ask) THEN "blocked" ELSE "degraded", FALSE, 0))
                /\ UNCHANGED <<asker, sent>>
           ELSE /\ sent' = Append(sent, [ask |-> ask, carries |-> Sanitized(ask, External(providers[Selected(ask)])),
                                         external |-> External(providers[Selected(ask)]), provider |-> Selected(ask), policy |-> policy])
                /\ asker' = [asker EXCEPT ![r] = [stage |-> "called", of |-> Len(sent) + 1, provider |-> Selected(ask)]]
                /\ UNCHANGED audit
        /\ UNCHANGED <<policy, providers, acts>>
  BY DEF Ask
<1>2. (crowded => crowded') /\ (~crowded' => \A q \in Askers : asker[q] = Quiet)
  BY <1>1, Zenon
<1>3. UNCHANGED <<policy, providers, acts>> /\ asked < MaxAsked /\ asked' = asked + 1 /\ asker[r] = Quiet /\ limits' = limits \cup {policy.limit}
  BY <1>1
<1>4. CASE Refused(ask) \/ Serving(ask) = {}
  <2> DEFINE decision == IF Refused(ask) THEN "blocked" ELSE "degraded"
             line == Line(decision, FALSE, 0)
  <2>1. decision \in {"blocked", "degraded"} /\ ((decision = "blocked") <=> Refused(ask))
    OBVIOUS
  <2>2. audit' = Append(audit, line) /\ UNCHANGED <<asker, sent>>
    BY <1>1, <1>4
  <2> HIDE DEF decision
  <2>3. line \in AuditLine /\ line.of = 0 /\ ~line.external /\ line.today /\ line.decision = decision
    BY <2>1 DEF Line, AuditLine
  <2> HIDE DEF line
  <2> QED BY <1>2, <1>3, <2>1, <2>2, <2>3, AnsweredAtOnce
<1>5. CASE ~Refused(ask) /\ Serving(ask) # {}
  <2> DEFINE provider == Selected(ask)
             external == External(providers[provider])
             call == [ask |-> ask, carries |-> Sanitized(ask, external), external |-> external, provider |-> provider, policy |-> policy]
  <2>1. /\ sent' = Append(sent, call) /\ UNCHANGED audit
        /\ asker' = [asker EXCEPT ![r] = [stage |-> "called", of |-> Len(sent) + 1, provider |-> provider]]
    BY <1>1, <1>5
  <2>2. call.provider = provider /\ call.policy = policy /\ call.ask = ask /\ (call.external <=> external)
    OBVIOUS
  <2>3. /\ provider \in DOMAIN providers /\ provider \in Nat /\ call \in SentCall
        /\ ask.permitted /\ ask.capability \notin policy.disabled
        /\ external => policy.external /\ ask.class <= policy.maxExternal /\ "address" \notin call.carries
        /\ ~external => policy.local /\ ask.class <= policy.maxLocal
        /\ policy.redact => "secret" \notin call.carries
        /\ policy.guard => "injection" \notin call.carries
    BY <1>5, WhatIsSent
  <2>4. external <=> External(providers[provider])
    OBVIOUS
  <2> HIDE DEF provider, external, call
  <2> QED BY <1>2, <1>3, <1>5, <2>1, <2>2, <2>3, <2>4, SendingKeeps
<1> QED BY <1>4, <1>5

\* A call that is over: its line is written, or lost with the endpoint it went to.
LEMMA AnswerKeeps ==
  ASSUME AiInv, NEW r \in Askers, NEW served \in BOOLEAN, Answer(r, served)
  PROVE  AiInv'
<1> DEFINE of == asker[r].of
           exists == providers[asker[r].provider].exists
           line == IF served THEN Line("allowed", sent[of].external, of) ELSE Line("degraded", FALSE, of)
<1>1. /\ asker[r].stage = "called" /\ asker' = [asker EXCEPT ![r] = Quiet]
      /\ UNCHANGED <<policy, providers, sent, limits, crowded, asked, acts>>
      /\ audit' = IF ~exists THEN audit ELSE Append(audit, line)
  BY DEF Answer
<1>2. /\ of \in DOMAIN sent /\ sent[of].provider = asker[r].provider
      /\ \A q \in Askers \ {r} : asker[q].of # of
  <2>1. asker[r] # Quiet
    BY <1>1 DEF Quiet
  <2>2. of \in DOMAIN sent /\ sent[of].provider = asker[r].provider
    BY <2>1 DEF AiInv, WaitingsFit
  <2>3. of # 0
    BY <2>2 DEF AiInv, AiTyped
  <2> QED BY <2>2, <2>3 DEF AiInv, WaitingsFit
<1>3. of \in 0 .. Len(sent) /\ of # 0 /\ of \in Nat /\ sent[of].external \in BOOLEAN
  <2>1. sent \in Seq(SentCall)
    BY DEF AiInv, AiTyped
  <2>2. sent[of] \in SentCall /\ DOMAIN sent = 1 .. Len(sent) /\ Len(sent) \in Nat
    BY <1>2, <2>1
  <2> QED BY <1>2, <2>2 DEF SentCall
<1>4. \A n \in DOMAIN audit : audit[n].of # of
  BY <1>3 DEF AiInv, LinesFit
<1>5. /\ line \in AuditLine /\ line.of = of /\ line.today /\ line.decision # "blocked" /\ (line.external => sent[of].external)
      /\ sent[of].external => line.external \/ line.decision = "degraded"
  <2>1. CASE served
    BY <1>3, <2>1 DEF Line, AuditLine
  <2>2. CASE ~served
    BY <1>3, <2>2 DEF Line, AuditLine
  <2> QED BY <2>1, <2>2
<1> HIDE DEF of, exists, line
<1>6. Quiet \in Waiting /\ Quiet.of = 0 /\ Quiet.stage # "called"
  BY DEF Quiet, Waiting
<1>7. /\ asker \in [Askers -> Waiting] /\ asker' \in [Askers -> Waiting] /\ asker'[r] = Quiet
      /\ \A q \in Askers \ {r} : asker'[q] = asker[q]
  BY <1>1, <1>6 DEF AiInv, AiTyped
<1>8. WaitingsFit' /\ CallsFit' /\ OnlyWhatMayLeaves'
  <2>1. WaitingsFit'
    <3>1. \A q \in Askers : asker'[q] = Quiet \/ (q # r /\ asker'[q] = asker[q])
      BY <1>7
    <3>2. \A p, q \in Askers : p # q /\ asker'[p].of # 0 => asker'[p].of # asker'[q].of
      BY <1>6, <3>1 DEF AiInv, WaitingsFit
    <3>3. UNCHANGED <<sent, providers>>
      BY <1>1
    <3> QED BY <3>1, <3>2, <3>3 DEF AiInv, WaitingsFit
  <2>2. CallsFit'
    BY <1>1 DEF AiInv, CallsFit, External
  <2>3. OnlyWhatMayLeaves'
    BY <1>1 DEF AiInv, OnlyWhatMayLeaves
  <2> QED BY <2>1, <2>2, <2>3
<1>9. Cardinality(Called') + 1 = Cardinality(Called) /\ Cardinality(Called') \in Nat /\ Cardinality(Called) \in Nat
  BY <1>1, <1>6, <1>7, CalledShrinks
<1>10. Slip' = Slip /\ limits' = limits
  BY <1>1 DEF Slip
<1>11. CASE exists
  <2>1. audit' = Append(audit, line)
    BY <1>1, <1>11
  <2>2. /\ audit' \in Seq(AuditLine) /\ Cardinality(Counted) \in Nat /\ Cardinality(Counted') = Cardinality(Counted) + 1
    BY <1>5, <2>1, LineCounts DEF AiInv, AiTyped
  <2>3. AiTyped'
    BY <1>1, <1>7, <2>2 DEF AiInv, AiTyped
  <2>4. \A q \in Askers : /\ asker'[q].of = 0 \/ asker'[q].of = asker[q].of
                          /\ line.of # 0 => asker'[q].of # line.of
                          /\ asker[q].of # 0 => asker'[q].of = asker[q].of \/ asker[q].of = line.of
    BY <1>2, <1>3, <1>5, <1>6, <1>7 DEF of
  <2>5. UNCHANGED <<sent, providers>>
    BY <1>1
  <2>6. line.of \in 0 .. Len(sent) /\ \A n \in DOMAIN audit : line.of # 0 => audit[n].of # line.of
    BY <1>3, <1>4, <1>5
  <2>7. /\ (line.decision = "blocked") => (line.of = 0)
        /\ line.external => line.of # 0 /\ sent[line.of].external
        /\ (line.of # 0 /\ sent[line.of].external) => (line.external \/ line.decision = "degraded")
    BY <1>3, <1>5
  <2>8. LinesFit' /\ LinesAreHonest'
    BY <1>5, <2>1, <2>4, <2>5, <2>6, <2>7, LogGrows
  <2>9. Cardinality(Counted') + Cardinality(Called') = Cardinality(Counted) + Cardinality(Called)
    BY <1>9, <2>2
  <2>10. BudgetFits'
    BY <1>10, <2>9 DEF AiInv, BudgetFits
  <2> QED BY <1>8, <2>3, <2>8, <2>10 DEF AiInv
<1>12. CASE ~exists
  <2>1. audit' = audit
    BY <1>1, <1>12
  <2>2. AiTyped'
    BY <1>1, <1>7, <2>1 DEF AiInv, AiTyped
  <2>3. LinesFit'
    <3>1. \A q \in Askers : asker'[q].of = 0 \/ asker'[q].of = asker[q].of
      BY <1>6, <1>7
    <3> QED BY <1>1, <2>1, <3>1 DEF AiInv, LinesFit
  <2>4. LinesAreHonest'
    <3>1. \A m \in DOMAIN sent : m = of => ~providers[sent[m].provider].exists
      BY <1>2, <1>12 DEF exists
    <3>2. \A q \in Askers : asker[q].of = asker'[q].of \/ asker[q].of = of
      BY <1>7 DEF of
    <3>3. UNCHANGED <<sent, providers>>
      BY <1>1
    <3> QED BY <2>1, <3>1, <3>2, <3>3 DEF AiInv, LinesAreHonest
  <2>5. BudgetFits'
    <3>1. Counted' = Counted /\ Cardinality(Counted) \in Nat
      BY <2>1, CountedType DEF AiInv, AiTyped, Counted
    <3>2. \/ Cardinality(Counted) + Cardinality(Called) = 0
          \/ \E limit \in limits : Cardinality(Counted) + Cardinality(Called) <= limit + Slip
          \/ 0 \in limits
      BY DEF AiInv, BudgetFits
    <3>3. limits \subseteq Nat /\ Slip \in Int
      BY CalledType DEF AiInv, AiTyped, Slip
    <3> DEFINE c == Cardinality(Counted)
               d == Cardinality(Called)
               e == Cardinality(Called')
    <3>4. c \in Nat /\ e \in Nat /\ d = e + 1 /\ Cardinality(Counted') = c
      BY <1>9, <3>1
    <3> HIDE DEF c, d, e
    <3>5. ASSUME NEW limit \in limits, c + d <= limit + Slip PROVE c + e <= limit + Slip
      BY <3>3, <3>4, <3>5
    <3>6. c + d # 0
      BY <3>4
    <3>7. 0 \in limits \/ \E limit \in limits : c + e <= limit + Slip
      BY <3>2, <3>5, <3>6 DEF c, d
    <3> QED BY <1>10, <3>4, <3>7 DEF BudgetFits, e
  <2> QED BY <1>8, <2>2, <2>3, <2>4, <2>5 DEF AiInv
<1> QED BY <1>11, <1>12

\* A process that stops leaves its call without an answer.
LEMMA StopKeeps ==
  ASSUME AiInv, NEW r \in Askers, Stops(r)
  PROVE  AiInv'
<1> DEFINE new == [stage |-> "stopped", of |-> asker[r].of, provider |-> asker[r].provider]
<1>1. /\ asker[r].stage = "called" /\ asker' = [asker EXCEPT ![r] = new]
      /\ UNCHANGED <<policy, providers, audit, sent, limits, crowded, asked, acts>>
  <2>1. asker[r] \in Waiting
    BY DEF AiInv, AiTyped
  <2>2. new = [asker[r] EXCEPT !.stage = "stopped"]
    BY <2>1 DEF Waiting
  <2> QED BY <2>2 DEF Stops
<1>2. asker \in [Askers -> Waiting] /\ new \in Waiting /\ new.stage = "stopped" /\ new.of = asker[r].of /\ new.provider = asker[r].provider
  BY DEF AiInv, AiTyped, Waiting
<1> HIDE DEF new
<1>3. /\ asker' \in [Askers -> Waiting]
      /\ \A q \in Askers : /\ asker'[q].of = asker[q].of /\ asker'[q].provider = asker[q].provider
                           /\ asker'[q] = asker[q] \/ (asker'[q].stage = "stopped" /\ asker[q] # Quiet)
  BY <1>1, <1>2 DEF Quiet
<1>4. AiTyped'
  BY <1>1, <1>3 DEF AiInv, AiTyped
<1>5. WaitingsFit'
  <2>1. UNCHANGED sent /\ UNCHANGED providers
    BY <1>1
  <2> QED BY <1>3, <2>1 DEF AiInv, WaitingsFit
<1>6. LinesFit' /\ CallsFit' /\ OnlyWhatMayLeaves'
  BY <1>1, <1>3 DEF AiInv, LinesFit, CallsFit, OnlyWhatMayLeaves, External
<1>7. LinesAreHonest'
  BY <1>1, <1>3 DEF AiInv, LinesAreHonest
<1>8. BudgetFits'
  <2> DEFINE c == Cardinality(Counted)
             d == Cardinality(Called)
             e == Cardinality(Called')
  <2>1. c \in Nat /\ e \in Nat /\ d = e + 1 /\ Cardinality(Counted') = c
    BY <1>1, <1>2, CalledShrinks, CountedType DEF AiInv, AiTyped, Counted
  <2>2. c + d = 0 \/ (\E limit \in limits : c + d <= limit + Slip) \/ 0 \in limits
    BY DEF AiInv, BudgetFits
  <2>3. limits \subseteq Nat /\ Slip \in Int /\ Slip' = Slip /\ limits' = limits
    BY <1>1, CalledType DEF AiInv, AiTyped, Slip
  <2> HIDE DEF c, d, e
  <2>4. ASSUME NEW limit \in limits, c + d <= limit + Slip PROVE c + e <= limit + Slip
    BY <2>1, <2>3, <2>4
  <2>5. c + d # 0
    BY <2>1
  <2>6. 0 \in limits \/ \E limit \in limits : c + e <= limit + Slip
    BY <2>2, <2>4, <2>5
  <2> QED BY <2>1, <2>3, <2>6 DEF BudgetFits, e
<1> QED BY <1>4, <1>5, <1>6, <1>7, <1>8 DEF AiInv

\* Endpoints that are created and deleted stay what they were.
LEMMA ProvidersMove ==
  ASSUME AiInv, UNCHANGED <<policy, asker, audit, sent, limits, crowded, asked>>, acts' \in 0 .. MaxAdmin,
         providers' \in Seq(Provider), DOMAIN providers \subseteq DOMAIN providers',
         \A i \in DOMAIN providers : /\ providers'[i].kind = providers[i].kind /\ providers'[i].external = providers[i].external
                                     /\ providers'[i].exists => providers[i].exists
  PROVE  AiInv'
<1>1. AiTyped'
  BY DEF AiInv, AiTyped
<1>2. WaitingsFit' /\ LinesFit'
  BY DEF AiInv, WaitingsFit, LinesFit
<1>3. CallsFit'
  BY DEF AiInv, CallsFit, External
<1>4. OnlyWhatMayLeaves'
  <2>1. \A n \in DOMAIN sent : sent[n].provider \in DOMAIN providers
    BY DEF AiInv, CallsFit
  <2> QED BY <2>1 DEF AiInv, OnlyWhatMayLeaves
<1>5. LinesAreHonest'
  <2>1. \A n \in DOMAIN sent : sent[n].provider \in DOMAIN providers
    BY DEF AiInv, CallsFit
  <2> QED BY <2>1 DEF AiInv, LinesAreHonest
<1>6. BudgetFits'
  BY DEF AiInv, BudgetFits, Counted, Called, Slip
<1> QED BY <1>1, <1>2, <1>3, <1>4, <1>5, <1>6 DEF AiInv

LEMMA ActsType ==
  ASSUME AiInv, Act
  PROVE  acts' \in 0 .. MaxAdmin /\ UNCHANGED <<asker, sent, crowded, asked>>
<1>1. acts \in 0 .. MaxAdmin /\ MaxAdmin \in Nat
  BY AiAssumption DEF AiInv, AiTyped
<1> QED BY <1>1 DEF Act

LEMMA CreateProviderKeeps ==
  ASSUME AiInv, CreateProvider
  PROVE  AiInv'
<1>1. PICK e \in Endpoints :
        providers' = Append([i \in DOMAIN providers |-> [providers[i] EXCEPT !.default = @ /\ ~e.default]],
                            [exists |-> TRUE, kind |-> e.kind, external |-> e.external, default |-> e.default, serves |-> e.serves])
  BY DEF CreateProvider
<1> DEFINE rows == [i \in DOMAIN providers |-> [providers[i] EXCEPT !.default = @ /\ ~e.default]]
           row == [exists |-> TRUE, kind |-> e.kind, external |-> e.external, default |-> e.default, serves |-> e.serves]
<1>2. providers \in Seq(Provider) /\ e.external \in BOOLEAN /\ e.default \in BOOLEAN
  BY AiAssumption DEF AiInv, AiTyped
<1>3. row \in Provider
  BY <1>2 DEF Provider
<1>4. \A i \in DOMAIN providers : /\ rows[i] \in Provider /\ rows[i].kind = providers[i].kind
                                  /\ rows[i].external = providers[i].external /\ rows[i].exists = providers[i].exists
  <2>1. \A i \in DOMAIN providers : providers[i] \in Provider
    BY <1>2
  <2> QED BY <1>2, <2>1 DEF Provider
<1>5. providers' = Append(rows, row)
  BY <1>1
<1>6. Len(providers) \in Nat /\ DOMAIN providers = 1 .. Len(providers) /\ DOMAIN rows = 1 .. Len(providers)
  BY <1>2
<1> HIDE DEF row
<1>7. rows \in Seq(Provider) /\ Len(rows) = Len(providers)
  BY <1>4, <1>6, SeqDef
<1> HIDE DEF rows
<1>8. providers' \in Seq(Provider) /\ Len(providers') = Len(rows) + 1 /\ \A i \in 1 .. Len(rows) : providers'[i] = rows[i]
  BY <1>3, <1>5, <1>7, AppendProperties
<1>9. DOMAIN providers \subseteq DOMAIN providers'
  BY <1>6, <1>7, <1>8
<1>10. UNCHANGED <<policy, asker, audit, sent, limits, crowded, asked>> /\ acts' \in 0 .. MaxAdmin
  BY ActsType DEF CreateProvider
<1> QED BY <1>4, <1>6, <1>7, <1>8, <1>9, <1>10, ProvidersMove

LEMMA DeleteProviderKeeps ==
  ASSUME AiInv, DeleteProvider
  PROVE  AiInv'
<1>1. PICK i \in DOMAIN providers : providers' = [providers EXCEPT ![i].exists = FALSE]
  BY DEF DeleteProvider
<1>2. providers \in Seq(Provider) /\ providers[i] \in Provider
  BY DEF AiInv, AiTyped
<1> DEFINE row == [providers[i] EXCEPT !.exists = FALSE]
<1>3. row \in Provider /\ row.kind = providers[i].kind /\ row.external = providers[i].external /\ ~row.exists
  BY <1>2 DEF Provider
<1>4. providers' = [providers EXCEPT ![i] = row]
  BY <1>1
<1> HIDE DEF row
<1>5. /\ providers' \in Seq(Provider) /\ DOMAIN providers' = DOMAIN providers /\ providers'[i] = row
      /\ \A j \in DOMAIN providers : j # i => providers'[j] = providers[j]
  BY <1>2, <1>3, <1>4
<1>6. UNCHANGED <<policy, asker, audit, sent, limits, crowded, asked>> /\ acts' \in 0 .. MaxAdmin
  BY ActsType DEF DeleteProvider
<1> QED BY <1>3, <1>5, <1>6, ProvidersMove

LEMMA WritePolicyKeeps ==
  ASSUME AiInv, WritePolicy
  PROVE  AiInv'
<1>1. policy' \in Policies /\ UNCHANGED <<providers, asker, audit, sent, limits, crowded, asked>> /\ acts' \in 0 .. MaxAdmin
  BY ActsType DEF WritePolicy
<1>2. AiTyped'
  BY <1>1 DEF AiInv, AiTyped
<1>3. WaitingsFit' /\ LinesFit' /\ CallsFit'
  BY <1>1 DEF AiInv, WaitingsFit, LinesFit, CallsFit, External
<1>4. OnlyWhatMayLeaves' /\ LinesAreHonest'
  BY <1>1 DEF AiInv, OnlyWhatMayLeaves, LinesAreHonest
<1>5. BudgetFits'
  BY <1>1 DEF AiInv, BudgetFits, Counted, Called, Slip
<1> QED BY <1>2, <1>3, <1>4, <1>5 DEF AiInv

\* The lines of yesterday do not count.
LEMMA DayPassesKeeps ==
  ASSUME AiInv, DayPasses
  PROVE  AiInv'
<1>1. /\ UNCHANGED <<policy, providers, asker, sent, crowded, asked>> /\ acts' \in 0 .. MaxAdmin
      /\ limits' = {} /\ \A r \in Askers : asker[r].stage # "called"
      /\ audit' = [n \in DOMAIN audit |-> [audit[n] EXCEPT !.today = FALSE]]
  BY ActsType DEF DayPasses
<1>2. audit \in Seq(AuditLine) /\ Len(audit) \in Nat /\ DOMAIN audit = 1 .. Len(audit)
  BY DEF AiInv, AiTyped
<1>3. \A n \in DOMAIN audit : /\ audit'[n] \in AuditLine /\ ~audit'[n].today /\ audit'[n].decision = audit[n].decision
                              /\ audit'[n].external = audit[n].external /\ audit'[n].of = audit[n].of
  <2>1. \A n \in DOMAIN audit : audit[n] \in AuditLine
    BY <1>2
  <2> QED BY <1>1, <2>1 DEF AuditLine
<1>4. audit' \in Seq(AuditLine) /\ DOMAIN audit' = DOMAIN audit
  BY <1>1, <1>2, <1>3, SeqDef
<1>5. AiTyped'
  BY <1>1, <1>4 DEF AiInv, AiTyped
<1>6. WaitingsFit' /\ LinesFit' /\ CallsFit'
  BY <1>1, <1>3, <1>4 DEF AiInv, WaitingsFit, LinesFit, CallsFit, External
<1>7. OnlyWhatMayLeaves'
  BY <1>1 DEF AiInv, OnlyWhatMayLeaves
<1>8. LinesAreHonest'
  BY <1>1, <1>3, <1>4 DEF AiInv, LinesAreHonest
<1>9. BudgetFits'
  <2>1. Counted' = {} /\ Called' = {}
    BY <1>1, <1>3, <1>4 DEF Counted, Called
  <2>2. Cardinality(Counted') = 0 /\ Cardinality(Called') = 0
    BY <2>1, FS_EmptySet
  <2> QED BY <2>2 DEF BudgetFits
<1> QED BY <1>5, <1>6, <1>7, <1>8, <1>9 DEF AiInv

LEMMA AiStep == AiInv /\ [AiNext]_aiVars => AiInv'
<1> SUFFICES ASSUME AiInv, [AiNext]_aiVars PROVE AiInv'
  OBVIOUS
<1>1. CASE \E r \in Askers : Ask(r) \/ Stops(r) \/ \E served \in BOOLEAN : Answer(r, served)
  BY <1>1, AskKeeps, StopKeeps, AnswerKeeps
<1>2. CASE WritePolicy \/ CreateProvider \/ DeleteProvider \/ DayPasses
  BY <1>2, WritePolicyKeeps, CreateProviderKeeps, DeleteProviderKeeps, DayPassesKeeps
<1>3. CASE UNCHANGED aiVars
  <2>1. AiTyped' /\ WaitingsFit' /\ LinesFit' /\ CallsFit'
    BY <1>3 DEF aiVars, AiInv, AiTyped, WaitingsFit, LinesFit, CallsFit, External
  <2>2. OnlyWhatMayLeaves' /\ LinesAreHonest'
    BY <1>3 DEF aiVars, AiInv, OnlyWhatMayLeaves, LinesAreHonest
  <2>3. BudgetFits'
    BY <1>3 DEF aiVars, AiInv, BudgetFits, Counted, Called, Slip
  <2> QED BY <2>1, <2>2, <2>3 DEF AiInv
<1> QED BY <1>1, <1>2, <1>3 DEF AiNext

LEMMA AiInvariance == AiSpec => []AiInv
BY AiStarts, AiStep, PTL DEF AiSpec

LEMMA AiBounded == ASSUME AiInv PROVE AssistantIsBounded /\ AiTypeOK
<1>1. BudgetIsKept
  <2> DEFINE c == Cardinality(Counted)
             d == Cardinality(Called)
  <2>1. c \in Nat /\ d \in Nat /\ CallsToday = c /\ Slip = IF crowded THEN Cardinality(Askers) - 1 ELSE 0
    BY CountedType, CalledType DEF AiInv, AiTyped, CallsToday, Counted, Slip
  <2>2. limits \subseteq Nat /\ Slip \in Int
    BY CalledType DEF AiInv, AiTyped, Slip
  <2>3. 0 \notin limits => c + d = 0 \/ \E limit \in limits : c + d <= limit + Slip
    BY DEF AiInv, BudgetFits
  <2> HIDE DEF c, d
  <2>4. ASSUME NEW limit \in limits, c + d <= limit + Slip PROVE c <= limit + Slip
    BY <2>1, <2>2, <2>4
  <2>5. c + d = 0 => c = 0
    BY <2>1
  <2>6. 0 \notin limits => c = 0 \/ \E limit \in limits : c <= limit + Slip
    BY <2>3, <2>4, <2>5
  <2> QED BY <2>1, <2>6 DEF BudgetIsKept
<1>2. AiTypeOK
  <2>1. DOMAIN sent = 1 .. Len(sent) /\ DOMAIN providers = 1 .. Len(providers) /\ Len(sent) \in Nat /\ Len(providers) \in Nat
    BY DEF AiInv, AiTyped
  <2>2. \A r \in Askers : asker[r].of \in 0 .. Len(sent) /\ asker[r].provider \in 0 .. Len(providers)
    BY <2>1 DEF AiInv, WaitingsFit, Quiet
  <2> QED BY <2>2 DEF AiInv, AiTyped, AiTypeOK
<1> QED BY <1>1, <1>2 DEF AiInv, AssistantIsBounded

\* What leaves is what the policy lets out, every answered call has one honest line, and
\* the day's calls exceed the limits the day's requests found by no more than those that
\* were on their way together (services/ai/gateway).
THEOREM AssistantBounded == AiSpec => []AssistantIsBounded
<1>1. AiInv => AssistantIsBounded
  BY AiBounded
<1> QED BY AiInvariance, <1>1, PTL

(***************************************************************************)
(* An agent's authority.                                                   *)
(***************************************************************************)
Tool == [exists : BOOLEAN, enabled : BOOLEAN]
Words == {"none", "allowed", "refused", "withdrawn"}
ScanRecord == [state : {"queued", "leased"}, tool : ScanTools, target : Targets]
Rules == Rulebooks \cup {Inert}
Lease == [target : Targets, rulebook : Rules, word : Words]
Verdict == [state : {"none", "open", "closed"}, by : {<<>>} \cup {<<e>> : e \in Outcomes}]

AuthorityTyped ==
  /\ rulebook \in Rules /\ installed \subseteq ScanTools /\ declares \subseteq ScanTools
  /\ tools \in [ScanTools -> Tool] /\ word \in [ScanTools -> Words]
  /\ scanJob \in {NoScan} \cup ScanRecord
  /\ beat # NoBeat => beat.brings \subseteq ScanTools /\ beat.saw \in [ScanTools -> Tool]
  /\ claim # NoClaim => claim.rulebook \in Rules
  /\ verdict \in [Targets -> Verdict] /\ leases \in Seq(Lease)

\* A tool that is being toggled is there, and stays.
Toggled ==
  toggle # NoToggle =>
    toggle.tool \in ScanTools /\ toggle.saw \in BOOLEAN /\ toggle.on \in BOOLEAN /\ tools[toggle.tool].exists

\* An enabled tool is there and was last allowed.
Enabled == \A x \in ScanTools : tools[x].enabled => tools[x].exists /\ word[x] = "allowed"

\* The inductive invariant.
AuthorityInv == AuthorityTyped /\ Toggled /\ Enabled /\ LeasesAreAuthorised /\ AbsenceIsEvidence

\* What was handed out stays as it was said.
LEMMA LeasesKept ==
  ASSUME LeasesAreAuthorised, leases' = leases
  PROVE  LeasesAreAuthorised'
BY DEF LeasesAreAuthorised, Within, Speaking

\* A heartbeat's withdrawals and declarations say of every tool what they do to it.
LEMMA HeartbeatSpeaks ==
  ASSUME AuthorityInv, HeartbeatEnds
  PROVE  /\ tools' \in [ScanTools -> Tool] /\ word' \in [ScanTools -> Words]
         /\ \A x \in ScanTools : tools[x].exists => tools'[x].exists
         /\ Enabled'
<1> USE DEF AuthorityInv, AuthorityTyped, HeartbeatEnds
<1>1. ASSUME NEW x \in ScanTools
      PROVE  /\ Declared(x) \in Tool /\ Said(x) \in Words
             /\ tools[x].exists => Declared(x).exists
             /\ Declared(x).enabled => Declared(x).exists /\ Said(x) = "allowed"
  <2>1. tools[x] \in Tool /\ word[x] \in Words /\ beat.saw[x] \in Tool /\ AutoEnable \in BOOLEAN
    BY AuthorityAssumption
  <2>2. tools[x].enabled => tools[x].exists /\ word[x] = "allowed"
    BY DEF Enabled
  <2>3. CASE x \in beat.brings /\ beat.saw[x].exists
    BY <2>1, <2>2, <2>3 DEF Declared, Said
  <2>4. CASE x \in beat.brings /\ ~beat.saw[x].exists
    BY <2>1, <2>4 DEF Declared, Said, Tool, Words
  <2>5. CASE x \notin beat.brings /\ beat.saw[x].enabled
    BY <2>1, <2>5 DEF Declared, Said, Tool, Words
  <2>6. CASE x \notin beat.brings /\ ~beat.saw[x].enabled
    BY <2>1, <2>2, <2>6 DEF Declared, Said
  <2> QED BY <2>3, <2>4, <2>5, <2>6
<1>2. tools' = [x \in ScanTools |-> Declared(x)] /\ word' = [x \in ScanTools |-> Said(x)]
  OBVIOUS
<1> QED BY <1>1, <1>2 DEF Enabled

\* An operator's switch says what it does.
LEMMA ToggleSpeaks ==
  ASSUME AuthorityInv, ToggleEnds
  PROVE  tools' \in [ScanTools -> Tool] /\ word' \in [ScanTools -> Words] /\ Enabled'
<1> DEFINE x == toggle.tool
<1>1. x \in ScanTools /\ toggle.saw \in BOOLEAN /\ toggle.on \in BOOLEAN /\ tools[x].exists
  BY DEF ToggleEnds, AuthorityInv, Toggled
<1>2. tools \in [ScanTools -> Tool] /\ word \in [ScanTools -> Words] /\ tools[x] \in Tool
  BY <1>1 DEF AuthorityInv, AuthorityTyped
<1>3. CASE toggle.saw = toggle.on
  BY <1>1, <1>2, <1>3 DEF ToggleEnds, AuthorityInv, Enabled
<1>4. CASE toggle.saw # toggle.on
  <2> DEFINE row == [tools[x] EXCEPT !.enabled = toggle.on]
             said == IF toggle.on THEN "allowed" ELSE "refused"
  <2>1. row \in Tool /\ row.enabled = toggle.on /\ row.exists /\ said \in Words
    BY <1>1, <1>2 DEF Tool, Words
  <2>2. tools' = [tools EXCEPT ![x] = row] /\ word' = [word EXCEPT ![x] = said]
    BY <1>4 DEF ToggleEnds
  <2>3. toggle.on => said = "allowed"
    OBVIOUS
  <2> HIDE DEF row, said, x
  <2> QED BY <1>1, <1>2, <2>1, <2>2, <2>3 DEF AuthorityInv, Enabled
<1> QED BY <1>3, <1>4

\* What authorise_target admits speaks of the target in the way its kind allows.
LEMMA AuthorisedSpeaks ==
  ASSUME NEW p \in Rules, NEW t \in Targets, Authorised(p, t)
  PROVE  Within(p, t)
<1>1. t.address \in BOOLEAN /\ t.reserved \in BOOLEAN /\ (t.reserved => t.address)
  BY AuthorityAssumption
<1>2. \A rule \in p.allow \cup p.deny : rule.kind \in {"network", "literal", "glob"}
  BY AuthorityAssumption DEF Rules, Inert
<1>3. \A rule \in p.allow \cup p.deny : RuleCovers(rule, t) <=> t.host \in rule.covers /\ (rule.kind = "glob" <=> ~t.address)
  BY <1>1, <1>2 DEF RuleCovers
<1>4. PICK rule \in p.allow : RuleCovers(rule, t)
  BY DEF Authorised
<1>5. ASSUME t.reserved
      PROVE  \E r \in p.allow : r.covers = {t.host} /\ t.host \in r.covers /\ (r.kind = "glob" <=> ~t.address)
  <2>1. PICK r \in p.allow : r.kind = "literal" /\ r.covers = {t.host}
    BY <1>1, <1>5 DEF Authorised, Literally
  <2>2. t.host \in r.covers /\ (r.kind = "glob" <=> ~t.address)
    BY <1>1, <1>5, <2>1
  <2> QED BY <2>1, <2>2
<1>6. \A r \in p.deny : ~RuleCovers(r, t)
  BY DEF Authorised
<1> QED BY <1>3, <1>4, <1>5, <1>6 DEF Within, Speaking

\* A claim hands out what the policy admits, with a tool that was allowed.
LEMMA ClaimIsAuthorised ==
  ASSUME AuthorityInv, ClaimEnds
  PROVE  /\ scanJob' \in {NoScan} \cup ScanRecord
         /\ leases' \in Seq(Lease) /\ LeasesAreAuthorised'
<1>1. CASE UNCHANGED <<scanJob, leases>>
  <2>1. LeasesAreAuthorised'
    BY <1>1, LeasesKept DEF AuthorityInv
  <2> QED BY <1>1, <2>1 DEF AuthorityInv, AuthorityTyped
<1>2. CASE scanJob.state = "queued" /\ Claimable
  <2>1. scanJob \in ScanRecord /\ claim.rulebook \in Rules /\ leases \in Seq(Lease) /\ word \in [ScanTools -> Words]
    BY <1>2 DEF AuthorityInv, AuthorityTyped, NoScan, ClaimEnds
  <2> DEFINE x == scanJob.tool
             t == scanJob.target
             new == [target |-> t, rulebook |-> claim.rulebook, word |-> word[x]]
  <2>2. x \in ScanTools /\ t \in Targets /\ new \in Lease
    BY <2>1 DEF ScanRecord, Lease
  <2>3. new.word = "allowed" /\ Authorised(new.rulebook, new.target) /\ new.rulebook \in Rules /\ new.target \in Targets
    BY <1>2, <2>1, <2>2 DEF Claimable, AuthorityInv, Enabled
  <2>4. scanJob' = [scanJob EXCEPT !.state = "leased"] /\ leases' = Append(leases, new)
    BY <1>2 DEF ClaimEnds
  <2>5. scanJob' \in ScanRecord
    BY <2>1, <2>4 DEF ScanRecord
  <2> HIDE DEF new, x, t
  <2>6. /\ leases' \in Seq(Lease) /\ DOMAIN leases' = 1 .. Len(leases) + 1 /\ leases'[Len(leases) + 1] = new
        /\ \A n \in 1 .. Len(leases) : leases'[n] = leases[n]
    BY <2>1, <2>2, <2>4, AppendProperties
  <2>7. LeasesAreAuthorised'
    <3> SUFFICES ASSUME NEW n \in DOMAIN leases'
                 PROVE  Within(leases'[n].rulebook, leases'[n].target) /\ leases'[n].word = "allowed"
      BY DEF LeasesAreAuthorised, Within, Speaking
    <3>1. CASE n \in 1 .. Len(leases)
      <4>1. n \in DOMAIN leases /\ leases'[n] = leases[n]
        BY <2>1, <2>6, <3>1
      <4> QED BY <4>1 DEF AuthorityInv, LeasesAreAuthorised
    <3>2. CASE n = Len(leases) + 1
      <4>1. leases'[n] = new
        BY <2>6, <3>2
      <4> QED BY <2>3, <4>1, AuthorisedSpeaks
    <3>3. n \in 1 .. Len(leases) + 1 /\ Len(leases) \in Nat
      BY <2>1, <2>6
    <3> QED BY <3>1, <3>2, <3>3
  <2> QED BY <2>5, <2>6, <2>7
<1> QED BY <1>1, <1>2 DEF ClaimEnds

\* A result closes only on evidence.
LEMMA ResultIsEvidence ==
  ASSUME AuthorityInv, SubmitResult
  PROVE  verdict' \in [Targets -> Verdict] /\ AbsenceIsEvidence'
<1>1. PICK e \in Outcomes, closing \in BOOLEAN :
         /\ scanJob.state = "leased" /\ verdict' = Imported(e, scanJob.target, closing)
  BY DEF SubmitResult
<1> DEFINE t == scanJob.target
<1>2. t \in Targets /\ verdict \in [Targets -> Verdict]
  BY <1>1 DEF AuthorityInv, AuthorityTyped, ScanRecord, NoScan
<1>3. CASE verdict' = verdict
  BY <1>3 DEF AuthorityInv, AuthorityTyped, AbsenceIsEvidence
<1>4. CASE verdict' = [verdict EXCEPT ![t] = [state |-> "open", by |-> <<>>]]
  <2> DEFINE new == [state |-> "open", by |-> <<>>]
  <2>1. new \in Verdict /\ new.state # "closed"
    BY DEF Verdict
  <2> HIDE DEF new, t
  <2>2. verdict' = [verdict EXCEPT ![t] = new]
    BY <1>4 DEF new
  <2> QED BY <1>2, <2>1, <2>2 DEF AuthorityInv, AbsenceIsEvidence
<1>5. CASE Closes(e) /\ verdict' = [verdict EXCEPT ![t] = [state |-> "closed", by |-> <<e>>]]
  <2> DEFINE new == [state |-> "closed", by |-> <<e>>]
  <2>1. new \in Verdict /\ new.by[1] = e
    BY DEF Verdict
  <2>2. e.exit = 0 /\ e.stats # "none" /\ e.reachable /\ e.percent # "low" /\ e.errors # "high"
    BY <1>5 DEF Closes, Failed, Attests, Uncovered
  <2> HIDE DEF new, t
  <2>3. verdict' = [verdict EXCEPT ![t] = new]
    BY <1>5 DEF new
  <2> QED BY <1>2, <2>1, <2>2, <2>3 DEF AuthorityInv, AbsenceIsEvidence
<1> QED BY <1>1, <1>3, <1>4, <1>5 DEF Imported

LEMMA AuthorityStarts == AuthorityInit => AuthorityInv
<1> SUFFICES ASSUME AuthorityInit PROVE AuthorityInv
  OBVIOUS
<1>1. AuthorityTyped
  BY DEF AuthorityInit, AuthorityTyped, Rules, Tool, Words, Verdict, NoBeat, NoClaim, NoScan
<1>2. Toggled /\ Enabled /\ LeasesAreAuthorised /\ AbsenceIsEvidence
  BY DEF AuthorityInit, Toggled, Enabled, LeasesAreAuthorised, AbsenceIsEvidence, NoToggle
<1> QED BY <1>1, <1>2 DEF AuthorityInv

\* Operators and the host change what no conjunct about the past speaks of.
LEMMA EditKeeps ==
  ASSUME AuthorityInv, UpdateAgent \/ RegisterAsset \/ ToggleBegins \/ HostChanges \/ RunnerStarts \/ HeartbeatBegins \/ SubmitInventory
  PROVE  AuthorityInv'
<1>1. AuthorityTyped'
  BY DEF AuthorityInv, AuthorityTyped, UpdateAgent, RegisterAsset, ToggleBegins, HostChanges, RunnerStarts, HeartbeatBegins,
         SubmitInventory, Edit, Rules
<1>2. Toggled'
  BY DEF AuthorityInv, AuthorityTyped, Toggled, Tool, UpdateAgent, RegisterAsset, ToggleBegins, HostChanges, RunnerStarts,
         HeartbeatBegins, SubmitInventory, Edit, NoToggle
<1>3. Enabled' /\ LeasesAreAuthorised' /\ AbsenceIsEvidence'
  BY DEF AuthorityInv, Enabled, LeasesAreAuthorised, AbsenceIsEvidence, UpdateAgent, RegisterAsset, ToggleBegins, HostChanges,
         RunnerStarts, HeartbeatBegins, SubmitInventory, Edit
<1> QED BY <1>1, <1>2, <1>3 DEF AuthorityInv

\* The job before it is claimed and where it is given back.
LEMMA JobKeeps ==
  ASSUME AuthorityInv, QueueJob \/ ClaimBegins \/ RunnerDeclines \/ CancelScan
  PROVE  AuthorityInv'
<1>1. scanJob' \in {NoScan} \cup ScanRecord
  BY DEF AuthorityInv, AuthorityTyped, ScanRecord, NoScan, QueueJob, ClaimBegins, RunnerDeclines, CancelScan
<1>2. AuthorityTyped'
  BY <1>1 DEF AuthorityInv, AuthorityTyped, QueueJob, ClaimBegins, RunnerDeclines, CancelScan
<1>3. Toggled' /\ Enabled' /\ AbsenceIsEvidence'
  BY DEF AuthorityInv, Toggled, Enabled, AbsenceIsEvidence, QueueJob, ClaimBegins, RunnerDeclines, CancelScan
<1>4. LeasesAreAuthorised'
  BY LeasesKept DEF AuthorityInv, QueueJob, ClaimBegins, RunnerDeclines, CancelScan
<1> QED BY <1>2, <1>3, <1>4 DEF AuthorityInv

LEMMA AuthorityStep == AuthorityInv /\ [AuthorityNext]_authorityVars => AuthorityInv'
<1> SUFFICES ASSUME AuthorityInv, [AuthorityNext]_authorityVars PROVE AuthorityInv'
  OBVIOUS
<1>1. CASE UpdateAgent \/ RegisterAsset \/ ToggleBegins \/ HostChanges \/ RunnerStarts \/ HeartbeatBegins \/ SubmitInventory
  BY <1>1, EditKeeps
<1>2. CASE ToggleEnds
  <2>1. AuthorityTyped'
    BY <1>2, ToggleSpeaks DEF AuthorityInv, AuthorityTyped, ToggleEnds
  <2>2. Toggled' /\ LeasesAreAuthorised' /\ AbsenceIsEvidence'
    BY <1>2 DEF AuthorityInv, Toggled, ToggleEnds, LeasesAreAuthorised, AbsenceIsEvidence, NoToggle
  <2> QED BY <1>2, <2>1, <2>2, ToggleSpeaks DEF AuthorityInv
<1>3. CASE HeartbeatEnds
  <2>1. AuthorityTyped'
    BY <1>3, HeartbeatSpeaks DEF AuthorityInv, AuthorityTyped, HeartbeatEnds
  <2>2. Toggled'
    BY <1>3, HeartbeatSpeaks DEF AuthorityInv, Toggled, HeartbeatEnds
  <2>3. LeasesAreAuthorised' /\ AbsenceIsEvidence'
    BY <1>3 DEF AuthorityInv, HeartbeatEnds, LeasesAreAuthorised, AbsenceIsEvidence
  <2> QED BY <1>3, <2>1, <2>2, <2>3, HeartbeatSpeaks DEF AuthorityInv
<1>4. CASE QueueJob \/ ClaimBegins \/ RunnerDeclines \/ CancelScan
  BY <1>4, JobKeeps
<1>5. CASE ClaimEnds
  <2>1. AuthorityTyped'
    BY <1>5, ClaimIsAuthorised DEF AuthorityInv, AuthorityTyped, ClaimEnds
  <2>2. Toggled' /\ Enabled' /\ AbsenceIsEvidence'
    BY <1>5 DEF AuthorityInv, ClaimEnds, Toggled, Enabled, AbsenceIsEvidence
  <2> QED BY <1>5, <2>1, <2>2, ClaimIsAuthorised DEF AuthorityInv
<1>6. CASE SubmitResult
  <2>1. AuthorityTyped'
    BY <1>6, ResultIsEvidence DEF AuthorityInv, AuthorityTyped, SubmitResult
  <2>2. Toggled' /\ Enabled' /\ LeasesAreAuthorised'
    BY <1>6 DEF AuthorityInv, SubmitResult, Toggled, Enabled, LeasesAreAuthorised
  <2> QED BY <1>6, <2>1, <2>2, ResultIsEvidence DEF AuthorityInv
<1>7. CASE UNCHANGED authorityVars
  <2>1. AuthorityTyped'
    BY <1>7 DEF authorityVars, AuthorityInv, AuthorityTyped
  <2>2. Toggled' /\ Enabled' /\ AbsenceIsEvidence'
    BY <1>7 DEF authorityVars, AuthorityInv, Toggled, Enabled, AbsenceIsEvidence
  <2>3. LeasesAreAuthorised'
    BY <1>7, LeasesKept DEF authorityVars, AuthorityInv
  <2> QED BY <2>1, <2>2, <2>3 DEF AuthorityInv
<1> QED BY <1>1, <1>2, <1>3, <1>4, <1>5, <1>6, <1>7 DEF AuthorityNext

LEMMA AuthorityInvariance == AuthoritySpec => []AuthorityInv
BY AuthorityStarts, AuthorityStep, PTL DEF AuthoritySpec

\* An agent is handed only what its policy admits when the claim was authenticated, by
\* rules of the target's kind, with a tool somebody allowed since it was last withdrawn
\* or refused; and what its scans close, they covered (services/agents).
THEOREM AgentsTrusted == AuthoritySpec => []AgentsAreTrusted
<1>1. AuthorityInv => AgentsAreTrusted
  BY DEF AuthorityInv, Enabled, AgentsAreTrusted, ToolsAreAllowed
<1> QED BY AuthorityInvariance, <1>1, PTL

(***************************************************************************)
(* The workflows.                                                          *)
(***************************************************************************)
Programs == {s \in Seq(Steps) : Len(s) <= MaxSteps}
Slugs == {x.slug : x \in Writes}
Definition == [slug : Slugs, enabled : BOOLEAN, trigger : Events, condition : Conditions, steps : Programs, stop : BOOLEAN, runs : Nat]
Results == Seq({"ok", "skipped", "warning", "error"})
WorkflowRun == [of : Nat, event : Events, seen : States, row : Definition, results : Results]
Transaction == [event : Events \cup {"none"}, saw : Seq(Definition), seen : States, left : SUBSET Nat,
                done : [Traced \cup {"close"} -> Nat], broken : BOOLEAN, runs : Seq(WorkflowRun)]
Ctx == [ticket : BOOLEAN, results : Results]

WorkflowsTyped ==
  /\ definitions \in Seq(Definition) /\ state \in States /\ effects \in [Traced -> Nat] /\ log \in Seq(WorkflowRun)
  /\ worker \in [Workers -> Transaction] /\ context \in [Workers -> Ctx]
  /\ fired \in 0 .. MaxFired /\ written \in 0 .. MaxWritten

\* The runs of one workflow, and the effects of one kind in one run.
Of(s, i) == {n \in DOMAIN s : s[n].of = i}
OkSteps(flow, results, kind) == {k \in 1 .. MaxSteps : k \in DOMAIN results /\ results[k] = "ok" /\ flow.steps[k] = kind}

\* The run in progress, as it would be logged.
Partial(flow, event, c) ==
  LET last == Len(c.results) IN
  /\ last <= Len(flow.steps)
  /\ \A k \in 1 .. (last - 1) : flow.stop => c.results[k] # "error"
  /\ c.ticket => event \in WithTicket \/ \E j \in 1 .. last : flow.steps[j] = "ticket" /\ c.results[j] = "ok"
  /\ \A k \in 1 .. last :
       flow.steps[k] = "comment" /\ c.results[k] = "ok" =>
         event \in WithTicket \/ \E j \in 1 .. (k - 1) : flow.steps[j] = "ticket" /\ c.results[j] = "ok"

Matching(flow, event, seen) == flow.enabled /\ flow.trigger = event /\ RuleMatches(flow.condition, event, seen)

\* What one transaction did so far: its runs are honest, of different workflows and of
\* none that is left; what it will write is what its runs say and the run in progress.
Recorded(t) ==
  /\ t.left \subseteq DOMAIN t.saw
  /\ \A n \in DOMAIN t.runs : IsHonest(t.runs[n]) /\ t.runs[n].of \in DOMAIN t.saw /\ t.runs[n].of \notin t.left
  /\ \A n, m \in DOMAIN t.runs : t.runs[n].of = t.runs[m].of => n = m
  /\ \A i \in t.left : Matching(t.saw[i], t.event, t.seen)

Going(t, c) ==
  /\ t.left = {} => \A kind \in Traced : t.done[kind] = Cardinality(Made(t.runs, kind))
  /\ t.left # {} => /\ Partial(Flow(t), t.event, c)
                    /\ \A kind \in Traced :
                         t.done[kind] = Cardinality(Made(t.runs, kind)) + Cardinality(OkSteps(Flow(t), c.results, kind))

\* A transaction read counts that were right or too low.
Reading(t, defs, logged) ==
  /\ Len(t.saw) <= Len(defs)
  /\ \A i \in DOMAIN t.saw : t.saw[i].runs <= Cardinality(Of(logged, i))

Logged == \A n \in DOMAIN log : log[n].of \in DOMAIN definitions

WorkflowsInv ==
  /\ WorkflowsTyped /\ Logged /\ WorkflowsAreHonest
  /\ \A w \in Workers : Recorded(worker[w]) /\ Going(worker[w], context[w]) /\ Reading(worker[w], definitions, log)

\* How many runs of a workflow there are, when a transaction ran it once or not at all.
LEMMA OfIsFinite ==
  ASSUME NEW s \in Seq(WorkflowRun), NEW i
  PROVE  IsFiniteSet(Of(s, i)) /\ Cardinality(Of(s, i)) \in Nat
<1>1. Of(s, i) \in SUBSET (1 .. Len(s)) /\ Len(s) \in Nat
  BY DEF Of
<1>2. IsFiniteSet(1 .. Len(s))
  BY <1>1, FS_Interval
<1>3. IsFiniteSet(Of(s, i))
  BY <1>1, <1>2, FS_Subset
<1> QED BY <1>3, FS_CardinalityType

\* Two sequences, one after the other.
LEMMA Joined ==
  ASSUME NEW S, NEW s \in Seq(S), NEW r \in Seq(S)
  PROVE  /\ s \o r \in Seq(S) /\ Len(s) \in Nat /\ Len(r) \in Nat /\ Len(s \o r) = Len(s) + Len(r)
         /\ DOMAIN s = 1 .. Len(s) /\ DOMAIN r = 1 .. Len(r) /\ DOMAIN (s \o r) = 1 .. (Len(s) + Len(r))
         /\ \A n \in DOMAIN s : n \in DOMAIN (s \o r) /\ (s \o r)[n] = s[n]
         /\ \A n \in DOMAIN r : Len(s) + n \in DOMAIN (s \o r) /\ (s \o r)[Len(s) + n] = r[n]
         /\ \A n \in DOMAIN (s \o r) : n \in DOMAIN s \/ n - Len(s) \in DOMAIN r
<1>1. s \o r \in Seq(S) /\ Len(s) \in Nat /\ Len(r) \in Nat /\ Len(s \o r) = Len(s) + Len(r)
      /\ DOMAIN s = 1 .. Len(s) /\ DOMAIN r = 1 .. Len(r)
  BY ConcatProperties, LenProperties
<1>2. DOMAIN (s \o r) = 1 .. (Len(s) + Len(r))
  BY <1>1, LenProperties
<1>3. \A n \in 1 .. Len(s) + Len(r) : (s \o r)[n] = IF n <= Len(s) THEN s[n] ELSE r[n - Len(s)]
  BY <1>1, ConcatProperties
<1>4. ASSUME NEW n \in DOMAIN s PROVE n \in DOMAIN (s \o r) /\ (s \o r)[n] = s[n]
  BY <1>1, <1>2, <1>3
<1>5. ASSUME NEW n \in DOMAIN r PROVE Len(s) + n \in DOMAIN (s \o r) /\ (s \o r)[Len(s) + n] = r[n]
  <2>1. n \in Nat /\ n >= 1 /\ n <= Len(r)
    BY <1>1
  <2> DEFINE k == Len(s) + n
  <2>2. k \in 1 .. Len(s) + Len(r) /\ ~(k <= Len(s)) /\ k - Len(s) = n
    BY <1>1, <2>1
  <2> HIDE DEF k
  <2>3. (s \o r)[k] = r[n]
    BY <1>3, <2>2
  <2> QED BY <1>2, <2>2, <2>3 DEF k
<1>6. ASSUME NEW n \in DOMAIN (s \o r) PROVE n \in DOMAIN s \/ n - Len(s) \in DOMAIN r
  BY <1>1, <1>2
<1> QED BY <1>1, <1>2, <1>4, <1>5, <1>6

LEMMA OfNoMore ==
  ASSUME NEW s \in Seq(WorkflowRun), NEW r \in Seq(WorkflowRun), NEW i, \A n \in DOMAIN r : r[n].of # i
  PROVE  Of(s \o r, i) = Of(s, i)
<1>1. ASSUME NEW n \in Of(s \o r, i) PROVE n \in Of(s, i)
  <2>1. n \in DOMAIN (s \o r) /\ (s \o r)[n].of = i
    BY <1>1 DEF Of
  <2>2. CASE n \in DOMAIN s
    BY <2>1, <2>2, Joined DEF Of
  <2>3. CASE n - Len(s) \in DOMAIN r
    <3>1. PICK k \in DOMAIN r : k = n - Len(s)
      BY <2>3
    <3>2. n = Len(s) + k
      BY <2>1, <3>1, Joined
    <3> QED BY <2>1, <3>1, <3>2, Joined
  <2> QED BY <2>1, <2>2, <2>3, Joined
<1>2. ASSUME NEW n \in Of(s, i) PROVE n \in Of(s \o r, i)
  BY <1>2, Joined DEF Of
<1> QED BY <1>1, <1>2

LEMMA OfOneMore ==
  ASSUME NEW s \in Seq(WorkflowRun), NEW r \in Seq(WorkflowRun), NEW i,
         NEW m \in DOMAIN r, r[m].of = i, \A n \in DOMAIN r : r[n].of = i => n = m
  PROVE  Cardinality(Of(s \o r, i)) = Cardinality(Of(s, i)) + 1
<1> DEFINE l == Len(s) + m
<1>1. ASSUME NEW n \in Of(s \o r, i) PROVE n \in Of(s, i) \cup {l}
  <2>1. n \in DOMAIN (s \o r) /\ (s \o r)[n].of = i
    BY <1>1 DEF Of
  <2>2. CASE n \in DOMAIN s
    BY <2>1, <2>2, Joined DEF Of
  <2>3. CASE n - Len(s) \in DOMAIN r
    <3>1. PICK k \in DOMAIN r : k = n - Len(s)
      BY <2>3
    <3>2. n = Len(s) + k
      BY <2>1, <3>1, Joined
    <3>3. k = m
      BY <2>1, <3>1, <3>2, Joined
    <3> QED BY <3>2, <3>3
  <2> QED BY <2>1, <2>2, <2>3, Joined
<1>2. Of(s, i) \subseteq Of(s \o r, i) /\ l \in Of(s \o r, i)
  BY Joined DEF Of
<1>3. l \notin Of(s, i)
  BY Joined DEF Of
<1>4. Of(s \o r, i) = Of(s, i) \cup {l}
  BY <1>1, <1>2
<1> HIDE DEF l
<1> QED BY <1>3, <1>4, OfIsFinite, FS_AddElement

\* Two sets that have nothing in common.
LEMMA SizeOfBoth ==
  ASSUME NEW S, IsFiniteSet(S), NEW T, IsFiniteSet(T), S \cap T = {}
  PROVE  /\ IsFiniteSet(S \cup T) /\ Cardinality(S \cup T) = Cardinality(S) + Cardinality(T)
         /\ Cardinality(S) \in Nat /\ Cardinality(T) \in Nat
<1>1. Cardinality(S) \in Nat /\ Cardinality(T) \in Nat /\ Cardinality(S \cap T) = 0
  BY FS_CardinalityType, FS_EmptySet
<1>2. Cardinality(S \cup T) = Cardinality(S) + Cardinality(T) - Cardinality(S \cap T) /\ IsFiniteSet(S \cup T)
  BY FS_Union
<1> QED BY <1>1, <1>2

\* The effects that runs made, and those of runs that follow runs.
LEMMA MadeIsFinite ==
  ASSUME NEW s \in Seq(WorkflowRun), NEW kind
  PROVE  IsFiniteSet(Made(s, kind)) /\ Cardinality(Made(s, kind)) \in Nat
<1>1. Made(s, kind) \in SUBSET ((1 .. Len(s)) \X (1 .. MaxSteps)) /\ Len(s) \in Nat
  BY DEF Made
<1>2. IsFiniteSet(1 .. Len(s)) /\ IsFiniteSet(1 .. MaxSteps)
  BY <1>1, WorkflowAssumption, FS_Interval
<1>3. IsFiniteSet((1 .. Len(s)) \X (1 .. MaxSteps))
  BY <1>2, FS_Product
<1>4. IsFiniteSet(Made(s, kind))
  BY <1>1, <1>3, FS_Subset
<1> QED BY <1>4, FS_CardinalityType

LEMMA MarksAreFinite ==
  ASSUME NEW flow, NEW results, NEW kind
  PROVE  IsFiniteSet(OkSteps(flow, results, kind)) /\ Cardinality(OkSteps(flow, results, kind)) \in Nat
<1>1. OkSteps(flow, results, kind) \in SUBSET (1 .. MaxSteps)
  BY DEF OkSteps
<1>2. IsFiniteSet(1 .. MaxSteps)
  BY WorkflowAssumption, FS_Interval
<1>3. IsFiniteSet(OkSteps(flow, results, kind))
  BY <1>1, <1>2, FS_Subset
<1> QED BY <1>3, FS_CardinalityType

LEMMA MadeJoined ==
  ASSUME NEW s \in Seq(WorkflowRun), NEW r \in Seq(WorkflowRun), NEW kind
  PROVE  Cardinality(Made(s \o r, kind)) = Cardinality(Made(s, kind)) + Cardinality(Made(r, kind))
<1> DEFINE At(q) == <<Len(s) + q[1], q[2]>>
           T == {p \in Made(s \o r, kind) : p[1] \notin DOMAIN s}
           shift == [q \in Made(r, kind) |-> At(q)]
<1>1. /\ Len(s) \in Nat /\ DOMAIN s = 1 .. Len(s) /\ DOMAIN r = 1 .. Len(r) /\ Len(r) \in Nat
      /\ \A n \in DOMAIN s : n \in DOMAIN (s \o r) /\ (s \o r)[n] = s[n]
      /\ \A n \in DOMAIN r : Len(s) + n \in DOMAIN (s \o r) /\ (s \o r)[Len(s) + n] = r[n]
      /\ \A n \in DOMAIN (s \o r) : n \in DOMAIN s \/ n - Len(s) \in DOMAIN r
      /\ DOMAIN (s \o r) = 1 .. (Len(s) + Len(r)) /\ s \o r \in Seq(WorkflowRun)
  BY Joined
<1>2. Made(s, kind) \subseteq Made(s \o r, kind)
  BY <1>1 DEF Made
<1>3. ASSUME NEW p \in Made(s \o r, kind), p[1] \in DOMAIN s PROVE p \in Made(s, kind)
  BY <1>1, <1>3 DEF Made
<1>4. Made(s \o r, kind) = Made(s, kind) \cup T /\ Made(s, kind) \cap T = {}
  <2>1. \A p \in Made(s, kind) : p[1] \in DOMAIN s
    BY DEF Made
  <2> QED BY <1>2, <1>3, <2>1
<1>5. ASSUME NEW q \in Made(r, kind) PROVE At(q) \in T
  <2>1. q[1] \in DOMAIN r /\ q[2] \in 1 .. MaxSteps
    BY DEF Made
  <2>2. Len(s) + q[1] \in DOMAIN (s \o r) /\ (s \o r)[Len(s) + q[1]] = r[q[1]] /\ Len(s) + q[1] \notin DOMAIN s
    BY <1>1, <2>1
  <2>3. At(q) \in Made(s \o r, kind)
    BY <2>1, <2>2 DEF Made
  <2> QED BY <2>2, <2>3
<1>6. ASSUME NEW p \in T PROVE \E q \in Made(r, kind) : At(q) = p
  <2> DEFINE q == <<p[1] - Len(s), p[2]>>
  <2>1. p[1] \in DOMAIN (s \o r) /\ p[2] \in 1 .. MaxSteps /\ p = <<p[1], p[2]>>
    BY DEF Made
  <2>2. p[1] - Len(s) \in DOMAIN r /\ Len(s) + (p[1] - Len(s)) = p[1]
    BY <1>1, <2>1
  <2>3. (s \o r)[p[1]] = r[p[1] - Len(s)]
    BY <1>1, <2>2
  <2>4. q \in Made(r, kind)
    BY <2>1, <2>2, <2>3 DEF Made
  <2>5. At(q) = p
    BY <2>1, <2>2
  <2> QED BY <2>4, <2>5
<1>7. ASSUME NEW p \in Made(r, kind), NEW q \in Made(r, kind), At(p) = At(q) PROVE p = q
  <2>1. p = <<p[1], p[2]>> /\ q = <<q[1], q[2]>> /\ p[1] \in Nat /\ q[1] \in Nat
    BY <1>1 DEF Made
  <2>2. Len(s) + p[1] = Len(s) + q[1] /\ p[2] = q[2]
    BY <1>7
  <2>3. p[1] = q[1]
    BY <1>1, <2>1, <2>2
  <2> QED BY <2>1, <2>2, <2>3
<1>8. /\ shift \in [Made(r, kind) -> T] /\ \A p, q \in Made(r, kind) : shift[p] = shift[q] => p = q
      /\ \A p \in T : \E q \in Made(r, kind) : shift[q] = p
  <2>1. shift \in [Made(r, kind) -> T]
    BY <1>5
  <2> HIDE DEF At, T
  <2> QED BY <1>6, <1>7, <2>1
<1> HIDE DEF T, shift
<1>9. IsFiniteSet(T) /\ Cardinality(T) = Cardinality(Made(r, kind))
  BY <1>8, MadeIsFinite, SameSize
<1> QED BY <1>4, <1>9, MadeIsFinite, SizeOfBoth

LEMMA MadeAppended ==
  ASSUME NEW s \in Seq(WorkflowRun), NEW run \in WorkflowRun, NEW kind
  PROVE  Cardinality(Made(Append(s, run), kind)) = Cardinality(Made(s, kind)) + Cardinality(OkSteps(run.row, run.results, kind))
<1> DEFINE one == <<run>>
           first == [k \in OkSteps(run.row, run.results, kind) |-> <<1, k>>]
<1>1. one \in Seq(WorkflowRun) /\ DOMAIN one = 1 .. 1 /\ one[1] = run
  OBVIOUS
<1>2. Append(s, run) = s \o one
  BY AppendIsConcat
<1>3. ASSUME NEW k \in OkSteps(run.row, run.results, kind) PROVE <<1, k>> \in Made(one, kind)
  BY <1>1 DEF OkSteps, Made
<1>4. ASSUME NEW p \in Made(one, kind) PROVE p[2] \in OkSteps(run.row, run.results, kind) /\ p = <<1, p[2]>>
  BY <1>1 DEF OkSteps, Made
<1>5. /\ first \in [OkSteps(run.row, run.results, kind) -> Made(one, kind)] /\ \A k, l \in OkSteps(run.row, run.results, kind) : first[k] = first[l] => k = l
      /\ \A p \in Made(one, kind) : \E k \in OkSteps(run.row, run.results, kind) : first[k] = p
  <2>1. first \in [OkSteps(run.row, run.results, kind) -> Made(one, kind)]
    BY <1>3
  <2>2. \A k, l \in OkSteps(run.row, run.results, kind) : first[k] = first[l] => k = l
    OBVIOUS
  <2> QED BY <1>4, <2>1, <2>2
<1> HIDE DEF one, first
<1>6. Cardinality(Made(one, kind)) = Cardinality(OkSteps(run.row, run.results, kind))
  BY <1>5, MarksAreFinite, SameSize
<1> QED BY <1>1, <1>2, <1>6, MadeJoined

\* The definitions, their counts and the log, where Of is spelled out.
LEMMA CountsSpelled == \A i : Runs(i) = Of(log, i)
BY DEF Runs, Of

\* The first of what is left.
LEMMA FirstLeft ==
  ASSUME NEW t \in Transaction, t.left # {}, t.left \subseteq DOMAIN t.saw
  PROVE  /\ Min(t.left) \in t.left /\ Min(t.left) \in DOMAIN t.saw /\ Min(t.left) \in Nat
         /\ Flow(t) = t.saw[Min(t.left)] /\ Flow(t) \in Definition
<1>1. t.left \in SUBSET Nat /\ t.saw \in Seq(Definition)
  BY DEF Transaction
<1>2. Min(t.left) \in t.left
  BY <1>1, LeastIsMin
<1>3. Flow(t) = t.saw[Min(t.left)]
  BY DEF Flow
<1>4. t.saw[Min(t.left)] \in Definition
  BY <1>1, <1>2, ElementOfSeq, LenProperties
<1> QED BY <1>1, <1>2, <1>3, <1>4

\* A transaction that is not there.
LEMMA OffIsSound ==
  /\ Off \in Transaction /\ \A event : Context(event) \in Ctx /\ Context(event).results = <<>>
  /\ Recorded(Off)
  /\ \A c, defs, logged : defs \in Seq(Definition) => Going(Off, c) /\ Reading(Off, defs, logged)
<1>1. None \in [Traced \cup {"close"} -> Nat]
  BY DEF None
<1>2. /\ Off.left = {} /\ Off.saw = <<>> /\ Off.runs = <<>> /\ Off.done = None
      /\ Off \in Transaction
  BY <1>1 DEF Off, Transaction, States
<1>3. \A event : Context(event) \in Ctx /\ Context(event).results = <<>>
  BY DEF Context, Ctx, Results
<1>4. Recorded(Off)
  BY <1>2 DEF Recorded
<1>5. ASSUME NEW c PROVE Going(Off, c)
  <2>1. \A kind \in Traced : Made(<<>>, kind) = {} /\ None[kind] = 0
    BY DEF Made, None
  <2> QED BY <1>2, <2>1, FS_EmptySet DEF Going
<1>6. ASSUME NEW defs \in Seq(Definition), NEW logged PROVE Reading(Off, defs, logged)
  BY <1>2 DEF Reading
<1> QED BY <1>2, <1>3, <1>4, <1>5, <1>6

LEMMA WorkflowsStarts == WorkflowsInit => WorkflowsInv
<1> SUFFICES ASSUME WorkflowsInit PROVE WorkflowsInv
  OBVIOUS
<1>1. definitions = <<>> /\ log = <<>> /\ \A w \in Workers : worker[w] = Off /\ context[w] = Context("none")
  BY DEF WorkflowsInit
<1>2. WorkflowsTyped
  <2>1. worker \in [Workers -> Transaction] /\ context \in [Workers -> Ctx]
    BY OffIsSound DEF WorkflowsInit
  <2>2. effects \in [Traced -> Nat] /\ state \in States /\ fired \in 0 .. MaxFired /\ written \in 0 .. MaxWritten
    BY WorkflowAssumption DEF WorkflowsInit, States
  <2>3. definitions \in Seq(Definition) /\ log \in Seq(WorkflowRun)
    BY <1>1
  <2> QED BY <2>1, <2>2, <2>3 DEF WorkflowsTyped
<1>3. Logged /\ CountsAreRuns /\ RunsAreHonest /\ SlugsAreUnique
  BY <1>1 DEF Logged, CountsAreRuns, RunsAreHonest, SlugsAreUnique
<1>4. EffectsAreTraced
  <2>1. \A kind \in Traced : Made(log, kind) = {} /\ effects[kind] = 0
    BY <1>1 DEF Made, WorkflowsInit
  <2> QED BY <2>1, FS_EmptySet DEF EffectsAreTraced
<1>5. \A w \in Workers : Recorded(worker[w]) /\ Going(worker[w], context[w]) /\ Reading(worker[w], definitions, log)
  BY <1>1, <1>2, OffIsSound DEF WorkflowsTyped
<1> QED BY <1>2, <1>3, <1>4, <1>5 DEF WorkflowsInv, WorkflowsAreHonest

\* Who writes definitions leaves the counts alone, and a new one has none.
LEMMA AuthoredKeeps ==
  ASSUME WorkflowsInv, Authored, definitions' \in Seq(Definition), Len(definitions) <= Len(definitions'),
         \A i \in DOMAIN definitions : definitions'[i].runs = definitions[i].runs,
         \A i \in DOMAIN definitions' \ DOMAIN definitions : definitions'[i].runs = 0, SlugsAreUnique'
  PROVE  WorkflowsInv'
<1>1. /\ written < MaxWritten /\ written' = written + 1
      /\ UNCHANGED <<state, effects, log, worker, context, fired, overlapped>>
  BY DEF Authored
<1>2. WorkflowsTyped /\ Logged /\ CountsAreRuns /\ RunsAreHonest /\ EffectsAreTraced
  BY DEF WorkflowsInv, WorkflowsAreHonest
<1>3. /\ definitions \in Seq(Definition) /\ log \in Seq(WorkflowRun)
      /\ DOMAIN definitions = 1 .. Len(definitions) /\ DOMAIN definitions' = 1 .. Len(definitions')
      /\ Len(definitions) \in Nat /\ Len(definitions') \in Nat
  BY <1>2, LenProperties DEF WorkflowsTyped
<1>4. WorkflowsTyped'
  <2>1. written' \in 0 .. MaxWritten
    BY <1>1, <1>2, WorkflowAssumption DEF WorkflowsTyped
  <2> QED BY <1>1, <1>2, <2>1 DEF WorkflowsTyped
<1>5. Logged' /\ RunsAreHonest' /\ EffectsAreTraced'
  <2>1. Logged'
    BY <1>1, <1>2, <1>3 DEF Logged
  <2>2. RunsAreHonest' /\ EffectsAreTraced'
    BY <1>1, <1>2 DEF RunsAreHonest, EffectsAreTraced
  <2> QED BY <2>1, <2>2
<1>6. CountsAreRuns'
  <2> SUFFICES ASSUME NEW i \in DOMAIN definitions'
               PROVE  /\ definitions'[i].runs <= Cardinality(Runs(i)')
                      /\ i \notin overlapped' => definitions'[i].runs = Cardinality(Runs(i)')
    BY DEF CountsAreRuns
  <2>1. Runs(i)' = Runs(i)
    BY <1>1 DEF Runs
  <2>2. CASE i \in DOMAIN definitions
    BY <1>1, <1>2, <2>1, <2>2 DEF CountsAreRuns
  <2>3. CASE i \notin DOMAIN definitions
    <3>1. Runs(i) = {}
      BY <1>2, <2>3 DEF Runs, Logged
    <3>2. definitions'[i].runs = 0
      BY <2>3
    <3>3. Cardinality(Runs(i)') = 0
      BY <2>1, <3>1, FS_EmptySet
    <3> QED BY <3>2, <3>3
  <2> QED BY <2>2, <2>3
<1>7. ASSUME NEW w \in Workers
      PROVE  (Recorded(worker[w]) /\ Going(worker[w], context[w]) /\ Reading(worker[w], definitions, log))'
  <2>1. worker'[w] = worker[w] /\ context'[w] = context[w]
    BY <1>1
  <2>2. Recorded(worker[w]) /\ Going(worker[w], context[w]) /\ Reading(worker[w], definitions, log)
    BY DEF WorkflowsInv
  <2>3. Len(worker[w].saw) \in Nat
    BY <1>2, LenProperties DEF WorkflowsTyped, Transaction
  <2>4. Reading(worker[w], definitions', log)
    BY <1>3, <2>2, <2>3 DEF Reading
  <2> QED BY <1>1, <2>1, <2>2, <2>4
<1> QED BY <1>4, <1>5, <1>6, <1>7 DEF WorkflowsInv, WorkflowsAreHonest

LEMMA NewRowTyped ==
  ASSUME NEW write \in Writes, NEW n \in Nat
  PROVE  NewRow(write, n) \in Definition /\ NewRow(write, n).slug = write.slug /\ NewRow(write, n).runs = n
<1>1. /\ write.enabled \in BOOLEAN /\ write.stop \in BOOLEAN /\ write.trigger \in Events /\ write.condition \in Conditions
      /\ write.steps \in Programs /\ write.slug \in Slugs
  BY WorkflowAssumption DEF Programs, Slugs
<1> QED BY <1>1 DEF NewRow, Definition

LEMMA CreateKeeps == ASSUME WorkflowsInv, CreateWorkflow PROVE WorkflowsInv'
<1>1. PICK write \in Writes : Authored /\ Slugged(write.slug) = {} /\ definitions' = Append(definitions, NewRow(write, 0))
  BY DEF CreateWorkflow
<1> DEFINE new == NewRow(write, 0)
<1>2. new \in Definition /\ new.slug = write.slug /\ new.runs = 0
  BY NewRowTyped
<1>3. definitions \in Seq(Definition) /\ SlugsAreUnique
  BY DEF WorkflowsInv, WorkflowsTyped, WorkflowsAreHonest
<1>4. definitions' = Append(definitions, new)
  BY <1>1
<1> HIDE DEF new
<1>5. /\ definitions' \in Seq(Definition) /\ Len(definitions') = Len(definitions) + 1 /\ Len(definitions) \in Nat
      /\ definitions'[Len(definitions) + 1] = new /\ \A i \in DOMAIN definitions : definitions'[i] = definitions[i]
      /\ DOMAIN definitions = 1 .. Len(definitions) /\ DOMAIN definitions' = 1 .. Len(definitions) + 1
  BY <1>2, <1>3, <1>4, AppendProperties, LenProperties
<1>6. \A i \in DOMAIN definitions : definitions[i].slug # new.slug
  BY <1>1, <1>2 DEF Slugged
<1>7. SlugsAreUnique'
  <2>1. \A i \in DOMAIN definitions' : i \in DOMAIN definitions \/ i = Len(definitions) + 1
    BY <1>5
  <2> QED BY <1>3, <1>5, <1>6, <2>1 DEF SlugsAreUnique
<1>8. \A i \in DOMAIN definitions' \ DOMAIN definitions : definitions'[i].runs = 0
  BY <1>2, <1>5
<1> QED BY <1>1, <1>5, <1>7, <1>8, AuthoredKeeps

LEMMA UpdateKeeps == ASSUME WorkflowsInv, UpdateWorkflow PROVE WorkflowsInv'
<1>1. PICK i \in DOMAIN definitions, write \in Writes :
        /\ Authored /\ Slugged(write.slug) \subseteq {i}
        /\ definitions' = [definitions EXCEPT ![i] = NewRow(write, @.runs)]
  BY DEF UpdateWorkflow
<1> DEFINE n == definitions[i].runs
           new == NewRow(write, n)
<1>2. definitions \in Seq(Definition) /\ SlugsAreUnique
  BY DEF WorkflowsInv, WorkflowsTyped, WorkflowsAreHonest
<1>3. n \in Nat
  <2>1. definitions[i] \in Definition
    BY <1>2, ElementOfSeq, LenProperties
  <2> QED BY <2>1 DEF Definition
<1>4. new \in Definition /\ new.slug = write.slug /\ new.runs = n
  BY <1>3, NewRowTyped
<1>5. definitions' = [definitions EXCEPT ![i] = new]
  BY <1>1
<1> HIDE DEF new
<1>6. /\ definitions' \in Seq(Definition) /\ Len(definitions') = Len(definitions) /\ Len(definitions) \in Nat
      /\ definitions'[i] = new /\ \A j \in DOMAIN definitions : j # i => definitions'[j] = definitions[j]
      /\ DOMAIN definitions' = DOMAIN definitions
  BY <1>2, <1>4, <1>5, ExceptSeq
<1>7. \A j \in DOMAIN definitions : definitions[j].slug = write.slug => j = i
  BY <1>1 DEF Slugged
<1>8. SlugsAreUnique'
  BY <1>2, <1>4, <1>6, <1>7 DEF SlugsAreUnique
<1>9. \A j \in DOMAIN definitions : definitions'[j].runs = definitions[j].runs
  BY <1>4, <1>6
<1> QED BY <1>1, <1>6, <1>8, <1>9, AuthoredKeeps

LEMMA SeedKeeps == ASSUME WorkflowsInv, SeedWorkflows PROVE WorkflowsInv'
<1>1. PICK order \in [1 .. Cardinality(Missing) -> Missing] :
        /\ Authored /\ \A b \in Missing : \E n \in DOMAIN order : order[n] = b
        /\ definitions' = definitions \o [n \in DOMAIN order |-> NewRow(order[n], 0)]
  BY DEF SeedWorkflows
<1> DEFINE size == Cardinality(Missing)
           new == [n \in DOMAIN order |-> NewRow(order[n], 0)]
<1>2. definitions \in Seq(Definition) /\ SlugsAreUnique
  BY DEF WorkflowsInv, WorkflowsTyped, WorkflowsAreHonest
<1>3. Missing \subseteq Builtins /\ IsFiniteSet(Missing) /\ size \in Nat
  <2>1. Missing \in SUBSET Builtins
    BY DEF Missing
  <2>2. IsFiniteSet(Missing)
    BY <2>1, WorkflowAssumption, FS_Subset
  <2> QED BY <2>1, <2>2, FS_CardinalityType
<1>4. \A n, m \in 1 .. size : order[n] = order[m] => n = m
  BY <1>1, <1>3, OnceEach
<1>5. DOMAIN order = 1 .. size /\ \A n \in 1 .. size : order[n] \in Missing /\ order[n] \in Writes
  BY <1>1, <1>3, WorkflowAssumption
<1>6. DOMAIN new = 1 .. size /\ \A n \in 1 .. size : new[n] \in Definition /\ new[n].slug = order[n].slug /\ new[n].runs = 0
  BY <1>5, NewRowTyped
<1>7. definitions' = definitions \o new
  BY <1>1
<1>8. new \in [1 .. size -> Definition]
  BY <1>5, NewRowTyped
<1> HIDE DEF new, size
<1>9. new \in Seq(Definition) /\ Len(new) = size
  <2>1. new \in UNION {[1 .. n -> Definition] : n \in Nat}
    BY <1>3, <1>8
  <2>2. new \in Seq(Definition)
    BY <2>1, SeqDef
  <2>3. DOMAIN new = 1 .. Len(new) /\ Len(new) \in Nat
    BY <2>2, LenProperties
  <2> QED BY <1>3, <1>6, <2>2, <2>3
<1>10. /\ definitions' \in Seq(Definition) /\ Len(definitions) \in Nat /\ Len(definitions') = Len(definitions) + size
       /\ DOMAIN definitions = 1 .. Len(definitions) /\ DOMAIN definitions' = 1 .. Len(definitions) + size
       /\ \A i \in DOMAIN definitions : definitions'[i] = definitions[i]
       /\ \A n \in 1 .. size : definitions'[Len(definitions) + n] = new[n]
  <2>1. /\ definitions \o new \in Seq(Definition) /\ Len(definitions \o new) = Len(definitions) + Len(new)
        /\ DOMAIN definitions = 1 .. Len(definitions) /\ Len(definitions) \in Nat
    BY <1>2, <1>9, ConcatProperties, LenProperties
  <2>3. DOMAIN (definitions \o new) = 1 .. Len(definitions) + Len(new)
    BY <2>1, LenProperties
  <2>2. /\ \A i \in DOMAIN definitions : (definitions \o new)[i] = definitions[i]
        /\ \A n \in DOMAIN new : (definitions \o new)[Len(definitions) + n] = new[n]
    BY <1>2, <1>9, Joined
  <2> QED BY <1>6, <1>7, <1>9, <2>1, <2>2, <2>3
<1>11. \A i \in DOMAIN definitions' \ DOMAIN definitions : \E n \in 1 .. size : i = Len(definitions) + n
  <2> TAKE i \in DOMAIN definitions' \ DOMAIN definitions
  <2>1. i - Len(definitions) \in 1 .. size /\ i = Len(definitions) + (i - Len(definitions))
    BY <1>3, <1>10
  <2> QED BY <2>1
<1>12. \A n \in 1 .. size, i \in DOMAIN definitions : new[n].slug # definitions[i].slug
  <2> TAKE n \in 1 .. size, i \in DOMAIN definitions
  <2>1. Slugged(order[n].slug) = {}
    BY <1>5 DEF Missing
  <2> QED BY <1>6, <2>1 DEF Slugged
<1>13. \A n, m \in 1 .. size : new[n].slug = new[m].slug => n = m
  <2> TAKE n, m \in 1 .. size
  <2>1. order[n] \in Builtins /\ order[m] \in Builtins
    BY <1>3, <1>5
  <2>2. order[n].slug = order[m].slug => order[n] = order[m]
    BY <2>1, WorkflowAssumption
  <2> QED BY <1>4, <1>6, <2>2
<1>14. SlugsAreUnique'
  <2> SUFFICES ASSUME NEW i \in DOMAIN definitions', NEW j \in DOMAIN definitions', definitions'[i].slug = definitions'[j].slug
               PROVE  i = j
    BY DEF SlugsAreUnique
  <2>1. CASE i \in DOMAIN definitions /\ j \in DOMAIN definitions
    BY <1>2, <1>10, <2>1 DEF SlugsAreUnique
  <2>2. CASE i \in DOMAIN definitions /\ j \notin DOMAIN definitions
    BY <1>10, <1>11, <1>12, <2>2
  <2>3. CASE i \notin DOMAIN definitions /\ j \in DOMAIN definitions
    BY <1>10, <1>11, <1>12, <2>3
  <2>4. CASE i \notin DOMAIN definitions /\ j \notin DOMAIN definitions
    BY <1>10, <1>11, <1>13, <2>4
  <2> QED BY <2>1, <2>2, <2>3, <2>4
<1>15. \A i \in DOMAIN definitions' \ DOMAIN definitions : definitions'[i].runs = 0
  BY <1>6, <1>10, <1>11
<1>16. Len(definitions) <= Len(definitions')
  BY <1>3, <1>10
<1>17. \A i \in DOMAIN definitions : definitions'[i].runs = definitions[i].runs
  BY <1>10
<1> QED BY <1>1, <1>10, <1>14, <1>15, <1>16, <1>17, AuthoredKeeps

\* A step of one transaction that changes neither the definitions nor the log.
LEMMA WorkerKeeps ==
  ASSUME WorkflowsInv, NEW w \in Workers, NEW t \in Transaction, NEW c \in Ctx,
         worker' = [worker EXCEPT ![w] = t], context' = [context EXCEPT ![w] = c],
         UNCHANGED <<definitions, state, effects, log, written, overlapped>>, fired' \in 0 .. MaxFired,
         Recorded(t), Going(t, c), Reading(t, definitions, log)
  PROVE  WorkflowsInv'
<1>1. WorkflowsTyped /\ Logged /\ WorkflowsAreHonest
  BY DEF WorkflowsInv
<1>2. WorkflowsTyped'
  BY <1>1 DEF WorkflowsTyped
<1>3. Logged' /\ WorkflowsAreHonest'
  BY <1>1 DEF Logged, WorkflowsAreHonest, CountsAreRuns, Runs, RunsAreHonest, EffectsAreTraced, SlugsAreUnique
<1>4. ASSUME NEW v \in Workers
      PROVE  (Recorded(worker[v]) /\ Going(worker[v], context[v]) /\ Reading(worker[v], definitions, log))'
  <2>1. CASE v = w
    <3>1. worker'[v] = t /\ context'[v] = c
      BY <1>1, <2>1 DEF WorkflowsTyped
    <3> QED BY <3>1
  <2>2. CASE v # w
    <3>1. worker'[v] = worker[v] /\ context'[v] = context[v]
      BY <1>1, <2>2 DEF WorkflowsTyped
    <3> QED BY <3>1 DEF WorkflowsInv
  <2> QED BY <2>1, <2>2
<1> QED BY <1>2, <1>3, <1>4 DEF WorkflowsInv

LEMMA DiesKeeps == ASSUME WorkflowsInv, NEW w \in Workers, TriggerDies(w) PROVE WorkflowsInv'
<1>1. /\ worker' = [worker EXCEPT ![w] = Off] /\ context' = [context EXCEPT ![w] = Context("none")]
      /\ UNCHANGED <<definitions, state, effects, log, fired, written, overlapped>>
  BY DEF TriggerDies
<1>2. definitions \in Seq(Definition) /\ fired \in 0 .. MaxFired
  BY DEF WorkflowsInv, WorkflowsTyped
<1>3. Recorded(Off) /\ Going(Off, Context("none")) /\ Reading(Off, definitions, log) /\ Off \in Transaction /\ Context("none") \in Ctx
  BY <1>2, OffIsSound
<1> QED BY <1>1, <1>2, <1>3, WorkerKeeps

\* A run that has done nothing yet.
LEMMA FreshRun ==
  ASSUME NEW flow \in Definition, NEW event
  PROVE  Partial(flow, event, Context(event))
<1> DEFINE c == Context(event)
<1>1. Len(flow.steps) \in Nat
  BY LenProperties DEF Definition, Programs
<1>2. Len(c.results) = 0 /\ (c.ticket => event \in WithTicket)
  BY DEF Context
<1>3. 1 .. 0 = {} /\ 1 .. (0 - 1) = {}
  OBVIOUS
<1> HIDE DEF c
<1>4. Partial(flow, event, c)
  BY <1>1, <1>2, <1>3 DEF Partial
<1> QED BY <1>4 DEF c

\* A transaction begins with what matches, and has done nothing.
LEMMA BeginsKeeps == ASSUME WorkflowsInv, NEW w \in Workers, TriggerBegins(w) PROVE WorkflowsInv'
<1>1. PICK event \in Events :
        /\ fired < MaxFired /\ fired' = fired + 1
        /\ worker' = [worker EXCEPT ![w] =
             [event |-> event, saw |-> definitions, seen |-> state, left |-> Chosen(event), done |-> None,
              broken |-> FALSE, runs |-> <<>>]]
        /\ context' = [context EXCEPT ![w] = Context(event)]
        /\ UNCHANGED <<definitions, state, effects, log, written, overlapped>>
  BY DEF TriggerBegins
<1> DEFINE t == [event |-> event, saw |-> definitions, seen |-> state, left |-> Chosen(event), done |-> None,
                 broken |-> FALSE, runs |-> <<>>]
           c == Context(event)
<1>2. /\ definitions \in Seq(Definition) /\ state \in States /\ fired' \in 0 .. MaxFired /\ log \in Seq(WorkflowRun)
      /\ CountsAreRuns
  BY <1>1, WorkflowAssumption DEF WorkflowsInv, WorkflowsTyped, WorkflowsAreHonest
<1>3. Chosen(event) \subseteq DOMAIN definitions /\ Chosen(event) \in SUBSET Nat /\ DOMAIN definitions = 1 .. Len(definitions) /\ Len(definitions) \in Nat
  <2>1. DOMAIN definitions = 1 .. Len(definitions) /\ Len(definitions) \in Nat
    BY <1>2, LenProperties
  <2> QED BY <2>1 DEF Chosen
<1>4. None \in [Traced \cup {"close"} -> Nat] /\ \A kind \in Traced : None[kind] = 0 /\ Made(<<>>, kind) = {}
  BY DEF None, Made
<1>5. /\ t \in Transaction /\ c \in Ctx /\ t.left = Chosen(event) /\ t.saw = definitions /\ t.event = event /\ t.seen = state
      /\ t.done = None /\ t.runs = <<>> /\ c.results = <<>> /\ (c.ticket => event \in WithTicket)
  <2>1. t \in Transaction
    BY <1>2, <1>3, <1>4 DEF Transaction
  <2>2. c \in Ctx /\ c.results = <<>> /\ (c.ticket => event \in WithTicket)
    BY OffIsSound DEF Context
  <2> QED BY <2>1, <2>2
<1>6. worker' = [worker EXCEPT ![w] = t] /\ context' = [context EXCEPT ![w] = c]
  BY <1>1
<1> HIDE DEF t, c
<1>7. Recorded(t)
  BY <1>3, <1>5 DEF Recorded, Matching, Chosen
<1>8. Going(t, c)
  <2>1. \A kind \in Traced : OkSteps(Flow(t), c.results, kind) = {}
    BY <1>5 DEF OkSteps
  <2>2. \A kind \in Traced : t.done[kind] = 0 /\ Cardinality(Made(t.runs, kind)) = 0 /\ Cardinality(OkSteps(Flow(t), c.results, kind)) = 0
    BY <1>4, <1>5, <2>1, FS_EmptySet
  <2>3. t.left # {} => Partial(Flow(t), t.event, c)
    <3> SUFFICES ASSUME t.left # {} PROVE Partial(Flow(t), t.event, c)
      OBVIOUS
    <3>1. Flow(t) \in Definition
      BY <1>3, <1>5, FirstLeft
    <3> QED BY <1>5, <3>1, FreshRun DEF c
  <2> QED BY <2>2, <2>3 DEF Going
<1>9. Reading(t, definitions, log)
  BY <1>2, <1>3, <1>5, CountsSpelled DEF Reading, CountsAreRuns
<1> QED BY <1>1, <1>2, <1>5, <1>6, <1>7, <1>8, <1>9, WorkerKeeps

\* One more step of a run: honest as long as a comment had its ticket.
LEMMA StepPartial ==
  ASSUME NEW flow \in Definition, NEW event, NEW c \in Ctx, Partial(flow, event, c), ~Over(flow, c.results),
         NEW outcome \in {"ok", "skipped", "warning", "error"}, NEW ticket \in BOOLEAN,
         outcome = "ok" /\ flow.steps[Len(c.results) + 1] = "comment" => c.ticket,
         ticket => c.ticket \/ (outcome = "ok" /\ flow.steps[Len(c.results) + 1] = "ticket")
  PROVE  Partial(flow, event, [ticket |-> ticket, results |-> Append(c.results, outcome)])
<1> DEFINE last == Len(c.results)
           r == Append(c.results, outcome)
           d == [ticket |-> ticket, results |-> r]
<1>1. last \in Nat /\ Len(flow.steps) \in Nat /\ c.results \in Seq({"ok", "skipped", "warning", "error"})
  BY LenProperties DEF Ctx, Results, Definition, Programs
<1>2. /\ Len(r) = last + 1 /\ \A k \in 1 .. last : r[k] = c.results[k]
      /\ r[last + 1] = outcome
  BY <1>1, AppendProperties
<1>3. d.ticket = ticket /\ d.results = r
  OBVIOUS
<1>4. last <= Len(flow.steps) /\ last # Len(flow.steps) /\ (flow.stop /\ last > 0 => c.results[last] # "error")
  <2>1. last > 0 => c.results # <<>>
    BY <1>1
  <2> QED BY <2>1 DEF Partial, Over
<1>5. /\ \A k \in 1 .. (last - 1) : flow.stop => c.results[k] # "error"
      /\ c.ticket => event \in WithTicket \/ \E j \in 1 .. last : flow.steps[j] = "ticket" /\ c.results[j] = "ok"
      /\ \A k \in 1 .. last :
           flow.steps[k] = "comment" /\ c.results[k] = "ok" =>
             event \in WithTicket \/ \E j \in 1 .. (k - 1) : flow.steps[j] = "ticket" /\ c.results[j] = "ok"
  BY DEF Partial
<1> HIDE DEF last, r, d
<1>6. \A k \in 1 .. last + 1 : k \in 1 .. last \/ k = last + 1
  BY <1>1
<1>7. last + 1 <= Len(flow.steps)
  BY <1>1, <1>4
<1>8. \A k \in 1 .. ((last + 1) - 1) : flow.stop => r[k] # "error"
  <2> TAKE k \in 1 .. ((last + 1) - 1)
  <2>1. k \in 1 .. last /\ (k \in 1 .. (last - 1) \/ (k = last /\ last > 0))
    BY <1>1
  <2> QED BY <1>2, <1>4, <1>5, <2>1
<1>9. c.ticket => event \in WithTicket \/ \E j \in 1 .. last : flow.steps[j] = "ticket" /\ r[j] = "ok"
  BY <1>2, <1>5
<1>10. d.ticket => event \in WithTicket \/ \E j \in 1 .. last + 1 : flow.steps[j] = "ticket" /\ r[j] = "ok"
  <2>1. \A j \in 1 .. last : j \in 1 .. last + 1
    BY <1>1
  <2>2. last + 1 \in 1 .. last + 1
    BY <1>1
  <2>3. ticket => c.ticket \/ (r[last + 1] = "ok" /\ flow.steps[last + 1] = "ticket")
    BY <1>2 DEF last
  <2> QED BY <1>3, <1>9, <2>1, <2>2, <2>3
<1>11. ASSUME NEW k \in 1 .. last + 1, flow.steps[k] = "comment", r[k] = "ok"
       PROVE  event \in WithTicket \/ \E j \in 1 .. (k - 1) : flow.steps[j] = "ticket" /\ r[j] = "ok"
  <2>1. CASE k \in 1 .. last
    <3>1. \A j \in 1 .. (k - 1) : j \in 1 .. last
      BY <1>1, <2>1
    <3> QED BY <1>2, <1>5, <1>11, <2>1, <3>1
  <2>2. CASE k = last + 1
    <3>1. c.ticket
      BY <1>2, <1>11, <2>2 DEF last
    <3>2. k - 1 = last
      BY <1>1, <2>2
    <3> QED BY <1>9, <3>1, <3>2
  <2> QED BY <1>6, <2>1, <2>2
<1>12. Partial(flow, event, d)
  BY <1>2, <1>3, <1>7, <1>8, <1>10, <1>11 DEF Partial
<1> QED BY <1>12 DEF d, r

\* What one more result adds to the effects of a run.
LEMMA StepMarks ==
  ASSUME NEW flow \in Definition, NEW results \in Results,
         NEW outcome \in {"ok", "skipped", "warning", "error"}, Len(results) < Len(flow.steps),
         NEW kind
  PROVE  Cardinality(OkSteps(flow, Append(results, outcome), kind)) =
           IF outcome = "ok" /\ flow.steps[Len(results) + 1] = kind THEN Cardinality(OkSteps(flow, results, kind)) + 1
                                                                    ELSE Cardinality(OkSteps(flow, results, kind))
<1> DEFINE last == Len(results)
           after == Append(results, outcome)
<1>1. last \in Nat /\ Len(flow.steps) \in Nat /\ Len(flow.steps) <= MaxSteps /\ MaxSteps \in Nat
      /\ results \in Seq({"ok", "skipped", "warning", "error"})
  BY LenProperties, WorkflowAssumption DEF Results, Definition, Programs
<1>2. /\ DOMAIN after = 1 .. last + 1 /\ DOMAIN results = 1 .. last
      /\ \A k \in 1 .. last : after[k] = results[k]
      /\ after[last + 1] = outcome
  BY <1>1, AppendProperties, LenProperties
<1>3. last + 1 \in 1 .. MaxSteps /\ last + 1 \notin 1 .. last /\ \A k \in 1 .. last + 1 : k \in 1 .. last \/ k = last + 1
  BY <1>1
<1>4. last + 1 \notin OkSteps(flow, results, kind)
  BY <1>2, <1>3 DEF OkSteps
<1> HIDE DEF last, after
<1>5. CASE outcome = "ok" /\ flow.steps[last + 1] = kind
  <2>1. OkSteps(flow, after, kind) = OkSteps(flow, results, kind) \cup {last + 1}
    <3>1. ASSUME NEW k \in OkSteps(flow, after, kind) PROVE k \in OkSteps(flow, results, kind) \cup {last + 1}
      BY <1>2, <1>3, <3>1 DEF OkSteps
    <3>2. ASSUME NEW k \in OkSteps(flow, results, kind) PROVE k \in OkSteps(flow, after, kind)
      <4>1. k \in 1 .. last /\ k \in 1 .. last + 1
        BY <1>1, <1>2 DEF OkSteps
      <4> QED BY <1>2, <3>2, <4>1 DEF OkSteps
    <3>3. last + 1 \in OkSteps(flow, after, kind)
      <4>1. last + 1 \in 1 .. last + 1
        BY <1>1
      <4> QED BY <1>2, <1>3, <1>5, <4>1 DEF OkSteps
    <3> QED BY <3>1, <3>2, <3>3
  <2>2. Cardinality(OkSteps(flow, after, kind)) = Cardinality(OkSteps(flow, results, kind)) + 1
    BY <1>4, <2>1, MarksAreFinite, FS_AddElement
  <2> QED BY <1>5, <2>2 DEF last, after
<1>6. CASE ~(outcome = "ok" /\ flow.steps[last + 1] = kind)
  <2>1. OkSteps(flow, after, kind) = OkSteps(flow, results, kind)
    <3>1. ASSUME NEW k \in OkSteps(flow, after, kind) PROVE k \in OkSteps(flow, results, kind)
      BY <1>2, <1>3, <1>6, <3>1 DEF OkSteps
    <3>2. ASSUME NEW k \in OkSteps(flow, results, kind) PROVE k \in OkSteps(flow, after, kind)
      <4>1. k \in 1 .. last /\ k \in 1 .. last + 1
        BY <1>1, <1>2 DEF OkSteps
      <4> QED BY <1>2, <3>2, <4>1 DEF OkSteps
    <3> QED BY <3>1, <3>2
  <2> QED BY <1>6, <2>1 DEF last, after
<1> QED BY <1>5, <1>6

\* A step of a run in progress.
LEMMA StepKeeps == ASSUME WorkflowsInv, NEW w \in Workers, StepRuns(w) PROVE WorkflowsInv'
<1> DEFINE t == worker[w]
           c == context[w]
           flow == Flow(t)
           step == flow.steps[Len(c.results) + 1]
<1>1. PICK unlucky \in BOOLEAN :
        LET broken == t.broken \/ (unlucky /\ step = "ticket" /\ t.event \in WithFinding)
            outcome == IF broken THEN "error" ELSE Outcome(step, t.event, c.ticket)
        IN
        /\ t.left # {} /\ ~Over(flow, c.results)
        /\ worker' = [worker EXCEPT ![w] = [t EXCEPT !.broken = broken,
             !.done = IF outcome = "ok" /\ step \in DOMAIN t.done THEN [t.done EXCEPT ![step] = @ + 1] ELSE t.done]]
        /\ context' = [context EXCEPT ![w] =
             [ticket |-> c.ticket \/ (outcome = "ok" /\ step = "ticket"), results |-> Append(c.results, outcome)]]
        /\ UNCHANGED <<definitions, state, effects, log, fired, written, overlapped>>
  BY DEF StepRuns
<1> DEFINE broken == t.broken \/ (unlucky /\ step = "ticket" /\ t.event \in WithFinding)
           outcome == IF broken THEN "error" ELSE Outcome(step, t.event, c.ticket)
           ticket == c.ticket \/ (outcome = "ok" /\ step = "ticket")
           done == IF outcome = "ok" /\ step \in DOMAIN t.done THEN [t.done EXCEPT ![step] = @ + 1] ELSE t.done
           u == [t EXCEPT !.broken = broken, !.done = done]
           d == [ticket |-> ticket, results |-> Append(c.results, outcome)]
<1>2. /\ t \in Transaction /\ c \in Ctx /\ worker \in [Workers -> Transaction] /\ context \in [Workers -> Ctx]
      /\ fired \in 0 .. MaxFired
      /\ Recorded(t) /\ Going(t, c) /\ Reading(t, definitions, log)
  BY DEF WorkflowsInv, WorkflowsTyped
<1>3. flow \in Definition /\ t.left # {} /\ ~Over(flow, c.results) /\ Partial(flow, t.event, c)
  <2>1. t.left # {} /\ t.left \subseteq DOMAIN t.saw
    BY <1>1, <1>2 DEF Recorded
  <2> QED BY <1>1, <1>2, <2>1, FirstLeft DEF Going
<1>4. /\ Len(c.results) \in Nat /\ Len(flow.steps) \in Nat /\ Len(c.results) < Len(flow.steps) /\ step \in Steps
      /\ c.results \in Results /\ flow.steps \in Seq(Steps)
  <2>1. Len(c.results) \in Nat /\ Len(flow.steps) \in Nat /\ c.results \in Results /\ flow.steps \in Seq(Steps)
    BY <1>2, <1>3, LenProperties DEF Ctx, Results, Definition, Programs
  <2>2. Len(c.results) < Len(flow.steps)
    BY <1>3, <2>1 DEF Over, Partial
  <2>3. step \in Steps
    BY <2>1, <2>2, ElementOfSeq
  <2> QED BY <2>1, <2>2, <2>3
<1>5. broken \in BOOLEAN /\ t.done \in [Traced \cup {"close"} -> Nat] /\ t.runs \in Seq(WorkflowRun)
  BY <1>2 DEF Transaction
<1>6. outcome \in {"ok", "skipped", "warning", "error"} /\ (outcome = "ok" /\ step = "comment" => c.ticket)
  <2>1. Outcome(step, t.event, c.ticket) \in {"ok", "skipped", "warning", "error"}
    BY DEF Outcome
  <2>2. step = "comment" => (Outcome(step, t.event, c.ticket) = "ok" => c.ticket)
    BY DEF Outcome
  <2> HIDE DEF broken, step
  <2> QED BY <2>1, <2>2
<1>7. ticket \in BOOLEAN /\ (ticket => c.ticket \/ (outcome = "ok" /\ step = "ticket"))
  <2>1. c.ticket \in BOOLEAN
    BY <1>2 DEF Ctx
  <2> HIDE DEF outcome, step
  <2> QED BY <2>1
<1>8. done \in [Traced \cup {"close"} -> Nat]
  <2> HIDE DEF outcome, step
  <2> QED BY <1>5
<1>9. \A kind \in Traced : done[kind] = IF outcome = "ok" /\ step = kind THEN t.done[kind] + 1 ELSE t.done[kind]
  <2> HIDE DEF outcome, step
  <2> QED BY <1>5
<1>10. context' = [context EXCEPT ![w] = d]
  BY <1>1
<1>11. worker' = [worker EXCEPT ![w] = u]
  BY <1>1
<1>12. /\ u.event = t.event /\ u.saw = t.saw /\ u.seen = t.seen /\ u.left = t.left /\ u.done = done /\ u.runs = t.runs
       /\ d.results = Append(c.results, outcome) /\ u \in Transaction
  <2> HIDE DEF t, broken, done
  <2> QED BY <1>2, <1>5, <1>8 DEF Transaction
<1>14. d \in Ctx
  <2>1. Append(c.results, outcome) \in Results
    BY <1>4, <1>6, AppendProperties DEF Results
  <2> HIDE DEF outcome, ticket
  <2> QED BY <1>7, <2>1 DEF Ctx
<1>15. Partial(flow, t.event, d)
  <2> HIDE DEF outcome, ticket, t, c, flow
  <2> QED BY <1>2, <1>3, <1>6, <1>7, StepPartial
<1> HIDE DEF u, d, done, ticket, outcome, broken
<1>16. Recorded(u)
  BY <1>2, <1>12 DEF Recorded
<1>17. Flow(u) = flow
  BY <1>12 DEF Flow
<1>18. Going(u, d)
  <2> SUFFICES ASSUME NEW kind \in Traced
               PROVE  u.done[kind] = Cardinality(Made(u.runs, kind)) + Cardinality(OkSteps(flow, d.results, kind))
    BY <1>3, <1>12, <1>15, <1>17 DEF Going
  <2> DEFINE made == Cardinality(Made(t.runs, kind))
             old == Cardinality(OkSteps(flow, c.results, kind))
             new == Cardinality(OkSteps(flow, d.results, kind))
  <2>1. t.done[kind] = made + old
    BY <1>2, <1>3 DEF Going
  <2>3. new = IF outcome = "ok" /\ step = kind THEN old + 1 ELSE old
    <3> HIDE DEF t, flow
    <3> QED BY <1>3, <1>4, <1>6, <1>12, <1>17, StepMarks
  <2>4. made \in Nat /\ old \in Nat
    BY <1>5, MadeIsFinite, MarksAreFinite
  <2>5. u.done[kind] = IF outcome = "ok" /\ step = kind THEN t.done[kind] + 1 ELSE t.done[kind]
    BY <1>9, <1>12
  <2>6. u.done[kind] = made + new
    <3> HIDE DEF made, old, new, step
    <3> QED BY <2>1, <2>3, <2>4, <2>5
  <2> QED BY <1>12, <2>6
<1>19. Reading(u, definitions, log)
  BY <1>2, <1>12 DEF Reading
<1>20. UNCHANGED <<definitions, state, effects, log, written, overlapped>> /\ fired' \in 0 .. MaxFired
  BY <1>1, <1>2
<1> QED BY <1>10, <1>11, <1>12, <1>14, <1>16, <1>18, <1>19, <1>20, WorkerKeeps

\* A run that ends is honest.
LEMMA EndedRun ==
  ASSUME NEW flow \in Definition, NEW event \in Events, NEW seen \in States, NEW n \in Nat, NEW c \in Ctx,
         Partial(flow, event, c), Over(flow, c.results), Matching(flow, event, seen)
  PROVE  LET run == [of |-> n, event |-> event, seen |-> seen, row |-> flow, results |-> c.results]
         IN  run \in WorkflowRun /\ IsHonest(run)
<1> DEFINE run == [of |-> n, event |-> event, seen |-> seen, row |-> flow, results |-> c.results]
           last == Len(c.results)
<1>1. c.results \in Results /\ last \in Nat /\ Len(flow.steps) \in Nat
  BY LenProperties DEF Ctx, Results, Definition, Programs
<1>2. run \in WorkflowRun /\ run.event = event /\ run.seen = seen /\ run.row = flow /\ run.results = c.results
  BY <1>1 DEF WorkflowRun
<1>3. flow.enabled /\ flow.trigger = event
  BY DEF Matching
<1>4. flow.condition \in States => event \in WithFinding /\ flow.condition = seen
  BY DEF Matching, RuleMatches, States
<1>5. last < Len(flow.steps) => flow.stop /\ last > 0 /\ c.results[last] = "error"
  <2>1. c.results # <<>> => last > 0
    BY <1>1
  <2> QED BY <1>1, <2>1 DEF Over
<1>6. /\ \A k \in 1 .. (last - 1) : flow.stop => c.results[k] # "error"
      /\ \A k \in 1 .. last :
           flow.steps[k] = "comment" /\ c.results[k] = "ok" =>
             event \in WithTicket \/ \E j \in 1 .. (k - 1) : flow.steps[j] = "ticket" /\ c.results[j] = "ok"
  BY DEF Partial
<1> HIDE DEF run
<1>7. IsHonest(run)
  BY <1>2, <1>3, <1>4, <1>5, <1>6 DEF IsHonest
<1> QED BY <1>2, <1>7 DEF run

LEMMA RunEndsKeeps == ASSUME WorkflowsInv, NEW w \in Workers, RunEnds(w) PROVE WorkflowsInv'
<1> DEFINE t == worker[w]
           c == context[w]
           flow == Flow(t)
           m == Min(t.left)
           run == [of |-> m, event |-> t.event, seen |-> t.seen, row |-> flow, results |-> c.results]
           u == [t EXCEPT !.left = @ \ {m}, !.runs = Append(@, run)]
           d == Context(t.event)
<1>1. /\ t.left # {} /\ Over(flow, c.results)
      /\ worker' = [worker EXCEPT ![w] = u] /\ context' = [context EXCEPT ![w] = d]
      /\ UNCHANGED <<definitions, state, effects, log, fired, written, overlapped>>
  BY DEF RunEnds
<1>2. /\ t \in Transaction /\ c \in Ctx /\ fired \in 0 .. MaxFired
      /\ Recorded(t) /\ Going(t, c) /\ Reading(t, definitions, log)
  BY DEF WorkflowsInv, WorkflowsTyped
<1>3. m \in t.left /\ m \in DOMAIN t.saw /\ m \in Nat /\ flow = t.saw[m] /\ flow \in Definition
  <2>1. t.left \subseteq DOMAIN t.saw
    BY <1>2 DEF Recorded
  <2> QED BY <1>1, <1>2, <2>1, FirstLeft
<1>4. /\ t.runs \in Seq(WorkflowRun) /\ t.left \in SUBSET Nat /\ t.seen \in States
      /\ Partial(flow, t.event, c) /\ Matching(flow, t.event, t.seen)
  BY <1>1, <1>2, <1>3 DEF Transaction, Recorded, Going
<1>5. t.event \in Events
  BY <1>3, <1>4 DEF Matching, Definition
<1> HIDE DEF t, flow, m
<1>6. run \in WorkflowRun /\ IsHonest(run)
  BY <1>1, <1>2, <1>3, <1>4, <1>5, EndedRun
<1>7. run.of = m /\ run.row = flow /\ run.results = c.results
  OBVIOUS
<1> HIDE DEF run
<1>8. /\ Append(t.runs, run) \in Seq(WorkflowRun) /\ DOMAIN Append(t.runs, run) = 1 .. Len(t.runs) + 1
      /\ DOMAIN t.runs = 1 .. Len(t.runs) /\ Len(t.runs) \in Nat
      /\ Append(t.runs, run)[Len(t.runs) + 1] = run /\ \A n \in 1 .. Len(t.runs) : Append(t.runs, run)[n] = t.runs[n]
  BY <1>4, <1>6, AppendProperties, LenProperties
<1>9. /\ u.event = t.event /\ u.saw = t.saw /\ u.seen = t.seen /\ u.left = t.left \ {m} /\ u.done = t.done
      /\ u.runs = Append(t.runs, run) /\ u \in Transaction
  BY <1>2, <1>4, <1>8 DEF Transaction
<1>10. d \in Ctx /\ d.results = <<>>
  BY OffIsSound
<1> HIDE DEF u, c
<1>11. Recorded(u)
  <2>1. \A n \in 1 .. Len(t.runs) + 1 : n \in 1 .. Len(t.runs) \/ n = Len(t.runs) + 1
    BY <1>8
  <2>2. /\ t.left \subseteq DOMAIN t.saw
        /\ \A n \in DOMAIN t.runs : IsHonest(t.runs[n]) /\ t.runs[n].of \in DOMAIN t.saw /\ t.runs[n].of \notin t.left
        /\ \A n, k \in DOMAIN t.runs : t.runs[n].of = t.runs[k].of => n = k
        /\ \A i \in t.left : Matching(t.saw[i], t.event, t.seen)
    BY <1>2 DEF Recorded
  <2>3. ASSUME NEW n \in DOMAIN u.runs
        PROVE  IsHonest(u.runs[n]) /\ u.runs[n].of \in DOMAIN u.saw /\ u.runs[n].of \notin u.left
    <3>1. CASE n \in 1 .. Len(t.runs)
      BY <1>8, <1>9, <2>2, <3>1
    <3>2. CASE n = Len(t.runs) + 1
      BY <1>3, <1>6, <1>7, <1>8, <1>9, <3>2
    <3> QED BY <1>8, <1>9, <2>1, <3>1, <3>2
  <2>4. ASSUME NEW n \in DOMAIN u.runs, NEW k \in DOMAIN u.runs, u.runs[n].of = u.runs[k].of PROVE n = k
    <3>1. \A j \in 1 .. Len(t.runs) : u.runs[j].of # m /\ u.runs[j] = t.runs[j]
      BY <1>3, <1>8, <1>9, <2>2
    <3>2. u.runs[Len(t.runs) + 1].of = m
      BY <1>7, <1>8, <1>9
    <3> QED BY <1>8, <1>9, <2>1, <2>2, <2>4, <3>1, <3>2
  <2>5. u.left \subseteq DOMAIN u.saw /\ \A i \in u.left : Matching(u.saw[i], u.event, u.seen)
    BY <1>9, <2>2
  <2> QED BY <2>3, <2>4, <2>5 DEF Recorded
<1>12. Going(u, d)
  <2>1. ASSUME NEW kind \in Traced
        PROVE  /\ u.done[kind] = Cardinality(Made(u.runs, kind)) /\ Cardinality(OkSteps(Flow(u), d.results, kind)) = 0
               /\ Cardinality(Made(u.runs, kind)) \in Nat
    <3>1. t.done[kind] = Cardinality(Made(t.runs, kind)) + Cardinality(OkSteps(flow, c.results, kind))
      BY <1>1, <1>2 DEF Going, flow
    <3>2. Cardinality(Made(u.runs, kind)) = Cardinality(Made(t.runs, kind)) + Cardinality(OkSteps(flow, c.results, kind))
      BY <1>4, <1>6, <1>7, <1>9, MadeAppended
    <3>3. OkSteps(Flow(u), d.results, kind) = {}
      BY <1>10 DEF OkSteps
    <3>4. Cardinality(Made(u.runs, kind)) \in Nat
      BY <1>8, <1>9, MadeIsFinite
    <3> QED BY <1>9, <3>1, <3>2, <3>3, <3>4, FS_EmptySet
  <2>2. u.left # {} => Partial(Flow(u), u.event, d)
    <3> SUFFICES ASSUME u.left # {} PROVE Partial(Flow(u), u.event, d)
      OBVIOUS
    <3>1. Flow(u) \in Definition
      BY <1>9, <1>11, FirstLeft DEF Recorded
    <3> QED BY <1>9, <3>1, FreshRun
  <2> QED BY <2>1, <2>2 DEF Going
<1>13. Reading(u, definitions, log)
  BY <1>2, <1>9 DEF Reading
<1>14. UNCHANGED <<definitions, state, effects, log, written, overlapped>> /\ fired' \in 0 .. MaxFired
  BY <1>1, <1>2
<1> QED BY <1>1, <1>9, <1>10, <1>11, <1>12, <1>13, <1>14, WorkerKeeps

\* A transaction that commits: every workflow it ran has one more run, and none a count
\* above its runs; its effects are those of its runs.
LEMMA CommitKeeps ==
  ASSUME WorkflowsInv, NEW w \in Workers, TriggerEnds(w), ~worker[w].broken
  PROVE  WorkflowsInv'
<1> DEFINE t == worker[w]
           Ids == {t.runs[n].of : n \in DOMAIN t.runs}
           c == Context("none")
<1>1. /\ t.left = {} /\ worker' = [worker EXCEPT ![w] = Off] /\ context' = [context EXCEPT ![w] = c]
      /\ state' = IF t.done["close"] > 0 THEN "closed" ELSE state
      /\ effects' = [k \in Traced |-> effects[k] + t.done[k]] /\ log' = log \o t.runs
      /\ definitions' = [i \in DOMAIN definitions |->
           IF i \in Ids THEN [definitions[i] EXCEPT !.runs = t.saw[i].runs + 1] ELSE definitions[i]]
      /\ overlapped' = overlapped \cup {i \in Ids : definitions[i].runs # t.saw[i].runs}
      /\ UNCHANGED <<fired, written>>
  BY DEF TriggerEnds
<1>2. WorkflowsTyped /\ Logged /\ CountsAreRuns /\ RunsAreHonest /\ EffectsAreTraced /\ SlugsAreUnique
  BY DEF WorkflowsInv, WorkflowsAreHonest
<1>3. /\ t \in Transaction /\ t.runs \in Seq(WorkflowRun) /\ t.saw \in Seq(Definition) /\ t.done \in [Traced \cup {"close"} -> Nat]
      /\ Recorded(t) /\ Going(t, context[w]) /\ Reading(t, definitions, log)
  BY DEF WorkflowsInv, WorkflowsTyped, Transaction
<1>4. /\ definitions \in Seq(Definition) /\ log \in Seq(WorkflowRun) /\ effects \in [Traced -> Nat] /\ state \in States
      /\ DOMAIN definitions = 1 .. Len(definitions) /\ Len(definitions) \in Nat
      /\ DOMAIN t.saw = 1 .. Len(t.saw) /\ Len(t.saw) \in Nat
  BY <1>2, <1>3, LenProperties DEF WorkflowsTyped
<1>5. Ids \subseteq DOMAIN t.saw /\ DOMAIN t.saw \subseteq DOMAIN definitions
  <2>1. \A n \in DOMAIN t.runs : t.runs[n].of \in DOMAIN t.saw
    BY <1>3 DEF Recorded
  <2> QED BY <1>3, <1>4, <2>1 DEF Reading
<1>6. \A i \in DOMAIN t.saw : t.saw[i].runs \in Nat
  <2>1. \A i \in DOMAIN t.saw : t.saw[i] \in Definition
    BY <1>3, <1>4, ElementOfSeq
  <2> QED BY <2>1 DEF Definition
<1>7. \A i \in DOMAIN definitions : definitions[i] \in Definition
  BY <1>4, ElementOfSeq
<1>8. /\ DOMAIN definitions' = DOMAIN definitions
      /\ \A i \in Ids : definitions'[i] \in Definition /\ definitions'[i].slug = definitions[i].slug
                        /\ definitions'[i].runs = t.saw[i].runs + 1
      /\ \A i \in DOMAIN definitions \ Ids : definitions'[i] = definitions[i]
  <2> HIDE DEF Ids, t
  <2>1. DOMAIN definitions' = DOMAIN definitions /\ \A i \in DOMAIN definitions \ Ids : definitions'[i] = definitions[i]
    BY <1>1
  <2>2. ASSUME NEW i \in Ids
        PROVE  /\ definitions'[i] \in Definition /\ definitions'[i].slug = definitions[i].slug
               /\ definitions'[i].runs = t.saw[i].runs + 1
    <3>1. definitions'[i] = [definitions[i] EXCEPT !.runs = t.saw[i].runs + 1]
      BY <1>1, <1>5
    <3> QED BY <1>5, <1>6, <1>7, <3>1 DEF Definition
  <2> QED BY <2>1, <2>2
<1>9. definitions' \in Seq(Definition) /\ Len(definitions') = Len(definitions)
  <2>1. definitions' \in [1 .. Len(definitions) -> Definition]
    <3> HIDE DEF Ids, t
    <3>1. \A i \in DOMAIN definitions : definitions'[i] \in Definition
      BY <1>5, <1>7, <1>8
    <3>2. definitions' = [i \in DOMAIN definitions' |-> definitions'[i]]
      BY <1>1
    <3> QED BY <1>4, <1>8, <3>1, <3>2
  <2>2. definitions' \in UNION {[1 .. n -> Definition] : n \in Nat}
    BY <1>4, <2>1
  <2>3. definitions' \in Seq(Definition)
    BY <2>2, SeqDef
  <2>4. DOMAIN definitions' = 1 .. Len(definitions') /\ Len(definitions') \in Nat
    BY <2>3, LenProperties
  <2> QED BY <1>4, <1>8, <2>3, <2>4
<1> HIDE DEF t
<1>10. log' \in Seq(WorkflowRun) /\ \A n \in DOMAIN log' : \/ n \in DOMAIN log /\ log'[n] = log[n]
                                                          \/ \E k \in DOMAIN t.runs : log'[n] = t.runs[k]
  <2>1. log' \in Seq(WorkflowRun)
    BY <1>1, <1>3, <1>4, Joined
  <2>2. ASSUME NEW n \in DOMAIN log' PROVE \/ n \in DOMAIN log /\ log'[n] = log[n]
                                           \/ \E k \in DOMAIN t.runs : log'[n] = t.runs[k]
    <3>1. n \in DOMAIN log \/ n - Len(log) \in DOMAIN t.runs
      BY <1>1, <1>3, <1>4, Joined
    <3>2. CASE n \in DOMAIN log
      BY <1>1, <1>3, <1>4, <3>2, Joined
    <3>3. CASE n - Len(log) \in DOMAIN t.runs
      <4>1. PICK k \in DOMAIN t.runs : k = n - Len(log)
        BY <3>3
      <4>2. Len(log) \in Nat /\ n \in Nat
        <5>1. DOMAIN log' = 1 .. Len(log') /\ Len(log') \in Nat /\ Len(log) \in Nat
          BY <1>4, <2>1, LenProperties
        <5> QED BY <5>1
      <4>3. n = Len(log) + k
        BY <4>1, <4>2
      <4> QED BY <1>1, <1>3, <1>4, <4>3, Joined
    <3> QED BY <3>1, <3>2, <3>3
  <2> QED BY <2>1, <2>2
<1>11. /\ \A i \in Ids : Cardinality(Of(log', i)) = Cardinality(Of(log, i)) + 1
       /\ \A i : i \notin Ids => Of(log', i) = Of(log, i)
       /\ \A i : Cardinality(Of(log, i)) \in Nat
  <2>1. ASSUME NEW i \in Ids PROVE Cardinality(Of(log', i)) = Cardinality(Of(log, i)) + 1
    <3>1. PICK m \in DOMAIN t.runs : t.runs[m].of = i
      OBVIOUS
    <3>2. \A n \in DOMAIN t.runs : t.runs[n].of = i => n = m
      BY <1>3, <3>1 DEF Recorded
    <3>3. Cardinality(Of(log \o t.runs, i)) = Cardinality(Of(log, i)) + 1
      BY <1>3, <1>4, <3>1, <3>2, OfOneMore
    <3> QED BY <1>1, <3>3
  <2>2. ASSUME NEW i, i \notin Ids PROVE Of(log', i) = Of(log, i)
    <3>1. \A n \in DOMAIN t.runs : t.runs[n].of # i
      BY <2>2
    <3> QED BY <1>1, <1>3, <1>4, <3>1, OfNoMore
  <2>3. \A i : Cardinality(Of(log, i)) \in Nat
    BY <1>4, OfIsFinite
  <2> QED BY <2>1, <2>2, <2>3
<1> HIDE DEF Ids
<1>12. WorkflowsTyped'
  <2>1. worker' \in [Workers -> Transaction] /\ context' \in [Workers -> Ctx]
    BY <1>1, <1>2, OffIsSound DEF WorkflowsTyped
  <2>2. effects' \in [Traced -> Nat] /\ state' \in States
    BY <1>1, <1>3, <1>4 DEF States
  <2>3. fired' \in 0 .. MaxFired /\ written' \in 0 .. MaxWritten
    BY <1>1, <1>2 DEF WorkflowsTyped
  <2> QED BY <1>9, <1>10, <2>1, <2>2, <2>3 DEF WorkflowsTyped
<1>13. Logged' /\ RunsAreHonest'
  <2>1. \A k \in DOMAIN t.runs : t.runs[k].of \in DOMAIN definitions /\ IsHonest(t.runs[k])
    BY <1>3, <1>5 DEF Recorded
  <2>2. \A n \in DOMAIN log : log[n].of \in DOMAIN definitions /\ IsHonest(log[n])
    BY <1>2 DEF Logged, RunsAreHonest
  <2>3. \A n \in DOMAIN log' : log'[n].of \in DOMAIN definitions' /\ IsHonest(log'[n])
    BY <1>8, <1>10, <2>1, <2>2
  <2> QED BY <2>3 DEF Logged, RunsAreHonest
<1>14. CountsAreRuns'
  <2> SUFFICES ASSUME NEW i \in DOMAIN definitions'
               PROVE  /\ definitions'[i].runs <= Cardinality(Of(log', i))
                      /\ i \notin overlapped' => definitions'[i].runs = Cardinality(Of(log', i))
    BY DEF CountsAreRuns, Runs, Of
  <2>1. /\ definitions[i].runs <= Cardinality(Of(log, i))
        /\ i \notin overlapped => definitions[i].runs = Cardinality(Of(log, i))
    BY <1>2, <1>8, CountsSpelled DEF CountsAreRuns
  <2>2. CASE i \in Ids
    <3>1. t.saw[i].runs <= Cardinality(Of(log, i)) /\ t.saw[i].runs \in Nat
      BY <1>3, <1>5, <1>6, <2>2 DEF Reading
    <3>2. i \notin overlapped' => i \notin overlapped /\ definitions[i].runs = t.saw[i].runs
      BY <1>1, <2>2
    <3>3. definitions'[i].runs = t.saw[i].runs + 1 /\ Cardinality(Of(log', i)) = Cardinality(Of(log, i)) + 1
      BY <1>8, <1>11, <2>2
    <3> QED BY <1>11, <2>1, <3>1, <3>2, <3>3
  <2>3. CASE i \notin Ids
    <3>1. definitions'[i].runs = definitions[i].runs /\ Of(log', i) = Of(log, i)
      BY <1>8, <1>11, <2>3
    <3>2. i \notin overlapped' => i \notin overlapped
      BY <1>1
    <3> QED BY <2>1, <3>1, <3>2
  <2> QED BY <2>2, <2>3
<1>15. EffectsAreTraced'
  <2> SUFFICES ASSUME NEW kind \in Traced PROVE effects'[kind] = Cardinality(Made(log', kind))
    BY DEF EffectsAreTraced
  <2>1. effects'[kind] = effects[kind] + t.done[kind] /\ effects[kind] = Cardinality(Made(log, kind))
    BY <1>1, <1>2 DEF EffectsAreTraced
  <2>2. t.done[kind] = Cardinality(Made(t.runs, kind))
    BY <1>1, <1>3 DEF Going
  <2>3. Cardinality(Made(log', kind)) = Cardinality(Made(log, kind)) + Cardinality(Made(t.runs, kind))
    BY <1>1, <1>3, <1>4, MadeJoined
  <2> QED BY <2>1, <2>2, <2>3
<1>16. SlugsAreUnique'
  <2>1. \A i \in DOMAIN definitions : definitions'[i].slug = definitions[i].slug
    BY <1>8
  <2> QED BY <1>2, <1>8, <2>1 DEF SlugsAreUnique
<1>17. ASSUME NEW v \in Workers
       PROVE  (Recorded(worker[v]) /\ Going(worker[v], context[v]) /\ Reading(worker[v], definitions, log))'
  <2>1. CASE v = w
    <3>1. worker'[v] = Off
      BY <1>1, <1>2, <2>1 DEF WorkflowsTyped
    <3>2. Recorded(Off) /\ Going(Off, context'[v]) /\ Reading(Off, definitions', log')
      BY <1>9, OffIsSound
    <3> QED BY <3>1, <3>2
  <2>2. CASE v # w
    <3>1. worker'[v] = worker[v] /\ context'[v] = context[v]
      BY <1>1, <1>2, <2>2 DEF WorkflowsTyped
    <3>2. Recorded(worker[v]) /\ Going(worker[v], context[v]) /\ Reading(worker[v], definitions, log)
      BY DEF WorkflowsInv
    <3>3. \A i : Cardinality(Of(log, i)) <= Cardinality(Of(log', i)) /\ Cardinality(Of(log', i)) \in Nat
      <4> TAKE i
      <4>1. CASE i \in Ids
        BY <1>11, <4>1
      <4>2. CASE i \notin Ids
        BY <1>11, <4>2
      <4> QED BY <4>1, <4>2
    <3>4. \A i \in DOMAIN worker[v].saw : worker[v].saw[i].runs \in Nat
      <4>1. worker[v].saw \in Seq(Definition)
        BY <1>2 DEF WorkflowsTyped, Transaction
      <4>2. \A i \in DOMAIN worker[v].saw : worker[v].saw[i] \in Definition
        BY <4>1, ElementOfSeq, LenProperties
      <4> QED BY <4>2 DEF Definition
    <3>5. Reading(worker[v], definitions', log')
      <4>1. ASSUME NEW i \in DOMAIN worker[v].saw PROVE worker[v].saw[i].runs <= Cardinality(Of(log', i))
        <5>1. worker[v].saw[i].runs <= Cardinality(Of(log, i))
          BY <3>2 DEF Reading
        <5> QED BY <1>11, <3>3, <3>4, <5>1
      <4> QED BY <1>9, <3>2, <4>1 DEF Reading
    <3> QED BY <3>1, <3>2, <3>5
  <2> QED BY <2>1, <2>2
<1> QED BY <1>12, <1>13, <1>14, <1>15, <1>16, <1>17 DEF WorkflowsInv, WorkflowsAreHonest

LEMMA EndsKeeps == ASSUME WorkflowsInv, NEW w \in Workers, TriggerEnds(w) PROVE WorkflowsInv'
<1>1. CASE ~worker[w].broken
  BY <1>1, CommitKeeps
<1>2. CASE worker[w].broken
  <2>1. /\ worker' = [worker EXCEPT ![w] = Off] /\ context' = [context EXCEPT ![w] = Context("none")]
        /\ UNCHANGED <<definitions, state, effects, log, overlapped, fired, written>>
    BY <1>2 DEF TriggerEnds
  <2>2. definitions \in Seq(Definition) /\ fired \in 0 .. MaxFired
    BY DEF WorkflowsInv, WorkflowsTyped
  <2>3. Recorded(Off) /\ Going(Off, Context("none")) /\ Reading(Off, definitions, log) /\ Off \in Transaction /\ Context("none") \in Ctx
    BY <2>2, OffIsSound
  <2> QED BY <2>1, <2>2, <2>3, WorkerKeeps
<1> QED BY <1>1, <1>2

LEMMA WorkflowsStep == ASSUME WorkflowsInv, [WorkflowsNext]_workflowVars PROVE WorkflowsInv'
<1>1. CASE CreateWorkflow \/ UpdateWorkflow \/ SeedWorkflows
  BY <1>1, CreateKeeps, UpdateKeeps, SeedKeeps
<1>2. CASE \E w \in Workers : TriggerBegins(w) \/ StepRuns(w) \/ RunEnds(w) \/ TriggerEnds(w) \/ TriggerDies(w)
  BY <1>2, BeginsKeeps, StepKeeps, RunEndsKeeps, EndsKeeps, DiesKeeps
<1>3. CASE UNCHANGED workflowVars
  <2>1. WorkflowsTyped' /\ Logged' /\ WorkflowsAreHonest'
    BY <1>3 DEF WorkflowsInv, workflowVars, WorkflowsTyped, Logged, WorkflowsAreHonest, CountsAreRuns, Runs, RunsAreHonest,
       EffectsAreTraced, SlugsAreUnique
  <2>2. \A w \in Workers : (Recorded(worker[w]) /\ Going(worker[w], context[w]) /\ Reading(worker[w], definitions, log))'
    BY <1>3 DEF WorkflowsInv, workflowVars
  <2> QED BY <2>1, <2>2 DEF WorkflowsInv
<1> QED BY <1>1, <1>2, <1>3 DEF WorkflowsNext

LEMMA WorkflowsInvariance == WorkflowsSpec => []WorkflowsInv
BY WorkflowsStarts, WorkflowsStep, PTL DEF WorkflowsSpec

\* Whatever transactions overlap and whoever writes the workflows meanwhile, a count is
\* never above the runs there are, a run did what its condition and its steps say, every
\* notice and comment is one of a committed run, and no slug names two workflows.
THEOREM WorkflowsHonest == WorkflowsSpec => []WorkflowsAreHonest
<1>1. WorkflowsInv => WorkflowsAreHonest
  BY DEF WorkflowsInv
<1> QED BY WorkflowsInvariance, <1>1, PTL

-----------------------------------------------------------------------------
(***************************************************************************)
(* The services side by side.                                              *)
(***************************************************************************)

\* A step of one service leaves the variables of the others alone.
LEMMA OneTenantServiceMoves ==
  ASSUME [MCNext]_MCVars
  PROVE  /\ [FeedNext]_feedVars /\ [SettingsNext]_settingsVars /\ [CadenceNext]_cadenceVars
         /\ [WorkflowsNext]_workflowVars /\ [AiNext]_aiVars /\ [AuthorityNext]_authorityVars
<1>1. CASE MCNext
  BY <1>1 DEF MCNext
<1>2. CASE UNCHANGED MCVars
  BY <1>2 DEF MCVars
<1> QED BY <1>1, <1>2

\* Whichever service of the tenant moves, all of them keep their invariants.
ServicesInv == FeedInv /\ SettingsInv /\ CadenceInv /\ WorkflowsInv /\ AiInv /\ AuthorityInv

LEMMA ServicesInvariance == MCSpec => []ServicesInv
<1>1. MCInit => ServicesInv
  BY FeedStart, SettingsStart, CadenceStarts, WorkflowsStarts, AiStarts, AuthorityStarts DEF MCInit, ServicesInv
<1>2. ASSUME ServicesInv, [MCNext]_MCVars PROVE ServicesInv'
  BY <1>2, OneTenantServiceMoves, FeedStep, SettingsStep, CadenceStep, WorkflowsStep, AiStep, AuthorityStep DEF ServicesInv
<1> QED BY <1>1, <1>2, PTL DEF MCSpec

\* Every variable of the six services keeps its type, whichever of them runs
\* (services/nvd_sync, org_settings, intel_schedule, workflow, ai/gateway, agents).
THEOREM PlatformTypeCorrect == MCSpec => []PlatformTypeOK
<1>1. FeedInv => FeedTypeOK
  BY DEF FeedInv
<1>2. SettingsInv => SettingsTypeOK
  BY FitDocuments DEF SettingsInv, SettingsTypeOK
<1>3. CadenceInv => CadenceTypeOK
  BY DEF CadenceInv
<1>4. WorkflowsInv => WorkflowsTypeOK
  BY DEF WorkflowsInv, WorkflowsTyped, Logged, WorkflowsTypeOK
<1>5. AiInv => AiTypeOK
  BY AiBounded
<1>6. AuthorityInv => AuthorityTypeOK
  <2>1. AuthorityTyped /\ Enabled => AuthorityTypeOK
    <3>1. AuthorityTyped => /\ rulebook \in Rulebooks \cup {Inert} /\ installed \subseteq ScanTools /\ declares \subseteq ScanTools
                            /\ scanJob # NoScan => scanJob.state \in {"queued", "leased"}
      BY DEF AuthorityTyped, Rules, ScanRecord
    <3>2. Enabled => \A x \in ScanTools : tools[x].enabled => tools[x].exists
      BY DEF Enabled
    <3> QED BY <3>1, <3>2 DEF AuthorityTypeOK
  <2> QED BY <2>1 DEF AuthorityInv
<1>7. ServicesInv => PlatformTypeOK
  BY <1>1, <1>2, <1>3, <1>4, <1>5, <1>6 DEF ServicesInv, PlatformTypeOK
<1> QED BY ServicesInvariance, <1>7, PTL

\* Whatever the timers, the transactions, the questions and the heartbeats of a tenant
\* do to each other, it gets what it asked of its services, no more and no less
\* (services/intel_schedule, workflow, ai/gateway, agents).
THEOREM TenantsServed == MCSpec => []TenantsAreServed
<1>1. CadenceInv => NobodyGetsLess
  BY NobodyIsLate
<1>2. WorkflowsInv => WorkflowsAreHonest
  BY DEF WorkflowsInv
<1>3. AiInv => AssistantIsBounded
  BY AiBounded
<1>4. AuthorityInv => AgentsAreTrusted
  BY DEF AuthorityInv, Enabled, AgentsAreTrusted, ToolsAreAllowed
<1>5. ServicesInv => TenantsAreServed
  BY <1>1, <1>2, <1>3, <1>4 DEF ServicesInv, TenantsAreServed
<1> QED BY ServicesInvariance, <1>5, PTL
=============================================================================
