----------------------- MODULE FindingLifecycleProofs -----------------------
(***************************************************************************)
(* Theorems of FindingLifecycle, for every set of tests, policies, owners  *)
(* and acceptances, every ladder and every route path_to might take that   *)
(* is a walk through the graph.                                            *)
(*                                                                         *)
(* The proofs follow one row through the services' helpers: each keeps it  *)
(* sound (Sound), forgets no mark but with a new detection (Follows), and  *)
(* adds to its events a way through the graph (Led).                       *)
(***************************************************************************)
EXTENDS FindingLifecycle, SequenceTheorems, TLAPS

\* What every transaction keeps of the row: its type, a detection that is not
\* in the future, and a deadline within one window of it.
Sound(row) ==
  /\ row \in Finding
  /\ row.detected <= clock
  /\ row.due <= row.detected + Window[row.policy]

\* What every transaction does to the clock of the finding: it starts it again,
\* or forgets neither a breach nor a level of escalation.
Follows(old, new) ==
  /\ old.detected = clock => new.detected = clock
  /\ \/ new.detected = clock
     \/ (old.breached => new.breached) /\ old.level <= new.level

\* The inductive invariant.
IInv == TypeOK /\ Sound(finding)

-----------------------------------------------------------------------------
(* The states and the sets they are grouped in. *)

LEMMA StateNames ==
  /\ {"new", "triaged", "assigned", "accepted_risk", "remediated"} \subseteq States
  /\ OpenStates \subseteq States
  /\ Reopenable \subseteq States
<1>1. \A i \in 1 .. 15 : Alphabet[i] \in States
  BY DEF States, Alphabet
<1>2. /\ Alphabet[1] = "accepted_risk" /\ Alphabet[2] = "assigned"
      /\ Alphabet[3] = "closed" /\ Alphabet[4] = "deferred"
      /\ Alphabet[8] = "in_progress" /\ Alphabet[9] = "mitigation"
      /\ Alphabet[10] = "new" /\ Alphabet[11] = "remediated"
      /\ Alphabet[12] = "risk_assessed" /\ Alphabet[13] = "triaged"
      /\ Alphabet[14] = "verification" /\ Alphabet[15] = "verified"
  BY DEF Alphabet
<1> QED BY <1>1, <1>2 DEF OpenStates, Reopenable

LEMMA TimeFacts ==
  ASSUME clock \in Time
  PROVE  clock \in Nat /\ clock \in MaybeTime /\ None \in MaybeTime
BY ClockAssumption DEF Time, MaybeTime, None

\* Each operator keeps a row sound.
LEMMA CleanSound ==
  ASSUME NEW row, Sound(row)
  PROVE  Sound(Clean(row))
<1> DEFINE m == <<>>
           v == {}
<1>1. m \in Seq(States) /\ v \in SUBSET {"set", "warned", "breached", "met", "escalated"}
  BY EmptySeq
<1>2. Clean(row) = [row EXCEPT !.moves = m, !.sla = v]
  BY DEF Clean
<1> HIDE DEF m, v
<1> QED BY <1>1, <1>2 DEF Sound, Finding

LEMMA WrittenSound ==
  ASSUME NEW row, NEW target \in States, Sound(row)
  PROVE  /\ Sound(Written(row, target))
         /\ Written(row, target).detected = row.detected
         /\ Written(row, target).policy = row.policy
<1> DEFINE m == Append(row.moves, target)
<1>1. m \in Seq(States)
  BY DEF Sound, Finding
<1>2. Written(row, target) = [row EXCEPT !.state = target, !.moves = m]
  BY DEF Written
<1> HIDE DEF m
<1> QED BY <1>1, <1>2 DEF Sound, Finding

LEMMA ThroughSound ==
  ASSUME NEW row, NEW route \in Seq(States), Sound(row), clock \in Time
  PROVE  Sound(Through(row, route))
<1> DEFINE fixes == \E i \in DOMAIN route : route[i] = "remediated"
           s == IF route = <<>> THEN row.state ELSE route[Len(route)]
           f == IF fixes /\ row.fixed = None THEN clock ELSE row.fixed
           v == row.sla \cup (IF fixes THEN {IF row.breached THEN "breached" ELSE "met"}
                              ELSE {})
<1>1. s \in States
  BY DEF Sound, Finding
<1>2. f \in MaybeTime
  BY TimeFacts DEF Sound, Finding
<1>3. v \in SUBSET {"set", "warned", "breached", "met", "escalated"}
  BY DEF Sound, Finding
<1>4. row.moves \o route \in Seq(States)
  BY DEF Sound, Finding
<1>5. Through(row, route) = [row EXCEPT !.state = s, !.fixed = f,
                                        !.moves = row.moves \o route, !.sla = v]
  BY DEF Through
<1> HIDE DEF s, f, v
<1> QED BY <1>1, <1>2, <1>3, <1>4, <1>5 DEF Sound, Finding

LEMMA AdvancedSound ==
  ASSUME NEW row, NEW target \in States, Sound(row), clock \in Time
  PROVE  Sound(Advanced(row, target))
<1>1. Path[<<row.state, target>>] \in Seq(States)
  BY PathAssumption DEF Sound, Finding
<1> QED BY <1>1, ThroughSound DEF Advanced

\* A clock started again now leaves the deadline within the window.
LEMMA RestartedDeadline ==
  ASSUME NEW row, Sound(row), clock \in Time
  PROVE  row.due <= clock + Window[row.policy]
<1> DEFINE detected == row.detected
           due == row.due
           window == Window[row.policy]
<1>1. detected \in Nat /\ due \in Nat /\ row.policy \in Policies
  BY ClockAssumption DEF Sound, Finding, Time
<1>2. window \in Nat
  BY <1>1, SlaAssumption
<1>3. detected <= clock /\ due <= detected + window /\ clock \in Nat
  BY TimeFacts DEF Sound
<1> HIDE DEF detected, due, window
<1>4. due <= clock + window
  BY <1>1, <1>2, <1>3
<1> QED BY <1>4 DEF due, window

LEMMA RedetectedSound ==
  ASSUME NEW row, Sound(row), clock \in Time
  PROVE  Sound(Redetected(row))
<1>1. CASE row.state \notin Reopenable
  BY <1>1 DEF Redetected
<1>2. CASE row.state \in Reopenable
  <2> DEFINE w == Written(row, "new")
  <2>1. Sound(w) /\ w.detected = row.detected /\ w.policy = row.policy
    BY WrittenSound, StateNames
  <2>2. w.due <= clock + Window[w.policy]
    BY <2>1, RestartedDeadline
  <2>3. 0 \in 0 .. Len(Ladder)
    BY SlaAssumption
  <2>4. Redetected(row) = [w EXCEPT !.fixed = None, !.breached = FALSE,
                                    !.level = 0, !.detected = clock]
    BY <1>2 DEF Redetected
  <2> HIDE DEF w
  <2> DEFINE r == [w EXCEPT !.fixed = None, !.breached = FALSE,
                            !.level = 0, !.detected = clock]
  <2>5. r \in Finding
    BY <2>1, <2>3, TimeFacts DEF Sound, Finding
  <2>6. r.detected = clock /\ r.due = w.due /\ r.policy = w.policy
    BY <2>1 DEF Sound, Finding
  <2>7. clock <= clock
    BY TimeFacts
  <2> HIDE DEF r
  <2>8. Sound(r)
    BY <2>2, <2>5, <2>6, <2>7 DEF Sound
  <2> QED BY <2>4, <2>8 DEF r
<1> QED BY <1>1, <1>2

LEMMA RoutedSound ==
  ASSUME NEW row, NEW owner \in Owners \cup {Nobody}, Sound(row), clock \in Time
  PROVE  Sound(Routed(row, owner))
<1> DEFINE named == [row EXCEPT !.owner = owner]
<1>1. Sound(named)
  BY DEF Sound, Finding
<1>2. Sound(Advanced(named, "assigned"))
  BY <1>1, AdvancedSound, StateNames
<1> QED BY <1>1, <1>2 DEF Routed

LEMMA TimedSound ==
  ASSUME NEW row, NEW policy \in Policies, Sound(row), clock \in Time
  PROVE  /\ Sound(Timed(row, policy))
         /\ Timed(row, policy).due = row.detected + Window[policy]
         /\ Timed(row, policy).policy = policy
         /\ Timed(row, policy).detected = row.detected
         /\ Timed(row, policy).state = row.state
         /\ Timed(row, policy).until = row.until
<1> DEFINE d == row.detected + Window[policy]
           v == row.sla \cup {"set"}
<1>1. d \in Nat
  BY SlaAssumption, ClockAssumption DEF Sound, Finding, Time
<1>2. v \in SUBSET {"set", "warned", "breached", "met", "escalated"}
  BY DEF Sound, Finding
<1>3. Timed(row, policy) = [row EXCEPT !.policy = policy, !.due = d, !.sla = v]
  BY DEF Timed
<1>4. d <= row.detected + Window[policy]
  BY <1>1
<1>5. d = row.detected + Window[policy]
  OBVIOUS
<1> HIDE DEF d, v
<1> QED BY <1>1, <1>2, <1>3, <1>4, <1>5 DEF Sound, Finding

LEMMA ProcessedSound ==
  ASSUME NEW row, NEW policy \in Policies, NEW owner \in Owners \cup {Nobody},
         Sound(row), clock \in Time
  PROVE  Sound(Processed(row, policy, owner))
BY RoutedSound, TimedSound DEF Processed, AppliedSla

LEMMA ClosedAbsentSound ==
  ASSUME NEW row, Sound(row), clock \in Time
  PROVE  Sound(ClosedAbsent(row))
<1>1. Sound(Written(row, "remediated"))
  BY WrittenSound, StateNames
<1> QED BY <1>1, TimeFacts DEF ClosedAbsent, Sound, Finding

LEMMA ReactivatedSound ==
  ASSUME NEW row, NEW acceptance \in Acceptance, NEW policy \in Policies,
         Sound(row), clock \in Time
  PROVE  /\ Sound(Reactivated(row, acceptance, policy))
         /\ row.state = "accepted_risk" =>
              LET r == Reactivated(row, acceptance, policy)
              IN  /\ r.state \in OpenStates
                  /\ r.until = None
                  /\ r.due = r.detected + Window[r.policy]
<1> DEFINE target == IF acceptance.previous \in OpenStates
                     THEN acceptance.previous ELSE "triaged"
           w == Written(row, target)
           back == [w EXCEPT !.until = None]
           fresh == [back EXCEPT !.detected = clock, !.breached = FALSE, !.level = 0]
           base == IF acceptance.restart THEN fresh ELSE back
<1>1. target \in OpenStates /\ target \in States
  BY StateNames DEF OpenStates
<1>2. Sound(w) /\ w.state = target
  <2>1. Sound(w)
    BY <1>1, WrittenSound
  <2> QED BY <2>1, <1>1 DEF Sound, Finding, Written
<1> HIDE DEF w
<1>3. Sound(back) /\ back.state = target /\ back.until = None
  BY <1>2, TimeFacts DEF Sound, Finding
<1> HIDE DEF back
<1>4. Sound(fresh) /\ fresh.state = target /\ fresh.until = None
  <2>1. back.due <= clock + Window[back.policy]
    BY <1>3, RestartedDeadline
  <2>2. 0 \in 0 .. Len(Ladder)
    BY SlaAssumption
  <2>3. fresh \in Finding
    BY <1>3, <2>2, TimeFacts DEF Sound, Finding
  <2>4. /\ fresh.detected = clock /\ fresh.due = back.due
        /\ fresh.policy = back.policy
        /\ fresh.state = back.state /\ fresh.until = back.until
    BY <1>3 DEF Sound, Finding
  <2>5. clock <= clock
    BY TimeFacts
  <2> HIDE DEF fresh
  <2> QED BY <1>3, <2>1, <2>3, <2>4, <2>5 DEF Sound
<1> HIDE DEF fresh
<1>5. Sound(base) /\ base.state = target /\ base.until = None
  BY <1>3, <1>4
<1> HIDE DEF base
<1>6. CASE row.state # "accepted_risk"
  BY <1>6 DEF Reactivated
<1>7. CASE row.state = "accepted_risk"
  <2>1. Reactivated(row, acceptance, policy) = Timed(base, policy)
    BY <1>7 DEF Reactivated, base, fresh, back, w
  <2>2. /\ Sound(Timed(base, policy))
        /\ Timed(base, policy).due = base.detected + Window[policy]
        /\ Timed(base, policy).policy = policy
        /\ Timed(base, policy).detected = base.detected
        /\ Timed(base, policy).state = base.state
        /\ Timed(base, policy).until = base.until
    BY <1>5, TimedSound
  <2> QED BY <2>1, <2>2, <1>5, <1>1
<1> QED BY <1>6, <1>7

-----------------------------------------------------------------------------
(* The same operators and the clock of the finding. *)

LEMMA FollowsTransitive ==
  ASSUME NEW a, NEW b, NEW c, Sound(a), Sound(b), Sound(c),
         Follows(a, b), Follows(b, c)
  PROVE  Follows(a, c)
<1>1. a.level \in Nat /\ b.level \in Nat /\ c.level \in Nat
  BY SlaAssumption DEF Sound, Finding
<1>2. a.breached \in BOOLEAN /\ b.breached \in BOOLEAN /\ c.breached \in BOOLEAN
  BY DEF Sound, Finding
<1> QED BY <1>1, <1>2 DEF Follows

\* Rows that agree on the three fields.
LEMMA SameClockFollows ==
  ASSUME NEW old, NEW new, Sound(old), new.detected = old.detected,
         new.breached = old.breached, new.level = old.level
  PROVE  Follows(old, new)
<1>1. old.level \in Nat
  BY SlaAssumption DEF Sound, Finding
<1> QED BY <1>1 DEF Follows

LEMMA CleanFollows ==
  ASSUME NEW row, Sound(row)
  PROVE  Follows(row, Clean(row))
<1>1. /\ Clean(row).detected = row.detected
      /\ Clean(row).breached = row.breached
      /\ Clean(row).level = row.level
  BY DEF Clean, Sound, Finding
<1> QED BY <1>1, SameClockFollows

LEMMA WrittenFollows ==
  ASSUME NEW row, NEW target \in States, Sound(row)
  PROVE  Follows(row, Written(row, target))
<1>1. /\ Written(row, target).detected = row.detected
      /\ Written(row, target).breached = row.breached
      /\ Written(row, target).level = row.level
  BY DEF Written, Sound, Finding
<1> QED BY <1>1, SameClockFollows

LEMMA ThroughFollows ==
  ASSUME NEW row, NEW route \in Seq(States), Sound(row)
  PROVE  Follows(row, Through(row, route))
<1>1. /\ Through(row, route).detected = row.detected
      /\ Through(row, route).breached = row.breached
      /\ Through(row, route).level = row.level
  BY DEF Through, Sound, Finding
<1> QED BY <1>1, SameClockFollows

LEMMA AdvancedFollows ==
  ASSUME NEW row, NEW target \in States, Sound(row)
  PROVE  Follows(row, Advanced(row, target))
<1>1. Path[<<row.state, target>>] \in Seq(States)
  BY PathAssumption DEF Sound, Finding
<1> QED BY <1>1, ThroughFollows DEF Advanced

LEMMA RedetectedFollows ==
  ASSUME NEW row, Sound(row), clock \in Time
  PROVE  Follows(row, Redetected(row))
<1>1. CASE row.state \notin Reopenable
  BY <1>1, SameClockFollows DEF Redetected
<1>2. CASE row.state \in Reopenable
  <2>1. Redetected(row).detected = clock
    BY <1>2, StateNames, WrittenSound DEF Redetected, Sound, Finding
  <2> QED BY <2>1 DEF Follows
<1> QED BY <1>1, <1>2

LEMMA RoutedFollows ==
  ASSUME NEW row, NEW owner \in Owners \cup {Nobody}, Sound(row), clock \in Time
  PROVE  Follows(row, Routed(row, owner))
<1> DEFINE named == [row EXCEPT !.owner = owner]
           there == Advanced(named, "assigned")
<1>1. Sound(named) /\ Follows(row, named)
  BY SameClockFollows DEF Sound, Finding
<1>2. Sound(there) /\ Follows(named, there)
  BY <1>1, AdvancedSound, AdvancedFollows, StateNames
<1> HIDE DEF named, there
<1>3. Follows(row, there)
  BY <1>1, <1>2, FollowsTransitive
<1>4. Follows(row, row)
  BY SameClockFollows
<1> QED BY <1>1, <1>3, <1>4 DEF Routed, named, there

LEMMA TimedFollows ==
  ASSUME NEW row, NEW policy \in Policies, Sound(row)
  PROVE  Follows(row, Timed(row, policy))
<1>1. /\ Timed(row, policy).detected = row.detected
      /\ Timed(row, policy).breached = row.breached
      /\ Timed(row, policy).level = row.level
  BY DEF Timed, Sound, Finding
<1> QED BY <1>1, SameClockFollows

LEMMA ProcessedFollows ==
  ASSUME NEW row, NEW policy \in Policies, NEW owner \in Owners \cup {Nobody},
         Sound(row), clock \in Time
  PROVE  Follows(row, Processed(row, policy, owner))
<1> DEFINE routed == Routed(row, owner)
<1>1. Sound(routed) /\ Follows(row, routed)
  BY RoutedSound, RoutedFollows
<1> HIDE DEF routed
<1>2. Sound(Timed(routed, policy)) /\ Follows(routed, Timed(routed, policy))
  BY <1>1, TimedSound, TimedFollows
<1>3. Follows(row, Timed(routed, policy))
  BY <1>1, <1>2, FollowsTransitive
<1> QED BY <1>1, <1>3 DEF Processed, AppliedSla, routed

LEMMA ClosedAbsentFollows ==
  ASSUME NEW row, Sound(row)
  PROVE  Follows(row, ClosedAbsent(row))
<1>1. /\ ClosedAbsent(row).detected = row.detected
      /\ ClosedAbsent(row).breached = row.breached
      /\ ClosedAbsent(row).level = row.level
  BY DEF ClosedAbsent, Written, Sound, Finding
<1> QED BY <1>1, SameClockFollows

LEMMA ReactivatedFollows ==
  ASSUME NEW row, NEW acceptance \in Acceptance, NEW policy \in Policies,
         Sound(row), clock \in Time
  PROVE  Follows(row, Reactivated(row, acceptance, policy))
<1> DEFINE target == IF acceptance.previous \in OpenStates
                     THEN acceptance.previous ELSE "triaged"
           back == [Written(row, target) EXCEPT !.until = None]
           fresh == [back EXCEPT !.detected = clock, !.breached = FALSE, !.level = 0]
           base == IF acceptance.restart THEN fresh ELSE back
<1>1. CASE row.state # "accepted_risk"
  BY <1>1, SameClockFollows DEF Reactivated
<1>2. CASE row.state = "accepted_risk"
  <2>1. /\ back.detected = row.detected /\ back.breached = row.breached
        /\ back.level = row.level
    BY DEF Written, Sound, Finding
  <2>2. fresh.detected = clock
    BY DEF Written, Sound, Finding
  <2>3. Follows(row, back) /\ Follows(row, fresh)
    BY <2>1, <2>2, SameClockFollows DEF Follows
  <2>4. Follows(row, base)
    BY <2>3
  <2>5. /\ Timed(base, policy).detected = base.detected
        /\ Timed(base, policy).breached = base.breached
        /\ Timed(base, policy).level = base.level
    BY DEF Timed, Written, Sound, Finding
  <2>6. Reactivated(row, acceptance, policy) = Timed(base, policy)
    BY <1>2 DEF Reactivated
  <2> HIDE DEF base
  <2> QED BY <2>4, <2>5, <2>6 DEF Follows
<1> QED BY <1>1, <1>2

-----------------------------------------------------------------------------
(* The invariant. *)

\* The row a transaction that takes no time leaves behind.
LEMMA SoundNext ==
  ASSUME NEW row, Sound(row), finding' = row, clock' = clock
  PROVE  Sound(finding)' /\ (finding \in Finding)'
BY DEF Sound, Finding

LEMMA InitInvariant == Init => IInv
<1> SUFFICES ASSUME Init PROVE IInv
  OBVIOUS
<1>1. clock = 0 /\ clock \in Time
  BY ClockAssumption DEF Init, Time
<1>2. PICK policy \in Policies, owner \in Owners \cup {Nobody} :
         LET row == Routed(Detected(policy), owner)
         IN  \E target \in Targets \cup {row.state} : finding = Advanced(row, target)
  BY DEF Init
<1> DEFINE row == Routed(Detected(policy), owner)
<1>3. PICK target \in Targets \cup {row.state} : finding = Advanced(row, target)
  BY <1>2
<1>4. Sound(Detected(policy))
  <2>1. Window[policy] \in Nat /\ 0 \in 0 .. Len(Ladder)
    BY SlaAssumption
  <2>2. <<>> \in Seq(States)
    BY EmptySeq
  <2> QED BY <1>1, <2>1, <2>2, TimeFacts, StateNames DEF Detected, Sound, Finding
<1>5. Sound(row)
  BY <1>1, <1>4, RoutedSound
<1>6. target \in States
  BY <1>5, TargetAssumption DEF Sound, Finding
<1> HIDE DEF row
<1>7. Sound(finding)
  BY <1>1, <1>3, <1>5, <1>6, AdvancedSound
<1>8. acceptances \in [Acceptances -> Acceptance]
  BY StateNames DEF Init, Acceptance, MaybeTime
<1>9. warned \in BOOLEAN /\ absences \in [Tests -> {None} \cup 0 .. MaxAbsences]
  BY DEF Init
<1> QED BY <1>1, <1>7, <1>8, <1>9 DEF IInv, TypeOK, Sound

\* What a step does to the row, beside keeping the invariant.
Step == IInv' /\ Follows(finding, finding')

LEMMA RowStep ==
  ASSUME NEW row, IInv, Sound(row), Follows(Clean(finding), row), finding' = row,
         clock' = clock, warned' \in BOOLEAN,
         absences' \in [Tests -> {None} \cup 0 .. MaxAbsences],
         acceptances' \in [Acceptances -> Acceptance]
  PROVE  Step
<1>1. Sound(finding)'
  BY SoundNext
<1>2. TypeOK'
  BY <1>1, SoundNext DEF IInv, TypeOK
<1>3. Follows(finding, row)
  BY CleanSound, CleanFollows, FollowsTransitive DEF IInv
<1> QED BY <1>1, <1>2, <1>3 DEF Step, IInv

LEMMA DetectionStep ==
  ASSUME IInv, NEW policy \in Policies, NEW owner \in Owners \cup {Nobody},
         finding' = Processed(Redetected(Clean(finding)), policy, owner),
         UNCHANGED <<clock, warned, acceptances>>,
         absences' \in [Tests -> {None} \cup 0 .. MaxAbsences]
  PROVE  Step
<1>1. clock \in Time /\ Sound(finding)
  BY DEF IInv, TypeOK
<1> DEFINE clean == Clean(finding)
           again == Redetected(clean)
           done  == Processed(again, policy, owner)
<1>2. Sound(clean)
  BY <1>1, CleanSound
<1> HIDE DEF clean
<1>3. Sound(again) /\ Follows(clean, again)
  BY <1>1, <1>2, RedetectedSound, RedetectedFollows
<1> HIDE DEF again
<1>4. Sound(done) /\ Follows(again, done)
  BY <1>1, <1>3, ProcessedSound, ProcessedFollows
<1>5. finding' = done
  BY DEF done, again, clean
<1> HIDE DEF done
<1>6. Follows(clean, done)
  BY <1>2, <1>3, <1>4, FollowsTransitive
<1> QED BY <1>4, <1>5, <1>6, RowStep DEF IInv, TypeOK, clean

\* The row an import leaves when it does not see the finding.
LEMMA MissStep ==
  ASSUME IInv, NEW t \in Tests, NEW closeAbsent, NEW threshold,
         ImportMisses(t, closeAbsent, threshold)
  PROVE  Step
<1>1. clock \in Time /\ Sound(finding)
  BY DEF IInv, TypeOK
<1> DEFINE clean == Clean(finding)
           counted == IF absences[t] < MaxAbsences THEN absences[t] + 1 ELSE absences[t]
<1>2. Sound(clean) /\ Follows(clean, clean)
  BY <1>1, CleanSound, SameClockFollows
<1>3. Sound(ClosedAbsent(clean)) /\ Follows(clean, ClosedAbsent(clean))
  BY <1>1, <1>2, ClosedAbsentSound, ClosedAbsentFollows
<1>4. counted \in 0 .. MaxAbsences
  BY TestAssumption DEF ImportMisses, IInv, TypeOK, None
<1>5. absences' = [absences EXCEPT ![t] = counted]
  BY DEF ImportMisses
<1>6. finding' = clean \/ finding' = ClosedAbsent(clean)
  BY DEF ImportMisses
<1>7. UNCHANGED <<clock, warned, acceptances>>
  BY DEF ImportMisses
<1> HIDE DEF counted
<1>8. absences' \in [Tests -> {None} \cup 0 .. MaxAbsences]
  BY <1>4, <1>5 DEF IInv, TypeOK
<1>9. warned' \in BOOLEAN /\ acceptances' \in [Acceptances -> Acceptance]
  BY <1>7 DEF IInv, TypeOK
<1> HIDE DEF clean
<1>10. CASE finding' = clean
  BY <1>2, <1>7, <1>8, <1>9, <1>10, RowStep DEF clean
<1>11. CASE finding' = ClosedAbsent(clean)
  BY <1>3, <1>7, <1>8, <1>9, <1>11, RowStep DEF clean
<1> QED BY <1>6, <1>10, <1>11

\* A transaction that leaves everything alone but the row and the acceptances.
LEMMA QuietStep ==
  ASSUME IInv, NEW row, Sound(row), Follows(Clean(finding), row), finding' = row,
         UNCHANGED <<clock, warned, absences>>,
         acceptances' \in [Acceptances -> Acceptance]
  PROVE  Step
BY RowStep DEF IInv, TypeOK

\* Operators, tickets and workflows.
LEMMA OperatorStep ==
  ASSUME IInv, OperatorNext
  PROVE  Step
<1> DEFINE clean == Clean(finding)
<1>1. clock \in Time /\ acceptances \in [Acceptances -> Acceptance]
  BY DEF IInv, TypeOK
<1>2. Sound(clean) /\ clean.state \in States
  BY CleanSound DEF IInv, Sound, Finding
<1>3. ASSUME NEW route \in Seq(States)
      PROVE  Sound(Through(clean, route)) /\ Follows(clean, Through(clean, route))
  BY <1>1, <1>2, ThroughSound, ThroughFollows
<1>4. ASSUME NEW target \in States
      PROVE  Sound(Advanced(clean, target)) /\ Follows(clean, Advanced(clean, target))
  BY <1>1, <1>2, AdvancedSound, AdvancedFollows
<1>5. ASSUME NEW policy \in Policies
      PROVE  Sound(Timed(clean, policy)) /\ Follows(clean, Timed(clean, policy))
  BY <1>1, <1>2, TimedSound, TimedFollows
<1>6. ASSUME NEW owner \in Owners \cup {Nobody}
      PROVE  /\ Sound([clean EXCEPT !.owner = owner])
             /\ Follows(clean, [clean EXCEPT !.owner = owner])
  <2> DEFINE row == [clean EXCEPT !.owner = owner]
  <2>1. Sound(row)
    BY <1>2 DEF Sound, Finding
  <2>2. /\ row.detected = clean.detected /\ row.breached = clean.breached
        /\ row.level = clean.level
    BY <1>2 DEF Sound, Finding
  <2> HIDE DEF row, clean
  <2>3. Follows(clean, row)
    BY <1>2, <2>2, SameClockFollows
  <2> QED BY <2>1, <2>3 DEF row, clean
<1>7. ASSUME NEW until \in Dates, NEW route \in Seq(States)
      PROVE  LET row == [Through(clean, route) EXCEPT !.until = until]
             IN  Sound(row) /\ Follows(clean, row)
  <2> DEFINE there == Through(clean, route)
             row == [there EXCEPT !.until = until]
  <2>1. Sound(there) /\ Follows(clean, there)
    BY <1>3
  <2> HIDE DEF there
  <2>2. until \in MaybeTime
    BY DateAssumption, ClockAssumption DEF MaybeTime, Time, None
  <2>3. Sound(row)
    BY <2>1, <2>2 DEF Sound, Finding
  <2>4. /\ row.detected = there.detected /\ row.breached = there.breached
        /\ row.level = there.level
    BY <2>1 DEF Sound, Finding
  <2> HIDE DEF row, clean
  <2>5. Follows(there, row)
    BY <2>1, <2>4, SameClockFollows
  <2>6. Follows(clean, row)
    BY <1>2, <2>1, <2>3, <2>5, FollowsTransitive
  <2> QED BY <2>3, <2>6 DEF row, there
<1> HIDE DEF clean
<1>8. ASSUME NEW target \in Targets, Transition(target)
      PROVE  Step
  <2>1. <<target>> \in Seq(States)
    BY TargetAssumption
  <2>2. finding' = Through(clean, <<target>>) /\ UNCHANGED <<clock, warned, absences, acceptances>>
    BY <1>8 DEF Transition, clean
  <2> QED BY <1>1, <1>3, <2>1, <2>2, QuietStep DEF clean
<1>9. ASSUME NEW target \in Targets, RunWorkflow(target)
      PROVE  Step
  <2>1. target \in States
    BY TargetAssumption
  <2>2. finding' = Advanced(clean, target) /\ UNCHANGED <<clock, warned, absences, acceptances>>
    BY <1>9 DEF RunWorkflow, clean
  <2> QED BY <1>1, <1>4, <2>1, <2>2, QuietStep DEF clean
<1>10. ASSUME NEW until \in Dates, AcceptRisk(until)
       PROVE  Step
  <2> DEFINE route == IF finding.state = "accepted_risk" THEN <<>> ELSE <<"accepted_risk">>
             row == [Through(clean, route) EXCEPT !.until = until]
  <2>1. <<"accepted_risk">> \in Seq(States) /\ <<>> \in Seq(States)
    BY StateNames
  <2>2. route \in Seq(States)
    BY <2>1
  <2>3. finding' = row /\ UNCHANGED <<clock, warned, absences, acceptances>>
    BY <1>10 DEF AcceptRisk, clean
  <2> HIDE DEF route
  <2>4. Sound(row) /\ Follows(clean, row)
    BY <1>7, <2>2
  <2> HIDE DEF row
  <2> QED BY <1>1, <2>3, <2>4, QuietStep DEF clean
<1>11. ASSUME NEW owner \in Owners \cup {Nobody}, Assign(owner)
       PROVE  Step
  <2> DEFINE row == [clean EXCEPT !.owner = owner]
  <2>1. finding' = row /\ UNCHANGED <<clock, warned, absences, acceptances>>
    BY <1>11 DEF Assign, clean
  <2>2. Sound(row) /\ Follows(clean, row)
    BY <1>6
  <2> HIDE DEF row
  <2> QED BY <1>1, <2>1, <2>2, QuietStep DEF clean
<1>12. ASSUME NEW policy \in Policies, UpdateSla(policy)
       PROVE  Step
  <2>1. finding' = Timed(clean, policy) /\ UNCHANGED <<clock, warned, absences, acceptances>>
    BY <1>12 DEF UpdateSla, clean
  <2> QED BY <1>1, <1>5, <2>1, QuietStep DEF clean
<1>13. ASSUME ResolveTicket
       PROVE  Step
  <2>1. finding' = Advanced(clean, "remediated") /\ UNCHANGED <<clock, warned, absences, acceptances>>
    BY <1>13 DEF ResolveTicket, clean
  <2> QED BY <1>1, <1>4, <2>1, StateNames, QuietStep DEF clean
<1> QED BY <1>8, <1>9, <1>10, <1>11, <1>12, <1>13 DEF OperatorNext

\* Risk acceptances.
LEMMA AcceptanceStep ==
  ASSUME IInv, AcceptanceNext
  PROVE  Step
<1> DEFINE clean == Clean(finding)
<1>1. clock \in Time /\ acceptances \in [Acceptances -> Acceptance]
  BY DEF IInv, TypeOK
<1>2. Sound(clean) /\ Follows(clean, clean)
  BY CleanSound, SameClockFollows DEF IInv
<1>3. ASSUME NEW a \in Acceptances, NEW policy \in Policies
      PROVE  LET row == Reactivated(clean, acceptances[a], policy)
             IN  Sound(row) /\ Follows(clean, row)
  <2>1. acceptances[a] \in Acceptance
    BY <1>1
  <2> HIDE DEF clean
  <2> QED BY <1>1, <1>2, <2>1, ReactivatedSound, ReactivatedFollows
<1> HIDE DEF clean
<1>4. ASSUME NEW a \in Acceptances, NEW expires \in Dates,
             NEW reactivate \in BOOLEAN, NEW restart \in BOOLEAN,
             RequestAcceptance(a, expires, reactivate, restart)
      PROVE  Step
  <2>1. expires \in MaybeTime
    BY DateAssumption, ClockAssumption DEF MaybeTime, Time, None
  <2>2. acceptances' \in [Acceptances -> Acceptance]
    BY <1>1, <1>4, <2>1, StateNames DEF RequestAcceptance, Acceptance
  <2>3. finding' = clean /\ UNCHANGED <<clock, warned, absences>>
    BY <1>4 DEF RequestAcceptance, clean
  <2> QED BY <1>2, <2>2, <2>3, QuietStep DEF clean
<1>5. ASSUME NEW a \in Acceptances, Approve(a)
      PROVE  Step
  <2> DEFINE there == Written(clean, "accepted_risk")
             row == [there EXCEPT !.until = acceptances[a].expires]
  <2>1. acceptances' \in [Acceptances -> Acceptance]
    <3> DEFINE approved == [acceptances[a] EXCEPT !.state = "active",
                                                  !.previous = finding.state]
    <3>1. finding.state \in States
      BY DEF IInv, Sound, Finding
    <3>2. acceptances[a] \in Acceptance
      BY <1>1
    <3>3. approved \in Acceptance
      BY <3>1, <3>2 DEF Acceptance
    <3>4. acceptances' = [acceptances EXCEPT ![a] = approved]
      BY <1>5 DEF Approve
    <3> HIDE DEF approved
    <3> QED BY <1>1, <3>3, <3>4
  <2>2. Sound(there) /\ Follows(clean, there)
    BY <1>2, WrittenSound, WrittenFollows, StateNames
  <2> HIDE DEF there
  <2>3. acceptances[a].expires \in MaybeTime
    BY <1>1 DEF Acceptance
  <2>4. Sound(row)
    BY <2>2, <2>3 DEF Sound, Finding
  <2>5. /\ row.detected = there.detected /\ row.breached = there.breached
        /\ row.level = there.level
    BY <2>2 DEF Sound, Finding
  <2>6. finding' = row /\ UNCHANGED <<clock, warned, absences>>
    BY <1>5 DEF Approve, clean, there
  <2> HIDE DEF row
  <2>7. Follows(clean, row)
    BY <2>2, <2>5, SameClockFollows, <1>2, <2>4, FollowsTransitive
  <2> QED BY <2>1, <2>4, <2>6, <2>7, QuietStep DEF clean
<1>6. ASSUME NEW a \in Acceptances, Reject(a)
      PROVE  Step
  <2>1. acceptances' \in [Acceptances -> Acceptance]
    BY <1>1, <1>6 DEF Reject, Acceptance
  <2>2. finding' = clean /\ UNCHANGED <<clock, warned, absences>>
    BY <1>6 DEF Reject, clean
  <2> QED BY <1>2, <2>1, <2>2, QuietStep DEF clean
<1>7. ASSUME NEW a \in Acceptances, NEW policy \in Policies, Revoke(a, policy)
      PROVE  Step
  <2>1. acceptances' \in [Acceptances -> Acceptance]
    BY <1>1, <1>7 DEF Revoke, Acceptance
  <2>2. /\ finding' = Reactivated(clean, acceptances[a], policy)
        /\ UNCHANGED <<clock, warned, absences>>
    BY <1>7 DEF Revoke, clean
  <2> QED BY <1>3, <2>1, <2>2, QuietStep DEF clean
<1>8. ASSUME NEW policy \in Policies, ExpireDue(policy)
      PROVE  Step
  <2>1. acceptances' \in [Acceptances -> Acceptance]
    BY <1>1, <1>8 DEF ExpireDue, Acceptance
  <2>2. UNCHANGED <<clock, warned, absences>>
    BY <1>8 DEF ExpireDue
  <2>3. CASE finding' = clean
    BY <1>2, <2>1, <2>2, <2>3, QuietStep DEF clean
  <2>4. ASSUME NEW a \in Acceptances, finding' = Reactivated(clean, acceptances[a], policy)
        PROVE  Step
    BY <1>3, <2>1, <2>2, <2>4, QuietStep DEF clean
  <2>5. \/ finding' = clean
        \/ \E a \in Acceptances : finding' = Reactivated(clean, acceptances[a], policy)
    BY <1>8 DEF ExpireDue, DueAcceptances, clean
  <2> QED BY <2>3, <2>4, <2>5
<1> QED BY <1>4, <1>5, <1>6, <1>7, <1>8 DEF AcceptanceNext, ExpiryNext

\* The sweep marks the row and then may advance it.
LEMMA SweepStep ==
  ASSUME IInv, SweepNext
  PROVE  Step
<1> DEFINE clean == Clean(finding)
<1>1. clock \in Time /\ acceptances \in [Acceptances -> Acceptance] /\ warned \in BOOLEAN
  BY DEF IInv, TypeOK
<1>2. Sound(clean)
  BY CleanSound DEF IInv
<1>3. PICK level \in 0 .. Len(Ladder), target \in Targets \cup {finding.state} :
         Sweep(level, target)
  BY DEF SweepNext
<1> DEFINE b == clean.breached \/ Overdue
           l == IF level > finding.level THEN level ELSE clean.level
           v == (IF Overdue THEN {"breached"} ELSE {})
                \cup (IF WarningDue THEN {"warned"} ELSE {})
                \cup (IF level > finding.level THEN {"escalated"} ELSE {})
           swept == [clean EXCEPT !.breached = b, !.level = l, !.sla = v]
<1>4. finding' = Advanced(swept, target)
  BY <1>3 DEF Sweep
<1>5. UNCHANGED <<clock, absences, acceptances>> /\ warned' \in BOOLEAN
  BY <1>1, <1>3 DEF Sweep, WarningDue
<1>6. clean.level = finding.level
  BY DEF Clean, IInv, Sound, Finding
<1>7. clean.breached \in BOOLEAN /\ b \in BOOLEAN /\ (clean.breached => b)
  BY <1>2 DEF Sound, Finding, Overdue
<1>8. clean.level \in 0 .. Len(Ladder) /\ l \in 0 .. Len(Ladder) /\ clean.level <= l
  <2>1. clean.level \in 0 .. Len(Ladder) /\ Len(Ladder) \in Nat
    BY <1>2, SlaAssumption DEF Sound, Finding
  <2> HIDE DEF clean
  <2> QED BY <2>1, <1>6
<1>9. v \in SUBSET {"set", "warned", "breached", "met", "escalated"}
  OBVIOUS
<1> HIDE DEF clean, b, l, v
<1>10. Sound(swept)
  BY <1>2, <1>7, <1>8, <1>9 DEF Sound, Finding
<1>11. swept.breached = b /\ swept.level = l
  BY <1>2 DEF Sound, Finding
<1>12. swept.detected = clean.detected
  BY <1>2 DEF Sound, Finding
<1> HIDE DEF swept
<1>13. Follows(clean, swept)
  BY <1>7, <1>8, <1>11, <1>12 DEF Follows
<1>14. target \in States
  BY TargetAssumption DEF IInv, Sound, Finding
<1> DEFINE there == Advanced(swept, target)
<1>15. Sound(there) /\ Follows(swept, there)
  BY <1>1, <1>10, <1>14, AdvancedSound, AdvancedFollows
<1> HIDE DEF there
<1>16. Follows(clean, there)
  BY <1>2, <1>10, <1>13, <1>15, FollowsTransitive
<1>17. finding' = there
  BY <1>4 DEF there, swept, b, l, v, clean
<1> QED BY <1>1, <1>5, <1>15, <1>16, <1>17, RowStep DEF clean, IInv, TypeOK

\* Time passes: no deadline moves.
LEMMA TickStep ==
  ASSUME IInv, Tick
  PROVE  Step
<1> DEFINE clean == Clean(finding)
<1>1. clock \in Time /\ Sound(clean) /\ Follows(finding, clean)
  BY CleanSound, CleanFollows DEF IInv, TypeOK
<1>2. clock' \in Time /\ clock < clock'
  BY <1>1, ClockAssumption DEF Tick, Time
<1>3. finding' = clean /\ UNCHANGED <<warned, absences, acceptances>>
  BY DEF Tick
<1> HIDE DEF clean
<1>4. clean.detected <= clock'
  BY <1>1, <1>2, ClockAssumption DEF Sound, Finding, Time
<1>5. Sound(finding)' /\ (finding \in Finding)'
  BY <1>1, <1>3, <1>4 DEF Sound, Finding
<1>6. TypeOK'
  BY <1>2, <1>3, <1>5 DEF IInv, TypeOK
<1> QED BY <1>1, <1>3, <1>5, <1>6 DEF Step, IInv

LEMMA NextStep == IInv /\ [Next]_vars => Step
<1> SUFFICES ASSUME IInv, [Next]_vars PROVE Step
  OBVIOUS
<1>1. ASSUME NEW policy \in Policies, NEW owner \in Owners \cup {Nobody},
             Correlate(policy, owner)
      PROVE  Step
  BY <1>1, DetectionStep DEF Correlate, IInv, TypeOK
<1>2. ASSUME NEW t \in Tests, NEW policy \in Policies,
             NEW owner \in Owners \cup {Nobody}, ImportSees(t, policy, owner)
      PROVE  Step
  <2>1. absences' \in [Tests -> {None} \cup 0 .. MaxAbsences]
    BY <1>2, TestAssumption DEF ImportSees, IInv, TypeOK
  <2> QED BY <1>2, <2>1, DetectionStep DEF ImportSees
<1>3. CASE ImportNext
  BY <1>2, <1>3, MissStep DEF ImportNext
<1>4. CASE CorrelateNext
  BY <1>1, <1>4 DEF CorrelateNext
<1>5. CASE UNCHANGED vars
  <2>1. Sound(finding)' /\ TypeOK'
    BY <1>5 DEF vars, IInv, TypeOK, Sound
  <2>2. Follows(finding, finding')
    BY <1>5, SameClockFollows DEF vars, IInv
  <2> QED BY <2>1, <2>2 DEF Step, IInv
<1> QED BY <1>3, <1>4, <1>5, OperatorStep, AcceptanceStep, SweepStep, TickStep DEF Next

\* The rows are well typed and the deadline never leaves the first window.
THEOREM Invariant == Spec => []IInv
BY InitInvariant, NextStep, PTL DEF Spec, Step

\* Every variable keeps its type through every transaction.
THEOREM TypeCorrect == Spec => []TypeOK
<1>1. IInv => TypeOK
  BY DEF IInv
<1> QED BY <1>1, Invariant, PTL

\* No sequence of transactions gives a finding more than the window of its
\* policy, counted from its detection.
THEOREM OneWindowCorrect == Spec => []OneWindow
<1>1. IInv => OneWindow
  BY DEF IInv, Sound, OneWindow
<1> QED BY <1>1, Invariant, PTL

-----------------------------------------------------------------------------
(* Action properties. *)

\* A breach is forgotten only when the clock is started again.
THEOREM BreachSticksCorrect == Spec => BreachSticks
<1>1. IInv /\ [Next]_vars =>
        [finding.breached /\ ~finding'.breached => finding'.detected = clock]_vars
  BY NextStep DEF Step, Follows
<1> QED BY <1>1, Invariant, PTL DEF Spec, BreachSticks

\* The escalation level falls only when the clock is started again.
THEOREM EscalationClimbsCorrect == Spec => EscalationClimbs
<1>1. IInv /\ [Next]_vars =>
        [finding'.level < finding.level => finding'.detected = clock]_vars
  <2> SUFFICES ASSUME IInv, [Next]_vars, finding'.level < finding.level
               PROVE  finding'.detected = clock
    OBVIOUS
  <2>1. Step
    BY NextStep
  <2>2. finding.level \in Nat /\ finding'.level \in Nat
    BY <2>1, SlaAssumption DEF Step, IInv, Sound, Finding
  <2> QED BY <2>1, <2>2 DEF Step, Follows
<1> QED BY <1>1, Invariant, PTL DEF Spec, EscalationClimbs

\* Both marks of a late finding are taken off only with a new detection.
THEOREM MarksAreKeptCorrect == Spec => MarksAreKept
  BY BreachSticksCorrect, EscalationClimbsCorrect DEF MarksAreKept

\* A finding an acceptance lets go of is open again, on the window of its
\* policy, whichever of the acceptances that end together put it back.
THEOREM ReleaseReopensCorrect == Spec => ReleaseReopens
<1> DEFINE Open(row) == /\ row.state \in OpenStates
                        /\ row.until = None
                        /\ row.due = row.detected + Window[row.policy]
<1>1. ASSUME IInv, [Next]_vars, NEW a \in Acceptances, Releases(a),
             finding.state = "accepted_risk"
      PROVE  Open(finding')
  <2>1. /\ acceptances[a].state = "active"
        /\ acceptances'[a].state \in {"revoked", "expired"}
        /\ acceptances'[a].state = "expired" => acceptances[a].reactivate
    BY <1>1 DEF Releases
  <2>2. acceptances \in [Acceptances -> Acceptance] /\ clock \in Time
    BY <1>1 DEF IInv, TypeOK
  <2>3. Sound(Clean(finding)) /\ Clean(finding).state = "accepted_risk"
    BY <1>1, CleanSound DEF IInv, Clean, Sound, Finding
  <2>4. ASSUME NEW b \in Acceptances, NEW policy \in Policies,
               finding' = Reactivated(Clean(finding), acceptances[b], policy)
        PROVE  Open(finding')
    BY <2>2, <2>3, <2>4, ReactivatedSound
  <2> HIDE DEF Open
  <2>5. acceptances' # acceptances
    BY <2>1
  <2>6. AcceptanceNext
    BY <1>1, <2>5 DEF Next, vars, SweepNext, Sweep, ImportNext, ImportSees,
       ImportMisses, CorrelateNext, Correlate, OperatorNext, Transition,
       RunWorkflow, AcceptRisk, Assign, UpdateSla, ResolveTicket, Tick
  <2>7. ASSUME NEW b \in Acceptances, acceptances[b].state # "active"
        PROVE  b # a
    BY <2>1, <2>7
  <2>8. ASSUME NEW b \in Acceptances, NEW policy \in Policies, Revoke(b, policy)
        PROVE  Open(finding')
    BY <2>4, <2>8 DEF Revoke
  <2>9. ASSUME NEW policy \in Policies, ExpireDue(policy)
         PROVE  Open(finding')
    <3>1. a \in DueAcceptances
      BY <2>1, <2>9 DEF ExpireDue
    <3>2. acceptances'[a].state = "expired"
      BY <2>2, <2>9, <3>1 DEF ExpireDue, Acceptance
    <3>3. a \in {b \in DueAcceptances : acceptances[b].reactivate}
      BY <2>1, <3>1, <3>2
    <3> QED BY <2>4, <2>9, <3>3 DEF ExpireDue, DueAcceptances
  <2>10. ASSUME NEW b \in Acceptances,
                \/ \E expires \in Dates, reactivate, restart \in BOOLEAN :
                      RequestAcceptance(b, expires, reactivate, restart)
                \/ Approve(b)
                \/ Reject(b)
         PROVE  FALSE
    <3>1. acceptances[b].state # "active"
      BY <2>10 DEF RequestAcceptance, Approve, Reject
    <3>2. acceptances'[a] = acceptances[a]
      BY <2>2, <2>7, <2>10, <3>1 DEF RequestAcceptance, Approve, Reject
    <3> QED BY <2>1, <3>2
  <2> QED BY <2>6, <2>8, <2>9, <2>10 DEF AcceptanceNext, ExpiryNext
<1>2. IInv /\ [Next]_vars =>
        [(\E a \in Acceptances : Releases(a)) /\ finding.state = "accepted_risk"
         => /\ finding'.state \in OpenStates
            /\ finding'.until = None
            /\ finding'.due = finding'.detected + Window[finding'.policy]]_vars
  BY <1>1
<1> QED BY <1>2, Invariant, PTL DEF Spec, ReleaseReopens

-----------------------------------------------------------------------------
(* The way a transaction takes the finding through the graph. *)

\* A hop the services make: an allowed transition or one beside the graph.
Made(from, to) == CanTransition(from, to) \/ BesideTheGraph([from |-> from, to |-> to])

\* The events of the row lead from a state to the one the row is in.
Led(from, row) ==
  LET stop(i) == IF i = 0 THEN from ELSE row.moves[i]
  IN  /\ row.moves \in Seq(States)
      /\ row.state = stop(Len(row.moves))
      /\ \A i \in DOMAIN row.moves : Made(stop(i - 1), row.moves[i])

\* Rows that differ in other columns only.
SameWay(old, new) == new.state = old.state /\ new.moves = old.moves

LEMMA SameWayLed ==
  ASSUME NEW from, NEW old, NEW new, Led(from, old), SameWay(old, new)
  PROVE  Led(from, new)
BY DEF Led, SameWay

\* A transaction begins where the finding is.
LEMMA CleanLed ==
  ASSUME NEW row, Sound(row)
  PROVE  Led(row.state, Clean(row)) /\ Clean(row).state = row.state
<1>1. Clean(row).state = row.state /\ Clean(row).moves = <<>>
  BY DEF Clean, Sound, Finding
<1>2. <<>> \in Seq(States) /\ Len(<<>>) = 0 /\ DOMAIN <<>> = {}
  BY EmptySeq
<1> QED BY <1>1, <1>2 DEF Led

LEMMA WrittenLed ==
  ASSUME NEW from, NEW row, NEW target \in States, Sound(row), Led(from, row), Made(row.state, target)
  PROVE  Led(from, Written(row, target)) /\ Written(row, target).state = target
<1> DEFINE m == row.moves
           longer == Append(m, target)
           n == Len(m)
<1>1. /\ Written(row, target).state = target
      /\ Written(row, target).moves = longer
  BY DEF Written, Sound, Finding
<1>2. m \in Seq(States)
  BY DEF Led
<1>3. /\ longer \in Seq(States) /\ Len(longer) = n + 1 /\ n \in Nat
      /\ longer[n + 1] = target /\ \A i \in 1 .. n : longer[i] = m[i]
      /\ DOMAIN longer = 1 .. (n + 1) /\ DOMAIN m = 1 .. n
  BY <1>2, AppendProperties, LenProperties
<1>4. ASSUME NEW i \in DOMAIN longer
      PROVE  Made(IF i - 1 = 0 THEN from ELSE longer[i - 1], longer[i])
  <2>1. CASE i \in 1 .. n
    <3>1. Made(IF i - 1 = 0 THEN from ELSE m[i - 1], m[i])
      BY <1>3, <2>1 DEF Led
    <3>2. i - 1 # 0 => i - 1 \in 1 .. n
      BY <1>3, <2>1
    <3> HIDE DEF longer, m, n
    <3> QED BY <1>3, <2>1, <3>1, <3>2
  <2>2. CASE i = n + 1
    <3>1. row.state = IF n = 0 THEN from ELSE m[n]
      BY DEF Led
    <3>2. i - 1 = n /\ (n # 0 => n \in 1 .. n)
      BY <1>3, <2>2
    <3> HIDE DEF longer, m, n
    <3> QED BY <1>3, <2>2, <3>1, <3>2
  <2> QED BY <1>3, <2>1, <2>2
<1> HIDE DEF longer, m
<1> QED BY <1>1, <1>3, <1>4 DEF Led

LEMMA ThroughLed ==
  ASSUME NEW from, NEW row, NEW target, NEW route \in Seq(States), Sound(row), Led(from, row),
         IsWalk(route, row.state, target)
  PROVE  Led(from, Through(row, route)) /\ Through(row, route).state = target
<1> DEFINE m == row.moves
           longer == m \o route
           n == Len(m)
           k == Len(route)
<1>1. /\ Through(row, route).state = IF route = <<>> THEN row.state ELSE route[k]
      /\ Through(row, route).moves = longer
  BY DEF Through, Sound, Finding
<1>2. m \in Seq(States)
  BY DEF Led
<1>3. /\ longer \in Seq(States) /\ Len(longer) = n + k /\ n \in Nat /\ k \in Nat
      /\ \A i \in 1 .. n : longer[i] = m[i]
      /\ \A i \in (n + 1) .. (n + k) : longer[i] = route[i - n]
      /\ DOMAIN longer = 1 .. (n + k) /\ DOMAIN m = 1 .. n /\ DOMAIN route = 1 .. k
      /\ (route = <<>> <=> k = 0)
  BY <1>2, ConcatProperties, LenProperties, EmptySeq
<1>4. /\ row.state = (IF n = 0 THEN from ELSE m[n])
      /\ \A i \in 1 .. n : Made(IF i - 1 = 0 THEN from ELSE m[i - 1], m[i])
  BY <1>3 DEF Led
<1>5. /\ target = (IF k = 0 THEN row.state ELSE route[k])
      /\ \A i \in 1 .. k : Made(IF i - 1 = 0 THEN row.state ELSE route[i - 1], route[i])
  BY <1>3 DEF IsWalk, Made
<1>6. Through(row, route).state = target
  BY <1>1, <1>3, <1>5
<1> HIDE DEF longer, m, n, k
<1>7. target = IF n + k = 0 THEN from ELSE longer[n + k]
  <2>1. CASE k = 0
    <3>1. n + k = n /\ (n # 0 => n \in 1 .. n)
      BY <1>3, <2>1
    <3> QED BY <1>3, <1>4, <1>5, <2>1, <3>1
  <2>2. CASE k # 0
    <3>1. n + k \in (n + 1) .. (n + k) /\ (n + k) - n = k /\ n + k # 0
      BY <1>3, <2>2
    <3> QED BY <1>3, <1>5, <2>2, <3>1
  <2> QED BY <2>1, <2>2
<1>8. ASSUME NEW i \in 1 .. (n + k)
      PROVE  Made(IF i - 1 = 0 THEN from ELSE longer[i - 1], longer[i])
  <2>1. CASE i \in 1 .. n
    <3>1. i - 1 # 0 => i - 1 \in 1 .. n
      BY <1>3, <2>1
    <3> QED BY <1>3, <1>4, <2>1, <3>1
  <2>2. CASE i = n + 1
    <3>1. /\ i \in (n + 1) .. (n + k) /\ i - n = 1 /\ 1 \in 1 .. k /\ i - 1 = n
          /\ n # 0 => n \in 1 .. n
      BY <1>3, <2>2
    <3>2. Made(row.state, route[1])
      BY <1>5, <3>1
    <3>3. longer[i] = route[1]
      BY <1>3, <3>1
    <3>4. row.state = IF i - 1 = 0 THEN from ELSE longer[i - 1]
      BY <1>3, <1>4, <3>1
    <3> QED BY <3>2, <3>3, <3>4
  <2>3. CASE i \notin 1 .. n /\ i # n + 1
    <3>1. /\ i \in (n + 1) .. (n + k) /\ i - 1 \in (n + 1) .. (n + k) /\ i - n \in 1 .. k
          /\ (i - 1) - n = (i - n) - 1 /\ (i - n) - 1 # 0 /\ i - 1 # 0
      BY <1>3, <2>3
    <3>2. Made(route[(i - n) - 1], route[i - n])
      BY <1>5, <3>1
    <3> QED BY <1>3, <3>1, <3>2
  <2> QED BY <2>1, <2>2, <2>3
<1> QED BY <1>1, <1>3, <1>6, <1>7, <1>8 DEF Led

LEMMA AdvancedLed ==
  ASSUME NEW from, NEW row, NEW target \in States, Sound(row), Led(from, row)
  PROVE  Led(from, Advanced(row, target)) /\ Advanced(row, target).state = target
<1> DEFINE route == Path[<<row.state, target>>]
<1>1. route \in Seq(States)
  BY PathAssumption DEF Sound, Finding
<1>2. IsWalk(route, row.state, target)
  BY PathAssumption DEF Sound, Finding
<1> HIDE DEF route
<1>3. Led(from, Through(row, route))
  BY <1>1, <1>2, ThroughLed
<1>4. Through(row, route).state = target
  BY <1>1, <1>2, ThroughLed
<1> QED BY <1>3, <1>4 DEF Advanced, route

LEMMA SameWays ==
  ASSUME NEW row, Sound(row)
  PROVE  /\ \A policy : SameWay(row, Timed(row, policy))
         /\ \A owner : SameWay(row, [row EXCEPT !.owner = owner])
         /\ \A until : SameWay(row, [row EXCEPT !.until = until])
         /\ \A fixed : SameWay(row, [row EXCEPT !.fixed = fixed])
BY DEF SameWay, Timed, Sound, Finding

LEMMA RedetectedLed ==
  ASSUME NEW row, Sound(row), row.moves = <<>>, Led(row.state, row)
  PROVE  LET again == Redetected(row)
         IN  /\ Led(row.state, again) /\ again.state \notin Reopenable
             /\ again.detected # row.detected =>
                  row.state \in Reopenable /\ again.moves # <<>> /\ again.moves[1] = "new"
<1>1. CASE row.state \notin Reopenable
  BY <1>1 DEF Redetected
<1>2. CASE row.state \in Reopenable
  <2> DEFINE w == Written(row, "new")
             again == [w EXCEPT !.fixed = None, !.breached = FALSE, !.level = 0, !.detected = clock]
  <2>1. Made(row.state, "new")
    BY <1>2 DEF Made, BesideTheGraph
  <2>2. Led(row.state, w) /\ w.state = "new"
    BY <2>1, WrittenLed, StateNames
  <2>3. w \in Finding
    BY WrittenSound, StateNames DEF Sound
  <2>4. w.moves = <<"new">>
    BY DEF Written, Sound, Finding
  <2>5. Redetected(row) = again
    BY <1>2 DEF Redetected
  <2> HIDE DEF w
  <2>6. SameWay(w, again)
    BY <2>3 DEF SameWay, Finding
  <2> HIDE DEF again
  <2>7. Led(row.state, again) /\ again.state = "new" /\ again.moves = <<"new">>
    BY <2>2, <2>4, <2>6, SameWayLed DEF SameWay
  <2>8. "new" \notin Reopenable /\ <<"new">> # <<>> /\ <<"new">>[1] = "new"
    BY DEF Reopenable
  <2> QED BY <1>2, <2>5, <2>7, <2>8
<1> QED BY <1>1, <1>2

\* The first move of the row is also the first of a longer way.
LEMMA AdvancedFirst ==
  ASSUME NEW row, NEW target \in States, Sound(row)
  PROVE  /\ Advanced(row, target).detected = row.detected
         /\ row.moves # <<>> =>
              Advanced(row, target).moves # <<>> /\ Advanced(row, target).moves[1] = row.moves[1]
<1> DEFINE route == Path[<<row.state, target>>]
<1>1. route \in Seq(States) /\ row.moves \in Seq(States)
  BY PathAssumption DEF Sound, Finding
<1> HIDE DEF route
<1>2. Through(row, route).moves = row.moves \o route /\ Through(row, route).detected = row.detected
  BY DEF Through, Sound, Finding
<1>3. ASSUME row.moves # <<>>
      PROVE  row.moves \o route # <<>> /\ (row.moves \o route)[1] = row.moves[1]
  BY <1>1, <1>3
<1> QED BY <1>2, <1>3 DEF Advanced, route

LEMMA RoutedLed ==
  ASSUME NEW from, NEW row, NEW owner \in Owners \cup {Nobody}, Sound(row), Led(from, row), clock \in Time
  PROVE  LET routed == Routed(row, owner)
         IN  /\ Led(from, routed) /\ (row.state \notin Reopenable => routed.state \notin Reopenable)
             /\ routed.detected = row.detected
             /\ row.moves # <<>> => routed.moves # <<>> /\ routed.moves[1] = row.moves[1]
<1> DEFINE named == [row EXCEPT !.owner = owner]
           there == Advanced(named, "assigned")
<1>1. Sound(named) /\ SameWay(row, named) /\ named.detected = row.detected
  BY DEF Sound, Finding, SameWay
<1> HIDE DEF named
<1>2. Led(from, named)
  BY <1>1, SameWayLed
<1>3. Led(from, there) /\ there.state = "assigned"
  BY <1>1, <1>2, AdvancedLed, StateNames
<1>4. /\ there.detected = named.detected
      /\ named.moves # <<>> => there.moves # <<>> /\ there.moves[1] = named.moves[1]
  BY <1>1, AdvancedFirst, StateNames
<1>5. "assigned" \notin Reopenable
  BY DEF Reopenable
<1> HIDE DEF there
<1>6. Routed(row, owner) \in {row, named, there}
  BY DEF Routed, named, there
<1> QED BY <1>1, <1>2, <1>3, <1>4, <1>5, <1>6 DEF SameWay

\* A detection leads the finding on from where it is; it is not left fixed, and its
\* clock starts again only when it comes back.
LEMMA DetectionWay ==
  ASSUME IInv, NEW policy \in Policies, NEW owner \in Owners \cup {Nobody},
         finding' = Processed(Redetected(Clean(finding)), policy, owner)
  PROVE  /\ Led(finding.state, finding') /\ finding'.state \notin Reopenable
         /\ finding'.detected # finding.detected =>
              /\ finding.state \in Reopenable
              /\ finding'.moves # <<>> /\ finding'.moves[1] = "new"
<1> DEFINE clean == Clean(finding)
           again == Redetected(clean)
           routed == Routed(again, owner)
           done == Processed(again, policy, owner)
<1>1. clock \in Time /\ Sound(finding) /\ Sound(clean)
  BY CleanSound DEF IInv, TypeOK
<1>2. /\ Led(finding.state, clean) /\ clean.state = finding.state /\ clean.moves = <<>>
      /\ clean.detected = finding.detected
  <2>1. clean.moves = <<>> /\ clean.detected = finding.detected
    BY <1>1 DEF Clean, Sound, Finding
  <2> QED BY <1>1, <2>1, CleanLed
<1> HIDE DEF clean
<1>3. Sound(again)
  BY <1>1, RedetectedSound
<1>4. /\ Led(finding.state, again) /\ again.state \notin Reopenable
      /\ again.detected # clean.detected =>
           clean.state \in Reopenable /\ again.moves # <<>> /\ again.moves[1] = "new"
  BY <1>1, <1>2, RedetectedLed
<1> HIDE DEF again
<1>5. Sound(routed)
  BY <1>1, <1>3, RoutedSound
<1>6. /\ Led(finding.state, routed) /\ routed.state \notin Reopenable
      /\ routed.detected = again.detected
      /\ again.moves # <<>> => routed.moves # <<>> /\ routed.moves[1] = again.moves[1]
  BY <1>1, <1>3, <1>4, RoutedLed
<1> HIDE DEF routed
<1>7. /\ SameWay(routed, Timed(routed, policy))
      /\ Timed(routed, policy).detected = routed.detected
  <2>1. Timed(routed, policy).detected = routed.detected
    BY <1>5 DEF Timed, Sound, Finding
  <2> QED BY <1>5, <2>1, SameWays
<1>8. done \in {routed, Timed(routed, policy)}
  BY DEF Processed, AppliedSla, routed
<1> HIDE DEF done
<1>9. /\ Led(finding.state, done) /\ done.state \notin Reopenable
      /\ done.detected = again.detected
      /\ again.moves # <<>> => done.moves # <<>> /\ done.moves[1] = again.moves[1]
  BY <1>6, <1>7, <1>8, SameWayLed DEF SameWay
<1> QED BY <1>2, <1>4, <1>9 DEF done, again, clean

\* An acceptance that lets the finding go leads it from accepted_risk to an open
\* state, and starts its clock again only when it says so.
LEMMA ReactivationWay ==
  ASSUME IInv, NEW a \in Acceptances, NEW policy \in Policies,
         finding' = Reactivated(Clean(finding), acceptances[a], policy)
  PROVE  /\ Led(finding.state, finding')
         /\ finding'.detected # finding.detected => acceptances[a].restart
<1> DEFINE clean == Clean(finding)
           target == IF acceptances[a].previous \in OpenStates THEN acceptances[a].previous
                     ELSE "triaged"
           w == Written(clean, target)
           back == [w EXCEPT !.until = None]
           fresh == [back EXCEPT !.detected = clock, !.breached = FALSE, !.level = 0]
           base == IF acceptances[a].restart THEN fresh ELSE back
           done == Timed(base, policy)
<1>1. Sound(finding) /\ Sound(clean) /\ clean.detected = finding.detected
  <2>1. Sound(finding) /\ Sound(clean)
    BY CleanSound DEF IInv
  <2>2. clean.detected = finding.detected
    BY <2>1 DEF Clean, Sound, Finding
  <2> QED BY <2>1, <2>2
<1>2. Led(finding.state, clean) /\ clean.state = finding.state
  BY <1>1, CleanLed
<1> HIDE DEF clean
<1>3. CASE clean.state # "accepted_risk"
  BY <1>1, <1>2, <1>3 DEF Reactivated, clean
<1>4. CASE clean.state = "accepted_risk"
  <2>1. target \in OpenStates /\ target \in States
    BY StateNames DEF OpenStates
  <2>2. Made(clean.state, target)
    BY <1>4, <2>1 DEF Made, BesideTheGraph
  <2> HIDE DEF target
  <2>3. Led(finding.state, w) /\ Sound(w) /\ w.detected = clean.detected
    BY <1>1, <1>2, <2>1, <2>2, WrittenLed, WrittenSound
  <2> HIDE DEF w
  <2>4. SameWay(w, back) /\ back.detected = w.detected /\ back \in Finding
    BY <2>3, TimeFacts DEF SameWay, Sound, Finding, None, MaybeTime
  <2> HIDE DEF back
  <2>5. SameWay(back, fresh)
    BY <2>4 DEF SameWay, Finding
  <2>6. base \in {back, fresh} /\ (~acceptances[a].restart => base = back)
    OBVIOUS
  <2>7. SameWay(back, back)
    BY DEF SameWay
  <2>8. DOMAIN fresh = DOMAIN back /\ DOMAIN back = DOMAIN base
    BY <2>4 DEF Finding
  <2>9. SameWay(base, done) /\ done.detected = base.detected
    BY <2>4 DEF SameWay, Timed, Finding
  <2>10. finding' = done
    BY <1>4 DEF Reactivated, clean, target, w, back
  <2> HIDE DEF fresh, base, done
  <2>11. Led(finding.state, done)
    BY <2>3, <2>4, <2>5, <2>6, <2>7, <2>9, SameWayLed
  <2>12. done.detected # finding.detected => acceptances[a].restart
    BY <1>1, <2>3, <2>4, <2>6, <2>9
  <2> QED BY <2>10, <2>11, <2>12
<1> QED BY <1>3, <1>4

\* What a step does to the way and to the clock of the finding.
Way == Led(finding.state, finding')
SameClock == finding'.detected = finding.detected

\* A clean row, one advanced and one an operator edits.
LEMMA CleanFacts ==
  ASSUME IInv
  PROVE  LET clean == Clean(finding)
         IN  /\ Sound(clean) /\ Led(finding.state, clean)
             /\ clean.state = finding.state /\ clean.detected = finding.detected
<1>1. Sound(finding) /\ Sound(Clean(finding))
  BY CleanSound DEF IInv
<1>2. Clean(finding).detected = finding.detected
  BY <1>1 DEF Clean, Sound, Finding
<1> QED BY <1>1, <1>2, CleanLed

LEMMA MissWay ==
  ASSUME IInv, NEW t \in Tests, NEW closeAbsent, NEW threshold,
         ImportMisses(t, closeAbsent, threshold)
  PROVE  Way /\ SameClock
<1> DEFINE clean == Clean(finding)
           w == Written(clean, "remediated")
<1>1. /\ Sound(clean) /\ Led(finding.state, clean)
      /\ clean.state = finding.state /\ clean.detected = finding.detected
  BY CleanFacts
<1>2. finding' \in {clean, ClosedAbsent(clean)} /\ finding.state \in OpenStates
  BY DEF ImportMisses
<1> HIDE DEF clean
<1>3. Made(clean.state, "remediated")
  BY <1>1, <1>2 DEF Made, BesideTheGraph
<1>4. Led(finding.state, w)
  BY <1>1, <1>3, WrittenLed, StateNames
<1>5. Sound(w) /\ w.detected = clean.detected
  BY <1>1, WrittenSound, StateNames
<1>6. ClosedAbsent(clean) = [w EXCEPT !.fixed = clock]
  BY DEF ClosedAbsent
<1> HIDE DEF w
<1>7. SameWay(w, [w EXCEPT !.fixed = clock])
  BY <1>5, SameWays
<1>8. [w EXCEPT !.fixed = clock].detected = w.detected
  BY <1>5 DEF Sound, Finding
<1>9. Led(finding.state, ClosedAbsent(clean)) /\ ClosedAbsent(clean).detected = clean.detected
  BY <1>4, <1>5, <1>6, <1>7, <1>8, SameWayLed
<1> QED BY <1>1, <1>2, <1>9 DEF Way, SameClock

LEMMA OperatorWay ==
  ASSUME IInv, OperatorNext
  PROVE  Way /\ SameClock
<1> DEFINE clean == Clean(finding)
<1>1. /\ Sound(clean) /\ Led(finding.state, clean)
      /\ clean.state = finding.state /\ clean.detected = finding.detected
  BY CleanFacts
<1> HIDE DEF clean
<1>2. ASSUME NEW target \in States, finding' = Advanced(clean, target)
      PROVE  Way /\ SameClock
  <2>1. Led(finding.state, Advanced(clean, target))
    BY <1>1, AdvancedLed
  <2>2. Advanced(clean, target).detected = clean.detected
    BY <1>1, AdvancedFirst
  <2> QED BY <1>1, <1>2, <2>1, <2>2 DEF Way, SameClock
<1>3. ASSUME NEW target \in States, CanTransition(finding.state, target)
      PROVE  LET there == Through(clean, <<target>>)
             IN  Led(finding.state, there) /\ there.detected = clean.detected /\ there \in Finding
  <2> DEFINE route == <<target>>
  <2>1. route \in Seq(States) /\ IsWalk(route, clean.state, target)
    BY <1>1, <1>3 DEF IsWalk
  <2> HIDE DEF route
  <2>2. Led(finding.state, Through(clean, route))
    BY <1>1, <2>1, ThroughLed
  <2>3. Through(clean, route).detected = clean.detected
    BY <1>1 DEF Through, Sound, Finding
  <2>4. Through(clean, route) \in Finding
    BY <1>1, <2>1, ThroughSound DEF IInv, TypeOK, Sound
  <2> QED BY <2>2, <2>3, <2>4 DEF route
<1>4. ASSUME NEW target \in Targets, Transition(target)
      PROVE  Way /\ SameClock
  <2>1. finding' = Through(clean, <<target>>) /\ CanTransition(finding.state, target) /\ target \in States
    BY <1>4, TargetAssumption DEF Transition, clean
  <2> QED BY <1>1, <1>3, <2>1 DEF Way, SameClock
<1>5. ASSUME NEW target \in Targets, RunWorkflow(target)
      PROVE  Way /\ SameClock
  BY <1>2, <1>5, TargetAssumption DEF RunWorkflow, clean
<1>6. CASE ResolveTicket
  BY <1>2, <1>6, StateNames DEF ResolveTicket, clean
<1>7. ASSUME NEW until \in Dates, AcceptRisk(until)
      PROVE  Way /\ SameClock
  <2> DEFINE there == Through(clean, IF finding.state = "accepted_risk" THEN <<>> ELSE <<"accepted_risk">>)
             row == [there EXCEPT !.until = until]
  <2>1. finding' = row
    BY <1>7 DEF AcceptRisk, clean
  <2>2. Led(finding.state, there) /\ there.detected = clean.detected /\ there \in Finding
    <3>1. CASE finding.state = "accepted_risk"
      <4> DEFINE none == <<>>
      <4>1. none \in Seq(States) /\ IsWalk(none, clean.state, clean.state)
        BY EmptySeq DEF IsWalk
      <4> HIDE DEF none
      <4>2. Led(finding.state, Through(clean, none))
        BY <1>1, <4>1, ThroughLed
      <4>3. Through(clean, none).detected = clean.detected
        BY <1>1 DEF Through, Sound, Finding
      <4>4. Through(clean, none) \in Finding
        BY <1>1, <4>1, ThroughSound DEF IInv, TypeOK, Sound
      <4> QED BY <3>1, <4>2, <4>3, <4>4 DEF none
    <3>2. CASE finding.state # "accepted_risk"
      <4>1. CanTransition(finding.state, "accepted_risk") /\ "accepted_risk" \in States
        BY <1>7, <3>2, StateNames DEF AcceptRisk
      <4> QED BY <1>3, <3>2, <4>1
    <3> QED BY <3>1, <3>2
  <2> HIDE DEF there
  <2>3. SameWay(there, row) /\ row.detected = there.detected
    BY <2>2 DEF SameWay, Finding
  <2> HIDE DEF row
  <2> QED BY <1>1, <2>1, <2>2, <2>3, SameWayLed DEF Way, SameClock
<1>8. ASSUME NEW owner \in Owners \cup {Nobody}, Assign(owner)
      PROVE  Way /\ SameClock
  <2>1. finding' = [clean EXCEPT !.owner = owner]
    BY <1>8 DEF Assign, clean
  <2>2. SameWay(clean, finding') /\ finding'.detected = clean.detected
    BY <1>1, <2>1 DEF SameWay, Sound, Finding
  <2> QED BY <1>1, <2>2, SameWayLed DEF Way, SameClock
<1>9. ASSUME NEW policy \in Policies, UpdateSla(policy)
      PROVE  Way /\ SameClock
  <2>1. finding' = Timed(clean, policy)
    BY <1>9 DEF UpdateSla, clean
  <2>2. SameWay(clean, Timed(clean, policy))
    BY <1>1, SameWays
  <2>3. Timed(clean, policy).detected = clean.detected
    BY <1>1, TimedSound DEF IInv, TypeOK
  <2> QED BY <1>1, <2>1, <2>2, <2>3, SameWayLed DEF Way, SameClock
<1> QED BY <1>4, <1>5, <1>6, <1>7, <1>8, <1>9 DEF OperatorNext

\* The clock is started again by an acceptance that ends and says so.
LEMMA AcceptanceWay ==
  ASSUME IInv, AcceptanceNext
  PROVE  Way /\ (SameClock \/ \E a \in Acceptances : Releases(a) /\ acceptances[a].restart)
<1> DEFINE clean == Clean(finding)
<1>1. /\ Sound(clean) /\ Led(finding.state, clean)
      /\ clean.state = finding.state /\ clean.detected = finding.detected
  BY CleanFacts
<1>2. acceptances \in [Acceptances -> Acceptance]
  BY DEF IInv, TypeOK
<1> HIDE DEF clean
<1>3. ASSUME finding' = clean
      PROVE  Way /\ SameClock
  BY <1>1, <1>3 DEF Way, SameClock
<1>4. ASSUME NEW a \in Acceptances, Approve(a)
      PROVE  Way /\ SameClock
  <2> DEFINE w == Written(clean, "accepted_risk")
             row == [w EXCEPT !.until = acceptances[a].expires]
  <2>1. Made(clean.state, "accepted_risk")
    BY DEF Made, BesideTheGraph
  <2>2. Led(finding.state, w)
    BY <1>1, <2>1, WrittenLed, StateNames
  <2>3. Sound(w) /\ w.detected = clean.detected
    BY <1>1, WrittenSound, StateNames
  <2>4. finding' = row
    BY <1>4 DEF Approve, clean
  <2> HIDE DEF w
  <2>5. SameWay(w, row) /\ row.detected = w.detected
    BY <2>3 DEF SameWay, Sound, Finding
  <2> HIDE DEF row
  <2> QED BY <1>1, <2>2, <2>3, <2>4, <2>5, SameWayLed DEF Way, SameClock
<1>5. ASSUME NEW a \in Acceptances, NEW policy \in Policies, Revoke(a, policy)
      PROVE  Way /\ (SameClock \/ \E b \in Acceptances : Releases(b) /\ acceptances[b].restart)
  <2>1. finding' = Reactivated(Clean(finding), acceptances[a], policy)
    BY <1>5 DEF Revoke
  <2>2. Releases(a)
    BY <1>2, <1>5 DEF Revoke, Releases, Acceptance
  <2> QED BY <2>1, <2>2, ReactivationWay DEF Way, SameClock
<1>6. ASSUME NEW a \in Acceptances, NEW policy \in Policies, ExpireDue(policy), a \in DueAcceptances,
             acceptances[a].reactivate, finding' = Reactivated(Clean(finding), acceptances[a], policy)
      PROVE  Way /\ (SameClock \/ \E b \in Acceptances : Releases(b) /\ acceptances[b].restart)
  <2>1. Releases(a)
    BY <1>2, <1>6 DEF ExpireDue, DueAcceptances, Releases, Acceptance
  <2> QED BY <1>6, <2>1, ReactivationWay DEF Way, SameClock
<1>7. ASSUME NEW policy \in Policies, ExpireDue(policy)
      PROVE  Way /\ (SameClock \/ \E b \in Acceptances : Releases(b) /\ acceptances[b].restart)
  <2>1. \/ finding' = clean
        \/ \E a \in Acceptances : /\ a \in DueAcceptances /\ acceptances[a].reactivate
                                  /\ finding' = Reactivated(Clean(finding), acceptances[a], policy)
    BY <1>7 DEF ExpireDue, DueAcceptances, clean
  <2> QED BY <1>3, <1>6, <1>7, <2>1
<1>8. ASSUME NEW a \in Acceptances, NEW expires, NEW reactivate, NEW restart,
             RequestAcceptance(a, expires, reactivate, restart) \/ Reject(a)
      PROVE  Way /\ SameClock
  <2>1. finding' = clean
    BY <1>8 DEF RequestAcceptance, Reject, clean
  <2> QED BY <1>3, <2>1
<1> QED BY <1>4, <1>5, <1>7, <1>8 DEF AcceptanceNext, ExpiryNext

LEMMA SweepWay ==
  ASSUME IInv, SweepNext
  PROVE  Way /\ SameClock
<1> DEFINE clean == Clean(finding)
<1>1. /\ Sound(clean) /\ Led(finding.state, clean)
      /\ clean.state = finding.state /\ clean.detected = finding.detected
  BY CleanFacts
<1>2. PICK level \in 0 .. Len(Ladder), target \in Targets \cup {finding.state} :
         Sweep(level, target)
  BY DEF SweepNext
<1> DEFINE b == clean.breached \/ Overdue
           l == IF level > finding.level THEN level ELSE clean.level
           v == (IF Overdue THEN {"breached"} ELSE {})
                \cup (IF WarningDue THEN {"warned"} ELSE {})
                \cup (IF level > finding.level THEN {"escalated"} ELSE {})
           swept == [clean EXCEPT !.breached = b, !.level = l, !.sla = v]
<1>3. finding' = Advanced(swept, target)
  BY <1>2 DEF Sweep
<1>4. b \in BOOLEAN
  BY DEF Overdue
<1>5. l \in 0 .. Len(Ladder)
  BY <1>1 DEF Sound, Finding
<1>6. v \in SUBSET {"set", "warned", "breached", "met", "escalated"}
  OBVIOUS
<1> HIDE DEF clean, b, l, v
<1>7. Sound(swept)
  BY <1>1, <1>4, <1>5, <1>6 DEF Sound, Finding
<1>8. SameWay(clean, swept) /\ swept.detected = clean.detected
  BY <1>1 DEF SameWay, Sound, Finding
<1> HIDE DEF swept
<1>9. Led(finding.state, swept)
  BY <1>1, <1>8, SameWayLed
<1>10. target \in States
  BY TargetAssumption DEF IInv, Sound, Finding
<1>11. Led(finding.state, Advanced(swept, target))
  BY <1>7, <1>9, <1>10, AdvancedLed
<1>12. Advanced(swept, target).detected = swept.detected
  BY <1>7, <1>10, AdvancedFirst
<1> QED BY <1>1, <1>3, <1>8, <1>11, <1>12 DEF Way, SameClock, swept, b, l, v, clean

\* The clock is started again by a detection that brings a fixed finding back, or
\* by an acceptance that ends and says so.
Purposely ==
  \/ SameClock
  \/ finding.state \in Reopenable /\ finding'.moves # <<>> /\ finding'.moves[1] = "new"
  \/ \E a \in Acceptances : Releases(a) /\ acceptances[a].restart

LEMMA NextWay ==
  ASSUME IInv, Next
  PROVE  Way /\ Purposely
<1>1. ASSUME NEW policy \in Policies, NEW owner \in Owners \cup {Nobody},
             Correlate(policy, owner) \/ \E t \in Tests : ImportSees(t, policy, owner)
      PROVE  Way /\ Purposely
  <2>1. finding' = Processed(Redetected(Clean(finding)), policy, owner)
    BY <1>1 DEF Correlate, ImportSees
  <2> QED BY <2>1, DetectionWay DEF Way, Purposely, SameClock
<1>2. CASE ImportNext
  BY <1>1, <1>2, MissWay DEF ImportNext, Purposely
<1>3. CASE CorrelateNext
  BY <1>1, <1>3 DEF CorrelateNext
<1>4. CASE Tick
  BY <1>4, CleanFacts DEF Tick, Way, Purposely, SameClock
<1> QED BY <1>2, <1>3, <1>4, OperatorWay, AcceptanceWay, SweepWay DEF Next, Purposely

\* The events of a transaction account for the whole way it took the finding, and
\* every hop is an allowed transition or one the services write themselves.
THEOREM MovesAreAccountedCorrect == Spec => MovesAreAccounted
<1> DEFINE Accounted ==
      /\ \A hop \in Hops(finding.state, finding'.moves) :
           CanTransition(hop.from, hop.to) \/ BesideTheGraph(hop)
      /\ finding'.state = IF finding'.moves = <<>> THEN finding.state
                          ELSE finding'.moves[Len(finding'.moves)]
<1>1. ASSUME Way PROVE Accounted
  <2> DEFINE m == finding'.moves
  <2>1. /\ m \in Seq(States)
        /\ finding'.state = IF Len(m) = 0 THEN finding.state ELSE m[Len(m)]
        /\ \A i \in DOMAIN m : Made(IF i - 1 = 0 THEN finding.state ELSE m[i - 1], m[i])
    BY <1>1 DEF Way, Led
  <2>2. (m = <<>> <=> Len(m) = 0) /\ DOMAIN m = 1 .. Len(m) /\ Len(m) \in Nat
    BY <2>1, LenProperties, EmptySeq
  <2> HIDE DEF m
  <2>3. ASSUME NEW hop \in Hops(finding.state, m)
        PROVE  CanTransition(hop.from, hop.to) \/ BesideTheGraph(hop)
    <3>1. PICK i \in DOMAIN m : hop = [from |-> IF i = 1 THEN finding.state ELSE m[i - 1], to |-> m[i]]
      BY DEF Hops
    <3>2. i - 1 = 0 <=> i = 1
      BY <2>2
    <3> DEFINE f == IF i = 1 THEN finding.state ELSE m[i - 1]
    <3>3. Made(f, m[i])
      BY <2>1, <3>2
    <3>4. hop = [from |-> f, to |-> m[i]] /\ hop.from = f /\ hop.to = m[i]
      BY <3>1
    <3> HIDE DEF f
    <3> QED BY <3>3, <3>4 DEF Made
  <2> QED BY <2>1, <2>2, <2>3 DEF m
<1>2. IInv /\ [Next]_vars => [Accounted]_vars
  BY <1>1, NextWay
<1> QED BY <1>2, Invariant, PTL DEF Spec, MovesAreAccounted

\* A scan that sees the finding does not leave it among those believed fixed.
THEOREM SeenIsNotFixedCorrect == Spec => SeenIsNotFixed
<1>1. IInv => [(\E t \in Tests, policy \in Policies, owner \in Owners \cup {Nobody} :
                  ImportSees(t, policy, owner)) => finding'.state \notin Reopenable]_vars
  BY DetectionWay DEF ImportSees
<1> QED BY <1>1, Invariant, PTL DEF Spec, SeenIsNotFixed

\* The clock of a finding is started again on purpose or not at all.
THEOREM ClockRestartsOnPurposeCorrect == Spec => ClockRestartsOnPurpose
<1>1. IInv /\ [Next]_vars =>
        [finding'.detected # finding.detected
           => \/ finding.state \in Reopenable /\ finding'.moves # <<>>
                 /\ finding'.moves[1] = "new"
              \/ \E a \in Acceptances : Releases(a) /\ acceptances[a].restart]_vars
  BY NextWay DEF Purposely, SameClock
<1> QED BY <1>1, Invariant, PTL DEF Spec, ClockRestartsOnPurpose
=============================================================================
