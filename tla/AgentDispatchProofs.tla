------------------------- MODULE AgentDispatchProofs -------------------------
(***************************************************************************)
(* Why the job rows of AgentDispatch stay consistent although nothing but  *)
(* claim_next locks them.                                                  *)
(*                                                                         *)
(* A request holds copies of rows.  Snapshot relates a copy to the row as  *)
(* it is now: the copy is never ahead, and as long as the sequence numbers *)
(* agree the columns that decide agree as well.  An insert into the event  *)
(* log succeeds only when they agree (SucceedsOnlyIfFresh), so every       *)
(* handler that writes an entry decides on what the row still says.        *)
(* Advance says what any step may do to a row, and is all that the other   *)
(* requests' copies, the agents' tokens and the imports depend on.         *)
(***************************************************************************)
EXTENDS AgentDispatch, FiniteSetTheorems, SequenceTheorems, TLAPS

\* What a committed row satisfies by itself.
RowOK(row) ==
    /\ row.state = "absent" => row = Absent
    /\ (row.token # NoToken) <=> (row.state \in HeldStates)
    /\ row.state \in HeldStates => /\ row.token = row.attempts
                                   /\ row.lease # "none"
    /\ row.state = "queued" => /\ row.attempts < MaxAttempts
                               /\ row.agent = row.pinned
    /\ row.pinned # NoAgent => row.agent = row.pinned

\* The columns that only change together with the sequence number; deleting an
\* agent clears the references without touching it.
Same(x, y) ==
    /\ x.state = y.state
    /\ x.token = y.token
    /\ x.attempts = y.attempts
    /\ \/ x.agent = y.agent /\ x.pinned = y.pinned
       \/ y.agent = NoAgent /\ y.pinned = NoAgent

\* What a step may turn the row x into.
Advance(x, y) ==
    /\ x.state # "absent" => y.state # "absent"
    /\ x.seq <= y.seq
    /\ x.attempts <= y.attempts
    /\ (x.state # "absent" /\ x.seq = y.seq) => Same(x, y)
    /\ x.state \in TerminalStates => y.state = x.state
    /\ y.token # NoToken =>
          \/ y.token = x.token /\ y.agent \in {x.agent, NoAgent}
          \/ y.token = x.attempts + 1

\* What the copy old still says about the row cur.
Snapshot(old, cur) ==
    /\ RowOK(old)
    /\ old.state \notin TerminalStates \cup {"absent"}
    /\ cur.state # "absent"
    /\ old.seq <= cur.seq
    /\ old.seq = cur.seq => Same(old, cur)

\* What the handlers that write to the log turn the row x into.
Handled(x, y) ==
    \/ x.state \in HeldStates /\ (y = Streamed(x, 1) \/ y = Streamed(x, 2))
    \/ \E s \in TerminalStates : y = Finished(x, s)
    \/ x.state \in HeldStates /\ x.attempts < MaxAttempts /\ y = Requeued(x)
    \/ y = [Finished(x, "expired") EXCEPT !.lease = "none"]

RowsOK == \A j \in Jobs : RowOK(job[j])

\* What request r relies on, when the committed rows are t: its copies are
\* snapshots, the row it inserts is not there yet, an agent's request was
\* verified against what it loaded.
SnapshotsOK(r, t) == r.op # "queue" => \A j \in r.loaded : Snapshot(r.rows[j], t[j])

InsertOK(r, t) ==
    r.op = "queue" =>
        /\ r.agent \in Agents \cup {NoAgent}
        /\ \A j \in r.loaded : /\ t[j].state = "absent"
                               /\ r.rows[j] = QueuedFor(r.agent)

VerifiedOK(r) ==
    /\ r.op \in AgentOps =>
          /\ r.token # NoToken
          /\ \A j \in r.loaded : r.rows[j].token = r.token
    /\ r.op = "reap" => \A j \in r.loaded : r.rows[j].state \in HeldStates
    /\ r.op \in AgentOps \cup {"claim", "claiming", "heartbeat", "setStatus", "delete"}
          => r.agent \in Agents

RequestOK(r, t) == SnapshotsOK(r, t) /\ InsertOK(r, t) /\ VerifiedOK(r)

RequestsOK == \A w \in Workers : RequestOK(worker[w], job)

\* Nobody else inserts the row a request is about to insert.
InsertsApart ==
    \A v, w \in Workers :
        v # w /\ worker[v].op = "queue" /\ worker[w].op = "queue"
            => worker[v].loaded \cap worker[w].loaded = {}

TokensOK == \A a \in Agents : \A h \in held[a] : h[2] <= job[h[1]].attempts

IInv ==
    /\ TypeOK
    /\ LogGapFree
    /\ RowsOK
    /\ RequestsOK
    /\ InsertsApart
    /\ TokensOK
    /\ TokenHasOneHolder
    /\ ImportedOnce

\* What a step does to the table of jobs and to their log.
JobsStep ==
    /\ job' \in [Jobs -> JobRow]
    /\ events' \in [Jobs -> SUBSET Nat]
    /\ \A j \in Jobs : /\ RowOK(job'[j])
                       /\ Advance(job[j], job'[j])
                       /\ events'[j] = 1 .. job'[j].seq

\* It leaves alone the rows that the requests other than w's are about to insert.
SparesInserts(w) ==
    \A v \in Workers \ {w} : worker[v].op = "queue" =>
        \A j \in worker[v].loaded : job'[j].state = "absent"

-----------------------------------------------------------------------------
(* Rows *)

USE NoAgentAssumption, MaxAttemptsAssumption, MaxConcurrencyAssumption,
    MaxStreamedAssumption

LEMMA AdvanceReflexive ==
    ASSUME NEW x \in JobRow PROVE Advance(x, x)
  BY DEF Advance, Same, JobRow

\* A copy survives any step of the row it was taken from.
LEMMA SnapshotAdvances ==
    ASSUME NEW old \in JobRow, NEW x \in JobRow, NEW y \in JobRow,
           Snapshot(old, x), Advance(x, y)
    PROVE  Snapshot(old, y)
  BY DEF Snapshot, Advance, Same, JobRow

\* A fresh load is a snapshot of what it loaded.
LEMMA SnapshotFresh ==
    ASSUME NEW x \in JobRow, RowOK(x), x.state \notin TerminalStates \cup {"absent"}
    PROVE  Snapshot(x, x)
  BY DEF Snapshot, Same, JobRow

\* UNIQUE on a log without gaps: the first entry a stale copy would number is
\* taken already.
LEMMA SucceedsOnlyIfFresh ==
    ASSUME NEW j \in Jobs, NEW old \in JobRow, NEW new \in JobRow,
           job[j] \in JobRow, events[j] = 1 .. job[j].seq,
           old.seq <= job[j].seq, old.seq < new.seq, Appendable(j, old, new)
    PROVE  old.seq = job[j].seq
  <1>1. old.seq + 1 \in Entries(old, new)
    BY DEF Entries, JobRow
  <1>2. old.seq + 1 \notin 1 .. job[j].seq
    BY <1>1 DEF Appendable
  <1>3. QED
    BY <1>2 DEF JobRow

\* A row with some columns replaced by values of their types is a row.
LEMMA RowUpdate ==
    ASSUME NEW x \in JobRow, NEW s \in JobStates, NEW a \in Agents \cup {NoAgent},
           NEW t \in 0 .. MaxAttempts, NEW l \in {"none", "live", "lapsed"},
           NEW m \in 0 .. MaxAttempts, NEW n \in Nat
    PROVE  /\ [x EXCEPT !.state = s, !.seq = n] \in JobRow
           /\ [x EXCEPT !.state = s, !.token = t, !.seq = n] \in JobRow
           /\ [x EXCEPT !.state = s, !.agent = a, !.token = t, !.lease = l,
                        !.seq = n] \in JobRow
           /\ [x EXCEPT !.agent = a, !.state = s, !.token = t, !.lease = l,
                        !.attempts = m, !.seq = n] \in JobRow
           /\ [x EXCEPT !.lease = l] \in JobRow
  BY DEF JobRow

LEMMA HandledType ==
    ASSUME NEW x \in JobRow, NEW y, Handled(x, y)
    PROVE  y \in JobRow /\ x.seq < y.seq
  <1>0. /\ x.state \in JobStates /\ x.pinned \in Agents \cup {NoAgent}
        /\ x.seq \in Nat /\ x.seq + 1 \in Nat /\ x.seq + 2 \in Nat
        /\ NoToken \in 0 .. MaxAttempts
    BY DEF JobRow, NoToken
  <1>1. CASE y = Streamed(x, 1) \/ y = Streamed(x, 2)
    <2>1. (IF x.state = "leased" THEN "running" ELSE x.state) \in JobStates
      BY <1>0 DEF JobStates, HeldStates
    <2>2. y \in JobRow
      <3>1. CASE y = Streamed(x, 1)
        BY <1>0, <3>1, <2>1, RowUpdate DEF Streamed
      <3>2. CASE y = Streamed(x, 2)
        BY <1>0, <3>2, <2>1, RowUpdate DEF Streamed
      <3>3. QED
        BY <1>1, <3>1, <3>2
    <2>3. y.seq = x.seq + 1 \/ y.seq = x.seq + 2
      BY <1>1 DEF Streamed, JobRow
    <2>4. QED
      BY <1>0, <2>2, <2>3
  <1>2. CASE \E s \in TerminalStates : y = Finished(x, s)
    <2>1. PICK s \in TerminalStates : y = Finished(x, s)
      BY <1>2
    <2>2. y \in JobRow
      BY <1>0, <2>1, RowUpdate DEF Finished, JobStates
    <2>3. y.seq = x.seq + 1
      BY <2>1 DEF Finished, JobRow
    <2>4. QED
      BY <1>0, <2>2, <2>3
  <1>3. CASE y = Requeued(x)
    <2>1. y \in JobRow
      BY <1>0, <1>3, RowUpdate DEF Requeued, JobStates
    <2>2. y.seq = x.seq + 1
      BY <1>3 DEF Requeued, JobRow
    <2>3. QED
      BY <1>0, <2>1, <2>2
  <1>4. CASE y = [Finished(x, "expired") EXCEPT !.lease = "none"]
    <2>1. Finished(x, "expired") \in JobRow
      BY <1>0, RowUpdate DEF Finished, JobStates, TerminalStates
    <2>2. y \in JobRow
      <3> DEFINE z == Finished(x, "expired")
      <3>1. z \in JobRow
        BY <2>1
      <3>2. y = [z EXCEPT !.lease = "none"]
        BY <1>4
      <3> HIDE DEF z
      <3>3. QED
        BY <3>1, <3>2 DEF JobRow
    <2>3. y.seq = x.seq + 1
      BY <1>4 DEF Finished, JobRow
    <2>4. QED
      BY <1>0, <2>2, <2>3
  <1>5. QED
    BY <1>1, <1>2, <1>3, <1>4 DEF Handled

\* Flushing a handler's columns over a row that still has the loaded sequence
\* number gives a consistent row.
LEMMA HandledFlush ==
    ASSUME NEW old \in JobRow, NEW cur \in JobRow, NEW new,
           RowOK(cur), Snapshot(old, cur), old.seq = cur.seq, Handled(old, new)
    PROVE  LET y == Flush(cur, old, new)
           IN  /\ y \in JobRow
               /\ RowOK(y)
               /\ Advance(cur, y)
               /\ y.seq = new.seq
               /\ y.state = new.state
  <1> DEFINE y == Flush(cur, old, new)
  <1>1. new \in JobRow /\ old.seq < new.seq
    BY HandledType
  <1>2. /\ y \in JobRow
        /\ y.seq = new.seq
        /\ y.state = new.state
    BY <1>1 DEF Flush, Written, Snapshot, Same, JobRow
  <1>3. RowOK(y) /\ Advance(cur, y)
    <2>1. CASE old.state \in HeldStates /\ (new = Streamed(old, 1) \/ new = Streamed(old, 2))
      <3>1. /\ new.state = "running" /\ new.agent = old.agent /\ new.pinned = old.pinned
            /\ new.token = old.token /\ new.lease = old.lease
            /\ new.attempts = old.attempts
        BY <2>1 DEF Streamed, JobRow, HeldStates
      <3>2. /\ y.state = "running" /\ y.agent = cur.agent /\ y.pinned = cur.pinned
            /\ y.token = cur.token /\ y.lease = cur.lease
            /\ y.attempts = cur.attempts
        BY <1>2, <3>1 DEF Flush, Written, Snapshot, Same, RowOK
      <3> HIDE DEF y
      <3>3. QED
        BY <1>1, <1>2, <2>1, <3>2 DEF Snapshot, Same, RowOK, Advance,
           JobRow, JobStates, HeldStates, TerminalStates, NoToken
    <2>2. CASE \E s \in TerminalStates : new = Finished(old, s)
      <3>1. /\ new.state \in TerminalStates
            /\ new.agent = old.agent /\ new.pinned = old.pinned
            /\ new.token = NoToken /\ new.lease = old.lease
            /\ new.attempts = old.attempts
        BY <2>2 DEF Finished, JobRow
      <3>2. /\ y.state \in TerminalStates
            /\ y.agent = cur.agent /\ y.pinned = cur.pinned
            /\ y.token = NoToken /\ y.attempts = cur.attempts
        BY <1>2, <3>1 DEF Flush, Written, Snapshot, Same, RowOK
      <3> HIDE DEF y
      <3>3. QED
        BY <1>1, <1>2, <3>2 DEF Snapshot, Same, RowOK, Advance,
           JobRow, JobStates, HeldStates, TerminalStates, NoToken
    <2>3. CASE old.state \in HeldStates /\ old.attempts < MaxAttempts /\ new = Requeued(old)
      <3>1. /\ new.agent = old.pinned /\ new.pinned = old.pinned
            /\ new.state = "queued" /\ new.token = NoToken
            /\ new.attempts = old.attempts
        BY <2>3 DEF Requeued, JobRow
      <3>2. /\ y.state = "queued" /\ y.agent = y.pinned
            /\ y.token = NoToken /\ y.attempts = cur.attempts
        BY <1>2, <2>3, <3>1 DEF Flush, Written, Snapshot, Same, RowOK
      <3> HIDE DEF y
      <3>3. QED
        BY <1>1, <1>2, <2>3, <3>2 DEF Snapshot, Same, RowOK, Advance,
           JobRow, JobStates, HeldStates, TerminalStates, NoToken
    <2>4. CASE new = [Finished(old, "expired") EXCEPT !.lease = "none"]
      <3>1. /\ new.state = "expired" /\ new.agent = old.agent /\ new.pinned = old.pinned
            /\ new.token = NoToken /\ new.attempts = old.attempts
        BY <2>4 DEF Finished, JobRow
      <3>2. /\ y.state = "expired" /\ y.agent = cur.agent /\ y.pinned = cur.pinned
            /\ y.token = NoToken /\ y.attempts = cur.attempts
        BY <1>2, <3>1 DEF Flush, Written, Snapshot, Same, RowOK
      <3> HIDE DEF y
      <3>3. QED
        BY <1>1, <1>2, <3>2 DEF Snapshot, Same, RowOK, Advance,
           JobRow, JobStates, HeldStates, TerminalStates, NoToken
    <2>5. QED
      BY <2>1, <2>2, <2>3, <2>4 DEF Handled
  <1>4. QED
    BY <1>2, <1>3

-----------------------------------------------------------------------------
(* Requests *)

LEMMA IdleType == Idle \in Request /\ \A t : RequestOK(Idle, t)
  BY DEF Idle, Request, Ops, NoRow, AgentRow, Statuses, Absent, JobRow, JobStates, NoToken,
     RequestOK, SnapshotsOK, InsertOK, VerifiedOK, AgentOps

LEMMA RequestKept ==
    ASSUME NEW r \in Request, job \in [Jobs -> JobRow], JobsStep, RequestOK(r, job),
           r.op = "queue" => \A j \in r.loaded : job'[j].state = "absent"
    PROVE  RequestOK(r, job')
  <1>1. SnapshotsOK(r, job')
    <2> SUFFICES ASSUME r.op # "queue", NEW j \in r.loaded
                 PROVE  Snapshot(r.rows[j], job'[j])
      BY DEF SnapshotsOK
    <2>1. j \in Jobs /\ r.rows[j] \in JobRow /\ job[j] \in JobRow /\ job'[j] \in JobRow
      BY DEF Request, JobsStep
    <2>2. Snapshot(r.rows[j], job[j]) /\ Advance(job[j], job'[j])
      BY <2>1 DEF RequestOK, SnapshotsOK, JobsStep
    <2>3. QED
      BY <2>1, <2>2, SnapshotAdvances
  <1>2. InsertOK(r, job')
    BY DEF RequestOK, InsertOK
  <1>3. QED
    BY <1>1, <1>2 DEF RequestOK

\* A request ends, with a commit or without.
LEMMA RequestEnds ==
    ASSUME IInv, NEW w \in Workers, Done(w), JobsStep, SparesInserts(w)
    PROVE  worker' \in [Workers -> Request] /\ RequestsOK' /\ InsertsApart'
  <1>1. worker' \in [Workers -> Request]
    BY IdleType DEF IInv, TypeOK, Done
  <1>2. ASSUME NEW v \in Workers PROVE RequestOK(worker'[v], job')
    <2>1. CASE v = w
      BY <2>1, IdleType DEF IInv, TypeOK, Done
    <2>2. CASE v # w
      <3>1. worker'[v] = worker[v] /\ worker[v] \in Request /\ RequestOK(worker[v], job)
        BY <2>2 DEF IInv, TypeOK, Done, RequestsOK
      <3>2. job \in [Jobs -> JobRow]
        BY DEF IInv, TypeOK
      <3>3. worker[v].op = "queue" => \A j \in worker[v].loaded : job'[j].state = "absent"
        BY <2>2 DEF SparesInserts
      <3>4. QED
        BY <3>1, <3>2, <3>3, RequestKept
    <2>3. QED
      BY <2>1, <2>2
  <1>3. InsertsApart'
    BY DEF IInv, TypeOK, InsertsApart, Done, Idle
  <1>4. QED
    BY <1>1, <1>2, <1>3 DEF RequestsOK

\* The rows move on while no request begins or ends.
LEMMA RequestsKept ==
    ASSUME IInv, UNCHANGED worker, JobsStep,
           \A w \in Workers : worker[w].op = "queue" =>
               \A j \in worker[w].loaded : job'[j].state = "absent"
    PROVE  worker' \in [Workers -> Request] /\ RequestsOK' /\ InsertsApart'
  <1>1. ASSUME NEW v \in Workers PROVE RequestOK(worker[v], job')
    BY RequestKept DEF IInv, TypeOK, RequestsOK
  <1>2. QED
    BY <1>1 DEF IInv, TypeOK, RequestsOK, InsertsApart

LEMMA HeldKept ==
    ASSUME IInv, JobsStep, UNCHANGED held
    PROVE  TokensOK' /\ TokenHasOneHolder'
  <1> SUFFICES ASSUME NEW a \in Agents, NEW h \in held[a]
               PROVE  /\ h[2] <= job'[h[1]].attempts
                      /\ job'[h[1]].token = h[2] => job'[h[1]].agent \in {a, NoAgent}
                      /\ \A b \in Agents \ {a} : h \notin held[b]
    BY DEF TokensOK, TokenHasOneHolder
  <1>1. h[1] \in Jobs /\ h[2] \in 1 .. MaxAttempts
    BY DEF IInv, TypeOK
  <1>2. /\ h[2] <= job[h[1]].attempts
        /\ job[h[1]].token = h[2] => job[h[1]].agent \in {a, NoAgent}
        /\ \A b \in Agents \ {a} : h \notin held[b]
    BY DEF IInv, TokensOK, TokenHasOneHolder
  <1>3. job[h[1]] \in JobRow /\ job'[h[1]] \in JobRow /\ Advance(job[h[1]], job'[h[1]])
    BY <1>1 DEF IInv, TypeOK, JobsStep
  <1>4. QED
    BY <1>1, <1>2, <1>3 DEF Advance, JobRow, NoToken

LEMMA ImportsKept ==
    ASSUME IInv, JobsStep, UNCHANGED imports
    PROVE  ImportedOnce'
  BY DEF IInv, ImportedOnce, JobsStep, Advance, TerminalStates

\* All there is to a step that gives no token away and imports nothing.
LEMMA StepKeeps ==
    ASSUME IInv, JobsStep, worker' \in [Workers -> Request], RequestsOK', InsertsApart',
           UNCHANGED <<held, imports>>,
           agent' \in [Agents -> AgentRow], scanning' \in BOOLEAN
    PROVE  IInv'
  BY HeldKept, ImportsKept DEF IInv, TypeOK, JobsStep, LogGapFree, RowsOK

LEMMA JobsUnchanged ==
    ASSUME IInv, UNCHANGED <<job, events>>
    PROVE  /\ JobsStep
           /\ \A v \in Workers : worker[v].op = "queue" =>
                 \A j \in worker[v].loaded : job'[j].state = "absent"
  <1>1. ASSUME NEW j \in Jobs PROVE Advance(job[j], job[j])
    BY AdvanceReflexive DEF IInv, TypeOK
  <1>2. QED
    BY <1>1 DEF IInv, TypeOK, JobsStep, RowsOK, LogGapFree, RequestsOK, RequestOK, InsertOK

\* A request begins with what it loaded.
LEMMA RequestBegins ==
    ASSUME IInv, NEW w \in Workers, NEW r \in Request, Begin(w, r), RequestOK(r, job),
           r.op = "queue" => \A v \in Workers :
               worker[v].op = "queue" => r.loaded \cap worker[v].loaded = {}
    PROVE  IInv' /\ JobsStep
  <1>1. JobsStep /\ job' = job
    BY JobsUnchanged DEF Begin, jobVars
  <1>2. worker' \in [Workers -> Request] /\ RequestsOK'
    BY <1>1 DEF IInv, TypeOK, RequestsOK, Begin
  <1>3. InsertsApart'
    BY DEF IInv, TypeOK, InsertsApart, Begin
  <1>4. QED
    BY <1>1, <1>2, <1>3, StepKeeps DEF IInv, TypeOK, Begin, jobVars

\* The rows a request loads are snapshots of themselves.
LEMMA LoadedOK ==
    ASSUME IInv, NEW S \in SUBSET Jobs, NEW r,
           r.rows = [j \in Jobs |-> IF j \in S THEN job[j] ELSE Absent],
           r.loaded = S,
           \A j \in S : job[j].state \in {"queued"} \cup HeldStates
    PROVE  SnapshotsOK(r, job) /\ r.rows \in [Jobs -> JobRow]
  <1>1. r.rows \in [Jobs -> JobRow]
    BY DEF IInv, TypeOK, Absent, JobRow, JobStates, NoToken
  <1>2. ASSUME NEW j \in S PROVE Snapshot(r.rows[j], job[j])
    <2>1. r.rows[j] = job[j] /\ job[j] \in JobRow /\ RowOK(job[j])
      BY DEF IInv, TypeOK, RowsOK
    <2>2. job[j].state \notin TerminalStates \cup {"absent"}
      BY DEF HeldStates, TerminalStates
    <2>3. QED
      BY <2>1, <2>2, SnapshotFresh
  <1>3. QED
    BY <1>1, <1>2 DEF SnapshotsOK

\* A commit that gets past the log's constraint decided on current rows.
LEMMA HandledCommit ==
    ASSUME IInv, NEW w \in Workers, NEW new,
           worker[w].op # "queue",
           \A j \in worker[w].loaded : Handled(worker[w].rows[j], new[j]),
           CommitRows(worker[w], new)
    PROVE  /\ JobsStep
           /\ SparesInserts(w)
           /\ \A j \in worker[w].loaded : /\ Same(worker[w].rows[j], job[j])
                                          /\ job'[j].state = new[j].state
  <1> DEFINE r == worker[w]
  <1>1. /\ r \in Request
        /\ r.loaded \in SUBSET Jobs
        /\ job \in [Jobs -> JobRow]
        /\ events \in [Jobs -> SUBSET Nat]
    BY DEF IInv, TypeOK, Request
  <1>2. ASSUME NEW j \in r.loaded
        PROVE  /\ r.rows[j] \in JobRow /\ job[j] \in JobRow
               /\ RowOK(job[j]) /\ Snapshot(r.rows[j], job[j])
               /\ new[j] \in JobRow
               /\ r.rows[j].seq < new[j].seq
               /\ r.rows[j].seq = job[j].seq
               /\ events[j] = 1 .. job[j].seq
    <2>1. /\ r.rows[j] \in JobRow /\ job[j] \in JobRow
          /\ RowOK(job[j]) /\ Snapshot(r.rows[j], job[j])
          /\ events[j] = 1 .. job[j].seq
      BY <1>1 DEF Request, IInv, RowsOK, RequestsOK, RequestOK, SnapshotsOK, LogGapFree
    <2>2. new[j] \in JobRow /\ r.rows[j].seq < new[j].seq
      BY <2>1, HandledType
    <2>3. Appendable(j, r.rows[j], new[j])
      BY DEF CommitRows
    <2>4. r.rows[j].seq = job[j].seq
      BY <1>1, <2>1, <2>2, <2>3, SucceedsOnlyIfFresh DEF Snapshot
    <2>5. QED
      BY <2>1, <2>2, <2>4
  <1>3. ASSUME NEW j \in r.loaded
        PROVE  /\ job'[j] \in JobRow /\ RowOK(job'[j]) /\ Advance(job[j], job'[j])
               /\ job'[j].state = new[j].state
               /\ events'[j] = 1 .. job'[j].seq
    <2>1. job'[j] = Flush(job[j], r.rows[j], new[j])
      BY <1>1 DEF CommitRows
    <2>2. /\ job'[j] \in JobRow /\ RowOK(job'[j]) /\ Advance(job[j], job'[j])
          /\ job'[j].state = new[j].state /\ job'[j].seq = new[j].seq
      BY <1>2, <2>1, HandledFlush
    <2>3. events'[j] = (1 .. job[j].seq) \cup ((job[j].seq + 1) .. new[j].seq)
      BY <1>1, <1>2 DEF CommitRows, Entries
    <2>4. events'[j] = 1 .. new[j].seq
      BY <1>2, <2>3 DEF JobRow
    <2>5. QED
      BY <2>2, <2>4
  <1>4. ASSUME NEW j \in Jobs \ r.loaded
        PROVE  /\ job'[j] = job[j] /\ events'[j] = events[j]
               /\ RowOK(job'[j]) /\ Advance(job[j], job'[j])
               /\ job'[j] \in JobRow
               /\ events'[j] = 1 .. job'[j].seq
    BY <1>1, AdvanceReflexive DEF CommitRows, IInv, RowsOK, LogGapFree
  <1>5. job' \in [Jobs -> JobRow]
    <2>1. job' = [j \in Jobs |-> job'[j]]
      BY DEF CommitRows
    <2>2. \A j \in Jobs : job'[j] \in JobRow
      BY <1>3, <1>4
    <2>3. QED
      BY <2>1, <2>2
  <1>6. events' \in [Jobs -> SUBSET Nat]
    <2>1. events' = [j \in Jobs |-> events'[j]]
      BY DEF CommitRows
    <2>2. \A j \in Jobs : events'[j] \in SUBSET Nat
      <3>1. ASSUME NEW j \in Jobs PROVE events'[j] = 1 .. job'[j].seq /\ job'[j].seq \in Nat
        BY <1>3, <1>4, <1>5 DEF JobRow
      <3>2. QED
        BY <3>1
    <2>3. QED
      BY <2>1, <2>2
  <1>7. JobsStep
    BY <1>3, <1>4, <1>5, <1>6 DEF JobsStep
  <1>8. SparesInserts(w)
    <2> SUFFICES ASSUME NEW v \in Workers \ {w}, worker[v].op = "queue",
                        NEW j \in worker[v].loaded
                 PROVE  job'[j].state = "absent"
      BY DEF SparesInserts
    <2>1. job[j].state = "absent" /\ j \in Jobs
      BY DEF IInv, TypeOK, Request, RequestsOK, RequestOK, InsertOK
    <2>2. j \notin r.loaded
      BY <1>2, <2>1 DEF Snapshot
    <2>3. QED
      BY <1>4, <2>1, <2>2
  <1>9. QED
    BY <1>2, <1>3, <1>7, <1>8 DEF Snapshot

\* The whole of a commit that writes only the jobs, their log and agent rows.
LEMMA CommitKeeps ==
    ASSUME IInv, NEW w \in Workers, NEW new,
           worker[w].op # "queue",
           \A j \in worker[w].loaded : Handled(worker[w].rows[j], new[j]),
           CommitRows(worker[w], new), Done(w), UNCHANGED <<held, imports>>,
           agent' \in [Agents -> AgentRow], scanning' \in BOOLEAN
    PROVE  IInv' /\ JobsStep
  BY HandledCommit, RequestEnds, StepKeeps

\* A commit that writes no job.
LEMMA IdleCommitKeeps ==
    ASSUME IInv, NEW w \in Workers, Done(w), UNCHANGED <<jobVars, held>>,
           agent' \in [Agents -> AgentRow], scanning' \in BOOLEAN
    PROVE  IInv' /\ JobsStep
  <1>1. JobsStep /\ SparesInserts(w)
    BY JobsUnchanged DEF jobVars, SparesInserts
  <1>2. QED
    BY <1>1, RequestEnds, StepKeeps DEF jobVars

LEMMA WriteStatusType ==
    ASSUME IInv, NEW a \in Agents, NEW seen, NEW s \in Statuses, WriteStatus(a, seen, s)
    PROVE  agent' \in [Agents -> AgentRow]
  <1>1. agent \in [Agents -> AgentRow]
    BY DEF IInv, TypeOK
  <1>2. CASE UNCHANGED agent
    BY <1>1, <1>2
  <1>3. CASE agent' = [agent EXCEPT ![a].status = s]
    <2>1. [agent[a] EXCEPT !.status = s] \in AgentRow
      BY <1>1 DEF AgentRow
    <2>2. QED
      BY <1>1, <1>3, <2>1
  <1>4. QED
    BY <1>2, <1>3 DEF WriteStatus

LEMMA RequestTypes ==
    ASSUME IInv, NEW w \in Workers
    PROVE  /\ worker[w] \in Request
           /\ worker[w].loaded \in SUBSET Jobs
           /\ worker[w].seen.status \in Statuses
           /\ RequestOK(worker[w], job)
           /\ \A j \in worker[w].loaded : /\ worker[w].rows[j] \in JobRow
                                          /\ job[j] \in JobRow
  BY DEF IInv, TypeOK, RequestsOK, Request, AgentRow

-----------------------------------------------------------------------------
(* Actions *)

LEMMA ClaimBeginKeeps ==
    ASSUME IInv, NEW w \in Workers, NEW a \in Agents, ClaimBegin(w, a)
    PROVE  IInv' /\ JobsStep
  <1> DEFINE r == [Idle EXCEPT !.op = "claim", !.agent = a, !.seen = agent[a]]
  <1>1. r \in Request
    BY IdleType DEF Request, Ops, IInv, TypeOK
  <1>2. r.loaded = {} /\ r.op = "claim" /\ r.agent = a
    BY DEF Idle
  <1>3. RequestOK(r, job)
    BY <1>2 DEF RequestOK, SnapshotsOK, InsertOK, VerifiedOK, AgentOps
  <1>4. Begin(w, r)
    BY DEF ClaimBegin
  <1>5. QED
    BY <1>1, <1>2, <1>3, <1>4, RequestBegins

LEMMA HeartbeatBeginKeeps ==
    ASSUME IInv, NEW w \in Workers, NEW a \in Agents, HeartbeatBegin(w, a)
    PROVE  IInv' /\ JobsStep
  <1> DEFINE r == [Idle EXCEPT !.op = "heartbeat", !.agent = a, !.seen = agent[a]]
  <1>1. r \in Request
    BY IdleType DEF Request, Ops, IInv, TypeOK
  <1>2. r.loaded = {} /\ r.op = "heartbeat" /\ r.agent = a
    BY DEF Idle
  <1>3. RequestOK(r, job)
    BY <1>2 DEF RequestOK, SnapshotsOK, InsertOK, VerifiedOK, AgentOps
  <1>4. Begin(w, r)
    BY DEF HeartbeatBegin
  <1>5. QED
    BY <1>1, <1>2, <1>3, <1>4, RequestBegins

LEMMA SetStatusBeginKeeps ==
    ASSUME IInv, NEW w \in Workers, NEW a \in Agents, NEW s \in OperatorStatuses,
           SetStatusBegin(w, a, s)
    PROVE  IInv' /\ JobsStep
  <1> DEFINE r == [Idle EXCEPT !.op = "setStatus", !.agent = a, !.seen = agent[a],
                               !.next = s]
  <1>1. r \in Request
    BY IdleType DEF Request, Ops, IInv, TypeOK, Statuses
  <1>2. r.loaded = {} /\ r.op = "setStatus" /\ r.agent = a
    BY DEF Idle
  <1>3. RequestOK(r, job)
    BY <1>2 DEF RequestOK, SnapshotsOK, InsertOK, VerifiedOK, AgentOps
  <1>4. Begin(w, r)
    BY DEF SetStatusBegin
  <1>5. QED
    BY <1>1, <1>2, <1>3, <1>4, RequestBegins

LEMMA DeleteBeginKeeps ==
    ASSUME IInv, NEW w \in Workers, NEW a \in Agents, DeleteBegin(w, a)
    PROVE  IInv' /\ JobsStep
  <1> DEFINE r == [Idle EXCEPT !.op = "delete", !.agent = a]
  <1>1. r \in Request
    BY IdleType DEF Request, Ops
  <1>2. r.loaded = {} /\ r.op = "delete" /\ r.agent = a
    BY DEF Idle
  <1>3. RequestOK(r, job)
    BY <1>2 DEF RequestOK, SnapshotsOK, InsertOK, VerifiedOK, AgentOps
  <1>4. Begin(w, r)
    BY DEF DeleteBegin
  <1>5. QED
    BY <1>1, <1>2, <1>3, <1>4, RequestBegins

LEMMA JobRequestBeginKeeps ==
    ASSUME IInv, NEW w \in Workers, NEW a \in Agents, NEW op \in AgentOps,
           NEW j \in Jobs, NEW t \in 1 .. MaxAttempts, JobRequestBegin(w, a, op, j, t)
    PROVE  IInv' /\ JobsStep
  <1> DEFINE q == [Idle EXCEPT !.op = op, !.agent = a, !.seen = agent[a], !.token = t]
             r == Loading(q, {j})
  <1>0. t \in 0 .. MaxAttempts /\ op \in Ops /\ agent[a] \in AgentRow /\ Idle \in Request
    BY IdleType DEF Ops, IInv, TypeOK
  <1>1. q \in Request
    BY <1>0 DEF Request
  <1>2. /\ r.op = op /\ r.agent = a /\ r.token = t
        /\ r.loaded = {j}
        /\ r.rows = [i \in Jobs |-> IF i \in {j} THEN job[i] ELSE Absent]
    BY DEF Loading, Idle
  <1>3. job[j].token = t /\ job[j].state \in HeldStates
    BY DEF JobRequestBegin, VerifyLease, IInv, RowsOK, RowOK, NoToken
  <1>4. SnapshotsOK(r, job) /\ r.rows \in [Jobs -> JobRow]
    BY <1>2, <1>3, LoadedOK
  <1>5. r \in Request
    BY <1>1, <1>2, <1>4 DEF Loading, Request
  <1>6. RequestOK(r, job)
    <2>1. InsertOK(r, job)
      BY <1>2 DEF InsertOK, AgentOps
    <2>2. r.token # NoToken /\ \A i \in r.loaded : r.rows[i].token = r.token
      BY <1>2, <1>3 DEF NoToken
    <2>3. VerifiedOK(r)
      <3>1. r.op \in AgentOps /\ r.op # "reap" /\ r.agent \in Agents
        BY <1>2 DEF AgentOps
      <3> HIDE DEF r
      <3>2. QED
        BY <2>2, <3>1 DEF VerifiedOK
    <2>4. QED
      BY <1>4, <2>1, <2>3 DEF RequestOK
  <1>7. Begin(w, r)
    BY DEF JobRequestBegin
  <1>8. QED
    BY <1>2, <1>5, <1>6, <1>7, RequestBegins DEF AgentOps

LEMMA CancelBeginKeeps ==
    ASSUME IInv, NEW w \in Workers, NEW j \in Jobs, CancelBegin(w, j)
    PROVE  IInv' /\ JobsStep
  <1> DEFINE q == [Idle EXCEPT !.op = "cancel"]
             r == Loading(q, {j})
  <1>1. q \in Request
    BY IdleType DEF Request, Ops
  <1>2. /\ r.op = "cancel" /\ r.loaded = {j}
        /\ r.rows = [i \in Jobs |-> IF i \in {j} THEN job[i] ELSE Absent]
    BY DEF Loading, Idle
  <1>3. SnapshotsOK(r, job) /\ r.rows \in [Jobs -> JobRow]
    BY <1>2, LoadedOK DEF CancelBegin
  <1>4. r \in Request
    BY <1>1, <1>2, <1>3 DEF Loading, Request
  <1>5. RequestOK(r, job)
    BY <1>2, <1>3 DEF RequestOK, InsertOK, VerifiedOK, AgentOps
  <1>6. QED
    BY <1>2, <1>4, <1>5, RequestBegins DEF CancelBegin

LEMMA ReapBeginKeeps ==
    ASSUME IInv, NEW w \in Workers, NEW stale \in SUBSET Agents, ReapBegin(w, stale)
    PROVE  IInv' /\ JobsStep
  <1> DEFINE q == [Idle EXCEPT !.op = "reap", !.stale = stale]
             S == {j \in Jobs : job[j].state \in HeldStates /\ job[j].lease = "lapsed"}
             r == Loading(q, S)
  <1>1. q \in Request
    BY IdleType DEF Request, Ops
  <1>2. /\ r.op = "reap" /\ r.loaded = S
        /\ r.rows = [i \in Jobs |-> IF i \in S THEN job[i] ELSE Absent]
    BY DEF Loading, Idle
  <1>3. SnapshotsOK(r, job) /\ r.rows \in [Jobs -> JobRow]
    BY <1>2, LoadedOK
  <1>4. r \in Request
    BY <1>1, <1>2, <1>3 DEF Loading, Request
  <1>5. RequestOK(r, job)
    BY <1>2, <1>3 DEF RequestOK, InsertOK, VerifiedOK, AgentOps
  <1>6. QED
    BY <1>2, <1>4, <1>5, RequestBegins DEF ReapBegin

LEMMA SwitchOffBeginKeeps ==
    ASSUME IInv, NEW w \in Workers, NEW cancelQueued \in BOOLEAN,
           SwitchOffBegin(w, cancelQueued)
    PROVE  IInv' /\ JobsStep
  <1> DEFINE q == [Idle EXCEPT !.op = "switchOff"]
             S == {j \in Jobs : cancelQueued /\ job[j].state = "queued"}
             r == Loading(q, S)
  <1>1. q \in Request
    BY IdleType DEF Request, Ops
  <1>2. /\ r.op = "switchOff" /\ r.loaded = S
        /\ r.rows = [i \in Jobs |-> IF i \in S THEN job[i] ELSE Absent]
    BY DEF Loading, Idle
  <1>3. SnapshotsOK(r, job) /\ r.rows \in [Jobs -> JobRow]
    BY <1>2, LoadedOK
  <1>4. r \in Request
    BY <1>1, <1>2, <1>3 DEF Loading, Request
  <1>5. RequestOK(r, job)
    BY <1>2, <1>3 DEF RequestOK, InsertOK, VerifiedOK, AgentOps
  <1>6. QED
    BY <1>2, <1>4, <1>5, RequestBegins DEF SwitchOffBegin

LEMMA QueueBeginKeeps ==
    ASSUME IInv, NEW w \in Workers, NEW j \in Jobs, NEW p \in Agents \cup {NoAgent},
           QueueBegin(w, j, p)
    PROVE  IInv' /\ JobsStep
  <1> DEFINE r == [Idle EXCEPT !.op = "queue", !.agent = p, !.loaded = {j},
                               !.rows = [@ EXCEPT ![j] = QueuedFor(p)]]
  <1>1. /\ r.op = "queue" /\ r.agent = p /\ r.loaded = {j}
        /\ r.rows = [Idle.rows EXCEPT ![j] = QueuedFor(p)]
    BY DEF Idle
  <1>2. QueuedFor(p) \in JobRow
    <2>1. Absent \in JobRow
      BY DEF Absent, JobRow, JobStates, NoToken
    <2>2. QED
      BY <2>1 DEF QueuedFor, JobRow, JobStates
  <1>3. r \in Request
    BY <1>2, IdleType DEF Request, Ops
  <1>4. RequestOK(r, job)
    BY <1>1 DEF RequestOK, SnapshotsOK, InsertOK, VerifiedOK, AgentOps, QueueBegin, Idle
  <1>5. \A v \in Workers : worker[v].op = "queue" => r.loaded \cap worker[v].loaded = {}
    BY <1>1 DEF QueueBegin
  <1>6. QED
    BY <1>3, <1>4, <1>5, RequestBegins DEF QueueBegin

LEMMA ClaimCheckKeeps ==
    ASSUME IInv, NEW w \in Workers, ClaimCheck(w)
    PROVE  IInv' /\ JobsStep
  <1> DEFINE r == [worker[w] EXCEPT !.op = "claiming"]
  <1>1. worker[w] \in Request /\ RequestOK(worker[w], job) /\ worker[w].op = "claim"
    BY RequestTypes DEF ClaimCheck
  <1>2. r \in Request /\ r.op = "claiming" /\ r.agent = worker[w].agent
        /\ r.loaded = worker[w].loaded /\ r.rows = worker[w].rows
    BY <1>1 DEF Request, Ops
  <1>3. RequestOK(r, job)
    BY <1>1, <1>2 DEF RequestOK, SnapshotsOK, InsertOK, VerifiedOK, AgentOps
  <1>4. JobsStep
    BY JobsUnchanged DEF ClaimCheck, jobVars
  <1>5. worker' = [worker EXCEPT ![w] = r]
    BY DEF ClaimCheck
  <1> HIDE DEF r
  <1>6. worker' \in [Workers -> Request] /\ RequestsOK' /\ InsertsApart'
    BY <1>2, <1>3, <1>5 DEF IInv, TypeOK, RequestsOK, InsertsApart, ClaimCheck, jobVars
  <1>7. QED
    BY <1>4, <1>6, StepKeeps DEF IInv, TypeOK, ClaimCheck, jobVars

LEMMA ClaimCommitKeeps ==
    ASSUME IInv, NEW w \in Workers, NEW i \in Jobs, NEW delivered \in BOOLEAN,
           ClaimCommit(w, i, delivered)
    PROVE  IInv' /\ JobsStep
  <1> DEFINE a == worker[w].agent
             new == Leased(job[i], a)
  <1>1. /\ a \in Agents /\ worker[w].op = "claiming"
        /\ job[i] \in JobRow /\ RowOK(job[i])
        /\ job[i].state = "queued" /\ job[i].agent \in {a, NoAgent}
        /\ job[i].attempts < MaxAttempts
        /\ events[i] = 1 .. job[i].seq
    BY RequestTypes DEF ClaimCommit, RequestOK, VerifiedOK, IInv, TypeOK, RowsOK, RowOK,
       LogGapFree
  <1>2. /\ new.state = "leased" /\ new.agent = a /\ new.pinned = job[i].pinned
        /\ new.token = job[i].attempts + 1 /\ new.lease = "live"
        /\ new.attempts = job[i].attempts + 1 /\ new.seq = job[i].seq + 1
    BY <1>1 DEF Leased, JobRow
  <1>3. new \in JobRow
    <2>1. /\ job[i].attempts + 1 \in 0 .. MaxAttempts
          /\ job[i].seq + 1 \in Nat
          /\ "leased" \in JobStates
      BY <1>1 DEF JobRow, JobStates, HeldStates
    <2>2. QED
      BY <1>1, <2>1, RowUpdate DEF Leased
  <1>4. RowOK(new) /\ Advance(job[i], new)
    BY <1>1, <1>2, <1>3 DEF RowOK, Advance, Same, JobRow, HeldStates, TerminalStates, NoToken
  <1>5. /\ job' = [job EXCEPT ![i] = new]
        /\ events' = [events EXCEPT ![i] = 1 .. new.seq]
    <2>1. (1 .. job[i].seq) \cup ((job[i].seq + 1) .. (job[i].seq + 1)) = 1 .. (job[i].seq + 1)
      BY <1>1 DEF JobRow
    <2>2. QED
      BY <1>1, <1>2, <2>1 DEF ClaimCommit, Entries
  <1> HIDE DEF new
  <1>6. JobsStep
    BY <1>3, <1>4, <1>5, AdvanceReflexive DEF IInv, TypeOK, RowsOK, LogGapFree, JobsStep,
       JobRow
  <1>7. SparesInserts(w)
    BY <1>1, <1>5 DEF SparesInserts, IInv, TypeOK, Request, RequestsOK, RequestOK, InsertOK
  <1>8. worker' \in [Workers -> Request] /\ RequestsOK' /\ InsertsApart'
    BY <1>6, <1>7, RequestEnds DEF ClaimCommit
  <1>9. ImportedOnce' /\ imports' = imports /\ scanning' = scanning
    BY <1>6, ImportsKept DEF ClaimCommit
  <1>10. agent' \in [Agents -> AgentRow]
    BY <1>1, WriteStatusType DEF ClaimCommit, Statuses, OperatorStatuses
  <1>11. /\ held' \in [Agents -> SUBSET (Jobs \X (1 .. MaxAttempts))]
         /\ \A b \in Agents : \A h \in held'[b] :
               h \in held[b] \/ (b = a /\ h = <<i, new.token>>)
    <2>1. new.token \in 1 .. MaxAttempts
      BY <1>1, <1>2 DEF JobRow
    <2>2. held' = held \/ held' = [held EXCEPT ![a] = @ \cup {<<i, new.token>>}]
      BY DEF ClaimCommit, new
    <2>3. held \in [Agents -> SUBSET (Jobs \X (1 .. MaxAttempts))]
      BY DEF IInv, TypeOK
    <2>4. <<i, new.token>> \in Jobs \X (1 .. MaxAttempts)
      BY <2>1
    <2>5. CASE held' = held
      BY <2>3, <2>5
    <2>6. CASE held' = [held EXCEPT ![a] = @ \cup {<<i, new.token>>}]
      <3> DEFINE h == <<i, new.token>>
      <3>1. h \in Jobs \X (1 .. MaxAttempts)
        BY <2>4
      <3> HIDE DEF h
      <3>2. QED
        BY <1>1, <2>3, <2>6, <3>1 DEF h
    <2>7. QED
      BY <2>2, <2>5, <2>6
  <1>12. ASSUME NEW b \in Agents, NEW h \in held[b]
         PROVE  /\ h[1] \in Jobs /\ h[2] \in 1 .. MaxAttempts
                /\ h[2] <= job'[h[1]].attempts
                /\ job'[h[1]].token = h[2] => job'[h[1]].agent \in {b, NoAgent}
                /\ h # <<i, new.token>>
    <2>1. h[1] \in Jobs /\ h[2] \in 1 .. MaxAttempts
      BY DEF IInv, TypeOK
    <2>2. /\ h[2] <= job[h[1]].attempts
          /\ job[h[1]].token = h[2] => job[h[1]].agent \in {b, NoAgent}
      BY DEF IInv, TokensOK, TokenHasOneHolder
    <2>3. CASE h[1] = i
      BY <1>1, <1>2, <1>5, <2>1, <2>2, <2>3 DEF JobRow, IInv, TypeOK
    <2>4. CASE h[1] # i
      BY <1>5, <2>1, <2>2, <2>4 DEF IInv, TypeOK
    <2>5. QED
      BY <2>1, <2>3, <2>4
  <1>13. job'[i] = new
    BY <1>5 DEF IInv, TypeOK
  <1>14. TokensOK' /\ TokenHasOneHolder'
    <2> SUFFICES ASSUME NEW b \in Agents, NEW h \in held'[b]
                 PROVE  /\ h[2] <= job'[h[1]].attempts
                        /\ job'[h[1]].token = h[2] => job'[h[1]].agent \in {b, NoAgent}
                        /\ \A c \in Agents \ {b} : h \notin held'[c]
      BY DEF TokensOK, TokenHasOneHolder
    <2>1. CASE h \in held[b]
      BY <1>11, <1>12, <2>1 DEF IInv, TokenHasOneHolder
    <2>2. CASE b = a /\ h = <<i, new.token>>
      <3>1. h[1] = i /\ h[2] = new.token /\ new.token <= new.attempts
        BY <1>1, <1>2, <2>2 DEF JobRow
      <3>2. \A c \in Agents \ {b} : h \notin held'[c]
        BY <1>11, <1>12, <2>2
      <3>3. QED
        BY <1>2, <1>13, <2>2, <3>1, <3>2
    <2>3. QED
      BY <1>11, <2>1, <2>2
  <1>15. QED
    BY <1>6, <1>8, <1>9, <1>10, <1>11, <1>14
       DEF IInv, TypeOK, JobsStep, LogGapFree, RowsOK

LEMMA EventsCommitKeeps ==
    ASSUME IInv, NEW w \in Workers, NEW n \in 1 .. 2, EventsCommit(w, n)
    PROVE  IInv' /\ JobsStep
  <1> DEFINE new == [j \in Jobs |-> Streamed(worker[w].rows[j], n)]
  <1>1. worker[w].op = "events" /\ CommitRows(worker[w], new)
    BY DEF EventsCommit
  <1>2. ASSUME NEW j \in worker[w].loaded PROVE Handled(worker[w].rows[j], new[j])
    <2>1. /\ j \in Jobs /\ RowOK(worker[w].rows[j])
          /\ worker[w].rows[j].token # NoToken
      BY <1>1, RequestTypes DEF RequestOK, SnapshotsOK, VerifiedOK, Snapshot, AgentOps
    <2>2. QED
      BY <2>1 DEF RowOK, Handled
  <1> HIDE DEF new
  <1>3. QED
    BY <1>1, <1>2, CommitKeeps DEF EventsCommit, IInv, TypeOK

LEMMA ExtendCommitKeeps ==
    ASSUME IInv, NEW w \in Workers, ExtendCommit(w)
    PROVE  IInv' /\ JobsStep
  <1>1. /\ job \in [Jobs -> JobRow] /\ worker[w].op = "extend"
        /\ job' = [j \in Jobs |-> IF j \in worker[w].loaded
                                  THEN [job[j] EXCEPT !.lease = "live"] ELSE job[j]]
        /\ events' = events
    BY DEF ExtendCommit, IInv, TypeOK
  <1>2. ASSUME NEW j \in worker[w].loaded PROVE j \in Jobs /\ job[j].state # "absent"
    BY <1>1, RequestTypes DEF RequestOK, SnapshotsOK, Snapshot
  <1>3. ASSUME NEW j \in Jobs
        PROVE  /\ job'[j] \in JobRow /\ RowOK(job'[j]) /\ Advance(job[j], job'[j])
               /\ job'[j].seq = job[j].seq /\ job'[j].state = job[j].state
    <2>1. job[j] \in JobRow /\ RowOK(job[j])
      BY <1>1 DEF IInv, RowsOK
    <2>2. CASE j \in worker[w].loaded
      BY <1>1, <1>2, <2>1, <2>2 DEF JobRow, RowOK, Advance, Same
    <2>3. CASE j \notin worker[w].loaded
      BY <1>1, <2>1, <2>3, AdvanceReflexive
    <2>4. QED
      BY <2>2, <2>3
  <1>4. JobsStep
    BY <1>1, <1>3 DEF JobsStep, IInv, TypeOK, LogGapFree
  <1>5. SparesInserts(w)
    BY <1>3 DEF SparesInserts, IInv, TypeOK, Request, RequestsOK, RequestOK, InsertOK
  <1>6. QED
    BY <1>4, <1>5, RequestEnds, StepKeeps DEF ExtendCommit, IInv, TypeOK

LEMMA FailCommitKeeps ==
    ASSUME IInv, NEW w \in Workers, NEW requeue \in BOOLEAN, FailCommit(w, requeue)
    PROVE  IInv' /\ JobsStep
  <1> DEFINE new == [j \in Jobs |-> FailedBy(worker[w].rows[j], requeue)]
  <1>1. worker[w].op = "fail" /\ CommitRows(worker[w], new)
    BY DEF FailCommit
  <1>2. ASSUME NEW j \in worker[w].loaded PROVE Handled(worker[w].rows[j], new[j])
    <2>1. /\ j \in Jobs /\ RowOK(worker[w].rows[j])
          /\ worker[w].rows[j].token # NoToken
      BY <1>1, RequestTypes DEF RequestOK, SnapshotsOK, VerifiedOK, Snapshot, AgentOps
    <2>2. QED
      BY <2>1 DEF RowOK, Handled, FailedBy, TerminalStates
  <1>3. agent' \in [Agents -> AgentRow]
    <2>1. worker[w].agent \in Agents /\ worker[w].seen.status \in Statuses
      BY <1>1, RequestTypes DEF RequestOK, VerifiedOK, AgentOps
    <2>2. QED
      BY <2>1, WriteStatusType DEF FailCommit, ReleaseAgent, Statuses, OperatorStatuses
  <1> HIDE DEF new
  <1>4. QED
    BY <1>1, <1>2, <1>3, CommitKeeps DEF FailCommit, IInv, TypeOK

\* The copy the result was verified against is current, so the token is the one
\* in force, and nothing was imported for the job before.
LEMMA ResultCommitKeeps ==
    ASSUME IInv, NEW w \in Workers, NEW s \in {"succeeded", "failed"},
           NEW imported \in BOOLEAN, ResultCommit(w, s, imported)
    PROVE  /\ IInv' /\ JobsStep
           /\ \A j \in Jobs : imports'[j] # imports[j]
                 => /\ job[j].token # NoToken
                    /\ imports'[j] = Append(imports[j], job[j].token)
  <1> DEFINE r == worker[w]
             new == [j \in Jobs |-> Finished(r.rows[j], s)]
  <1>1. r.op = "result" /\ CommitRows(r, new)
    BY DEF ResultCommit
  <1>2. ASSUME NEW j \in r.loaded PROVE Handled(r.rows[j], new[j]) /\ new[j].state = s
    <2>1. j \in Jobs /\ r.rows[j] \in JobRow /\ s \in TerminalStates
      BY RequestTypes DEF TerminalStates
    <2>2. QED
      BY <2>1 DEF Handled, Finished, JobRow
  <1>3. agent' \in [Agents -> AgentRow]
    <2>1. r.agent \in Agents /\ r.seen.status \in Statuses
      BY <1>1, RequestTypes DEF RequestOK, VerifiedOK, AgentOps
    <2>2. QED
      BY <2>1, WriteStatusType DEF ResultCommit, ReleaseAgent, Statuses, OperatorStatuses
  <1> HIDE DEF new
  <1>4. /\ JobsStep /\ SparesInserts(w)
        /\ \A j \in r.loaded : Same(r.rows[j], job[j]) /\ job'[j].state = s
    BY <1>1, <1>2, HandledCommit
  <1>5. worker' \in [Workers -> Request] /\ RequestsOK' /\ InsertsApart'
    BY <1>4, RequestEnds DEF ResultCommit
  <1>6. ASSUME NEW j \in r.loaded
        PROVE  /\ j \in Jobs /\ job[j].token = r.token /\ r.token \in 1 .. MaxAttempts
               /\ job[j].state \in HeldStates /\ imports[j] = <<>>
    <2>1. /\ j \in Jobs /\ r \in Request /\ job[j] \in JobRow
          /\ RequestOK(r, job) /\ RowOK(job[j])
      BY RequestTypes DEF IInv, RowsOK
    <2>2. job[j].token = r.token /\ r.token # NoToken
      BY <1>1, <1>4, <2>1 DEF RequestOK, VerifiedOK, AgentOps, Same
    <2>3. job[j].state \in HeldStates
      BY <2>1, <2>2 DEF RowOK
    <2>4. imports[j] = <<>>
      BY <2>1, <2>3 DEF IInv, ImportedOnce, HeldStates
    <2>5. QED
      BY <2>1, <2>2, <2>3, <2>4 DEF Request, NoToken
  <1>7. ASSUME NEW j \in Jobs
        PROVE  \/ imports'[j] = imports[j]
               \/ /\ j \in r.loaded /\ imports'[j] = Append(imports[j], r.token)
                  /\ imports'[j] = <<r.token>>
    <2>1. imports'[j] = IF imported /\ j \in r.loaded
                        THEN Append(imports[j], r.token) ELSE imports[j]
      BY DEF ResultCommit
    <2>2. CASE imported /\ j \in r.loaded
      <3>1. imports'[j] = Append(imports[j], r.token) /\ imports[j] = <<>>
        BY <1>6, <2>1, <2>2
      <3>2. Append(<<>>, r.token) = <<r.token>>
        OBVIOUS
      <3>3. QED
        BY <2>2, <3>1, <3>2
    <2>3. CASE ~(imported /\ j \in r.loaded)
      BY <2>1, <2>3
    <2>4. QED
      BY <2>2, <2>3
  <1>8. imports' \in [Jobs -> Seq(1 .. MaxAttempts)]
    <2>1. imports' = [j \in Jobs |-> imports'[j]]
      BY DEF ResultCommit
    <2>2. \A j \in Jobs : imports'[j] \in Seq(1 .. MaxAttempts)
      BY <1>6, <1>7 DEF IInv, TypeOK
    <2>3. QED
      BY <2>1, <2>2
  <1>9. ImportedOnce'
    <2> SUFFICES ASSUME NEW j \in Jobs
                 PROVE  /\ Len(imports'[j]) <= 1
                        /\ imports'[j] # <<>> => job'[j].state \in {"succeeded", "failed"}
      BY DEF ImportedOnce
    <2>1. CASE imports'[j] = imports[j]
      BY <1>4, <2>1 DEF IInv, ImportedOnce, JobsStep, Advance, TerminalStates
    <2>2. CASE j \in r.loaded /\ imports'[j] = <<r.token>>
      BY <1>4, <2>2
    <2>3. QED
      BY <1>7, <2>1, <2>2
  <1>10. TokensOK' /\ TokenHasOneHolder'
    BY <1>4, HeldKept DEF ResultCommit
  <1>11. IInv'
    BY <1>3, <1>4, <1>5, <1>8, <1>9, <1>10
       DEF ResultCommit, IInv, TypeOK, JobsStep, LogGapFree, RowsOK
  <1>12. QED
    BY <1>4, <1>6, <1>7, <1>11 DEF NoToken

LEMMA CancelCommitKeeps ==
    ASSUME IInv, NEW w \in Workers, CancelCommit(w)
    PROVE  IInv' /\ JobsStep
  <1> DEFINE new == [j \in Jobs |-> Finished(worker[w].rows[j], "cancelled")]
  <1>1. worker[w].op = "cancel" /\ CommitRows(worker[w], new)
    BY DEF CancelCommit
  <1>2. ASSUME NEW j \in worker[w].loaded PROVE Handled(worker[w].rows[j], new[j])
    BY RequestTypes DEF Handled, TerminalStates
  <1> HIDE DEF new
  <1>3. QED
    BY <1>1, <1>2, CommitKeeps DEF CancelCommit, IInv, TypeOK

LEMMA SwitchOffCommitKeeps ==
    ASSUME IInv, NEW w \in Workers, SwitchOffCommit(w)
    PROVE  IInv' /\ JobsStep
  <1> DEFINE new == [j \in Jobs |-> Finished(worker[w].rows[j], "cancelled")]
  <1>1. worker[w].op = "switchOff" /\ CommitRows(worker[w], new)
    BY DEF SwitchOffCommit
  <1>2. ASSUME NEW j \in worker[w].loaded PROVE Handled(worker[w].rows[j], new[j])
    BY RequestTypes DEF Handled, TerminalStates
  <1> HIDE DEF new
  <1>3. QED
    BY <1>1, <1>2, CommitKeeps DEF SwitchOffCommit, IInv, TypeOK

LEMMA ReapCommitKeeps ==
    ASSUME IInv, NEW w \in Workers, ReapCommit(w)
    PROVE  IInv' /\ JobsStep
  <1> DEFINE new == [j \in Jobs |-> Reaped(worker[w].rows[j])]
  <1>1. worker[w].op = "reap" /\ CommitRows(worker[w], new)
    BY DEF ReapCommit
  <1>2. ASSUME NEW j \in worker[w].loaded PROVE Handled(worker[w].rows[j], new[j])
    BY <1>1, RequestTypes DEF Handled, Reaped, RequestOK, VerifiedOK
  <1>3. agent' \in [Agents -> AgentRow]
    BY DEF ReapCommit, IInv, TypeOK, AgentRow, Statuses, OperatorStatuses
  <1> HIDE DEF new
  <1>4. QED
    BY <1>1, <1>2, <1>3, CommitKeeps DEF ReapCommit, IInv, TypeOK

LEMMA HeartbeatCommitKeeps ==
    ASSUME IInv, NEW w \in Workers, HeartbeatCommit(w)
    PROVE  IInv' /\ JobsStep
  <1>1. worker[w].agent \in Agents /\ worker[w].seen.status \in Statuses
    BY RequestTypes DEF HeartbeatCommit, RequestOK, VerifiedOK
  <1>2. agent' \in [Agents -> AgentRow]
    BY <1>1, WriteStatusType DEF HeartbeatCommit, Statuses, OperatorStatuses
  <1>3. QED
    BY <1>2, IdleCommitKeeps DEF HeartbeatCommit, IInv, TypeOK

LEMMA SetStatusCommitKeeps ==
    ASSUME IInv, NEW w \in Workers, SetStatusCommit(w)
    PROVE  IInv' /\ JobsStep
  <1> DEFINE r == worker[w]
             row == [status |-> Written(r.seen.status, r.next, agent[r.agent].status),
                     disabledAt |-> r.next = "disabled"
                         \/ Written(r.seen.disabledAt, FALSE, agent[r.agent].disabledAt)]
  <1>1. r.agent \in Agents /\ r \in Request
    BY RequestTypes DEF SetStatusCommit, RequestOK, VerifiedOK
  <1>2. row.status \in Statuses
    BY <1>1 DEF Written, Request, IInv, TypeOK, AgentRow
  <1>3. row.disabledAt \in BOOLEAN
    BY Zenon
  <1>4. agent' = [agent EXCEPT ![r.agent] = row]
    BY DEF SetStatusCommit
  <1>5. row \in AgentRow
    BY <1>2, <1>3 DEF AgentRow
  <1> HIDE DEF row
  <1>6. agent' \in [Agents -> AgentRow]
    BY <1>1, <1>4, <1>5 DEF IInv, TypeOK
  <1>7. QED
    BY <1>6, IdleCommitKeeps DEF SetStatusCommit, IInv, TypeOK

LEMMA AbandonKeeps ==
    ASSUME IInv, NEW w \in Workers, Abandon(w)
    PROVE  IInv' /\ JobsStep
  BY IdleCommitKeeps DEF Abandon, jobVars, IInv, TypeOK

\* The insert of a new row: its log is empty, and no other request inserts it.
LEMMA QueueCommitKeeps ==
    ASSUME IInv, NEW w \in Workers, QueueCommit(w)
    PROVE  IInv' /\ JobsStep
  <1> DEFINE r == worker[w]
  <1>1. /\ r.op = "queue" /\ r.agent \in Agents \cup {NoAgent}
        /\ job \in [Jobs -> JobRow]
        /\ job' = [j \in Jobs |-> IF j \in r.loaded THEN r.rows[j] ELSE job[j]]
        /\ events' = events
    BY RequestTypes DEF QueueCommit, RequestOK, InsertOK, IInv, TypeOK
  <1>2. ASSUME NEW j \in r.loaded
        PROVE  /\ j \in Jobs /\ job[j] = Absent /\ job'[j] \in JobRow
               /\ job'[j] = QueuedFor(r.agent)
    <2>1. /\ j \in Jobs /\ job[j].state = "absent" /\ RowOK(job[j])
          /\ r.rows[j] = QueuedFor(r.agent) /\ r.rows[j] \in JobRow
      BY <1>1, RequestTypes DEF RequestOK, InsertOK, IInv, RowsOK
    <2>2. QED
      BY <1>1, <2>1 DEF RowOK
  <1>3. ASSUME NEW j \in Jobs
        PROVE  /\ job'[j] \in JobRow /\ RowOK(job'[j]) /\ Advance(job[j], job'[j])
               /\ job'[j].seq = job[j].seq
    <2>1. CASE j \in r.loaded
      <3>1. /\ job'[j].state = "queued" /\ job'[j].agent = job'[j].pinned
            /\ job'[j].token = NoToken /\ job'[j].attempts = 0 /\ job'[j].seq = 0
            /\ job[j].state = "absent" /\ job[j].attempts = 0 /\ job[j].seq = 0
        <4>1. /\ QueuedFor(r.agent).state = "queued"
              /\ QueuedFor(r.agent).agent = QueuedFor(r.agent).pinned
              /\ QueuedFor(r.agent).token = NoToken
              /\ QueuedFor(r.agent).attempts = 0 /\ QueuedFor(r.agent).seq = 0
          BY DEF QueuedFor, Absent
        <4>2. QED
          BY <1>2, <2>1, <4>1 DEF Absent
      <3>2. QED
        BY <1>2, <2>1, <3>1 DEF RowOK, Advance, HeldStates, TerminalStates
    <2>2. CASE j \notin r.loaded
      BY <1>1, <2>2, AdvanceReflexive DEF IInv, RowsOK
    <2>3. QED
      BY <2>1, <2>2
  <1>4. JobsStep
    BY <1>1, <1>3 DEF JobsStep, IInv, TypeOK, LogGapFree
  <1>5. SparesInserts(w)
    BY <1>1 DEF SparesInserts, IInv, TypeOK, Request, RequestsOK, RequestOK, InsertOK,
       InsertsApart
  <1>6. QED
    BY <1>4, <1>5, RequestEnds, StepKeeps DEF QueueCommit, IInv, TypeOK

\* Clearing a reference to a deleted agent clears both or, where the job was
\* not pinned, the only one.
LEMMA DeleteCommitKeeps ==
    ASSUME IInv, NEW w \in Workers, DeleteCommit(w)
    PROVE  IInv' /\ JobsStep
  <1> DEFINE a == worker[w].agent
             Cleared(x) == IF x = a THEN NoAgent ELSE x
  <1>1. /\ a \in Agents /\ job \in [Jobs -> JobRow]
        /\ job' = [j \in Jobs |-> [job[j] EXCEPT !.agent = Cleared(@), !.pinned = Cleared(@)]]
        /\ events' = events
    BY RequestTypes DEF DeleteCommit, RequestOK, VerifiedOK, IInv, TypeOK
  <1>2. ASSUME NEW j \in Jobs
        PROVE  /\ job'[j] \in JobRow /\ RowOK(job'[j]) /\ Advance(job[j], job'[j])
               /\ job'[j].seq = job[j].seq /\ job'[j].state = job[j].state
    <2>1. job[j] \in JobRow /\ RowOK(job[j])
      BY <1>1 DEF IInv, RowsOK
    <2>2. job'[j] = [job[j] EXCEPT !.agent = Cleared(job[j].agent),
                                   !.pinned = Cleared(job[j].pinned)]
      BY <1>1
    <2>3. Cleared(job[j].agent) \in Agents \cup {NoAgent}
          /\ Cleared(job[j].pinned) \in Agents \cup {NoAgent}
      BY <2>1 DEF JobRow
    <2>4. job'[j] \in JobRow
      BY <2>1, <2>2, <2>3 DEF JobRow
    <2>5. /\ job'[j].state = job[j].state /\ job'[j].token = job[j].token
          /\ job'[j].lease = job[j].lease /\ job'[j].attempts = job[j].attempts
          /\ job'[j].seq = job[j].seq
          /\ job'[j].agent = Cleared(job[j].agent)
          /\ job'[j].pinned = Cleared(job[j].pinned)
      BY <2>1, <2>2 DEF JobRow
    <2>6. job[j].state = "absent" => job'[j] = Absent
      <3> SUFFICES ASSUME job[j].state = "absent" PROVE job'[j] = Absent
        OBVIOUS
      <3>1. job[j] = Absent
        BY <2>1 DEF RowOK
      <3>2. Cleared(NoAgent) = NoAgent
        OBVIOUS
      <3>3. job'[j] = [Absent EXCEPT !.agent = NoAgent, !.pinned = NoAgent]
        BY <2>2, <3>1, <3>2 DEF Absent
      <3>4. QED
        BY <3>3 DEF Absent
    <2>7. QED
      BY <2>1, <2>4, <2>5, <2>6 DEF RowOK, Advance, Same, JobRow, NoToken
  <1>3. JobsStep
    BY <1>1, <1>2 DEF JobsStep, IInv, TypeOK, LogGapFree
  <1>4. SparesInserts(w)
    BY <1>2 DEF SparesInserts, IInv, TypeOK, Request, RequestsOK, RequestOK, InsertOK
  <1>5. agent' \in [Agents -> AgentRow]
    BY DEF DeleteCommit, IInv, TypeOK, AgentRow, NoRow, Statuses
  <1>6. QED
    BY <1>3, <1>4, <1>5, RequestEnds, StepKeeps DEF DeleteCommit, IInv, TypeOK

LEMMA ForgetKeeps ==
    ASSUME IInv, NEW a \in Agents, Forget(a)
    PROVE  IInv' /\ JobsStep
  <1>1. /\ JobsStep
        /\ worker' \in [Workers -> Request] /\ RequestsOK' /\ InsertsApart'
    BY JobsUnchanged, RequestsKept DEF Forget, jobVars
  <1>2. /\ held' \in [Agents -> SUBSET (Jobs \X (1 .. MaxAttempts))]
        /\ \A b \in Agents : held'[b] \subseteq held[b]
    BY DEF Forget, IInv, TypeOK
  <1>3. TokensOK' /\ TokenHasOneHolder'
    BY <1>2 DEF IInv, TokensOK, TokenHasOneHolder, Forget, jobVars
  <1>4. QED
    BY <1>1, <1>2, <1>3 DEF IInv, TypeOK, Forget, jobVars, LogGapFree, RowsOK, ImportedOnce

LEMMA LapseKeeps ==
    ASSUME IInv, NEW i \in Jobs, Lapse(i)
    PROVE  IInv' /\ JobsStep
  <1>1. /\ job \in [Jobs -> JobRow] /\ job[i].state \in HeldStates
        /\ job' = [job EXCEPT ![i].lease = "lapsed"]
        /\ events' = events
    BY DEF Lapse, IInv, TypeOK
  <1>2. ASSUME NEW j \in Jobs
        PROVE  /\ job'[j] \in JobRow /\ RowOK(job'[j]) /\ Advance(job[j], job'[j])
               /\ job'[j].seq = job[j].seq /\ job'[j].state = job[j].state
    <2>1. job[j] \in JobRow /\ RowOK(job[j])
      BY <1>1 DEF IInv, RowsOK
    <2>2. CASE j = i
      BY <1>1, <2>1, <2>2 DEF JobRow, RowOK, Advance, Same, HeldStates
    <2>3. CASE j # i
      BY <1>1, <2>1, <2>3, AdvanceReflexive
    <2>4. QED
      BY <2>2, <2>3
  <1>3. JobsStep
    BY <1>1, <1>2 DEF JobsStep, IInv, TypeOK, LogGapFree
  <1>4. \A v \in Workers : worker[v].op = "queue" =>
            \A j \in worker[v].loaded : job'[j].state = "absent"
    BY <1>2, RequestTypes DEF RequestOK, InsertOK
  <1>5. QED
    BY <1>3, <1>4, RequestsKept, StepKeeps DEF Lapse, IInv, TypeOK

LEMMA SwitchOnKeeps ==
    ASSUME IInv, SwitchOn
    PROVE  IInv' /\ JobsStep
  BY JobsUnchanged, RequestsKept, StepKeeps DEF SwitchOn, jobVars, IInv, TypeOK

-----------------------------------------------------------------------------
(* Theorems *)

LEMMA ImportStep ==
    ASSUME IInv, [Next]_vars
    PROVE  /\ IInv' /\ JobsStep
           /\ \A j \in Jobs : imports'[j] # imports[j]
                 => /\ job[j].token # NoToken
                    /\ imports'[j] = Append(imports[j], job[j].token)
  <1> DEFINE Imports == \A j \in Jobs : imports'[j] # imports[j]
                 => /\ job[j].token # NoToken
                    /\ imports'[j] = Append(imports[j], job[j].token)
  <1>1. ASSUME UNCHANGED imports PROVE Imports
    BY <1>1
  <1>2. CASE UNCHANGED vars
    <2>1. JobsStep /\ worker' \in [Workers -> Request] /\ RequestsOK' /\ InsertsApart'
      BY <1>2, JobsUnchanged, RequestsKept DEF vars
    <2>2. IInv'
      BY <1>2, <2>1, StepKeeps DEF vars, IInv, TypeOK
    <2>3. QED
      BY <1>1, <1>2, <2>1, <2>2 DEF vars
  <1>3. ASSUME NEW w \in Workers, Arrive(w) PROVE IInv' /\ JobsStep /\ Imports
    <2>1. UNCHANGED imports
      BY <1>3 DEF Arrive, ClaimBegin, HeartbeatBegin, JobRequestBegin, SetStatusBegin,
         DeleteBegin, QueueBegin, CancelBegin, ReapBegin, SwitchOffBegin, Begin, jobVars
    <2>2. IInv' /\ JobsStep
      BY <1>3, ClaimBeginKeeps, HeartbeatBeginKeeps, JobRequestBeginKeeps,
         SetStatusBeginKeeps, DeleteBeginKeeps, QueueBeginKeeps, CancelBeginKeeps,
         ReapBeginKeeps, SwitchOffBeginKeeps DEF Arrive
    <2>3. QED
      BY <1>1, <2>1, <2>2
  <1>4. ASSUME NEW w \in Workers, Commit(w) PROVE IInv' /\ JobsStep /\ Imports
    <2>1. ASSUME NEW j \in Jobs, NEW delivered \in BOOLEAN, ClaimCommit(w, j, delivered)
          PROVE  IInv' /\ JobsStep /\ Imports
      BY <1>1, <2>1, ClaimCommitKeeps DEF ClaimCommit
    <2>2. ASSUME NEW n \in 1 .. 2, EventsCommit(w, n)
          PROVE  IInv' /\ JobsStep /\ Imports
      BY <1>1, <2>2, EventsCommitKeeps DEF EventsCommit
    <2>3. ASSUME ExtendCommit(w) PROVE IInv' /\ JobsStep /\ Imports
      BY <1>1, <2>3, ExtendCommitKeeps DEF ExtendCommit
    <2>4. ASSUME NEW s \in {"succeeded", "failed"}, NEW imported \in BOOLEAN,
                 ResultCommit(w, s, imported)
          PROVE  IInv' /\ JobsStep /\ Imports
      BY <2>4, ResultCommitKeeps
    <2>5. ASSUME NEW requeue \in BOOLEAN, FailCommit(w, requeue)
          PROVE  IInv' /\ JobsStep /\ Imports
      BY <1>1, <2>5, FailCommitKeeps DEF FailCommit
    <2>6. ASSUME HeartbeatCommit(w) PROVE IInv' /\ JobsStep /\ Imports
      BY <1>1, <2>6, HeartbeatCommitKeeps DEF HeartbeatCommit, jobVars
    <2>7. ASSUME QueueCommit(w) PROVE IInv' /\ JobsStep /\ Imports
      BY <1>1, <2>7, QueueCommitKeeps DEF QueueCommit
    <2>8. ASSUME CancelCommit(w) PROVE IInv' /\ JobsStep /\ Imports
      BY <1>1, <2>8, CancelCommitKeeps DEF CancelCommit
    <2>9. ASSUME ReapCommit(w) PROVE IInv' /\ JobsStep /\ Imports
      BY <1>1, <2>9, ReapCommitKeeps DEF ReapCommit
    <2>10. ASSUME SwitchOffCommit(w) PROVE IInv' /\ JobsStep /\ Imports
      BY <1>1, <2>10, SwitchOffCommitKeeps DEF SwitchOffCommit
    <2>11. ASSUME SetStatusCommit(w) PROVE IInv' /\ JobsStep /\ Imports
      BY <1>1, <2>11, SetStatusCommitKeeps DEF SetStatusCommit, jobVars
    <2>12. ASSUME DeleteCommit(w) PROVE IInv' /\ JobsStep /\ Imports
      BY <1>1, <2>12, DeleteCommitKeeps DEF DeleteCommit
    <2>13. QED
      BY <1>4, <2>1, <2>2, <2>3, <2>4, <2>5, <2>6, <2>7, <2>8, <2>9, <2>10, <2>11, <2>12
         DEF Commit
  <1>5. ASSUME NEW w \in Workers, ClaimCheck(w) \/ Abandon(w)
        PROVE  IInv' /\ JobsStep /\ Imports
    BY <1>1, <1>5, ClaimCheckKeeps, AbandonKeeps DEF ClaimCheck, Abandon, jobVars
  <1>6. ASSUME NEW a \in Agents, Forget(a) PROVE IInv' /\ JobsStep /\ Imports
    BY <1>1, <1>6, ForgetKeeps DEF Forget, jobVars
  <1>7. ASSUME NEW j \in Jobs, Lapse(j) PROVE IInv' /\ JobsStep /\ Imports
    BY <1>1, <1>7, LapseKeeps DEF Lapse
  <1>8. ASSUME SwitchOn PROVE IInv' /\ JobsStep /\ Imports
    BY <1>1, <1>8, SwitchOnKeeps DEF SwitchOn, jobVars
  <1> HIDE DEF Imports
  <1>9. IInv' /\ JobsStep /\ Imports
    BY <1>2, <1>3, <1>4, <1>5, <1>6, <1>7, <1>8 DEF Next, Imports
  <1>10. QED
    BY <1>9 DEF Imports

LEMMA InitOK == Init => IInv
  <1> SUFFICES ASSUME Init PROVE IInv
    OBVIOUS
  <1>1. Absent \in JobRow /\ RowOK(Absent) /\ Absent.seq = 0 /\ Absent.state = "absent"
    BY DEF Absent, JobRow, JobStates, RowOK, HeldStates, NoToken
  <1>2. TypeOK
    BY <1>1, IdleType DEF Init, TypeOK, AgentRow, Statuses, OperatorStatuses
  <1>3. LogGapFree /\ RowsOK
    BY <1>1 DEF Init, LogGapFree, RowsOK
  <1>4. RequestsOK /\ InsertsApart
    BY IdleType DEF Init, RequestsOK, InsertsApart, Idle
  <1>5. TokensOK /\ TokenHasOneHolder /\ ImportedOnce
    BY DEF Init, TokensOK, TokenHasOneHolder, ImportedOnce
  <1>6. QED
    BY <1>2, <1>3, <1>4, <1>5 DEF IInv

\* Every state the dispatcher reaches satisfies the inductive invariant.
THEOREM Invariant == Spec => []IInv
  <1>1. IInv /\ [Next]_vars => IInv'
    BY ImportStep
  <1>2. QED
    BY InitOK, <1>1, PTL DEF Spec

\* Whatever requests interleave, only rows the code can write are committed, and
\* no job is leased more than max_attempts times.
THEOREM TypeCorrect == Spec => []TypeOK
  <1>1. IInv => TypeOK
    BY DEF IInv
  <1>2. QED
    BY Invariant, <1>1, PTL

\* The event log of every job is gap-free and agrees with last_event_seq.
THEOREM LogCorrect == Spec => []LogGapFree
  <1>1. IInv => LogGapFree
    BY DEF IInv
  <1>2. QED
    BY Invariant, <1>1, PTL

\* A job carries the token of its latest lease, and an expiry, exactly while held.
THEOREM LeasesCorrect == Spec => []LeaseAccounting
  <1>1. IInv => LeaseAccounting
    BY DEF IInv, RowsOK, RowOK, LeaseAccounting
  <1>2. QED
    BY Invariant, <1>1, PTL

\* A requeued job goes back to whom it was queued for.
THEOREM PinsCorrect == Spec => []QueueRemembersPin
  <1>1. IInv => QueueRemembersPin
    BY DEF IInv, RowsOK, RowOK, QueueRemembersPin
  <1>2. QED
    BY Invariant, <1>1, PTL

\* The token in force is known to the agent the job is leased to and to no other.
THEOREM TokensCorrect == Spec => []TokenHasOneHolder
  <1>1. IInv => TokenHasOneHolder
    BY DEF IInv
  <1>2. QED
    BY Invariant, <1>1, PTL

\* No job's output is imported twice.
THEOREM ImportsCorrect == Spec => []ImportedOnce
  <1>1. IInv => ImportedOnce
    BY DEF IInv
  <1>2. QED
    BY Invariant, <1>1, PTL

\* An ended job stays as it ended.
THEOREM EndsAreFinal == Spec => TerminalIsFinal
  <1>1. IInv /\ [Next]_vars
          => [\A j \in Jobs : job[j].state \in TerminalStates
                                 => job'[j].state = job[j].state]_vars
    BY ImportStep DEF JobsStep, Advance
  <1>2. QED
    BY Invariant, <1>1, PTL DEF Spec, TerminalIsFinal

\* Only output submitted under the lease in force is imported.
THEOREM ImportsAreCurrent == Spec => ImportsUnderCurrentLease
  <1>1. IInv /\ [Next]_vars
          => [\A j \in Jobs : imports'[j] # imports[j]
                 => /\ job[j].token # NoToken
                    /\ imports'[j] = Append(imports[j], job[j].token)]_vars
    BY ImportStep
  <1>2. QED
    BY Invariant, <1>1, PTL DEF Spec, ImportsUnderCurrentLease

-----------------------------------------------------------------------------
(* How far the concurrency limit can be overshot.  A claim that passed the    *)
(* check counts as the job it may still lease; nothing else adds to the two   *)
(* sets, because only a new lease raises attempts.                            *)

Claiming(t, a) == {w \in Workers : t[w].op = "claiming" /\ t[w].agent = a}

LEMMA Countable ==
    ASSUME NEW t, NEW u, NEW a
    PROVE  /\ IsFiniteSet(ActiveJobs(t, a)) /\ Cardinality(ActiveJobs(t, a)) \in Nat
           /\ IsFiniteSet(Claiming(u, a)) /\ Cardinality(Claiming(u, a)) \in Nat
           /\ Cardinality(Claiming(u, a)) <= Cardinality(Workers)
           /\ Cardinality(Workers) \in Nat
  <1>1. ActiveJobs(t, a) \subseteq Jobs /\ Claiming(u, a) \subseteq Workers
    BY DEF ActiveJobs, Claiming
  <1>2. QED
    BY <1>1, FinitenessAssumption, FS_Subset, FS_CardinalityType

\* A step without a new lease gives no agent a job.
LEMMA NoNewLease ==
    ASSUME IInv, JobsStep,
           \A j \in Jobs : job'[j].attempts = job[j].attempts \/ job'[j].state \notin HeldStates
    PROVE  \A a \in Agents : ActiveJobs(job', a) \subseteq ActiveJobs(job, a)
  <1> SUFFICES ASSUME NEW a \in Agents, NEW j \in ActiveJobs(job', a)
               PROVE  j \in ActiveJobs(job, a)
    OBVIOUS
  <1>1. /\ j \in Jobs /\ job'[j].agent = a /\ job'[j].state \in HeldStates
        /\ job'[j].attempts = job[j].attempts
    BY DEF ActiveJobs
  <1>2. /\ job[j] \in JobRow /\ job'[j] \in JobRow /\ RowOK(job[j]) /\ RowOK(job'[j])
        /\ Advance(job[j], job'[j])
    BY <1>1 DEF IInv, TypeOK, RowsOK, JobsStep
  <1>3. job'[j].token # NoToken /\ job'[j].token = job[j].attempts
    BY <1>1, <1>2 DEF RowOK
  <1>4. job'[j].token # job[j].attempts + 1
    BY <1>2, <1>3 DEF JobRow
  <1>5. job'[j].token = job[j].token /\ job'[j].agent \in {job[j].agent, NoAgent}
    BY <1>2, <1>3, <1>4 DEF Advance
  <1>6. job[j].state \in HeldStates
    BY <1>2, <1>3, <1>5 DEF RowOK
  <1>7. QED
    BY <1>1, <1>5, <1>6 DEF ActiveJobs

\* The handlers write attempts as they loaded it, so not at all.
LEMMA CommitLeavesAttempts ==
    ASSUME NEW r, NEW new, CommitRows(r, new),
           \A j \in r.loaded : new[j].attempts = r.rows[j].attempts
    PROVE  \A j \in Jobs : job'[j].attempts = job[j].attempts
BY DEF CommitRows, Flush, Written

LEMMA HandlersLeaveAttempts ==
    ASSUME NEW x \in JobRow
    PROVE  /\ \A n : Streamed(x, n).attempts = x.attempts
           /\ \A s : Finished(x, s).attempts = x.attempts
           /\ \A requeue : FailedBy(x, requeue).attempts = x.attempts
           /\ Reaped(x).attempts = x.attempts
BY DEF JobRow, Streamed, Finished, FailedBy, Requeued, Reaped

\* The steps that are no claim.
LEMMA OthersLeaveAttempts ==
    ASSUME IInv, NEW w \in Workers,
           \/ \E n \in 1 .. 2 : EventsCommit(w, n)
           \/ ExtendCommit(w)
           \/ \E s \in {"succeeded", "failed"}, imported \in BOOLEAN : ResultCommit(w, s, imported)
           \/ \E requeue \in BOOLEAN : FailCommit(w, requeue)
           \/ HeartbeatCommit(w) \/ QueueCommit(w) \/ CancelCommit(w) \/ ReapCommit(w)
           \/ SwitchOffCommit(w) \/ SetStatusCommit(w) \/ DeleteCommit(w)
    PROVE  \A j \in Jobs : job'[j].attempts = job[j].attempts \/ job'[j].state \notin HeldStates
  <1>1. /\ job \in [Jobs -> JobRow] /\ worker[w].loaded \subseteq Jobs
        /\ \A j \in worker[w].loaded : worker[w].rows[j] \in JobRow
    BY DEF IInv, TypeOK, Request
  <1>2. ASSUME NEW n \in 1 .. 2, EventsCommit(w, n) PROVE \A j \in Jobs : job'[j].attempts = job[j].attempts
    <2> DEFINE new == [j \in Jobs |-> Streamed(worker[w].rows[j], n)]
    <2>1. CommitRows(worker[w], new) /\ \A j \in worker[w].loaded : new[j].attempts = worker[w].rows[j].attempts
      BY <1>1, <1>2, HandlersLeaveAttempts DEF EventsCommit
    <2> QED BY <2>1, CommitLeavesAttempts
  <1>3. ASSUME NEW s, NEW imported, ResultCommit(w, s, imported)
        PROVE \A j \in Jobs : job'[j].attempts = job[j].attempts
    <2> DEFINE new == [j \in Jobs |-> Finished(worker[w].rows[j], s)]
    <2>1. CommitRows(worker[w], new) /\ \A j \in worker[w].loaded : new[j].attempts = worker[w].rows[j].attempts
      BY <1>1, <1>3, HandlersLeaveAttempts DEF ResultCommit
    <2> QED BY <2>1, CommitLeavesAttempts
  <1>4. ASSUME NEW requeue, FailCommit(w, requeue) PROVE \A j \in Jobs : job'[j].attempts = job[j].attempts
    <2> DEFINE new == [j \in Jobs |-> FailedBy(worker[w].rows[j], requeue)]
    <2>1. CommitRows(worker[w], new) /\ \A j \in worker[w].loaded : new[j].attempts = worker[w].rows[j].attempts
      BY <1>1, <1>4, HandlersLeaveAttempts DEF FailCommit
    <2> QED BY <2>1, CommitLeavesAttempts
  <1>5. ASSUME CancelCommit(w) \/ SwitchOffCommit(w) PROVE \A j \in Jobs : job'[j].attempts = job[j].attempts
    <2> DEFINE new == [j \in Jobs |-> Finished(worker[w].rows[j], "cancelled")]
    <2>1. CommitRows(worker[w], new) /\ \A j \in worker[w].loaded : new[j].attempts = worker[w].rows[j].attempts
      BY <1>1, <1>5, HandlersLeaveAttempts DEF CancelCommit, SwitchOffCommit
    <2> QED BY <2>1, CommitLeavesAttempts
  <1>6. ASSUME ReapCommit(w) PROVE \A j \in Jobs : job'[j].attempts = job[j].attempts
    <2> DEFINE new == [j \in Jobs |-> Reaped(worker[w].rows[j])]
    <2>1. CommitRows(worker[w], new) /\ \A j \in worker[w].loaded : new[j].attempts = worker[w].rows[j].attempts
      BY <1>1, <1>6, HandlersLeaveAttempts DEF ReapCommit
    <2> QED BY <2>1, CommitLeavesAttempts
  <1>7. ASSUME ExtendCommit(w) \/ DeleteCommit(w) PROVE \A j \in Jobs : job'[j].attempts = job[j].attempts
    <2> TAKE j \in Jobs
    <2>1. job[j] \in JobRow
      BY <1>1
    <2>2. CASE ExtendCommit(w)
      <3>1. job'[j] = [job[j] EXCEPT !.lease = "live"] \/ job'[j] = job[j]
        BY <2>2 DEF ExtendCommit
      <3> QED BY <2>1, <3>1 DEF JobRow
    <2>3. CASE DeleteCommit(w)
      <3>1. \E x, y : job'[j] = [job[j] EXCEPT !.agent = x, !.pinned = y]
        BY <2>3 DEF DeleteCommit
      <3> QED BY <2>1, <3>1 DEF JobRow
    <2> QED BY <1>7, <2>2, <2>3
  <1>8. ASSUME HeartbeatCommit(w) \/ SetStatusCommit(w) PROVE \A j \in Jobs : job'[j].attempts = job[j].attempts
    BY <1>8 DEF HeartbeatCommit, SetStatusCommit, jobVars
  <1>9. ASSUME QueueCommit(w), NEW j \in Jobs
        PROVE  job'[j].attempts = job[j].attempts \/ job'[j].state \notin HeldStates
    <2>1. CASE j \in worker[w].loaded
      <3>1. job'[j] = QueuedFor(worker[w].agent)
        BY <1>1, <1>9, <2>1 DEF QueueCommit, IInv, RequestsOK, RequestOK, InsertOK
      <3> QED BY <3>1 DEF QueuedFor, Absent, HeldStates
    <2>2. CASE j \notin worker[w].loaded
      BY <1>9, <2>2 DEF QueueCommit
    <2> QED BY <2>1, <2>2
  <1> QED BY <1>2, <1>3, <1>4, <1>5, <1>6, <1>7, <1>8, <1>9

\* A step that neither leases a job nor lets a claim past the check adds to nothing.
Shrinks == \A a \in Agents : /\ ActiveJobs(job', a) \subseteq ActiveJobs(job, a)
                             /\ Claiming(worker', a) \subseteq Claiming(worker, a)

LEMMA FewerClaiming ==
    ASSUME IInv, NEW w \in Workers,
           \/ UNCHANGED worker
           \/ \E r \in Request : worker' = [worker EXCEPT ![w] = r] /\ r.op # "claiming"
    PROVE  \A a \in Agents : Claiming(worker', a) \subseteq Claiming(worker, a)
BY DEF IInv, TypeOK, Claiming

LEMMA StepsShrink ==
    ASSUME IInv, [Next]_vars,
           ~ \E w \in Workers : ClaimCheck(w) \/ \E j \in Jobs, d \in BOOLEAN : ClaimCommit(w, j, d)
    PROVE  Shrinks
  <1>1. JobsStep
    BY ImportStep
  <1>2. CASE UNCHANGED vars
    BY <1>2 DEF Shrinks, vars, ActiveJobs, Claiming
  <1>3. ASSUME NEW w \in Workers, Commit(w) PROVE Shrinks
    <2>1. \A j \in Jobs : job'[j].attempts = job[j].attempts \/ job'[j].state \notin HeldStates
      BY <1>3, OthersLeaveAttempts DEF Commit
    <2>2. worker' = [worker EXCEPT ![w] = Idle] /\ Idle \in Request /\ Idle.op # "claiming"
      BY <1>3, IdleType DEF Commit, Done, Idle, EventsCommit, ExtendCommit, ResultCommit,
         FailCommit, HeartbeatCommit, QueueCommit, CancelCommit, ReapCommit, SwitchOffCommit,
         SetStatusCommit, DeleteCommit
    <2> QED BY <1>1, <2>1, <2>2, NoNewLease, FewerClaiming DEF Shrinks
  <1>4. ASSUME UNCHANGED job, NEW w \in Workers,
               \/ UNCHANGED worker
               \/ \E r \in Request : worker' = [worker EXCEPT ![w] = r] /\ r.op # "claiming"
        PROVE  Shrinks
    <2>1. \A a \in Agents : Claiming(worker', a) \subseteq Claiming(worker, a)
      BY <1>4, FewerClaiming
    <2> QED BY <1>4, <2>1 DEF Shrinks, ActiveJobs
  <1>5. ASSUME NEW w \in Workers, Arrive(w) PROVE Shrinks
    <2>1. UNCHANGED job /\ worker' = [worker EXCEPT ![w] = worker'[w]]
      BY <1>5 DEF Arrive, ClaimBegin, HeartbeatBegin, JobRequestBegin, SetStatusBegin, IInv, TypeOK,
         DeleteBegin, QueueBegin, CancelBegin, ReapBegin, SwitchOffBegin, Begin, jobVars
    <2>2. worker'[w].op # "claiming"
      <3>1. Idle.op = "idle" /\ worker \in [Workers -> Request]
        BY DEF Idle, IInv, TypeOK
      <3>2. ASSUME NEW r, Begin(w, r), r.op # "claiming" PROVE worker'[w].op # "claiming"
        BY <3>1, <3>2 DEF Begin
      <3>3. ASSUME NEW a \in Agents, ClaimBegin(w, a) PROVE worker'[w].op # "claiming"
        BY <3>2, <3>3 DEF ClaimBegin, Idle
      <3>4. ASSUME NEW a \in Agents, HeartbeatBegin(w, a) PROVE worker'[w].op # "claiming"
        BY <3>2, <3>4 DEF HeartbeatBegin, Idle
      <3>5. ASSUME NEW a \in Agents, NEW op \in AgentOps, NEW j \in Jobs, NEW t, JobRequestBegin(w, a, op, j, t)
            PROVE worker'[w].op # "claiming"
        BY <3>2, <3>5 DEF JobRequestBegin, Loading, Idle, AgentOps
      <3>6. ASSUME NEW a \in Agents, NEW s, SetStatusBegin(w, a, s) PROVE worker'[w].op # "claiming"
        BY <3>2, <3>6 DEF SetStatusBegin, Idle
      <3>7. ASSUME NEW a \in Agents, DeleteBegin(w, a) PROVE worker'[w].op # "claiming"
        BY <3>2, <3>7 DEF DeleteBegin, Idle
      <3>8. ASSUME NEW j \in Jobs, NEW p, QueueBegin(w, j, p) PROVE worker'[w].op # "claiming"
        BY <3>2, <3>8 DEF QueueBegin, Idle
      <3>9. ASSUME NEW j \in Jobs, CancelBegin(w, j) PROVE worker'[w].op # "claiming"
        BY <3>2, <3>9 DEF CancelBegin, Loading, Idle
      <3>10. ASSUME NEW stale, ReapBegin(w, stale) PROVE worker'[w].op # "claiming"
        BY <3>2, <3>10 DEF ReapBegin, Loading, Idle
      <3>11. ASSUME NEW c, SwitchOffBegin(w, c) PROVE worker'[w].op # "claiming"
        BY <3>2, <3>11 DEF SwitchOffBegin, Loading, Idle
      <3> QED BY <1>5, <3>3, <3>4, <3>5, <3>6, <3>7, <3>8, <3>9, <3>10, <3>11 DEF Arrive
    <2>3. worker'[w] \in Request
      BY ImportStep DEF IInv, TypeOK
    <2> QED BY <1>4, <2>1, <2>2, <2>3
  <1>6. ASSUME NEW w \in Workers, Abandon(w) PROVE Shrinks
    <2>1. worker' = [worker EXCEPT ![w] = Idle] /\ Idle \in Request /\ Idle.op # "claiming"
      BY <1>6, IdleType DEF Abandon, Done, Idle
    <2> QED BY <1>4, <1>6, <2>1 DEF Abandon, jobVars
  <1>7. ASSUME NEW a \in Agents, Forget(a) PROVE Shrinks
    BY <1>7 DEF Forget, Shrinks, jobVars, ActiveJobs, Claiming
  <1>8. ASSUME SwitchOn PROVE Shrinks
    BY <1>8 DEF SwitchOn, Shrinks, jobVars, ActiveJobs, Claiming
  <1>9. ASSUME NEW j \in Jobs, Lapse(j) PROVE Shrinks
    <2>1. ASSUME NEW i \in Jobs PROVE job'[i].agent = job[i].agent /\ job'[i].state = job[i].state
      <3>1. job[i] \in JobRow /\ job \in [Jobs -> JobRow]
        BY DEF IInv, TypeOK
      <3>2. job'[i] = [job[i] EXCEPT !.lease = "lapsed"] \/ job'[i] = job[i]
        BY <1>9, <3>1 DEF Lapse
      <3> QED BY <3>1, <3>2 DEF JobRow
    <2> QED BY <1>9, <2>1 DEF Lapse, Shrinks, ActiveJobs, Claiming
  <1> QED BY <1>2, <1>3, <1>5, <1>6, <1>7, <1>8, <1>9 DEF Next

\* With OvershootBounded before it, a step that adds to nothing keeps it.
Sum(t, u, a) == Cardinality(ActiveJobs(t, a)) + Cardinality(Claiming(u, a))

LEMMA OvershootBySum ==
    OvershootBounded <=> \A a \in Agents : Sum(job, worker, a) < MaxConcurrency + Cardinality(Workers)
BY DEF OvershootBounded, Sum, Claiming

LEMMA ShrinkKeepsSum ==
    ASSUME NEW t, NEW u, NEW t1, NEW u1, NEW a,
           ActiveJobs(t1, a) \subseteq ActiveJobs(t, a), Claiming(u1, a) \subseteq Claiming(u, a)
    PROVE  Sum(t1, u1, a) <= Sum(t, u, a)
  <1>1. /\ Cardinality(ActiveJobs(t1, a)) <= Cardinality(ActiveJobs(t, a))
        /\ Cardinality(Claiming(u1, a)) <= Cardinality(Claiming(u, a))
    BY Countable, FS_Subset
  <1>2. /\ Cardinality(ActiveJobs(t, a)) \in Nat /\ Cardinality(ActiveJobs(t1, a)) \in Nat
        /\ Cardinality(Claiming(u, a)) \in Nat /\ Cardinality(Claiming(u1, a)) \in Nat
    BY Countable
  <1> QED BY <1>1, <1>2 DEF Sum

\* The check is made while the limit is not reached; at most every thread claims.
LEMMA CheckedClaimFits ==
    ASSUME IInv, OvershootBounded, NEW w \in Workers, ClaimCheck(w), NEW a \in Agents
    PROVE  Sum(job', worker', a) < MaxConcurrency + Cardinality(Workers)
  <1>1. UNCHANGED job /\ worker' = [worker EXCEPT ![w].op = "claiming"] /\ worker \in [Workers -> Request]
    BY DEF ClaimCheck, jobVars, IInv, TypeOK
  <1>2. CASE a = worker[w].agent
    <2>1. Cardinality(ActiveJobs(job', a)) < MaxConcurrency
      BY <1>1, <1>2 DEF ClaimCheck
    <2>2. /\ Cardinality(ActiveJobs(job', a)) \in Nat /\ Cardinality(Claiming(worker', a)) \in Nat
          /\ Cardinality(Claiming(worker', a)) <= Cardinality(Workers) /\ Cardinality(Workers) \in Nat
      BY Countable
    <2> QED BY <2>1, <2>2 DEF Sum
  <1>3. CASE a # worker[w].agent
    <2>1. worker'[w].agent = worker[w].agent /\ \A v \in Workers \ {w} : worker'[v] = worker[v]
      BY <1>1 DEF Request
    <2>2. Claiming(worker', a) \subseteq Claiming(worker, a)
      BY <1>3, <2>1 DEF Claiming
    <2>3. Sum(job', worker', a) <= Sum(job, worker, a)
      BY <1>1, <2>2, ShrinkKeepsSum
    <2>4. Sum(job', worker', a) \in Nat /\ Sum(job, worker, a) \in Nat /\ Cardinality(Workers) \in Nat
      BY Countable DEF Sum
    <2> QED BY <2>3, <2>4, OvershootBySum
  <1> QED BY <1>2, <1>3

\* A claim turns into the job it leased.
LEMMA LeaseReplacesClaim ==
    ASSUME IInv, OvershootBounded, NEW w \in Workers, NEW j \in Jobs, NEW d \in BOOLEAN,
           ClaimCommit(w, j, d), NEW a \in Agents
    PROVE  Sum(job', worker', a) < MaxConcurrency + Cardinality(Workers)
  <1> DEFINE b == worker[w].agent
  <1>1. /\ job' = [job EXCEPT ![j] = Leased(job[j], b)] /\ job \in [Jobs -> JobRow]
        /\ worker' = [worker EXCEPT ![w] = Idle] /\ worker \in [Workers -> Request]
        /\ worker[w].op = "claiming"
    BY DEF ClaimCommit, Done, IInv, TypeOK
  <1>2. job'[j].agent = b
    BY <1>1 DEF Leased, JobRow
  <1>3. Claiming(worker', a) = Claiming(worker, a) \ {w}
    BY <1>1 DEF Claiming, Idle
  <1>4. /\ Sum(job, worker, a) < MaxConcurrency + Cardinality(Workers)
        /\ Sum(job, worker, a) \in Nat /\ Sum(job', worker', a) \in Nat /\ Cardinality(Workers) \in Nat
    BY OvershootBySum, Countable DEF Sum
  <1>5. CASE a # b
    <2>1. ActiveJobs(job', a) \subseteq ActiveJobs(job, a)
      BY <1>1, <1>2, <1>5 DEF ActiveJobs
    <2>2. Sum(job', worker', a) <= Sum(job, worker, a)
      BY <1>3, <2>1, ShrinkKeepsSum
    <2> QED BY <1>4, <2>2
  <1>6. CASE a = b
    <2>1. w \in Claiming(worker, a)
      BY <1>1, <1>6 DEF Claiming
    <2>2. Cardinality(Claiming(worker', a)) = Cardinality(Claiming(worker, a)) - 1
      BY <1>3, <2>1, Countable, FS_RemoveElement
    <2>3. ActiveJobs(job', a) \subseteq ActiveJobs(job, a) \cup {j}
      BY <1>1 DEF ActiveJobs
    <2>4. Cardinality(ActiveJobs(job', a)) <= Cardinality(ActiveJobs(job, a)) + 1
      <3>1. IsFiniteSet(ActiveJobs(job, a) \cup {j})
            /\ Cardinality(ActiveJobs(job, a) \cup {j}) \in Nat
            /\ Cardinality(ActiveJobs(job, a) \cup {j}) <= Cardinality(ActiveJobs(job, a)) + 1
        <4>1. IsFiniteSet(ActiveJobs(job, a)) /\ Cardinality(ActiveJobs(job, a)) \in Nat
          BY Countable
        <4>2. /\ IsFiniteSet(ActiveJobs(job, a) \cup {j})
              /\ \/ Cardinality(ActiveJobs(job, a) \cup {j}) = Cardinality(ActiveJobs(job, a))
                 \/ Cardinality(ActiveJobs(job, a) \cup {j}) = Cardinality(ActiveJobs(job, a)) + 1
          BY <4>1, FS_AddElement
        <4> QED BY <4>1, <4>2
      <3>2. Cardinality(ActiveJobs(job', a)) <= Cardinality(ActiveJobs(job, a) \cup {j})
        BY <2>3, <3>1, FS_Subset
      <3> QED BY <3>1, <3>2, Countable
    <2>5. /\ Cardinality(ActiveJobs(job, a)) \in Nat /\ Cardinality(ActiveJobs(job', a)) \in Nat
          /\ Cardinality(Claiming(worker, a)) \in Nat /\ Cardinality(Claiming(worker', a)) \in Nat
      BY Countable
    <2>6. Sum(job', worker', a) <= Sum(job, worker, a)
      BY <2>2, <2>4, <2>5 DEF Sum
    <2> QED BY <1>4, <2>6
  <1> QED BY <1>5, <1>6

\* However the claims of an agent interleave, it is never given more jobs than the
\* limit and one for every other thread that serves a claim.
THEOREM OvershootCorrect == Spec => []OvershootBounded
  <1>1. Init => OvershootBounded
    <2> SUFFICES ASSUME Init, NEW a \in Agents PROVE Sum(job, worker, a) < MaxConcurrency + Cardinality(Workers)
      BY OvershootBySum
    <2>1. ActiveJobs(job, a) = {} /\ Claiming(worker, a) = {}
      BY DEF Init, ActiveJobs, Claiming, Absent, HeldStates, Idle
    <2>2. Cardinality({}) = 0 /\ Cardinality(Workers) \in Nat
      BY FS_EmptySet, Countable
    <2> QED BY <2>1, <2>2 DEF Sum
  <1>2. IInv /\ OvershootBounded /\ [Next]_vars => OvershootBounded'
    <2> SUFFICES ASSUME IInv, OvershootBounded, [Next]_vars, NEW a \in Agents
                 PROVE  Sum(job', worker', a) < MaxConcurrency + Cardinality(Workers)
      BY DEF OvershootBounded, Sum, Claiming
    <2>1. CASE \E w \in Workers : ClaimCheck(w) \/ \E j \in Jobs, d \in BOOLEAN : ClaimCommit(w, j, d)
      BY <2>1, CheckedClaimFits, LeaseReplacesClaim
    <2>2. CASE ~ \E w \in Workers : ClaimCheck(w) \/ \E j \in Jobs, d \in BOOLEAN : ClaimCommit(w, j, d)
      <3>1. Shrinks
        BY <2>2, StepsShrink
      <3>2. Sum(job', worker', a) <= Sum(job, worker, a)
        BY <3>1, ShrinkKeepsSum DEF Shrinks
      <3>3. /\ Sum(job, worker, a) < MaxConcurrency + Cardinality(Workers)
            /\ Sum(job, worker, a) \in Nat /\ Sum(job', worker', a) \in Nat /\ Cardinality(Workers) \in Nat
        BY OvershootBySum, Countable DEF Sum
      <3> QED BY <3>2, <3>3
    <2> QED BY <2>1, <2>2
  <1> QED BY Invariant, <1>1, <1>2, PTL DEF Spec

-----------------------------------------------------------------------------
(* The switch.  A request that turns scanning off loaded only queued jobs, and *)
(* its log entries go in only if they still are.                               *)

SwitchesQueued ==
    \A w \in Workers : worker[w].op = "switchOff" =>
        \A j \in worker[w].loaded : worker[w].rows[j].state = "queued"

LEMMA ArrivalsBegin ==
    ASSUME NEW w \in Workers, Arrive(w) PROVE \E r : Begin(w, r)
  <1>1. \A a \in Agents : ClaimBegin(w, a) => \E r : Begin(w, r)
    BY DEF ClaimBegin
  <1>2. \A a \in Agents : HeartbeatBegin(w, a) => \E r : Begin(w, r)
    BY DEF HeartbeatBegin
  <1>3. \A a, op, j, t : JobRequestBegin(w, a, op, j, t) => \E r : Begin(w, r)
    BY DEF JobRequestBegin
  <1>4. \A a, s : SetStatusBegin(w, a, s) => \E r : Begin(w, r)
    BY DEF SetStatusBegin
  <1>5. \A a \in Agents : DeleteBegin(w, a) => \E r : Begin(w, r)
    BY DEF DeleteBegin
  <1>6. \A j, p : QueueBegin(w, j, p) => \E r : Begin(w, r)
    BY DEF QueueBegin
  <1>7. \A j \in Jobs : CancelBegin(w, j) => \E r : Begin(w, r)
    BY DEF CancelBegin
  <1>8. \A stale : ReapBegin(w, stale) => \E r : Begin(w, r)
    BY DEF ReapBegin
  <1>9. \A c : SwitchOffBegin(w, c) => \E r : Begin(w, r)
    BY DEF SwitchOffBegin
  <1> QED BY <1>1, <1>2, <1>3, <1>4, <1>5, <1>6, <1>7, <1>8, <1>9 DEF Arrive

LEMMA SwitchesQueuedStep ==
    ASSUME IInv, SwitchesQueued, [Next]_vars
    PROVE  SwitchesQueued'
  <1> SUFFICES ASSUME NEW v \in Workers, worker'[v].op = "switchOff", NEW i \in worker'[v].loaded
               PROVE  worker'[v].rows[i].state = "queued"
    BY DEF SwitchesQueued
  <1>1. worker \in [Workers -> Request] /\ job \in [Jobs -> JobRow]
    BY DEF IInv, TypeOK
  <1>2. CASE worker'[v] = worker[v]
    BY <1>2 DEF SwitchesQueued
  <1>3. ASSUME NEW w \in Workers, NEW r, Begin(w, r), r.op # "switchOff"
        PROVE  worker'[v] = worker[v]
    BY <1>1, <1>3 DEF Begin
  <1>4. ASSUME NEW w \in Workers, Done(w) PROVE worker'[v] = worker[v]
    BY <1>1, <1>4 DEF Done, Idle
  <1>5. ASSUME NEW w \in Workers, Arrive(w) PROVE worker'[v].rows[i].state = "queued"
    <2>1. ASSUME NEW c \in BOOLEAN, SwitchOffBegin(w, c) PROVE worker'[v].rows[i].state = "queued"
      <3> DEFINE S == {j \in Jobs : c /\ job[j].state = "queued"}
                 r == Loading([Idle EXCEPT !.op = "switchOff"], S)
      <3>1. worker' = [worker EXCEPT ![w] = r]
        BY <2>1 DEF SwitchOffBegin, Begin
      <3>2. r.loaded = S /\ r.rows = [j \in Jobs |-> IF j \in S THEN job[j] ELSE Absent]
        BY DEF Loading, Idle
      <3>3. \A j \in S : j \in Jobs /\ job[j].state = "queued"
        OBVIOUS
      <3> HIDE DEF S, r
      <3>4. CASE v = w
        BY <1>1, <3>1, <3>2, <3>3, <3>4
      <3>5. CASE v # w
        BY <1>1, <1>2, <3>1, <3>5
      <3> QED BY <3>4, <3>5
    <2>2. ASSUME NEW a \in Agents, ClaimBegin(w, a) PROVE worker'[v] = worker[v]
      BY <1>3, <2>2 DEF ClaimBegin, Idle
    <2>3. ASSUME NEW a \in Agents, HeartbeatBegin(w, a) PROVE worker'[v] = worker[v]
      BY <1>3, <2>3 DEF HeartbeatBegin, Idle
    <2>4. ASSUME NEW a \in Agents, NEW op \in AgentOps, NEW j \in Jobs, NEW t, JobRequestBegin(w, a, op, j, t)
          PROVE  worker'[v] = worker[v]
      BY <1>3, <2>4 DEF JobRequestBegin, Loading, Idle, AgentOps
    <2>5. ASSUME NEW a \in Agents, NEW s, SetStatusBegin(w, a, s) PROVE worker'[v] = worker[v]
      BY <1>3, <2>5 DEF SetStatusBegin, Idle
    <2>6. ASSUME NEW a \in Agents, DeleteBegin(w, a) PROVE worker'[v] = worker[v]
      BY <1>3, <2>6 DEF DeleteBegin, Idle
    <2>7. ASSUME NEW j \in Jobs, NEW p, QueueBegin(w, j, p) PROVE worker'[v] = worker[v]
      BY <1>3, <2>7 DEF QueueBegin, Idle
    <2>8. ASSUME NEW j \in Jobs, CancelBegin(w, j) PROVE worker'[v] = worker[v]
      BY <1>3, <2>8 DEF CancelBegin, Loading, Idle
    <2>9. ASSUME NEW stale, ReapBegin(w, stale) PROVE worker'[v] = worker[v]
      BY <1>3, <2>9 DEF ReapBegin, Loading, Idle
    <2> QED BY <1>2, <1>5, <2>1, <2>2, <2>3, <2>4, <2>5, <2>6, <2>7, <2>8, <2>9 DEF Arrive
  <1>6. ASSUME NEW w \in Workers, Commit(w) \/ Abandon(w) PROVE worker'[v] = worker[v]
    <2>1. Done(w)
      BY <1>6 DEF Commit, Abandon, ClaimCommit, EventsCommit, ExtendCommit, ResultCommit,
         FailCommit, HeartbeatCommit, QueueCommit, CancelCommit, ReapCommit, SwitchOffCommit,
         SetStatusCommit, DeleteCommit
    <2> QED BY <1>4, <2>1
  <1>7. ASSUME NEW w \in Workers, ClaimCheck(w) PROVE worker'[v] = worker[v]
    BY <1>1, <1>7 DEF ClaimCheck, Request
  <1>8. CASE UNCHANGED worker
    BY <1>2, <1>8
  <1> QED BY <1>2, <1>5, <1>6, <1>7, <1>8 DEF Next, Forget, Lapse, SwitchOn, vars

\* Whatever was claimed while the queue was being cancelled stays with its agent.
THEOREM SwitchIsGentle == Spec => SwitchOffSparesRunning
  <1>1. Init => SwitchesQueued
    BY DEF Init, SwitchesQueued, Idle
  <1>2. ASSUME IInv, SwitchesQueued, [Next]_vars, scanning, ~scanning',
               NEW j \in Jobs, job[j].state \in HeldStates
        PROVE  job'[j].state = job[j].state
    <2>1. PICK w \in Workers : SwitchOffCommit(w)
      <3>1. \A w \in Workers : ~Arrive(w) /\ ~ClaimCheck(w) /\ ~Abandon(w)
        <4>1. ASSUME NEW w \in Workers, Arrive(w) PROVE FALSE
          BY <1>2, <4>1, ArrivalsBegin DEF Begin
        <4>2. ASSUME NEW w \in Workers, ClaimCheck(w) \/ Abandon(w) PROVE FALSE
          BY <1>2, <4>2 DEF ClaimCheck, Abandon
        <4> QED BY <4>1, <4>2
      <3>2. ~UNCHANGED vars /\ ~SwitchOn /\ (\A a \in Agents : ~Forget(a)) /\ \A i \in Jobs : ~Lapse(i)
        BY <1>2 DEF vars, SwitchOn, Forget, Lapse
      <3>3. PICK w \in Workers : Commit(w)
        BY <1>2, <3>1, <3>2 DEF Next
      <3> QED BY <1>2, <3>3 DEF Commit, ClaimCommit, EventsCommit, ExtendCommit, ResultCommit,
             FailCommit, HeartbeatCommit, QueueCommit, CancelCommit, ReapCommit, SetStatusCommit,
             DeleteCommit
    <2> DEFINE new == [i \in Jobs |-> Finished(worker[w].rows[i], "cancelled")]
    <2>2. worker[w].op = "switchOff" /\ CommitRows(worker[w], new)
      BY <2>1 DEF SwitchOffCommit
    <2>3. \A i \in worker[w].loaded : Handled(worker[w].rows[i], new[i])
      BY <1>2, RequestTypes DEF Handled, TerminalStates
    <2> HIDE DEF new
    <2>4. \A i \in worker[w].loaded : Same(worker[w].rows[i], job[i])
      BY <1>2, <2>2, <2>3, HandledCommit
    <2>5. j \notin worker[w].loaded
      BY <1>2, <2>2, <2>4 DEF SwitchesQueued, Same, HeldStates
    <2> QED BY <1>2, <2>2, <2>5 DEF CommitRows, IInv, TypeOK
  <1>3. IInv /\ SwitchesQueued /\ [Next]_vars => SwitchesQueued'
    BY SwitchesQueuedStep
  <1>4. IInv /\ SwitchesQueued /\ [Next]_vars
          => [\A j \in Jobs : job[j].state \in HeldStates /\ scanning /\ ~scanning'
                 => job'[j].state = job[j].state]_vars
    BY <1>2
  <1> QED BY Invariant, <1>1, <1>3, <1>4, PTL DEF Spec, SwitchOffSparesRunning

-----------------------------------------------------------------------------
(* The dispatcher implements JobLifecycle: Moves says which changes of a row   *)
(* the commits other than a claim and an insert make, and each of them is a    *)
(* step of the row's life or none.                                             *)

Moves(x, y) ==
    /\ y.attempts = x.attempts
    /\ \/ y.state = x.state
       \/ x.state \in HeldStates /\ y.state \in HeldStates \cup {"queued"}
       \/ x.state \in HeldStates \cup {"queued"} /\ y.state \in TerminalStates

LEMMA CommitsMove ==
    ASSUME IInv, NEW w \in Workers, NEW new,
           worker[w].op # "queue",
           \A j \in worker[w].loaded : Handled(worker[w].rows[j], new[j]),
           \A j \in worker[w].loaded : new[j].attempts = worker[w].rows[j].attempts,
           CommitRows(worker[w], new)
    PROVE  \A j \in Jobs : Moves(job[j], job'[j])
  <1> SUFFICES ASSUME NEW j \in Jobs PROVE Moves(job[j], job'[j])
    OBVIOUS
  <1>1. job'[j].attempts = job[j].attempts
    BY CommitLeavesAttempts
  <1>2. CASE j \notin worker[w].loaded
    BY <1>2 DEF CommitRows, IInv, TypeOK, Moves
  <1>3. CASE j \in worker[w].loaded
    <2> DEFINE x == worker[w].rows[j]
    <2>1. Same(x, job[j]) /\ job'[j].state = new[j].state
      BY <1>3, HandledCommit
    <2>2. x \in JobRow /\ Snapshot(x, job[j]) /\ Handled(x, new[j])
      BY <1>3, RequestTypes DEF RequestOK, SnapshotsOK
    <2>3. x.state \in HeldStates \cup {"queued"} /\ x.state = job[j].state
      BY <2>1, <2>2 DEF Snapshot, Same, JobRow, JobStates
    <2>4. \/ x.state \in HeldStates /\ new[j].state \in HeldStates \cup {"queued"}
          \/ new[j].state \in TerminalStates
      <3>1. CASE x.state \in HeldStates /\ (new[j] = Streamed(x, 1) \/ new[j] = Streamed(x, 2))
        BY <2>2, <3>1 DEF Streamed, JobRow, HeldStates
      <3>2. CASE \E s \in TerminalStates : new[j] = Finished(x, s)
        BY <2>2, <3>2 DEF Finished, JobRow
      <3>3. CASE x.state \in HeldStates /\ new[j] = Requeued(x)
        BY <2>2, <3>3 DEF Requeued, JobRow
      <3>4. CASE new[j] = [Finished(x, "expired") EXCEPT !.lease = "none"]
        BY <2>2, <3>4 DEF Finished, JobRow, TerminalStates
      <3> QED BY <2>2, <3>1, <3>2, <3>3, <3>4 DEF Handled
    <2> HIDE DEF x
    <2> QED BY <1>1, <2>1, <2>3, <2>4 DEF Moves
  <1> QED BY <1>2, <1>3

\* Every commit but a claim and an insert moves every row.
LEMMA OthersMove ==
    ASSUME IInv, NEW w \in Workers, Commit(w), ~QueueCommit(w),
           ~ \E j \in Jobs, d \in BOOLEAN : ClaimCommit(w, j, d)
    PROVE  \A j \in Jobs : Moves(job[j], job'[j])
  <1> DEFINE r == worker[w]
             All == \A j \in Jobs : Moves(job[j], job'[j])
  <1>1. /\ job \in [Jobs -> JobRow] /\ RequestOK(r, job)
        /\ \A j \in r.loaded : j \in Jobs /\ r.rows[j] \in JobRow
    BY RequestTypes DEF IInv, TypeOK
  <1>2. ASSUME r.op \in AgentOps, NEW j \in r.loaded PROVE r.rows[j].state \in HeldStates
    BY <1>1, <1>2 DEF RequestOK, VerifiedOK, SnapshotsOK, Snapshot, RowOK, AgentOps
  <1>3. ASSUME NEW n \in 1 .. 2, EventsCommit(w, n) PROVE All
    <2> DEFINE new == [j \in Jobs |-> Streamed(r.rows[j], n)]
    <2>1. r.op = "events" /\ CommitRows(r, new)
      BY <1>3 DEF EventsCommit
    <2>2. \A j \in r.loaded : Handled(r.rows[j], new[j]) /\ new[j].attempts = r.rows[j].attempts
      BY <1>1, <1>2, <2>1, HandlersLeaveAttempts DEF Handled, AgentOps
    <2> QED BY <2>1, <2>2, CommitsMove
  <1>4. ASSUME NEW s \in {"succeeded", "failed"}, NEW imported, ResultCommit(w, s, imported) PROVE All
    <2> DEFINE new == [j \in Jobs |-> Finished(r.rows[j], s)]
    <2>1. r.op = "result" /\ CommitRows(r, new)
      BY <1>4 DEF ResultCommit
    <2>2. \A j \in r.loaded : Handled(r.rows[j], new[j]) /\ new[j].attempts = r.rows[j].attempts
      BY <1>1, HandlersLeaveAttempts DEF Handled, TerminalStates
    <2> QED BY <2>1, <2>2, CommitsMove
  <1>5. ASSUME NEW requeue \in BOOLEAN, FailCommit(w, requeue) PROVE All
    <2> DEFINE new == [j \in Jobs |-> FailedBy(r.rows[j], requeue)]
    <2>1. r.op = "fail" /\ CommitRows(r, new)
      BY <1>5 DEF FailCommit
    <2>2. \A j \in r.loaded : Handled(r.rows[j], new[j])
      BY <1>1, <1>2, <2>1 DEF Handled, FailedBy, TerminalStates, AgentOps
    <2>3. \A j \in r.loaded : new[j].attempts = r.rows[j].attempts
      BY <1>1, HandlersLeaveAttempts
    <2> QED BY <2>1, <2>2, <2>3, CommitsMove
  <1>6. ASSUME CancelCommit(w) \/ SwitchOffCommit(w) PROVE All
    <2> DEFINE new == [j \in Jobs |-> Finished(r.rows[j], "cancelled")]
    <2>1. r.op \in {"cancel", "switchOff"} /\ CommitRows(r, new)
      BY <1>6 DEF CancelCommit, SwitchOffCommit
    <2>2. \A j \in r.loaded : Handled(r.rows[j], new[j]) /\ new[j].attempts = r.rows[j].attempts
      BY <1>1, HandlersLeaveAttempts DEF Handled, TerminalStates
    <2> QED BY <2>1, <2>2, CommitsMove
  <1>7. ASSUME ReapCommit(w) PROVE All
    <2> DEFINE new == [j \in Jobs |-> Reaped(r.rows[j])]
    <2>1. r.op = "reap" /\ CommitRows(r, new)
      BY <1>7 DEF ReapCommit
    <2>2. \A j \in r.loaded : Handled(r.rows[j], new[j])
      BY <1>1, <2>1 DEF Handled, Reaped, RequestOK, VerifiedOK
    <2>3. \A j \in r.loaded : new[j].attempts = r.rows[j].attempts
      BY <1>1, HandlersLeaveAttempts
    <2> QED BY <2>1, <2>2, <2>3, CommitsMove
  <1>8. ASSUME ExtendCommit(w) \/ DeleteCommit(w) PROVE All
    <2> SUFFICES ASSUME NEW j \in Jobs PROVE Moves(job[j], job'[j])
      OBVIOUS
    <2>1. job[j] \in JobRow
      BY <1>1
    <2>2. CASE ExtendCommit(w)
      <3>1. job'[j] = [job[j] EXCEPT !.lease = "live"] \/ job'[j] = job[j]
        BY <2>2 DEF ExtendCommit
      <3> QED BY <2>1, <3>1 DEF JobRow, Moves
    <2>3. CASE DeleteCommit(w)
      <3>1. \E x, y : job'[j] = [job[j] EXCEPT !.agent = x, !.pinned = y]
        BY <2>3 DEF DeleteCommit
      <3> QED BY <2>1, <3>1 DEF JobRow, Moves
    <2> QED BY <1>8, <2>2, <2>3
  <1>9. ASSUME HeartbeatCommit(w) \/ SetStatusCommit(w) PROVE All
    BY <1>9 DEF HeartbeatCommit, SetStatusCommit, jobVars, Moves
  <1> HIDE DEF All
  <1>10. All
    BY <1>3, <1>4, <1>5, <1>6, <1>7, <1>8, <1>9 DEF Commit
  <1> QED BY <1>10 DEF All

Life(x, n) ==
    [phase |-> PhaseOf(x), holder |-> IF x.state \in HeldStates THEN x.agent ELSE NoAgent,
     tries |-> x.attempts, imports |-> n]

LEMMA Phases ==
    ASSUME NEW x \in JobRow
    PROVE  /\ x.state = "absent" => PhaseOf(x) = "none"
           /\ x.state = "queued" => PhaseOf(x) = "waiting"
           /\ x.state \in HeldStates => PhaseOf(x) = "held"
           /\ x.state \in TerminalStates => PhaseOf(x) = "ended"
           /\ PhaseOf(x) \in {"none", "waiting", "held", "ended"}
BY DEF PhaseOf, JobRow, JobStates, HeldStates, TerminalStates

LEMMA LifeType ==
    ASSUME NEW x \in JobRow, NEW n \in 0 .. 1 PROVE Life(x, n) \in Lifecycle!Life
  <1>1. /\ PhaseOf(x) \in Lifecycle!Phases
        /\ (IF x.state \in HeldStates THEN x.agent ELSE NoAgent) \in Agents \cup {NoAgent}
        /\ x.attempts \in 0 .. MaxAttempts
    BY Phases DEF Lifecycle!Phases, JobRow
  <1> QED BY <1>1 DEF Life, Lifecycle!Life

\* A row that moves takes a step of its life or none.  Its output counts only
\* while it was held, and only by ending it.
LEMMA MovesAreLife ==
    ASSUME NEW x \in JobRow, NEW y \in JobRow, RowOK(x), RowOK(y), Advance(x, y), Moves(x, y),
           NEW m \in 0 .. 1, NEW n \in 0 .. 1,
           n # m => x.state \in HeldStates /\ y.state \in TerminalStates
    PROVE  Life(y, n) = Life(x, m) \/ Lifecycle!Step(Life(x, m), Life(y, n))
  <1>1. y.attempts = x.attempts
    BY DEF Moves
  <1>2. CASE x.state \in HeldStates /\ y.state \in HeldStates
    <2>1. y.agent \in {x.agent, NoAgent} /\ n = m /\ y.state \notin TerminalStates
      <3>1. y.token # NoToken /\ y.token = y.attempts /\ x.attempts \in Nat
        BY <1>2 DEF RowOK, JobRow
      <3>2. y.token # x.attempts + 1
        BY <1>1, <3>1
      <3>3. y.state \notin TerminalStates
        BY <1>2 DEF HeldStates, TerminalStates
      <3> QED BY <3>1, <3>2, <3>3 DEF Advance
    <2>2. CASE y.agent = x.agent
      BY <1>1, <1>2, <2>1, <2>2, Phases DEF Life
    <2>3. CASE y.agent = NoAgent
      <3>1. Life(y, n) = [Life(x, m) EXCEPT !.holder = NoAgent] /\ Life(x, m).phase = "held"
        BY <1>1, <1>2, <2>1, <2>3, Phases DEF Life
      <3> QED BY <3>1 DEF Lifecycle!Step, Lifecycle!Orphan
    <2> QED BY <2>1, <2>2, <2>3
  <1>3. CASE x.state \in HeldStates /\ y.state = "queued"
    <2>1. n = m /\ x.attempts < MaxAttempts /\ y.state \notin HeldStates
      BY <1>1, <1>3 DEF RowOK, HeldStates, TerminalStates
    <2>2. PhaseOf(y) = "waiting" /\ PhaseOf(x) = "held"
      BY <1>3, Phases
    <2>3. Life(y, n) = [phase |-> "waiting", holder |-> NoAgent, tries |-> x.attempts, imports |-> m]
      BY <1>1, <2>1, <2>2 DEF Life
    <2>4. Life(x, m) = [phase |-> "held", holder |-> x.agent, tries |-> x.attempts, imports |-> m]
      BY <1>3, <2>2 DEF Life
    <2>5. /\ Life(y, n) = [Life(x, m) EXCEPT !.phase = "waiting", !.holder = NoAgent]
          /\ Life(x, m).phase = "held" /\ Life(x, m).tries < MaxAttempts
      <3>1. [Life(x, m) EXCEPT !.phase = "waiting", !.holder = NoAgent]
               = [phase |-> "waiting", holder |-> NoAgent, tries |-> x.attempts, imports |-> m]
        <4> DEFINE v == Life(x, m)
        <4>1. v = [phase |-> "held", holder |-> x.agent, tries |-> x.attempts, imports |-> m]
          BY <2>4
        <4> HIDE DEF v
        <4>2. [v EXCEPT !.phase = "waiting", !.holder = NoAgent]
                 = [phase |-> "waiting", holder |-> NoAgent, tries |-> x.attempts, imports |-> m]
          <5> DEFINE one == [v EXCEPT !.phase = "waiting"]
                     two == [one EXCEPT !.holder = NoAgent]
          <5>1. one = [phase |-> "waiting", holder |-> x.agent, tries |-> x.attempts, imports |-> m]
            BY <4>1
          <5>2. [v EXCEPT !.phase = "waiting", !.holder = NoAgent] = two
            OBVIOUS
          <5> HIDE DEF one
          <5>3. two = [phase |-> "waiting", holder |-> NoAgent, tries |-> x.attempts, imports |-> m]
            BY <5>1
          <5> HIDE DEF two
          <5> QED BY <5>2, <5>3
        <4> QED BY <4>2 DEF v
      <3>2. Life(x, m).phase = "held" /\ Life(x, m).tries < MaxAttempts
        BY <2>1, <2>4
      <3> QED BY <2>3, <3>1, <3>2, Zenon
    <2> QED BY <2>5 DEF Lifecycle!Step, Lifecycle!Return
  <1>4. CASE x.state \in HeldStates /\ y.state \in TerminalStates
    <2>1. y.state \notin HeldStates
      BY <1>4 DEF HeldStates, TerminalStates
    <2>2. PhaseOf(y) = "ended" /\ PhaseOf(x) = "held"
      BY <1>4, Phases
    <2>3. Life(y, n) = [phase |-> "ended", holder |-> NoAgent, tries |-> x.attempts, imports |-> n]
      BY <1>1, <2>1, <2>2 DEF Life
    <2>4. Life(x, m) = [phase |-> "held", holder |-> x.agent, tries |-> x.attempts, imports |-> m]
      BY <1>4, <2>2 DEF Life
    <2>5. /\ Life(y, n) = [Life(x, m) EXCEPT !.phase = "ended", !.holder = NoAgent, !.imports = n]
          /\ Life(x, m).phase = "held"
      <3>1. [Life(x, m) EXCEPT !.phase = "ended", !.holder = NoAgent, !.imports = n]
               = [phase |-> "ended", holder |-> NoAgent, tries |-> x.attempts, imports |-> n]
        <4> DEFINE v == Life(x, m)
        <4>1. v = [phase |-> "held", holder |-> x.agent, tries |-> x.attempts, imports |-> m]
          BY <2>4
        <4> HIDE DEF v
        <4>2. [v EXCEPT !.phase = "ended", !.holder = NoAgent, !.imports = n]
                 = [phase |-> "ended", holder |-> NoAgent, tries |-> x.attempts, imports |-> n]
          <5> DEFINE one == [v EXCEPT !.phase = "ended"]
                     two == [one EXCEPT !.holder = NoAgent]
          <5>1. one = [phase |-> "ended", holder |-> x.agent, tries |-> x.attempts, imports |-> m]
            BY <4>1
          <5>2. [v EXCEPT !.phase = "ended", !.holder = NoAgent, !.imports = n] = [two EXCEPT !.imports = n]
            OBVIOUS
          <5> HIDE DEF one
          <5>3. two = [phase |-> "ended", holder |-> NoAgent, tries |-> x.attempts, imports |-> m]
            BY <5>1
          <5> HIDE DEF two
          <5> QED BY <5>2, <5>3
        <4> QED BY <4>2 DEF v
      <3>2. Life(x, m).phase = "held"
        BY <2>4
      <3> QED BY <2>3, <3>1, <3>2, Zenon
    <2> QED BY <2>5 DEF Lifecycle!Step, Lifecycle!Settle
  <1>5. CASE x.state = "queued" /\ y.state \in TerminalStates
    <2>1. n = m /\ x.state \notin HeldStates /\ y.state \notin HeldStates
      BY <1>5 DEF HeldStates, TerminalStates
    <2>2. /\ Life(y, n) = [Life(x, m) EXCEPT !.phase = "ended"]
          /\ Life(x, m).phase = "waiting"
      BY <1>1, <1>5, <2>1, Phases DEF Life
    <2> QED BY <2>2 DEF Lifecycle!Step, Lifecycle!Withdraw
  <1>6. CASE y.state = x.state /\ x.state \notin HeldStates
    <2>1. n = m /\ PhaseOf(y) = PhaseOf(x)
      BY <1>6 DEF PhaseOf
    <2> QED BY <1>1, <1>6, <2>1 DEF Life
  <1> QED BY <1>2, <1>3, <1>4, <1>5, <1>6 DEF Moves

\* What the abstract module says of the whole table.
Lives == [j \in Jobs |-> LifeOf(j)]

LEMMA LifeOfRow ==
    ASSUME NEW j \in Jobs
    PROVE  /\ LifeOf(j) = Life(job[j], Len(imports[j]))
           /\ LifeOf(j)' = Life(job'[j], Len(imports'[j]))
BY DEF LifeOf, Life, PhaseOf

LEMMA ImportCounts ==
    ASSUME NEW S, NEW s \in Seq(S), Len(s) <= 1 PROVE Len(s) \in 0 .. 1
  <1> DEFINE n == Len(s)
  <1>1. n \in Nat /\ n <= 1
    BY LenProperties
  <1> HIDE DEF n
  <1>2. n \in 0 .. 1
    BY <1>1
  <1> QED BY <1>2 DEF n

\* What a step does to one job's life, in the terms of the rows.
LEMMA LifeSteps ==
    ASSUME IInv, IInv', JobsStep, NEW j \in Jobs, Moves(job[j], job'[j]),
           \/ imports'[j] = imports[j]
           \/ job[j].token # NoToken /\ imports'[j] = Append(imports[j], job[j].token)
    PROVE  LifeOf(j)' = LifeOf(j) \/ Lifecycle!Step(LifeOf(j), LifeOf(j)')
  <1> DEFINE m == Len(imports[j])
             n == Len(imports'[j])
  <1>1. /\ LifeOf(j) = Life(job[j], m) /\ LifeOf(j)' = Life(job'[j], n)
        /\ m \in 0 .. 1 /\ n \in 0 .. 1
    <2>1. LifeOf(j) = Life(job[j], m) /\ LifeOf(j)' = Life(job'[j], n)
      BY LifeOfRow
    <2>2. /\ imports[j] \in Seq(1 .. MaxAttempts) /\ Len(imports[j]) <= 1
          /\ imports'[j] \in Seq(1 .. MaxAttempts) /\ Len(imports'[j]) <= 1
      BY DEF IInv, TypeOK, ImportedOnce
    <2> QED BY <2>1, <2>2, ImportCounts
  <1>2. /\ job[j] \in JobRow /\ job'[j] \in JobRow /\ RowOK(job[j]) /\ RowOK(job'[j])
        /\ Advance(job[j], job'[j])
    BY DEF IInv, TypeOK, RowsOK, JobsStep
  <1>3. ASSUME n # m PROVE job[j].state \in HeldStates /\ job'[j].state \in TerminalStates
    <2>1. imports'[j] = Append(imports[j], job[j].token) /\ job[j].token # NoToken
      BY <1>3
    <2>2. imports'[j] # <<>>
      <3>1. imports[j] \in Seq(1 .. MaxAttempts) /\ job[j].token \in 1 .. MaxAttempts
        BY <1>2, <2>1 DEF IInv, TypeOK, JobRow, NoToken
      <3> QED BY <2>1, <3>1, AppendProperties
    <2>3. job'[j].state \in TerminalStates
      BY <2>2 DEF IInv, ImportedOnce, TerminalStates
    <2> QED BY <1>2, <2>1, <2>3 DEF RowOK
  <1> HIDE DEF m, n
  <1> QED BY <1>1, <1>2, <1>3, MovesAreLife

\* A claim grants, an insert queues; the other jobs stay.
LEMMA ClaimGrants ==
    ASSUME IInv, IInv', NEW w \in Workers, NEW i \in Jobs, NEW d \in BOOLEAN, ClaimCommit(w, i, d), NEW j \in Jobs
    PROVE  LifeOf(j)' = LifeOf(j) \/ Lifecycle!Step(LifeOf(j), LifeOf(j)')
  <1>1. /\ job \in [Jobs -> JobRow] /\ job' = [job EXCEPT ![i] = Leased(job[i], worker[w].agent)]
        /\ imports' = imports /\ job[i].state = "queued"
    BY DEF ClaimCommit, IInv, TypeOK
  <1>2. CASE j # i
    BY <1>1, <1>2 DEF LifeOf, PhaseOf
  <1>3. CASE j = i
    <2> DEFINE a == worker[w].agent
               x == job[i]
               y == job'[i]
               n == Len(imports[i])
    <2>1. a \in Agents /\ x \in JobRow /\ RowOK(x)
      BY <1>1, RequestTypes DEF ClaimCommit, RequestOK, VerifiedOK, IInv, RowsOK
    <2>2. y.state = "leased" /\ y.agent = a /\ y.attempts = x.attempts + 1 /\ y \in JobRow
      BY <1>1, <2>1 DEF Leased, JobRow, IInv, TypeOK
    <2>3. x.attempts < MaxAttempts /\ x.state = "queued"
      BY <1>1, <2>1 DEF RowOK
    <2>4. LifeOf(i) = [phase |-> "waiting", holder |-> NoAgent, tries |-> x.attempts, imports |-> n]
      <3>1. PhaseOf(x) = "waiting" /\ x.state \notin HeldStates
        BY <2>1, <2>3, Phases DEF HeldStates
      <3> QED BY <3>1 DEF LifeOf
    <2>5. LifeOf(i)' = [phase |-> "held", holder |-> a, tries |-> x.attempts + 1, imports |-> n]
      <3>1. PhaseOf(y) = "held" /\ y.state \in HeldStates
        BY <2>2, Phases DEF HeldStates
      <3>2. LifeOf(i)' = [phase |-> PhaseOf(y), holder |-> IF y.state \in HeldStates THEN y.agent ELSE NoAgent,
                          tries |-> y.attempts, imports |-> n]
        BY <1>1 DEF LifeOf, PhaseOf
      <3> HIDE DEF y, x, a, n
      <3> QED BY <2>2, <3>1, <3>2
    <2> HIDE DEF x, y, a, n
    <2>6. /\ LifeOf(i)' = [LifeOf(i) EXCEPT !.phase = "held", !.holder = a, !.tries = LifeOf(i).tries + 1]
          /\ LifeOf(i).phase = "waiting" /\ LifeOf(i).tries < MaxAttempts
      <3>1. LifeOf(i).tries = x.attempts /\ LifeOf(i).phase = "waiting"
        BY <2>4
      <3>2. [LifeOf(i) EXCEPT !.phase = "held", !.holder = a, !.tries = x.attempts + 1]
               = [phase |-> "held", holder |-> a, tries |-> x.attempts + 1, imports |-> n]
        <4> DEFINE v == LifeOf(i)
        <4>1. v = [phase |-> "waiting", holder |-> NoAgent, tries |-> x.attempts, imports |-> n]
          BY <2>4
        <4> HIDE DEF v
        <4>2. [v EXCEPT !.phase = "held", !.holder = a, !.tries = x.attempts + 1]
                 = [phase |-> "held", holder |-> a, tries |-> x.attempts + 1, imports |-> n]
          <5> DEFINE one == [v EXCEPT !.phase = "held"]
                     two == [one EXCEPT !.holder = a]
          <5>1. one = [phase |-> "held", holder |-> NoAgent, tries |-> x.attempts, imports |-> n]
            BY <4>1
          <5>2. [v EXCEPT !.phase = "held", !.holder = a, !.tries = x.attempts + 1] = [two EXCEPT !.tries = x.attempts + 1]
            OBVIOUS
          <5> HIDE DEF one
          <5>3. two = [phase |-> "held", holder |-> a, tries |-> x.attempts, imports |-> n]
            BY <5>1
          <5> HIDE DEF two
          <5> QED BY <5>2, <5>3
        <4> QED BY <4>2 DEF v
      <3> QED BY <2>3, <2>5, <3>1, <3>2, Zenon
    <2> QED BY <1>3, <2>1, <2>6 DEF Lifecycle!Step, Lifecycle!Grant
  <1> QED BY <1>2, <1>3

LEMMA InsertQueues ==
    ASSUME IInv, IInv', NEW w \in Workers, QueueCommit(w), NEW j \in Jobs
    PROVE  LifeOf(j)' = LifeOf(j) \/ Lifecycle!Step(LifeOf(j), LifeOf(j)')
  <1>1. /\ job \in [Jobs -> JobRow] /\ imports' = imports /\ worker[w].op = "queue"
        /\ job' = [i \in Jobs |-> IF i \in worker[w].loaded THEN worker[w].rows[i] ELSE job[i]]
    BY DEF QueueCommit, IInv, TypeOK
  <1>2. CASE j \notin worker[w].loaded
    BY <1>1, <1>2 DEF LifeOf, PhaseOf
  <1>3. CASE j \in worker[w].loaded
    <2>1. /\ job[j].state = "absent" /\ job[j] = Absent
          /\ job'[j] = QueuedFor(worker[w].agent)
      BY <1>1, <1>3, RequestTypes DEF RequestOK, InsertOK, IInv, RowsOK, RowOK
    <2>2. imports[j] = <<>>
      BY <2>1 DEF IInv, ImportedOnce
    <2>3. LifeOf(j) = [phase |-> "none", holder |-> NoAgent, tries |-> 0, imports |-> 0]
      BY <2>1, <2>2 DEF LifeOf, PhaseOf, Absent, HeldStates
    <2>4. job'[j].state = "queued" /\ job'[j].attempts = 0
      BY <2>1 DEF QueuedFor, Absent
    <2>5. LifeOf(j)' = [phase |-> "waiting", holder |-> NoAgent, tries |-> 0, imports |-> 0]
      BY <1>1, <2>2, <2>4 DEF LifeOf, PhaseOf, HeldStates
    <2> QED BY <2>3, <2>5 DEF Lifecycle!Step, Lifecycle!Queue, Lifecycle!Unborn
  <1> QED BY <1>2, <1>3

\* Through all its races the dispatcher keeps the promises of JobLifecycle.
THEOREM ImplementsLifecycle == Spec => KeepsLifecycle
  <1>1. Init => Lifecycle!Init
    <2> SUFFICES ASSUME Init, NEW j \in Jobs PROVE LifeOf(j) = Lifecycle!Unborn
      BY DEF Lifecycle!Init
    <2> QED BY DEF Init, LifeOf, PhaseOf, Absent, HeldStates, Lifecycle!Unborn
  <1>2. ASSUME IInv, IInv', [Next]_vars PROVE [Lifecycle!Next]_Lives
    <2>1. Lives' \in [Jobs -> Lifecycle!Life]
      <3>1. ASSUME NEW j \in Jobs PROVE LifeOf(j)' \in Lifecycle!Life
        <4>1. /\ job'[j] \in JobRow
              /\ imports'[j] \in Seq(1 .. MaxAttempts) /\ Len(imports'[j]) <= 1
          BY <1>2 DEF IInv, TypeOK, ImportedOnce
        <4> QED BY <4>1, LifeOfRow, LifeType, ImportCounts
      <3> QED BY <3>1 DEF Lives
    <2> SUFFICES ASSUME NEW j \in Jobs
                 PROVE  LifeOf(j)' = LifeOf(j) \/ Lifecycle!Step(LifeOf(j), LifeOf(j)')
      BY <2>1 DEF Lifecycle!Next, Lives
    <2>2. /\ JobsStep
          /\ \/ imports'[j] = imports[j]
             \/ job[j].token # NoToken /\ imports'[j] = Append(imports[j], job[j].token)
      BY <1>2, ImportStep
    <2>3. CASE \E w \in Workers : QueueCommit(w) \/ \E i \in Jobs, d \in BOOLEAN : ClaimCommit(w, i, d)
      BY <1>2, <2>3, InsertQueues, ClaimGrants
    <2>4. ASSUME NEW w \in Workers, Commit(w), ~QueueCommit(w),
                 ~ \E i \in Jobs, d \in BOOLEAN : ClaimCommit(w, i, d)
          PROVE  Moves(job[j], job'[j])
      BY <1>2, <2>4, OthersMove
    <2>5. ASSUME UNCHANGED job PROVE Moves(job[j], job'[j])
      BY <2>5 DEF Moves
    <2>6. ASSUME NEW w \in Workers, Arrive(w) \/ ClaimCheck(w) \/ Abandon(w) PROVE UNCHANGED job
      BY <2>6, ArrivalsBegin DEF Begin, ClaimCheck, Abandon, jobVars
    <2>7. ASSUME NEW i \in Jobs, Lapse(i) PROVE Moves(job[j], job'[j])
      <3>1. job[j] \in JobRow /\ job \in [Jobs -> JobRow]
        BY <1>2 DEF IInv, TypeOK
      <3>2. job'[j] = [job[j] EXCEPT !.lease = "lapsed"] \/ job'[j] = job[j]
        BY <2>7, <3>1 DEF Lapse
      <3> QED BY <3>1, <3>2 DEF JobRow, Moves
    <2>8. Moves(job[j], job'[j])
          \/ \E w \in Workers : QueueCommit(w) \/ \E i \in Jobs, d \in BOOLEAN : ClaimCommit(w, i, d)
      BY <1>2, <2>4, <2>5, <2>6, <2>7 DEF Next, Forget, SwitchOn, vars, jobVars
    <2> QED BY <1>2, <2>2, <2>3, <2>8, LifeSteps
  <1>3. Lifecycle!Spec <=> Lifecycle!Init /\ [][Lifecycle!Next]_Lives
    BY DEF Lifecycle!Spec, Lives
  <1> QED BY Invariant, <1>1, <1>2, <1>3, PTL DEF Spec, KeepsLifecycle
=============================================================================
