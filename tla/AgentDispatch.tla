---------------------------- MODULE AgentDispatch ----------------------------
(***************************************************************************)
(* The dispatch of scan jobs to remote execution agents                    *)
(* (backend/veyrs/services/agents.py, scanning.py, api/v1/agents.py).      *)
(*                                                                         *)
(* All state lives in PostgreSQL (READ COMMITTED) and every request runs   *)
(* in one of several server threads with an ORM session of its own.  A     *)
(* request is therefore two steps here: it first loads the rows it will    *)
(* work on (worker[w].rows, worker[w].seen), and later commits the columns *)
(* that differ from what it loaded.  Anything may be committed by others   *)
(* in between.  No handler but claim_next locks a row; what orders the     *)
(* writers of one job is the constraint UNIQUE (organization_id, job_id,   *)
(* seq) on the job's event log, into which most of them insert.            *)
(*                                                                         *)
(* Time is a lease that lapses at any moment; the age of a heartbeat is a  *)
(* free choice of the reaper.  Whether an agent's tools and allowlist      *)
(* admit a job is a free choice of the claim.                              *)
(***************************************************************************)
EXTENDS Integers, FiniteSets, Sequences

CONSTANTS
    Agents,          \* rows of exec_agents
    Jobs,            \* rows of agent_jobs, existing or still to be queued
    Workers,         \* server threads
    NoAgent,         \* NULL in a column that references an agent
    MaxAttempts,     \* AgentJob.max_attempts
    MaxConcurrency,  \* ExecAgent.max_concurrency
    MaxStreamed,     \* bound: no output is streamed past this sequence number
    Kinds            \* bound: the kinds of request that arrive

ASSUME NoAgentAssumption == NoAgent \notin Agents
ASSUME MaxAttemptsAssumption == MaxAttempts \in Nat \ {0}
ASSUME MaxConcurrencyAssumption == MaxConcurrency \in Nat \ {0}
ASSUME MaxStreamedAssumption == MaxStreamed \in Nat
ASSUME FinitenessAssumption == IsFiniteSet(Jobs) /\ IsFiniteSet(Workers)

VARIABLES
    job,       \* committed job rows
    events,    \* sequence numbers present in each job's event log
    imports,   \* the lease token of each import of the job's output, in order
    agent,     \* committed agent rows
    scanning,  \* the tenant's active-scanning switch
    worker,    \* the request each server thread is executing
    held       \* <<job, lease token>> pairs each agent process remembers

vars == <<job, events, imports, agent, scanning, worker, held>>
jobVars == <<job, events, imports>>

-----------------------------------------------------------------------------
(* Rows *)

HeldStates == {"leased", "running"}
TerminalStates == {"succeeded", "failed", "cancelled", "expired"}
JobStates == {"absent", "queued"} \cup HeldStates \cup TerminalStates
OperatorStatuses == {"pending", "idle", "busy", "offline", "disabled"}
Statuses == OperatorStatuses \cup {"deleted"}

\* A lease token is a fresh random string per lease; leases of a job are
\* numbered by attempts, so the number of the lease stands for its token.
NoToken == 0

JobRow == [state : JobStates, agent : Agents \cup {NoAgent},
           pinned : Agents \cup {NoAgent}, token : 0 .. MaxAttempts,
           lease : {"none", "live", "lapsed"}, attempts : 0 .. MaxAttempts,
           seq : Nat]

AgentRow == [status : Statuses, disabledAt : BOOLEAN]

Absent == [state |-> "absent", agent |-> NoAgent, pinned |-> NoAgent,
           token |-> NoToken, lease |-> "none", attempts |-> 0, seq |-> 0]

QueuedFor(p) == [Absent EXCEPT !.state = "queued", !.agent = p, !.pinned = p]

NoRow == [status |-> "deleted", disabledAt |-> FALSE]

AgentOps == {"events", "extend", "result", "fail"}
Ops == {"idle", "claim", "claiming", "heartbeat", "queue", "cancel", "reap",
        "switchOff", "switchOn", "setStatus", "delete"} \cup AgentOps

Request == [op : Ops, agent : Agents \cup {NoAgent}, seen : AgentRow,
            loaded : SUBSET Jobs, rows : [Jobs -> JobRow],
            token : 0 .. MaxAttempts, stale : SUBSET Agents, next : Statuses]

Idle == [op |-> "idle", agent |-> NoAgent, seen |-> NoRow, loaded |-> {},
         rows |-> [j \in Jobs |-> Absent], token |-> NoToken, stale |-> {},
         next |-> "deleted"]

\* Request r with the rows of the jobs in S as its session loads them now.
Loading(r, S) ==
    [r EXCEPT !.loaded = S,
              !.rows = [j \in Jobs |-> IF j \in S THEN job[j] ELSE Absent]]

\* The live jobs of agent a, as active_job_count selects them from table t.
ActiveJobs(t, a) == {j \in Jobs : t[j].agent = a /\ t[j].state \in HeldStates}

-----------------------------------------------------------------------------
(* What each handler does to the row it loaded *)

\* (Definitions named Bug_ are plausible mistakes; no specification uses them.)
\* The token is minted once per job instead of once per lease.
Bug_LeasedOneToken(row, a) ==
    [row EXCEPT !.agent = a, !.state = "leased", !.token = 1,
                !.lease = "live", !.attempts = @ + 1, !.seq = @ + 1]

Leased(row, a) ==
    [row EXCEPT !.agent = a, !.state = "leased", !.token = row.attempts + 1,
                !.lease = "live", !.attempts = @ + 1, !.seq = @ + 1]

Streamed(row, n) ==
    [row EXCEPT !.state = IF @ = "leased" THEN "running" ELSE @, !.seq = @ + n]

Finished(row, s) == [row EXCEPT !.state = s, !.token = NoToken, !.seq = @ + 1]

\* The agent that lost the job stays recorded on it.
Bug_RequeuedToLoser(row) ==
    [row EXCEPT !.state = "queued", !.token = NoToken, !.lease = "none", !.seq = @ + 1]

\* The token survives the lease.
Bug_RequeuedWithToken(row) ==
    [row EXCEPT !.state = "queued", !.agent = row.pinned, !.lease = "none", !.seq = @ + 1]

Requeued(row) ==
    [row EXCEPT !.state = "queued", !.agent = row.pinned, !.token = NoToken,
                !.lease = "none", !.seq = @ + 1]

\* One attempt too many.
Bug_FailedByOffByOne(row, requeue) ==
    IF requeue /\ row.attempts <= MaxAttempts
    THEN Requeued(row)
    ELSE Finished(row, "failed")

FailedBy(row, requeue) ==
    IF requeue /\ row.attempts < MaxAttempts
    THEN Requeued(row)
    ELSE Finished(row, "failed")

\* The reaper requeues for ever.
Bug_ReapedAlways(row) == Requeued(row)

Reaped(row) ==
    IF row.attempts < MaxAttempts
    THEN Requeued(row)
    ELSE [Finished(row, "expired") EXCEPT !.lease = "none"]

\* The token is not compared, only that there is one.
Bug_VerifyLeaseNoCompare(row, a, t) ==
    /\ row.agent = a
    /\ row.state \notin TerminalStates
    /\ row.token # NoToken

\* verify_lease, on the row as the request loaded it.  It compares the token
\* and never looks at lease_expires_at.
VerifyLease(row, a, t) ==
    /\ row.agent = a
    /\ row.state \notin TerminalStates
    /\ row.token # NoToken
    /\ row.token = t

-----------------------------------------------------------------------------
(* The unit of work *)

\* A flush writes the columns whose value differs from the one loaded.
Written(old, new, cur) == IF new = old THEN cur ELSE new

Flush(cur, old, new) ==
    [state |-> Written(old.state, new.state, cur.state),
     agent |-> Written(old.agent, new.agent, cur.agent),
     pinned |-> Written(old.pinned, new.pinned, cur.pinned),
     token |-> Written(old.token, new.token, cur.token),
     lease |-> Written(old.lease, new.lease, cur.lease),
     attempts |-> Written(old.attempts, new.attempts, cur.attempts),
     seq |-> Written(old.seq, new.seq, cur.seq)]

\* The log entries that turn row old into row new, numbered from the
\* last_event_seq that was loaded.
Entries(old, new) == (old.seq + 1) .. new.seq

\* The event log without its unique constraint.
Bug_AppendableAlways(j, old, new) == TRUE

\* UNIQUE (organization_id, job_id, seq): the insert fails, and with it the
\* whole transaction, when any of the numbers is taken.
Appendable(j, old, new) == Entries(old, new) \cap events[j] = {}

\* Request r writes new[j] over every row it loaded.
CommitRows(r, new) ==
    /\ \A j \in r.loaded : Appendable(j, r.rows[j], new[j])
    /\ job' = [j \in Jobs |-> IF j \in r.loaded
                              THEN Flush(job[j], r.rows[j], new[j]) ELSE job[j]]
    /\ events' = [j \in Jobs |-> IF j \in r.loaded
                                 THEN events[j] \cup Entries(r.rows[j], new[j])
                                 ELSE events[j]]

\* An UPDATE of an agent row that is gone matches nothing and aborts.
WriteStatus(a, seen, s) ==
    IF s = seen.status
    THEN UNCHANGED agent
    ELSE /\ agent[a].status # "deleted"
         /\ agent' = [agent EXCEPT ![a].status = s]

\* _release_agent counts after the job's own change was flushed.
ReleaseAgent(a, seen) ==
    WriteStatus(a, seen, IF seen.status = "busy" /\ ActiveJobs(job', a) = {}
                         THEN "idle" ELSE seen.status)

Begin(w, r) ==
    /\ worker[w].op = "idle"
    /\ worker' = [worker EXCEPT ![w] = r]
    /\ UNCHANGED <<jobVars, agent, scanning, held>>

Done(w) == worker' = [worker EXCEPT ![w] = Idle]

-----------------------------------------------------------------------------
(* Agent data plane *)

\* get_agent: the token resolves to a row and the row is not disabled.
Authenticated(a) == agent[a].status \notin {"disabled", "deleted"}

ClaimBegin(w, a) ==
    /\ Authenticated(a)
    /\ Begin(w, [Idle EXCEPT !.op = "claim", !.agent = a, !.seen = agent[a]])

\* The concurrency limit is not looked at.
Bug_ClaimCheckNoLimit(w) ==
    /\ worker[w].op = "claim"
    /\ scanning
    /\ worker' = [worker EXCEPT ![w].op = "claiming"]
    /\ UNCHANGED <<jobVars, agent, scanning, held>>

\* claim_next up to its SELECT: the switch, then the concurrency limit.
ClaimCheck(w) ==
    /\ worker[w].op = "claim"
    /\ scanning
    /\ Cardinality(ActiveJobs(job, worker[w].agent)) < MaxConcurrency
    /\ worker' = [worker EXCEPT ![w].op = "claiming"]
    /\ UNCHANGED <<jobVars, agent, scanning, held>>

\* FOR UPDATE SKIP LOCKED re-reads the row and keeps it locked to the commit,
\* so the row is read and written in one step.  The answer, which carries the
\* token, may be lost on its way.
ClaimCommit(w, j, delivered) ==
    LET a == worker[w].agent
        new == Leased(job[j], a)
    IN  /\ worker[w].op = "claiming"
        /\ job[j].state = "queued"
        /\ job[j].agent \in {a, NoAgent}
        /\ Appendable(j, job[j], new)
        /\ agent[a].status # "deleted"
        /\ job' = [job EXCEPT ![j] = new]
        /\ events' = [events EXCEPT ![j] = @ \cup Entries(job[j], new)]
        /\ WriteStatus(a, worker[w].seen, "busy")
        /\ held' = IF delivered
                   THEN [held EXCEPT ![a] = @ \cup {<<j, new.token>>}]
                   ELSE held
        /\ Done(w)
        /\ UNCHANGED <<imports, scanning>>

\* /events, /lease, /result and /fail share their beginning: authenticate,
\* load the job, verify the lease on what was loaded.
JobRequestBegin(w, a, op, j, t) ==
    /\ Authenticated(a)
    /\ <<j, t>> \in held[a]
    /\ VerifyLease(job[j], a, t)
    /\ Begin(w, Loading([Idle EXCEPT !.op = op, !.agent = a, !.seen = agent[a],
                                     !.token = t], {j}))

EventsCommit(w, n) ==
    LET r == worker[w]
        new == [j \in Jobs |-> Streamed(r.rows[j], n)]
    IN  /\ r.op = "events"
        /\ \A j \in r.loaded : new[j].seq <= MaxStreamed
        /\ CommitRows(r, new)
        /\ Done(w)
        /\ UNCHANGED <<imports, agent, scanning, held>>

\* The only writer of a job that adds nothing to its log: whatever happened to
\* the job since it was loaded, its lease_expires_at is overwritten.
ExtendCommit(w) ==
    /\ worker[w].op = "extend"
    /\ job' = [j \in Jobs |-> IF j \in worker[w].loaded
                              THEN [job[j] EXCEPT !.lease = "live"] ELSE job[j]]
    /\ Done(w)
    /\ UNCHANGED <<events, imports, agent, scanning, held>>

\* submit_result: a run that failed and printed nothing is not imported; any
\* other is, in the same transaction that finishes the job.
ResultCommit(w, s, imported) ==
    LET r == worker[w]
        new == [j \in Jobs |-> Finished(r.rows[j], s)]
    IN  /\ r.op = "result"
        /\ s = "succeeded" => imported
        /\ CommitRows(r, new)
        /\ imports' = [j \in Jobs |-> IF imported /\ j \in r.loaded
                                      THEN Append(imports[j], r.token)
                                      ELSE imports[j]]
        /\ ReleaseAgent(r.agent, r.seen)
        /\ Done(w)
        /\ UNCHANGED <<scanning, held>>

FailCommit(w, requeue) ==
    LET r == worker[w]
        new == [j \in Jobs |-> FailedBy(r.rows[j], requeue)]
    IN  /\ r.op = "fail"
        /\ CommitRows(r, new)
        /\ ReleaseAgent(r.agent, r.seen)
        /\ Done(w)
        /\ UNCHANGED <<imports, scanning, held>>

HeartbeatBegin(w, a) ==
    /\ Authenticated(a)
    /\ Begin(w, [Idle EXCEPT !.op = "heartbeat", !.agent = a, !.seen = agent[a]])

HeartbeatCommit(w) ==
    LET r == worker[w]
    IN  /\ r.op = "heartbeat"
        /\ agent[r.agent].status # "deleted"
        /\ WriteStatus(r.agent, r.seen, IF r.seen.status \in {"pending", "offline"}
                                        THEN "idle" ELSE r.seen.status)
        /\ Done(w)
        /\ UNCHANGED <<jobVars, scanning, held>>

\* The agent process dies or drops a job after an API error.
Forget(a) ==
    /\ held[a] # {}
    /\ held' = [held EXCEPT ![a] = {}]
    /\ UNCHANGED <<jobVars, agent, scanning, worker>>

-----------------------------------------------------------------------------
(* Control plane *)

\* queue_job: the switch and, for a pinned job, the agent are checked first.
QueueBegin(w, j, p) ==
    /\ scanning
    /\ p # NoAgent => Authenticated(p)
    /\ job[j].state = "absent"
    /\ \A v \in Workers : worker[v].op = "queue" => j \notin worker[v].loaded
    /\ Begin(w, [Idle EXCEPT !.op = "queue", !.agent = p, !.loaded = {j},
                             !.rows = [@ EXCEPT ![j] = QueuedFor(p)]])

QueueCommit(w) ==
    LET r == worker[w]
    IN  /\ r.op = "queue"
        /\ r.agent # NoAgent => agent[r.agent].status # "deleted"
        /\ job' = [j \in Jobs |-> IF j \in r.loaded THEN r.rows[j] ELSE job[j]]
        /\ Done(w)
        /\ UNCHANGED <<events, imports, agent, scanning, held>>

CancelBegin(w, j) ==
    /\ job[j].state \in {"queued"} \cup HeldStates
    /\ Begin(w, Loading([Idle EXCEPT !.op = "cancel"], {j}))

CancelCommit(w) ==
    LET r == worker[w]
    IN  /\ r.op = "cancel"
        /\ CommitRows(r, [j \in Jobs |-> Finished(r.rows[j], "cancelled")])
        /\ Done(w)
        /\ UNCHANGED <<imports, agent, scanning, held>>

\* Only running jobs are looked at: a leased one never streamed anything.
Bug_ReapBeginRunning(w, stale) ==
    /\ \A a \in stale : agent[a].status \in {"idle", "busy"}
    /\ Begin(w, Loading([Idle EXCEPT !.op = "reap", !.stale = stale],
                        {j \in Jobs : /\ job[j].state = "running"
                                      /\ job[j].lease = "lapsed"}))

\* POST /maintenance/reap: the lapsed leases, then the agents whose heartbeat
\* is old, in one transaction.
ReapBegin(w, stale) ==
    /\ \A a \in stale : agent[a].status \in {"idle", "busy"}
    /\ Begin(w, Loading([Idle EXCEPT !.op = "reap", !.stale = stale],
                        {j \in Jobs : /\ job[j].state \in HeldStates
                                      /\ job[j].lease = "lapsed"}))

ReapCommit(w) ==
    LET r == worker[w]
    IN  /\ r.op = "reap"
        /\ CommitRows(r, [j \in Jobs |-> Reaped(r.rows[j])])
        /\ \A a \in r.stale : agent[a].status # "deleted"
        /\ agent' = [a \in Agents |-> IF a \in r.stale
                                      THEN [agent[a] EXCEPT !.status = "offline"]
                                      ELSE agent[a]]
        /\ Done(w)
        /\ UNCHANGED <<imports, scanning, held>>

\* scanning.set_enabled: off cancels the queue in the same transaction, unless
\* the caller asks to leave it.
SwitchOffBegin(w, cancelQueued) ==
    Begin(w, Loading([Idle EXCEPT !.op = "switchOff"],
                     {j \in Jobs : cancelQueued /\ job[j].state = "queued"}))

SwitchOffCommit(w) ==
    LET r == worker[w]
    IN  /\ r.op = "switchOff"
        /\ CommitRows(r, [j \in Jobs |-> Finished(r.rows[j], "cancelled")])
        /\ scanning' = FALSE
        /\ Done(w)
        /\ UNCHANGED <<imports, agent, held>>

SwitchOn ==
    /\ ~scanning
    /\ scanning' = TRUE
    /\ UNCHANGED <<jobVars, agent, worker, held>>

SetStatusBegin(w, a, s) ==
    /\ agent[a].status # "deleted"
    /\ Begin(w, [Idle EXCEPT !.op = "setStatus", !.agent = a,
                             !.seen = agent[a], !.next = s])

\* disabled_at is a fresh timestamp when disabling, otherwise NULL.
SetStatusCommit(w) ==
    LET r == worker[w]
        disabling == r.next = "disabled"
        cur == agent[r.agent]
    IN  /\ r.op = "setStatus"
        /\ cur.status # "deleted"
        /\ agent' = [agent EXCEPT ![r.agent] =
               [status |-> Written(r.seen.status, r.next, cur.status),
                disabledAt |-> disabling
                    \/ Written(r.seen.disabledAt, FALSE, cur.disabledAt)]]
        /\ Done(w)
        /\ UNCHANGED <<jobVars, scanning, held>>

DeleteBegin(w, a) ==
    /\ agent[a].status # "deleted"
    /\ \A j \in Jobs : job[j].agent = a => job[j].state \in TerminalStates
    /\ Begin(w, [Idle EXCEPT !.op = "delete", !.agent = a])

\* ON DELETE SET NULL clears both references, in whatever state the job is.
DeleteCommit(w) ==
    LET a == worker[w].agent
        Cleared(x) == IF x = a THEN NoAgent ELSE x
    IN  /\ worker[w].op = "delete"
        /\ agent[a].status # "deleted"
        /\ agent' = [agent EXCEPT ![a] = NoRow]
        /\ job' = [j \in Jobs |-> [job[j] EXCEPT !.agent = Cleared(@),
                                                 !.pinned = Cleared(@)]]
        /\ Done(w)
        /\ UNCHANGED <<events, imports, scanning, held>>

-----------------------------------------------------------------------------
(* Environment *)

\* A refusal, an IntegrityError, a lost connection or a dead worker process:
\* the transaction rolls back and nothing was written.
Abandon(w) ==
    /\ worker[w].op # "idle"
    /\ Done(w)
    /\ UNCHANGED <<jobVars, agent, scanning, held>>

\* lease_expires_at passes.
Lapse(j) ==
    /\ job[j].state \in HeldStates
    /\ job[j].lease = "live"
    /\ job' = [job EXCEPT ![j].lease = "lapsed"]
    /\ UNCHANGED <<events, imports, agent, scanning, worker, held>>

-----------------------------------------------------------------------------

Init ==
    /\ job = [j \in Jobs |-> Absent]
    /\ events = [j \in Jobs |-> {}]
    /\ imports = [j \in Jobs |-> <<>>]
    /\ agent = [a \in Agents |-> [status |-> "pending", disabledAt |-> FALSE]]
    /\ scanning = TRUE
    /\ worker = [w \in Workers |-> Idle]
    /\ held = [a \in Agents |-> {}]

Commit(w) ==
    \/ \E j \in Jobs, delivered \in BOOLEAN : ClaimCommit(w, j, delivered)
    \/ \E n \in 1 .. 2 : EventsCommit(w, n)
    \/ ExtendCommit(w)
    \/ \E s \in {"succeeded", "failed"}, imported \in BOOLEAN :
           ResultCommit(w, s, imported)
    \/ \E requeue \in BOOLEAN : FailCommit(w, requeue)
    \/ HeartbeatCommit(w)
    \/ QueueCommit(w)
    \/ CancelCommit(w)
    \/ ReapCommit(w)
    \/ SwitchOffCommit(w)
    \/ SetStatusCommit(w)
    \/ DeleteCommit(w)

Arrive(w) ==
    \/ \E a \in Agents :
        \/ "claim" \in Kinds /\ ClaimBegin(w, a)
        \/ "heartbeat" \in Kinds /\ HeartbeatBegin(w, a)
        \/ \E op \in AgentOps \cap Kinds, j \in Jobs, t \in 1 .. MaxAttempts :
               JobRequestBegin(w, a, op, j, t)
        \/ "setStatus" \in Kinds
              /\ \E s \in OperatorStatuses : SetStatusBegin(w, a, s)
        \/ "delete" \in Kinds /\ DeleteBegin(w, a)
    \/ "queue" \in Kinds
          /\ \E j \in Jobs, p \in Agents \cup {NoAgent} : QueueBegin(w, j, p)
    \/ "cancel" \in Kinds /\ \E j \in Jobs : CancelBegin(w, j)
    \/ "reap" \in Kinds
          /\ \E stale \in SUBSET Agents :
                /\ "stale" \in Kinds \/ stale = {}
                /\ ReapBegin(w, stale)
    \/ "switchOff" \in Kinds
          /\ \E cancelQueued \in BOOLEAN : SwitchOffBegin(w, cancelQueued)

Next ==
    \/ \E w \in Workers : Arrive(w) \/ ClaimCheck(w) \/ Commit(w) \/ Abandon(w)
    \/ \E a \in Agents : Forget(a)
    \/ \E j \in Jobs : Lapse(j)
    \/ SwitchOn

Spec == Init /\ [][Next]_vars

Reap(w) == \E stale \in SUBSET Agents : ReapBegin(w, stale)

\* Requests end, one way or another; time passes; cron calls the reaper again and
\* again, finds a free thread, and not every call of it is rolled back.  Nothing
\* is assumed of the agents.
Fairness ==
    /\ \A w \in Workers : WF_vars(Commit(w) \/ Abandon(w))
    /\ \A j \in Jobs : WF_vars(Lapse(j))
    /\ SF_vars(\E w \in Workers : Reap(w))
    /\ SF_vars(\E w \in Workers : ReapCommit(w))

FairSpec == Spec /\ Fairness
-----------------------------------------------------------------------------
(* Properties *)

\* Every row, snapshot and credential is one the code can write; in particular
\* a job is never leased more than max_attempts times, although claim_next does
\* not compare the two: only the requeueing handlers do.
TypeOK ==
    /\ job \in [Jobs -> JobRow]
    /\ events \in [Jobs -> SUBSET Nat]
    /\ imports \in [Jobs -> Seq(1 .. MaxAttempts)]
    /\ agent \in [Agents -> AgentRow]
    /\ scanning \in BOOLEAN
    /\ worker \in [Workers -> Request]
    /\ held \in [Agents -> SUBSET (Jobs \X (1 .. MaxAttempts))]

\* AgentJobEvent: the log is append-only and numbered without gap or repeat up
\* to last_event_seq, however many handlers number their entries from a stale
\* copy of that column.
LogGapFree == \A j \in Jobs : events[j] = 1 .. job[j].seq

\* A job carries a token exactly while an agent may work on it, the token is the
\* one of its latest lease, and it then always has an expiry: a held job without
\* one would be invisible to the reaper for ever.
LeaseAccounting ==
    \A j \in Jobs :
        /\ (job[j].token # NoToken) <=> (job[j].state \in HeldStates)
        /\ job[j].state \in HeldStates => /\ job[j].token = job[j].attempts
                                           /\ job[j].lease # "none"
        /\ job[j].state = "queued" => job[j].attempts < MaxAttempts

\* AgentJob.requested_agent_id: a job handed back to the queue is offered to
\* whom it was first offered to, whichever handler handed it back and whatever
\* was deleted meanwhile; a pinned job is never with another agent.
QueueRemembersPin ==
    \A j \in Jobs :
        /\ job[j].state = "queued" => job[j].agent = job[j].pinned
        /\ job[j].pinned # NoAgent => job[j].agent = job[j].pinned

\* AgentJob.lease_token: the token of the lease in force is known to the agent
\* the job is leased to and to no other, over requeues, lost answers and agents
\* that keep old tokens.
TokenHasOneHolder ==
    \A a \in Agents : \A h \in held[a] :
        /\ job[h[1]].token = h[2] => job[h[1]].agent \in {a, NoAgent}
        /\ \A b \in Agents \ {a} : h \notin held[b]

\* submit_result: the output of a job enters the findings at most once, and
\* only together with the job's end; two submissions in flight do not both count.
ImportedOnce ==
    \A j \in Jobs :
        /\ Len(imports[j]) <= 1
        /\ imports[j] # <<>> => job[j].state \in {"succeeded", "failed"}

\* TERMINAL_JOB_STATES: no request that loaded the job before it ended - a
\* reaper, a cancellation, the switch, the agent - takes it out of its end state.
TerminalIsFinal ==
    [][\A j \in Jobs : job[j].state \in TerminalStates
                            => job'[j].state = job[j].state]_vars

\* verify_lease: what is imported was submitted under the lease in force at the
\* moment of the commit, not under one that was reaped while it was ingested.
ImportsUnderCurrentLease ==
    [][\A j \in Jobs : imports'[j] # imports[j]
          => /\ job[j].token # NoToken
             /\ imports'[j] = Append(imports[j], job[j].token)]_vars

\* cancel_queued: "Running jobs are left alone."  Turning scanning off never
\* takes a job from an agent, not even one claimed after the queue was read.
SwitchOffSparesRunning ==
    [][\A j \in Jobs :
          job[j].state \in HeldStates /\ scanning /\ ~scanning'
              => job'[j].state = job[j].state]_vars

\* active_job_count and the lease that follows it are two statements: the limit
\* can be overshot, but by no more than the claims that run at the same time, and
\* no stale writer adds to it.
OvershootBounded ==
    \A a \in Agents :
        LET claiming == {w \in Workers : worker[w].op = "claiming" /\ worker[w].agent = a}
        IN  Cardinality(ActiveJobs(job, a)) + Cardinality(claiming)
                < MaxConcurrency + Cardinality(Workers)

\* The dispatcher keeps the promises of JobLifecycle.
PhaseOf(row) ==
    CASE row.state = "absent" -> "none"
      [] row.state = "queued" -> "waiting"
      [] row.state \in HeldStates -> "held"
      [] OTHER -> "ended"

LifeOf(j) ==
    [phase |-> PhaseOf(job[j]),
     holder |-> IF job[j].state \in HeldStates THEN job[j].agent ELSE NoAgent,
     tries |-> job[j].attempts,
     imports |-> Len(imports[j])]

Lifecycle == INSTANCE JobLifecycle WITH life <- [j \in Jobs |-> LifeOf(j)]

KeepsLifecycle == Lifecycle!Spec

\* A job whose agent no longer knows its token - it died, gave the job up, or never
\* got the answer to its claim - is not held for ever.
Orphaned(j) ==
    /\ job[j].state \in HeldStates
    /\ \A a \in Agents : <<j, job[j].token>> \notin held[a]

OrphansAreReaped ==
    \A j \in Jobs : Orphaned(j) ~> job[j].state \notin HeldStates

(* Statements of the sources that the code does not keep *)

\* models/agent.py AgentStatus.DISABLED: "it is never leased work."  No agent
\* that an operator disabled and did not enable again is let into the claim.
DisabledIsNeverOffered ==
    [][\A w \in Workers : \A a \in Agents :
          worker'[w].op = "claim" /\ worker[w].op = "idle" /\ worker'[w].agent = a
              => ~agent[a].disabledAt]_vars

\* verify_lease: "Only the agent currently holding the lease may write to a job."
OnlyTheHolderExtends ==
    [][\A w \in Workers : \A j \in worker[w].loaded :
          worker[w].op = "extend" /\ job'[j] # job[j]
              => job[j].token = worker[w].token]_vars

\* scanning.py on claim_next: without the refusal "a backlog queued before the
\* flip drains afterwards".  No job is leased while scanning is off.
NoLeaseWhileOff ==
    [][\A j \in Jobs :
          job[j].state = "queued" /\ job'[j].state = "leased" => scanning]_vars
=============================================================================
