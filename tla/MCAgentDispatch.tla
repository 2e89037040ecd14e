--------------------------- MODULE MCAgentDispatch ---------------------------
(* Small instances of AgentDispatch for TLC. *)
EXTENDS AgentDispatch, FiniteSets, TLC

\* The requests of a behaviour, the agents and the jobs they are about.
VARIABLE mix

Mix(kinds, agents, jobs) ==
  {[kinds |-> kinds, agents |-> A, jobs |-> J] :
     A \in {S \in SUBSET Agents : Cardinality(S) = agents},
     J \in {S \in SUBSET Jobs : Cardinality(S) = jobs}}

\* One job contended for by two agents: leases, tokens, the log, imports.
Contention ==
  Mix({"claim", "events", "extend", "result", "fail", "queue", "cancel", "reap", "switchOff"}, 2, 1)

\* One agent whose row is disabled, aged, revived and deleted while it works.
RowChanges ==
  Mix({"claim", "heartbeat", "queue", "reap", "stale", "setStatus", "delete"}, 1, 1)

\* Two jobs moved by one transaction of the reaper or of the scanning switch.
Batches == Mix({"claim", "queue", "reap", "switchOff"}, 1, 2)

MCInit == Init /\ mix \in Contention \cup RowChanges \cup Batches

Admitted(r) ==
  /\ r.op \in mix.kinds \cup {"idle", "claiming"}
  /\ r.stale # {} => "stale" \in mix.kinds
  /\ r.agent \in mix.agents \cup {NoAgent} /\ r.stale \subseteq mix.agents
  /\ r.op = "queue" => r.loaded \subseteq mix.jobs

MCNext == Next /\ (\A w \in Workers : Admitted(worker'[w])) /\ UNCHANGED mix

MCSpec == MCInit /\ [][MCNext]_<<vars, mix>>

\* Server threads are interchangeable, and so are agents and jobs.
Symmetry == Permutations(Workers) \cup Permutations(Agents) \cup Permutations(Jobs)
=============================================================================
