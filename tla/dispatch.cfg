\* Contended leases, a changing agent row, and transactions over two jobs.
SPECIFICATION MCSpec
CONSTANTS
    Agents = {a1, a2}
    Jobs = {j1, j2}
    Workers = {w1, w2}
    NoAgent = NoAgent
    MaxAttempts = 2
    MaxConcurrency = 1
    MaxStreamed = 1
    Kinds = {"claim", "events", "extend", "result", "fail", "heartbeat", "queue", "cancel",
             "reap", "stale", "switchOff", "setStatus", "delete"}
SYMMETRY Symmetry
INVARIANTS TypeOK LogGapFree LeaseAccounting TokenHasOneHolder ImportedOnce QueueRemembersPin OvershootBounded
PROPERTIES TerminalIsFinal ImportsUnderCurrentLease KeepsLifecycle SwitchOffSparesRunning
