\* Jobs of silent agents, under a reaper that keeps being called.
CONSTANTS
    Agents = {a1}
    Jobs = {j1}
    Workers = {w1}
    NoAgent = NoAgent
    MaxAttempts = 2
    MaxConcurrency = 1
    MaxStreamed = 2
    Kinds = {"claim", "events", "extend", "result", "fail", "heartbeat", "queue", "cancel",
             "reap", "stale", "switchOff", "setStatus", "delete"}
SPECIFICATION FairSpec
PROPERTIES OrphansAreReaped
