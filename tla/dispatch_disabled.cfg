\* An operator disables an agent while one of its requests is in flight.
CONSTANTS
    Agents = {a1}
    Jobs = {j1}
    Workers = {w1, w2}
    NoAgent = NoAgent
    MaxAttempts = 1
    MaxConcurrency = 1
    MaxStreamed = 2
    Kinds = {"claim", "heartbeat", "setStatus"}
SPECIFICATION Spec
PROPERTIES DisabledIsNeverOffered
