\* Intelligence, settings, schedule, workflows, assistant and agents, one of them in a behaviour.
SPECIFICATION MCSpec
CONSTANTS
  Cves = {x1, x2}
  Tenants = {g1}
  MaxRevision = 2
  MaxDay = 1
  MaxRuns = 3
  MaxStops = 1
  MaxListed = 1
  Requests = {x1, x2}
  DayHours = 3
  GuardHours = 2
  MaxWrites = 2
  MaxHours = 1
  Organizations = {x1, x2}
  FeedOrder <- MCFeedOrder
  Intervals = {1, 6}
  DefaultInterval = 6
  LongestInterval = 6
  TimerHours = 1
  MaxRunHours = 1
  MaxChanges = 1
  Builtins <- MCBuiltins
  Writes <- MCWrites
  Workers = {x1, x2}
  MaxSteps = 3
  MaxFired = 3
  MaxWritten = 2
  Askers = {x1, x2}
  Asks <- MCAsks
  Policies <- MCPolicies
  Defaults <- MCDefaults
  Endpoints <- MCEndpoints
  MaxAsked = 3
  MaxAdmin = 3
  Targets <- MCTargets
  ScanTools = {"scanner"}
  Rulebooks <- MCRulebooks
  Local = {"name", "loop"}
  Outcomes <- MCOutcomes
  AutoEnable = TRUE
  MaxJobs = 3
  MaxEdits = 4
SYMMETRY MCPerms
INVARIANTS PlatformTypeOK 
PROPERTIES  SettingsAreKept
CHECK_DEADLOCK FALSE
