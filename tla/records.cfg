\* What is computed and recorded, one subject in a behaviour.
SPECIFICATION MCSpec
CONSTANTS
  FeedOrder <- MCFeedOrder
  FirstHost = "h1"
  ExternalKeys = {"k1", "k2"}
  Hosts = {"h1", "h2"}
  Serials = {"s1"}
  Exports <- MCExports
  MaxAssets = 7
  MaxTurns = 3
  Writers = {"w1", "w2"}
  Levels = {1, 2}
  Matrices <- MCMatrices
  NoOne = "nobody"
  MaxRisks = 2
  MaxEdits = 4
  Controls = {"c1", "c2"}
  Shipped = {"c1"}
  Signalled = {"c1"}
  Claims = {"not_applicable", "implemented"}
  Requests = {"r1", "r2"}
  MaxAsks = 3
  Texts = {"t1", "t2"}
  Clerks = {"a", "b"}
  MaxWork = 4
  Things = {"x", "y"}
  Places = {"p", "q"}
  Nowhere = "gone"
  Engagements = {"e1", "e2"}
  NoId = "none"
  MaxReports = 2
INVARIANTS RecordsTypeOK RoutesAreFirst  
CHECK_DEADLOCK FALSE
