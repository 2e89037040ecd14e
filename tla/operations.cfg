\* Upgrades, credentials, mail and scanner pulls, one of them in a behaviour.
SPECIFICATION MCSpec
CONSTANTS
  Operators = {x1, x2}
  Workers = {y1, y2}
  Uploads = {u1}
  Newest = 2
  Chunks = 2
  Hosts <- MCHosts
  Cells = {x1, x2}
  VaultKeys = {y1, y2}
  Nothing = Nothing
  MaxSaves = 2
  Notices <- MCNotices
  Mailed = {1, 2}
  Dispatchers = {x1, x2}
  MaxTries = 2
  BatchLimit = 1
  MaxCrashes = 1
  Scans = {s1}
  Pullers = {x1, x2}
  MaxExports = 2
SYMMETRY MCPerms
INVARIANTS OperationsTypeOK NoticesAreAccounted SyncsAreSound
PROPERTIES UpgradesAreSafe 
CHECK_DEADLOCK FALSE
