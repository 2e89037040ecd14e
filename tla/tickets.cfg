\* Concurrent transactions over tickets and external issues; one ticket with its
\* twin in an external system; the versions that fix; and what is installed.
SPECIFICATION MCSpec
CONSTANTS
  Findings = {f1, f2}
  Threads = {w1, w2}
  Users = {ann, bob}
  Admins = {bob}
  NoOne = NoOne
  Cap = 1
  Limit = 1
  Traffics <- MCTraffics
  Pushers = {w1, w2}
  Issues = {f1, f2}
  NoIssue = NoIssue
  Statuses <- MCStatuses
  Mappings <- MCMappings
  Wanted = {"resolved", "closed"}
  MaxMail = 1
  MaxSecrets = 2
  MaxConnectors = 2
  Versions <- MCVersions
  Wild <- MCWild
  Flaws = {"c1", "c2"}
  Knowledge <- MCKnowledge
  Drafts <- MCDrafts
  Patches <- MCPatches
  Editors = {"e1", "e2"}
  MaxRules = 2
  MaxHops = 16
  MaxTurns = 3
  Dictionary <- MCDictionary
  Aliases <- MCAliases
  NoVersion = "none"
  Vulnerable = {"1", "2"}
  Reports <- MCReports
  Sources = {"agent", "operator"}
  Sweeping = {"agent"}
  Correlating = {"agent"}
  MaxReported = 4
SYMMETRY MCPerms
INVARIANTS TicketsTypeOK 
 
CHECK_DEADLOCK FALSE
