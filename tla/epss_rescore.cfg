\* FIRST scores a CVE on two days; nothing fails.
SPECIFICATION FeedSpec
CONSTANTS
  Cves = {x1}
  Tenants = {g1}
  MaxRevision = 1
  MaxDay = 2
  MaxRuns = 3
  MaxStops = 0
  MaxListed = 1
INVARIANTS UrgencyIsTold
CHECK_DEADLOCK FALSE
