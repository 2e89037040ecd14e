\* A finding that was fixed is seen again.
SPECIFICATION Spec
CONSTANTS
  Tests = {t1}
  Policies = {"tight"}
  Owners = {}
  Acceptances = {}
  Ladder <- MCNoLadder
  Targets <- MCScanTargets
  MaxClock = 2
  Dates <- MCSomeDates
  MaxAbsences = 2
  Window <- MCWindow
  WarnAt <- MCWarnAt
  Path <- MCRoute
PROPERTIES RegressionRestartsSla
