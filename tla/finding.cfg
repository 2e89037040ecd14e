\* Scans and risk acceptances over one finding.
SPECIFICATION MCSpec
CONSTANTS
  Tests = {t1, t2}
  Policies = {"tight"}
  Owners = {o1}
  Acceptances = {a1, a2}
  Ladder <- MCNoLadder
  Targets <- MCScanTargets
  MaxClock = 1
  Dates <- MCSomeDates
  MaxAbsences = 2
  Window <- MCWindow
  WarnAt <- MCWarnAt
  Path <- MCRoute
SYMMETRY Perms
INVARIANTS TypeOK
PROPERTIES MovesAreAccounted SeenIsNotFixed ReleaseReopens ClockRestartsOnPurpose
