\* Two policies and a ladder while time passes, under the hourly sweep.
SPECIFICATION FairSpec
CONSTANTS
  Tests = {}
  Policies = {"tight", "loose"}
  Owners = {}
  Acceptances = {a1}
  Ladder <- MCLadder
  Targets <- MCTwoTargets
  MaxClock = 2
  Dates <- MCSomeDates
  MaxAbsences = 2
  Window <- MCWindow
  WarnAt <- MCWarnAt
  Path <- MCRoute

 
PROPERTIES MarksAreKept OverdueIsBreached
