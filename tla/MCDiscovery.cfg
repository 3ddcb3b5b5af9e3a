SPECIFICATION Spec

CONSTANTS
  NumDirs = 3
  NumFiles = 2
  Sites <- MCSites

CHECK_DEADLOCK FALSE

INVARIANTS
  StaysOnSite
  NothingMissed
  NeverSwitched
  AlarmIsReal
