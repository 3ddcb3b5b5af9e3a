SPECIFICATION FairSpec

CONSTANTS
  Errors <- ThreeErrors
  Group <- TwoGroups
  Place <- SecondFirst
  MaxRead = 3
  WarningAge = 1
  CriticalAge = 2
  FailOnShrink = TRUE
  MaxWritten = 4
  MaxFiles = 2
  MaxTime = 2
  MaxFaults = 2

INVARIANTS
  ErrorsAreReported

PROPERTIES
  ReportedOnce
  SilenceIsReal
  ShrinkIsReported
  CatchesUp
