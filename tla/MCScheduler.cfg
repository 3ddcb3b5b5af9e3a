SPECIFICATION FairSpec

CONSTANTS
  NumChecks = 2
  Workers = {w1, w2}
  Stuck <- OneStuck
  StorageChecks <- OneStoring
  None = None
  MaxRuns = 2

INVARIANTS
  SingleFlight
  SlotAccounted

PROPERTIES
  RunOnceReturns
  HealthyChecksFinish
  WorkersLeave

CHECK_DEADLOCK FALSE
