SPECIFICATION Spec

CONSTANTS
  NumChecks = 2
  Workers = {w1}
  Stuck <- NoChecks
  StorageChecks <- OneStoring
  None = None
  MaxRuns = 1

INVARIANTS
  StorageOutlivesChecks

CHECK_DEADLOCK FALSE
