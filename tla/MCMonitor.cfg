SPECIFICATION FairSpec

CONSTANTS
  Agents = {a1}
  Requests = {r1, r2}
  Beat = 1
  DefaultThreshold = 2
  MaxInterval = 1
  Reports <- ReportsOk
  MaxFailures = 1
  MaxChanges = 2

INVARIANTS
  OneOpenIncident

PROPERTIES
  ClosedOnlyAfterContact
  LossIsReported
  RecoveryIsShown
