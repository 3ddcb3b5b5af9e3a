SPECIFICATION FairSpec
CONSTANTS
  MaxQueue = 1
  FlushLimit = 2
  Quiet <- NoSamples
  Refusable = {"incidents"}
  Legacy = TRUE
  MaxMessages = 2
  MaxOutages = 1
  MaxCrashes = 1
INVARIANTS
  TelemetryBound
  RecordedOnce
  SequenceOrder
PROPERTIES
  QueuedSurvives
  KeepsPromise
  QueueDrains
