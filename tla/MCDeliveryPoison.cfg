SPECIFICATION FairSpec

CONSTANTS
  MaxQueue = 1
  FlushLimit = 2
  Quiet <- NoTelemetryButHeartbeats
  Refusable = {}
  Legacy = FALSE
  MaxMessages = 2
  MaxOutages = 1
  MaxCrashes = 0

PROPERTIES
  IncidentsDrain
