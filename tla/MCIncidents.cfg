SPECIFICATION FairSpec

CONSTANTS
  NumChecks = 2
  OpenDelay = 0
  CloseDelay = 1
  Cooldown = 2
  MaxIncidents = 2
  MaxTransit = 3
  MaxCrashes = 2

INVARIANTS
  OneActivePerKey
  MemoryMatchesTable
  ServerShowsRecovery

PROPERTIES
  CooldownRespected
  HealthIncidentsClose
