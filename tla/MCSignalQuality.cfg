SPECIFICATION Spec

CONSTANTS
  NumSignals = 2
  ValuesOf <- OneMoves
  Epsilon = 1
  FrozenAfter = 2
  Period = 1
  MaxAge = 2
  Delay = 0
  Window = 1
  Tolerance = 0
  Lookback = 1
  BatchLimit = 2
  MaxSamples <- OneIsRare
  MaxTime = 3
  MaxFaults = 2

INVARIANTS
  RemembersNewest

PROPERTIES
  FrozenIsRight
  GapIsReported
  MissingIsReal
