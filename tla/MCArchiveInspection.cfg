\* Two of up to three objects, three of four columns, four of five rows and
\* eight bytes of samples, of which a cell keeps three.
SPECIFICATION InspectSpec
CONSTANTS
  Databases <- Archives
  MaxObjects = 2
  MaxColumns = 3
  MaxIndexes = 2
  MaxForeign = 1
  MaxRows = 4
  MaxCell = 3
  MaxBytes = 8
INVARIANTS
  WithinLimits
  OpaqueNeverHigh
  CutNeverRaises
CHECK_DEADLOCK FALSE
