CONSTANTS
  New = {n1, n2, n3}
  Reuse = {r1, r2}
  Start = 1
SPECIFICATION Spec
SYMMETRY Symmetry
INVARIANTS TypeOK Accounting NoConflict IDsUnique PairsExact OnlyPanicLeaks NothingLeftOpen InstalledMatches
PROPERTY AllocatorUse
CHECK_DEADLOCK FALSE
