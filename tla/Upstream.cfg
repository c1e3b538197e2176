CONSTANTS
  Files <- MCFiles
  Keys = {k1}
  Dialers = {d1, d2}
  Reloaders = {r1}
  Names = {"", "a"}
  DefaultWeight = 2
  DefaultReuse = 3
SPECIFICATION Spec
SYMMETRY Symmetry
INVARIANTS TypeOK CacheFresh ResolverAsked ShareWithinOne AllTried
PROPERTY ReloadTakesEffect
CHECK_DEADLOCK FALSE
