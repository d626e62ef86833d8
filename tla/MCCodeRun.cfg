SPECIFICATION Spec
CONSTANTS
  Runs = {r1, r2, r3}
  MaxFailures = 2
INVARIANTS
  TypeOK
  NothingLeft
  CacheSound
SYMMETRY Symmetry
