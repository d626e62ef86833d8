SPECIFICATION Spec
CONSTANTS
  Saves = {s1, s2, s3}
  Others = {o1}
  Nil = Nil
  Files = {f1, f2}
  Lifetime = 5
  Margin = 3
  FetchTimeout = 1
  GitTimeout = 1
  MaxTime = 5
INVARIANTS
  TypeOK
  SavedStays
  TokenOutlives
SYMMETRY Symmetry
