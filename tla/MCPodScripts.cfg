SPECIFICATION Spec
CONSTANTS
  Calls = {c1, c2, c3}
  Ops = {"write", "import", "mkdir", "delete", "start", "stop", "run"}
  Nil = Nil
  Old = Old
  Torn = Torn
  Dir = Dir
INVARIANTS
  TypeOK
  ReplacesWhatItRead
  TidyDisk
  StopIsReal
  ServerTracked
  CommandGone
SYMMETRY Symmetry
