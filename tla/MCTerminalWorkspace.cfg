SPECIFICATION Spec
CONSTANTS
  Workspaces = {w1, w2}
  Requests = {r1, r2}
  Reaper = Reaper
  Nil = Nil
  Ops = {"start", "stop", "delete"}
  Mishaps = {"expires"}
  MaxConcurrent = 1
  MaxWorkspaces = 1
  EraseAttempts = 2
  MaxErrors = 2
  MaxSlips = 1
  MaxCrashes = 1
INVARIANTS
  TypeOK
  LimitsUnlessRaced
  NothingHalfBuilt
  DeletionIsReal
PROPERTIES
  DiskKeptUnlessRaced
SYMMETRY Symmetry
