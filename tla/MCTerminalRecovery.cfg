SPECIFICATION Spec
CONSTANTS
  Workspaces = {w1}
  Requests = {r1, r2}
  Reaper = Reaper
  Nil = Nil
  Ops = {"start", "delete"}
  Mishaps = {"expires", "dies"}
  MaxConcurrent = 1
  MaxWorkspaces = 1
  EraseAttempts = 2
  MaxErrors = 0
  MaxSlips = 1
  MaxCrashes = 1
PROPERTIES
  Reclaimed
  DiskReleased
