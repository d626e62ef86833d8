SPECIFICATION Spec
CONSTANTS
  Workspaces = {w1}
  Requests = {r1, r2}
  Reaper = Reaper
  Nil = Nil
  Ops = {"start"}
  Mishaps = {}
  MaxConcurrent = 1
  MaxWorkspaces = 1
  EraseAttempts = 2
  MaxErrors = 0
  MaxSlips = 0
  MaxCrashes = 0
PROPERTIES
  DiskKept
