SPECIFICATION Spec
CONSTANTS
  Workspaces = {w1}
  Requests = {r1, r2}
  Reaper = Reaper
  Nil = Nil
  Ops = {"start", "use", "exec", "expose"}
  Mishaps = {"expires", "dies", "idles"}
  MaxConcurrent = 1
  MaxWorkspaces = 1
  EraseAttempts = 2
  MaxErrors = 0
  MaxSlips = 1
  MaxCrashes = 0
INVARIANTS
  BusyHasCommand
  OneCommandUnlessWiped
