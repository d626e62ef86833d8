SPECIFICATION Spec
CONSTANTS
  Requests = {r1, r2}
  Reaper = Reaper
  Older = Older
  Ops = {"extend"}
  Parts = {"secret", "service"}
  Periods = {1, 2}
  MaxTtl = 4
  MaxConcurrent = 2
  MaxTime = 1
  MaxTroubles = 0
PROPERTIES
  ExtensionKept
