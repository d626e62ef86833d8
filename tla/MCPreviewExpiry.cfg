SPECIFICATION Spec
CONSTANTS
  Requests = {r1}
  Reaper = Reaper
  Older = Older
  Ops = {"start", "extend", "stop"}
  Parts = {"egress", "secret", "service"}
  Periods = {1, 3}
  MaxTtl = 2
  MaxConcurrent = 2
  MaxTime = 2
  MaxTroubles = 1
INVARIANTS
  AllOrNothing
PROPERTIES
  ExpiredGoes
