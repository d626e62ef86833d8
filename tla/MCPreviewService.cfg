SPECIFICATION Spec
CONSTANTS
  Requests = {r1, r2}
  Reaper = Reaper
  Older = Older
  Ops = {"start", "extend", "stop"}
  Parts = {"secret", "service"}
  Periods = {1}
  MaxTtl = 2
  MaxConcurrent = 2
  MaxTime = 1
  MaxTroubles = 1
INVARIANTS
  TypeOK
  LimitUnlessRaced
  TtlCapped
  AllOrNothing
  SecretTied
SYMMETRY Symmetry
