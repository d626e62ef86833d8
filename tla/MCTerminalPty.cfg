SPECIFICATION Spec
CONSTANTS
  Workspaces = {w1}
  Sessions = {s1, s2}
  Subscribers = {x1, x2}
  Nil = Nil
  Sizes = {1, 3}
  MaxBacklog = 2
  MaxChunks = 3
INVARIANTS
  TypeOK
  OneSessionPerWorkspace
  ReservationExact
  OutputFaithful
  BacklogBounded
  ListenerAnswered
PROPERTIES
  KeepsPromise
CHECK_DEADLOCK FALSE
SYMMETRY Symmetry
