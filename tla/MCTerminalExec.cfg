SPECIFICATION Spec
CONSTANTS
  Requests = {r1, r2}
  Sizes = {1}
  MaxOutput = 2
  MaxArrived = 4
INVARIANTS
  TypeOK
  OneAnswer
  CutIsSaid
  OutputCapped
PROPERTIES
  Answered
