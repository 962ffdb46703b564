\* Correct answers only, cut into pieces by the network.
SPECIFICATION Spec
CONSTANTS
  Ctx = {c1}
  IsTls = {}
  Key = {1, 2}
  Capacity = 5
  DestLen = 2
  Response <- MCCorrectResponse
  MaxLen = 12
  MaxAttempts = 1
INVARIANT FailedReadMeansFailedConnection
CHECK_DEADLOCK FALSE
