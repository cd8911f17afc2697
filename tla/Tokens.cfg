SPECIFICATION LiveSpec

CONSTANTS
  MaxUser = 2
  NpcStart = 2
  NumOfNpc = 3
  BoardWidth = 2
  BoardHeight = 1
  ViewMax = 0
  Workers = {w1, w2}
  StartX = 0
  StartZ = 0
  SendsMayFail = TRUE
  TokenCap = 2
  Drift = 1

INVARIANT TypeOK
INVARIANT ActiveHasToken
PROPERTY KeepsMoving
PROPERTY FallsAsleep
CHECK_DEADLOCK FALSE
