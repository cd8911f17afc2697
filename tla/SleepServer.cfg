SPECIFICATION Spec

CONSTANTS
  MaxUser = 3
  NpcStart = 2
  NumOfNpc = 4
  BoardWidth = 3
  BoardHeight = 1
  ViewMax = 1
  StartX = 0
  StartZ = 0
  TokenCap = 1

INVARIANT TypeOK
INVARIANT ViewsExact
INVARIANT DisplayExact
CHECK_DEADLOCK FALSE
