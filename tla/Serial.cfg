SPECIFICATION SerialSpec

CONSTANTS
  MaxUser = 2
  NpcStart = 2
  NumOfNpc = 3
  BoardWidth = 2
  BoardHeight = 1
  ViewMax = 0
  Workers = {w1, w2}
  Acceptor = acceptor
  HardResets = TRUE
  RecvPackets = 1
  LostSends = 1
  QueueCap = 1
  NpcOverrun = 0

SYMMETRY Symmetry
INVARIANT ViewsMatchBoard
INVARIANT DisplayMatchesViews
CHECK_DEADLOCK FALSE
