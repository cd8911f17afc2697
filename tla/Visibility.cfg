SPECIFICATION SnapSpec

CONSTANTS
  MaxUser = 3
  NpcStart = 3
  NumOfNpc = 3
  BoardWidth = 3
  BoardHeight = 1
  ViewMax = 1
  Workers = {w1, w2}
  Acceptor = acceptor
  HardResets = FALSE
  RecvPackets = 1
  LostSends = 0
  QueueCap = 1
  NpcOverrun = 0

SYMMETRY Symmetry
PROPERTY ServesVisibility
