SPECIFICATION WorkersSpec

CONSTANTS
  MaxUser = 2
  NpcStart = 2
  NumOfNpc = 2
  BoardWidth = 2
  BoardHeight = 1
  ViewMax = 0
  Workers = {w1, w2}
  Acceptor = acceptor
  HardResets = FALSE
  RecvPackets = 1
  LostSends = 0
  QueueCap = 1
  NpcOverrun = 0

SYMMETRY Symmetry
INVARIANT DisplayedIsListed
