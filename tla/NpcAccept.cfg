SPECIFICATION Spec

CONSTANTS
  MaxUser = 1
  NpcStart = 1
  NumOfNpc = 2
  BoardWidth = 2
  BoardHeight = 1
  ViewMax = 0
  Workers = {w1}
  Acceptor = acceptor
  HardResets = FALSE
  RecvPackets = 1
  LostSends = 0
  QueueCap = 1
  NpcOverrun = 0

SYMMETRY Symmetry
INVARIANT NpcSightSettles
INVARIANT OneOwner
INVARIANT NoThreadHangs
PROPERTY DroppedOnlyWhenGone
