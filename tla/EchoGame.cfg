SPECIFICATION LiveSpec

CONSTANTS
  MaxUser = 1
  Keys = {0, 2}
  Start = 1
  Step = 1
  ByteRange = 3
  MaxTouches = 3

INVARIANT TypeOK
INVARIANT DisplayFollows
INVARIANT MovesPaired
PROPERTY LetGoSettles
