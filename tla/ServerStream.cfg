SPECIFICATION LiveSpec

CONSTANTS
  Sizes = {2, 3, 4}
  MaxStream = 8
  MaxBuff = 5
  MaxPacket = 4
  StaleTest = FALSE

INVARIANT KeepsTheFragment
PROPERTY DeliversInOrder
PROPERTY DeliversAll
