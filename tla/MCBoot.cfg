CONSTANTS
  Harts = {0, 1, 2}
  FIFO_DEPTH = 3
  LINE = 1
  Bss <- MCBss
SPECIFICATION Spec
CHECK_DEADLOCK FALSE
INVARIANTS TypeOK OthersWaitForHart0 NoByteLost InterruptsReach
PROPERTY TimelyClearBoots
