CONSTANTS
  Harts = {0, 1}
  FIFO_DEPTH = 2
  LINE = 2
  Bss <- MCBss
SPECIFICATION Spec
CHECK_DEADLOCK FALSE
PROPERTY OthersStartAfterHart0
