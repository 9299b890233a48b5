CONSTANTS
  NPages = 2
  PageSize = 4
  BaseFrame = 3
  UsizeMax = 15
  NoHart = NoHart
  h1 = h1
  h2 = h2
  h3 = h3
  Harts = {h1, h2, h3}
SPECIFICATION Spec
CHECK_DEADLOCK FALSE
INVARIANTS
  TypeOK
  ExclusiveFrames
  BitmapMatchesGuards
  HandedOutZeroed
  PanicMeansExhausted
PROPERTIES
  HeldFramesKept
  MutexReleased
