CONSTANTS
  NPages = 3
  PageSize = 4
  BaseFrame = 3
  UsizeMax = 15
  Sizes = {4, 8}
SPECIFICATION Spec
CHECK_DEADLOCK FALSE
INVARIANT BlocksDisjoint
