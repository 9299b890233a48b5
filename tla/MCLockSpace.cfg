CONSTANTS
  Harts = {h0, h1, h2}
  h0 = h0
  h1 = h1
  h2 = h2
  BootHart = h0
  NoHart = NoHart
  KernelNodes <- MCKernelNodes
  PteNode = 2
  SpaceNodes = 2
  FreeAtStart = {{4, 5}, {4}}
SPECIFICATION Spec
CHECK_DEADLOCK FALSE
INVARIANTS
  TypeOK
  ActiveSpaceAllocated
  LockTableStoreAllowed
  LockEnforced
  NoFrameLost
PROPERTIES
  EveryHartGetsThrough
