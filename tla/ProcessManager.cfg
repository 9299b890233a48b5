CONSTANTS
  VA_INDEX_WIDTH = 3
  Images <- MCImages
  KERNEL_BASE = 65536
  BOOT_STACKS = 4096
  UART_BASE = 16384
  VIRTIO_BASE = 20480
  CLINT_BASE = 4096
  CLINT_SIZE = 4096
  PLIC_BASE = 8192
  PLIC_SIZE = 8192
  TEXT_BASE_USER_VA = 40960
  Harts = {0, 1, 2}
  NoHart = NoHart
  NoPid = NoPid
  InitialCapacity = 1
  SpareFrames = 2
SPECIFICATION Spec
CHECK_DEADLOCK FALSE
INVARIANTS
  TypeOK
  IdsPartitioned
  ProcessInOnePlace
  UserTpCurrent
  AssertionsHold
  FramesOwnedOnce
  MapsMatchAreas
  Isolation
PROPERTIES
  SpaceSpec
  ManagerReleased
