CONSTANTS
  ENTRY_PER_TABLE = 2
  Frames = {0, 1, 2, 3, 4, 5, 6, 7}
  HeapFrames = {1, 2, 3, 4, 5, 6, 7}
  FreeAtStart = {{}, {1, 2, 3, 4, 5, 6}, {2, 3, 5, 6}, {4, 5, 6, 7}}
  Pages = {1, 4, 6}
  Flags = {{"R", "W"}}
  TrampolineFrame = 0
  NoFrame = NoFrame
  Unmapped = Unmapped
SPECIFICATION Spec
CHECK_DEADLOCK FALSE
INVARIANTS
  TypeOK
  TableIsTree
PROPERTIES
  FramesConserved
  WritesOwnNodes
  LockExact
  ImplementsAddrMap
