CONSTANTS
  InitialCapacity = 1
  MaxCapacity = 4
SPECIFICATION Spec
INVARIANT RemoveSucceeds
