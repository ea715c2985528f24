CONSTANTS
  PoolSize = 2
  Handles = {h1, h2}
  Null = Null
  MaxStack = 4
SYMMETRY MCSymmetry
SPECIFICATION Spec
INVARIANTS TypeOK HandleBinding TasksHaveEntity OnlyOwnDeleted DeletesQuietly OwnedAreKept
PROPERTIES KeepsPromise
CHECK_DEADLOCK FALSE
