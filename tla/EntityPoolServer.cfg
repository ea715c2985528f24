CONSTANTS
  PoolSize = 1
  Handles = {h1, h2}
  Null = Null
  MaxStack = 2
SPECIFICATION Spec
INVARIANTS PoolOnServer
CHECK_DEADLOCK FALSE
