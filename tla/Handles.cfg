CONSTANTS
  None = None
  Values = {"buffer"}
  Buffers = {"buffer"}
  Threads = {"t"}
  MaxToken = 4
  MaxExports = 1
  Programs <- MCPrograms
  MaxSlots = 2
  MaxDepth = 4
  MaxArguments = 1
  MaxDeferred = 2
SPECIFICATION Spec
INVARIANTS LocalsOwned DeferredNotLost
PROPERTIES NamesSpec
CHECK_DEADLOCK FALSE
