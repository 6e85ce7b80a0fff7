SPECIFICATION Spec
CONSTANTS
  MaxSlots = 3
  MAX_GENERATION = 1
  Fields = {}
  Kinds = {"finalizable", "generator", "foreign"}
  MaxRefs = 1
  MaxEdges = 2
  MaxRoots = 2
CONSTRAINT SmallGraph
INVARIANTS NoDanglingReference FinalizerRunsOnce
PROPERTIES FinalizedBeforeReclaimed
