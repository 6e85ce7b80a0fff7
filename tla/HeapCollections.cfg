SPECIFICATION Spec
CONSTANTS
  MaxSlots = 2
  MAX_GENERATION = 2
  Fields = {1}
  Kinds = {"container", "cell"}
  MaxRefs = 2
  MaxEdges = 3
  MaxRoots = 2
CONSTRAINT SmallGraph
INVARIANTS StorageConsistent NoDanglingReference RememberedSetComplete ReclaimedStaysDead
PROPERTIES MajorCollectionComplete
