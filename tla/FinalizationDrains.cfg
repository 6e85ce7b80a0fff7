SPECIFICATION FairSpec
CONSTANTS
  GENERATOR_FINALIZERS_PER_SAFEPOINT = 1
  OBJECT_FINALIZERS_PER_SAFEPOINT = 1
  MaxGenerators = 2
  MaxObjects = 2
  MaxForeign = 1
INVARIANTS FinalizersNest NoCodeWithoutRoots
PROPERTIES DestructorsOutsideFinalizers OperationsEnd
