CONSTANTS
  None = None
  Functions = {"f"}
  Generators = {"gen", "sub", "agen"}
  KindOf <- MCKindOf
  CodeOf <- MCCodeOf
  Modules = {"m"}
  Awaitables = {"a", "b"}
  Programs <- MCPrograms
  MaxFrames = 4
SPECIFICATION Spec
INVARIANTS RunningOnStack ImportsReset ContinuationOfCaller
PROPERTIES NoHandlerSkipped UnwindingAdvances
CHECK_DEADLOCK FALSE
