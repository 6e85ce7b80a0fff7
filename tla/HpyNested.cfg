SPECIFICATION Spec
CONSTANTS
  Threads = {t1, t2}
  Modules = {m1}
  Values = {u}
  Programs <- NestedPrograms
  MaxToken <- MCMaxToken
  MaxItems = 1
  MaxDepth = 4
  None = None
INVARIANT
  NestedCallsRefused
CHECK_DEADLOCK FALSE
