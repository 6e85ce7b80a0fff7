SPECIFICATION Spec
CONSTANTS
  Threads = {t1, t2}
  Modules = {m1, m2}
  Values = {u, v}
  Programs <- MCPrograms
  MaxToken <- MCMaxToken
  MaxItems = 1
  MaxDepth = 4
  None = None
INVARIANTS
  TokensNameOneValue
  BuildersKeepItems
  FieldsMatchEdges
PROPERTY
  ValuesAreClean
SYMMETRY Alike
CHECK_DEADLOCK FALSE
