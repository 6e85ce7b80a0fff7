SPECIFICATION Spec
CONSTANTS
  c1 = c1
  MaxObjects = 4
  Programs <- MCPrograms
INVARIANTS NoLostWakeup WaitsOnce
PROPERTIES AwaitResumedBySource CompletionQueues
