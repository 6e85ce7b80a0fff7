CONSTANTS
  MinInt <- MCMinInt
  MaxInt = 4
  Scenes <- MCScenes
  MaxCalls = 4
  MaxFrames = 3
  JitThreshold = 2
  OsrThreshold = 2
  QuickenThreshold = 2
  MinInstructions = 4
  DeoptLimit = 2
  PollInterval = 2
  PollAnswers = {0, 1}
  MaxCode = 30
  WarmupCode = 20
SPECIFICATION Spec
INVARIANTS
  CompiledAgrees
  FactsHold
  NoStaleSpecialization
PROPERTY
  CallsEnd
