CONSTANTS
  Scenes <- MCScenes
  MaxCalls = 6
  ArgLimit = 2
  InitAnswers = {"None"}
SPECIFICATION Spec
INVARIANTS
  PathsAgree
  ContinuationsRooted
  ResultsRight
