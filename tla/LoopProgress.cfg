SPECIFICATION FairSpec
CONSTANTS
  c1 = c1
  MaxObjects = 3
  Programs <- MCSleepers
PROPERTIES TimersMature ReadyTasksRun
