SPECIFICATION FairSpec
CONSTANTS
  Limit = 2
  Operations = {"append", "delete", "clear", "replace", "trim", "wait", "scene"}
  MaxOutputs = 3
  MaxReturns = 1
  MaxFaults = 1
  MaxBoundaries = 1
  SceneAcrossGames = FALSE
INVARIANTS RetiredStaysBlank CopyTrue
PROPERTIES WaitReachesPlayer
