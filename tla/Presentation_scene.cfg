SPECIFICATION Spec
CONSTANTS
  Limit = 2
  Operations = {"append", "clear", "wait", "scene"}
  MaxOutputs = 3
  MaxReturns = 1
  MaxFaults = 0
  MaxBoundaries = 0
  SceneAcrossGames = TRUE
INVARIANTS AppFollows
