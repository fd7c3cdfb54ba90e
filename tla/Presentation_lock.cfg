SPECIFICATION Spec
CONSTANTS
  Limit = 2
  Operations = {"append", "wait"}
  MaxOutputs = 3
  MaxReturns = 0
  MaxFaults = 0
  MaxBoundaries = 0
  SceneAcrossGames = FALSE
INVARIANTS LockedUntilPainted
