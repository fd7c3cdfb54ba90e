SPECIFICATION ViewportSpec
CONSTANTS
  Limit = 2
  Kinds = {"plain", "button", "edge"}
  Generations = {1, 2}
  Waits = {0, 1, 2}
  MaxOperations = 3
  MaxSubmissions = 2
  MaxLocks = 1
  Careful = TRUE
INVARIANTS ScreenTrue RetiredForGood
