SPECIFICATION FairSpec
CONSTANTS
  Surfaces = {"console", "variables", "stack"}
  Gestures = {"toggle", "single", "step", "input", "title"}
  Odd = {"revoke"}
  Hasty = {"toggle", "single", "step", "evaluate"}
  MaxConsoles = 1
  MaxCorrelations = 1
  MaxMoves = 5
PROPERTY DebugSettles
CHECK_DEADLOCK FALSE
