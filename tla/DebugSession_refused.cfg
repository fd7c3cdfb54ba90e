SPECIFICATION FairSpec
CONSTANTS
  Surfaces = {"console", "variables", "stack"}
  Gestures = {"toggle", "single", "step", "input", "title"}
  Odd = {"refuse"}
  Hasty = {"toggle", "single", "step", "evaluate"}
  MaxConsoles = 1
  MaxCorrelations = 1
  MaxMoves = 4
PROPERTY DebugSettles
CHECK_DEADLOCK FALSE
