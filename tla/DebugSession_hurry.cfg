SPECIFICATION FairSpec
CONSTANTS
  Surfaces = {"console", "variables", "stack"}
  Gestures = {"toggle", "single", "step", "input", "title"}
  Odd = {}
  Hasty = {"toggle", "single", "step", "evaluate", "title", "open"}
  MaxConsoles = 1
  MaxCorrelations = 1
  MaxMoves = 5
PROPERTY DebugSettles
CHECK_DEADLOCK FALSE
