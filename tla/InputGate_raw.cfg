\* A wait for raw input.
SPECIFICATION FairSpec
CONSTANTS
  Waits = {1, 2}
  KindOf <- MCRaw
  Timed = {}
  Gestures = {"text"}
  MaxGestures = 2
  MaxTracked = 3
  MaxPauses = 0
  Failures = FALSE
PROPERTIES EveryGateReleases
