\* A project export is cancelled and another export begun before the answer comes.
SPECIFICATION Spec
CONSTANTS
  Jobs = {"snapshot", "project"}
  Moves = {"cancel"}
  Packaged = FALSE
  DiskFailures = {}
  Careful = TRUE
  MaxChunks = 1
  MaxActions = 3
  MaxRejects = 0
  MaxFailures = 0
  MaxFaults = 0
PROPERTIES OnlyTheDisk
