\* A fault of the game while the diagnosis reads the project.
SPECIFICATION FairSpec
CONSTANTS
  Jobs = {"diagnosis"}
  Moves = {"title"}
  Packaged = FALSE
  DiskFailures = {"open", "write", "finish", "manifest", "archive"}
  Careful = TRUE
  MaxChunks = 1
  MaxActions = 2
  MaxRejects = 0
  MaxFailures = 0
  MaxFaults = 1
PROPERTIES AlwaysRestored
