\* Every job and every way out of it, with a failing disk, refusals and a fault of
\* the game, for a user who may start the next
\* before the last answer about what he gave up has come.
SPECIFICATION FairSpec
CONSTANTS
  Jobs = {"snapshot", "replay", "project", "diagnosis"}
  Moves = {"cancel", "title", "restart", "restore"}
  Packaged = FALSE
  DiskFailures = {"open", "write", "finish", "manifest", "archive"}
  Careful = TRUE
  MaxChunks = 1
  MaxActions = 3
  MaxRejects = 1
  MaxFailures = 1
  MaxFaults = 1
INVARIANTS NothingLeft JobTracked
PROPERTIES WorkerSurvives InteractionRestored
