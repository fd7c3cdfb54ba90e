\* The settings are saved while another program edits the sources.
SPECIFICATION FairSpec
CONSTANTS
  Projects = {"directory"}
  Moves = {"save", "reload"}
  Edits = {"sources"}
  Failures = {}
  Careful = FALSE
  MaxMoves = 2
  MaxEdits = 1
  MaxFailures = 0
  MaxRefusals = 0
INVARIANTS BaselineKept
