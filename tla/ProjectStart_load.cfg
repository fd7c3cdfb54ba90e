\* Every way to load, save and reload, with an operation that fails, a refusal of the
\* runtime and an editor at work.
SPECIFICATION FairSpec
CONSTANTS
  Projects = {"directory", "file", "read_only_file"}
  Moves = {"restart", "recompile", "reload", "save", "save_and_restart", "preferences"}
  Edits = {"sources", "configuration"}
  Failures = {"destroy", "scan", "rescan", "create", "progress", "decode", "hello", "read", "write",
              "identity", "progress_and_abort", "decode_and_abort", "hello_and_abort"}
  Careful = TRUE
  MaxMoves = 2
  MaxEdits = 1
  MaxFailures = 1
  MaxRefusals = 1
INVARIANTS HandleOwned StartSettled CopiesAgree
PROPERTIES ForeignEditKept RequestsAnswered
