\* Every scan and every reload, with an editor at work between any two looks.
SPECIFICATION Spec
CONSTANTS
  Paths = {a, b}
  Folder = {a}
  Contents = {0, 1, 2}
  Kinds = {"load", "recompile", "reload_all", "reload_folder", "reload_file"}
  Attempts = 2
  MaxEdits = 2
  MaxOperations = 2
INVARIANTS ScanIsSnapshot IndexTrue BaselineTrue
PROPERTIES UnselectedKept
