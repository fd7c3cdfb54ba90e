\* Every operation ends, whatever cannot be read or changes meanwhile.
SPECIFICATION FairSpec
CONSTANTS
  Paths = {a, b}
  Folder = {a}
  Contents = {0, 1}
  Kinds = {"load", "recompile", "reload_all", "reload_folder", "reload_file"}
  Attempts = 2
  MaxEdits = 2
  MaxOperations = 1
PROPERTIES OperationEnds
