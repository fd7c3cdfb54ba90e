\* A setting is saved in a game that came from the compiled cache.
SPECIFICATION FairSpec
CONSTANTS
  Paths = {a, b}
  Folder = {a}
  Contents = {1}
  Kinds = {"load", "configure"}
  Attempts = 2
  MaxEdits = 0
  MaxOperations = 2
INVARIANTS BaselineDue
