\* Two waits of one kind and a raw one, every gesture, timed waits, one pause,
\* failures, and fewer inputs remembered than in flight.
SPECIFICATION FairSpec
CONSTANTS
  Waits = {1, 2, 3}
  KindOf <- MCKinds
  Timed = {1, 2, 3}
  Gestures = {"text", "activate", "skip", "undo"}
  MaxGestures = 2
  MaxTracked = 1
  MaxPauses = 1
  Failures = TRUE
INVARIANTS RetryDisciplined AnsweredStaysShut
PROPERTIES GateReleases
