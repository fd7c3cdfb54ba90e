SPECIFICATION Spec
CONSTANTS
  MaxEpoch = 2
  MaxRequests = 7
  MaxReaders = 2
INVARIANTS AnswersTrue ReadersOwned
CHECK_DEADLOCK FALSE
