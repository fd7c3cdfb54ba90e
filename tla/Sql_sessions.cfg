\* Two processes, three revisions, one of which is over the limit.
SPECIFICATION FairSpec
CONSTANTS
  Sessions = {s1, s2}
  Revisions = {r0, r1, r2}
  NoRevision = none
  NoSession = nobody
  Seed = r0
  Limit = 2
  Unclear = TRUE
  Timeouts = TRUE
INVARIANTS ChainTypeOK Recoverable
PROPERTIES CompareAndSet OperationSettles
