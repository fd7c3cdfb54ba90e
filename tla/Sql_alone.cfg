\* One process, no deadline passes.
SPECIFICATION ChainSpec
CONSTANTS
  Sessions = {s1}
  Revisions = {r0, r1, r2}
  NoRevision = none
  NoSession = nobody
  Seed = r0
  Limit = 2
  Unclear = TRUE
  Timeouts = FALSE
INVARIANTS WithinQuota
PROPERTIES NeverRolledBack
