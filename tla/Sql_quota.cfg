\* Two processes publish at the same time.
SPECIFICATION ChainSpec
CONSTANTS
  Sessions = {s1, s2}
  Revisions = {r0, r1, r2}
  NoRevision = none
  NoSession = nobody
  Seed = r0
  Limit = 2
  Unclear = FALSE
  Timeouts = FALSE
INVARIANTS WithinQuota
