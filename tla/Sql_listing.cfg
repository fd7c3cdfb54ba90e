\* One process, which may die.
SPECIFICATION ChainSpec
CONSTANTS
  Sessions = {s1}
  Revisions = {r0, r1}
  NoRevision = none
  NoSession = nobody
  Seed = r0
  Limit = 2
  Unclear = FALSE
  Timeouts = FALSE
INVARIANTS ListingWellFormed
