SPECIFICATION Spec
CONSTANTS
  p = p
  c = c
  e = e
  Key = {p, c, e}
  NoKey = NoKey
  ParentOf <- Parents
  Ephemeral = {e}
  Expiring = {p}
  Templates = {p, e}
  Freezes = {p}
  Holds = {e}
  Window = {w1}
  MaxCacheKeys = 2
  MaxPending = 2
  MaxEnds = 1
INVARIANTS TypeOK TableFollows 
CHECK_DEADLOCK FALSE
