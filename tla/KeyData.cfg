SPECIFICATION Spec
CONSTANTS
  Ephemeral = TRUE
  Window = {w1, w2}
  MaxPages = 2
  MaxPending = 4
  MaxResets = 2
  MaxCrashes = 1
INVARIANTS TypeOK StatusTrusted
CHECK_DEADLOCK FALSE
