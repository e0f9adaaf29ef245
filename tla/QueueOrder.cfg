CONSTANTS
  c1 = c1 c2 = c2 c3 = c3 s1 = s1 s2 = s2 t2 = t2
  Cmd = {c1,c2,c3}
  Stream = {s1,s2}
  Caller = {t1}
  Drain = Drain
  NoCmd = NoCmd
  Request <- TwoStreamRequest
  Classified = {}
  Miswired = {}
  Unhydratable = {}
  MaxAttempts = 2
  MaxDisturbances = 0
  MaxAlone = 0
  Kinds = {}
  Offline = FALSE
  Serial = TRUE
SPECIFICATION MCSpec
INVARIANTS StreamOrder NoneStranded
CHECK_DEADLOCK FALSE
