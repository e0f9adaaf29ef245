CONSTANTS
  c1 = c1 c2 = c2 c3 = c3 s1 = s1 s2 = s2 t2 = t2
  Cmd = {c1,c2}
  Stream = {s1}
  Caller = {t1,t2}
  Drain = Drain
  NoCmd = NoCmd
  Request <- OneStreamRequest
  Classified = {c2}
  Miswired = {c2}
  Unhydratable = {c1}
  MaxAttempts = 2
  MaxDisturbances = 1
  MaxAlone = 4
  Kinds = {"pause", "kick", "cancel", "conflict", "retry", "applied"}
  Offline = FALSE
  Serial = FALSE
SPECIFICATION MCSpec
INVARIANTS TypeOK SingleFlight NoneStranded AttemptsBounded
PROPERTY AcceptedOnce
CHECK_DEADLOCK FALSE
