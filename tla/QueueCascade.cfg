CONSTANTS
  c1 = c1 c2 = c2 c3 = c3 s1 = s1 s2 = s2 t2 = t2
  Cmd = {c1,c2,c3}
  Stream = {s1}
  Caller = {t1}
  Drain = Drain
  NoCmd = NoCmd
  Request <- OneStreamRequest
  Classified = {c3}
  Miswired = {}
  Unhydratable = {}
  MaxAttempts = 2
  MaxDisturbances = 1
  MaxAlone = 0
  Kinds = {"cancel", "conflict"}
  Offline = TRUE
  Serial = FALSE
SPECIFICATION MCSpec
INVARIANTS SentAfterGate HardGate
PROPERTY KeepsPromise
CHECK_DEADLOCK FALSE
