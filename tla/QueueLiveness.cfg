CONSTANTS
  c1 = c1 c2 = c2 c3 = c3 s1 = s1 s2 = s2 t2 = t2
  Cmd = {c1,c2}
  Stream = {s1}
  Caller = {t1}
  Drain = Drain
  NoCmd = NoCmd
  Request <- ChainRequest
  Classified = {c2}
  Miswired = {}
  Unhydratable = {}
  MaxAttempts = 2
  MaxDisturbances = 1
  MaxAlone = 0
  Kinds = {"pause"}
  Offline = FALSE
  Serial = FALSE
SPECIFICATION MCFairSpec
PROPERTIES SendSettles RetryFires CallsReturn
CHECK_DEADLOCK FALSE
