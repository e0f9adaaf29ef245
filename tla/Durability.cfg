SPECIFICATION OrderedSpec
CONSTANTS
  c1 = c1 c2 = c2 c3 = c3
  Cmd = {c1, c2}
  NoCmd = NoCmd
  MaxAttempts = 2
  MaxCrashes = 1
  MaxClears = 1
INVARIANTS
  TypeOK
  
  NoneLost
  NoneReleasedEarly
  
CHECK_DEADLOCK FALSE
