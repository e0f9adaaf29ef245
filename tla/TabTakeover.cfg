SPECIFICATION FairSpec
CONSTANTS
  Tab = {t1, t2}
  NoTab = NoTab
  MaxAttempts = 3
  MaxFailures = 1
  MaxLags = 1
INVARIANTS TypeOK 
 
CHECK_DEADLOCK FALSE
