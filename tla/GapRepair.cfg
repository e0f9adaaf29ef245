SPECIFICATION FairSpec
CONSTANTS
  MaxRevision = 3
  MaxRefetches = 1
  MaxResets = 1
  MaxCrashes = 1
  Written = {TRUE, FALSE}
INVARIANTS
  TypeOK
  RepairPromised
PROPERTIES
  GapCloses
CHECK_DEADLOCK FALSE
