SPECIFICATION FairSpec
CONSTANTS
  urgent = o3
  Op = {o1, o2, o3, o4}
  Caller = {r1, r2}
  NoOp = NoOp
  Priority <- OneUrgent
INVARIANTS
  TypeOK
  NoLostWakeup
  ResetAlone
PROPERTIES
  StartsInOrder
  KeepsSessionsApart
  EveryOpAnswered
  ResetsReturn
CHECK_DEADLOCK FALSE
