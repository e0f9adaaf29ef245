---------------------------- MODULE MCWriteQueue ----------------------------
(* Operations of the write queue, one of them of a higher priority.        *)
EXTENDS WriteQueue

CONSTANT urgent

OneUrgent == [o \in Op |-> IF o = urgent THEN 1 ELSE 0]

=============================================================================
