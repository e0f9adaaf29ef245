---------------------------- MODULE SerialWriter ----------------------------
(***************************************************************************)
(* What the write queue promises its users: one write at a time, each      *)
(* write wholly inside the session that accepted it, and a wipe of the     *)
(* local data only while nothing is being written.  Order, microtasks and  *)
(* the bookkeeping of promises are the concern of WriteQueue.              *)
(***************************************************************************)
EXTENDS Naturals

CONSTANT Op  \* the operations submitted, each once

VARIABLES
  stage,   \* what has become of each operation
  origin,  \* the session that accepted it
  era,     \* the session: the number of wipes so far
  gate,    \* "open", or why nothing more is accepted
  wipe     \* a reset waits for the write in progress, then wipes

vars == <<stage, origin, era, gate, wipe>>

Idle == \A o \in Op : stage[o] # "writing"

Init == /\ stage = [o \in Op |-> "new"]
        /\ origin = [o \in Op |-> 0]
        /\ era = 0
        /\ gate = "open"
        /\ wipe = "none"

Accept(o) == /\ stage[o] = "new" /\ gate = "open"
             /\ stage' = [stage EXCEPT ![o] = "waiting"]
             /\ origin' = [origin EXCEPT ![o] = era]
             /\ UNCHANGED <<era, gate, wipe>>

Refuse(o) == /\ stage[o] = "new" /\ gate # "open"
             /\ stage' = [stage EXCEPT ![o] = "discarded"]
             /\ UNCHANGED <<origin, era, gate, wipe>>

\* A write begins only in the session that accepted it.
MayBegin(o) == stage[o] = "waiting" /\ gate = "open" /\ origin[o] = era

Begin(o) == /\ Idle /\ MayBegin(o)
            /\ stage' = [stage EXCEPT ![o] = "writing"]
            /\ UNCHANGED <<origin, era, gate, wipe>>

End(o, result) == /\ stage[o] = "writing"
                  /\ stage' = [stage EXCEPT ![o] = result]
                  /\ UNCHANGED <<origin, era, gate, wipe>>

\* The next write begins in the step that ends one.
EndBegin(o, result, next) ==
  /\ stage[o] = "writing" /\ MayBegin(next)
  /\ stage' = [stage EXCEPT ![o] = result, ![next] = "writing"]
  /\ UNCHANGED <<origin, era, gate, wipe>>

DiscardWaiting ==
  stage' = [o \in Op |-> IF stage[o] = "waiting" THEN "discarded" ELSE stage[o]]

Reset == /\ gate = "open"
         /\ gate' = "resetting" /\ wipe' = "due"
         /\ DiscardWaiting
         /\ UNCHANGED <<origin, era>>

Wipe == /\ wipe = "due" /\ Idle
        /\ wipe' = "wiping" /\ era' = era + 1
        /\ UNCHANGED <<stage, origin, gate>>

Reopen == /\ wipe = "wiping"
          /\ wipe' = "none"
          /\ gate' = IF gate = "resetting" THEN "open" ELSE gate
          /\ UNCHANGED <<stage, origin, era>>

Close == /\ gate' = "closed"
         /\ DiscardWaiting
         /\ UNCHANGED <<origin, era, wipe>>

Next == \/ \E o \in Op : Accept(o) \/ Refuse(o) \/ Begin(o)
        \/ \E o \in Op, result \in {"written", "failed"} :
             \/ End(o, result)
             \/ \E next \in Op : EndBegin(o, result, next)
        \/ Reset \/ Wipe \/ Reopen \/ Close

Spec == Init /\ [][Next]_vars

=============================================================================
