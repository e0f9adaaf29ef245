-------------------------- MODULE WriteQueueProofs --------------------------
(***************************************************************************)
(* Theorems about WriteQueue for any operations, priorities and callers of *)
(* resetSession: its type invariant, the order of its operations, that a   *)
(* reset runs alone, and that it implements SerialWriter.                  *)
(***************************************************************************)
EXTENDS WriteQueue, TLAPS, SequenceTheorems, WellFoundedInduction

\* The pending entries are in the order they will be taken, were accepted in
\* the current session, and have ids the counter has passed.
PendingInv ==
  /\ \A i, j \in DOMAIN pending : i < j => Ahead(pending[i], pending[j])
  /\ \A i \in DOMAIN pending : /\ opId[pending[i]] <= counter
                               /\ born[pending[i]] = wipes
                               /\ pending[i] # running

\* What each status says of the loop and of the reset.
StatusInv ==
  /\ status = "idle" => running = NoOp /\ (pending # <<>> => loops > 0)
  /\ status = "processing" => running # NoOp
  /\ status \in {"resetting", "destroyed"} => pending = <<>>
  /\ status = "resetting" => reset # "none"
  /\ reset # "none" => status \in {"resetting", "destroyed"}
  /\ reset = "handler" => running = NoOp

QueueInv == TypeOK /\ PendingInv /\ StatusInv

-----------------------------------------------------------------------------
(* The pending sequence.                                                   *)

Waiting == {o \in Op : answer[o] = "waiting"}

\* What the type invariant says of an entry.
LEMMA EntryType ==
  ASSUME TypeOK
  PROVE  /\ pending \in Seq(Op)
         /\ Len(pending) \in Nat
         /\ DOMAIN pending = 1..Len(pending)
         /\ \A i \in DOMAIN pending : pending[i] \in Op /\ answer[pending[i]] = "waiting"
<1>1. pending \in Seq(Waiting)
  BY DEF TypeOK, Waiting
<1>2. /\ Len(pending) \in Nat
      /\ DOMAIN pending = 1..Len(pending)
      /\ \A i \in 1..Len(pending) : pending[i] \in Waiting
  BY <1>1, LenProperties, ElementOfSeq
<1>3. pending = [i \in 1..Len(pending) |-> pending[i]]
  BY <1>1, SeqDef
<1>4. pending \in Seq(Op)
  BY <1>2, <1>3, IsASeq DEF Waiting
<1>. QED
  BY <1>2, <1>4 DEF Waiting

\* A sequence of operations whose promises are open has the type of `pending`.
LEMMA OpenEntries ==
  ASSUME NEW s \in Seq(Op), NEW W \in SUBSET Op, \A i \in DOMAIN s : s[i] \in W
  PROVE  s \in Seq(W)
<1>1. Len(s) \in Nat /\ DOMAIN s = 1..Len(s)
  BY LenProperties
<1>2. s = [i \in 1..Len(s) |-> s[i]]
  BY SeqDef
<1>. QED
  BY <1>1, <1>2, IsASeq

\* Each entry after an insertion is the new one or an old one, and the ones
\* that moved back are those of a lower priority.
LEMMA InsertEntries ==
  ASSUME TypeOK, PendingInv, NEW o \in Op
  PROVE  /\ Insert(o) \in Seq(Op)
         /\ Len(Insert(o)) = Len(pending) + 1
         /\ DOMAIN Insert(o) = 1..(Len(pending) + 1)
         /\ \A k \in 1..(Len(pending) + 1) :
              \/ k - 1 \in Lower(o) /\ Insert(o)[k] = pending[k - 1]
              \/ (\A i \in Lower(o) : i >= k) /\ (k \in Lower(o) \/ k = Len(pending) + 1)
                   /\ Insert(o)[k] = o
              \/ (\A i \in Lower(o) : i > k) /\ k \in DOMAIN pending \ Lower(o)
                   /\ Insert(o)[k] = pending[k]
<1>1. /\ pending \in Seq(Op)
      /\ Len(pending) \in Nat
      /\ DOMAIN pending = 1..Len(pending)
      /\ \A i \in DOMAIN pending : pending[i] \in Op
  BY EntryType
<1>2. Priority \in [Op -> Nat]
  BY PriorityAssumption
<1>3. ASSUME NEW k \in 1..(Len(pending) + 1), NEW i \in Lower(o), i < k
      PROVE  k - 1 \in Lower(o)
  <2>1. i \in DOMAIN pending /\ Priority[pending[i]] < Priority[o] /\ k - 1 \in DOMAIN pending
    BY <1>1, <1>3 DEF Lower
  <2>2. i = k - 1 \/ Ahead(pending[i], pending[k - 1])
    BY <1>1, <1>3, <2>1 DEF PendingInv
  <2>3. Priority[pending[k - 1]] <= Priority[pending[i]]
    BY <1>1, <1>2, <2>1, <2>2 DEF Ahead
  <2>. QED
    BY <1>1, <1>2, <2>1, <2>3 DEF Lower
<1>4. Insert(o) \in [1..(Len(pending) + 1) -> Op]
  <2>1. ASSUME NEW k \in 1..(Len(pending) + 1), NEW i \in Lower(o), i < k
        PROVE  pending[k - 1] \in Op
    BY <1>1, <1>3, <2>1 DEF Lower
  <2>. QED
    BY <1>1, <2>1 DEF Insert, Lower
<1>5. /\ Insert(o) \in Seq(Op)
      /\ Len(Insert(o)) = Len(pending) + 1
      /\ DOMAIN Insert(o) = 1..(Len(pending) + 1)
  BY <1>1, <1>4, SeqDef, LenProperties
<1>6. ASSUME NEW k \in 1..(Len(pending) + 1)
      PROVE  \/ k - 1 \in Lower(o) /\ Insert(o)[k] = pending[k - 1]
             \/ (\A i \in Lower(o) : i >= k) /\ (k \in Lower(o) \/ k = Len(pending) + 1)
                  /\ Insert(o)[k] = o
             \/ (\A i \in Lower(o) : i > k) /\ k \in DOMAIN pending \ Lower(o)
                  /\ Insert(o)[k] = pending[k]
  <2>0. Lower(o) \subseteq 1..Len(pending)
    BY <1>1 DEF Lower
  <2>1. CASE \E i \in Lower(o) : i < k
    BY <1>3, <2>1 DEF Insert
  <2>2. CASE ~(\E i \in Lower(o) : i < k) /\ (k \in Lower(o) \/ k = Len(pending) + 1)
    <3>1. Insert(o)[k] = o
      BY <2>2 DEF Insert
    <3>. QED
      BY <1>1, <2>0, <2>2, <3>1
  <2>3. CASE ~(\E i \in Lower(o) : i < k) /\ ~(k \in Lower(o) \/ k = Len(pending) + 1)
    <3>1. Insert(o)[k] = pending[k]
      BY <2>3 DEF Insert
    <3>2. \A i \in Lower(o) : i > k
      BY <1>1, <2>0, <2>3
    <3>. QED
      BY <1>1, <2>3, <3>1, <3>2
  <2>. QED
    BY <2>1, <2>2, <2>3
<1>. QED
  BY <1>5, <1>6


-----------------------------------------------------------------------------
(* Each action keeps QueueInv.                                             *)

LEMMA AcceptKeeps ==
  ASSUME QueueInv, NEW o \in Op, Accept(o)
  PROVE  QueueInv'
<1>0. TypeOK /\ PendingInv /\ StatusInv
  BY DEF QueueInv
<1>1. /\ pending \in Seq(Op)
      /\ Len(pending) \in Nat
      /\ DOMAIN pending = 1..Len(pending)
      /\ \A i \in DOMAIN pending : pending[i] \in Op /\ answer[pending[i]] = "waiting"
  BY <1>0, EntryType
<1>2. /\ Insert(o) \in Seq(Op)
      /\ Len(Insert(o)) = Len(pending) + 1
      /\ DOMAIN Insert(o) = 1..(Len(pending) + 1)
      /\ \A k \in 1..(Len(pending) + 1) :
           \/ k - 1 \in Lower(o) /\ Insert(o)[k] = pending[k - 1]
           \/ (\A i \in Lower(o) : i >= k) /\ (k \in Lower(o) \/ k = Len(pending) + 1)
                /\ Insert(o)[k] = o
           \/ (\A i \in Lower(o) : i > k) /\ k \in DOMAIN pending \ Lower(o)
                /\ Insert(o)[k] = pending[k]
  BY <1>0, InsertEntries
<1>3. /\ pending' = Insert(o) /\ answer' = [answer EXCEPT ![o] = "waiting"]
      /\ opId' = [opId EXCEPT ![o] = counter + 1] /\ counter' = counter + 1
      /\ born' = [born EXCEPT ![o] = wipes]
      /\ answer[o] = "unsent" /\ status \in {"idle", "processing"}
      /\ loops' = IF status = "idle" THEN loops + 1 ELSE loops
      /\ UNCHANGED <<status, running, reset, call, wipes>>
  BY DEF Accept, resetting
<1>4. /\ opId \in [Op -> Nat] /\ answer \in [Op -> Answer] /\ born \in [Op -> Nat]
      /\ counter \in Nat /\ loops \in Nat /\ wipes \in Nat
      /\ running \in Waiting \cup {NoOp}
  BY <1>0 DEF TypeOK, Waiting
<1>5. Lower(o) = {i \in 1..Len(pending) : Priority[pending[i]] < Priority[o]}
  BY <1>1 DEF Lower
<1>6. \A k \in 1..(Len(pending) + 1) :
        \/ Insert(o)[k] = o
        \/ \E i \in DOMAIN pending : Insert(o)[k] = pending[i]
  BY <1>2, <1>5, <1>1
<1>7. TypeOK'
  <2>1. \A k \in DOMAIN Insert(o) : Insert(o)[k] \in Waiting'
    BY <1>1, <1>2, <1>3, <1>4, <1>6 DEF Waiting
  <2>2. Insert(o) \in Seq(Waiting')
    BY <1>2, <2>1, OpenEntries DEF Waiting
  <2>3. pending' \in Seq({p \in Op : answer'[p] = "waiting"})
    BY <1>3, <2>2 DEF Waiting
  <2>4. running' \in {p \in Op : answer'[p] = "waiting"} \cup {NoOp}
    BY <1>3, <1>4 DEF Waiting
  <2>5. answer' \in [Op -> Answer]
    BY <1>3, <1>4 DEF Answer
  <2>. QED
    BY <1>0, <1>3, <1>4, <2>3, <2>4, <2>5 DEF TypeOK
<1>8. PendingInv'
  <2> DEFINE Before(p, q) == \/ Priority[p] > Priority[q]
                             \/ Priority[p] = Priority[q] /\ opId'[p] < opId'[q]
  <2>1. \A i \in DOMAIN pending : /\ pending[i] # o /\ opId'[pending[i]] = opId[pending[i]]
                                  /\ opId[pending[i]] \in Nat
                                  /\ opId[pending[i]] < opId'[o]
                                  /\ born'[pending[i]] = wipes /\ pending[i] # running
    BY <1>0, <1>1, <1>3, <1>4 DEF PendingInv
  <2>2. ASSUME NEW k \in 1..(Len(pending) + 1)
        PROVE  opId'[pending'[k]] <= counter' /\ born'[pending'[k]] = wipes' /\ pending'[k] # running'
    <3>1. CASE Insert(o)[k] = o
      BY <1>3, <1>4, <3>1, NoOpAssumption DEF Waiting
    <3>2. CASE \E i \in DOMAIN pending : Insert(o)[k] = pending[i]
      <4>1. PICK i \in DOMAIN pending : Insert(o)[k] = pending[i]
        BY <3>2
      <4>. QED
        BY <1>3, <1>4, <2>1, <4>1
    <3>. QED
      BY <1>6, <3>1, <3>2
  <2>3. ASSUME NEW k \in 1..(Len(pending) + 1), NEW l \in 1..(Len(pending) + 1), k < l
        PROVE  Before(Insert(o)[k], Insert(o)[l])
    <3>0. Priority \in [Op -> Nat]
      BY PriorityAssumption
    <3>1. \A i, j \in DOMAIN pending : i < j =>
            /\ Priority[pending[i]] \in Nat /\ Priority[pending[j]] \in Nat
            /\ \/ Priority[pending[i]] > Priority[pending[j]]
               \/ Priority[pending[i]] = Priority[pending[j]]
                    /\ opId'[pending[i]] < opId'[pending[j]]
      BY <1>0, <1>1, <2>1, <3>0 DEF PendingInv, Ahead
    <3>2. CASE k - 1 \in Lower(o) /\ Insert(o)[k] = pending[k - 1]
      <4>1. l - 1 \in Lower(o) /\ Insert(o)[l] = pending[l - 1]
        BY <1>1, <1>2, <1>5, <2>3, <3>2
      <4>. QED
        BY <1>1, <1>5, <2>3, <3>1, <3>2, <4>1
    <3>3. CASE (\A i \in Lower(o) : i >= k) /\ (k \in Lower(o) \/ k = Len(pending) + 1)
                 /\ Insert(o)[k] = o
      <4>1. l - 1 \in Lower(o) /\ Insert(o)[l] = pending[l - 1]
        BY <1>1, <1>2, <1>5, <2>3, <3>3
      <4>. QED
        BY <1>1, <1>5, <3>0, <3>3, <4>1
    <3>4. CASE (\A i \in Lower(o) : i > k) /\ k \in DOMAIN pending \ Lower(o)
                 /\ Insert(o)[k] = pending[k]
      <4>1. CASE l - 1 \in Lower(o) /\ Insert(o)[l] = pending[l - 1]
        BY <1>1, <1>5, <2>3, <3>1, <3>4, <4>1
      <4>2. CASE Insert(o)[l] = o
        <5>1. Priority[pending[k]] >= Priority[o] /\ opId'[pending[k]] < opId'[o]
          BY <1>1, <1>5, <2>1, <3>0, <3>4
        <5>. QED
          BY <1>1, <3>0, <3>4, <4>2, <5>1
      <4>3. CASE l \in DOMAIN pending /\ Insert(o)[l] = pending[l]
        BY <2>3, <3>1, <3>4, <4>3
      <4>. QED
        BY <1>2, <4>1, <4>2, <4>3
    <3>. QED
      BY <1>2, <3>2, <3>3, <3>4
  <2>4. \A k, l \in DOMAIN pending' : k < l => Before(pending'[k], pending'[l])
    BY <1>2, <1>3, <2>3
  <2>. QED
    BY <1>2, <1>3, <2>2, <2>4 DEF PendingInv, Ahead
<1>9. StatusInv'
  BY <1>0, <1>3, <1>4 DEF StatusInv
<1>. QED
  BY <1>7, <1>8, <1>9 DEF QueueInv

\* Taking the head of the queue, the loop's only way to start an operation.
LEMMA HeadAndTail ==
  ASSUME QueueInv, pending # <<>>
  PROVE  /\ 1 \in DOMAIN pending /\ Head(pending) = pending[1]
         /\ Head(pending) \in Op /\ answer[Head(pending)] = "waiting"
         /\ Head(pending) # running
         /\ Tail(pending) \in Seq(Op)
         /\ DOMAIN Tail(pending) = 1..(Len(pending) - 1)
         /\ \A i \in DOMAIN Tail(pending) : /\ i + 1 \in DOMAIN pending
                                            /\ Tail(pending)[i] = pending[i + 1]
                                            /\ Tail(pending)[i] # Head(pending)
<1>1. /\ pending \in Seq(Op)
      /\ Len(pending) \in Nat
      /\ DOMAIN pending = 1..Len(pending)
      /\ \A i \in DOMAIN pending : pending[i] \in Op /\ answer[pending[i]] = "waiting"
  BY EntryType DEF QueueInv
<1>2. Len(pending) > 0 /\ Head(pending) = pending[1]
  BY <1>1, EmptySeq
<1>3. /\ Tail(pending) \in Seq(Op)
      /\ DOMAIN Tail(pending) = 1..(Len(pending) - 1)
      /\ \A i \in 1..(Len(pending) - 1) : Tail(pending)[i] = pending[i + 1]
  BY <1>1, HeadTailProperties, LenProperties
<1>4. \A i \in 2..Len(pending) : Ahead(pending[1], pending[i])
  BY <1>1, <1>2 DEF QueueInv, PendingInv
<1>5. \A i \in 2..Len(pending) : pending[i] # pending[1]
  <2>1. Priority[pending[1]] \in Nat /\ opId[pending[1]] \in Nat
    BY <1>1, <1>2, PriorityAssumption DEF QueueInv, TypeOK
  <2>2. ASSUME NEW i \in 2..Len(pending), pending[i] = pending[1] PROVE FALSE
    <3>1. Ahead(pending[1], pending[1])
      BY <1>4, <2>2
    <3>. QED
      BY <2>1, <3>1 DEF Ahead
  <2>. QED
    BY <2>2
<1>. QED
  BY <1>1, <1>2, <1>3, <1>5 DEF QueueInv, PendingInv

LEMMA TakeNextKeeps ==
  ASSUME QueueInv, TakeNext, status \in {"idle", "processing"},
         loops' \in Nat, UNCHANGED <<opId, counter, born, resetting>>,
         answer' \in [Op -> Answer],
         \A o \in Op : o # running => answer'[o] = answer[o]
  PROVE  QueueInv'
<1>1. CASE pending # <<>>
  <2>1. /\ running' = Head(pending) /\ pending' = Tail(pending) /\ status' = "processing"
        /\ UNCHANGED <<opId, counter, born, reset, call, wipes>>
    BY <1>1 DEF TakeNext, resetting
  <2>2. /\ 1 \in DOMAIN pending /\ Head(pending) = pending[1]
        /\ Head(pending) \in Op /\ answer[Head(pending)] = "waiting"
        /\ Head(pending) # running
        /\ Tail(pending) \in Seq(Op)
        /\ DOMAIN Tail(pending) = 1..(Len(pending) - 1)
        /\ \A i \in DOMAIN Tail(pending) : /\ i + 1 \in DOMAIN pending
                                           /\ Tail(pending)[i] = pending[i + 1]
                                           /\ Tail(pending)[i] # Head(pending)
    BY <1>1, HeadAndTail
  <2>3. /\ Len(pending) \in Nat
        /\ DOMAIN pending = 1..Len(pending)
        /\ \A i \in DOMAIN pending : /\ pending[i] \in Op /\ answer[pending[i]] = "waiting"
                                     /\ pending[i] # running
    BY EntryType DEF QueueInv, PendingInv
  <2>4. TypeOK'
    <3>1. \A i \in DOMAIN Tail(pending) : Tail(pending)[i] \in Waiting'
      BY <2>2, <2>3 DEF Waiting
    <3>2. Tail(pending) \in Seq(Waiting')
      BY <2>2, <3>1, OpenEntries DEF Waiting
    <3>3. pending' \in Seq({p \in Op : answer'[p] = "waiting"})
      BY <2>1, <3>2 DEF Waiting
    <3>4. running' \in {p \in Op : answer'[p] = "waiting"}
      BY <2>1, <2>2
    <3>. QED
      BY <2>1, <3>3, <3>4 DEF TypeOK, QueueInv
  <2>5. PendingInv'
    <3>1. \A i, j \in DOMAIN pending' : i < j => Ahead(pending'[i], pending'[j])
      BY <2>1, <2>2, <2>3 DEF QueueInv, PendingInv
    <3>2. \A i \in DOMAIN pending' : /\ opId[pending'[i]] <= counter
                                     /\ born[pending'[i]] = wipes
                                     /\ pending'[i] # running'
      BY <2>1, <2>2 DEF QueueInv, PendingInv
    <3>. QED
      BY <2>1, <3>1, <3>2 DEF PendingInv, Ahead
  <2>6. StatusInv'
    BY <2>1, <2>2, NoOpAssumption DEF StatusInv, QueueInv
  <2>. QED
    BY <2>4, <2>5, <2>6 DEF QueueInv
<1>2. CASE pending = <<>>
  <2>1. /\ running' = NoOp /\ pending' = <<>> /\ status' = "idle"
        /\ UNCHANGED <<opId, counter, born, reset, call, wipes>>
    BY <1>2 DEF TakeNext, resetting
  <2>2. TypeOK'
    BY <2>1, EmptySeq DEF TypeOK, QueueInv
  <2>3. PendingInv'
    BY <2>1, EmptySeq DEF PendingInv
  <2>4. StatusInv'
    BY <2>1 DEF StatusInv, QueueInv
  <2>. QED
    BY <2>2, <2>3, <2>4 DEF QueueInv
<1>. QED
  BY <1>1, <1>2

LEMMA RunLoopKeeps == QueueInv /\ RunLoop => QueueInv'
<1>. SUFFICES ASSUME QueueInv, RunLoop PROVE QueueInv'
  OBVIOUS
<1>1. loops' \in Nat /\ answer' = answer /\ UNCHANGED <<opId, counter, born, resetting>>
  BY DEF RunLoop, QueueInv, TypeOK
<1>2. CASE status = "idle"
  <2>1. TakeNext
    BY <1>2 DEF RunLoop
  <2>. QED
    BY <1>1, <1>2, <2>1, TakeNextKeeps DEF QueueInv, TypeOK
<1>3. CASE status # "idle"
  <2>1. UNCHANGED <<running, pending, status, reset, call, wipes>>
    BY <1>1, <1>3 DEF RunLoop, resetting
  <2>2. TypeOK'
    BY <1>1, <2>1 DEF TypeOK, QueueInv
  <2>3. PendingInv'
    BY <1>1, <2>1 DEF PendingInv, QueueInv, Ahead
  <2>4. StatusInv'
    BY <1>1, <1>3, <2>1 DEF StatusInv, QueueInv
  <2>. QED
    BY <2>2, <2>3, <2>4 DEF QueueInv
<1>. QED
  BY <1>2, <1>3

LEMMA FinishKeeps == QueueInv /\ Finish => QueueInv'
<1>. SUFFICES ASSUME QueueInv, Finish PROVE QueueInv'
  OBVIOUS
<1>0. running \in Op /\ answer \in [Op -> Answer]
  BY DEF Finish, QueueInv, TypeOK
<1>1. PICK result \in {"ok", "thrown"} : answer' = [answer EXCEPT ![running] = result]
  BY DEF Finish
<1>2. /\ answer' \in [Op -> Answer]
      /\ \A o \in Op : o # running => answer'[o] = answer[o]
      /\ loops' \in Nat /\ UNCHANGED <<loops, opId, counter, born, resetting>>
  BY <1>0, <1>1 DEF Finish, QueueInv, TypeOK, Answer
<1>3. CASE status = "processing"
  <2>1. TakeNext
    BY <1>3 DEF Finish
  <2>. QED
    BY <1>2, <1>3, <2>1, TakeNextKeeps
<1>4. CASE status # "processing"
  <2>1. /\ status \in {"resetting", "destroyed"} /\ pending = <<>>
        /\ running' = NoOp /\ UNCHANGED <<pending, status, reset, call, wipes>>
    BY <1>0, <1>2, <1>4, NoOpAssumption DEF Finish, QueueInv, TypeOK, StatusInv, resetting
  <2>2. TypeOK'
    BY <1>2, <2>1, EmptySeq DEF TypeOK, QueueInv
  <2>3. PendingInv'
    BY <2>1, EmptySeq DEF PendingInv
  <2>4. StatusInv'
    BY <1>2, <2>1 DEF StatusInv, QueueInv
  <2>. QED
    BY <2>2, <2>3, <2>4 DEF QueueInv
<1>. QED
  BY <1>3, <1>4

\* What a discard leaves: no entry, and the answers of the rest.
LEMMA DiscardType ==
  ASSUME QueueInv, NEW error \in Discarded, Discard(error)
  PROVE  /\ pending' = <<>>
         /\ answer' \in [Op -> Answer]
         /\ \A o \in Op : (\A i \in DOMAIN pending : pending[i] # o) => answer'[o] = answer[o]
         /\ running # NoOp => running \in Op /\ answer'[running] = "waiting"
BY DEF Discard, QueueInv, TypeOK, PendingInv, Answer

\* An action that leaves the queue empty and does not touch the rest of it.
LEMMA EmptiedKeeps ==
  ASSUME QueueInv, pending' = <<>>,
         answer' \in [Op -> Answer],
         running # NoOp => answer'[running] = "waiting",
         UNCHANGED <<opId, counter, loops, running, born>>,
         status' \in {"idle", "processing", "resetting", "destroyed"},
         reset' \in {"none", "settling", "handler"},
         call' \in [Caller -> {"out", "waiting", "returned"}],
         wipes' \in Nat,
         StatusInv'
  PROVE  QueueInv'
<1>1. TypeOK'
  BY EmptySeq DEF TypeOK, QueueInv
<1>2. PendingInv'
  BY EmptySeq DEF PendingInv
<1>. QED
  BY <1>1, <1>2 DEF QueueInv

LEMMA LeadResetKeeps ==
  ASSUME QueueInv, NEW c \in Caller, LeadReset(c)
  PROVE  QueueInv'
<1>1. /\ Discard("reset") /\ status' = "resetting" /\ reset' = "settling"
      /\ call' = [call EXCEPT ![c] = "waiting"]
      /\ UNCHANGED <<opId, counter, loops, running, born, wipes>>
  BY DEF LeadReset
<1>2. /\ pending' = <<>> /\ answer' \in [Op -> Answer]
      /\ running # NoOp => answer'[running] = "waiting"
  BY <1>1, DiscardType DEF Discarded
<1>3. call' \in [Caller -> {"out", "waiting", "returned"}] /\ wipes' \in Nat
  BY <1>1 DEF QueueInv, TypeOK
<1>4. StatusInv'
  BY <1>1, <1>2 DEF StatusInv
<1>. QED
  BY <1>1, <1>2, <1>3, <1>4, EmptiedKeeps

LEMMA DestroyKeeps == QueueInv /\ Destroy => QueueInv'
<1>. SUFFICES ASSUME QueueInv, Destroy PROVE QueueInv'
  OBVIOUS
<1>1. /\ Discard("destroyed") /\ status' = "destroyed"
      /\ UNCHANGED <<opId, counter, loops, running, born, reset, call, wipes>>
  BY DEF Destroy, resetting
<1>2. /\ pending' = <<>> /\ answer' \in [Op -> Answer]
      /\ running # NoOp => answer'[running] = "waiting"
  BY <1>1, DiscardType DEF Discarded
<1>3. /\ reset' \in {"none", "settling", "handler"}
      /\ call' \in [Caller -> {"out", "waiting", "returned"}] /\ wipes' \in Nat
  BY <1>1 DEF QueueInv, TypeOK
<1>4. StatusInv'
  BY <1>1, <1>2 DEF StatusInv, QueueInv
<1>. QED
  BY <1>1, <1>2, <1>3, <1>4, EmptiedKeeps

LEMMA RunResetHandlerKeeps == QueueInv /\ RunResetHandler => QueueInv'
<1>. SUFFICES ASSUME QueueInv, RunResetHandler PROVE QueueInv'
  OBVIOUS
<1>1. /\ reset = "settling" /\ reset' = "handler" /\ running = NoOp /\ wipes' = wipes + 1
      /\ UNCHANGED <<status, pending, opId, counter, loops, running, answer, born, call>>
  BY DEF RunResetHandler, Settled, queue
<1>2. status \in {"resetting", "destroyed"} /\ pending = <<>>
  BY <1>1 DEF QueueInv, StatusInv
<1>3. /\ answer' \in [Op -> Answer]
      /\ status' \in {"idle", "processing", "resetting", "destroyed"}
      /\ call' \in [Caller -> {"out", "waiting", "returned"}] /\ wipes' \in Nat
  BY <1>1 DEF QueueInv, TypeOK
<1>4. StatusInv'
  BY <1>1, <1>2 DEF StatusInv
<1>. QED
  BY <1>1, <1>2, <1>3, <1>4, EmptiedKeeps

LEMMA EndResetKeeps == QueueInv /\ EndReset => QueueInv'
<1>. SUFFICES ASSUME QueueInv, EndReset PROVE QueueInv'
  OBVIOUS
<1>1. /\ reset = "handler" /\ reset' = "none"
      /\ status' = IF status = "resetting" THEN "idle" ELSE status
      /\ call' = [d \in Caller |-> IF call[d] = "waiting" THEN "returned" ELSE call[d]]
      /\ UNCHANGED <<pending, opId, counter, loops, running, answer, born, wipes>>
  BY DEF EndReset
<1>2. status \in {"resetting", "destroyed"} /\ pending = <<>> /\ running = NoOp
  BY <1>1 DEF QueueInv, StatusInv
<1>3. /\ answer' \in [Op -> Answer]
      /\ status' \in {"idle", "processing", "resetting", "destroyed"}
      /\ call' \in [Caller -> {"out", "waiting", "returned"}] /\ wipes' \in Nat
  BY <1>1, <1>2 DEF QueueInv, TypeOK
<1>4. StatusInv'
  BY <1>1, <1>2 DEF StatusInv
<1>. QED
  BY <1>1, <1>2, <1>3, <1>4, EmptiedKeeps

\* Refuse, JoinReset and SkipReset change no part of the queue proper.
LEMMA RefuseKeeps ==
  ASSUME QueueInv, NEW o \in Op, Refuse(o)
  PROVE  QueueInv'
<1>1. /\ pending = <<>>
      /\ answer[o] = "unsent"
      /\ answer' = [answer EXCEPT ![o] = IF status = "resetting" THEN "reset" ELSE "destroyed"]
      /\ UNCHANGED <<status, pending, opId, counter, loops, running, born, reset, call, wipes>>
  BY DEF Refuse, QueueInv, StatusInv, resetting
<1>2. /\ answer' \in [Op -> Answer]
      /\ running # NoOp => answer'[running] = "waiting"
  BY <1>1 DEF QueueInv, TypeOK, Answer, Discarded
<1>3. StatusInv'
  BY <1>1 DEF StatusInv, QueueInv
<1>4. /\ status' \in {"idle", "processing", "resetting", "destroyed"}
      /\ reset' \in {"none", "settling", "handler"}
      /\ call' \in [Caller -> {"out", "waiting", "returned"}] /\ wipes' \in Nat
  BY <1>1 DEF QueueInv, TypeOK
<1>. QED
  BY <1>1, <1>2, <1>3, <1>4, EmptiedKeeps

LEMMA CallKeeps ==
  ASSUME QueueInv, NEW c \in Caller, JoinReset(c) \/ SkipReset(c)
  PROVE  QueueInv'
<1>1. /\ call' \in [Caller -> {"out", "waiting", "returned"}]
      /\ UNCHANGED <<status, pending, opId, counter, loops, running, answer, born, reset, wipes>>
  BY DEF JoinReset, SkipReset, queue, QueueInv, TypeOK
<1>2. TypeOK'
  BY <1>1 DEF TypeOK, QueueInv
<1>3. PendingInv'
  BY <1>1 DEF PendingInv, QueueInv, Ahead
<1>4. StatusInv'
  BY <1>1 DEF StatusInv, QueueInv
<1>. QED
  BY <1>2, <1>3, <1>4 DEF QueueInv

LEMMA StutterKeeps == QueueInv /\ UNCHANGED vars => QueueInv'
<1>. SUFFICES ASSUME QueueInv, UNCHANGED vars PROVE QueueInv'
  OBVIOUS
<1>1. UNCHANGED <<status, pending, opId, counter, loops, running, answer, born, reset, call, wipes>>
  BY DEF vars, queue, resetting
<1>2. TypeOK'
  BY <1>1 DEF TypeOK, QueueInv
<1>3. PendingInv'
  BY <1>1 DEF PendingInv, QueueInv, Ahead
<1>4. StatusInv'
  BY <1>1 DEF StatusInv, QueueInv
<1>. QED
  BY <1>2, <1>3, <1>4 DEF QueueInv

LEMMA InitQueueInv == Init => QueueInv
<1>. SUFFICES ASSUME Init PROVE QueueInv
  OBVIOUS
<1>1. TypeOK
  BY EmptySeq DEF Init, TypeOK, Answer
<1>2. PendingInv
  BY EmptySeq DEF Init, PendingInv
<1>3. StatusInv
  BY DEF Init, StatusInv
<1>. QED
  BY <1>1, <1>2, <1>3 DEF QueueInv

LEMMA NextKeeps == QueueInv /\ [Next]_vars => QueueInv'
<1>. SUFFICES ASSUME QueueInv, [Next]_vars PROVE QueueInv'
  OBVIOUS
<1>1. ASSUME NEW o \in Op, Accept(o) \/ Refuse(o) PROVE QueueInv'
  BY <1>1, AcceptKeeps, RefuseKeeps
<1>2. CASE RunLoop \/ Finish
  BY <1>2, RunLoopKeeps, FinishKeeps
<1>3. ASSUME NEW c \in Caller, LeadReset(c) \/ JoinReset(c) \/ SkipReset(c) PROVE QueueInv'
  BY <1>3, LeadResetKeeps, CallKeeps
<1>4. CASE RunResetHandler \/ EndReset \/ Destroy
  BY <1>4, RunResetHandlerKeeps, EndResetKeeps, DestroyKeeps
<1>5. CASE UNCHANGED vars
  BY <1>5, StutterKeeps
<1>. QED
  BY <1>1, <1>2, <1>3, <1>4, <1>5 DEF Next

-----------------------------------------------------------------------------
(* The theorems.                                                           *)

LEMMA AlwaysQueueInv == Spec => []QueueInv
BY InitQueueInv, NextKeeps, PTL DEF Spec

\* The variables keep their types, and an operation that is pending or in
\* progress has a promise that enqueue has not settled.
THEOREM WriteQueueTypes == Spec => []TypeOK
<1>1. QueueInv => TypeOK
  BY DEF QueueInv
<1>. QED
  BY <1>1, AlwaysQueueInv, PTL

\* scheduleProcessing loses no wakeup, for any number of operations and resets.
THEOREM NoWakeupIsLost == Spec => []NoLostWakeup
<1>1. QueueInv => NoLostWakeup
  BY DEF QueueInv, TypeOK, StatusInv, NoLostWakeup
<1>. QED
  BY <1>1, AlwaysQueueInv, PTL

\* doResetSession calls the reset handler with no operation in progress.
THEOREM ResetRunsAlone == Spec => []ResetAlone
<1>1. QueueInv => ResetAlone
  BY DEF QueueInv, StatusInv, ResetAlone
<1>. QED
  BY <1>1, AlwaysQueueInv, PTL

\* The order of the queue: an operation starts only when none that is ahead of
\* it is left pending.
THEOREM OrderHolds == Spec => StartsInOrder
<1>1. ASSUME QueueInv, Next, running' # running, running' # NoOp
      PROVE  \A i \in DOMAIN pending' : ~Ahead(pending'[i], running')
  <2>1. TakeNext
    BY <1>1 DEF Next, Accept, Refuse, RunLoop, Finish, LeadReset, JoinReset, SkipReset,
                RunResetHandler, EndReset, Destroy, queue, resetting
  <2>2. pending # <<>> /\ running' = Head(pending) /\ pending' = Tail(pending)
    BY <1>1, <2>1 DEF TakeNext
  <2>3. /\ pending[1] \in Op /\ running' = pending[1] /\ 1 \in DOMAIN pending
        /\ DOMAIN pending' = 1..(Len(pending) - 1) /\ Len(pending) \in Nat
        /\ \A i \in DOMAIN pending' : /\ i + 1 \in DOMAIN pending
                                      /\ pending'[i] = pending[i + 1]
                                      /\ pending[i + 1] \in Op
    BY <1>1, <2>2, HeadAndTail, EntryType DEF QueueInv
  <2>4. \A i \in DOMAIN pending' : Ahead(running', pending'[i])
    BY <1>1, <2>3 DEF QueueInv, PendingInv
  <2>5. ASSUME NEW i \in DOMAIN pending', Ahead(pending'[i], running') PROVE FALSE
    <3>1. /\ Priority[running'] \in Nat /\ opId[running'] \in Nat
          /\ Priority[pending'[i]] \in Nat /\ opId[pending'[i]] \in Nat
      BY <1>1, <2>3, PriorityAssumption DEF QueueInv, TypeOK
    <3>. QED
      BY <2>4, <2>5, <3>1 DEF Ahead
  <2>. QED
    BY <2>5
<1>2. QueueInv /\ [Next]_vars
        => [running' # running /\ running' # NoOp
              => \A i \in DOMAIN pending' : ~Ahead(pending'[i], running')]_vars
  BY <1>1
<1>. QED
  BY <1>2, AlwaysQueueInv, PTL DEF Spec, StartsInOrder

-----------------------------------------------------------------------------
(* WriteQueue implements SerialWriter.                                     *)

\* The stage of an operation, now and in the next state.
LEMMA StageOf ==
  ASSUME NEW o \in Op
  PROVE  /\ answer[o] = "unsent" => Stage(o) = "new"
         /\ answer[o] = "waiting" => Stage(o) = IF running = o THEN "writing" ELSE "waiting"
         /\ answer[o] = "ok" => Stage(o) = "written"
         /\ answer[o] = "thrown" => Stage(o) = "failed"
         /\ answer[o] \in Discarded => Stage(o) = "discarded"
<1>1. ASSUME answer[o] = "unsent" PROVE Stage(o) = "new"
  BY <1>1 DEF Stage, Discarded
<1>2. ASSUME answer[o] = "waiting" PROVE Stage(o) = IF running = o THEN "writing" ELSE "waiting"
  BY <1>2 DEF Stage, Discarded
<1>3. ASSUME answer[o] = "ok" PROVE Stage(o) = "written"
  BY <1>3 DEF Stage, Discarded
<1>4. ASSUME answer[o] = "thrown" PROVE Stage(o) = "failed"
  BY <1>4 DEF Stage, Discarded
<1>5. ASSUME answer[o] \in Discarded PROVE Stage(o) = "discarded"
  BY <1>5 DEF Stage, Discarded
<1>. QED
  BY <1>1, <1>2, <1>3, <1>4, <1>5

LEMMA NextStageOf ==
  ASSUME NEW o \in Op
  PROVE  /\ answer'[o] = "unsent" => Stage(o)' = "new"
         /\ answer'[o] = "waiting" => Stage(o)' = IF running' = o THEN "writing" ELSE "waiting"
         /\ answer'[o] = "ok" => Stage(o)' = "written"
         /\ answer'[o] = "thrown" => Stage(o)' = "failed"
         /\ answer'[o] \in Discarded => Stage(o)' = "discarded"
<1>1. ASSUME answer'[o] = "unsent" PROVE Stage(o)' = "new"
  BY <1>1 DEF Stage, Discarded
<1>2. ASSUME answer'[o] = "waiting" PROVE Stage(o)' = IF running' = o THEN "writing" ELSE "waiting"
  BY <1>2 DEF Stage, Discarded
<1>3. ASSUME answer'[o] = "ok" PROVE Stage(o)' = "written"
  BY <1>3 DEF Stage, Discarded
<1>4. ASSUME answer'[o] = "thrown" PROVE Stage(o)' = "failed"
  BY <1>4 DEF Stage, Discarded
<1>5. ASSUME answer'[o] \in Discarded PROVE Stage(o)' = "discarded"
  BY <1>5 DEF Stage, Discarded
<1>. QED
  BY <1>1, <1>2, <1>3, <1>4, <1>5

\* The gate, now and in the next state.
LEMMA GateOf ==
  /\ status \in {"idle", "processing"} => Gate = "open"
  /\ status = "resetting" => Gate = "resetting"
  /\ status = "destroyed" => Gate = "closed"
BY DEF Gate

LEMMA NextGateOf ==
  /\ status' \in {"idle", "processing"} => Gate' = "open"
  /\ status' = "resetting" => Gate' = "resetting"
  /\ status' = "destroyed" => Gate' = "closed"
BY DEF Gate

LEMMA StageType ==
  ASSUME QueueInv, NEW o \in Op
  PROVE  /\ Stage(o) = "waiting" <=> answer[o] = "waiting" /\ running # o
         /\ Stage(o) = "writing" <=> running = o
         /\ Stage(o) = "new" <=> answer[o] = "unsent"
  BY NoOpAssumption DEF QueueInv, TypeOK, Stage, Answer, Discarded

\* What an action that ends no wait and starts nothing looks like from outside.
LEMMA SameStage ==
  ASSUME NEW o \in Op, answer'[o] = answer[o], (running' = o) <=> (running = o)
  PROVE  Stage(o)' = Stage(o)
BY DEF Stage

LEMMA AcceptRefines ==
  ASSUME QueueInv, NEW o \in Op, Accept(o)
  PROVE  Writer!Accept(o)
<1>1. /\ answer[o] = "unsent" /\ status \in {"idle", "processing"}
      /\ answer' = [answer EXCEPT ![o] = "waiting"]
      /\ born' = [born EXCEPT ![o] = wipes]
      /\ UNCHANGED <<status, running, reset, call, wipes>>
      /\ answer \in [Op -> Answer] /\ running # o
  BY NoOpAssumption DEF Accept, resetting, QueueInv, TypeOK
<1>2. Stage(o)' = "waiting"
  BY <1>1, NextStageOf
<1>3. \A p \in Op : p # o => Stage(p)' = Stage(p)
  BY <1>1, SameStage
<1>4. Stage(o) = "new" /\ Gate = "open" /\ Gate' = Gate /\ WipePhase' = WipePhase
  BY <1>1, StageOf, GateOf, NextGateOf DEF WipePhase
<1>5. [p \in Op |-> Stage(p)]' = [[p \in Op |-> Stage(p)] EXCEPT ![o] = "waiting"]
  BY <1>2, <1>3
<1>. QED
  BY <1>1, <1>4, <1>5 DEF Writer!Accept

LEMMA RefuseRefines ==
  ASSUME QueueInv, NEW o \in Op, Refuse(o)
  PROVE  Writer!Refuse(o)
<1>1. /\ answer[o] = "unsent" /\ status \in {"resetting", "destroyed"}
      /\ answer' = [answer EXCEPT ![o] = IF status = "resetting" THEN "reset" ELSE "destroyed"]
      /\ UNCHANGED <<status, running, born, reset, call, wipes>>
      /\ answer \in [Op -> Answer]
  BY DEF Refuse, resetting, QueueInv, TypeOK
<1>2. Stage(o)' = "discarded"
  BY <1>1 DEF Stage, Discarded
<1>3. \A p \in Op : p # o => Stage(p)' = Stage(p)
  BY <1>1, SameStage
<1>4. Stage(o) = "new" /\ Gate # "open" /\ Gate' = Gate /\ WipePhase' = WipePhase
  BY <1>1, StageOf, GateOf, NextGateOf DEF WipePhase
<1>5. [p \in Op |-> Stage(p)]' = [[p \in Op |-> Stage(p)] EXCEPT ![o] = "discarded"]
  BY <1>2, <1>3
<1>. QED
  BY <1>1, <1>4, <1>5 DEF Writer!Refuse

\* The head of a queue that is not resetting may begin.
LEMMA HeadMayBegin ==
  ASSUME QueueInv, pending # <<>>, status \in {"idle", "processing"}
  PROVE  Head(pending) \in Op /\ Writer!MayBegin(Head(pending))
<1>1. /\ Head(pending) \in Op /\ answer[Head(pending)] = "waiting"
      /\ Head(pending) # running /\ 1 \in DOMAIN pending /\ Head(pending) = pending[1]
  BY HeadAndTail
<1>2. Stage(Head(pending)) = "waiting" /\ Gate = "open" /\ born[Head(pending)] = wipes
  BY <1>1, StageOf, GateOf DEF QueueInv, PendingInv
<1>. QED
  BY <1>1, <1>2 DEF Writer!MayBegin

LEMMA RunLoopRefines ==
  ASSUME QueueInv, RunLoop
  PROVE  [Writer!Next]_(Writer!vars)
<1>1. UNCHANGED <<answer, born, reset, call, wipes>>
  BY DEF RunLoop, resetting
<1>2. CASE status = "idle" /\ pending # <<>>
  <2>1. PICK h \in Op : h = Head(pending) /\ answer[h] = "waiting" /\ Writer!MayBegin(h)
    BY <1>2, HeadMayBegin, HeadAndTail
  <2>2. running' = h /\ status' = "processing" /\ running = NoOp
    BY <1>2, <2>1 DEF RunLoop, TakeNext, QueueInv, StatusInv
  <2>3. \A o \in Op : Stage(o) # "writing"
    BY <2>2, StageType, NoOpAssumption
  <2>4. Stage(h)' = "writing"
    BY <1>1, <2>1, <2>2, NextStageOf
  <2>5. \A p \in Op : p # h => Stage(p)' = Stage(p)
    BY <1>1, <2>2, SameStage, NoOpAssumption
  <2>6. Gate' = Gate /\ WipePhase' = WipePhase
    BY <1>1, <1>2, <2>2, GateOf, NextGateOf DEF WipePhase
  <2>7. [p \in Op |-> Stage(p)]' = [[p \in Op |-> Stage(p)] EXCEPT ![h] = "writing"]
    BY <2>4, <2>5
  <2>8. Writer!Idle
    BY <2>3 DEF Writer!Idle
  <2>9. Writer!Begin(h)
    BY <1>1, <2>1, <2>6, <2>7, <2>8 DEF Writer!Begin
  <2>. QED
    BY <2>9 DEF Writer!Next
<1>3. CASE ~(status = "idle" /\ pending # <<>>)
  <2>1. UNCHANGED <<running, status>>
    BY <1>3 DEF RunLoop, TakeNext, QueueInv, StatusInv
  <2>2. UNCHANGED <<[p \in Op |-> Stage(p)], Gate, WipePhase>>
    BY <1>1, <2>1 DEF Stage, Gate, WipePhase
  <2>. QED
    BY <1>1, <2>2 DEF Writer!vars
<1>. QED
  BY <1>2, <1>3

LEMMA FinishRefines ==
  ASSUME QueueInv, Finish
  PROVE  [Writer!Next]_(Writer!vars)
<1>1. PICK r \in Op : r = running
  BY DEF Finish, QueueInv, TypeOK
<1>2. PICK result \in {"ok", "thrown"} : answer' = [answer EXCEPT ![r] = result]
  BY <1>1 DEF Finish
<1>3. PICK outcome \in {"written", "failed"} :
        outcome = IF result = "ok" THEN "written" ELSE "failed"
  OBVIOUS
<1>4. /\ UNCHANGED <<born, reset, call, wipes>>
      /\ answer \in [Op -> Answer] /\ answer[r] = "waiting"
  BY <1>1, NoOpAssumption DEF Finish, resetting, QueueInv, TypeOK
<1>5. Stage(r) = "writing" /\ Stage(r)' = outcome
  BY <1>1, <1>2, <1>3, <1>4, StageOf, NextStageOf
<1>6. WipePhase' = WipePhase
  BY <1>4 DEF WipePhase
<1>7. CASE status = "processing" /\ pending # <<>>
  <2>1. PICK h \in Op : h = Head(pending) /\ answer[h] = "waiting" /\ h # r /\ Writer!MayBegin(h)
    BY <1>1, <1>7, HeadMayBegin, HeadAndTail
  <2>2. running' = h /\ status' = "processing"
    BY <1>7, <2>1 DEF Finish, TakeNext
  <2>3. Stage(h)' = "writing"
    BY <1>2, <1>4, <2>1, <2>2, NextStageOf
  <2>4. \A p \in Op : p # h /\ p # r => Stage(p)' = Stage(p)
    BY <1>1, <1>2, <1>4, <2>2, SameStage
  <2>5. [p \in Op |-> Stage(p)]'
          = [[p \in Op |-> Stage(p)] EXCEPT ![r] = outcome, ![h] = "writing"]
    BY <1>5, <2>1, <2>3, <2>4
  <2>6. Gate' = Gate
    BY <1>7, <2>2, GateOf, NextGateOf
  <2>7. Writer!EndBegin(r, outcome, h)
    BY <1>4, <1>5, <1>6, <2>1, <2>5, <2>6 DEF Writer!EndBegin
  <2>. QED
    BY <2>7 DEF Writer!Next
<1>8. CASE ~(status = "processing" /\ pending # <<>>)
  <2>1. running' = NoOp
    BY <1>8 DEF Finish, TakeNext
  <2>2. \A p \in Op : p # r => Stage(p)' = Stage(p)
    BY <1>1, <1>2, <1>4, <2>1, SameStage, NoOpAssumption
  <2>3. [p \in Op |-> Stage(p)]' = [[p \in Op |-> Stage(p)] EXCEPT ![r] = outcome]
    BY <1>5, <2>2
  <2>4. status' = status \/ (status = "processing" /\ status' = "idle")
    BY <1>8 DEF Finish, TakeNext
  <2>5. Gate' = Gate
    <3>1. CASE status' = status
      BY <3>1 DEF Gate
    <3>2. CASE status = "processing" /\ status' = "idle"
      BY <3>2, GateOf, NextGateOf
    <3>. QED
      BY <2>4, <3>1, <3>2
  <2>6. Writer!End(r, outcome)
    BY <1>4, <1>5, <1>6, <2>3, <2>5 DEF Writer!End
  <2>. QED
    BY <2>6 DEF Writer!Next
<1>. QED
  BY <1>7, <1>8

-----------------------------------------------------------------------------
(* No promise is orphaned: an operation whose promise is open is pending   *)
(* or in progress.  This is what a discard relies on.                      *)

Pending(o) == \E i \in DOMAIN pending : pending[i] = o

Held == \A o \in Op : answer[o] = "waiting" => running = o \/ Pending(o)

\* The position an insertion looks for exists.
LEMMA Least ==
  ASSUME NEW S \in SUBSET Nat, S # {}
  PROVE  \E m \in S : \A i \in S : i >= m
<1> DEFINE R == {ss \in Nat \X Nat : ss[1] < ss[2]}
<1>1. IsWellFoundedOn(R, Nat)
  BY NatLessThanWellFounded DEF OpToRel
<1>2. \A i, j \in Nat : i < j => <<i, j>> \in R
  OBVIOUS
<1>. HIDE DEF R
<1>3. PICK m \in S : \A i \in S : <<i, m>> \notin R
  BY <1>1, WFMin
<1>4. ASSUME NEW i \in S, i < m PROVE FALSE
  <2>1. <<i, m>> \in R
    BY <1>2, <1>4
  <2>. QED
    BY <1>3, <2>1
<1>. QED
  BY <1>4

\* An insertion keeps every entry and adds the new one.
LEMMA InsertHolds ==
  ASSUME TypeOK, PendingInv, NEW o \in Op
  PROVE  /\ \E k \in DOMAIN Insert(o) : Insert(o)[k] = o
         /\ \A i \in DOMAIN pending : \E k \in DOMAIN Insert(o) : Insert(o)[k] = pending[i]
<1>1. Len(pending) \in Nat /\ DOMAIN pending = 1..Len(pending)
  BY EntryType
<1>2. /\ DOMAIN Insert(o) = 1..(Len(pending) + 1)
      /\ \A k \in 1..(Len(pending) + 1) :
           \/ k - 1 \in Lower(o) /\ Insert(o)[k] = pending[k - 1]
           \/ (\A i \in Lower(o) : i >= k) /\ (k \in Lower(o) \/ k = Len(pending) + 1)
                /\ Insert(o)[k] = o
           \/ (\A i \in Lower(o) : i > k) /\ k \in DOMAIN pending \ Lower(o)
                /\ Insert(o)[k] = pending[k]
  BY InsertEntries
<1>3. Lower(o) \subseteq 1..Len(pending)
  BY <1>1 DEF Lower
<1>4. \E k \in DOMAIN Insert(o) : Insert(o)[k] = o
  <2>1. CASE Lower(o) = {}
    <3>1. Len(pending) + 1 \in DOMAIN Insert(o) /\ Insert(o)[Len(pending) + 1] = o
      BY <1>1, <1>2, <2>1
    <3>. QED
      BY <3>1
  <2>2. CASE Lower(o) # {}
    <3>1. PICK m \in Lower(o) : \A i \in Lower(o) : i >= m
      BY <1>1, <1>3, <2>2, Least
    <3>2. m - 1 \notin Lower(o)
      BY <1>1, <1>3, <3>1
    <3>3. m \in DOMAIN Insert(o) /\ Insert(o)[m] = o
      BY <1>1, <1>2, <1>3, <3>1, <3>2
    <3>. QED
      BY <3>3
  <2>. QED
    BY <2>1, <2>2
<1>5. ASSUME NEW i \in DOMAIN pending
      PROVE  \E k \in DOMAIN Insert(o) : Insert(o)[k] = pending[i]
  <2>1. CASE i \in Lower(o)
    <3>1. i + 1 \in DOMAIN Insert(o) /\ Insert(o)[i + 1] = pending[i]
      BY <1>1, <1>2, <1>5, <2>1 DEF Insert
    <3>. QED
      BY <3>1
  <2>2. CASE i \notin Lower(o)
    <3>1. CASE i - 1 \in Lower(o)
      \* The entries after one of lower priority are of lower priority.
      <4>1. i - 1 \in DOMAIN pending /\ i - 1 < i /\ Priority[pending[i - 1]] < Priority[o]
        BY <1>1, <3>1 DEF Lower
      <4>2. Ahead(pending[i - 1], pending[i])
        BY <1>5, <4>1 DEF PendingInv
      <4>3. pending[i] \in Op /\ pending[i - 1] \in Op
        BY <1>5, <4>1, EntryType
      <4>4. Priority[pending[i]] < Priority[o]
        BY <4>1, <4>2, <4>3, PriorityAssumption DEF Ahead
      <4>. QED
        BY <1>5, <2>2, <4>4 DEF Lower
    <3>2. CASE i - 1 \notin Lower(o)
      <4>1. i \in DOMAIN Insert(o) /\ Insert(o)[i] = pending[i]
        BY <1>1, <1>2, <1>5, <2>2, <3>2
      <4>. QED
        BY <4>1
    <3>. QED
      BY <3>1, <3>2
  <2>. QED
    BY <2>1, <2>2
<1>. QED
  BY <1>4, <1>5

LEMMA AcceptHolds ==
  ASSUME QueueInv, Held, NEW o \in Op, Accept(o)
  PROVE  Held'
<1>1. /\ pending' = Insert(o) /\ answer' = [answer EXCEPT ![o] = "waiting"]
      /\ running' = running /\ answer \in [Op -> Answer]
  BY DEF Accept, QueueInv, TypeOK
<1>2. Pending(o)'
  BY <1>1, InsertHolds DEF Pending, QueueInv
<1>3. \A p \in Op : Pending(p) => Pending(p)'
  BY <1>1, InsertHolds DEF Pending, QueueInv
<1>. QED
  BY <1>1, <1>2, <1>3 DEF Held

\* What is taken from the queue is what the loop runs next.
LEMMA TakeNextHolds ==
  ASSUME QueueInv, TakeNext, \A o \in Op : answer'[o] = "waiting" => Pending(o)
  PROVE  Held'
<1>1. CASE pending # <<>>
  <2>1. /\ running' = pending[1] /\ pending' = Tail(pending)
        /\ Len(pending) \in Nat /\ DOMAIN pending = 1..Len(pending)
        /\ DOMAIN Tail(pending) = 1..(Len(pending) - 1)
        /\ \A i \in DOMAIN Tail(pending) : Tail(pending)[i] = pending[i + 1]
    BY <1>1, HeadAndTail, EntryType DEF TakeNext, QueueInv
  <2>2. ASSUME NEW i \in DOMAIN pending PROVE running' = pending[i] \/ \E j \in DOMAIN pending' : pending'[j] = pending[i]
    <3>1. CASE i = 1
      BY <2>1, <3>1
    <3>2. CASE i # 1
      <4>1. i - 1 \in DOMAIN pending' /\ pending'[i - 1] = pending[i]
        BY <2>1, <2>2, <3>2
      <4>. QED
        BY <4>1
    <3>. QED
      BY <3>1, <3>2
  <2>. QED
    BY <2>2 DEF Held, Pending
<1>2. CASE pending = <<>>
  BY <1>2, EmptySeq DEF Held, Pending
<1>. QED
  BY <1>1, <1>2

LEMMA LoopHolds == QueueInv /\ Held /\ (RunLoop \/ Finish) => Held'
<1>. SUFFICES ASSUME QueueInv, Held, RunLoop \/ Finish PROVE Held'
  OBVIOUS
<1>1. CASE RunLoop
  <2>1. CASE status = "idle"
    <3>1. TakeNext /\ answer' = answer /\ running = NoOp
      BY <1>1, <2>1 DEF RunLoop, QueueInv, StatusInv
    <3>. QED
      BY <3>1, TakeNextHolds, NoOpAssumption DEF Held
  <2>2. CASE status # "idle"
    BY <1>1, <2>2 DEF RunLoop, Held, Pending
  <2>. QED
    BY <2>1, <2>2
<1>2. CASE Finish
  <2>1. \A o \in Op : answer'[o] = "waiting" => Pending(o)
    <3>1. PICK result \in {"ok", "thrown"} : answer' = [answer EXCEPT ![running] = result]
      BY <1>2 DEF Finish
    <3>. QED
      BY <3>1 DEF Held, QueueInv, TypeOK
  <2>2. CASE status = "processing"
    BY <1>2, <2>1, <2>2, TakeNextHolds DEF Finish
  <2>3. CASE status # "processing"
    BY <1>2, <2>1, <2>3 DEF Finish, Held, Pending
  <2>. QED
    BY <2>2, <2>3
<1>. QED
  BY <1>1, <1>2

\* After a discard the operation in progress is the only one left waiting.
LEMMA DiscardHolds ==
  ASSUME QueueInv, Held, NEW error \in Discarded, Discard(error)
  PROVE  \A o \in Op : answer'[o] = "waiting" <=> running = o
<1>1. error # "waiting"
  BY DEF Discarded
<1>2. ASSUME NEW o \in Op, answer'[o] = "waiting" PROVE running = o
  <2>1. answer[o] = "waiting" /\ ~Pending(o)
    BY <1>1, <1>2 DEF Discard, Pending
  <2>. QED
    BY <2>1 DEF Held
<1>3. ASSUME NEW o \in Op, running = o PROVE answer'[o] = "waiting"
  BY <1>3, DiscardType, NoOpAssumption
<1>. QED
  BY <1>2, <1>3

LEMMA HeldKeeps == QueueInv /\ Held /\ [Next]_vars => Held'
<1>. SUFFICES ASSUME QueueInv, Held, [Next]_vars PROVE Held'
  OBVIOUS
<1>1. ASSUME NEW o \in Op, Accept(o) PROVE Held'
  BY <1>1, AcceptHolds
<1>2. ASSUME NEW o \in Op, Refuse(o) PROVE Held'
  BY <1>2 DEF Refuse, Held, Pending, QueueInv, TypeOK
<1>3. CASE RunLoop \/ Finish
  BY <1>3, LoopHolds
<1>4. ASSUME NEW c \in Caller, LeadReset(c) PROVE Held'
  BY <1>4, DiscardHolds DEF LeadReset, Held, Discarded
<1>5. CASE Destroy
  BY <1>5, DiscardHolds DEF Destroy, Held, Discarded
<1>6. ASSUME UNCHANGED <<answer, running, pending>> PROVE Held'
  BY <1>6 DEF Held, Pending
<1>7. CASE \/ \E c \in Caller : JoinReset(c) \/ SkipReset(c)
           \/ RunResetHandler \/ EndReset \/ UNCHANGED vars
  BY <1>6, <1>7 DEF JoinReset, SkipReset, RunResetHandler, EndReset, vars, queue
<1>. QED
  BY <1>1, <1>2, <1>3, <1>4, <1>5, <1>7 DEF Next

LEMMA DiscardRefines ==
  ASSUME QueueInv, Held, NEW error \in Discarded, Discard(error), running' = running
  PROVE  Writer!DiscardWaiting
<1>1. ASSUME NEW o \in Op
      PROVE  Stage(o)' = IF Stage(o) = "waiting" THEN "discarded" ELSE Stage(o)
  <2>1. CASE Pending(o)
    <3>1. answer'[o] \in Discarded /\ answer[o] = "waiting" /\ running # o
      BY <2>1 DEF Discard, Pending, QueueInv, TypeOK, PendingInv
    <3>. QED
      BY <3>1, StageType, NextStageOf
  <2>2. CASE ~Pending(o)
    <3>1. answer'[o] = answer[o] /\ Stage(o)' = Stage(o)
      BY <2>2, SameStage DEF Discard, Pending
    <3>2. Stage(o) # "waiting"
      BY <2>2, StageType DEF Held
    <3>. QED
      BY <3>1, <3>2
  <2>. QED
    BY <2>1, <2>2
<1>. QED
  BY <1>1 DEF Writer!DiscardWaiting

LEMMA ResetRefines ==
  ASSUME QueueInv, Held, NEW c \in Caller, LeadReset(c)
  PROVE  [Writer!Next]_(Writer!vars)
<1>1. /\ Discard("reset") /\ running' = running /\ UNCHANGED <<born, wipes>>
      /\ status \in {"idle", "processing"} /\ status' = "resetting" /\ reset' = "settling"
  BY DEF LeadReset
<1>2. Writer!DiscardWaiting
  BY <1>1, DiscardRefines DEF Discarded
<1>3. Gate = "open" /\ Gate' = "resetting" /\ WipePhase' = "due"
  BY <1>1, GateOf, NextGateOf DEF WipePhase
<1>4. Writer!Reset
  BY <1>1, <1>2, <1>3 DEF Writer!Reset
<1>. QED
  BY <1>4 DEF Writer!Next

LEMMA DestroyRefines ==
  ASSUME QueueInv, Held, Destroy
  PROVE  [Writer!Next]_(Writer!vars)
<1>1. /\ Discard("destroyed") /\ running' = running /\ UNCHANGED <<born, wipes, reset>>
      /\ status' = "destroyed"
  BY DEF Destroy, resetting
<1>2. Writer!DiscardWaiting
  BY <1>1, DiscardRefines DEF Discarded
<1>3. Gate' = "closed" /\ WipePhase' = WipePhase
  BY <1>1, NextGateOf DEF WipePhase
<1>4. Writer!Close
  BY <1>1, <1>2, <1>3 DEF Writer!Close
<1>. QED
  BY <1>4 DEF Writer!Next

LEMMA HandlerRefines ==
  ASSUME QueueInv, RunResetHandler \/ EndReset
  PROVE  [Writer!Next]_(Writer!vars)
<1>1. /\ UNCHANGED <<answer, running, born>>
      /\ UNCHANGED [o \in Op |-> Stage(o)]
  <2>1. UNCHANGED <<answer, running, born>>
    BY DEF RunResetHandler, EndReset, queue
  <2>2. \A o \in Op : Stage(o)' = Stage(o)
    BY <2>1, SameStage
  <2>. QED
    BY <2>1, <2>2
<1>2. CASE RunResetHandler
  <2>1. /\ running = NoOp /\ reset = "settling" /\ reset' = "handler"
        /\ wipes' = wipes + 1 /\ status' = status
    BY <1>2 DEF RunResetHandler, Settled, queue
  <2>2. Writer!Idle
    BY <2>1, StageType, NoOpAssumption DEF Writer!Idle
  <2>3. WipePhase = "due" /\ WipePhase' = "wiping" /\ Gate' = Gate
    BY <2>1 DEF WipePhase, Gate
  <2>4. Writer!Wipe
    BY <1>1, <2>1, <2>2, <2>3 DEF Writer!Wipe
  <2>. QED
    BY <2>4 DEF Writer!Next
<1>3. CASE EndReset
  <2>1. /\ reset = "handler" /\ reset' = "none" /\ wipes' = wipes
        /\ status' = IF status = "resetting" THEN "idle" ELSE status
        /\ status \in {"resetting", "destroyed"}
    BY <1>3 DEF EndReset, QueueInv, StatusInv
  <2>2. WipePhase = "wiping" /\ WipePhase' = "none"
    BY <2>1 DEF WipePhase
  <2>3. Gate' = IF Gate = "resetting" THEN "open" ELSE Gate
    BY <2>1, GateOf, NextGateOf
  <2>4. Writer!Reopen
    BY <1>1, <2>1, <2>2, <2>3 DEF Writer!Reopen
  <2>. QED
    BY <2>4 DEF Writer!Next
<1>. QED
  BY <1>2, <1>3

LEMMA QuietRefines ==
  ASSUME UNCHANGED <<answer, running, born, wipes, status, reset>>
  PROVE  UNCHANGED Writer!vars
BY DEF Writer!vars, Stage, Gate, WipePhase

LEMMA NextRefines ==
  ASSUME QueueInv, Held, [Next]_vars
  PROVE  [Writer!Next]_(Writer!vars)
<1>1. ASSUME NEW o \in Op, Accept(o) \/ Refuse(o) PROVE [Writer!Next]_(Writer!vars)
  <2>1. Writer!Accept(o) \/ Writer!Refuse(o)
    BY <1>1, AcceptRefines, RefuseRefines
  <2>. QED
    BY <2>1 DEF Writer!Next
<1>2. CASE RunLoop \/ Finish
  BY <1>2, RunLoopRefines, FinishRefines
<1>3. ASSUME NEW c \in Caller, LeadReset(c) PROVE [Writer!Next]_(Writer!vars)
  BY <1>3, ResetRefines
<1>4. CASE Destroy \/ RunResetHandler \/ EndReset
  BY <1>4, DestroyRefines, HandlerRefines
<1>5. CASE (\E c \in Caller : JoinReset(c) \/ SkipReset(c)) \/ UNCHANGED vars
  <2>1. UNCHANGED <<answer, running, born, wipes, status, reset>>
    BY <1>5 DEF JoinReset, SkipReset, vars, queue, resetting
  <2>. QED
    BY <2>1, QuietRefines
<1>. QED
  BY <1>1, <1>2, <1>3, <1>4, <1>5 DEF Next

\* Every write runs wholly inside the session that accepted it, one at a time,
\* and the reset handler wipes the store between sessions: the queue, with its
\* microtasks, priorities and promises, implements SerialWriter.
THEOREM SessionsStayApart == Spec => KeepsSessionsApart
<1>1. Init => Writer!Init /\ Held
  <2>1. ASSUME Init PROVE \A o \in Op : Stage(o) = "new"
    BY <2>1, StageOf DEF Init
  <2>2. ASSUME Init PROVE Gate = "open" /\ WipePhase = "none"
    BY <2>2, GateOf DEF Init, WipePhase
  <2>. QED
    BY <2>1, <2>2 DEF Init, Writer!Init, Held
<1>2. Spec => []Held
  BY <1>1, AlwaysQueueInv, HeldKeeps, PTL DEF Spec
<1>. QED
  BY <1>1, <1>2, AlwaysQueueInv, NextRefines, PTL DEF Spec, KeepsSessionsApart, Writer!Spec
=============================================================================
