------------------------------ MODULE SeedProofs ------------------------------
(***************************************************************************)
(* The seed status of a key can be trusted, for any number of windows,     *)
(* pages, calls, resets and crashes, and whether or not the key is         *)
(* ephemeral.                                                              *)
(*                                                                         *)
(* The rows of a key go in two ways: by the call of an eviction, whose     *)
(* answer enqueues the operation that forgets the status, and by a flush   *)
(* that finds the key marked.  The proof is about the second: where in the *)
(* write queue the flush is, the forgetting operation and the page that    *)
(* would make the key count as seeded again.                               *)
(***************************************************************************)
EXTENDS KeyData, TLAPS, SequenceTheorems

-----------------------------------------------------------------------------
(* Sequences.                                                              *)

LEMMA AppendFacts ==
  ASSUME NEW S, NEW s \in Seq(S), NEW e \in S
  PROVE  /\ Append(s, e) \in Seq(S) /\ DOMAIN s = 1..Len(s) /\ Len(s) \in Nat
         /\ DOMAIN Append(s, e) = 1..(Len(s) + 1) /\ Len(Append(s, e)) = Len(s) + 1
         /\ \A i \in 1..Len(s) : Append(s, e)[i] = s[i]
         /\ Append(s, e)[Len(s) + 1] = e
OBVIOUS

LEMMA TailFacts ==
  ASSUME NEW S, NEW s \in Seq(S), s # <<>>
  PROVE  /\ Tail(s) \in Seq(S) /\ DOMAIN s = 1..Len(s) /\ Len(s) \in Nat \ {0}
         /\ DOMAIN Tail(s) = 1..(Len(s) - 1) /\ Len(Tail(s)) = Len(s) - 1
         /\ \A i \in 1..(Len(s) - 1) : Tail(s)[i] = s[i + 1]
         /\ \A i \in 2..Len(s) : i - 1 \in 1..(Len(s) - 1) /\ Tail(s)[i - 1] = s[i]
         /\ Head(s) = s[1] /\ Head(s) \in S /\ 1 \in DOMAIN s
<1>1. /\ Tail(s) \in Seq(S) /\ DOMAIN s = 1..Len(s) /\ Len(s) \in Nat \ {0}
      /\ DOMAIN Tail(s) = 1..(Len(s) - 1) /\ Len(Tail(s)) = Len(s) - 1
      /\ \A i \in 1..(Len(s) - 1) : Tail(s)[i] = s[i + 1]
      /\ Head(s) = s[1] /\ Head(s) \in S
  BY HeadTailProperties, LenProperties, EmptySeq
<1>2. ASSUME NEW i \in 2..Len(s)
      PROVE  i - 1 \in 1..(Len(s) - 1) /\ Tail(s)[i - 1] = s[i]
  <2>1. i - 1 \in 1..(Len(s) - 1) /\ (i - 1) + 1 = i
    BY <1>1
  <2>. QED
    BY <1>1, <2>1
<1>. QED
  BY <1>1, <1>2

-----------------------------------------------------------------------------
(* The invariant.                                                          *)

\* Only pages end a seed, and only a flush deletes what it found marked.
Kinds ==
  /\ \A i \in DOMAIN ops : ops[i].last => ops[i].kind = "records"
  /\ \A i \in DOMAIN calls : calls[i].last => calls[i].kind = "records"

\* What a reset empties stays empty, and it wipes once.
Gates ==
  /\ gate # "open" => ops = <<>>
  /\ gate \in {"aborted", "resetting"} => ~Busy
  /\ \A i, j \in DOMAIN calls : calls[i].kind = "wipe" /\ calls[j].kind = "wipe" => i = j
  /\ \A i \in DOMAIN calls : calls[i].kind = "wipe" => gate = "resetting"

\* A marked deletion has its flush, or one that can never be scheduled.
Marked == gate \in {"open", "resetting"} /\ deleted => flushPending

\* The flush that deletes the rows comes before or right after the operation that
\* forgets the status; once that has run, nothing before the flush can end a seed.
Covered(i) == \E j \in DOMAIN ops : /\ ops[j].kind = "evict"
                                   /\ \A k \in DOMAIN ops : j < k /\ k < i => ~ops[k].last
Unseeded(i) == /\ status # "seeded" /\ LastCalls = {}
               /\ \A k \in LastOps : ~(k < i)

FlushSafe == gate = "open" /\ deleted =>
               \A i \in DOMAIN ops : ops[i].kind = "flush" => Covered(i) \/ Unseeded(i)

EvictQueued == \E j \in DOMAIN ops : ops[j].kind = "evict"

DeleteSafe == gate = "open" =>
                \A i \in DOMAIN calls : calls[i].kind = "delete" /\ calls[i].doomed =>
                  EvictQueued \/ (status # "seeded" /\ LastCalls = {})

Backed == gate = "open" /\ status = "syncing" => seed.stage \in {"fetch", "write"}

KeyInv == Kinds /\ Gates /\ Marked /\ FlushSafe /\ DeleteSafe /\ Backed /\ SeededHasData

Safe == Kinds /\ Gates /\ FlushSafe /\ DeleteSafe

LEMMA Bounds == MaxPages \in Nat \ {0} /\ MaxResets \in Nat /\ MaxCrashes \in Nat
BY BoundsAssumption

\* scheduleDirtyFlush raises the flag, and appends a flush only if it was down.
LEMMA Scheduled ==
  ASSUME session \in Session, flushPending \in BOOLEAN, NEW queued \in Seq(Op), ScheduleFlush(queued)
  PROVE  /\ flushPending' = TRUE
         /\ Plain("flush") \in Op /\ Plain("flush").kind = "flush" /\ ~Plain("flush").last
         /\ \/ ops' = queued
            \/ ~flushPending /\ gate = "open" /\ ops' = Append(queued, Plain("flush"))
<1>1. Plain("flush") \in Op /\ Plain("flush").kind = "flush" /\ ~Plain("flush").last
  BY DEF Plain, Op
<1>. QED
  BY <1>1 DEF ScheduleFlush, Accept

\* Calls that are answered: the rest of them were there before.
Answered == calls' = calls \/ (calls # <<>> /\ calls' = Tail(calls))

LEMMA AnsweredCalls ==
  ASSUME TypeOK, Kinds, Gates, Answered, gate' = gate
  PROVE  /\ calls' \in Seq(Call)
         /\ \A i \in DOMAIN calls' : \E j \in DOMAIN calls : calls'[i] = calls[j]
         /\ LastCalls = {} => LastCalls' = {}
         /\ Busy' => Busy
         /\ \A i, j \in DOMAIN calls' : calls'[i].kind = "wipe" /\ calls'[j].kind = "wipe" => i = j
<1>1. CASE calls' = calls
  BY <1>1 DEF TypeOK, Gates, LastCalls, Busy
<1>2. CASE calls # <<>> /\ calls' = Tail(calls)
  <2>1. /\ calls' \in Seq(Call) /\ DOMAIN calls = 1..Len(calls) /\ Len(calls) \in Nat \ {0}
        /\ DOMAIN calls' = 1..(Len(calls) - 1)
        /\ \A i \in 1..(Len(calls) - 1) : calls'[i] = calls[i + 1]
    BY <1>2, TailFacts DEF TypeOK
  <2>2. \A i \in DOMAIN calls' : i + 1 \in DOMAIN calls /\ calls'[i] = calls[i + 1]
    BY <2>1
  <2>3. \A i, j \in DOMAIN calls' : calls'[i].kind = "wipe" /\ calls'[j].kind = "wipe" => i = j
    <3>1. ASSUME NEW i \in DOMAIN calls', NEW j \in DOMAIN calls',
                 calls'[i].kind = "wipe", calls'[j].kind = "wipe"
          PROVE  i = j
      <4>1. i + 1 = j + 1
        BY <2>2, <3>1 DEF Gates
      <4>. QED
        BY <2>1, <4>1
    <3>. QED
      BY <3>1
  <2>. QED
    BY <2>1, <2>2, <2>3 DEF LastCalls, Busy
<1>. QED
  BY <1>1, <1>2 DEF Answered

\* A step that appends to the write queue and asks storage nothing.  A flush that
\* is new comes right behind a new operation that forgets the status, or finds
\* nothing marked.
LEMMA GrowthKeepsSafe ==
  ASSUME TypeOK, Safe, ops' \in Seq(Op), Answered, gate' = gate,
         status' = status \/ status' # "seeded",
         gate # "open" => ops' = ops,
         Len(ops) <= Len(ops'), \A i \in 1..Len(ops) : ops'[i] = ops[i],
         \A i \in (Len(ops) + 1)..Len(ops') :
           /\ ops'[i].last => ops'[i].kind = "records"
           /\ ops'[i].kind = "flush" /\ deleted' => i - 1 > Len(ops) /\ ops'[i - 1].kind = "evict",
         deleted' /\ ~deleted /\ gate = "open" =>
           \E j \in (Len(ops) + 1)..Len(ops') : ops'[j].kind = "evict"
  PROVE  Safe'
<1>1. ops \in Seq(Op) /\ DOMAIN ops = 1..Len(ops) /\ DOMAIN ops' = 1..Len(ops')
      /\ Len(ops) \in Nat /\ Len(ops') \in Nat
  BY LenProperties DEF TypeOK
<1>9. /\ \A i \in DOMAIN calls' : \E j \in DOMAIN calls : calls'[i] = calls[j]
      /\ LastCalls = {} => LastCalls' = {}
      /\ Busy' => Busy
      /\ \A i, j \in DOMAIN calls' : calls'[i].kind = "wipe" /\ calls'[j].kind = "wipe" => i = j
  BY AnsweredCalls DEF Safe
<1>2. Kinds'
  <2>1. \A i \in DOMAIN ops' : ops'[i].last => ops'[i].kind = "records"
    BY <1>1 DEF Safe, Kinds
  <2>2. \A i \in DOMAIN calls' : calls'[i].last => calls'[i].kind = "records"
    BY <1>9 DEF Safe, Kinds
  <2>. QED
    BY <2>1, <2>2 DEF Kinds
<1>3. Gates'
  BY <1>9 DEF Safe, Gates
<1>4. EvictQueued => EvictQueued'
  BY <1>1 DEF EvictQueued
<1>6. DeleteSafe'
  BY <1>4, <1>9 DEF Safe, DeleteSafe
<1>7. ASSUME gate = "open", deleted', NEW i \in 1..Len(ops'), ops'[i].kind = "flush"
      PROVE  Covered(i)' \/ Unseeded(i)'
  <2>1. CASE i \in 1..Len(ops) /\ deleted
    <3>1. Covered(i) \/ Unseeded(i)
      BY <1>1, <1>7, <2>1 DEF Safe, FlushSafe
    <3>2. CASE Covered(i)
      <4>1. PICK j \in DOMAIN ops : /\ ops[j].kind = "evict"
                                    /\ \A k \in DOMAIN ops : j < k /\ k < i => ~ops[k].last
        BY <3>2 DEF Covered
      <4>2. j \in DOMAIN ops' /\ ops'[j].kind = "evict"
        BY <1>1, <4>1
      <4>3. \A k \in DOMAIN ops' : j < k /\ k < i => ~ops'[k].last
        BY <1>1, <2>1, <4>1
      <4>. QED
        BY <4>2, <4>3 DEF Covered
    <3>3. CASE Unseeded(i)
      BY <1>1, <1>9, <2>1, <3>3 DEF Unseeded, LastOps
    <3>. QED
      BY <3>1, <3>2, <3>3
  <2>2. CASE i \in 1..Len(ops) /\ ~deleted
    <3>1. PICK j \in (Len(ops) + 1)..Len(ops') : ops'[j].kind = "evict"
      BY <1>7, <2>2
    <3>2. j \in DOMAIN ops' /\ \A k \in DOMAIN ops' : j < k /\ k < i => ~ops'[k].last
      BY <1>1, <2>2, <3>1
    <3>. QED
      BY <3>1, <3>2 DEF Covered
  <2>3. CASE i \in (Len(ops) + 1)..Len(ops')
    <3>1. i - 1 \in DOMAIN ops' /\ ops'[i - 1].kind = "evict"
      BY <1>1, <1>7, <2>3
    <3>2. \A k \in DOMAIN ops' : i - 1 < k /\ k < i => ~ops'[k].last
      BY <1>1, <2>3
    <3>. QED
      BY <3>1, <3>2 DEF Covered
  <2>. QED
    BY <1>1, <2>1, <2>2, <2>3
<1>8. FlushSafe'
  BY <1>1, <1>7 DEF FlushSafe
<1>. QED
  BY <1>2, <1>3, <1>6, <1>8 DEF Safe

-----------------------------------------------------------------------------
(* The write queue's handlers.                                             *)

\* What the head of the queue leaves behind it.
LEMMA PopFacts ==
  ASSUME TypeOK, Safe, ops # <<>>, ops' = Tail(ops)
  PROVE  /\ ops' \in Seq(Op) /\ DOMAIN ops = 1..Len(ops) /\ Len(ops) \in Nat \ {0}
         /\ DOMAIN ops' = 1..(Len(ops) - 1)
         /\ \A i \in DOMAIN ops' : i + 1 \in DOMAIN ops /\ i \in Nat /\ ops'[i] = ops[i + 1]
         /\ \A i \in DOMAIN ops \ {1} : i - 1 \in DOMAIN ops' /\ ops'[i - 1] = ops[i]
         /\ Head(ops) = ops[1] /\ 1 \in DOMAIN ops /\ Head(ops) \in Op
         /\ \A i \in DOMAIN ops' : ops'[i].last => ops'[i].kind = "records"
<1>1. /\ ops' \in Seq(Op) /\ DOMAIN ops = 1..Len(ops) /\ Len(ops) \in Nat \ {0}
      /\ DOMAIN ops' = 1..(Len(ops) - 1)
      /\ \A i \in 1..(Len(ops) - 1) : ops'[i] = ops[i + 1]
      /\ \A i \in 2..Len(ops) : i - 1 \in 1..(Len(ops) - 1) /\ ops'[i - 1] = ops[i]
      /\ Head(ops) = ops[1] /\ 1 \in DOMAIN ops /\ Head(ops) \in Op
  BY TailFacts DEF TypeOK
<1>2. \A i \in DOMAIN ops' : i + 1 \in DOMAIN ops /\ i \in Nat /\ ops'[i] = ops[i + 1]
  BY <1>1
<1>3. \A i \in DOMAIN ops' : ops'[i].last => ops'[i].kind = "records"
  BY <1>2 DEF Safe, Kinds
<1>. QED
  BY <1>1, <1>2, <1>3

\* A covering operation that is not the head still covers.
LEMMA StillCovered ==
  ASSUME TypeOK, Safe, ops # <<>>, ops' = Tail(ops), NEW i \in DOMAIN ops', Covered(i + 1),
         Head(ops).kind # "evict"
  PROVE  Covered(i)'
<1>1. PICK j \in DOMAIN ops : /\ ops[j].kind = "evict"
                              /\ \A k \in DOMAIN ops : j < k /\ k < i + 1 => ~ops[k].last
  BY DEF Covered
<1>2. j # 1
  BY <1>1, PopFacts
<1>3. j \in Nat /\ j - 1 \in DOMAIN ops' /\ ops'[j - 1].kind = "evict"
  BY <1>1, <1>2, PopFacts
<1>4. ASSUME NEW k \in DOMAIN ops', j - 1 < k, k < i
      PROVE  ~ops'[k].last
  <2>1. k + 1 \in DOMAIN ops /\ j < k + 1 /\ k + 1 < i + 1 /\ ops'[k] = ops[k + 1]
    BY <1>3, <1>4, PopFacts
  <2>. QED
    BY <1>1, <2>1
<1>. QED
  BY <1>3, <1>4 DEF Covered

LEMMA NewCall ==
  ASSUME TypeOK, Safe, NEW c \in Call, calls' = Append(calls, c), gate' = gate,
         gate # "open" => ops' = ops, gate = "open" \/ c.kind = "evict",
         c.last => c.kind = "records", c.kind # "wipe"
  PROVE  /\ calls' \in Seq(Call)
         /\ \A i \in DOMAIN calls' : (i \in DOMAIN calls /\ calls'[i] = calls[i]) \/ calls'[i] = c
         /\ \A i \in DOMAIN calls' : calls'[i].last => calls'[i].kind = "records"
         /\ ~c.last => LastCalls' = LastCalls
         /\ c.last /\ LastCalls = {} => LastCalls' = {Len(calls) + 1}
         /\ Gates'
         /\ \E i \in DOMAIN calls' : calls'[i] = c
<1>1. /\ calls' \in Seq(Call) /\ DOMAIN calls = 1..Len(calls) /\ Len(calls) \in Nat
      /\ DOMAIN calls' = 1..(Len(calls) + 1)
      /\ \A i \in 1..Len(calls) : calls'[i] = calls[i]
      /\ calls'[Len(calls) + 1] = c
  BY AppendFacts DEF TypeOK
<1>2. \A i \in DOMAIN calls' : (i \in DOMAIN calls /\ calls'[i] = calls[i]) \/ calls'[i] = c
  BY <1>1
<1>3. \A i \in DOMAIN calls' : calls'[i].last => calls'[i].kind = "records"
  BY <1>2 DEF Safe, Kinds
<1>4. ~c.last => LastCalls' = LastCalls
  BY <1>1 DEF LastCalls
<1>6. c.last /\ LastCalls = {} => LastCalls' = {Len(calls) + 1}
  BY <1>1 DEF LastCalls
<1>5. Gates'
  <2>1. gate' \in {"aborted", "resetting"} => ~Busy'
    BY <1>2 DEF Safe, Gates, Busy
  <2>2. \A i \in DOMAIN calls' : calls'[i].kind = "wipe" => i \in DOMAIN calls /\ calls'[i] = calls[i]
    BY <1>2
  <2>. QED
    BY <2>1, <2>2 DEF Safe, Gates
<1>. QED
  BY <1>1, <1>2, <1>3, <1>4, <1>5, <1>6

LEMMA Quiet ==
  ASSUME TypeOK, Safe, ~Busy
  PROVE  LastCalls = {} /\ \A i \in DOMAIN calls : calls[i].kind \notin {"delete", "save", "records"}
BY DEF Safe, Kinds, Busy, LastCalls

-----------------------------------------------------------------------------
(* Steps that only append to the write queue.                              *)

Shape ==
  /\ {present, acquiring, deleted, flushPending, row} \subseteq BOOLEAN
  /\ holds \subseteq Window
  /\ status \in {"none", "idle", "syncing", "seeded"} /\ seed \in Seed
  /\ ops \in Seq(Op) /\ calls \in Seq(Call) /\ gate \in {"open", "draining", "aborted", "resetting"}
  /\ data \subseteq Session /\ session \in Session /\ crashes \in 0..MaxCrashes

Ends ==
  /\ LastOps \cup LastCalls # {} <=> seed.stage = "write"
  /\ LastOps = {} \/ LastCalls = {}
  /\ \A i, j \in LastOps : i = j
  /\ \A i, j \in LastCalls : i = j

LEMMA Parts == TypeOK <=> Shape /\ Ends
BY Zenon DEF TypeOK, Shape, Ends

LEMMA SameEnds ==
  ASSUME TypeOK, LastOps' = LastOps, LastCalls' = LastCalls,
         seed'.stage = "write" <=> seed.stage = "write"
  PROVE  Ends'
BY Parts DEF Ends

\* One operation more, which ends no seed.
LEMMA OneMore ==
  ASSUME NEW queued \in Seq(Op), NEW e \in Op
  PROVE  /\ Append(queued, e) \in Seq(Op)
         /\ ~e.last => {i \in DOMAIN Append(queued, e) : Append(queued, e)[i].last}
                         = {i \in DOMAIN queued : queued[i].last}
         /\ DOMAIN queued \subseteq DOMAIN Append(queued, e)
         /\ \A i \in DOMAIN queued : Append(queued, e)[i] = queued[i]
<1>1. /\ Append(queued, e) \in Seq(Op) /\ DOMAIN queued = 1..Len(queued) /\ Len(queued) \in Nat
      /\ DOMAIN Append(queued, e) = 1..(Len(queued) + 1)
      /\ \A i \in 1..Len(queued) : Append(queued, e)[i] = queued[i]
      /\ Append(queued, e)[Len(queued) + 1] = e
  BY AppendFacts
<1>2. ASSUME ~e.last
      PROVE  {i \in DOMAIN Append(queued, e) : Append(queued, e)[i].last}
              = {i \in DOMAIN queued : queued[i].last}
  BY <1>1, <1>2
<1>. QED
  BY <1>1, <1>2

\* Acquiring or holding: a flush is scheduled, nothing else happens to the queue.
LEMMA FlushScheduled ==
  ASSUME TypeOK, KeyInv, ScheduleFlush(ops),
         UNCHANGED <<deleted, gate, calls, status, session, data>>
  PROVE  /\ ops' \in Seq(Op) /\ flushPending' = TRUE
         /\ LastOps' = LastOps /\ LastCalls' = LastCalls
         /\ Safe' /\ Marked' /\ SeededHasData'
<1>0. /\ ops \in Seq(Op) /\ flushPending \in BOOLEAN /\ session \in Session /\ deleted \in BOOLEAN
      /\ deleted' = deleted /\ gate' = gate /\ calls' = calls /\ status' = status /\ data' = data
  BY DEF TypeOK
<1>1. /\ flushPending' = TRUE
      /\ Plain("flush") \in Op /\ Plain("flush").kind = "flush" /\ ~Plain("flush").last
      /\ \/ ops' = ops
         \/ ~flushPending /\ gate = "open" /\ ops' = Append(ops, Plain("flush"))
  BY <1>0, Scheduled
<1>2. Safe /\ Marked /\ SeededHasData
  BY Zenon DEF KeyInv, Safe
<1>3. CASE ops' = ops
  <2>1. Safe'
    <3>1. Len(ops) \in Nat /\ (Len(ops) + 1)..Len(ops') = {}
      BY <1>0, <1>3
    <3>. QED
      BY <1>0, <1>2, <1>3, <3>1, GrowthKeepsSafe DEF Answered
  <2>2. LastOps' = LastOps /\ LastCalls' = LastCalls /\ Marked' /\ SeededHasData'
    BY <1>0, <1>1, <1>2, <1>3 DEF LastOps, LastCalls, Marked, SeededHasData, Coming
  <2>. QED
    BY <1>0, <1>1, <1>3, <2>1, <2>2
<1>4. CASE ~flushPending /\ gate = "open" /\ ops' = Append(ops, Plain("flush"))
  <2>1. ~deleted
    BY <1>2, <1>4 DEF Marked
  <2>2. /\ ops' \in Seq(Op) /\ Len(ops) \in Nat /\ Len(ops') = Len(ops) + 1
        /\ \A i \in 1..Len(ops) : ops'[i] = ops[i]
        /\ ops'[Len(ops) + 1] = Plain("flush")
    BY <1>0, <1>1, <1>4, AppendFacts
  <2>3. \A i \in (Len(ops) + 1)..Len(ops') :
           /\ ops'[i].last => ops'[i].kind = "records"
           /\ ops'[i].kind = "flush" /\ deleted' => i - 1 > Len(ops) /\ ops'[i - 1].kind = "evict"
    <3>1. \A i \in (Len(ops) + 1)..Len(ops') : i = Len(ops) + 1
      BY <2>2
    <3>. QED
      BY <1>0, <1>1, <2>1, <2>2, <3>1
  <2>4. Safe'
    BY <1>0, <1>2, <1>4, <2>1, <2>2, <2>3, GrowthKeepsSafe DEF Answered
  <2>5. LastOps' = LastOps /\ LastCalls' = LastCalls
    BY <1>0, <1>1, <1>4, OneMore DEF LastOps, LastCalls
  <2>6. Marked'
    BY <1>0, <1>1 DEF Marked
  <2>7. SeededHasData'
    <3>1. \A i \in DOMAIN ops : i \in DOMAIN ops' /\ ops'[i] = ops[i]
      BY <1>0, <1>1, <1>4, OneMore
    <3>. QED
      BY <1>0, <1>2, <3>1 DEF SeededHasData, Coming
  <2>. QED
    BY <1>1, <2>2, <2>4, <2>5, <2>6, <2>7
<1>. QED
  BY <1>1, <1>3, <1>4

\* The queue is as it was.
LEMMA QueueSame ==
  ASSUME TypeOK, KeyInv, Answered, status' = status \/ status' # "seeded",
         UNCHANGED <<ops, gate, deleted, flushPending>>
  PROVE  Safe' /\ Marked' /\ LastOps' = LastOps
<1>0. /\ ops \in Seq(Op) /\ ops' = ops /\ gate' = gate /\ deleted' = deleted /\ flushPending' = flushPending
      /\ Safe /\ Marked
  BY DEF TypeOK, KeyInv, Safe
<1>1. Len(ops) \in Nat /\ (Len(ops) + 1)..Len(ops') = {} /\ Len(ops) <= Len(ops')
  BY <1>0
<1>2. Safe'
  BY <1>0, <1>1, GrowthKeepsSafe
<1>. QED
  BY <1>0, <1>2 DEF Marked, LastOps

LEMMA SeedValues ==
  ASSUME session \in Session
  PROVE  /\ NoSeed \in Seed /\ [NoSeed EXCEPT !.stage = "context"] \in Seed
         /\ [stage |-> "fetch", page |-> 1, session |-> session, aborted |-> FALSE] \in Seed
         /\ NoSeed.stage = "none" /\ [NoSeed EXCEPT !.stage = "context"].stage = "context"
<1>1. 0 \in 0..MaxPages /\ 1 \in 0..MaxPages /\ 0 \in Session
  BY Bounds DEF Session
<1>. QED
  BY <1>1 DEF Seed, NoSeed

LEMMA SeedForKeyFacts ==
  ASSUME TypeOK, KeyInv, SeedForKey, gate' = gate
  PROVE  /\ seed' \in Seed /\ (seed'.stage = "write" <=> seed.stage = "write")
         /\ status' = status /\ Backed'
<1>1. seed' \in Seed /\ (seed'.stage = "write" <=> seed.stage = "write")
      /\ (seed.stage \in {"fetch", "write"} => seed' = seed)
  <2>1. /\ seed \in Seed /\ session \in Session
        /\ seed' = seed \/ (seed.stage = "none" /\ seed' = [NoSeed EXCEPT !.stage = "context"])
    BY DEF TypeOK, SeedForKey
  <2>. QED
    BY <2>1, SeedValues
<1>. QED
  BY <1>1 DEF SeedForKey, KeyInv, Backed

LEMMA FromParts ==
  ASSUME Shape', Ends', Safe', Marked', Backed', SeededHasData'
  PROVE  TypeOK' /\ KeyInv'
BY Zenon DEF TypeOK, Shape, Ends, KeyInv, Safe

LEMMA KeptByAcquire ==
  ASSUME TypeOK, KeyInv, AcquireExisting \/ AcquireEnds
  PROVE  TypeOK' /\ KeyInv'
<1>1. /\ SeedForKey /\ ScheduleFlush(ops)
      /\ UNCHANGED <<holds, deleted, gate, calls, row, data, session, crashes>>
      /\ present' \in BOOLEAN /\ acquiring' \in BOOLEAN
  BY DEF AcquireExisting, AcquireEnds, TypeOK, key, disk
<1>2. /\ seed' \in Seed /\ (seed'.stage = "write" <=> seed.stage = "write")
      /\ status' = status /\ Backed'
  BY <1>1, SeedForKeyFacts
<1>3. /\ ops' \in Seq(Op) /\ flushPending' = TRUE
      /\ LastOps' = LastOps /\ LastCalls' = LastCalls
      /\ Safe' /\ Marked' /\ SeededHasData'
  BY <1>1, <1>2, FlushScheduled
<1>4. Shape'
  BY <1>1, <1>2, <1>3 DEF TypeOK, Shape
<1>5. Ends'
  BY <1>2, <1>3, SameEnds
<1>. QED
  BY <1>2, <1>3, <1>4, <1>5, FromParts

LEMMA KeptByHold ==
  ASSUME TypeOK, KeyInv, NEW w \in Window, Hold(w)
  PROVE  TypeOK' /\ KeyInv'
<1>1. /\ ScheduleFlush(ops) /\ holds' = holds \cup {w}
      /\ UNCHANGED <<present, acquiring, deleted, status, seed, gate, calls, row, data, session, crashes>>
  BY DEF Hold, disk, seeding
<1>3. /\ ops' \in Seq(Op) /\ flushPending' = TRUE
      /\ LastOps' = LastOps /\ LastCalls' = LastCalls
      /\ Safe' /\ Marked' /\ SeededHasData'
  BY <1>1, FlushScheduled
<1>4. Shape'
  BY <1>1, <1>3 DEF TypeOK, Shape
<1>5. Ends' /\ Backed'
  BY <1>1, <1>3, SameEnds DEF KeyInv, Backed
<1>. QED
  BY <1>3, <1>4, <1>5, FromParts

LEMMA KeptByAcquireNew ==
  ASSUME TypeOK, KeyInv, AcquireNew
  PROVE  TypeOK' /\ KeyInv'
<1>1. /\ acquiring' = TRUE
      /\ UNCHANGED <<present, holds, deleted, status, seed, ops, gate, flushPending, calls, row, data,
                     session, crashes>>
  BY DEF AcquireNew, disk, seeding, queue
<1>2. Safe' /\ Marked' /\ LastOps' = LastOps
  BY <1>1, QueueSame DEF Answered
<1>3. LastCalls' = LastCalls /\ Backed' /\ SeededHasData'
  BY <1>1 DEF LastCalls, KeyInv, Backed, SeededHasData, Coming
<1>4. Shape'
  BY <1>1 DEF TypeOK, Shape
<1>5. Ends'
  BY <1>1, <1>2, <1>3, SameEnds
<1>. QED
  BY <1>2, <1>3, <1>4, <1>5, FromParts

-----------------------------------------------------------------------------
(* Seeds.                                                                  *)

LEMMA KeptByStartSeed ==
  ASSUME TypeOK, KeyInv, StartSeed
  PROVE  TypeOK' /\ KeyInv'
<1>1. /\ UNCHANGED <<present, holds, acquiring, deleted, ops, gate, flushPending, calls, row, data,
                     session, crashes>>
      /\ seed.stage = "context"
      /\ \/ status \in {"seeded", "syncing"} /\ status' = status /\ seed' = NoSeed
         \/ /\ status' = "syncing"
            /\ seed' = [stage |-> "fetch", page |-> 1, session |-> session, aborted |-> FALSE]
  BY DEF StartSeed, disk, queue, key
<1>2. Safe' /\ Marked' /\ LastOps' = LastOps
  BY <1>1, QueueSame DEF Answered
<1>3. LastCalls' = LastCalls /\ Backed' /\ SeededHasData'
  BY <1>1 DEF LastCalls, KeyInv, Backed, SeededHasData, Coming
<1>4. seed' \in Seed /\ seed'.stage # "write" /\ status' \in {"none", "idle", "syncing", "seeded"}
  <2>1. session \in Session /\ status \in {"none", "idle", "syncing", "seeded"}
    BY DEF TypeOK
  <2>2. seed' \in Seed /\ status' \in {"none", "idle", "syncing", "seeded"}
    BY <1>1, <2>1, SeedValues
  <2>3. seed'.stage # "write"
    BY <1>1 DEF NoSeed
  <2>. QED
    BY <2>2, <2>3
<1>5. Shape'
  BY <1>1, <1>4 DEF TypeOK, Shape
<1>6. Ends'
  BY <1>1, <1>2, <1>3, <1>4, SameEnds
<1>. QED
  BY <1>2, <1>3, <1>5, <1>6, FromParts

LEMMA KeptByFetchFails ==
  ASSUME TypeOK, KeyInv, FetchFails
  PROVE  TypeOK' /\ KeyInv'
<1>1. /\ UNCHANGED <<present, holds, acquiring, deleted, ops, gate, flushPending, calls, row, data,
                     session, crashes>>
      /\ seed.stage = "fetch" /\ seed' = NoSeed /\ status' \in {"none", "idle"}
  BY DEF FetchFails, disk, queue, key, Update
<1>2. Safe' /\ Marked' /\ LastOps' = LastOps
  BY <1>1, QueueSame DEF Answered
<1>3. LastCalls' = LastCalls /\ Backed' /\ SeededHasData'
  BY <1>1 DEF LastCalls, KeyInv, Backed, SeededHasData, Coming
<1>4. seed' \in Seed /\ seed'.stage # "write"
  BY <1>1, SeedValues DEF TypeOK
<1>5. Shape'
  BY <1>1, <1>4 DEF TypeOK, Shape
<1>6. Ends'
  BY <1>1, <1>2, <1>3, <1>4, SameEnds
<1>. QED
  BY <1>2, <1>3, <1>5, <1>6, FromParts

\* An operation that is no flush.
LEMMA Appended ==
  ASSUME TypeOK, KeyInv, gate = "open", NEW e \in Op, e.last => e.kind = "records", e.kind # "flush",
         ops' = Append(ops, e), Answered, UNCHANGED <<gate, deleted, status, flushPending>>
  PROVE  /\ ops' \in Seq(Op) /\ Safe' /\ Marked'
         /\ ~e.last => LastOps' = LastOps
         /\ \A i \in DOMAIN ops : i \in DOMAIN ops' /\ ops'[i] = ops[i]
         /\ LastOps = {} /\ e.last => LastOps' = {Len(ops) + 1}
         /\ \E i \in DOMAIN ops' : ops'[i] = e
<1>0. /\ ops \in Seq(Op) /\ Safe /\ Marked /\ gate' = gate /\ deleted' = deleted /\ status' = status
      /\ flushPending' = flushPending
  BY DEF TypeOK, KeyInv, Safe
<1>1. /\ ops' \in Seq(Op) /\ DOMAIN ops = 1..Len(ops) /\ Len(ops) \in Nat /\ Len(ops') = Len(ops) + 1
      /\ DOMAIN ops' = 1..(Len(ops) + 1)
      /\ \A i \in 1..Len(ops) : ops'[i] = ops[i]
      /\ ops'[Len(ops) + 1] = e
  BY <1>0, AppendFacts
<1>2. \A i \in (Len(ops) + 1)..Len(ops') : i = Len(ops) + 1
  BY <1>1
<1>3. Safe'
  <2>1. \A i \in (Len(ops) + 1)..Len(ops') :
           /\ ops'[i].last => ops'[i].kind = "records"
           /\ ops'[i].kind = "flush" /\ deleted' => i - 1 > Len(ops) /\ ops'[i - 1].kind = "evict"
    BY <1>1, <1>2
  <2>2. Len(ops) <= Len(ops') /\ ~(deleted' /\ ~deleted) /\ (gate # "open" => ops' = ops)
    BY <1>0, <1>1
  <2>. QED
    BY <1>0, <1>1, <2>1, <2>2, GrowthKeepsSafe
<1>4. ~e.last => LastOps' = LastOps
  BY <1>0, OneMore DEF LastOps
<1>5. LastOps = {} /\ e.last => LastOps' = {Len(ops) + 1}
  BY <1>1 DEF LastOps
<1>. QED
  BY <1>0, <1>1, <1>3, <1>4, <1>5 DEF Marked

LEMMA KeptByFetchAnswers ==
  ASSUME TypeOK, KeyInv, NEW last \in BOOLEAN, FetchAnswers(last)
  PROVE  TypeOK' /\ KeyInv'
<1> DEFINE e == [kind |-> "records", session |-> seed.session, last |-> last]
<1>1. /\ UNCHANGED <<present, holds, acquiring, deleted, status, gate, flushPending, calls, row, data,
                     session, crashes>>
      /\ seed.stage = "fetch" /\ (last \/ seed.page < MaxPages)
      /\ ops' = IF gate = "open" THEN Append(ops, e) ELSE ops
      /\ seed' = IF ~last THEN [seed EXCEPT !.page = @ + 1]
                 ELSE IF gate = "open" THEN [seed EXCEPT !.stage = "write"] ELSE NoSeed
  BY DEF FetchAnswers, Accept, disk, key
<1>2. LastOps = {} /\ LastCalls = {} /\ LastCalls' = LastCalls
  BY <1>1 DEF TypeOK, LastCalls
<1>3. seed' \in Seed
  <2>1. seed \in Seed /\ session \in Session
    BY DEF TypeOK
  <2>2. CASE ~last
    <3>1. seed.page \in 0..MaxPages /\ seed.page + 1 \in 0..MaxPages
      BY <1>1, <2>1, <2>2, Bounds DEF Seed
    <3>2. seed' = [seed EXCEPT !.page = seed.page + 1]
      BY <1>1, <2>2
    <3>. QED
      BY <2>1, <3>1, <3>2 DEF Seed
  <2>3. CASE last /\ gate = "open"
    <3>1. seed' = [seed EXCEPT !.stage = "write"]
      BY <1>1, <2>3
    <3>. QED
      BY <2>1, <3>1 DEF Seed
  <2>4. CASE last /\ gate # "open"
    BY <1>1, <2>1, <2>4, SeedValues
  <2>. QED
    BY <2>2, <2>3, <2>4
<1>4. seed'.stage = (IF ~last THEN "fetch" ELSE IF gate = "open" THEN "write" ELSE "none")
  <2>1. seed \in Seed
    BY DEF TypeOK
  <2>2. CASE ~last
    BY <1>1, <2>1, <2>2 DEF Seed
  <2>3. CASE last /\ gate = "open"
    BY <1>1, <2>1, <2>3 DEF Seed
  <2>4. CASE last /\ gate # "open"
    BY <1>1, <2>4 DEF NoSeed
  <2>. QED
    BY <2>2, <2>3, <2>4
<1>5. Backed'
  BY <1>1, <1>4 DEF KeyInv, Backed
<1>6. CASE gate = "open"
  <2>1. e \in Op /\ e.kind = "records" /\ e.last = last
    BY DEF TypeOK, Op, Seed
  <2> HIDE DEF e
  <2>2. ops' = Append(ops, e) /\ Answered
    BY <1>1, <1>6 DEF Answered
  <2>3. /\ ops' \in Seq(Op) /\ Safe' /\ Marked'
        /\ ~e.last => LastOps' = LastOps
        /\ \A i \in DOMAIN ops : i \in DOMAIN ops' /\ ops'[i] = ops[i]
        /\ LastOps = {} /\ e.last => LastOps' = {Len(ops) + 1}
    BY <1>1, <1>6, <2>1, <2>2, Appended
  <2>4. SeededHasData'
    BY <1>1, <2>3 DEF KeyInv, SeededHasData, Coming
  <2>5. Ends'
    <3>1. CASE ~last
      BY <1>2, <1>4, <2>1, <2>3, <3>1 DEF Ends
    <3>2. CASE last
      BY <1>2, <1>4, <1>6, <2>1, <2>3, <3>2 DEF Ends
    <3>. QED
      BY <3>1, <3>2
  <2>6. Shape'
    BY <1>1, <1>3, <2>3 DEF TypeOK, Shape
  <2>. QED
    BY <1>5, <2>3, <2>4, <2>5, <2>6, FromParts
<1>7. CASE gate # "open"
  <2>1. ops' = ops
    BY <1>1, <1>7
  <2>2. Safe' /\ Marked' /\ LastOps' = LastOps
    BY <1>1, <2>1, QueueSame DEF Answered
  <2>3. SeededHasData'
    BY <1>1, <1>7 DEF SeededHasData
  <2>4. Ends'
    BY <1>2, <1>4, <1>7, <2>2 DEF Ends
  <2>5. Shape'
    BY <1>1, <1>3, <2>1 DEF TypeOK, Shape
  <2>. QED
    BY <1>5, <2>2, <2>3, <2>4, <2>5, FromParts
<1>. QED
  BY <1>6, <1>7

-----------------------------------------------------------------------------
(* Releasing and evicting.                                                 *)

LEMMA KeptByRelease ==
  ASSUME TypeOK, KeyInv, NEW w \in Window, Release(w)
  PROVE  TypeOK' /\ KeyInv'
<1>1. /\ holds' = holds \ {w}
      /\ UNCHANGED <<acquiring, status, seed, gate, calls, row, data, session, crashes>>
  BY DEF Release, seeding, disk
<1>2. CASE ScheduleFlush(ops) /\ UNCHANGED <<present, deleted>>
  <2>1. /\ ops' \in Seq(Op) /\ flushPending' = TRUE
        /\ LastOps' = LastOps /\ LastCalls' = LastCalls
        /\ Safe' /\ Marked' /\ SeededHasData'
    BY <1>1, <1>2, FlushScheduled
  <2>2. Shape'
    BY <1>1, <1>2, <2>1 DEF TypeOK, Shape
  <2>3. Ends' /\ Backed'
    BY <1>1, <2>1, SameEnds DEF KeyInv, Backed
  <2>. QED
    BY <2>1, <2>2, <2>3, FromParts
<1>3. CASE present' = FALSE /\ deleted' = TRUE /\ ScheduleFlush(Accept(ops, Plain("evict")))
  <2> DEFINE queued == Accept(ops, Plain("evict"))
  <2>0. /\ ops \in Seq(Op) /\ flushPending \in BOOLEAN /\ session \in Session /\ Safe
        /\ gate' = gate /\ calls' = calls /\ Answered
    BY <1>1 DEF TypeOK, KeyInv, Safe, Answered
  <2>1. Plain("evict") \in Op /\ Plain("evict").kind = "evict" /\ ~Plain("evict").last
    BY <2>0 DEF Plain, Op
  <2>2. queued \in Seq(Op)
    BY <2>0, <2>1, OneMore DEF Accept
  <2>3. /\ flushPending' = TRUE
        /\ Plain("flush") \in Op /\ Plain("flush").kind = "flush" /\ ~Plain("flush").last
        /\ \/ ops' = queued
           \/ ~flushPending /\ gate = "open" /\ ops' = Append(queued, Plain("flush"))
    BY <1>3, <2>0, <2>2, Scheduled
  <2>4. LastCalls' = LastCalls /\ Marked' /\ Backed'
    BY <1>1, <2>3 DEF LastCalls, Marked, KeyInv, Backed
  <2>5. CASE gate # "open"
    <3>1. ops' = ops
      BY <2>3, <2>5 DEF Accept
    <3>2. Len(ops) \in Nat /\ (Len(ops) + 1)..Len(ops') = {} /\ Len(ops) <= Len(ops')
      BY <2>0, <3>1
    <3>3. Safe'
      BY <1>1, <2>0, <2>5, <3>1, <3>2, GrowthKeepsSafe
    <3>4. SeededHasData' /\ LastOps' = LastOps
      BY <1>1, <2>5, <3>1 DEF SeededHasData, LastOps
    <3>5. Ends'
      BY <1>1, <2>4, <3>4, SameEnds
    <3>6. Shape'
      BY <1>1, <1>3, <2>0, <2>3, <3>1 DEF TypeOK, Shape
    <3>. QED
      BY <2>4, <3>3, <3>4, <3>5, <3>6, FromParts
  <2>6. CASE gate = "open"
    <3>1. queued = Append(ops, Plain("evict"))
      BY <2>6 DEF Accept
    <3>2. /\ Len(ops) \in Nat /\ DOMAIN ops = 1..Len(ops) /\ Len(queued) = Len(ops) + 1
          /\ DOMAIN queued = 1..(Len(ops) + 1)
          /\ \A i \in 1..Len(ops) : queued[i] = ops[i]
          /\ queued[Len(ops) + 1] = Plain("evict")
      BY <2>0, <2>1, <3>1, AppendFacts
    <3>3. {i \in DOMAIN queued : queued[i].last} = LastOps
      BY <2>0, <2>1, <3>1, OneMore DEF LastOps
    <3> HIDE DEF queued
    <3>4. /\ ops' \in Seq(Op) /\ LastOps' = LastOps
          /\ Len(ops) + 1 <= Len(ops') /\ Len(ops') \in Nat /\ DOMAIN ops' = 1..Len(ops')
          /\ \A i \in 1..(Len(ops) + 1) : ops'[i] = queued[i]
          /\ \A i \in (Len(ops) + 2)..Len(ops') : i = Len(ops) + 2 /\ ops'[i] = Plain("flush")
      <4>1. CASE ops' = queued
        BY <2>2, <3>2, <3>3, <4>1 DEF LastOps
      <4>2. CASE ops' = Append(queued, Plain("flush"))
        <5>1. /\ ops' \in Seq(Op) /\ Len(ops') = Len(queued) + 1 /\ DOMAIN ops' = 1..(Len(queued) + 1)
              /\ \A i \in 1..Len(queued) : ops'[i] = queued[i]
              /\ ops'[Len(queued) + 1] = Plain("flush")
          BY <2>2, <2>3, <4>2, AppendFacts
        <5>2. LastOps' = LastOps
          BY <2>2, <2>3, <3>3, <4>2, OneMore DEF LastOps
        <5>. QED
          BY <3>2, <5>1, <5>2
      <4>. QED
        BY <2>3, <4>1, <4>2
    <3>5. /\ \A i \in 1..Len(ops) : ops'[i] = ops[i]
          /\ Len(ops) + 1 \in (Len(ops) + 1)..Len(ops') /\ Len(ops) + 1 \in DOMAIN ops'
          /\ ops'[Len(ops) + 1].kind = "evict" /\ ~ops'[Len(ops) + 1].last
          /\ ops'[Len(ops) + 1].kind # "flush"
      BY <2>1, <3>2, <3>4
    <3>6. ASSUME NEW i \in (Len(ops) + 1)..Len(ops')
          PROVE  /\ ops'[i].last => ops'[i].kind = "records"
                 /\ ops'[i].kind = "flush" /\ deleted' => i - 1 > Len(ops) /\ ops'[i - 1].kind = "evict"
      <4>1. CASE i = Len(ops) + 1
        BY <3>5, <4>1
      <4>2. CASE i \in (Len(ops) + 2)..Len(ops')
        <5>1. i = Len(ops) + 2 /\ ops'[i] = Plain("flush")
          BY <3>4, <4>2
        <5>2. i - 1 = Len(ops) + 1 /\ i - 1 > Len(ops)
          BY <3>2, <5>1
        <5>. QED
          BY <2>3, <3>5, <5>1, <5>2
      <4>. QED
        BY <3>2, <3>4, <4>1, <4>2
    <3>7. Safe'
      <4>1. Len(ops) <= Len(ops') /\ \E j \in (Len(ops) + 1)..Len(ops') : ops'[j].kind = "evict"
        BY <3>2, <3>4, <3>5
      <4>. QED
        BY <1>1, <2>0, <2>6, <3>4, <3>5, <3>6, <4>1, GrowthKeepsSafe
    <3>8. SeededHasData'
      BY <3>5 DEF SeededHasData, Coming
    <3>9. Ends'
      BY <1>1, <2>4, <3>4, SameEnds
    <3>10. Shape'
      BY <1>1, <1>3, <2>3, <3>4 DEF TypeOK, Shape
    <3>. QED
      BY <2>4, <3>7, <3>8, <3>9, <3>10, FromParts
  <2>. QED
    BY <2>5, <2>6
<1>. QED
  BY <1>2, <1>3 DEF Release

LEMMA KeptByEvict ==
  ASSUME TypeOK, KeyInv, Evict
  PROVE  TypeOK' /\ KeyInv'
<1> DEFINE c == [kind |-> "evict", doomed |-> TRUE, saved |-> FALSE, session |-> session, last |-> FALSE]
<1>1. /\ UNCHANGED <<holds, acquiring, deleted, status, seed, ops, gate, flushPending, row, data, session,
                     crashes>>
      /\ present' = FALSE /\ calls' = Append(calls, c)
  BY DEF Evict, AskDelete, seeding, queue, disk
<1>2. c \in Call /\ c.kind = "evict" /\ ~c.last
  BY DEF TypeOK, Call
<1> HIDE DEF c
<1>0. Safe /\ Marked /\ Backed
  BY DEF KeyInv, Safe
<1>3. /\ calls' \in Seq(Call)
      /\ \A i \in DOMAIN calls' : (i \in DOMAIN calls /\ calls'[i] = calls[i]) \/ calls'[i] = c
      /\ \A i \in DOMAIN calls' : calls'[i].last => calls'[i].kind = "records"
      /\ LastCalls' = LastCalls
      /\ Gates' /\ \E i \in DOMAIN calls' : calls'[i] = c
  BY <1>0, <1>1, <1>2, NewCall
<1>4. Safe'
  <2>1. Kinds' /\ LastOps' = LastOps
    BY <1>0, <1>1, <1>3 DEF Safe, Kinds, LastOps
  <2>2. FlushSafe'
    BY <1>0, <1>1, <1>3, <2>1 DEF Safe, FlushSafe, Covered, Unseeded
  <2>3. DeleteSafe'
    BY <1>0, <1>1, <1>2, <1>3 DEF Safe, DeleteSafe, EvictQueued
  <2>. QED
    BY <1>3, <2>1, <2>2, <2>3 DEF Safe
<1>5. Marked' /\ Backed' /\ SeededHasData'
  BY <1>0, <1>1, <1>2, <1>3 DEF Marked, Backed, SeededHasData, Coming
<1>6. Ends'
  BY <1>1, <1>3, SameEnds DEF LastOps
<1>7. Shape'
  BY <1>1, <1>3 DEF TypeOK, Shape
<1>. QED
  BY <1>4, <1>5, <1>6, <1>7, FromParts

-----------------------------------------------------------------------------
(* The storage worker answers.                                             *)

\* What the first call leaves behind it.
LEMMA CallsLeft ==
  ASSUME TypeOK, calls # <<>>, calls' = Tail(calls)
  PROVE  /\ Head(calls) = calls[1] /\ 1 \in DOMAIN calls /\ Head(calls) \in Call
         /\ \A i \in DOMAIN calls' : i + 1 \in DOMAIN calls /\ i \in Nat /\ calls'[i] = calls[i + 1]
         /\ \A i \in DOMAIN calls \ {1} : i - 1 \in DOMAIN calls' /\ calls'[i - 1] = calls[i]
         /\ \A i, j \in LastCalls' : i = j
         /\ ~Head(calls).last => (LastCalls' = {} <=> LastCalls = {})
         /\ Head(calls).last => LastCalls' = {}
<1>1. /\ Head(calls) = calls[1] /\ 1 \in DOMAIN calls /\ Head(calls) \in Call
      /\ DOMAIN calls = 1..Len(calls) /\ DOMAIN calls' = 1..(Len(calls) - 1) /\ Len(calls) \in Nat \ {0}
      /\ \A i \in 1..(Len(calls) - 1) : calls'[i] = calls[i + 1]
      /\ \A i \in 2..Len(calls) : i - 1 \in 1..(Len(calls) - 1) /\ calls'[i - 1] = calls[i]
  BY TailFacts DEF TypeOK
<1>2. \A i \in DOMAIN calls' : i + 1 \in DOMAIN calls /\ i \in Nat /\ calls'[i] = calls[i + 1]
  BY <1>1
<1>3. \A i \in DOMAIN calls \ {1} : i - 1 \in DOMAIN calls' /\ calls'[i - 1] = calls[i]
  BY <1>1
<1>4. \A i, j \in LastCalls : i = j
  BY Zenon DEF TypeOK
<1>5. \A i \in LastCalls' : i \in Nat /\ i + 1 \in LastCalls
  BY <1>2 DEF LastCalls
<1>6. ASSUME NEW i \in LastCalls', NEW j \in LastCalls'
      PROVE  i = j
  <2>1. i + 1 = j + 1 /\ i \in Nat /\ j \in Nat
    BY <1>4, <1>5
  <2>. QED
    BY <2>1
<1>7. ASSUME ~Head(calls).last, NEW i \in LastCalls
      PROVE  LastCalls' # {}
  <2>1. i \in DOMAIN calls \ {1} /\ calls[i].last
    BY <1>1, <1>7 DEF LastCalls
  <2>. QED
    BY <1>3, <2>1 DEF LastCalls
<1>8. ASSUME Head(calls).last, NEW i \in LastCalls'
      PROVE  FALSE
  <2>1. 1 \in LastCalls /\ i + 1 \in LastCalls /\ i \in Nat /\ i \in DOMAIN calls'
    BY <1>1, <1>5, <1>8 DEF LastCalls
  <2>2. i + 1 = 1 /\ i \in 1..(Len(calls) - 1)
    BY <1>1, <1>4, <2>1
  <2>. QED
    BY <1>1, <2>2
<1>. QED
  BY <1>1, <1>2, <1>3, <1>5, <1>6, <1>7, <1>8

\* A call that ends no seed is answered.
LEMMA AnswerEnds ==
  ASSUME TypeOK, Safe, calls # <<>>, calls' = Tail(calls), Head(calls).kind # "records",
         LastOps' = LastOps, seed' = seed
  PROVE  /\ Ends'
         /\ Head(calls).kind # "evict" =>
              ((\E i \in DOMAIN calls : calls[i].kind = "evict")
               => \E i \in DOMAIN calls' : calls'[i].kind = "evict")
<1>1. ~Head(calls).last
  BY CallsLeft DEF Safe, Kinds
<1>2. /\ \A i, j \in LastCalls' : i = j
      /\ LastCalls' = {} <=> LastCalls = {}
      /\ \A i \in DOMAIN calls \ {1} : i - 1 \in DOMAIN calls' /\ calls'[i - 1] = calls[i]
      /\ Head(calls) = calls[1]
  BY <1>1, CallsLeft
<1>3. Ends
  BY Parts
<1>4. Ends'
  BY <1>2, <1>3 DEF Ends
<1>. QED
  BY <1>2, <1>4

LEMMA DeleteTypes ==
  ASSUME TypeOK, Delete
  PROVE  row' \in BOOLEAN /\ data' \subseteq Session
BY DEF Delete, TypeOK, disk

LEMMA KeptByAnswerEvict ==
  ASSUME TypeOK, KeyInv, AnswerEvict
  PROVE  TypeOK' /\ KeyInv'
<1>1. /\ UNCHANGED <<present, holds, acquiring, deleted, status, seed, gate, flushPending, session, crashes>>
      /\ calls # <<>> /\ Head(calls).kind = "evict" /\ calls' = Tail(calls)
      /\ ops' = Accept(ops, Plain("evict")) /\ Answered
      /\ row' \in BOOLEAN /\ data' \subseteq Session
  BY DeleteTypes DEF AnswerEvict, Answers, Answered, key, seeding
<1>2. Plain("evict") \in Op /\ Plain("evict").kind = "evict" /\ ~Plain("evict").last
  BY DEF TypeOK, Plain, Op
<1>3. /\ ops' \in Seq(Op) /\ Safe' /\ Marked' /\ LastOps' = LastOps /\ SeededHasData'
  <2>1. CASE gate = "open"
    <3>1. ops' = Append(ops, Plain("evict"))
      BY <1>1, <2>1 DEF Accept
    <3>2. /\ ops' \in Seq(Op) /\ Safe' /\ Marked' /\ LastOps' = LastOps
          /\ \E i \in DOMAIN ops' : ops'[i] = Plain("evict")
      BY <1>1, <1>2, <2>1, <3>1, Appended
    <3>. QED
      BY <1>2, <3>2 DEF SeededHasData, Coming
  <2>2. CASE gate # "open"
    <3>1. ops' = ops
      BY <1>1, <2>2 DEF Accept
    <3>2. Safe' /\ Marked' /\ LastOps' = LastOps
      BY <1>1, <3>1, QueueSame
    <3>. QED
      BY <1>1, <2>2, <3>1, <3>2 DEF SeededHasData, TypeOK
  <2>. QED
    BY <2>1, <2>2
<1>4. Ends'
  BY <1>1, <1>3, AnswerEnds DEF KeyInv, Safe
<1>5. Backed' /\ calls' \in Seq(Call)
  BY <1>1, TailFacts DEF KeyInv, Backed, TypeOK
<1>6. Shape'
  BY <1>1, <1>3, <1>5 DEF TypeOK, Shape
<1>. QED
  BY <1>3, <1>4, <1>5, <1>6, FromParts

LEMMA KeptByAnswerSave ==
  ASSUME TypeOK, KeyInv, AnswerSave
  PROVE  TypeOK' /\ KeyInv'
<1>1. /\ UNCHANGED <<present, holds, acquiring, deleted, status, seed, ops, gate, flushPending, data,
                     session, crashes>>
      /\ calls # <<>> /\ Head(calls).kind = "save" /\ calls' = Tail(calls) /\ Answered
      /\ row' \in BOOLEAN
  BY DEF AnswerSave, Answers, Answered, key, seeding, queue
<1>2. Safe' /\ Marked' /\ LastOps' = LastOps
  BY <1>1, QueueSame
<1>3. /\ Ends'
      /\ (\E i \in DOMAIN calls : calls[i].kind = "evict")
           => \E i \in DOMAIN calls' : calls'[i].kind = "evict"
  BY <1>1, <1>2, AnswerEnds DEF KeyInv, Safe
<1>4. Backed' /\ SeededHasData'
  BY <1>1, <1>3 DEF KeyInv, Backed, SeededHasData, Coming
<1>5. Shape'
  BY <1>1, TailFacts DEF TypeOK, Shape
<1>. QED
  BY <1>2, <1>3, <1>4, <1>5, FromParts

-----------------------------------------------------------------------------
(* The handlers' steps.                                                    *)

\* What the head of the queue leaves behind it, about ends and evictions.
LEMMA OpsLeft ==
  ASSUME TypeOK, Safe, ops # <<>>, ops' = Tail(ops)
  PROVE  /\ \A i \in LastOps' : i \in Nat /\ i + 1 \in LastOps
         /\ \A i, j \in LastOps' : i = j
         /\ ~Head(ops).last => (LastOps' = {} <=> LastOps = {})
         /\ Head(ops).last => 1 \in LastOps /\ LastOps' = {} /\ LastCalls = {} /\ seed.stage = "write"
         /\ Head(ops).kind # "evict" /\ EvictQueued => EvictQueued'
<1>1. /\ DOMAIN ops' = 1..(Len(ops) - 1) /\ Len(ops) \in Nat \ {0}
      /\ \A i \in DOMAIN ops' : i + 1 \in DOMAIN ops /\ i \in Nat /\ ops'[i] = ops[i + 1]
      /\ \A i \in DOMAIN ops \ {1} : i - 1 \in DOMAIN ops' /\ ops'[i - 1] = ops[i]
      /\ Head(ops) = ops[1] /\ 1 \in DOMAIN ops
  BY PopFacts
<1>2. \A i \in LastOps' : i \in Nat /\ i + 1 \in LastOps
  BY <1>1 DEF LastOps
<1>3. Ends
  BY Parts
<1>4. ASSUME NEW i \in LastOps', NEW j \in LastOps'
      PROVE  i = j
  <2>1. i + 1 = j + 1 /\ i \in Nat /\ j \in Nat
    BY <1>2, <1>3 DEF Ends
  <2>. QED
    BY <2>1
<1>5. ASSUME ~Head(ops).last, NEW i \in LastOps
      PROVE  LastOps' # {}
  <2>1. i \in DOMAIN ops \ {1} /\ ops[i].last
    BY <1>1, <1>5 DEF LastOps
  <2>. QED
    BY <1>1, <2>1 DEF LastOps
<1>6. ASSUME Head(ops).last
      PROVE  1 \in LastOps /\ LastOps' = {} /\ LastCalls = {} /\ seed.stage = "write"
  <2>1. 1 \in LastOps
    BY <1>1, <1>6 DEF LastOps
  <2>2. ASSUME NEW i \in LastOps'
        PROVE  FALSE
    <3>1. i + 1 = 1 /\ i \in 1..(Len(ops) - 1)
      BY <1>1, <1>2, <1>3, <2>1 DEF Ends, LastOps
    <3>. QED
      BY <1>1, <3>1
  <2>. QED
    BY <1>3, <2>1, <2>2 DEF Ends
<1>7. Head(ops).kind # "evict" /\ EvictQueued => EvictQueued'
  BY <1>1 DEF EvictQueued
<1>. QED
  BY <1>2, <1>4, <1>5, <1>6, <1>7

LEMMA KeptByRunFlush ==
  ASSUME TypeOK, KeyInv, RunFlush
  PROVE  TypeOK' /\ KeyInv'
<1> DEFINE c == [kind |-> "delete", doomed |-> deleted, saved |-> FALSE, session |-> session, last |-> FALSE]
<1>1. /\ UNCHANGED <<present, holds, acquiring, status, seed, gate, row, data, session, crashes>>
      /\ gate = "open" /\ ~Busy /\ ops # <<>> /\ Head(ops).kind = "flush" /\ ops' = Tail(ops)
      /\ flushPending' = FALSE /\ deleted' = FALSE /\ calls' = Append(calls, c)
  BY DEF RunFlush, Next1, AskDelete, seeding, disk
<1>2. c \in Call /\ c.kind = "delete" /\ c.doomed = deleted /\ ~c.last
  BY DEF TypeOK, Call
<1> HIDE DEF c
<1>0. Safe /\ Backed /\ SeededHasData /\ Ends
  BY Parts DEF KeyInv, Safe
<1>3. /\ calls' \in Seq(Call)
      /\ \A i \in DOMAIN calls' : (i \in DOMAIN calls /\ calls'[i] = calls[i]) \/ calls'[i] = c
      /\ \A i \in DOMAIN calls' : calls'[i].last => calls'[i].kind = "records"
      /\ LastCalls' = LastCalls /\ Gates'
  BY <1>0, <1>1, <1>2, NewCall
<1>4. LastCalls = {} /\ \A i \in DOMAIN calls : calls[i].kind # "delete"
  BY <1>0, <1>1, Quiet
<1>5. /\ ops' \in Seq(Op) /\ Head(ops) = ops[1] /\ 1 \in DOMAIN ops /\ ~Head(ops).last
      /\ \A i \in DOMAIN ops' : ops'[i].last => ops'[i].kind = "records"
  BY <1>0, <1>1, PopFacts DEF Safe, Kinds
<1>6. deleted => EvictQueued' \/ (status # "seeded" /\ LastCalls = {})
  <2>1. deleted => Covered(1) \/ Unseeded(1)
    BY <1>0, <1>1, <1>5 DEF Safe, FlushSafe
  <2>2. Covered(1) => EvictQueued'
    BY <1>0, <1>1, OpsLeft DEF Covered, EvictQueued
  <2>. QED
    BY <2>1, <2>2 DEF Unseeded
<1>7. Safe'
  <2>1. DeleteSafe'
    BY <1>1, <1>2, <1>3, <1>4, <1>6 DEF DeleteSafe
  <2>. QED
    BY <1>1, <1>3, <1>5, <2>1 DEF Safe, Kinds, FlushSafe
<1>8. /\ \A i, j \in LastOps' : i = j
      /\ (LastOps' = {} <=> LastOps = {})
      /\ EvictQueued => EvictQueued'
  BY <1>0, <1>1, <1>5, OpsLeft
<1>9. Ends'
  BY <1>0, <1>1, <1>3, <1>8 DEF Ends
<1>10. SeededHasData'
  <2>1. (\E i \in DOMAIN calls : calls[i].kind = "evict") => \E i \in DOMAIN calls' : calls'[i].kind = "evict"
    BY <1>1, AppendFacts, <1>2 DEF TypeOK
  <2>. QED
    BY <1>0, <1>1, <1>8, <2>1 DEF SeededHasData, Coming, EvictQueued
<1>11. Marked' /\ Backed'
  BY <1>0, <1>1 DEF Marked, Backed
<1>12. Shape'
  BY <1>1, <1>3, <1>5 DEF TypeOK, Shape
<1>. QED
  BY <1>7, <1>9, <1>10, <1>11, <1>12, FromParts

LEMMA KeptByRunEvict ==
  ASSUME TypeOK, KeyInv, RunEvict
  PROVE  TypeOK' /\ KeyInv'
<1>1. /\ UNCHANGED <<present, holds, acquiring, deleted, seed, gate, flushPending, calls, row, data, session,
                     crashes>>
      /\ gate = "open" /\ ~Busy /\ ops # <<>> /\ Head(ops).kind = "evict" /\ ops' = Tail(ops)
      /\ status' = "none"
  BY DEF RunEvict, Next1, key, disk
<1>0. Safe /\ Backed /\ Marked /\ Ends
  BY Parts DEF KeyInv, Safe
<1>2. LastCalls = {} /\ LastCalls' = {} /\ \A i \in DOMAIN calls : calls[i].kind # "delete"
  BY <1>0, <1>1, Quiet DEF LastCalls
<1>3. /\ ops' \in Seq(Op) /\ Head(ops) = ops[1] /\ 1 \in DOMAIN ops /\ ~Head(ops).last
      /\ \A i \in DOMAIN ops' : i + 1 \in DOMAIN ops /\ i \in Nat /\ ops'[i] = ops[i + 1]
      /\ \A i \in DOMAIN ops \ {1} : i - 1 \in DOMAIN ops' /\ ops'[i - 1] = ops[i]
      /\ \A i \in DOMAIN ops' : ops'[i].last => ops'[i].kind = "records"
      /\ DOMAIN ops = 1..Len(ops) /\ DOMAIN ops' = 1..(Len(ops) - 1) /\ Len(ops) \in Nat
  BY <1>0, <1>1, PopFacts DEF Safe, Kinds
<1>4. /\ \A i \in LastOps' : i \in Nat /\ i + 1 \in LastOps
      /\ \A i, j \in LastOps' : i = j
      /\ LastOps' = {} <=> LastOps = {}
  BY <1>0, <1>1, <1>3, OpsLeft
<1>5. ASSUME deleted, NEW i \in DOMAIN ops', ops'[i].kind = "flush"
      PROVE  Covered(i)' \/ Unseeded(i)'
  <2>1. Covered(i + 1) \/ Unseeded(i + 1)
    BY <1>0, <1>1, <1>3, <1>5 DEF Safe, FlushSafe
  <2>2. CASE Unseeded(i + 1)
    <3>1. \A k \in LastOps' : ~(k < i)
      BY <1>3, <1>4, <2>2 DEF Unseeded
    <3>. QED
      BY <1>1, <1>2, <3>1 DEF Unseeded
  <2>3. CASE Covered(i + 1)
    <3>1. PICK j \in DOMAIN ops : /\ ops[j].kind = "evict"
                                  /\ \A k \in DOMAIN ops : j < k /\ k < i + 1 => ~ops[k].last
      BY <2>3 DEF Covered
    <3>2. CASE j = 1
      <4>1. ASSUME NEW k \in LastOps', k < i
            PROVE  FALSE
        <5>1. k \in DOMAIN ops' /\ k + 1 \in DOMAIN ops /\ ops[k + 1].last
          BY <1>3, <1>4 DEF LastOps
        <5>2. j < k + 1 /\ k + 1 < i + 1
          BY <1>3, <3>2, <4>1, <5>1
        <5>. QED
          BY <3>1, <5>1, <5>2
      <4>. QED
        BY <1>1, <1>2, <4>1 DEF Unseeded
    <3>3. CASE j # 1
      <4>1. j - 1 \in DOMAIN ops' /\ ops'[j - 1].kind = "evict" /\ j \in Nat
        BY <1>3, <3>1, <3>3
      <4>2. ASSUME NEW k \in DOMAIN ops', j - 1 < k, k < i
            PROVE  ~ops'[k].last
        <5>1. k + 1 \in DOMAIN ops /\ ops'[k] = ops[k + 1] /\ j < k + 1 /\ k + 1 < i + 1
          BY <1>3, <4>1, <4>2
        <5>. QED
          BY <3>1, <5>1
      <4>. QED
        BY <4>1, <4>2 DEF Covered
    <3>. QED
      BY <3>2, <3>3
  <2>. QED
    BY <2>1, <2>2, <2>3
<1>6. Safe'
  <2>1. FlushSafe'
    BY <1>1, <1>5 DEF FlushSafe
  <2>2. DeleteSafe'
    BY <1>1, <1>2 DEF DeleteSafe
  <2>3. Kinds' /\ Gates'
    BY <1>0, <1>1, <1>3 DEF Safe, Kinds, Gates, Busy
  <2>. QED
    BY <2>1, <2>2, <2>3 DEF Safe
<1>7. Ends'
  BY <1>0, <1>1, <1>2, <1>4 DEF Ends
<1>8. Marked' /\ Backed' /\ SeededHasData'
  BY <1>0, <1>1 DEF Marked, Backed, SeededHasData
<1>9. Shape'
  BY <1>1, <1>3 DEF TypeOK, Shape
<1>. QED
  BY <1>6, <1>7, <1>8, <1>9, FromParts

LEMMA KeptByRunRecords ==
  ASSUME TypeOK, KeyInv, RunRecords
  PROVE  TypeOK' /\ KeyInv'
<1> DEFINE c == [kind |-> "records", doomed |-> FALSE, saved |-> FALSE,
                 session |-> Head(ops).session, last |-> Head(ops).last]
<1>1. /\ UNCHANGED <<present, holds, acquiring, deleted, status, seed, gate, flushPending, row, data, session,
                     crashes>>
      /\ gate = "open" /\ ~Busy /\ ops # <<>> /\ Head(ops).kind = "records" /\ ops' = Tail(ops)
      /\ calls' = Append(calls, c)
  BY DEF RunRecords, Next1, key, seeding, disk
<1>0. Safe /\ Backed /\ Marked /\ SeededHasData /\ Ends
  BY Parts DEF KeyInv, Safe
<1>2. /\ ops' \in Seq(Op) /\ Head(ops) = ops[1] /\ 1 \in DOMAIN ops /\ Head(ops) \in Op
      /\ \A i \in DOMAIN ops' : i + 1 \in DOMAIN ops /\ i \in Nat /\ ops'[i] = ops[i + 1]
      /\ \A i \in DOMAIN ops' : ops'[i].last => ops'[i].kind = "records"
      /\ DOMAIN ops' = 1..(Len(ops) - 1) /\ Len(ops) \in Nat
  BY <1>0, <1>1, PopFacts
<1>3. c \in Call /\ c.kind = "records" /\ c.last = Head(ops).last
  BY <1>2 DEF Op, Call
<1> HIDE DEF c
<1>4. /\ calls' \in Seq(Call)
      /\ \A i \in DOMAIN calls' : (i \in DOMAIN calls /\ calls'[i] = calls[i]) \/ calls'[i] = c
      /\ \A i \in DOMAIN calls' : calls'[i].last => calls'[i].kind = "records"
      /\ ~c.last => LastCalls' = LastCalls
      /\ c.last /\ LastCalls = {} => LastCalls' = {Len(calls) + 1}
      /\ Gates'
  BY <1>0, <1>1, <1>3, NewCall
<1>5. LastCalls = {} /\ \A i \in DOMAIN calls : calls[i].kind # "delete"
  BY <1>0, <1>1, Quiet
<1>6. /\ \A i \in LastOps' : i \in Nat /\ i + 1 \in LastOps
      /\ \A i, j \in LastOps' : i = j
      /\ ~Head(ops).last => (LastOps' = {} <=> LastOps = {})
      /\ Head(ops).last => 1 \in LastOps /\ LastOps' = {} /\ LastCalls = {} /\ seed.stage = "write"
      /\ EvictQueued => EvictQueued'
  BY <1>0, <1>1, OpsLeft
<1>7. ASSUME deleted, NEW i \in DOMAIN ops', ops'[i].kind = "flush"
      PROVE  Covered(i)' \/ Unseeded(i)'
  <2>1. Covered(i + 1) \/ Unseeded(i + 1)
    BY <1>0, <1>1, <1>2, <1>7 DEF Safe, FlushSafe
  <2>2. CASE Unseeded(i + 1)
    <3>1. \A k \in LastOps' : ~(k < i)
      BY <1>2, <1>6, <2>2 DEF Unseeded
    <3>2. 1 < i + 1
      BY <1>2
    <3>3. ~Head(ops).last
      BY <1>6, <2>2, <3>2 DEF Unseeded
    <3>. QED
      BY <1>1, <1>3, <1>4, <1>5, <2>2, <3>1, <3>3 DEF Unseeded
  <2>3. CASE Covered(i + 1)
    BY <1>0, <1>1, <2>3, StillCovered
  <2>. QED
    BY <2>1, <2>2, <2>3
<1>8. Safe'
  <2>1. FlushSafe'
    BY <1>1, <1>7 DEF FlushSafe
  <2>2. DeleteSafe'
    BY <1>3, <1>4, <1>5 DEF DeleteSafe
  <2>. QED
    BY <1>2, <1>4, <2>1, <2>2 DEF Safe, Kinds
<1>9. Ends'
  <2>1. CASE Head(ops).last
    BY <1>1, <1>3, <1>4, <1>6, <2>1 DEF Ends
  <2>2. CASE ~Head(ops).last
    BY <1>0, <1>1, <1>3, <1>4, <1>5, <1>6, <2>2 DEF Ends
  <2>. QED
    BY <2>1, <2>2
<1>10. SeededHasData'
  <2>1. (\E i \in DOMAIN calls : calls[i].kind = "evict") => \E i \in DOMAIN calls' : calls'[i].kind = "evict"
    BY <1>1, <1>3, AppendFacts DEF TypeOK
  <2>. QED
    BY <1>0, <1>1, <1>6, <2>1 DEF SeededHasData, Coming, EvictQueued
<1>11. Marked' /\ Backed'
  BY <1>0, <1>1 DEF Marked, Backed
<1>12. Shape'
  BY <1>1, <1>2, <1>4 DEF TypeOK, Shape
<1>. QED
  BY <1>8, <1>9, <1>10, <1>11, <1>12, FromParts

LEMMA KeptByAnswerDelete ==
  ASSUME TypeOK, KeyInv, AnswerDelete
  PROVE  TypeOK' /\ KeyInv'
<1> DEFINE rest == Tail(calls)
           c == [Head(calls) EXCEPT !.kind = "save", !.saved = present]
<1>1. /\ UNCHANGED <<present, holds, acquiring, deleted, status, seed, ops, gate, flushPending, session,
                     crashes>>
      /\ calls # <<>> /\ Head(calls).kind = "delete" /\ calls' = Append(rest, c)
      /\ row' \in BOOLEAN /\ data' \subseteq Session
      /\ Head(calls).doomed \/ data' = data
  BY DeleteTypes DEF AnswerDelete, Answers, Delete, key, seeding, queue, disk
<1>0. Safe /\ Backed /\ Marked /\ SeededHasData /\ Ends
  BY Parts DEF KeyInv, Safe
<1>2. /\ rest \in Seq(Call) /\ DOMAIN calls = 1..Len(calls) /\ Len(calls) \in Nat \ {0}
      /\ Len(rest) = Len(calls) - 1
      /\ \A i \in 1..(Len(calls) - 1) : rest[i] = calls[i + 1]
      /\ Head(calls) = calls[1] /\ Head(calls) \in Call /\ 1 \in DOMAIN calls
  BY <1>1, TailFacts DEF TypeOK
<1>3. c \in Call /\ c.kind = "save" /\ ~c.last
  <2>1. ~Head(calls).last
    BY <1>0, <1>1, <1>2 DEF Safe, Kinds
  <2>2. present \in BOOLEAN
    BY DEF TypeOK
  <2>. QED
    BY <1>2, <2>1, <2>2 DEF Call
<1> HIDE DEF c, rest
<1>4. /\ calls' \in Seq(Call) /\ DOMAIN calls' = 1..Len(calls)
      /\ \A i \in 1..(Len(calls) - 1) : calls'[i] = calls[i + 1]
      /\ calls'[Len(calls)] = c
  <2>1. /\ calls' \in Seq(Call) /\ DOMAIN calls' = 1..(Len(rest) + 1)
        /\ \A i \in 1..Len(rest) : calls'[i] = rest[i]
        /\ calls'[Len(rest) + 1] = c
    <3>0. rest \in Seq(Call) /\ c \in Call
      BY <1>2, <1>3
    <3>1. /\ Append(rest, c) \in Seq(Call) /\ DOMAIN Append(rest, c) = 1..(Len(rest) + 1)
          /\ \A i \in 1..Len(rest) : Append(rest, c)[i] = rest[i]
          /\ Append(rest, c)[Len(rest) + 1] = c
      BY <3>0, AppendFacts
    <3>. QED
      BY <1>1, <3>1
  <2>2. Len(rest) + 1 = Len(calls)
    BY <1>2
  <2>. QED
    BY <1>2, <2>1, <2>2
<1>5. /\ \A i \in DOMAIN calls' : \/ i + 1 \in DOMAIN calls /\ calls'[i] = calls[i + 1]
                                  \/ calls'[i] = c
      /\ DOMAIN calls' = DOMAIN calls /\ DOMAIN calls \subseteq Nat
      /\ \A i \in DOMAIN calls \ {1} : i - 1 \in DOMAIN calls' /\ calls'[i - 1] = calls[i]
  <2>1. ASSUME NEW i \in DOMAIN calls \ {1}
        PROVE  i - 1 \in DOMAIN calls' /\ calls'[i - 1] = calls[i]
    <3>1. i - 1 \in 1..(Len(calls) - 1) /\ (i - 1) + 1 = i
      BY <1>2
    <3>. QED
      BY <1>2, <1>4, <3>1
  <2>2. ASSUME NEW i \in DOMAIN calls'
        PROVE  \/ i + 1 \in DOMAIN calls /\ calls'[i] = calls[i + 1]
               \/ calls'[i] = c
    <3>1. i \in 1..(Len(calls) - 1) \/ i = Len(calls)
      BY <1>2, <1>4
    <3>. QED
      BY <1>2, <1>4, <3>1
  <2>. QED
    BY <1>2, <1>4, <2>1, <2>2
<1>6. /\ \A i, j \in LastCalls' : i = j
      /\ LastCalls' = {} <=> LastCalls = {}
  <2>1. \A i \in LastCalls' : i \in Nat /\ i + 1 \in LastCalls
    BY <1>3, <1>5 DEF LastCalls
  <2>2. \A i, j \in LastCalls : i = j
    BY <1>0 DEF Ends
  <2>3. ASSUME NEW i \in LastCalls', NEW j \in LastCalls'
        PROVE  i = j
    <3>1. i + 1 = j + 1 /\ i \in Nat /\ j \in Nat
      BY <2>1, <2>2
    <3>. QED
      BY <3>1
  <2>4. ASSUME NEW i \in LastCalls
        PROVE  LastCalls' # {}
    <3>1. i \in DOMAIN calls \ {1} /\ calls[i].last
      BY <1>0, <1>1, <1>2 DEF Safe, Kinds, LastCalls
    <3>. QED
      BY <1>5, <3>1 DEF LastCalls
  <2>. QED
    BY <2>1, <2>3, <2>4
<1>7. LastOps' = LastOps
  BY <1>1 DEF LastOps
<1>8. Ends'
  BY <1>0, <1>1, <1>6, <1>7 DEF Ends
<1>9. Kinds'
  BY <1>0, <1>1, <1>3, <1>5 DEF Safe, Kinds
<1>10. Gates'
  <2>1. Busy
    BY <1>1, <1>2 DEF Busy
  <2>2. \A i \in DOMAIN calls' : calls'[i].kind = "wipe" =>
           i + 1 \in DOMAIN calls /\ calls[i + 1].kind = "wipe" /\ i \in Nat
    BY <1>3, <1>5
  <2>3. ASSUME NEW i \in DOMAIN calls', NEW j \in DOMAIN calls',
               calls'[i].kind = "wipe", calls'[j].kind = "wipe"
        PROVE  i = j
    <3>1. i + 1 = j + 1 /\ i \in Nat /\ j \in Nat
      BY <1>0, <2>2, <2>3 DEF Safe, Gates
    <3>. QED
      BY <3>1
  <2>. QED
    BY <1>0, <1>1, <2>1, <2>2, <2>3 DEF Safe, Gates
<1>11. FlushSafe' /\ DeleteSafe'
  <2>1. FlushSafe'
    BY <1>0, <1>1, <1>6, <1>7 DEF Safe, FlushSafe, Covered, Unseeded
  <2>2. DeleteSafe'
    BY <1>0, <1>1, <1>3, <1>5, <1>6 DEF Safe, DeleteSafe, EvictQueued
  <2>. QED
    BY <2>1, <2>2
<1>12. SeededHasData'
  <2>1. CASE Head(calls).doomed
    <3>1. gate = "open" => EvictQueued \/ status # "seeded"
      BY <1>0, <1>1, <1>2, <2>1 DEF Safe, DeleteSafe
    <3>. QED
      BY <1>1, <3>1 DEF SeededHasData, EvictQueued, Coming
  <2>2. CASE data' = data
    <3>1. (\E i \in DOMAIN calls : calls[i].kind = "evict")
           => \E i \in DOMAIN calls' : calls'[i].kind = "evict"
      BY <1>1, <1>2, <1>5
    <3>. QED
      BY <1>0, <1>1, <2>2, <3>1 DEF SeededHasData, Coming
  <2>. QED
    BY <1>1, <2>1, <2>2
<1>13. Marked' /\ Backed'
  BY <1>0, <1>1 DEF Marked, Backed
<1>14. Shape'
  BY <1>1, <1>4 DEF TypeOK, Shape
<1>. QED
  BY <1>8, <1>9, <1>10, <1>11, <1>12, <1>13, <1>14, FromParts DEF Safe

LEMMA KeptByAnswerRecords ==
  ASSUME TypeOK, KeyInv, AnswerRecords
  PROVE  TypeOK' /\ KeyInv'
<1>1. /\ UNCHANGED <<present, holds, acquiring, deleted, ops, gate, flushPending, row, session, crashes>>
      /\ calls # <<>> /\ Head(calls).kind = "records" /\ calls' = Tail(calls) /\ Answered
      /\ data' = data \cup {Head(calls).session}
      /\ \/ Head(calls).last /\ seed' = NoSeed /\ status' \in {"none", "seeded"}
         \/ ~Head(calls).last /\ seed' = seed /\ status' = status
  BY DEF AnswerRecords, Answers, Answered, key, seeding, queue, Update
<1>0. Safe /\ Backed /\ Marked /\ Ends
  BY Parts DEF KeyInv, Safe
<1>2. /\ Head(calls) = calls[1] /\ 1 \in DOMAIN calls /\ Head(calls) \in Call
      /\ \A i, j \in LastCalls' : i = j
      /\ ~Head(calls).last => (LastCalls' = {} <=> LastCalls = {})
      /\ Head(calls).last => LastCalls' = {}
  BY <1>1, CallsLeft
<1>3. LastOps' = LastOps
  BY <1>1 DEF LastOps
<1>4. seed' \in Seed /\ status' \in {"none", "idle", "syncing", "seeded"}
  BY <1>1, SeedValues DEF TypeOK
<1>5. Backed' /\ SeededHasData' /\ Marked'
  BY <1>0, <1>1 DEF Backed, SeededHasData, Marked
<1>6. CASE ~Head(calls).last
  <2>1. Safe'
    BY <1>1, <1>6, QueueSame
  <2>2. Ends'
    BY <1>0, <1>1, <1>2, <1>3, <1>6 DEF Ends
  <2>3. Shape'
    BY <1>1, <1>2, <1>4, TailFacts DEF TypeOK, Shape, Call
  <2>. QED
    BY <1>5, <2>1, <2>2, <2>3, FromParts
<1>7. CASE Head(calls).last
  <2>1. LastCalls # {} /\ LastOps = {}
    BY <1>0, <1>2, <1>7 DEF Ends, LastCalls
  <2>2. seed'.stage = "none"
    BY <1>1, <1>7 DEF NoSeed
  <2>3. Ends'
    BY <1>2, <1>3, <1>7, <2>1, <2>2 DEF Ends
  <2>4. /\ \A i \in DOMAIN calls' : \E j \in DOMAIN calls : calls'[i] = calls[j]
        /\ Busy' => Busy
        /\ \A i, j \in DOMAIN calls' : calls'[i].kind = "wipe" /\ calls'[j].kind = "wipe" => i = j
    BY <1>0, <1>1, AnsweredCalls DEF Safe
  <2>5. Kinds' /\ Gates'
    BY <1>0, <1>1, <2>4 DEF Safe, Kinds, Gates
  <2>6. FlushSafe'
    BY <1>0, <1>1, <2>1 DEF Safe, FlushSafe, Covered, Unseeded
  <2>7. DeleteSafe'
    BY <1>0, <1>1, <2>1, <2>4 DEF Safe, DeleteSafe, EvictQueued
  <2>8. Shape'
    BY <1>1, <1>2, <1>4, TailFacts DEF TypeOK, Shape, Call
  <2>. QED
    BY <1>5, <2>3, <2>5, <2>6, <2>7, <2>8, FromParts DEF Safe
<1>. QED
  BY <1>6, <1>7

-----------------------------------------------------------------------------
(* A session reset, and a restart.                                         *)

\* The session that a reset begins is within its bound.
Counted == gate = "draining" => session < MaxResets

LEMMA EmptyQueue ==
  ASSUME ops' = <<>>
  PROVE  ops' \in Seq(Op) /\ DOMAIN ops' = {} /\ LastOps' = {}
BY DEF LastOps

LEMMA KeptByBeginReset ==
  ASSUME TypeOK, KeyInv, BeginReset
  PROVE  TypeOK' /\ KeyInv'
<1>1. /\ UNCHANGED <<present, holds, acquiring, deleted, status, calls, row, data, session, crashes>>
      /\ gate = "open" /\ gate' = "draining" /\ ops' = <<>> /\ flushPending' \in BOOLEAN
      /\ seed' = IF \E i \in DOMAIN ops : ops[i].last THEN NoSeed ELSE seed
  BY DEF BeginReset, TypeOK, key, disk
<1>0. Safe /\ Ends
  BY Parts DEF KeyInv, Safe
<1>2. ops' \in Seq(Op) /\ DOMAIN ops' = {} /\ LastOps' = {} /\ LastCalls' = LastCalls
  BY <1>1, EmptyQueue DEF LastCalls
<1>3. Safe'
  BY <1>0, <1>1, <1>2 DEF Safe, Kinds, Gates, FlushSafe, DeleteSafe
<1>4. Marked' /\ Backed' /\ SeededHasData'
  BY <1>1 DEF Marked, Backed, SeededHasData
<1>5. Ends'
  <2>1. CASE LastOps = {}
    <3>1. seed' = seed
      BY <1>1, <2>1 DEF LastOps
    <3>. QED
      BY <1>0, <1>2, <2>1, <3>1 DEF Ends
  <2>2. CASE LastOps # {}
    <3>1. seed'.stage = "none" /\ LastCalls = {}
      BY <1>0, <1>1, <2>2 DEF Ends, LastOps, NoSeed
    <3>. QED
      BY <1>0, <1>2, <3>1 DEF Ends
  <2>. QED
    BY <2>1, <2>2
<1>6. seed' \in Seed
  BY <1>1, SeedValues DEF TypeOK
<1>7. Shape'
  BY <1>1, <1>2, <1>6 DEF TypeOK, Shape
<1>. QED
  BY <1>3, <1>4, <1>5, <1>7, FromParts

LEMMA KeptByAbortFetches ==
  ASSUME TypeOK, KeyInv, Counted, AbortFetches
  PROVE  TypeOK' /\ KeyInv'
<1>1. /\ UNCHANGED <<present, holds, acquiring, deleted, status, ops, flushPending, calls, row, data, crashes>>
      /\ gate = "draining" /\ ~Busy /\ gate' = "aborted" /\ session' = session + 1
      /\ seed' = IF seed.stage = "fetch" THEN [seed EXCEPT !.aborted = TRUE] ELSE seed
  BY DEF AbortFetches, key, disk
<1>0. Safe /\ Ends
  BY Parts DEF KeyInv, Safe
<1>2. LastOps' = LastOps /\ LastCalls' = LastCalls /\ ~Busy'
  BY <1>1 DEF LastCalls, LastOps, Busy
<1>3. Safe'
  BY <1>0, <1>1, <1>2 DEF Safe, Kinds, Gates, FlushSafe, DeleteSafe
<1>4. Marked' /\ Backed' /\ SeededHasData'
  BY <1>1 DEF Marked, Backed, SeededHasData
<1>5. seed \in Seed
  BY DEF TypeOK
<1>6. seed' \in Seed /\ seed'.stage = seed.stage
  BY <1>1, <1>5 DEF Seed
<1>7. Ends'
  BY <1>2, <1>6, SameEnds
<1>8. session' \in Session
  BY <1>1, Bounds DEF TypeOK, Counted, Session
<1>9. Shape'
  BY <1>1, <1>6, <1>8 DEF TypeOK, Shape
<1>. QED
  BY <1>3, <1>4, <1>7, <1>9, FromParts

LEMMA KeptByOnSessionDestroyed ==
  ASSUME TypeOK, KeyInv, OnSessionDestroyed
  PROVE  TypeOK' /\ KeyInv'
<1> DEFINE c == [kind |-> "wipe", doomed |-> present, saved |-> FALSE, session |-> session, last |-> FALSE]
<1>1. /\ UNCHANGED <<acquiring, status, seed, ops, row, data, session, crashes>>
      /\ gate = "aborted" /\ gate' = "resetting" /\ present' = FALSE /\ holds' = {} /\ deleted' = FALSE
      /\ flushPending' = FALSE /\ calls' = Append(calls, c)
  BY DEF OnSessionDestroyed, AskDelete, seeding, disk
<1>2. c \in Call /\ c.kind = "wipe" /\ ~c.last
  BY DEF TypeOK, Call
<1> HIDE DEF c
<1>0. Safe /\ Ends
  BY Parts DEF KeyInv, Safe
<1>3. /\ calls \in Seq(Call) /\ calls' \in Seq(Call)
      /\ DOMAIN calls = 1..Len(calls) /\ DOMAIN calls' = 1..(Len(calls) + 1) /\ Len(calls) \in Nat
      /\ \A i \in 1..Len(calls) : calls'[i] = calls[i]
      /\ calls'[Len(calls) + 1] = c
  BY <1>1, <1>2, AppendFacts DEF TypeOK
<1>4. ASSUME NEW i \in DOMAIN calls'
      PROVE  \/ i \in DOMAIN calls /\ calls'[i] = calls[i]
             \/ i = Len(calls) + 1 /\ calls'[i] = c
  <2>1. i \in 1..Len(calls) \/ i = Len(calls) + 1
    BY <1>3
  <2>2. CASE i = Len(calls) + 1
    BY <1>3, <2>2
  <2>3. CASE i \in 1..Len(calls)
    BY <1>3, <2>3
  <2>. QED
    BY <2>1, <2>2, <2>3
<1>5. LastCalls' = LastCalls /\ LastOps' = LastOps
  BY <1>1, <1>2, <1>3 DEF LastCalls, LastOps
<1>6. Safe'
  <2>1. Kinds'
    BY <1>0, <1>1, <1>2, <1>4 DEF Safe, Kinds
  <2>2. ~Busy'
    BY <1>0, <1>1, <1>2, <1>4 DEF Safe, Gates, Busy
  <2>3. \A i \in DOMAIN calls' : calls'[i].kind = "wipe" => i = Len(calls) + 1
    BY <1>0, <1>1, <1>4 DEF Safe, Gates
  <2>4. Gates'
    BY <1>0, <1>1, <2>2, <2>3 DEF Safe, Gates
  <2>. QED
    BY <1>1, <2>1, <2>4 DEF Safe, FlushSafe, DeleteSafe
<1>7. Marked' /\ Backed' /\ SeededHasData'
  BY <1>1 DEF Marked, Backed, SeededHasData
<1>8. Ends'
  BY <1>1, <1>5, SameEnds
<1>9. Shape'
  BY <1>1, <1>3 DEF TypeOK, Shape
<1>. QED
  BY <1>6, <1>7, <1>8, <1>9, FromParts

LEMMA KeptByAnswerWipe ==
  ASSUME TypeOK, KeyInv, AnswerWipe
  PROVE  TypeOK' /\ KeyInv'
<1>1. /\ UNCHANGED <<present, holds, acquiring, deleted, seed, ops, flushPending, session, crashes>>
      /\ calls # <<>> /\ Head(calls).kind = "wipe" /\ calls' = Tail(calls)
      /\ status' = "none" /\ gate' = "open" /\ row' \in BOOLEAN /\ data' \subseteq Session
  BY DeleteTypes DEF AnswerWipe, Answers, key
<1>0. Safe /\ Ends /\ Marked
  BY Parts DEF KeyInv, Safe
<1>2. /\ Head(calls) = calls[1] /\ 1 \in DOMAIN calls
      /\ \A i \in DOMAIN calls' : i + 1 \in DOMAIN calls /\ i \in Nat /\ calls'[i] = calls[i + 1]
      /\ DOMAIN calls' \subseteq Nat \ {0}
  BY <1>1, CallsLeft, TailFacts DEF TypeOK
<1>3. gate = "resetting" /\ ~Busy /\ ops = <<>>
  BY <1>0, <1>1, <1>2 DEF Safe, Gates
<1>4. \A i \in DOMAIN calls' : calls'[i].kind \notin {"wipe", "delete"}
  <2>1. \A i \in DOMAIN calls' : calls'[i].kind # "delete"
    BY <1>2, <1>3 DEF Busy
  <2>2. ASSUME NEW i \in DOMAIN calls', calls'[i].kind = "wipe"
        PROVE  FALSE
    <3>1. i + 1 = 1 /\ i \in Nat \ {0}
      BY <1>0, <1>1, <1>2, <2>2 DEF Safe, Gates
    <3>. QED
      BY <3>1
  <2>. QED
    BY <2>1, <2>2
<1>5. ops' \in Seq(Op) /\ DOMAIN ops' = {} /\ LastOps' = LastOps
  <2>1. ops' = ops
    BY <1>1
  <2>. QED
    BY <1>3, <2>1, EmptyQueue DEF LastOps
<1>6. Safe'
  <2>1. Kinds'
    BY <1>0, <1>2, <1>5 DEF Safe, Kinds
  <2>. QED
    BY <1>1, <1>4, <1>5, <2>1 DEF Safe, Gates, FlushSafe, DeleteSafe
<1>7. Marked' /\ Backed' /\ SeededHasData'
  BY <1>0, <1>1, <1>3 DEF Marked, Backed, SeededHasData
<1>8. Ends'
  BY <1>0, <1>1, <1>5, AnswerEnds
<1>9. Shape'
  BY <1>1, <1>5, TailFacts DEF TypeOK, Shape
<1>. QED
  BY <1>6, <1>7, <1>8, <1>9, FromParts

\* Nothing under way: the state of a new thread.
LEMMA NewThread ==
  ASSUME Shape', calls' = <<>>, ops' = <<>>, seed' = NoSeed, status' = "none", deleted' = FALSE, gate' = "open"
  PROVE  TypeOK' /\ KeyInv'
<1>1. DOMAIN calls' = {} /\ LastCalls' = {} /\ DOMAIN ops' = {} /\ LastOps' = {} /\ seed'.stage = "none"
  BY DEF LastCalls, LastOps, NoSeed
<1>2. Safe' /\ Ends'
  BY <1>1 DEF Safe, Kinds, Gates, FlushSafe, DeleteSafe, Ends
<1>3. Marked' /\ Backed' /\ SeededHasData'
  BY DEF Marked, Backed, SeededHasData
<1>. QED
  BY <1>2, <1>3, FromParts

LEMMA KeptByRestart ==
  ASSUME TypeOK, KeyInv, Restart
  PROVE  TypeOK' /\ KeyInv'
<1>1. /\ crashes' = crashes + 1 /\ crashes < MaxCrashes /\ row' = (row /\ ~Ephemeral)
      /\ data' \in {data, {}} /\ present' = row' /\ holds' = {} /\ acquiring' = FALSE /\ deleted' = FALSE
      /\ status' = "none" /\ seed' = NoSeed /\ ops' = <<>> /\ gate' = "open" /\ flushPending' = FALSE
      /\ calls' = <<>> /\ session' = session
  BY DEF Restart
<1>2. session \in Session /\ crashes' \in 0..MaxCrashes
  BY <1>1, Bounds DEF TypeOK
<1>3. seed' \in Seed /\ row' \in BOOLEAN /\ present' \in BOOLEAN
  BY <1>1, <1>2, SeedValues
<1>4. data' \subseteq Session
  BY <1>1 DEF TypeOK
<1>5. calls' \in Seq(Call) /\ ops' \in Seq(Op)
  BY <1>1
<1>6. Shape'
  BY <1>1, <1>2, <1>3, <1>4, <1>5 DEF Shape
<1>. QED
  BY <1>1, <1>6, NewThread

-----------------------------------------------------------------------------
(* The theorems.                                                           *)

LEMMA Starts == Init => TypeOK /\ KeyInv /\ Counted
<1>1. ASSUME Init
      PROVE  TypeOK /\ KeyInv /\ Counted
  <2>1. /\ calls = <<>> /\ ops = <<>> /\ seed = NoSeed /\ status = "none" /\ deleted = FALSE /\ gate = "open"
        /\ session = 0 /\ crashes = 0 /\ data = {} /\ holds = {} /\ present = FALSE /\ acquiring = FALSE
        /\ flushPending = FALSE /\ row = FALSE
    BY <1>1 DEF Init
  <2>2. DOMAIN calls = {} /\ LastCalls = {} /\ DOMAIN ops = {} /\ LastOps = {} /\ seed.stage = "none"
    BY <2>1 DEF LastCalls, LastOps, NoSeed
  <2>3. session \in Session /\ crashes \in 0..MaxCrashes
    BY <2>1, Bounds DEF Session
  <2>4. seed \in Seed /\ calls \in Seq(Call) /\ ops \in Seq(Op)
    BY <2>1, <2>3, SeedValues
  <2>5. Shape /\ Ends
    BY <2>1, <2>2, <2>3, <2>4 DEF Shape, Ends
  <2>6. KeyInv
    BY <2>1, <2>2 DEF KeyInv, Kinds, Gates, Marked, FlushSafe, DeleteSafe, Backed, SeededHasData
  <2>. QED
    BY <2>1, <2>5, <2>6, Parts DEF Counted
<1>. QED
  BY <1>1

LEMMA KeptCounted ==
  ASSUME Counted, Next
  PROVE  Counted'
<1>1. CASE BeginReset
  BY <1>1 DEF BeginReset, Counted
<1>2. CASE AbortFetches
  BY <1>2 DEF AbortFetches, Counted
<1>3. CASE OnSessionDestroyed \/ AnswerWipe \/ Restart
  BY <1>3 DEF OnSessionDestroyed, AnswerWipe, Restart, Counted
<1>4. CASE gate' = gate /\ session' = session
  BY <1>4 DEF Counted
<1>5. \/ BeginReset \/ AbortFetches \/ OnSessionDestroyed \/ AnswerWipe \/ Restart
      \/ gate' = gate /\ session' = session
  BY DEF Next, AcquireExisting, AcquireNew, AcquireEnds, Hold, Release, Evict, StartSeed, FetchAnswers,
         FetchFails, RunFlush, RunEvict, RunRecords, AnswerEvict, AnswerDelete, AnswerSave, AnswerRecords,
         queue
<1>. QED
  BY <1>1, <1>2, <1>3, <1>4, <1>5

LEMMA Stutters ==
  ASSUME TypeOK, KeyInv, Counted, UNCHANGED vars
  PROVE  TypeOK' /\ KeyInv' /\ Counted'
<1>1. /\ UNCHANGED <<present, holds, acquiring, deleted, status, seed, ops, gate, flushPending, calls, row,
                     data, session, crashes>>
  BY DEF vars, key, seeding, queue, disk
<1>2. Safe' /\ Marked' /\ LastOps' = LastOps
  BY <1>1, QueueSame DEF Answered
<1>3. LastCalls' = LastCalls /\ Backed' /\ SeededHasData'
  BY <1>1 DEF LastCalls, KeyInv, Backed, SeededHasData, Coming
<1>4. Shape'
  BY <1>1 DEF TypeOK, Shape
<1>5. Ends'
  BY <1>1, <1>2, <1>3, SameEnds
<1>6. TypeOK' /\ KeyInv'
  BY <1>2, <1>3, <1>4, <1>5, FromParts
<1>. QED
  BY <1>1, <1>6 DEF Counted

LEMMA Kept ==
  ASSUME TypeOK, KeyInv, Counted, Next
  PROVE  TypeOK' /\ KeyInv'
<1>1. CASE AcquireExisting \/ AcquireEnds
  BY <1>1, KeptByAcquire
<1>2. CASE AcquireNew
  BY <1>2, KeptByAcquireNew
<1>3. CASE \E w \in Window : Hold(w)
  BY <1>3, KeptByHold
<1>4. CASE \E w \in Window : Release(w)
  BY <1>4, KeptByRelease
<1>5. CASE Evict
  BY <1>5, KeptByEvict
<1>6. CASE StartSeed
  BY <1>6, KeptByStartSeed
<1>7. CASE \E last \in BOOLEAN : FetchAnswers(last)
  BY <1>7, KeptByFetchAnswers
<1>8. CASE FetchFails
  BY <1>8, KeptByFetchFails
<1>9. CASE RunFlush \/ RunEvict \/ RunRecords
  BY <1>9, KeptByRunFlush, KeptByRunEvict, KeptByRunRecords
<1>10. CASE AnswerEvict \/ AnswerDelete \/ AnswerSave \/ AnswerRecords \/ AnswerWipe
  BY <1>10, KeptByAnswerEvict, KeptByAnswerDelete, KeptByAnswerSave, KeptByAnswerRecords, KeptByAnswerWipe
<1>11. CASE BeginReset \/ AbortFetches \/ OnSessionDestroyed \/ Restart
  BY <1>11, KeptByBeginReset, KeptByAbortFetches, KeptByOnSessionDestroyed, KeptByRestart
<1>. QED
  BY <1>1, <1>2, <1>3, <1>4, <1>5, <1>6, <1>7, <1>8, <1>9, <1>10, <1>11 DEF Next

LEMMA Inductive == Spec => [](TypeOK /\ KeyInv /\ Counted)
<1>1. Init => TypeOK /\ KeyInv /\ Counted
  BY Starts
<1>2. (TypeOK /\ KeyInv /\ Counted) /\ [Next]_vars => (TypeOK /\ KeyInv /\ Counted)'
  BY Kept, KeptCounted, Stutters
<1>. QED
  BY <1>1, <1>2, PTL DEF Spec

\* The state has its types, and a seed that awaits its last page has exactly one
\* operation or call that ends it, which no other seed has: seedWithRecords is
\* neither left waiting nor answered twice.
THEOREM SeedTypes == Spec => []TypeOK
BY Inductive, PTL

\* The seed status of a key neither hides missing data nor keeps a seed from
\* being started (seedOneCollection, onEvictCacheKey, onFlushCacheKeys).
THEOREM StatusTrustedHolds == Spec => []StatusTrusted
<1>1. KeyInv => StatusTrusted
  BY DEF KeyInv, Backed, StatusTrusted, SyncingIsBacked
<1>. QED
  BY <1>1, Inductive, PTL
=============================================================================
