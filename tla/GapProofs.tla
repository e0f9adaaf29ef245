------------------------------ MODULE GapProofs ------------------------------
(***************************************************************************)
(* Gap repair keeps its promise, for any number of events, refetches,      *)
(* resets and crashes: what stands for a repair under way has one, and     *)
(* what is buffered beyond the baseline is watched by one, or the last     *)
(* one is known to have failed.                                            *)
(***************************************************************************)
EXTENDS GapRepair, TLAPS, SequenceTheorems, WellFoundedInduction

-----------------------------------------------------------------------------
(* The highest of a set of revisions.                                      *)

LEMMA HighestProperties ==
  ASSUME NEW n \in Nat, NEW S \in SUBSET (0..n), S # {}
  PROVE  /\ Highest(S) \in S
         /\ \A q \in S : q <= Highest(S)
<1>. DEFINE T == {n - r : r \in S}
<1>0. \A r \in S : r \in 0..n /\ r \in Nat /\ n - r \in Nat
  OBVIOUS
<1>1. T \subseteq Nat /\ T # {}
  <2>1. ASSUME NEW y \in T
        PROVE  y \in Nat
    BY <1>0
  <2>. QED
    BY <2>1
<1>2. PICK x \in T : \A y \in T : ~(<<y, x>> \in OpToRel(<, Nat))
  BY <1>1, NatLessThanWellFounded, WFMin, Zenon
<1>3. \A y \in T : ~(y < x)
  BY <1>1, <1>2 DEF OpToRel
<1>4. PICK r \in S : x = n - r
  OBVIOUS
<1>5. ASSUME NEW q \in S
      PROVE  q <= r
  <2>1. ~(n - q < n - r)
    BY <1>3, <1>4
  <2>. QED
    BY <1>0, <2>1
<1>. QED
  BY <1>5 DEF Highest

LEMMA HighestType ==
  ASSUME NEW n \in Nat, NEW S \in SUBSET (0..n)
  PROVE  Highest(S) \in 0..n
<1>1. CASE S = {}
  BY <1>1 DEF Highest
<1>2. CASE S # {}
  BY <1>2, HighestProperties
<1>. QED
  BY <1>1, <1>2

-----------------------------------------------------------------------------
(* Type correctness.  An operation brings nothing the server has not       *)
(* published.                                                              *)

Published == \A i \in DOMAIN ops : ops[i].to <= head

TypeInv == TypeOK /\ Published

LEMMA Bounds == MaxRevision \in Nat
BY BoundsAssumption

LEMMA EnqueueType ==
  ASSUME TypeInv, NEW op \in Op, op.to <= head, Enqueue(op)
  PROVE  /\ ops' \in Seq(Op) /\ \A i \in DOMAIN ops' : ops'[i].to <= head
         /\ ops # <<>> => ops' # <<>> /\ Head(ops') = Head(ops)
         /\ \A i \in RepairOps : i \in RepairOps'
BY DEF TypeInv, TypeOK, Published, Enqueue, RepairOps

LEMMA TailType ==
  ASSUME TypeInv, ops # <<>>, ops' = Tail(ops)
  PROVE  /\ ops' \in Seq(Op) /\ \A i \in DOMAIN ops' : ops'[i].to <= head
         /\ Head(ops).kind # "repair" => \A i \in RepairOps : i - 1 \in RepairOps'
<1>1. ops \in Seq(Op)
  BY DEF TypeInv, TypeOK
<1>2. /\ Tail(ops) \in Seq(Op) /\ Len(Tail(ops)) = Len(ops) - 1
      /\ \A i \in 1..Len(Tail(ops)) : Tail(ops)[i] = ops[i + 1]
      /\ DOMAIN ops = 1..Len(ops) /\ DOMAIN Tail(ops) = 1..Len(Tail(ops))
      /\ Head(ops) = ops[1] /\ Len(ops) \in Nat \ {0}
  BY <1>1, HeadTailProperties, LenProperties, EmptySeq
<1>3. \A i \in DOMAIN ops' : ops'[i].to <= head
  BY <1>2 DEF TypeInv, Published
<1>4. ASSUME Head(ops).kind # "repair", NEW i \in RepairOps
      PROVE  i - 1 \in RepairOps'
  <2>1. i \in 2..Len(ops) /\ i - 1 \in 1..Len(Tail(ops)) /\ ops[i].kind = "repair"
    BY <1>2, <1>4 DEF RepairOps
  <2>2. Tail(ops)[i - 1] = ops[(i - 1) + 1] /\ (i - 1) + 1 = i
    BY <1>2, <2>1
  <2>. QED
    BY <1>2, <2>1, <2>2 DEF RepairOps
<1>. QED
  BY <1>2, <1>3, <1>4

-----------------------------------------------------------------------------
(* The invariant.  While a batch is walked, only what was buffered before   *)
(* it needs a watcher: the walk starts a repair for the rest itself.        *)

Repairs == repairing \/ fetches # {} \/ RepairOps # {}
Watched == \E r \in buffer \ batch : r > known
WatchedOK == Watched => Repairs \/ failed \/ gate = "resetting"

GapInv == TypeInv /\ GuardHasRepair /\ WatchedOK

LEMMA InitGap == Init => GapInv
<1>. SUFFICES ASSUME Init PROVE GapInv
  OBVIOUS
<1>1. <<>> \in Seq(Op) /\ DOMAIN <<>> = {}
  BY EmptySeq
<1>3. TypeOK
  <2>1. head \in 0..MaxRevision /\ captured \subseteq 1..head
        /\ known \in 0..head /\ row \subseteq 1..head /\ rowRevision \in 0..head
    BY Bounds DEF Init
  <2>2. batch \subseteq cached /\ (batch # {} => Next1("drain"))
        /\ cached \subseteq 1..head /\ buffer \subseteq cached /\ fetches \subseteq Fetch
    BY DEF Init
  <2>3. /\ scheduled \in BOOLEAN /\ repairing \in BOOLEAN /\ failed \in BOOLEAN
        /\ gate \in {"open", "resetting"} /\ refetches \in Nat /\ resets \in Nat /\ crashes \in Nat
    BY DEF Init
  <2>4. ops \in Seq(Op)
    BY <1>1 DEF Init
  <2>. QED
    BY <2>1, <2>2, <2>3, <2>4 DEF TypeOK
<1>4. Published
  BY <1>1 DEF Init, Published
<1>2. GuardHasRepair /\ WatchedOK
  BY DEF Init, GuardHasRepair, WatchedOK, Watched
<1>. QED
  BY <1>2, <1>3, <1>4 DEF GapInv, TypeInv

\* A step that keeps all repairs and buffers nothing more.
LEMMA MoreRepairs ==
  ASSUME GapInv, gate' = gate, repairing' = repairing, failed' = failed,
         fetches \subseteq fetches', RepairOps # {} => RepairOps' # {},
         buffer' \subseteq buffer, batch' = batch, known' = known
  PROVE  GuardHasRepair' /\ WatchedOK'
<1>1. Watched' => Watched
  BY DEF Watched
<1>. QED
  BY <1>1 DEF GapInv, GuardHasRepair, WatchedOK, Repairs

LEMMA ArrivalKeeps ==
  ASSUME GapInv, Publish \/ (\E r \in Revision : Capture(r)) \/ RefetchAnswers
  PROVE  GapInv'
<1>. TypeInv
  BY DEF GapInv
<1>1. CASE Publish
  <2>1. TypeInv'
    <3>1. head \in 0..MaxRevision /\ head' \in 0..MaxRevision /\ head' = head + 1
          /\ MaxRevision \in Nat
      BY <1>1, Bounds DEF Publish, TypeInv, TypeOK
    <3>2. 0..head \subseteq 0..head' /\ 1..head \subseteq 1..head'
      BY <3>1
    <3>3. Published'
      <4>1. ASSUME NEW i \in DOMAIN ops
            PROVE  ops[i].to <= head'
        <5>1. ops[i] \in Op /\ ops[i].to <= head
          BY ElementOfSeq, LenProperties DEF TypeInv, TypeOK, Published
        <5>. QED
          BY <3>1, <5>1 DEF Op
      <4>. QED
        BY <1>1, <4>1 DEF Publish, Published, queue
    <3>4. TypeOK'
      BY <1>1, <3>1, <3>2
      DEF Publish, TypeInv, TypeOK, Next1, queue, cache, model, repair, bounds
    <3>. QED
      BY <3>3, <3>4 DEF TypeInv
  <2>2. RepairOps' = RepairOps
    BY <1>1 DEF Publish, RepairOps, queue
  <2>. QED
    BY <1>1, <2>1, <2>2, MoreRepairs DEF GapInv, Publish, queue, cache, model, repair, bounds
<1>2. ASSUME NEW r \in Revision, Capture(r)
      PROVE  GapInv'
  <2>1. \/ ops' = ops
        \/ \E op \in Op : op.to <= head /\ Enqueue(op)
    <3>1. [kind |-> "drain", from |-> 0, to |-> 0] \in Op
      BY Bounds DEF Op
    <3>2. 0 <= head
      BY Bounds DEF TypeInv, TypeOK
    <3>. QED
      BY <1>2, <3>1, <3>2 DEF Capture
  <2>2. /\ ops' \in Seq(Op) /\ \A i \in DOMAIN ops' : ops'[i].to <= head
        /\ ops # <<>> => ops' # <<>> /\ Head(ops') = Head(ops)
        /\ \A i \in RepairOps : i \in RepairOps'
    BY <2>1, EnqueueType DEF TypeInv, TypeOK, Published, RepairOps
  <2>3. TypeInv'
    <3>1. captured' \subseteq 1..head /\ scheduled' \in BOOLEAN
      <4>1. r \in 1..head /\ captured' = captured \cup {r}
        BY <1>2, Bounds DEF Capture, Revision, TypeInv, TypeOK
      <4>2. scheduled' = TRUE \/ scheduled' = scheduled
        BY <1>2 DEF Capture
      <4>. QED
        BY <4>1, <4>2 DEF TypeInv, TypeOK
    <3>2. batch' # {} => Next1("drain")'
      BY <1>2, <2>2 DEF Capture, TypeInv, TypeOK, Next1
    <3>. QED
      BY <1>2, <2>2, <3>1, <3>2
      DEF Capture, TypeInv, TypeOK, Published, cache, model, repair, bounds
  <2>. QED
    BY <1>2, <2>2, <2>3, MoreRepairs DEF GapInv, Capture, cache, model, repair, bounds
<1>3. CASE RefetchAnswers
  <2>1. [kind |-> "records", from |-> 0, to |-> head] \in Op /\ head <= head
    BY Bounds DEF Op, TypeInv, TypeOK
  <2>2. /\ ops' \in Seq(Op) /\ \A i \in DOMAIN ops' : ops'[i].to <= head
        /\ ops # <<>> => ops' # <<>> /\ Head(ops') = Head(ops)
        /\ \A i \in RepairOps : i \in RepairOps'
    BY <1>3, <2>1, EnqueueType DEF RefetchAnswers
  <2>3. TypeInv'
    <3>1. batch' # {} => Next1("drain")'
      BY <1>3, <2>2 DEF RefetchAnswers, TypeInv, TypeOK, Next1
    <3>. QED
      BY <1>3, <2>2, <3>1
      DEF RefetchAnswers, TypeInv, TypeOK, Published, network, cache, model, repair
  <2>. QED
    BY <1>3, <2>2, <2>3, MoreRepairs DEF GapInv, RefetchAnswers, cache, model, repair
<1>. QED
  BY <1>1, <1>2, <1>3

\* The ends of a fetch: its answer becomes an operation, unless a reset refuses
\* it, and a failure lowers the guard.
LEMMA FetchKeeps ==
  ASSUME GapInv, NEW f \in fetches, FetchAnswers(f) \/ FetchFails(f)
  PROVE  GapInv'
<1>. TypeInv
  BY DEF GapInv
<1>1. CASE FetchAnswers(f)
  <2>1. f \in Fetch /\ head \in 0..MaxRevision
    BY DEF TypeInv, TypeOK
  <2>. DEFINE op == [kind |-> "repair", from |-> f.after, to |-> head]
  <2>2. op \in Op /\ op.to <= head /\ op.kind = "repair"
    BY <2>1, Bounds DEF Op, Fetch
  <2>3. Enqueue(op)
    BY <1>1 DEF FetchAnswers
  <2>. HIDE DEF op
  <2>4. /\ ops' \in Seq(Op) /\ \A i \in DOMAIN ops' : ops'[i].to <= head
        /\ ops # <<>> => ops' # <<>> /\ Head(ops') = Head(ops)
    BY <2>2, <2>3, EnqueueType
  <2>5. gate = "open" => RepairOps' # {}
    <3>1. ASSUME gate = "open"
          PROVE  Len(ops) + 1 \in RepairOps'
      BY <2>2, <2>3, <3>1 DEF Enqueue, RepairOps, TypeInv, TypeOK
    <3>. QED
      BY <3>1
  <2>6. TypeInv'
    <3>1. batch' # {} => Next1("drain")'
      BY <1>1, <2>4 DEF FetchAnswers, TypeInv, TypeOK, Next1
    <3>. QED
      BY <1>1, <2>4, <3>1
      DEF FetchAnswers, TypeInv, TypeOK, Published, network, cache, model, bounds
  <2>7. GuardHasRepair' /\ WatchedOK'
    BY <1>1, <2>5 DEF FetchAnswers, TypeInv, TypeOK, GuardHasRepair, WatchedOK, Repairs
  <2>. QED
    BY <2>6, <2>7 DEF GapInv
<1>2. CASE FetchFails(f)
  <2>1. TypeInv'
    BY <1>2 DEF FetchFails, TypeInv, TypeOK, Published, Next1, network, queue, cache, model, bounds
  <2>2. GuardHasRepair' /\ WatchedOK'
    BY <1>2 DEF FetchFails, GuardHasRepair, WatchedOK
  <2>. QED
    BY <2>1, <2>2 DEF GapInv
<1>. QED
  BY <1>1, <1>2

\* Caching a batch buffers its events, and they are the ones being walked.
LEMMA CacheKeeps ==
  ASSUME GapInv, DrainCache
  PROVE  GapInv'
<1>. TypeInv
  BY DEF GapInv
<1>1. ops # <<>> /\ Head(ops).kind = "drain" /\ batch = {}
  BY DEF DrainCache, Next1
<1>2. /\ ops' \in Seq(Op) /\ \A i \in DOMAIN ops' : ops'[i].to <= head
      /\ \A i \in RepairOps : i \in RepairOps' \/ i - 1 \in RepairOps'
  <2>1. CASE ops' = ops
    BY <2>1 DEF TypeInv, TypeOK, Published, RepairOps
  <2>2. CASE ops' = Tail(ops)
    BY <1>1, <2>2, TailType
  <2>. QED
    BY <2>1, <2>2 DEF DrainCache
<1>3. batch' # {} => Next1("drain")'
  BY <1>1 DEF DrainCache, Next1
<1>4. TypeInv'
  <2>1. /\ captured' = {} /\ scheduled' = FALSE /\ head' = head
        /\ batch' = captured \ cached /\ cached' = cached \cup captured
        /\ buffer' = buffer \cup batch'
        /\ UNCHANGED <<gate, known, row, rowRevision, repairing, fetches, failed,
                       refetches, resets, crashes>>
    BY DEF DrainCache, model, repair, bounds
  <2>. QED
    BY <1>2, <1>3, <2>1 DEF TypeInv, TypeOK, Published
<1>5. Watched' => Watched
  BY <1>1 DEF DrainCache, Watched, model
<1>6. GuardHasRepair' /\ WatchedOK'
  BY <1>2, <1>5 DEF DrainCache, GapInv, GuardHasRepair, WatchedOK, Repairs, repair
<1>. QED
  BY <1>4, <1>6 DEF GapInv

\* Walking a batch: the baseline only rises, and what stays beyond it is in the
\* hands of a repair.
LEMMA WalkKeeps ==
  ASSUME GapInv, NEW written \in Written, DrainApply(written)
  PROVE  GapInv'
<1>. TypeInv
  BY DEF GapInv
<1>1. ops # <<>> /\ Head(ops).kind = "drain" /\ ops' = Tail(ops) /\ batch' = {}
  BY DEF DrainApply, Next1
<1>2. /\ ops' \in Seq(Op) /\ \A i \in DOMAIN ops' : ops'[i].to <= head
      /\ \A i \in RepairOps : i - 1 \in RepairOps'
  BY <1>1, TailType
<1>3. /\ head \in Nat /\ known \in 0..head /\ Baseline \in 0..head /\ known <= Baseline
      /\ batch \subseteq 1..head /\ InOrder \subseteq 1..head
  <2>1. head \in Nat /\ known \in 0..head /\ rowRevision \in 0..head
    BY Bounds DEF TypeInv, TypeOK
  <2>2. batch \subseteq 1..head
    BY DEF TypeInv, TypeOK
  <2>3. InOrder \subseteq batch
    BY DEF InOrder
  <2>4. Baseline \in 0..head /\ known <= Baseline
    BY <2>1 DEF Baseline
  <2>. QED
    BY <2>1, <2>2, <2>3, <2>4
<1>4. /\ known' = Highest(InOrder \cup {Baseline})
      /\ known' \in 0..head /\ Baseline <= known' /\ \A r \in InOrder : r <= known'
  <2>1. InOrder \cup {Baseline} \in SUBSET (0..head) /\ InOrder \cup {Baseline} # {}
    BY <1>3
  <2>2. known' = Highest(InOrder \cup {Baseline})
    BY DEF DrainApply
  <2>. QED
    BY <1>3, <2>1, <2>2, HighestProperties
<1>5. \/ repairing' = repairing /\ fetches' = fetches /\ failed' = failed
      \/ /\ ~repairing /\ repairing' = TRUE /\ failed' = FALSE
         /\ fetches' = fetches \cup {[after |-> known', aborted |-> FALSE]}
  BY DEF DrainApply, StartRepair, repair
<1>6. HasGap => repairing'
  BY <1>5 DEF DrainApply, StartRepair, repair
<1>7. TypeInv'
  <2>1. [after |-> known', aborted |-> FALSE] \in Fetch
    BY <1>4, Bounds DEF Fetch, TypeInv, TypeOK
  <2>2. fetches' \subseteq Fetch /\ repairing' \in BOOLEAN /\ failed' \in BOOLEAN
    BY <1>5, <2>1 DEF TypeInv, TypeOK
  <2>3. row' \subseteq 1..head /\ rowRevision' \in 0..head
    BY <1>3, <1>4 DEF DrainApply, TypeInv, TypeOK
  <2>4. buffer' \subseteq cached /\ UNCHANGED <<network, gate, cached, bounds>>
    BY DEF DrainApply, TypeInv, TypeOK
  <2>. QED
    BY <1>1, <1>2, <1>4, <2>2, <2>3, <2>4 DEF TypeInv, TypeOK, Published, network, bounds
<1>8. GuardHasRepair'
  BY <1>2, <1>5 DEF DrainApply, GapInv, GuardHasRepair
<1>9. Watched' => Watched \/ HasGap
  <2>1. SUFFICES ASSUME NEW r \in buffer', r > known'
                 PROVE  Watched \/ HasGap
    BY DEF Watched
  <2>2. r \in buffer /\ r \in 1..head
    BY Bounds DEF DrainApply, TypeInv, TypeOK
  <2>3. CASE r \in batch
    BY <1>3, <1>4, <2>1, <2>2, <2>3 DEF HasGap
  <2>4. CASE r \notin batch
    BY <1>3, <1>4, <2>1, <2>2, <2>4 DEF Watched
  <2>. QED
    BY <2>3, <2>4
<1>10. WatchedOK'
  <2>1. HasGap => Repairs'
    BY <1>6 DEF Repairs
  <2>2. Repairs \/ failed \/ gate = "resetting" => Repairs' \/ failed' \/ gate' = "resetting"
    BY <1>2, <1>5 DEF Repairs, DrainApply
  <2>. QED
    BY <1>9, <2>1, <2>2 DEF GapInv, WatchedOK
<1>. QED
  BY <1>7, <1>8, <1>10 DEF GapInv

\* Applying a repair or a page of records.
LEMMA ApplyKeeps ==
  ASSUME GapInv, (\E written \in Written : ApplyRepair(written)) \/ ApplyRecords
  PROVE  GapInv'
<1>. TypeInv
  BY DEF GapInv
<1>1. ops # <<>> /\ Head(ops).kind # "drain" /\ ops' = Tail(ops)
  BY DEF ApplyRepair, ApplyRecords, Next1
<1>2. /\ ops' \in Seq(Op) /\ \A i \in DOMAIN ops' : ops'[i].to <= head
      /\ Head(ops).kind # "repair" => \A i \in RepairOps : i - 1 \in RepairOps'
  BY <1>1, TailType
<1>3. batch = {} /\ head \in Nat /\ known \in 0..head
  BY <1>1, Bounds DEF TypeInv, TypeOK, Next1
<1>4. Head(ops) \in Op /\ Head(ops).to \in 0..head
  <2>1. Head(ops) = ops[1] /\ 1 \in DOMAIN ops /\ Head(ops) \in Op
    BY <1>1, HeadTailProperties, LenProperties, EmptySeq DEF TypeInv, TypeOK
  <2>. QED
    BY <1>3, <2>1, Bounds DEF TypeInv, Published, Op
<1>5. ASSUME NEW written \in Written, ApplyRepair(written)
      PROVE  GapInv'
  <2>. DEFINE events == (Head(ops).from + 1)..Head(ops).to
              drained == buffer \cup events
  <2>1. events \subseteq 1..head
    BY <1>3, <1>4 DEF Op
  <2>2. drained \subseteq 1..head /\ drained \subseteq cached \cup events
    BY <2>1 DEF TypeInv, TypeOK
  <2>3. Highest(drained) \in 0..head /\ (drained # {} => Highest(drained) \in drained)
    <3>1. drained \in SUBSET (0..head)
      BY <1>3, <2>2
    <3>. QED
      BY <1>3, <3>1, HighestType, HighestProperties
  <2>4. /\ cached' = cached \cup events
        /\ \/ /\ row' = row \cup drained
              /\ rowRevision' = Highest(drained) /\ known' = Highest(drained)
              /\ buffer' = {}
           \/ /\ buffer' = drained /\ (~written \/ drained = {})
              /\ UNCHANGED <<known, row, rowRevision>>
    BY <1>5 DEF ApplyRepair, model
  <2>5. /\ repairing' = FALSE /\ failed' = (failed \/ ~written)
        /\ UNCHANGED <<head, captured, scheduled, gate, batch, fetches, refetches, resets, crashes>>
    BY <1>5 DEF ApplyRepair, network, bounds
  <2>. HIDE DEF events, drained
  <2>6. written \in BOOLEAN
    BY WrittenAssumption
  <2>7. TypeInv'
    <3>1. cached' \subseteq 1..head /\ buffer' \subseteq cached'
      BY <2>1, <2>2, <2>4 DEF TypeInv, TypeOK
    <3>2. row' \subseteq 1..head /\ rowRevision' \in 0..head /\ known' \in 0..head
      BY <2>2, <2>3, <2>4 DEF TypeInv, TypeOK
    <3>3. failed' \in BOOLEAN
      BY <2>5
    <3>. QED
      BY <1>2, <1>3, <2>5, <3>1, <3>2, <3>3 DEF TypeInv, TypeOK, Published
  <2>8. GuardHasRepair' /\ WatchedOK'
    BY <2>4, <2>5, <2>6 DEF GuardHasRepair, WatchedOK, Watched
  <2>. QED
    BY <2>7, <2>8 DEF GapInv
<1>6. CASE ApplyRecords
  <2>1. /\ row' = 1..Head(ops).to /\ rowRevision' = Head(ops).to
        /\ known' = Highest({known, Head(ops).to})
        /\ Head(ops).kind = "records"
        /\ UNCHANGED <<head, captured, scheduled, gate, batch, cached, buffer, repairing, fetches,
                       failed, refetches, resets, crashes>>
    BY <1>6 DEF ApplyRecords, Next1, network, cache, repair, bounds
  <2>2. known' \in 0..head /\ known <= known'
    <3>1. {known, Head(ops).to} \in SUBSET (0..head)
      BY <1>3, <1>4
    <3>. QED
      BY <1>3, <2>1, <3>1, HighestProperties
  <2>3. TypeInv'
    <3>1. row' \subseteq 1..head /\ rowRevision' \in 0..head
      BY <1>3, <1>4, <2>1
    <3>. QED
      BY <1>2, <1>3, <2>1, <2>2, <3>1 DEF TypeInv, TypeOK, Published
  <2>4. Watched' => Watched
    <3>1. \A r \in buffer : r \in 1..head
      BY DEF TypeInv, TypeOK
    <3>. QED
      BY <1>3, <2>1, <2>2, <3>1 DEF Watched
  <2>5. GuardHasRepair' /\ WatchedOK'
    BY <1>2, <2>1, <2>4 DEF GapInv, GuardHasRepair, WatchedOK, Repairs
  <2>. QED
    BY <2>3, <2>5 DEF GapInv
<1>. QED
  BY <1>5, <1>6

\* A reset and a crash leave nothing buffered and no guard raised.
LEMMA EndKeeps ==
  ASSUME GapInv, BeginReset \/ EndReset \/ Crash \/ UNCHANGED vars
  PROVE  GapInv'
<1>. TypeInv
  BY DEF GapInv
<1>1. CASE BeginReset
  <2>1. ops' \in Seq(Op) /\ \A i \in DOMAIN ops' : ops'[i].to <= head
    <3>1. CASE batch = {}
      BY <1>1, <3>1, EmptySeq DEF BeginReset, Kept
    <3>2. CASE batch # {}
      <4>1. ops # <<>> /\ ops' = <<Head(ops)>>
        BY <1>1, <3>2 DEF BeginReset, Kept, TypeInv, TypeOK, Next1
      <4>2. Head(ops) \in Op /\ Head(ops) = ops[1] /\ 1 \in DOMAIN ops
        BY <4>1, HeadTailProperties, LenProperties, EmptySeq DEF TypeInv, TypeOK
      <4>. QED
        BY <4>1, <4>2 DEF TypeInv, Published
    <3>. QED
      BY <3>1, <3>2
  <2>2. batch' # {} => Next1("drain")'
    <3>1. SUFFICES ASSUME batch # {}
                   PROVE  ops' # <<>> /\ Head(ops').kind = "drain"
      BY <1>1 DEF BeginReset, Next1
    <3>2. Head(ops).kind = "drain" /\ ops' = <<Head(ops)>>
      BY <1>1, <3>1 DEF BeginReset, Kept, TypeInv, TypeOK, Next1
    <3>3. Head(<<Head(ops)>>) = Head(ops) /\ <<Head(ops)>> # <<>>
      OBVIOUS
    <3>. QED
      BY <3>2, <3>3
  <2>3. scheduled' \in BOOLEAN /\ repairing' \in BOOLEAN
    BY <1>1 DEF BeginReset, Evict
  <2>4. TypeInv'
    BY <1>1, <2>1, <2>2, <2>3 DEF BeginReset, TypeInv, TypeOK, Published, cache, model
  <2>. QED
    BY <1>1, <2>4 DEF GapInv, BeginReset, GuardHasRepair, WatchedOK
<1>2. CASE EndReset
  <2>1. TypeInv'
    <3>1. fetches' \subseteq Fetch
      BY <1>2 DEF EndReset, TypeInv, TypeOK, Fetch
    <3>2. batch = {}
      BY <1>2 DEF EndReset, TypeInv, TypeOK, Next1
    <3>3. head \in Nat /\ 0 \in 0..head
      BY Bounds DEF TypeInv, TypeOK
    <3>4. /\ cached' = {} /\ buffer' = {} /\ known' = 0 /\ row' = {} /\ rowRevision' = 0
          /\ repairing' = FALSE /\ failed' = FALSE /\ gate' = "open"
          /\ UNCHANGED <<head, captured, scheduled, ops, batch, refetches, resets, crashes>>
      BY <1>2 DEF EndReset, network, bounds
    <3>5. Published'
      BY <3>4 DEF TypeInv, Published
    <3>6. TypeOK'
      BY <3>1, <3>2, <3>3, <3>4 DEF TypeInv, TypeOK
    <3>. QED
      BY <3>5, <3>6 DEF TypeInv
  <2>. QED
    BY <1>2, <2>1 DEF GapInv, EndReset, GuardHasRepair, WatchedOK, Watched
<1>3. CASE Crash
  <2>1. TypeInv'
    <3>1. ops' = <<>> /\ ops' \in Seq(Op) /\ DOMAIN ops' = {}
      BY <1>3, EmptySeq DEF Crash
    <3>2. /\ captured' = {} /\ scheduled' = FALSE /\ gate' = "open" /\ batch' = {}
          /\ buffer' = {} /\ known' = rowRevision /\ repairing' = FALSE /\ fetches' = {}
          /\ failed' = FALSE /\ crashes' = crashes + 1
          /\ UNCHANGED <<head, cached, row, rowRevision, refetches, resets>>
      BY <1>3 DEF Crash
    <3>3. Published'
      BY <3>1 DEF Published
    <3>4. TypeOK'
      <4>1. captured' \subseteq 1..head' /\ batch' \subseteq cached' /\ buffer' \subseteq cached'
            /\ batch' = {} /\ fetches' \subseteq Fetch /\ cached' \subseteq 1..head'
        BY <3>2 DEF TypeInv, TypeOK
      <4>2. head' \in 0..MaxRevision /\ known' \in 0..head' /\ row' \subseteq 1..head'
            /\ rowRevision' \in 0..head'
        BY <3>2 DEF TypeInv, TypeOK
      <4>3. refetches' \in Nat /\ resets' \in Nat /\ crashes' \in Nat
        BY <3>2 DEF TypeInv, TypeOK
      <4>4. scheduled' \in BOOLEAN /\ repairing' \in BOOLEAN /\ failed' \in BOOLEAN
            /\ gate' \in {"open", "resetting"}
        BY <3>2
      <4>. QED
        BY <3>1, <4>1, <4>2, <4>3, <4>4 DEF TypeOK
    <3>. QED
      BY <3>3, <3>4 DEF TypeInv
  <2>. QED
    BY <1>3, <2>1 DEF GapInv, Crash, GuardHasRepair, WatchedOK, Watched
<1>4. CASE UNCHANGED vars
  <2>1. TypeInv'
    BY <1>4 DEF TypeInv, TypeOK, Published, Next1, vars, network, queue, cache, model, repair, bounds
  <2>2. RepairOps' = RepairOps /\ (Watched' <=> Watched)
    BY <1>4 DEF RepairOps, Watched, vars, queue, cache, model
  <2>. QED
    BY <1>4, <2>1, <2>2
    DEF GapInv, GuardHasRepair, WatchedOK, Repairs, vars, queue, repair
<1>. QED
  BY <1>1, <1>2, <1>3, <1>4

-----------------------------------------------------------------------------
LEMMA GapInvariant == Spec => []GapInv
<1>1. GapInv /\ [Next]_vars => GapInv'
  BY ArrivalKeeps, FetchKeeps, CacheKeeps, WalkKeeps, ApplyKeeps, EndKeeps DEF Next
<1>. QED
  BY InitGap, <1>1, PTL DEF Spec

\* TypeOK for any bounds: a batch belongs to the drain at the head of the queue,
\* and nothing is known, buffered or stored that the server has not published.
THEOREM GapTypes == Spec => []TypeOK
<1>1. GapInv => TypeOK
  BY DEF GapInv, TypeInv
<1>. QED
  BY GapInvariant, <1>1, PTL

\* RepairPromised for any bounds: across arrivals in any order, failed fetches,
\* refused enqueues, throwing writes, resets and crashes, the guard of a stream
\* stands for a repair, and what is buffered beyond its baseline is watched.
THEOREM RepairPromisedHolds == Spec => []RepairPromised
<1>1. GapInv => RepairPromised
  <2>1. SUFFICES ASSUME GapInv PROVE GapWatched
    BY DEF RepairPromised, GapInv
  <2>2. Beyond # {} => Watched \/ batch # {}
    BY DEF Beyond, Watched
  <2>. QED
    BY <2>1, <2>2 DEF GapWatched, GapInv, WatchedOK, Repairs
<1>. QED
  BY GapInvariant, <1>1, PTL
=============================================================================
