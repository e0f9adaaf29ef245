----------------------------- MODULE GapRepair -----------------------------
(***************************************************************************)
(* The events of one stream on their way into the read model: captured     *)
(* from the network in any order (SyncManager.ts), drained in batches by   *)
(* the write queue, buffered beyond a gap (EventCache.ts, GapDetector.ts)  *)
(* and repaired by a fetch of the missing ones (GapRepairCoordinator.ts).  *)
(* Streams share nothing but the queue, so that one is enough.             *)
(*                                                                         *)
(* A revision stands for its event; the first one is 1, and 0 is "none".   *)
(* Storage survives a crash: the cached events and the row.                *)
(***************************************************************************)
EXTENDS Naturals, Sequences, FiniteSets

CONSTANTS
  MaxRevision,  \* bound on the events the server publishes
  MaxRefetches, \* bound on refetches of the row
  MaxResets,    \* bound on session resets
  MaxCrashes,   \* bound on crashes
  Written       \* outcomes of the writes of the pipeline: TRUE, and FALSE if it may throw

ASSUME WrittenAssumption == Written \subseteq BOOLEAN
ASSUME BoundsAssumption == {MaxRevision, MaxRefetches, MaxResets, MaxCrashes} \subseteq Nat

Revision == 1..MaxRevision
Highest(S) == IF S = {} THEN 0 ELSE CHOOSE r \in S : \A q \in S : q <= r

VARIABLES
  head,       \* the latest revision of the stream at the server
  captured,   \* pendingWsEvents
  scheduled,  \* wsReconcilePending
  ops,        \* operations of the write queue, the first one next
  gate,       \* the write queue's status: open, or resetting
  batch,      \* events onReconcileWsEventsOp has cached and not yet applied
  cached,     \* events in the event cache's table
  buffer,     \* the gap buffer
  known,      \* knownRevisions, 0 if the stream has no entry
  row,        \* events whose effect the read model row holds
  rowRevision,\* the row's revision column
  repairing,  \* the coordinator's guard
  fetches,    \* calls of fetchStreamEvents in flight
  failed,     \* history: the last repair did not get through
  refetches, resets, crashes   \* bounds: how many so far

network == <<head, captured, scheduled>>
queue == <<ops, gate, batch>>
cache == <<cached, buffer>>
model == <<known, row, rowRevision>>
repair == <<repairing, fetches, failed>>
bounds == <<refetches, resets, crashes>>
vars == <<network, queue, cache, model, repair, bounds>>

\* An operation: the drain has no range, a repair brings the events after
\* `from`, and a page of records is the row's state at `to`.
Op == [kind : {"drain", "repair", "records"}, from : 0..MaxRevision, to : 0..MaxRevision]
Fetch == [after : 0..MaxRevision, aborted : BOOLEAN]

Init ==
  /\ head = 0 /\ captured = {} /\ scheduled = FALSE
  /\ ops = <<>> /\ gate = "open" /\ batch = {}
  /\ cached = {} /\ buffer = {}
  /\ known = 0 /\ row = {} /\ rowRevision = 0
  /\ repairing = FALSE /\ fetches = {} /\ failed = FALSE
  /\ refetches = 0 /\ resets = 0 /\ crashes = 0

\* enqueue: refused while the queue is resetting.
Enqueue(op) == ops' = IF gate = "open" THEN Append(ops, op) ELSE ops

-----------------------------------------------------------------------------
(* Arrival                                                                 *)

Publish ==
  /\ head < MaxRevision
  /\ head' = head + 1
  /\ UNCHANGED <<captured, scheduled, queue, cache, model, repair, bounds>>

\* handleNewWsEvent and handleCommandResponseEvents: any event, again or late,
\* then scheduleWsReconcile.
Capture(r) ==
  /\ r <= head /\ r \notin captured
  /\ captured' = captured \cup {r}
  /\ IF scheduled THEN UNCHANGED <<ops, scheduled>>
     ELSE /\ scheduled' = TRUE
          /\ Enqueue([kind |-> "drain", from |-> 0, to |-> 0])
  /\ UNCHANGED <<head, gate, batch, cache, model, repair, bounds>>

-----------------------------------------------------------------------------
(* onReconcileWsEventsOp                                                   *)

Next1(kind) == ops # <<>> /\ Head(ops).kind = kind

\* The flag, the batch, and the dedup pass: events already cached are dropped.
DrainCache ==
  /\ Next1("drain") /\ batch = {}
  /\ scheduled' = FALSE /\ captured' = {}
  /\ batch' = captured \ cached
  /\ cached' = cached \cup captured
  /\ buffer' = buffer \cup batch'
  /\ ops' = IF batch' = {} THEN Tail(ops) ELSE ops
  /\ UNCHANGED <<head, gate, model, repair, bounds>>

\* setupWsReconcileBatch: the baseline, from the row if the stream has none.
Baseline == IF known = 0 THEN rowRevision ELSE known

\* checkAndRepairGap along the sorted batch: the events that are in order.
InOrder == {r \in batch : r > Baseline /\ \A q \in (Baseline + 1)..r : q \in batch}

\* Mutant: a gap behind events that are in order goes unnoticed.
HasGapAtStart == InOrder = {} /\ \E r \in batch : r > Baseline

HasGap == \E r \in batch : r > Baseline /\ r \notin InOrder

\* repairStreamGap up to the fetch, unless one is under way.
StartRepair(after) ==
  IF repairing THEN UNCHANGED repair
  ELSE /\ repairing' = TRUE /\ failed' = FALSE
       /\ fetches' = fetches \cup {[after |-> after, aborted |-> FALSE]}

\* The baseline moves while the batch is walked; the row is written after, or
\* not at all when the write throws.
DrainApply(written) ==
  /\ Next1("drain") /\ batch # {}
  /\ known' = Highest(InOrder \cup {Baseline})
  /\ IF HasGap THEN StartRepair(known') ELSE UNCHANGED repair
  /\ row' = IF written THEN row \cup InOrder ELSE row
  /\ rowRevision' = IF written /\ InOrder # {} THEN known' ELSE rowRevision
  /\ buffer' = IF written /\ InOrder # {} THEN {r \in buffer : r > known'} ELSE buffer
  /\ batch' = {} /\ ops' = Tail(ops)
  /\ UNCHANGED <<network, gate, cached, bounds>>

-----------------------------------------------------------------------------
(* Gap repair                                                              *)

\* The events after the baseline, as the server has them now.
FetchAnswers(f) ==
  /\ f \in fetches /\ ~f.aborted
  /\ fetches' = fetches \ {f}
  /\ Enqueue([kind |-> "repair", from |-> f.after, to |-> head])
  /\ UNCHANGED <<network, gate, batch, cache, model, repairing, failed, bounds>>

\* Mutant: a failed fetch leaves the guard up.
FetchFailsQuietly(f) ==
  /\ f \in fetches
  /\ fetches' = fetches \ {f}
  /\ failed' = TRUE
  /\ UNCHANGED <<network, queue, cache, model, repairing, bounds>>

\* A network error, or the end of an aborted fetch.
FetchFails(f) ==
  /\ f \in fetches
  /\ fetches' = fetches \ {f}
  /\ repairing' = FALSE /\ failed' = TRUE
  /\ UNCHANGED <<network, queue, cache, model, bounds>>

\* onApplyGapRepair: everything buffered goes through the reconcile pipeline.
\* `written` is FALSE when the pipeline throws; the guard falls all the same.
ApplyRepair(written) ==
  /\ Next1("repair")
  /\ LET op == Head(ops)
         events == (op.from + 1)..op.to
         drained == buffer \cup events
     IN /\ cached' = cached \cup events
        /\ IF written /\ drained # {}
             THEN /\ row' = row \cup drained
                  /\ rowRevision' = Highest(drained)
                  /\ known' = Highest(drained)
                  /\ buffer' = {}
             ELSE buffer' = drained /\ UNCHANGED model
  /\ repairing' = FALSE /\ failed' = (failed \/ ~written)
  /\ ops' = Tail(ops)
  /\ UNCHANGED <<network, gate, batch, fetches, bounds>>

-----------------------------------------------------------------------------
(* Refetch, session reset, crash                                           *)

\* A seed or a refetch answers with the state of the row at the server.
RefetchAnswers ==
  /\ refetches < MaxRefetches /\ head > 0 /\ gate = "open"
  /\ refetches' = refetches + 1
  /\ Enqueue([kind |-> "records", from |-> 0, to |-> head])
  /\ UNCHANGED <<network, gate, batch, cache, model, repair, resets, crashes>>

\* onApplyRecords.
ApplyRecords ==
  /\ Next1("records")
  /\ row' = 1..Head(ops).to /\ rowRevision' = Head(ops).to
  /\ known' = Highest({known, Head(ops).to})
  /\ ops' = Tail(ops)
  /\ UNCHANGED <<network, gate, batch, cache, repair, bounds>>

\* The eviction handlers of the operations a reset discards.
Evict(discarded) ==
  /\ scheduled' = (scheduled /\ \A i \in DOMAIN discarded : discarded[i].kind # "drain")
  /\ repairing' = (repairing /\ \A i \in DOMAIN discarded : discarded[i].kind # "repair")

\* Mutant: the operation in progress is discarded, too.
KeptNone == <<>>

\* The operation in progress; an operation shows only once it has cached a batch.
Kept == IF batch = {} THEN <<>> ELSE <<Head(ops)>>

BeginReset ==
  /\ gate = "open" /\ resets < MaxResets
  /\ gate' = "resetting" /\ resets' = resets + 1
  /\ ops' = Kept
  /\ Evict(IF batch = {} THEN ops ELSE Tail(ops))
  /\ UNCHANGED <<head, captured, batch, cache, model, fetches, failed, refetches, crashes>>

\* onSessionDestroyed: aborts the fetches, drops what the store held; the
\* captured events stay.
EndReset ==
  /\ gate = "resetting" /\ ops = <<>>
  /\ gate' = "open"
  /\ fetches' = {[f EXCEPT !.aborted = TRUE] : f \in fetches}
  /\ repairing' = FALSE /\ failed' = FALSE
  /\ known' = 0 /\ row' = {} /\ rowRevision' = 0
  /\ cached' = {} /\ buffer' = {}
  /\ UNCHANGED <<network, ops, batch, bounds>>

\* A reload; restoreKnownRevisions reads the row.
Crash ==
  /\ crashes < MaxCrashes /\ crashes' = crashes + 1
  /\ captured' = {} /\ scheduled' = FALSE
  /\ ops' = <<>> /\ gate' = "open" /\ batch' = {}
  /\ buffer' = {} /\ known' = rowRevision
  /\ repairing' = FALSE /\ fetches' = {} /\ failed' = FALSE
  /\ UNCHANGED <<head, cached, row, rowRevision, refetches, resets>>

Next == \/ Publish \/ \E r \in Revision : Capture(r)
        \/ DrainCache \/ \E written \in Written : DrainApply(written) \/ ApplyRepair(written)
        \/ \E f \in fetches : FetchAnswers(f) \/ FetchFails(f)
        \/ RefetchAnswers \/ ApplyRecords
        \/ BeginReset \/ EndReset \/ Crash

Spec == Init /\ [][Next]_vars

\* The queue runs its operations, and a fetch answers or fails.
Fairness == /\ WF_vars(DrainCache) /\ WF_vars(\E w \in Written : DrainApply(w))
            /\ WF_vars(\E w \in Written : ApplyRepair(w))
            /\ WF_vars(ApplyRecords) /\ WF_vars(EndReset)
            /\ WF_vars(\E f \in fetches : FetchAnswers(f) \/ FetchFails(f))

FairSpec == Spec /\ Fairness

-----------------------------------------------------------------------------
(* Properties                                                              *)

\* Types; a batch is in progress only for the drain at the head of the queue.
TypeOK ==
  /\ head \in 0..MaxRevision /\ captured \subseteq 1..head /\ scheduled \in BOOLEAN
  /\ ops \in Seq(Op) /\ gate \in {"open", "resetting"}
  /\ batch \subseteq cached /\ (batch # {} => Next1("drain"))
  /\ cached \subseteq 1..head /\ buffer \subseteq cached
  /\ known \in 0..head /\ row \subseteq 1..head /\ rowRevision \in 0..head
  /\ repairing \in BOOLEAN /\ failed \in BOOLEAN
  /\ fetches \subseteq Fetch
  /\ refetches \in Nat /\ resets \in Nat /\ crashes \in Nat

RepairOps == {i \in DOMAIN ops : ops[i].kind = "repair"}

\* The guard of a stream stands for a repair that will lower it: a fetch in
\* flight or an operation of the queue, also when the answer came during a
\* reset and was refused.  Otherwise the stream is never repaired again.
GuardHasRepair ==
  repairing => fetches # {} \/ RepairOps # {} \/ gate = "resetting"

\* What the gap buffer holds beyond the baseline is on its way into the model:
\* a repair is under way, the batch is being walked, or the last repair failed
\* and the next event starts another.
Beyond == {r \in buffer : r > known}
GapWatched ==
  Beyond # {} => repairing \/ fetches # {} \/ RepairOps # {} \/ batch # {}
                 \/ failed \/ gate = "resetting"

\* Repairs keep their promise: what stands for a repair under way has one, and
\* what waits for one has one or is known to have none.
RepairPromised == GuardHasRepair /\ GapWatched

\* A gap closes in the end, or its repair fails, or the session ends.
GapCloses ==
  \A r \in Revision : (r \in Beyond) ~> (r \notin Beyond \/ failed)
=============================================================================
