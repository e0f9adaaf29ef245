------------------------------- MODULE KeyData -------------------------------
(***************************************************************************)
(* The life of one cache key and of the data stored under it: acquired and *)
(* held (CacheManager.ts), seeded page by page from the server             *)
(* (SyncManager.ts), written by the write queue, evicted in two steps -    *)
(* the rows at once, the rest by an evict-cache-key operation - and wiped  *)
(* by a session reset.                                                     *)
(*                                                                         *)
(* Keys share only the queue and the storage worker.  `data` holds, for    *)
(* each row stored under the key, the session it was fetched in.           *)
(***************************************************************************)
EXTENDS Naturals, Sequences

CONSTANTS
  Ephemeral,   \* whether the key's evictionPolicy is 'ephemeral'
  Window,      \* windows
  MaxPages,    \* bound on the pages of a seed
  MaxPending,  \* bound on calls and operations under way when one more is begun
  MaxResets,   \* bound on session resets
  MaxCrashes   \* bound on crashes

ASSUME EphemeralAssumption == Ephemeral \in BOOLEAN
ASSUME BoundsAssumption == MaxPages \in Nat \ {0} /\ {MaxPending, MaxResets, MaxCrashes} \subseteq Nat

VARIABLES
  present,    \* whether the key is in the registry
  holds,      \* holdsByKey of the key
  acquiring,  \* an acquireKey waits for maybeEvict
  deleted,    \* whether the key is in deletedKeys
  flushPending,
  status,     \* seedStatus
  seed,       \* inFlightSeeds: the seed on its way
  ops,        \* operations pending in the write queue
  gate,       \* its state: open, or a phase of a reset
  calls,      \* storage calls, the first one is answered next
  row,        \* whether the key is in the cache_keys table
  data,       \* sessions of the rows stored under the key
  session, crashes  \* how many so far

key == <<present, holds, acquiring, deleted>>
seeding == <<status, seed>>
queue == <<ops, gate, flushPending>>
disk == <<row, data>>
vars == <<key, seeding, queue, calls, disk, session, crashes>>

Session == 0..MaxResets
\* A seed awaits its headers, a page from the server, or the operation of its
\* last page.
NoSeed == [stage |-> "none", page |-> 0, session |-> 0, aborted |-> FALSE]
Seed == [stage : {"none", "context", "fetch", "write"}, page : 0..MaxPages, session : Session,
         aborted : BOOLEAN]
Op == [kind : {"flush", "evict", "records"}, session : Session, last : BOOLEAN]
Call == [kind : {"evict", "delete", "save", "records", "wipe"}, doomed : BOOLEAN,
         saved : BOOLEAN, session : Session, last : BOOLEAN]

Init ==
  /\ present = FALSE /\ holds = {} /\ acquiring = FALSE /\ deleted = FALSE
  /\ status = "none" /\ seed = NoSeed
  /\ ops = <<>> /\ gate = "open" /\ flushPending = FALSE
  /\ calls = <<>> /\ row = FALSE /\ data = {}
  /\ session = 0 /\ crashes = 0

-----------------------------------------------------------------------------
(* Storage and the write queue                                             *)

\* A call that deletes the key, or does not (`doomed`).
AskDelete(kind, doomed) ==
  calls' = Append(calls, [kind |-> kind, doomed |-> doomed, saved |-> FALSE,
                          session |-> session, last |-> FALSE])

Room == Len(calls) + Len(ops) < MaxPending

\* enqueue: refused unless the queue is open.
Accept(queued, op) == IF gate = "open" THEN Append(queued, op) ELSE queued
Plain(kind) == [kind |-> kind, session |-> session, last |-> FALSE]

\* scheduleDirtyFlush, after the operations already enqueued.
ScheduleFlush(queued) ==
  IF flushPending THEN ops' = queued /\ UNCHANGED flushPending
  ELSE flushPending' = TRUE /\ ops' = Accept(queued, Plain("flush"))

-----------------------------------------------------------------------------
(* Acquire, hold, release                                                  *)

\* cache:key-added and cache:key-accessed: seedForKey joins a seed on its way,
\* or begins one by asking for the headers.
SeedForKey ==
  /\ seed' = IF seed.stage = "none" THEN [NoSeed EXCEPT !.stage = "context"] ELSE seed
  /\ UNCHANGED status

AcquireExisting ==
  /\ present
  /\ SeedForKey /\ ScheduleFlush(ops)
  /\ UNCHANGED <<key, gate, calls, disk, session, crashes>>

\* A new key: the rest comes after the await of maybeEvict.
AcquireNew ==
  /\ ~present /\ ~acquiring /\ Room
  /\ acquiring' = TRUE
  /\ UNCHANGED <<present, holds, deleted, seeding, queue, calls, disk, session, crashes>>

AcquireEnds ==
  /\ acquiring /\ acquiring' = FALSE
  /\ present' = TRUE
  /\ SeedForKey /\ ScheduleFlush(ops)
  /\ UNCHANGED <<holds, deleted, gate, calls, disk, session, crashes>>

Hold(w) ==
  /\ w \notin holds
  /\ holds' = holds \cup {w}
  /\ ScheduleFlush(ops)
  /\ UNCHANGED <<present, acquiring, deleted, seeding, gate, calls, disk, session, crashes>>

\* releaseForWindow and unregisterWindow: an ephemeral key goes with its last
\* hold, from the registry at once and from the table with the next flush.
Release(w) ==
  /\ w \in holds
  /\ holds' = holds \ {w}
  /\ IF present /\ Ephemeral /\ holds' = {}
     THEN /\ present' = FALSE /\ deleted' = TRUE
          /\ ScheduleFlush(Accept(ops, Plain("evict")))
     ELSE UNCHANGED <<present, deleted>> /\ ScheduleFlush(ops)
  /\ UNCHANGED <<acquiring, seeding, gate, calls, disk, session, crashes>>

\* evict, evictAll, evictExpired, or room made for another key.
Evict ==
  /\ present /\ holds = {} /\ Room
  /\ present' = FALSE
  /\ AskDelete("evict", TRUE)
  /\ UNCHANGED <<holds, acquiring, deleted, seeding, queue, disk, session, crashes>>

-----------------------------------------------------------------------------
(* Seeds                                                                   *)

\* The headers are there: seedOneCollection fetches the first page, unless the
\* key is seeded or syncing; the signal is the one of the current session.
StartSeed ==
  /\ seed.stage = "context"
  /\ IF status \in {"seeded", "syncing"} THEN seed' = NoSeed /\ UNCHANGED status
     ELSE /\ status' = "syncing"
          /\ seed' = [stage |-> "fetch", page |-> 1, session |-> session, aborted |-> FALSE]
  /\ UNCHANGED <<key, queue, calls, disk, session, crashes>>

\* seedWithRecords: a page becomes an operation, and the next page is asked
\* for; the last operation is awaited, and if the queue has refused it the
\* seed ends at once.
FetchAnswers(last) ==
  /\ seed.stage = "fetch" /\ ~seed.aborted /\ Room
  /\ last \/ seed.page < MaxPages
  /\ ops' = Accept(ops, [kind |-> "records", session |-> seed.session, last |-> last])
  /\ seed' = IF ~last THEN [seed EXCEPT !.page = @ + 1]
             ELSE IF gate = "open" THEN [seed EXCEPT !.stage = "write"] ELSE NoSeed
  /\ UNCHANGED <<key, status, gate, flushPending, calls, disk, session, crashes>>

\* SeedStatusIndex.update: nothing without an entry.
Update(s) == IF status = "none" THEN "none" ELSE s

\* Mutant: the entry of a failed seed keeps its mark.
FetchFailsSyncing ==
  /\ seed.stage = "fetch"
  /\ seed' = NoSeed
  /\ UNCHANGED <<key, status, queue, calls, disk, session, crashes>>

\* The fetch rejects: the network, or its signal.
FetchFails ==
  /\ seed.stage = "fetch"
  /\ seed' = NoSeed /\ status' = Update("idle")
  /\ UNCHANGED <<key, queue, calls, disk, session, crashes>>

-----------------------------------------------------------------------------
(* The write queue's handlers                                              *)

Busy == \E i \in DOMAIN calls : calls[i].kind \in {"delete", "save", "records"}
Next1(kind) == gate = "open" /\ ~Busy /\ ops # <<>> /\ Head(ops).kind = kind

RunFlush ==
  /\ Next1("flush")
  /\ ops' = Tail(ops) /\ flushPending' = FALSE
  /\ AskDelete("delete", deleted) /\ deleted' = FALSE
  /\ UNCHANGED <<present, holds, acquiring, seeding, gate, disk, session, crashes>>

\* Mutant: the key's seed status outlives the key.
RunEvictUnforgetting ==
  /\ Next1("evict")
  /\ ops' = Tail(ops)
  /\ UNCHANGED <<key, seeding, gate, flushPending, calls, disk, session, crashes>>

\* onEvictCacheKey forgets the seed status; a seed on its way goes on.
RunEvict ==
  /\ Next1("evict")
  /\ ops' = Tail(ops) /\ status' = "none"
  /\ UNCHANGED <<key, seed, gate, flushPending, calls, disk, session, crashes>>

\* onApplyRecords does not ask whether the key is still registered.
RunRecords ==
  /\ Next1("records")
  /\ calls' = Append(calls, [kind |-> "records", doomed |-> FALSE, saved |-> FALSE,
                             session |-> Head(ops).session, last |-> Head(ops).last])
  /\ ops' = Tail(ops)
  /\ UNCHANGED <<key, seeding, gate, flushPending, disk, session, crashes>>

-----------------------------------------------------------------------------
(* The storage worker answers the first call                               *)

Answers(kind) == calls # <<>> /\ Head(calls).kind = kind

\* deleteCacheKeys: the row, and the data that hangs on it.
Delete == IF Head(calls).doomed THEN row' = FALSE /\ data' = {} ELSE UNCHANGED disk

\* cache:evicted goes out only now.
AnswerEvict ==
  /\ Answers("evict") /\ Delete
  /\ calls' = Tail(calls)
  /\ ops' = Accept(ops, Plain("evict"))
  /\ UNCHANGED <<key, seeding, gate, flushPending, session, crashes>>

\* onFlushCacheKeys goes on with what is registered by now.
AnswerDelete ==
  /\ Answers("delete") /\ Delete
  /\ calls' = Append(Tail(calls), [Head(calls) EXCEPT !.kind = "save", !.saved = present])
  /\ UNCHANGED <<key, seeding, queue, session, crashes>>

AnswerSave ==
  /\ Answers("save")
  /\ row' = (row \/ Head(calls).saved)
  /\ calls' = Tail(calls)
  /\ UNCHANGED <<key, seeding, queue, data, session, crashes>>

\* The page is stored; after the last one the seed is complete.
AnswerRecords ==
  /\ Answers("records")
  /\ data' = data \cup {Head(calls).session}
  /\ IF Head(calls).last THEN seed' = NoSeed /\ status' = Update("seeded")
     ELSE UNCHANGED seeding
  /\ calls' = Tail(calls)
  /\ UNCHANGED <<key, queue, row, session, crashes>>

-----------------------------------------------------------------------------
(* Session reset and restart                                               *)

\* Mutant: the seed goes on waiting for the operation that was discarded.
BeginResetUnanswered ==
  /\ gate = "open" /\ session < MaxResets
  /\ gate' = "draining"
  /\ flushPending' = (flushPending /\ \A i \in DOMAIN ops : ops[i].kind # "flush")
  /\ ops' = <<>>
  /\ UNCHANGED <<key, seeding, calls, disk, session, crashes>>

\* resetSession discards what is pending: a flush lowers its flag, and a seed
\* whose last page is discarded ends with Err, its status as it is.
BeginReset ==
  /\ gate = "open" /\ session < MaxResets
  /\ gate' = "draining"
  /\ flushPending' = (flushPending /\ \A i \in DOMAIN ops : ops[i].kind # "flush")
  /\ seed' = IF \E i \in DOMAIN ops : ops[i].last THEN NoSeed ELSE seed
  /\ ops' = <<>>
  /\ UNCHANGED <<key, status, calls, disk, session, crashes>>

\* SyncManager.onSessionDestroyed up to the await of commandQueue.clearAll:
\* fetches are aborted; whatever begins from here on is the next session's.
AbortFetches ==
  /\ gate = "draining" /\ ~Busy
  /\ gate' = "aborted" /\ session' = session + 1
  /\ seed' = IF seed.stage = "fetch" THEN [seed EXCEPT !.aborted = TRUE] ELSE seed
  /\ UNCHANGED <<key, status, ops, flushPending, calls, disk, crashes>>

\* CacheManager.onSessionDestroyed: the registered keys are the ones deleted.
OnSessionDestroyed ==
  /\ gate = "aborted" /\ gate' = "resetting"
  /\ present' = FALSE /\ holds' = {} /\ deleted' = FALSE /\ flushPending' = FALSE
  /\ AskDelete("wipe", present)
  /\ UNCHANGED <<acquiring, seeding, ops, disk, session, crashes>>

\* The rest of it; the queue opens for the next session.
AnswerWipe ==
  /\ Answers("wipe") /\ Delete
  /\ calls' = Tail(calls)
  /\ status' = "none" /\ gate' = "open"
  /\ UNCHANGED <<key, seed, ops, flushPending, session, crashes>>

\* A new thread: CacheManager.initialize drops an ephemeral row, and registers
\* a persistent one.
Restart ==
  /\ crashes < MaxCrashes
  /\ crashes' = crashes + 1
  /\ row' = (row /\ ~Ephemeral)
  /\ data' = IF row /\ Ephemeral THEN {} ELSE data
  /\ present' = row' /\ holds' = {} /\ acquiring' = FALSE /\ deleted' = FALSE
  /\ status' = "none" /\ seed' = NoSeed
  /\ ops' = <<>> /\ gate' = "open" /\ flushPending' = FALSE /\ calls' = <<>>
  /\ UNCHANGED session

Next ==
  \/ AcquireExisting \/ AcquireNew \/ AcquireEnds
  \/ \E w \in Window : Hold(w) \/ Release(w)
  \/ Evict
  \/ StartSeed
  \/ \E last \in BOOLEAN : FetchAnswers(last)
  \/ FetchFails
  \/ RunFlush \/ RunEvict \/ RunRecords
  \/ AnswerEvict \/ AnswerDelete \/ AnswerSave \/ AnswerRecords \/ AnswerWipe
  \/ BeginReset \/ AbortFetches \/ OnSessionDestroyed \/ Restart

Spec == Init /\ [][Next]_vars

-----------------------------------------------------------------------------
(* Properties                                                              *)

LastOps == {i \in DOMAIN ops : ops[i].last}
LastCalls == {i \in DOMAIN calls : calls[i].last}

\* The shape of the state, and: a seed that awaits its last page has exactly one
\* operation or call that ends it, and no other seed has any.
TypeOK ==
  /\ {present, acquiring, deleted, flushPending, row} \subseteq BOOLEAN
  /\ holds \subseteq Window
  /\ status \in {"none", "idle", "syncing", "seeded"} /\ seed \in Seed
  /\ ops \in Seq(Op) /\ calls \in Seq(Call) /\ gate \in {"open", "draining", "aborted", "resetting"}
  /\ data \subseteq Session /\ session \in Session /\ crashes \in 0..MaxCrashes
  /\ LastOps \cup LastCalls # {} <=> seed.stage = "write"
  /\ LastOps = {} \/ LastCalls = {}
  /\ \A i, j \in LastOps : i = j
  /\ \A i, j \in LastCalls : i = j

Coming(kind) == \/ \E i \in DOMAIN ops : ops[i].kind = kind
                \/ \E i \in DOMAIN calls : calls[i].kind = kind

\* A key that counts as seeded has its data: otherwise a query would answer
\* from an empty store and nothing would fetch again.  The only exception is
\* the time between an eviction and the operation that makes it known.
SeededHasData ==
  status = "seeded" => data # {} \/ Coming("evict") \/ gate # "open"

\* A key marked as syncing has a seed on its way, which ends the mark; a mark
\* left alone would keep the key from being seeded again.
SyncingIsBacked == gate = "open" /\ status = "syncing" => seed.stage # "none"

\* The seed status of a key can be trusted: it neither hides missing data nor
\* keeps a seed from being started.
StatusTrusted == SeededHasData /\ SyncingIsBacked
=============================================================================
