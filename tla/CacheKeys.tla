------------------------------ MODULE CacheKeys ------------------------------
(***************************************************************************)
(* The registry of cache keys: CacheManager.ts with its holds, frozen      *)
(* subtrees and evictions, and the cache_keys table it is flushed to.      *)
(*                                                                         *)
(* The registry changes at once and the storage worker answers later, one  *)
(* call after the other: `calls` is its queue, and the code after an await *)
(* runs when its call is answered.  Of the write queue only the flush      *)
(* operation matters here.                                                 *)
(***************************************************************************)
EXTENDS Naturals, Sequences, FiniteSets

CONSTANTS
  Key,         \* cache keys
  NoKey,       \* no cache key
  ParentOf,    \* ParentOf[k]: parentKey
  Ephemeral,   \* keys acquired with evictionPolicy 'ephemeral'
  Expiring,    \* keys acquired with a ttl
  Templates,   \* keys the application registers from a template
  Freezes, Holds, \* keys the application freezes, and holds
  Window,      \* windows
  MaxCacheKeys,\* maxCacheKeys
  MaxPending,  \* bound on storage calls and acquisitions under way when one more is begun
  MaxEnds      \* bound on session resets and crashes of the thread, together

ASSUME KeyAssumption == /\ NoKey \notin Key
                        /\ ParentOf \in [Key -> Key \cup {NoKey}]
                        /\ Ephemeral \cup Expiring \cup Templates \cup Freezes \cup Holds \subseteq Key
ASSUME BoundsAssumption == {MaxCacheKeys, MaxPending, MaxEnds} \subseteq Nat

VARIABLES
  registry,  \* registry[k]: CacheKeyRegistration, as far as it is persisted
  children,  \* childrenByParent, as <<parent, child>>
  holds,     \* holdsByKey
  dirty, deletedKeys,
  flushPending,
  queued,    \* whether a flush-cache-keys operation is in the write queue
  gate,      \* the write queue's state: open, draining or resetting
  acquiring, \* acquireKey calls that maybeEvict has let through
  expired,   \* keys evictExpired has collected and not yet evicted
  calls,     \* storage calls, the first one is answered next
  table,     \* the cache_keys table
  ends       \* bound: resets and crashes so far

memory == <<registry, children, holds, dirty, deletedKeys>>
queue == <<flushPending, queued, gate>>
waiting == <<acquiring, expired>>
vars == <<memory, queue, waiting, calls, table, ends>>

Registration == [present : BOOLEAN, frozen : BOOLEAN, inherited : BOOLEAN]
Absent == [present |-> FALSE, frozen |-> FALSE, inherited |-> FALSE]
Fresh == [Absent EXCEPT !.present = TRUE]
NoRows == [k \in Key |-> Absent]
Acquire == [key : Key, holders : SUBSET Window]
\* A call, and what its continuation needs: the acquisition that waits for
\* room, the rows to save.
Call == [kind : {"evict", "delete", "save", "wipe"}, keys : SUBSET Key,
         next : SUBSET Acquire, rows : [Key -> Registration]]

registered == {k \in Key : registry[k].present}

Init ==
  /\ registry = NoRows /\ children = {}
  /\ holds = [k \in Key |-> {}]
  /\ dirty = {} /\ deletedKeys = {}
  /\ flushPending = FALSE /\ queued = FALSE /\ gate = "open"
  /\ acquiring = {} /\ expired = {}
  /\ calls = <<>> /\ table = NoRows
  /\ ends = 0

-----------------------------------------------------------------------------
(* Storage and the write queue                                             *)

Ask(kind, keys, next, rows) ==
  calls' = Append(calls, [kind |-> kind, keys |-> keys, next |-> next, rows |-> rows])

AskDelete(kind, keys, next) == Ask(kind, keys, next, NoRows)

\* The bound: an application that waits for its calls.
Room == Len(calls) + Cardinality(acquiring) < MaxPending

\* Mutant: the flag is not raised.
ScheduleFlushUnmarked ==
  IF flushPending \/ dirty' \cup deletedKeys' = {} THEN UNCHANGED <<flushPending, queued>>
  ELSE UNCHANGED flushPending /\ queued' = (queued \/ gate = "open")

\* scheduleDirtyFlush, as the last thing an operation does; the write queue
\* refuses the flush unless it is open, and nobody is told.
ScheduleFlush ==
  IF flushPending \/ dirty' \cup deletedKeys' = {} THEN UNCHANGED <<flushPending, queued>>
  ELSE flushPending' = TRUE /\ queued' = (queued \/ gate = "open")

-----------------------------------------------------------------------------
(* acquireKey and registerCacheKey                                         *)

AddHolds(k, ws) == holds' = [holds EXCEPT ![k] = @ \cup ws]

\* A key that is there: touched, and held if the options ask for it.
AcquireExisting(k, ws) ==
  /\ k \in registered
  /\ AddHolds(k, ws)
  /\ dirty' = dirty \cup {k}
  /\ UNCHANGED deletedKeys /\ ScheduleFlush
  /\ UNCHANGED <<registry, children, gate, waiting, calls, table, ends>>

\* Mutant: the hierarchy index keeps a removed key.
RemoveKeepingIndex(K) ==
  /\ registry' = [k \in Key |-> IF k \in K THEN Absent ELSE registry[k]]
  /\ holds' = [k \in Key |-> IF k \in K THEN {} ELSE holds[k]]
  /\ dirty' = dirty \ K
  /\ UNCHANGED children

\* removeFromRegistry, of every key of K that is in the registry.
RemoveFromRegistry(K) ==
  LET gone == K \cap registered IN
  /\ registry' = [k \in Key |-> IF k \in gone THEN Absent ELSE registry[k]]
  /\ holds' = [k \in Key |-> IF k \in gone THEN {} ELSE holds[k]]
  /\ dirty' = dirty \ gone
  /\ children' = {e \in children : e[1] \notin gone /\ e[2] \notin gone}

Leaf(k) == \A e \in children : e[1] # k
Frozen(k) == registry[k].frozen \/ registry[k].inherited
Evictable == {k \in registered : Leaf(k) /\ holds[k] = {} /\ ~Frozen(k)}

\* maybeEvict's victim: an ephemeral key if there is one; which one is the
\* least recently used is left open.
Victims == IF Evictable \cap Ephemeral # {} THEN Evictable \cap Ephemeral ELSE Evictable

\* A new key: maybeEvict, and the rest after its await.
AcquireNew(k, ws) ==
  LET next == [key |-> k, holders |-> ws] IN
  /\ k \notin Templates \cup registered /\ Room
  /\ IF Cardinality(registered) < MaxCacheKeys \/ Victims = {}
     THEN /\ acquiring' = acquiring \cup {next}
          /\ UNCHANGED <<memory, calls>>
     ELSE \E v \in Victims :
          /\ RemoveFromRegistry({v})
          /\ AskDelete("evict", {v}, {next})
          /\ UNCHANGED <<deletedKeys, acquiring>>
  /\ UNCHANGED <<queue, expired, table, ends>>

\* A new registration, in the place of one another call has made meanwhile.
AddRegistration(k, ws) ==
  /\ registry' = [registry EXCEPT ![k] = Fresh]
  /\ children' = children \cup {<<q, k>> : q \in {ParentOf[k]} \ {NoKey}}
  /\ AddHolds(k, ws)
  /\ dirty' = dirty \cup {k}
  /\ UNCHANGED deletedKeys /\ ScheduleFlush

AcquireEnds(a) ==
  /\ a \in acquiring
  /\ acquiring' = acquiring \ {a}
  /\ AddRegistration(a.key, a.holders)
  /\ UNCHANGED <<gate, expired, calls, table, ends>>

\* registerCacheKey of a template nobody has registered: at once, whatever the
\* capacity.
RegisterCacheKey(k, ws) ==
  /\ k \in Templates \ registered
  /\ AddRegistration(k, ws)
  /\ UNCHANGED <<gate, waiting, calls, table, ends>>

-----------------------------------------------------------------------------
(* Holds                                                                   *)

\* holdForWindow, which asks for no registration.
HoldForWindow(k, w) ==
  /\ w \notin holds[k]
  /\ AddHolds(k, {w})
  /\ dirty' = dirty \cup {k}
  /\ UNCHANGED <<registry, children, deletedKeys>> /\ ScheduleFlush
  /\ UNCHANGED <<gate, waiting, calls, table, ends>>

\* Releases holds of window w on the keys K: an ephemeral key whose last hold
\* goes is dropped at once, and its row by the next flush.
Release(K, w) ==
  LET released == {k \in K : w \in holds[k]}
      gone == {k \in released \cap Ephemeral \cap registered : holds[k] = {w}} IN
  /\ registry' = [k \in Key |-> IF k \in gone THEN Absent ELSE registry[k]]
  /\ children' = {e \in children : e[1] \notin gone /\ e[2] \notin gone}
  /\ holds' = [k \in Key |-> IF k \in released THEN holds[k] \ {w} ELSE holds[k]]
  /\ dirty' = (dirty \cup released) \ gone
  /\ deletedKeys' = deletedKeys \cup gone
  /\ ScheduleFlush
  /\ UNCHANGED <<gate, waiting, calls, table, ends>>

ReleaseForWindow(k, w) == w \in holds[k] /\ Release({k}, w)

\* unregisterWindow: the window's last act, or what its missed heartbeats do.
ReleaseAllForWindow(w) == (\E k \in Key : w \in holds[k]) /\ Release(Key, w)

-----------------------------------------------------------------------------
(* freeze and unfreeze                                                     *)

\* propagateInheritedFrozen: down the index, stopping at ephemeral keys.
Heirs(k) ==
  LET within[n \in 0..Cardinality(Key)] ==
        IF n = 0 THEN {k}
        ELSE within[n - 1] \cup
             {e[2] : e \in {d \in children : d[1] \in within[n - 1] /\
                                            d[2] \in registered \ Ephemeral}}
  IN (within[Cardinality(Key)] \ {k}) \cap registered

\* isAncestorFrozen: up the registry, as far as parents are registered.
FrozenAbove(k, rows) ==
  LET up[n \in 0..Cardinality(Key)] ==
        IF n = 0 THEN {k} ELSE up[n - 1] \cup ({ParentOf[q] : q \in up[n - 1]} \cap registered)
  IN \E q \in up[Cardinality(Key)] \ {k} : rows[q].frozen

SetFrozen(k, frozen) ==
  LET rows == [registry EXCEPT ![k].frozen = frozen] IN
  /\ registry' = [q \in Key |-> IF q \in Heirs(k)
                               THEN [rows[q] EXCEPT !.inherited = frozen \/ FrozenAbove(q, rows)]
                               ELSE rows[q]]
  /\ dirty' = dirty \cup {k} \cup {q \in Key : registry'[q] # registry[q]}
  /\ UNCHANGED <<children, holds, deletedKeys>> /\ ScheduleFlush
  /\ UNCHANGED <<gate, waiting, calls, table, ends>>

Freeze(k) == k \in (Freezes \cap registered) \ Ephemeral /\ ~registry[k].frozen /\ SetFrozen(k, TRUE)
Unfreeze(k) == k \in registered /\ registry[k].frozen /\ SetFrozen(k, FALSE)

-----------------------------------------------------------------------------
(* evict, evictAll and evictExpired                                        *)

\* evict, and each turn of evictAll.
Evict(k) ==
  /\ k \in Evictable /\ Room
  /\ RemoveFromRegistry({k}) /\ AskDelete("evict", {k}, {})
  /\ UNCHANGED <<deletedKeys, queue, waiting, table, ends>>

\* evictExpired first collects; whether a ttl has run out is left open.
CollectExpired ==
  /\ expired = {}
  /\ expired' \in SUBSET {k \in registered \cap Expiring : holds[k] = {} /\ ~Frozen(k)}
  /\ expired' # {}
  /\ UNCHANGED <<memory, queue, acquiring, calls, table, ends>>

\* Then evicts one after the other, with no second look.
EvictExpired(k) ==
  /\ k \in expired /\ Room
  /\ expired' = expired \ {k}
  /\ RemoveFromRegistry({k}) /\ AskDelete("evict", {k}, {})
  /\ UNCHANGED <<deletedKeys, queue, acquiring, table, ends>>

-----------------------------------------------------------------------------
(* flush-cache-keys, and the storage worker's answers                      *)

\* onFlushCacheKeys awaits a call.
Flushing == \E i \in DOMAIN calls : calls[i].kind \in {"delete", "save"}

Answers(kind) == calls # <<>> /\ Head(calls).kind = kind

DeleteRows(K) == table' = [k \in Key |-> IF k \in K THEN Absent ELSE table[k]]

\* Mutant: the dirty set is emptied before the deletions are awaited.
RunFlushClears ==
  /\ gate = "open" /\ queued /\ ~Flushing
  /\ queued' = FALSE /\ flushPending' = FALSE
  /\ AskDelete("delete", deletedKeys, {})
  /\ deletedKeys' = {} /\ dirty' = {}
  /\ UNCHANGED <<registry, children, holds, gate, waiting, table, ends>>

\* onFlushCacheKeys, up to its first await.
RunFlush ==
  /\ gate = "open" /\ queued /\ ~Flushing
  /\ queued' = FALSE /\ flushPending' = FALSE
  /\ AskDelete("delete", deletedKeys, {})
  /\ deletedKeys' = {}
  /\ UNCHANGED <<registry, children, holds, dirty, gate, waiting, table, ends>>

\* Between its awaits: what is dirty by now is saved.
AnswerDelete ==
  /\ Answers("delete")
  /\ DeleteRows(Head(calls).keys)
  /\ calls' = Append(Tail(calls), [Head(calls) EXCEPT !.kind = "save", !.rows = registry,
                                                     !.keys = dirty \cap registered])
  /\ dirty' = {}
  /\ UNCHANGED <<registry, children, holds, deletedKeys, queue, waiting, ends>>

AnswerSave ==
  /\ Answers("save")
  /\ table' = [k \in Key |-> IF k \in Head(calls).keys THEN Head(calls).rows[k] ELSE table[k]]
  /\ calls' = Tail(calls)
  /\ UNCHANGED <<memory, queue, waiting, ends>>

\* deleteCacheKey of an eviction; then an acquireKey may go on.
AnswerEvict ==
  /\ Answers("evict")
  /\ DeleteRows(Head(calls).keys)
  /\ acquiring' = acquiring \cup Head(calls).next
  /\ calls' = Tail(calls)
  /\ UNCHANGED <<memory, queue, expired, ends>>

-----------------------------------------------------------------------------
(* Session reset and restart                                               *)

\* resetSession discards a queued flush, whose eviction handler lowers the flag.
BeginReset ==
  /\ gate = "open" /\ ends < MaxEnds
  /\ ends' = ends + 1
  /\ gate' = "draining"
  /\ flushPending' = (flushPending /\ ~queued) /\ queued' = FALSE
  /\ UNCHANGED <<memory, waiting, calls, table>>

\* onSessionDestroyed, up to the await of its delete.
OnSessionDestroyed ==
  /\ gate = "draining" /\ ~Flushing
  /\ gate' = "resetting"
  /\ registry' = NoRows /\ children' = {} /\ holds' = [k \in Key |-> {}]
  /\ dirty' = {} /\ deletedKeys' = {}
  /\ flushPending' = FALSE /\ UNCHANGED queued
  /\ AskDelete("wipe", registered, {})
  /\ UNCHANGED <<waiting, table, ends>>

AnswerWipe ==
  /\ Answers("wipe")
  /\ DeleteRows(Head(calls).keys)
  /\ calls' = Tail(calls)
  /\ gate' = "open"
  /\ UNCHANGED <<memory, flushPending, queued, waiting, ends>>

\* childrenByParent from the rows.
Index(rows) == {<<ParentOf[k], k>> : k \in {q \in Key : rows[q].present /\ ParentOf[q] # NoKey}}

\* The thread ends and a new one starts: initialize drops the ephemeral keys
\* and takes the registry from the other rows.
Restart ==
  /\ ends < MaxEnds
  /\ ends' = ends + 1
  /\ table' = [k \in Key |-> IF k \in Ephemeral THEN Absent ELSE table[k]]
  /\ registry' = table' /\ children' = Index(table')
  /\ holds' = [k \in Key |-> {}] /\ dirty' = {} /\ deletedKeys' = {}
  /\ flushPending' = FALSE /\ queued' = FALSE /\ gate' = "open"
  /\ acquiring' = {} /\ expired' = {} /\ calls' = <<>>

\* The hold and windowId options of a call.
HoldOptions(k) == {{}} \cup (IF k \in Holds THEN {{w} : w \in Window} ELSE {})

Next ==
  \/ \E k \in Key : \E ws \in HoldOptions(k) :
       AcquireExisting(k, ws) \/ AcquireNew(k, ws) \/ RegisterCacheKey(k, ws)
  \/ \E a \in acquiring : AcquireEnds(a)
  \/ \E k \in Holds, w \in Window : HoldForWindow(k, w) \/ ReleaseForWindow(k, w)
  \/ \E w \in Window : ReleaseAllForWindow(w)
  \/ \E k \in Key : Freeze(k) \/ Unfreeze(k) \/ Evict(k) \/ EvictExpired(k)
  \/ CollectExpired
  \/ RunFlush \/ AnswerDelete \/ AnswerSave \/ AnswerEvict \/ AnswerWipe
  \/ BeginReset \/ OnSessionDestroyed \/ Restart

Spec == Init /\ [][Next]_vars

-----------------------------------------------------------------------------
(* Properties                                                              *)

\* The shape of the state, and: only ephemeral keys wait for a deferred
\* deletion, and a flush is queued only while its flag is up.
TypeOK ==
  /\ registry \in [Key -> Registration] /\ table \in [Key -> Registration]
  /\ children \subseteq Key \X Key /\ holds \in [Key -> SUBSET Window]
  /\ dirty \subseteq Key /\ deletedKeys \subseteq Ephemeral
  /\ flushPending \in BOOLEAN /\ queued \in BOOLEAN /\ (queued => flushPending)
  /\ gate \in {"open", "draining", "resetting"}
  /\ acquiring \subseteq Acquire /\ expired \subseteq Expiring /\ calls \in Seq(Call)
  /\ ends \in 0..MaxEnds

\* A persistent key's row is what the registry says, or a change of it is on
\* its way: in the dirty set, or in a call that storage has yet to answer.  No
\* order of evictions, acquisitions, flushes, resets and restarts loses one.
TableFollows ==
  \A k \in Key \ Ephemeral :
    \/ table[k] = registry[k]
    \/ k \in dirty
    \/ \E i \in DOMAIN calls : k \in calls[i].keys

\* The hierarchy index names no key that has gone, and misses a registered one
\* only if its parent has gone before it, as removeFromRegistry allows where a
\* parent expires or is ephemeral.  So maybeEvict takes no other parent for a
\* leaf while a child of it is there, and a freeze of it reaches every child.
IndexFollows ==
  /\ children \subseteq Index(registry)
  /\ \A e \in Index(registry) \ children : e[1] \in Expiring \cup Ephemeral
=============================================================================
