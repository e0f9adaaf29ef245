------------------------------ MODULE KeysProofs ------------------------------
(***************************************************************************)
(* The cache_keys table follows the registry and the hierarchy index names *)
(* what is registered, for any set of keys, any hierarchy of them and any  *)
(* mix of policies.                                                        *)
(*                                                                         *)
(* A row is made of what the table holds and the calls that have yet to    *)
(* be answered; the invariant speaks of the row as the last of them will   *)
(* leave it.                                                               *)
(***************************************************************************)
EXTENDS CacheKeys, TLAPS, SequenceTheorems

-----------------------------------------------------------------------------
(* The invariant.                                                          *)

\* What a call makes of the row of a key it names.
Result(c, k) == IF c.kind = "save" THEN c.rows[k] ELSE Absent

Asking(cs, k) == {i \in DOMAIN cs : k \in cs[i].keys}

\* The row of k will be `reg` once every call of cs is answered.
Settled(cs, row, reg, k) ==
  \/ Asking(cs, k) = {} /\ row = reg
  \/ \E i \in Asking(cs, k) : /\ \A j \in Asking(cs, k) : j <= i
                              /\ Result(cs[i], k) = reg

RowsFollow ==
  \A k \in Key \ Ephemeral : k \in dirty \cap registered \/ Settled(calls, table[k], registry[k], k)

\* No trace of a key that is not there.
Clean(rows) == \A k \in Key : ~rows[k].present => rows[k] = Absent

AllClean == Clean(registry) /\ Clean(table) /\ \A i \in DOMAIN calls : Clean(calls[i].rows)

\* A flush deletes only what was ephemeral, and a reset has discarded it.
FlushesKnown ==
  /\ \A i \in DOMAIN calls : calls[i].kind = "delete" => calls[i].keys \subseteq Ephemeral
  /\ gate # "open" => ~queued

KeysInv == RowsFollow /\ AllClean /\ FlushesKnown /\ IndexFollows

-----------------------------------------------------------------------------
(* The row of a key, call by call.                                         *)

LEMMA AppendFacts ==
  ASSUME NEW S, NEW s \in Seq(S), NEW e \in S
  PROVE  /\ Append(s, e) \in Seq(S) /\ DOMAIN s = 1..Len(s) /\ Len(s) \in Nat
         /\ DOMAIN Append(s, e) = 1..(Len(s) + 1)
         /\ \A i \in 1..Len(s) : Append(s, e)[i] = s[i]
         /\ Append(s, e)[Len(s) + 1] = e
OBVIOUS

LEMMA TailFacts ==
  ASSUME NEW S, NEW s \in Seq(S), s # <<>>
  PROVE  /\ Tail(s) \in Seq(S) /\ DOMAIN s = 1..Len(s) /\ Len(s) \in Nat \ {0}
         /\ DOMAIN Tail(s) = 1..(Len(s) - 1)
         /\ \A i \in 1..(Len(s) - 1) : Tail(s)[i] = s[i + 1]
         /\ Head(s) = s[1] /\ Head(s) \in S
BY HeadTailProperties, LenProperties, EmptySeq

\* A call that does not name the key.
LEMMA SettledBeside ==
  ASSUME NEW cs \in Seq(Call), NEW c \in Call, NEW k, NEW row, NEW reg,
         k \notin c.keys, Settled(cs, row, reg, k)
  PROVE  Settled(Append(cs, c), row, reg, k)
<1>1. /\ DOMAIN cs = 1..Len(cs) /\ Len(cs) \in Nat
      /\ DOMAIN Append(cs, c) = 1..(Len(cs) + 1)
      /\ \A i \in 1..Len(cs) : Append(cs, c)[i] = cs[i]
      /\ Append(cs, c)[Len(cs) + 1] = c
  BY AppendFacts
<1>2. Asking(Append(cs, c), k) = Asking(cs, k)
  <2>1. ASSUME NEW i \in 1..(Len(cs) + 1)
        PROVE  k \in Append(cs, c)[i].keys <=> i \in 1..Len(cs) /\ k \in cs[i].keys
    <3>1. i \in 1..Len(cs) \/ i = Len(cs) + 1
      BY <1>1
    <3>2. CASE i \in 1..Len(cs)
      BY <1>1, <3>2
    <3>3. CASE i = Len(cs) + 1
      BY <1>1, <3>3
    <3>. QED
      BY <3>1, <3>2, <3>3
  <2>2. 1..Len(cs) \subseteq 1..(Len(cs) + 1)
    BY <1>1
  <2>. QED
    BY <1>1, <2>1, <2>2 DEF Asking
<1>3. \A i \in Asking(cs, k) : Append(cs, c)[i] = cs[i]
  BY <1>1 DEF Asking
<1>. QED
  BY <1>2, <1>3 DEF Settled

\* A call that names the key is the last one.
LEMMA SettledBy ==
  ASSUME NEW cs \in Seq(Call), NEW c \in Call, NEW k, NEW row, NEW reg,
         k \in c.keys, Result(c, k) = reg
  PROVE  Settled(Append(cs, c), row, reg, k)
<1>1. /\ Len(cs) \in Nat
      /\ DOMAIN Append(cs, c) = 1..(Len(cs) + 1)
      /\ Append(cs, c)[Len(cs) + 1] = c
  BY AppendFacts
<1>2. Len(cs) + 1 \in Asking(Append(cs, c), k) /\ \A j \in Asking(Append(cs, c), k) : j <= Len(cs) + 1
  BY <1>1 DEF Asking
<1>. QED
  BY <1>1, <1>2 DEF Settled

Written(c, row, k) == IF k \in c.keys THEN Result(c, k) ELSE row

\* The first call is answered.
LEMMA SettledAnswered ==
  ASSUME NEW cs \in Seq(Call), cs # <<>>, NEW k, NEW row, NEW reg, Settled(cs, row, reg, k)
  PROVE  Settled(Tail(cs), Written(Head(cs), row, k), reg, k)
<1>1. /\ DOMAIN cs = 1..Len(cs) /\ Len(cs) \in Nat \ {0}
      /\ DOMAIN Tail(cs) = 1..(Len(cs) - 1)
      /\ \A i \in 1..(Len(cs) - 1) : Tail(cs)[i] = cs[i + 1]
      /\ Head(cs) = cs[1]
  BY TailFacts
<1>2. \A i \in Asking(Tail(cs), k) : i \in Nat /\ i + 1 \in Asking(cs, k)
  BY <1>1 DEF Asking
<1>3. ASSUME NEW i \in Asking(cs, k), i # 1
      PROVE  i \in Nat /\ i - 1 \in Asking(Tail(cs), k) /\ Tail(cs)[i - 1] = cs[i]
  <2>1. i - 1 \in 1..(Len(cs) - 1) /\ (i - 1) + 1 = i /\ i \in Nat
    BY <1>1, <1>3 DEF Asking
  <2>. QED
    BY <1>1, <2>1, <1>3 DEF Asking
<1>4. CASE Asking(cs, k) = {} /\ row = reg
  <2>1. Asking(Tail(cs), k) = {} /\ k \notin Head(cs).keys
    BY <1>1, <1>2, <1>4 DEF Asking
  <2>. QED
    BY <1>4, <2>1 DEF Settled, Written
<1>5. ASSUME NEW i \in Asking(cs, k), \A j \in Asking(cs, k) : j <= i, Result(cs[i], k) = reg
      PROVE  Settled(Tail(cs), Written(Head(cs), row, k), reg, k)
  <2>1. CASE i = 1
    <3>1. Asking(Tail(cs), k) = {}
      <4>1. ASSUME NEW j \in Asking(Tail(cs), k)
            PROVE  FALSE
        <5>1. j \in 1..(Len(cs) - 1) /\ j + 1 <= 1
          BY <1>1, <1>2, <1>5, <2>1, <4>1 DEF Asking
        <5>. QED
          BY <1>1, <5>1
      <4>. QED
        BY <4>1
    <3>2. Written(Head(cs), row, k) = reg
      BY <1>1, <1>5, <2>1 DEF Asking, Written
    <3>. QED
      BY <3>1, <3>2 DEF Settled
  <2>2. CASE i # 1
    <3>1. i \in Nat /\ i - 1 \in Asking(Tail(cs), k) /\ Tail(cs)[i - 1] = cs[i]
      BY <1>3, <2>2
    <3>2. \A j \in Asking(Tail(cs), k) : j <= i - 1
      BY <1>2, <1>5, <3>1
    <3>. QED
      BY <1>5, <3>1, <3>2 DEF Settled
  <2>. QED
    BY <2>1, <2>2
<1>. QED
  BY <1>4, <1>5 DEF Settled

-----------------------------------------------------------------------------
(* Facts that every step needs.                                            *)

LEMMA Constants ==
  /\ NoKey \notin Key /\ \A k \in Key : ParentOf[k] \in Key \/ ParentOf[k] = NoKey
  /\ Ephemeral \subseteq Key /\ Expiring \subseteq Key /\ Holds \subseteq Key
  /\ MaxEnds \in Nat
BY KeyAssumption, BoundsAssumption

LEMMA RowValues ==
  /\ Absent \in Registration /\ ~Absent.present
  /\ Fresh \in Registration /\ Fresh.present
  /\ NoRows \in [Key -> Registration] /\ \A k \in Key : NoRows[k] = Absent
  /\ Clean(NoRows)
BY DEF Absent, Fresh, Registration, NoRows, Clean

\* The index, edge by edge.
LEMMA Edges ==
  ASSUME NEW rows
  PROVE  /\ \A e \in Index(rows) : /\ e[2] \in Key /\ rows[e[2]].present /\ e[1] = ParentOf[e[2]]
                                   /\ e[1] # NoKey /\ e = <<e[1], e[2]>>
         /\ \A k \in Key : rows[k].present /\ ParentOf[k] # NoKey => <<ParentOf[k], k>> \in Index(rows)
BY DEF Index

LEMMA ScheduleFlushFacts ==
  ASSUME TypeOK, FlushesKnown, ScheduleFlush, gate' = gate
  PROVE  /\ flushPending' \in BOOLEAN /\ queued' \in BOOLEAN /\ (queued' => flushPending')
         /\ gate # "open" => ~queued'
BY DEF TypeOK, FlushesKnown, ScheduleFlush

\* Steps that ask storage nothing: a key of the registry that changes is dirty.
LEMMA RowsFollowMemory ==
  ASSUME RowsFollow, calls' = calls, table' = table,
         \A k \in Key \ Ephemeral :
           /\ k \in dirty \cap registered => k \in (dirty \cap registered)'
           /\ registry'[k] = registry[k] \/ k \in (dirty \cap registered)'
  PROVE  RowsFollow'
BY DEF RowsFollow

\* Steps that ask for the deletion of keys that are gone then.
LEMMA RowsFollowDelete ==
  ASSUME TypeOK, RowsFollow, table' = table, NEW c \in Call, calls' = Append(calls, c), c.kind # "save",
         \A k \in Key \ Ephemeral :
           IF k \in c.keys THEN registry'[k] = Absent
           ELSE /\ registry'[k] = registry[k]
                /\ k \in dirty \cap registered => k \in (dirty \cap registered)'
  PROVE  RowsFollow'
<1>1. calls \in Seq(Call)
  BY DEF TypeOK
<1>2. ASSUME NEW k \in Key \ Ephemeral
      PROVE  k \in (dirty \cap registered)' \/ Settled(calls', table'[k], registry'[k], k)
  <2>1. CASE k \in c.keys
    <3>1. Result(c, k) = registry'[k]
      BY <2>1 DEF Result
    <3>. QED
      BY <1>1, <2>1, <3>1, SettledBy
  <2>2. CASE k \notin c.keys
    <3>1. k \in dirty \cap registered \/ Settled(calls, table[k], registry[k], k)
      BY DEF RowsFollow
    <3>2. registry'[k] = registry[k] /\ (k \in dirty \cap registered => k \in (dirty \cap registered)')
      BY <2>2
    <3>3. Settled(calls, table[k], registry[k], k) => Settled(Append(calls, c), table[k], registry[k], k)
      BY <1>1, <2>2, SettledBeside
    <3>. QED
      BY <3>1, <3>2, <3>3
  <2>. QED
    BY <2>1, <2>2
<1>. QED
  BY <1>2 DEF RowsFollow

\* The first call is answered, and memory stays as it is.
LEMMA RowsFollowAnswer ==
  ASSUME TypeOK, RowsFollow, calls # <<>>, calls' = Tail(calls), registry' = registry, dirty' = dirty,
         \A k \in Key : table'[k] = Written(Head(calls), table[k], k)
  PROVE  RowsFollow'
<1>1. calls \in Seq(Call)
  BY DEF TypeOK
<1>2. ASSUME NEW k \in Key \ Ephemeral, Settled(calls, table[k], registry[k], k)
      PROVE  Settled(calls', table'[k], registry[k], k)
  BY <1>1, <1>2, SettledAnswered
<1>3. registered' = registered
  BY DEF registered
<1>. QED
  BY <1>2, <1>3 DEF RowsFollow

\* The calls of the state, and one more.
LEMMA OneCallMore ==
  ASSUME TypeOK, AllClean, FlushesKnown, NEW c \in Call, calls' = Append(calls, c), Clean(c.rows),
         c.kind = "delete" => c.keys \subseteq Ephemeral
  PROVE  /\ calls' \in Seq(Call)
         /\ \A i \in DOMAIN calls' : Clean(calls'[i].rows)
         /\ \A i \in DOMAIN calls' : calls'[i].kind = "delete" => calls'[i].keys \subseteq Ephemeral
<1>1. calls \in Seq(Call)
  BY DEF TypeOK
<1>2. /\ calls' \in Seq(Call) /\ DOMAIN calls = 1..Len(calls) /\ Len(calls) \in Nat
      /\ DOMAIN calls' = 1..(Len(calls) + 1)
      /\ \A i \in 1..Len(calls) : calls'[i] = calls[i]
      /\ calls'[Len(calls) + 1] = c
  BY <1>1, AppendFacts
<1>3. ASSUME NEW i \in DOMAIN calls'
      PROVE  calls'[i] = c \/ (i \in DOMAIN calls /\ calls'[i] = calls[i])
  <2>1. i \in 1..Len(calls) \/ i = Len(calls) + 1
    BY <1>2
  <2>. QED
    BY <1>2, <2>1
<1>. QED
  BY <1>2, <1>3 DEF AllClean, FlushesKnown

\* ... and one less.
LEMMA OneCallLess ==
  ASSUME TypeOK, AllClean, FlushesKnown, calls # <<>>, calls' = Tail(calls)
  PROVE  /\ calls' \in Seq(Call) /\ Head(calls) \in Call /\ Clean(Head(calls).rows)
         /\ \A i \in DOMAIN calls' : Clean(calls'[i].rows)
         /\ \A i \in DOMAIN calls' : calls'[i].kind = "delete" => calls'[i].keys \subseteq Ephemeral
<1>1. calls \in Seq(Call)
  BY DEF TypeOK
<1>2. /\ calls' \in Seq(Call) /\ DOMAIN calls = 1..Len(calls) /\ Len(calls) \in Nat \ {0}
      /\ DOMAIN calls' = 1..(Len(calls) - 1)
      /\ \A i \in 1..(Len(calls) - 1) : calls'[i] = calls[i + 1]
      /\ Head(calls) = calls[1] /\ Head(calls) \in Call
  BY <1>1, TailFacts
<1>3. \A i \in DOMAIN calls' : i + 1 \in DOMAIN calls /\ calls'[i] = calls[i + 1]
  BY <1>2
<1>4. 1 \in DOMAIN calls
  BY <1>2
<1>. QED
  BY <1>2, <1>3, <1>4 DEF AllClean, FlushesKnown

-----------------------------------------------------------------------------
(* Acquire, hold, release, freeze: steps in memory alone.                  *)

LEMMA FromMemory ==
  ASSUME TypeOK, KeysInv, ScheduleFlush, UNCHANGED <<gate, calls, table, ends, expired>>,
         acquiring' \subseteq Acquire, registry' \in [Key -> Registration], children' \subseteq Key \X Key,
         holds' \in [Key -> SUBSET Window], dirty' \subseteq Key, deletedKeys' \subseteq Ephemeral,
         Clean(registry'), IndexFollows',
         \A k \in Key \ Ephemeral :
           /\ k \in dirty \cap registered => k \in (dirty \cap registered)'
           /\ registry'[k] = registry[k] \/ k \in (dirty \cap registered)'
  PROVE  TypeOK' /\ KeysInv'
<1>1. RowsFollow /\ AllClean /\ FlushesKnown
  BY DEF KeysInv
<1>2. /\ flushPending' \in BOOLEAN /\ queued' \in BOOLEAN /\ (queued' => flushPending')
      /\ gate # "open" => ~queued'
  BY <1>1, ScheduleFlushFacts
<1>3. TypeOK'
  BY <1>2 DEF TypeOK
<1>4. RowsFollow'
  BY <1>1, RowsFollowMemory
<1>5. AllClean' /\ FlushesKnown'
  BY <1>1, <1>2 DEF AllClean, FlushesKnown
<1>. QED
  BY <1>3, <1>4, <1>5 DEF KeysInv

LEMMA HoldsAdded ==
  ASSUME TypeOK, NEW k \in Key, NEW ws \in SUBSET Window, AddHolds(k, ws)
  PROVE  holds' \in [Key -> SUBSET Window]
BY DEF TypeOK, AddHolds

LEMMA SameIndex ==
  ASSUME IndexFollows, registry' = registry, children' = children
  PROVE  IndexFollows'
BY DEF IndexFollows, Index

LEMMA KeptByAcquireExisting ==
  ASSUME TypeOK, KeysInv, NEW k \in Key, NEW ws \in SUBSET Window, AcquireExisting(k, ws)
  PROVE  TypeOK' /\ KeysInv'
<1>1. /\ ScheduleFlush /\ UNCHANGED <<gate, calls, table, ends, expired>> /\ acquiring' = acquiring
      /\ registry' = registry /\ children' = children /\ dirty' = dirty \cup {k} /\ deletedKeys' = deletedKeys
      /\ AddHolds(k, ws)
  BY DEF AcquireExisting, waiting
<1>2. /\ acquiring' \subseteq Acquire /\ registry' \in [Key -> Registration] /\ children' \subseteq Key \X Key
      /\ dirty' \subseteq Key /\ deletedKeys' \subseteq Ephemeral
  BY <1>1 DEF TypeOK
<1>3. Clean(registry') /\ IndexFollows'
  BY <1>1, SameIndex DEF KeysInv, AllClean
<1>4. registered' = registered
  BY <1>1 DEF registered
<1>. QED
  BY <1>1, <1>2, <1>3, <1>4, HoldsAdded, FromMemory

LEMMA KeptByHold ==
  ASSUME TypeOK, KeysInv, NEW k \in Key, NEW w \in Window, HoldForWindow(k, w)
  PROVE  TypeOK' /\ KeysInv'
<1>1. /\ ScheduleFlush /\ UNCHANGED <<gate, calls, table, ends, expired>> /\ acquiring' = acquiring
      /\ registry' = registry /\ children' = children /\ dirty' = dirty \cup {k} /\ deletedKeys' = deletedKeys
      /\ AddHolds(k, {w})
  BY DEF HoldForWindow, waiting
<1>2. /\ acquiring' \subseteq Acquire /\ registry' \in [Key -> Registration] /\ children' \subseteq Key \X Key
      /\ dirty' \subseteq Key /\ deletedKeys' \subseteq Ephemeral /\ {w} \in SUBSET Window
  BY <1>1 DEF TypeOK
<1>3. Clean(registry') /\ IndexFollows'
  BY <1>1, SameIndex DEF KeysInv, AllClean
<1>4. registered' = registered
  BY <1>1 DEF registered
<1>5. holds' \in [Key -> SUBSET Window]
  BY <1>1, <1>2, HoldsAdded
<1>. QED
  BY <1>1, <1>2, <1>3, <1>4, <1>5, FromMemory

LEMMA KeptByAddRegistration ==
  ASSUME TypeOK, KeysInv, NEW k \in Key, NEW ws \in SUBSET Window, AddRegistration(k, ws),
         UNCHANGED <<gate, calls, table, ends, expired>>, acquiring' \subseteq Acquire
  PROVE  TypeOK' /\ KeysInv'
<1>1. /\ ScheduleFlush /\ registry' = [registry EXCEPT ![k] = Fresh]
      /\ children' = children \cup {<<q, k>> : q \in {ParentOf[k]} \ {NoKey}}
      /\ AddHolds(k, ws) /\ dirty' = dirty \cup {k} /\ deletedKeys' = deletedKeys
  BY DEF AddRegistration
<1>2. /\ registry \in [Key -> Registration] /\ children \subseteq Key \X Key /\ dirty \subseteq Key
      /\ deletedKeys \subseteq Ephemeral
  BY DEF TypeOK
<1>3. /\ registry' \in [Key -> Registration] /\ registry'[k] = Fresh
      /\ \A q \in Key \ {k} : registry'[q] = registry[q]
  BY <1>1, <1>2, RowValues
<1>4. {<<q, k>> : q \in {ParentOf[k]} \ {NoKey}} \subseteq Key \X Key
  BY Constants
<1>5. Clean(registry')
  BY <1>3, RowValues DEF KeysInv, AllClean, Clean
<1>6. IndexFollows'
  <2>1. \A e \in Index(registry') : e \in Index(registry) \/ (e = <<ParentOf[k], k>> /\ ParentOf[k] # NoKey)
    BY <1>3, Edges
  <2>2. \A e \in Index(registry) : e \in Index(registry')
    <3>1. ASSUME NEW e \in Index(registry)
          PROVE  e \in Index(registry')
      <4>1. /\ e[2] \in Key /\ registry[e[2]].present /\ e[1] = ParentOf[e[2]]
            /\ e[1] # NoKey /\ e = <<e[1], e[2]>>
        BY Edges
      <4>2. registry'[e[2]].present
        BY <1>3, <4>1, RowValues
      <4>3. <<ParentOf[e[2]], e[2]>> \in Index(registry')
        BY <4>1, <4>2, Edges
      <4>. QED
        BY <4>1, <4>3
    <3>. QED
      BY <3>1
  <2>3. ParentOf[k] # NoKey => <<ParentOf[k], k>> \in Index(registry')
    BY <1>3, Edges, RowValues
  <2>4. ParentOf[k] # NoKey => <<ParentOf[k], k>> \in children'
    BY <1>1
  <2>5. \A e \in children' : e \in children \/ (e = <<ParentOf[k], k>> /\ ParentOf[k] # NoKey)
    BY <1>1
  <2>6. children \subseteq children'
    BY <1>1
  <2>. QED
    BY <2>1, <2>2, <2>3, <2>4, <2>5, <2>6 DEF KeysInv, IndexFollows
<1>7. \A q \in Key \ Ephemeral :
        /\ q \in dirty \cap registered => q \in (dirty \cap registered)'
        /\ registry'[q] = registry[q] \/ q \in (dirty \cap registered)'
  <2>1. k \in registered' /\ registered \subseteq registered'
    BY <1>3, RowValues DEF registered
  <2>. QED
    BY <1>1, <1>3, <2>1
<1>8. children' \subseteq Key \X Key /\ dirty' \subseteq Key
  BY <1>1, <1>2, <1>4
<1>. QED
  BY <1>1, <1>2, <1>3, <1>5, <1>6, <1>7, <1>8, HoldsAdded, FromMemory

\* Keys that leave the registry and the index.
LEMMA Gone ==
  ASSUME TypeOK, AllClean, IndexFollows, NEW gone \in SUBSET registered,
         registry' = [k \in Key |-> IF k \in gone THEN Absent ELSE registry[k]],
         children' = {e \in children : e[1] \notin gone /\ e[2] \notin gone},
         \A k \in gone : Leaf(k) \/ k \in Expiring \cup Ephemeral
  PROVE  /\ registry' \in [Key -> Registration] /\ children' \subseteq Key \X Key
         /\ Clean(registry') /\ IndexFollows' /\ registered' = registered \ gone
         /\ \A k \in Key \ gone : registry'[k] = registry[k]
<1>1. /\ registry \in [Key -> Registration] /\ children \subseteq Key \X Key /\ Clean(registry)
      /\ gone \subseteq Key
  BY DEF TypeOK, AllClean, registered
<1>2. /\ registry' \in [Key -> Registration] /\ \A k \in Key \ gone : registry'[k] = registry[k]
      /\ \A k \in gone : registry'[k] = Absent
  BY <1>1, RowValues
<1>3. Clean(registry')
  BY <1>1, <1>2 DEF Clean
<1>4. registered' = registered \ gone
  BY <1>1, <1>2, RowValues DEF registered
<1>5. IndexFollows'
  <2>1. ASSUME NEW e \in children'
        PROVE  e \in Index(registry')
    <3>1. e \in Index(registry) /\ e[2] \notin gone
      BY <2>1 DEF IndexFollows
    <3>2. /\ e[2] \in Key /\ registry[e[2]].present /\ e[1] = ParentOf[e[2]]
          /\ e[1] # NoKey /\ e = <<e[1], e[2]>>
      BY <3>1, Edges
    <3>3. registry'[e[2]].present
      BY <1>2, <3>1, <3>2
    <3>4. <<ParentOf[e[2]], e[2]>> \in Index(registry')
      BY <3>2, <3>3, Edges
    <3>. QED
      BY <3>2, <3>4
  <2>2. ASSUME NEW e \in Index(registry') \ children'
        PROVE  e[1] \in Expiring \cup Ephemeral
    <3>1. /\ e[2] \in Key /\ registry'[e[2]].present /\ e[1] = ParentOf[e[2]]
          /\ e[1] # NoKey /\ e = <<e[1], e[2]>>
      BY <2>2, Edges
    <3>2. e[2] \notin gone /\ registry[e[2]].present
      BY <1>2, <3>1, RowValues
    <3>3. e \in Index(registry)
      <4>1. <<ParentOf[e[2]], e[2]>> \in Index(registry)
        BY <3>1, <3>2, Edges
      <4>. QED
        BY <3>1, <4>1
    <3>4. CASE e \in children
      <4>1. e[1] \in gone
        BY <2>2, <3>2, <3>4
      <4>2. ~Leaf(e[1])
        BY <3>4 DEF Leaf
      <4>. QED
        BY <4>1, <4>2
    <3>5. CASE e \notin children
      BY <3>3, <3>5 DEF IndexFollows
    <3>. QED
      BY <3>4, <3>5
  <2>. QED
    BY <2>1, <2>2 DEF IndexFollows
<1>6. children' \subseteq Key \X Key
  BY <1>1
<1>. QED
  BY <1>2, <1>3, <1>4, <1>5, <1>6

LEMMA KeptByRelease ==
  ASSUME TypeOK, KeysInv, NEW K \in SUBSET Key, NEW w \in Window, Release(K, w)
  PROVE  TypeOK' /\ KeysInv'
<1> DEFINE released == {k \in K : w \in holds[k]}
           gone == {k \in released \cap Ephemeral \cap registered : holds[k] = {w}}
<1>1. /\ ScheduleFlush /\ UNCHANGED <<gate, calls, table, ends, expired>> /\ acquiring' = acquiring
      /\ registry' = [k \in Key |-> IF k \in gone THEN Absent ELSE registry[k]]
      /\ children' = {e \in children : e[1] \notin gone /\ e[2] \notin gone}
      /\ holds' = [k \in Key |-> IF k \in released THEN holds[k] \ {w} ELSE holds[k]]
      /\ dirty' = (dirty \cup released) \ gone
      /\ deletedKeys' = deletedKeys \cup gone
  BY DEF Release, waiting
<1>2. released \subseteq Key /\ gone \subseteq Ephemeral \cap registered
  OBVIOUS
<1> HIDE DEF released, gone
<1>3. /\ registry' \in [Key -> Registration] /\ children' \subseteq Key \X Key
      /\ Clean(registry') /\ IndexFollows' /\ registered' = registered \ gone
      /\ \A k \in Key \ gone : registry'[k] = registry[k]
  <2>1. AllClean /\ IndexFollows /\ gone \in SUBSET registered
        /\ \A k \in gone : Leaf(k) \/ k \in Expiring \cup Ephemeral
    BY <1>2 DEF KeysInv
  <2>. QED
    BY <1>1, <2>1, Gone
<1>4. /\ acquiring' \subseteq Acquire /\ dirty' \subseteq Key /\ deletedKeys' \subseteq Ephemeral
      /\ holds' \in [Key -> SUBSET Window]
  BY <1>1, <1>2 DEF TypeOK
<1>5. \A k \in Key \ Ephemeral :
        /\ k \in dirty \cap registered => k \in (dirty \cap registered)'
        /\ registry'[k] = registry[k] \/ k \in (dirty \cap registered)'
  BY <1>1, <1>2, <1>3
<1>. QED
  BY <1>1, <1>3, <1>4, <1>5, FromMemory

LEMMA KeptBySetFrozen ==
  ASSUME TypeOK, KeysInv, NEW k \in registered, NEW frozen \in BOOLEAN, SetFrozen(k, frozen)
  PROVE  TypeOK' /\ KeysInv'
<1> DEFINE rows == [registry EXCEPT ![k].frozen = frozen]
           inherits(q) == frozen \/ FrozenAbove(q, rows)
<1>1. /\ ScheduleFlush /\ UNCHANGED <<gate, calls, table, ends, expired>> /\ acquiring' = acquiring
      /\ registry' = [q \in Key |-> IF q \in Heirs(k) THEN [rows[q] EXCEPT !.inherited = inherits(q)]
                                   ELSE rows[q]]
      /\ dirty' = dirty \cup {k} \cup {q \in Key : registry'[q] # registry[q]}
      /\ children' = children /\ holds' = holds /\ deletedKeys' = deletedKeys
  BY DEF SetFrozen, waiting
<1>2. Heirs(k) \subseteq registered
  BY DEF Heirs
<1>3. \A q \in Key : inherits(q) \in BOOLEAN
  BY DEF FrozenAbove
<1>4. registry \in [Key -> Registration] /\ k \in Key /\ registered \subseteq Key
  BY DEF TypeOK, registered
<1>5. /\ rows \in [Key -> Registration]
      /\ \A q \in Key : rows[q].present = registry[q].present
      /\ \A q \in Key \ {k} : rows[q] = registry[q]
  BY <1>4 DEF Registration
<1> HIDE DEF rows, inherits
<1>6. ASSUME NEW q \in Key
      PROVE  /\ registry'[q] \in Registration /\ registry'[q].present = registry[q].present
             /\ registry'[q] # registry[q] => q \in registered
  <2>1. rows[q] \in Registration
    BY <1>5
  <2>2. CASE q \in Heirs(k)
    <3>1. registry'[q] = [rows[q] EXCEPT !.inherited = inherits(q)]
      BY <1>1, <2>2
    <3>2. registry'[q] \in Registration /\ registry'[q].present = rows[q].present
      BY <1>3, <2>1, <3>1 DEF Registration
    <3>. QED
      BY <1>2, <1>5, <2>2, <3>2
  <2>3. CASE q \notin Heirs(k)
    BY <1>1, <1>5, <2>1, <2>3
  <2>. QED
    BY <2>2, <2>3
<1>7. registry' \in [Key -> Registration]
  BY <1>1, <1>6
<1>8. registered' = registered
  BY <1>6 DEF registered
<1>9. Clean(registry')
  <2>1. ASSUME NEW q \in Key, ~registry'[q].present
        PROVE  registry'[q] = Absent
    <3>1. ~registry[q].present /\ registry'[q] = registry[q]
      BY <1>6, <2>1 DEF registered
    <3>. QED
      BY <3>1 DEF KeysInv, AllClean, Clean
  <2>. QED
    BY <2>1 DEF Clean
<1>10. IndexFollows'
  <2>1. Index(registry') = Index(registry)
    BY <1>6 DEF Index
  <2>. QED
    BY <1>1, <2>1 DEF KeysInv, IndexFollows
<1>11. /\ acquiring' \subseteq Acquire /\ children' \subseteq Key \X Key
       /\ holds' \in [Key -> SUBSET Window] /\ dirty' \subseteq Key /\ deletedKeys' \subseteq Ephemeral
  BY <1>1, <1>4 DEF TypeOK
<1>12. \A q \in Key \ Ephemeral :
         /\ q \in dirty \cap registered => q \in (dirty \cap registered)'
         /\ registry'[q] = registry[q] \/ q \in (dirty \cap registered)'
  BY <1>1, <1>6, <1>8
<1>. QED
  BY <1>1, <1>7, <1>9, <1>10, <1>11, <1>12, FromMemory

-----------------------------------------------------------------------------
(* Evictions: a key leaves the registry, and storage is asked for its row. *)

LEMMA KeptByEviction ==
  ASSUME TypeOK, KeysInv, NEW k \in Key, NEW next \in SUBSET Acquire,
         RemoveFromRegistry({k}), AskDelete("evict", {k}, next), Leaf(k) \/ k \in Expiring,
         UNCHANGED <<deletedKeys, queue, table, ends>>, acquiring' \subseteq Acquire, expired' \subseteq Expiring
  PROVE  TypeOK' /\ KeysInv'
<1> DEFINE gone == {k} \cap registered
           c == [kind |-> "evict", keys |-> {k}, next |-> next, rows |-> NoRows]
<1>0. RowsFollow /\ AllClean /\ FlushesKnown /\ IndexFollows
  BY DEF KeysInv
<1>1. /\ registry' = [q \in Key |-> IF q \in gone THEN Absent ELSE registry[q]]
      /\ holds' = [q \in Key |-> IF q \in gone THEN {} ELSE holds[q]]
      /\ dirty' = dirty \ gone
      /\ children' = {e \in children : e[1] \notin gone /\ e[2] \notin gone}
  BY DEF RemoveFromRegistry
<1>2. /\ deletedKeys' = deletedKeys /\ flushPending' = flushPending /\ queued' = queued /\ gate' = gate
      /\ table' = table /\ ends' = ends /\ calls' = Append(calls, c)
  BY DEF queue, AskDelete, Ask
<1>3. c \in Call /\ c.kind = "evict" /\ c.keys = {k} /\ Clean(c.rows)
  BY RowValues DEF Call
<1>4. gone \in SUBSET registered /\ \A q \in gone : Leaf(q) \/ q \in Expiring \cup Ephemeral
  OBVIOUS
<1> HIDE DEF c
<1>5. /\ registry' \in [Key -> Registration] /\ children' \subseteq Key \X Key
      /\ Clean(registry') /\ IndexFollows' /\ registered' = registered \ gone
      /\ \A q \in Key \ gone : registry'[q] = registry[q]
  BY <1>0, <1>1, <1>4, Gone
<1>6. /\ calls' \in Seq(Call)
      /\ \A i \in DOMAIN calls' : Clean(calls'[i].rows)
      /\ \A i \in DOMAIN calls' : calls'[i].kind = "delete" => calls'[i].keys \subseteq Ephemeral
  BY <1>0, <1>2, <1>3, OneCallMore
<1>7. registry'[k] = Absent
  <2>1. CASE k \in registered
    BY <1>1, <2>1
  <2>2. CASE k \notin registered
    BY <1>0, <1>5, <2>2 DEF AllClean, Clean, registered
  <2>. QED
    BY <2>1, <2>2
<1>8. RowsFollow'
  <2>1. ASSUME NEW q \in Key \ Ephemeral
        PROVE  IF q \in c.keys THEN registry'[q] = Absent
               ELSE /\ registry'[q] = registry[q]
                    /\ q \in dirty \cap registered => q \in (dirty \cap registered)'
    <3>1. CASE q = k
      BY <1>3, <1>7, <3>1
    <3>2. CASE q # k
      BY <1>1, <1>3, <1>5, <3>2
    <3>. QED
      BY <3>1, <3>2
  <2>. QED
    BY <1>0, <1>2, <1>3, <2>1, RowsFollowDelete
<1>9. TypeOK'
  <2>1. holds' \in [Key -> SUBSET Window]
    BY <1>1 DEF TypeOK
  <2>. QED
    BY <1>1, <1>2, <1>5, <1>6, <2>1 DEF TypeOK
<1>10. AllClean' /\ FlushesKnown'
  BY <1>0, <1>2, <1>5, <1>6 DEF AllClean, FlushesKnown
<1>. QED
  BY <1>5, <1>8, <1>9, <1>10 DEF KeysInv

LEMMA KeptByEvict ==
  ASSUME TypeOK, KeysInv, NEW k \in Key, Evict(k)
  PROVE  TypeOK' /\ KeysInv'
<1>1. acquiring' \subseteq Acquire /\ expired' \subseteq Expiring /\ {} \in SUBSET Acquire
  BY DEF Evict, TypeOK, waiting
<1>. QED
  BY <1>1, KeptByEviction DEF Evict, Evictable

LEMMA KeptByEvictExpired ==
  ASSUME TypeOK, KeysInv, NEW k \in Key, EvictExpired(k)
  PROVE  TypeOK' /\ KeysInv'
<1>1. acquiring' \subseteq Acquire /\ expired' \subseteq Expiring /\ {} \in SUBSET Acquire /\ k \in Expiring
  BY DEF EvictExpired, TypeOK
<1>. QED
  BY <1>1, KeptByEviction DEF EvictExpired

\* Nothing but what waits changes.
LEMMA KeptByWaiting ==
  ASSUME TypeOK, KeysInv, UNCHANGED <<memory, queue, calls, table, ends>>,
         acquiring' \subseteq Acquire, expired' \subseteq Expiring
  PROVE  TypeOK' /\ KeysInv'
<1>1. /\ registry' = registry /\ children' = children /\ holds' = holds /\ dirty' = dirty
      /\ deletedKeys' = deletedKeys /\ flushPending' = flushPending /\ queued' = queued /\ gate' = gate
      /\ calls' = calls /\ table' = table /\ ends' = ends
  BY DEF memory, queue
<1>2. TypeOK'
  BY <1>1 DEF TypeOK
<1>3. IndexFollows'
  BY <1>1, SameIndex DEF KeysInv
<1>4. registered' = registered
  BY <1>1 DEF registered
<1>5. RowsFollow' /\ AllClean' /\ FlushesKnown'
  BY <1>1, <1>4 DEF KeysInv, RowsFollow, AllClean, FlushesKnown
<1>. QED
  BY <1>2, <1>3, <1>5 DEF KeysInv

LEMMA KeptByAcquireNew ==
  ASSUME TypeOK, KeysInv, NEW k \in Key, NEW ws \in SUBSET Window, AcquireNew(k, ws)
  PROVE  TypeOK' /\ KeysInv'
<1> DEFINE next == [key |-> k, holders |-> ws]
<1>1. next \in Acquire
  BY DEF Acquire
<1>2. UNCHANGED <<queue, expired, table, ends>>
  BY DEF AcquireNew
<1>3. \/ acquiring' = acquiring \cup {next} /\ UNCHANGED <<memory, calls>>
      \/ \E v \in Victims : /\ RemoveFromRegistry({v})
                            /\ AskDelete("evict", {v}, {next})
                            /\ UNCHANGED <<deletedKeys, acquiring>>
  BY DEF AcquireNew
<1> HIDE DEF next
<1>4. acquiring \subseteq Acquire /\ expired' \subseteq Expiring
  BY <1>2 DEF TypeOK
<1>5. CASE acquiring' = acquiring \cup {next} /\ UNCHANGED <<memory, calls>>
  <2>1. acquiring' \subseteq Acquire
    BY <1>1, <1>4, <1>5
  <2>. QED
    BY <1>2, <1>4, <1>5, <2>1, KeptByWaiting
<1>6. ASSUME NEW v \in Victims, RemoveFromRegistry({v}), AskDelete("evict", {v}, {next}),
             UNCHANGED <<deletedKeys, acquiring>>
      PROVE  TypeOK' /\ KeysInv'
  <2>1. v \in Key /\ Leaf(v)
    BY <1>6 DEF Victims, Evictable, registered
  <2>2. {next} \in SUBSET Acquire /\ acquiring' \subseteq Acquire
    BY <1>1, <1>4, <1>6
  <2>. QED
    BY <1>2, <1>4, <1>6, <2>1, <2>2, KeptByEviction
<1>. QED
  BY <1>3, <1>5, <1>6

LEMMA KeptByCollect ==
  ASSUME TypeOK, KeysInv, CollectExpired
  PROVE  TypeOK' /\ KeysInv'
<1>1. acquiring' \subseteq Acquire /\ expired' \subseteq Expiring
  BY DEF CollectExpired, TypeOK
<1>. QED
  BY <1>1, KeptByWaiting DEF CollectExpired

-----------------------------------------------------------------------------
(* The flush, and the answers.                                             *)

LEMMA KeptByRunFlush ==
  ASSUME TypeOK, KeysInv, RunFlush
  PROVE  TypeOK' /\ KeysInv'
<1> DEFINE c == [kind |-> "delete", keys |-> deletedKeys, next |-> {}, rows |-> NoRows]
<1>0. RowsFollow /\ AllClean /\ FlushesKnown /\ IndexFollows
  BY DEF KeysInv
<1>1. /\ registry' = registry /\ children' = children /\ holds' = holds /\ dirty' = dirty /\ deletedKeys' = {}
      /\ queued' = FALSE /\ flushPending' = FALSE /\ gate' = gate /\ acquiring' = acquiring
      /\ expired' = expired /\ table' = table /\ ends' = ends /\ calls' = Append(calls, c)
  BY DEF RunFlush, waiting, AskDelete, Ask
<1>2. c \in Call /\ c.kind = "delete" /\ c.keys \subseteq Ephemeral /\ Clean(c.rows)
  BY Constants, RowValues DEF Call, TypeOK
<1> HIDE DEF c
<1>3. /\ calls' \in Seq(Call)
      /\ \A i \in DOMAIN calls' : Clean(calls'[i].rows)
      /\ \A i \in DOMAIN calls' : calls'[i].kind = "delete" => calls'[i].keys \subseteq Ephemeral
  BY <1>0, <1>1, <1>2, OneCallMore
<1>4. registered' = registered
  BY <1>1 DEF registered
<1>5. RowsFollow'
  BY <1>0, <1>1, <1>2, <1>4, RowsFollowDelete
<1>6. TypeOK' /\ IndexFollows'
  BY <1>0, <1>1, <1>3, SameIndex DEF TypeOK
<1>7. AllClean' /\ FlushesKnown'
  BY <1>0, <1>1, <1>3 DEF AllClean, FlushesKnown
<1>. QED
  BY <1>5, <1>6, <1>7 DEF KeysInv

LEMMA Deleted ==
  ASSUME TypeOK, AllClean, NEW K \in SUBSET Key, DeleteRows(K)
  PROVE  table' \in [Key -> Registration] /\ Clean(table')
BY RowValues DEF TypeOK, AllClean, Clean, DeleteRows

\* An answer after which memory is as it was.
LEMMA KeptByAnswer ==
  ASSUME TypeOK, KeysInv, calls # <<>>, calls' = Tail(calls), UNCHANGED <<memory, flushPending, queued, ends>>,
         gate' = gate \/ gate' = "open", gate' \in {"open", "draining", "resetting"},
         acquiring' \subseteq Acquire, expired' = expired,
         table' \in [Key -> Registration], Clean(table'),
         \A k \in Key : table'[k] = Written(Head(calls), table[k], k)
  PROVE  TypeOK' /\ KeysInv'
<1>0. RowsFollow /\ AllClean /\ FlushesKnown /\ IndexFollows
  BY DEF KeysInv
<1>1. /\ registry' = registry /\ children' = children /\ holds' = holds /\ dirty' = dirty
      /\ deletedKeys' = deletedKeys /\ flushPending' = flushPending /\ queued' = queued /\ ends' = ends
  BY DEF memory
<1>2. /\ calls' \in Seq(Call)
      /\ \A i \in DOMAIN calls' : Clean(calls'[i].rows)
      /\ \A i \in DOMAIN calls' : calls'[i].kind = "delete" => calls'[i].keys \subseteq Ephemeral
  BY <1>0, OneCallLess
<1>3. RowsFollow'
  BY <1>0, <1>1, RowsFollowAnswer
<1>4. TypeOK' /\ IndexFollows'
  BY <1>0, <1>1, <1>2, SameIndex DEF TypeOK
<1>5. AllClean' /\ FlushesKnown'
  BY <1>0, <1>1, <1>2 DEF AllClean, FlushesKnown
<1>. QED
  BY <1>3, <1>4, <1>5 DEF KeysInv

LEMMA KeptByAnswerEvictOrWipe ==
  ASSUME TypeOK, KeysInv, AnswerEvict \/ AnswerWipe
  PROVE  TypeOK' /\ KeysInv'
<1>1. /\ calls # <<>> /\ calls' = Tail(calls) /\ Head(calls).kind # "save" /\ DeleteRows(Head(calls).keys)
      /\ UNCHANGED <<memory, flushPending, queued, ends>> /\ expired' = expired
      /\ gate' = gate \/ gate' = "open"
      /\ acquiring' = acquiring \/ acquiring' = acquiring \cup Head(calls).next
  BY DEF AnswerEvict, AnswerWipe, Answers, queue, waiting
<1>2. AllClean /\ FlushesKnown
  BY DEF KeysInv
<1>3. Head(calls) \in Call
  BY <1>1, <1>2, OneCallLess
<1>4. Head(calls).keys \in SUBSET Key /\ Head(calls).next \subseteq Acquire
  BY <1>3 DEF Call
<1>5. table' \in [Key -> Registration] /\ Clean(table')
  BY <1>1, <1>2, <1>4, Deleted
<1>6. \A k \in Key : table'[k] = Written(Head(calls), table[k], k)
  BY <1>1 DEF DeleteRows, Written, Result
<1>7. acquiring' \subseteq Acquire /\ gate' \in {"open", "draining", "resetting"}
  BY <1>1, <1>4 DEF TypeOK
<1>. QED
  BY <1>1, <1>5, <1>6, <1>7, KeptByAnswer

LEMMA KeptByAnswerSave ==
  ASSUME TypeOK, KeysInv, AnswerSave
  PROVE  TypeOK' /\ KeysInv'
<1>1. /\ calls # <<>> /\ calls' = Tail(calls) /\ Head(calls).kind = "save"
      /\ table' = [k \in Key |-> IF k \in Head(calls).keys THEN Head(calls).rows[k] ELSE table[k]]
      /\ UNCHANGED <<memory, flushPending, queued, ends>> /\ expired' = expired
      /\ gate' = gate /\ acquiring' = acquiring
  BY DEF AnswerSave, Answers, queue, waiting
<1>2. AllClean /\ FlushesKnown
  BY DEF KeysInv
<1>3. Head(calls) \in Call /\ Clean(Head(calls).rows)
  BY <1>1, <1>2, OneCallLess
<1>4. Head(calls).rows \in [Key -> Registration]
  BY <1>3 DEF Call
<1>5. table' \in [Key -> Registration] /\ Clean(table')
  BY <1>1, <1>2, <1>3, <1>4 DEF TypeOK, AllClean, Clean
<1>6. \A k \in Key : table'[k] = Written(Head(calls), table[k], k)
  BY <1>1 DEF Written, Result
<1>7. acquiring' \subseteq Acquire /\ gate' \in {"open", "draining", "resetting"}
  BY <1>1 DEF TypeOK
<1>. QED
  BY <1>1, <1>5, <1>6, <1>7, KeptByAnswer

LEMMA KeptByAnswerDelete ==
  ASSUME TypeOK, KeysInv, AnswerDelete
  PROVE  TypeOK' /\ KeysInv'
<1> DEFINE rest == Tail(calls)
           c == [Head(calls) EXCEPT !.kind = "save", !.rows = registry, !.keys = dirty \cap registered]
<1>0. RowsFollow /\ AllClean /\ FlushesKnown /\ IndexFollows
  BY DEF KeysInv
<1>1. /\ calls # <<>> /\ Head(calls).kind = "delete" /\ DeleteRows(Head(calls).keys)
      /\ calls' = Append(rest, c) /\ dirty' = {}
      /\ registry' = registry /\ children' = children /\ holds' = holds /\ deletedKeys' = deletedKeys
      /\ flushPending' = flushPending /\ queued' = queued /\ gate' = gate /\ acquiring' = acquiring
      /\ expired' = expired /\ ends' = ends
  BY DEF AnswerDelete, Answers, queue, waiting
<1>2. calls \in Seq(Call) /\ registry \in [Key -> Registration] /\ dirty \cap registered \in SUBSET Key
  BY DEF TypeOK, registered
<1>3. /\ rest \in Seq(Call) /\ DOMAIN calls = 1..Len(calls) /\ Len(calls) \in Nat \ {0}
      /\ DOMAIN rest = 1..(Len(calls) - 1)
      /\ \A i \in 1..(Len(calls) - 1) : rest[i] = calls[i + 1]
      /\ Head(calls) = calls[1] /\ Head(calls) \in Call
  BY <1>1, <1>2, TailFacts
<1>4. c \in Call /\ c.kind = "save" /\ c.rows = registry /\ c.keys = dirty \cap registered
  BY <1>2, <1>3 DEF Call
<1>5. Head(calls).keys \subseteq Ephemeral /\ Head(calls).keys \in SUBSET Key
  BY <1>0, <1>1, <1>3 DEF FlushesKnown, Call
<1> HIDE DEF c, rest
<1>6. rest \in Seq(Call) /\ c \in Call
  BY <1>3, <1>4
<1>7. /\ Append(rest, c) \in Seq(Call) /\ DOMAIN rest = 1..Len(rest) /\ Len(rest) \in Nat
      /\ DOMAIN Append(rest, c) = 1..(Len(rest) + 1)
      /\ \A i \in 1..Len(rest) : Append(rest, c)[i] = rest[i]
      /\ Append(rest, c)[Len(rest) + 1] = c
  BY <1>6, AppendFacts
<1>8. ASSUME NEW i \in DOMAIN calls'
      PROVE  calls'[i] = c \/ \E j \in DOMAIN calls : calls'[i] = calls[j]
  <2>1. i \in 1..Len(rest) \/ i = Len(rest) + 1
    BY <1>1, <1>7
  <2>2. CASE i = Len(rest) + 1
    BY <1>1, <1>7, <2>2
  <2>3. CASE i \in 1..Len(rest)
    <3>1. calls'[i] = rest[i]
      BY <1>1, <1>7, <2>3
    <3>2. i \in 1..(Len(calls) - 1)
      BY <1>3, <1>7, <2>3
    <3>3. i + 1 \in DOMAIN calls /\ rest[i] = calls[i + 1]
      BY <1>3, <3>2
    <3>. QED
      BY <3>1, <3>3
  <2>. QED
    BY <2>1, <2>2, <2>3
<1>9. registered' = registered
  BY <1>1 DEF registered
<1>10. RowsFollow'
  <2>1. ASSUME NEW k \in Key \ Ephemeral
        PROVE  Settled(calls', table'[k], registry'[k], k)
    <3>1. table'[k] = table[k] /\ Written(Head(calls), table[k], k) = table[k]
      BY <1>1, <1>5 DEF DeleteRows, Written
    <3>2. CASE k \in c.keys
      <4>1. Result(c, k) = registry[k]
        BY <1>4 DEF Result
      <4>2. Settled(Append(rest, c), table[k], registry[k], k)
        BY <1>6, <3>2, <4>1, SettledBy
      <4>. QED
        BY <1>1, <3>1, <4>2
    <3>3. CASE k \notin c.keys
      <4>1. Settled(calls, table[k], registry[k], k)
        BY <1>0, <1>4, <3>3 DEF RowsFollow
      <4>2. Settled(Tail(calls), Written(Head(calls), table[k], k), registry[k], k)
        BY <1>1, <1>2, <4>1, SettledAnswered
      <4>3. Settled(rest, table[k], registry[k], k)
        BY <3>1, <4>2 DEF rest
      <4>4. Settled(Append(rest, c), table[k], registry[k], k)
        BY <1>6, <3>3, <4>3, SettledBeside
      <4>. QED
        BY <1>1, <3>1, <4>4
    <3>. QED
      BY <3>2, <3>3
  <2>. QED
    BY <2>1 DEF RowsFollow
<1>11. table' \in [Key -> Registration] /\ Clean(table')
  BY <1>0, <1>1, <1>5, Deleted
<1>12. TypeOK' /\ IndexFollows'
  BY <1>0, <1>1, <1>7, <1>11, SameIndex DEF TypeOK
<1>13. AllClean'
  BY <1>0, <1>1, <1>4, <1>8, <1>11 DEF AllClean
<1>14. FlushesKnown'
  BY <1>0, <1>1, <1>4, <1>8 DEF FlushesKnown
<1>. QED
  BY <1>10, <1>12, <1>13, <1>14 DEF KeysInv

-----------------------------------------------------------------------------
(* A session reset, and a restart.                                         *)

LEMMA KeptByBeginReset ==
  ASSUME TypeOK, KeysInv, BeginReset
  PROVE  TypeOK' /\ KeysInv'
<1>1. /\ registry' = registry /\ children' = children /\ holds' = holds /\ dirty' = dirty
      /\ deletedKeys' = deletedKeys /\ acquiring' = acquiring /\ expired' = expired /\ calls' = calls
      /\ table' = table /\ ends' = ends + 1 /\ ends < MaxEnds /\ gate' = "draining" /\ queued' = FALSE
      /\ flushPending' \in BOOLEAN
  BY DEF BeginReset, memory, waiting, TypeOK
<1>2. ends' \in 0..MaxEnds
  BY <1>1, Constants DEF TypeOK
<1>3. TypeOK' /\ IndexFollows'
  BY <1>1, <1>2, SameIndex DEF TypeOK, KeysInv
<1>4. registered' = registered
  BY <1>1 DEF registered
<1>5. RowsFollow' /\ AllClean' /\ FlushesKnown'
  BY <1>1, <1>4 DEF KeysInv, RowsFollow, AllClean, FlushesKnown
<1>. QED
  BY <1>3, <1>5 DEF KeysInv

LEMMA EmptyIndex == Index(NoRows) = {}
BY RowValues, Edges

LEMMA KeptByOnSessionDestroyed ==
  ASSUME TypeOK, KeysInv, OnSessionDestroyed
  PROVE  TypeOK' /\ KeysInv'
<1> DEFINE c == [kind |-> "wipe", keys |-> registered, next |-> {}, rows |-> NoRows]
<1>0. RowsFollow /\ AllClean /\ FlushesKnown
  BY DEF KeysInv
<1>1. /\ registry' = NoRows /\ children' = {} /\ holds' = [k \in Key |-> {}] /\ dirty' = {}
      /\ deletedKeys' = {} /\ flushPending' = FALSE /\ queued' = queued /\ gate = "draining"
      /\ gate' = "resetting" /\ acquiring' = acquiring /\ expired' = expired /\ table' = table
      /\ ends' = ends /\ calls' = Append(calls, c)
  BY DEF OnSessionDestroyed, waiting, AskDelete, Ask
<1>2. c \in Call /\ c.kind = "wipe" /\ c.keys = registered /\ Clean(c.rows)
  BY RowValues DEF Call, registered
<1> HIDE DEF c
<1>3. /\ calls' \in Seq(Call)
      /\ \A i \in DOMAIN calls' : Clean(calls'[i].rows)
      /\ \A i \in DOMAIN calls' : calls'[i].kind = "delete" => calls'[i].keys \subseteq Ephemeral
  BY <1>0, <1>1, <1>2, OneCallMore
<1>4. \A k \in Key \ Ephemeral :
        IF k \in c.keys THEN registry'[k] = Absent
        ELSE /\ registry'[k] = registry[k]
             /\ k \in dirty \cap registered => k \in (dirty \cap registered)'
  BY <1>0, <1>1, <1>2, RowValues DEF AllClean, Clean, registered
<1>5. RowsFollow'
  BY <1>0, <1>1, <1>2, <1>4, RowsFollowDelete
<1>6. ~queued
  BY <1>0, <1>1 DEF FlushesKnown
<1>7. TypeOK'
  BY <1>1, <1>3, <1>6, RowValues DEF TypeOK
<1>8. AllClean' /\ FlushesKnown'
  BY <1>0, <1>1, <1>3, <1>6, RowValues DEF AllClean, FlushesKnown
<1>9. IndexFollows'
  BY <1>1, EmptyIndex DEF IndexFollows
<1>. QED
  BY <1>5, <1>7, <1>8, <1>9 DEF KeysInv

LEMMA KeptByRestart ==
  ASSUME TypeOK, KeysInv, Restart
  PROVE  TypeOK' /\ KeysInv'
<1>1. /\ ends < MaxEnds /\ ends' = ends + 1
      /\ table' = [k \in Key |-> IF k \in Ephemeral THEN Absent ELSE table[k]]
      /\ registry' = table' /\ children' = Index(table')
      /\ holds' = [k \in Key |-> {}] /\ dirty' = {} /\ deletedKeys' = {}
      /\ flushPending' = FALSE /\ queued' = FALSE /\ gate' = "open"
      /\ acquiring' = {} /\ expired' = {} /\ calls' = <<>>
  BY DEF Restart
<1>2. table' \in [Key -> Registration] /\ Clean(table')
  BY <1>1, RowValues DEF TypeOK, KeysInv, AllClean, Clean
<1>3. children' \subseteq Key \X Key
  <2>1. ASSUME NEW e \in Index(table')
        PROVE  e \in Key \X Key
    <3>1. e[2] \in Key /\ e[1] = ParentOf[e[2]] /\ e[1] # NoKey /\ e = <<e[1], e[2]>>
      BY Edges
    <3>2. e[1] \in Key
      BY <3>1, Constants
    <3>. QED
      BY <3>1, <3>2
  <2>. QED
    BY <1>1, <2>1
<1>4. ends' \in 0..MaxEnds /\ calls' \in Seq(Call) /\ DOMAIN calls' = {}
  BY <1>1, Constants DEF TypeOK
<1>5. TypeOK'
  BY <1>1, <1>2, <1>3, <1>4 DEF TypeOK
<1>6. RowsFollow'
  <2>1. \A k \in Key : Asking(calls', k) = {} /\ table'[k] = registry'[k]
    BY <1>1, <1>4 DEF Asking
  <2>. QED
    BY <2>1 DEF RowsFollow, Settled
<1>7. AllClean' /\ FlushesKnown' /\ IndexFollows'
  BY <1>1, <1>2, <1>4 DEF AllClean, FlushesKnown, IndexFollows
<1>. QED
  BY <1>5, <1>6, <1>7 DEF KeysInv

-----------------------------------------------------------------------------
(* The theorems.                                                           *)

LEMMA Starts == Init => TypeOK /\ KeysInv
<1>1. ASSUME Init
      PROVE  TypeOK /\ KeysInv
  <2>1. /\ registry = NoRows /\ children = {} /\ holds = [k \in Key |-> {}] /\ dirty = {} /\ deletedKeys = {}
        /\ flushPending = FALSE /\ queued = FALSE /\ gate = "open" /\ acquiring = {} /\ expired = {}
        /\ calls = <<>> /\ table = NoRows /\ ends = 0
    BY <1>1 DEF Init
  <2>2. calls \in Seq(Call) /\ DOMAIN calls = {} /\ ends \in 0..MaxEnds
    BY <2>1, Constants
  <2>3. TypeOK
    BY <2>1, <2>2, RowValues DEF TypeOK
  <2>4. RowsFollow
    <3>1. \A k \in Key : Asking(calls, k) = {} /\ table[k] = registry[k]
      BY <2>1, <2>2 DEF Asking
    <3>. QED
      BY <3>1 DEF RowsFollow, Settled
  <2>5. AllClean /\ FlushesKnown /\ IndexFollows
    BY <2>1, <2>2, RowValues, EmptyIndex DEF AllClean, FlushesKnown, IndexFollows
  <2>. QED
    BY <2>3, <2>4, <2>5 DEF KeysInv
<1>. QED
  BY <1>1

LEMMA Options ==
  ASSUME NEW k \in Key, NEW ws \in HoldOptions(k)
  PROVE  ws \in SUBSET Window
BY DEF HoldOptions

LEMMA Kept ==
  ASSUME TypeOK, KeysInv, Next
  PROVE  TypeOK' /\ KeysInv'
<1>1. ASSUME NEW k \in Key, NEW ws \in HoldOptions(k), AcquireExisting(k, ws)
      PROVE  TypeOK' /\ KeysInv'
  BY <1>1, Options, KeptByAcquireExisting
<1>2. ASSUME NEW k \in Key, NEW ws \in HoldOptions(k), AcquireNew(k, ws)
      PROVE  TypeOK' /\ KeysInv'
  BY <1>2, Options, KeptByAcquireNew
<1>3. ASSUME NEW k \in Key, NEW ws \in HoldOptions(k), RegisterCacheKey(k, ws)
      PROVE  TypeOK' /\ KeysInv'
  <2>1. ws \in SUBSET Window
    BY Options
  <2>2. acquiring' \subseteq Acquire
    BY <1>3 DEF RegisterCacheKey, waiting, TypeOK
  <2>. QED
    BY <1>3, <2>1, <2>2, KeptByAddRegistration DEF RegisterCacheKey, waiting
<1>4. ASSUME NEW a \in acquiring, AcquireEnds(a)
      PROVE  TypeOK' /\ KeysInv'
  <2>1. a.key \in Key /\ a.holders \in SUBSET Window /\ acquiring' \subseteq Acquire
    BY <1>4 DEF AcquireEnds, TypeOK, Acquire
  <2>. QED
    BY <1>4, <2>1, KeptByAddRegistration DEF AcquireEnds
<1>5. ASSUME NEW k \in Holds, NEW w \in Window, HoldForWindow(k, w) \/ ReleaseForWindow(k, w)
      PROVE  TypeOK' /\ KeysInv'
  <2>1. k \in Key /\ {k} \in SUBSET Key
    BY Constants
  <2>2. CASE HoldForWindow(k, w)
    BY <2>1, <2>2, KeptByHold
  <2>3. CASE ReleaseForWindow(k, w)
    BY <2>1, <2>3, KeptByRelease DEF ReleaseForWindow
  <2>. QED
    BY <1>5, <2>2, <2>3
<1>6. ASSUME NEW w \in Window, ReleaseAllForWindow(w)
      PROVE  TypeOK' /\ KeysInv'
  BY <1>6, KeptByRelease DEF ReleaseAllForWindow
<1>7. ASSUME NEW k \in Key, Freeze(k) \/ Unfreeze(k)
      PROVE  TypeOK' /\ KeysInv'
  BY <1>7, KeptBySetFrozen DEF Freeze, Unfreeze
<1>8. ASSUME NEW k \in Key, Evict(k) \/ EvictExpired(k)
      PROVE  TypeOK' /\ KeysInv'
  BY <1>8, KeptByEvict, KeptByEvictExpired
<1>9. CASE CollectExpired
  BY <1>9, KeptByCollect
<1>10. CASE RunFlush \/ AnswerDelete \/ AnswerSave \/ AnswerEvict \/ AnswerWipe
  BY <1>10, KeptByRunFlush, KeptByAnswerDelete, KeptByAnswerSave, KeptByAnswerEvictOrWipe
<1>11. CASE BeginReset \/ OnSessionDestroyed \/ Restart
  BY <1>11, KeptByBeginReset, KeptByOnSessionDestroyed, KeptByRestart
<1>. QED
  BY <1>1, <1>2, <1>3, <1>4, <1>5, <1>6, <1>7, <1>8, <1>9, <1>10, <1>11 DEF Next

LEMMA Stutters ==
  ASSUME TypeOK, KeysInv, UNCHANGED vars
  PROVE  TypeOK' /\ KeysInv'
<1>1. acquiring' \subseteq Acquire /\ expired' \subseteq Expiring
  BY DEF vars, waiting, TypeOK
<1>. QED
  BY <1>1, KeptByWaiting DEF vars

LEMMA Inductive == Spec => [](TypeOK /\ KeysInv)
<1>1. (TypeOK /\ KeysInv) /\ [Next]_vars => (TypeOK /\ KeysInv)'
  BY Kept, Stutters
<1>. QED
  BY <1>1, Starts, PTL DEF Spec

\* The state has its types; deletedKeys holds only ephemeral keys, and no flush is
\* queued while its flag is down (scheduleDirtyFlush, onFlushCacheKeys).
THEOREM KeysTypes == Spec => []TypeOK
BY Inductive, PTL

\* No change of a persistent key's registration is lost on its way to the table,
\* in whatever order keys are evicted, acquired, flushed, reset and reloaded.
THEOREM TableFollowsHolds == Spec => []TableFollows
<1>1. KeysInv => TableFollows
  BY DEF KeysInv, RowsFollow, TableFollows, Settled, Asking
<1>. QED
  BY <1>1, Inductive, PTL

\* The hierarchy index names only what is registered, and misses a child only of
\* a parent that may expire or is ephemeral (removeFromRegistry, initialize).
THEOREM IndexFollowsHolds == Spec => []IndexFollows
<1>1. KeysInv => IndexFollows
  BY DEF KeysInv
<1>. QED
  BY <1>1, Inductive, PTL
=============================================================================
