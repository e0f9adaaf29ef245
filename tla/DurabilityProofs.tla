-------------------------- MODULE DurabilityProofs --------------------------
(***************************************************************************)
(* What a reload finds, proved for any commands of an aggregate and any    *)
(* number of crashes and clears: no accepted command is lost, none is      *)
(* released early, and no record of an earlier session comes back.         *)
(*                                                                         *)
(* A record has up to four copies: in memory, in the batch of the flush,   *)
(* in a request the worker has not served, and in its row.  The invariant  *)
(* says how far apart they may be, and that what a clear has passed over   *)
(* is younger than the clear.                                              *)
(***************************************************************************)
EXTENDS CommandDurability, TLAPS, SequenceTheorems, WellFoundedInduction

-----------------------------------------------------------------------------
(* The invariant: states the queue is never in.                            *)

Saving == {c \in Cmd : enq[c] = "saving"}

\* A command that has not been enqueued has left no trace.
Unborn ==
  \A c \in Cmd : enq[c] = "new" =>
    /\ mem[c] = NoRecord /\ disk[c] = NoRecord /\ batch[c] = NoRecord
    /\ pass.cmd # c /\ latest # c /\ c \notin caught \cup dirty \cup pass.todo
    /\ \A d \in Cmd : waits[d] # c

\* Neither has a process that is down, but for the database.
Down ==
  ~up => /\ \A c \in Cmd : mem[c] = NoRecord /\ batch[c] = NoRecord /\ enq[c] # "saving"
         /\ dirty = {} /\ io = <<>> /\ flush = "none" /\ clear = "none"
         /\ pass = IdlePass /\ latest = NoCmd

\* A record waits for the blocker it was saved with, or for nobody.
RecordOK(c, r) ==
  r # NoRecord =>
    /\ r.status # "none"
    /\ r.blockedBy = {} \/ (r.blockedBy = {waits[c]} /\ waits[c] # NoCmd)
    /\ r.status = "blocked" <=> r.blockedBy # {}
    /\ r.status \in {"pending", "blocked"} => r.attempts < MaxAttempts

Well == \A c \in Cmd : RecordOK(c, mem[c]) /\ RecordOK(c, disk[c]) /\ RecordOK(c, batch[c])

\* A record in memory has its save behind it, or the save before the worker.
RowsReturned ==
  \A c \in Cmd : /\ disk[c] # NoRecord => enq[c] = "returned"
                 /\ mem[c] # NoRecord \/ batch[c] # NoRecord => enq[c] \in {"saving", "returned"}
RowsCounted == \A c \in Cmd : rowSeq[c] <= rowCount

PassOK ==
  /\ pass.phase # "idle" => pass.cmd \in Cmd
  /\ pass.phase = "sent" => mem[pass.cmd].status \in {"sending", "none"}
  /\ pass.phase \in {"ended", "releasing"} => mem[pass.cmd].status \in Ended \cup {"none"}
  /\ \A d \in pass.todo : mem[d] # NoRecord => pass.cmd \in mem[d].blockedBy

-----------------------------------------------------------------------------
(* The requests the worker has not served.                                 *)

Asks(i, op) == i \in DOMAIN io /\ io[i].op = op
Saves(i, c) == Asks(i, "save") /\ io[i].rows[c] # NoRecord
Inserts(i, c) == (Asks(i, "save") \/ Asks(i, "write")) /\ io[i].rows[c] # NoRecord

\* The record enqueue makes of a command.
RecordWith(blocker) ==
  [status |-> IF blocker = NoCmd THEN "pending" ELSE "blocked",
   blockedBy |-> {blocker} \ {NoCmd}, attempts |-> 0]
FirstRecord(c) == RecordWith(waits[c])

\* A save stands for an enqueue that waits for it.
SavesAwaited ==
  /\ \A i \in DOMAIN io, c \in Cmd :
       Saves(i, c) => enq[c] = "saving" /\ io[i].rows = [EmptyTable EXCEPT ![c] = FirstRecord(c)]
  /\ \A c \in Saving : \E i \in DOMAIN io : Saves(i, c)
  /\ \A c \in Cmd : \A i, j \in DOMAIN io : Saves(i, c) /\ Saves(j, c) => i = j

\* The flush and the clear ask one thing at a time.
OneRequest ==
  /\ \A i \in DOMAIN io : /\ Asks(i, "read") => flush = "reading"
                          /\ Asks(i, "write") => flush = "writing" /\ io[i].rows = batch
                          /\ Asks(i, "clear") => clear = "deleting"
  /\ \A i, j \in DOMAIN io, op \in {"read", "write", "clear"} : Asks(i, op) /\ Asks(j, op) => i = j

\* A command is saved behind the one it waits for.
SavedBehind ==
  \A c \in Cmd : waits[c] \in Saving =>
    /\ c \in Saving
    /\ \A i, j \in DOMAIN io : Saves(i, waits[c]) /\ Saves(j, c) => i < j

-----------------------------------------------------------------------------
(* The copies of a record.                                                 *)

\* The flush has what memory has, or will have to run again.
Copies ==
  \A c \in Cmd : batch[c] # NoRecord =>
    IF mem[c] = NoRecord THEN clear = "flushing" ELSE batch[c] = mem[c] \/ c \in dirty

\* While a save is not served, memory has the record it saves, and a flush that has
\* taken a later copy looks for the row behind the save.  A clear that has emptied
\* memory meanwhile will delete the row.
SavesFresh ==
  \A c \in Saving :
    /\ mem[c] = NoRecord =>
         \/ clear \in {"flushing", "settled"}
         \/ /\ clear = "deleting"
            /\ \A i, j \in DOMAIN io : Saves(i, c) /\ Asks(j, "clear") => i < j
    /\ mem[c] # NoRecord => mem[c] = FirstRecord(c) \/ c \in dirty \/ batch[c] # NoRecord
    /\ batch[c] # NoRecord =>
         /\ flush = "reading"
         /\ \A i, j \in DOMAIN io : Saves(i, c) /\ Asks(j, "read") => i < j

\* A record is on its way to its row, unless a clear has taken the row.
Follows ==
  \A c \in Cmd : mem[c] # NoRecord =>
    \/ mem[c] = disk[c]
    \/ c \in dirty
    \/ flush \in {"reading", "found", "writing"} /\ batch[c] = mem[c]
    \/ enq[c] = "saving"
    \/ c \in caught /\ disk[c] = NoRecord

Filed(c) == disk[c] # NoRecord \/ enq[c] = "saving"
Kept == \A c \in Cmd \ caught : mem[c] # NoRecord => Filed(c)

\* Nothing that is over begins again.
IsOver(r) == r.status \in Ended
Monotone ==
  \A c \in Cmd :
    /\ IsOver(disk[c]) /\ mem[c] # NoRecord => IsOver(mem[c])
    /\ IsOver(disk[c]) /\ batch[c] # NoRecord => IsOver(batch[c])
    /\ IsOver(batch[c]) /\ mem[c] # NoRecord => IsOver(mem[c])

-----------------------------------------------------------------------------
(* A command and the one it waits for.                                     *)

Waiting(c) == c \notin caught /\ waits[c] # NoCmd

Linked ==
  \A c \in Cmd :
    Waiting(c) /\ (mem[c] # NoRecord \/ batch[c] # NoRecord \/ Filed(c)) => Filed(waits[c])

InView(p) == mem[p] # NoRecord \/ IsOver(disk[p])

LatestKept ==
  clear \in {"none", "resetting", "reset"} /\ latest # NoCmd => Filed(latest) /\ InView(latest)

\* No copy is released unless its blocker is over in the copy beside it, or beneath.
MemGated ==
  \A c \in Cmd : Waiting(c) /\ mem[c] # NoRecord =>
    /\ InView(waits[c])
    /\ mem[c].status # "blocked" =>
         IsOver(mem[waits[c]]) \/ (mem[waits[c]] = NoRecord /\ IsOver(disk[waits[c]]))
BatchGated ==
  \A c \in Cmd : Waiting(c) /\ batch[c] # NoRecord /\ batch[c].status # "blocked" =>
    IsOver(batch[waits[c]]) \/ IsOver(disk[waits[c]])
DiskGated ==
  \A c \in Cmd : /\ Waiting(c) /\ disk[c] # NoRecord /\ disk[c].status # "blocked"
                 /\ disk[waits[c]] # NoRecord
                 => IsOver(disk[waits[c]])

-----------------------------------------------------------------------------
(* Sessions.                                                               *)

Recent(c) == c \in caught /\ savedIn[c] = era

\* What a clear has passed over was saved while it ran.
ClearPassed ==
  /\ clear \in {"flushing", "settled", "deleting", "wiped"} =>
       \A c \in Cmd : mem[c] # NoRecord => Recent(c)
  /\ clear \in {"settled", "deleting", "wiped"} => \A c \in Cmd : batch[c] # NoRecord => Recent(c)
  /\ clear = "deleting" =>
       \A i, j \in DOMAIN io, c \in Cmd : Asks(i, "clear") /\ i < j /\ Inserts(j, c) => Recent(c)
  /\ clear = "wiped" =>
       \A c \in Cmd : /\ disk[c] # NoRecord => Recent(c)
                      /\ \A j \in DOMAIN io : Inserts(j, c) => Recent(c)

Eras ==
  /\ cleared <= era
  /\ \A c \in Cmd :
       /\ savedIn[c] <= era
       /\ clear # "none" /\ enq[c] # "new" /\ savedIn[c] = era => c \in caught
       /\ savedIn[c] < cleared =>
            mem[c] = NoRecord /\ disk[c] = NoRecord /\ batch[c] = NoRecord /\ enq[c] # "saving"

\* A command of this session has its row, and is known, or over in its row.
Known ==
  \A c \in Cmd \ caught : enq[c] = "returned" /\ savedIn[c] = era =>
    /\ disk[c] # NoRecord
    /\ up /\ mem[c] = NoRecord => disk[c].status \in {"applied", "failed"}

Basic == TypeOK /\ Unborn /\ Down /\ Well /\ RowsReturned /\ RowsCounted /\ PassOK
Served == SavesAwaited /\ OneRequest /\ SavedBehind /\ SavesFresh
Stored == Copies /\ Follows /\ Kept /\ Monotone
Gated == Linked /\ LatestKept /\ MemGated /\ BatchGated /\ DiskGated
Sessions == ClearPassed /\ Eras /\ Known

DurabilityInv == Basic /\ Served /\ Stored /\ Gated /\ Sessions

-----------------------------------------------------------------------------
(* Records and tables.                                                     *)

LEMMA NoRecordFacts ==
  /\ NoRecord \in Record /\ NoRecord.status = "none" /\ NoRecord.attempts = 0
  /\ ~IsOver(NoRecord) /\ EmptyTable \in Table /\ \A c \in Cmd : EmptyTable[c] = NoRecord
BY AttemptsAssumption DEF NoRecord, Record, IsOver, Ended, EmptyTable, Table

LEMMA RecordWithFacts ==
  ASSUME NEW p \in Cmd \cup {NoCmd}
  PROVE  /\ RecordWith(p) \in Record /\ RecordWith(p) # NoRecord
         /\ RecordWith(p).blockedBy = {p} \ {NoCmd}
         /\ RecordWith(p).status \in {"pending", "blocked"} /\ ~IsOver(RecordWith(p))
         /\ RecordWith(p).status = "blocked" <=> p # NoCmd
         /\ RecordWith(p).attempts < MaxAttempts
<1>. DEFINE r == RecordWith(p)
<1>1. /\ r.status = IF p = NoCmd THEN "pending" ELSE "blocked"
      /\ r.blockedBy = {p} \ {NoCmd} /\ r.attempts = 0
      /\ r = [status |-> r.status, blockedBy |-> r.blockedBy, attempts |-> r.attempts]
  BY DEF RecordWith
<1>2. r.status \in InMemory /\ r.blockedBy \in SUBSET Cmd /\ 0 \in 0..MaxAttempts /\ 0 < MaxAttempts
  BY <1>1, AttemptsAssumption DEF InMemory
<1>3. r \in Record
  BY <1>1, <1>2 DEF Record
<1>4. r # NoRecord /\ ~IsOver(r)
  BY <1>1, NoRecordFacts DEF IsOver, Ended
<1>. QED
  BY <1>1, <1>2, <1>3, <1>4

LEMMA FirstRecordFacts ==
  ASSUME NEW c \in Cmd, waits \in [Cmd -> Cmd \cup {NoCmd}]
  PROVE  /\ FirstRecord(c) \in Record /\ FirstRecord(c) # NoRecord /\ RecordOK(c, FirstRecord(c))
         /\ ~IsOver(FirstRecord(c))
         /\ FirstRecord(c).status = "blocked" <=> waits[c] # NoCmd
<1>1. waits[c] \in Cmd \cup {NoCmd}
  OBVIOUS
<1>2. /\ FirstRecord(c) \in Record /\ FirstRecord(c) # NoRecord
      /\ FirstRecord(c).blockedBy = {waits[c]} \ {NoCmd}
      /\ FirstRecord(c).status \in {"pending", "blocked"} /\ ~IsOver(FirstRecord(c))
      /\ FirstRecord(c).status = "blocked" <=> waits[c] # NoCmd
      /\ FirstRecord(c).attempts < MaxAttempts
  BY <1>1, RecordWithFacts DEF FirstRecord
<1>. QED
  BY <1>2 DEF RecordOK

LEMMA InitHolds == Init => DurabilityInv
<1>. SUFFICES ASSUME Init PROVE DurabilityInv
  OBVIOUS
<1>. USE NoRecordFacts DEF Init
<1>1. Basic
  <2>1. mem = EmptyTable /\ \A c \in Cmd : mem[c].status \notin InMemory
    BY DEF InMemory
  <2>2. TypeOK
    <3>1. pass \in [cmd : Cmd \cup {NoCmd}, phase : {"idle", "sent", "ended", "releasing"},
                    todo : SUBSET Cmd]
      BY DEF IdlePass
    <3>2. active = {c \in Cmd : mem[c].status \in InMemory}
      BY <2>1
    <3>3. io \in Seq(Request)
      BY EmptySeq
    <3>. QED
      BY <3>1, <3>2, <3>3 DEF TypeOK
  <2>3. Unborn /\ Down /\ Well /\ RowsReturned /\ RowsCounted /\ PassOK
    BY NoCmdAssumption DEF Unborn, Down, Well, RecordOK, RowsReturned, RowsCounted, PassOK, IdlePass
  <2>. QED
    BY <2>2, <2>3 DEF Basic
<1>2. Served /\ Stored /\ Gated
  BY DEF Served, SavesAwaited, OneRequest, SavedBehind, SavesFresh, Saving, Saves, Asks,
         Stored, Copies, Follows, Kept, Monotone, Gated, Linked, LatestKept, MemGated, BatchGated,
         DiskGated, Waiting, IsOver
<1>3. Sessions
  BY DEF Sessions, ClearPassed, Eras, Known, Recent
<1>. QED
  BY <1>1, <1>2, <1>3 DEF DurabilityInv

-----------------------------------------------------------------------------
(* Updates of a record in memory.                                          *)

\* What no update touches.
UpdateFrame == UNCHANGED <<up, disk, rowSeq, rowCount, io, enq, paused, session, crashes>>

\* The record of a command is replaced; what is over stays over, and a release is due.
Replaces(c, r) ==
  /\ mem[c] # NoRecord /\ r \in Record /\ r # NoRecord /\ RecordOK(c, r)
  /\ mem' = [mem EXCEPT ![c] = r]
  /\ active' = IF r.status \in InMemory THEN active ELSE active \ {c}
  /\ dirty' = dirty \cup {c}
  /\ flush' = IF flush = "none" THEN "scheduled" ELSE flush
  /\ batch' = batch
  /\ IsOver(mem[c]) => IsOver(r)
  /\ r.status \in InMemory => mem[c].status \in InMemory
  /\ mem[c].status = "blocked" /\ r.status # "blocked" /\ Waiting(c) =>
       IsOver(mem[waits[c]]) \/ (mem[waits[c]] = NoRecord /\ IsOver(disk[waits[c]]))

LEMMA ReplacesKeeps ==
  ASSUME DurabilityInv, NEW c \in Cmd, NEW r, Replaces(c, r), UpdateFrame, latest' \in {latest, NoCmd}
  PROVE  /\ Down' /\ Well' /\ RowsReturned' /\ RowsCounted'
         /\ Served' /\ Stored' /\ Gated' /\ Sessions'
<1>. USE DEF DurabilityInv, Basic, UpdateFrame, session
<1>0. /\ mem \in [Cmd -> Record] /\ c \notin {d \in Cmd : mem[d] = NoRecord}
      /\ mem'[c] = r /\ \A d \in Cmd \ {c} : mem'[d] = mem[d]
      /\ \A d \in Cmd : mem'[d] = NoRecord <=> mem[d] = NoRecord
      /\ \A d \in Cmd : IsOver(mem[d]) => IsOver(mem'[d])
  BY DEF Replaces, TypeOK, Table
<1>1. Down' /\ Well' /\ RowsReturned' /\ RowsCounted'
  <2>1. up
    BY <1>0 DEF Down
  <2>. QED
    BY <1>0, <2>1 DEF Down, Well, RecordOK, RowsReturned, RowsCounted, Replaces
<1>2. Served'
  <2>1. SavesAwaited' /\ SavedBehind'
    BY DEF Served, SavesAwaited, SavedBehind, Saving, Saves, Asks, FirstRecord
  <2>2. OneRequest'
    BY DEF Served, OneRequest, Asks, Replaces
  <2>3. SavesFresh'
    BY <1>0 DEF Served, SavesFresh, Saving, Saves, Asks, FirstRecord, Replaces
  <2>. QED
    BY <2>1, <2>2, <2>3 DEF Served
<1>3. Stored'
  BY <1>0 DEF Stored, Copies, Follows, Kept, Filed, Monotone, Replaces
<1>4. Gated'
  BY <1>0 DEF Gated, Linked, Filed, LatestKept, InView, MemGated, BatchGated, DiskGated, Waiting, Replaces
<1>5. Sessions'
  BY <1>0 DEF Sessions, ClearPassed, Recent, Inserts, Asks, Eras, Known, Replaces
<1>. QED
  BY <1>1, <1>2, <1>3, <1>4, <1>5

PassType == [cmd : Cmd \cup {NoCmd}, phase : {"idle", "sent", "ended", "releasing"}, todo : SUBSET Cmd]

LEMMA ReplacesTypes ==
  ASSUME TypeOK, Unborn, NEW c \in Cmd, NEW r, Replaces(c, r), UpdateFrame, latest' \in {latest, NoCmd},
         pass' \in PassType, pass'.cmd \in {pass.cmd, NoCmd, c}, pass'.todo \subseteq pass.todo
  PROVE  TypeOK' /\ Unborn'
<1>1. /\ mem' \in Table /\ mem'[c] = r /\ \A d \in Cmd \ {c} : mem'[d] = mem[d]
      /\ enq[c] # "new"
  BY DEF TypeOK, Unborn, Replaces, Table
<1>2. active' = {d \in Cmd : mem'[d].status \in InMemory}
  BY <1>1 DEF TypeOK, Replaces
<1>3. TypeOK'
  BY <1>1, <1>2 DEF TypeOK, Replaces, UpdateFrame, session, PassType
<1>4. Unborn'
  BY <1>1, NoCmdAssumption DEF Unborn, Replaces, UpdateFrame, session
<1>. QED
  BY <1>3, <1>4

\* A step of the pass that writes no record.
LEMMA QuietKeeps ==
  ASSUME DurabilityInv, UNCHANGED <<up, memory, database, io, enq, session, crashes>>,
         up, paused' \in BOOLEAN, latest' \in {latest, NoCmd},
         pass' \in PassType, pass'.cmd \in {pass.cmd, NoCmd},
         \A d \in pass'.todo : d \in pass.todo \/ enq[d] # "new",
         PassOK'
  PROVE  DurabilityInv'
<1>. USE DEF DurabilityInv, memory, database, session
<1>1. Basic'
  <2>1. TypeOK'
    BY DEF Basic, TypeOK, PassType
  <2>2. Unborn'
    BY NoCmdAssumption DEF Basic, Unborn, PassType
  <2>3. Down' /\ Well' /\ RowsReturned' /\ RowsCounted'
    BY DEF Basic, Down, Well, RecordOK, RowsReturned, RowsCounted
  <2>. QED
    BY <2>1, <2>2, <2>3 DEF Basic
<1>2. Served'
  BY DEF Served, SavesAwaited, OneRequest, SavedBehind, SavesFresh, Saving, Saves, Asks, FirstRecord
<1>3. Stored' /\ Gated'
  BY DEF Stored, Copies, Follows, Kept, Filed, Monotone, Gated, Linked, LatestKept, InView, MemGated,
         BatchGated, DiskGated, Waiting
<1>4. Sessions'
  BY DEF Sessions, ClearPassed, Recent, Inserts, Asks, Eras, Known
<1>. QED
  BY <1>1, <1>2, <1>3, <1>4

\* A step that updates one record, or finds it gone.
LEMMA UpdateKeeps ==
  ASSUME DurabilityInv, up, NEW c \in Cmd, NEW r, Update(c, r), UpdateFrame,
         mem[c] # NoRecord => Replaces(c, r),
         latest' \in {latest, NoCmd}, pass' \in PassType, pass'.cmd \in {pass.cmd, NoCmd, c},
         mem[c] = NoRecord => pass'.cmd \in {pass.cmd, NoCmd},
         pass'.todo \subseteq pass.todo, PassOK'
  PROVE  DurabilityInv'
<1>1. CASE mem[c] = NoRecord
  BY <1>1, QuietKeeps DEF Update, UpdateFrame, database, DurabilityInv, Basic, TypeOK
<1>2. CASE mem[c] # NoRecord
  <2>1. Down' /\ Well' /\ RowsReturned' /\ RowsCounted' /\ Served' /\ Stored' /\ Gated' /\ Sessions'
    BY <1>2, ReplacesKeeps
  <2>2. TypeOK' /\ Unborn'
    BY <1>2, ReplacesTypes DEF DurabilityInv, Basic
  <2>. QED
    BY <2>1, <2>2 DEF DurabilityInv, Basic
<1>. QED
  BY <1>1, <1>2

-----------------------------------------------------------------------------
(* The pass, and the sync pipeline.                                        *)

LEMMA UpdateChanges ==
  ASSUME TypeOK, NEW c \in Cmd, NEW r, Update(c, r)
  PROVE  /\ mem[c] \in Record
         /\ mem[c] # NoRecord => mem'[c] = r
         /\ mem[c] = NoRecord => mem' = mem
         /\ \A d \in Cmd \ {c} : mem'[d] = mem[d]
BY DEF TypeOK, Table, Update, memory

LEMMA SendKeeps ==
  ASSUME DurabilityInv, NEW c \in Cmd, Send(c)
  PROVE  DurabilityInv'
<1>. DEFINE r == [mem[c] EXCEPT !.status = "sending", !.attempts = @ + 1]
<1>1. /\ TypeOK /\ PassOK /\ RecordOK(c, mem[c]) /\ mem[c] \in Record
      /\ mem[c] # NoRecord /\ mem[c].status = "pending" /\ mem[c].blockedBy = {}
  BY NoRecordFacts DEF DurabilityInv, Basic, Well, TypeOK, Table, Send
<1>2. /\ r \in Record /\ r.status = "sending" /\ r.blockedBy = {}
  <2>1. mem[c].attempts \in 0..MaxAttempts /\ mem[c].attempts < MaxAttempts
    BY <1>1 DEF RecordOK, Record
  <2>2. mem[c].attempts + 1 \in 0..MaxAttempts /\ "sending" \in InMemory
    BY <2>1, AttemptsAssumption DEF InMemory
  <2>. QED
    BY <1>1, <2>2 DEF Record
<1>3. RecordOK(c, r) /\ r # NoRecord
  BY <1>2, NoRecordFacts DEF RecordOK
<1>4. Replaces(c, r)
  BY <1>1, <1>2, <1>3 DEF Replaces, Send, Update, IsOver, Ended, InMemory
<1>5. /\ pass' = [cmd |-> c, phase |-> "sent", todo |-> {}] /\ pass' \in PassType
      /\ mem'[c] = r
  BY <1>1, UpdateChanges DEF Send, PassType
<1>6. PassOK'
  BY <1>2, <1>5 DEF PassOK
<1>. QED
  BY <1>1, <1>4, <1>5, <1>6, UpdateKeeps DEF Send, UpdateFrame, database

LEMMA AnswerKeeps ==
  ASSUME DurabilityInv, NEW outcome \in {"succeeded", "failed", "pending"}, Answer(outcome)
  PROVE  DurabilityInv'
<1>. DEFINE c == pass.cmd
            r == [mem[c] EXCEPT !.status = outcome]
<1>1. TypeOK /\ PassOK /\ c \in Cmd /\ mem[c].status \in {"sending", "none"} /\ pass.phase = "sent"
  BY DEF DurabilityInv, Basic, PassOK, Answer
<1>2. mem[c] \in Record /\ RecordOK(c, mem[c])
  BY <1>1 DEF DurabilityInv, Basic, Well, TypeOK, Table
<1>3. ASSUME mem[c] # NoRecord PROVE Replaces(c, r)
  <2>1. mem[c].status = "sending" /\ mem[c].blockedBy = {}
    BY <1>1, <1>2, <1>3 DEF RecordOK
  <2>2. r \in Record /\ r.status = outcome /\ r.blockedBy = {} /\ r.attempts = mem[c].attempts
    <3>1. outcome \in Ended \cup InMemory
      BY DEF Ended, InMemory
    <3>. QED
      BY <1>2, <2>1, <3>1 DEF Record
  <2>3. RecordOK(c, r) /\ r # NoRecord
    BY <2>2, NoRecordFacts DEF RecordOK, Answer
  <2>. QED
    BY <1>3, <2>1, <2>2, <2>3 DEF Replaces, Answer, Update, IsOver, Ended, InMemory
<1>4. Update(c, r) /\ UpdateFrame /\ up /\ latest' \in {latest, NoCmd}
  BY DEF Answer, UpdateFrame, database
<1>5. /\ pass' \in PassType /\ pass'.cmd \in {pass.cmd, NoCmd} /\ pass'.todo \subseteq pass.todo
      /\ pass'.phase = "idle" \/ (pass'.phase = "ended" /\ pass'.cmd = c /\ outcome # "pending")
  BY <1>1 DEF TypeOK, PassType, Answer, IdlePass
<1>6. PassOK'
  <2>1. mem'[c].status \in Ended \cup {"none"} \/ pass'.phase = "idle"
    <3>1. CASE mem[c] = NoRecord
      BY <1>1, <1>4, <3>1, UpdateChanges, NoRecordFacts
    <3>2. CASE mem[c] # NoRecord
      BY <1>1, <1>2, <1>4, <1>5, <3>2, UpdateChanges DEF Record, Ended
    <3>. QED
      BY <3>1, <3>2
  <2>2. \A d \in pass'.todo : mem'[d] # NoRecord => pass'.cmd \in mem'[d].blockedBy
    <3>1. pass'.phase = "idle" => pass'.todo = {}
      BY <1>1 DEF Answer, IdlePass, TypeOK
    <3>2. ASSUME NEW d \in pass'.todo, mem'[d] # NoRecord, pass'.phase # "idle"
          PROVE  pass'.cmd \in mem'[d].blockedBy
      <4>1. d \in pass.todo /\ d \in Cmd /\ mem[d] # NoRecord /\ pass'.cmd = c
        BY <1>1, <1>4, <1>5, <3>2, UpdateChanges, NoRecordFacts DEF TypeOK
      <4>2. c \in mem[d].blockedBy
        BY <1>1, <4>1 DEF PassOK
      <4>3. d # c
        BY <1>1, <1>2, <4>1, <4>2, NoRecordFacts DEF RecordOK
      <4>. QED
        BY <1>1, <1>4, <4>1, <4>2, <4>3, UpdateChanges
    <3>. QED
      BY <3>1, <3>2
  <2>. QED
    BY <1>1, <1>5, <2>1, <2>2 DEF PassOK
<1>. QED
  BY <1>1, <1>3, <1>4, <1>5, <1>6, UpdateKeeps

LEMMA ReleaseKeeps ==
  ASSUME DurabilityInv, NEW d \in Cmd, Release(d)
  PROVE  DurabilityInv'
<1>. DEFINE c == pass.cmd
            left == mem[d].blockedBy \ {c}
            r == [mem[d] EXCEPT !.blockedBy = left,
                                !.status = IF left = {} /\ @ = "blocked" THEN "pending" ELSE @]
<1>1. /\ TypeOK /\ PassOK /\ c \in Cmd /\ pass.phase = "releasing" /\ d \in pass.todo
      /\ mem[c].status \in Ended \cup {"none"}
  BY DEF DurabilityInv, Basic, PassOK, Release
<1>2. mem[d] \in Record /\ RecordOK(d, mem[d]) /\ mem[c] \in Record /\ RecordOK(c, mem[c])
  BY <1>1 DEF DurabilityInv, Basic, Well, TypeOK, Table
<1>3. ASSUME mem[d] # NoRecord PROVE Replaces(d, r)
  <2>1. /\ mem[d].blockedBy = {c} /\ waits[d] = c /\ mem[d].status = "blocked" /\ left = {}
        /\ mem[d].attempts < MaxAttempts
    BY <1>1, <1>2, <1>3 DEF PassOK, RecordOK
  <2>2. r \in Record /\ r.status = "pending" /\ r.blockedBy = {} /\ r.attempts = mem[d].attempts
    BY <1>2, <2>1 DEF Record, InMemory
  <2>3. RecordOK(d, r) /\ r # NoRecord
    BY <2>1, <2>2, NoRecordFacts DEF RecordOK
  <2>4. Waiting(d) => IsOver(mem[c]) \/ (mem[c] = NoRecord /\ IsOver(disk[c]))
    BY <1>1, <1>2, <1>3, <2>1, NoRecordFacts
       DEF DurabilityInv, Gated, MemGated, InView, IsOver, RecordOK, Ended
  <2>. QED
    BY <1>3, <2>1, <2>2, <2>3, <2>4 DEF Replaces, Release, Update, IsOver, Ended, InMemory
<1>4. Update(d, r) /\ UpdateFrame /\ up /\ latest' = latest
  BY DEF Release, UpdateFrame, database
<1>5. /\ pass' \in PassType /\ pass'.cmd = c /\ pass'.todo = pass.todo \ {d} /\ pass'.phase = "releasing"
  BY <1>1 DEF TypeOK, PassType, Release
<1>6. PassOK'
  <2>1. mem'[c].status \in Ended \cup {"none"}
    <3>1. d = c => mem[d] = NoRecord
      BY <1>1, <1>2, <1>3, NoRecordFacts DEF Replaces, RecordOK, Ended, PassOK
    <3>. QED
      BY <1>1, <1>4, <3>1, UpdateChanges
  <2>2. \A e \in pass'.todo : mem'[e] # NoRecord => c \in mem'[e].blockedBy
    BY <1>1, <1>4, <1>5, UpdateChanges DEF PassOK, TypeOK
  <2>. QED
    BY <1>1, <1>5, <2>1, <2>2 DEF PassOK
<1>. QED
  BY <1>1, <1>3, <1>4, <1>5, <1>6, UpdateKeeps

LEMMA ApplyKeeps ==
  ASSUME DurabilityInv, NEW c \in Cmd, Apply(c)
  PROVE  DurabilityInv'
<1>. DEFINE r == [mem[c] EXCEPT !.status = "applied"]
<1>1. /\ TypeOK /\ PassOK /\ RecordOK(c, mem[c]) /\ mem[c] \in Record
      /\ mem[c] # NoRecord /\ mem[c].status = "succeeded"
  BY NoRecordFacts DEF DurabilityInv, Basic, Well, TypeOK, Table, Apply
<1>2. /\ r \in Record /\ r.status = "applied" /\ mem[c].blockedBy = {} /\ r.blockedBy = {}
  BY <1>1 DEF RecordOK, Record, Ended
<1>3. RecordOK(c, r) /\ r # NoRecord
  BY <1>2, NoRecordFacts DEF RecordOK
<1>4. Replaces(c, r)
  BY <1>1, <1>2, <1>3 DEF Replaces, Apply, Update, IsOver, Ended, InMemory
<1>5. pass' = pass /\ pass \in PassType /\ mem'[c] = r /\ \A d \in Cmd \ {c} : mem'[d] = mem[d]
  BY <1>1, UpdateChanges DEF Apply, queue, TypeOK, PassType
<1>6. PassOK'
  BY <1>1, <1>2, <1>5 DEF PassOK, TypeOK, Ended
<1>. QED
  BY <1>1, <1>4, <1>5, <1>6, UpdateKeeps DEF Apply, UpdateFrame, database, queue

LEMMA DependentsKeep == ASSUME DurabilityInv, Dependents PROVE DurabilityInv'
<1>1. TypeOK /\ PassOK /\ Unborn
  BY DEF DurabilityInv, Basic
<1>2. /\ pass' \in PassType /\ pass'.cmd = pass.cmd /\ pass'.phase = "releasing"
      /\ pass'.todo = {d \in active : pass.cmd \in mem[d].blockedBy} /\ pass.phase = "ended"
  BY <1>1 DEF Dependents, TypeOK, PassType
<1>3. PassOK'
  BY <1>1, <1>2 DEF PassOK, Dependents, memory
<1>4. \A d \in pass'.todo : enq[d] # "new"
  BY <1>1, <1>2, NoRecordFacts DEF TypeOK, Unborn, InMemory
<1>. QED
  BY <1>1, <1>2, <1>3, <1>4, QuietKeeps DEF Dependents, TypeOK

LEMMA PassEndsKeeps == ASSUME DurabilityInv, PassEnds PROVE DurabilityInv'
<1>1. pass' \in PassType /\ pass'.cmd = NoCmd /\ pass'.todo = {} /\ pass'.phase = "idle"
  BY DEF PassEnds, IdlePass, PassType
<1>2. PassOK'
  BY <1>1 DEF PassOK
<1>. QED
  BY <1>1, <1>2, QuietKeeps DEF PassEnds, DurabilityInv, Basic, TypeOK

LEMMA ResumeKeeps == ASSUME DurabilityInv, Resume PROVE DurabilityInv'
<1>1. PassOK'
  BY DEF DurabilityInv, Basic, PassOK, Resume, memory
<1>. QED
  BY <1>1, QuietKeeps DEF Resume, DurabilityInv, Basic, TypeOK, PassType

-----------------------------------------------------------------------------
(* The TTL sweep.                                                          *)

LEMMA SweepKeeps == ASSUME DurabilityInv, NEW c \in Cmd, Sweep(c) PROVE DurabilityInv'
<1>. USE DEF DurabilityInv, Basic, Sweep, database, queue, session
<1>1. /\ mem \in [Cmd -> Record] /\ mem'[c] = NoRecord /\ \A d \in Cmd \ {c} : mem'[d] = mem[d]
      /\ mem' \in Table /\ mem[c] # NoRecord /\ batch[c] = NoRecord /\ c \notin dirty
      /\ mem[c].status \in {"applied", "failed"}
  <2>1. mem[c] \in Record /\ mem[c].status \notin InMemory /\ mem[c] # NoRecord
    BY DEF TypeOK, Table, Present
  <2>2. mem[c].status \in {"applied", "failed"}
    BY <2>1 DEF Record, Well, RecordOK, Ended, InMemory
  <2>. QED
    BY <2>1, <2>2, NoRecordFacts DEF TypeOK, Table, Present
<1>2. enq[c] # "saving"
  BY <1>1, FirstRecordFacts DEF Served, SavesFresh, Saving, TypeOK, IsOver, Ended
<1>3. mem[c] = disk[c] \/ (c \in caught /\ disk[c] = NoRecord)
  BY <1>1, <1>2 DEF Stored, Follows
<1>4. Basic'
  <2>1. TypeOK'
    <3>1. active' = {d \in Cmd : mem'[d].status \in InMemory}
      BY <1>1, NoRecordFacts DEF TypeOK, InMemory
    <3>. QED
      BY <1>1, <3>1 DEF TypeOK
  <2>2. PassOK'
    BY <1>1, NoRecordFacts DEF PassOK, TypeOK
  <2>3. Unborn' /\ Down' /\ Well' /\ RowsReturned' /\ RowsCounted'
    BY <1>1 DEF Unborn, Down, Well, RecordOK, RowsReturned, RowsCounted
  <2>. QED
    BY <2>1, <2>2, <2>3
<1>5. Served'
  BY <1>1, <1>2 DEF Served, SavesAwaited, OneRequest, SavedBehind, SavesFresh, Saving, Saves, Asks, FirstRecord
<1>6. Stored'
  BY <1>1, <1>3 DEF Stored, Copies, Follows, Kept, Filed, Monotone
<1>7. Gated'
  <2>1. Filed(c) => IsOver(disk[c])
    BY <1>1, <1>2, <1>3 DEF Filed, IsOver, Ended
  <2>2. Linked' /\ BatchGated' /\ DiskGated'
    BY <1>1 DEF Gated, Linked, Filed, BatchGated, DiskGated, Waiting
  <2>3. LatestKept'
    BY <1>1, <2>1 DEF Gated, LatestKept, Filed, InView
  <2>4. MemGated'
    BY <1>1, <2>1, NoRecordFacts DEF Gated, MemGated, Linked, Filed, InView, Waiting, IsOver
  <2>. QED
    BY <2>2, <2>3, <2>4 DEF Gated
<1>8. Sessions'
  BY <1>1, <1>3 DEF Sessions, ClearPassed, Recent, Inserts, Asks, Eras, Known
<1>. QED
  BY <1>4, <1>5, <1>6, <1>7, <1>8

-----------------------------------------------------------------------------
(* Clearing.                                                               *)

LEMMA ClearBeginKeeps == ASSUME DurabilityInv, ClearBegin PROVE DurabilityInv'
<1>. USE DEF DurabilityInv, Basic, ClearBegin, memory, database
<1>1. Basic'
  <2>1. TypeOK'
    BY DEF TypeOK
  <2>2. Unborn' /\ Down' /\ RowsCounted' /\ PassOK'
    BY DEF Unborn, Down, RowsCounted, PassOK
  <2>3. Well' /\ RowsReturned'
    BY DEF Well, RecordOK, RowsReturned
  <2>. QED
    BY <2>1, <2>2, <2>3
<1>2. Served'
  BY DEF Served, SavesAwaited, OneRequest, SavedBehind, SavesFresh, Saving, Saves, Asks, FirstRecord
<1>3. Stored' /\ Gated'
  BY DEF Stored, Copies, Follows, Kept, Filed, Monotone, Gated, Linked, LatestKept, InView, MemGated,
         BatchGated, DiskGated, Waiting
<1>4. Sessions'
  BY DEF Sessions, ClearPassed, Recent, Inserts, Asks, Eras, Known, TypeOK
<1>. QED
  BY <1>1, <1>2, <1>3, <1>4

LEMMA ClearResetKeeps == ASSUME DurabilityInv, ClearReset PROVE DurabilityInv'
<1>. USE DEF DurabilityInv, Basic, ClearReset, memory, database, queue
<1>1. Basic'
  <2>1. TypeOK'
    BY DEF TypeOK
  <2>2. Unborn' /\ Down' /\ RowsCounted' /\ PassOK'
    BY DEF Unborn, Down, RowsCounted, PassOK
  <2>3. Well' /\ RowsReturned'
    BY DEF Well, RecordOK, RowsReturned
  <2>. QED
    BY <2>1, <2>2, <2>3
<1>2. Served'
  BY DEF Served, SavesAwaited, OneRequest, SavedBehind, SavesFresh, Saving, Saves, Asks, FirstRecord
<1>3. Stored' /\ Gated'
  BY DEF Stored, Copies, Follows, Kept, Filed, Monotone, Gated, Linked, LatestKept, InView, MemGated,
         BatchGated, DiskGated, Waiting
<1>4. Sessions'
  BY DEF Sessions, ClearPassed, Recent, Inserts, Asks, Eras, Known
<1>. QED
  BY <1>1, <1>2, <1>3, <1>4

LEMMA ClearMemoryKeeps == ASSUME DurabilityInv, ClearMemory PROVE DurabilityInv'
<1>. USE DEF DurabilityInv, Basic, ClearMemory, database, queue
<1>1. /\ \A c \in Cmd : mem'[c] = NoRecord
      /\ clear' \in {"flushing", "settled"} /\ (clear' = "settled" => \A c \in Cmd : batch[c] = NoRecord)
  BY NoRecordFacts DEF TypeOK
<1>2. Basic'
  <2>1. TypeOK'
    BY NoRecordFacts DEF TypeOK, InMemory
  <2>2. PassOK'
    BY <1>1, NoRecordFacts DEF PassOK, TypeOK
  <2>3. Unborn' /\ Down' /\ Well' /\ RowsReturned' /\ RowsCounted'
    BY <1>1 DEF Unborn, Down, Well, RecordOK, RowsReturned, RowsCounted
  <2>. QED
    BY <2>1, <2>2, <2>3
<1>3. Served'
  BY <1>1 DEF Served, SavesAwaited, OneRequest, SavedBehind, SavesFresh, Saving, Saves, Asks, FirstRecord
<1>4. Stored' /\ Gated'
  BY <1>1 DEF Stored, Copies, Follows, Kept, Filed, Monotone, Gated, Linked, LatestKept, InView, MemGated,
         BatchGated, DiskGated, Waiting
<1>5. Sessions'
  BY <1>1 DEF Sessions, ClearPassed, Recent, Inserts, Asks, Eras, Known
<1>. QED
  BY <1>2, <1>3, <1>4, <1>5

LEMMA ClearEndKeeps == ASSUME DurabilityInv, ClearEnd PROVE DurabilityInv'
<1>. USE DEF DurabilityInv, Basic, ClearEnd, memory, database
<1>1. Basic'
  <2>1. TypeOK'
    BY DEF TypeOK
  <2>2. Unborn' /\ Down' /\ RowsCounted' /\ PassOK'
    BY NoCmdAssumption DEF Unborn, Down, RowsCounted, PassOK
  <2>3. Well' /\ RowsReturned'
    BY DEF Well, RecordOK, RowsReturned
  <2>. QED
    BY <2>1, <2>2, <2>3
<1>2. Served'
  BY DEF Served, SavesAwaited, OneRequest, SavedBehind, SavesFresh, Saving, Saves, Asks, FirstRecord
<1>3. Stored' /\ Gated'
  BY DEF Stored, Copies, Follows, Kept, Filed, Monotone, Gated, Linked, LatestKept, InView, MemGated,
         BatchGated, DiskGated, Waiting
<1>4. Sessions'
  <2>1. ClearPassed' /\ Known'
    BY DEF Sessions, ClearPassed, Recent, Inserts, Asks, Known
  <2>2. \A c \in Cmd : \/ mem[c] # NoRecord \/ disk[c] # NoRecord
                        \/ batch[c] # NoRecord \/ enq[c] = "saving"
                       => savedIn[c] = era
    BY DEF Sessions, ClearPassed, Recent, Inserts, Served, SavesAwaited, Saves, Saving
  <2>3. Eras'
    BY <2>2 DEF Sessions, Eras, TypeOK
  <2>. QED
    BY <2>1, <2>3 DEF Sessions
<1>. QED
  BY <1>1, <1>2, <1>3, <1>4

-----------------------------------------------------------------------------
(* Crash and restart.                                                      *)

LEMMA CrashKeeps == ASSUME DurabilityInv, Crash PROVE DurabilityInv'
<1>. USE DEF DurabilityInv, Basic, Crash, database
<1>1. /\ \A c \in Cmd : mem'[c] = NoRecord /\ batch'[c] = NoRecord /\ enq'[c] # "saving"
      /\ Saving' = {} /\ DOMAIN io' = {}
      /\ \A c \in Cmd : disk[c] # NoRecord => enq'[c] = "returned"
      /\ \A c \in Cmd : (enq'[c] = "new" <=> enq[c] = "new") /\ (enq'[c] = "returned" => enq[c] = "returned")
  BY NoRecordFacts DEF TypeOK, Saving, RowsReturned
<1>2. Basic'
  <2>1. TypeOK'
    <3>1. IdlePass \in PassType
      BY DEF IdlePass, PassType
    <3>2. active' = {c \in Cmd : mem'[c].status \in InMemory}
      BY <1>1, NoRecordFacts DEF InMemory
    <3>3. io' \in Seq(Request)
      BY EmptySeq
    <3>4. enq' \in [Cmd -> {"new", "saving", "returned", "lost"}]
      BY DEF TypeOK
    <3>5. mem' \in Table /\ batch' \in Table /\ dirty' \subseteq Cmd /\ batch' = EmptyTable
      BY NoRecordFacts
    <3>6. pass' \in PassType
      BY <3>1
    <3>9. up' \in BOOLEAN /\ paused' \in BOOLEAN
      BY DEF TypeOK
    <3>7. /\ disk' \in Table /\ rowSeq' \in [Cmd -> Nat]
          /\ rowCount' \in Nat /\ era' \in Nat /\ cleared' \in Nat /\ savedIn' \in [Cmd -> Nat]
          /\ waits' \in [Cmd -> Cmd \cup {NoCmd}] /\ caught' \subseteq Cmd /\ crashes' \in Nat
      BY DEF TypeOK
    <3>8. flush' = "none" /\ latest' = NoCmd /\ clear' = "none"
      OBVIOUS
    <3>. HIDE DEF Crash, DurabilityInv, Basic
    <3>. QED
      BY <3>2, <3>3, <3>4, <3>5, <3>6, <3>7, <3>8, <3>9 DEF TypeOK, PassType
  <2>2. Unborn' /\ Down' /\ Well' /\ RowsReturned' /\ RowsCounted' /\ PassOK'
    BY <1>1, NoCmdAssumption
       DEF Unborn, Down, Well, RecordOK, RowsReturned, RowsCounted, PassOK, IdlePass
  <2>. QED
    BY <2>1, <2>2
<1>3. Served'
  BY <1>1 DEF Served, SavesAwaited, OneRequest, SavedBehind, SavesFresh, Saves, Asks
<1>4. Stored' /\ LatestKept' /\ MemGated' /\ BatchGated' /\ DiskGated'
  BY <1>1 DEF Stored, Copies, Follows, Kept, Monotone, Gated, LatestKept, MemGated,
         BatchGated, DiskGated, Waiting
<1>6. Linked'
  <2>1. ASSUME NEW c \in Cmd, Waiting(c), disk[c] # NoRecord PROVE disk[waits[c]] # NoRecord
    <3>1. Filed(waits[c]) /\ enq[c] = "returned" /\ waits[c] \in Cmd
      BY <2>1 DEF Gated, Linked, Filed, RowsReturned, Waiting, TypeOK
    <3>2. waits[c] \notin Saving
      BY <2>1, <3>1 DEF Served, SavedBehind, Saving
    <3>. QED
      BY <3>1, <3>2 DEF Filed, Saving
  <2>. QED
    BY <1>1, <2>1 DEF Linked, Filed, Waiting
<1>5. Sessions'
  BY <1>1 DEF Sessions, ClearPassed, Recent, Inserts, Asks, Eras, Known
<1>. QED
  BY <1>2, <1>3, <1>4, <1>5, <1>6 DEF Gated

-----------------------------------------------------------------------------
(* A request is appended, or served.                                       *)

LEMMA AppendFacts ==
  ASSUME NEW S, NEW s \in Seq(S), NEW e \in S
  PROVE  /\ Append(s, e) \in Seq(S) /\ DOMAIN s = 1..Len(s) /\ Len(s) \in Nat
         /\ DOMAIN Append(s, e) = 1..(Len(s) + 1)
         /\ \A i \in 1..Len(s) : Append(s, e)[i] = s[i]
         /\ Append(s, e)[Len(s) + 1] = e
OBVIOUS

LEMMA TailFacts ==
  ASSUME NEW S, NEW s \in Seq(S), s # <<>>
  PROVE  /\ Tail(s) \in Seq(S) /\ DOMAIN s = 1..Len(s) /\ Len(s) \in Nat \ {0}
         /\ DOMAIN Tail(s) = 1..(Len(s) - 1)
         /\ \A i \in 1..(Len(s) - 1) : Tail(s)[i] = s[i + 1]
         /\ Head(s) = s[1] /\ Head(s) \in S
BY HeadTailProperties, LenProperties, EmptySeq

\* What is asked after an append, and where.
LEMMA AppendAsks ==
  ASSUME io \in Seq(Request), NEW q \in Request, io' = Append(io, q)
  PROVE  /\ io' \in Seq(Request) /\ Len(io) + 1 \in Nat
         /\ \A i \in DOMAIN io : i \in Nat /\ i < Len(io) + 1 /\ i # Len(io) + 1
         /\ \A i : i \in DOMAIN io' <=> i \in DOMAIN io \/ i = Len(io) + 1
         /\ \A i \in DOMAIN io : io'[i] = io[i]
         /\ io'[Len(io) + 1] = q
         /\ \A i, op : Asks(i, op)' <=> Asks(i, op) \/ (i = Len(io) + 1 /\ op = q.op)
<1>1. /\ Append(io, q) \in Seq(Request) /\ DOMAIN io = 1..Len(io) /\ Len(io) \in Nat
      /\ DOMAIN Append(io, q) = 1..(Len(io) + 1)
      /\ \A i \in 1..Len(io) : Append(io, q)[i] = io[i]
      /\ Append(io, q)[Len(io) + 1] = q
  BY AppendFacts
<1>2. /\ \A i \in DOMAIN io : i \in Nat /\ i < Len(io) + 1 /\ i # Len(io) + 1
      /\ \A i : i \in DOMAIN io' <=> i \in DOMAIN io \/ i = Len(io) + 1
      /\ \A i \in DOMAIN io : io'[i] = io[i]
      /\ io'[Len(io) + 1] = q
  BY <1>1
<1>3. \A i, op : Asks(i, op)' <=> Asks(i, op) \/ (i = Len(io) + 1 /\ op = q.op)
  BY <1>2 DEF Asks
<1>. QED
  BY <1>1, <1>2, <1>3

\* What is asked after the first request is served.
LEMMA TailAsks ==
  ASSUME io \in Seq(Request), io # <<>>, io' = Tail(io)
  PROVE  /\ io' \in Seq(Request) /\ Head(io) \in Request /\ 1 \in DOMAIN io /\ io[1] = Head(io)
         /\ \A i \in DOMAIN io : i \in Nat /\ i >= 1
         /\ \A i \in DOMAIN io' : i \in Nat /\ i >= 1 /\ i + 1 \in DOMAIN io /\ io'[i] = io[i + 1]
         /\ \A i \in DOMAIN io : i # 1 => i - 1 \in DOMAIN io' /\ io'[i - 1] = io[i]
         /\ \A i, op : Asks(i, op)' => Asks(i + 1, op) /\ io'[i] = io[i + 1] /\ i \in Nat \ {0}
         /\ \A i, op : Asks(i, op) /\ i # 1 => Asks(i - 1, op)' /\ io'[i - 1] = io[i]
<1>1. /\ Tail(io) \in Seq(Request) /\ DOMAIN io = 1..Len(io) /\ Len(io) \in Nat \ {0}
      /\ DOMAIN Tail(io) = 1..(Len(io) - 1)
      /\ \A i \in 1..(Len(io) - 1) : Tail(io)[i] = io[i + 1]
      /\ Head(io) = io[1] /\ Head(io) \in Request
  BY TailFacts
<1>2. /\ 1 \in DOMAIN io /\ \A i \in DOMAIN io : i \in Nat /\ i >= 1
      /\ \A i \in DOMAIN io' : i \in Nat /\ i >= 1 /\ i + 1 \in DOMAIN io /\ io'[i] = io[i + 1]
  BY <1>1
<1>3. ASSUME NEW i \in DOMAIN io, i # 1
      PROVE  i - 1 \in DOMAIN io' /\ io'[i - 1] = io[i]
  <2>1. i - 1 \in DOMAIN io' /\ (i - 1) + 1 = i
    BY <1>1, <1>3
  <2>. QED
    BY <1>2, <2>1
<1>4. \A i, op : Asks(i, op)' => Asks(i + 1, op) /\ io'[i] = io[i + 1] /\ i \in Nat \ {0}
  BY <1>2 DEF Asks
<1>5. \A i, op : Asks(i, op) /\ i # 1 => Asks(i - 1, op)' /\ io'[i - 1] = io[i]
  BY <1>3 DEF Asks
<1>. QED
  BY <1>1, <1>2, <1>3, <1>4, <1>5

\* A request that saves nothing is appended.
LEMMA AppendKeeps ==
  ASSUME TypeOK, NEW q \in Request, q.op # "save", io' = Append(io, q), enq' = enq, waits' = waits,
         SavesAwaited, SavedBehind
  PROVE  /\ io' \in Seq(Request) /\ Saving' = Saving /\ SavesAwaited' /\ SavedBehind'
         /\ \A i, op : Asks(i, op) => i \in DOMAIN io /\ i < Len(io) + 1 /\ i # Len(io) + 1
         /\ \A i : i \in DOMAIN io' <=> i \in DOMAIN io \/ i = Len(io) + 1
         /\ \A i \in DOMAIN io : io'[i] = io[i] /\ i < Len(io) + 1
         /\ io'[Len(io) + 1] = q
         /\ \A i, op : Asks(i, op)' <=> Asks(i, op) \/ (i = Len(io) + 1 /\ op = q.op)
         /\ \A i, c : Saves(i, c)' <=> Saves(i, c)
         /\ \A i, c : Inserts(i, c)' => Inserts(i, c)
                        \/ (i = Len(io) + 1 /\ q.op = "write" /\ q.rows[c] # NoRecord)
<1>1. /\ io' \in Seq(Request)
      /\ \A i \in DOMAIN io : i \in Nat /\ i < Len(io) + 1 /\ i # Len(io) + 1
      /\ \A i : i \in DOMAIN io' <=> i \in DOMAIN io \/ i = Len(io) + 1
      /\ \A i \in DOMAIN io : io'[i] = io[i]
      /\ io'[Len(io) + 1] = q
      /\ \A i, op : Asks(i, op)' <=> Asks(i, op) \/ (i = Len(io) + 1 /\ op = q.op)
  BY AppendAsks DEF TypeOK
<1>2. Saving' = Saving /\ \A i, op : Asks(i, op) => i \in DOMAIN io
  BY DEF Asks, Saving
<1>3. /\ \A i, c : Saves(i, c)' <=> Saves(i, c)
      /\ \A i, c : Saves(i, c) => i \in DOMAIN io /\ i \in DOMAIN io' /\ io'[i] = io[i]
  BY <1>1, <1>2 DEF Saves
<1>4. \A i, c : Inserts(i, c)' => Inserts(i, c)
                  \/ (i = Len(io) + 1 /\ q.op = "write" /\ q.rows[c] # NoRecord)
  BY <1>1, <1>2 DEF Inserts
<1>5. \A c \in Cmd : FirstRecord(c)' = FirstRecord(c)
  BY DEF FirstRecord
<1>6. SavesAwaited'
  BY <1>2, <1>3, <1>5 DEF SavesAwaited
<1>7. SavedBehind'
  BY <1>2, <1>3 DEF SavedBehind
<1>. QED
  BY <1>1, <1>2, <1>3, <1>4, <1>6, <1>7

LEMMA ClearDiskKeeps == ASSUME DurabilityInv, ClearDisk PROVE DurabilityInv'
<1>. DEFINE q == [op |-> "clear", rows |-> EmptyTable]
            n == Len(io) + 1
<1>. USE DEF DurabilityInv, Basic, ClearDisk, memory, database, queue, session
<1>1. q \in Request /\ q.op = "clear"
  BY NoRecordFacts DEF Request
<1>2. /\ io' \in Seq(Request) /\ Saving' = Saving /\ SavesAwaited' /\ SavedBehind'
      /\ \A i, op : Asks(i, op) => i \in DOMAIN io /\ i < n
      /\ \A i : i \in DOMAIN io' <=> i \in DOMAIN io \/ i = n
      /\ \A i \in DOMAIN io : io'[i] = io[i] /\ i < n
      /\ \A i, op : Asks(i, op)' <=> Asks(i, op) \/ (i = n /\ op = "clear")
      /\ \A i, c : Saves(i, c)' <=> Saves(i, c)
      /\ \A i, c : Inserts(i, c)' => Inserts(i, c)
      /\ n \in Nat
  <2>1. io' = Append(io, q)
    OBVIOUS
  <2>. HIDE DEF q
  <2>. QED
    BY <1>1, <2>1, AppendKeeps, AppendAsks DEF Served, TypeOK
<1>3. Basic'
  <2>1. TypeOK'
    BY <1>2 DEF TypeOK
  <2>2. Unborn' /\ Down' /\ RowsCounted' /\ PassOK'
    BY DEF Unborn, Down, RowsCounted, PassOK
  <2>3. Well' /\ RowsReturned'
    BY DEF Well, RecordOK, RowsReturned
  <2>. QED
    BY <2>1, <2>2, <2>3
<1>4. OneRequest'
  BY <1>2 DEF Served, OneRequest
<1>5. SavesFresh'
  BY <1>2 DEF Served, SavesFresh, FirstRecord, OneRequest, Saves
<1>6. Stored' /\ Gated'
  BY DEF Stored, Copies, Follows, Kept, Filed, Monotone, Gated, Linked, LatestKept, InView, MemGated,
         BatchGated, DiskGated, Waiting
<1>7. ClearPassed'
  BY <1>2 DEF Sessions, ClearPassed, Recent, Served, OneRequest, Inserts
<1>. QED
  BY <1>2, <1>3, <1>4, <1>5, <1>6, <1>7 DEF Served, Sessions, Eras, Known

-----------------------------------------------------------------------------
(* The flush.                                                              *)

LEMMA FlushStartKeeps == ASSUME DurabilityInv, FlushStart PROVE DurabilityInv'
<1>. DEFINE q == [op |-> "read", rows |-> batch']
            n == Len(io) + 1
<1>. USE DEF DurabilityInv, Basic, database, queue, session
<1>1. /\ up /\ flush = "scheduled" /\ batch = EmptyTable /\ dirty' = {}
      /\ \A c \in Cmd : batch[c] = NoRecord
      /\ UNCHANGED <<up, mem, active, disk, rowSeq, rowCount, latest, enq, pass, paused, clear, era,
                     savedIn, waits, caught, cleared, crashes>>
  BY NoRecordFacts DEF FlushStart, TakeBatch, TypeOK
<1>2. /\ batch' \in Table
      /\ \A c \in Cmd : c \in dirty => batch'[c] = mem[c]
      /\ \A c \in Cmd : batch'[c] # NoRecord => c \in dirty /\ batch'[c] = mem[c]
  BY NoRecordFacts DEF FlushStart, TakeBatch, Only, TypeOK, Table
<1>3. \/ flush' = "written" /\ io' = io /\ \A c \in Cmd : batch'[c] = NoRecord
      \/ flush' = "reading" /\ io' = Append(io, q)
  BY DEF FlushStart, Present
<1>4. /\ io' \in Seq(Request) /\ Saving' = Saving /\ SavesAwaited' /\ SavedBehind'
      /\ \A i, op : Asks(i, op) => i \in DOMAIN io /\ i < n
      /\ \A i \in DOMAIN io' : i \in DOMAIN io \/ i = n
      /\ \A i, op : Asks(i, op)' => Asks(i, op) \/ (i = n /\ op = "read" /\ flush' = "reading")
      /\ \A i, c : Saves(i, c)' <=> Saves(i, c)
      /\ \A i, c : Inserts(i, c)' => Inserts(i, c)
      /\ n \in Nat
  <2>1. CASE io' = io /\ flush' = "written"
    <3>1. SavesAwaited' /\ SavedBehind' /\ Saving' = Saving
      BY <1>1, <2>1 DEF Served, SavesAwaited, SavedBehind, Saving, Saves, Asks, FirstRecord
    <3>2. /\ n \in Nat /\ \A i \in DOMAIN io : i < n
      BY LenProperties DEF TypeOK
    <3>. QED
      BY <2>1, <3>1, <3>2 DEF TypeOK, Saves, Inserts, Asks
  <2>2. CASE io' = Append(io, q) /\ flush' = "reading"
    <3>1. q \in Request /\ q.op = "read"
      BY <1>2 DEF Request
    <3>. HIDE DEF q
    <3>. QED
      BY <1>1, <2>2, <3>1, AppendKeeps, AppendAsks DEF Served, TypeOK
  <2>. QED
    BY <1>3, <2>1, <2>2
<1>5. Basic'
  <2>1. TypeOK'
    BY <1>1, <1>2, <1>3, <1>4 DEF TypeOK
  <2>2. Unborn' /\ Down' /\ RowsCounted' /\ PassOK'
    BY <1>1, <1>2 DEF Unborn, Down, RowsCounted, PassOK
  <2>3. Well' /\ RowsReturned'
    BY <1>1, <1>2 DEF Well, RecordOK, RowsReturned
  <2>. QED
    BY <2>1, <2>2, <2>3
<1>6. OneRequest'
  BY <1>1, <1>4 DEF Served, OneRequest, Asks
<1>7. SavesFresh'
  <2>1. \A i, j : Asks(j, "clear")' => Asks(j, "clear")
    BY <1>4
  <2>2. \A i, j, c : Saves(i, c) /\ Asks(j, "read")' => i < j
    BY <1>1, <1>4 DEF Served, OneRequest, Saves, Asks
  <2>3. \A c \in Cmd : FirstRecord(c)' = FirstRecord(c)
    BY <1>1 DEF FirstRecord
  <2>4. \A c \in Saving : batch'[c] # NoRecord => flush' = "reading"
    BY <1>2, <1>3 DEF Saving
  <2>5. \A c \in Saving : mem[c] # NoRecord => mem[c] = FirstRecord(c) \/ batch'[c] # NoRecord
    BY <1>1, <1>2 DEF Served, SavesFresh, Saving
  <2>6. \A c \in Saving : mem[c] = NoRecord =>
           \/ clear \in {"flushing", "settled"}
           \/ /\ clear = "deleting"
              /\ \A i, j \in DOMAIN io : Saves(i, c) /\ Asks(j, "clear") => i < j
    BY DEF Served, SavesFresh
  <2>7. \A i, j, c : Saves(i, c)' /\ Asks(j, "clear")' => i \in DOMAIN io /\ j \in DOMAIN io
    BY <1>4, <2>1 DEF Saves
  <2>8. ASSUME NEW c \in Saving
        PROVE  /\ mem'[c] = NoRecord =>
                    \/ clear' \in {"flushing", "settled"}
                    \/ /\ clear' = "deleting"
                       /\ \A i, j \in DOMAIN io' : Saves(i, c)' /\ Asks(j, "clear")' => i < j
               /\ mem'[c] # NoRecord => mem'[c] = FirstRecord(c)' \/ c \in dirty' \/ batch'[c] # NoRecord
               /\ batch'[c] # NoRecord =>
                    /\ flush' = "reading"
                    /\ \A i, j \in DOMAIN io' : Saves(i, c)' /\ Asks(j, "read")' => i < j
    <3>1. c \in Cmd
      BY DEF Saving
    <3>2. \A i, j \in DOMAIN io' : Saves(i, c)' /\ Asks(j, "read")' => i < j
      BY <1>4, <2>2
    <3>. QED
      BY <1>1, <1>4, <2>1, <2>3, <2>4, <2>5, <2>6, <2>7, <3>1, <3>2
  <2>. QED
    BY <1>4, <2>8 DEF SavesFresh
<1>8. Stored'
  BY <1>1, <1>2, <1>3 DEF Stored, Copies, Follows, Kept, Filed, Monotone
<1>9. Gated'
  <2>1. ASSUME NEW c \in Cmd, Waiting(c), batch'[c] # NoRecord, batch'[c].status # "blocked"
        PROVE  IsOver(batch'[waits[c]]) \/ IsOver(disk[waits[c]])
    <3>. DEFINE p == waits[c]
    <3>1. /\ p \in Cmd /\ Filed(p) /\ mem[c] # NoRecord
          /\ IsOver(mem[p]) \/ (mem[p] = NoRecord /\ IsOver(disk[p]))
      BY <1>2, <2>1 DEF Gated, MemGated, Linked, Waiting, TypeOK
    <3>2. CASE IsOver(mem[p]) /\ p \notin dirty
      <4>1. p \notin Saving
        BY <1>1, <3>1, <3>2, NoRecordFacts, FirstRecordFacts DEF Served, SavesFresh, TypeOK
      <4>2. mem[p] = disk[p]
        BY <1>1, <3>1, <3>2, <4>1, NoRecordFacts DEF Stored, Follows, Filed, Saving
      <4>. QED
        BY <3>2, <4>2
    <3>. QED
      BY <1>2, <3>1, <3>2
  <2>2. BatchGated'
    BY <1>1, <2>1 DEF BatchGated, Waiting
  <2>3. Linked' /\ LatestKept' /\ MemGated' /\ DiskGated'
    BY <1>1, <1>2 DEF Gated, Linked, Filed, LatestKept, InView, MemGated, DiskGated, Waiting
  <2>. QED
    BY <2>2, <2>3 DEF Gated
<1>10. Sessions'
  BY <1>1, <1>2, <1>4 DEF Sessions, ClearPassed, Recent, Eras, Known, Inserts
<1>. QED
  BY <1>4, <1>5, <1>6, <1>7, <1>8, <1>9, <1>10 DEF Served

LEMMA FlushWriteKeeps == ASSUME DurabilityInv, FlushWrite PROVE DurabilityInv'
<1>. DEFINE q == [op |-> "write", rows |-> batch]
            n == Len(io) + 1
<1>. USE DEF DurabilityInv, Basic, database, queue, session
<1>1. /\ up /\ flush = "found"
      /\ UNCHANGED <<up, mem, active, dirty, batch, disk, rowSeq, rowCount, latest, enq, pass, paused,
                     clear, era, savedIn, waits, caught, cleared, crashes>>
  BY DEF FlushWrite
<1>2. \A c \in Saving : batch[c] = NoRecord
  BY <1>1 DEF Served, SavesFresh
<1>3. \/ flush' = "written" /\ io' = io /\ \A c \in Cmd : batch[c] = NoRecord
      \/ flush' = "writing" /\ io' = Append(io, q)
  BY DEF FlushWrite, Present
<1>4. /\ io' \in Seq(Request) /\ Saving' = Saving /\ SavesAwaited' /\ SavedBehind'
      /\ \A i, op : Asks(i, op) => i \in DOMAIN io /\ i < n
      /\ \A i \in DOMAIN io : io'[i] = io[i]
      /\ \A i, op : Asks(i, op)' =>
           Asks(i, op) \/ (i = n /\ op = "write" /\ flush' = "writing" /\ io'[n].rows = batch)
      /\ \A i, c : Saves(i, c)' <=> Saves(i, c)
      /\ \A i, c : Inserts(i, c)' => Inserts(i, c) \/ (i = n /\ batch[c] # NoRecord)
      /\ n \in Nat
  <2>1. CASE io' = io /\ flush' = "written"
    <3>1. SavesAwaited' /\ SavedBehind' /\ Saving' = Saving
      BY <1>1, <2>1 DEF Served, SavesAwaited, SavedBehind, Saving, Saves, Asks, FirstRecord
    <3>2. /\ n \in Nat /\ \A i \in DOMAIN io : i < n
      BY LenProperties DEF TypeOK
    <3>. QED
      BY <2>1, <3>1, <3>2 DEF TypeOK, Saves, Inserts, Asks
  <2>2. CASE io' = Append(io, q) /\ flush' = "writing"
    <3>1. q \in Request /\ q.op = "write" /\ q.rows = batch
      BY DEF Request, TypeOK
    <3>. HIDE DEF q
    <3>. QED
      BY <1>1, <2>2, <3>1, AppendKeeps, AppendAsks DEF Served, TypeOK
  <2>. QED
    BY <1>3, <2>1, <2>2
<1>5. Basic'
  <2>1. TypeOK'
    BY <1>1, <1>3, <1>4 DEF TypeOK
  <2>2. Unborn' /\ Down' /\ RowsCounted' /\ PassOK'
    BY <1>1 DEF Unborn, Down, RowsCounted, PassOK
  <2>3. Well' /\ RowsReturned'
    BY <1>1 DEF Well, RecordOK, RowsReturned
  <2>. QED
    BY <2>1, <2>2, <2>3
<1>6. OneRequest'
  <2>1. \A i : Asks(i, "write")' => i = n /\ flush' = "writing" /\ io'[i].rows = batch
    BY <1>1, <1>4 DEF Served, OneRequest
  <2>2. \A i : ~Asks(i, "read")' /\ (Asks(i, "clear")' => Asks(i, "clear"))
    BY <1>1, <1>4 DEF Served, OneRequest
  <2>. QED
    BY <1>1, <2>1, <2>2 DEF Served, OneRequest, Asks
<1>7. SavesFresh'
  <2>1. \A c \in Cmd : FirstRecord(c)' = FirstRecord(c)
    BY <1>1 DEF FirstRecord
  <2>2. \A i, j, c : Saves(i, c)' /\ Asks(j, "clear")' =>
           Saves(i, c) /\ Asks(j, "clear") /\ i \in DOMAIN io /\ j \in DOMAIN io
    BY <1>4 DEF Saves
  <2>3. \A c \in Saving : /\ mem'[c] = mem[c] /\ dirty' = dirty /\ clear' = clear
                          /\ batch'[c] = NoRecord /\ FirstRecord(c)' = FirstRecord(c)
    BY <1>1, <1>2, <2>1 DEF Saving
  <2>4. \A c \in Saving : mem[c] = NoRecord =>
           \/ clear \in {"flushing", "settled"}
           \/ /\ clear = "deleting"
              /\ \A i, j \in DOMAIN io : Saves(i, c) /\ Asks(j, "clear") => i < j
    BY DEF Served, SavesFresh
  <2>5. \A c \in Saving : mem[c] # NoRecord => mem[c] = FirstRecord(c) \/ c \in dirty
    BY <1>2 DEF Served, SavesFresh
  <2>. QED
    BY <1>4, <2>2, <2>3, <2>4, <2>5 DEF SavesFresh
<1>8. Stored' /\ Gated'
  BY <1>1, <1>3 DEF Stored, Copies, Follows, Kept, Filed, Monotone, Gated, Linked, LatestKept, InView,
         MemGated, BatchGated, DiskGated, Waiting
<1>9. Sessions'
  <2>1. \A i : Asks(i, "clear")' => Asks(i, "clear")
    BY <1>4
  <2>2. \A i, c : Inserts(i, c)' => i \in DOMAIN io \/ (i = n /\ batch[c] # NoRecord)
    BY <1>4 DEF Inserts
  <2>3. ClearPassed'
    BY <1>1, <1>4, <2>1, <2>2 DEF Sessions, ClearPassed, Recent, Inserts, Asks
  <2>. QED
    BY <1>1, <2>3 DEF Sessions, Eras, Known
<1>. QED
  BY <1>4, <1>5, <1>6, <1>7, <1>8, <1>9 DEF Served

LEMMA FlushEndKeeps == ASSUME DurabilityInv, FlushEnd PROVE DurabilityInv'
<1>. USE DEF DurabilityInv, Basic, FlushEnd, database, queue
<1>1. /\ \A c \in Cmd : batch'[c] = NoRecord
      /\ batch' \in Table /\ \A c \in Saving : batch[c] = NoRecord
      /\ flush' \in {"none", "scheduled"}
  BY NoRecordFacts DEF Served, SavesFresh
<1>2. Basic'
  <2>1. TypeOK'
    BY <1>1 DEF TypeOK
  <2>2. Unborn' /\ Down' /\ RowsCounted' /\ PassOK'
    BY <1>1 DEF Unborn, Down, RowsCounted, PassOK
  <2>3. Well' /\ RowsReturned'
    BY <1>1 DEF Well, RecordOK, RowsReturned
  <2>. QED
    BY <2>1, <2>2, <2>3
<1>3. SavesAwaited' /\ SavedBehind'
  BY DEF Served, SavesAwaited, SavedBehind, Saving, Saves, Asks, FirstRecord
<1>4. OneRequest'
  BY DEF Served, OneRequest, Asks
<1>5. SavesFresh'
  BY <1>1 DEF Served, SavesFresh, Saving, Saves, Asks, FirstRecord
<1>6. Stored' /\ Gated'
  <2>1. Stored'
    BY <1>1, NoRecordFacts DEF Stored, Copies, Follows, Kept, Filed, Monotone
  <2>2. Linked' /\ BatchGated'
    BY <1>1 DEF Gated, Linked, Filed, BatchGated, Waiting
  <2>3. LatestKept' /\ MemGated' /\ DiskGated'
    BY DEF Gated, Filed, LatestKept, InView, MemGated, DiskGated, Waiting
  <2>. QED
    BY <2>1, <2>2, <2>3 DEF Gated
<1>7. Sessions'
  BY <1>1 DEF Sessions, ClearPassed, Recent, Inserts, Asks, Eras, Known
<1>. QED
  BY <1>2, <1>3, <1>4, <1>5, <1>6, <1>7 DEF Served

LEMMA RestartKeeps == ASSUME DurabilityInv, Restart PROVE DurabilityInv'
<1>. USE DEF DurabilityInv, Basic, Restart, database, session
<1>1. /\ ~up /\ dirty = {} /\ io = <<>> /\ flush = "none" /\ clear = "none" /\ pass = IdlePass
      /\ \A c \in Cmd : mem[c] = NoRecord /\ batch[c] = NoRecord /\ enq[c] # "saving"
      /\ Saving = {} /\ DOMAIN io = {}
  BY DEF Down, Saving
<1>2. /\ mem' \in Table
      /\ \A c \in Cmd : IF disk[c].status \in InMemory THEN mem'[c] = disk[c] ELSE mem'[c] = NoRecord
      /\ \A c \in Cmd : mem'[c] # NoRecord => mem'[c] = disk[c]
      /\ \A c \in Loaded : disk[c] # NoRecord /\ mem'[c] # NoRecord /\ c \in Cmd
  BY NoRecordFacts DEF TypeOK, Table, Only, Loaded, InMemory
<1>3. \A c \in Cmd : /\ disk[c] # NoRecord => disk[c].status \in InMemory \/ IsOver(disk[c])
                     /\ disk[c] # NoRecord /\ mem'[c] = NoRecord => disk[c].status \in {"applied", "failed"}
  BY <1>2 DEF TypeOK, Table, Record, Well, RecordOK, IsOver, InMemory, Ended
<1>4. latest' \in Loaded \cup {NoCmd}
  <2>1. ASSUME Loaded # {}
        PROVE  \E c \in Loaded : \A d \in Loaded : rowSeq[d] <= rowSeq[c]
    <3>. DEFINE T == {rowCount - rowSeq[d] : d \in Loaded}
    <3>1. \A d \in Loaded : rowSeq[d] \in Nat /\ rowCount - rowSeq[d] \in Nat
      BY DEF Loaded, TypeOK, RowsCounted
    <3>2. T \subseteq Nat /\ T # {} /\ rowCount \in Nat
      BY <2>1, <3>1 DEF TypeOK
    <3>3. PICK x \in T : \A y \in T : ~(<<y, x>> \in OpToRel(<, Nat))
      BY <3>2, NatLessThanWellFounded, WFMin, Zenon
    <3>4. \A y \in T : ~(y < x)
      BY <3>2, <3>3 DEF OpToRel
    <3>5. PICK c \in Loaded : x = rowCount - rowSeq[c]
      OBVIOUS
    <3>6. ASSUME NEW d \in Loaded PROVE rowSeq[d] <= rowSeq[c]
      <4>1. ~(rowCount - rowSeq[d] < rowCount - rowSeq[c])
        BY <3>4, <3>5
      <4>. QED
        BY <3>1, <3>2, <4>1
    <3>. QED
      BY <3>6
  <2>. QED
    BY <2>1
<1>5. Basic'
  <2>1. TypeOK'
    <3>1. active' = {c \in Cmd : mem'[c].status \in InMemory}
      BY <1>2, NoRecordFacts DEF Loaded, InMemory
    <3>2. up' \in BOOLEAN /\ paused' \in BOOLEAN
      OBVIOUS
    <3>3. latest' \in Cmd \cup {NoCmd}
      BY <1>2, <1>4
    <3>. QED
      BY <1>2, <3>1, <3>2, <3>3 DEF TypeOK
  <2>2. Unborn'
    BY <1>2, <1>4, NoCmdAssumption DEF Unborn
  <2>3. PassOK'
    BY <1>1, NoCmdAssumption DEF PassOK, IdlePass
  <2>4. Down' /\ Well' /\ RowsReturned' /\ RowsCounted'
    BY <1>2, NoRecordFacts DEF Down, Well, RecordOK, RowsReturned, RowsCounted
  <2>. QED
    BY <2>1, <2>2, <2>3, <2>4
<1>6. Served'
  BY <1>1 DEF Served, SavesAwaited, OneRequest, SavedBehind, SavesFresh, Saving, Saves, Asks
<1>7. Stored'
  BY <1>1, <1>2, NoRecordFacts DEF Stored, Copies, Follows, Kept, Filed, Monotone
<1>8. Gated'
  <2>1. Linked' /\ BatchGated' /\ DiskGated'
    BY <1>1, <1>2 DEF Gated, Linked, Filed, BatchGated, DiskGated, Waiting
  <2>2. LatestKept'
    BY <1>2, <1>4 DEF LatestKept, Filed, InView
  <2>3. ASSUME NEW c \in Cmd, Waiting(c), mem'[c] # NoRecord
        PROVE  /\ mem'[waits[c]] # NoRecord \/ IsOver(disk[waits[c]])
               /\ mem'[c].status # "blocked" =>
                    IsOver(mem'[waits[c]]) \/ (mem'[waits[c]] = NoRecord /\ IsOver(disk[waits[c]]))
    <3>1. disk[c] = mem'[c] /\ waits[c] \in Cmd /\ disk[waits[c]] # NoRecord
      BY <1>1, <1>2, <2>3 DEF Gated, Linked, Filed, Waiting, TypeOK
    <3>2. mem'[c].status # "blocked" => IsOver(disk[waits[c]])
      BY <2>3, <3>1 DEF Gated, DiskGated
    <3>. QED
      BY <1>2, <1>3, <3>1, <3>2
  <2>4. MemGated'
    BY <2>3 DEF MemGated, InView, Waiting
  <2>. QED
    BY <2>1, <2>2, <2>4 DEF Gated
<1>9. Sessions'
  BY <1>1, <1>2, <1>3 DEF Sessions, ClearPassed, Recent, Inserts, Asks, Eras, Known
<1>. QED
  BY <1>5, <1>6, <1>7, <1>8, <1>9

-----------------------------------------------------------------------------
(* Enqueue.                                                                *)

LEMMA EnqueueKeeps == ASSUME DurabilityInv, NEW c \in Cmd, Enqueue(c) PROVE DurabilityInv'
<1>. DEFINE r == RecordWith(waits'[c])
            q == [op |-> "save", rows |-> [EmptyTable EXCEPT ![c] = r]]
            n == Len(io) + 1
<1>. USE DEF DurabilityInv, Basic, database
<1>1. /\ up /\ enq[c] = "new" /\ mem[c] = NoRecord /\ disk[c] = NoRecord /\ batch[c] = NoRecord
      /\ pass.cmd # c /\ latest # c /\ c \notin caught \cup dirty \cup pass.todo
      /\ \A d \in Cmd : waits[d] # c
      /\ enq' = [enq EXCEPT ![c] = "saving"] /\ savedIn' = [savedIn EXCEPT ![c] = era]
      /\ active' = active \cup {c} /\ latest' = c
      /\ caught' = IF clear = "none" THEN caught ELSE caught \cup {c}
      /\ UNCHANGED <<up, dirty, flush, batch, disk, rowSeq, rowCount, pass, paused, clear, era, cleared, crashes>>
  BY DEF Enqueue, Unborn
<1>2. /\ waits' \in [Cmd -> Cmd \cup {NoCmd}] /\ waits'[c] \in {latest, NoCmd}
      /\ \A d \in Cmd \ {c} : waits'[d] = waits[d]
      /\ mem' = [mem EXCEPT ![c] = r] /\ io' = Append(io, q)
  <2>. DEFINE gate == {p \in {latest} \ {NoCmd} : Lookup(p).status \in Live}
  <2>1. waits' = [waits EXCEPT ![c] = IF gate = {} THEN NoCmd ELSE latest]
    BY DEF Enqueue
  <2>2. waits'[c] = IF gate = {} THEN NoCmd ELSE latest
    BY <2>1 DEF TypeOK
  <2>3. {waits'[c]} \ {NoCmd} = gate
    BY <2>2
  <2>4. r = [status |-> IF gate = {} THEN "pending" ELSE "blocked", blockedBy |-> gate, attempts |-> 0]
    BY <2>2, <2>3 DEF RecordWith
  <2>5. mem' = [mem EXCEPT ![c] = r] /\ io' = Append(io, q)
    BY <2>4 DEF Enqueue
  <2>. HIDE DEF gate
  <2>. QED
    BY <2>1, <2>2, <2>5 DEF TypeOK
<1>3. /\ r \in Record /\ r # NoRecord /\ r.blockedBy = {waits'[c]} \ {NoCmd}
      /\ r.status \in {"pending", "blocked"} /\ ~IsOver(r)
      /\ r.status = "blocked" <=> waits'[c] # NoCmd
      /\ r.attempts < MaxAttempts
  BY <1>2, RecordWithFacts
<1>. HIDE DEF r
<1>4. /\ mem' \in Table /\ mem'[c] = r /\ \A d \in Cmd \ {c} : mem'[d] = mem[d]
      /\ enq'[c] = "saving" /\ \A d \in Cmd \ {c} : enq'[d] = enq[d]
      /\ savedIn'[c] = era /\ \A d \in Cmd \ {c} : savedIn'[d] = savedIn[d]
      /\ Saving' = Saving \cup {c} /\ c \notin Saving
      /\ caught \subseteq caught' /\ caught' \subseteq caught \cup {c} /\ (clear # "none" => c \in caught')
      /\ clear = "none" => c \notin caught'
  BY <1>1, <1>2, <1>3 DEF TypeOK, Table, Saving
<1>5. q \in Request /\ q.op = "save" /\ \A d \in Cmd : q.rows[d] # NoRecord <=> d = c
  <2>1. q.rows \in Table /\ q.rows[c] = r /\ \A d \in Cmd \ {c} : q.rows[d] = NoRecord
    BY <1>3, NoRecordFacts DEF Table
  <2>. QED
    BY <1>3, <2>1 DEF Request
<1>6. /\ io' \in Seq(Request) /\ n \in Nat
      /\ \A i \in DOMAIN io : i \in Nat /\ i < n /\ i # n
      /\ \A i : i \in DOMAIN io' <=> i \in DOMAIN io \/ i = n
      /\ \A i \in DOMAIN io : io'[i] = io[i]
      /\ io'[n] = q
      /\ \A i, op : Asks(i, op)' <=> Asks(i, op) \/ (i = n /\ op = "save")
  <2>. HIDE DEF q
  <2>. QED
    BY <1>2, <1>5, AppendAsks DEF TypeOK
<1>7. /\ \A i, d : Saves(i, d) => i \in DOMAIN io
      /\ \A i : \A d \in Cmd : Saves(i, d)' <=> Saves(i, d) \/ (i = n /\ d = c)
      /\ \A i : \A d \in Cmd : Inserts(i, d)' => Inserts(i, d) \/ (i = n /\ d = c)
      /\ \A i, op : Asks(i, op) => i \in DOMAIN io
      /\ \A i : \A op \in {"read", "write", "clear"} : Asks(i, op)' => Asks(i, op)
      /\ \A i : ~Saves(i, c)
  <2>. HIDE DEF q
  <2>1. \A i, op : Asks(i, op) => i \in DOMAIN io
    BY DEF Asks
  <2>2. \A i : ~Saves(i, c)
    BY <1>1 DEF Served, SavesAwaited, Saves, Asks
  <2>. QED
    BY <1>5, <1>6, <2>1, <2>2 DEF Saves, Inserts
<1>8. (\A d \in Cmd \ {c} : FirstRecord(d)' = FirstRecord(d)) /\ FirstRecord(c)' = r
  BY <1>2 DEF FirstRecord, r
<1>9. Basic'
  <2>1. TypeOK'
    <3>1. active' = {d \in Cmd : mem'[d].status \in InMemory}
      BY <1>1, <1>3, <1>4 DEF TypeOK, InMemory
    <3>2. enq' \in [Cmd -> {"new", "saving", "returned", "lost"}] /\ savedIn' \in [Cmd -> Nat]
      BY <1>1 DEF TypeOK
    <3>. QED
      BY <1>1, <1>2, <1>4, <1>6, <3>1, <3>2 DEF TypeOK
  <2>2. Unborn'
    BY <1>1, <1>2, <1>4, NoCmdAssumption DEF Unborn
  <2>3. Well'
    <3>1. RecordOK(c, mem[c])' /\ RecordOK(c, disk[c])' /\ RecordOK(c, batch[c])'
      <4>1. \/ waits'[c] = NoCmd /\ r.blockedBy = {}
            \/ waits'[c] # NoCmd /\ r.blockedBy = {waits'[c]} /\ r.blockedBy # {}
        BY <1>3
      <4>2. RecordOK(c, mem[c])'
        BY <1>3, <1>4, <4>1 DEF RecordOK
      <4>. QED
        BY <1>1, <4>2 DEF RecordOK
    <3>2. \A d \in Cmd \ {c} : RecordOK(d, mem[d])' /\ RecordOK(d, disk[d])' /\ RecordOK(d, batch[d])'
      BY <1>1, <1>2, <1>4 DEF Well, RecordOK
    <3>. QED
      BY <3>1, <3>2 DEF Well
  <2>4. Down' /\ RowsReturned' /\ RowsCounted'
    BY <1>1, <1>4 DEF Down, RowsReturned, RowsCounted
  <2>5. PassOK'
    BY <1>1, <1>4 DEF PassOK, TypeOK
  <2>. QED
    BY <2>1, <2>2, <2>3, <2>4, <2>5
<1>10. SavesAwaited'
  <2>1. ASSUME NEW i \in DOMAIN io', NEW d \in Cmd, Saves(i, d)'
        PROVE  /\ enq'[d] = "saving"
               /\ io'[i].rows = [EmptyTable EXCEPT ![d] = IF d = c THEN r ELSE FirstRecord(d)]
    <3>1. CASE i = n /\ d = c
      <4>1. q.rows = [EmptyTable EXCEPT ![c] = r]
        OBVIOUS
      <4>. HIDE DEF q
      <4>2. io'[i].rows = [EmptyTable EXCEPT ![c] = r] /\ enq'[c] = "saving"
        BY <1>4, <1>6, <3>1, <4>1
      <4>. QED
        BY <3>1, <4>2, Zenon
    <3>2. CASE Saves(i, d)
      <4>1. i \in DOMAIN io /\ d # c
        BY <1>7, <3>2
      <4>2. enq[d] = "saving" /\ io[i].rows = [EmptyTable EXCEPT ![d] = FirstRecord(d)]
        BY <3>2, <4>1 DEF Served, SavesAwaited
      <4>. QED
        BY <1>4, <1>6, <4>1, <4>2
    <3>. QED
      BY <1>7, <2>1, <3>1, <3>2
  <2>2. \A d \in Saving' : \E i \in DOMAIN io' : Saves(i, d)'
    BY <1>4, <1>6, <1>7 DEF Served, SavesAwaited, Saving
  <2>3. \A d \in Cmd : \A i, j \in DOMAIN io' : Saves(i, d)' /\ Saves(j, d)' => i = j
    BY <1>6, <1>7 DEF Served, SavesAwaited
  <2>4. (EmptyTable)' = EmptyTable
    BY DEF EmptyTable, NoRecord
  <2>. QED
    BY <1>8, <2>1, <2>2, <2>3, <2>4 DEF SavesAwaited
<1>11. OneRequest'
  BY <1>1, <1>6, <1>7 DEF Served, OneRequest
<1>12. SavedBehind'
  <2>1. ASSUME NEW d \in Cmd, waits'[d] \in Saving'
        PROVE  d \in Saving' /\ \A i, j \in DOMAIN io' : Saves(i, waits[d])' /\ Saves(j, d)' => i < j
    <3>1. CASE d = c
      <4>1. waits'[c] # c /\ waits'[c] \in Cmd
        BY <1>1, <1>2, <2>1, <3>1, NoCmdAssumption DEF Saving
      <4>. QED
        BY <1>4, <1>6, <1>7, <3>1, <4>1
    <3>2. CASE d # c
      <4>1. waits'[d] = waits[d] /\ waits[d] # c /\ waits[d] \in Saving /\ waits[d] \in Cmd
        BY <1>1, <1>2, <1>4, <2>1, <3>2 DEF Saving
      <4>. QED
        BY <1>4, <1>6, <1>7, <3>2, <4>1 DEF Served, SavedBehind
    <3>. QED
      BY <3>1, <3>2
  <2>. QED
    BY <2>1 DEF SavedBehind
<1>13. SavesFresh'
  <2>1. ASSUME NEW d \in Saving, d # c
        PROVE  /\ mem'[d] = mem[d] /\ (d \in dirty' <=> d \in dirty) /\ batch'[d] = batch[d] /\ d \in Cmd
               /\ FirstRecord(d)' = FirstRecord(d)
               /\ \A i, j : Saves(i, d)' /\ Asks(j, "clear")' =>
                    Saves(i, d) /\ Asks(j, "clear") /\ i \in DOMAIN io /\ j \in DOMAIN io
               /\ \A i, j : Saves(i, d)' /\ Asks(j, "read")' =>
                    Saves(i, d) /\ Asks(j, "read") /\ i \in DOMAIN io /\ j \in DOMAIN io
    BY <1>1, <1>4, <1>7, <1>8, <2>1 DEF Saving
  <2>2. \A d \in Saving, i, j \in DOMAIN io : Saves(i, d) /\ Asks(j, "clear") /\ mem[d] = NoRecord => i < j
    BY DEF Served, SavesFresh, OneRequest
  <2>3. \A d \in Saving : /\ mem[d] = NoRecord => clear \in {"flushing", "settled", "deleting"}
                          /\ mem[d] # NoRecord => mem[d] = FirstRecord(d) \/ d \in dirty \/ batch[d] # NoRecord
                          /\ batch[d] # NoRecord => flush = "reading"
    BY DEF Served, SavesFresh
  <2>4. \A d \in Saving, i, j \in DOMAIN io : Saves(i, d) /\ Asks(j, "read") /\ batch[d] # NoRecord => i < j
    BY DEF Served, SavesFresh
  <2>. QED
    BY <1>1, <1>3, <1>4, <1>8, <2>1, <2>2, <2>3, <2>4 DEF SavesFresh
<1>14. Stored'
  BY <1>1, <1>3, <1>4, NoRecordFacts DEF Stored, Copies, Follows, Kept, Filed, Monotone
<1>15. Gated'
  <2>1. \A d \in Cmd : Filed(d) => Filed(d)'
    BY <1>1, <1>4 DEF Filed
  <2>2. \A d \in Cmd \ {c} : /\ Waiting(d)' => Waiting(d) /\ waits[d] \in Cmd \ {c}
                             /\ Filed(d)' => Filed(d)
    BY <1>1, <1>2, <1>4 DEF Waiting, TypeOK, Filed
  <2>3. Waiting(c)' => waits'[c] = latest /\ latest \in Cmd \ {c} /\ Filed(latest) /\ InView(latest)
    BY <1>1, <1>2, <1>4 DEF Waiting, Gated, LatestKept, TypeOK
  <2>4. Linked'
    BY <1>1, <1>2, <1>4, <2>1, <2>2, <2>3 DEF Gated, Linked
  <2>5. LatestKept'
    BY <1>1, <1>3, <1>4 DEF LatestKept, Filed, InView
  <2>6. MemGated'
    <3>1. \A d \in Cmd \ {c} : InView(d)' <=> InView(d)
      BY <1>1, <1>4 DEF InView
    <3>2. Waiting(c)' => mem'[c].status = "blocked"
      BY <1>3, <1>4 DEF Waiting
    <3>. QED
      BY <1>1, <1>2, <1>4, <2>2, <2>3, <3>1, <3>2 DEF Gated, MemGated
  <2>7. BatchGated' /\ DiskGated'
    BY <1>1, <1>2, <2>2 DEF Gated, BatchGated, DiskGated
  <2>. QED
    BY <2>4, <2>5, <2>6, <2>7 DEF Gated
<1>16. Sessions'
  <2>1. ClearPassed'
    <3>1. \A d \in Cmd : Recent(d) => Recent(d)'
      BY <1>1, <1>4 DEF Recent
    <3>2. clear # "none" => Recent(c)'
      BY <1>1, <1>4 DEF Recent
    <3>3. \A i : Asks(i, "clear")' => Asks(i, "clear") /\ i \in DOMAIN io
      BY <1>7
    <3>4. \A i, d : Inserts(i, d) => i \in DOMAIN io
      BY DEF Inserts, Asks
    <3>5. \A d \in Cmd : (mem'[d] # NoRecord => d = c \/ mem[d] # NoRecord) /\ batch'[d] = batch[d] /\ disk'[d] = disk[d]
      BY <1>1, <1>4
    <3>. QED
      BY <1>1, <1>6, <1>7, <3>1, <3>2, <3>3, <3>4, <3>5 DEF Sessions, ClearPassed
  <2>2. Eras'
    <3>1. cleared <= era /\ ~(era < cleared)
      BY DEF Sessions, Eras, TypeOK
    <3>2. savedIn'[c] <= era /\ ~(savedIn'[c] < cleared) /\ (clear # "none" => c \in caught')
      BY <1>4, <3>1 DEF TypeOK
    <3>. QED
      BY <1>1, <1>4, <3>1, <3>2 DEF Sessions, Eras
  <2>3. Known'
    BY <1>1, <1>4 DEF Sessions, Known
  <2>. QED
    BY <2>1, <2>2, <2>3 DEF Sessions
<1>. QED
  BY <1>9, <1>10, <1>11, <1>12, <1>13, <1>14, <1>15, <1>16 DEF Served

-----------------------------------------------------------------------------
(* The worker serves a request.                                            *)

LEMMA TailSaves ==
  ASSUME io \in Seq(Request), io # <<>>, io' = Tail(io)
  PROVE  /\ \A i, op : Asks(i, op)' => i \in Nat \ {0} /\ i + 1 \in DOMAIN io /\ Asks(i + 1, op) /\ io'[i] = io[i + 1]
         /\ \A i, op : Asks(i, op) /\ i # 1 => i - 1 \in DOMAIN io' /\ Asks(i - 1, op)'
         /\ \A i, c : Saves(i, c)' => i \in Nat \ {0} /\ i + 1 \in DOMAIN io /\ Saves(i + 1, c) /\ io'[i] = io[i + 1]
         /\ \A i, c : Saves(i, c) /\ i # 1 => i - 1 \in DOMAIN io' /\ Saves(i - 1, c)'
         /\ \A i, c : Inserts(i, c)' => i \in Nat \ {0} /\ i + 1 \in DOMAIN io /\ Inserts(i + 1, c)
<1>1. /\ \A i, op : Asks(i, op)' => i \in Nat \ {0} /\ i + 1 \in DOMAIN io /\ Asks(i + 1, op) /\ io'[i] = io[i + 1]
      /\ \A i, op : Asks(i, op) /\ i # 1 => i - 1 \in DOMAIN io' /\ Asks(i - 1, op)' /\ io'[i - 1] = io[i]
  BY TailAsks DEF Asks
<1>2. \A i, c : Saves(i, c)' => i \in Nat \ {0} /\ i + 1 \in DOMAIN io /\ Saves(i + 1, c) /\ io'[i] = io[i + 1]
  BY <1>1 DEF Saves
<1>3. \A i, c : Saves(i, c) /\ i # 1 => i - 1 \in DOMAIN io' /\ Saves(i - 1, c)'
  BY <1>1 DEF Saves
<1>4. \A i, c : Inserts(i, c)' => i \in Nat \ {0} /\ i + 1 \in DOMAIN io /\ Inserts(i + 1, c)
  BY <1>1 DEF Inserts
<1>. QED
  BY <1>1, <1>2, <1>3, <1>4

\* What every request leaves alone, and the numbers of the rows.
ServeFrame ==
  /\ up /\ io # <<>> /\ io' = Tail(io)
  /\ UNCHANGED <<up, mem, active, dirty, latest, pass, paused, era, savedIn, waits, caught, cleared, crashes>>

LEMMA ServeRows ==
  ASSUME TypeOK, RowsCounted, Serve
  PROVE  ServeFrame /\ rowCount' \in Nat /\ rowSeq' \in [Cmd -> Nat] /\ RowsCounted'
<1>1. ServeFrame
  BY DEF Serve, ServeFrame
<1>2. \/ UNCHANGED <<rowCount, rowSeq>>
      \/ /\ rowCount' = rowCount + 1
         /\ rowSeq' = [c \in Cmd |-> IF c \in Inserted(Head(io).rows) THEN rowCount' ELSE rowSeq[c]]
  BY DEF Serve
<1>3. rowCount' \in Nat /\ rowSeq' \in [Cmd -> Nat] /\ \A c \in Cmd : rowSeq'[c] <= rowCount'
  <2>1. CASE UNCHANGED <<rowCount, rowSeq>>
    BY <2>1 DEF TypeOK, RowsCounted
  <2>2. CASE /\ rowCount' = rowCount + 1
             /\ rowSeq' = [c \in Cmd |-> IF c \in Inserted(Head(io).rows) THEN rowCount' ELSE rowSeq[c]]
    <3>1. rowCount' \in Nat /\ \A c \in Cmd : rowSeq[c] \in Nat /\ rowSeq[c] <= rowCount'
      BY <2>2 DEF TypeOK, RowsCounted
    <3>. HIDE DEF Inserted
    <3>. QED
      BY <2>2, <3>1
  <2>. QED
    BY <1>2, <2>1, <2>2
<1>. QED
  BY <1>1, <1>3 DEF RowsCounted

\* The requests behind one that saves nothing keep their order.
LEMMA ServeOther ==
  ASSUME TypeOK, SavesAwaited, SavedBehind, ServeFrame, enq' = enq, Head(io).op # "save"
  PROVE  Saving' = Saving /\ SavesAwaited' /\ SavedBehind'
<1>1. io[1] = Head(io) /\ \A i, c : Saves(i, c) => i # 1
  BY TailAsks DEF Saves, Asks, ServeFrame, TypeOK
<1>2. /\ \A i, c : Saves(i, c)' => i \in Nat \ {0} /\ i + 1 \in DOMAIN io /\ Saves(i + 1, c) /\ io'[i] = io[i + 1]
      /\ \A i, c : Saves(i, c) => i - 1 \in DOMAIN io' /\ Saves(i - 1, c)'
  BY <1>1, TailSaves DEF ServeFrame, TypeOK
<1>3. Saving' = Saving
  BY DEF Saving
<1>4. SavesAwaited'
  <2>1. \A c \in Cmd : FirstRecord(c)' = FirstRecord(c)
    BY DEF FirstRecord, ServeFrame
  <2>2. \A i \in DOMAIN io', c \in Cmd :
           Saves(i, c)' => enq'[c] = "saving" /\ io'[i].rows = [EmptyTable EXCEPT ![c] = FirstRecord(c)]
    BY <1>2 DEF SavesAwaited
  <2>3. \A c \in Cmd : \A i, j \in DOMAIN io' : Saves(i, c)' /\ Saves(j, c)' => i = j
    <3>1. ASSUME NEW c \in Cmd, NEW i \in DOMAIN io', NEW j \in DOMAIN io', Saves(i, c)', Saves(j, c)'
          PROVE  i = j
      <4>1. i \in Nat /\ j \in Nat /\ i + 1 = j + 1
        BY <1>2, <3>1 DEF SavesAwaited
      <4>. QED
        BY <4>1
    <3>. QED
      BY <3>1
  <2>4. \A c \in Saving : \E i \in DOMAIN io' : Saves(i, c)'
    BY <1>2 DEF SavesAwaited
  <2>. QED
    BY <1>3, <2>1, <2>2, <2>3, <2>4 DEF SavesAwaited
<1>5. SavedBehind'
  <2>1. ASSUME NEW c \in Cmd, waits[c] \in Saving, NEW i \in DOMAIN io', NEW j \in DOMAIN io',
               Saves(i, waits[c])', Saves(j, c)'
        PROVE  i < j
    <3>1. waits' = waits
      BY DEF ServeFrame
    <3>2. /\ i \in Nat /\ j \in Nat /\ i + 1 \in DOMAIN io /\ j + 1 \in DOMAIN io
          /\ Saves(i + 1, waits[c]) /\ Saves(j + 1, c)
      BY <1>2, <2>1, <3>1
    <3>3. i + 1 < j + 1
      BY <2>1, <3>2 DEF SavedBehind
    <3>. QED
      BY <3>2, <3>3
  <2>. QED
    BY <1>3, <2>1 DEF SavedBehind, ServeFrame
<1>. QED
  BY <1>3, <1>4, <1>5

\* What the requests behind the one that is served keep.
LEMMA ServeBehind ==
  ASSUME DurabilityInv, ServeFrame
  PROVE  /\ io' \in Seq(Request) /\ Asks(1, Head(io).op) /\ io[1] = Head(io)
         /\ \A i, op : Asks(i, op)' => i + 1 # 1 /\ Asks(i + 1, op)
         /\ \A i, c : Saves(i, c)' => i + 1 # 1 /\ Saves(i + 1, c)
         /\ \A i, c : Saves(i, c) => (i = 1 /\ Asks(1, "save")) \/ (i - 1 \in DOMAIN io' /\ Saves(i - 1, c)')
         /\ \A i, c : Inserts(i, c)' => i + 1 # 1 /\ Inserts(i + 1, c)
         /\ \A i, j : \A op \in {"read", "write", "clear"} : Asks(i, op)' /\ Asks(j, op)' => i = j
         /\ \A i : Asks(i, "write")' => io'[i].rows = batch
         /\ \A c \in Saving : \A i, j : Saves(i, c)' /\ Asks(j, "clear")' /\ mem[c] = NoRecord => i < j
         /\ \A c \in Saving : \A i, j : Saves(i, c)' /\ Asks(j, "read")' /\ batch[c] # NoRecord => i < j
         /\ \A c \in Cmd : \A i, j : Asks(i, "clear")' /\ i < j /\ Inserts(j, c)' => Recent(c)
         /\ \A c : (Recent(c)' <=> Recent(c)) /\ FirstRecord(c)' = FirstRecord(c)
<1>. USE DEF DurabilityInv, Basic
<1>1. /\ io' \in Seq(Request) /\ Asks(1, Head(io).op) /\ io[1] = Head(io)
  BY TailAsks DEF ServeFrame, TypeOK, Asks
<1>2. /\ \A i, op : Asks(i, op)' => i \in Nat \ {0} /\ i + 1 \in DOMAIN io /\ Asks(i + 1, op) /\ io'[i] = io[i + 1]
      /\ \A i, c : Saves(i, c)' => i \in Nat \ {0} /\ i + 1 \in DOMAIN io /\ Saves(i + 1, c)
      /\ \A i, c : Saves(i, c) /\ i # 1 => i - 1 \in DOMAIN io' /\ Saves(i - 1, c)'
      /\ \A i, c : Inserts(i, c)' => i \in Nat \ {0} /\ i + 1 \in DOMAIN io /\ Inserts(i + 1, c)
  BY TailSaves DEF ServeFrame, TypeOK
<1>3. \A i \in Nat \ {0} : i + 1 # 1
  OBVIOUS
<1>4. ASSUME NEW i, NEW j, NEW op \in {"read", "write", "clear"}, Asks(i, op)', Asks(j, op)' PROVE i = j
  <2>1. i \in Nat /\ j \in Nat /\ i + 1 = j + 1
    BY <1>2, <1>4 DEF Served, OneRequest
  <2>. QED
    BY <2>1
<1>5. \A i : Asks(i, "write")' => io'[i].rows = batch
  BY <1>2 DEF Served, OneRequest
<1>6. ASSUME NEW c \in Saving, NEW i, NEW j, Saves(i, c)', Asks(j, "clear")', mem[c] = NoRecord PROVE i < j
  <2>1. i \in Nat /\ j \in Nat /\ i + 1 < j + 1
    BY <1>2, <1>6 DEF Served, SavesFresh, OneRequest
  <2>. QED
    BY <2>1
<1>7. ASSUME NEW c \in Saving, NEW i, NEW j, Saves(i, c)', Asks(j, "read")', batch[c] # NoRecord PROVE i < j
  <2>1. i \in Nat /\ j \in Nat /\ i + 1 < j + 1
    BY <1>2, <1>7 DEF Served, SavesFresh
  <2>. QED
    BY <2>1
<1>8. ASSUME NEW c \in Cmd, NEW i, NEW j, Asks(i, "clear")', i < j, Inserts(j, c)' PROVE Recent(c)
  <2>1. i \in Nat /\ j \in Nat /\ i + 1 \in DOMAIN io /\ j + 1 \in DOMAIN io /\ i + 1 < j + 1
    BY <1>2, <1>8
  <2>. QED
    BY <1>2, <1>8, <2>1 DEF Sessions, ClearPassed, Served, OneRequest
<1>9. \A c : (Recent(c)' <=> Recent(c)) /\ FirstRecord(c)' = FirstRecord(c)
  BY DEF ServeFrame, Recent, FirstRecord
<1>10. \A i, c : Saves(i, c) => (i = 1 /\ Asks(1, "save")) \/ (i - 1 \in DOMAIN io' /\ Saves(i - 1, c)')
  BY <1>2 DEF Saves
<1>. QED
  BY <1>1, <1>2, <1>3, <1>4, <1>5, <1>6, <1>7, <1>8, <1>9, <1>10

LEMMA ServeReadKeeps ==
  ASSUME DurabilityInv, Serve, Head(io).op = "read"
  PROVE  DurabilityInv'
<1>. USE DEF DurabilityInv, Basic
<1>1. /\ ServeFrame /\ rowCount' \in Nat /\ rowSeq' \in [Cmd -> Nat] /\ RowsCounted'
      /\ disk' = disk /\ enq' = enq /\ flush' = "found" /\ clear' = clear
      /\ batch' = Only(batch, Present(disk))
  <2>1. enq' = [c \in Cmd |-> enq[c]] /\ disk' = disk /\ flush' = "found" /\ clear' = clear
        /\ batch' = Only(batch, Present(disk))
    BY DEF Serve
  <2>. QED
    BY <2>1, ServeRows DEF TypeOK
<1>2. /\ io' \in Seq(Request) /\ Asks(1, "read") /\ flush = "reading"
      /\ \A i : ~Asks(i, "write")' /\ ~Asks(i, "read")'
      /\ \A i : Asks(i, "clear")' => clear = "deleting"
  BY <1>1, ServeBehind DEF Served, OneRequest, Asks
<1>3. \A c \in Saving : batch[c] = NoRecord
  <2>1. ASSUME NEW c \in Saving, batch[c] # NoRecord PROVE FALSE
    <3>1. PICK i \in DOMAIN io : Saves(i, c)
      BY DEF Served, SavesAwaited
    <3>2. i < 1 /\ 1 \in DOMAIN io
      BY <1>2, <2>1, <3>1 DEF Served, SavesFresh, Asks
    <3>. QED
      BY <1>1, <3>2, TailAsks DEF ServeFrame, TypeOK
  <2>. QED
    BY <2>1
<1>4. /\ batch' \in Table
      /\ \A c \in Cmd : batch'[c] # NoRecord => batch'[c] = batch[c] /\ disk[c] # NoRecord
      /\ \A c \in Cmd : disk[c] # NoRecord => batch'[c] = batch[c]
  BY <1>1, NoRecordFacts DEF TypeOK, Table, Only, Present
<1>5. Saving' = Saving /\ SavesAwaited' /\ SavedBehind'
  BY <1>1, ServeOther DEF Served
<1>6. Basic'
  <2>1. TypeOK'
    BY <1>1, <1>2, <1>4 DEF TypeOK, ServeFrame
  <2>2. Unborn' /\ Down' /\ PassOK'
    BY <1>1, <1>4 DEF Unborn, Down, PassOK, ServeFrame
  <2>3. Well' /\ RowsReturned'
    BY <1>1, <1>4 DEF Well, RecordOK, RowsReturned, ServeFrame
  <2>. QED
    BY <1>1, <2>1, <2>2, <2>3
<1>7. OneRequest'
  BY <1>1, <1>2, ServeBehind DEF OneRequest
<1>8. SavesFresh'
  <2>1. \A c \in Saving : mem'[c] = mem[c] /\ c \in Cmd /\ batch'[c] = NoRecord /\ dirty' = dirty
    BY <1>1, <1>3, <1>4 DEF ServeFrame, Saving
  <2>2. \A c \in Saving : /\ mem[c] = NoRecord => clear \in {"flushing", "settled", "deleting"}
                          /\ mem[c] # NoRecord => mem[c] = FirstRecord(c) \/ c \in dirty
    BY <1>3 DEF Served, SavesFresh
  <2>. QED
    BY <1>1, <1>5, <2>1, <2>2, ServeBehind DEF SavesFresh
<1>9. Stored'
  <2>1. Copies' /\ Kept' /\ Monotone'
    BY <1>1, <1>4, NoRecordFacts DEF Stored, Copies, Kept, Filed, Monotone, ServeFrame
  <2>2. Follows'
    <3>1. ASSUME NEW c \in Cmd, mem[c] # NoRecord, batch[c] = mem[c], disk[c] = NoRecord
          PROVE  c \in caught
      BY <1>3, <3>1 DEF Stored, Kept, Filed, Saving
    <3>. QED
      BY <1>1, <1>2, <1>4, <3>1 DEF Stored, Follows, ServeFrame
  <2>. QED
    BY <2>1, <2>2 DEF Stored
<1>10. Gated'
  <2>1. BatchGated'
    <3>1. ASSUME NEW c \in Cmd, Waiting(c), batch'[c] # NoRecord, batch'[c].status # "blocked"
          PROVE  IsOver(batch'[waits[c]]) \/ IsOver(disk[waits[c]])
      <4>1. /\ waits[c] \in Cmd /\ Filed(waits[c])
            /\ IsOver(batch[waits[c]]) \/ IsOver(disk[waits[c]])
        BY <1>4, <3>1 DEF Gated, BatchGated, Linked, Waiting, TypeOK
      <4>2. disk[waits[c]] # NoRecord \/ waits[c] \in Saving
        BY <4>1 DEF Filed, Saving
      <4>. QED
        BY <1>3, <1>4, <4>1, <4>2, NoRecordFacts
    <3>. QED
      BY <1>1, <3>1 DEF BatchGated, Waiting, ServeFrame
  <2>2. Linked' /\ LatestKept' /\ MemGated' /\ DiskGated'
    BY <1>1, <1>4 DEF Gated, Linked, Filed, LatestKept, InView, MemGated, DiskGated, Waiting, ServeFrame
  <2>. QED
    BY <2>1, <2>2 DEF Gated
<1>11. Sessions'
  <2>1. ClearPassed'
    <3>1. \A c \in Cmd : /\ mem'[c] = mem[c] /\ disk'[c] = disk[c]
                         /\ batch'[c] # NoRecord => batch[c] # NoRecord
      BY <1>1, <1>4 DEF ServeFrame
    <3>2. clear = "wiped" => \A c \in Cmd : \A j : Inserts(j, c) => Recent(c)
      BY DEF Sessions, ClearPassed, Inserts, Asks
    <3>. QED
      BY <1>1, <3>1, <3>2, ServeBehind DEF Sessions, ClearPassed
  <2>2. Eras' /\ Known'
    BY <1>1, <1>4 DEF Sessions, Eras, Known, ServeFrame
  <2>. QED
    BY <2>1, <2>2 DEF Sessions
<1>. QED
  BY <1>5, <1>6, <1>7, <1>8, <1>9, <1>10, <1>11 DEF Served

LEMMA ServeWriteKeeps ==
  ASSUME DurabilityInv, Serve, Head(io).op = "write"
  PROVE  DurabilityInv'
<1>. USE DEF DurabilityInv, Basic
<1>1. /\ ServeFrame /\ rowCount' \in Nat /\ rowSeq' \in [Cmd -> Nat] /\ RowsCounted'
      /\ disk' = Overwrite(disk, Head(io).rows)
      /\ enq' = enq /\ flush' = "written" /\ clear' = clear /\ batch' = batch
  <2>1. /\ enq' = [c \in Cmd |-> enq[c]] /\ flush' = "written" /\ clear' = clear /\ batch' = batch
        /\ disk' = Overwrite(disk, Head(io).rows)
    BY DEF Serve
  <2>. QED
    BY <2>1, ServeRows DEF TypeOK
<1>2. /\ io' \in Seq(Request) /\ Asks(1, "write") /\ flush = "writing" /\ Head(io).rows = batch
      /\ \A i : ~Asks(i, "write")' /\ ~Asks(i, "read")'
      /\ \A i : Asks(i, "clear")' => clear = "deleting"
  BY <1>1, ServeBehind DEF Served, OneRequest, Asks
<1>3. \A c \in Saving : batch[c] = NoRecord
  BY <1>2 DEF Served, SavesFresh
<1>4. /\ disk' \in Table
      /\ \A c \in Cmd : disk'[c] = IF batch[c] # NoRecord THEN batch[c] ELSE disk[c]
  BY <1>1, <1>2 DEF TypeOK, Table, Overwrite
<1>5. Saving' = Saving /\ SavesAwaited' /\ SavedBehind'
  BY <1>1, ServeOther DEF Served
<1>6. Basic'
  <2>1. TypeOK'
    BY <1>1, <1>2, <1>4 DEF TypeOK, ServeFrame
  <2>2. Unborn' /\ Down' /\ PassOK'
    BY <1>1, <1>4 DEF Unborn, Down, PassOK, ServeFrame
  <2>3. RowsReturned'
    BY <1>1, <1>3, <1>4 DEF RowsReturned, Saving, ServeFrame
  <2>4. Well'
    BY <1>1, <1>4 DEF Well, RecordOK, ServeFrame
  <2>. QED
    BY <1>1, <2>1, <2>2, <2>3, <2>4
<1>7. OneRequest'
  BY <1>1, <1>2, ServeBehind DEF OneRequest
<1>8. SavesFresh'
  <2>1. \A c \in Saving : mem'[c] = mem[c] /\ c \in Cmd /\ batch'[c] = NoRecord /\ dirty' = dirty
    BY <1>1, <1>3 DEF ServeFrame, Saving
  <2>2. \A c \in Saving : /\ mem[c] = NoRecord => clear \in {"flushing", "settled", "deleting"}
                          /\ mem[c] # NoRecord => mem[c] = FirstRecord(c) \/ c \in dirty
    BY <1>3 DEF Served, SavesFresh
  <2>. QED
    BY <1>1, <1>5, <2>1, <2>2, ServeBehind DEF SavesFresh
<1>9. \A c \in Cmd : /\ IsOver(disk[c]) => IsOver(disk'[c])
                     /\ disk[c] # NoRecord => disk'[c] # NoRecord
                     /\ Filed(c) => Filed(c)'
  <2>1. \A c \in Cmd : /\ IsOver(disk[c]) => IsOver(disk'[c])
                       /\ disk[c] # NoRecord => disk'[c] # NoRecord
    BY <1>4 DEF Stored, Monotone
  <2>. QED
    BY <1>1, <2>1 DEF Filed
<1>10. Stored'
  <2>1. Copies' /\ Kept' /\ Monotone'
    BY <1>1, <1>4, <1>9 DEF Stored, Copies, Kept, Monotone, ServeFrame
  <2>2. Follows'
    BY <1>1, <1>4 DEF Stored, Copies, Follows, ServeFrame
  <2>. QED
    BY <2>1, <2>2 DEF Stored
<1>11. Gated'
  <2>1. Linked'
    BY <1>1, <1>4, <1>9 DEF Gated, Linked, Filed, Waiting, ServeFrame, TypeOK
  <2>2. LatestKept'
    BY <1>1, <1>9 DEF Gated, LatestKept, InView, ServeFrame, TypeOK
  <2>3. MemGated'
    <3>1. \A c \in Cmd : InView(c) => InView(c)'
      BY <1>1, <1>9 DEF InView, ServeFrame
    <3>. QED
      BY <1>1, <1>9, <3>1 DEF Gated, MemGated, Waiting, ServeFrame, TypeOK
  <2>4. BatchGated'
    BY <1>1, <1>9 DEF Gated, BatchGated, Waiting, ServeFrame, TypeOK
  <2>5. DiskGated'
    <3>1. ASSUME NEW c \in Cmd, Waiting(c), disk'[c] # NoRecord, disk'[c].status # "blocked",
                 disk'[waits[c]] # NoRecord
          PROVE  IsOver(disk'[waits[c]])
      <4>. DEFINE p == waits[c]
      <4>1. p \in Cmd
        BY <3>1 DEF Waiting, TypeOK
      <4>2. CASE batch[c] # NoRecord
        <5>1. IsOver(batch[p]) \/ IsOver(disk[p])
          BY <1>4, <3>1, <4>2 DEF Gated, BatchGated
        <5>. QED
          BY <1>4, <1>9, <4>1, <5>1, NoRecordFacts
      <4>3. CASE batch[c] = NoRecord
        <5>1. disk[c] # NoRecord /\ disk[c].status # "blocked" /\ Filed(p)
          BY <1>4, <3>1, <4>3 DEF Gated, Linked, Filed
        <5>2. disk[p] # NoRecord
          BY <1>3, <1>4, <3>1, <4>1, <5>1 DEF Filed, Saving
        <5>3. IsOver(disk[p])
          BY <3>1, <5>1, <5>2 DEF Gated, DiskGated
        <5>. QED
          BY <1>9, <4>1, <5>3
      <4>. QED
        BY <4>2, <4>3
    <3>. QED
      BY <1>1, <3>1 DEF DiskGated, Waiting, ServeFrame
  <2>. QED
    BY <2>1, <2>2, <2>3, <2>4, <2>5 DEF Gated
<1>12. Sessions'
  <2>1. ClearPassed'
    <3>1. \A c \in Cmd : /\ mem'[c] = mem[c] /\ batch'[c] = batch[c]
                         /\ disk'[c] # NoRecord => batch[c] # NoRecord \/ disk[c] # NoRecord
      BY <1>1, <1>4 DEF ServeFrame
    <3>2. clear = "wiped" => \A c \in Cmd : \A j : Inserts(j, c) => Recent(c)
      BY DEF Sessions, ClearPassed, Inserts, Asks
    <3>. QED
      BY <1>1, <3>1, <3>2, ServeBehind DEF Sessions, ClearPassed
  <2>2. Eras'
    BY <1>1, <1>4 DEF Sessions, Eras, ServeFrame
  <2>3. Known'
    <3>1. ASSUME NEW c \in Cmd \ caught, enq[c] = "returned", savedIn[c] = era
          PROVE  clear = "none"
      BY <3>1 DEF Sessions, Eras
    <3>2. ASSUME NEW c \in Cmd \ caught, enq[c] = "returned", savedIn[c] = era, mem[c] = NoRecord
          PROVE  disk'[c] = disk[c]
      BY <1>4, <3>1, <3>2 DEF Stored, Copies
    <3>. QED
      BY <1>1, <1>9, <3>1, <3>2 DEF Sessions, Known, ServeFrame
  <2>. QED
    BY <2>1, <2>2, <2>3 DEF Sessions
<1>. QED
  BY <1>5, <1>6, <1>7, <1>8, <1>10, <1>11, <1>12 DEF Served

LEMMA ServeClearKeeps ==
  ASSUME DurabilityInv, Serve, Head(io).op = "clear"
  PROVE  DurabilityInv'
<1>. USE DEF DurabilityInv, Basic
<1>1. /\ ServeFrame /\ rowCount' \in Nat /\ rowSeq' \in [Cmd -> Nat] /\ RowsCounted'
      /\ disk' = EmptyTable /\ enq' = enq /\ flush' = flush /\ clear' = "wiped" /\ batch' = batch
  <2>1. /\ enq' = [c \in Cmd |-> enq[c]] /\ flush' = flush /\ clear' = "wiped" /\ batch' = batch
        /\ disk' = EmptyTable
    BY DEF Serve
  <2>. QED
    BY <2>1, ServeRows DEF TypeOK
<1>2. /\ io' \in Seq(Request) /\ Asks(1, "clear") /\ clear = "deleting"
      /\ \A i : ~Asks(i, "clear")'
      /\ disk' \in Table /\ \A c \in Cmd : disk'[c] = NoRecord
  BY <1>1, ServeBehind, NoRecordFacts DEF Served, OneRequest, Asks
<1>3. \A c \in Saving : mem[c] # NoRecord
  <2>1. ASSUME NEW c \in Saving, mem[c] = NoRecord PROVE FALSE
    <3>1. PICK i \in DOMAIN io : Saves(i, c)
      BY DEF Served, SavesAwaited
    <3>2. i < 1 /\ 1 \in DOMAIN io
      BY <1>2, <2>1, <3>1 DEF Served, SavesFresh, Asks
    <3>. QED
      BY <1>1, <3>2, TailAsks DEF ServeFrame, TypeOK
  <2>. QED
    BY <2>1
<1>4. /\ \A c \in Cmd : mem[c] # NoRecord \/ batch[c] # NoRecord \/ c \in Saving => Recent(c)
      /\ \A c \in Cmd \ caught : mem[c] = NoRecord /\ batch[c] = NoRecord /\ enq[c] # "saving"
  BY <1>2, <1>3 DEF Sessions, ClearPassed, Recent, Saving
<1>5. Saving' = Saving /\ SavesAwaited' /\ SavedBehind'
  BY <1>1, ServeOther DEF Served
<1>6. Basic'
  <2>1. TypeOK'
    BY <1>1, <1>2 DEF TypeOK, ServeFrame
  <2>2. Unborn' /\ Down' /\ PassOK'
    BY <1>1, <1>2 DEF Unborn, Down, PassOK, ServeFrame
  <2>3. Well' /\ RowsReturned'
    BY <1>1, <1>2 DEF Well, RecordOK, RowsReturned, ServeFrame
  <2>. QED
    BY <1>1, <2>1, <2>2, <2>3
<1>7. OneRequest'
  <2>1. \A i : Asks(i, "read")' \/ Asks(i, "write")' => Asks(i + 1, "read") \/ Asks(i + 1, "write")
    BY <1>1, ServeBehind
  <2>2. \A i : Asks(i, "read")' => flush = "reading"
    BY <1>1, ServeBehind DEF Served, OneRequest, Asks
  <2>3. \A i : Asks(i, "write")' => flush = "writing" /\ io'[i].rows = batch
    BY <1>1, ServeBehind DEF Served, OneRequest, Asks
  <2>. QED
    BY <1>1, <1>2, <2>2, <2>3, ServeBehind DEF OneRequest
<1>8. SavesFresh'
  <2>1. \A c \in Saving : mem'[c] = mem[c] /\ c \in Cmd /\ batch'[c] = batch[c] /\ dirty' = dirty
    BY <1>1 DEF ServeFrame, Saving
  <2>2. \A c \in Saving : /\ mem[c] = FirstRecord(c) \/ c \in dirty \/ batch[c] # NoRecord
                          /\ batch[c] # NoRecord => flush = "reading"
    BY <1>3 DEF Served, SavesFresh
  <2>. QED
    BY <1>1, <1>3, <1>5, <2>1, <2>2, ServeBehind DEF SavesFresh
<1>9. Stored'
  <2>1. Copies' /\ Kept' /\ Monotone'
    BY <1>1, <1>2, <1>4, NoRecordFacts DEF Stored, Copies, Kept, Monotone, ServeFrame
  <2>2. Follows'
    BY <1>1, <1>2, <1>4 DEF Follows, ServeFrame
  <2>. QED
    BY <2>1, <2>2 DEF Stored
<1>10. Gated'
  <2>1. \A c \in Cmd : Waiting(c)' => /\ mem'[c] = NoRecord /\ batch'[c] = NoRecord /\ disk'[c] = NoRecord
                                      /\ ~Filed(c)'
    BY <1>1, <1>2, <1>4 DEF Waiting, Filed, ServeFrame
  <2>. QED
    BY <1>1, <2>1 DEF Gated, Linked, LatestKept, MemGated, BatchGated, DiskGated
<1>11. Sessions'
  <2>1. ClearPassed'
    <3>1. \A c \in Cmd : mem'[c] = mem[c] /\ batch'[c] = batch[c]
      BY <1>1 DEF ServeFrame
    <3>2. ASSUME NEW c \in Cmd, NEW j \in DOMAIN io', Inserts(j, c)' PROVE Recent(c)
      <4>1. j + 1 \in DOMAIN io /\ j + 1 # 1 /\ Inserts(j + 1, c)
        BY <1>1, <3>2, ServeBehind DEF Inserts, Asks
      <4>2. 1 \in DOMAIN io /\ 1 < j + 1
        BY <1>1, <4>1, TailAsks DEF ServeFrame, TypeOK
      <4>. QED
        BY <1>2, <4>1, <4>2 DEF Sessions, ClearPassed
    <3>3. \A c, j : Inserts(j, c)' => j \in DOMAIN io'
      BY DEF Inserts, Asks
    <3>. QED
      BY <1>1, <1>2, <1>4, <3>1, <3>2, <3>3, ServeBehind DEF ClearPassed
  <2>2. Eras' /\ Known'
    BY <1>1, <1>2 DEF Sessions, Eras, Known, ServeFrame
  <2>. QED
    BY <2>1, <2>2 DEF Sessions
<1>. QED
  BY <1>5, <1>6, <1>7, <1>8, <1>9, <1>10, <1>11 DEF Served

LEMMA ServeSaveKeeps ==
  ASSUME DurabilityInv, Serve, Head(io).op = "save"
  PROVE  DurabilityInv'
<1>. DEFINE rows == Head(io).rows
            New(c) == rows[c] # NoRecord
<1>. USE DEF DurabilityInv, Basic
<1>1. /\ ServeFrame /\ rowCount' \in Nat /\ rowSeq' \in [Cmd -> Nat] /\ RowsCounted'
      /\ disk' = Overwrite(disk, rows)
      /\ enq' = [c \in Cmd |-> IF c \in Present(rows) THEN "returned" ELSE enq[c]]
      /\ flush' = flush /\ clear' = clear /\ batch' = batch
  <2>1. /\ disk' = Overwrite(disk, rows) /\ flush' = flush /\ clear' = clear /\ batch' = batch
        /\ enq' = [c \in Cmd |-> IF c \in Present(rows) THEN "returned" ELSE enq[c]]
    BY DEF Serve
  <2>. QED
    BY <2>1, ServeRows
<1>2. /\ io' \in Seq(Request) /\ Asks(1, "save") /\ 1 \in DOMAIN io /\ io[1].rows = rows /\ rows \in Table
      /\ \A c : New(c) <=> Saves(1, c)
      /\ \A i \in DOMAIN io : i \in Nat /\ i >= 1
  BY <1>1, ServeBehind, TailAsks DEF ServeFrame, TypeOK, Request, Saves, Asks
<1>. HIDE DEF rows
<1>3. \A c \in Cmd : New(c) =>
        /\ c \in Saving /\ enq[c] = "saving" /\ disk[c] = NoRecord /\ disk'[c] = FirstRecord(c)
        /\ FirstRecord(c) # NoRecord /\ ~IsOver(FirstRecord(c)) /\ RecordOK(c, FirstRecord(c))
        /\ FirstRecord(c).status = "blocked" <=> waits[c] # NoCmd
  <2>1. ASSUME NEW c \in Cmd, New(c)
        PROVE  enq[c] = "saving" /\ disk[c] = NoRecord /\ disk'[c] = FirstRecord(c)
    <3>1. enq[c] = "saving" /\ rows = [EmptyTable EXCEPT ![c] = FirstRecord(c)]
      BY <1>2, <2>1 DEF Served, SavesAwaited
    <3>2. rows[c] = FirstRecord(c) /\ disk'[c] = rows[c]
      BY <1>1, <2>1, <3>1 DEF Overwrite, EmptyTable
    <3>. QED
      BY <3>1, <3>2 DEF RowsReturned
  <2>. QED
    BY <2>1, FirstRecordFacts DEF Saving, TypeOK
<1>4. /\ disk' \in Table /\ \A c \in Cmd : ~New(c) => disk'[c] = disk[c] /\ enq'[c] = enq[c]
      /\ \A c \in Cmd : New(c) => enq'[c] = "returned"
      /\ Saving' = {c \in Saving : ~New(c)}
  BY <1>1, <1>2 DEF TypeOK, Table, Overwrite, Present, Saving
<1>5. \A i, c : Saves(i, c)' /\ c \in Cmd => ~New(c)
  <2>1. \A i, c : Saves(i, c) => i \in DOMAIN io
    BY DEF Saves, Asks
  <2>2. \A i, c : Saves(i, c)' => i + 1 # 1 /\ Saves(i + 1, c)
    BY <1>1, ServeBehind
  <2>. QED
    BY <1>2, <2>1, <2>2 DEF Served, SavesAwaited
<1>6. Basic'
  <2>1. TypeOK'
    <3>1. enq' \in [Cmd -> {"new", "saving", "returned", "lost"}]
      BY <1>1 DEF TypeOK
    <3>. QED
      BY <1>1, <1>2, <1>4, <3>1 DEF TypeOK, ServeFrame
  <2>2. Unborn' /\ Down' /\ PassOK'
    BY <1>1, <1>3, <1>4 DEF Unborn, Down, PassOK, ServeFrame
  <2>3. RowsReturned'
    BY <1>1, <1>3, <1>4 DEF RowsReturned, ServeFrame
  <2>4. Well'
    BY <1>1, <1>3, <1>4 DEF Well, RecordOK, ServeFrame
  <2>. QED
    BY <1>1, <2>1, <2>2, <2>3, <2>4
<1>7. SavesAwaited'
  <2>1. \A i \in DOMAIN io', c \in Cmd :
          Saves(i, c)' => enq'[c] = "saving" /\ io'[i].rows = [EmptyTable EXCEPT ![c] = FirstRecord(c)]
    <3>1. \A i, c : Saves(i, c)' => i + 1 \in DOMAIN io /\ Saves(i + 1, c) /\ io'[i] = io[i + 1]
      BY <1>1, TailSaves DEF ServeFrame, TypeOK
    <3>. QED
      BY <1>4, <1>5, <3>1 DEF Served, SavesAwaited
  <2>2. \A c \in Saving' : \E i \in DOMAIN io' : Saves(i, c)'
    <3>1. ASSUME NEW c \in Saving, ~New(c) PROVE \E i \in DOMAIN io' : Saves(i, c)'
      <4>1. PICK i \in DOMAIN io : Saves(i, c)
        BY DEF Served, SavesAwaited
      <4>2. i # 1
        BY <1>2, <3>1, <4>1
      <4>. QED
        BY <1>1, <4>1, <4>2, ServeBehind
    <3>. QED
      BY <1>4, <3>1
  <2>3. \A c \in Cmd : \A i, j \in DOMAIN io' : Saves(i, c)' /\ Saves(j, c)' => i = j
    <3>1. ASSUME NEW c \in Cmd, NEW i, NEW j, Saves(i, c)', Saves(j, c)' PROVE i = j
      <4>1. i \in Nat /\ j \in Nat /\ i + 1 \in DOMAIN io /\ j + 1 \in DOMAIN io
            /\ Saves(i + 1, c) /\ Saves(j + 1, c)
        BY <1>1, <3>1, TailSaves DEF ServeFrame, TypeOK
      <4>2. i + 1 = j + 1
        BY <4>1 DEF Served, SavesAwaited
      <4>. QED
        BY <4>1, <4>2
    <3>. QED
      BY <3>1
  <2>4. \A c \in Cmd : FirstRecord(c)' = FirstRecord(c)
    BY <1>1, ServeBehind
  <2>. QED
    BY <2>1, <2>2, <2>3, <2>4 DEF SavesAwaited
<1>8. OneRequest'
  <2>1. \A i : /\ Asks(i, "read")' => flush = "reading"
               /\ Asks(i, "write")' => flush = "writing" /\ io'[i].rows = batch
               /\ Asks(i, "clear")' => clear = "deleting"
    BY <1>1, ServeBehind DEF Served, OneRequest, Asks
  <2>. QED
    BY <1>1, <2>1, ServeBehind DEF OneRequest
<1>9. \A c \in Cmd : waits[c] \in Saving /\ ~New(waits[c]) => ~New(c)
  <2>1. ASSUME NEW c \in Cmd, waits[c] \in Saving, ~New(waits[c]), New(c) PROVE FALSE
    <3>1. PICK i \in DOMAIN io : Saves(i, waits[c])
      BY <2>1 DEF Served, SavesAwaited
    <3>2. i < 1
      BY <1>2, <2>1, <3>1 DEF Served, SavedBehind
    <3>. QED
      BY <1>2, <3>2
  <2>. QED
    BY <2>1
<1>10. SavedBehind'
  <2>1. ASSUME NEW c \in Cmd, waits[c] \in Saving, NEW i, NEW j, Saves(i, waits[c])', Saves(j, c)'
        PROVE  i < j
    <3>1. waits' = waits
      BY <1>1 DEF ServeFrame
    <3>2. /\ i \in Nat /\ j \in Nat /\ i + 1 \in DOMAIN io /\ j + 1 \in DOMAIN io
          /\ Saves(i + 1, waits[c]) /\ Saves(j + 1, c)
      BY <1>1, <2>1, <3>1, TailSaves DEF ServeFrame, TypeOK
    <3>3. i + 1 < j + 1
      BY <2>1, <3>2 DEF Served, SavedBehind
    <3>. QED
      BY <3>2, <3>3
  <2>2. waits' = waits
    BY <1>1 DEF ServeFrame
  <2>. QED
    BY <1>4, <1>9, <2>1, <2>2 DEF Served, SavedBehind
<1>11. SavesFresh'
  <2>1. \A c \in Saving : mem'[c] = mem[c] /\ c \in Cmd /\ batch'[c] = batch[c] /\ dirty' = dirty
    BY <1>1 DEF ServeFrame, Saving
  <2>2. \A c \in Saving : /\ mem[c] = NoRecord => clear \in {"flushing", "settled", "deleting"}
                          /\ mem[c] # NoRecord => mem[c] = FirstRecord(c) \/ c \in dirty \/ batch[c] # NoRecord
                          /\ batch[c] # NoRecord => flush = "reading"
    BY DEF Served, SavesFresh
  <2>. QED
    BY <1>1, <1>4, <2>1, <2>2, ServeBehind DEF SavesFresh
<1>12. \A c \in Cmd : /\ Filed(c)' <=> Filed(c)
                      /\ IsOver(disk'[c]) <=> IsOver(disk[c])
  BY <1>3, <1>4, NoRecordFacts DEF Filed
<1>13. Stored'
  <2>1. Copies' /\ Kept' /\ Monotone'
    BY <1>1, <1>12 DEF Stored, Copies, Kept, Monotone, ServeFrame
  <2>2. \A c \in Cmd : New(c) /\ mem[c] # NoRecord =>
          \/ mem[c] = disk'[c]
          \/ c \in dirty
          \/ flush = "reading" /\ batch[c] = mem[c]
    BY <1>3 DEF Served, SavesFresh, Stored, Copies
  <2>3. Follows'
    BY <1>1, <1>4, <2>2 DEF Stored, Follows, ServeFrame
  <2>. QED
    BY <2>1, <2>3 DEF Stored
<1>14. Gated'
  <2>0. /\ \A c \in Cmd : Waiting(c)' <=> Waiting(c)
        /\ \A c \in Cmd : Waiting(c) => waits[c] \in Cmd
        /\ waits' = waits /\ mem' = mem /\ batch' = batch
    BY <1>1 DEF Waiting, ServeFrame, TypeOK
  <2>1. Linked'
    BY <1>12, <2>0 DEF Gated, Linked
  <2>2. LatestKept'
    BY <1>1, <1>12, <2>0 DEF Gated, LatestKept, InView, ServeFrame, TypeOK
  <2>3. MemGated'
    <3>1. \A c \in Cmd : InView(c)' <=> InView(c)
      BY <1>12, <2>0 DEF InView
    <3>. QED
      BY <1>12, <2>0, <3>1 DEF Gated, MemGated
  <2>4. BatchGated'
    BY <1>12, <2>0 DEF Gated, BatchGated
  <2>5. DiskGated'
    <3>1. ASSUME NEW c \in Cmd, Waiting(c), disk'[c] # NoRecord, disk'[c].status # "blocked",
                 disk'[waits[c]] # NoRecord
          PROVE  IsOver(disk'[waits[c]])
      <4>1. ~New(c) /\ disk[c] # NoRecord /\ disk[c].status # "blocked" /\ waits[c] \in Cmd
        BY <1>3, <1>4, <2>0, <3>1 DEF Waiting
      <4>2. ~New(waits[c])
        BY <1>3, <4>1 DEF Served, SavedBehind, RowsReturned, Saving
      <4>. QED
        BY <1>4, <3>1, <4>1, <4>2 DEF Gated, DiskGated
    <3>. QED
      BY <2>0, <3>1 DEF DiskGated
  <2>. QED
    BY <2>1, <2>2, <2>3, <2>4, <2>5 DEF Gated
<1>15. Sessions'
  <2>1. ClearPassed'
    <3>1. \A c \in Cmd : /\ mem'[c] = mem[c] /\ batch'[c] = batch[c]
                         /\ disk'[c] # NoRecord => Inserts(1, c) \/ disk[c] # NoRecord
      BY <1>1, <1>2, <1>4 DEF ServeFrame, Inserts, Saves
    <3>2. clear = "wiped" => \A c \in Cmd : \A j : Inserts(j, c) => Recent(c)
      BY DEF Sessions, ClearPassed, Inserts, Asks
    <3>. QED
      BY <1>1, <3>1, <3>2, ServeBehind DEF Sessions, ClearPassed
  <2>2. Eras'
    BY <1>1, <1>3, <1>4 DEF Sessions, Eras, ServeFrame
  <2>3. Known'
    <3>1. ASSUME NEW c \in Cmd \ caught, New(c), savedIn[c] = era PROVE mem[c] # NoRecord
      BY <1>3, <3>1 DEF Sessions, Eras, Served, SavesFresh
    <3>. QED
      BY <1>1, <1>3, <1>4, <3>1 DEF Sessions, Known, ServeFrame
  <2>. QED
    BY <2>1, <2>2, <2>3 DEF Sessions
<1>. QED
  BY <1>6, <1>7, <1>8, <1>10, <1>11, <1>13, <1>14, <1>15 DEF Served

LEMMA ServeKeeps == ASSUME DurabilityInv, Serve PROVE DurabilityInv'
<1>1. Head(io) \in Request
  BY TailAsks DEF DurabilityInv, Basic, TypeOK, Serve
<1>2. Head(io).op \in {"save", "read", "write", "clear"}
  BY <1>1 DEF Request
<1>. QED
  BY <1>2, ServeSaveKeeps, ServeReadKeeps, ServeWriteKeeps, ServeClearKeeps

-----------------------------------------------------------------------------
(* The theorems.                                                           *)

LEMMA StutterKeeps == ASSUME DurabilityInv, UNCHANGED vars PROVE DurabilityInv'
<1>. USE DEF DurabilityInv, vars, memory, database, queue, session
<1>1. Basic'
  <2>1. TypeOK'
    BY DEF Basic, TypeOK
  <2>2. Unborn' /\ Down' /\ RowsCounted' /\ PassOK'
    BY DEF Basic, Unborn, Down, RowsCounted, PassOK
  <2>3. Well' /\ RowsReturned'
    BY DEF Basic, Well, RecordOK, RowsReturned
  <2>. QED
    BY <2>1, <2>2, <2>3 DEF Basic
<1>2. Served'
  BY DEF Served, SavesAwaited, OneRequest, SavedBehind, SavesFresh, Saving, Saves, Asks, FirstRecord
<1>3. Stored' /\ Gated'
  BY DEF Stored, Copies, Follows, Kept, Filed, Monotone, Gated, Linked, LatestKept, InView, MemGated,
         BatchGated, DiskGated, Waiting
<1>4. Sessions'
  BY DEF Sessions, ClearPassed, Recent, Inserts, Asks, Eras, Known
<1>. QED
  BY <1>1, <1>2, <1>3, <1>4

LEMMA NextKeeps == DurabilityInv /\ [Next]_vars => DurabilityInv'
<1>. SUFFICES ASSUME DurabilityInv, [Next]_vars PROVE DurabilityInv'
  OBVIOUS
<1>1. CASE UNCHANGED vars
  BY <1>1, StutterKeeps
<1>2. ASSUME NEW c \in Cmd, Enqueue(c) \/ Sweep(c) \/ Send(c) \/ Release(c) \/ Apply(c)
      PROVE  DurabilityInv'
  BY <1>2, EnqueueKeeps, SweepKeeps, SendKeeps, ReleaseKeeps, ApplyKeeps
<1>3. ASSUME NEW outcome \in {"succeeded", "failed", "pending"}, Answer(outcome)
      PROVE  DurabilityInv'
  BY <1>3, AnswerKeeps
<1>4. CASE Dependents \/ PassEnds \/ Resume
  BY <1>4, DependentsKeep, PassEndsKeeps, ResumeKeeps
<1>5. CASE FlushStart \/ FlushWrite \/ FlushEnd \/ Serve
  BY <1>5, FlushStartKeeps, FlushWriteKeeps, FlushEndKeeps, ServeKeeps
<1>6. CASE ClearBegin \/ ClearReset \/ ClearMemory \/ ClearDisk \/ ClearEnd
  BY <1>6, ClearBeginKeeps, ClearResetKeeps, ClearMemoryKeeps, ClearDiskKeeps, ClearEndKeeps
<1>7. CASE Crash \/ Restart
  BY <1>7, CrashKeeps, RestartKeeps
<1>. QED
  BY <1>1, <1>2, <1>3, <1>4, <1>5, <1>6, <1>7 DEF Next

LEMMA Invariance == Spec => []DurabilityInv
BY InitHolds, NextKeeps, PTL DEF Spec

\* Every state is well-typed: what the handlers of CommandStore.ts and CommandQueue.ts
\* write is a record or none, and `active` holds the records with an in-memory status.
THEOREM DurabilityTypes == Spec => []TypeOK
<1>1. DurabilityInv => TypeOK
  BY DEF DurabilityInv, Basic
<1>. QED
  BY <1>1, Invariance, PTL

\* A record that differs from its row is on its way to the row (doFlush,
\* scheduleFlush, updateCommands): no interleaving of updates, flushes, saves,
\* clears and crashes forgets a change.
THEOREM NothingIsForgotten == Spec => []NothingForgotten
<1>1. DurabilityInv => NothingForgotten
  BY DEF DurabilityInv, Stored, Follows, NothingForgotten, Present
<1>. QED
  BY <1>1, Invariance, PTL

\* Whatever crashes, a command whose enqueue returned has its row, and the queue
\* that runs knows it, or will not need it.
THEOREM NothingIsLost == Spec => []NoneLost
<1>1. DurabilityInv => NoneLost
  <2>. SUFFICES ASSUME DurabilityInv, NEW c \in Cmd \ caught, enq[c] = "returned", savedIn[c] = era
                PROVE  /\ disk[c] # NoRecord
                       /\ up => c \in active \/ Lookup(c).status \in {"applied", "failed"}
    BY DEF NoneLost
  <2>1. disk[c] # NoRecord /\ (up /\ mem[c] = NoRecord => disk[c].status \in {"applied", "failed"})
    BY DEF DurabilityInv, Sessions, Known
  <2>2. CASE mem[c] # NoRecord
    <3>1. mem[c] \in Record /\ mem[c].status # "none"
      BY <2>2 DEF DurabilityInv, Basic, TypeOK, Table, Well, RecordOK
    <3>2. c \in active \/ mem[c].status \notin InMemory
      BY DEF DurabilityInv, Basic, TypeOK
    <3>. QED
      BY <2>1, <2>2, <3>1, <3>2 DEF Lookup, Record, InMemory, Ended
  <2>3. CASE mem[c] = NoRecord
    BY <2>1, <2>3 DEF Lookup
  <2>. QED
    BY <2>2, <2>3
<1>. QED
  BY <1>1, Invariance, PTL

\* No row releases a command whose blocker is not over in its own row: a reload cannot
\* send it ahead of the one it waited for.
THEOREM NothingIsReleasedEarly == Spec => []NoneReleasedEarly
<1>1. DurabilityInv => NoneReleasedEarly
  <2>. SUFFICES ASSUME DurabilityInv, NEW c \in Present(disk) \ caught, disk[c].status # "blocked",
                       NEW p \in Present(disk), waits[c] = p
                PROVE  disk[p].status \in Ended
    BY DEF NoneReleasedEarly
  <2>1. Waiting(c) /\ c \in Cmd /\ disk[c] # NoRecord /\ disk[p] # NoRecord
    BY NoCmdAssumption DEF Waiting, Present
  <2>. QED
    BY <2>1 DEF DurabilityInv, Gated, DiskGated, IsOver
<1>. QED
  BY <1>1, Invariance, PTL

\* What clearAll has passed over does not come back, through a flush that was
\* running or a reload.
THEOREM TheOldSessionIsGone == Spec => []OldSessionGone
<1>1. DurabilityInv => OldSessionGone
  <2>. SUFFICES ASSUME DurabilityInv, NEW c \in Present(mem) \cup Present(disk)
                PROVE  savedIn[c] >= cleared
    BY DEF OldSessionGone
  <2>1. c \in Cmd /\ (mem[c] # NoRecord \/ disk[c] # NoRecord) /\ savedIn[c] \in Nat /\ cleared \in Nat
    BY DEF Present, DurabilityInv, Basic, TypeOK
  <2>2. ~(savedIn[c] < cleared)
    BY <2>1 DEF DurabilityInv, Sessions, Eras
  <2>. QED
    BY <2>1, <2>2
<1>. QED
  BY <1>1, Invariance, PTL

=============================================================================
