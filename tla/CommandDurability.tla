------------------------- MODULE CommandDurability -------------------------
(***************************************************************************)
(* What a crash leaves of the command queue.  CommandStore.ts changes      *)
(* records in memory and writes them behind, one flush at a time; new      *)
(* commands are written through.  The pass of CommandQueue.ts is reduced   *)
(* to what it writes: the commands are those of one aggregate, each        *)
(* waiting for the latest one before it (a soft dependency).               *)
(*                                                                         *)
(* SQLite runs in a worker that serves requests in order; a batch write is *)
(* one transaction.  A crash keeps the rows and loses everything else.     *)
(***************************************************************************)
EXTENDS Naturals, Sequences

CONSTANTS
  Cmd,          \* command ids
  NoCmd,        \* "undefined" where a command id is expected
  MaxAttempts,  \* retryConfig.maxAttempts
  MaxCrashes,   \* bound on crashes
  MaxClears     \* bound on session clears

ASSUME NoCmdAssumption == NoCmd \notin Cmd
ASSUME AttemptsAssumption == MaxAttempts \in Nat \ {0}

Ended == {"succeeded", "applied", "failed"}
InMemory == {"pending", "blocked", "sending", "succeeded"}
Live == InMemory \ Ended

\* A record, or its absence; a table holds one for each command id.
Record == [status : Ended \cup InMemory \cup {"none"},
           blockedBy : SUBSET Cmd, attempts : 0..MaxAttempts]
NoRecord == [status |-> "none", blockedBy |-> {}, attempts |-> 0]
Table == [Cmd -> Record]
EmptyTable == [c \in Cmd |-> NoRecord]
Present(t) == {c \in Cmd : t[c] # NoRecord}
Only(t, S) == [c \in Cmd |-> IF c \in S THEN t[c] ELSE NoRecord]
Overwrite(t, rows) == [c \in Cmd |-> IF rows[c] # NoRecord THEN rows[c] ELSE t[c]]

VARIABLES
  up,         \* the process runs and the store is initialized
  mem,        \* records in memory: CommandStore.active and ttlCache
  active,     \* keys of CommandStore.active
  dirty,      \* CommandStore.dirty
  flush,      \* flushInFlight: the steps of doFlush and updateCommands
  batch,      \* the copies doFlush took
  disk,       \* the commands table
  io,         \* requests the SQLite worker has not served
  rowSeq,     \* column seq of each row
  rowCount,   \* sqlite_sequence
  latest,     \* latestCommandId of the aggregate's chain
  enq,        \* progress of each command's enqueue
  pass,       \* the command in the hands of the processing pass
  paused,     \* CommandQueue._paused
  clear,      \* progress of clearAll
  era,        \* history: number of clears begun
  savedIn,    \* history: `era` when the command was saved
  waits,      \* history: the blocker a command was saved with
  caught,     \* history: commands saved while a clear was in progress
  cleared,    \* history: the last clear that has ended
  crashes     \* bound: crashes so far

memory == <<mem, active, dirty, flush, batch>>
database == <<disk, rowSeq, rowCount>>
queue == <<latest, enq, pass, paused>>
session == <<clear, era, savedIn, waits, caught, cleared>>
vars == <<up, memory, database, io, queue, session, crashes>>

IdlePass == [cmd |-> NoCmd, phase |-> "idle", todo |-> {}]

Init ==
  /\ up = TRUE
  /\ mem = EmptyTable /\ active = {} /\ dirty = {}
  /\ flush = "none" /\ batch = EmptyTable
  /\ disk = EmptyTable /\ io = <<>>
  /\ rowSeq = [c \in Cmd |-> 0] /\ rowCount = 0
  /\ latest = NoCmd
  /\ enq = [c \in Cmd |-> "new"]
  /\ pass = IdlePass /\ paused = FALSE
  /\ clear = "none" /\ era = 0 /\ cleared = 0
  /\ savedIn = [c \in Cmd |-> 0] /\ waits = [c \in Cmd |-> NoCmd] /\ caught = {}
  /\ crashes = 0

-----------------------------------------------------------------------------
(* CommandStore in memory                                                  *)

\* Mutant: an ended record stays among the active ones.
UpdateInActive(c, r) ==
  IF mem[c] = NoRecord THEN UNCHANGED memory
  ELSE /\ mem' = [mem EXCEPT ![c] = r]
       /\ dirty' = dirty \cup {c}
       /\ flush' = IF flush = "none" THEN "scheduled" ELSE flush
       /\ UNCHANGED <<active, batch>>

\* update: no effect on a record that is not in memory; one that is over
\* leaves `active` for the TTL cache.
Update(c, r) ==
  IF mem[c] = NoRecord THEN UNCHANGED memory
  ELSE /\ mem' = [mem EXCEPT ![c] = r]
       /\ active' = IF r.status \in InMemory THEN active ELSE active \ {c}
       /\ dirty' = dirty \cup {c}
       /\ flush' = IF flush = "none" THEN "scheduled" ELSE flush
       /\ UNCHANGED batch

\* getByIds: memory first, then storage.
Lookup(c) == IF mem[c] # NoRecord THEN mem[c] ELSE disk[c]

\* enqueue: the dependency on the chain's latest command, then save.
Enqueue(c) ==
  /\ up /\ enq[c] = "new"
  /\ LET gate == {p \in {latest} \ {NoCmd} : Lookup(p).status \in Live}
         r == [status |-> IF gate = {} THEN "pending" ELSE "blocked",
               blockedBy |-> gate, attempts |-> 0]
     IN /\ mem' = [mem EXCEPT ![c] = r]
        /\ waits' = [waits EXCEPT ![c] = IF gate = {} THEN NoCmd ELSE latest]
        /\ io' = Append(io, [op |-> "save", rows |-> [EmptyTable EXCEPT ![c] = r]])
  /\ active' = active \cup {c}
  /\ latest' = c
  /\ enq' = [enq EXCEPT ![c] = "saving"]
  /\ savedIn' = [savedIn EXCEPT ![c] = era]
  /\ caught' = IF clear = "none" THEN caught ELSE caught \cup {c}
  /\ UNCHANGED <<up, dirty, flush, batch, database, pass, paused, clear, era, cleared, crashes>>

\* sweepTtlCache; the TTL is longer than a flush takes.
Sweep(c) ==
  /\ up /\ c \in Present(mem) \ (active \cup dirty \cup Present(batch))
  /\ mem' = [mem EXCEPT ![c] = NoRecord]
  /\ UNCHANGED <<up, active, dirty, flush, batch, database, io, queue, session, crashes>>

-----------------------------------------------------------------------------
(* The write-behind flush                                                  *)

\* Mutant: the copies of one record only.
TakeOne ==
  IF dirty = {} THEN batch' = EmptyTable /\ UNCHANGED dirty
  ELSE \E c \in dirty : batch' = Only(mem, {c}) /\ dirty' = dirty \ {c}

\* doFlush: copy the dirty records that are in memory, and clear the marks.
TakeBatch == batch' = Only(mem, dirty) /\ dirty' = {}

\* doFlush up to the read that updateCommands starts with.
FlushStart ==
  /\ up /\ flush = "scheduled"
  /\ TakeBatch
  /\ IF Present(batch') = {}
       THEN flush' = "written" /\ UNCHANGED io
       ELSE flush' = "reading" /\ io' = Append(io, [op |-> "read", rows |-> batch'])
  /\ UNCHANGED <<up, mem, active, database, queue, session, crashes>>

\* updateCommands writes the rows that the read has found.
FlushWrite ==
  /\ up /\ flush = "found"
  /\ IF Present(batch) = {}
       THEN flush' = "written" /\ UNCHANGED io
       ELSE flush' = "writing" /\ io' = Append(io, [op |-> "write", rows |-> batch])
  /\ UNCHANGED <<up, mem, active, dirty, batch, database, queue, session, crashes>>

\* Mutant: what changed while the flush ran is taken for written.
FlushEndForgets ==
  /\ up /\ flush = "written"
  /\ batch' = EmptyTable /\ dirty' = {}
  /\ flush' = "none"
  /\ clear' = IF clear = "flushing" THEN "settled" ELSE clear
  /\ UNCHANGED <<up, mem, active, database, io, queue, era, savedIn, waits, caught, cleared, crashes>>

\* The `finally` of scheduleFlush, which a clear may be awaiting.
FlushEnd ==
  /\ up /\ flush = "written"
  /\ batch' = EmptyTable
  /\ flush' = IF dirty = {} THEN "none" ELSE "scheduled"
  /\ clear' = IF clear = "flushing" THEN "settled" ELSE clear
  /\ UNCHANGED <<up, mem, active, dirty, database, io, queue, era, savedIn, waits, caught, cleared, crashes>>

\* Column seq of the rows after the requests `rows` have been inserted.
Inserted(rows) == Present(rows) \ Present(disk)

\* The worker serves the first request, and its answer reaches the flush.
Serve ==
  /\ up /\ io # <<>>
  /\ io' = Tail(io)
  /\ LET req == Head(io) IN
     /\ disk' = CASE req.op \in {"save", "write"} -> Overwrite(disk, req.rows)
                  [] req.op = "read" -> disk
                  [] req.op = "clear" -> EmptyTable
     /\ IF req.op \in {"save", "write"} /\ Inserted(req.rows) # {}
          THEN /\ rowCount' = rowCount + 1
               /\ rowSeq' = [c \in Cmd |-> IF c \in Inserted(req.rows) THEN rowCount' ELSE rowSeq[c]]
          ELSE UNCHANGED <<rowCount, rowSeq>>
     /\ enq' = [c \in Cmd |-> IF req.op = "save" /\ c \in Present(req.rows)
                                THEN "returned" ELSE enq[c]]
     /\ flush' = CASE req.op = "read" -> "found" [] req.op = "write" -> "written"
                   [] OTHER -> flush
     /\ batch' = IF req.op = "read" THEN Only(batch, Present(disk)) ELSE batch
     /\ clear' = IF req.op = "clear" THEN "wiped" ELSE clear
  /\ UNCHANGED <<up, mem, active, dirty, latest, pass, paused, era, savedIn, waits, caught, cleared, crashes>>

-----------------------------------------------------------------------------
(* CommandQueue: the pass, and the sync pipeline                           *)

\* processCommand: a pending command without blockers is sent.
Send(c) ==
  /\ up /\ ~paused /\ pass.phase = "idle"
  /\ c \in active /\ mem[c].status = "pending" /\ mem[c].blockedBy = {}
  /\ Update(c, [mem[c] EXCEPT !.status = "sending", !.attempts = @ + 1])
  /\ pass' = [cmd |-> c, phase |-> "sent", todo |-> {}]
  /\ UNCHANGED <<up, database, io, latest, enq, paused, session, crashes>>

\* processCommandSuccess and processCommandFailure: the status write.  Only a
\* failed command leaves the chain.
Answer(outcome) ==
  /\ up /\ pass.phase = "sent"
  /\ LET c == pass.cmd IN
     /\ outcome = "pending" => mem[c].attempts < MaxAttempts
     /\ Update(c, [mem[c] EXCEPT !.status = outcome])
     /\ pass' = IF outcome = "pending" THEN IdlePass ELSE [pass EXCEPT !.phase = "ended"]
     /\ latest' = IF outcome = "failed" /\ latest = c THEN NoCmd ELSE latest
  /\ UNCHANGED <<up, database, io, enq, paused, session, crashes>>

\* getBlockedBy: the dependents to release, read from `active`.
Dependents ==
  /\ up /\ pass.phase = "ended"
  /\ pass' = [pass EXCEPT !.phase = "releasing",
                          !.todo = {d \in active : pass.cmd \in mem[d].blockedBy}]
  /\ UNCHANGED <<up, memory, database, io, latest, enq, paused, session, crashes>>

\* unblockDependentCommands, and the soft branch of cascadeFromTerminal.
Release(d) ==
  /\ up /\ pass.phase = "releasing" /\ d \in pass.todo
  /\ LET left == mem[d].blockedBy \ {pass.cmd} IN
     Update(d, [mem[d] EXCEPT !.blockedBy = left,
                              !.status = IF left = {} /\ @ = "blocked" THEN "pending" ELSE @])
  /\ pass' = [pass EXCEPT !.todo = @ \ {d}]
  /\ UNCHANGED <<up, database, io, latest, enq, paused, session, crashes>>

PassEnds ==
  /\ up /\ pass.phase = "releasing" /\ pass.todo = {}
  /\ pass' = IdlePass
  /\ UNCHANGED <<up, memory, database, io, latest, enq, paused, session, crashes>>

\* batchUpdateSyncStatus: the read model has caught up with the command.
Apply(c) ==
  /\ up /\ c \in active /\ mem[c].status = "succeeded"
  /\ Update(c, [mem[c] EXCEPT !.status = "applied"])
  /\ UNCHANGED <<up, database, io, queue, session, crashes>>

Resume ==
  /\ up /\ paused
  /\ paused' = FALSE
  /\ UNCHANGED <<up, memory, database, io, latest, enq, pass, session, crashes>>

-----------------------------------------------------------------------------
(* clearAll, and the crash                                                 *)

ClearBegin ==
  /\ up /\ clear = "none" /\ era < MaxClears
  /\ clear' = "resetting"
  /\ paused' = TRUE
  /\ era' = era + 1
  /\ UNCHANGED <<up, memory, database, io, latest, enq, pass, savedIn, waits, caught, cleared, crashes>>

\* reset has awaited the pass.
ClearReset ==
  /\ up /\ clear = "resetting" /\ pass.phase = "idle"
  /\ clear' = "reset"
  /\ UNCHANGED <<up, memory, database, io, queue, era, savedIn, waits, caught, cleared, crashes>>

\* Mutant: the deletion does not wait for the flush in progress.
ClearMemoryEagerly ==
  /\ up /\ clear = "reset"
  /\ mem' = EmptyTable /\ active' = {} /\ dirty' = {}
  /\ clear' = "settled"
  /\ UNCHANGED <<up, flush, batch, database, io, queue, era, savedIn, waits, caught, cleared, crashes>>

\* deleteAll up to the await of the flush in progress.
ClearMemory ==
  /\ up /\ clear = "reset"
  /\ mem' = EmptyTable /\ active' = {} /\ dirty' = {}
  /\ clear' = IF flush = "none" THEN "settled" ELSE "flushing"
  /\ UNCHANGED <<up, flush, batch, database, io, queue, era, savedIn, waits, caught, cleared, crashes>>

\* deleteAllCommands.
ClearDisk ==
  /\ up /\ clear = "settled"
  /\ io' = Append(io, [op |-> "clear", rows |-> EmptyTable])
  /\ clear' = "deleting"
  /\ UNCHANGED <<up, memory, database, queue, era, savedIn, waits, caught, cleared, crashes>>

\* The rest of clearAll: the id mappings and the chains.
ClearEnd ==
  /\ up /\ clear = "wiped"
  /\ clear' = "none" /\ cleared' = era
  /\ latest' = NoCmd
  /\ UNCHANGED <<up, memory, database, io, enq, pass, paused, era, savedIn, waits, caught, crashes>>

Crash ==
  /\ up /\ crashes < MaxCrashes
  /\ crashes' = crashes + 1
  /\ up' = FALSE
  /\ mem' = EmptyTable /\ active' = {} /\ dirty' = {}
  /\ flush' = "none" /\ batch' = EmptyTable /\ io' = <<>>
  /\ latest' = NoCmd /\ pass' = IdlePass /\ clear' = "none"
  /\ enq' = [c \in Cmd |-> IF enq[c] = "saving" THEN "lost" ELSE enq[c]]
  /\ UNCHANGED <<database, paused, era, savedIn, waits, caught, cleared>>

\* Mutant: the statuses an enqueue and a send write.
LoadedInProgress == {c \in Cmd : disk[c].status \in {"pending", "sending"}}

\* getCommandsByStatus(IN_MEMORY_STATUSES).
Loaded == {c \in Cmd : disk[c].status \in InMemory}

\* CommandStore.initialize and rebuildChains; the queue starts paused.
Restart ==
  /\ ~up
  /\ up' = TRUE
  /\ active' = Loaded
  /\ mem' = Only(disk, Loaded)
  /\ latest' = IF Loaded = {} THEN NoCmd
               ELSE CHOOSE c \in Loaded : \A d \in Loaded : rowSeq[d] <= rowSeq[c]
  /\ paused' = TRUE
  /\ UNCHANGED <<dirty, flush, batch, database, io, enq, pass, session, crashes>>

Next == \/ \E c \in Cmd : Enqueue(c) \/ Sweep(c) \/ Send(c) \/ Release(c) \/ Apply(c)
        \/ \E outcome \in {"succeeded", "failed", "pending"} : Answer(outcome)
        \/ Dependents \/ PassEnds \/ Resume
        \/ FlushStart \/ FlushWrite \/ FlushEnd \/ Serve
        \/ ClearBegin \/ ClearReset \/ ClearMemory \/ ClearDisk \/ ClearEnd
        \/ Crash \/ Restart

Spec == Init /\ [][Next]_vars

-----------------------------------------------------------------------------
(* Properties                                                              *)

Request == [op : {"save", "read", "write", "clear"}, rows : Table]

\* Types; a command is active only with a record of an active status, and a
\* flush holds copies only while it runs.
TypeOK ==
  /\ up \in BOOLEAN /\ paused \in BOOLEAN
  /\ mem \in Table /\ batch \in Table /\ disk \in Table
  /\ active = {c \in Cmd : mem[c].status \in InMemory}
  /\ dirty \subseteq Cmd
  /\ flush \in {"none", "scheduled", "reading", "found", "writing", "written"}
  /\ flush \in {"none", "scheduled"} => batch = EmptyTable
  /\ io \in Seq(Request)
  /\ rowSeq \in [Cmd -> Nat] /\ rowCount \in Nat
  /\ latest \in Cmd \cup {NoCmd}
  /\ enq \in [Cmd -> {"new", "saving", "returned", "lost"}]
  /\ pass \in [cmd : Cmd \cup {NoCmd}, phase : {"idle", "sent", "ended", "releasing"},
               todo : SUBSET Cmd]
  /\ clear \in {"none", "resetting", "reset", "flushing", "settled", "deleting", "wiped"}
  /\ era \in Nat /\ cleared \in Nat /\ savedIn \in [Cmd -> Nat] /\ waits \in [Cmd -> Cmd \cup {NoCmd}]
  /\ caught \subseteq Cmd /\ crashes \in Nat

\* A record that differs from its row is on its way: it is marked dirty, or the
\* flush in progress holds exactly this copy, or its save is not served yet.
\* (A command saved while a clear runs loses its row and is left out.)
NothingForgotten ==
  \A c \in Present(mem) \ caught :
    \/ mem[c] = disk[c]
    \/ c \in dirty
    \/ flush \in {"reading", "found", "writing"} /\ batch[c] = mem[c]
    \/ enq[c] = "saving"

\* A command whose enqueue returned is not lost, whatever crashes: it has a row,
\* and after a reload the queue knows it unless the row says it is over.
NoneLost ==
  \A c \in Cmd \ caught :
    enq[c] = "returned" /\ savedIn[c] = era =>
      /\ disk[c] # NoRecord
      /\ up => c \in active \/ Lookup(c).status \in {"applied", "failed"}

\* No row releases a dependent whose blocker is not over in its own row: the
\* rows are what memory was at some moment, so that a reload cannot send a
\* command ahead of one it waited for.  (Commands saved during a clear aside.)
NoneReleasedEarly ==
  \A c \in Present(disk) \ caught : disk[c].status # "blocked" =>
    \A p \in Present(disk) : waits[c] = p => disk[p].status \in Ended

\* After a clear has ended, nothing saved before it began is in memory or on
\* disk, nor comes back through a flush or a reload.
OldSessionGone ==
  clear = "none" => \A c \in Present(mem) \cup Present(disk) : savedIn[c] >= cleared

=============================================================================
