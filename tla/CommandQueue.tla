---------------------------- MODULE CommandQueue ----------------------------
(***************************************************************************)
(* The command pipeline of the client: CommandQueue.ts with the parts of   *)
(* CommandStore.ts and AggregateChainRegistry.ts it cannot be read without.*)
(*                                                                         *)
(* The code is one JavaScript thread of asynchronous functions, so the     *)
(* atomic step is the code between two awaits.  The processes are          *)
(*   - the drain, the single processing pass of processPendingCommands;    *)
(*   - one enqueue per command;                                            *)
(*   - the calls of Caller: a cancelCommand, or a markFailedFromConflict,  *)
(*     each carrying its cascade walk as a stack of frames.  The drain     *)
(*     walks a cascade the same way after a failed send.                   *)
(* The environment pauses, resumes, retries, answers sends and applies     *)
(* succeeded commands to the read model.                                   *)
(***************************************************************************)
EXTENDS Naturals, Sequences

CONSTANTS
  Cmd,           \* command ids
  Stream,        \* aggregate stream ids
  Caller,        \* concurrent cancelCommand / markFailedFromConflict calls
  Drain,         \* the thread of processPendingCommands
  NoCmd,         \* "undefined" where a command id is expected
  Request,       \* Request[c]: what the caller may submit as command c
  Classified,    \* commands whose registration has a classifyDependency
  Miswired,      \* commands whose enqueue may throw after prepare
  Unhydratable,  \* commands whose send may throw instead of returning
  MaxAttempts    \* retryConfig.maxAttempts

Thread == Caller \cup {Drain}

RequestType == [streams : SUBSET Stream, explicit : SUBSET Cmd, refs : SUBSET Cmd]

ASSUME ThreadAssumption == Drain \notin Caller /\ NoCmd \notin Cmd
ASSUME RequestAssumption == Request \in [Cmd -> SUBSET RequestType]
ASSUME FaultAssumption == /\ Classified \subseteq Cmd
                          /\ Miswired \subseteq Cmd
                          /\ Unhydratable \subseteq Cmd
ASSUME AttemptsAssumption == MaxAttempts \in Nat \ {0}

Terminal == {"succeeded", "applied", "failed", "cancelled"}
InMemory == {"pending", "blocked", "sending", "succeeded"}
Status == Terminal \cup InMemory \cup {"absent"}
Source == {"none", "aggregate-chain", "explicit", "entity-ref"}

VARIABLES
  status,     \* record status, "absent" before CommandStore.save
  blockedBy,  \* record blockedBy
  source,     \* record dependsOn: source[c][d] of the edge from c to d
  attempts,   \* record attempts
  seq,        \* record seq, assigned by CommandStore.save
  nextSeq,    \* CommandStore.nextSeq
  touches,    \* record affectedAggregates
  active,     \* keys of CommandStore.active; the other saved ones are in ttlCache
  latest,     \* AggregateChain.latestCommandId of each stream
  enq,        \* progress of each command's enqueue
  paused, reprocess,  \* CommandQueue._paused, _pendingReprocess
  timers,     \* retryTimers: <<command, attempt that set it>>
  drain,      \* the processing pass (processingPromise)
  call,       \* call[t]: the stack of termination frames of thread t
  gate,       \* history: blockedBy as enqueue computed it
  prior,      \* history: same-stream commands enqueued before this enqueue began
  settled,    \* history: commands that have had a terminal status
  confirmed   \* history: commands the server has accepted

record == <<status, blockedBy, source, attempts, seq, touches, active>>
enqueueing == <<nextSeq, latest, enq, gate, prior>>
vars == <<record, enqueueing, paused, reprocess, timers, drain, call, settled, confirmed>>

-----------------------------------------------------------------------------
(* Frames of the drain and of the termination calls.                       *)

DrainPC == {"idle", "snapshot", "loop", "taken", "sending", "failing",
            "won", "unblock", "resolve", "check", "finishing"}

\* The rest of the pass and the command in hand; after a success the dependents
\* left to unblock, the one in hand and the newBlockedBy computed for it.
DrainType == [pc : DrainPC, todo : SUBSET Cmd, cur : Cmd \cup {NoCmd},
              deps : SUBSET Cmd, dep : Cmd \cup {NoCmd}, keep : SUBSET Cmd]

IdleDrain == [pc |-> "idle", todo |-> {}, cur |-> NoCmd,
              deps |-> {}, dep |-> NoCmd, keep |-> {}]

\* A frame terminates `parent` with status `to` ("events", "detach") and walks
\* its dependents; a frame pushed by a walk starts at "scan".  `keep` is the
\* newBlockedBy computed for each soft dependent when the edges were classified.
FramePC == {"events", "detach", "scan", "classify", "uncouple", "recurse", "soft"}

FrameType == [parent : Cmd, to : {"failed", "cancelled"}, pc : FramePC,
              todo : SUBSET Cmd, soft : SUBSET Cmd,
              keep : [Cmd -> SUBSET Cmd], kick : BOOLEAN]

NoKeep == [c \in Cmd |-> {}]

\* Mutant: the terminal status write is forgotten.
NewFrameUnwritten(c, to, pc) ==
  [parent |-> c, to |-> to, pc |-> IF pc = "events" THEN "detach" ELSE pc,
   todo |-> {}, soft |-> {}, keep |-> NoKeep, kick |-> FALSE]

NewFrame(c, to, pc) == [parent |-> c, to |-> to, pc |-> pc, todo |-> {},
                        soft |-> {}, keep |-> NoKeep, kick |-> FALSE]

Top(t) == call[t][Len(call[t])]
At(t, pc) == call[t] # <<>> /\ Top(t).pc = pc
Push(t, f) == call' = [call EXCEPT ![t] = Append(@, f)]
Pop(t) == call' = [call EXCEPT ![t] = SubSeq(@, 1, Len(@) - 1)]
Become(t, f) == call' = [call EXCEPT ![t] = [@ EXCEPT ![Len(@)] = f]]

-----------------------------------------------------------------------------
(* Command records.                                                        *)

Live(c) == status[c] \notin Terminal \cup {"absent"}

\* The insertion order of CommandStore.active, which is also the seq order.
First(c, C) == c \in C /\ \A d \in C : seq[c] <= seq[d]

\* Mutant: an update re-inserts the record into `active`.
SetStatusReactivates(C, s) ==
  /\ status' = [c \in Cmd |-> IF c \in C THEN s ELSE status[c]]
  /\ active' = IF s \in InMemory THEN active \cup C ELSE active \ C
  /\ settled' = IF s \in Terminal THEN settled \cup C ELSE settled

\* batchUpdateCommandStatus: an update never moves a record back to `active`.
SetStatus(C, s) ==
  /\ status' = [c \in Cmd |-> IF c \in C THEN s ELSE status[c]]
  /\ active' = IF s \in InMemory THEN active ELSE active \ C
  /\ settled' = IF s \in Terminal THEN settled \cup C ELSE settled

\* Mutant: the gate is tested on the record read, not on the list being written.
UnblocksOnOld(b, keep) == blockedBy[b] = {} /\ status[b] = "blocked"

\* The unblocking write shared by both unblocking walks: the status is read
\* now, the new blockedBy was computed earlier.
Unblocks(b, keep) == keep = {} /\ status[b] = "blocked"

\* Mutant: the first settled dependency releases the command.
UnblockOutright(b, keep) ==
  /\ blockedBy' = [blockedBy EXCEPT ![b] = {}]
  /\ status' = [status EXCEPT ![b] = IF @ = "blocked" THEN "pending" ELSE @]

Unblock(b, keep) ==
  /\ blockedBy' = [blockedBy EXCEPT ![b] = keep]
  /\ status' = [status EXCEPT ![b] = IF Unblocks(b, keep) THEN "pending" ELSE @]

\* Mutant: only commands that wait for nothing else are found.
DependentsOfOne(p) == {b \in active : blockedBy[b] = {p}}

Dependents(p) == {b \in active : p \in blockedBy[b]}

\* Mutant: a chain is dropped although a later command has extended it.
DetachTouched(C) ==
  latest' = [s \in Stream |-> IF \E c \in C : s \in touches[c] THEN NoCmd ELSE latest[s]]

\* AggregateChainRegistry.onCommandCleanup for each command of C.
DetachChains(C) ==
  latest' = [s \in Stream |-> IF latest[s] \in C /\ s \in touches[latest[s]]
                              THEN NoCmd ELSE latest[s]]

\* Mutants: a second pass starts beside the first; a kick during a pass is lost.
KickBeside == drain' = [IdleDrain EXCEPT !.pc = "snapshot"] /\ reprocess' = FALSE

KickLost ==
  IF drain.pc = "idle"
  THEN drain' = [IdleDrain EXCEPT !.pc = "snapshot"] /\ reprocess' = FALSE
  ELSE UNCHANGED <<drain, reprocess>>

\* processPendingCommands when not paused: start a pass or join the running one.
Kick ==
  IF drain.pc = "idle"
  THEN drain' = [IdleDrain EXCEPT !.pc = "snapshot"] /\ reprocess' = FALSE
  ELSE reprocess' = TRUE /\ UNCHANGED drain

\* Mutant: the caller waits for the queue to be resumed.
KickOnceResumed == ~paused /\ Kick

KickUnlessPaused == IF paused THEN UNCHANGED <<drain, reprocess>> ELSE Kick

-----------------------------------------------------------------------------
(* enqueue *)

\* buildCommandDependencies: entity-ref > explicit > aggregate-chain.
Edges(r) ==
  [d \in Cmd |-> CASE d \in r.refs -> "entity-ref"
                   [] d \in r.explicit \ r.refs -> "explicit"
                   [] d \in {latest[s] : s \in r.streams} \ (r.refs \cup r.explicit)
                        -> "aggregate-chain"
                   [] OTHER -> "none"]

\* prepareCommandWithRegistration up to its return: the chains already name the
\* command when its record does not exist yet.
EnqueuePrepare(c, r) ==
  /\ enq[c] = "none"
  /\ \A d \in r.explicit \cup r.refs : enq[d] = "done"
  /\ enq' = [enq EXCEPT ![c] = "prepared"]
  /\ source' = [source EXCEPT ![c] = Edges(r)]
  /\ touches' = [touches EXCEPT ![c] = r.streams]
  /\ latest' = [s \in Stream |-> IF s \in r.streams THEN c ELSE latest[s]]
  /\ prior' = [prior EXCEPT ![c] = {d \in Cmd : enq[d] = "done" /\ touches[d] \cap r.streams # {}}]
  /\ UNCHANGED <<status, blockedBy, attempts, seq, nextSeq, active, gate, paused, reprocess,
                 timers, drain, call, settled, confirmed>>

\* enqueue throws between prepare and save (assertHeaderRefsAreDeclared).
EnqueueThrows(c) ==
  /\ enq[c] = "prepared" /\ c \in Miswired
  /\ enq' = [enq EXCEPT ![c] = "rejected"]
  /\ UNCHANGED <<record, nextSeq, latest, gate, prior, paused, reprocess, timers, drain,
                 call, settled, confirmed>>

\* The dependency lookup, and the save that follows it without I/O.
EnqueueSave(c) ==
  LET open == {d \in Cmd : source[c][d] # "none" /\ Live(d)} IN
  /\ enq[c] = "prepared"
  /\ enq' = [enq EXCEPT ![c] = "saved"]
  /\ status' = [status EXCEPT ![c] = IF open = {} THEN "pending" ELSE "blocked"]
  /\ blockedBy' = [blockedBy EXCEPT ![c] = open]
  /\ gate' = [gate EXCEPT ![c] = open]
  /\ seq' = [seq EXCEPT ![c] = nextSeq]
  /\ nextSeq' = nextSeq + 1
  /\ active' = active \cup {c}
  /\ UNCHANGED <<source, attempts, touches, latest, prior, paused, reprocess,
                 timers, drain, call, settled, confirmed>>

\* After the storage write: trigger processing for a command born pending.
EnqueueDone(c) ==
  /\ enq[c] = "saved"
  /\ enq' = [enq EXCEPT ![c] = "done"]
  /\ IF gate[c] = {} THEN KickUnlessPaused ELSE UNCHANGED <<drain, reprocess>>
  /\ UNCHANGED <<record, nextSeq, latest, gate, prior, paused, timers, call, settled, confirmed>>

-----------------------------------------------------------------------------
(* The processing pass: processPendingCommands, doProcessPendingCommands,  *)
(* processCommand, processCommandSuccess and processCommandFailure.        *)

DrainSnapshot ==
  /\ drain.pc = "snapshot"
  /\ drain' = [drain EXCEPT !.pc = "loop", !.todo = {c \in active : status[c] = "pending"}]
  /\ UNCHANGED <<record, enqueueing, paused, reprocess, timers, call, settled, confirmed>>

DrainSkip(c) ==
  /\ drain.pc = "loop" /\ ~paused /\ First(c, drain.todo)
  /\ blockedBy[c] # {}
  /\ drain' = [drain EXCEPT !.todo = @ \ {c}]
  /\ UNCHANGED <<record, enqueueing, paused, reprocess, timers, call, settled, confirmed>>

DrainTake(c) ==
  /\ drain.pc = "loop" /\ ~paused /\ First(c, drain.todo)
  /\ blockedBy[c] = {}
  /\ drain' = [drain EXCEPT !.pc = "taken", !.cur = c, !.todo = @ \ {c}]
  /\ UNCHANGED <<record, enqueueing, paused, reprocess, timers, call, settled, confirmed>>

\* The record is read again: whatever stopped being pending is not sent.
DrainDrop(c) ==
  /\ drain.pc = "taken" /\ drain.cur = c /\ status[c] # "pending"
  /\ drain' = [drain EXCEPT !.pc = "loop", !.cur = NoCmd]
  /\ UNCHANGED <<record, enqueueing, paused, reprocess, timers, call, settled, confirmed>>

DrainSend(c) ==
  /\ drain.pc = "taken" /\ drain.cur = c /\ status[c] = "pending"
  /\ drain' = [drain EXCEPT !.pc = "sending"]
  /\ SetStatus({c}, "sending")
  /\ attempts' = [attempts EXCEPT ![c] = @ + 1]
  /\ UNCHANGED <<blockedBy, source, seq, touches, enqueueing, paused, reprocess,
                 timers, call, confirmed>>

\* File hydration, the header assert or the sender throws: the pass is over.
DrainThrows(c) ==
  /\ drain.pc = "sending" /\ drain.cur = c /\ c \in Unhydratable
  /\ drain' = [IdleDrain EXCEPT !.pc = "finishing"]
  /\ UNCHANGED <<record, enqueueing, paused, reprocess, timers, call, settled, confirmed>>

ServerAccepts(c) ==
  /\ drain.pc = "sending" /\ drain.cur = c
  /\ drain' = [drain EXCEPT !.pc = "won"]
  /\ SetStatus({c}, "succeeded")
  /\ confirmed' = confirmed \cup {c}
  /\ UNCHANGED <<blockedBy, source, attempts, seq, touches, enqueueing, paused,
                 reprocess, timers, call>>

\* Mutant: one retry too many.
RetryableOnceMore(c) == attempts[c] <= MaxAttempts

Retryable(c) == attempts[c] < MaxAttempts

\* A transient failure below the attempt limit: back to pending, with a timer.
ServerDefers(c) ==
  /\ drain.pc = "sending" /\ drain.cur = c /\ Retryable(c)
  /\ drain' = [drain EXCEPT !.pc = "loop", !.cur = NoCmd]
  /\ SetStatus({c}, "pending")
  /\ timers' = timers \cup {<<c, attempts[c]>>}
  /\ UNCHANGED <<blockedBy, source, attempts, seq, touches, enqueueing, paused,
                 reprocess, call, confirmed>>

\* Any other failure, or a transient one at the limit.
ServerRejects(c) ==
  /\ drain.pc = "sending" /\ drain.cur = c
  /\ drain' = [drain EXCEPT !.pc = "failing"]
  /\ Push(Drain, NewFrame(c, "failed", "events"))
  /\ UNCHANGED <<record, enqueueing, paused, reprocess, timers, settled, confirmed>>

DrainFailed ==
  /\ drain.pc = "failing" /\ call[Drain] = <<>>
  /\ drain' = [drain EXCEPT !.pc = "loop", !.cur = NoCmd]
  /\ UNCHANGED <<record, enqueueing, paused, reprocess, timers, call, settled, confirmed>>

\* unblockDependentCommands, after reconciliation: collect the dependents, then
\* for each compute its newBlockedBy, resolve its revision, and write.
DrainCollect ==
  /\ drain.pc = "won"
  /\ drain' = [drain EXCEPT !.pc = "unblock", !.deps = Dependents(drain.cur)]
  /\ UNCHANGED <<record, enqueueing, paused, reprocess, timers, call, settled, confirmed>>

DrainResolve(b) ==
  /\ drain.pc = "unblock" /\ First(b, drain.deps)
  /\ drain' = [drain EXCEPT !.pc = "resolve", !.deps = @ \ {b}, !.dep = b,
                            !.keep = blockedBy[b] \ {drain.cur}]
  /\ UNCHANGED <<record, enqueueing, paused, reprocess, timers, call, settled, confirmed>>

DrainUnblock(b) ==
  /\ drain.pc = "resolve" /\ drain.dep = b
  /\ Unblock(b, drain.keep)
  /\ drain' = [drain EXCEPT !.pc = "unblock", !.dep = NoCmd, !.keep = {}]
  /\ UNCHANGED <<source, attempts, seq, touches, active, enqueueing, paused,
                 reprocess, timers, call, settled, confirmed>>

\* checkAppliedAtSuccess: the command slips to applied, or is left to the sync
\* pipeline.
DrainCompletes(c, applied) ==
  /\ drain.pc = "unblock" /\ drain.deps = {} /\ drain.cur = c
  /\ drain' = [drain EXCEPT !.pc = "loop", !.cur = NoCmd]
  /\ IF applied THEN SetStatus({c}, "applied") ELSE UNCHANGED <<status, active, settled>>
  /\ UNCHANGED <<blockedBy, source, attempts, seq, touches, enqueueing, paused,
                 reprocess, timers, call, confirmed>>

DrainEndPass ==
  /\ drain.pc = "loop" /\ (drain.todo = {} \/ paused)
  /\ drain' = [drain EXCEPT !.pc = "check", !.todo = {}]
  /\ UNCHANGED <<record, enqueueing, paused, reprocess, timers, call, settled, confirmed>>

\* The condition of the do-while loop.
DrainCheck ==
  /\ drain.pc = "check"
  /\ IF reprocess /\ ~paused
     THEN drain' = [drain EXCEPT !.pc = "snapshot"] /\ reprocess' = FALSE
     ELSE drain' = [drain EXCEPT !.pc = "finishing"] /\ UNCHANGED reprocess
  /\ UNCHANGED <<record, enqueueing, paused, timers, call, settled, confirmed>>

\* The finally that clears processingPromise, one microtask after the loop ended.
DrainFinish ==
  /\ drain.pc = "finishing"
  /\ drain' = IdleDrain
  /\ UNCHANGED <<record, enqueueing, paused, reprocess, timers, call, settled, confirmed>>

-----------------------------------------------------------------------------
(* cancelCommand, markFailedFromConflict, and the cascade walk they share  *)
(* with a failed send.                                                     *)

CancelCommand(t, c) ==
  /\ call[t] = <<>> /\ status[c] \in {"pending", "blocked"}
  /\ Push(t, NewFrame(c, "cancelled", "events"))
  /\ UNCHANGED <<record, enqueueing, paused, reprocess, timers, drain, settled, confirmed>>

MarkFailedFromConflict(t, c) ==
  /\ call[t] = <<>> /\ Live(c)
  /\ Push(t, NewFrame(c, "failed", "events"))
  /\ UNCHANGED <<record, enqueueing, paused, reprocess, timers, drain, settled, confirmed>>

\* The anticipated events are captured; the status is written unconditionally.
Terminate(t) ==
  /\ At(t, "events")
  /\ SetStatus({Top(t).parent}, Top(t).to)
  /\ Become(t, [Top(t) EXCEPT !.pc = "detach"])
  /\ UNCHANGED <<blockedBy, source, attempts, seq, touches, enqueueing, paused,
                 reprocess, timers, drain, confirmed>>

Detach(t) ==
  /\ At(t, "detach")
  /\ DetachChains({Top(t).parent})
  /\ Become(t, [Top(t) EXCEPT !.pc = "scan"])
  /\ UNCHANGED <<record, nextSeq, enq, gate, prior, paused, reprocess, timers, drain,
                 settled, confirmed>>

\* cascadeFromTerminal: the dependents that are active now.
CascadeScan(t) ==
  LET found == {b \in Dependents(Top(t).parent) : status[b] \notin Terminal} IN
  /\ At(t, "scan")
  /\ IF found = {}
     THEN Pop(t)
     ELSE Become(t, [Top(t) EXCEPT !.pc = "classify", !.todo = found])
  /\ UNCHANGED <<record, enqueueing, paused, reprocess, timers, drain, settled, confirmed>>

\* Mutant: every edge is left to the classifier.
HardSetsAsked(t) == SUBSET Top(t).todo

\* classifyDependencyEdge: chain edges ask the consumer's classifier.
HardSets(t) ==
  LET p == Top(t).parent
      sure == {b \in Top(t).todo : source[b][p] # "aggregate-chain"}
      asked == (Top(t).todo \ sure) \cap Classified
  IN  {sure \cup C : C \in SUBSET asked}

\* Mutant: no blocker is kept.
KeepNothing(t) == NoKeep

Keep(t) == [b \in Cmd |-> IF b \in Top(t).todo THEN blockedBy[b] \ {Top(t).parent} ELSE {}]

\* Some edge is hard: classification, and the batch write that follows it.
CascadeCancel(t, hard) ==
  /\ At(t, "classify") /\ hard \in HardSets(t) /\ hard # {}
  /\ SetStatus(hard, "cancelled")
  /\ Become(t, [Top(t) EXCEPT !.pc = "uncouple", !.todo = hard,
                              !.soft = Top(t).todo \ hard, !.keep = Keep(t)])
  /\ UNCHANGED <<blockedBy, source, attempts, seq, touches, enqueueing, paused,
                 reprocess, timers, drain, confirmed>>

\* After the terminal cleanup of the batch.
CascadeUncouple(t) ==
  /\ At(t, "uncouple")
  /\ DetachChains(Top(t).todo)
  /\ Become(t, [Top(t) EXCEPT !.pc = "recurse"])
  /\ UNCHANGED <<record, nextSeq, enq, gate, prior, paused, reprocess, timers, drain,
                 settled, confirmed>>

CascadeRecurse(t, b) ==
  /\ At(t, "recurse") /\ First(b, Top(t).todo)
  /\ call' = [call EXCEPT ![t] = Append([@ EXCEPT ![Len(@)] = [Top(t) EXCEPT !.todo = @ \ {b}]],
                                        NewFrame(b, "cancelled", "scan"))]
  /\ UNCHANGED <<record, enqueueing, paused, reprocess, timers, drain, settled, confirmed>>

CascadeRecursed(t) ==
  /\ At(t, "recurse") /\ Top(t).todo = {}
  /\ Become(t, [Top(t) EXCEPT !.pc = "soft"])
  /\ UNCHANGED <<record, enqueueing, paused, reprocess, timers, drain, settled, confirmed>>

\* The write for one soft dependent.
SoftWrite(t, b, f, keep) ==
  /\ Unblock(b, keep[b])
  /\ Become(t, [f EXCEPT !.pc = "soft", !.keep = [keep EXCEPT ![b] = {}],
                         !.kick = @ \/ Unblocks(b, keep[b])])
  /\ UNCHANGED <<source, attempts, seq, touches, active, enqueueing, paused,
                 reprocess, timers, drain, settled, confirmed>>

\* No edge is hard: the first soft write follows the classification directly.
CascadeAllSoft(t, b) ==
  /\ At(t, "classify") /\ {} \in HardSets(t) /\ First(b, Top(t).todo)
  /\ SoftWrite(t, b, [Top(t) EXCEPT !.todo = {}, !.soft = Top(t).todo \ {b}], Keep(t))

CascadeSoft(t, b) ==
  /\ At(t, "soft") /\ First(b, Top(t).soft)
  /\ SoftWrite(t, b, [Top(t) EXCEPT !.soft = @ \ {b}], Top(t).keep)

CascadeReturn(t) ==
  /\ At(t, "soft") /\ Top(t).soft = {}
  /\ IF Top(t).kick THEN KickUnlessPaused ELSE UNCHANGED <<drain, reprocess>>
  /\ Pop(t)
  /\ UNCHANGED <<record, enqueueing, paused, timers, settled, confirmed>>

-----------------------------------------------------------------------------
(* The environment of the queue.                                           *)

RetryCommand(c) ==
  /\ status[c] = "failed"
  /\ SetStatus({c}, "pending")
  /\ UNCHANGED <<blockedBy, source, attempts, seq, touches, enqueueing, paused,
                 reprocess, timers, drain, call, confirmed>>

Pause ==
  /\ ~paused
  /\ paused' = TRUE
  /\ UNCHANGED <<record, enqueueing, reprocess, timers, drain, call, settled, confirmed>>

\* resume; and processPendingCommands called from outside, when not paused.
Resume ==
  /\ paused' = FALSE
  /\ Kick
  /\ UNCHANGED <<record, enqueueing, timers, call, settled, confirmed>>

\* A timer is a task of its own: it cannot run in the microtask gap of DrainFinish.
TimerFires(x) ==
  /\ x \in timers /\ drain.pc # "finishing"
  /\ timers' = timers \ {x}
  /\ KickUnlessPaused
  /\ UNCHANGED <<record, enqueueing, paused, call, settled, confirmed>>

\* The sync pipeline sees the command's effect in the read model.
SyncApplies(c) ==
  /\ status[c] = "succeeded"
  /\ SetStatus({c}, "applied")
  /\ UNCHANGED <<blockedBy, source, attempts, seq, touches, enqueueing, paused,
                 reprocess, timers, drain, call, confirmed>>

-----------------------------------------------------------------------------
Init ==
  /\ status = [c \in Cmd |-> "absent"]
  /\ blockedBy = [c \in Cmd |-> {}]
  /\ source = [c \in Cmd |-> [d \in Cmd |-> "none"]]
  /\ attempts = [c \in Cmd |-> 0]
  /\ seq = [c \in Cmd |-> 0] /\ nextSeq = 1
  /\ touches = [c \in Cmd |-> {}]
  /\ active = {}
  /\ latest = [s \in Stream |-> NoCmd]
  /\ enq = [c \in Cmd |-> "none"]
  /\ paused = TRUE /\ reprocess = FALSE
  /\ timers = {}
  /\ drain = IdleDrain
  /\ call = [t \in Thread |-> <<>>]
  /\ gate = [c \in Cmd |-> {}]
  /\ prior = [c \in Cmd |-> {}]
  /\ settled = {} /\ confirmed = {}

Enqueue(c) == (\E r \in Request[c] : EnqueuePrepare(c, r)) \/ EnqueueThrows(c)
EnqueueContinues(c) == EnqueueSave(c) \/ EnqueueDone(c)

DrainStep ==
  \/ DrainSnapshot \/ DrainFailed \/ DrainCollect
  \/ DrainEndPass \/ DrainCheck \/ DrainFinish
  \/ \E c \in Cmd : \/ DrainSkip(c) \/ DrainTake(c) \/ DrainDrop(c) \/ DrainSend(c)
                    \/ DrainThrows(c)
                    \/ ServerAccepts(c) \/ ServerDefers(c) \/ ServerRejects(c)
                    \/ DrainResolve(c) \/ DrainUnblock(c)
                    \/ \E applied \in BOOLEAN : DrainCompletes(c, applied)

CallStep(t) ==
  \/ Terminate(t) \/ Detach(t) \/ CascadeScan(t) \/ CascadeUncouple(t)
  \/ CascadeRecursed(t) \/ CascadeReturn(t)
  \/ \E hard \in SUBSET Cmd : CascadeCancel(t, hard)
  \/ \E b \in Cmd : CascadeRecurse(t, b) \/ CascadeAllSoft(t, b) \/ CascadeSoft(t, b)

CallBegins(t) == \E c \in Cmd : CancelCommand(t, c) \/ MarkFailedFromConflict(t, c)

Environment ==
  \/ Pause \/ Resume
  \/ \E c \in Cmd : RetryCommand(c) \/ SyncApplies(c)

Next ==
  \/ \E c \in Cmd : Enqueue(c) \/ EnqueueContinues(c)
  \/ DrainStep
  \/ \E t \in Thread : CallStep(t)
  \/ \E t \in Caller : CallBegins(t)
  \/ \E x \in timers : TimerFires(x)
  \/ Environment

Spec == Init /\ [][Next]_vars

\* The runtime keeps running: started functions get their next microtask, timers
\* fire, and a send is answered.  Nothing makes a user or the network act.
Fairness ==
  /\ \A c \in Cmd : WF_vars(EnqueueContinues(c))
  /\ WF_vars(DrainStep)
  /\ \A t \in Thread : WF_vars(CallStep(t))
  /\ \A x \in Cmd \X (1..MaxAttempts) : WF_vars(TimerFires(x))

FairSpec == Spec /\ Fairness
-----------------------------------------------------------------------------
(* Properties.                                                             *)

TypeOK ==
  /\ status \in [Cmd -> Status]
  /\ blockedBy \in [Cmd -> SUBSET Cmd]
  /\ source \in [Cmd -> [Cmd -> Source]]
  /\ attempts \in [Cmd -> Nat]
  /\ seq \in [Cmd -> Nat] /\ nextSeq \in Nat
  /\ touches \in [Cmd -> SUBSET Stream]
  /\ active \subseteq Cmd
  /\ latest \in [Stream -> Cmd \cup {NoCmd}]
  /\ enq \in [Cmd -> {"none", "prepared", "saved", "done", "rejected"}]
  /\ paused \in BOOLEAN /\ reprocess \in BOOLEAN
  /\ timers \subseteq Cmd \X (1..(MaxAttempts - 1))
  /\ drain \in DrainType
  /\ call \in [Thread -> Seq(FrameType)]
  /\ gate \in [Cmd -> SUBSET Cmd]
  /\ prior \in [Cmd -> SUBSET Cmd]
  /\ settled \subseteq Cmd /\ confirmed \subseteq Cmd

\* No command is sent before every dependency that was open when it was
\* enqueued has reached a terminal status: neither the unblocking after a success,
\* nor a cascade, nor two of them writing blockedBy from stale copies, ever lets
\* one through (unblockDependentCommands, cascadeFromTerminal).
SentAfterGate == \A c \in Cmd : attempts[c] > 0 => gate[c] \subseteq settled

\* A command with a hard (entity-ref or explicit) dependency that was open at
\* enqueue is sent only if the server has accepted that dependency: whichever way
\* the dependency ends otherwise, the cascade cancels the dependent first
\* (classifyDependencyEdge, cascadeFromTerminal).
HardGates(c) == {d \in gate[c] : source[c][d] \in {"explicit", "entity-ref"}}

HardGate == \A c \in Cmd : attempts[c] > 0 => HardGates(c) \subseteq confirmed

\* At most one send is outstanding, and it is the one the pass is awaiting
\* (processingPromise makes the drain single-flight).
SingleFlight ==
  \A c \in Cmd \ Unhydratable :
    status[c] = "sending" => drain.cur = c /\ drain.pc \in {"sending", "failing"}

\* Automatic retries stop at the limit, whatever re-kicks the pass while retry
\* timers are outstanding (processCommandFailure).
AttemptsBounded == \A c \in Cmd : attempts[c] <= MaxAttempts

\* When nothing is being terminated or unblocked, a blocked command waits for at
\* least one command that can still end: no dependent is stranded by a walk that
\* missed it (getBlockedBy scans, blockedBy writes).
Walking == drain.pc \in {"failing", "won", "unblock", "resolve"} \/ \E t \in Thread : call[t] # <<>>

NoneStranded ==
  Walking \/ \A c \in Cmd : status[c] = "blocked" => \E d \in blockedBy[c] : Live(d)

\* A command is not sent before every command of the same aggregate whose enqueue
\* had returned when its own began: the chain keeps submission order across
\* retries (detectAggregateDependencies).
StreamOrder == \A c \in Cmd : attempts[c] > 0 => prior[c] \subseteq settled

\* A command the server has accepted is not sent again, even when a cancel or a
\* conflict that was decided before the answer overwrites its status afterwards
\* and a user then retries it (cancelCommand, markFailedFromConflict, retryCommand).
AcceptedOnce == [][\A c \in Cmd : attempts'[c] # attempts[c] => c \notin confirmed]_vars

\* Every send is concluded: its command leaves `sending` (processCommand).
SendSettles == \A c \in Cmd : status[c] = "sending" ~> status[c] # "sending"

\* A transient failure is retried unless the queue is paused: the timer's kick is
\* never lost to the pass it interrupts (processCommandFailure, _pendingReprocess).
RetryFires ==
  \A c \in Cmd, n \in 1..MaxAttempts :
    (<<c, n>> \in timers /\ c \in active /\ status[c] = "pending")
      ~> (status[c] # "pending" \/ paused)

\* Every cancel and every cascade walk comes to its end (cascadeFromTerminal).
CallsReturn == \A t \in Thread : call[t] # <<>> ~> call[t] = <<>>

\* The queue implements the order it promises: SentAfterGate and HardGate as one
\* abstract specification.
Promise == INSTANCE DependencyGate WITH
  hard <- [c \in Cmd |-> HardGates(c)],
  started <- {c \in Cmd : attempts[c] > 0},
  accepted <- confirmed

KeepsPromise == Promise!Spec
=============================================================================
