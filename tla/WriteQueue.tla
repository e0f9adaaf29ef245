----------------------------- MODULE WriteQueue -----------------------------
(***************************************************************************)
(* WriteQueue.ts: every write to the local store is an operation of this   *)
(* queue, handled one at a time by runLoop; a session reset discards what  *)
(* is pending, waits for the operation in progress and calls the session   *)
(* reset handler.                                                          *)
(*                                                                         *)
(* The atomic step is the code between two awaits.  The loop never yields  *)
(* between the end of one operation and the start of the next, so that is  *)
(* one step.  Microtasks run in order: a scheduled runLoop runs before the *)
(* continuations of a reset that began after it was scheduled.             *)
(***************************************************************************)
EXTENDS Naturals, Sequences

CONSTANTS
  Op,        \* operations, each enqueued at most once
  Priority,  \* Priority[o]: the `priority` option of the enqueue of o
  Caller,    \* concurrent calls of resetSession
  NoOp       \* no operation

ASSUME PriorityAssumption == Priority \in [Op -> Nat]
ASSUME NoOpAssumption == NoOp \notin Op

Discarded == {"reset", "destroyed"}  \* Err(SessionReset/WriteQueueDestroyedException)
Answer == {"unsent", "waiting", "ok", "thrown"} \cup Discarded

VARIABLES
  status,   \* state.status
  pending,  \* pending
  opId,     \* opId[o]: PendingEntry.opId, 0 if o was never accepted
  counter,  \* opIdCounter
  loops,    \* runLoop microtasks scheduled and not yet run
  running,  \* the operation whose handler runLoop awaits
  answer,   \* answer[o]: the promise enqueue returned for o
  reset,    \* doResetSession: awaiting `settled`, then the handler
  call,     \* each caller of resetSession
  wipes,    \* history: session reset handlers called
  born      \* history: `wipes` when o was accepted

queue == <<status, pending, opId, counter, loops, running, answer, born>>
resetting == <<reset, call, wipes>>
vars == <<queue, resetting>>

Init == /\ status = "idle"
        /\ pending = <<>>
        /\ opId = [o \in Op |-> 0]
        /\ counter = 0
        /\ loops = 0
        /\ running = NoOp
        /\ answer = [o \in Op |-> "unsent"]
        /\ reset = "none"
        /\ call = [c \in Caller |-> "out"]
        /\ wipes = 0
        /\ born = [o \in Op |-> 0]

-----------------------------------------------------------------------------
(* enqueue                                                                 *)

\* Mutant: an operation overtakes the earlier ones of its own priority.
LowerOrEqual(o) == {i \in DOMAIN pending : Priority[pending[i]] <= Priority[o]}

\* Positions an operation of o's priority goes in front of.
Lower(o) == {i \in DOMAIN pending : Priority[pending[i]] < Priority[o]}

\* `o` before the first entry of lower priority, or at the end.
Insert(o) ==
  [k \in 1..(Len(pending) + 1) |->
     IF \E i \in Lower(o) : i < k THEN pending[k - 1]
     ELSE IF k \in Lower(o) \/ k = Len(pending) + 1 THEN o
     ELSE pending[k]]

Accept(o) ==
  /\ answer[o] = "unsent"
  /\ status \in {"idle", "processing"}
  /\ counter' = counter + 1
  /\ opId' = [opId EXCEPT ![o] = counter + 1]
  /\ pending' = Insert(o)
  /\ answer' = [answer EXCEPT ![o] = "waiting"]
  /\ born' = [born EXCEPT ![o] = wipes]
  /\ loops' = IF status = "idle" THEN loops + 1 ELSE loops
  /\ UNCHANGED <<status, running, resetting>>

Refuse(o) ==
  /\ answer[o] = "unsent"
  /\ status \in {"resetting", "destroyed"}
  /\ answer' = [answer EXCEPT ![o] = IF status = "resetting" THEN "reset" ELSE "destroyed"]
  /\ UNCHANGED <<status, pending, opId, counter, loops, running, born, resetting>>

-----------------------------------------------------------------------------
(* runLoop                                                                 *)

\* Mutant: the loop leaves "processing" behind when it ends.
TakeNextOrStay ==
  IF pending # <<>>
    THEN running' = Head(pending) /\ pending' = Tail(pending) /\ status' = "processing"
    ELSE running' = NoOp /\ UNCHANGED pending /\ status' = "processing"

\* Start the head of the queue, or end the loop.
TakeNext ==
  IF pending # <<>>
    THEN running' = Head(pending) /\ pending' = Tail(pending) /\ status' = "processing"
    ELSE running' = NoOp /\ UNCHANGED pending /\ status' = "idle"

RunLoop ==
  /\ loops > 0
  /\ loops' = loops - 1
  /\ IF status = "idle" THEN TakeNext ELSE UNCHANGED <<running, pending, status>>
  /\ UNCHANGED <<opId, counter, answer, born, resetting>>

\* The handler of the running operation returns or throws.
Finish ==
  /\ running # NoOp
  /\ \E result \in {"ok", "thrown"} : answer' = [answer EXCEPT ![running] = result]
  /\ IF status = "processing" THEN TakeNext
                              ELSE running' = NoOp /\ UNCHANGED <<pending, status>>
  /\ UNCHANGED <<opId, counter, loops, born, resetting>>

-----------------------------------------------------------------------------
(* resetSession and destroy                                                *)

\* Mutant: what is pending survives into the next session.
DiscardNothing(error) == UNCHANGED <<answer, pending>>

\* Mutant: the entries are dropped and their promises never settle.
DiscardSilently(error) == pending' = <<>> /\ UNCHANGED answer

\* Mutant: the promises settle and the entries stay.
DiscardKeeping(error) ==
  /\ answer' = [o \in Op |-> IF \E i \in DOMAIN pending : pending[i] = o
                             THEN error ELSE answer[o]]
  /\ UNCHANGED pending

Discard(error) ==
  /\ answer' = [o \in Op |-> IF \E i \in DOMAIN pending : pending[i] = o
                             THEN error ELSE answer[o]]
  /\ pending' = <<>>

\* resetSession on an idle or a processing queue.
LeadReset(c) ==
  /\ call[c] = "out"
  /\ status \in {"idle", "processing"}
  /\ Discard("reset")
  /\ status' = "resetting"
  /\ reset' = "settling"
  /\ call' = [call EXCEPT ![c] = "waiting"]
  /\ UNCHANGED <<opId, counter, loops, running, born, wipes>>

\* resetSession while a reset is in progress: the same promise.
JoinReset(c) ==
  /\ call[c] = "out"
  /\ status = "resetting"
  /\ call' = [call EXCEPT ![c] = "waiting"]
  /\ UNCHANGED <<queue, reset, wipes>>

\* resetSession on a destroyed queue.
SkipReset(c) ==
  /\ call[c] = "out"
  /\ status = "destroyed"
  /\ call' = [call EXCEPT ![c] = "returned"]
  /\ UNCHANGED <<queue, reset, wipes>>

\* Mutant: the reset does not wait for the operation in progress.
SettledEagerly == loops = 0

\* Mutant: a reset overtaken by destroy never continues.
SettledAlive == loops = 0 /\ running = NoOp /\ status = "resetting"

\* The promise `settled` has resolved and earlier microtasks have run.
Settled == loops = 0 /\ running = NoOp

RunResetHandler ==
  /\ reset = "settling" /\ Settled
  /\ reset' = "handler"
  /\ wipes' = wipes + 1
  /\ UNCHANGED <<queue, call>>

\* The handler returns or throws; everyone who awaits the reset goes on.
EndReset ==
  /\ reset = "handler"
  /\ reset' = "none"
  /\ status' = IF status = "resetting" THEN "idle" ELSE status
  /\ call' = [c \in Caller |-> IF call[c] = "waiting" THEN "returned" ELSE call[c]]
  /\ UNCHANGED <<pending, opId, counter, loops, running, answer, born, wipes>>

Destroy ==
  /\ status # "destroyed"
  /\ Discard("destroyed")
  /\ status' = "destroyed"
  /\ UNCHANGED <<opId, counter, loops, running, born, resetting>>

Next == \/ \E o \in Op : Accept(o) \/ Refuse(o)
        \/ RunLoop \/ Finish
        \/ \E c \in Caller : LeadReset(c) \/ JoinReset(c) \/ SkipReset(c)
        \/ RunResetHandler \/ EndReset \/ Destroy

Spec == Init /\ [][Next]_vars

\* Microtasks run, and handlers are storage work and bounded waits that end.
Fairness == /\ WF_vars(RunLoop) /\ WF_vars(Finish)
            /\ WF_vars(RunResetHandler) /\ WF_vars(EndReset)

FairSpec == Spec /\ Fairness

-----------------------------------------------------------------------------
(* Properties                                                              *)

\* Types; a pending entry is one whose promise has not been settled, and an
\* operation in progress also has an open promise.
TypeOK ==
  /\ status \in {"idle", "processing", "resetting", "destroyed"}
  /\ pending \in Seq({o \in Op : answer[o] = "waiting"})
  /\ opId \in [Op -> Nat]
  /\ counter \in Nat
  /\ loops \in Nat
  /\ running \in {o \in Op : answer[o] = "waiting"} \cup {NoOp}
  /\ answer \in [Op -> Answer]
  /\ reset \in {"none", "settling", "handler"}
  /\ call \in [Caller -> {"out", "waiting", "returned"}]
  /\ wipes \in Nat
  /\ born \in [Op -> Nat]

\* No wakeup is lost: whenever something is pending, either a handler is in
\* progress in a loop that will take it, or a runLoop microtask is scheduled
\* (scheduleProcessing schedules none while the loop is busy or resetting).
NoLostWakeup ==
  pending # <<>> => \/ status = "processing" /\ running # NoOp
                    \/ status = "idle" /\ loops > 0

\* The session reset handler, which wipes the local store outside the queue,
\* never overlaps an operation, a queue destroyed during the reset included.
ResetAlone == reset = "handler" => running = NoOp

\* Whenever an operation starts, no operation of a higher priority, nor an
\* earlier one of the same priority, is left waiting.
Ahead(o, p) == \/ Priority[o] > Priority[p]
               \/ Priority[o] = Priority[p] /\ opId[o] < opId[p]

StartsInOrder ==
  [][running' # running /\ running' # NoOp
       => \A i \in DOMAIN pending' : ~Ahead(pending'[i], running')]_vars

\* What each operation has become, as SerialWriter counts it.
Stage(o) == CASE answer[o] = "unsent"      -> "new"
              [] answer[o] = "waiting"     -> IF running = o THEN "writing" ELSE "waiting"
              [] answer[o] = "ok"          -> "written"
              [] answer[o] = "thrown"      -> "failed"
              [] answer[o] \in Discarded   -> "discarded"

Gate == CASE status \in {"idle", "processing"} -> "open"
          [] status = "resetting"              -> "resetting"
          [] status = "destroyed"              -> "closed"

WipePhase == CASE reset = "none"     -> "none"
               [] reset = "settling" -> "due"
               [] reset = "handler"  -> "wiping"

Writer == INSTANCE SerialWriter
  WITH stage <- [o \in Op |-> Stage(o)], origin <- born, era <- wipes,
       gate <- Gate, wipe <- WipePhase

\* The queue implements SerialWriter: one write at a time, each inside the
\* session that accepted it, no wipe during a write.
KeepsSessionsApart == Writer!Spec

\* Every promise enqueue returned is settled, whatever resets and destroys do.
EveryOpAnswered == \A o \in Op : answer[o] = "waiting" ~> answer[o] # "waiting"

\* Every resetSession returns: the one that leads and those that join it, a
\* destroy in the middle of the reset included.
ResetsReturn == \A c \in Caller : call[c] = "waiting" ~> call[c] = "returned"

=============================================================================
