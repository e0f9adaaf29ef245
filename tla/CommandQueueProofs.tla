------------------------- MODULE CommandQueueProofs -------------------------
(***************************************************************************)
(* Theorems about CommandQueue for any commands, streams, callers and      *)
(* retry limit: its types, the order it promises, how often it sends and,  *)
(* where chains are the only dependencies, that nobody is stranded and     *)
(* each stream keeps its submission order.                                 *)
(***************************************************************************)
EXTENDS CommandQueue, TLAPS, SequenceTheorems

-----------------------------------------------------------------------------
(* The call stacks.                                                        *)

Stacks == [Thread -> Seq(FrameType)]

LEMMA StackType ==
  ASSUME call \in Stacks, NEW t \in Thread, call[t] # <<>>
  PROVE  /\ Len(call[t]) \in Nat \ {0}
         /\ Top(t) \in FrameType
BY LenProperties, ElementOfSeq, EmptySeq DEF Stacks, Top

LEMMA PushType ==
  ASSUME call \in Stacks, NEW t \in Thread, NEW f \in FrameType, Push(t, f)
  PROVE  call' \in Stacks
BY AppendProperties DEF Stacks, Push

LEMMA PopType ==
  ASSUME call \in Stacks, NEW t \in Thread, call[t] # <<>>, Pop(t)
  PROVE  call' \in Stacks
<1>1. Len(call[t]) \in Nat \ {0}
  BY StackType
<1>2. SubSeq(call[t], 1, Len(call[t]) - 1) \in Seq(FrameType)
  BY <1>1, SubSeqProperties DEF Stacks
<1>. QED
  BY <1>2 DEF Stacks, Pop

LEMMA BecomeType ==
  ASSUME call \in Stacks, NEW t \in Thread, call[t] # <<>>, NEW f \in FrameType, Become(t, f)
  PROVE  call' \in Stacks
<1>1. Len(call[t]) \in 1..Len(call[t])
  BY StackType
<1>2. [call[t] EXCEPT ![Len(call[t])] = f] \in Seq(FrameType)
  BY <1>1, ExceptSeq DEF Stacks
<1>. QED
  BY <1>2 DEF Stacks, Become

LEMMA NewFrameType ==
  ASSUME NEW c \in Cmd, NEW to \in {"failed", "cancelled"}, NEW pc \in FramePC
  PROVE  NewFrame(c, to, pc) \in FrameType
BY DEF NewFrame, FrameType, NoKeep

-----------------------------------------------------------------------------
(* Type correctness.  A timer names an attempt that was made, so the type  *)
(* invariant needs to know that a command being sent has an attempt.       *)

Sent == drain.pc = "sending" => drain.cur \in Cmd /\ attempts[drain.cur] > 0

TypeInv == TypeOK /\ Sent

LEMMA KickType ==
  ASSUME drain \in DrainType, reprocess \in BOOLEAN, Sent, attempts' = attempts, Kick
  PROVE  drain' \in DrainType /\ reprocess' \in BOOLEAN /\ Sent'
BY DEF Kick, DrainType, DrainPC, IdleDrain, Sent

LEMMA KickUnlessPausedType ==
  ASSUME drain \in DrainType, reprocess \in BOOLEAN, Sent, attempts' = attempts,
         KickUnlessPaused
  PROVE  drain' \in DrainType /\ reprocess' \in BOOLEAN /\ Sent'
BY KickType DEF KickUnlessPaused, Sent

LEMMA SetStatusType ==
  ASSUME TypeOK, NEW C \in SUBSET Cmd, NEW s \in Terminal \cup InMemory, SetStatus(C, s)
  PROVE  status' \in [Cmd -> Status] /\ active' \subseteq Cmd /\ settled' \subseteq Cmd
BY DEF TypeOK, SetStatus, Status

LEMMA UnblockType ==
  ASSUME TypeOK, NEW b \in Cmd, NEW keep \in SUBSET Cmd, Unblock(b, keep)
  PROVE  status' \in [Cmd -> Status] /\ blockedBy' \in [Cmd -> SUBSET Cmd]
BY DEF TypeOK, Unblock, Status, InMemory

\* The actions that leave the call stacks alone.

LEMMA EnqueueKeepsType ==
  ASSUME TypeInv, NEW c \in Cmd, Enqueue(c) \/ EnqueueContinues(c)
  PROVE  TypeInv'
<1>. USE DEF TypeInv
<1>1. ASSUME NEW r \in Request[c], EnqueuePrepare(c, r) PROVE TypeInv'
  <2>1. r \in RequestType
    BY RequestAssumption
  <2>2. Edges(r) \in [Cmd -> Source]
    BY DEF Edges, Source
  <2>. QED
    BY <1>1, <2>1, <2>2 DEF EnqueuePrepare, TypeOK, RequestType, Sent
<1>2. CASE EnqueueThrows(c)
  BY <1>2 DEF EnqueueThrows, TypeOK, Sent, record
<1>3. CASE EnqueueSave(c)
  BY <1>3 DEF EnqueueSave, TypeOK, Sent, Status, InMemory
<1>4. CASE EnqueueDone(c)
  BY <1>4, KickUnlessPausedType DEF EnqueueDone, TypeOK, record, Sent
<1>. QED
  BY <1>1, <1>2, <1>3, <1>4 DEF Enqueue, EnqueueContinues

LEMMA DrainKeepsType ==
  ASSUME TypeInv, DrainStep
  PROVE  TypeInv'
<1>. USE DEF TypeInv, DrainType, DrainPC
<1>1. CASE DrainSnapshot
  BY <1>1 DEF DrainSnapshot, TypeOK, Sent, record, enqueueing
<1>2. CASE DrainFailed
  BY <1>2 DEF DrainFailed, TypeOK, Sent, record, enqueueing
<1>3. CASE DrainCollect
  BY <1>3 DEF DrainCollect, TypeOK, Sent, record, enqueueing, Dependents
<1>4. CASE DrainEndPass
  BY <1>4 DEF DrainEndPass, TypeOK, Sent, record, enqueueing
<1>5. CASE DrainCheck
  <2>1. drain' = [drain EXCEPT !.pc = "snapshot"] \/ drain' = [drain EXCEPT !.pc = "finishing"]
    BY <1>5, Zenon DEF DrainCheck
  <2>2. drain' \in DrainType /\ drain'.pc # "sending"
    BY <2>1 DEF TypeOK
  <2>3. reprocess' \in BOOLEAN
    BY <1>5 DEF DrainCheck, TypeOK
  <2>. QED
    BY <1>5, <2>2, <2>3 DEF DrainCheck, TypeOK, Sent, record, enqueueing
<1>6. CASE DrainFinish
  BY <1>6 DEF DrainFinish, TypeOK, Sent, record, enqueueing, IdleDrain
<1>7. ASSUME NEW c \in Cmd, DrainSkip(c) PROVE TypeInv'
  BY <1>7 DEF DrainSkip, TypeOK, Sent, record, enqueueing
<1>8. ASSUME NEW c \in Cmd, DrainTake(c) PROVE TypeInv'
  BY <1>8 DEF DrainTake, TypeOK, Sent, record, enqueueing
<1>9. ASSUME NEW c \in Cmd, DrainDrop(c) PROVE TypeInv'
  BY <1>9 DEF DrainDrop, TypeOK, Sent, record, enqueueing
<1>10. ASSUME NEW c \in Cmd, DrainSend(c) PROVE TypeInv'
  <2>1. SetStatus({c}, "sending")
    BY <1>10 DEF DrainSend
  <2>2. status' \in [Cmd -> Status] /\ active' \subseteq Cmd /\ settled' \subseteq Cmd
    BY <2>1, SetStatusType DEF InMemory
  <2>3. attempts' \in [Cmd -> Nat] /\ attempts'[c] > 0
    BY <1>10 DEF DrainSend, TypeOK
  <2>. QED
    BY <1>10, <2>2, <2>3 DEF DrainSend, TypeOK, Sent, enqueueing
<1>11. ASSUME NEW c \in Cmd, DrainThrows(c) PROVE TypeInv'
  BY <1>11 DEF DrainThrows, TypeOK, Sent, record, enqueueing, IdleDrain
<1>12. ASSUME NEW c \in Cmd, ServerAccepts(c) PROVE TypeInv'
  <2>1. status' \in [Cmd -> Status] /\ active' \subseteq Cmd /\ settled' \subseteq Cmd
    BY <1>12, SetStatusType DEF ServerAccepts, InMemory
  <2>. QED
    BY <1>12, <2>1 DEF ServerAccepts, TypeOK, Sent, enqueueing
<1>13. ASSUME NEW c \in Cmd, ServerDefers(c) PROVE TypeInv'
  <2>1. status' \in [Cmd -> Status] /\ active' \subseteq Cmd /\ settled' \subseteq Cmd
    BY <1>13, SetStatusType DEF ServerDefers, InMemory
  <2>2. attempts[c] \in 1..(MaxAttempts - 1)
    BY <1>13, AttemptsAssumption DEF ServerDefers, Retryable, Sent, TypeOK
  <2>3. timers' \subseteq Cmd \X (1..(MaxAttempts - 1))
    BY <1>13, <2>2 DEF ServerDefers, TypeOK
  <2>. QED
    BY <1>13, <2>1, <2>3 DEF ServerDefers, TypeOK, Sent, enqueueing
<1>14. ASSUME NEW c \in Cmd, ServerRejects(c) PROVE TypeInv'
  <2>1. call' \in Stacks
    BY <1>14, PushType, NewFrameType DEF ServerRejects, TypeOK, Stacks, Thread, FramePC
  <2>. QED
    BY <1>14, <2>1 DEF ServerRejects, TypeOK, Sent, record, enqueueing, Stacks
<1>15. ASSUME NEW b \in Cmd, DrainResolve(b) PROVE TypeInv'
  BY <1>15 DEF DrainResolve, TypeOK, Sent, record, enqueueing
<1>16. ASSUME NEW b \in Cmd, DrainUnblock(b) PROVE TypeInv'
  <2>1. status' \in [Cmd -> Status] /\ blockedBy' \in [Cmd -> SUBSET Cmd]
    BY <1>16, UnblockType DEF DrainUnblock, TypeOK
  <2>. QED
    BY <1>16, <2>1 DEF DrainUnblock, TypeOK, Sent, enqueueing
<1>17. ASSUME NEW c \in Cmd, NEW applied \in BOOLEAN, DrainCompletes(c, applied) PROVE TypeInv'
  <2>1. status' \in [Cmd -> Status] /\ active' \subseteq Cmd /\ settled' \subseteq Cmd
    BY <1>17, SetStatusType DEF DrainCompletes, Terminal, TypeOK
  <2>. QED
    BY <1>17, <2>1 DEF DrainCompletes, TypeOK, Sent, enqueueing
<1>. QED
  BY <1>1, <1>2, <1>3, <1>4, <1>5, <1>6, <1>7, <1>8, <1>9, <1>10, <1>11, <1>12,
     <1>13, <1>14, <1>15, <1>16, <1>17 DEF DrainStep

\* The frames of a walk stay frames.

LEMMA HardSetsType ==
  ASSUME call \in Stacks, NEW t \in Thread, call[t] # <<>>, NEW hard \in HardSets(t)
  PROVE  hard \subseteq Top(t).todo /\ hard \in SUBSET Cmd
<1>1. Top(t).todo \subseteq Cmd
  BY StackType DEF FrameType
<1>. QED
  BY <1>1 DEF HardSets

LEMMA KeepType ==
  ASSUME TypeOK, NEW t \in Thread
  PROVE  Keep(t) \in [Cmd -> SUBSET Cmd]
BY DEF TypeOK, Keep

LEMMA SoftWriteType ==
  ASSUME TypeInv, NEW t \in Thread, call[t] # <<>>, NEW b \in Cmd, NEW f \in FrameType,
         NEW keep \in [Cmd -> SUBSET Cmd], SoftWrite(t, b, f, keep)
  PROVE  TypeInv'
<1>. DEFINE g == [f EXCEPT !.pc = "soft", !.keep = [keep EXCEPT ![b] = {}],
                           !.kick = @ \/ Unblocks(b, keep[b])]
<1>1. g \in FrameType
  BY DEF FrameType, FramePC, Unblocks
<1>2. call' \in Stacks
  BY <1>1, BecomeType DEF SoftWrite, TypeInv, TypeOK, Stacks
<1>3. status' \in [Cmd -> Status] /\ blockedBy' \in [Cmd -> SUBSET Cmd]
  BY UnblockType DEF SoftWrite, TypeInv
<1>. QED
  BY <1>2, <1>3 DEF SoftWrite, TypeInv, TypeOK, Sent, Stacks, enqueueing

LEMMA CallKeepsType ==
  ASSUME TypeInv, NEW t \in Thread, CallStep(t)
  PROVE  TypeInv'
<1>. USE DEF TypeInv
<1>0. call \in Stacks
  BY DEF TypeOK, Stacks
<1>1. CASE Terminate(t)
  <2>1. Top(t) \in FrameType /\ call[t] # <<>>
    BY <1>0, <1>1, StackType DEF Terminate, At
  <2>2. [Top(t) EXCEPT !.pc = "detach"] \in FrameType
    BY <2>1 DEF FrameType, FramePC
  <2>3. call' \in Stacks
    BY <1>0, <1>1, <2>1, <2>2, BecomeType DEF Terminate
  <2>4. Top(t).parent \in Cmd /\ Top(t).to \in Terminal
    BY <2>1 DEF FrameType, Terminal
  <2>5. status' \in [Cmd -> Status] /\ active' \subseteq Cmd /\ settled' \subseteq Cmd
    BY <1>1, <2>4, SetStatusType DEF Terminate
  <2>. QED
    BY <1>1, <2>3, <2>5 DEF Terminate, TypeOK, Sent, Stacks, enqueueing
<1>2. CASE Detach(t)
  <2>1. Top(t) \in FrameType /\ call[t] # <<>>
    BY <1>0, <1>2, StackType DEF Detach, At
  <2>2. [Top(t) EXCEPT !.pc = "scan"] \in FrameType
    BY <2>1 DEF FrameType, FramePC
  <2>3. call' \in Stacks
    BY <1>0, <1>2, <2>1, <2>2, BecomeType DEF Detach
  <2>4. latest' \in [Stream -> Cmd \cup {NoCmd}]
    BY <1>2 DEF Detach, DetachChains, TypeOK
  <2>. QED
    BY <1>2, <2>3, <2>4 DEF Detach, TypeOK, Sent, Stacks, record
<1>3. CASE CascadeScan(t)
  <2>1. Top(t) \in FrameType /\ call[t] # <<>>
    BY <1>0, <1>3, StackType DEF CascadeScan, At
  <2>. DEFINE found == {b \in Dependents(Top(t).parent) : status[b] \notin Terminal}
  <2>2. found \in SUBSET Cmd
    BY DEF Dependents, TypeOK
  <2>3. [Top(t) EXCEPT !.pc = "classify", !.todo = found] \in FrameType
    BY <2>1, <2>2 DEF FrameType, FramePC
  <2>4. call' \in Stacks
    BY <1>0, <1>3, <2>1, <2>3, BecomeType, PopType DEF CascadeScan
  <2>. QED
    BY <1>3, <2>4 DEF CascadeScan, TypeOK, Sent, Stacks, record, enqueueing
<1>4. CASE CascadeUncouple(t)
  <2>1. Top(t) \in FrameType /\ call[t] # <<>>
    BY <1>0, <1>4, StackType DEF CascadeUncouple, At
  <2>2. [Top(t) EXCEPT !.pc = "recurse"] \in FrameType
    BY <2>1 DEF FrameType, FramePC
  <2>3. call' \in Stacks
    BY <1>0, <1>4, <2>1, <2>2, BecomeType DEF CascadeUncouple
  <2>4. latest' \in [Stream -> Cmd \cup {NoCmd}]
    BY <1>4 DEF CascadeUncouple, DetachChains, TypeOK
  <2>. QED
    BY <1>4, <2>3, <2>4 DEF CascadeUncouple, TypeOK, Sent, Stacks, record
<1>5. CASE CascadeRecursed(t)
  <2>1. Top(t) \in FrameType /\ call[t] # <<>>
    BY <1>0, <1>5, StackType DEF CascadeRecursed, At
  <2>2. [Top(t) EXCEPT !.pc = "soft"] \in FrameType
    BY <2>1 DEF FrameType, FramePC
  <2>3. call' \in Stacks
    BY <1>0, <1>5, <2>1, <2>2, BecomeType DEF CascadeRecursed
  <2>. QED
    BY <1>5, <2>3 DEF CascadeRecursed, TypeOK, Sent, Stacks, record, enqueueing
<1>6. CASE CascadeReturn(t)
  <2>1. call' \in Stacks
    BY <1>0, <1>6, PopType DEF CascadeReturn, At
  <2>2. attempts' = attempts
    BY <1>6 DEF CascadeReturn, record
  <2>3. drain' \in DrainType /\ reprocess' \in BOOLEAN /\ Sent'
    BY <1>6, <2>2, KickUnlessPausedType DEF CascadeReturn, TypeOK, Sent
  <2>. QED
    BY <1>6, <2>1, <2>3 DEF CascadeReturn, TypeOK, Stacks, record, enqueueing
<1>7. ASSUME NEW hard \in SUBSET Cmd, CascadeCancel(t, hard) PROVE TypeInv'
  <2>1. Top(t) \in FrameType /\ call[t] # <<>>
    BY <1>0, <1>7, StackType DEF CascadeCancel, At
  <2>2. [Top(t) EXCEPT !.pc = "uncouple", !.todo = hard,
                       !.soft = Top(t).todo \ hard, !.keep = Keep(t)] \in FrameType
    BY <2>1, KeepType DEF FrameType, FramePC
  <2>3. call' \in Stacks
    BY <1>0, <1>7, <2>1, <2>2, BecomeType DEF CascadeCancel
  <2>4. status' \in [Cmd -> Status] /\ active' \subseteq Cmd /\ settled' \subseteq Cmd
    BY <1>7, SetStatusType DEF CascadeCancel, Terminal
  <2>. QED
    BY <1>7, <2>3, <2>4 DEF CascadeCancel, TypeOK, Sent, Stacks, enqueueing
<1>8. ASSUME NEW b \in Cmd, CascadeRecurse(t, b) PROVE TypeInv'
  <2>1. Top(t) \in FrameType /\ call[t] # <<>> /\ Len(call[t]) \in Nat \ {0}
    BY <1>0, <1>8, StackType DEF CascadeRecurse, At
  <2>2. [Top(t) EXCEPT !.todo = @ \ {b}] \in FrameType
    BY <2>1 DEF FrameType
  <2>3. [call[t] EXCEPT ![Len(call[t])] = [Top(t) EXCEPT !.todo = @ \ {b}]] \in Seq(FrameType)
    BY <1>0, <2>1, <2>2, ExceptSeq DEF Stacks
  <2>4. NewFrame(b, "cancelled", "scan") \in FrameType
    BY NewFrameType DEF FramePC
  <2>5. call' \in Stacks
    BY <1>0, <1>8, <2>3, <2>4, AppendProperties DEF CascadeRecurse, Stacks
  <2>. QED
    BY <1>8, <2>5 DEF CascadeRecurse, TypeOK, Sent, Stacks, record, enqueueing
<1>9. ASSUME NEW b \in Cmd, CascadeAllSoft(t, b) PROVE TypeInv'
  <2>1. Top(t) \in FrameType /\ call[t] # <<>>
    BY <1>0, <1>9, StackType DEF CascadeAllSoft, At
  <2>2. [Top(t) EXCEPT !.todo = {}, !.soft = Top(t).todo \ {b}] \in FrameType
    BY <2>1 DEF FrameType
  <2>. QED
    BY <1>9, <2>1, <2>2, KeepType, SoftWriteType DEF CascadeAllSoft
<1>10. ASSUME NEW b \in Cmd, CascadeSoft(t, b) PROVE TypeInv'
  <2>1. Top(t) \in FrameType /\ call[t] # <<>>
    BY <1>0, <1>10, StackType DEF CascadeSoft, At
  <2>2. [Top(t) EXCEPT !.soft = @ \ {b}] \in FrameType /\ Top(t).keep \in [Cmd -> SUBSET Cmd]
    BY <2>1 DEF FrameType
  <2>. QED
    BY <1>10, <2>1, <2>2, SoftWriteType DEF CascadeSoft
<1>. QED
  BY <1>1, <1>2, <1>3, <1>4, <1>5, <1>6, <1>7, <1>8, <1>9, <1>10 DEF CallStep

LEMMA EnvironmentKeepsType ==
  ASSUME TypeInv,
         \/ \E t \in Caller : CallBegins(t)
         \/ \E x \in timers : TimerFires(x)
         \/ Environment
  PROVE  TypeInv'
<1>. USE DEF TypeInv
<1>0. call \in Stacks
  BY DEF TypeOK, Stacks
<1>1. ASSUME NEW t \in Caller, NEW c \in Cmd, CancelCommand(t, c) PROVE TypeInv'
  <2>1. call' \in Stacks
    BY <1>0, <1>1, PushType, NewFrameType DEF CancelCommand, Thread, FramePC
  <2>. QED
    BY <1>1, <2>1 DEF CancelCommand, TypeOK, Sent, Stacks, record, enqueueing
<1>2. ASSUME NEW t \in Caller, NEW c \in Cmd, MarkFailedFromConflict(t, c) PROVE TypeInv'
  <2>1. call' \in Stacks
    BY <1>0, <1>2, PushType, NewFrameType DEF MarkFailedFromConflict, Thread, FramePC
  <2>. QED
    BY <1>2, <2>1 DEF MarkFailedFromConflict, TypeOK, Sent, Stacks, record, enqueueing
<1>3. ASSUME NEW x \in timers, TimerFires(x) PROVE TypeInv'
  <2>1. drain' \in DrainType /\ reprocess' \in BOOLEAN /\ Sent'
    BY <1>3, KickUnlessPausedType DEF TimerFires, TypeOK, record
  <2>. QED
    BY <1>3, <2>1 DEF TimerFires, TypeOK, record, enqueueing
<1>4. CASE Pause
  BY <1>4 DEF Pause, TypeOK, Sent, record, enqueueing
<1>5. CASE Resume
  <2>1. drain' \in DrainType /\ reprocess' \in BOOLEAN /\ Sent'
    BY <1>5, KickType DEF Resume, TypeOK, record
  <2>. QED
    BY <1>5, <2>1 DEF Resume, TypeOK, record, enqueueing
<1>6. ASSUME NEW c \in Cmd, RetryCommand(c) PROVE TypeInv'
  <2>1. status' \in [Cmd -> Status] /\ active' \subseteq Cmd /\ settled' \subseteq Cmd
    BY <1>6, SetStatusType DEF RetryCommand, InMemory
  <2>. QED
    BY <1>6, <2>1 DEF RetryCommand, TypeOK, Sent, enqueueing
<1>7. ASSUME NEW c \in Cmd, SyncApplies(c) PROVE TypeInv'
  <2>1. status' \in [Cmd -> Status] /\ active' \subseteq Cmd /\ settled' \subseteq Cmd
    BY <1>7, SetStatusType DEF SyncApplies, Terminal
  <2>. QED
    BY <1>7, <2>1 DEF SyncApplies, TypeOK, Sent, enqueueing
<1>. QED
  BY <1>1, <1>2, <1>3, <1>4, <1>5, <1>6, <1>7 DEF CallBegins, Environment

LEMMA TypeInductive == Spec => []TypeInv
<1>1. ASSUME Init PROVE TypeInv
  <2>1. call \in [Thread -> Seq(FrameType)]
    BY <1>1, EmptySeq DEF Init
  <2>2. drain \in DrainType /\ drain.pc = "idle"
    BY <1>1 DEF Init, IdleDrain, DrainType, DrainPC
  <2>3. paused \in BOOLEAN /\ reprocess \in BOOLEAN
    BY <1>1 DEF Init
  <2>. QED
    BY <1>1, <2>1, <2>2, <2>3 DEF Init, TypeInv, TypeOK, Sent, Status, Source
<1>2. TypeInv /\ [Next]_vars => TypeInv'
  <2>1. CASE Next
    BY <2>1, EnqueueKeepsType, DrainKeepsType, CallKeepsType, EnvironmentKeepsType DEF Next
  <2>2. ASSUME TypeInv, UNCHANGED vars PROVE TypeInv'
    BY <2>2 DEF vars, record, enqueueing, TypeInv, TypeOK, Sent
  <2>. QED
    BY <2>1, <2>2
<1>. QED
  BY <1>1, <1>2, PTL DEF Spec

\* Every reachable state is well typed: in particular a retry timer stands for an
\* attempt that was not the last one allowed (processCommandFailure).
THEOREM TypeCorrect == Spec => []TypeOK
BY TypeInductive, PTL DEF TypeInv

-----------------------------------------------------------------------------
(* The order the queue promises: a command is sent only after its gate,    *)
(* and CommandQueue implements DependencyGate.                             *)
(*                                                                         *)
(* The argument follows what each command still owes: the dependencies of  *)
(* its gate that have not settled, or that are hard and not accepted.      *)
(* Nobody ever writes a blockedBy that omits an owed dependency, though    *)
(* the unblocking after a success and the cascades write lists they        *)
(* computed earlier, since what is owed only shrinks in between.           *)

Saved == {c \in Cmd : enq[c] \in {"saved", "done"}}

Owed(c) == {d \in gate[c] : \/ d \notin settled
                            \/ source[c][d] \in {"explicit", "entity-ref"} /\ d \notin confirmed}

Frames == UNION {{call[t][i] : i \in 1..Len(call[t])} : t \in Thread}

\* A frame walks the dependents of a settled command; the lists it will write keep
\* what is owed.
FrameOK(f) ==
  /\ f.todo \subseteq Saved /\ f.soft \subseteq Saved
  /\ f.pc # "events" => f.parent \in settled
  /\ f.pc \in {"uncouple", "recurse"} => f.todo \subseteq settled
  /\ f.pc \in {"uncouple", "recurse", "soft"} => \A b \in f.soft : Owed(b) \subseteq f.keep[b]

DrainOK ==
  /\ drain.todo \subseteq Saved /\ drain.deps \subseteq Saved
  /\ drain.pc = "taken" => drain.cur \in Saved /\ Owed(drain.cur) = {}
  /\ drain.pc \in {"won", "unblock", "resolve"} => drain.cur \in confirmed
  /\ drain.pc = "resolve" => drain.dep \in Saved /\ Owed(drain.dep) \subseteq drain.keep

RecordsOK ==
  /\ active \subseteq Saved
  /\ confirmed \subseteq settled
  /\ \A c \in Cmd \ Saved : gate[c] = {} /\ attempts[c] = 0
  /\ \A c \in Cmd : Owed(c) \subseteq blockedBy[c]
  /\ \A c \in Cmd : attempts[c] > 0 => Owed(c) = {}

GateInv == RecordsOK /\ DrainOK /\ \A f \in Frames : FrameOK(f)

-----------------------------------------------------------------------------
(* What a step may do to what is owed.                                     *)

\* Steps that enqueue nothing.
Steady ==
  /\ gate' = gate /\ source' = source /\ enq' = enq
  /\ settled \subseteq settled'
  /\ confirmed \subseteq confirmed' /\ confirmed' \subseteq settled'

\* Every step.
Monotone ==
  /\ Saved \subseteq Saved'
  /\ settled \subseteq settled' /\ confirmed \subseteq confirmed'
  /\ \A b \in Saved : Owed(b)' \subseteq Owed(b)

LEMMA SteadyIsMonotone ==
  ASSUME Steady
  PROVE  Monotone /\ Saved' = Saved
BY DEF Steady, Monotone, Saved, Owed

LEMMA RecordsKept ==
  ASSUME TypeInv, RecordsOK, Steady, attempts' = attempts, blockedBy' = blockedBy,
         active' \subseteq active
  PROVE  RecordsOK'
<1>1. Saved' = Saved /\ Monotone
  BY SteadyIsMonotone
<1>2. ASSUME NEW c \in Cmd \ Saved PROVE Owed(c)' = {}
  BY <1>2 DEF RecordsOK, Steady, Owed
<1>3. \A c \in Cmd : Owed(c)' \subseteq Owed(c)
  BY <1>1, <1>2 DEF Monotone
<1>. QED
  BY <1>1, <1>3 DEF RecordsOK, Steady

LEMMA FramesKept ==
  ASSUME Monotone, NEW f, FrameOK(f)
  PROVE  FrameOK(f)'
BY DEF Monotone, FrameOK

LEMMA DrainKept ==
  ASSUME TypeInv, DrainOK, Monotone, drain' = drain
  PROVE  DrainOK'
BY DEF Monotone, DrainOK

LEMMA KickKeeps ==
  ASSUME TypeInv, DrainOK, Monotone, Kick \/ KickUnlessPaused
  PROVE  DrainOK'
<1>1. CASE drain' = drain
  BY <1>1, DrainKept
<1>2. CASE drain' = [IdleDrain EXCEPT !.pc = "snapshot"]
  BY <1>2 DEF DrainOK, IdleDrain
<1>. QED
  BY <1>1, <1>2 DEF Kick, KickUnlessPaused

LEMMA SetStatusGrows ==
  ASSUME NEW C, NEW s, SetStatus(C, s)
  PROVE  /\ settled \subseteq settled' /\ active' \subseteq active
         /\ s \in Terminal => C \subseteq settled'
         /\ s \notin Terminal => settled' = settled
         /\ settled' \subseteq settled \cup C
BY DEF SetStatus

LEMMA PushFrames ==
  ASSUME call \in Stacks, NEW t \in Thread, NEW f \in FrameType, Push(t, f)
  PROVE  Frames' \subseteq Frames \cup {f}
<1>1. ASSUME NEW u \in Thread, NEW i \in 1..Len(call'[u]) PROVE call'[u][i] \in Frames \cup {f}
  <2>1. CASE u # t
    BY <1>1, <2>1 DEF Push, Stacks, Frames
  <2>2. CASE u = t
    <3>1. call'[t] = Append(call[t], f)
      BY DEF Push, Stacks
    <3>2. Len(call[t]) \in Nat /\ Len(call'[t]) = Len(call[t]) + 1
      BY <3>1, AppendProperties, LenProperties DEF Stacks
    <3>3. CASE i = Len(call[t]) + 1
      BY <2>2, <3>1, <3>3, AppendProperties DEF Stacks
    <3>4. CASE i \in 1..Len(call[t])
      BY <2>2, <3>1, <3>4, AppendProperties DEF Stacks, Frames
    <3>. QED
      BY <2>2, <3>2, <3>3, <3>4
  <2>. QED
    BY <2>1, <2>2
<1>. QED
  BY <1>1 DEF Frames

LEMMA PopFrames ==
  ASSUME call \in Stacks, NEW t \in Thread, call[t] # <<>>, Pop(t)
  PROVE  Frames' \subseteq Frames
<1>1. ASSUME NEW u \in Thread, NEW i \in 1..Len(call'[u]) PROVE call'[u][i] \in Frames
  <2>1. CASE u # t
    BY <1>1, <2>1 DEF Pop, Stacks, Frames
  <2>2. CASE u = t
    <3>1. Len(call[t]) \in Nat \ {0}
      BY StackType
    <3>2. call'[t] = SubSeq(call[t], 1, Len(call[t]) - 1)
      BY DEF Pop, Stacks
    <3>. DEFINE n == Len(call[t]) - 1
                s == SubSeq(call[t], 1, n)
    <3>0. n \in Nat /\ 1 \in 1..(Len(call[t]) + 1) /\ n \in (1 - 1)..Len(call[t])
      BY <3>1
    <3>3. /\ Len(s) = IF 1 <= n THEN n - 1 + 1 ELSE 0
          /\ \A j \in 1..(n - 1 + 1) : s[j] = call[t][1 + j - 1]
      <4>. HIDE DEF n
      <4>. QED
        BY <3>0, SubSeqProperties DEF Stacks
    <3>4. Len(s) = n /\ \A j \in 1..n : s[j] = call[t][j]
      BY <3>0, <3>3
    <3>. QED
      BY <2>2, <3>0, <3>2, <3>4 DEF Frames
  <2>. QED
    BY <2>1, <2>2
<1>. QED
  BY <1>1 DEF Frames

LEMMA BecomeFrames ==
  ASSUME call \in Stacks, NEW t \in Thread, call[t] # <<>>, NEW f \in FrameType, Become(t, f)
  PROVE  Frames' \subseteq Frames \cup {f}
<1>1. ASSUME NEW u \in Thread, NEW i \in 1..Len(call'[u]) PROVE call'[u][i] \in Frames \cup {f}
  <2>1. CASE u # t
    BY <1>1, <2>1 DEF Become, Stacks, Frames
  <2>2. CASE u = t
    <3>1. Len(call[t]) \in 1..Len(call[t])
      BY StackType
    <3>2. call'[t] = [call[t] EXCEPT ![Len(call[t])] = f]
      BY DEF Become, Stacks
    <3>3. /\ Len(call'[t]) = Len(call[t])
          /\ \A j \in 1..Len(call[t]) : call'[t][j] = IF j = Len(call[t]) THEN f ELSE call[t][j]
      BY <3>1, <3>2, ExceptSeq DEF Stacks
    <3>. QED
      BY <2>2, <3>3 DEF Frames
  <2>. QED
    BY <2>1, <2>2
<1>. QED
  BY <1>1 DEF Frames

LEMMA TopIsFrame ==
  ASSUME call \in Stacks, NEW t \in Thread, call[t] # <<>>
  PROVE  Top(t) \in Frames
BY StackType DEF Frames, Top

-----------------------------------------------------------------------------
(* Every step preserves the invariant.                                     *)

\* A step that changes none of what the invariant reads but the drain.
LEMMA DrainOnly ==
  ASSUME TypeInv, GateInv, UNCHANGED <<record, enqueueing, call, settled, confirmed>>
  PROVE  Steady /\ Monotone /\ RecordsOK' /\ (\A f \in Frames : FrameOK(f)') /\ Frames' = Frames
<1>1. Steady
  BY DEF Steady, GateInv, RecordsOK, record, enqueueing
<1>2. Monotone
  BY <1>1, SteadyIsMonotone
<1>3. RecordsOK'
  BY <1>1, RecordsKept DEF GateInv, record
<1>4. \A f \in Frames : FrameOK(f)'
  BY <1>2, FramesKept DEF GateInv
<1>. QED
  BY <1>1, <1>2, <1>3, <1>4 DEF Frames

\* A step that writes statuses of C, and nothing else the records part reads.
LEMMA StatusOnly ==
  ASSUME TypeInv, GateInv, NEW C, NEW s, SetStatus(C, s),
         UNCHANGED <<blockedBy, source, enqueueing>>,
         confirmed \subseteq confirmed', confirmed' \subseteq settled'
  PROVE  Steady /\ Monotone /\ (\A f \in Frames : FrameOK(f)') /\ (attempts' = attempts => RecordsOK')
<1>1. settled \subseteq settled' /\ active' \subseteq active
  BY SetStatusGrows
<1>2. Steady
  BY <1>1 DEF Steady, enqueueing
<1>3. Monotone
  BY <1>2, SteadyIsMonotone
<1>4. attempts' = attempts => RecordsOK'
  BY <1>1, <1>2, RecordsKept DEF GateInv
<1>5. \A f \in Frames : FrameOK(f)'
  BY <1>3, FramesKept DEF GateInv
<1>. QED
  BY <1>2, <1>3, <1>4, <1>5

\* A step that writes a blockedBy, and with it a status, but settles nothing: the
\* list written keeps what the command owes.
LEMMA UnblockKeeps ==
  ASSUME TypeInv, GateInv, NEW b \in Cmd, NEW keep \in SUBSET Cmd, Unblock(b, keep),
         Owed(b) \subseteq keep,
         UNCHANGED <<source, attempts, active, enqueueing, settled, confirmed>>
  PROVE  Monotone /\ RecordsOK' /\ (\A f \in Frames : FrameOK(f)')
<1>1. Steady
  BY DEF Steady, GateInv, RecordsOK, enqueueing
<1>2. Monotone /\ Saved' = Saved
  BY <1>1, SteadyIsMonotone
<1>3. \A c \in Cmd : Owed(c)' = Owed(c)
  BY DEF Owed, enqueueing
<1>4. \A c \in Cmd : Owed(c) \subseteq blockedBy'[c]
  BY DEF Unblock, TypeInv, TypeOK, GateInv, RecordsOK
<1>5. RecordsOK'
  BY <1>2, <1>3, <1>4 DEF GateInv, RecordsOK, enqueueing
<1>6. \A f \in Frames : FrameOK(f)'
  BY <1>2, FramesKept DEF GateInv
<1>. QED
  BY <1>2, <1>5, <1>6

LEMMA EnqueueKeepsGate ==
  ASSUME TypeInv, GateInv, NEW c \in Cmd, Enqueue(c) \/ EnqueueContinues(c)
  PROVE  GateInv'
<1>1. ASSUME NEW r \in Request[c], EnqueuePrepare(c, r) PROVE GateInv'
  <2>1. c \notin Saved /\ Saved' = Saved
    BY <1>1 DEF EnqueuePrepare, Saved, TypeInv, TypeOK
  <2>2. \A b \in Cmd : Owed(b)' = Owed(b)
    BY <1>1, <2>1 DEF EnqueuePrepare, Owed, GateInv, RecordsOK, TypeInv, TypeOK
  <2>3. Monotone
    BY <1>1, <2>1, <2>2 DEF EnqueuePrepare, Monotone, Saved
  <2>4. RecordsOK'
    BY <1>1, <2>1, <2>2 DEF EnqueuePrepare, GateInv, RecordsOK
  <2>5. DrainOK'
    BY <1>1, <2>3, DrainKept DEF EnqueuePrepare, GateInv
  <2>6. Frames' = Frames /\ \A f \in Frames : FrameOK(f)'
    BY <1>1, <2>3, FramesKept DEF EnqueuePrepare, Frames, GateInv
  <2>. QED
    BY <2>4, <2>5, <2>6 DEF GateInv
<1>2. CASE EnqueueThrows(c)
  <2>1. Saved' = Saved /\ \A b \in Cmd : Owed(b)' = Owed(b)
    BY <1>2 DEF EnqueueThrows, Saved, Owed, TypeInv, TypeOK, record
  <2>2. Monotone
    BY <1>2, <2>1 DEF EnqueueThrows, Monotone, Saved
  <2>3. RecordsOK'
    BY <1>2, <2>1 DEF EnqueueThrows, GateInv, RecordsOK, record
  <2>4. DrainOK'
    BY <1>2, <2>2, DrainKept DEF EnqueueThrows, GateInv
  <2>5. Frames' = Frames /\ \A f \in Frames : FrameOK(f)'
    BY <1>2, <2>2, FramesKept DEF EnqueueThrows, Frames, GateInv
  <2>. QED
    BY <2>3, <2>4, <2>5 DEF GateInv
<1>3. CASE EnqueueSave(c)
  <2>1. c \notin Saved /\ Saved' = Saved \cup {c}
    BY <1>3 DEF EnqueueSave, Saved, TypeInv, TypeOK
  <2>2. \A b \in Cmd \ {c} : Owed(b)' = Owed(b)
    BY <1>3 DEF EnqueueSave, Owed, TypeInv, TypeOK
  <2>3. Monotone
    BY <1>3, <2>1, <2>2 DEF EnqueueSave, Monotone, Saved
  <2>4. Owed(c)' \subseteq blockedBy'[c] /\ \A b \in Cmd \ {c} : blockedBy'[b] = blockedBy[b]
    BY <1>3 DEF EnqueueSave, Owed, TypeInv, TypeOK
  <2>5. \A b \in Cmd \ {c} : gate'[b] = gate[b]
    BY <1>3 DEF EnqueueSave, TypeInv, TypeOK
  <2>6. attempts' = attempts /\ attempts[c] = 0 /\ active' = active \cup {c}
    BY <1>3, <2>1 DEF EnqueueSave, GateInv, RecordsOK
  <2>7. confirmed' \subseteq settled'
    BY <1>3 DEF EnqueueSave, GateInv, RecordsOK
  <2>8. RecordsOK'
    BY <2>1, <2>2, <2>4, <2>5, <2>6, <2>7 DEF GateInv, RecordsOK
  <2>9. DrainOK'
    BY <1>3, <2>3, DrainKept DEF EnqueueSave, GateInv
  <2>10. Frames' = Frames /\ \A f \in Frames : FrameOK(f)'
    BY <1>3, <2>3, FramesKept DEF EnqueueSave, Frames, GateInv
  <2>. QED
    BY <2>8, <2>9, <2>10 DEF GateInv
<1>4. CASE EnqueueDone(c)
  <2>1. Saved' = Saved /\ \A b \in Cmd : Owed(b)' = Owed(b)
    BY <1>4 DEF EnqueueDone, Saved, Owed, TypeInv, TypeOK, record
  <2>2. Monotone
    BY <1>4, <2>1 DEF EnqueueDone, Monotone, Saved
  <2>3. RecordsOK'
    BY <1>4, <2>1 DEF EnqueueDone, GateInv, RecordsOK, record
  <2>4. DrainOK'
    BY <1>4, <2>2, DrainKept, KickKeeps DEF EnqueueDone, GateInv
  <2>5. Frames' = Frames /\ \A f \in Frames : FrameOK(f)'
    BY <1>4, <2>2, FramesKept DEF EnqueueDone, Frames, GateInv
  <2>. QED
    BY <2>3, <2>4, <2>5 DEF GateInv
<1>. QED
  BY <1>1, <1>2, <1>3, <1>4 DEF Enqueue, EnqueueContinues

LEMMA DrainKeepsGate ==
  ASSUME TypeInv, GateInv, DrainStep
  PROVE  GateInv'
<1>. DEFINE Same == UNCHANGED <<record, enqueueing, call, settled, confirmed>>
<1>0. ASSUME Same, DrainOK' PROVE GateInv'
  BY <1>0, DrainOnly DEF GateInv
<1>. USE DEF TypeInv, TypeOK, DrainType
<1>1. CASE DrainSnapshot
  <2>1. DrainOK'
    BY <1>1 DEF DrainSnapshot, DrainOK, GateInv, RecordsOK, Saved, record, enqueueing
  <2>. QED
    BY <1>0, <1>1, <2>1 DEF DrainSnapshot
<1>2. CASE DrainFailed
  <2>1. DrainOK'
    BY <1>2 DEF DrainFailed, DrainOK, GateInv, Saved, enqueueing
  <2>. QED
    BY <1>0, <1>2, <2>1 DEF DrainFailed
<1>3. CASE DrainCollect
  <2>1. DrainOK'
    BY <1>3 DEF DrainCollect, DrainOK, GateInv, RecordsOK, Dependents, Saved, enqueueing
  <2>. QED
    BY <1>0, <1>3, <2>1 DEF DrainCollect
<1>4. CASE DrainEndPass
  <2>1. DrainOK'
    BY <1>4 DEF DrainEndPass, DrainOK, GateInv, Saved, enqueueing
  <2>. QED
    BY <1>0, <1>4, <2>1 DEF DrainEndPass
<1>5. CASE DrainCheck
  <2>1. drain' = [drain EXCEPT !.pc = "snapshot"] \/ drain' = [drain EXCEPT !.pc = "finishing"]
    BY <1>5, Zenon DEF DrainCheck
  <2>2. DrainOK'
    BY <1>5, <2>1 DEF DrainCheck, DrainOK, GateInv, Saved, enqueueing
  <2>. QED
    BY <1>0, <1>5, <2>2 DEF DrainCheck
<1>6. CASE DrainFinish
  <2>1. DrainOK'
    BY <1>6 DEF DrainFinish, IdleDrain, DrainOK
  <2>. QED
    BY <1>0, <1>6, <2>1 DEF DrainFinish
<1>7. ASSUME NEW c \in Cmd, DrainSkip(c) PROVE GateInv'
  <2>1. DrainOK'
    BY <1>7 DEF DrainSkip, DrainOK, GateInv, Saved, enqueueing
  <2>. QED
    BY <1>0, <1>7, <2>1 DEF DrainSkip
<1>8. ASSUME NEW c \in Cmd, DrainTake(c) PROVE GateInv'
  <2>1. Owed(c) = {} /\ c \in Saved
    BY <1>8 DEF DrainTake, First, GateInv, RecordsOK, DrainOK
  <2>2. Owed(c)' = Owed(c) /\ Saved' = Saved
    BY <1>8 DEF DrainTake, Owed, Saved, record, enqueueing
  <2>3. DrainOK'
    BY <1>8, <2>1, <2>2 DEF DrainTake, DrainOK, GateInv
  <2>. QED
    BY <1>0, <1>8, <2>3 DEF DrainTake
<1>9. ASSUME NEW c \in Cmd, DrainDrop(c) PROVE GateInv'
  <2>1. DrainOK'
    BY <1>9 DEF DrainDrop, DrainOK, GateInv, Saved, enqueueing
  <2>. QED
    BY <1>0, <1>9, <2>1 DEF DrainDrop
<1>10. ASSUME NEW c \in Cmd, DrainSend(c) PROVE GateInv'
  <2>1. c \in Saved /\ Owed(c) = {}
    BY <1>10 DEF DrainSend, GateInv, DrainOK
  <2>2. settled' = settled /\ active' \subseteq active
    BY <1>10 DEF DrainSend, SetStatus, Terminal, InMemory
  <2>3. Saved' = Saved /\ \A b \in Cmd : Owed(b)' = Owed(b)
    BY <1>10, <2>2 DEF DrainSend, Saved, Owed, enqueueing
  <2>4. Monotone
    BY <1>10, <2>2, <2>3 DEF DrainSend, Monotone, Saved
  <2>5. \A b \in Cmd \ {c} : attempts'[b] = attempts[b]
    BY <1>10 DEF DrainSend
  <2>6. RecordsOK'
    BY <1>10, <2>1, <2>2, <2>3, <2>5 DEF DrainSend, GateInv, RecordsOK, enqueueing
  <2>7. DrainOK'
    BY <1>10, <2>3 DEF DrainSend, DrainOK, GateInv
  <2>8. Frames' = Frames /\ \A f \in Frames : FrameOK(f)'
    BY <1>10, <2>4, FramesKept DEF DrainSend, Frames, GateInv
  <2>. QED
    BY <2>6, <2>7, <2>8 DEF GateInv
<1>11. ASSUME NEW c \in Cmd, DrainThrows(c) PROVE GateInv'
  <2>1. DrainOK'
    BY <1>11 DEF DrainThrows, IdleDrain, DrainOK
  <2>. QED
    BY <1>0, <1>11, <2>1 DEF DrainThrows
<1>12. ASSUME NEW c \in Cmd, ServerAccepts(c) PROVE GateInv'
  <2>1. {c} \subseteq settled' /\ settled \subseteq settled'
    BY <1>12, SetStatusGrows DEF ServerAccepts, Terminal
  <2>2. confirmed \subseteq confirmed' /\ confirmed' \subseteq settled' /\ c \in confirmed'
    BY <1>12, <2>1 DEF ServerAccepts, GateInv, RecordsOK
  <2>3. RecordsOK' /\ \A f \in Frames : FrameOK(f)'
    BY <1>12, <2>2, StatusOnly DEF ServerAccepts
  <2>4. DrainOK'
    BY <1>12, <2>2 DEF ServerAccepts, DrainOK, GateInv, Saved, enqueueing
  <2>. QED
    BY <1>12, <2>3, <2>4 DEF ServerAccepts, Frames, GateInv
<1>13. ASSUME NEW c \in Cmd, ServerDefers(c) PROVE GateInv'
  <2>1. settled \subseteq settled'
    BY <1>13, SetStatusGrows DEF ServerDefers
  <2>2. RecordsOK' /\ \A f \in Frames : FrameOK(f)'
    BY <1>13, <2>1, StatusOnly DEF ServerDefers, GateInv, RecordsOK
  <2>3. DrainOK'
    BY <1>13 DEF ServerDefers, DrainOK, GateInv, Saved, enqueueing
  <2>. QED
    BY <1>13, <2>2, <2>3 DEF ServerDefers, Frames, GateInv
<1>14. ASSUME NEW c \in Cmd, ServerRejects(c) PROVE GateInv'
  <2>. DEFINE f == NewFrame(c, "failed", "events")
  <2>1. Steady /\ Monotone
    <3>1. Steady
      BY <1>14 DEF ServerRejects, Steady, GateInv, RecordsOK, record, enqueueing
    <3>. QED
      BY <3>1, SteadyIsMonotone
  <2>2. RecordsOK'
    BY <1>14, <2>1, RecordsKept DEF ServerRejects, GateInv, record
  <2>3. DrainOK'
    BY <1>14 DEF ServerRejects, DrainOK, GateInv, Saved, enqueueing
  <2>4. Frames' \subseteq Frames \cup {f}
    BY <1>14, PushFrames, NewFrameType DEF ServerRejects, Stacks, Thread, FramePC
  <2>5. FrameOK(f)'
    BY DEF FrameOK, NewFrame
  <2>6. \A g \in Frames : FrameOK(g)'
    BY <2>1, FramesKept DEF GateInv
  <2>. QED
    BY <2>2, <2>3, <2>4, <2>5, <2>6 DEF GateInv
<1>15. ASSUME NEW b \in Cmd, DrainResolve(b) PROVE GateInv'
  <2>1. b \in Saved /\ drain.cur \in confirmed /\ drain.cur \in settled
    BY <1>15 DEF DrainResolve, First, GateInv, DrainOK, RecordsOK
  <2>2. Owed(b) \subseteq blockedBy[b] \ {drain.cur}
    BY <1>15, <2>1 DEF GateInv, RecordsOK, Owed
  <2>3. Owed(b)' = Owed(b) /\ Saved' = Saved
    BY <1>15 DEF DrainResolve, Owed, Saved, record, enqueueing
  <2>4. DrainOK'
    BY <1>15, <2>1, <2>2, <2>3 DEF DrainResolve, DrainOK, GateInv
  <2>. QED
    BY <1>0, <1>15, <2>4 DEF DrainResolve
<1>16. ASSUME NEW b \in Cmd, DrainUnblock(b) PROVE GateInv'
  <2>1. Owed(b) \subseteq drain.keep
    BY <1>16 DEF DrainUnblock, GateInv, DrainOK
  <2>2. RecordsOK' /\ \A f \in Frames : FrameOK(f)'
    BY <1>16, <2>1, UnblockKeeps DEF DrainUnblock
  <2>3. DrainOK'
    BY <1>16 DEF DrainUnblock, DrainOK, GateInv, Saved, enqueueing
  <2>. QED
    BY <1>16, <2>2, <2>3 DEF DrainUnblock, Frames, GateInv
<1>17. ASSUME NEW c \in Cmd, NEW applied \in BOOLEAN, DrainCompletes(c, applied) PROVE GateInv'
  <2>1. DrainOK'
    BY <1>17 DEF DrainCompletes, DrainOK, GateInv, Saved, enqueueing
  <2>2. CASE applied
    <3>1. SetStatus({c}, "applied")
      BY <1>17, <2>2, Zenon DEF DrainCompletes
    <3>2. settled \subseteq settled'
      BY <3>1, SetStatusGrows
    <3>3. RecordsOK' /\ \A f \in Frames : FrameOK(f)'
      BY <1>17, <3>1, <3>2, StatusOnly DEF DrainCompletes, GateInv, RecordsOK
    <3>. QED
      BY <1>17, <2>1, <3>3 DEF DrainCompletes, Frames, GateInv
  <2>3. CASE ~applied
    <3>1. UNCHANGED <<status, active, settled>>
      BY <1>17, <2>3, Zenon DEF DrainCompletes
    <3>2. Same
      BY <1>17, <3>1 DEF DrainCompletes, record
    <3>. QED
      BY <1>0, <2>1, <3>2
  <2>. QED
    BY <2>2, <2>3
<1>. QED
  BY <1>1, <1>2, <1>3, <1>4, <1>5, <1>6, <1>7, <1>8, <1>9, <1>10, <1>11, <1>12,
     <1>13, <1>14, <1>15, <1>16, <1>17 DEF DrainStep

\* The frame a step of a call works on.
LEMMA TopOK ==
  ASSUME TypeInv, GateInv, NEW t \in Thread, call[t] # <<>>
  PROVE  Top(t) \in FrameType /\ FrameOK(Top(t))
BY StackType, TopIsFrame DEF TypeInv, TypeOK, Stacks, GateInv

\* A step of a call that leaves blockedBy, attempts and the drain alone and replaces
\* its frame.
LEMMA BecomeKeepsGate ==
  ASSUME TypeInv, GateInv, Steady, attempts' = attempts, blockedBy' = blockedBy,
         active' \subseteq active, drain' = drain,
         NEW t \in Thread, call[t] # <<>>, NEW f \in FrameType, Become(t, f), FrameOK(f)'
  PROVE  GateInv'
<1>1. Monotone
  BY SteadyIsMonotone
<1>2. RecordsOK' /\ DrainOK' /\ \A g \in Frames : FrameOK(g)'
  BY <1>1, RecordsKept, DrainKept, FramesKept DEF GateInv
<1>3. Frames' \subseteq Frames \cup {f}
  BY BecomeFrames DEF TypeInv, TypeOK, Stacks
<1>. QED
  BY <1>2, <1>3 DEF GateInv

\* The same for a step that leaves its frames to others or drops them.
LEMMA FewerKeepsGate ==
  ASSUME TypeInv, GateInv, Steady, attempts' = attempts, blockedBy' = blockedBy,
         active' \subseteq active, drain' = drain \/ Kick \/ KickUnlessPaused,
         Frames' \subseteq Frames
  PROVE  GateInv'
<1>1. Monotone
  BY SteadyIsMonotone
<1>2. RecordsOK' /\ DrainOK' /\ \A g \in Frames : FrameOK(g)'
  BY <1>1, RecordsKept, DrainKept, KickKeeps, FramesKept DEF GateInv
<1>. QED
  BY <1>2 DEF GateInv

\* One soft write: what it writes, and what the frame still has to write, keeps what
\* is owed.
LEMMA SoftWriteKeepsGate ==
  ASSUME TypeInv, GateInv, NEW t \in Thread, call[t] # <<>>, NEW b \in Cmd,
         NEW f \in FrameType, NEW keep \in [Cmd -> SUBSET Cmd], SoftWrite(t, b, f, keep),
         b \notin f.soft, f.parent \in settled, f.todo \subseteq Saved, f.soft \subseteq Saved,
         Owed(b) \subseteq keep[b], \A d \in f.soft : Owed(d) \subseteq keep[d]
  PROVE  GateInv'
<1>1. PICK g \in FrameType :
        /\ g.pc = "soft" /\ g.todo = f.todo /\ g.soft = f.soft
        /\ g.parent = f.parent /\ g.keep = [keep EXCEPT ![b] = {}]
        /\ Become(t, g)
  BY DEF SoftWrite, FrameType, FramePC, Unblocks
<1>2. Monotone /\ RecordsOK' /\ \A h \in Frames : FrameOK(h)'
  BY UnblockKeeps DEF SoftWrite
<1>3. Frames' \subseteq Frames \cup {g}
  BY <1>1, BecomeFrames DEF TypeInv, TypeOK, Stacks
<1>4. settled' = settled
  BY DEF SoftWrite
<1>5. \A d \in f.soft : Owed(d)' \subseteq g.keep[d]
  BY <1>1, <1>2 DEF Monotone, Saved
<1>6. FrameOK(g)'
  BY <1>1, <1>2, <1>4, <1>5 DEF FrameOK, Monotone
<1>7. DrainOK'
  BY <1>2, DrainKept DEF SoftWrite, GateInv
<1>. QED
  BY <1>2, <1>3, <1>6, <1>7 DEF GateInv

LEMMA CallKeepsGate ==
  ASSUME TypeInv, GateInv, NEW t \in Thread, CallStep(t)
  PROVE  GateInv'
<1>1. CASE Terminate(t)
  <2>1. Top(t) \in FrameType /\ FrameOK(Top(t)) /\ call[t] # <<>>
    BY <1>1, TopOK DEF Terminate, At
  <2>2. PICK f \in FrameType : /\ f.pc = "detach" /\ f.todo = Top(t).todo /\ f.soft = Top(t).soft
                               /\ f.parent = Top(t).parent /\ Become(t, f)
    BY <1>1, <2>1 DEF Terminate, FrameType, FramePC
  <2>3. Top(t).to \in Terminal
    BY <2>1 DEF FrameType, Terminal
  <2>4. settled \subseteq settled' /\ Top(t).parent \in settled' /\ active' \subseteq active
    BY <1>1, <2>3, SetStatusGrows DEF Terminate
  <2>5. Steady
    BY <1>1, <2>4 DEF Terminate, Steady, GateInv, RecordsOK, enqueueing
  <2>6. FrameOK(f)'
    BY <2>1, <2>2, <2>4, <2>5, SteadyIsMonotone DEF FrameOK
  <2>. QED
    BY <1>1, <2>1, <2>2, <2>4, <2>5, <2>6, BecomeKeepsGate DEF Terminate
<1>2. CASE Detach(t)
  <2>1. Top(t) \in FrameType /\ FrameOK(Top(t)) /\ call[t] # <<>> /\ Top(t).pc = "detach"
    BY <1>2, TopOK DEF Detach, At
  <2>2. PICK f \in FrameType : /\ f.pc = "scan" /\ f.todo = Top(t).todo /\ f.soft = Top(t).soft
                               /\ f.parent = Top(t).parent /\ Become(t, f)
    BY <1>2, <2>1 DEF Detach, FrameType, FramePC
  <2>3. Steady
    BY <1>2 DEF Detach, Steady, GateInv, RecordsOK, record
  <2>4. FrameOK(f)'
    BY <2>1, <2>2, <2>3, SteadyIsMonotone DEF FrameOK, Steady
  <2>. QED
    BY <1>2, <2>1, <2>2, <2>3, <2>4, BecomeKeepsGate DEF Detach, record
<1>3. CASE CascadeScan(t)
  <2>. DEFINE found == {b \in Dependents(Top(t).parent) : status[b] \notin Terminal}
  <2>1. Top(t) \in FrameType /\ FrameOK(Top(t)) /\ call[t] # <<>> /\ Top(t).pc = "scan"
    BY <1>3, TopOK DEF CascadeScan, At
  <2>2. Steady /\ UNCHANGED <<attempts, blockedBy, active, drain>>
    BY <1>3 DEF CascadeScan, Steady, GateInv, RecordsOK, record, enqueueing
  <2>3. CASE Pop(t)
    BY <2>1, <2>2, <2>3, PopFrames, FewerKeepsGate DEF TypeInv, TypeOK, Stacks
  <2>4. CASE Become(t, [Top(t) EXCEPT !.pc = "classify", !.todo = found])
    <3>1. found \in SUBSET Cmd /\ found \subseteq Saved
      BY DEF Dependents, GateInv, RecordsOK, Saved
    <3>2. PICK f \in FrameType : /\ f.pc = "classify" /\ f.todo = found /\ f.soft = Top(t).soft
                                 /\ f.parent = Top(t).parent /\ Become(t, f)
      <4>. HIDE DEF found
      <4>. QED
        BY <2>1, <2>4, <3>1 DEF FrameType, FramePC
    <3>3. FrameOK(f)'
      BY <2>1, <2>2, <3>1, <3>2, SteadyIsMonotone DEF FrameOK, Steady
    <3>. QED
      BY <2>1, <2>2, <3>2, <3>3, BecomeKeepsGate
  <2>. QED
    BY <1>3, <2>3, <2>4, Zenon DEF CascadeScan
<1>4. CASE CascadeUncouple(t)
  <2>1. Top(t) \in FrameType /\ FrameOK(Top(t)) /\ call[t] # <<>> /\ Top(t).pc = "uncouple"
    BY <1>4, TopOK DEF CascadeUncouple, At
  <2>2. PICK f \in FrameType : /\ f.pc = "recurse" /\ f.todo = Top(t).todo /\ f.soft = Top(t).soft
                               /\ f.parent = Top(t).parent /\ f.keep = Top(t).keep /\ Become(t, f)
    BY <1>4, <2>1 DEF CascadeUncouple, FrameType, FramePC
  <2>3. Steady
    BY <1>4 DEF CascadeUncouple, Steady, GateInv, RecordsOK, record
  <2>4. FrameOK(f)'
    BY <2>1, <2>2, <2>3, SteadyIsMonotone DEF FrameOK, Steady, Monotone
  <2>. QED
    BY <1>4, <2>1, <2>2, <2>3, <2>4, BecomeKeepsGate DEF CascadeUncouple, record
<1>5. CASE CascadeRecursed(t)
  <2>1. Top(t) \in FrameType /\ FrameOK(Top(t)) /\ call[t] # <<>> /\ Top(t).pc = "recurse"
    BY <1>5, TopOK DEF CascadeRecursed, At
  <2>2. PICK f \in FrameType : /\ f.pc = "soft" /\ f.todo = Top(t).todo /\ f.soft = Top(t).soft
                               /\ f.parent = Top(t).parent /\ f.keep = Top(t).keep /\ Become(t, f)
    BY <1>5, <2>1 DEF CascadeRecursed, FrameType, FramePC
  <2>3. Steady
    BY <1>5 DEF CascadeRecursed, Steady, GateInv, RecordsOK, record, enqueueing
  <2>4. FrameOK(f)'
    BY <2>1, <2>2, <2>3, SteadyIsMonotone DEF FrameOK, Steady, Monotone
  <2>. QED
    BY <1>5, <2>1, <2>2, <2>3, <2>4, BecomeKeepsGate DEF CascadeRecursed, record
<1>6. CASE CascadeReturn(t)
  <2>1. Frames' \subseteq Frames
    BY <1>6, PopFrames DEF CascadeReturn, At, TypeInv, TypeOK, Stacks
  <2>2. Steady
    BY <1>6 DEF CascadeReturn, Steady, GateInv, RecordsOK, record, enqueueing
  <2>. QED
    BY <1>6, <2>1, <2>2, FewerKeepsGate DEF CascadeReturn, record
<1>7. ASSUME NEW hard \in SUBSET Cmd, CascadeCancel(t, hard) PROVE GateInv'
  <2>. DEFINE p == Top(t).parent
  <2>1. Top(t) \in FrameType /\ FrameOK(Top(t)) /\ call[t] # <<>> /\ Top(t).pc = "classify"
    BY <1>7, TopOK DEF CascadeCancel, At
  <2>2. Keep(t) \in [Cmd -> SUBSET Cmd]
    BY KeepType DEF TypeInv
  <2>3. PICK f \in FrameType : /\ f.pc = "uncouple" /\ f.todo = hard /\ f.soft = Top(t).todo \ hard
                               /\ f.parent = p /\ f.keep = Keep(t) /\ Become(t, f)
    BY <1>7, <2>1, <2>2 DEF CascadeCancel, FrameType, FramePC
  <2>4. settled \subseteq settled' /\ hard \subseteq settled' /\ active' \subseteq active
    BY <1>7, SetStatusGrows DEF CascadeCancel, Terminal
  <2>5. Steady
    BY <1>7, <2>4 DEF CascadeCancel, Steady, GateInv, RecordsOK, enqueueing
  <2>6. Monotone /\ Saved' = Saved
    BY <2>5, SteadyIsMonotone
  <2>7. Top(t).todo \subseteq Saved /\ p \in settled
    BY <2>1 DEF FrameOK
  <2>8. hard \subseteq Top(t).todo /\ \A b \in Top(t).todo \ hard : source[b][p] = "aggregate-chain"
    BY <1>7 DEF CascadeCancel, HardSets
  <2>9. ASSUME NEW b \in Top(t).todo \ hard PROVE Owed(b)' \subseteq Keep(t)[b]
    <3>1. b \in Cmd /\ p \notin Owed(b)
      BY <2>1, <2>7, <2>8, <2>9 DEF Owed, FrameType
    <3>2. Owed(b) \subseteq Keep(t)[b]
      BY <2>9, <3>1 DEF Keep, GateInv, RecordsOK
    <3>. QED
      BY <2>6, <2>7, <2>9, <3>2 DEF Monotone
  <2>10. f.todo \subseteq Saved' /\ f.soft \subseteq Saved' /\ f.parent \in settled'
    BY <2>3, <2>4, <2>6, <2>7, <2>8
  <2>11. \A b \in f.soft : Owed(b)' \subseteq f.keep[b]
    BY <2>3, <2>9
  <2>12. FrameOK(f)'
    BY <2>3, <2>4, <2>10, <2>11 DEF FrameOK
  <2>. QED
    BY <1>7, <2>1, <2>3, <2>4, <2>5, <2>12, BecomeKeepsGate DEF CascadeCancel
<1>8. ASSUME NEW b \in Cmd, CascadeRecurse(t, b) PROVE GateInv'
  <2>1. /\ Top(t) \in FrameType /\ FrameOK(Top(t)) /\ call[t] # <<>> /\ Top(t).pc = "recurse"
        /\ Len(call[t]) \in 1..Len(call[t])
    BY <1>8, TopOK, StackType DEF CascadeRecurse, At, TypeInv, TypeOK, Stacks
  <2>2. PICK f \in FrameType : f = [Top(t) EXCEPT !.todo = @ \ {b}]
    BY <2>1 DEF FrameType
  <2>3. PICK g \in FrameType : g = NewFrame(b, "cancelled", "scan")
    BY NewFrameType DEF FramePC
  <2>4. Steady
    BY <1>8 DEF CascadeRecurse, Steady, GateInv, RecordsOK, record, enqueueing
  <2>5. /\ f.pc = "recurse" /\ f.todo = Top(t).todo \ {b} /\ f.soft = Top(t).soft
        /\ f.parent = Top(t).parent /\ f.keep = Top(t).keep
    BY <2>1, <2>2 DEF FrameType
  <2>6. FrameOK(f)'
    BY <2>1, <2>4, <2>5, SteadyIsMonotone DEF FrameOK, Steady, Monotone
  <2>7. b \in settled'
    BY <1>8, <2>1, <2>4 DEF CascadeRecurse, First, FrameOK, Steady
  <2>8. FrameOK(g)'
    BY <2>3, <2>7 DEF NewFrame, FrameOK
  <2>9. Frames' \subseteq Frames \cup {f, g}
    <3>. DEFINE q == [call[t] EXCEPT ![Len(call[t])] = f]
    <3>0. call \in Stacks
      BY DEF TypeInv, TypeOK, Stacks
    <3>1. /\ q \in Seq(FrameType) /\ Len(q) = Len(call[t])
          /\ \A i \in 1..Len(q) : q[i] = IF i = Len(q) THEN f ELSE call[t][i]
      BY <3>0, <2>1, <2>2, ExceptSeq DEF Stacks
    <3>2. call'[t] = Append(q, g) /\ \A u \in Thread \ {t} : call'[u] = call[u]
      BY <3>0, <1>8, <2>2, <2>3 DEF CascadeRecurse, Stacks
    <3>3. /\ Len(call'[t]) = Len(q) + 1 /\ call'[t][Len(q) + 1] = g
          /\ \A i \in 1..Len(q) : call'[t][i] = q[i]
      BY <3>1, <3>2, AppendProperties
    <3>4. Len(q) \in Nat
      BY <3>1, LenProperties
    <3>5. ASSUME NEW u \in Thread, NEW i \in 1..Len(call'[u]) PROVE call'[u][i] \in Frames \cup {f, g}
      <4>1. CASE u # t
        BY <3>2, <3>5, <4>1 DEF Frames
      <4>2. CASE u = t /\ i = Len(q) + 1
        BY <3>3, <4>2
      <4>3. CASE u = t /\ i \in 1..Len(q)
        <5>1. call'[t][i] = f \/ (call'[t][i] = call[t][i] /\ i \in 1..Len(call[t]))
          BY <3>1, <3>3, <4>3
        <5>. QED
          BY <4>3, <5>1 DEF Frames
      <4>4. u = t => i = Len(q) + 1 \/ i \in 1..Len(q)
        <5>. HIDE DEF q
        <5>. QED
          BY <3>3, <3>4, <3>5
      <4>. QED
        BY <4>1, <4>2, <4>3, <4>4
    <3>6. ASSUME NEW x \in Frames' PROVE x \in Frames \cup {f, g}
      <4>1. PICK u \in Thread : \E i \in 1..Len(call'[u]) : x = call'[u][i]
        BY <3>6 DEF Frames
      <4>. QED
        BY <3>5, <4>1
    <3>. QED
      BY <3>6
  <2>10. Monotone /\ RecordsOK' /\ DrainOK' /\ \A h \in Frames : FrameOK(h)'
    BY <1>8, <2>4, SteadyIsMonotone, RecordsKept, DrainKept, FramesKept DEF CascadeRecurse, GateInv, record
  <2>. QED
    BY <2>6, <2>8, <2>9, <2>10 DEF GateInv
<1>9. ASSUME NEW b \in Cmd, CascadeAllSoft(t, b) PROVE GateInv'
  <2>. DEFINE p == Top(t).parent
  <2>1. Top(t) \in FrameType /\ FrameOK(Top(t)) /\ call[t] # <<>> /\ Top(t).pc = "classify"
    BY <1>9, TopOK DEF CascadeAllSoft, At
  <2>2. PICK keep \in [Cmd -> SUBSET Cmd] : keep = Keep(t)
    BY KeepType DEF TypeInv
  <2>3. PICK f \in FrameType : /\ f = [Top(t) EXCEPT !.todo = {}, !.soft = Top(t).todo \ {b}]
                               /\ f.todo = {} /\ f.soft = Top(t).todo \ {b} /\ f.parent = p
    <3>1. [Top(t) EXCEPT !.todo = {}, !.soft = Top(t).todo \ {b}] \in FrameType
      BY <2>1 DEF FrameType
    <3>2. PICK f \in FrameType : f = [Top(t) EXCEPT !.todo = {}, !.soft = Top(t).todo \ {b}]
      BY <3>1
    <3>. QED
      BY <2>1, <3>2 DEF FrameType
  <2>4. SoftWrite(t, b, f, keep)
    BY <1>9, <2>2, <2>3 DEF CascadeAllSoft
  <2>5. Top(t).todo \subseteq Saved /\ p \in settled /\ b \in Top(t).todo
    BY <1>9, <2>1 DEF CascadeAllSoft, First, FrameOK
  <2>6. \A d \in Top(t).todo : source[d][p] = "aggregate-chain"
    BY <1>9 DEF CascadeAllSoft, HardSets
  <2>7. ASSUME NEW d \in Top(t).todo PROVE Owed(d) \subseteq keep[d]
    <3>1. d \in Cmd /\ p \notin Owed(d)
      BY <2>1, <2>5, <2>6, <2>7 DEF Owed, FrameType
    <3>. QED
      BY <2>2, <2>7, <3>1 DEF Keep, GateInv, RecordsOK
  <2>. QED
    BY <2>1, <2>3, <2>4, <2>5, <2>7, SoftWriteKeepsGate
<1>10. ASSUME NEW b \in Cmd, CascadeSoft(t, b) PROVE GateInv'
  <2>1. Top(t) \in FrameType /\ FrameOK(Top(t)) /\ call[t] # <<>> /\ Top(t).pc = "soft"
    BY <1>10, TopOK DEF CascadeSoft, At
  <2>2. PICK keep \in [Cmd -> SUBSET Cmd] : keep = Top(t).keep
    BY <2>1 DEF FrameType
  <2>3. PICK f \in FrameType : /\ f = [Top(t) EXCEPT !.soft = @ \ {b}]
                               /\ f.todo = Top(t).todo /\ f.soft = Top(t).soft \ {b}
                               /\ f.parent = Top(t).parent
    <3>1. [Top(t) EXCEPT !.soft = @ \ {b}] \in FrameType
      BY <2>1 DEF FrameType
    <3>2. PICK f \in FrameType : f = [Top(t) EXCEPT !.soft = @ \ {b}]
      BY <3>1
    <3>. QED
      BY <2>1, <3>2 DEF FrameType
  <2>4. SoftWrite(t, b, f, keep) /\ b \in Top(t).soft
    BY <1>10, <2>2, <2>3 DEF CascadeSoft, First
  <2>. QED
    BY <2>1, <2>2, <2>3, <2>4, SoftWriteKeepsGate DEF FrameOK
<1>. QED
  BY <1>1, <1>2, <1>3, <1>4, <1>5, <1>6, <1>7, <1>8, <1>9, <1>10 DEF CallStep

LEMMA EnvironmentKeepsGate ==
  ASSUME TypeInv, GateInv,
         \/ \E t \in Caller : CallBegins(t)
         \/ \E x \in timers : TimerFires(x)
         \/ Environment
  PROVE  GateInv'
<1>1. ASSUME NEW t \in Caller, NEW c \in Cmd, CancelCommand(t, c) \/ MarkFailedFromConflict(t, c)
      PROVE  GateInv'
  <2>1. PICK to \in {"failed", "cancelled"} : Push(t, NewFrame(c, to, "events"))
    BY <1>1 DEF CancelCommand, MarkFailedFromConflict
  <2>2. PICK f \in FrameType : f = NewFrame(c, to, "events") /\ Push(t, f)
    BY <2>1, NewFrameType DEF FramePC
  <2>3. UNCHANGED <<record, enqueueing, drain, settled, confirmed>>
    BY <1>1 DEF CancelCommand, MarkFailedFromConflict
  <2>4. Steady
    BY <2>3 DEF Steady, GateInv, RecordsOK, record, enqueueing
  <2>5. RecordsOK' /\ DrainOK' /\ \A g \in Frames : FrameOK(g)'
    BY <2>3, <2>4, SteadyIsMonotone, RecordsKept, DrainKept, FramesKept DEF GateInv, record
  <2>6. FrameOK(f)'
    BY <2>2 DEF NewFrame, FrameOK
  <2>7. Frames' \subseteq Frames \cup {f}
    BY <2>2, PushFrames DEF TypeInv, TypeOK, Stacks, Thread
  <2>. QED
    BY <2>5, <2>6, <2>7 DEF GateInv
<1>2. ASSUME NEW x \in timers, TimerFires(x) PROVE GateInv'
  <2>1. Steady /\ Frames' = Frames
    BY <1>2 DEF TimerFires, Steady, GateInv, RecordsOK, record, enqueueing, Frames
  <2>. QED
    BY <1>2, <2>1, FewerKeepsGate DEF TimerFires, record
<1>3. CASE Pause
  <2>1. Steady /\ Frames' = Frames
    BY <1>3 DEF Pause, Steady, GateInv, RecordsOK, record, enqueueing, Frames
  <2>. QED
    BY <1>3, <2>1, FewerKeepsGate DEF Pause, record
<1>4. CASE Resume
  <2>1. Steady /\ Frames' = Frames
    BY <1>4 DEF Resume, Steady, GateInv, RecordsOK, record, enqueueing, Frames
  <2>. QED
    BY <1>4, <2>1, FewerKeepsGate DEF Resume, record
<1>5. ASSUME NEW c \in Cmd, RetryCommand(c) \/ SyncApplies(c) PROVE GateInv'
  <2>1. \E s \in {"pending", "applied"} : SetStatus({c}, s)
    BY <1>5 DEF RetryCommand, SyncApplies
  <2>2. settled \subseteq settled' /\ active' \subseteq active
    BY <2>1, SetStatusGrows
  <2>3. UNCHANGED <<blockedBy, source, attempts, enqueueing, drain, call, confirmed>>
    BY <1>5 DEF RetryCommand, SyncApplies
  <2>4. Steady /\ Frames' = Frames
    BY <2>2, <2>3 DEF Steady, GateInv, RecordsOK, enqueueing, Frames
  <2>. QED
    BY <2>2, <2>3, <2>4, FewerKeepsGate
<1>. QED
  BY <1>1, <1>2, <1>3, <1>4, <1>5 DEF CallBegins, Environment

LEMMA GateInductive == Spec => [](TypeInv /\ GateInv)
<1>1. ASSUME Init PROVE GateInv
  <2>1. Frames = {}
    BY <1>1, EmptySeq DEF Init, Frames
  <2>2. RecordsOK
    BY <1>1 DEF Init, RecordsOK, Owed
  <2>3. DrainOK
    BY <1>1 DEF Init, DrainOK, IdleDrain
  <2>. QED
    BY <2>1, <2>2, <2>3 DEF GateInv
<1>2. TypeInv /\ GateInv /\ [Next]_vars => GateInv'
  <2>1. ASSUME TypeInv, GateInv, Next PROVE GateInv'
    BY <2>1, EnqueueKeepsGate, DrainKeepsGate, CallKeepsGate, EnvironmentKeepsGate DEF Next
  <2>2. ASSUME TypeInv, GateInv, UNCHANGED vars PROVE GateInv'
    <3>1. Steady /\ Frames' = Frames
      BY <2>2 DEF vars, Steady, GateInv, RecordsOK, record, enqueueing, Frames
    <3>. QED
      BY <2>2, <3>1, FewerKeepsGate DEF vars, record
  <2>. QED
    BY <2>1, <2>2
<1>. QED
  BY <1>1, <1>2, TypeInductive, PTL DEF Spec

-----------------------------------------------------------------------------
(* The promises.                                                           *)

LEMMA SentOwesNothing ==
  ASSUME GateInv, NEW c \in Cmd, attempts[c] > 0
  PROVE  gate[c] \subseteq settled /\ HardGates(c) \subseteq confirmed
BY DEF GateInv, RecordsOK, Owed, HardGates

\* No command is sent before every dependency that was open when it was enqueued
\* has settled (unblockDependentCommands, cascadeFromTerminal).
THEOREM SentAfterGateHolds == Spec => []SentAfterGate
<1>1. TypeInv /\ GateInv => SentAfterGate
  BY SentOwesNothing DEF SentAfterGate
<1>. QED
  BY <1>1, GateInductive, PTL

\* No command is sent unless the server has accepted every entity-ref or explicit
\* dependency that was open when it was enqueued (classifyDependencyEdge).
THEOREM HardGateHolds == Spec => []HardGate
<1>1. TypeInv /\ GateInv => HardGate
  BY SentOwesNothing DEF HardGate
<1>. QED
  BY <1>1, GateInductive, PTL

-----------------------------------------------------------------------------
(* The queue implements DependencyGate.                                    *)

\* Steps that neither enqueue, send nor accept.
LEMMA SettleRefines ==
  ASSUME TypeInv, UNCHANGED <<gate, source, attempts, confirmed>>,
         NEW C \in SUBSET Cmd, settled' = settled \cup C
  PROVE  [Promise!Next]_(Promise!vars)
<1>1. \A c \in Cmd : HardGates(c)' = HardGates(c)
  BY DEF HardGates
<1>2. Promise!Settle(C)
  BY <1>1 DEF Promise!Settle
<1>. QED
  BY <1>2 DEF Promise!Next

LEMMA QuietRefines ==
  ASSUME TypeInv, UNCHANGED <<gate, source, attempts, settled, confirmed>>
  PROVE  [Promise!Next]_(Promise!vars)
<1>1. \A c \in Cmd : HardGates(c)' = HardGates(c)
  BY DEF HardGates
<1>. QED
  BY <1>1 DEF Promise!vars

LEMMA StatusRefines ==
  ASSUME TypeInv, UNCHANGED <<gate, source, attempts, confirmed>>,
         NEW C \in SUBSET Cmd, NEW s, SetStatus(C, s)
  PROVE  [Promise!Next]_(Promise!vars)
<1>1. CASE s \in Terminal
  BY <1>1, SettleRefines DEF SetStatus
<1>2. CASE s \notin Terminal
  BY <1>2, QuietRefines DEF SetStatus
<1>. QED
  BY <1>1, <1>2

LEMMA EnqueueRefines ==
  ASSUME TypeInv, GateInv, NEW c \in Cmd, Enqueue(c) \/ EnqueueContinues(c)
  PROVE  [Promise!Next]_(Promise!vars)
<1>1. ASSUME NEW r \in Request[c], EnqueuePrepare(c, r) PROVE [Promise!Next]_(Promise!vars)
  <2>1. gate[c] = {}
    BY <1>1 DEF EnqueuePrepare, GateInv, RecordsOK, Saved
  <2>2. \A d \in Cmd : HardGates(d)' = HardGates(d)
    BY <1>1, <2>1 DEF EnqueuePrepare, HardGates, TypeInv, TypeOK
  <2>. QED
    BY <1>1, <2>2 DEF EnqueuePrepare, Promise!vars
<1>2. CASE EnqueueThrows(c)
  BY <1>2, QuietRefines DEF EnqueueThrows, record
<1>3. CASE EnqueueSave(c)
  <2>1. gate[c] = {} /\ attempts[c] = 0
    BY <1>3 DEF EnqueueSave, GateInv, RecordsOK, Saved
  <2>2. PICK G \in SUBSET Cmd : gate' = [gate EXCEPT ![c] = G] /\ gate'[c] = G
    <3>1. {d \in Cmd : source[c][d] # "none" /\ Live(d)} \in SUBSET Cmd
      OBVIOUS
    <3>. QED
      BY <1>3, <3>1 DEF EnqueueSave, TypeInv, TypeOK
  <2>3. PICK H \in SUBSET G : H = HardGates(c)'
    BY <2>2 DEF HardGates
  <2>4. \A d \in Cmd \ {c} : HardGates(d)' = HardGates(d)
    BY <1>3, <2>2 DEF EnqueueSave, HardGates, TypeInv, TypeOK
  <2>5. [d \in Cmd |-> HardGates(d)]' = [[d \in Cmd |-> HardGates(d)] EXCEPT ![c] = H]
    BY <2>3, <2>4
  <2>6. UNCHANGED <<{d \in Cmd : attempts[d] > 0}, settled, confirmed>>
    BY <1>3 DEF EnqueueSave
  <2>7. c \notin {d \in Cmd : attempts[d] > 0}
    BY <2>1
  <2>8. Promise!Submit(c)
    BY <2>1, <2>2, <2>5, <2>6, <2>7, Zenon DEF Promise!Submit
  <2>. QED
    BY <2>8 DEF Promise!Next
<1>4. CASE EnqueueDone(c)
  BY <1>4, QuietRefines DEF EnqueueDone, record
<1>. QED
  BY <1>1, <1>2, <1>3, <1>4 DEF Enqueue, EnqueueContinues

LEMMA DrainRefines ==
  ASSUME TypeInv, GateInv, DrainStep
  PROVE  [Promise!Next]_(Promise!vars)
<1>1. ASSUME UNCHANGED <<record, enqueueing, settled, confirmed>>
      PROVE  [Promise!Next]_(Promise!vars)
  BY <1>1, QuietRefines DEF record, enqueueing
<1>2. CASE DrainSnapshot \/ DrainFailed \/ DrainCollect \/ DrainEndPass \/ DrainCheck \/ DrainFinish
  BY <1>1, <1>2 DEF DrainSnapshot, DrainFailed, DrainCollect, DrainEndPass, DrainCheck, DrainFinish
<1>3. ASSUME NEW c \in Cmd,
             DrainSkip(c) \/ DrainTake(c) \/ DrainDrop(c) \/ DrainThrows(c) \/ DrainResolve(c)
      PROVE  [Promise!Next]_(Promise!vars)
  BY <1>1, <1>3 DEF DrainSkip, DrainTake, DrainDrop, DrainThrows, DrainResolve
<1>4. ASSUME NEW c \in Cmd, DrainSend(c) PROVE [Promise!Next]_(Promise!vars)
  <2>1. \A d \in Cmd : HardGates(d)' = HardGates(d)
    BY <1>4 DEF DrainSend, HardGates, enqueueing
  <2>2. gate[c] \subseteq settled /\ HardGates(c) \subseteq confirmed
    BY <1>4 DEF DrainSend, GateInv, DrainOK, Owed, HardGates
  <2>3. settled' = settled /\ UNCHANGED <<gate, confirmed>>
    BY <1>4 DEF DrainSend, SetStatus, Terminal, enqueueing
  <2>4. {d \in Cmd : attempts'[d] > 0} = {d \in Cmd : attempts[d] > 0} \cup {c}
    BY <1>4 DEF DrainSend, TypeInv, TypeOK
  <2>5. Promise!Start(c)
    BY <2>1, <2>2, <2>3, <2>4 DEF Promise!Start
  <2>. QED
    BY <2>5 DEF Promise!Next
<1>5. ASSUME NEW c \in Cmd, ServerAccepts(c) PROVE [Promise!Next]_(Promise!vars)
  <2>1. \A d \in Cmd : HardGates(d)' = HardGates(d)
    BY <1>5 DEF ServerAccepts, HardGates, enqueueing
  <2>2. c \in {d \in Cmd : attempts[d] > 0}
    BY <1>5 DEF ServerAccepts, TypeInv, Sent
  <2>3. /\ settled' = settled \cup {c} /\ confirmed' = confirmed \cup {c}
        /\ UNCHANGED <<gate, attempts>>
    BY <1>5 DEF ServerAccepts, SetStatus, Terminal, enqueueing
  <2>4. Promise!Accept(c)
    BY <2>1, <2>2, <2>3 DEF Promise!Accept
  <2>. QED
    BY <2>4 DEF Promise!Next
<1>6. ASSUME NEW c \in Cmd, ServerDefers(c) \/ ServerRejects(c) PROVE [Promise!Next]_(Promise!vars)
  <2>1. CASE ServerDefers(c)
    BY <2>1, StatusRefines DEF ServerDefers, enqueueing
  <2>2. CASE ServerRejects(c)
    BY <1>1, <2>2 DEF ServerRejects
  <2>. QED
    BY <1>6, <2>1, <2>2
<1>7. ASSUME NEW b \in Cmd, DrainUnblock(b) PROVE [Promise!Next]_(Promise!vars)
  BY <1>7, QuietRefines DEF DrainUnblock, enqueueing
<1>8. ASSUME NEW c \in Cmd, NEW applied \in BOOLEAN, DrainCompletes(c, applied)
      PROVE  [Promise!Next]_(Promise!vars)
  <2>1. UNCHANGED <<gate, source, attempts, confirmed>>
    BY <1>8 DEF DrainCompletes, enqueueing
  <2>2. CASE SetStatus({c}, "applied")
    BY <2>1, <2>2, StatusRefines
  <2>3. CASE settled' = settled
    BY <2>1, <2>3, QuietRefines
  <2>. QED
    BY <1>8, <2>2, <2>3 DEF DrainCompletes
<1>. QED
  BY <1>2, <1>3, <1>4, <1>5, <1>6, <1>7, <1>8 DEF DrainStep

LEMMA CallRefines ==
  ASSUME TypeInv, NEW t \in Thread, CallStep(t)
  PROVE  [Promise!Next]_(Promise!vars)
<1>1. CASE Terminate(t)
  <2>1. Top(t).parent \in Cmd
    BY <1>1, StackType DEF Terminate, At, TypeInv, TypeOK, Stacks, FrameType
  <2>2. PICK C \in SUBSET Cmd, s \in {Top(t).to} : SetStatus(C, s)
    BY <1>1, <2>1 DEF Terminate
  <2>. QED
    BY <1>1, <2>2, StatusRefines DEF Terminate, enqueueing
<1>2. ASSUME NEW hard \in SUBSET Cmd, CascadeCancel(t, hard) PROVE [Promise!Next]_(Promise!vars)
  BY <1>2, StatusRefines DEF CascadeCancel, enqueueing
<1>3. CASE Detach(t) \/ CascadeScan(t) \/ CascadeUncouple(t) \/ CascadeRecursed(t) \/ CascadeReturn(t)
  BY <1>3, QuietRefines
  DEF Detach, CascadeScan, CascadeUncouple, CascadeRecursed, CascadeReturn, record, enqueueing
<1>4. ASSUME NEW b \in Cmd, CascadeRecurse(t, b) \/ CascadeAllSoft(t, b) \/ CascadeSoft(t, b)
      PROVE  [Promise!Next]_(Promise!vars)
  <2>1. UNCHANGED <<gate, source, attempts, settled, confirmed>>
    BY <1>4 DEF CascadeRecurse, CascadeAllSoft, CascadeSoft, SoftWrite, record, enqueueing
  <2>. QED
    BY <2>1, QuietRefines
<1>. QED
  BY <1>1, <1>2, <1>3, <1>4 DEF CallStep

LEMMA EnvironmentRefines ==
  ASSUME TypeInv,
         \/ \E t \in Caller : CallBegins(t)
         \/ \E x \in timers : TimerFires(x)
         \/ Environment
  PROVE  [Promise!Next]_(Promise!vars)
<1>1. ASSUME NEW t \in Caller, CallBegins(t) PROVE [Promise!Next]_(Promise!vars)
  BY <1>1, QuietRefines DEF CallBegins, CancelCommand, MarkFailedFromConflict, record, enqueueing
<1>2. ASSUME NEW x \in timers, TimerFires(x) PROVE [Promise!Next]_(Promise!vars)
  BY <1>2, QuietRefines DEF TimerFires, record, enqueueing
<1>3. CASE Pause \/ Resume
  BY <1>3, QuietRefines DEF Pause, Resume, record, enqueueing
<1>4. ASSUME NEW c \in Cmd, RetryCommand(c) \/ SyncApplies(c) PROVE [Promise!Next]_(Promise!vars)
  <2>1. PICK s \in {"pending", "applied"} : SetStatus({c}, s)
    BY <1>4 DEF RetryCommand, SyncApplies
  <2>. QED
    BY <1>4, <2>1, StatusRefines DEF RetryCommand, SyncApplies, enqueueing
<1>. QED
  BY <1>1, <1>2, <1>3, <1>4 DEF Environment

\* The command queue implements DependencyGate: sends are the starts, terminal
\* writes the settlements, and the rest of its machinery (the passes, the walks, the
\* retries) is invisible.
THEOREM QueueKeepsPromise == Spec => KeepsPromise
<1>1. Init => Promise!Init
  BY DEF Init, Promise!Init, HardGates
<1>2. TypeInv /\ GateInv /\ [Next]_vars => [Promise!Next]_(Promise!vars)
  <2>1. ASSUME TypeInv, GateInv, Next PROVE [Promise!Next]_(Promise!vars)
    BY <2>1, EnqueueRefines, DrainRefines, CallRefines, EnvironmentRefines DEF Next
  <2>2. ASSUME TypeInv, UNCHANGED vars PROVE [Promise!Next]_(Promise!vars)
    BY <2>2, QuietRefines DEF vars, record, enqueueing
  <2>. QED
    BY <2>1, <2>2
<1>. QED
  BY <1>1, <1>2, GateInductive, PTL DEF Spec, KeepsPromise, Promise!Spec

-----------------------------------------------------------------------------
(* How often the queue sends: one send at a time, at most MaxAttempts of a *)
(* command, and none once the server has accepted it.                      *)
(*                                                                         *)
(* The records the pass can reach are those of CommandStore.active; what   *)
(* a cancel or a conflict writes over an outstanding send leaves `active`, *)
(* and no later update brings it back.                                     *)

Sendable(c) == c \notin confirmed /\ attempts[c] < MaxAttempts

ActiveOK ==
  \A c \in active : /\ status[c] \in InMemory
                    /\ c \in confirmed => status[c] = "succeeded"
                    /\ status[c] \in {"pending", "blocked"} => attempts[c] < MaxAttempts

PassOK ==
  /\ \A c \in drain.todo : Sendable(c)
  /\ drain.pc = "taken" => Sendable(drain.cur)
  /\ drain.pc = "sending" => drain.cur \notin confirmed
  /\ drain.pc \in {"taken", "sending"} => drain.cur \notin drain.todo

\* A send that failed stays "sending" until the first write of its walk.
FailingOK ==
  drain.pc = "failing" =>
    /\ drain.cur \in Cmd
    /\ status[drain.cur] = "sending" => At(Drain, "events") /\ Top(Drain).parent = drain.cur

CountsOK == AttemptsBounded /\ \A c \in confirmed : attempts[c] > 0

OnceInv == ActiveOK /\ PassOK /\ FailingOK /\ CountsOK /\ SingleFlight

-----------------------------------------------------------------------------
(* Steps outside the pass.                                                 *)

\* A step that writes no record; the drain's own walk is past its first write or is
\* left alone.
LEMMA RestKeepsOnce ==
  ASSUME TypeInv, OnceInv, UNCHANGED <<status, attempts, active, confirmed>>,
         drain' = drain \/ Kick \/ KickUnlessPaused,
         call'[Drain] = call[Drain] \/ ~At(Drain, "events")
  PROVE  OnceInv'
<1>1. CASE drain' = drain
  <2>1. ActiveOK' /\ CountsOK' /\ PassOK' /\ SingleFlight'
    BY <1>1 DEF OnceInv, ActiveOK, CountsOK, AttemptsBounded, PassOK, Sendable, SingleFlight
  <2>2. FailingOK'
    BY <1>1 DEF OnceInv, FailingOK, At, Top
  <2>. QED
    BY <2>1, <2>2 DEF OnceInv
<1>2. CASE drain.pc = "idle" /\ drain' = [IdleDrain EXCEPT !.pc = "snapshot"]
  <2>1. drain'.pc = "snapshot" /\ drain'.todo = {}
    BY <1>2 DEF IdleDrain
  <2>2. ActiveOK' /\ CountsOK' /\ PassOK' /\ SingleFlight' /\ FailingOK'
    BY <1>2, <2>1 DEF OnceInv, ActiveOK, CountsOK, AttemptsBounded, PassOK, Sendable,
                      SingleFlight, FailingOK
  <2>. QED
    BY <2>2 DEF OnceInv
<1>. QED
  BY <1>1, <1>2 DEF Kick, KickUnlessPaused

\* A terminal write other than the server's acceptance takes its commands out of
\* `active`; if it concludes the failing send, it is the walk's first write.
LEMMA EndKeepsOnce ==
  ASSUME TypeInv, OnceInv, NEW C \in SUBSET Cmd, NEW s \in {"applied", "failed", "cancelled"},
         SetStatus(C, s), UNCHANGED <<attempts, confirmed, drain>>,
         \/ call'[Drain] = call[Drain] \/ ~At(Drain, "events")
         \/ Top(Drain).parent \in C
  PROVE  OnceInv'
<1>1. active' = active \ C /\ \A c \in Cmd : status'[c] = IF c \in C THEN s ELSE status[c]
  BY DEF SetStatus, InMemory
<1>2. ActiveOK' /\ CountsOK' /\ PassOK' /\ SingleFlight'
  BY <1>1 DEF TypeInv, TypeOK, OnceInv, ActiveOK, CountsOK, AttemptsBounded, PassOK, Sendable,
              SingleFlight
<1>3. FailingOK'
  BY <1>1 DEF OnceInv, FailingOK, At, Top
<1>. QED
  BY <1>2, <1>3 DEF OnceInv

\* An unblocking write, which finds the command blocked.
LEMMA UnblockKeepsOnce ==
  ASSUME TypeInv, OnceInv, NEW b \in Cmd, NEW keep, Unblock(b, keep),
         UNCHANGED <<attempts, active, confirmed, drain>>,
         call'[Drain] = call[Drain] \/ ~At(Drain, "events")
  PROVE  OnceInv'
<1>1. \A c \in Cmd : status'[c] = status[c] \/ (status[c] = "blocked" /\ status'[c] = "pending")
  BY DEF Unblock, Unblocks, TypeInv, TypeOK
<1>2. ActiveOK' /\ CountsOK' /\ PassOK' /\ SingleFlight'
  BY <1>1 DEF TypeInv, TypeOK, OnceInv, ActiveOK, CountsOK, AttemptsBounded, PassOK, Sendable,
              SingleFlight, InMemory
<1>3. FailingOK'
  BY <1>1 DEF OnceInv, FailingOK, At, Top
<1>. QED
  BY <1>2, <1>3 DEF OnceInv

LEMMA EnqueueKeepsOnce ==
  ASSUME TypeInv, GateInv, OnceInv, NEW c \in Cmd, Enqueue(c) \/ EnqueueContinues(c)
  PROVE  OnceInv'
<1>1. ASSUME NEW r \in Request[c], EnqueuePrepare(c, r) PROVE OnceInv'
  BY <1>1, RestKeepsOnce DEF EnqueuePrepare
<1>2. CASE EnqueueThrows(c)
  BY <1>2, RestKeepsOnce DEF EnqueueThrows, record
<1>3. CASE EnqueueSave(c)
  <2>1. attempts[c] = 0 /\ c \notin confirmed /\ 0 < MaxAttempts
    BY <1>3, AttemptsAssumption DEF EnqueueSave, GateInv, RecordsOK, Saved, OnceInv, CountsOK
  <2>2. /\ active' = active \cup {c} /\ status'[c] \in {"pending", "blocked"}
        /\ \A d \in Cmd \ {c} : status'[d] = status[d]
        /\ UNCHANGED <<attempts, confirmed, drain, call>>
    BY <1>3 DEF EnqueueSave, TypeInv, TypeOK
  <2>3. ActiveOK' /\ CountsOK' /\ PassOK' /\ SingleFlight'
    BY <2>1, <2>2 DEF TypeInv, TypeOK, OnceInv, ActiveOK, CountsOK, AttemptsBounded, PassOK,
                      Sendable, SingleFlight, InMemory
  <2>4. FailingOK'
    BY <2>2 DEF OnceInv, FailingOK, At, Top
  <2>. QED
    BY <2>3, <2>4 DEF OnceInv
<1>4. CASE EnqueueDone(c)
  BY <1>4, RestKeepsOnce DEF EnqueueDone, record
<1>. QED
  BY <1>1, <1>2, <1>3, <1>4 DEF Enqueue, EnqueueContinues

\* A step of another thread leaves the drain's walk alone.
LEMMA ElsewhereApart ==
  ASSUME call \in Stacks, NEW t \in Thread, t # Drain, NEW f, Push(t, f) \/ Pop(t) \/ Become(t, f)
  PROVE  call'[Drain] = call[Drain]
BY DEF Push, Pop, Become, Stacks, Thread

LEMMA CallKeepsOnce ==
  ASSUME TypeInv, OnceInv, NEW t \in Thread, CallStep(t)
  PROVE  OnceInv'
<1>. DEFINE Apart == call'[Drain] = call[Drain] \/ ~At(Drain, "events")
<1>0. call \in Stacks
  BY DEF TypeInv, TypeOK, Stacks
<1>1. CASE Terminate(t)
  <2>1. Top(t).parent \in Cmd /\ Top(t).to \in {"failed", "cancelled"}
    BY <1>0, <1>1, StackType DEF Terminate, At, FrameType
  <2>2. t # Drain => call'[Drain] = call[Drain]
    BY <1>0, <1>1, ElsewhereApart DEF Terminate
  <2>3. t = Drain => Top(Drain).parent \in {Top(t).parent}
    OBVIOUS
  <2>4. {Top(t).parent} \in SUBSET Cmd
    BY <2>1
  <2>5. PICK C \in SUBSET Cmd, s \in {"applied", "failed", "cancelled"} :
          SetStatus(C, s) /\ C = {Top(t).parent}
    BY <1>1, <2>1, <2>4 DEF Terminate
  <2>. QED
    BY <1>1, <2>2, <2>5, EndKeepsOnce DEF Terminate
<1>2. ASSUME NEW hard \in SUBSET Cmd, CascadeCancel(t, hard) PROVE OnceInv'
  <2>1. Apart
    BY <1>0, <1>2, ElsewhereApart DEF CascadeCancel, At
  <2>. QED
    BY <1>2, <2>1, EndKeepsOnce DEF CascadeCancel
<1>3. CASE Detach(t) \/ CascadeScan(t) \/ CascadeUncouple(t) \/ CascadeRecursed(t) \/ CascadeReturn(t)
  <2>1. Apart
    BY <1>0, <1>3, ElsewhereApart
    DEF Detach, CascadeScan, CascadeUncouple, CascadeRecursed, CascadeReturn, At
  <2>2. drain' = drain \/ KickUnlessPaused
    BY <1>3 DEF Detach, CascadeScan, CascadeUncouple, CascadeRecursed, CascadeReturn
  <2>3. UNCHANGED <<status, attempts, active, confirmed>>
    BY <1>3 DEF Detach, CascadeScan, CascadeUncouple, CascadeRecursed, CascadeReturn, record
  <2>. QED
    BY <2>1, <2>2, <2>3, RestKeepsOnce
<1>4. ASSUME NEW b \in Cmd, CascadeRecurse(t, b) PROVE OnceInv'
  <2>1. Apart
    BY <1>0, <1>4 DEF CascadeRecurse, At, Stacks, Thread
  <2>. QED
    BY <1>4, <2>1, RestKeepsOnce DEF CascadeRecurse, record
<1>5. ASSUME NEW b \in Cmd, CascadeAllSoft(t, b) \/ CascadeSoft(t, b) PROVE OnceInv'
  <2>1. PICK f, keep : SoftWrite(t, b, f, keep)
    BY <1>5 DEF CascadeAllSoft, CascadeSoft
  <2>2. Apart
    BY <1>0, <1>5, <2>1, ElsewhereApart DEF CascadeAllSoft, CascadeSoft, SoftWrite, At
  <2>. QED
    BY <2>1, <2>2, UnblockKeepsOnce DEF SoftWrite
<1>. QED
  BY <1>1, <1>2, <1>3, <1>4, <1>5 DEF CallStep

LEMMA EnvironmentKeepsOnce ==
  ASSUME TypeInv, OnceInv,
         \/ \E t \in Caller : CallBegins(t)
         \/ \E x \in timers : TimerFires(x)
         \/ Environment
  PROVE  OnceInv'
<1>1. ASSUME NEW t \in Caller, NEW c \in Cmd, CancelCommand(t, c) \/ MarkFailedFromConflict(t, c)
      PROVE  OnceInv'
  <2>1. PICK f : Push(t, f)
    BY <1>1 DEF CancelCommand, MarkFailedFromConflict
  <2>2. call'[Drain] = call[Drain]
    BY <2>1, ElsewhereApart, ThreadAssumption DEF TypeInv, TypeOK, Stacks, Thread
  <2>. QED
    BY <1>1, <2>2, RestKeepsOnce DEF CancelCommand, MarkFailedFromConflict, record
<1>2. ASSUME NEW x \in timers, TimerFires(x) PROVE OnceInv'
  BY <1>2, RestKeepsOnce DEF TimerFires, record
<1>3. CASE Pause
  BY <1>3, RestKeepsOnce DEF Pause, record
<1>4. CASE Resume
  BY <1>4, RestKeepsOnce DEF Resume, record
<1>5. ASSUME NEW c \in Cmd, RetryCommand(c) PROVE OnceInv'
  <2>1. c \notin active
    BY <1>5 DEF RetryCommand, OnceInv, ActiveOK, InMemory
  <2>2. active' = active /\ \A d \in Cmd : status'[d] = IF d = c THEN "pending" ELSE status[d]
    BY <1>5 DEF RetryCommand, SetStatus, InMemory
  <2>3. ActiveOK' /\ CountsOK' /\ PassOK' /\ SingleFlight'
    BY <1>5, <2>1, <2>2 DEF RetryCommand, TypeInv, TypeOK, OnceInv, ActiveOK, CountsOK,
                            AttemptsBounded, PassOK, Sendable, SingleFlight
  <2>4. FailingOK'
    BY <1>5, <2>2 DEF RetryCommand, OnceInv, FailingOK, At, Top
  <2>. QED
    BY <2>3, <2>4 DEF OnceInv
<1>6. ASSUME NEW c \in Cmd, SyncApplies(c) PROVE OnceInv'
  BY <1>6, EndKeepsOnce DEF SyncApplies
<1>. QED
  BY <1>1, <1>2, <1>3, <1>4, <1>5, <1>6 DEF CallBegins, Environment

-----------------------------------------------------------------------------
(* The pass.                                                               *)

LEMMA PushTop ==
  ASSUME NEW q \in Seq(FrameType), NEW f \in FrameType
  PROVE  Append(q, f) # <<>> /\ Append(q, f)[Len(Append(q, f))] = f
<1>1. /\ Append(q, f) \in Seq(FrameType) /\ Len(Append(q, f)) = Len(q) + 1
      /\ Append(q, f)[Len(q) + 1] = f
  BY AppendProperties
<1>2. Len(q) \in Nat
  BY LenProperties
<1>3. Append(q, f) # <<>>
  BY <1>1, <1>2, EmptySeq
<1>. QED
  BY <1>1, <1>3

LEMMA DrainKeepsOnce ==
  ASSUME TypeInv, GateInv, OnceInv, DrainStep
  PROVE  OnceInv'
<1>. DEFINE Same == UNCHANGED <<status, attempts, active, confirmed>>
<1>0. ASSUME Same, PassOK', FailingOK', SingleFlight' PROVE OnceInv'
  BY <1>0 DEF OnceInv, ActiveOK, CountsOK, AttemptsBounded
<1>. USE DEF TypeInv, TypeOK, DrainType
<1>1. CASE DrainSnapshot
  <2>1. PassOK' /\ FailingOK' /\ SingleFlight'
    BY <1>1 DEF DrainSnapshot, OnceInv, PassOK, Sendable, ActiveOK, FailingOK, SingleFlight, record
  <2>. QED
    BY <1>0, <1>1, <2>1 DEF DrainSnapshot, record
<1>2. CASE DrainFailed
  <2>1. status[drain.cur] # "sending"
    BY <1>2 DEF DrainFailed, OnceInv, FailingOK, At
  <2>2. PassOK' /\ FailingOK' /\ SingleFlight'
    BY <1>2, <2>1 DEF DrainFailed, OnceInv, PassOK, Sendable, FailingOK, SingleFlight, record
  <2>. QED
    BY <1>0, <1>2, <2>2 DEF DrainFailed, record
<1>3. CASE DrainCollect
  <2>1. PassOK' /\ FailingOK' /\ SingleFlight'
    BY <1>3 DEF DrainCollect, OnceInv, PassOK, Sendable, FailingOK, SingleFlight, record
  <2>. QED
    BY <1>0, <1>3, <2>1 DEF DrainCollect, record
<1>4. CASE DrainEndPass \/ DrainFinish
  <2>1. /\ drain.pc \in {"loop", "finishing"} /\ drain'.pc \in {"check", "idle"}
        /\ drain'.todo = {} /\ status' = status
    <3>1. CASE DrainEndPass
      BY <3>1 DEF DrainEndPass, record
    <3>2. CASE DrainFinish
      BY <3>2 DEF DrainFinish, IdleDrain, record
    <3>. QED
      BY <1>4, <3>1, <3>2
  <2>2. PassOK' /\ FailingOK' /\ SingleFlight'
    BY <2>1 DEF OnceInv, PassOK, FailingOK, SingleFlight
  <2>. QED
    BY <1>0, <1>4, <2>2 DEF DrainEndPass, DrainFinish, record
<1>5. CASE DrainCheck
  <2>1. drain' = [drain EXCEPT !.pc = "snapshot"] \/ drain' = [drain EXCEPT !.pc = "finishing"]
    BY <1>5, Zenon DEF DrainCheck
  <2>2. drain.pc = "check" /\ Same
    BY <1>5 DEF DrainCheck, record
  <2>3. PassOK' /\ FailingOK' /\ SingleFlight'
    BY <2>1, <2>2 DEF OnceInv, PassOK, Sendable, FailingOK, SingleFlight
  <2>. QED
    BY <1>0, <2>2, <2>3
<1>6. ASSUME NEW c \in Cmd, DrainSkip(c) \/ DrainTake(c) PROVE OnceInv'
  <2>1. PassOK' /\ FailingOK' /\ SingleFlight'
    <3>1. CASE DrainSkip(c)
      BY <3>1 DEF DrainSkip, OnceInv, PassOK, Sendable, FailingOK, SingleFlight, record
    <3>2. CASE DrainTake(c)
      BY <3>2 DEF DrainTake, First, OnceInv, PassOK, Sendable, FailingOK, SingleFlight, record
    <3>. QED
      BY <1>6, <3>1, <3>2
  <2>. QED
    BY <1>0, <1>6, <2>1 DEF DrainSkip, DrainTake, record
<1>7. ASSUME NEW c \in Cmd, DrainDrop(c) \/ DrainThrows(c) PROVE OnceInv'
  <2>1. /\ drain.pc \in {"taken", "sending"} /\ drain'.pc \in {"loop", "finishing"}
        /\ drain'.todo \subseteq drain.todo /\ Same
    BY <1>7 DEF DrainDrop, DrainThrows, IdleDrain, record
  <2>2. drain.pc = "sending" => drain.cur \in Unhydratable
    BY <1>7 DEF DrainDrop, DrainThrows
  <2>3. PassOK' /\ FailingOK'
    BY <2>1 DEF OnceInv, PassOK, Sendable, FailingOK
  <2>4. SingleFlight'
    BY <2>1, <2>2 DEF OnceInv, SingleFlight
  <2>. QED
    BY <1>0, <2>1, <2>3, <2>4
<1>8. ASSUME NEW c \in Cmd, DrainSend(c) PROVE OnceInv'
  <2>1. Sendable(c) /\ c \notin drain.todo
    BY <1>8 DEF DrainSend, OnceInv, PassOK
  <2>2. /\ active' = active /\ confirmed' = confirmed
        /\ \A d \in Cmd : status'[d] = IF d = c THEN "sending" ELSE status[d]
        /\ attempts'[c] = attempts[c] + 1 /\ \A d \in Cmd \ {c} : attempts'[d] = attempts[d]
        /\ drain'.pc = "sending" /\ drain'.cur = c /\ drain'.todo = drain.todo
    BY <1>8 DEF DrainSend, SetStatus, InMemory
  <2>3. CountsOK'
    <3>1. attempts[c] \in Nat /\ MaxAttempts \in Nat /\ attempts[c] < MaxAttempts
      BY <2>1, AttemptsAssumption DEF Sendable
    <3>2. attempts'[c] <= MaxAttempts /\ attempts'[c] > 0
      BY <2>2, <3>1
    <3>3. AttemptsBounded'
      BY <2>2, <3>2 DEF OnceInv, CountsOK, AttemptsBounded
    <3>4. \A d \in confirmed' : attempts'[d] > 0
      BY <2>2, <3>2 DEF OnceInv, CountsOK
    <3>. QED
      BY <3>3, <3>4 DEF CountsOK
  <2>4. ActiveOK' /\ PassOK' /\ FailingOK'
    BY <2>1, <2>2 DEF OnceInv, ActiveOK, PassOK, FailingOK, Sendable, InMemory
  <2>5. SingleFlight'
    BY <1>8, <2>2 DEF DrainSend, OnceInv, SingleFlight
  <2>. QED
    BY <2>3, <2>4, <2>5 DEF OnceInv
<1>9. ASSUME NEW c \in Cmd, ServerAccepts(c) PROVE OnceInv'
  <2>1. c \notin drain.todo /\ attempts[c] > 0
    BY <1>9 DEF ServerAccepts, OnceInv, PassOK, Sent
  <2>2. /\ active' = active /\ confirmed' = confirmed \cup {c} /\ attempts' = attempts
        /\ \A d \in Cmd : status'[d] = IF d = c THEN "succeeded" ELSE status[d]
        /\ drain'.pc = "won" /\ drain'.todo = drain.todo
    BY <1>9 DEF ServerAccepts, SetStatus, InMemory
  <2>3. ActiveOK' /\ PassOK' /\ FailingOK' /\ CountsOK'
    BY <2>1, <2>2 DEF OnceInv, ActiveOK, PassOK, FailingOK, CountsOK, AttemptsBounded, Sendable, InMemory
  <2>4. SingleFlight'
    BY <1>9, <2>2 DEF ServerAccepts, OnceInv, SingleFlight
  <2>. QED
    BY <2>3, <2>4 DEF OnceInv
<1>10. ASSUME NEW c \in Cmd, ServerDefers(c) PROVE OnceInv'
  <2>1. c \notin confirmed /\ attempts[c] < MaxAttempts
    BY <1>10 DEF ServerDefers, Retryable, OnceInv, PassOK
  <2>2. /\ active' = active /\ UNCHANGED <<confirmed, attempts>>
        /\ \A d \in Cmd : status'[d] = IF d = c THEN "pending" ELSE status[d]
        /\ drain'.pc = "loop" /\ drain'.todo = drain.todo
    BY <1>10 DEF ServerDefers, SetStatus, InMemory
  <2>3. ActiveOK' /\ PassOK' /\ FailingOK' /\ CountsOK'
    BY <2>1, <2>2 DEF OnceInv, ActiveOK, PassOK, FailingOK, CountsOK, AttemptsBounded, Sendable, InMemory
  <2>4. SingleFlight'
    BY <1>10, <2>2 DEF ServerDefers, OnceInv, SingleFlight
  <2>. QED
    BY <2>3, <2>4 DEF OnceInv
<1>11. ASSUME NEW c \in Cmd, ServerRejects(c) PROVE OnceInv'
  <2>1. PassOK' /\ SingleFlight'
    BY <1>11 DEF ServerRejects, OnceInv, PassOK, Sendable, SingleFlight, record
  <2>2. /\ drain'.cur = c /\ call[Drain] \in Seq(FrameType)
        /\ call'[Drain] = Append(call[Drain], NewFrame(c, "failed", "events"))
    BY <1>11 DEF ServerRejects, Push, Thread
  <2>3. /\ call'[Drain] # <<>>
        /\ call'[Drain][Len(call'[Drain])] = NewFrame(c, "failed", "events")
    <3>1. NewFrame(c, "failed", "events") \in FrameType
      BY NewFrameType DEF FramePC
    <3>. QED
      BY <2>2, <3>1, PushTop
  <2>4. FailingOK'
    BY <2>2, <2>3 DEF FailingOK, At, Top, NewFrame
  <2>. QED
    BY <1>0, <1>11, <2>1, <2>4 DEF ServerRejects, record
<1>12. ASSUME NEW b \in Cmd, DrainResolve(b) PROVE OnceInv'
  <2>1. PassOK' /\ FailingOK' /\ SingleFlight'
    BY <1>12 DEF DrainResolve, OnceInv, PassOK, Sendable, FailingOK, SingleFlight, record
  <2>. QED
    BY <1>0, <1>12, <2>1 DEF DrainResolve, record
<1>13. ASSUME NEW b \in Cmd, DrainUnblock(b) PROVE OnceInv'
  <2>1. \A c \in Cmd : status'[c] = status[c] \/ (status[c] = "blocked" /\ status'[c] = "pending")
    BY <1>13 DEF DrainUnblock, Unblock, Unblocks
  <2>2. /\ UNCHANGED <<attempts, active, confirmed>> /\ drain.pc = "resolve"
        /\ drain'.pc = "unblock" /\ drain'.todo = drain.todo
    BY <1>13 DEF DrainUnblock
  <2>3. ActiveOK' /\ CountsOK' /\ PassOK' /\ FailingOK' /\ SingleFlight'
    BY <2>1, <2>2 DEF OnceInv, ActiveOK, CountsOK, AttemptsBounded, PassOK, Sendable, FailingOK,
                      SingleFlight, InMemory
  <2>. QED
    BY <2>3 DEF OnceInv
<1>14. ASSUME NEW c \in Cmd, NEW applied \in BOOLEAN, DrainCompletes(c, applied) PROVE OnceInv'
  <2>1. /\ UNCHANGED <<attempts, confirmed>> /\ drain.pc = "unblock"
        /\ drain'.pc = "loop" /\ drain'.todo = drain.todo
    BY <1>14 DEF DrainCompletes
  <2>2. \/ SetStatus({c}, "applied")
        \/ UNCHANGED <<status, active>>
    BY <1>14 DEF DrainCompletes
  <2>3. /\ active' \subseteq active /\ \A d \in Cmd : status'[d] \in {status[d], "applied"}
        /\ \A d \in active' : status'[d] = status[d]
    BY <2>2 DEF SetStatus, InMemory
  <2>4. ActiveOK' /\ CountsOK' /\ PassOK' /\ FailingOK' /\ SingleFlight'
    BY <2>1, <2>3 DEF OnceInv, ActiveOK, CountsOK, AttemptsBounded, PassOK, Sendable, FailingOK,
                      SingleFlight, InMemory
  <2>. QED
    BY <2>4 DEF OnceInv
<1>. QED
  BY <1>1, <1>2, <1>3, <1>4, <1>5, <1>6, <1>7, <1>8, <1>9, <1>10, <1>11, <1>12, <1>13, <1>14
  DEF DrainStep

-----------------------------------------------------------------------------
(* The promises.                                                           *)

LEMMA OnceInductive == Spec => [](TypeInv /\ GateInv /\ OnceInv)
<1>1. ASSUME Init PROVE OnceInv
  <2>1. ActiveOK /\ FailingOK /\ SingleFlight
    BY <1>1 DEF Init, ActiveOK, FailingOK, SingleFlight, IdleDrain
  <2>2. PassOK
    BY <1>1 DEF Init, PassOK, IdleDrain
  <2>3. CountsOK
    BY <1>1, AttemptsAssumption DEF Init, CountsOK, AttemptsBounded
  <2>. QED
    BY <2>1, <2>2, <2>3 DEF OnceInv
<1>2. TypeInv /\ GateInv /\ OnceInv /\ [Next]_vars => OnceInv'
  <2>1. ASSUME TypeInv, GateInv, OnceInv, Next PROVE OnceInv'
    BY <2>1, EnqueueKeepsOnce, DrainKeepsOnce, CallKeepsOnce, EnvironmentKeepsOnce DEF Next
  <2>2. ASSUME TypeInv, OnceInv, UNCHANGED vars PROVE OnceInv'
    BY <2>2, RestKeepsOnce DEF vars, record
  <2>. QED
    BY <2>1, <2>2
<1>. QED
  BY <1>1, <1>2, GateInductive, PTL DEF Spec

\* At most one send is outstanding, the one the pass awaits (processingPromise).
THEOREM SingleFlightHolds == Spec => []SingleFlight
<1>1. OnceInv => SingleFlight
  BY DEF OnceInv
<1>. QED
  BY <1>1, OnceInductive, PTL

\* Whatever kicks the pass, a command is sent at most MaxAttempts times
\* (processCommandFailure).
THEOREM AttemptsBoundedHolds == Spec => []AttemptsBounded
<1>1. OnceInv => AttemptsBounded
  BY DEF OnceInv, CountsOK
<1>. QED
  BY <1>1, OnceInductive, PTL

LEMMA OnlySendCounts ==
  ASSUME TypeInv, Next, NEW c \in Cmd, attempts'[c] # attempts[c]
  PROVE  DrainSend(c)
<1>1. ~(\E d \in Cmd : Enqueue(d) \/ EnqueueContinues(d))
  BY DEF Enqueue, EnqueueContinues, EnqueuePrepare, EnqueueThrows, EnqueueSave, EnqueueDone, record
<1>2. ~(\E t \in Thread : CallStep(t))
  BY DEF CallStep, Terminate, Detach, CascadeScan, CascadeUncouple, CascadeRecursed, CascadeReturn,
         CascadeCancel, CascadeRecurse, CascadeAllSoft, CascadeSoft, SoftWrite, record
<1>3. ~(\E t \in Caller : CallBegins(t)) /\ ~(\E x \in timers : TimerFires(x)) /\ ~Environment
  BY DEF CallBegins, CancelCommand, MarkFailedFromConflict, TimerFires, Environment, Pause, Resume,
         RetryCommand, SyncApplies, record
<1>4. DrainStep
  BY <1>1, <1>2, <1>3 DEF Next
<1>5. PICK d \in Cmd : DrainSend(d)
  BY <1>4 DEF DrainStep, DrainSnapshot, DrainFailed, DrainCollect, DrainEndPass, DrainCheck,
     DrainFinish, DrainSkip, DrainTake, DrainDrop, DrainThrows, ServerAccepts, ServerDefers,
     ServerRejects, DrainResolve, DrainUnblock, DrainCompletes, record
<1>. QED
  BY <1>5 DEF DrainSend, TypeInv, TypeOK

\* A command the server has accepted is never sent again, although a late cancel or
\* conflict may overwrite its status and a user may retry it after that
\* (cancelCommand, markFailedFromConflict, retryCommand).
THEOREM AcceptedOnceHolds == Spec => AcceptedOnce
<1>1. TypeInv /\ GateInv /\ OnceInv /\ [Next]_vars
        => [\A c \in Cmd : attempts'[c] # attempts[c] => c \notin confirmed]_vars
  <2>1. ASSUME TypeInv, OnceInv, Next, NEW c \in Cmd, attempts'[c] # attempts[c]
        PROVE  c \notin confirmed
    <3>1. DrainSend(c)
      BY <2>1, OnlySendCounts
    <3>. QED
      BY <2>1, <3>1 DEF DrainSend, OnceInv, PassOK, Sendable
  <2>. QED
    BY <2>1
<1>. QED
  BY <1>1, OnceInductive, PTL DEF Spec, AcceptedOnce

-----------------------------------------------------------------------------
(* Submission order and stranded commands, where commands are tied by the  *)
(* chains of their aggregates alone and nobody but the pass ends one.      *)
(*                                                                         *)
(* Neither holds of every behaviour: a cancel, a conflict or a hard        *)
(* dependency takes a command out of the middle of a chain, and two walks  *)
(* write lists they computed before the other's writes.                    *)

\* No dependency is declared, and no classifier makes one hard.
ChainsOnly ==
  /\ Classified = {}
  /\ \A c \in Cmd : \A r \in Request[c] : r.explicit = {} /\ r.refs = {}

\* No cancelCommand and no markFailedFromConflict is under way.
Undisturbed == \A t \in Caller : call[t] = <<>>

\* Each enqueue is awaited before the next one begins.
Underway == {c \in Cmd : enq[c] \in {"prepared", "saved"}}
OneByOne == \A c, d \in Underway : c = d

\* The states a command goes through: a blocked one is in reach of the walks, one
\* that has not settled can still end, one that has settled was sent.
EndedOK ==
  /\ \A c \in Saved \ settled : status[c] \in {"pending", "blocked", "sending"}
  /\ \A c \in Cmd \ Saved : status[c] = "absent" /\ c \notin settled /\ blockedBy[c] = {}
  /\ \A c \in settled : attempts[c] > 0
  /\ \A c \in confirmed : status[c] \in {"succeeded", "applied"}
  /\ \A c \in Cmd : status[c] = "blocked" => c \in active /\ blockedBy[c] # {}

\* Every edge is an edge of a chain.
Soft ==
  /\ \A c, d \in Cmd : source[c][d] \in {"none", "aggregate-chain"}
  /\ \A c \in Cmd : \A d \in blockedBy[c] : source[c][d] = "aggregate-chain"

\* The pass walks alone, one frame deep, and no list it will write is stale.
FrameFresh(f) ==
  /\ f.parent = drain.cur /\ attempts[f.parent] > 0
  /\ f.pc \in {"events", "detach", "scan", "classify", "soft"}
  /\ f.pc = "events" => status[f.parent] = "sending"
  /\ f.pc = "classify" => \A b \in f.todo : source[b][f.parent] = "aggregate-chain"
  /\ f.pc = "soft" => \A b \in f.soft : f.keep[b] = blockedBy[b] \ {f.parent}

WalkOK ==
  /\ drain.pc = "sending" => status[drain.cur] = "sending"
  /\ drain.pc = "resolve" => drain.keep = blockedBy[drain.dep] \ {drain.cur}
  /\ call[Drain] # <<>> =>
       drain.pc = "failing" /\ Len(call[Drain]) = 1 /\ FrameFresh(Top(Drain))

\* The walk under way will take d off the list of c.
Watched(c, d) ==
  /\ d = drain.cur
  /\ \/ drain.pc = "won"
     \/ drain.pc \in {"unblock", "resolve"} /\ c \in drain.deps
     \/ drain.pc = "resolve" /\ c = drain.dep
     \/ /\ drain.pc = "failing" /\ call[Drain] # <<>>
        /\ \/ Top(Drain).pc \in {"detach", "scan"}
           \/ Top(Drain).pc = "classify" /\ c \in Top(Drain).todo
           \/ Top(Drain).pc = "soft" /\ c \in Top(Drain).soft

WatchedOK ==
  \A c \in Cmd : status[c] = "blocked" => \A d \in blockedBy[c] : Live(d) \/ Watched(c, d)

ChainInv == EndedOK /\ Soft /\ WalkOK /\ WatchedOK

Before == TypeInv /\ GateInv /\ OnceInv

-----------------------------------------------------------------------------
LEMMA LastPopped ==
  ASSUME NEW q \in Seq(FrameType), Len(q) = 1
  PROVE  SubSeq(q, 1, Len(q) - 1) = <<>>
BY SubSeqProperties, EmptySeq

LEMMA TopBecomes ==
  ASSUME call \in Stacks, call' \in Stacks, NEW t \in Thread, call[t] # <<>>, NEW f, Become(t, f)
  PROVE  call'[t] # <<>> /\ Len(call'[t]) = Len(call[t]) /\ Top(t)' = f
<1>1. Len(call[t]) \in Nat \ {0} /\ Len(call'[t]) \in Nat
  BY StackType, LenProperties DEF Stacks
<1>2. call'[t] = [call[t] EXCEPT ![Len(call[t])] = f]
  BY DEF Become, Stacks
<1>3. DOMAIN call[t] = 1..Len(call[t]) /\ DOMAIN call'[t] = 1..Len(call'[t])
  BY LenProperties DEF Stacks
<1>4. 1..Len(call[t]) = 1..Len(call'[t])
  BY <1>2, <1>3
<1>5. Len(call'[t]) = Len(call[t])
  BY <1>1, <1>4
<1>6. call'[t][Len(call[t])] = f
  BY <1>1, <1>2, <1>3
<1>7. call'[t] # <<>>
  BY <1>1, <1>5, EmptySeq DEF Stacks
<1>. QED
  BY <1>5, <1>6, <1>7 DEF Top

\* Only a walk of the pass, after a failed send, has frames.
LEMMA NobodyElse ==
  ASSUME Undisturbed, NEW t \in Thread, call[t] # <<>>
  PROVE  t = Drain
BY DEF Undisturbed, Thread

LEMMA KickFacts ==
  ASSUME Kick \/ KickUnlessPaused
  PROVE  drain' = drain \/ (drain.pc = "idle" /\ drain' = [IdleDrain EXCEPT !.pc = "snapshot"])
BY DEF Kick, KickUnlessPaused

\* A step that writes no record and moves the drain by a kick at most.
LEMMA KickKeepsChain ==
  ASSUME Before, ChainInv, UNCHANGED <<record, settled, confirmed, call>>, Saved' = Saved,
         drain' = drain \/ Kick \/ KickUnlessPaused
  PROVE  ChainInv'
<1>1. drain' = drain \/ (drain.pc = "idle" /\ drain' = [IdleDrain EXCEPT !.pc = "snapshot"])
  BY KickFacts
<1>2. EndedOK' /\ Soft'
  BY DEF ChainInv, EndedOK, Soft, record
<1>3. CASE drain' = drain
  <2>1. WalkOK' /\ WatchedOK'
    BY <1>3 DEF ChainInv, WalkOK, FrameFresh, WatchedOK, Watched, Live, Top, record
  <2>. QED
    BY <1>2, <2>1 DEF ChainInv
<1>4. CASE drain.pc = "idle" /\ drain' = [IdleDrain EXCEPT !.pc = "snapshot"]
  <2>1. drain'.pc = "snapshot" /\ call' = call /\ call[Drain] = <<>>
    BY <1>4 DEF IdleDrain, ChainInv, WalkOK
  <2>2. WalkOK'
    BY <2>1 DEF WalkOK
  <2>3. \A c, d : ~Watched(c, d)
    BY <1>4 DEF Watched
  <2>4. WatchedOK'
    BY <2>3 DEF ChainInv, WatchedOK, Live, record
  <2>. QED
    BY <1>2, <2>2, <2>4 DEF ChainInv
<1>. QED
  BY <1>1, <1>3, <1>4

LEMMA EnqueueKeepsChain ==
  ASSUME ChainsOnly, Before, ChainInv, NEW c \in Cmd, Enqueue(c) \/ EnqueueContinues(c)
  PROVE  ChainInv'
<1>. DEFINE Walked == call[Drain] # <<>> =>
              /\ Top(Drain) \in FrameType /\ Top(Drain).todo \subseteq Saved
              /\ Top(Drain).soft \subseteq Saved
<1>0. Walked
  BY TopOK DEF Before, FrameOK, Thread
<1>1. ASSUME NEW r \in Request[c], EnqueuePrepare(c, r) PROVE ChainInv'
  <2>1. /\ UNCHANGED <<status, blockedBy, active, attempts, settled, confirmed, drain, call>>
        /\ enq[c] = "none" /\ Saved' = Saved /\ c \notin Saved
        /\ source' = [source EXCEPT ![c] = Edges(r)]
    BY <1>1 DEF EnqueuePrepare, Saved, Before, TypeInv, TypeOK
  <2>2. EndedOK'
    BY <2>1 DEF ChainInv, EndedOK
  <2>3. \A d \in Cmd : Edges(r)[d] \in {"none", "aggregate-chain"}
    BY DEF Edges, ChainsOnly
  <2>4. \A d \in Cmd : source'[d] = IF d = c THEN Edges(r) ELSE source[d]
    BY <2>1 DEF Before, TypeInv, TypeOK
  <2>5. blockedBy[c] = {}
    BY <2>1 DEF ChainInv, EndedOK
  <2>6. Soft'
    BY <2>1, <2>3, <2>4, <2>5 DEF ChainInv, Soft
  <2>7. call[Drain] # <<>> => FrameFresh(Top(Drain))'
    BY <1>0, <2>1, <2>4 DEF ChainInv, WalkOK, FrameFresh, Top, FrameType
  <2>8. WalkOK'
    BY <2>1, <2>7 DEF ChainInv, WalkOK, Top
  <2>9. WatchedOK'
    BY <2>1 DEF ChainInv, WatchedOK, Watched, Live, Top
  <2>. QED
    BY <2>2, <2>6, <2>8, <2>9 DEF ChainInv
<1>2. CASE EnqueueThrows(c) \/ EnqueueDone(c)
  <2>1. Saved' = Saved
    BY <1>2 DEF EnqueueThrows, EnqueueDone, Saved, Before, TypeInv, TypeOK
  <2>. QED
    BY <1>2, <2>1, KickKeepsChain DEF EnqueueThrows, EnqueueDone
<1>3. CASE EnqueueSave(c)
  <2>. DEFINE open == {d \in Cmd : source[c][d] # "none" /\ Live(d)}
  <2>1. /\ UNCHANGED <<source, attempts, settled, confirmed, drain, call>>
        /\ c \notin Saved /\ Saved' = Saved \cup {c}
        /\ active' = active \cup {c}
        /\ \A d \in Cmd : status'[d] = IF d = c THEN IF open = {} THEN "pending" ELSE "blocked"
                                       ELSE status[d]
        /\ \A d \in Cmd : blockedBy'[d] = IF d = c THEN open ELSE blockedBy[d]
    BY <1>3 DEF EnqueueSave, Saved, Before, TypeInv, TypeOK
  <2>2. status[c] = "absent" /\ c \notin settled /\ c \notin confirmed /\ attempts[c] = 0
    BY <2>1 DEF ChainInv, EndedOK, Before, GateInv, RecordsOK
  <2>3. EndedOK'
    <3>1. \A d \in Saved' \ settled' : status'[d] \in {"pending", "blocked", "sending"}
      BY <2>1 DEF ChainInv, EndedOK, Saved
    <3>2. \A d \in Cmd \ Saved' : status'[d] = "absent" /\ d \notin settled' /\ blockedBy'[d] = {}
      BY <2>1 DEF ChainInv, EndedOK
    <3>3. \A d \in confirmed' : status'[d] \in {"succeeded", "applied"}
      BY <2>1, <2>2 DEF ChainInv, EndedOK, Before, TypeInv, TypeOK
    <3>4. \A d \in Cmd : status'[d] = "blocked" => d \in active' /\ blockedBy'[d] # {}
      BY <2>1 DEF ChainInv, EndedOK
    <3>. QED
      BY <2>1, <3>1, <3>2, <3>3, <3>4 DEF ChainInv, EndedOK
  <2>4. Soft'
    BY <2>1 DEF ChainInv, Soft
  <2>5. drain.pc = "resolve" => drain.dep \in Cmd /\ drain.dep # c
    BY <2>1 DEF Before, GateInv, DrainOK, Saved
  <2>6. drain.pc = "sending" => drain.cur \in Cmd /\ drain.cur # c
    BY <2>2 DEF Before, TypeInv, Sent
  <2>7. call[Drain] # <<>> => FrameFresh(Top(Drain))'
    <3>1. SUFFICES ASSUME call[Drain] # <<>> PROVE FrameFresh(Top(Drain))'
      OBVIOUS
    <3>2. FrameFresh(Top(Drain)) /\ Top(Drain)' = Top(Drain) /\ Top(Drain).parent \in Cmd
      BY <1>0, <2>1, <3>1 DEF ChainInv, WalkOK, Top, FrameType
    <3>3. \A b \in Top(Drain).soft : b \in Cmd /\ b # c
      BY <1>0, <2>1, <3>1 DEF Saved
    <3>4. Top(Drain).parent # c
      BY <2>2, <3>2 DEF FrameFresh
    <3>. QED
      BY <2>1, <3>2, <3>3, <3>4 DEF FrameFresh
  <2>8. WalkOK'
    BY <2>1, <2>5, <2>6, <2>7 DEF ChainInv, WalkOK, Top
  <2>9. \A d \in Cmd : Live(d) => Live(d)'
    BY <2>1, <2>2 DEF Live, Terminal
  <2>10. \A d \in open : d \in Cmd /\ Live(d)
    OBVIOUS
  <2>11. \A e, d : Watched(e, d)' = Watched(e, d)
    BY <2>1 DEF Watched, Top
  <2>12. WatchedOK'
    BY <2>1, <2>9, <2>10, <2>11 DEF ChainInv, WatchedOK, Before, TypeInv, TypeOK
  <2>. QED
    BY <2>3, <2>4, <2>8, <2>12 DEF ChainInv
<1>. QED
  BY <1>1, <1>2, <1>3 DEF Enqueue, EnqueueContinues

-----------------------------------------------------------------------------
(* The pass.                                                               *)

\* Outside a failed send the pass has no frame.
LEMMA NoFrame ==
  ASSUME WalkOK, drain.pc # "failing" \/ call[Drain] = <<>>
  PROVE  call[Drain] = <<>> /\ \A c, d : Watched(c, d) =>
           /\ d = drain.cur
           /\ drain.pc = "won" \/ (drain.pc \in {"unblock", "resolve"} /\ c \in drain.deps)
              \/ (drain.pc = "resolve" /\ c = drain.dep)
BY DEF WalkOK, Watched

\* A step that moves the drain and neither writes a record nor has frames.
LEMMA MoveKeepsChain ==
  ASSUME Before, ChainInv, UNCHANGED <<record, enqueueing, call, settled, confirmed>>,
         call[Drain] = <<>>,
         drain'.pc = "sending" => status[drain'.cur] = "sending",
         drain'.pc = "resolve" => drain'.keep = blockedBy[drain'.dep] \ {drain'.cur},
         \A c \in Cmd : status[c] = "blocked" =>
           \A d \in blockedBy[c] : Watched(c, d) => Live(d) \/ Watched(c, d)'
  PROVE  ChainInv'
<1>1. EndedOK' /\ Soft'
  BY DEF ChainInv, EndedOK, Soft, Saved, record, enqueueing
<1>2. WalkOK'
  BY DEF WalkOK, record
<1>3. \A d : Live(d)' = Live(d)
  BY DEF Live, record
<1>4. WatchedOK'
  BY <1>3 DEF ChainInv, WatchedOK, record
<1>. QED
  BY <1>1, <1>2, <1>4 DEF ChainInv

LEMMA DrainMovesChain ==
  ASSUME Before, ChainInv,
         \/ DrainSnapshot \/ DrainFailed \/ DrainCollect \/ DrainEndPass \/ DrainCheck \/ DrainFinish
         \/ \E c \in Cmd : DrainSkip(c) \/ DrainTake(c) \/ DrainDrop(c) \/ DrainThrows(c) \/ DrainResolve(c)
  PROVE  ChainInv'
<1>. USE DEF ChainInv
<1>1. CASE DrainSnapshot
  BY <1>1, MoveKeepsChain, NoFrame DEF DrainSnapshot, Before, TypeInv, TypeOK, DrainType
<1>2. CASE DrainFailed
  BY <1>2, MoveKeepsChain, NoFrame DEF DrainFailed, Before, TypeInv, TypeOK, DrainType
<1>3. CASE DrainCollect
  <2>1. /\ drain.pc = "won" /\ drain'.pc = "unblock" /\ drain'.cur = drain.cur
        /\ drain'.deps = Dependents(drain.cur)
    BY <1>3 DEF DrainCollect, Before, TypeInv, TypeOK, DrainType
  <2>2. ASSUME NEW c \in Cmd, status[c] = "blocked", NEW d \in blockedBy[c], Watched(c, d)
        PROVE  Watched(c, d)'
    BY <2>1, <2>2 DEF Watched, Dependents, EndedOK
  <2>. QED
    BY <1>3, <2>1, <2>2, MoveKeepsChain, NoFrame DEF DrainCollect
<1>4. CASE DrainEndPass
  BY <1>4, MoveKeepsChain, NoFrame DEF DrainEndPass, Before, TypeInv, TypeOK, DrainType
<1>5. CASE DrainCheck
  BY <1>5, MoveKeepsChain, NoFrame DEF DrainCheck, Before, TypeInv, TypeOK, DrainType
<1>6. CASE DrainFinish
  BY <1>6, MoveKeepsChain, NoFrame DEF DrainFinish, IdleDrain
<1>7. ASSUME NEW c \in Cmd, DrainSkip(c) \/ DrainTake(c) PROVE ChainInv'
  BY <1>7, MoveKeepsChain, NoFrame DEF DrainSkip, DrainTake, Before, TypeInv, TypeOK, DrainType
<1>8. ASSUME NEW c \in Cmd, DrainDrop(c) PROVE ChainInv'
  BY <1>8, MoveKeepsChain, NoFrame DEF DrainDrop, Before, TypeInv, TypeOK, DrainType
<1>9. ASSUME NEW c \in Cmd, DrainThrows(c) PROVE ChainInv'
  BY <1>9, MoveKeepsChain, NoFrame DEF DrainThrows, IdleDrain
<1>10. ASSUME NEW b \in Cmd, DrainResolve(b) PROVE ChainInv'
  <2>1. /\ drain.pc = "unblock" /\ drain'.pc = "resolve" /\ drain'.cur = drain.cur
        /\ drain'.deps = drain.deps \ {b} /\ drain'.dep = b
        /\ drain'.keep = blockedBy[b] \ {drain.cur}
    BY <1>10 DEF DrainResolve, Before, TypeInv, TypeOK, DrainType
  <2>2. ASSUME NEW c \in Cmd, NEW d \in blockedBy[c], Watched(c, d) PROVE Watched(c, d)'
    BY <2>1, <2>2 DEF Watched
  <2>. QED
    BY <1>10, <2>1, <2>2, MoveKeepsChain, NoFrame DEF DrainResolve
<1>. QED
  BY <1>1, <1>2, <1>3, <1>4, <1>5, <1>6, <1>7, <1>8, <1>9, <1>10

\* A status write of one command that has been saved.
LEMMA StatusKeepsEnded ==
  ASSUME Before, EndedOK, NEW x \in Saved,
         NEW s \in {"pending", "sending", "succeeded", "applied", "failed", "cancelled"}, SetStatus({x}, s),
         UNCHANGED <<blockedBy, enq>>,
         \A c \in Cmd : attempts[c] > 0 => attempts'[c] > 0,
         s \in Terminal => attempts'[x] > 0,
         confirmed' \subseteq confirmed \cup {x},
         x \in confirmed' => s \in {"succeeded", "applied"}
  PROVE  /\ EndedOK'
         /\ \A c \in Cmd : status'[c] = "blocked" => status[c] = "blocked" /\ c # x
         /\ \A c \in Cmd \ {x} : Live(c)' = Live(c)
         /\ s \notin Terminal => Live(x)'
<1>1. /\ x \in Cmd /\ Saved' = Saved
      /\ \A c \in Cmd : status'[c] = IF c = x THEN s ELSE status[c]
      /\ active \ {x} \subseteq active'
      /\ settled \subseteq settled' /\ settled' \subseteq settled \cup {x}
      /\ s \in Terminal <=> s \in {"succeeded", "applied", "failed", "cancelled"}
      /\ s \in Terminal => x \in settled'
      /\ s \notin Terminal => settled' = settled
  BY DEF Saved, SetStatus, Terminal
<1>2. \A c \in Saved' \ settled' : status'[c] \in {"pending", "blocked", "sending"}
  <2>1. ASSUME NEW c \in Saved' \ settled', c # x PROVE status'[c] \in {"pending", "blocked", "sending"}
    BY <1>1, <2>1 DEF EndedOK, Saved
  <2>2. x \notin settled' => s \in {"pending", "sending"}
    BY <1>1
  <2>. QED
    BY <1>1, <2>1, <2>2
<1>3. \A c \in Cmd \ Saved' : status'[c] = "absent" /\ c \notin settled' /\ blockedBy'[c] = {}
  BY <1>1 DEF EndedOK
<1>4. \A c \in settled' : attempts'[c] > 0
  BY <1>1 DEF EndedOK, Before, TypeInv, TypeOK
<1>5. \A c \in confirmed' : status'[c] \in {"succeeded", "applied"}
  BY <1>1 DEF EndedOK, Before, TypeInv, TypeOK
<1>6. \A c \in Cmd : status'[c] = "blocked" => status[c] = "blocked" /\ c # x
  BY <1>1
<1>7. \A c \in Cmd : status'[c] = "blocked" => c \in active' /\ blockedBy'[c] # {}
  BY <1>1, <1>6 DEF EndedOK
<1>8. \A c \in Cmd \ {x} : Live(c)' = Live(c)
  BY <1>1 DEF Live
<1>9. s \notin Terminal => Live(x)'
  BY <1>1 DEF Live
<1>. QED
  BY <1>2, <1>3, <1>4, <1>5, <1>6, <1>7, <1>8, <1>9 DEF EndedOK

\* The pass writes the status of the command in hand.
LEMMA DrainWritesChain ==
  ASSUME Before, ChainInv, NEW c \in Cmd,
         \/ DrainSend(c) \/ ServerAccepts(c) \/ ServerDefers(c) \/ ServerRejects(c)
         \/ \E applied \in BOOLEAN : DrainCompletes(c, applied)
  PROVE  ChainInv'
<1>. USE DEF ChainInv
<1>0. call[Drain] = <<>> /\ call \in Stacks /\ Drain \in Thread
  BY NoFrame DEF DrainSend, ServerAccepts, ServerDefers, ServerRejects, DrainCompletes,
     Before, TypeInv, TypeOK, Stacks, Thread
<1>1. CASE DrainSend(c)
  <2>1. /\ drain.pc = "taken" /\ drain.cur = c /\ drain'.pc = "sending" /\ drain'.cur = c
        /\ UNCHANGED <<blockedBy, source, enq, call, confirmed>> /\ SetStatus({c}, "sending")
        /\ \A d \in Cmd : attempts'[d] = IF d = c THEN attempts[c] + 1 ELSE attempts[d]
    BY <1>1 DEF DrainSend, Before, TypeInv, TypeOK, DrainType, enqueueing
  <2>2. c \in Saved /\ c \notin confirmed /\ attempts[c] \in Nat
    BY <2>1 DEF Before, GateInv, DrainOK, OnceInv, PassOK, Sendable, TypeInv, TypeOK
  <2>3. /\ EndedOK'
        /\ \A e \in Cmd : status'[e] = "blocked" => status[e] = "blocked" /\ e # c
        /\ \A e \in Cmd : Live(e) => Live(e)'
    <3>1. \A d \in Cmd : attempts[d] > 0 => attempts'[d] > 0
      BY <2>1, <2>2
    <3>. QED
      BY <2>1, <2>2, <3>1, StatusKeepsEnded DEF Terminal
  <2>4. status'[c] = "sending"
    BY <2>1 DEF SetStatus
  <2>5. Soft' /\ WalkOK'
    BY <1>0, <2>1, <2>4 DEF Soft, WalkOK
  <2>6. WatchedOK'
    BY <1>0, <2>1, <2>3 DEF WatchedOK, Watched, Before, TypeInv, TypeOK
  <2>. QED
    BY <2>3, <2>5, <2>6
<1>2. CASE ServerAccepts(c)
  <2>1. /\ drain.pc = "sending" /\ drain.cur = c /\ drain'.pc = "won" /\ drain'.cur = c
        /\ UNCHANGED <<blockedBy, source, enq, call, attempts>> /\ SetStatus({c}, "succeeded")
        /\ confirmed' = confirmed \cup {c} /\ attempts[c] > 0
    BY <1>2 DEF ServerAccepts, Before, TypeInv, TypeOK, DrainType, enqueueing, Sent
  <2>2. c \in Saved
    BY <2>1 DEF Before, GateInv, RecordsOK
  <2>3. /\ EndedOK'
        /\ \A e \in Cmd : status'[e] = "blocked" => status[e] = "blocked" /\ e # c
        /\ \A e \in Cmd \ {c} : Live(e) => Live(e)'
    BY <2>1, <2>2, StatusKeepsEnded
  <2>4. Soft' /\ WalkOK'
    BY <1>0, <2>1 DEF Soft, WalkOK
  <2>5. \A e : Watched(e, c)'
    BY <2>1 DEF Watched
  <2>6. WatchedOK'
    BY <1>0, <2>1, <2>3, <2>5 DEF WatchedOK, Watched, Before, TypeInv, TypeOK
  <2>. QED
    BY <2>3, <2>4, <2>6
<1>3. CASE ServerDefers(c)
  <2>1. /\ drain.pc = "sending" /\ drain.cur = c /\ drain'.pc = "loop"
        /\ UNCHANGED <<blockedBy, source, enq, call, attempts, confirmed>> /\ SetStatus({c}, "pending")
        /\ attempts[c] > 0 /\ c \notin confirmed
    BY <1>3 DEF ServerDefers, Before, TypeInv, TypeOK, DrainType, enqueueing, Sent, OnceInv, PassOK
  <2>2. c \in Saved
    BY <2>1 DEF Before, GateInv, RecordsOK
  <2>3. /\ EndedOK'
        /\ \A e \in Cmd : status'[e] = "blocked" => status[e] = "blocked" /\ e # c
        /\ \A e \in Cmd : Live(e) => Live(e)'
    BY <2>1, <2>2, StatusKeepsEnded DEF Terminal
  <2>4. Soft' /\ WalkOK'
    BY <1>0, <2>1 DEF Soft, WalkOK
  <2>5. WatchedOK'
    BY <1>0, <2>1, <2>3 DEF WatchedOK, Watched, Before, TypeInv, TypeOK
  <2>. QED
    BY <2>3, <2>4, <2>5
<1>4. CASE ServerRejects(c)
  <2>. DEFINE f == NewFrame(c, "failed", "events")
  <2>1. /\ drain.pc = "sending" /\ drain.cur = c /\ drain'.pc = "failing" /\ drain'.cur = c
        /\ UNCHANGED <<record, enqueueing, settled, confirmed>> /\ attempts[c] > 0
        /\ call'[Drain] = Append(<<>>, f) /\ status[c] = "sending"
    BY <1>0, <1>4 DEF ServerRejects, Before, TypeInv, TypeOK, DrainType, Sent, Push, Stacks, WalkOK
  <2>2. f \in FrameType /\ f.parent = c /\ f.pc = "events"
    BY NewFrameType DEF FramePC, NewFrame
  <2>3. Len(Append(<<>>, f)) = 1 /\ Append(<<>>, f)[1] = f
    BY <2>2
  <2>4. Len(call'[Drain]) = 1 /\ Top(Drain)' = f
    BY <2>1, <2>3 DEF Top
  <2>5. EndedOK' /\ Soft'
    BY <2>1 DEF EndedOK, Soft, Saved, record, enqueueing
  <2>6. WalkOK'
    BY <2>1, <2>2, <2>4 DEF WalkOK, FrameFresh, record
  <2>7. WatchedOK'
    BY <2>1 DEF WatchedOK, Watched, Live, record
  <2>. QED
    BY <2>5, <2>6, <2>7
<1>5. ASSUME DrainCompletes(c, TRUE) PROVE ChainInv'
  <2>1. /\ drain.pc = "unblock" /\ drain.deps = {} /\ drain.cur = c /\ drain'.pc = "loop"
        /\ UNCHANGED <<blockedBy, source, enq, call, attempts, confirmed>> /\ SetStatus({c}, "applied")
        /\ c \in confirmed /\ attempts[c] > 0
    BY <1>5 DEF DrainCompletes, Before, TypeInv, TypeOK, DrainType, enqueueing, GateInv, DrainOK,
                OnceInv, CountsOK
  <2>2. c \in Saved /\ ~Live(c)
    BY <2>1 DEF Before, GateInv, RecordsOK, EndedOK, Live, Terminal
  <2>3. /\ EndedOK'
        /\ \A e \in Cmd : status'[e] = "blocked" => status[e] = "blocked" /\ e # c
        /\ \A e \in Cmd : Live(e) => Live(e)'
    BY <2>1, <2>2, StatusKeepsEnded
  <2>4. Soft' /\ WalkOK'
    BY <1>0, <2>1 DEF Soft, WalkOK
  <2>5. WatchedOK'
    BY <1>0, <2>1, <2>3 DEF WatchedOK, Watched, Before, TypeInv, TypeOK
  <2>. QED
    BY <2>3, <2>4, <2>5
<1>6. ASSUME DrainCompletes(c, FALSE) PROVE ChainInv'
  <2>1. /\ drain.pc = "unblock" /\ drain.deps = {} /\ drain'.pc = "loop"
        /\ UNCHANGED <<record, enqueueing, call, settled, confirmed>>
    BY <1>6 DEF DrainCompletes, Before, TypeInv, TypeOK, DrainType, record
  <2>. QED
    BY <1>0, <2>1, MoveKeepsChain DEF Watched
<1>. QED
  BY <1>1, <1>2, <1>3, <1>4, <1>5, <1>6

\* The pass unblocks a dependent of the command that has succeeded.
LEMMA DrainUnblockChain ==
  ASSUME Before, ChainInv, NEW b \in Cmd, DrainUnblock(b)
  PROVE  ChainInv'
<1>. USE DEF ChainInv
<1>1. /\ drain.pc = "resolve" /\ drain.dep = b /\ drain'.pc = "unblock"
      /\ drain'.cur = drain.cur /\ drain'.deps = drain.deps
      /\ UNCHANGED <<source, attempts, active, enq, call, settled, confirmed>>
      /\ drain.keep = blockedBy[b] \ {drain.cur} /\ call[Drain] = <<>> /\ b \in Saved
  BY NoFrame DEF DrainUnblock, Before, TypeInv, TypeOK, DrainType, enqueueing, WalkOK, GateInv, DrainOK
<1>2. /\ \A c \in Cmd : blockedBy'[c] = IF c = b THEN drain.keep ELSE blockedBy[c]
      /\ \A c \in Cmd : status'[c] = IF c = b /\ drain.keep = {} /\ status[b] = "blocked"
                                     THEN "pending" ELSE status[c]
      /\ Saved' = Saved
  BY <1>1 DEF DrainUnblock, Unblock, Unblocks, Before, TypeInv, TypeOK, Saved
<1>3. \A c \in Cmd : blockedBy'[c] \subseteq blockedBy[c] /\ (Live(c) => Live(c)')
  BY <1>1, <1>2 DEF Live, Terminal
<1>4. EndedOK'
  <2>1. \A c \in Saved' \ settled' : status'[c] \in {"pending", "blocked", "sending"}
    BY <1>1, <1>2 DEF EndedOK, Saved
  <2>2. \A c \in Cmd \ Saved' : status'[c] = "absent" /\ c \notin settled' /\ blockedBy'[c] = {}
    BY <1>1, <1>2 DEF EndedOK
  <2>3. \A c \in confirmed' : status'[c] \in {"succeeded", "applied"}
    BY <1>1, <1>2 DEF EndedOK, Before, TypeInv, TypeOK
  <2>4. \A c \in Cmd : status'[c] = "blocked" => c \in active' /\ blockedBy'[c] # {}
    BY <1>1, <1>2 DEF EndedOK
  <2>. QED
    BY <1>1, <2>1, <2>2, <2>3, <2>4 DEF EndedOK
<1>5. Soft' /\ WalkOK'
  BY <1>1, <1>3 DEF Soft, WalkOK
<1>6. ASSUME NEW c \in Cmd, status'[c] = "blocked", NEW d \in blockedBy'[c]
      PROVE  Live(d)' \/ Watched(c, d)'
  <2>1. status[c] = "blocked" /\ d \in blockedBy[c] /\ d \in Cmd
    BY <1>2, <1>3, <1>6 DEF Before, TypeInv, TypeOK
  <2>2. Live(d) \/ Watched(c, d)
    BY <2>1 DEF WatchedOK
  <2>3. CASE c = b
    BY <1>1, <1>2, <1>3, <1>6, <2>1, <2>2, <2>3 DEF Watched
  <2>4. CASE c # b
    BY <1>1, <1>3, <2>1, <2>2, <2>4 DEF Watched
  <2>. QED
    BY <2>3, <2>4
<1>7. WatchedOK'
  BY <1>6 DEF WatchedOK
<1>. QED
  BY <1>4, <1>5, <1>7

-----------------------------------------------------------------------------
(* The walk after a failed send.                                           *)

\* The frame of the walk.
LEMMA TheFrame ==
  ASSUME Before, ChainInv, call[Drain] # <<>>
  PROVE  /\ Top(Drain) \in FrameType /\ FrameOK(Top(Drain)) /\ FrameFresh(Top(Drain))
         /\ drain.pc = "failing" /\ Len(call[Drain]) = 1
         /\ Drain \in Thread /\ call \in Stacks
         /\ Top(Drain).parent \in Saved /\ Top(Drain).parent = drain.cur
<1>1. Drain \in Thread /\ call \in Stacks
  BY DEF Before, Thread, TypeInv, TypeOK, Stacks
<1>2. Top(Drain) \in FrameType /\ FrameOK(Top(Drain))
  BY <1>1, TopOK DEF Before
<1>3. FrameFresh(Top(Drain)) /\ drain.pc = "failing" /\ Len(call[Drain]) = 1
  BY DEF ChainInv, WalkOK
<1>4. Top(Drain).parent \in Cmd /\ attempts[Top(Drain).parent] > 0 /\ Top(Drain).parent = drain.cur
  BY <1>2, <1>3 DEF FrameType, FrameFresh
<1>5. Top(Drain).parent \in Saved
  BY <1>4 DEF Before, GateInv, RecordsOK
<1>. QED
  BY <1>1, <1>2, <1>3, <1>4, <1>5

LEMMA FramePopped ==
  ASSUME Before, ChainInv, call[Drain] # <<>>, Pop(Drain)
  PROVE  call'[Drain] = <<>>
<1>1. call'[Drain] = SubSeq(call[Drain], 1, Len(call[Drain]) - 1)
  BY TheFrame DEF Pop, Stacks
<1>. QED
  BY <1>1, TheFrame, LastPopped DEF Stacks

\* A step of the walk that writes no record.
LEMMA WalkMovesChain ==
  ASSUME Before, ChainInv, TypeInv', call[Drain] # <<>>,
         NEW g, Become(Drain, g), FrameFresh(g), g.pc # "soft",
         UNCHANGED <<record, enq, settled, confirmed, drain>>,
         \A c \in Cmd : status[c] = "blocked" =>
           \A d \in blockedBy[c] : Watched(c, d) => g.pc = "scan" \/ (g.pc = "classify" /\ c \in g.todo)
  PROVE  ChainInv'
<1>. USE DEF ChainInv
<1>1. call'[Drain] # <<>> /\ Len(call'[Drain]) = 1 /\ Top(Drain)' = g /\ drain.pc = "failing"
  BY TheFrame, TopBecomes DEF TypeInv, TypeOK, Stacks
<1>2. EndedOK' /\ Soft'
  BY DEF EndedOK, Soft, Saved, record
<1>3. FrameFresh(g)'
  BY DEF FrameFresh, record
<1>4. WalkOK'
  BY <1>1, <1>3 DEF WalkOK
<1>5. WatchedOK'
  BY <1>1, TheFrame DEF WatchedOK, Watched, Live, record
<1>. QED
  BY <1>2, <1>4, <1>5

\* One soft write.
LEMMA SoftWriteChain ==
  ASSUME Before, ChainInv, TypeInv', call[Drain] # <<>>, NEW b \in Saved, NEW f \in FrameType,
         NEW keep \in [Cmd -> SUBSET Cmd], SoftWrite(Drain, b, f, keep),
         f.parent = drain.cur, f.soft \subseteq Cmd \ {b},
         \A e \in f.soft \cup {b} : keep[e] = blockedBy[e] \ {drain.cur},
         \A c \in Cmd : status[c] = "blocked" =>
           \A d \in blockedBy[c] : Live(d) \/ (d = drain.cur /\ c \in f.soft \cup {b})
  PROVE  ChainInv'
<1>. USE DEF ChainInv
<1>1. PICK g : /\ g.pc = "soft" /\ g.soft = f.soft /\ g.parent = f.parent
               /\ \A e \in f.soft : g.keep[e] = keep[e]
               /\ Become(Drain, g)
  BY DEF SoftWrite, FrameType, Unblocks
<1>2. /\ b \in Cmd /\ Unblock(b, keep[b])
      /\ UNCHANGED <<source, attempts, active, enq, drain, settled, confirmed>>
  BY DEF SoftWrite, enqueueing, Saved
<1>3. /\ \A c \in Cmd : blockedBy'[c] = IF c = b THEN blockedBy[b] \ {drain.cur} ELSE blockedBy[c]
      /\ \A c \in Cmd : status'[c] = IF c = b /\ blockedBy'[b] = {} /\ status[b] = "blocked"
                                     THEN "pending" ELSE status[c]
      /\ Saved' = Saved
  <2>1. keep[b] = blockedBy[b] \ {drain.cur}
    OBVIOUS
  <2>2. /\ blockedBy' = [blockedBy EXCEPT ![b] = keep[b]]
        /\ status' = [status EXCEPT ![b] = IF keep[b] = {} /\ status[b] = "blocked" THEN "pending" ELSE @]
    BY <1>2 DEF Unblock, Unblocks
  <2>. QED
    BY <1>2, <2>1, <2>2 DEF Before, TypeInv, TypeOK, Saved
<1>4. \A c \in Cmd : blockedBy'[c] \subseteq blockedBy[c] /\ (Live(c) => Live(c)')
  BY <1>3 DEF Live, Terminal
<1>5. EndedOK'
  <2>1. \A c \in Saved' \ settled' : status'[c] \in {"pending", "blocked", "sending"}
    BY <1>2, <1>3 DEF EndedOK, Saved
  <2>2. \A c \in Cmd \ Saved' : status'[c] = "absent" /\ c \notin settled' /\ blockedBy'[c] = {}
    BY <1>2, <1>3 DEF EndedOK
  <2>3. \A c \in confirmed' : status'[c] \in {"succeeded", "applied"}
    BY <1>2, <1>3 DEF EndedOK, Before, TypeInv, TypeOK
  <2>4. \A c \in Cmd : status'[c] = "blocked" => c \in active' /\ blockedBy'[c] # {}
    BY <1>2, <1>3 DEF EndedOK
  <2>. QED
    BY <1>2, <2>1, <2>2, <2>3, <2>4 DEF EndedOK
<1>6. Soft'
  BY <1>2, <1>4 DEF Soft
<1>7. call'[Drain] # <<>> /\ Len(call'[Drain]) = 1 /\ Top(Drain)' = g /\ drain'.pc = "failing"
  BY <1>1, <1>2, TheFrame, TopBecomes DEF TypeInv, TypeOK, Stacks
<1>8. attempts[f.parent] > 0
  BY TheFrame DEF FrameFresh
<1>9. FrameFresh(g)'
  BY <1>1, <1>2, <1>3, <1>8 DEF FrameFresh
<1>10. WalkOK'
  BY <1>7, <1>9 DEF WalkOK
<1>11. ASSUME NEW c \in Cmd, status'[c] = "blocked", NEW d \in blockedBy'[c]
       PROVE  Live(d)' \/ Watched(c, d)'
  <2>1. status[c] = "blocked" /\ d \in blockedBy[c] /\ d \in Cmd
    BY <1>3, <1>4, <1>11 DEF Before, TypeInv, TypeOK
  <2>2. Live(d) \/ (d = drain.cur /\ c \in f.soft)
    BY <1>3, <1>11, <2>1
  <2>. QED
    BY <1>1, <1>2, <1>4, <1>7, <2>1, <2>2 DEF Watched
<1>12. WatchedOK'
  BY <1>11 DEF WatchedOK
<1>. QED
  BY <1>5, <1>6, <1>10, <1>12

LEMMA CallKeepsChain ==
  ASSUME ChainsOnly, Undisturbed, Before, ChainInv, TypeInv', NEW t \in Thread, CallStep(t)
  PROVE  ChainInv'
<1>. USE DEF ChainInv
<1>. DEFINE f == Top(Drain)
<1>0. t = Drain /\ call[Drain] # <<>>
  BY NobodyElse DEF CallStep, Terminate, Detach, CascadeScan, CascadeUncouple, CascadeRecursed,
     CascadeReturn, CascadeCancel, CascadeRecurse, CascadeAllSoft, CascadeSoft, At
<1>1. /\ f \in FrameType /\ FrameOK(f) /\ FrameFresh(f)
      /\ drain.pc = "failing" /\ Len(call[Drain]) = 1
      /\ f.parent \in Saved /\ f.parent = drain.cur /\ f.parent \in Cmd
  BY <1>0, TheFrame DEF Saved
<1>2. CASE Terminate(Drain)
  <2>1. /\ f.pc = "events" /\ SetStatus({f.parent}, f.to) /\ Become(Drain, [f EXCEPT !.pc = "detach"])
        /\ UNCHANGED <<blockedBy, source, attempts, enq, drain, confirmed>>
    BY <1>2 DEF Terminate, At, enqueueing
  <2>2. attempts[f.parent] > 0 /\ f.parent \notin confirmed /\ f.to \in {"failed", "cancelled"}
    BY <1>1, <2>1 DEF FrameFresh, EndedOK, FrameType
  <2>3. /\ EndedOK'
        /\ \A e \in Cmd : status'[e] = "blocked" => status[e] = "blocked" /\ e # f.parent
        /\ \A e \in Cmd \ {f.parent} : Live(e) => Live(e)'
    BY <1>1, <2>1, <2>2, StatusKeepsEnded
  <2>. DEFINE g == [f EXCEPT !.pc = "detach"]
  <2>4. g.parent = f.parent /\ g.pc = "detach"
    BY <1>1 DEF FrameType
  <2>5. call'[Drain] # <<>> /\ Len(call'[Drain]) = 1 /\ Top(Drain)' = g
    BY <1>0, <1>1, <2>1, TheFrame, TopBecomes DEF TypeInv, TypeOK, Stacks
  <2>6. Soft' /\ WalkOK'
    BY <1>1, <2>1, <2>2, <2>4, <2>5 DEF Soft, WalkOK, FrameFresh
  <2>0. PICK p \in Cmd : p = f.parent
    BY <1>1
  <2>7. \A e : Watched(e, p)'
    BY <1>1, <2>0, <2>1, <2>4, <2>5 DEF Watched
  <2>8. \A e, d : ~Watched(e, d)
    BY <1>1, <2>1 DEF Watched
  <2>9. ASSUME NEW c \in Cmd, status'[c] = "blocked", NEW d \in blockedBy'[c]
        PROVE  Live(d)' \/ Watched(c, d)'
    <3>1. status[c] = "blocked" /\ d \in blockedBy[c] /\ d \in Cmd
      BY <2>1, <2>3, <2>9 DEF Before, TypeInv, TypeOK
    <3>2. Live(d)
      BY <2>8, <3>1 DEF WatchedOK
    <3>. QED
      BY <2>0, <2>3, <2>7, <3>1, <3>2
  <2>10. WatchedOK'
    BY <2>9 DEF WatchedOK
  <2>. QED
    BY <2>3, <2>6, <2>10
<1>3. CASE Detach(Drain)
  <2>1. PICK g : g = [f EXCEPT !.pc = "scan"]
    OBVIOUS
  <2>2. f.pc = "detach" /\ g.pc = "scan" /\ g.parent = f.parent /\ g.todo = f.todo
    BY <1>1, <1>3, <2>1 DEF Detach, At, FrameType
  <2>3. FrameFresh(g)
    BY <1>1, <2>2 DEF FrameFresh
  <2>4. Become(Drain, g) /\ UNCHANGED <<record, enq, settled, confirmed, drain>>
    BY <1>3, <2>1 DEF Detach
  <2>. QED
    BY <1>0, <2>2, <2>3, <2>4, WalkMovesChain
<1>4. CASE CascadeScan(Drain)
  <2>. DEFINE found == {b \in Dependents(f.parent) : status[b] \notin Terminal}
  <2>1. ASSUME NEW c \in Cmd, status[c] = "blocked", NEW d \in blockedBy[c], Watched(c, d)
        PROVE  c \in found
    BY <1>1, <2>1 DEF Watched, Dependents, EndedOK, Terminal
  <2>2. ASSUME found = {} PROVE ChainInv'
    <3>1. call'[Drain] = <<>> /\ UNCHANGED <<record, enqueueing, settled, confirmed, drain>>
      BY <1>0, <1>4, <2>2, FramePopped DEF CascadeScan
    <3>2. EndedOK' /\ Soft'
      BY <3>1 DEF EndedOK, Soft, Saved, record, enqueueing
    <3>3. WalkOK'
      BY <1>1, <3>1 DEF WalkOK
    <3>4. WatchedOK'
      BY <2>1, <2>2, <3>1 DEF WatchedOK, Live, record
    <3>. QED
      BY <3>2, <3>3, <3>4
  <2>3. ASSUME found # {} PROVE ChainInv'
    <3>. DEFINE g == [f EXCEPT !.pc = "classify", !.todo = found]
    <3>1. g.pc = "classify" /\ g.todo = found /\ g.parent = f.parent
      BY <1>1 DEF FrameType
    <3>2. \A b \in found : source[b][f.parent] = "aggregate-chain"
      BY DEF Dependents, Soft, Before, TypeInv, TypeOK
    <3>3. FrameFresh(g)
      BY <1>1, <3>1, <3>2 DEF FrameFresh
    <3>. HIDE DEF g, found
    <3>4. Become(Drain, g) /\ UNCHANGED <<record, enq, settled, confirmed, drain>>
      BY <1>4, <2>3 DEF CascadeScan, enqueueing, g, found
    <3>. QED
      BY <1>0, <2>1, <3>1, <3>3, <3>4, WalkMovesChain
  <2>. QED
    BY <2>2, <2>3
<1>5. ASSUME NEW hard \in SUBSET Cmd, CascadeCancel(Drain, hard) PROVE FALSE
  <2>1. f.pc = "classify" /\ \A b \in f.todo : source[b][f.parent] = "aggregate-chain"
    BY <1>1, <1>5 DEF CascadeCancel, At, FrameFresh
  <2>2. HardSets(Drain) = {{}}
    BY <2>1 DEF HardSets, ChainsOnly
  <2>. QED
    BY <1>5, <2>2 DEF CascadeCancel
<1>6. ASSUME CascadeUncouple(Drain) \/ CascadeRecursed(Drain) \/ \E b \in Cmd : CascadeRecurse(Drain, b)
      PROVE  FALSE
  BY <1>1, <1>6 DEF CascadeUncouple, CascadeRecursed, CascadeRecurse, At, FrameFresh
<1>7. ASSUME NEW b \in Cmd, CascadeAllSoft(Drain, b) PROVE ChainInv'
  <2>. DEFINE g == [f EXCEPT !.todo = {}, !.soft = f.todo \ {b}]
  <2>1. f.pc = "classify" /\ b \in f.todo /\ SoftWrite(Drain, b, g, Keep(Drain))
    BY <1>7 DEF CascadeAllSoft, At, First
  <2>2. g \in FrameType /\ g.soft = f.todo \ {b} /\ g.parent = f.parent
    BY <1>1 DEF FrameType
  <2>3. b \in Saved /\ f.todo \subseteq Cmd
    BY <1>1, <2>1 DEF FrameOK, FrameType
  <2>4. Keep(Drain) \in [Cmd -> SUBSET Cmd] /\ \A e \in f.todo : Keep(Drain)[e] = blockedBy[e] \ {drain.cur}
    BY <1>0, <1>1, <2>3, TheFrame, KeepType DEF Keep, Before, TypeInv
  <2>5. ASSUME NEW c \in Cmd, status[c] = "blocked", NEW d \in blockedBy[c]
        PROVE  Live(d) \/ (d = drain.cur /\ c \in f.todo)
    BY <1>1, <2>1, <2>5 DEF WatchedOK, Watched
  <2>. HIDE DEF g
  <2>6. g.soft \cup {b} = f.todo /\ g.soft \subseteq Cmd \ {b}
    BY <2>1, <2>2, <2>3
  <2>. QED
    BY <1>0, <1>1, <2>1, <2>2, <2>3, <2>4, <2>5, <2>6, SoftWriteChain
<1>8. ASSUME NEW b \in Cmd, CascadeSoft(Drain, b) PROVE ChainInv'
  <2>. DEFINE g == [f EXCEPT !.soft = @ \ {b}]
  <2>1. f.pc = "soft" /\ b \in f.soft /\ SoftWrite(Drain, b, g, f.keep)
    BY <1>8 DEF CascadeSoft, At, First
  <2>2. g \in FrameType /\ g.soft = f.soft \ {b} /\ g.parent = f.parent
    BY <1>1 DEF FrameType
  <2>3. b \in Saved /\ f.soft \subseteq Cmd /\ f.keep \in [Cmd -> SUBSET Cmd]
    BY <1>1, <2>1 DEF FrameOK, FrameType
  <2>4. \A e \in f.soft : f.keep[e] = blockedBy[e] \ {drain.cur}
    BY <1>1, <2>1 DEF FrameFresh
  <2>5. ASSUME NEW c \in Cmd, status[c] = "blocked", NEW d \in blockedBy[c]
        PROVE  Live(d) \/ (d = drain.cur /\ c \in f.soft)
    BY <1>1, <2>1, <2>5 DEF WatchedOK, Watched
  <2>6. g.soft \cup {b} = f.soft /\ g.soft \subseteq Cmd \ {b}
    BY <2>1, <2>2, <2>3
  <2>. HIDE DEF f, g
  <2>. QED
    BY <1>0, <1>1, <2>1, <2>2, <2>3, <2>4, <2>5, <2>6, SoftWriteChain
<1>9. CASE CascadeReturn(Drain)
  <2>1. /\ f.pc = "soft" /\ f.soft = {} /\ call'[Drain] = <<>>
        /\ UNCHANGED <<record, enqueueing, settled, confirmed>>
    BY <1>0, <1>9, FramePopped DEF CascadeReturn, At
  <2>2. drain' = drain
    BY <1>1, <1>9 DEF CascadeReturn, Kick, KickUnlessPaused
  <2>3. EndedOK' /\ Soft'
    BY <2>1 DEF EndedOK, Soft, Saved, record, enqueueing
  <2>4. WalkOK'
    BY <1>1, <2>1, <2>2 DEF WalkOK
  <2>5. \A c, d : ~Watched(c, d)
    BY <1>1, <2>1 DEF Watched
  <2>6. WatchedOK'
    BY <2>1, <2>5 DEF WatchedOK, Live, record
  <2>. QED
    BY <2>3, <2>4, <2>6
<1>. QED
  BY <1>0, <1>2, <1>3, <1>4, <1>5, <1>6, <1>7, <1>8, <1>9 DEF CallStep

-----------------------------------------------------------------------------
(* The environment.                                                        *)

\* A status write of a command that is over, outside the pass.
LEMMA AfterwardsKeepsChain ==
  ASSUME Before, ChainInv, NEW x \in Cmd, NEW s \in {"pending", "applied"}, SetStatus({x}, s),
         status[x] = IF s = "pending" THEN "failed" ELSE "succeeded",
         UNCHANGED <<blockedBy, source, attempts, enq, drain, call, confirmed>>
  PROVE  ChainInv'
<1>. USE DEF ChainInv
<1>1. x \in Saved /\ x \in settled /\ attempts[x] > 0
  BY DEF EndedOK, Saved
<1>2. s = "pending" => x \notin confirmed
  BY DEF EndedOK
<1>3. /\ EndedOK'
      /\ \A e \in Cmd : status'[e] = "blocked" => status[e] = "blocked" /\ e # x
      /\ \A e \in Cmd \ {x} : Live(e) => Live(e)'
  BY <1>1, <1>2, StatusKeepsEnded
<1>4. ~Live(x)
  BY DEF Live, Terminal
<1>5. \A e \in Cmd : e # x => status'[e] = status[e]
  BY DEF SetStatus
<1>6. Soft'
  BY DEF Soft
<1>7. drain.pc = "sending" => drain.cur \in Cmd /\ drain.cur # x
  BY DEF WalkOK, Before, TypeInv, Sent
<1>8. call[Drain] # <<>> => FrameFresh(Top(Drain))'
  <2>1. SUFFICES ASSUME call[Drain] # <<>> PROVE FrameFresh(Top(Drain))'
    OBVIOUS
  <2>2. FrameFresh(Top(Drain)) /\ Top(Drain).parent \in Cmd /\ Top(Drain)' = Top(Drain)
    BY <2>1, TheFrame DEF Saved, Top
  <2>3. Top(Drain).pc = "events" => Top(Drain).parent # x
    BY <2>2 DEF FrameFresh
  <2>. QED
    BY <1>5, <2>2, <2>3 DEF FrameFresh
<1>9. WalkOK'
  BY <1>5, <1>7, <1>8 DEF WalkOK, Top
<1>10. \A e, d : Watched(e, d)' = Watched(e, d)
  BY DEF Watched, Top
<1>11. WatchedOK'
  BY <1>3, <1>4, <1>10 DEF WatchedOK, Before, TypeInv, TypeOK
<1>. QED
  BY <1>3, <1>6, <1>9, <1>11

LEMMA NoCallBegins ==
  ASSUME Before, Undisturbed', NEW t \in Caller, CallBegins(t)
  PROVE  FALSE
<1>1. PICK f \in FrameType : call[t] = <<>> /\ Push(t, f)
  BY NewFrameType DEF CallBegins, CancelCommand, MarkFailedFromConflict, FramePC
<1>2. call'[t] = Append(<<>>, f)
  BY <1>1 DEF Push, Before, TypeInv, TypeOK, Thread
<1>3. Append(<<>>, f) # <<>>
  BY PushTop
<1>. QED
  BY <1>2, <1>3 DEF Undisturbed

LEMMA EnvironmentKeepsChain ==
  ASSUME Before, ChainInv, Undisturbed',
         \/ \E t \in Caller : CallBegins(t)
         \/ \E x \in timers : TimerFires(x)
         \/ Environment
  PROVE  ChainInv'
<1>1. ASSUME NEW t \in Caller, CallBegins(t) PROVE FALSE
  BY <1>1, NoCallBegins
<1>2. ASSUME NEW x \in timers, TimerFires(x) PROVE ChainInv'
  BY <1>2, KickKeepsChain DEF TimerFires, enqueueing, Saved
<1>3. CASE Pause
  BY <1>3, KickKeepsChain DEF Pause, enqueueing, Saved
<1>4. CASE Resume
  BY <1>4, KickKeepsChain DEF Resume, enqueueing, Saved
<1>5. ASSUME NEW c \in Cmd, RetryCommand(c) PROVE ChainInv'
  BY <1>5, AfterwardsKeepsChain DEF RetryCommand, enqueueing
<1>6. ASSUME NEW c \in Cmd, SyncApplies(c) PROVE ChainInv'
  BY <1>6, AfterwardsKeepsChain DEF SyncApplies, enqueueing
<1>. QED
  BY <1>1, <1>2, <1>3, <1>4, <1>5, <1>6 DEF Environment

-----------------------------------------------------------------------------
(* Nobody is stranded.                                                     *)

LEMMA ChainStep ==
  ASSUME ChainsOnly, Undisturbed, Undisturbed', Before, Before', ChainInv, [Next]_vars
  PROVE  ChainInv'
<1>1. ASSUME DrainStep PROVE ChainInv'
  BY <1>1, DrainMovesChain, DrainWritesChain, DrainUnblockChain DEF DrainStep
<1>2. ASSUME NEW t \in Thread, CallStep(t) PROVE ChainInv'
  BY <1>2, CallKeepsChain DEF Before
<1>3. CASE UNCHANGED vars
  <2>1. UNCHANGED <<record, settled, confirmed, call, drain>> /\ Saved' = Saved
    BY <1>3 DEF vars, enqueueing, Saved
  <2>. QED
    BY <2>1, KickKeepsChain
<1>. QED
  BY <1>1, <1>2, <1>3, EnqueueKeepsChain, EnvironmentKeepsChain DEF Next

LEMMA ChainInductive == ChainsOnly /\ Spec /\ []Undisturbed => [](Before /\ ChainInv)
<1>. SUFFICES ASSUME ChainsOnly PROVE Spec /\ []Undisturbed => [](Before /\ ChainInv)
  OBVIOUS
<1>1. ASSUME Init PROVE ChainInv
  <2>1. EndedOK /\ Soft
    BY <1>1 DEF Init, EndedOK, Soft, Saved
  <2>2. WalkOK /\ WatchedOK
    BY <1>1 DEF Init, WalkOK, WatchedOK, IdleDrain, Thread
  <2>. QED
    BY <2>1, <2>2 DEF ChainInv
<1>2. Undisturbed /\ Undisturbed' /\ Before /\ Before' /\ ChainInv /\ [Next]_vars => ChainInv'
  BY ChainStep
<1>3. Spec => []Before
  BY OnceInductive, PTL DEF Before
<1>. QED
  BY <1>1, <1>2, <1>3, PTL DEF Spec

\* Where chains are the only dependencies and every command ends by a send of the
\* pass, a blocked command always has an outstanding one to wait for once the walk
\* under way has returned: however enqueues overlap with each other and with the
\* walk, none is saved behind a command the walk has passed (getBlockedBy,
\* unblockDependentCommands, cascadeFromTerminal).
THEOREM NoneIsStranded == ChainsOnly /\ Spec /\ []Undisturbed => []NoneStranded
<1>1. Before /\ ChainInv => NoneStranded
  <2>1. SUFFICES ASSUME Before, ChainInv, ~Walking, NEW c \in Cmd, status[c] = "blocked"
                 PROVE  \E d \in blockedBy[c] : Live(d)
    BY DEF NoneStranded
  <2>2. PICK d \in blockedBy[c] : TRUE
    BY <2>1 DEF ChainInv, EndedOK
  <2>3. ~Watched(c, d)
    BY <2>1 DEF Watched, Walking
  <2>. QED
    BY <2>1, <2>2, <2>3 DEF ChainInv, WatchedOK
<1>. QED
  BY <1>1, ChainInductive, PTL

-----------------------------------------------------------------------------
(* Submission order.                                                       *)
(*                                                                         *)
(* The latest command of a chain stands for those before it: whoever has   *)
(* not settled is the latest command or is among those it comes after.     *)

Behind(g, d) == g = d \/ d \in prior[g]
Returned == {c \in Cmd : enq[c] = "done"}

OrderInv ==
  /\ \A c \in Cmd : enq[c] # "rejected" /\ (enq[c] = "none" => prior[c] = {})
  /\ \A s \in Stream : latest[s] # NoCmd => enq[latest[s]] # "none"
  /\ \A c \in Underway \ settled : \A s \in touches[c] : latest[s] = c
  /\ \A s \in Stream : \A d \in Returned \ settled :
       s \in touches[d] => latest[s] \in Cmd \ settled /\ (latest[s] = d \/ d \in prior[latest[s]])
  /\ \A c \in Cmd : enq[c] = "prepared" => \A d \in prior[c] \ settled :
       \E g \in Returned \ settled : source[c][g] # "none" /\ Behind(g, d)
  /\ \A c \in Saved : \A d \in prior[c] \ settled : \E g \in gate[c] \ settled : Behind(g, d)

LEMMA SentInOrder ==
  ASSUME Before, OrderInv, NEW c \in Cmd, attempts[c] > 0
  PROVE  prior[c] \subseteq settled
<1>1. c \in Saved /\ gate[c] \subseteq settled
  BY SentOwesNothing DEF Before, GateInv, RecordsOK
<1>. QED
  BY <1>1 DEF OrderInv

\* A step that enqueues nothing settles sent commands only, and no chain loses a
\* command that has not settled.
Settling ==
  /\ UNCHANGED <<enq, prior, gate, source, touches>>
  /\ settled \subseteq settled' /\ \A x \in settled' \ settled : attempts[x] > 0
  /\ \A s \in Stream : latest'[s] = latest[s] \/ (latest'[s] = NoCmd /\ latest[s] \in settled)

LEMMA SettlingKeepsOrder ==
  ASSUME Before, Before', OrderInv, Settling
  PROVE  OrderInv'
<1>1. \A x \in settled' \ settled : prior[x] \subseteq settled
  BY SentInOrder DEF Settling, Before, TypeInv, TypeOK
<1>2. Returned' = Returned /\ Underway' = Underway /\ Saved' = Saved
  BY DEF Settling, Returned, Underway, Saved
<1>3. \A g, d : Behind(g, d)' = Behind(g, d)
  BY DEF Settling, Behind
\* What stands for a command that has not settled has not settled either.
<1>4. ASSUME NEW g, NEW d, g \notin settled, d \notin settled', Behind(g, d) PROVE g \notin settled'
  BY <1>1, <1>4 DEF Behind, Settling
<1>5. \A c \in Underway' \ settled' : \A s \in touches'[c] : latest'[s] = c
  <2>1. SUFFICES ASSUME NEW c \in Underway \ settled', NEW s \in touches[c] PROVE latest'[s] = c
    BY <1>2 DEF Settling
  <2>2. c \notin settled /\ c \in Cmd /\ s \in Stream
    BY <2>1 DEF Settling, Underway, Before, TypeInv, TypeOK
  <2>. QED
    BY <2>1, <2>2 DEF OrderInv, Settling
<1>6. ASSUME NEW s \in Stream, NEW d \in Returned' \ settled', s \in touches'[d]
      PROVE  latest'[s] \in Cmd \ settled' /\ (latest'[s] = d \/ d \in prior'[latest'[s]])
  <2>1. latest[s] \in Cmd \ settled /\ Behind(latest[s], d) /\ d \notin settled
    BY <1>2, <1>6 DEF OrderInv, Settling, Behind
  <2>2. PICK g \in Cmd : g = latest[s]
    BY <2>1
  <2>3. latest'[s] = g /\ g \notin settled'
    BY <1>4, <1>6, <2>1, <2>2 DEF Settling
  <2>4. Behind(g, d)'
    BY <1>3, <2>1, <2>2
  <2>. QED
    BY <2>2, <2>3, <2>4 DEF Behind
<1>7. ASSUME NEW c \in Cmd, enq'[c] = "prepared", NEW d \in prior'[c] \ settled'
      PROVE  \E g \in Returned' \ settled' : source'[c][g] # "none" /\ Behind(g, d)'
  BY <1>2, <1>3, <1>4, <1>7 DEF OrderInv, Settling
<1>8. ASSUME NEW c \in Saved', NEW d \in prior'[c] \ settled'
      PROVE  \E g \in gate'[c] \ settled' : Behind(g, d)'
  BY <1>2, <1>3, <1>4, <1>8 DEF OrderInv, Settling
<1>9. \A s \in Stream : latest'[s] # NoCmd => enq'[latest'[s]] # "none"
  BY DEF OrderInv, Settling
<1>10. \A c \in Cmd : enq'[c] # "rejected" /\ (enq'[c] = "none" => prior'[c] = {})
  BY DEF OrderInv, Settling
<1>. QED
  BY <1>5, <1>6, <1>7, <1>8, <1>9, <1>10 DEF OrderInv

LEMMA EnqueueKeepsOrder ==
  ASSUME ChainsOnly, Miswired = {}, OneByOne, OneByOne', Before, Before', ChainInv, OrderInv,
         NEW c \in Cmd, Enqueue(c) \/ EnqueueContinues(c)
  PROVE  OrderInv'
<1>1. ASSUME NEW r \in Request[c], EnqueuePrepare(c, r) PROVE OrderInv'
  <2>1. /\ UNCHANGED <<gate, settled>> /\ enq[c] = "none"
        /\ \A e \in Cmd : enq'[e] = IF e = c THEN "prepared" ELSE enq[e]
        /\ \A e \in Cmd : source'[e] = IF e = c THEN Edges(r) ELSE source[e]
        /\ \A e \in Cmd : touches'[e] = IF e = c THEN r.streams ELSE touches[e]
        /\ \A s \in Stream : latest'[s] = IF s \in r.streams THEN c ELSE latest[s]
        /\ \A e \in Cmd : prior'[e] = IF e = c
             THEN {d \in Cmd : enq[d] = "done" /\ touches[d] \cap r.streams # {}} ELSE prior[e]
    BY <1>1 DEF EnqueuePrepare, Before, TypeInv, TypeOK
  <2>2. r.streams \subseteq Stream
    BY RequestAssumption DEF RequestType
  <2>3. /\ c \notin Saved /\ Saved' = Saved /\ Returned' = Returned /\ c \notin Returned
        /\ c \in Underway' /\ Underway \subseteq Underway' /\ c \notin Underway
    BY <2>1 DEF Saved, Returned, Underway
  <2>4. Underway = {} /\ Underway' = {c}
    BY <2>3 DEF OneByOne
  <2>5. c \notin settled /\ prior[c] = {}
    BY <2>1, <2>3 DEF ChainInv, EndedOK, OrderInv
  <2>6. \A g, d \in Cmd : Behind(g, d) => Behind(g, d)'
    BY <2>1, <2>5 DEF Behind
  <2>7. ASSUME NEW s \in Stream, NEW d \in Returned \ settled, s \in touches[d]
        PROVE  latest[s] \in Cmd \ settled /\ Behind(latest[s], d) /\ latest[s] \in Returned
    <3>1. latest[s] \in Cmd \ settled /\ Behind(latest[s], d)
      BY <2>7 DEF OrderInv, Behind
    <3>2. enq[latest[s]] \notin {"none", "rejected", "prepared", "saved"}
      BY <2>4, <3>1, ThreadAssumption DEF OrderInv, Underway
    <3>. QED
      BY <3>1, <3>2 DEF Returned, Before, TypeInv, TypeOK
  <2>8. ASSUME NEW s \in Stream, NEW d \in Returned \ settled, s \in touches'[d]
        PROVE  latest'[s] \in Cmd \ settled' /\ (latest'[s] = d \/ d \in prior'[latest'[s]])
    <3>1. d \in Cmd /\ d # c /\ s \in touches[d] /\ enq[d] = "done"
      BY <2>1, <2>3, <2>8 DEF Returned
    <3>2. CASE s \in r.streams
      BY <2>1, <2>5, <3>1, <3>2 DEF Behind
    <3>3. CASE s \notin r.streams
      <4>1. PICK g \in Cmd \ settled : g = latest[s] /\ Behind(g, d)
        BY <2>7, <3>1
      <4>2. Behind(g, d)' /\ latest'[s] = g
        BY <2>1, <2>6, <3>1, <3>3, <4>1
      <4>. QED
        BY <2>1, <4>1, <4>2 DEF Behind
    <3>. QED
      BY <3>2, <3>3
  <2>9. ASSUME NEW d \in prior'[c] \ settled
        PROVE  \E g \in Returned \ settled : source'[c][g] # "none" /\ Behind(g, d)'
    <3>1. d \in Cmd /\ d \in Returned /\ touches[d] \cap r.streams # {}
      BY <2>1, <2>9 DEF Returned
    <3>2. PICK s \in r.streams : s \in touches[d]
      BY <3>1
    <3>3. PICK g \in Returned \ settled : g = latest[s] /\ Behind(g, d) /\ g \in Cmd
      BY <2>2, <2>7, <2>9, <3>1, <3>2
    <3>4. Edges(r)[g] = "aggregate-chain"
      BY <3>2, <3>3 DEF Edges, ChainsOnly
    <3>. QED
      BY <2>1, <2>6, <3>1, <3>3, <3>4
  <2>10. ASSUME NEW e \in Saved, NEW d \in prior'[e] \ settled
         PROVE  \E g \in gate[e] \ settled : Behind(g, d)'
    <3>1. e \in Cmd /\ e # c /\ d \in prior[e] /\ d \in Cmd
      BY <2>1, <2>3, <2>10 DEF Saved, Before, TypeInv, TypeOK
    <3>2. PICK g \in gate[e] \ settled : Behind(g, d)
      BY <2>10, <3>1 DEF OrderInv
    <3>. QED
      BY <2>6, <3>1, <3>2 DEF Before, TypeInv, TypeOK
  <2>11. ASSUME NEW s \in Stream, latest'[s] # NoCmd PROVE enq'[latest'[s]] # "none"
    <3>1. CASE s \in r.streams
      <4>1. latest'[s] = c /\ enq'[c] = "prepared"
        BY <2>1, <3>1
      <4>. QED
        BY <4>1
    <3>2. CASE s \notin r.streams
      <4>1. PICK g \in Cmd : g = latest[s]
        BY <2>1, <2>11, <3>2 DEF Before, TypeInv, TypeOK
      <4>2. latest'[s] = g /\ enq[g] # "none"
        BY <2>1, <2>11, <3>2, <4>1 DEF OrderInv
      <4>3. enq'[g] # "none"
        BY <2>1, <4>1, <4>2
      <4>. QED
        BY <4>2, <4>3
    <3>. QED
      BY <3>1, <3>2
  <2>12. ASSUME NEW e \in Cmd PROVE enq'[e] # "rejected" /\ (enq'[e] = "none" => prior'[e] = {})
    <3>1. CASE e = c
      <4>1. enq'[e] = "prepared"
        BY <2>1, <3>1
      <4>. QED
        BY <4>1
    <3>2. CASE e # c
      BY <2>1, <3>2 DEF OrderInv
    <3>. QED
      BY <3>1, <3>2
  <2>13. \A e \in Underway' \ settled' : \A s \in touches'[e] : latest'[s] = e
    BY <2>1, <2>2, <2>4
  <2>14. \A e \in Cmd : enq'[e] = "prepared" => e = c
    BY <2>4 DEF Underway
  <2>. QED
    BY <2>1, <2>3, <2>8, <2>9, <2>10, <2>11, <2>12, <2>13, <2>14 DEF OrderInv
<1>2. ~EnqueueThrows(c)
  BY DEF EnqueueThrows
<1>3. CASE EnqueueSave(c)
  <2>. DEFINE open == {d \in Cmd : source[c][d] # "none" /\ Live(d)}
  <2>1. /\ UNCHANGED <<source, touches, latest, prior, settled>> /\ enq[c] = "prepared"
        /\ \A e \in Cmd : enq'[e] = IF e = c THEN "saved" ELSE enq[e]
        /\ \A e \in Cmd : gate'[e] = IF e = c THEN open ELSE gate[e]
    BY <1>3 DEF EnqueueSave, Before, TypeInv, TypeOK
  <2>2. Saved' = Saved \cup {c} /\ Returned' = Returned /\ Underway' = Underway
    BY <2>1 DEF Saved, Returned, Underway
  <2>3. \A g, d : Behind(g, d)' = Behind(g, d)
    BY <2>1 DEF Behind
  <2>4. \A g \in Returned \ settled : Live(g) /\ g \in Cmd
    BY DEF ChainInv, EndedOK, Returned, Saved, Live, Terminal
  <2>5. ASSUME NEW e \in Saved', NEW d \in prior'[e] \ settled'
        PROVE  \E g \in gate'[e] \ settled' : Behind(g, d)'
    <3>1. CASE e = c
      <4>1. PICK g \in Returned \ settled : source[c][g] # "none" /\ Behind(g, d)
        BY <2>1, <2>5, <3>1 DEF OrderInv
      <4>. QED
        BY <2>1, <2>3, <2>4, <3>1, <4>1
    <3>2. CASE e # c
      <4>1. e \in Saved /\ e \in Cmd
        BY <2>2, <3>2 DEF Saved
      <4>. QED
        BY <2>1, <2>3, <2>5, <3>2, <4>1 DEF OrderInv
    <3>. QED
      BY <3>1, <3>2
  <2>6. \A s \in Stream : latest'[s] # NoCmd => enq'[latest'[s]] # "none"
    BY <2>1 DEF OrderInv, Before, TypeInv, TypeOK
  <2>7. \A e \in Cmd : enq'[e] # "rejected" /\ (enq'[e] = "none" => prior'[e] = {})
    BY <2>1 DEF OrderInv
  <2>8. \A e \in Cmd : enq'[e] = "prepared" => enq[e] = "prepared"
    BY <2>1
  <2>9. \A e \in Underway' \ settled' : \A s \in touches'[e] : latest'[s] = e
    BY <2>1, <2>2 DEF OrderInv
  <2>10. ASSUME NEW s \in Stream, NEW d \in Returned' \ settled', s \in touches'[d]
         PROVE  latest'[s] \in Cmd \ settled' /\ (latest'[s] = d \/ d \in prior'[latest'[s]])
    BY <2>1, <2>2, <2>10 DEF OrderInv, Behind
  <2>11. ASSUME NEW e \in Cmd, enq'[e] = "prepared", NEW d \in prior'[e] \ settled'
         PROVE  \E g \in Returned' \ settled' : source'[e][g] # "none" /\ Behind(g, d)'
    BY <2>1, <2>2, <2>3, <2>8, <2>11 DEF OrderInv
  <2>. QED
    BY <2>5, <2>6, <2>7, <2>9, <2>10, <2>11 DEF OrderInv
<1>4. CASE EnqueueDone(c)
  <2>1. /\ UNCHANGED <<source, touches, latest, prior, gate, settled>> /\ enq[c] = "saved"
        /\ \A e \in Cmd : enq'[e] = IF e = c THEN "done" ELSE enq[e]
    BY <1>4 DEF EnqueueDone, Before, TypeInv, TypeOK, record
  <2>2. Saved' = Saved /\ Returned' = Returned \cup {c} /\ Underway' = Underway \ {c} /\ c \in Underway
    BY <2>1 DEF Saved, Returned, Underway
  <2>3. \A g, d : Behind(g, d)' = Behind(g, d)
    BY <2>1 DEF Behind
  <2>4. ASSUME NEW s \in Stream, NEW d \in Returned' \ settled', s \in touches'[d]
        PROVE  latest'[s] \in Cmd \ settled' /\ (latest'[s] = d \/ d \in prior'[latest'[s]])
    <3>1. CASE d = c
      BY <2>1, <2>2, <2>4, <3>1 DEF OrderInv, Behind
    <3>2. CASE d # c
      BY <2>1, <2>2, <2>4, <3>2 DEF OrderInv, Behind
    <3>. QED
      BY <3>1, <3>2
  <2>5. \A s \in Stream : latest'[s] # NoCmd => enq'[latest'[s]] # "none"
    BY <2>1 DEF OrderInv, Before, TypeInv, TypeOK
  <2>6. \A e \in Cmd : enq'[e] # "rejected" /\ (enq'[e] = "none" => prior'[e] = {})
    BY <2>1 DEF OrderInv
  <2>7. \A e \in Underway' \ settled' : \A s \in touches'[e] : latest'[s] = e
    BY <2>1, <2>2 DEF OrderInv
  <2>8. ASSUME NEW e \in Cmd, enq'[e] = "prepared", NEW d \in prior'[e] \ settled'
        PROVE  \E g \in Returned' \ settled' : source'[e][g] # "none" /\ Behind(g, d)'
    <3>1. enq[e] = "prepared"
      BY <2>1, <2>8
    <3>. QED
      BY <2>1, <2>2, <2>3, <2>8, <3>1 DEF OrderInv
  <2>9. ASSUME NEW e \in Saved', NEW d \in prior'[e] \ settled'
        PROVE  \E g \in gate'[e] \ settled' : Behind(g, d)'
    BY <2>1, <2>2, <2>3, <2>9 DEF OrderInv
  <2>. QED
    BY <2>4, <2>5, <2>6, <2>7, <2>8, <2>9 DEF OrderInv
<1>. QED
  BY <1>1, <1>2, <1>3, <1>4 DEF Enqueue, EnqueueContinues

-----------------------------------------------------------------------------
(* Every other step settles a sent command or none.                        *)

LEMMA QuietSettles ==
  ASSUME UNCHANGED <<enq, prior, gate, source, touches, latest, settled>>
  PROVE  Settling
BY DEF Settling

LEMMA StatusSettles ==
  ASSUME NEW x \in Cmd, NEW s, SetStatus({x}, s), s \in Terminal => attempts[x] > 0,
         UNCHANGED <<enq, prior, gate, source, touches, latest>>
  PROVE  Settling
<1>1. CASE s \in Terminal
  BY <1>1 DEF SetStatus, Settling
<1>2. CASE s \notin Terminal
  BY <1>2 DEF SetStatus, Settling
<1>. QED
  BY <1>1, <1>2

LEMMA DrainSettles ==
  ASSUME Before, ChainInv, DrainStep
  PROVE  Settling
<1>. USE DEF enqueueing, record
<1>1. CASE DrainSnapshot \/ DrainFailed \/ DrainCollect \/ DrainEndPass \/ DrainCheck \/ DrainFinish
  BY <1>1, QuietSettles DEF DrainSnapshot, DrainFailed, DrainCollect, DrainEndPass, DrainCheck, DrainFinish
<1>2. ASSUME NEW c \in Cmd, \/ DrainSkip(c) \/ DrainTake(c) \/ DrainDrop(c) \/ DrainThrows(c)
                            \/ ServerRejects(c) \/ DrainResolve(c) \/ DrainUnblock(c)
                            \/ DrainCompletes(c, FALSE)
      PROVE  Settling
  BY <1>2, QuietSettles DEF DrainSkip, DrainTake, DrainDrop, DrainThrows, ServerRejects, DrainResolve,
     DrainUnblock, DrainCompletes
<1>3. ASSUME NEW c \in Cmd, DrainSend(c) PROVE Settling
  BY <1>3, StatusSettles DEF DrainSend, Terminal
<1>4. ASSUME NEW c \in Cmd, ServerAccepts(c) PROVE Settling
  BY <1>4, StatusSettles DEF ServerAccepts, Before, TypeInv, Sent
<1>5. ASSUME NEW c \in Cmd, ServerDefers(c) PROVE Settling
  BY <1>5, StatusSettles DEF ServerDefers, Terminal
<1>6. ASSUME NEW c \in Cmd, DrainCompletes(c, TRUE) PROVE Settling
  <2>1. c \in confirmed /\ attempts[c] > 0
    BY <1>6 DEF DrainCompletes, Before, GateInv, DrainOK, OnceInv, CountsOK
  <2>. QED
    BY <1>6, <2>1, StatusSettles DEF DrainCompletes
<1>. QED
  BY <1>1, <1>2, <1>3, <1>4, <1>5, <1>6 DEF DrainStep

LEMMA CallSettles ==
  ASSUME ChainsOnly, Undisturbed, Before, ChainInv, NEW t \in Thread, CallStep(t)
  PROVE  Settling
<1>. USE DEF enqueueing, record
<1>. DEFINE f == Top(Drain)
<1>0. t = Drain /\ call[Drain] # <<>>
  BY NobodyElse DEF CallStep, Terminate, Detach, CascadeScan, CascadeUncouple, CascadeRecursed,
     CascadeReturn, CascadeCancel, CascadeRecurse, CascadeAllSoft, CascadeSoft, At
<1>1. f \in FrameType /\ FrameOK(f) /\ FrameFresh(f) /\ f.parent \in Cmd
  BY <1>0, TheFrame DEF Saved
<1>2. CASE Terminate(Drain)
  BY <1>1, <1>2, StatusSettles DEF Terminate, FrameFresh
<1>3. CASE Detach(Drain)
  <2>1. f.parent \in settled
    BY <1>1, <1>3 DEF Detach, At, FrameOK
  <2>. QED
    BY <1>3, <2>1 DEF Detach, DetachChains, Settling
<1>4. ASSUME NEW hard \in SUBSET Cmd, CascadeCancel(Drain, hard) PROVE FALSE
  <2>1. f.pc = "classify" /\ \A b \in f.todo : source[b][f.parent] = "aggregate-chain"
    BY <1>1, <1>4 DEF CascadeCancel, At, FrameFresh
  <2>2. HardSets(Drain) = {{}}
    BY <2>1 DEF HardSets, ChainsOnly
  <2>. QED
    BY <1>4, <2>2 DEF CascadeCancel
<1>5. ASSUME CascadeUncouple(Drain) \/ CascadeRecursed(Drain) \/ \E b \in Cmd : CascadeRecurse(Drain, b)
      PROVE  FALSE
  BY <1>1, <1>5 DEF CascadeUncouple, CascadeRecursed, CascadeRecurse, At, FrameFresh
<1>6. CASE CascadeScan(Drain) \/ CascadeReturn(Drain)
  BY <1>6, QuietSettles DEF CascadeScan, CascadeReturn
<1>7. ASSUME NEW b \in Cmd, CascadeAllSoft(Drain, b) \/ CascadeSoft(Drain, b) PROVE Settling
  BY <1>7, QuietSettles DEF CascadeAllSoft, CascadeSoft, SoftWrite
<1>. QED
  BY <1>0, <1>2, <1>3, <1>4, <1>5, <1>6, <1>7 DEF CallStep

LEMMA EnvironmentSettles ==
  ASSUME ChainInv,
         (\E x \in timers : TimerFires(x)) \/ Environment \/ UNCHANGED vars
  PROVE  Settling
<1>. USE DEF enqueueing, record
<1>1. CASE (\E x \in timers : TimerFires(x)) \/ Pause \/ Resume \/ UNCHANGED vars
  BY <1>1, QuietSettles DEF TimerFires, Pause, Resume, vars
<1>2. ASSUME NEW c \in Cmd, RetryCommand(c) PROVE Settling
  BY <1>2, StatusSettles DEF RetryCommand, Terminal
<1>3. ASSUME NEW c \in Cmd, SyncApplies(c) PROVE Settling
  <2>1. c \in Saved /\ c \in settled
    BY <1>3 DEF SyncApplies, ChainInv, EndedOK
  <2>2. attempts[c] > 0
    BY <2>1 DEF ChainInv, EndedOK
  <2>. QED
    BY <1>3, <2>2, StatusSettles DEF SyncApplies
<1>. QED
  BY <1>1, <1>2, <1>3 DEF Environment

LEMMA OrderStep ==
  ASSUME ChainsOnly, Miswired = {}, Undisturbed, Undisturbed', OneByOne, OneByOne',
         Before, Before', ChainInv, OrderInv, [Next]_vars
  PROVE  OrderInv'
<1>1. ASSUME NEW t \in Caller, CallBegins(t) PROVE FALSE
  BY <1>1, NoCallBegins
<1>. QED
  BY <1>1, EnqueueKeepsOrder, SettlingKeepsOrder, DrainSettles, CallSettles, EnvironmentSettles DEF Next

LEMMA OrderInductive ==
  ChainsOnly /\ Miswired = {} /\ Spec /\ []Undisturbed /\ []OneByOne => [](Before /\ OrderInv)
<1>. SUFFICES ASSUME ChainsOnly, Miswired = {}
              PROVE  Spec /\ []Undisturbed /\ []OneByOne => [](Before /\ OrderInv)
  OBVIOUS
<1>1. Init => OrderInv
  BY ThreadAssumption DEF Init, OrderInv, Underway, Returned, Saved
<1>2. ASSUME Undisturbed, Undisturbed', OneByOne, OneByOne', Before, Before', ChainInv, OrderInv,
             [Next]_vars
      PROVE  OrderInv'
  BY <1>2, OrderStep
<1>3. Spec /\ []Undisturbed => [](Before /\ ChainInv)
  BY ChainInductive
<1>. QED
  BY <1>1, <1>2, <1>3, PTL DEF Spec

\* Where chains are the only dependencies, every command ends by a send of the pass
\* and each enqueue is awaited before the next, a command is sent only when every
\* command of its aggregates enqueued before it has settled: the latest command of a
\* chain stands for all those before it, across failures, retries, pauses and the
\* walks under way (AggregateChainRegistry.latestCommandId, detectAggregateDependencies).
THEOREM StreamOrderHolds ==
  ChainsOnly /\ Miswired = {} /\ Spec /\ []Undisturbed /\ []OneByOne => []StreamOrder
<1>1. Before /\ OrderInv => StreamOrder
  BY SentInOrder DEF StreamOrder
<1>. QED
  BY <1>1, OrderInductive, PTL

=============================================================================
