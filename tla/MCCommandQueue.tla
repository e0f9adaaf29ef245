--------------------------- MODULE MCCommandQueue ---------------------------
(***************************************************************************)
(* Bounded instances of CommandQueue.  The bounds that keep them small:    *)
(*   - MaxDisturbances: how often users, the network and the sync pipeline *)
(*     intervene, and Kinds: in which ways;                                *)
(*   - MaxAlone: how often they do in the behaviours, if any, that have    *)
(*     only the first command but a second concurrent caller, t2;          *)
(*   - Offline: the queue is resumed only once everything is enqueued;     *)
(*   - Serial: a caller awaits each enqueue before the next;               *)
(*   - enqueues begin in the order c1, c2, c3, which only names the        *)
(*     commands.                                                           *)
(***************************************************************************)
EXTENDS CommandQueue

CONSTANTS c1, c2, c3, s1, s2, t2, Kinds, MaxDisturbances, MaxAlone, Offline, Serial

VARIABLES disturbances, alone

R(streams, explicit, refs) == [streams |-> streams, explicit |-> explicit, refs |-> refs]

Before(c) == IF c = c1 THEN {} ELSE IF c = c2 THEN {c1} ELSE {c1, c2}

\* Commands of one aggregate; a later one may depend explicitly
\* (c2) or by an entity reference (c3) on the first.
OneStreamRequest ==
  [c \in Cmd |-> {R({s1}, {}, {})} \cup (IF c = c1 THEN {} ELSE
                  IF c = c2 THEN {R({s1}, {c1}, {})} ELSE {R({s1}, {}, {c1})})]

\* Two aggregates; a command touches either or both, with no declared dependency.
TwoStreamRequest == [c \in Cmd |-> {R(S, {}, {}) : S \in {{s1}, {s2}, {s1, s2}}}]

\* The shortest chain: every command on the one aggregate.
ChainRequest == [c \in Cmd |-> {R({s1}, {}, {})}]

Calling == IF alone THEN Caller ELSE Caller \ {t2}

Disturbance ==
  \/ "pause" \in Kinds /\ Pause
  \/ "kick" \in Kinds /\ ~paused /\ Resume
  \/ "cancel" \in Kinds /\ \E t \in Calling, c \in Cmd : CancelCommand(t, c)
  \/ "conflict" \in Kinds /\ \E t \in Calling, c \in Cmd : MarkFailedFromConflict(t, c)
  \/ "retry" \in Kinds /\ \E c \in Cmd : RetryCommand(c)
  \/ "applied" \in Kinds /\ \E c \in Cmd : SyncApplies(c)

Enqueued(c) == enq[c] \in {"done", "rejected"}
Started(c) == IF Serial THEN Enqueued(c) ELSE enq[c] # "none"

Course ==
  \/ \E c \in Cmd : (alone => c = c1) /\ Enqueue(c) /\ \A d \in Before(c) : Started(d)
  \/ \E c \in Cmd : EnqueueContinues(c)
  \/ DrainStep
  \/ \E t \in Thread : CallStep(t)
  \/ \E x \in timers : TimerFires(x)
  \/ Resume /\ paused /\ (Offline => \A c \in Cmd : Enqueued(c))

Bound == IF alone THEN MaxAlone ELSE MaxDisturbances

MCInit == Init /\ disturbances = 0 /\ alone \in (IF MaxAlone = 0 THEN {FALSE} ELSE BOOLEAN)

MCNext ==
  /\ UNCHANGED alone
  /\ \/ Course /\ UNCHANGED disturbances
     \/ disturbances < Bound /\ Disturbance /\ disturbances' = disturbances + 1

mcvars == <<vars, disturbances, alone>>
MCSpec == MCInit /\ [][MCNext]_mcvars
MCFairSpec == MCSpec /\ Fairness
=============================================================================
