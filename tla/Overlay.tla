------------------------------- MODULE Overlay -------------------------------
(***************************************************************************)
(* One row of the read model under optimistic updates: the anticipated     *)
(* event of each command is laid over it (AnticipatedEventHandler.ts),     *)
(* server events are merged under the overlay and the commands still       *)
(* outstanding run again (SyncManager.ts, reconcilePendingCommands.ts,     *)
(* ReadModelStore.ts), and the overlay of a failed command is cleared,     *)
(* outside the write queue (CommandQueue.ts).                              *)
(*                                                                         *)
(* The row belongs to an existing entity of one stream.  A command, and    *)
(* another user, merges one value, its own name, into one field of it.     *)
(* Events are in order: GapRepair is about those that are not.             *)
(***************************************************************************)
EXTENDS Naturals, Sequences

CONSTANTS
  Cmd,       \* commands on the entity
  Other,     \* changes other users make to it
  Field,     \* fields of the row
  Writes,    \* Writes[a]: the field command or change a sets
  Nobody,    \* the author of a seeded value
  Fallible,  \* commands that may be cancelled, rejected or found in conflict
  Eager      \* whether a pass may send a command that is not laid over yet

Author == Cmd \cup Other

ASSUME AuthorAssumption == Writes \in [Author -> Field] /\ Nobody \notin Author
ASSUME FallibleAssumption == Fallible \subseteq Cmd /\ Eager \in BOOLEAN

VARIABLES
  log,       \* the server's stream of the entity: the author of each event
  received,  \* how many of its events have been captured
  known,     \* knownRevisions of the stream
  row,       \* the stored read model
  issued,    \* commands in the order of their seq
  status,
  tracked,   \* anticipatedUpdates: commands with an entry
  checking,  \* succeeded commands whose checkAppliedAtSuccess is under way
  clearing,  \* cleanupOnFailure under way, each with the row it has read
  conflicted, \* history: commands a drain has found in conflict
  ops,       \* operations pending in the write queue
  running    \* the one in progress, with what it has read

server == <<log, received>>
commands == <<issued, status, tracked, checking, clearing, conflicted>>
vars == <<server, known, row, commands, ops, running>>

Content == [Field -> Author \cup {Nobody}]
Row == [server : Content, local : Content, dirty : BOOLEAN, revision : Nat]

\* serverData, effectiveData, hasLocalChanges, revision.
Seeded == [f \in Field |-> Nobody]
SeededRow == [server |-> Seeded, local |-> Seeded, dirty |-> FALSE, revision |-> 0]

Idle == [kind |-> "none"]
Init ==
  /\ log = <<>> /\ received = 0 /\ known = 0
  /\ row = SeededRow
  /\ issued = <<>> /\ status = [c \in Cmd |-> "none"]
  /\ tracked = {} /\ checking = {} /\ clearing = [c \in Cmd |-> Idle]
  /\ conflicted = {}
  /\ ops = <<>> /\ running = Idle

Ended == {"succeeded", "applied", "failed"}
Outstanding == {"pending", "sending"}
With(s) == {c \in Cmd : status[c] \in s}

\* The event of an author, by its revision.
Revision(c) == CHOOSE n \in DOMAIN log : log[n] = c
Accepted(c) == \E n \in DOMAIN log : log[n] = c

-----------------------------------------------------------------------------
(* Records of the read model store                                         *)

Put(content, a) == [content EXCEPT ![Writes[a]] = a]

\* computeApplyLocalRecord, and computeSetLocalRecord.
ApplyLocal(r, c) == [r EXCEPT !.local = Put(@, c), !.dirty = TRUE]
SetLocal(r, content) == [r EXCEPT !.local = content, !.dirty = TRUE]

\* Mutant: the new baseline replaces the overlay.
MergeServerOver(r, n) ==
  LET new == Put(r.server, log[n])
  IN [server |-> new, local |-> new, dirty |-> FALSE, revision |-> n]

\* computeMergeServerRecord for event n: what is different from the old
\* baseline stays on top of the new one.
MergeServer(r, n) ==
  LET new == Put(r.server, log[n])
      changed == IF r.dirty THEN {f \in Field : r.local[f] # r.server[f]} ELSE {}
  IN [server |-> new,
      local |-> [f \in Field |-> IF f \in changed THEN r.local[f] ELSE new[f]],
      dirty |-> changed # {},
      revision |-> n]

\* The events up to n, one after another, on a row that has those up to m.
MergeAll(r, m, n) ==
  LET merged[k \in m..n] == IF k = m THEN r ELSE MergeServer(merged[k - 1], k)
  IN merged[n]

-----------------------------------------------------------------------------
(* Commands                                                                *)

\* enqueue: the record is saved, then the anticipated event goes to the queue.
Enqueue(c) ==
  /\ status[c] = "none"
  /\ status' = [status EXCEPT ![c] = "pending"]
  /\ issued' = Append(issued, c)
  /\ ops' = Append(ops, [kind |-> "anticipate", cmd |-> c])
  /\ UNCHANGED <<server, known, row, tracked, checking, clearing, conflicted, running>>

Anticipating(c) ==
  \/ \E i \in DOMAIN ops : ops[i] = [kind |-> "anticipate", cmd |-> c]
  \/ running.kind \in {"anticipate", "track"} /\ running.cmd = c

\* A command is sent once those before it on the aggregate have ended: by the
\* pass its enqueue starts at the end, or by one already under way.
Send(c) ==
  /\ status[c] = "pending"
  /\ Eager \/ ~Anticipating(c)
  /\ \A i, j \in DOMAIN issued : i < j /\ issued[j] = c => status[issued[i]] \in Ended
  /\ status' = [status EXCEPT ![c] = "sending"]
  /\ UNCHANGED <<server, known, row, issued, tracked, checking, clearing, conflicted, ops, running>>

\* The server takes the command, or another user's change.
Publish(a) ==
  /\ ~Accepted(a)
  /\ a \in Cmd => status[a] = "sending"
  /\ log' = Append(log, a)
  /\ UNCHANGED <<received, known, row, commands, ops, running>>

\* processCommand: the answer, and at its end checkAppliedAtSuccess.
Succeed(c) ==
  /\ status[c] = "sending" /\ Accepted(c)
  /\ status' = [status EXCEPT ![c] = "succeeded"]
  /\ checking' = checking \cup {c}
  /\ UNCHANGED <<server, known, row, issued, tracked, clearing, conflicted, ops, running>>

Apply(cs) == [c \in Cmd |-> IF c \in cs THEN "applied" ELSE status[c]]

CheckApplied(c) ==
  /\ c \in checking
  /\ checking' = checking \ {c}
  /\ IF row.revision >= Revision(c) THEN status' = Apply({c}) /\ tracked' = tracked \ {c}
     ELSE UNCHANGED <<status, tracked>>
  /\ UNCHANGED <<server, known, row, issued, clearing, conflicted, ops, running>>

\* cancelCommand, markFailedFromConflict, or the server's refusal.
Fail(c) ==
  /\ c \in Fallible /\ ~Accepted(c)
  /\ status[c] \in Outstanding
  /\ status' = [status EXCEPT ![c] = "failed"]
  /\ clearing' = [clearing EXCEPT ![c] = [kind |-> "begun"]]
  /\ UNCHANGED <<server, known, row, issued, tracked, checking, conflicted, ops, running>>

\* cleanupOnFailure, for a command with an entry: the row is read ...
ClearReads(c) ==
  /\ clearing[c].kind = "begun"
  /\ clearing' = [clearing EXCEPT ![c] =
       IF c \in tracked THEN [kind |-> "read", row |-> row] ELSE Idle]
  /\ tracked' = tracked \ {c}
  /\ UNCHANGED <<server, known, row, issued, status, checking, conflicted, ops, running>>

\* ... and clearLocalChanges writes it back without any overlay, over what a
\* commit may have written since.
ClearWrites(c) ==
  /\ clearing[c].kind = "read"
  /\ row' = LET r == clearing[c].row
            IN IF r.dirty THEN [r EXCEPT !.local = r.server, !.dirty = FALSE] ELSE row
  /\ clearing' = [clearing EXCEPT ![c] =
       [kind |-> IF row.revision = @.row.revision THEN "done" ELSE "overtaken"]]
  /\ UNCHANGED <<server, known, issued, status, tracked, checking, conflicted, ops, running>>

-----------------------------------------------------------------------------
(* The apply-anticipated operation                                         *)

Takes(kind) == running = Idle /\ ops # <<>> /\ Head(ops).kind = kind

AnticipateReads ==
  /\ Takes("anticipate")
  /\ running' = [kind |-> "anticipate", cmd |-> Head(ops).cmd, row |-> row]
  /\ ops' = Tail(ops)
  /\ UNCHANGED <<server, known, row, commands>>

\* applyLocalChanges: unchanged data is neither written nor tracked.
AnticipateWrites ==
  /\ running.kind = "anticipate"
  /\ LET r == ApplyLocal(running.row, running.cmd)
     IN IF r = running.row THEN running' = Idle /\ UNCHANGED row
        ELSE row' = r /\ running' = [kind |-> "track", cmd |-> running.cmd]
  /\ UNCHANGED <<server, known, commands, ops>>

\* After the cache key has been added to the row.
AnticipateEnds ==
  /\ running.kind = "track"
  /\ tracked' = tracked \cup {running.cmd}
  /\ running' = Idle
  /\ UNCHANGED <<server, known, row, issued, status, checking, clearing, conflicted, ops>>

-----------------------------------------------------------------------------
(* The reconcile-ws-events operation                                       *)

Drains == \E i \in DOMAIN ops : ops[i].kind = "drain"

\* An event is captured, from the socket or a response.
Capture ==
  /\ received < Len(log)
  /\ received' = received + 1
  /\ ops' = IF Drains THEN ops ELSE Append(ops, [kind |-> "drain"])
  /\ UNCHANGED <<log, known, row, commands, running>>

\* reconcilePendingCommands: the commands run again fold into what was shown,
\* in the order they were issued.
Rerun(content, again) ==
  LET shown[i \in 0..Len(issued)] ==
        IF i = 0 THEN content
        ELSE IF issued[i] \in again THEN Put(shown[i - 1], issued[i]) ELSE shown[i - 1]
  IN shown[Len(issued)]

\* The batch passes the gap check, the row and the commands are loaded, the
\* succeeded commands it covers are found, and the outstanding ones run again
\* on the changed row; some may meet a conflict.
DrainLoads(conflicts) ==
  /\ Takes("drain")
  /\ conflicts \subseteq With(Outstanding) \cap Fallible
  /\ known' = received
  /\ LET again == With(Outstanding) \ conflicts
     IN /\ running' = [kind |-> "drain", upto |-> received, after |-> known,
                       shown |-> IF again = {} THEN <<>> ELSE <<Rerun(row.local, again)>>,
                       conflicts |-> conflicts,
                       covered |-> {c \in With({"succeeded"}) : Revision(c) <= received}]
        /\ tracked' = tracked \cup again
  /\ conflicted' = conflicted \cup conflicts
  /\ ops' = Tail(ops)
  /\ UNCHANGED <<server, row, issued, status, checking, clearing>>

\* commit reads the row again ...
DrainReads ==
  /\ running.kind = "drain"
  /\ running' = [kind |-> "commit", row |-> row, drain |-> running]
  /\ UNCHANGED <<server, known, row, commands, ops>>

\* Mutant: server events are merged into what is shown.
FoldIntoShown(r, d) ==
  LET merged == MergeAll([r EXCEPT !.server = r.local], d.after, d.upto)
  IN IF d.shown = <<>> THEN merged ELSE SetLocal(merged, d.shown[1])

\* Mutant: the revision is the one expected next.
FoldBeyond(r, d) ==
  LET merged == [MergeAll(r, d.after, d.upto) EXCEPT !.revision = @ + 1]
  IN IF d.shown = <<>> THEN merged ELSE SetLocal(merged, d.shown[1])

\* The server's changes, then what the commands run again have shown.
Fold(r, d) ==
  LET merged == MergeAll(r, d.after, d.upto)
  IN IF d.shown = <<>> THEN merged ELSE SetLocal(merged, d.shown[1])

\* ... and writes it.
DrainWrites ==
  /\ running.kind = "commit"
  /\ row' = Fold(running.row, running.drain)
  /\ running' = [kind |-> "confirm", drain |-> running.drain]
  /\ UNCHANGED <<server, known, commands, ops>>

\* Then the covered commands are applied, and those in conflict fail.
DrainConfirms ==
  /\ running.kind = "confirm"
  /\ LET d == running.drain
         failed == {c \in d.conflicts : status[c] \in Outstanding}
     IN /\ status' = [c \in Cmd |-> IF c \in failed THEN "failed" ELSE Apply(d.covered)[c]]
        /\ tracked' = tracked \ d.covered
        /\ clearing' = [c \in Cmd |-> IF c \in failed THEN [kind |-> "begun"] ELSE clearing[c]]
        /\ running' = [kind |-> "ending", failed |-> failed]
  /\ UNCHANGED <<server, known, row, issued, checking, conflicted, ops>>

\* The operation waits for the cleanup of the commands in conflict.
DrainEnds ==
  /\ running.kind = "ending"
  /\ \A c \in running.failed : clearing[c].kind \notin {"begun", "read"}
  /\ running' = Idle
  /\ UNCHANGED <<server, known, row, commands, ops>>

Next ==
  \/ \E c \in Cmd : Enqueue(c) \/ Send(c) \/ Succeed(c) \/ CheckApplied(c)
                    \/ Fail(c) \/ ClearReads(c) \/ ClearWrites(c)
  \/ \E a \in Author : Publish(a)
  \/ AnticipateReads \/ AnticipateWrites \/ AnticipateEnds
  \/ Capture
  \/ \E conflicts \in SUBSET Fallible : DrainLoads(conflicts)
  \/ DrainReads \/ DrainWrites \/ DrainConfirms \/ DrainEnds

Spec == Init /\ [][Next]_vars

-----------------------------------------------------------------------------
(* Properties                                                              *)

\* The shape of the state; the row is never ahead of the server.
TypeOK ==
  /\ log \in Seq(Author) /\ received \in 0..Len(log) /\ known \in 0..received
  /\ row \in Row /\ row.revision <= Len(log)
  /\ issued \in Seq(Cmd) /\ status \in [Cmd -> {"none"} \cup Outstanding \cup Ended]
  /\ tracked \subseteq Cmd /\ conflicted \subseteq Cmd /\ checking \subseteq With({"succeeded", "applied"})
  /\ \A c \in Cmd : clearing[c].kind \in {"none", "begun", "read", "done", "overtaken"}
  /\ \A i \in DOMAIN ops : ops[i].kind \in {"anticipate", "drain"}
  /\ running.kind \in {"none", "anticipate", "track", "drain", "commit", "confirm", "ending"}

\* The content of the entity on the server after its first n events.
Truth(n) ==
  [f \in Field |->
     LET writers == {k \in 1..n : Writes[log[k]] = f}
     IN IF writers = {} THEN Nobody
        ELSE log[CHOOSE k \in writers : \A j \in writers : j <= k]]

\* A cleanup after a failure has written the row.
Cleared == \E c \in Cmd : clearing[c].kind \in {"done", "overtaken"}

\* Whoever comes after c on its field: a command issued later, or an event
\* that follows the one of c.
Successors(c) ==
  {d \in Author : /\ Writes[d] = Writes[c]
                  /\ \/ \E i, j \in DOMAIN issued : i < j /\ issued[i] = c /\ issued[j] = d
                     \/ Accepted(c) /\ Accepted(d) /\ Revision(c) < Revision(d)}

\* Once a command has been laid over the row its effect stays in view, through its own
\* event and everybody else's, until the command is applied - unless a
\* successor has overwritten it, a drain has found it in conflict, or the cleanup
\* after a failed command has cleared the row (which takes every overlay with it).
NoFlicker ==
  ~Cleared => \A c \in With({"pending", "sending", "succeeded"}) \ conflicted :
    ~Anticipating(c) => row.local[Writes[c]] \in {c} \cup Successors(c)

\* The baseline is the server's, at the revision the row states, and an
\* applied command is part of it: nothing optimistic leaks into it, and no
\* overlay is declared confirmed before it is.  (A cleanup that has read the
\* row before a commit and writes it after takes the baseline back.)
BaselineIsServers ==
  (\A c \in Cmd : clearing[c].kind # "overtaken") =>
    /\ row.server = Truth(row.revision)
    /\ \A c \in With({"applied"}) : Revision(c) <= row.revision

Quiet == running = Idle /\ ops = <<>> /\ received = Len(log) /\ checking = {}
         /\ \A c \in Cmd : status[c] \in {"none", "applied", "failed"}
                           /\ clearing[c].kind \notin {"begun", "read"}

\* With no local changes pending the row shows the server's data.
SettledShowsServer == Quiet => row.local = row.server
=============================================================================
