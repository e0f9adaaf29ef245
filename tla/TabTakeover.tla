----------------------------- MODULE TabTakeover -----------------------------
(***************************************************************************)
(* The tabs of one browser sharing a client (startSharedWorker.ts,         *)
(* SharedWorkerAdapter.ts, RemoteSqliteDb.ts, startSqliteWorker.ts): the   *)
(* SharedWorker sends its SQL to the SQLite worker of the tab that holds   *)
(* the Web Lock, and moves on when that tab dies.                          *)
(*                                                                         *)
(* A tab is a page load: a reload is another tab.  An answer of the        *)
(* SharedWorker reaches a tab at once; what a tab posts waits in its port. *)
(* SQL is looked at only where a takeover waits for it.                    *)
(***************************************************************************)
EXTENDS Naturals, SequencesExt

CONSTANTS
  Tab,
  NoTab,        \* "undefined" where a windowId is expected
  MaxAttempts,  \* REMOTE_DB_INIT_MAX_ATTEMPTS
  MaxFailures,  \* bound: openings that fail, the old file handles being held
  MaxLags       \* bound: live tabs whose heartbeats are late

ASSUME TabAssumption == NoTab \notin Tab
ASSUME BoundAssumption == /\ MaxAttempts \in Nat \ {0}
                          /\ MaxFailures \in Nat /\ MaxLags \in Nat

VARIABLES
  stage,     \* of each tab and its adapter
  port,      \* messages of each tab the SharedWorker has not handled yet
  lock,      \* the holder of the Web Lock
  queue,     \* those who wait for it
  sqlite,    \* the SQLite worker of each tab
  ports,     \* tabWorkerPorts
  seen,      \* windowLastSeen
  waiting,   \* pendingInitCallbacks
  active,    \* activeWindowId
  state,     \* CoordinatorState
  remote,    \* remoteDb, named after the tab it was created for
  target,    \* the port of each RemoteSqliteDb
  flow,      \* handleSetActive under way for each tab
  check,     \* the lock query of the liveness check
  failures, lags

tabs == <<stage, port, lock, queue, sqlite>>
windows == <<ports, seen, waiting>>
coordinator == <<active, state>>
database == <<remote, target, flow>>
bounds == <<failures, lags>>
vars == <<tabs, windows, coordinator, database, check, bounds>>

NoFlow == [at |-> "none", first |-> FALSE, db |-> NoTab, to |-> NoTab, attempt |-> 0]

Init ==
  /\ stage = [t \in Tab |-> "new"] /\ port = [t \in Tab |-> <<>>]
  /\ lock = NoTab /\ queue = <<>> /\ sqlite = [t \in Tab |-> "idle"]
  /\ ports = {} /\ seen = {} /\ waiting = {}
  /\ active = NoTab /\ state = "uninitialized"
  /\ remote = NoTab /\ target = [t \in Tab |-> NoTab] /\ flow = [t \in Tab |-> NoFlow]
  /\ check = "none" /\ failures = 0 /\ lags = 0

Hosting(t) == stage[t] \notin {"new", "closed", "gone"}

-----------------------------------------------------------------------------
(* Tabs                                                                    *)

Post(t, messages) == port' = [port EXCEPT ![t] = @ \o messages]
Becomes(t, s) == stage' = [stage EXCEPT ![t] = s]

Connect(t) ==
  /\ stage[t] = "new"
  /\ Becomes(t, "registering")
  /\ Post(t, <<"register">>)
  /\ UNCHANGED <<lock, queue, sqlite, windows, coordinator, database, check, bounds>>

\* Mutant: the tab takes over without waiting for the lock.
JoinActive(t) ==
  /\ stage[t] = "registered"
  /\ Becomes(t, "waiting")
  /\ Post(t, <<"worker-port", "set-active", "initialize">>)
  /\ queue' = Append(queue, t)
  /\ UNCHANGED <<lock, sqlite, windows, coordinator, database, check, bounds>>

\* Once registered: the port of the SQLite worker is handed over, the lock and
\* the orchestrator are asked for.
Join(t) ==
  /\ stage[t] = "registered"
  /\ Becomes(t, "waiting")
  /\ Post(t, <<"worker-port", "initialize">>)
  /\ queue' = Append(queue, t)
  /\ UNCHANGED <<lock, sqlite, windows, coordinator, database, check, bounds>>

\* A request is not answered in time; the page stays, with all it has asked for.
RequestTimesOut(t) ==
  /\ stage[t] \in {"registering", "waiting"}
  /\ Becomes(t, "error")
  /\ UNCHANGED <<port, lock, queue, sqlite, windows, coordinator, database, check, bounds>>

\* What a tab that is gone announced, and what the browser said of its lock, is
\* assumed to arrive before the lock is passed on.
Announced ==
  check # "free" /\ \A t \in Tab : stage[t] = "gone" => ~Contains(port[t], "set-active")

\* The browser grants the lock, and the callback announces it.
Grant ==
  /\ lock = NoTab /\ queue # <<>> /\ Announced
  /\ lock' = Head(queue) /\ queue' = Tail(queue)
  /\ IF stage[lock'] = "closed" THEN UNCHANGED port ELSE Post(lock', <<"set-active">>)
  /\ UNCHANGED <<stage, sqlite, windows, coordinator, database, check, bounds>>

\* A tab that is gone no longer has the lock, nor waits for it; it asked once.
Unlock(t) ==
  /\ lock' = IF lock = t THEN NoTab ELSE lock
  /\ queue' = RemoveFirst(queue, t)

\* The page goes away: with notice (pagehide), or not (a crash, or after close).
Leave(t, notice) ==
  /\ Becomes(t, "gone")
  /\ sqlite' = [sqlite EXCEPT ![t] = "dead"]
  /\ Unlock(t)
  /\ IF notice THEN Post(t, <<"tab-closing">>) ELSE UNCHANGED port
  /\ UNCHANGED <<windows, coordinator, database, check, bounds>>

PageHide(t) == Hosting(t) /\ stage[t] \notin {"registering", "registered"} /\ Leave(t, TRUE)
Crash(t) == stage[t] \notin {"new", "gone"} /\ Leave(t, FALSE)

\* close: the adapter ends and its page stays, with the lock if it has it.
Close(t) ==
  /\ Hosting(t)
  /\ Becomes(t, "closed")
  /\ sqlite' = [sqlite EXCEPT ![t] = "dead"]
  /\ Post(t, <<"tab-closing", "unregister">>)
  /\ UNCHANGED <<lock, queue, windows, coordinator, database, check, bounds>>

-----------------------------------------------------------------------------
(* The SharedWorker: messages                                              *)

Takes(t, message) ==
  /\ port[t] # <<>> /\ Head(port[t]) = message
  /\ port' = [port EXCEPT ![t] = Tail(@)]

\* Answers to the tabs of S that still wait for one.
Answer(S, from, to) ==
  stage' = [t \in Tab |-> IF t \in S /\ stage[t] = from THEN to ELSE stage[t]]

HandleRegister(t) ==
  /\ Takes(t, "register")
  /\ seen' = seen \cup {t}
  /\ Answer({t}, "registering", "registered")
  /\ UNCHANGED <<lock, queue, sqlite, ports, waiting, coordinator, database, check, bounds>>

HandleWorkerPort(t) ==
  /\ Takes(t, "worker-port")
  /\ ports' = ports \cup {t}
  /\ UNCHANGED <<stage, lock, queue, sqlite, seen, waiting, coordinator, database, check, bounds>>

\* orchestrator.initialize.
HandleInitialize(t) ==
  /\ Takes(t, "initialize")
  /\ IF state = "ready" THEN Answer({t}, "waiting", "ready") /\ UNCHANGED waiting
     ELSE waiting' = waiting \cup {t} /\ UNCHANGED stage
  /\ UNCHANGED <<lock, queue, sqlite, ports, seen, coordinator, database, check, bounds>>

\* handleTabClosing, with removeWindow.
TabClosing(t) ==
  /\ ports' = ports \ {t} /\ seen' = seen \ {t}
  /\ IF active = t
     THEN /\ active' = NoTab
          /\ state' = IF state = "ready" THEN "waiting-for-active" ELSE state
     ELSE UNCHANGED coordinator
  /\ UNCHANGED waiting

HandleTabClosing(t) ==
  /\ Takes(t, "tab-closing")
  /\ TabClosing(t)
  /\ UNCHANGED <<stage, lock, queue, sqlite, database, check, bounds>>

HandleUnregister(t) ==
  /\ Takes(t, "unregister")
  /\ seen' = seen \ {t}
  /\ UNCHANGED <<stage, lock, queue, sqlite, ports, waiting, coordinator, database, check, bounds>>

HandleHeartbeat(t) ==
  /\ Hosting(t) /\ stage[t] \notin {"registering", "registered"} /\ t \notin seen
  /\ seen' = seen \cup {t}
  /\ UNCHANGED <<tabs, ports, waiting, coordinator, database, check, bounds>>

-----------------------------------------------------------------------------
(* The SharedWorker: handleSetActive                                       *)

\* Mutant: an attempt that fails is the last.
FailedOnce(f) == [f EXCEPT !.at = "failed"]

\* Mutant: one attempt too many.
FailedOnceMore(f) == [f EXCEPT !.at = IF @ = "failed" \/ f.attempt > MaxAttempts THEN "failed" ELSE "backoff"]

\* An attempt of initializeRemoteDb fails: again after a while, or no more.
Failed(f) == [f EXCEPT !.at = IF @ = "failed" \/ f.attempt = MaxAttempts THEN "failed" ELSE "backoff"]

Flow(first, db, t) == [at |-> "opening", first |-> first, db |-> db, to |-> t, attempt |-> 1]

\* Who awaits an answer through the RemoteSqliteDb.
Awaiting(d) == {u \in Tab : flow[u].db = d /\ flow[u].at \in {"opening", "answered"}}
Starting(d) == {u \in Tab : flow[u].db = d /\ flow[u].at = "starting"}

\* The first active tab: a new RemoteSqliteDb.
SetFirstActive(t) ==
  /\ remote' = t
  /\ target' = [target EXCEPT ![t] = t]
  /\ flow' = [flow EXCEPT ![t] = Flow(TRUE, t, t)]
  /\ UNCHANGED <<stage, sqlite, waiting>>

\* Another one: the old target is told to close, and what awaits an answer of
\* it is rejected; a start among it rejects those who wait for the start.
SwitchTarget(t) ==
  /\ sqlite' = [u \in Tab |-> IF u = target[remote] /\ sqlite[u] = "open" THEN "idle" ELSE sqlite[u]]
  /\ target' = [target EXCEPT ![remote] = t]
  /\ flow' = [u \in Tab |-> CASE u = t -> Flow(FALSE, remote, t)
                             [] u \in Awaiting(remote) -> Failed(flow[u])
                             [] u \in Starting(remote) -> [flow[u] EXCEPT !.at = "failed"]
                             [] OTHER -> flow[u]]
  /\ IF Starting(remote) = {} THEN UNCHANGED <<stage, waiting>>
     ELSE Answer(waiting, "waiting", "error") /\ waiting' = {}
  /\ UNCHANGED remote

HandleSetActive(t) ==
  /\ Takes(t, "set-active")
  /\ IF t \in ports
     THEN /\ active' = t
          /\ IF state = "uninitialized" THEN SetFirstActive(t) ELSE SwitchTarget(t)
     ELSE UNCHANGED <<stage, sqlite, waiting, active, database>>
  /\ UNCHANGED <<lock, queue, ports, seen, state, check, bounds>>

\* The SQLite worker opens the database and answers ...
Opens(t) ==
  /\ flow[t].at = "opening" /\ sqlite[flow[t].to] # "dead"
  /\ sqlite' = [sqlite EXCEPT ![flow[t].to] = "open"]
  /\ flow' = [flow EXCEPT ![t].at = "answered"]
  /\ UNCHANGED <<stage, port, lock, queue, windows, coordinator, remote, target, check, bounds>>

\* ... or cannot, or is dead, which the timeout of the request tells.
OpenFails(t) ==
  /\ flow[t].at = "opening"
  /\ IF sqlite[flow[t].to] = "dead" THEN UNCHANGED failures
     ELSE failures < MaxFailures /\ failures' = failures + 1
  /\ flow' = [flow EXCEPT ![t] = Failed(@)]
  /\ UNCHANGED <<tabs, windows, coordinator, remote, target, check, lags>>

\* After the backoff, to whatever the target is now.
Again(f) == [f EXCEPT !.at = "opening", !.attempt = @ + 1, !.to = target[f.db]]

OpenAgain(t) ==
  /\ flow[t].at = "backoff"
  /\ flow' = [flow EXCEPT ![t] = Again(@)]
  /\ UNCHANGED <<tabs, windows, coordinator, remote, target, check, bounds>>

BecomesReady ==
  /\ state' = "ready"
  /\ Answer(waiting, "waiting", "ready") /\ waiting' = {}

\* The answer arrives: the first tab goes on with the orchestrator, over what
\* remoteDb is by now.
Opened(t) ==
  /\ flow[t].at = "answered"
  /\ IF flow[t].first
     THEN /\ flow' = [flow EXCEPT ![t].at = "starting", ![t].db = remote]
          /\ UNCHANGED <<stage, waiting, state>>
     ELSE flow' = [flow EXCEPT ![t].at = "done"] /\ BecomesReady
  /\ UNCHANGED <<port, lock, queue, sqlite, ports, seen, active, remote, target, check, bounds>>

\* orchestrator.initialize, whose SQL needs an open database.
Starts(t) ==
  /\ flow[t].at = "starting"
  /\ IF sqlite[target[flow[t].db]] = "open"
     THEN flow' = [flow EXCEPT ![t].at = "done"] /\ BecomesReady
     ELSE /\ flow' = [flow EXCEPT ![t].at = "failed"]
          /\ Answer(waiting, "waiting", "error") /\ waiting' = {}
          /\ UNCHANGED state
  /\ UNCHANGED <<port, lock, queue, sqlite, ports, seen, active, remote, target, check, bounds>>

-----------------------------------------------------------------------------
(* The SharedWorker: the liveness check                                    *)

\* A window not heard of for the TTL: its tab is dead, or late.
Expire(t) ==
  /\ t \in seen
  /\ IF Hosting(t) THEN lags < MaxLags /\ lags' = lags + 1 ELSE UNCHANGED lags
  /\ TabClosing(t)
  /\ UNCHANGED <<tabs, database, check, failures>>

\* The lock is queried if some tab is active; the browser answers, and if it was
\* free whoever is active by then is dropped.
QueryLock ==
  /\ check = "none" /\ active # NoTab /\ state = "ready"
  /\ check' = "asked"
  /\ UNCHANGED <<tabs, windows, coordinator, database, bounds>>

LockAnswers ==
  /\ check = "asked"
  /\ check' = IF lock = NoTab THEN "free" ELSE "held"
  /\ UNCHANGED <<tabs, windows, coordinator, database, bounds>>

CheckLock ==
  /\ check \in {"free", "held"}
  /\ check' = "none"
  /\ IF check = "free" THEN TabClosing(active) ELSE UNCHANGED <<windows, coordinator>>
  /\ UNCHANGED <<tabs, database, bounds>>

-----------------------------------------------------------------------------
Handle(t) ==
  \/ HandleRegister(t) \/ HandleWorkerPort(t) \/ HandleInitialize(t)
  \/ HandleTabClosing(t) \/ HandleUnregister(t) \/ HandleSetActive(t)

FlowStep(t) == Opens(t) \/ OpenFails(t) \/ OpenAgain(t) \/ Opened(t) \/ Starts(t)

Next ==
  \/ \E t \in Tab : \/ Connect(t) \/ Join(t) \/ RequestTimesOut(t)
                    \/ PageHide(t) \/ Crash(t) \/ Close(t)
                    \/ Handle(t) \/ HandleHeartbeat(t) \/ FlowStep(t) \/ Expire(t)
  \/ Grant \/ QueryLock \/ LockAnswers \/ CheckLock

Spec == Init /\ [][Next]_vars

\* Messages arrive, the browser grants a free lock, a request is answered or
\* times out, a backoff ends.  Nothing makes a user open or close a tab.
Fairness ==
  /\ \A t \in Tab : WF_vars(Handle(t)) /\ WF_vars(FlowStep(t))
  /\ WF_vars(Grant)

FairSpec == Spec /\ Fairness

-----------------------------------------------------------------------------
(* Properties                                                              *)

Stage == {"new", "registering", "registered", "waiting", "ready", "error", "closed", "gone"}
Message == {"register", "worker-port", "initialize", "set-active", "tab-closing", "unregister"}
FlowType == [at : {"none", "opening", "answered", "backoff", "starting", "done", "failed"},
             first : BOOLEAN, db : Tab \cup {NoTab}, to : Tab \cup {NoTab},
             attempt : 0..MaxAttempts]

\* The shape of the state.
TypeOK ==
  /\ stage \in [Tab -> Stage] /\ port \in [Tab -> Seq(Message)]
  /\ lock \in Tab \cup {NoTab} /\ queue \in Seq(Tab)
  /\ sqlite \in [Tab -> {"idle", "open", "dead"}]
  /\ ports \subseteq Tab /\ seen \subseteq Tab /\ waiting \subseteq Tab
  /\ active \in Tab \cup {NoTab}
  /\ state \in {"uninitialized", "waiting-for-active", "ready"}
  /\ remote \in Tab \cup {NoTab} /\ target \in [Tab -> Tab \cup {NoTab}]
  /\ flow \in [Tab -> FlowType]
  /\ check \in {"none", "asked", "free", "held"}
  /\ failures \in 0..MaxFailures /\ lags \in 0..MaxLags

\* The database file is open in one live SQLite worker at most, and that is the
\* worker of the tab that holds the lock, whatever attempts of earlier takeovers
\* are still being repeated (opfs-sahpool allows a single connection).
OpenAtHolder == \A t \in Tab : sqlite[t] = "open" => lock = t

Serving(t) ==
  /\ state = "ready" /\ remote # NoTab /\ target[remote] = t /\ sqlite[t] = "open"

\* A tab that has got the lock and stays open is eventually the one the
\* SharedWorker sends its SQL to, with the database open - whatever tabs died
\* before it and whatever was under way for them.  (Not so when the SharedWorker
\* has taken a live tab for dead: it has dropped the tab's port for good.)
Takeover ==
  \A t \in Tab : (lags = 0 /\ lock = t /\ Hosting(t)) ~> (Serving(t) \/ ~Hosting(t) \/ lags > 0)
=============================================================================
