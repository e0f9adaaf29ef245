--------------------------- MODULE TakeoverProofs ---------------------------
(***************************************************************************)
(* The database file is open in the lock holder's worker only, proved for  *)
(* any tabs, attempts, failures and late heartbeats.                       *)
(*                                                                         *)
(* What may open a file next is named by a message, a target or an attempt *)
(* under way; each of them names the holder of the lock, or a tab whose    *)
(* SQLite worker is dead and stays so.                                     *)
(***************************************************************************)
EXTENDS TabTakeover, TLAPS, SequenceTheorems, WellFoundedInduction

Dead(t) == sqlite[t] = "dead"

\* The values the argument looks at.
Shape ==
  /\ stage \in [Tab -> Stage] /\ DOMAIN port = Tab
  /\ port \in [Tab -> Seq(Message)]
  /\ sqlite \in [Tab -> {"idle", "open", "dead"}]
  /\ remote \in Tab \cup {NoTab} /\ target \in [Tab -> Tab \cup {NoTab}]
  /\ flow \in [Tab -> FlowType]

Announces == \A t \in Tab : Contains(port[t], "set-active") => lock = t \/ Dead(t)
Targets == \A d \in Tab : target[d] \in Tab => lock = target[d] \/ Dead(target[d])
Openers == \A t \in Tab : flow[t].at = "opening" /\ flow[t].to \in Tab
                            => lock = flow[t].to \/ Dead(flow[t].to)


\* A takeover under way concerns a RemoteSqliteDb, and one that waits may try again.
Flows ==
  /\ remote = NoTab => state = "uninitialized" /\ \A t \in Tab : flow[t].at = "none"
  /\ \A t \in Tab : /\ flow[t].at # "none" => flow[t].db \in Tab
                    /\ flow[t].at = "backoff" => flow[t].attempt < MaxAttempts

TakeoverInv == Shape /\ OpenAtHolder /\ Announces /\ Targets /\ Openers /\ Flows

-----------------------------------------------------------------------------
(* Messages.                                                               *)

Says(t) == Contains(port[t], "set-active")

LEMMA PostSays ==
  ASSUME Shape, NEW t, NEW messages \in Seq(Message), Post(t, messages)
  PROVE  /\ port' \in [Tab -> Seq(Message)]
         /\ \A u \in Tab : Says(u)' => Says(u) \/ (u = t /\ Contains(messages, "set-active"))
<1>1. ASSUME NEW u \in Tab
      PROVE  /\ port'[u] = IF u = t THEN port[u] \o messages ELSE port[u]
             /\ port[u] \in Seq(Message)
  BY DEF Shape, Post
<1>2. ASSUME NEW u \in Tab
      PROVE  /\ port[u] \o messages \in Seq(Message)
             /\ Contains(port[u] \o messages, "set-active") => Says(u) \/ Contains(messages, "set-active")
  BY <1>1 DEF Says, Contains
<1>3. port' \in [Tab -> Seq(Message)]
  BY <1>1, <1>2 DEF Shape, Post
<1>4. ASSUME NEW u \in Tab, Says(u)'
      PROVE  Says(u) \/ (u = t /\ Contains(messages, "set-active"))
  BY <1>1, <1>2, <1>4 DEF Says
<1>. QED
  BY <1>3, <1>4

LEMMA TakesSays ==
  ASSUME Shape, NEW t \in Tab, NEW message, Takes(t, message)
  PROVE  /\ port' \in [Tab -> Seq(Message)]
         /\ \A u \in Tab : Says(u)' => Says(u)
         /\ message = "set-active" => Says(t)
<1>1. port[t] \in Seq(Message) /\ port[t] # <<>> /\ Head(port[t]) = message
  BY DEF Shape, Takes
<1>2. /\ Tail(port[t]) \in Seq(Message)
      /\ Contains(Tail(port[t]), "set-active") => Says(t)
      /\ message = "set-active" => Says(t)
  BY <1>1 DEF Says, Contains
<1>3. \A u \in Tab : port'[u] = IF u = t THEN Tail(port[t]) ELSE port[u]
  BY DEF Takes, Shape
<1>. QED
  BY <1>2, <1>3 DEF Shape, Takes, Says

LEMMA NothingSaid ==
  /\ ~Contains(<<>>, "set-active")
  /\ \A m \in Message \ {"set-active"} : <<m>> \in Seq(Message) /\ ~Contains(<<m>>, "set-active")
  /\ LET two == <<"worker-port", "initialize">> IN two \in Seq(Message) /\ ~Contains(two, "set-active")
  /\ LET two == <<"tab-closing", "unregister">> IN two \in Seq(Message) /\ ~Contains(two, "set-active")
  /\ <<"set-active">> \in Seq(Message)
BY DEF Contains, Message

-----------------------------------------------------------------------------
(* Steps that change neither the lock nor a worker nor a takeover.         *)

LEMMA TabKeeps ==
  ASSUME TakeoverInv, stage' \in [Tab -> Stage], port' \in [Tab -> Seq(Message)],
         \A u \in Tab : Says(u)' => Says(u),
         state' = "uninitialized" \/ state # "uninitialized",
         UNCHANGED <<lock, sqlite, remote, target, flow>>
  PROVE  TakeoverInv'
<1>1. Shape'
  BY DEF TakeoverInv, Shape
<1>2. OpenAtHolder' /\ Targets' /\ Openers'
  BY DEF TakeoverInv, OpenAtHolder, Targets, Openers, Dead
<1>3. Announces'
  BY DEF TakeoverInv, Announces, Dead, Says
<1>4. Flows'
  BY DEF TakeoverInv, Flows
<1>. QED
  BY <1>1, <1>2, <1>3, <1>4 DEF TakeoverInv

\* A worker that is dead from now on, whether its tab keeps the lock or not.
LEMMA DeathKeeps ==
  ASSUME TakeoverInv, NEW t \in Tab, stage' \in [Tab -> Stage],
         port' \in [Tab -> Seq(Message)], \A u \in Tab : Says(u)' => Says(u),
         sqlite' = [sqlite EXCEPT ![t] = "dead"],
         lock' = lock \/ (lock = t /\ lock' = NoTab),
         UNCHANGED <<remote, target, flow, state>>
  PROVE  TakeoverInv'
<1>1. \A u \in Tab : sqlite'[u] = IF u = t THEN "dead" ELSE sqlite[u]
  BY DEF TakeoverInv, Shape
<1>2. Shape'
  BY DEF TakeoverInv, Shape
<1>3. OpenAtHolder'
  BY <1>1 DEF TakeoverInv, OpenAtHolder
<1>4. Targets' /\ Openers' /\ Announces'
  BY <1>1 DEF TakeoverInv, Targets, Openers, Announces, Dead, Says
<1>5. Flows'
  BY DEF TakeoverInv, Flows
<1>. QED
  BY <1>2, <1>3, <1>4, <1>5 DEF TakeoverInv

\* A step of handleSetActive: what an attempt opens next it takes from the targets.
LEMMA FlowKeeps ==
  ASSUME TakeoverInv, NEW t \in Tab, stage' \in [Tab -> Stage], NEW f \in FlowType,
         flow' = [flow EXCEPT ![t] = f],
         f.at = "opening" => f.to = NoTab \/ lock = f.to \/ Dead(f.to),
         flow[t].at # "none", f.db \in Tab, f.at = "backoff" => f.attempt < MaxAttempts,
         UNCHANGED <<port, lock, sqlite, remote, target>>
  PROVE  TakeoverInv'
<1>1. \A u \in Tab : flow'[u] = IF u = t THEN f ELSE flow[u]
  BY DEF TakeoverInv, Shape
<1>2. Shape'
  BY DEF TakeoverInv, Shape
<1>3. OpenAtHolder' /\ Targets' /\ Announces'
  BY DEF TakeoverInv, OpenAtHolder, Targets, Announces, Dead
<1>4. Openers'
  BY <1>1, TabAssumption DEF TakeoverInv, Openers, Dead
<1>5. remote \in Tab
  BY DEF TakeoverInv, Flows, Shape
<1>6. Flows'
  BY <1>1, <1>5, TabAssumption DEF TakeoverInv, Flows
<1>. QED
  BY <1>2, <1>3, <1>4, <1>6 DEF TakeoverInv

LEMMA FlowFields ==
  ASSUME NEW f \in FlowType
  PROVE  /\ f.at \in {"none", "opening", "answered", "backoff", "starting", "done", "failed"}
         /\ f.first \in BOOLEAN /\ f.db \in Tab \cup {NoTab} /\ f.to \in Tab \cup {NoTab}
         /\ f.attempt \in 0..MaxAttempts
BY DEF FlowType

LEMMA FailedMoves ==
  ASSUME NEW f \in FlowType
  PROVE  /\ Failed(f) \in FlowType /\ Failed(f).at \in {"backoff", "failed"} /\ Failed(f).db = f.db
         /\ Failed(f).at = "backoff" => Failed(f).attempt < MaxAttempts
<1>1. \/ Failed(f) = [f EXCEPT !.at = "failed"]
      \/ Failed(f) = [f EXCEPT !.at = "backoff"] /\ f.attempt # MaxAttempts
  BY DEF Failed
<1>2. f.attempt # MaxAttempts => f.attempt < MaxAttempts
  BY FlowFields, BoundAssumption
<1>3. CASE Failed(f) = [f EXCEPT !.at = "failed"]
  BY <1>3 DEF FlowType
<1>4. CASE Failed(f) = [f EXCEPT !.at = "backoff"] /\ f.attempt # MaxAttempts
  BY <1>2, <1>4 DEF FlowType
<1>. QED
  BY <1>1, <1>3, <1>4

LEMMA AnswerType ==
  ASSUME Shape, NEW S, NEW from, NEW to \in Stage, Answer(S, from, to)
  PROVE  stage' \in [Tab -> Stage]
BY DEF Shape, Answer

LEMMA BecomesType ==
  ASSUME Shape, NEW t, NEW s \in Stage, Becomes(t, s)
  PROVE  stage' \in [Tab -> Stage]
BY DEF Shape, Becomes

-----------------------------------------------------------------------------
(* The actions.                                                            *)

LEMMA InitTakeover == Init => TakeoverInv
BY TabAssumption, BoundAssumption
DEF Init, TakeoverInv, Shape, OpenAtHolder, Announces, Targets, Openers, Flows, Contains,
    NoFlow, FlowType, Stage

LEMMA TabsKeep ==
  ASSUME TakeoverInv, NEW t \in Tab,
         \/ Connect(t) \/ Join(t) \/ RequestTimesOut(t)
         \/ HandleRegister(t) \/ HandleWorkerPort(t) \/ HandleInitialize(t)
         \/ HandleTabClosing(t) \/ HandleUnregister(t) \/ HandleHeartbeat(t) \/ Expire(t)
  PROVE  TakeoverInv'
<1>. Shape
  BY DEF TakeoverInv
<1>1. CASE Connect(t)
  <2>1. stage' \in [Tab -> Stage]
    BY <1>1, BecomesType DEF Connect, Stage
  <2>2. <<"register">> \in Seq(Message) /\ ~Contains(<<"register">>, "set-active")
    BY NothingSaid DEF Message
  <2>3. port' \in [Tab -> Seq(Message)] /\ \A u \in Tab : Says(u)' => Says(u)
    BY <1>1, <2>2, PostSays DEF Connect
  <2>. QED
    BY <1>1, <2>1, <2>3, TabKeeps DEF Connect, coordinator, database
<1>2. CASE Join(t)
  <2>1. stage' \in [Tab -> Stage]
    BY <1>2, BecomesType DEF Join, Stage
  <2>2. port' \in [Tab -> Seq(Message)] /\ \A u \in Tab : Says(u)' => Says(u)
    BY <1>2, NothingSaid, PostSays DEF Join
  <2>. QED
    BY <1>2, <2>1, <2>2, TabKeeps DEF Join, coordinator, database
<1>3. CASE RequestTimesOut(t)
  <2>1. stage' \in [Tab -> Stage]
    BY <1>3, BecomesType DEF RequestTimesOut, Stage
  <2>2. port' \in [Tab -> Seq(Message)] /\ \A u \in Tab : Says(u)' => Says(u)
    BY <1>3 DEF RequestTimesOut, Shape, Says
  <2>. QED
    BY <1>3, <2>1, <2>2, TabKeeps DEF RequestTimesOut, coordinator, database
<1>4. CASE HandleRegister(t) \/ HandleWorkerPort(t) \/ HandleInitialize(t)
           \/ HandleTabClosing(t) \/ HandleUnregister(t)
  <2>1. stage' \in [Tab -> Stage]
    BY <1>4, AnswerType DEF HandleRegister, HandleWorkerPort, HandleInitialize, HandleTabClosing,
                            HandleUnregister, Stage, Shape
  <2>2. PICK message : Takes(t, message)
    BY <1>4 DEF HandleRegister, HandleWorkerPort, HandleInitialize, HandleTabClosing, HandleUnregister
  <2>3. port' \in [Tab -> Seq(Message)] /\ \A u \in Tab : Says(u)' => Says(u)
    BY <2>2, TakesSays
  <2>4. UNCHANGED <<lock, sqlite, remote, target, flow>> /\ (state' = state \/ state = "ready")
    BY <1>4 DEF HandleRegister, HandleWorkerPort, HandleInitialize, HandleTabClosing,
                HandleUnregister, TabClosing, coordinator, database
  <2>. QED
    BY <2>1, <2>3, <2>4, TabKeeps
<1>5. CASE HandleHeartbeat(t) \/ Expire(t)
  <2>1. /\ UNCHANGED <<stage, port, lock, sqlite, remote, target, flow>>
        /\ state' = state \/ state = "ready"
    BY <1>5 DEF HandleHeartbeat, Expire, TabClosing, tabs, coordinator, database
  <2>2. stage' \in [Tab -> Stage] /\ port' \in [Tab -> Seq(Message)] /\ \A u \in Tab : Says(u)' => Says(u)
    BY <2>1 DEF Shape, Says
  <2>. QED
    BY <2>1, <2>2, TabKeeps
<1>. QED
  BY <1>1, <1>2, <1>3, <1>4, <1>5

LEMMA EndKeeps ==
  ASSUME TakeoverInv, NEW t \in Tab, PageHide(t) \/ Crash(t) \/ Close(t)
  PROVE  TakeoverInv'
<1>. Shape
  BY DEF TakeoverInv
<1>1. CASE PageHide(t) \/ Crash(t)
  <2>1. PICK notice \in BOOLEAN : Leave(t, notice)
    BY <1>1 DEF PageHide, Crash
  <2>2. stage' \in [Tab -> Stage]
    BY <2>1, BecomesType DEF Leave, Stage
  <2>3. port' \in [Tab -> Seq(Message)] /\ \A u \in Tab : Says(u)' => Says(u)
    <3>1. CASE notice
      <4>1. <<"tab-closing">> \in Seq(Message) /\ ~Contains(<<"tab-closing">>, "set-active")
        BY NothingSaid DEF Message
      <4>. QED
        BY <2>1, <3>1, <4>1, PostSays DEF Leave
    <3>2. CASE ~notice
      BY <2>1, <3>2 DEF Leave, Shape, Says
    <3>. QED
      BY <3>1, <3>2
  <2>4. lock' = lock \/ (lock = t /\ lock' = NoTab)
    BY <2>1 DEF Leave, Unlock
  <2>. QED
    BY <2>1, <2>2, <2>3, <2>4, DeathKeeps DEF Leave, coordinator, database
<1>2. CASE Close(t)
  <2>1. stage' \in [Tab -> Stage]
    BY <1>2, BecomesType DEF Close, Stage
  <2>2. port' \in [Tab -> Seq(Message)] /\ \A u \in Tab : Says(u)' => Says(u)
    BY <1>2, NothingSaid, PostSays DEF Close
  <2>. QED
    BY <1>2, <2>1, <2>2, DeathKeeps DEF Close, coordinator, database
<1>. QED
  BY <1>1, <1>2

\* The lock is granted when nobody has it, so that no file is open and every
\* target and attempt names a dead worker.
LEMMA GrantKeeps ==
  ASSUME TakeoverInv, Grant
  PROVE  TakeoverInv'
<1>. Shape
  BY DEF TakeoverInv
<1>1. port' \in [Tab -> Seq(Message)] /\ \A u \in Tab : Says(u)' => Says(u) \/ lock' = u
  <2>1. CASE stage[lock'] = "closed"
    BY <2>1 DEF Grant, Shape, Says
  <2>2. CASE stage[lock'] # "closed"
    BY <2>2, NothingSaid, PostSays DEF Grant
  <2>. QED
    BY <2>1, <2>2
<1>2. Shape'
  BY <1>1 DEF Grant, Shape, database
<1>3. \A u \in Tab : lock # u
  BY TabAssumption DEF Grant
<1>4. OpenAtHolder' /\ Targets' /\ Openers'
  BY <1>3 DEF TakeoverInv, OpenAtHolder, Targets, Openers, Dead, Grant, database
<1>5. Announces'
  BY <1>1, <1>3 DEF TakeoverInv, Announces, Dead, Grant, Says
<1>6. Flows'
  BY DEF TakeoverInv, Flows, Grant, coordinator, database
<1>. QED
  BY <1>2, <1>4, <1>5, <1>6 DEF TakeoverInv

\* The tab that takes over holds the lock, or is dead by the time its message is
\* handled; all attempts under way are ended or go on with another target.
LEMMA SetActiveKeeps ==
  ASSUME TakeoverInv, NEW t \in Tab, HandleSetActive(t)
  PROVE  TakeoverInv'
<1>. Shape
  BY DEF TakeoverInv
<1>1. /\ port' \in [Tab -> Seq(Message)]
      /\ \A u \in Tab : Says(u)' => Says(u)
      /\ lock = t \/ Dead(t)
  BY TakesSays DEF HandleSetActive, TakeoverInv, Announces, Says
<1>2. Flow(TRUE, t, t) \in FlowType /\ \A d \in Tab \cup {NoTab} : Flow(FALSE, d, t) \in FlowType
  BY BoundAssumption DEF Flow, FlowType
<1>4. CASE t \notin ports
  BY <1>1, <1>4, TabKeeps DEF HandleSetActive, database, Shape
<1>5. CASE t \in ports /\ state = "uninitialized"
  <2>1. SetFirstActive(t) /\ UNCHANGED lock
    BY <1>5 DEF HandleSetActive
  <2>2. \A u \in Tab : /\ flow'[u] = IF u = t THEN Flow(TRUE, t, t) ELSE flow[u]
                       /\ target'[u] = IF u = t THEN t ELSE target[u]
    BY <2>1 DEF SetFirstActive, Shape
  <2>3. Shape'
    BY <1>1, <1>2, <2>1, <2>2 DEF SetFirstActive, Shape
  <2>4. OpenAtHolder' /\ Announces'
    BY <1>1, <2>1 DEF SetFirstActive, TakeoverInv, OpenAtHolder, Announces, Dead, Says
  <2>5. Targets' /\ Openers'
    BY <1>1, <2>1, <2>2 DEF SetFirstActive, TakeoverInv, Targets, Openers, Dead, Flow
  <2>6. Flows'
    BY <2>1, <2>2, TabAssumption DEF SetFirstActive, TakeoverInv, Flows, Flow
  <2>. QED
    BY <2>3, <2>4, <2>5, <2>6 DEF TakeoverInv
<1>6. CASE t \in ports /\ state # "uninitialized"
  <2>1. SwitchTarget(t) /\ UNCHANGED <<lock, state>>
    BY <1>6 DEF HandleSetActive
  <2>2. \A u \in Tab : target'[u] = target[u] \/ target'[u] = t
    BY <2>1 DEF SwitchTarget, Shape
  <2>3. ASSUME NEW u \in Tab
        PROVE  /\ flow'[u] \in FlowType
               /\ \/ flow'[u] = flow[u]
                  \/ u = t /\ flow'[u] = Flow(FALSE, remote, t)
                  \/ flow[u].at # "none" /\ flow'[u].db = flow[u].db /\ flow'[u].at = "failed"
                  \/ /\ flow[u].at # "none" /\ flow'[u].db = flow[u].db /\ flow'[u].at = "backoff"
                     /\ flow'[u].attempt < MaxAttempts
    <3>1. flow'[u] = CASE u = t -> Flow(FALSE, remote, t)
                       [] u \in Awaiting(remote) -> Failed(flow[u])
                       [] u \in Starting(remote) -> [flow[u] EXCEPT !.at = "failed"]
                       [] OTHER -> flow[u]
      BY <2>1 DEF SwitchTarget
    <3>2. \/ u = t /\ flow'[u] = Flow(FALSE, remote, t)
          \/ u \in Awaiting(remote) /\ flow'[u] = Failed(flow[u])
          \/ u \in Starting(remote) /\ flow'[u] = [flow[u] EXCEPT !.at = "failed"]
          \/ flow'[u] = flow[u]
      BY <3>1, Zenon
    <3>3. flow[u] \in FlowType /\ Flow(FALSE, remote, t) \in FlowType
      BY <1>2 DEF Shape
    <3>4. u \in Awaiting(remote) \cup Starting(remote) => flow[u].at # "none"
      BY DEF Awaiting, Starting
    <3>5. CASE u \in Awaiting(remote) /\ flow'[u] = Failed(flow[u])
      BY <3>5, <3>3, <3>4, FailedMoves
    <3>6. CASE u \in Starting(remote) /\ flow'[u] = [flow[u] EXCEPT !.at = "failed"]
      <4>1. flow'[u] \in FlowType /\ flow'[u].at = "failed" /\ flow'[u].db = flow[u].db
        BY <3>6, <3>3 DEF FlowType
      <4>. QED
        BY <3>6, <3>4, <4>1
    <3>. QED
      BY <3>2, <3>3, <3>5, <3>6
  <2>4. \A u \in Tab : /\ sqlite'[u] \in {"idle", "open", "dead"}
                       /\ sqlite'[u] = "open" => sqlite[u] = "open"
                       /\ sqlite[u] = "dead" <=> sqlite'[u] = "dead"
    BY <2>1 DEF SwitchTarget, Shape
  <2>5. stage' \in [Tab -> Stage]
    BY <2>1, AnswerType DEF SwitchTarget, Stage, Shape
  <2>6. Shape'
    <3>1. flow' \in [Tab -> FlowType]
      BY <2>1, <2>3 DEF SwitchTarget
    <3>2. sqlite' \in [Tab -> {"idle", "open", "dead"}] /\ target' \in [Tab -> Tab \cup {NoTab}]
          /\ remote' = remote
      BY <2>1, <2>4 DEF SwitchTarget, Shape
    <3>. QED
      BY <1>1, <2>5, <3>1, <3>2 DEF Shape
  <2>7. OpenAtHolder' /\ Announces'
    BY <1>1, <2>1, <2>4 DEF TakeoverInv, OpenAtHolder, Announces, Dead, Says
  <2>8. Targets'
    BY <1>1, <2>1, <2>2, <2>4 DEF TakeoverInv, Targets, Dead
  <2>9. Openers'
    BY <1>1, <2>1, <2>3, <2>4 DEF TakeoverInv, Openers, Dead, Flow
  <2>10. remote \in Tab
    BY <1>6 DEF TakeoverInv, Flows, Shape
  <2>11. remote' = remote
    BY <2>1 DEF SwitchTarget
  <2>12. Flows'
    BY <2>1, <2>3, <2>10, <2>11, TabAssumption DEF TakeoverInv, Flows, Flow
  <2>. QED
    BY <2>6, <2>7, <2>8, <2>9, <2>12 DEF TakeoverInv
<1>. QED
  BY <1>4, <1>5, <1>6

LEMMA FlowStepKeeps ==
  ASSUME TakeoverInv, NEW t \in Tab, FlowStep(t)
  PROVE  TakeoverInv'
<1>. Shape
  BY DEF TakeoverInv
<1>1. flow[t] \in FlowType
  BY DEF Shape
<1>2. CASE Opens(t)
  <2>1. \A u \in Tab : sqlite'[u] = IF u = flow[t].to THEN "open" ELSE sqlite[u]
    BY <1>2 DEF Opens, Shape
  <2>2. /\ [flow[t] EXCEPT !.at = "answered"] \in FlowType
        /\ [flow[t] EXCEPT !.at = "answered"].at = "answered"
        /\ [flow[t] EXCEPT !.at = "answered"].db = flow[t].db
    BY <1>1 DEF FlowType
  <2>3. \A u \in Tab : /\ flow'[u] \in FlowType
                       /\ \/ flow'[u] = flow[u]
                          \/ flow'[u].at = "answered" /\ flow'[u].db = flow[u].db /\ flow[u].at # "none"
    BY <1>2, <2>2 DEF Opens, Shape
  <2>4. Shape'
    BY <1>2, <2>1, <2>3 DEF Opens, Shape
  <2>5. flow[t].to \in Tab => lock = flow[t].to /\ ~Dead(flow[t].to)
    BY <1>2 DEF Opens, TakeoverInv, Openers, Dead
  <2>6. \A u \in Tab : sqlite[u] = "dead" => sqlite'[u] = "dead"
    BY <2>1, <2>5 DEF Dead
  <2>7. OpenAtHolder' /\ Announces' /\ Targets'
    BY <1>2, <2>1, <2>5, <2>6 DEF Opens, TakeoverInv, OpenAtHolder, Announces, Targets, Dead
  <2>8. Openers'
    BY <1>2, <2>3, <2>6 DEF Opens, TakeoverInv, Openers, Dead
  <2>9. Flows'
    BY <1>2, <2>3 DEF Opens, TakeoverInv, Flows, coordinator
  <2>. QED
    BY <2>4, <2>7, <2>8, <2>9 DEF TakeoverInv
<1>3. CASE OpenFails(t)
  <2>1. /\ Failed(flow[t]) \in FlowType /\ Failed(flow[t]).at # "opening"
        /\ Failed(flow[t]).db = flow[t].db
        /\ Failed(flow[t]).at = "backoff" => Failed(flow[t]).attempt < MaxAttempts
    BY <1>1, FailedMoves
  <2>2. flow[t].at # "none" /\ flow[t].db \in Tab
    BY <1>3 DEF OpenFails, TakeoverInv, Flows
  <2>. QED
    BY <1>3, <2>1, <2>2, FlowKeeps DEF OpenFails, Shape, tabs
<1>4. CASE OpenAgain(t)
  <2>1. flow[t].at = "backoff" /\ flow[t].db \in Tab /\ flow[t].attempt < MaxAttempts
    BY <1>4 DEF OpenAgain, TakeoverInv, Flows
  <2>. DEFINE f == Again(flow[t])
  <2>2. flow' = [flow EXCEPT ![t] = f]
    BY <1>4 DEF OpenAgain
  <2>3. target[flow[t].db] \in Tab \cup {NoTab}
    BY <2>1 DEF Shape
  <2>4. f \in FlowType /\ f.at = "opening" /\ f.to = target[flow[t].db] /\ f.db = flow[t].db
    <3>1. flow[t].attempt + 1 \in 0..MaxAttempts
      BY <1>1, <2>1, BoundAssumption DEF FlowType
    <3>. QED
      BY <1>1, <2>3, <3>1 DEF FlowType, Again
  <2>5. f.to = NoTab \/ lock = f.to \/ Dead(f.to)
    BY <2>1, <2>3, <2>4 DEF TakeoverInv, Targets
  <2>. HIDE DEF f
  <2>. QED
    BY <1>4, <2>1, <2>2, <2>4, <2>5, FlowKeeps DEF OpenAgain, Shape, tabs
<1>5. CASE Opened(t)
  <2>1. stage' \in [Tab -> Stage]
    BY <1>5, AnswerType DEF Opened, BecomesReady, Stage, Shape
  <2>2. flow[t].at # "none" /\ flow[t].db \in Tab /\ remote \in Tab
    BY <1>5, TabAssumption DEF Opened, TakeoverInv, Flows, Shape
  <2>3. PICK f : /\ f = IF flow[t].first THEN [flow[t] EXCEPT !.at = "starting", !.db = remote]
                         ELSE [flow[t] EXCEPT !.at = "done"]
                 /\ flow' = [flow EXCEPT ![t] = f]
    BY <1>5 DEF Opened, Shape
  <2>4. f \in FlowType /\ f.at \in {"starting", "done"} /\ f.db \in Tab
    BY <1>1, <2>2, <2>3 DEF FlowType
  <2>. QED
    BY <1>5, <2>1, <2>2, <2>3, <2>4, FlowKeeps DEF Opened
<1>6. CASE Starts(t)
  <2>1. stage' \in [Tab -> Stage]
    BY <1>6, AnswerType DEF Starts, BecomesReady, Stage, Shape
  <2>2. PICK f \in {[flow[t] EXCEPT !.at = "done"], [flow[t] EXCEPT !.at = "failed"]} :
          flow' = [flow EXCEPT ![t] = f]
    BY <1>6 DEF Starts, Shape
  <2>3. f \in FlowType /\ f.at \in {"done", "failed"} /\ f.db = flow[t].db
    BY <1>1, <2>2 DEF FlowType
  <2>4. flow[t].at # "none" /\ flow[t].db \in Tab
    BY <1>6 DEF Starts, TakeoverInv, Flows
  <2>. QED
    BY <1>6, <2>1, <2>2, <2>3, <2>4, FlowKeeps DEF Starts, Shape
<1>. QED
  BY <1>2, <1>3, <1>4, <1>5, <1>6 DEF FlowStep

LEMMA CheckKeeps ==
  ASSUME TakeoverInv, QueryLock \/ LockAnswers \/ CheckLock \/ UNCHANGED vars
  PROVE  TakeoverInv'
<1>1. UNCHANGED <<stage, port, lock, sqlite, remote, target, flow>>
  BY DEF QueryLock, LockAnswers, CheckLock, vars, tabs, database
<1>3. state' = state \/ state = "ready"
  BY DEF QueryLock, LockAnswers, CheckLock, TabClosing, vars, coordinator
<1>2. stage' \in [Tab -> Stage] /\ port' \in [Tab -> Seq(Message)] /\ \A u \in Tab : Says(u)' => Says(u)
  BY <1>1 DEF TakeoverInv, Shape, Says
<1>. QED
  BY <1>1, <1>2, <1>3, TabKeeps

-----------------------------------------------------------------------------
(* The shape of the rest.                                                  *)

LEMMA LeastOf ==
  ASSUME NEW S \in SUBSET Nat, S # {}
  PROVE  Min(S) \in S
<1>1. PICK x \in S : \A y \in S : ~(<<y, x>> \in OpToRel(<, Nat))
  BY NatLessThanWellFounded, WFMin, Zenon
<1>a. \A y \in S : ~(y < x)
  BY <1>1 DEF OpToRel
<1>2. \A y \in S : x <= y
  BY <1>a
<1>. QED
  BY <1>2 DEF Min

\* A request for the lock is taken out of the queue.
LEMMA RemoveFirstType ==
  ASSUME NEW s \in Seq(Tab), NEW t
  PROVE  RemoveFirst(s, t) \in Seq(Tab)
<1>. DEFINE I == {i \in 1..Len(s) : s[i] = t}
<1>1. Len(s) \in Nat
  BY LenProperties
<1>2. CASE I # {}
  <2>1. I \in SUBSET Nat
    BY <1>1
  <2>2. Min(I) \in 1..Len(s)
    BY <1>2, <2>1, LeastOf
  <2>3. RemoveFirst(s, t) = SubSeq(s, 1, Min(I) - 1) \o SubSeq(s, Min(I) + 1, Len(s))
    BY <1>2 DEF RemoveFirst, RemoveAt, SelectInSeq
  <2>. HIDE DEF I
  <2>4. SubSeq(s, 1, Min(I) - 1) \in Seq(Tab) /\ SubSeq(s, Min(I) + 1, Len(s)) \in Seq(Tab)
    BY <1>1, <2>2, SubSeqProperties
  <2>. QED
    BY <2>3, <2>4, ConcatProperties
<1>3. CASE I = {}
  BY <1>3 DEF RemoveFirst
<1>. QED
  BY <1>2, <1>3

Rest ==
  /\ lock \in Tab \cup {NoTab} /\ queue \in Seq(Tab)
  /\ ports \in SUBSET Tab /\ seen \in SUBSET Tab /\ waiting \in SUBSET Tab
  /\ active \in Tab \cup {NoTab}
  /\ state \in {"uninitialized", "waiting-for-active", "ready"}
  /\ check \in {"none", "asked", "free", "held"}
  /\ failures \in 0..MaxFailures /\ lags \in 0..MaxLags

LEMMA RestStep ==
  ASSUME Shape, Rest, [Next]_vars
  PROVE  Rest'
<1>. USE DEF tabs, windows, coordinator, database, bounds
<1>1. CASE UNCHANGED vars
  BY <1>1 DEF vars, Rest
<1>2. ASSUME NEW t \in Tab, Connect(t) \/ RequestTimesOut(t) \/ Close(t) PROVE Rest'
  BY <1>2 DEF Connect, RequestTimesOut, Close, Rest
<1>3. ASSUME NEW t \in Tab, Join(t) PROVE Rest'
  BY <1>3, AppendProperties DEF Join, Rest
<1>4. ASSUME NEW t \in Tab, PageHide(t) \/ Crash(t) PROVE Rest'
  <2>1. PICK notice \in BOOLEAN : Leave(t, notice)
    BY <1>4 DEF PageHide, Crash
  <2>2. queue' \in Seq(Tab)
    BY <2>1, RemoveFirstType DEF Leave, Unlock, Rest
  <2>. QED
    BY <2>1, <2>2 DEF Leave, Unlock, Rest
<1>5. ASSUME NEW t \in Tab,
             HandleRegister(t) \/ HandleWorkerPort(t) \/ HandleInitialize(t) \/ HandleUnregister(t)
             \/ HandleHeartbeat(t)
      PROVE  Rest'
  BY <1>5 DEF HandleRegister, HandleWorkerPort, HandleInitialize, HandleUnregister, HandleHeartbeat, Rest
<1>6. ASSUME NEW t, TabClosing(t)
      PROVE  /\ ports' \in SUBSET Tab /\ seen' \in SUBSET Tab /\ waiting' \in SUBSET Tab
             /\ active' \in Tab \cup {NoTab}
             /\ state' \in {"uninitialized", "waiting-for-active", "ready"}
  BY <1>6 DEF TabClosing, Rest
<1>7. ASSUME NEW t \in Tab, HandleTabClosing(t) PROVE Rest'
  BY <1>6, <1>7 DEF HandleTabClosing, Rest
<1>8. ASSUME NEW t \in Tab, Expire(t) PROVE Rest'
  <2>1. lags' \in 0..MaxLags
    BY <1>8, BoundAssumption DEF Expire, Rest
  <2>. QED
    BY <1>6, <1>8, <2>1 DEF Expire, Rest
<1>9. ASSUME NEW t \in Tab, HandleSetActive(t) PROVE Rest'
  BY <1>9 DEF HandleSetActive, SetFirstActive, SwitchTarget, Rest
<1>10. ASSUME NEW t \in Tab, Opens(t) \/ OpenAgain(t) PROVE Rest'
  BY <1>10 DEF Opens, OpenAgain, Rest
<1>11. ASSUME NEW t \in Tab, OpenFails(t) PROVE Rest'
  <2>1. failures' \in 0..MaxFailures
    BY <1>11, BoundAssumption DEF OpenFails, Rest
  <2>. QED
    BY <1>11, <2>1 DEF OpenFails, Rest
<1>12. ASSUME NEW t \in Tab, Opened(t) \/ Starts(t) PROVE Rest'
  BY <1>12 DEF Opened, Starts, BecomesReady, Rest
<1>13. CASE Grant
  <2>1. queue # <<>> /\ queue \in Seq(Tab) /\ lock' = Head(queue) /\ queue' = Tail(queue)
    BY <1>13 DEF Grant, Rest
  <2>2. Head(queue) \in Tab /\ Tail(queue) \in Seq(Tab)
    BY <2>1, HeadTailProperties, LenProperties, EmptySeq
  <2>. QED
    BY <1>13, <2>1, <2>2 DEF Grant, Rest
<1>14. CASE QueryLock \/ LockAnswers
  BY <1>14 DEF QueryLock, LockAnswers, Rest
<1>15. CASE CheckLock
  BY <1>6, <1>15 DEF CheckLock, Rest
<1>. QED
  BY <1>1, <1>2, <1>3, <1>4, <1>5, <1>7, <1>8, <1>9, <1>10, <1>11, <1>12, <1>13, <1>14, <1>15
     DEF Next, Handle, FlowStep

-----------------------------------------------------------------------------
LEMMA TakeoverStep == TakeoverInv /\ [Next]_vars => TakeoverInv'
BY TabsKeep, EndKeeps, GrantKeeps, SetActiveKeeps, FlowStepKeeps, CheckKeeps DEF Next, Handle

\* The state keeps its shape; in particular no attempt to open the database is
\* numbered beyond REMOTE_DB_INIT_MAX_ATTEMPTS (startSharedWorker.ts).
THEOREM TakeoverTypes == Spec => []TypeOK
<1>1. Init => Rest
  BY BoundAssumption, EmptySeq DEF Init, Rest
<1>2. TakeoverInv /\ Rest /\ [Next]_vars => Rest'
  BY RestStep DEF TakeoverInv
<1>3. TakeoverInv /\ Rest => TypeOK
  BY DEF TakeoverInv, Shape, Rest, TypeOK
<1>. QED
  BY InitTakeover, TakeoverStep, <1>1, <1>2, <1>3, PTL DEF Spec

\* OpenAtHolder for any tabs, attempts, failures and lags: at no time do two
\* SQLite workers have the database file open, nor one without the lock.
THEOREM OpenAtHolderHolds == Spec => []OpenAtHolder
<1>1. TakeoverInv => OpenAtHolder
  BY DEF TakeoverInv
<1>. QED
  BY InitTakeover, TakeoverStep, <1>1, PTL DEF Spec

=============================================================================
