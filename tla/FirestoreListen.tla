--------------------------- MODULE FirestoreListen ---------------------------
(***************************************************************************)
(* The way of an answer from the server to the application: getDocuments   *)
(* and addSnapshotListener (FIRQuery.mm), the event manager and the views  *)
(* (FSTEventManager.mm, FSTSyncEngine.mm, FSTView.mm), the watch stream    *)
(* (FSTRemoteStore.mm, stream.mm) with its aggregator (FSTRemoteEvent.mm), *)
(* and the tracker that decides when the phone is off line                 *)
(* (FSTOnlineStateTracker.mm).                                             *)
(*                                                                         *)
(* getDocuments is a listener that is removed at its first event.  It      *)
(* waits for the server as long as the phone may be on line; once it is    *)
(* said to be off line it is answered from the cache.  A query that is     *)
(* listened to again has the target id it had: what the server still sends *)
(* for the listen before must not be taken for an answer to the new one.   *)
(***************************************************************************)
EXTENDS Integers, Sequences, FiniteSets

CONSTANTS
  Query,       \* the queries
  Listener,    \* bound: the calls of getDocuments and addSnapshotListener
  Get,         \* those of getDocuments
  Of,          \* the query of each
  MaxVersion,  \* bound: the changes of the documents
  MaxTrouble   \* bound: what goes wrong (see Trouble)

ASSUME ListenAssumption ==
  /\ IsFiniteSet(Query) /\ Get \subseteq Listener /\ Of \in [Listener -> Query]
  /\ MaxVersion \in Nat \ {0} /\ MaxTrouble \in Nat

VARIABLES
  listeners,  \* the listeners, on the worker queue and on the main queue
  inbox,      \* the events for each that wait on the main queue
  worker,     \* blocks on the worker queue: listeners to add and to remove
  views,      \* per query: its listeners and the last view snapshot
  cache,      \* on disk: the version of the documents of each query
  online,     \* the tracker: OnlineState, the timer, failures
  stream,     \* the state of the watch stream, and its idle timer
  targets,    \* the aggregator: the state of each target
  up, down,   \* requests and answers on the wire
  served,     \* the server: what it knows of each target on this stream
  pushed,     \* the server: the version it last sent on this stream
  world,      \* the version of the documents on the server
  net,        \* the phone has a connection
  troubles    \* what has gone against MaxTrouble

app == <<listeners, inbox, worker>>
client == <<views, cache, online, stream, targets>>
wire == <<up, down, served, pushed>>
outside == <<world, net, troubles>>
vars == <<app, client, wire, outside>>

Version == 0..MaxVersion  \* 0: no document
Event == [ver : Version, cached : BOOLEAN, error : BOOLEAN]

Request == [kind : {"watch", "unwatch"}, q : Query]
Change == [kind : {"added", "removed", "current", "error"}, q : Query]
            \union [kind : {"snapshot"}, ver : Version, of : SUBSET Query]
Block == [kind : {"add", "remove"}, l : Listener]

\* raised: raisedInitialEvent; muted: remove was called.  History: answers,
\* the events that reached the application; last, the last of them; born, the
\* version when it was called; lone, it was the first on its query, with all
\* that the stream owed waited for; starts, it started the stream.
NoEvent == [ver |-> 0, cached |-> TRUE, error |-> FALSE]
ListenerState == [at : {"new", "adding", "in", "gone"}, raised : BOOLEAN, muted : BOOLEAN,
                  answers : 0..2, last : Event, born : Version, lone : BOOLEAN,
                  starts : BOOLEAN]
NewListener == [at |-> "new", raised |-> FALSE, muted |-> FALSE, answers |-> 0,
                last |-> NoEvent, born |-> 0, lone |-> FALSE, starts |-> FALSE]

\* The limbo documents of a view are left out: it is synced when it is current.
View == [who : SUBSET Listener, ver : Version, current : BOOLEAN]
NoView == [who |-> {}, ver |-> 0, current |-> FALSE]
Listened == {q \in Query : views[q].who # {}}

\* FSTTargetState: _outstandingResponses, _current, _hasPendingChanges.
TargetState == [waits : Int, current : BOOLEAN, pending : BOOLEAN]
NewTarget == [waits |-> 0, current |-> FALSE, pending |-> TRUE]
NoTargets == [q \in Query |-> NewTarget]

Started == {"Starting", "Open", "Backoff"}
StreamState == [state : Started \union {"Initial", "Error"}, idle : BOOLEAN]
OnlineState == [state : {"Unknown", "Online", "Offline"}, timer : BOOLEAN, failed : BOOLEAN]
Trouble == troubles < MaxTrouble /\ troubles' = troubles + 1

-----------------------------------------------------------------------------
(* FSTOnlineStateTracker, as functions of its state                         *)

\* Slip: the timer goes on.
UpdatedOnTime(s) == [state |-> s, timer |-> online.timer, failed |-> FALSE]

\* updateState
Updated(s) == [state |-> s, timer |-> FALSE, failed |-> FALSE]

\* Slip: the timer is left to the failure of the stream.
AtStartWithoutTimer(o) == IF o.failed THEN o ELSE [o EXCEPT !.state = "Unknown"]

\* handleWatchStreamStart
AtStart(o) == IF o.failed THEN o ELSE [o EXCEPT !.state = "Unknown", !.timer = TRUE]

\* handleWatchStreamFailure; one failure is enough (kMaxWatchStreamFailures).
AtFailure(o) ==
  IF o.state = "Online" THEN [o EXCEPT !.state = "Unknown"]
  ELSE [state |-> "Offline", timer |-> FALSE, failed |-> TRUE]

\* FSTSyncEngine.applyChangedOnlineState: no view is current off line.
AfterOnlineState(vs, o) ==
  IF o.state = "Offline" /\ online.state # "Offline"
  THEN [q \in Query |-> [vs[q] EXCEPT !.current = FALSE]]
  ELSE vs

-----------------------------------------------------------------------------
(* FSTEventManager *)

\* shouldRaiseInitialEventForSnapshot
ShouldRaise(l, v, state) ==
  \/ v.current
  \/ state = "Offline"
  \/ l \notin Get /\ v.ver # 0

\* The event a listener gets when the views become vs and the tracker's state
\* becomes state: the first one when it is due, then one for each change of the
\* documents, and for getDocuments of the sync state too.
Raises(l, vs, state) ==
  LET v == vs[Of[l]]
      old == views[Of[l]]
  IN /\ l \in v.who
     /\ IF listeners[l].raised
        THEN v.ver # old.ver \/ (l \in Get /\ v.current # old.current)
        ELSE ShouldRaise(l, v, state)

\* handleViewSnapshots and applyChangedOnlineState
Notify(vs, o) ==
  /\ views' = vs /\ online' = o
  /\ LET hear == {l \in Listener : Raises(l, vs, o.state)} IN
     /\ listeners' = [l \in Listener |->
          [listeners[l] EXCEPT !.raised = @ \/ l \in hear,
                               !.at = IF l \in vs[Of[l]].who THEN "in" ELSE @]]
     /\ inbox' = [l \in Listener |->
          IF l \in hear
          THEN Append(inbox[l], [ver |-> vs[Of[l]].ver, cached |-> ~vs[Of[l]].current,
                                 error |-> FALSE])
          ELSE inbox[l]]

-----------------------------------------------------------------------------
(* FSTRemoteStore, the part of the watch stream *)

\* Slip: the idle timer goes on.
ClosedIdling(state) == [state |-> state, idle |-> stream.idle]

\* Close, and the start that may follow it: the idle timer is cancelled.
Closed(state) == [state |-> state, idle |-> FALSE]

\* Slip: a request does not cancel the idle timer.
WrittenIdling == stream

\* Write cancels it too.
Written == [stream EXCEPT !.idle = FALSE]

\* Slip: the responses the last stream owed are still waited for.
StartWatchStreamOwed(from) ==
  /\ UNCHANGED targets
  /\ stream' = Closed(IF from = "Error" THEN "Backoff" ELSE "Starting")

\* startWatchStream: a stream that failed waits before it starts.
StartWatchStream(from) ==
  /\ targets' = NoTargets
  /\ stream' = Closed(IF from = "Error" THEN "Backoff" ELSE "Starting")

NoWire == up' = <<>> /\ down' = <<>> /\ served' = [q \in Query |-> "no"] /\ pushed' = 0

\* sendWatchRequestWithQueryData and sendUnwatchRequestForTargetID
Send(kind, q) ==
  /\ up' = Append(up, [kind |-> kind, q |-> q])
  /\ targets' = [targets EXCEPT ![q].waits = @ + 1]

\* Slip: what comes while an answer is outstanding is taken for the new listen.
ActiveAlways(q) == q \in Listened

\* isActiveTarget
Active(q) == targets[q].waits = 0 /\ q \in Listened

\* The responses for q that the stream owes, and whether they are waited for.
Ask(q) == [kind : {"watch", "unwatch"}, q : {q}]
Reply(q) == [kind : {"added", "removed"}, q : {q}]
Places(s, S) == {i \in DOMAIN s : s[i] \in S}
Owed(q) == Cardinality(Places(up, Ask(q))) + Cardinality(Places(down, Reply(q)))
Counted(q) == stream.state = "Open" => targets[q].waits = Owed(q)

-----------------------------------------------------------------------------
(* The application *)

Call(l) ==
  /\ listeners[l].at = "new"
  /\ listeners' = [listeners EXCEPT ![l].at = "adding", ![l].born = world]
  /\ worker' = Append(worker, [kind |-> "add", l |-> l])
  /\ UNCHANGED <<inbox, client, wire, outside>>

\* remove, by the application, of a listener that is not a get.
Remove(l) ==
  /\ l \notin Get /\ listeners[l].at = "in" /\ ~listeners[l].muted
  /\ listeners' = [listeners EXCEPT ![l].muted = TRUE]
  /\ worker' = Append(worker, [kind |-> "remove", l |-> l])
  /\ UNCHANGED <<inbox, client, wire, outside>>

\* Slip: the events behind the first one reach the application too.
DeafTo(l) == l \notin Get /\ listeners[l].muted

Deaf(l) == listeners[l].muted

\* An event runs on the main queue.  The listener of getDocuments is muted and
\* removed at its first snapshot, before the completion is called.
Hear(l) ==
  /\ inbox[l] # <<>> /\ inbox' = [inbox EXCEPT ![l] = Tail(@)]
  /\ LET e == Head(inbox[l])
         ends == l \in Get /\ ~e.error /\ ~listeners[l].muted
     IN IF Deaf(l) THEN UNCHANGED <<listeners, worker>>
        ELSE /\ listeners' = [listeners EXCEPT ![l].answers = IF @ < 2 THEN @ + 1 ELSE @,
                                               ![l].last = e, ![l].muted = @ \/ ends]
             /\ worker' = IF ends THEN Append(worker, [kind |-> "remove", l |-> l]) ELSE worker
  /\ UNCHANGED <<client, wire, outside>>

-----------------------------------------------------------------------------
(* Blocks of the worker queue *)

NextBlock(kind, l) ==
  /\ worker # <<>> /\ Head(worker) = [kind |-> kind, l |-> l]
  /\ worker' = Tail(worker)

\* addListener, and listenToQuery for the first listener of the query.
AddListener(l) ==
  LET q == Of[l]
      first == views[q].who = {}
      ver == IF first THEN cache[q] ELSE views[q].ver
      vs == [views EXCEPT ![q] =
               [who |-> @.who \union {l}, ver |-> ver, current |-> ~first /\ @.current]]
      starts == first /\ stream.state \notin Started
      o == IF starts THEN AtStart(online) ELSE online
      hear == {k \in {l} : ShouldRaise(k, vs[q], online.state) \/ ShouldRaise(k, vs[q], o.state)}
  IN /\ NextBlock("add", l)
     /\ views' = vs /\ online' = o
     /\ listeners' = [listeners EXCEPT ![l].at = "in", ![l].raised = hear # {},
                                         ![l].lone = first /\ Counted(q), ![l].starts = starts]
     /\ inbox' = IF hear = {} THEN inbox
                 ELSE [inbox EXCEPT ![l] = Append(@, [ver |-> ver, cached |-> ~vs[q].current,
                                                      error |-> FALSE])]
     /\ IF starts
        THEN StartWatchStream(stream.state) /\ UNCHANGED up
        ELSE IF first /\ stream.state = "Open"
        THEN Send("watch", q) /\ stream' = Written
        ELSE UNCHANGED <<stream, targets, up>>
     /\ UNCHANGED <<cache, down, served, pushed, outside>>

\* removeListener, and stopListeningToQuery for the last listener.
RemoveListener(l) ==
  LET q == Of[l]
      last == views[q].who = {l}
      none == last /\ Listened = {q}
  IN /\ NextBlock("remove", l)
     /\ listeners' = [listeners EXCEPT ![l].at = "gone"]
     /\ views' = IF last THEN [views EXCEPT ![q] = NoView]
                 ELSE [views EXCEPT ![q].who = @ \ {l}]
     /\ IF last /\ stream.state = "Open"
        THEN Send("unwatch", q) /\ stream' = [Written EXCEPT !.idle = none]
        ELSE UNCHANGED <<up, targets, stream>>
     /\ online' = IF none /\ stream.state # "Open" THEN Updated("Unknown") ELSE online
     /\ UNCHANGED <<inbox, cache, down, served, pushed, outside>>

\* The stream has its token: it is open at once, and all targets are requested.
StreamOpens ==
  /\ stream.state = "Starting"
  /\ stream' = [stream EXCEPT !.state = "Open"]
  /\ \E order \in [1..Cardinality(Listened) -> Listened] :
       /\ \A q \in Listened : \E i \in DOMAIN order : order[i] = q
       /\ up' = [i \in DOMAIN order |-> [kind |-> "watch", q |-> order[i]]]
  /\ targets' = [q \in Query |->
       IF q \in Listened THEN [targets[q] EXCEPT !.waits = @ + 1] ELSE targets[q]]
  /\ UNCHANGED <<app, views, cache, online, down, served, pushed, outside>>

\* watchStreamWasInterruptedWithError
Interrupted ==
  LET again == Listened # {}
      o == IF again THEN AtStart(AtFailure(online)) ELSE Updated("Unknown")
  IN /\ Notify(AfterOnlineState(views, AtFailure(online)), o)
     /\ IF again THEN StartWatchStream("Error")
        ELSE stream' = Closed("Error") /\ UNCHANGED targets
     /\ NoWire /\ UNCHANGED <<worker, cache>>

\* Without a connection an attempt may fail, or hang; with one it may break.
StreamFails ==
  /\ stream.state \in {"Starting", "Open"}
  /\ IF net = "down" THEN UNCHANGED troubles ELSE Trouble
  /\ Interrupted
  /\ UNCHANGED <<world, net>>

BackoffElapsed ==
  /\ stream.state = "Backoff"
  /\ stream' = [stream EXCEPT !.state = "Starting"]
  /\ UNCHANGED <<app, views, cache, online, targets, wire, outside>>

\* The timer of MarkIdle: a graceful stop.
IdleTimeout ==
  /\ stream.idle
  /\ stream' = Closed("Initial")
  /\ Notify(views, Updated("Unknown"))
  /\ NoWire /\ UNCHANGED <<worker, cache, targets, outside>>

\* credentialDidChange: the streams are stopped, and started as needed.
CredentialDidChange ==
  LET from == IF stream.state \in Started THEN "Initial" ELSE stream.state
      o == Updated("Unknown")
  IN /\ Trouble
     /\ Notify(views, IF Listened # {} THEN AtStart(o) ELSE o)
     /\ IF Listened # {} THEN StartWatchStream(from)
        ELSE stream' = Closed(from) /\ UNCHANGED targets
     /\ NoWire /\ UNCHANGED <<worker, cache, world, net>>

\* The timer of the tracker.
OnlineStateTimeout ==
  /\ online.timer
  /\ LET o == [online EXCEPT !.state = "Offline", !.timer = FALSE]
     IN Notify(AfterOnlineState(views, o), o)
  /\ UNCHANGED <<worker, cache, stream, targets, wire, outside>>

-----------------------------------------------------------------------------
(* watchStreamDidChange: an answer arrives, which shows the phone on line *)

Receive(kind) ==
  /\ net = "up" /\ stream.state = "Open"
  /\ down # <<>> /\ Head(down).kind = kind
  /\ down' = Tail(down)
  /\ UNCHANGED <<worker, stream, up, served, pushed, outside>>

TargetAdded ==
  /\ Receive("added") /\ Notify(views, Updated("Online"))
  /\ LET q == Head(down).q IN
     targets' = [targets EXCEPT ![q].waits = @ - 1,
                                ![q].pending = @ /\ targets[q].waits # 1]
  /\ UNCHANGED cache

TargetRemoved ==
  /\ Receive("removed") /\ Notify(views, Updated("Online"))
  /\ LET q == Head(down).q IN
     targets' = [targets EXCEPT ![q] =
       IF targets[q].waits = 1 THEN NewTarget ELSE [targets[q] EXCEPT !.waits = @ - 1]]
  /\ UNCHANGED cache

TargetCurrent ==
  /\ Receive("current") /\ Notify(views, Updated("Online"))
  /\ LET q == Head(down).q IN
     targets' = IF Active(q)
                THEN [targets EXCEPT ![q].current = TRUE, ![q].pending = TRUE] ELSE targets
  /\ UNCHANGED cache

\* A global snapshot: the documents of the active targets it has news of go to
\* the cache, and the views take over what is pending.
RaiseWatchSnapshot ==
  /\ Receive("snapshot")
  /\ LET news == {q \in Head(down).of : Active(q)}
         told == {q \in Query : Active(q) /\ (targets[q].pending \/ q \in news)}
     IN /\ cache' = [q \in Query |-> IF q \in news THEN Head(down).ver ELSE cache[q]]
        /\ Notify([q \in Query |->
                     [views[q] EXCEPT !.ver = IF q \in news THEN Head(down).ver ELSE @,
                                      !.current = IF q \in told THEN targets[q].current ELSE @]],
                  Updated("Online"))
        /\ targets' = [q \in Query |->
             [targets[q] EXCEPT !.pending = @ /\ q \notin told]]

\* processTargetErrorForWatchChange: the listeners are told, and forgotten.
TargetError ==
  /\ Receive("error") /\ UNCHANGED cache
  /\ LET q == Head(down).q
         hear == views[q].who
     IN /\ views' = [views EXCEPT ![q] = NoView]
        /\ online' = Updated("Online")
        /\ targets' = IF q \in Listened THEN [targets EXCEPT ![q] = NewTarget] ELSE targets
        /\ listeners' = [l \in Listener |->
             IF l \in hear THEN [listeners[l] EXCEPT !.at = "gone"] ELSE listeners[l]]
        /\ inbox' = [l \in Listener |->
             IF l \in hear
             THEN Append(inbox[l], [ver |-> 0, cached |-> TRUE, error |-> TRUE]) ELSE inbox[l]]

-----------------------------------------------------------------------------
(* The server.  It answers the requests of a stream in their order, an        *)
(* unwatch also when it has given up the target.                              *)

Serving == net = "up" /\ stream.state = "Open"

AnswerRequest ==
  /\ Serving /\ up # <<>> /\ up' = Tail(up)
  /\ LET r == Head(up) IN
     /\ down' = Append(down, [kind |-> IF r.kind = "watch" THEN "added" ELSE "removed", q |-> r.q])
     /\ served' = [served EXCEPT ![r.q] = IF r.kind = "watch" THEN "added" ELSE "no"]
  /\ UNCHANGED <<app, client, pushed, outside>>

Current == {q \in Query : served[q] = "current"}

\* The target is caught up, in a snapshot of all that is current.
CatchUp(q) ==
  /\ Serving /\ served[q] = "added"
  /\ served' = [served EXCEPT ![q] = "current"]
  /\ down' = down \o <<[kind |-> "current", q |-> q],
                       [kind |-> "snapshot", ver |-> world, of |-> Current \union {q}]>>
  /\ pushed' = world
  /\ UNCHANGED <<app, client, up, outside>>

PushChange ==
  /\ Serving /\ Current # {} /\ pushed < world
  /\ down' = Append(down, [kind |-> "snapshot", ver |-> world, of |-> Current])
  /\ pushed' = world
  /\ UNCHANGED <<app, client, up, served, outside>>

\* The target is given up, with a cause.
RefuseTarget(q) ==
  /\ Serving /\ Trouble /\ served[q] # "no"
  /\ served' = [served EXCEPT ![q] = "no"]
  /\ down' = Append(down, [kind |-> "error", q |-> q])
  /\ UNCHANGED <<app, client, up, pushed, world, net>>

\* Somebody writes.
SomebodyWrites ==
  /\ world < MaxVersion /\ world' = world + 1
  /\ UNCHANGED <<app, client, wire, net, troubles>>

Connection ==
  /\ Trouble /\ net' = IF net = "up" THEN "down" ELSE "up"
  /\ UNCHANGED <<app, client, wire, world>>

-----------------------------------------------------------------------------

Init ==
  /\ listeners = [l \in Listener |-> NewListener]
  /\ inbox = [l \in Listener |-> <<>>] /\ worker = <<>>
  /\ views = [q \in Query |-> NoView] /\ cache = [q \in Query |-> 0]
  /\ online = [state |-> "Unknown", timer |-> FALSE, failed |-> FALSE]
  /\ stream = [state |-> "Initial", idle |-> FALSE]
  /\ targets = NoTargets
  /\ up = <<>> /\ down = <<>> /\ served = [q \in Query |-> "no"] /\ pushed = 0
  /\ world = 1 /\ net \in {"up", "down"} /\ troubles = 0

Blocks == \E l \in Listener : AddListener(l) \/ RemoveListener(l)
Answers ==
  TargetAdded \/ TargetRemoved \/ TargetCurrent \/ RaiseWatchSnapshot \/ TargetError
Server == AnswerRequest \/ PushChange \/ \E q \in Query : CatchUp(q)

Next ==
  \/ \E l \in Listener : Call(l) \/ Remove(l) \/ Hear(l)
  \/ Blocks \/ StreamOpens \/ StreamFails \/ BackoffElapsed
  \/ IdleTimeout \/ CredentialDidChange \/ OnlineStateTimeout
  \/ Answers \/ Server \/ (\E q \in Query : RefuseTarget(q))
  \/ SomebodyWrites \/ Connection

Spec == Init /\ [][Next]_vars

\* The two queues run, timers elapse, and with a connection the stream opens and
\* the server serves it.  Without one an attempt may hang; a stream that had
\* answers breaks (the transport gives up).
Network == Answers \/ Server \/ (net = "up" /\ StreamOpens) \/ BackoffElapsed

FairSpec ==
  /\ Spec
  /\ WF_vars(Network) /\ WF_vars(Blocks) /\ WF_vars(OnlineStateTimeout)
  /\ WF_vars(\E l \in Listener : Hear(l))
  /\ WF_vars(net = "down" /\ online.state = "Online" /\ StreamFails)

-----------------------------------------------------------------------------

AppTypeOK ==
  /\ listeners \in [Listener -> ListenerState] /\ inbox \in [Listener -> Seq(Event)]
  /\ worker \in Seq(Block)

ClientTypeOK ==
  /\ views \in [Query -> View] /\ cache \in [Query -> Version]
  /\ online \in OnlineState /\ stream \in StreamState
  /\ targets \in [Query -> TargetState]

WireTypeOK ==
  /\ up \in Seq(Request) /\ down \in Seq(Change)
  /\ served \in [Query -> {"no", "added", "current"}] /\ pushed \in Version

OutsideTypeOK == world \in Version /\ net \in {"up", "down"} /\ troubles \in 0..MaxTrouble

\* Every variable keeps its type, and the idle timer, of an open stream that
\* serves nobody, never outlives that stream: a request, a close or a new start
\* cancels it.
TypeOK ==
  /\ AppTypeOK /\ ClientTypeOK /\ WireTypeOK /\ OutsideTypeOK
  /\ stream.idle => stream.state = "Open"

\* Listens to one query follow each other under one target id, and answers to
\* the listens before are still on the wire.  The first to ask for a query while
\* all of those are waited for, when it is told that the answer is not of the
\* cache, is told once, and what the server had when it asked, or newer.  (A
\* target that was refused twice can owe more than is waited for: then what an
\* earlier listen is sent is taken for the answer.)
FreshIfServer ==
  \A l \in Get :
    LET r == listeners[l] IN
    /\ r.answers <= 1
    /\ r.answers > 0 /\ r.lone /\ ~r.last.cached => r.last.ver >= r.born

\* The assertions of the tracker and of the stream's life: the timer runs while
\* an attempt does and nothing is known (FSTOnlineStateTracker.mm:95 and 99),
\* on line means that nothing failed since (120, 121), a stream stops by itself
\* only when it is not needed (FSTRemoteStore.mm:339), and it is up while it is.
AssertionsHold ==
  /\ online.timer => online.state = "Unknown" /\ stream.state \in Started
  /\ online.state = "Online" => ~online.failed /\ stream.state = "Open"
  /\ Listened # {} => stream.state \in Started
  /\ stream.idle => Listened = {}

\* "The number of outstanding responses (adds or removes) that we are waiting
\* on" (FSTRemoteEvent.mm:149) is wrong once an error of an earlier listen was
\* taken for one of the new listen: the target is then never active again.
Miscounted(q) == targets[q].waits < 0

\* When nothing is on the wire the two ends agree: what is listened to is
\* served, no response is waited for, and what the server has sent is shown,
\* as current, also after the phone was said to be off line (FSTView.mm:391),
\* unless the responses were miscounted.
EndsAgree ==
  stream.state = "Open" /\ up = <<>> /\ down = <<>> =>
    \A q \in {p \in Query : ~Miscounted(p)} :
      /\ targets[q].waits = 0
      /\ (q \in Listened) <=> (served[q] # "no")
      /\ served[q] = "current" => views[q].current /\ views[q].ver = pushed

\* The attempt in progress hangs and no timer runs: the last listener before
\* this one was removed while the stream was not open, which cleared the timer
\* and left the stream started.
Stuck(l) ==
  /\ net = "down" /\ stream.state \in {"Starting", "Open"} /\ ~online.timer
  /\ online.state = "Unknown" /\ ~listeners[l].starts

\* getDocuments is answered, by the server, from the cache or with an error,
\* whatever the connection does, except in two cases that it does not provide
\* for.
GetAnswered ==
  \A l \in Get :
    listeners[l].at = "adding"
      ~> listeners[l].answers > 0 \/ Stuck(l) \/ Miscounted(Of[l])

=============================================================================
