------------------------ MODULE FirestoreListenProofs ------------------------
(***************************************************************************)
(* Theorems about FirestoreListen, for every finite set of queries, every  *)
(* set of listeners and however often the stream breaks, from three        *)
(* invariants, each of which rests on those before it:                     *)
(*                                                                         *)
(*   LifeInv   the types, the tracker and the life of the stream;          *)
(*   WireInv   what the requests and the answers that are under way leave  *)
(*             the two ends of the stream to agree on;                     *)
(*   FreshInv  what can still be told to a listener, on its way from the   *)
(*             server over the view and the queue of events.               *)
(***************************************************************************)
EXTENDS FirestoreListen, FiniteSetTheorems, FunctionTheorems, TLAPS

-----------------------------------------------------------------------------
(* Records *)

\* A listener whose fields are assigned stays one.
LEMMA ListenerMoved ==
  ASSUME NEW r \in ListenerState, NEW a \in {"new", "adding", "in", "gone"}
  PROVE  [r EXCEPT !.at = a] \in ListenerState
BY DEF ListenerState

LEMMA ListenerMuted ==
  ASSUME NEW r \in ListenerState
  PROVE  [r EXCEPT !.muted = TRUE] \in ListenerState
BY DEF ListenerState

LEMMA ListenerCalled ==
  ASSUME NEW r \in ListenerState, NEW v \in Version
  PROVE  [r EXCEPT !.at = "adding", !.born = v] \in ListenerState
BY DEF ListenerState

LEMMA ListenerRaised ==
  ASSUME NEW r \in ListenerState, NEW a \in {"new", "adding", "in", "gone"}, NEW b \in BOOLEAN
  PROVE  [r EXCEPT !.raised = b, !.at = a] \in ListenerState
BY DEF ListenerState

LEMMA ListenerAnswered ==
  ASSUME NEW r \in ListenerState, NEW n \in 0..2, NEW e \in Event, NEW b \in BOOLEAN
  PROVE  [r EXCEPT !.answers = n, !.last = e, !.muted = b] \in ListenerState
BY DEF ListenerState

LEMMA ListenerAdded ==
  ASSUME NEW r \in ListenerState, NEW b \in BOOLEAN, NEW c \in BOOLEAN, NEW d \in BOOLEAN
  PROVE  [r EXCEPT !.at = "in", !.raised = b, !.lone = c, !.starts = d] \in ListenerState
BY DEF ListenerState

\* A target that waits for another number of responses, or has news.
LEMMA TargetWaits ==
  ASSUME NEW r \in TargetState, NEW n \in Int
  PROVE  [r EXCEPT !.waits = n] \in TargetState
BY DEF TargetState

LEMMA TargetAnswered ==
  ASSUME NEW r \in TargetState, NEW n \in Int, NEW b \in BOOLEAN
  PROVE  [r EXCEPT !.waits = n, !.pending = b] \in TargetState
BY DEF TargetState

LEMMA TargetChanged ==
  ASSUME NEW r \in TargetState, NEW b \in BOOLEAN
  PROVE  /\ [r EXCEPT !.pending = b] \in TargetState
         /\ [r EXCEPT !.current = TRUE, !.pending = TRUE] \in TargetState
<1>1. [r EXCEPT !.pending = b] \in TargetState
  BY DEF TargetState
<1>2. [r EXCEPT !.current = TRUE, !.pending = TRUE] \in TargetState
  BY DEF TargetState
<1> QED BY <1>1, <1>2

\* A view that changes some of its fields.
LEMMA ViewOffline ==
  ASSUME NEW v \in View
  PROVE  [v EXCEPT !.current = FALSE] \in View /\ [v EXCEPT !.current = FALSE].who = v.who
BY DEF View

LEMMA ViewLeft ==
  ASSUME NEW v \in View, NEW w \in SUBSET Listener
  PROVE  [v EXCEPT !.who = w] \in View /\ [v EXCEPT !.who = w].who = w
BY DEF View

LEMMA ViewTold ==
  ASSUME NEW v \in View, NEW n \in Version, NEW b \in BOOLEAN
  PROVE  /\ [v EXCEPT !.ver = n, !.current = b] \in View
         /\ [v EXCEPT !.ver = n, !.current = b].who = v.who
BY DEF View

LEMMA ViewNew ==
  ASSUME NEW w \in SUBSET Listener, NEW n \in Version, NEW b \in BOOLEAN
  PROVE  /\ [who |-> w, ver |-> n, current |-> b] \in View
         /\ [who |-> w, ver |-> n, current |-> b].who = w
BY DEF View

\* The values the variables start with, and are reset to.
LEMMA Defaults ==
  /\ NewListener \in ListenerState
  /\ NoView \in View /\ NoView.who = {}
  /\ NewTarget \in TargetState /\ NoTargets \in [Query -> TargetState]
<1>1. NewListener \in ListenerState
  BY ListenAssumption DEF NewListener, NoEvent, ListenerState, Event, Version
<1>2. NoView \in View /\ NoView.who = {}
  BY ListenAssumption DEF NoView, View, Version
<1>3. NewTarget \in TargetState
  BY DEF NewTarget, TargetState
<1> QED BY <1>1, <1>2, <1>3 DEF NoTargets

-----------------------------------------------------------------------------
(* The tracker, the views and the stream *)

\* What the tracker's functions return.
LEMMA TrackerType ==
  /\ \A s \in {"Unknown", "Online", "Offline"} : Updated(s) \in OnlineState
  /\ \A o \in OnlineState : AtStart(o) \in OnlineState /\ AtFailure(o) \in OnlineState
BY DEF Updated, AtStart, AtFailure, OnlineState

\* Off line the views keep their listeners.
LEMMA AfterOnlineStateType ==
  ASSUME NEW vs \in [Query -> View], NEW o
  PROVE  /\ AfterOnlineState(vs, o) \in [Query -> View]
         /\ \A q \in Query : AfterOnlineState(vs, o)[q].who = vs[q].who
<1>1. CASE o.state = "Offline" /\ online.state # "Offline"
  <2>1. AfterOnlineState(vs, o) = [q \in Query |-> [vs[q] EXCEPT !.current = FALSE]]
    BY <1>1 DEF AfterOnlineState
  <2>2. \A q \in Query : vs[q] \in View
    OBVIOUS
  <2> QED BY <2>1, <2>2, ViewOffline
<1>2. CASE ~(o.state = "Offline" /\ online.state # "Offline")
  BY <1>2 DEF AfterOnlineState
<1> QED BY <1>1, <1>2

\* What Notify changes keeps its type.
LEMMA NotifyType ==
  ASSUME AppTypeOK, NEW vs \in [Query -> View], NEW o, Notify(vs, o)
  PROVE  /\ views' = vs /\ online' = o
         /\ listeners' \in [Listener -> ListenerState]
         /\ inbox' \in [Listener -> Seq(Event)]
<1> DEFINE hear == {l \in Listener : Raises(l, vs, o.state)}
           event(l) == [ver |-> vs[Of[l]].ver, cached |-> ~vs[Of[l]].current, error |-> FALSE]
           raised(l) == listeners[l].raised \/ l \in hear
           at(l) == IF l \in vs[Of[l]].who THEN "in" ELSE listeners[l].at
<1>1. views' = vs /\ online' = o
  BY DEF Notify
<1>2. listeners' = [l \in Listener |-> [listeners[l] EXCEPT !.raised = raised(l), !.at = at(l)]]
  BY DEF Notify
<1>3. inbox' = [l \in Listener |-> IF l \in hear THEN Append(inbox[l], event(l)) ELSE inbox[l]]
  BY DEF Notify
<1>4. ASSUME NEW l \in Listener PROVE event(l) \in Event
  BY ListenAssumption DEF Event, View
<1>5. ASSUME NEW l \in Listener
      PROVE  [listeners[l] EXCEPT !.raised = raised(l), !.at = at(l)] \in ListenerState
  <2>1. raised(l) \in BOOLEAN
    OBVIOUS
  <2>2. listeners[l] \in ListenerState
    BY DEF AppTypeOK
  <2>3. at(l) \in {"new", "adding", "in", "gone"}
    BY <2>2 DEF ListenerState
  <2> HIDE DEF raised, at
  <2> QED BY <2>1, <2>2, <2>3, ListenerRaised
<1>6. listeners' \in [Listener -> ListenerState]
  BY <1>2, <1>5
<1>7. inbox' \in [Listener -> Seq(Event)]
  <2> HIDE DEF hear, event
  <2> QED BY <1>3, <1>4 DEF AppTypeOK
<1> QED BY <1>1, <1>6, <1>7

\* What the end of a stream, and its start, leave behind.
LEMMA ClosedType ==
  ASSUME NEW s \in {"Starting", "Backoff", "Initial", "Error"}
  PROVE  Closed(s) \in StreamState /\ Closed(s).state = s /\ ~Closed(s).idle
BY DEF Closed, StreamState, Started

LEMMA StartType ==
  ASSUME NEW from, StartWatchStream(from)
  PROVE  /\ stream' \in StreamState /\ ~stream'.idle /\ stream'.state \in {"Starting", "Backoff"}
         /\ targets' \in [Query -> TargetState]
BY Defaults, ClosedType DEF StartWatchStream

\* A new wire is empty.
LEMMA NoWireType == NoWire => WireTypeOK'
BY ListenAssumption DEF NoWire, WireTypeOK, Version

\* One more request on the wire.
LEMMA SendType ==
  ASSUME WireTypeOK, ClientTypeOK, NEW kind \in {"watch", "unwatch"}, NEW q \in Query,
         Send(kind, q)
  PROVE  up' \in Seq(Request) /\ targets' \in [Query -> TargetState]
<1>1. [kind |-> kind, q |-> q] \in Request
  BY DEF Request
<1>2. up' \in Seq(Request)
  BY <1>1 DEF WireTypeOK, Send
<1>3. targets' = [targets EXCEPT ![q] = [targets[q] EXCEPT !.waits = targets[q].waits + 1]]
  BY DEF Send
<1>4. targets[q] \in TargetState /\ targets[q].waits + 1 \in Int
  BY DEF ClientTypeOK, TargetState
<1>5. [targets[q] EXCEPT !.waits = targets[q].waits + 1] \in TargetState
  BY <1>4, TargetWaits
<1> QED BY <1>2, <1>3, <1>5 DEF ClientTypeOK

-----------------------------------------------------------------------------
(* The invariant *)

\* The assertions are inductive with the types.
LifeInv == TypeOK /\ AssertionsHold

\* The part of it that is about the client.
ClientInv ==
  /\ ClientTypeOK
  /\ stream.idle => stream.state = "Open"
  /\ AssertionsHold

LEMMA LifeParts == LifeInv <=> AppTypeOK /\ ClientInv /\ WireTypeOK /\ OutsideTypeOK
BY DEF LifeInv, ClientInv, TypeOK

LEMMA LifeNext == AppTypeOK' /\ ClientInv' /\ WireTypeOK' /\ OutsideTypeOK' => LifeInv'
BY DEF LifeInv, ClientInv, TypeOK

\* What an action leaves alone.
LEMMA Kept ==
  ASSUME LifeInv
  PROVE  /\ UNCHANGED app => AppTypeOK'
         /\ UNCHANGED client => ClientInv'
         /\ UNCHANGED wire => WireTypeOK'
         /\ UNCHANGED outside => OutsideTypeOK'
<1>1. UNCHANGED app => AppTypeOK'
  BY LifeParts DEF app, AppTypeOK
<1>2. UNCHANGED client => ClientInv'
  BY LifeParts DEF client, ClientInv, ClientTypeOK, AssertionsHold, Listened
<1>3. UNCHANGED wire => WireTypeOK'
  BY LifeParts DEF wire, WireTypeOK
<1>4. UNCHANGED outside => OutsideTypeOK'
  BY LifeParts DEF outside, OutsideTypeOK
<1> QED BY <1>1, <1>2, <1>3, <1>4

LEMMA LifeInit == Init => LifeInv
<1> SUFFICES ASSUME Init PROVE LifeInv
  OBVIOUS
<1>1. AppTypeOK
  BY Defaults DEF Init, AppTypeOK
<1>2. ClientTypeOK
  BY Defaults, ListenAssumption
  DEF Init, ClientTypeOK, OnlineState, StreamState, Started, Version
<1>3. AssertionsHold /\ ~stream.idle
  BY Defaults DEF Init, AssertionsHold, Listened
<1>4. WireTypeOK
  BY ListenAssumption DEF Init, WireTypeOK, Version
<1>5. OutsideTypeOK
  BY ListenAssumption DEF Init, OutsideTypeOK, Version
<1> QED BY <1>1, <1>2, <1>3, <1>4, <1>5, LifeParts DEF ClientInv

-----------------------------------------------------------------------------
(* The application *)

LEMMA LifeCall ==
  ASSUME LifeInv, NEW l \in Listener, Call(l)
  PROVE  LifeInv'
<1>1. worker' \in Seq(Block)
  <2>1. [kind |-> "add", l |-> l] \in Block
    BY DEF Block
  <2> QED BY <2>1, LifeParts DEF Call, AppTypeOK
<1>2. listeners' \in [Listener -> ListenerState]
  <2>1. listeners' = [listeners EXCEPT ![l] = [listeners[l] EXCEPT !.at = "adding", !.born = world]]
    BY LifeParts DEF Call, AppTypeOK
  <2> QED BY <2>1, ListenerCalled, LifeParts DEF AppTypeOK, OutsideTypeOK
<1>3. AppTypeOK'
  BY <1>1, <1>2, LifeParts DEF Call, AppTypeOK
<1> QED BY <1>3, Kept, LifeNext DEF Call

LEMMA LifeRemove ==
  ASSUME LifeInv, NEW l \in Listener, Remove(l)
  PROVE  LifeInv'
<1>1. worker' \in Seq(Block)
  <2>1. [kind |-> "remove", l |-> l] \in Block
    BY DEF Block
  <2> QED BY <2>1, LifeParts DEF Remove, AppTypeOK
<1>2. listeners' \in [Listener -> ListenerState]
  <2>1. listeners' = [listeners EXCEPT ![l] = [listeners[l] EXCEPT !.muted = TRUE]]
    BY DEF Remove
  <2> QED BY <2>1, ListenerMuted, LifeParts DEF AppTypeOK
<1>3. AppTypeOK'
  BY <1>1, <1>2, LifeParts DEF Remove, AppTypeOK
<1> QED BY <1>3, Kept, LifeNext DEF Remove

LEMMA LifeHear ==
  ASSUME LifeInv, NEW l \in Listener, Hear(l)
  PROVE  LifeInv'
<1> DEFINE e == Head(inbox[l])
           ends == l \in Get /\ ~e.error /\ ~listeners[l].muted
           n == IF listeners[l].answers < 2 THEN listeners[l].answers + 1 ELSE listeners[l].answers
           m == listeners[l].muted \/ ends
<1>1. inbox[l] \in Seq(Event) /\ inbox[l] # <<>>
  BY LifeParts DEF Hear, AppTypeOK
<1>2. e \in Event /\ inbox' \in [Listener -> Seq(Event)]
  BY <1>1, LifeParts DEF Hear, AppTypeOK
<1>3. listeners[l] \in ListenerState
  BY LifeParts DEF AppTypeOK
<1>4. CASE Deaf(l)
  <2>1. AppTypeOK'
    BY <1>2, <1>4, LifeParts DEF Hear, AppTypeOK
  <2> QED BY <2>1, Kept, LifeNext DEF Hear
<1>5. CASE ~Deaf(l)
  <2>1. listeners' = [listeners EXCEPT ![l] = [listeners[l] EXCEPT !.answers = n, !.last = e, !.muted = m]]
    BY <1>5 DEF Hear
  <2>2. n \in 0..2
    BY <1>3 DEF ListenerState
  <2>3. m \in BOOLEAN
    OBVIOUS
  <2>4. [listeners[l] EXCEPT !.answers = n, !.last = e, !.muted = m] \in ListenerState
    <3> HIDE DEF n, e, m
    <3> QED BY <1>2, <1>3, <2>2, <2>3, ListenerAnswered
  <2>5. listeners' \in [Listener -> ListenerState]
    <3> HIDE DEF n, e, m
    <3> QED BY <2>1, <2>4, LifeParts DEF AppTypeOK
  <2>6. worker' = IF ends THEN Append(worker, [kind |-> "remove", l |-> l]) ELSE worker
    BY <1>5 DEF Hear
  <2>7. worker' \in Seq(Block)
    <3>1. [kind |-> "remove", l |-> l] \in Block
      BY DEF Block
    <3> HIDE DEF ends
    <3> QED BY <2>6, <3>1, LifeParts DEF AppTypeOK
  <2>8. AppTypeOK'
    BY <1>2, <2>5, <2>7 DEF AppTypeOK
  <2> QED BY <2>8, Kept, LifeNext DEF Hear
<1> QED BY <1>4, <1>5

-----------------------------------------------------------------------------
(* Blocks of the worker queue *)

\* The query of a listener, and its view.
LEMMA OfType ==
  ASSUME LifeInv, NEW l \in Listener
  PROVE  /\ Of[l] \in Query /\ views[Of[l]] \in View
         /\ cache[Of[l]] \in Version /\ views[Of[l]].ver \in Version
         /\ views[Of[l]].who \in SUBSET Listener
         /\ views[Of[l]].current \in BOOLEAN
         /\ listeners[l] \in ListenerState
<1>1. Of[l] \in Query
  BY ListenAssumption
<1>2. views[Of[l]] \in View /\ cache[Of[l]] \in Version
  BY <1>1, LifeParts DEF ClientInv, ClientTypeOK
<1> QED BY <1>1, <1>2, LifeParts DEF View, AppTypeOK

\* The worker queue goes on.
LEMMA BlockType ==
  ASSUME LifeInv, NEW kind, NEW l, NextBlock(kind, l)
  PROVE  worker' \in Seq(Block)
<1>1. worker \in Seq(Block)
  BY LifeParts DEF AppTypeOK
<1> QED BY <1>1 DEF NextBlock

\* One more event for a listener.
LEMMA EventType ==
  ASSUME LifeInv, NEW l \in Listener, NEW e \in Event
  PROVE  [inbox EXCEPT ![l] = Append(inbox[l], e)] \in [Listener -> Seq(Event)]
<1>1. inbox \in [Listener -> Seq(Event)]
  BY LifeParts DEF AppTypeOK
<1>2. Append(inbox[l], e) \in Seq(Event)
  BY <1>1
<1> QED BY <1>1, <1>2

\* The stream starts only when it serves nobody: then no timer runs.
LEMMA LifeAddListener ==
  ASSUME LifeInv, NEW l \in Listener, AddListener(l)
  PROVE  LifeInv'
<1> DEFINE q == Of[l]
           first == views[q].who = {}
           lone == first /\ Counted(q)
           ver == IF first THEN cache[q] ELSE views[q].ver
           current == ~first /\ views[q].current
           new == [who |-> views[q].who \union {l}, ver |-> ver, current |-> current]
           vs == [views EXCEPT ![q] = new]
           starts == first /\ stream.state \notin Started
           o == IF starts THEN AtStart(online) ELSE online
           hear == {k \in {l} : ShouldRaise(k, vs[q], online.state) \/ ShouldRaise(k, vs[q], o.state)}
           event == [ver |-> ver, cached |-> ~vs[q].current, error |-> FALSE]
           raised == hear # {}
<1>1. /\ NextBlock("add", l)
      /\ views' = vs /\ online' = o
      /\ listeners' = [listeners EXCEPT ![l].at = "in", ![l].raised = raised, ![l].lone = lone,
                                          ![l].starts = starts]
      /\ inbox' = IF ~raised THEN inbox ELSE [inbox EXCEPT ![l] = Append(@, event)]
      /\ IF starts
         THEN StartWatchStream(stream.state) /\ UNCHANGED up
         ELSE IF first /\ stream.state = "Open"
         THEN Send("watch", q) /\ stream' = Written
         ELSE UNCHANGED <<stream, targets, up>>
      /\ UNCHANGED <<cache, down, served, pushed, outside>>
  BY DEF AddListener
<1>2. /\ q \in Query /\ views[q] \in View /\ ver \in Version /\ listeners[l] \in ListenerState
      /\ views[q].who \in SUBSET Listener
  BY OfType
<1>3. current \in BOOLEAN /\ lone \in BOOLEAN /\ starts \in BOOLEAN /\ raised \in BOOLEAN
  BY OfType
<1>4. new \in View /\ new.who = views[q].who \union {l}
  <2> HIDE DEF ver, current
  <2> QED BY <1>2, <1>3, ViewNew
<1>5. vs \in [Query -> View] /\ vs[q] = new
  <2> HIDE DEF new
  <2> QED BY <1>2, <1>4, LifeParts DEF ClientInv, ClientTypeOK
<1>6. \A p \in Query : p # q => vs[p] = views[p]
  BY LifeParts DEF ClientInv, ClientTypeOK
<1>7. event \in Event
  <2>1. vs[q].current \in BOOLEAN
    <3> HIDE DEF vs
    <3> QED BY <1>2, <1>5 DEF View
  <2> HIDE DEF vs, ver
  <2> QED BY <1>2, <2>1 DEF Event
<1>8. AppTypeOK'
  <2>1. worker' \in Seq(Block)
    BY <1>1, BlockType
  <2>2. listeners' \in [Listener -> ListenerState]
    <3>1. listeners' = [listeners EXCEPT ![l] =
            [listeners[l] EXCEPT !.at = "in", !.raised = raised, !.lone = lone, !.starts = starts]]
      <4> HIDE DEF raised, lone, starts
      <4> QED BY <1>1, LifeParts DEF AppTypeOK
    <3>2. [listeners[l] EXCEPT !.at = "in", !.raised = raised, !.lone = lone, !.starts = starts]
            \in ListenerState
      <4> HIDE DEF raised, lone, starts
      <4> QED BY <1>2, <1>3, ListenerAdded
    <3> HIDE DEF raised, lone, starts
    <3> QED BY <3>1, <3>2, LifeParts DEF AppTypeOK
  <2>3. inbox' \in [Listener -> Seq(Event)]
    <3> HIDE DEF raised, event
    <3>1. inbox' = IF ~raised THEN inbox ELSE [inbox EXCEPT ![l] = Append(inbox[l], event)]
      BY <1>1
    <3> QED BY <3>1, <1>7, EventType, LifeParts DEF AppTypeOK
  <2> QED BY <2>1, <2>2, <2>3 DEF AppTypeOK
<1>9. Listened' \subseteq Listened \union {q}
  BY <1>1, <1>6 DEF Listened
<1> HIDE DEF vs, hear, event, raised, new
<1>10. CASE starts
  <2>1. Listened = {} /\ stream.state \notin Started
    BY <1>10, LifeParts DEF ClientInv, AssertionsHold
  <2>2. ~online.timer /\ online.state # "Online"
    BY <2>1, LifeParts DEF ClientInv, AssertionsHold, Started
  <2>3. online' = AtStart(online) /\ online' \in OnlineState
    BY <1>1, <1>10, TrackerType, LifeParts DEF ClientInv, ClientTypeOK
  <2>4. /\ online'.timer => online'.state = "Unknown"
        /\ online'.state # "Online"
    BY <2>2, <2>3, LifeParts DEF AtStart, ClientInv, ClientTypeOK, OnlineState
  <2>5. StartWatchStream(stream.state) /\ UNCHANGED up
    BY <1>1, <1>10
  <2>6. /\ stream' \in StreamState /\ ~stream'.idle /\ stream'.state \in Started
        /\ targets' \in [Query -> TargetState]
    BY <2>5, StartType DEF Started
  <2>7. ClientInv'
    BY <1>1, <1>5, <2>3, <2>4, <2>6, LifeParts DEF ClientInv, ClientTypeOK, AssertionsHold
  <2>8. WireTypeOK' /\ OutsideTypeOK'
    BY <1>1, <2>5, LifeParts DEF WireTypeOK, OutsideTypeOK, outside
  <2> QED BY <1>8, <2>7, <2>8, LifeNext
<1>11. CASE ~starts /\ first /\ stream.state = "Open"
  <2>1. Send("watch", q) /\ stream' = Written /\ online' = online
    BY <1>1, <1>11
  <2>2. up' \in Seq(Request) /\ targets' \in [Query -> TargetState]
    BY <1>2, <2>1, SendType, LifeParts DEF ClientInv
  <2>3. stream' \in StreamState /\ ~stream'.idle /\ stream'.state = "Open"
    BY <1>11, <2>1, LifeParts DEF Written, ClientInv, ClientTypeOK, StreamState
  <2>4. ClientInv'
    BY <1>1, <1>5, <1>11, <2>1, <2>2, <2>3, LifeParts
    DEF ClientInv, ClientTypeOK, AssertionsHold, Started
  <2>5. WireTypeOK' /\ OutsideTypeOK'
    BY <1>1, <2>2, LifeParts DEF WireTypeOK, OutsideTypeOK, outside
  <2> QED BY <1>8, <2>4, <2>5, LifeNext
<1>12. CASE ~starts /\ ~(first /\ stream.state = "Open")
  <2>1. UNCHANGED <<stream, targets, up, online>>
    BY <1>1, <1>12
  <2>2. stream.state \in Started /\ ~stream.idle
    <3>1. CASE first
      BY <3>1, <1>12, LifeParts DEF ClientInv
    <3>2. CASE ~first
      <4>1. q \in Listened
        BY <3>2, <1>2 DEF Listened
      <4> QED BY <4>1, LifeParts DEF ClientInv, AssertionsHold
    <3> QED BY <3>1, <3>2
  <2>3. ClientInv'
    BY <1>1, <1>5, <2>1, <2>2, LifeParts DEF ClientInv, ClientTypeOK, AssertionsHold
  <2>4. WireTypeOK' /\ OutsideTypeOK'
    BY <1>1, <2>1, LifeParts DEF WireTypeOK, OutsideTypeOK, outside
  <2> QED BY <1>8, <2>3, <2>4, LifeNext
<1> QED BY <1>10, <1>11, <1>12

LEMMA LifeRemoveListener ==
  ASSUME LifeInv, NEW l \in Listener, RemoveListener(l)
  PROVE  LifeInv'
<1> DEFINE q == Of[l]
           last == views[q].who = {l}
           none == last /\ Listened = {q}
<1>1. /\ NextBlock("remove", l)
      /\ listeners' = [listeners EXCEPT ![l].at = "gone"]
      /\ views' = IF last THEN [views EXCEPT ![q] = NoView]
                  ELSE [views EXCEPT ![q].who = views[q].who \ {l}]
      /\ IF last /\ stream.state = "Open"
         THEN Send("unwatch", q) /\ stream' = [Written EXCEPT !.idle = none]
         ELSE UNCHANGED <<up, targets, stream>>
      /\ online' = IF none /\ stream.state # "Open" THEN Updated("Unknown") ELSE online
      /\ UNCHANGED <<inbox, cache, down, served, pushed, outside>>
  BY DEF RemoveListener
<1>2. /\ q \in Query /\ views[q] \in View /\ listeners[l] \in ListenerState
      /\ views[q].who \in SUBSET Listener
  BY OfType
<1>3. views \in [Query -> View]
  BY LifeParts DEF ClientInv, ClientTypeOK
<1>4. AppTypeOK'
  <2>1. worker' \in Seq(Block)
    BY <1>1, BlockType
  <2>2. [listeners[l] EXCEPT !.at = "gone"] \in ListenerState
    BY <1>2, ListenerMoved
  <2>3. listeners' = [listeners EXCEPT ![l] = [listeners[l] EXCEPT !.at = "gone"]]
    BY <1>1
  <2>4. listeners' \in [Listener -> ListenerState]
    BY <2>2, <2>3, LifeParts DEF AppTypeOK
  <2> QED BY <1>1, <2>1, <2>4, LifeParts DEF AppTypeOK
\* The views keep their type and lose at most the listeners of q.
<1>5. views' \in [Query -> View] /\ Listened' \subseteq Listened /\ (last => Listened' = Listened \ {q})
  <2>1. CASE last
    <3>1. views' = [views EXCEPT ![q] = NoView]
      BY <1>1, <2>1
    <3> QED BY <1>2, <1>3, <2>1, <3>1, Defaults DEF Listened
  <2>2. CASE ~last
    <3> DEFINE left == [views[q] EXCEPT !.who = views[q].who \ {l}]
    <3>1. left \in View /\ left.who = views[q].who \ {l}
      BY <1>2, ViewLeft
    <3>2. views' = [views EXCEPT ![q] = left]
      BY <1>1, <2>2
    <3> HIDE DEF left
    <3> QED BY <1>2, <1>3, <2>2, <3>1, <3>2 DEF Listened
  <2> QED BY <2>1, <2>2
<1>6. online' \in OnlineState
  BY <1>1, TrackerType, LifeParts DEF ClientInv, ClientTypeOK
<1>7. OutsideTypeOK'
  BY <1>1, LifeParts DEF OutsideTypeOK, outside
<1>8. CASE last /\ stream.state = "Open"
  <2>1. Send("unwatch", q) /\ stream' = [Written EXCEPT !.idle = none] /\ online' = online
    BY <1>1, <1>8
  <2>2. up' \in Seq(Request) /\ targets' \in [Query -> TargetState]
    BY <1>2, <2>1, SendType, LifeParts DEF ClientInv
  <2>3. WireTypeOK'
    BY <1>1, <2>2, LifeParts DEF WireTypeOK
  <2>4. stream' \in StreamState /\ stream'.state = "Open" /\ stream'.idle = none
    <3>1. none \in BOOLEAN
      OBVIOUS
    <3> HIDE DEF none
    <3> QED BY <1>8, <2>1, <3>1, LifeParts DEF Written, ClientInv, ClientTypeOK, StreamState
  <2>5. none => Listened' = {}
    BY <1>5
  <2>6. ClientInv'
    <3> HIDE DEF none
    <3>1. ClientTypeOK'
      BY <1>1, <1>5, <1>6, <2>2, <2>4, LifeParts DEF ClientInv, ClientTypeOK
    <3>2. AssertionsHold'
      BY <1>8, <2>1, <2>4, <2>5, LifeParts DEF ClientInv, AssertionsHold, Started
    <3> QED BY <2>4, <3>1, <3>2 DEF ClientInv
  <2> QED BY <1>4, <1>7, <2>3, <2>6, LifeNext
<1>9. CASE ~(last /\ stream.state = "Open")
  <2>1. UNCHANGED <<up, targets, stream>>
    BY <1>1, <1>9
  <2>2. WireTypeOK'
    BY <1>1, <2>1, LifeParts DEF WireTypeOK
  <2>3. /\ online'.timer => online'.state = "Unknown" /\ stream.state \in Started
        /\ online'.state = "Online" => ~online'.failed /\ stream.state = "Open"
    BY <1>1, LifeParts DEF ClientInv, AssertionsHold, Updated
  <2>4. ClientInv'
    <3>1. ClientTypeOK'
      BY <1>1, <1>5, <1>6, <2>1, LifeParts DEF ClientInv, ClientTypeOK
    <3>2. AssertionsHold'
      BY <1>5, <2>1, <2>3, LifeParts DEF ClientInv, AssertionsHold
    <3> QED BY <2>1, <3>1, <3>2, LifeParts DEF ClientInv
  <2> QED BY <1>4, <1>7, <2>2, <2>4, LifeNext
<1> QED BY <1>8, <1>9

LEMMA LifeStreamOpens ==
  ASSUME LifeInv, StreamOpens
  PROVE  LifeInv'
<1>1. /\ stream.state = "Starting" /\ stream' = [stream EXCEPT !.state = "Open"]
      /\ targets' = [q \in Query |->
           IF q \in Listened THEN [targets[q] EXCEPT !.waits = targets[q].waits + 1] ELSE targets[q]]
      /\ UNCHANGED <<app, views, cache, online, down, served, pushed, outside>>
  BY DEF StreamOpens
<1>2. up' \in Seq(Request)
  <2>1. IsFiniteSet(Listened)
    BY ListenAssumption, FS_Subset DEF Listened
  <2>2. Cardinality(Listened) \in Nat
    BY <2>1, FS_CardinalityType
  <2>3. PICK order \in [1..Cardinality(Listened) -> Listened] :
          up' = [i \in DOMAIN order |-> [kind |-> "watch", q |-> order[i]]]
    BY DEF StreamOpens
  <2>4. up' = [i \in 1..Cardinality(Listened) |-> [kind |-> "watch", q |-> order[i]]]
    BY <2>3
  <2>5. \A i \in 1..Cardinality(Listened) : [kind |-> "watch", q |-> order[i]] \in Request
    BY <2>3 DEF Listened, Request
  <2> QED BY <2>2, <2>4, <2>5
<1>3. targets' \in [Query -> TargetState]
  <2>1. ASSUME NEW q \in Query
        PROVE  [targets[q] EXCEPT !.waits = targets[q].waits + 1] \in TargetState
    <3>1. targets[q] \in TargetState /\ targets[q].waits + 1 \in Int
      BY LifeParts DEF ClientInv, ClientTypeOK, TargetState
    <3> QED BY <3>1, TargetWaits
  <2> QED BY <1>1, <2>1, LifeParts DEF ClientInv, ClientTypeOK
<1>4. stream' \in StreamState /\ stream'.state = "Open" /\ ~stream'.idle
  BY <1>1, LifeParts DEF ClientInv, ClientTypeOK, StreamState, Started
<1>5. ClientInv'
  <2>1. ClientTypeOK'
    BY <1>1, <1>3, <1>4, LifeParts DEF ClientInv, ClientTypeOK
  <2>2. AssertionsHold'
    BY <1>1, <1>4, LifeParts DEF ClientInv, AssertionsHold, Started
  <2> QED BY <1>4, <2>1, <2>2 DEF ClientInv
<1>6. WireTypeOK'
  BY <1>1, <1>2, LifeParts DEF WireTypeOK
<1>7. AppTypeOK' /\ OutsideTypeOK'
  <2>1. UNCHANGED app /\ UNCHANGED outside
    BY <1>1
  <2> QED BY <2>1, Kept
<1> QED BY <1>5, <1>6, <1>7, LifeNext

-----------------------------------------------------------------------------
(* The end of a stream, and the timers *)

\* Views that have the listeners they had.
LEMMA ListenedKept ==
  ASSUME views' \in [Query -> View], \A q \in Query : views'[q].who = views[q].who
  PROVE  Listened' = Listened
BY DEF Listened

\* After a failure the phone is not on line, and no timer runs if it is off line.
LEMMA FailureTracked ==
  ASSUME LifeInv
  PROVE  LET o == AtFailure(online) IN
         /\ o \in OnlineState
         /\ ~o.timer /\ o.state \in {"Unknown", "Offline"}
         /\ o.failed => o.state = "Offline"
         /\ ~o.failed => o.state = "Unknown"
BY LifeParts DEF AtFailure, ClientInv, ClientTypeOK, AssertionsHold, OnlineState

LEMMA LifeInterrupted ==
  ASSUME LifeInv, Interrupted
  PROVE  AppTypeOK' /\ ClientInv' /\ WireTypeOK'
<1> DEFINE f == AtFailure(online)
           vs == AfterOnlineState(views, f)
           again == Listened # {}
           o == IF again THEN AtStart(f) ELSE Updated("Unknown")
<1>1. /\ Notify(vs, o)
      /\ IF again THEN StartWatchStream("Error")
         ELSE stream' = Closed("Error") /\ UNCHANGED targets
      /\ NoWire /\ UNCHANGED <<worker, cache>>
  BY DEF Interrupted
<1>2. vs \in [Query -> View] /\ \A q \in Query : vs[q].who = views[q].who
  BY AfterOnlineStateType, LifeParts DEF ClientInv, ClientTypeOK
<1>3. /\ views' = vs /\ online' = o
      /\ listeners' \in [Listener -> ListenerState]
      /\ inbox' \in [Listener -> Seq(Event)]
  <2> HIDE DEF vs, o
  <2> QED BY <1>1, <1>2, NotifyType, LifeParts
<1>4. Listened' = Listened
  BY <1>2, <1>3, ListenedKept
<1>5. AppTypeOK'
  BY <1>1, <1>3, LifeParts DEF AppTypeOK
<1>6. WireTypeOK'
  BY <1>1, NoWireType
<1>7. /\ f \in OnlineState /\ ~f.timer /\ f.state \in {"Unknown", "Offline"}
      /\ f.failed => f.state = "Offline"
      /\ ~f.failed => f.state = "Unknown"
  BY FailureTracked
<1> HIDE DEF f, vs
<1>8. CASE again
  <2>1. /\ stream' \in StreamState /\ ~stream'.idle /\ stream'.state \in Started
        /\ targets' \in [Query -> TargetState]
    BY <1>1, <1>8, StartType DEF Started
  <2>2. online' = AtStart(f) /\ online' \in OnlineState
    BY <1>3, <1>7, <1>8, TrackerType
  <2>3. (online'.timer => online'.state = "Unknown") /\ online'.state # "Online"
    BY <1>7, <2>2 DEF AtStart, OnlineState
  <2>4. ClientTypeOK'
    BY <1>1, <1>2, <1>3, <2>1, <2>2, LifeParts DEF ClientInv, ClientTypeOK
  <2>5. AssertionsHold'
    BY <2>1, <2>3 DEF AssertionsHold
  <2> QED BY <1>5, <1>6, <2>1, <2>4, <2>5 DEF ClientInv
<1>9. CASE ~again
  <2>1. stream' \in StreamState /\ ~stream'.idle /\ UNCHANGED targets
    BY <1>1, <1>9, ClosedType
  <2>2. online' = Updated("Unknown") /\ online' \in OnlineState
    BY <1>3, <1>9, TrackerType
  <2>3. ~online'.timer /\ online'.state # "Online"
    BY <2>2 DEF Updated
  <2>4. ClientTypeOK'
    BY <1>1, <1>2, <1>3, <2>1, <2>2, LifeParts DEF ClientInv, ClientTypeOK
  <2>5. AssertionsHold'
    BY <1>4, <1>9, <2>1, <2>3 DEF AssertionsHold
  <2> QED BY <1>5, <1>6, <2>1, <2>4, <2>5 DEF ClientInv
<1> QED BY <1>8, <1>9

\* One more trouble is within the bound.
LEMMA TroubleType ==
  ASSUME LifeInv, Trouble
  PROVE  troubles' \in 0..MaxTrouble
BY ListenAssumption, LifeParts DEF Trouble, OutsideTypeOK

LEMMA LifeStreamFails ==
  ASSUME LifeInv, StreamFails
  PROVE  LifeInv'
<1>1. AppTypeOK' /\ ClientInv' /\ WireTypeOK'
  BY LifeInterrupted DEF StreamFails
<1>2. troubles' \in 0..MaxTrouble
  BY TroubleType, LifeParts DEF StreamFails, OutsideTypeOK
<1>3. OutsideTypeOK'
  BY <1>2, LifeParts DEF StreamFails, OutsideTypeOK
<1> QED BY <1>1, <1>3, LifeNext

LEMMA LifeBackoffElapsed ==
  ASSUME LifeInv, BackoffElapsed
  PROVE  LifeInv'
<1>1. /\ stream.state = "Backoff" /\ stream' = [stream EXCEPT !.state = "Starting"]
      /\ UNCHANGED app /\ UNCHANGED wire /\ UNCHANGED outside
      /\ UNCHANGED <<views, cache, online, targets>>
  BY DEF BackoffElapsed
<1>2. stream' \in StreamState /\ stream'.state = "Starting" /\ ~stream'.idle
  BY <1>1, LifeParts DEF ClientInv, ClientTypeOK, StreamState, Started
<1>3. ClientInv'
  BY <1>1, <1>2, LifeParts DEF ClientInv, ClientTypeOK, AssertionsHold, Started, Listened
<1> QED BY <1>1, <1>3, Kept, LifeNext

\* An idle stream serves nobody, and is not missed.
LEMMA LifeIdleTimeout ==
  ASSUME LifeInv, IdleTimeout
  PROVE  LifeInv'
<1>1. /\ stream.idle /\ stream' = Closed("Initial") /\ Notify(views, Updated("Unknown"))
      /\ NoWire /\ UNCHANGED <<worker, cache, targets>> /\ UNCHANGED outside
  BY DEF IdleTimeout
<1>2. views \in [Query -> View]
  BY LifeParts DEF ClientInv, ClientTypeOK
<1>3. /\ views' = views /\ online' = Updated("Unknown")
      /\ listeners' \in [Listener -> ListenerState]
      /\ inbox' \in [Listener -> Seq(Event)]
  BY <1>1, <1>2, NotifyType, LifeParts
<1>4. AppTypeOK'
  BY <1>1, <1>3, LifeParts DEF AppTypeOK
<1>5. stream' \in StreamState /\ ~stream'.idle
  BY <1>1, ClosedType
<1>6. online' \in OnlineState /\ ~online'.timer /\ online'.state # "Online"
  BY <1>3, TrackerType DEF Updated
<1>7. Listened' = {}
  BY <1>1, <1>3, LifeParts DEF ClientInv, AssertionsHold, Listened
<1>8. ClientInv'
  BY <1>1, <1>2, <1>3, <1>5, <1>6, <1>7, LifeParts DEF ClientInv, ClientTypeOK, AssertionsHold
<1> QED BY <1>1, <1>4, <1>8, NoWireType, Kept, LifeNext

\* A stream that is needed is started again at once.
LEMMA LifeCredentialDidChange ==
  ASSUME LifeInv, CredentialDidChange
  PROVE  LifeInv'
<1> DEFINE from == IF stream.state \in Started THEN "Initial" ELSE stream.state
           again == Listened # {}
           u == Updated("Unknown")
           o == IF again THEN AtStart(u) ELSE u
<1>1. /\ Trouble /\ Notify(views, o)
      /\ IF again THEN StartWatchStream(from) ELSE stream' = Closed(from) /\ UNCHANGED targets
      /\ NoWire /\ UNCHANGED <<worker, cache, world, net>>
  BY DEF CredentialDidChange
<1>2. views \in [Query -> View]
  BY LifeParts DEF ClientInv, ClientTypeOK
<1>3. /\ views' = views /\ online' = o
      /\ listeners' \in [Listener -> ListenerState]
      /\ inbox' \in [Listener -> Seq(Event)]
  <2> HIDE DEF o
  <2> QED BY <1>1, <1>2, NotifyType, LifeParts
<1>4. AppTypeOK'
  BY <1>1, <1>3, LifeParts DEF AppTypeOK
<1>5. OutsideTypeOK'
  BY <1>1, TroubleType, LifeParts DEF OutsideTypeOK
<1>6. online' \in OnlineState /\ online'.state = "Unknown" /\ (online'.timer => again)
  BY <1>3, TrackerType DEF Updated, AtStart, OnlineState
<1>7. Listened' = Listened
  BY <1>3 DEF Listened
<1>8. from \in {"Initial", "Error"}
  BY LifeParts DEF ClientInv, ClientTypeOK, StreamState
<1>9. /\ stream' \in StreamState /\ ~stream'.idle
      /\ again => stream'.state \in Started
      /\ targets' \in [Query -> TargetState]
  <2>1. CASE again
    BY <1>1, <2>1, StartType DEF Started
  <2>2. CASE ~again
    BY <1>1, <1>8, <2>2, ClosedType, LifeParts DEF ClientInv, ClientTypeOK
  <2> QED BY <2>1, <2>2
<1>10. ClientInv'
  <2> HIDE DEF from, o
  <2>1. ClientTypeOK'
    BY <1>1, <1>2, <1>3, <1>6, <1>9, LifeParts DEF ClientInv, ClientTypeOK
  <2>2. AssertionsHold'
    BY <1>6, <1>7, <1>9 DEF AssertionsHold
  <2> QED BY <1>9, <2>1, <2>2 DEF ClientInv
<1> QED BY <1>1, <1>4, <1>5, <1>10, NoWireType, LifeNext

LEMMA LifeOnlineStateTimeout ==
  ASSUME LifeInv, OnlineStateTimeout
  PROVE  LifeInv'
<1> DEFINE o == [online EXCEPT !.state = "Offline", !.timer = FALSE]
           vs == AfterOnlineState(views, o)
<1>1. /\ Notify(vs, o)
      /\ UNCHANGED <<worker, cache, stream, targets>> /\ UNCHANGED wire /\ UNCHANGED outside
  BY DEF OnlineStateTimeout
<1>2. vs \in [Query -> View] /\ \A q \in Query : vs[q].who = views[q].who
  BY AfterOnlineStateType, LifeParts DEF ClientInv, ClientTypeOK
<1>3. /\ views' = vs /\ online' = o
      /\ listeners' \in [Listener -> ListenerState]
      /\ inbox' \in [Listener -> Seq(Event)]
  <2> HIDE DEF vs, o
  <2> QED BY <1>1, <1>2, NotifyType, LifeParts
<1>4. AppTypeOK'
  BY <1>1, <1>3, LifeParts DEF AppTypeOK
<1>5. Listened' = Listened
  BY <1>2, <1>3, ListenedKept
<1>6. o \in OnlineState /\ ~o.timer /\ o.state = "Offline"
  BY LifeParts DEF ClientInv, ClientTypeOK, OnlineState
<1>7. ClientInv'
  <2> HIDE DEF vs, o
  <2> QED BY <1>1, <1>2, <1>3, <1>5, <1>6, LifeParts DEF ClientInv, ClientTypeOK, AssertionsHold
<1> QED BY <1>1, <1>4, <1>7, Kept, LifeNext

-----------------------------------------------------------------------------
(* Answers of the server *)

\* What an answer is about.
LEMMA ReceiveType ==
  ASSUME LifeInv, NEW kind, Receive(kind)
  PROVE  /\ Head(down).kind = kind
         /\ kind \in {"added", "removed", "current", "error"} => Head(down).q \in Query
         /\ kind = "snapshot" => Head(down).ver \in Version
         /\ down' \in Seq(Change)
<1>1. down \in Seq(Change) /\ down # <<>> /\ Head(down).kind = kind /\ down' = Tail(down)
  BY LifeParts DEF Receive, WireTypeOK
<1>2. Head(down) \in Change /\ down' \in Seq(Change)
  BY <1>1
<1>3. \A c \in Change : /\ c.kind \in {"added", "removed", "current", "error"} => c.q \in Query
                        /\ c.kind = "snapshot" => c.ver \in Version
  BY DEF Change
<1> QED BY <1>1, <1>2, <1>3

\* An answer comes over an open stream, and the phone is on line.  What is left
\* to show is the types of what it changes, and whom the views serve.
LEMMA LifeReceive ==
  ASSUME LifeInv, NEW kind, Receive(kind),
         online' = Updated("Online"),
         views' \in [Query -> View], Listened' \subseteq Listened,
         cache' \in [Query -> Version], targets' \in [Query -> TargetState],
         listeners' \in [Listener -> ListenerState], inbox' \in [Listener -> Seq(Event)]
  PROVE  LifeInv'
<1>1. stream.state = "Open" /\ UNCHANGED <<worker, stream, up, served, pushed>> /\ UNCHANGED outside
  BY DEF Receive
<1>2. AppTypeOK'
  BY <1>1, LifeParts DEF AppTypeOK
<1>3. online' \in OnlineState /\ ~online'.timer /\ ~online'.failed
  BY TrackerType DEF Updated
<1>4. ClientTypeOK'
  BY <1>1, <1>3, LifeParts DEF ClientInv, ClientTypeOK
<1>5. AssertionsHold'
  BY <1>1, <1>3, LifeParts DEF ClientInv, AssertionsHold, Started
<1>6. ClientInv'
  BY <1>1, <1>4, <1>5, LifeParts DEF ClientInv
<1>7. WireTypeOK'
  BY <1>1, ReceiveType, LifeParts DEF WireTypeOK
<1> QED BY <1>1, <1>2, <1>6, <1>7, Kept, LifeNext

\* The three answers that only change the aggregator.
LEMMA LifeTargetChange ==
  ASSUME LifeInv, NEW kind, Receive(kind), Notify(views, Updated("Online")),
         targets' \in [Query -> TargetState], UNCHANGED cache
  PROVE  LifeInv'
<1>1. views \in [Query -> View] /\ cache \in [Query -> Version]
  BY LifeParts DEF ClientInv, ClientTypeOK
<1>2. /\ views' = views /\ online' = Updated("Online")
      /\ listeners' \in [Listener -> ListenerState]
      /\ inbox' \in [Listener -> Seq(Event)]
  BY <1>1, NotifyType, LifeParts
<1>3. Listened' = Listened
  BY <1>2 DEF Listened
<1> QED BY <1>1, <1>2, <1>3, LifeReceive

LEMMA LifeTargetAdded ==
  ASSUME LifeInv, TargetAdded
  PROVE  LifeInv'
<1> DEFINE q == Head(down).q
           more == targets[q].pending /\ targets[q].waits # 1
<1>1. /\ Receive("added") /\ Notify(views, Updated("Online")) /\ UNCHANGED cache
      /\ targets' = [targets EXCEPT ![q] =
           [targets[q] EXCEPT !.waits = targets[q].waits - 1, !.pending = more]]
  <2>1. q \in Query
    BY ReceiveType DEF TargetAdded
  <2>2. targets \in [Query -> TargetState]
    BY LifeParts DEF ClientInv, ClientTypeOK
  <2> HIDE DEF more
  <2>3. targets' = [targets EXCEPT ![q].waits = targets[q].waits - 1, ![q].pending = more]
    BY DEF TargetAdded, more
  <2> QED BY <2>1, <2>2, <2>3 DEF TargetAdded
<1>2. targets \in [Query -> TargetState] /\ q \in Query
  BY <1>1, ReceiveType, LifeParts DEF ClientInv, ClientTypeOK
<1>3. [targets[q] EXCEPT !.waits = targets[q].waits - 1, !.pending = more] \in TargetState
  <2>1. targets[q] \in TargetState /\ targets[q].waits - 1 \in Int /\ more \in BOOLEAN
    BY <1>2 DEF TargetState
  <2> HIDE DEF more
  <2> QED BY <2>1, TargetAnswered
<1>4. targets' \in [Query -> TargetState]
  <2> HIDE DEF more, q
  <2> QED BY <1>1, <1>2, <1>3
<1> QED BY <1>1, <1>4, LifeTargetChange

LEMMA LifeTargetRemoved ==
  ASSUME LifeInv, TargetRemoved
  PROVE  LifeInv'
<1> DEFINE q == Head(down).q
           less == [targets[q] EXCEPT !.waits = targets[q].waits - 1]
<1>1. /\ Receive("removed") /\ Notify(views, Updated("Online")) /\ UNCHANGED cache
      /\ targets' = [targets EXCEPT ![q] = IF targets[q].waits = 1 THEN NewTarget ELSE less]
  BY DEF TargetRemoved
<1>2. targets \in [Query -> TargetState] /\ q \in Query
  BY <1>1, ReceiveType, LifeParts DEF ClientInv, ClientTypeOK
<1>3. less \in TargetState
  <2>1. targets[q] \in TargetState /\ targets[q].waits - 1 \in Int
    BY <1>2 DEF TargetState
  <2> QED BY <2>1, TargetWaits
<1>4. targets' \in [Query -> TargetState]
  <2> HIDE DEF less, q
  <2> QED BY <1>1, <1>2, <1>3, Defaults
<1> QED BY <1>1, <1>4, LifeTargetChange

LEMMA LifeTargetCurrent ==
  ASSUME LifeInv, TargetCurrent
  PROVE  LifeInv'
<1> DEFINE q == Head(down).q
           now == [targets[q] EXCEPT !.current = TRUE, !.pending = TRUE]
<1>1. targets \in [Query -> TargetState]
  BY LifeParts DEF ClientInv, ClientTypeOK
<1>2. /\ Receive("current") /\ Notify(views, Updated("Online")) /\ UNCHANGED cache
      /\ targets' = IF Active(q)
                    THEN [targets EXCEPT ![q].current = TRUE, ![q].pending = TRUE] ELSE targets
  BY DEF TargetCurrent
<1>3. q \in Query
  BY <1>2, ReceiveType
<1>4. [targets EXCEPT ![q].current = TRUE, ![q].pending = TRUE] = [targets EXCEPT ![q] = now]
  <2> HIDE DEF q
  <2> QED BY <1>1, <1>3
<1>5. now \in TargetState
  <2> HIDE DEF q
  <2> QED BY <1>1, <1>3, TargetChanged
<1>6. targets' \in [Query -> TargetState]
  <2> HIDE DEF now, q
  <2> QED BY <1>1, <1>2, <1>3, <1>4, <1>5
<1> QED BY <1>2, <1>6, LifeTargetChange

\* A snapshot leaves the listeners of the views as they are.
LEMMA LifeRaiseWatchSnapshot ==
  ASSUME LifeInv, RaiseWatchSnapshot
  PROVE  LifeInv'
<1> DEFINE ver == Head(down).ver
           news == {q \in Head(down).of : Active(q)}
           told == {q \in Query : Active(q) /\ (targets[q].pending \/ q \in news)}
           shown(q) == IF q \in news THEN ver ELSE views[q].ver
           current(q) == IF q \in told THEN targets[q].current ELSE views[q].current
           pending(q) == targets[q].pending /\ q \notin told
           vs == [q \in Query |-> [views[q] EXCEPT !.ver = shown(q), !.current = current(q)]]
<1>1. /\ Receive("snapshot") /\ Notify(vs, Updated("Online"))
      /\ cache' = [q \in Query |-> IF q \in news THEN ver ELSE cache[q]]
      /\ targets' = [q \in Query |-> [targets[q] EXCEPT !.pending = pending(q)]]
  BY DEF RaiseWatchSnapshot
<1>2. ver \in Version
  BY <1>1, ReceiveType
<1>3. /\ views \in [Query -> View] /\ cache \in [Query -> Version]
      /\ targets \in [Query -> TargetState]
  BY LifeParts DEF ClientInv, ClientTypeOK
<1>4. cache' \in [Query -> Version]
  <2> HIDE DEF news, ver
  <2> QED BY <1>1, <1>2, <1>3
<1>5. targets' \in [Query -> TargetState]
  <2>1. ASSUME NEW q \in Query
        PROVE  [targets[q] EXCEPT !.pending = pending(q)] \in TargetState
    <3>1. targets[q] \in TargetState /\ pending(q) \in BOOLEAN
      BY <1>3
    <3> HIDE DEF pending
    <3> QED BY <3>1, TargetChanged
  <2> HIDE DEF pending
  <2> QED BY <1>1, <2>1
<1>6. ASSUME NEW q \in Query
      PROVE  /\ [views[q] EXCEPT !.ver = shown(q), !.current = current(q)] \in View
             /\ [views[q] EXCEPT !.ver = shown(q), !.current = current(q)].who = views[q].who
  <2>1. views[q] \in View /\ targets[q] \in TargetState
    BY <1>3
  <2>2. shown(q) \in Version
    <3> HIDE DEF news, ver
    <3> QED BY <1>2, <2>1 DEF View
  <2>3. current(q) \in BOOLEAN
    <3> HIDE DEF told
    <3> QED BY <2>1 DEF View, TargetState
  <2> HIDE DEF shown, current
  <2> QED BY <2>1, <2>2, <2>3, ViewTold
<1>7. vs \in [Query -> View] /\ \A q \in Query : vs[q].who = views[q].who
  <2> HIDE DEF shown, current
  <2> QED BY <1>6
<1>8. /\ views' = vs /\ online' = Updated("Online")
      /\ listeners' \in [Listener -> ListenerState]
      /\ inbox' \in [Listener -> Seq(Event)]
  <2> HIDE DEF vs
  <2> QED BY <1>1, <1>7, NotifyType, LifeParts
<1>9. views' \in [Query -> View] /\ Listened' = Listened
  <2> HIDE DEF vs
  <2> QED BY <1>7, <1>8, ListenedKept
<1> HIDE DEF vs
<1> QED BY <1>1, <1>4, <1>5, <1>8, <1>9, LifeReceive

\* A query that failed has no listener any more.
LEMMA LifeTargetError ==
  ASSUME LifeInv, TargetError
  PROVE  LifeInv'
<1> DEFINE q == Head(down).q
           hear == views[q].who
           event == [ver |-> 0, cached |-> TRUE, error |-> TRUE]
<1>1. /\ Receive("error") /\ UNCHANGED cache
      /\ views' = [views EXCEPT ![q] = NoView]
      /\ online' = Updated("Online")
      /\ targets' = IF q \in Listened THEN [targets EXCEPT ![q] = NewTarget] ELSE targets
      /\ listeners' = [l \in Listener |->
           IF l \in hear THEN [listeners[l] EXCEPT !.at = "gone"] ELSE listeners[l]]
      /\ inbox' = [l \in Listener |-> IF l \in hear THEN Append(inbox[l], event) ELSE inbox[l]]
  BY DEF TargetError
<1>2. q \in Query
  BY <1>1, ReceiveType
<1>3. /\ views \in [Query -> View] /\ cache \in [Query -> Version]
      /\ targets \in [Query -> TargetState]
      /\ listeners \in [Listener -> ListenerState] /\ inbox \in [Listener -> Seq(Event)]
  BY LifeParts DEF ClientInv, ClientTypeOK, AppTypeOK
<1> HIDE DEF q
<1>4. views' \in [Query -> View] /\ Listened' \subseteq Listened
  BY <1>1, <1>2, <1>3, Defaults DEF Listened
<1>5. targets' \in [Query -> TargetState]
  BY <1>1, <1>2, <1>3, Defaults
<1>6. listeners' \in [Listener -> ListenerState]
  <2>1. \A l \in Listener : [listeners[l] EXCEPT !.at = "gone"] \in ListenerState
    BY <1>3, ListenerMoved
  <2> QED BY <1>1, <1>3, <2>1
<1>7. inbox' \in [Listener -> Seq(Event)]
  <2>1. event \in Event
    BY ListenAssumption DEF Event, Version
  <2> HIDE DEF event
  <2> QED BY <1>1, <1>3, <2>1
<1> QED BY <1>1, <1>3, <1>4, <1>5, <1>6, <1>7, LifeReceive

-----------------------------------------------------------------------------
(* The server and the world *)

LEMMA LifeServer ==
  ASSUME LifeInv, AnswerRequest \/ PushChange \/ (\E q \in Query : CatchUp(q) \/ RefuseTarget(q))
  PROVE  LifeInv'
<1>0. /\ up \in Seq(Request) /\ down \in Seq(Change)
      /\ served \in [Query -> {"no", "added", "current"}] /\ pushed \in Version
      /\ world \in Version
  BY LifeParts DEF WireTypeOK, OutsideTypeOK
<1>1. CASE AnswerRequest
  <2> DEFINE r == Head(up)
             kind == IF r.kind = "watch" THEN "added" ELSE "removed"
  <2>1. /\ up # <<>> /\ up' = Tail(up)
        /\ down' = Append(down, [kind |-> kind, q |-> r.q])
        /\ served' = [served EXCEPT ![r.q] = IF r.kind = "watch" THEN "added" ELSE "no"]
        /\ UNCHANGED app /\ UNCHANGED client /\ UNCHANGED pushed /\ UNCHANGED outside
    BY <1>1 DEF AnswerRequest
  <2>2. r \in Request /\ r.q \in Query /\ kind \in {"added", "removed"}
    <3>1. r \in Request
      BY <1>0, <2>1
    <3> HIDE DEF r
    <3> QED BY <3>1 DEF Request
  <2>3. [kind |-> kind, q |-> r.q] \in Change
    <3> HIDE DEF kind, r
    <3> QED BY <2>2 DEF Change
  <2>4. WireTypeOK'
    <3>1. up' \in Seq(Request)
      BY <1>0, <2>1
    <3> HIDE DEF kind, r
    <3>2. down' \in Seq(Change)
      BY <1>0, <2>1, <2>3
    <3>3. served' \in [Query -> {"no", "added", "current"}]
      BY <1>0, <2>1, <2>2
    <3> QED BY <1>0, <2>1, <3>1, <3>2, <3>3 DEF WireTypeOK
  <2> QED BY <2>1, <2>4, Kept, LifeNext
<1>2. CASE PushChange
  <2>1. /\ down' = Append(down, [kind |-> "snapshot", ver |-> world, of |-> Current])
        /\ pushed' = world
        /\ UNCHANGED app /\ UNCHANGED client /\ UNCHANGED <<up, served>> /\ UNCHANGED outside
    BY <1>2 DEF PushChange
  <2>2. [kind |-> "snapshot", ver |-> world, of |-> Current] \in Change
    BY <1>0 DEF Change, Current
  <2>3. WireTypeOK'
    BY <1>0, <2>1, <2>2 DEF WireTypeOK
  <2> QED BY <2>1, <2>3, Kept, LifeNext
<1>3. ASSUME NEW q \in Query, CatchUp(q) PROVE LifeInv'
  <2> DEFINE c == [kind |-> "current", q |-> q]
             d == [kind |-> "snapshot", ver |-> world, of |-> Current \union {q}]
  <2>1. /\ served' = [served EXCEPT ![q] = "current"]
        /\ down' = down \o <<c, d>>
        /\ pushed' = world
        /\ UNCHANGED app /\ UNCHANGED client /\ UNCHANGED up /\ UNCHANGED outside
    BY <1>3 DEF CatchUp
  <2>2. c \in Change
    BY DEF Change
  <2>3. d \in Change
    BY <1>0 DEF Change, Current
  <2>4. WireTypeOK'
    <3> HIDE DEF c, d
    <3>1. <<c, d>> \in Seq(Change)
      BY <2>2, <2>3
    <3>2. down' \in Seq(Change)
      BY <1>0, <2>1, <3>1
    <3> QED BY <1>0, <2>1, <3>2 DEF WireTypeOK
  <2> QED BY <2>1, <2>4, Kept, LifeNext
<1>4. ASSUME NEW q \in Query, RefuseTarget(q) PROVE LifeInv'
  <2>1. /\ Trouble
        /\ served' = [served EXCEPT ![q] = "no"]
        /\ down' = Append(down, [kind |-> "error", q |-> q])
        /\ UNCHANGED app /\ UNCHANGED client /\ UNCHANGED <<up, pushed, world, net>>
    BY <1>4 DEF RefuseTarget
  <2>2. [kind |-> "error", q |-> q] \in Change
    BY DEF Change
  <2>3. WireTypeOK'
    BY <1>0, <2>1, <2>2 DEF WireTypeOK
  <2>4. OutsideTypeOK'
    BY <2>1, TroubleType, LifeParts DEF OutsideTypeOK
  <2> QED BY <2>1, <2>3, <2>4, Kept, LifeNext
<1> QED BY <1>1, <1>2, <1>3, <1>4

LEMMA LifeOutside ==
  ASSUME LifeInv, SomebodyWrites \/ Connection
  PROVE  LifeInv'
<1>1. UNCHANGED app /\ UNCHANGED client /\ UNCHANGED wire
  BY DEF SomebodyWrites, Connection
<1>2. CASE SomebodyWrites
  <2>1. world < MaxVersion /\ world' = world + 1 /\ UNCHANGED <<net, troubles>>
    BY <1>2 DEF SomebodyWrites
  <2>2. OutsideTypeOK'
    BY <2>1, ListenAssumption, LifeParts DEF OutsideTypeOK, Version
  <2> QED BY <1>1, <2>2, Kept, LifeNext
<1>3. CASE Connection
  <2>1. Trouble /\ net' \in {"up", "down"} /\ UNCHANGED world
    BY <1>3 DEF Connection
  <2>2. OutsideTypeOK'
    BY <2>1, TroubleType, LifeParts DEF OutsideTypeOK
  <2> QED BY <1>1, <2>2, Kept, LifeNext
<1> QED BY <1>2, <1>3

-----------------------------------------------------------------------------

LEMMA LifeStep == LifeInv /\ [Next]_vars => LifeInv'
<1> SUFFICES ASSUME LifeInv, [Next]_vars PROVE LifeInv'
  OBVIOUS
<1>1. ASSUME NEW l \in Listener, Call(l) \/ Remove(l) \/ Hear(l) PROVE LifeInv'
  BY <1>1, LifeCall, LifeRemove, LifeHear
<1>2. CASE Blocks
  BY <1>2, LifeAddListener, LifeRemoveListener DEF Blocks
<1>3. CASE StreamOpens \/ StreamFails \/ BackoffElapsed
  BY <1>3, LifeStreamOpens, LifeStreamFails, LifeBackoffElapsed
<1>4. CASE IdleTimeout \/ CredentialDidChange \/ OnlineStateTimeout
  BY <1>4, LifeIdleTimeout, LifeCredentialDidChange, LifeOnlineStateTimeout
<1>5. CASE Answers
  BY <1>5, LifeTargetAdded, LifeTargetRemoved, LifeTargetCurrent, LifeRaiseWatchSnapshot,
     LifeTargetError DEF Answers
<1>6. CASE Server \/ \E q \in Query : RefuseTarget(q)
  BY <1>6, LifeServer DEF Server
<1>7. CASE SomebodyWrites \/ Connection
  BY <1>7, LifeOutside
<1>8. CASE UNCHANGED vars
  BY <1>8, Kept, LifeNext DEF vars
<1> QED BY <1>1, <1>2, <1>3, <1>4, <1>5, <1>6, <1>7, <1>8 DEF Next

\* The inductive invariant: types and assertions need each other.  That no
\* timer runs at the start of a stream follows from the assertions, and that an
\* idle stream is open, which TypeOK says, keeps a timer from outliving it.
THEOREM LifeInvariant == Spec => []LifeInv
BY LifeInit, LifeStep, PTL DEF Spec

\* Every variable of the listening half of the client keeps its type, for every
\* finite set of queries and every set of listeners, over every failure of the
\* stream and change of account.
THEOREM TypeCorrect == Spec => []TypeOK
<1>1. LifeInv => TypeOK
  BY DEF LifeInv
<1> QED BY <1>1, LifeInvariant, PTL

\* None of the assertions of the tracker and of the stream's life ever fails
\* (FSTOnlineStateTracker.mm:95, 99, 120, 121; FSTRemoteStore.mm:339), and the
\* watch stream is started whenever a query is listened to.
THEOREM StreamLifeAsserted == Spec => []AssertionsHold
<1>1. LifeInv => AssertionsHold
  BY DEF LifeInv
<1> QED BY <1>1, LifeInvariant, PTL

-----------------------------------------------------------------------------
(* Places in a sequence *)

LEMMA SeqTail ==
  ASSUME NEW T, NEW s \in Seq(T), s # <<>>
  PROVE  /\ Len(s) \in Nat \ {0} /\ DOMAIN s = 1..Len(s)
         /\ Tail(s) \in Seq(T) /\ DOMAIN Tail(s) = 1..(Len(s) - 1) /\ Len(Tail(s)) = Len(s) - 1
         /\ \A i \in DOMAIN Tail(s) : i + 1 \in DOMAIN s /\ Tail(s)[i] = s[i + 1]
         /\ \A i \in DOMAIN s : i = 1 \/ (i - 1 \in DOMAIN Tail(s) /\ Tail(s)[i - 1] = s[i])
         /\ 1 \in DOMAIN s /\ Head(s) = s[1] /\ Head(s) \in T
OBVIOUS

LEMMA SeqAppend ==
  ASSUME NEW T, NEW s \in Seq(T), NEW x \in T
  PROVE  /\ Len(s) \in Nat /\ DOMAIN s = 1..Len(s)
         /\ Append(s, x) \in Seq(T) /\ DOMAIN Append(s, x) = 1..(Len(s) + 1)
         /\ DOMAIN s \subseteq DOMAIN Append(s, x)
         /\ \A i \in DOMAIN s : Append(s, x)[i] = s[i] /\ i # Len(s) + 1 /\ i < Len(s) + 1
         /\ \A i \in DOMAIN Append(s, x) : i \in DOMAIN s \/ i = Len(s) + 1
         /\ Len(s) + 1 \in DOMAIN Append(s, x) /\ Append(s, x)[Len(s) + 1] = x
OBVIOUS

LEMMA PlacesFinite ==
  ASSUME NEW T, NEW s \in Seq(T), NEW S
  PROVE  /\ IsFiniteSet(Places(s, S)) /\ Cardinality(Places(s, S)) \in Nat
         /\ Cardinality(Places(s, S)) = 0 <=> \A i \in DOMAIN s : s[i] \notin S
<1>1. Len(s) \in Nat /\ DOMAIN s = 1..Len(s)
  OBVIOUS
<1>2. IsFiniteSet(1..Len(s))
  BY <1>1, FS_Interval
<1>3. Places(s, S) \in SUBSET (1..Len(s))
  BY <1>1 DEF Places
<1>4. IsFiniteSet(Places(s, S))
  BY <1>2, <1>3, FS_Subset
<1>5. Cardinality(Places(s, S)) \in Nat
  BY <1>4, FS_CardinalityType
<1>6. Cardinality(Places(s, S)) = 0 <=> Places(s, S) = {}
  BY <1>4, FS_EmptySet
<1>7. Places(s, S) = {} <=> \A i \in DOMAIN s : s[i] \notin S
  BY DEF Places
<1> QED BY <1>4, <1>5, <1>6, <1>7

LEMMA PlacesAppend ==
  ASSUME NEW T, NEW s \in Seq(T), NEW x \in T, NEW S
  PROVE  Cardinality(Places(Append(s, x), S)) = Cardinality(Places(s, S)) + (IF x \in S THEN 1 ELSE 0)
<1> DEFINE n == Len(s) + 1
<1>1. IsFiniteSet(Places(s, S)) /\ Cardinality(Places(s, S)) \in Nat
  BY PlacesFinite
<1>2. n \notin Places(s, S)
  BY SeqAppend DEF Places
<1>3. CASE x \in S
  <2>1. Places(Append(s, x), S) = Places(s, S) \union {n}
    BY <1>3, SeqAppend DEF Places
  <2> QED BY <1>1, <1>2, <1>3, <2>1, FS_AddElement
<1>4. CASE x \notin S
  <2>1. Places(Append(s, x), S) = Places(s, S)
    BY <1>4, SeqAppend DEF Places
  <2> QED BY <1>1, <1>4, <2>1
<1> QED BY <1>3, <1>4

LEMMA PlacesTail ==
  ASSUME NEW T, NEW s \in Seq(T), s # <<>>, NEW S
  PROVE  Cardinality(Places(s, S)) = Cardinality(Places(Tail(s), S)) + (IF Head(s) \in S THEN 1 ELSE 0)
<1> DEFINE P == Places(Tail(s), S)
           Q == Places(s, S) \ {1}
           f == [i \in P |-> i + 1]
<1>1. IsFiniteSet(P) /\ Cardinality(P) \in Nat /\ IsFiniteSet(Places(s, S))
  <2>1. Tail(s) \in Seq(T)
    BY SeqTail
  <2> QED BY <2>1, PlacesFinite
<1>2. \A i \in P : i \in Nat /\ i >= 1 /\ i + 1 \in Q
  BY SeqTail DEF Places
<1>3. \A j \in Q : j - 1 \in P /\ j \in Nat
  BY SeqTail DEF Places
<1> HIDE DEF P, Q
<1>4. f \in [P -> Q]
  BY <1>2
<1>5. \A a, b \in P : f[a] = f[b] => a = b
  BY <1>2
<1>6. \A j \in Q : \E i \in P : f[i] = j
  <2> TAKE j \in Q
  <2>1. j - 1 \in P /\ f[j - 1] = j
    BY <1>3
  <2> QED BY <2>1
<1>7. f \in Bijection(P, Q)
  BY <1>4, <1>5, <1>6, Fun_IsBij
<1>8. ExistsBijection(P, Q)
  BY <1>7 DEF ExistsBijection
<1>9. IsFiniteSet(Q) /\ Cardinality(Q) = Cardinality(P)
  BY <1>1, <1>8, FS_Bijection
<1>10. 1 \in Places(s, S) <=> Head(s) \in S
  BY SeqTail DEF Places
<1>11. Cardinality(Q) = IF 1 \in Places(s, S) THEN Cardinality(Places(s, S)) - 1 ELSE Cardinality(Places(s, S))
  BY <1>1, FS_RemoveElement DEF Q
<1>12. Cardinality(Places(s, S)) \in Nat
  BY <1>1, FS_CardinalityType
<1> QED BY <1>1, <1>9, <1>10, <1>11, <1>12 DEF P

-----------------------------------------------------------------------------
(* What is on the wire *)

Snapshot == [kind : {"snapshot"}, ver : Version, of : SUBSET Query]
Cur(q) == [kind |-> "current", q |-> q]
Err(q) == [kind |-> "error", q |-> q]

\* Nothing of S is in s.
Without(s, S) == \A i \in DOMAIN s : s[i] \notin S

\* x is in s, with nothing of S behind it.
Stands(s, S, x) == \E i \in DOMAIN s : s[i] = x /\ \A j \in DOMAIN s : j > i => s[j] \notin S

\* The snapshot that shows q follows at once when q is current.
Followed(s, q) ==
  \A i \in DOMAIN s : s[i] = Cur(q) =>
    i + 1 \in DOMAIN s /\ s[i + 1] \in Snapshot /\ q \in s[i + 1].of

LEMMA WithoutAppend ==
  ASSUME NEW T, NEW s \in Seq(T), NEW x \in T, NEW S
  PROVE  Without(Append(s, x), S) <=> Without(s, S) /\ x \notin S
<1>1. ASSUME Without(Append(s, x), S) PROVE Without(s, S) /\ x \notin S
  BY <1>1, SeqAppend DEF Without
<1>2. ASSUME Without(s, S), x \notin S PROVE Without(Append(s, x), S)
  BY <1>2, SeqAppend DEF Without
<1> QED BY <1>1, <1>2

LEMMA WithoutTail ==
  ASSUME NEW T, NEW s \in Seq(T), s # <<>>, NEW S
  PROVE  Without(s, S) <=> Without(Tail(s), S) /\ Head(s) \notin S
<1>1. ASSUME Without(s, S) PROVE Without(Tail(s), S) /\ Head(s) \notin S
  BY <1>1, SeqTail DEF Without
<1>2. ASSUME Without(Tail(s), S), Head(s) \notin S PROVE Without(s, S)
  <2>1. \A i \in DOMAIN s : s[i] = Head(s) \/ \E k \in DOMAIN Tail(s) : s[i] = Tail(s)[k]
    BY SeqTail
  <2> QED BY <1>2, <2>1 DEF Without
<1> QED BY <1>1, <1>2

LEMMA StandsAppend ==
  ASSUME NEW T, NEW s \in Seq(T), NEW y \in T, NEW S, NEW x
  PROVE  Stands(Append(s, y), S, x) <=> y = x \/ (Stands(s, S, x) /\ y \notin S)
<1> DEFINE t == Append(s, y)
           n == Len(s) + 1
<1>1. /\ Len(s) \in Nat /\ n \in DOMAIN t /\ t[n] = y /\ DOMAIN t = 1..n /\ DOMAIN s = 1..Len(s)
      /\ \A i \in DOMAIN s : i \in DOMAIN t /\ t[i] = s[i] /\ n > i
      /\ \A i \in DOMAIN t : i \in DOMAIN s \/ i = n
  BY SeqAppend
<1> HIDE DEF t
<1>2. ASSUME y = x PROVE Stands(t, S, x)
  <2>1. t[n] = x /\ \A j \in DOMAIN t : ~(j > n)
    BY <1>1, <1>2
  <2> QED BY <1>1, <2>1 DEF Stands
<1>3. ASSUME Stands(s, S, x), y \notin S PROVE Stands(t, S, x)
  <2>1. PICK i \in DOMAIN s : s[i] = x /\ \A j \in DOMAIN s : j > i => s[j] \notin S
    BY <1>3 DEF Stands
  <2>2. \A j \in DOMAIN t : j > i => t[j] \notin S
    BY <1>1, <1>3, <2>1
  <2> QED BY <1>1, <2>1, <2>2 DEF Stands
<1>4. ASSUME Stands(t, S, x), y # x PROVE Stands(s, S, x) /\ y \notin S
  <2>1. PICK i \in DOMAIN t : t[i] = x /\ \A j \in DOMAIN t : j > i => t[j] \notin S
    BY <1>4 DEF Stands
  <2>2. i \in DOMAIN s
    BY <1>1, <1>4, <2>1
  <2>3. y \notin S
    BY <1>1, <2>1, <2>2
  <2>4. s[i] = x /\ \A j \in DOMAIN s : j > i => s[j] \notin S
    BY <1>1, <2>1, <2>2
  <2> QED BY <2>2, <2>3, <2>4 DEF Stands
<1> QED BY <1>2, <1>3, <1>4 DEF t

LEMMA StandsTail ==
  ASSUME NEW T, NEW s \in Seq(T), s # <<>>, NEW S, NEW x
  PROVE  Stands(s, S, x) <=> Stands(Tail(s), S, x) \/ (Head(s) = x /\ Without(Tail(s), S))
<1> DEFINE t == Tail(s)
<1>1. /\ Len(s) \in Nat \ {0} /\ DOMAIN s = 1..Len(s) /\ DOMAIN t = 1..(Len(s) - 1)
      /\ \A i \in DOMAIN t : t[i] = s[i + 1]
      /\ 1 \in DOMAIN s /\ Head(s) = s[1]
  BY SeqTail
<1>2. \A i \in DOMAIN t : i \in Nat /\ i + 1 \in DOMAIN s /\ i + 1 > 1
  BY <1>1
<1>3. \A i \in DOMAIN s : i \in Nat /\ (i = 1 \/ (i - 1 \in DOMAIN t /\ t[i - 1] = s[i]))
  BY <1>1
<1> HIDE DEF t
<1>4. ASSUME Stands(t, S, x) PROVE Stands(s, S, x)
  <2>1. PICK i \in DOMAIN t : t[i] = x /\ \A j \in DOMAIN t : j > i => t[j] \notin S
    BY <1>4 DEF Stands
  <2>2. s[i + 1] = x /\ i + 1 \in DOMAIN s /\ i \in Nat /\ i >= 1
    BY <1>1, <1>2, <2>1
  <2>3. ASSUME NEW j \in DOMAIN s, j > i + 1 PROVE s[j] \notin S
    <3>1. j \in Nat /\ j # 1
      BY <1>3, <2>2, <2>3
    <3>2. j - 1 \in DOMAIN t /\ t[j - 1] = s[j] /\ j - 1 > i
      BY <1>3, <2>2, <2>3, <3>1
    <3> QED BY <2>1, <3>2
  <2> QED BY <2>2, <2>3 DEF Stands
<1>5. ASSUME Head(s) = x, Without(t, S) PROVE Stands(s, S, x)
  <2>1. ASSUME NEW j \in DOMAIN s, j > 1 PROVE s[j] \notin S
    <3>1. j - 1 \in DOMAIN t /\ t[j - 1] = s[j]
      BY <1>3, <2>1
    <3> QED BY <1>5, <3>1 DEF Without
  <2> QED BY <1>1, <1>5, <2>1 DEF Stands
<1>6. ASSUME Stands(s, S, x) PROVE Stands(t, S, x) \/ (Head(s) = x /\ Without(t, S))
  <2>1. PICK i \in DOMAIN s : s[i] = x /\ \A j \in DOMAIN s : j > i => s[j] \notin S
    BY <1>6 DEF Stands
  <2>2. CASE i = 1
    <3>1. \A j \in DOMAIN t : t[j] \notin S
      BY <1>1, <1>2, <2>1, <2>2
    <3> QED BY <1>1, <2>1, <2>2, <3>1 DEF Without
  <2>3. CASE i # 1
    <3>1. i - 1 \in DOMAIN t /\ t[i - 1] = x /\ i \in Nat
      BY <1>3, <2>1, <2>3
    <3>2. ASSUME NEW j \in DOMAIN t, j > i - 1 PROVE t[j] \notin S
      <4>1. j + 1 \in DOMAIN s /\ j + 1 > i /\ t[j] = s[j + 1]
        BY <1>1, <1>2, <3>1, <3>2
      <4> QED BY <2>1, <4>1
    <3> QED BY <3>1, <3>2 DEF Stands
  <2> QED BY <2>2, <2>3
<1> QED BY <1>4, <1>5, <1>6 DEF t

LEMMA FollowedTail ==
  ASSUME NEW T, NEW s \in Seq(T), s # <<>>, NEW q, Followed(s, q)
  PROVE  /\ Followed(Tail(s), q)
         /\ Head(s) = Cur(q) =>
              Tail(s) # <<>> /\ Head(Tail(s)) \in Snapshot /\ q \in Head(Tail(s)).of
<1> DEFINE t == Tail(s)
<1>1. /\ Len(s) \in Nat \ {0} /\ DOMAIN s = 1..Len(s) /\ DOMAIN t = 1..(Len(s) - 1) /\ t \in Seq(T)
      /\ \A i \in DOMAIN t : t[i] = s[i + 1]
      /\ 1 \in DOMAIN s /\ Head(s) = s[1]
  BY SeqTail
<1>2. Followed(t, q)
  <2> SUFFICES ASSUME NEW i \in DOMAIN t, t[i] = Cur(q)
               PROVE  i + 1 \in DOMAIN t /\ t[i + 1] \in Snapshot /\ q \in t[i + 1].of
    BY DEF Followed
  <2>1. i \in Nat /\ i >= 1 /\ i + 1 \in DOMAIN s /\ s[i + 1] = Cur(q)
    BY <1>1
  <2>2. i + 1 + 1 \in DOMAIN s /\ s[i + 1 + 1] \in Snapshot /\ q \in s[i + 1 + 1].of
    BY <2>1 DEF Followed
  <2>3. i + 1 \in DOMAIN t
    BY <1>1, <2>1, <2>2
  <2>4. t[i + 1] = s[i + 1 + 1]
    BY <1>1, <2>3
  <2> QED BY <2>2, <2>3, <2>4
<1>3. ASSUME Head(s) = Cur(q) PROVE t # <<>> /\ Head(t) \in Snapshot /\ q \in Head(t).of
  <2>1. 1 + 1 \in DOMAIN s /\ s[1 + 1] \in Snapshot /\ q \in s[1 + 1].of
    BY <1>1, <1>3 DEF Followed
  <2>2. 1 \in DOMAIN t
    BY <1>1, <2>1
  <2>3. t \in Seq(T) /\ t # <<>>
    BY <1>1, <2>2
  <2>4. Head(t) = t[1]
    <3> HIDE DEF t
    <3> QED BY <2>3, SeqTail
  <2> QED BY <1>1, <2>1, <2>2, <2>3, <2>4
<1> QED BY <1>2, <1>3

LEMMA FollowedAppend ==
  ASSUME NEW T, NEW s \in Seq(T), NEW x \in T, NEW q, Followed(s, q), x # Cur(q)
  PROVE  Followed(Append(s, x), q)
<1> DEFINE t == Append(s, x)
<1>1. /\ \A i \in DOMAIN s : i \in DOMAIN t /\ t[i] = s[i]
      /\ \A i \in DOMAIN t : i \in DOMAIN s \/ t[i] = x
  BY SeqAppend
<1> HIDE DEF t
<1>2. ASSUME NEW i \in DOMAIN t, t[i] = Cur(q)
      PROVE  i + 1 \in DOMAIN t /\ t[i + 1] \in Snapshot /\ q \in t[i + 1].of
  <2>1. i \in DOMAIN s /\ s[i] = Cur(q)
    BY <1>1, <1>2
  <2>2. i + 1 \in DOMAIN s /\ s[i + 1] \in Snapshot /\ q \in s[i + 1].of
    BY <2>1 DEF Followed
  <2> QED BY <1>1, <2>2
<1>3. Followed(t, q)
  BY <1>2 DEF Followed
<1> QED BY <1>3 DEF t

LEMMA FollowedPair ==
  ASSUME NEW T, NEW s \in Seq(T), NEW c \in T, NEW x \in T, NEW q, Followed(s, q),
         x # Cur(q), c = Cur(q) => x \in Snapshot /\ q \in x.of
  PROVE  Followed(Append(Append(s, c), x), q)
<1> DEFINE t == Append(s, c)
           u == Append(t, x)
<1>1. /\ Len(s) \in Nat /\ DOMAIN s = 1..Len(s)
      /\ t \in Seq(T) /\ DOMAIN t = 1..(Len(s) + 1) /\ Len(t) = Len(s) + 1
      /\ DOMAIN u = 1..(Len(t) + 1)
      /\ \A i \in DOMAIN t : i \in DOMAIN s \/ i = Len(s) + 1
      /\ \A i \in DOMAIN s : t[i] = s[i]
      /\ \A i \in DOMAIN u : i \in DOMAIN t \/ i = Len(t) + 1
      /\ \A i \in DOMAIN t : u[i] = t[i]
      /\ u[Len(t) + 1] = x /\ t[Len(s) + 1] = c
  OBVIOUS
<1> HIDE DEF t, u
<1>2. ASSUME NEW i \in DOMAIN u, u[i] = Cur(q)
      PROVE  i + 1 \in DOMAIN u /\ u[i + 1] \in Snapshot /\ q \in u[i + 1].of
  <2>1. i \in DOMAIN t /\ t[i] = Cur(q)
    BY <1>1, <1>2
  <2>2. CASE i \in DOMAIN s
    <3>1. i + 1 \in DOMAIN s /\ s[i + 1] \in Snapshot /\ q \in s[i + 1].of
      BY <1>1, <2>1, <2>2 DEF Followed
    <3>2. i + 1 \in DOMAIN t /\ i + 1 \in DOMAIN u /\ u[i + 1] = s[i + 1]
      BY <1>1, <3>1
    <3> QED BY <3>1, <3>2
  <2>3. CASE i = Len(s) + 1
    <3>1. c = Cur(q) /\ i + 1 \in DOMAIN u /\ u[i + 1] = x
      BY <1>1, <2>1, <2>3
    <3> QED BY <3>1
  <2> QED BY <1>1, <2>1, <2>2, <2>3
<1>3. Followed(u, q)
  BY <1>2 DEF Followed
<1> QED BY <1>3 DEF t, u

\* The messages of the watch stream are told apart by their kinds and queries.
LEMMA Kinds ==
  ASSUME NEW p, NEW q
  PROVE  /\ Cur(p) \notin Reply(q) /\ Err(p) \notin Reply(q) /\ Cur(p) # Err(q)
         /\ Cur(p) \notin Snapshot /\ Err(p) \notin Snapshot
         /\ p # q => Cur(p) # Cur(q) /\ Err(p) # Err(q)
         /\ \A x \in Snapshot : x \notin Reply(q) /\ x # Cur(q) /\ x # Err(q) /\ x.kind = "snapshot"
         /\ \A x \in Reply(p) : x \notin Snapshot /\ x # Cur(q) /\ x # Err(q) /\ (p # q => x \notin Reply(q))
         /\ \A x \in Ask(p) : p # q => x \notin Ask(q)
BY DEF Cur, Err, Reply, Snapshot, Ask

LEMMA ChangeKinds ==
  ASSUME NEW x \in Change
  PROVE  /\ x.kind \in {"added", "removed"} => x \in Reply(x.q)
         /\ x.kind = "current" => x = Cur(x.q)
         /\ x.kind = "error" => x = Err(x.q)
         /\ x.kind = "snapshot" => x \in Snapshot
<1>1. CASE x \in [kind : {"snapshot"}, ver : Version, of : SUBSET Query]
  BY <1>1 DEF Snapshot
<1>2. CASE x \in [kind : {"added", "removed", "current", "error"}, q : Query]
  BY <1>2 DEF Reply, Cur, Err
<1> QED BY <1>1, <1>2 DEF Change

-----------------------------------------------------------------------------
(* The two ends of the stream *)

\* The last request for q asks for what is needed.
AskInv(q) ==
  \A x \in Ask(q) : Stands(up, Ask(q), x) => (x.kind = "watch" <=> q \in Listened)

\* With no request on the wire the server serves q if it is listened to, or has
\* refused it and the error is on its way.
ServedInv(q) ==
  Without(up, Ask(q)) =>
    IF q \in Listened THEN served[q] # "no" \/ Stands(down, Reply(q), Err(q)) ELSE served[q] = "no"

Shown(q) == views[q].current /\ views[q].ver = pushed /\ ~online.timer

\* What is current on the server is shown, or the snapshot that will show it is
\* on its way, behind the word that it is current and all replies.
ShownInv(q) ==
  Without(up, Ask(q)) /\ served[q] = "current" =>
    \/ /\ ~Without(down, Snapshot)
       /\ \/ targets[q].current /\ Without(down, Reply(q))
          \/ Stands(down, Reply(q), Cur(q))
    \/ /\ Without(down, Snapshot) /\ Without(down, Reply(q))
       /\ targets[q].current /\ Shown(q)

\* No more responses are waited for than are owed; when all are, the two ends
\* are in step.
OpenInv(q) ==
  /\ targets[q].waits <= Owed(q)
  /\ targets[q].waits = Owed(q) => AskInv(q) /\ ServedInv(q) /\ ShownInv(q)

\* A target is not served when its error was sent after every reply.
RefusedInv(q) == Stands(down, Reply(q), Err(q)) => served[q] = "no"

\* The last snapshot on the wire is of the version the server sent last, and of
\* every target that is current.
PushedInv ==
  \A x \in Snapshot : Stands(down, Snapshot, x) => x.ver = pushed /\ Current \subseteq x.of

\* A stream that is not open has nothing on the wire.
ClosedInv ==
  stream.state # "Open" =>
    /\ up = <<>> /\ down = <<>> /\ \A q \in Query : served[q] = "no"
    /\ stream.state \in Started => targets = NoTargets

WireInv ==
  /\ ClosedInv /\ PushedInv
  /\ \A q \in Query : RefusedInv(q) /\ Followed(down, q)
  /\ stream.state = "Open" => \A q \in Query : OpenInv(q)

\* Nothing is in an empty sequence.
LEMMA EmptyWire ==
  ASSUME NEW S
  PROVE  Without(<<>>, S) /\ Places(<<>>, S) = {} /\ \A x : ~Stands(<<>>, S, x) /\ Followed(<<>>, x)
BY DEF Without, Stands, Followed, Places

\* How the number of responses owed changes.
LEMMA OwedType ==
  ASSUME WireTypeOK, NEW q
  PROVE  /\ Owed(q) \in Nat
         /\ Owed(q) = 0 <=> Without(up, Ask(q)) /\ Without(down, Reply(q))
<1>1. up \in Seq(Request) /\ down \in Seq(Change)
  BY DEF WireTypeOK
<1> DEFINE a == Cardinality(Places(up, Ask(q)))
           b == Cardinality(Places(down, Reply(q)))
<1>2. a \in Nat /\ (a = 0 <=> Without(up, Ask(q)))
  BY <1>1, PlacesFinite DEF Without
<1>3. b \in Nat /\ (b = 0 <=> Without(down, Reply(q)))
  BY <1>1, PlacesFinite DEF Without
<1>4. Owed(q) = a + b
  BY DEF Owed
<1> HIDE DEF a, b
<1> QED BY <1>2, <1>3, <1>4

LEMMA OwedSend ==
  ASSUME WireTypeOK, NEW q, NEW x \in Request, up' = Append(up, x), UNCHANGED down
  PROVE  Owed(q)' = Owed(q) + (IF x \in Ask(q) THEN 1 ELSE 0)
<1>1. up \in Seq(Request) /\ down \in Seq(Change)
  BY DEF WireTypeOK
<1> DEFINE a == Cardinality(Places(up, Ask(q)))
           b == Cardinality(Places(down, Reply(q)))
           a2 == Cardinality(Places(Append(up, x), Ask(q)))
<1>2. a2 = a + (IF x \in Ask(q) THEN 1 ELSE 0)
  BY <1>1, PlacesAppend
<1>3. Owed(q) = a + b /\ Owed(q)' = a2 + b
  BY DEF Owed
<1>4. a \in Nat /\ b \in Nat
  BY <1>1, PlacesFinite
<1> HIDE DEF a, b, a2
<1> QED BY <1>2, <1>3, <1>4

LEMMA OwedReceive ==
  ASSUME WireTypeOK, NEW q, down # <<>>, down' = Tail(down), UNCHANGED up
  PROVE  Owed(q)' = Owed(q) - (IF Head(down) \in Reply(q) THEN 1 ELSE 0)
<1>1. up \in Seq(Request) /\ down \in Seq(Change) /\ Tail(down) \in Seq(Change)
  BY SeqTail DEF WireTypeOK
<1> DEFINE a == Cardinality(Places(up, Ask(q)))
           b == Cardinality(Places(down, Reply(q)))
           b2 == Cardinality(Places(Tail(down), Reply(q)))
<1>2. b = b2 + (IF Head(down) \in Reply(q) THEN 1 ELSE 0)
  BY <1>1, PlacesTail
<1>3. Owed(q) = a + b /\ Owed(q)' = a + b2
  BY DEF Owed
<1>4. a \in Nat /\ b \in Nat /\ b2 \in Nat
  BY <1>1, PlacesFinite
<1> HIDE DEF a, b, b2
<1> QED BY <1>2, <1>3, <1>4

LEMMA OwedPush ==
  ASSUME WireTypeOK, NEW q, NEW y \in Change, down' = Append(down, y), UNCHANGED up, y \notin Reply(q)
  PROVE  Owed(q)' = Owed(q)
<1>1. up \in Seq(Request) /\ down \in Seq(Change)
  BY DEF WireTypeOK
<1>2. Cardinality(Places(Append(down, y), Reply(q))) = Cardinality(Places(down, Reply(q)))
  <2>1. Cardinality(Places(down, Reply(q))) \in Nat
    BY <1>1, PlacesFinite
  <2> QED BY <1>1, <2>1, PlacesAppend
<1> QED BY <1>2 DEF Owed

LEMMA OwedAnswer ==
  ASSUME WireTypeOK, NEW q, up # <<>>, up' = Tail(up), NEW y \in Change, down' = Append(down, y),
         Head(up) \in Ask(q) <=> y \in Reply(q)
  PROVE  Owed(q)' = Owed(q)
<1>1. up \in Seq(Request) /\ down \in Seq(Change) /\ Tail(up) \in Seq(Request)
  BY SeqTail DEF WireTypeOK
<1> DEFINE a == Cardinality(Places(up, Ask(q)))
           a2 == Cardinality(Places(Tail(up), Ask(q)))
           b == Cardinality(Places(down, Reply(q)))
           b2 == Cardinality(Places(Append(down, y), Reply(q)))
<1>2. a = a2 + (IF Head(up) \in Ask(q) THEN 1 ELSE 0)
  BY <1>1, PlacesTail
<1>3. b2 = b + (IF y \in Reply(q) THEN 1 ELSE 0)
  BY <1>1, PlacesAppend
<1>4. Owed(q) = a + b /\ Owed(q)' = a2 + b2
  BY DEF Owed
<1>5. a \in Nat /\ b \in Nat /\ a2 \in Nat
  BY <1>1, PlacesFinite
<1> HIDE DEF a, b, a2, b2
<1> QED BY <1>2, <1>3, <1>4, <1>5

-----------------------------------------------------------------------------
(* Steps that leave the wire alone, or clear it *)

LEMMA WireRests ==
  ASSUME WireInv, UNCHANGED <<up, down, served, pushed, targets>>, stream'.state = stream.state,
         stream.state = "Open" => Listened' = Listened /\ \A q \in Query : Shown(q) => Shown(q)'
  PROVE  WireInv'
<1>1. ClosedInv'
  BY DEF WireInv, ClosedInv
<1>2. PushedInv' /\ \A q \in Query : RefusedInv(q)' /\ Followed(down, q)'
  BY DEF WireInv, PushedInv, RefusedInv, Current, Followed
<1>3. ASSUME stream'.state = "Open", NEW q \in Query PROVE OpenInv(q)'
  <2>1. OpenInv(q)
    BY <1>3 DEF WireInv
  <2>2. Owed(q)' = Owed(q)
    BY DEF Owed
  <2>3. /\ AskInv(q) => AskInv(q)'
        /\ ServedInv(q) => ServedInv(q)'
        /\ ShownInv(q) => ShownInv(q)'
    BY <1>3 DEF AskInv, ServedInv, ShownInv
  <2> QED BY <2>1, <2>2, <2>3 DEF OpenInv
<1> QED BY <1>1, <1>2, <1>3 DEF WireInv

LEMMA WireCloses ==
  ASSUME up' = <<>>, down' = <<>>, \A q \in Query : served'[q] = "no", stream'.state # "Open",
         stream'.state \in Started => targets' = NoTargets
  PROVE  WireInv'
<1>1. ClosedInv'
  BY DEF ClosedInv
<1>2. PushedInv'
  BY EmptyWire DEF PushedInv
<1>3. \A q \in Query : RefusedInv(q)' /\ Followed(down, q)'
  BY EmptyWire DEF RefusedInv
<1> QED BY <1>1, <1>2, <1>3 DEF WireInv

\* A request for q, that is listened to from now on or no more.
LEMMA WireSends ==
  ASSUME WireInv, WireTypeOK, ClientTypeOK, stream.state = "Open", stream'.state = "Open",
         NEW kind \in {"watch", "unwatch"}, NEW q \in Query, Send(kind, q),
         UNCHANGED <<down, served, pushed>>,
         q \in Listened' <=> kind = "watch",
         \A p \in Query : p # q => /\ p \in Listened' <=> p \in Listened
                                   /\ Shown(p) => Shown(p)'
  PROVE  WireInv'
<1> DEFINE x == [kind |-> kind, q |-> q]
<1>1. /\ up \in Seq(Request) /\ x \in Request /\ up' = Append(up, x) /\ x.kind = kind
      /\ x \in Ask(q) /\ \A p \in Query : p # q => x \notin Ask(p)
  BY DEF Send, WireTypeOK, Request, Ask
<1>2. /\ targets'[q].waits = targets[q].waits + 1 /\ targets[q].waits \in Int
      /\ \A p \in Query : p # q => targets'[p] = targets[p]
  BY DEF Send, ClientTypeOK, TargetState
<1> HIDE DEF x
<1>3. ClosedInv'
  BY DEF ClosedInv
<1>4. PushedInv' /\ \A p \in Query : RefusedInv(p)' /\ Followed(down, p)'
  BY DEF WireInv, PushedInv, RefusedInv, Current, Followed
<1>5. OpenInv(q)'
  <2>1. OpenInv(q) /\ Owed(q) \in Nat /\ Owed(q)' = Owed(q) + 1
    BY <1>1, OwedType, OwedSend DEF WireInv
  <2>2. ~Without(up, Ask(q))'
    BY <1>1, WithoutAppend
  <2>3. AskInv(q)'
    <3> SUFFICES ASSUME NEW y \in Ask(q), Stands(up', Ask(q), y)
                 PROVE  y.kind = "watch" <=> q \in Listened'
      BY DEF AskInv, Ask
    <3>1. y = x
      BY <1>1, StandsAppend
    <3> QED BY <1>1, <3>1
  <2>4. targets'[q].waits <= Owed(q)'
    BY <1>2, <2>1 DEF OpenInv
  <2> QED BY <2>2, <2>3, <2>4 DEF OpenInv, ServedInv, ShownInv
<1>6. ASSUME NEW p \in Query, p # q PROVE OpenInv(p)'
  <2>1. OpenInv(p) /\ Owed(p) \in Nat /\ Owed(p)' = Owed(p)
    BY <1>1, <1>6, OwedType, OwedSend DEF WireInv
  <2>2. Without(up, Ask(p))' <=> Without(up, Ask(p))
    BY <1>1, <1>6, WithoutAppend
  <2>3. \A y \in Ask(p) : Stands(up', Ask(p), y) => Stands(up, Ask(p), y)
    <3> TAKE y \in Ask(p)
    <3>1. y # x
      BY <1>1, <1>6
    <3> QED BY <1>1, <3>1, StandsAppend
  <2>4. AskInv(p) => AskInv(p)'
    BY <1>6, <2>3 DEF AskInv, Ask
  <2>5. ServedInv(p) => ServedInv(p)'
    BY <1>6, <2>2 DEF ServedInv
  <2>6. ShownInv(p) => ShownInv(p)'
    BY <1>2, <1>6, <2>2 DEF ShownInv
  <2> QED BY <1>2, <1>6, <2>1, <2>4, <2>5, <2>6 DEF OpenInv
<1> QED BY <1>3, <1>4, <1>5, <1>6 DEF WireInv

\* What is shown stays so while the view says the same and no timer is set.
LEMMA ShownStays ==
  ASSUME NEW q, views'[q].current = views[q].current, views'[q].ver = views[q].ver,
         online'.timer => online.timer, UNCHANGED pushed
  PROVE  Shown(q) => Shown(q)'
BY DEF Shown

LEMMA WireApp ==
  ASSUME WireInv, UNCHANGED client, UNCHANGED wire
  PROVE  WireInv'
<1>1. /\ UNCHANGED <<up, down, served, pushed, targets>> /\ stream'.state = stream.state
      /\ UNCHANGED <<views, online>>
  BY DEF client, wire
<1>2. Listened' = Listened /\ \A q \in Query : Shown(q) => Shown(q)'
  BY <1>1, ShownStays DEF Listened
<1> QED BY <1>1, <1>2, WireRests

LEMMA WireAddListener ==
  ASSUME LifeInv, WireInv, NEW l \in Listener, AddListener(l)
  PROVE  WireInv'
<1> DEFINE q == Of[l]
           first == views[q].who = {}
           starts == first /\ stream.state \notin Started
           new == [who |-> views[q].who \union {l},
                   ver |-> IF first THEN cache[q] ELSE views[q].ver,
                   current |-> ~first /\ views[q].current]
<1>1. /\ views' = [views EXCEPT ![q] = new]
      /\ online' = IF starts THEN AtStart(online) ELSE online
      /\ IF starts
         THEN StartWatchStream(stream.state) /\ UNCHANGED up
         ELSE IF first /\ stream.state = "Open"
         THEN Send("watch", q) /\ stream' = Written
         ELSE UNCHANGED <<stream, targets, up>>
      /\ UNCHANGED <<down, served, pushed>>
  BY DEF AddListener
<1>2. q \in Query /\ views \in [Query -> View] /\ WireTypeOK /\ ClientTypeOK /\ stream \in StreamState
  BY OfType, LifeParts DEF ClientInv, ClientTypeOK
<1>3. /\ views'[q] = new /\ q \in Listened' /\ (~first => q \in Listened)
      /\ \A p \in Query : p # q => views'[p] = views[p] /\ (p \in Listened' <=> p \in Listened)
  BY <1>1, <1>2 DEF Listened
<1>4. CASE starts
  <2>1. stream.state # "Open" /\ StartWatchStream(stream.state) /\ UNCHANGED up
    BY <1>1, <1>4 DEF Started
  <2>2. up' = <<>> /\ down' = <<>> /\ \A p \in Query : served'[p] = "no"
    BY <1>1, <2>1 DEF WireInv, ClosedInv
  <2>3. stream'.state # "Open" /\ targets' = NoTargets
    BY <2>1, StartType DEF StartWatchStream
  <2> QED BY <2>2, <2>3, WireCloses
<1>5. CASE first /\ stream.state = "Open"
  <2>1. ~starts
    BY <1>5 DEF Started
  <2>2. Send("watch", q) /\ stream' = Written /\ UNCHANGED online
    BY <1>1, <1>5, <2>1
  <2>3. stream'.state = "Open"
    BY <1>2, <1>5, <2>2 DEF Written, StreamState
  <2>4. \A p \in Query : p # q => (Shown(p) => Shown(p)')
    BY <1>1, <1>3, <2>2, ShownStays
  <2> HIDE DEF q
  <2> QED BY <1>1, <1>2, <1>3, <1>5, <2>2, <2>3, <2>4, WireSends
<1>6. CASE ~starts /\ ~(first /\ stream.state = "Open")
  <2>1. UNCHANGED <<stream, targets, up, online>>
    BY <1>1, <1>6
  <2>2. ASSUME stream.state = "Open" PROVE Listened' = Listened /\ \A p \in Query : Shown(p) => Shown(p)'
    <3>1. ~first
      BY <1>6, <2>2
    <3>2. Listened' = Listened
      BY <1>3, <3>1 DEF Listened
    <3>3. \A p \in Query : views'[p].current = views[p].current /\ views'[p].ver = views[p].ver
      <4>1. views[q].current \in BOOLEAN
        BY OfType
      <4>2. views'[q].current = views[q].current /\ views'[q].ver = views[q].ver
        BY <1>3, <3>1, <4>1
      <4> QED BY <1>3, <4>2
    <3>4. \A p \in Query : Shown(p) => Shown(p)'
      BY <1>1, <2>1, <3>3, ShownStays
    <3> QED BY <3>2, <3>4
  <2> QED BY <1>1, <2>1, <2>2, WireRests
<1> QED BY <1>4, <1>5, <1>6

LEMMA WireRemoveListener ==
  ASSUME LifeInv, WireInv, NEW l \in Listener, RemoveListener(l)
  PROVE  WireInv'
<1> DEFINE q == Of[l]
           last == views[q].who = {l}
           none == last /\ Listened = {q}
<1>1. /\ views' = IF last THEN [views EXCEPT ![q] = NoView]
                  ELSE [views EXCEPT ![q].who = views[q].who \ {l}]
      /\ IF last /\ stream.state = "Open"
         THEN Send("unwatch", q) /\ stream' = [Written EXCEPT !.idle = none]
         ELSE UNCHANGED <<up, targets, stream>>
      /\ online' = IF none /\ stream.state # "Open" THEN Updated("Unknown") ELSE online
      /\ UNCHANGED <<down, served, pushed>>
  BY DEF RemoveListener
<1>2. /\ q \in Query /\ views \in [Query -> View] /\ views[q] \in View
      /\ WireTypeOK /\ ClientTypeOK /\ stream \in StreamState
  BY OfType, LifeParts DEF ClientInv, ClientTypeOK
<1>3. \A p \in Query : p # q => views'[p] = views[p] /\ (p \in Listened' <=> p \in Listened)
  BY <1>1, <1>2 DEF Listened
<1>4. CASE last /\ stream.state = "Open"
  <2>1. Send("unwatch", q) /\ stream' = [Written EXCEPT !.idle = none] /\ UNCHANGED online
    BY <1>1, <1>4
  <2>2. stream'.state = "Open"
    BY <1>2, <1>4, <2>1 DEF Written, StreamState
  <2>3. q \notin Listened'
    BY <1>1, <1>2, <1>4, Defaults DEF Listened
  <2>4. \A p \in Query : p # q => (Shown(p) => Shown(p)')
    BY <1>1, <1>3, <2>1, ShownStays
  <2> HIDE DEF q
  <2> QED BY <1>1, <1>2, <1>3, <1>4, <2>1, <2>2, <2>3, <2>4, WireSends
<1>5. CASE ~(last /\ stream.state = "Open")
  <2>1. UNCHANGED <<up, targets, stream>>
    BY <1>1, <1>5
  <2>2. ASSUME stream.state = "Open" PROVE Listened' = Listened /\ \A p \in Query : Shown(p) => Shown(p)'
    <3> DEFINE left == [views[q] EXCEPT !.who = views[q].who \ {l}]
    <3>1. views' = [views EXCEPT ![q] = left] /\ ~last
      BY <1>1, <1>5, <2>2
    <3>2. left.who = views[q].who \ {l} /\ left.ver = views[q].ver /\ left.current = views[q].current
      BY <1>2 DEF View
    <3> HIDE DEF left
    <3>3. q \in Listened' <=> q \in Listened
      BY <1>2, <3>1, <3>2 DEF Listened
    <3>4. Listened' = Listened
      BY <1>3, <3>3 DEF Listened
    <3>5. \A p \in Query : views'[p].current = views[p].current /\ views'[p].ver = views[p].ver
      BY <1>2, <3>1, <3>2
    <3>6. UNCHANGED online
      BY <1>1, <2>2
    <3>7. \A p \in Query : Shown(p) => Shown(p)'
      BY <1>1, <3>5, <3>6, ShownStays
    <3> QED BY <3>4, <3>7
  <2> QED BY <1>1, <2>1, <2>2, WireRests
<1> QED BY <1>4, <1>5

\* All targets are requested, each once: what is owed is waited for.
LEMMA AllRequested ==
  ASSUME LifeInv, WireInv, StreamOpens
  PROVE  /\ stream'.state = "Open" /\ down' = <<>> /\ targets = NoTargets
         /\ Listened' = Listened /\ UNCHANGED views
         /\ \A q \in Query :
              /\ served'[q] = "no"
              /\ targets'[q] = [NewTarget EXCEPT !.waits = IF q \in Listened THEN 1 ELSE 0]
              /\ targets'[q].waits \in Int /\ targets'[q].waits = Owed(q)'
              /\ \A i \in DOMAIN up' : up'[i] \in Ask(q) => up'[i].kind = "watch" /\ q \in Listened
              /\ q \in Listened => \E i \in DOMAIN up' : up'[i] \in Ask(q)
<1> DEFINE n == Cardinality(Listened)
<1>1. IsFiniteSet(Listened) /\ n \in Nat
  BY ListenAssumption, FS_Subset, FS_CardinalityType DEF Listened
<1>2. PICK order \in [1..n -> Listened] :
        /\ \A q \in Listened : \E i \in DOMAIN order : order[i] = q
        /\ up' = [i \in DOMAIN order |-> [kind |-> "watch", q |-> order[i]]]
  BY DEF StreamOpens
<1>3. /\ stream.state = "Starting" /\ stream'.state = "Open"
      /\ targets' = [q \in Query |->
           IF q \in Listened THEN [targets[q] EXCEPT !.waits = @ + 1] ELSE targets[q]]
      /\ UNCHANGED <<views, down, served, pushed>>
  <2>1. stream \in StreamState
    BY LifeParts DEF ClientInv, ClientTypeOK
  <2> QED BY <2>1 DEF StreamOpens, StreamState
<1>4. down' = <<>> /\ targets = NoTargets /\ \A q \in Query : served'[q] = "no"
  BY <1>3 DEF WireInv, ClosedInv, Started
<1>5. Listened' = Listened
  BY <1>3 DEF Listened
<1>6. \A i, j \in 1..n : order[i] = order[j] => i = j
  <2>1. IsFiniteSet(1..n) /\ Cardinality(1..n) = n
    BY <1>1, FS_Interval
  <2>2. order \in Surjection(1..n, Listened)
    BY <1>2, Fun_IsSurj
  <2>3. order \in Injection(1..n, Listened)
    BY <1>1, <2>1, <2>2, FS_SurjSameCardinalityImpliesInj
  <2> HIDE DEF n
  <2> QED BY <2>3 DEF Injection, IsInjective
<1> HIDE DEF n
<1>7. DOMAIN up' = 1..n /\ \A i \in 1..n : up'[i] = [kind |-> "watch", q |-> order[i]] /\ order[i] \in Listened
  BY <1>2
<1>8. ASSUME NEW q \in Query
      PROVE  /\ targets'[q] = [NewTarget EXCEPT !.waits = IF q \in Listened THEN 1 ELSE 0]
             /\ targets'[q].waits \in Int /\ targets'[q].waits = Owed(q)'
             /\ \A i \in DOMAIN up' : up'[i] \in Ask(q) => up'[i].kind = "watch" /\ q \in Listened
             /\ q \in Listened => \E i \in DOMAIN up' : up'[i] \in Ask(q)
  <2>1. \A i \in 1..n : up'[i] \in Ask(q) <=> order[i] = q
    BY <1>7 DEF Ask
  <2>2. Cardinality(Places(down', Reply(q))) = 0
    BY <1>4, EmptyWire, FS_EmptySet
  <2>3. /\ targets'[q] = [NewTarget EXCEPT !.waits = IF q \in Listened THEN 1 ELSE 0]
        /\ targets'[q].waits = IF q \in Listened THEN 1 ELSE 0
    BY <1>3, <1>4 DEF NoTargets, NewTarget
  <2>4. CASE q \in Listened
    <3>1. PICK i \in 1..n : order[i] = q
      BY <1>2, <2>4
    <3>2. Places(up', Ask(q)) = {i}
      BY <1>6, <1>7, <2>1, <3>1 DEF Places
    <3>3. Cardinality(Places(up', Ask(q))) = 1
      BY <3>2, FS_Singleton
    <3>4. targets'[q].waits = Owed(q)'
      BY <2>2, <2>3, <2>4, <3>3 DEF Owed, Ask, Reply
    <3> QED BY <1>7, <2>1, <2>3, <2>4, <3>1, <3>4
  <2>5. CASE q \notin Listened
    <3>1. Places(up', Ask(q)) = {}
      BY <1>7, <2>1, <2>5 DEF Places
    <3>2. Cardinality(Places(up', Ask(q))) = 0
      BY <3>1, FS_EmptySet
    <3>3. targets'[q].waits = Owed(q)'
      BY <2>2, <2>3, <2>5, <3>2 DEF Owed, Ask, Reply
    <3> QED BY <1>7, <2>1, <2>3, <2>5, <3>3
  <2> QED BY <2>4, <2>5
<1> QED BY <1>3, <1>4, <1>5, <1>8

LEMMA WireStreamOpens ==
  ASSUME LifeInv, WireInv, StreamOpens
  PROVE  WireInv'
<1>1. ASSUME NEW q \in Query PROVE OpenInv(q)'
  <2>1. AskInv(q)'
    <3> SUFFICES ASSUME NEW x \in Ask(q), Stands(up', Ask(q), x)
                 PROVE  x.kind = "watch" <=> q \in Listened'
      BY DEF AskInv, Ask
    <3>1. PICK i \in DOMAIN up' : up'[i] = x
      BY DEF Stands
    <3> QED BY <3>1, AllRequested
  <2>2. ServedInv(q)'
    BY AllRequested DEF ServedInv, Without, Ask
  <2>3. ShownInv(q)'
    BY AllRequested DEF ShownInv
  <2>4. targets'[q].waits <= Owed(q)'
    <3>1. targets'[q].waits \in Int /\ targets'[q].waits = Owed(q)'
      BY AllRequested
    <3> QED BY <3>1
  <2> QED BY <2>1, <2>2, <2>3, <2>4 DEF OpenInv
<1>2. down' = <<>> /\ stream'.state = "Open"
  BY AllRequested
<1>3. ClosedInv' /\ PushedInv' /\ \A q \in Query : RefusedInv(q)' /\ Followed(down, q)'
  <2>1. ClosedInv'
    BY <1>2 DEF ClosedInv
  <2>2. PushedInv' /\ \A q \in Query : RefusedInv(q)' /\ Followed(down, q)'
    BY <1>2, EmptyWire DEF PushedInv, RefusedInv
  <2> QED BY <2>1, <2>2
<1> QED BY <1>1, <1>2, <1>3 DEF WireInv

LEMMA WireEnds ==
  ASSUME LifeInv, WireInv, StreamFails \/ IdleTimeout \/ CredentialDidChange \/ BackoffElapsed
  PROVE  WireInv'
<1>0. stream \in StreamState
  BY LifeParts DEF ClientInv, ClientTypeOK
<1>1. ASSUME NoWire, NEW s \in {"Error", "Initial"},
             \/ StartWatchStream(s)
             \/ (stream' = Closed(s) /\ UNCHANGED targets)
      PROVE  WireInv'
  <2>1. up' = <<>> /\ down' = <<>> /\ \A q \in Query : served'[q] = "no"
    BY <1>1 DEF NoWire
  <2>2. CASE StartWatchStream(s)
    <3>1. stream'.state # "Open" /\ targets' = NoTargets
      BY <2>2, StartType DEF StartWatchStream
    <3> QED BY <2>1, <3>1, WireCloses
  <2>3. CASE stream' = Closed(s) /\ UNCHANGED targets
    <3>1. stream'.state # "Open" /\ stream'.state \notin Started
      BY <2>3 DEF Closed, Started
    <3> QED BY <2>1, <3>1, WireCloses
  <2> QED BY <1>1, <2>2, <2>3
<1>2. CASE StreamFails
  BY <1>1, <1>2 DEF StreamFails, Interrupted
<1>3. CASE IdleTimeout
  BY <1>1, <1>3 DEF IdleTimeout
<1>4. CASE CredentialDidChange
  <2> DEFINE from == IF stream.state \in Started THEN "Initial" ELSE stream.state
  <2>1. from \in {"Error", "Initial"}
    BY <1>0 DEF StreamState
  <2>2. /\ NoWire
        /\ IF Listened # {} THEN StartWatchStream(from) ELSE stream' = Closed(from) /\ UNCHANGED targets
    BY <1>4 DEF CredentialDidChange
  <2> HIDE DEF from
  <2> QED BY <1>1, <2>1, <2>2
<1>5. CASE BackoffElapsed
  <2>1. /\ stream.state = "Backoff" /\ stream'.state = "Starting"
        /\ UNCHANGED <<up, down, served, pushed, targets>>
    BY <1>0, <1>5 DEF BackoffElapsed, StreamState, wire
  <2>2. up' = <<>> /\ down' = <<>> /\ (\A q \in Query : served'[q] = "no") /\ targets' = NoTargets
    BY <2>1 DEF WireInv, ClosedInv, Started
  <2> QED BY <2>1, <2>2, WireCloses
<1> QED BY <1>2, <1>3, <1>4, <1>5

\* Nothing is shown while the tracker's timer runs.
LEMMA WireOnlineStateTimeout ==
  ASSUME LifeInv, WireInv, OnlineStateTimeout
  PROVE  WireInv'
<1>1. online.timer /\ UNCHANGED <<stream, targets>> /\ UNCHANGED wire
  BY DEF OnlineStateTimeout
<1>2. \A q \in Query : ~Shown(q)
  BY <1>1 DEF Shown
<1> DEFINE vs == AfterOnlineState(views, [online EXCEPT !.state = "Offline", !.timer = FALSE])
<1>3. views' = vs
  BY DEF OnlineStateTimeout, Notify
<1>4. vs \in [Query -> View] /\ \A q \in Query : vs[q].who = views[q].who
  BY AfterOnlineStateType, LifeParts DEF ClientInv, ClientTypeOK
<1>5. Listened' = Listened
  <2> HIDE DEF vs
  <2> QED BY <1>3, <1>4, ListenedKept
<1> HIDE DEF vs
<1>6. UNCHANGED <<up, down, served, pushed, targets>> /\ stream'.state = stream.state
  BY <1>1 DEF wire
<1> QED BY <1>2, <1>5, <1>6, WireRests

-----------------------------------------------------------------------------
(* An answer is received *)

\* What is on the wire before and behind the answer that is received.
LEMMA Received ==
  ASSUME LifeInv, WireInv, NEW kind, Receive(kind), NEW q \in Query
  PROVE  /\ stream.state = "Open" /\ stream'.state = "Open" /\ UNCHANGED <<up, served, pushed>>
         /\ Head(down) \in Change /\ OpenInv(q)
         /\ Owed(q) \in Nat /\ Owed(q)' \in Nat
         /\ Owed(q) = 0 <=> Without(up, Ask(q)) /\ Without(down, Reply(q))
         /\ Owed(q)' = Owed(q) - (IF Head(down) \in Reply(q) THEN 1 ELSE 0)
         /\ \A S : Without(down, S) <=> Without(down', S) /\ Head(down) \notin S
         /\ \A S, x : Stands(down, S, x) <=>
                        Stands(down', S, x) \/ (Head(down) = x /\ Without(down', S))
         /\ ClosedInv' /\ PushedInv' /\ RefusedInv(q)' /\ Followed(down, q)'
<1>1. /\ stream.state = "Open" /\ UNCHANGED <<stream, up, served, pushed>>
      /\ down # <<>> /\ down' = Tail(down)
  BY DEF Receive
<1>2. WireTypeOK /\ down \in Seq(Change) /\ up \in Seq(Request)
  BY LifeParts DEF WireTypeOK
<1>3. Head(down) \in Change /\ down' \in Seq(Change)
  BY <1>1, <1>2, SeqTail
<1>4. WireTypeOK'
  BY <1>1, <1>3, LifeParts DEF WireTypeOK
<1>5. /\ Owed(q) \in Nat
      /\ Owed(q) = 0 <=> Without(up, Ask(q)) /\ Without(down, Reply(q))
  BY <1>2, OwedType
<1>6. Owed(q)' = Owed(q) - (IF Head(down) \in Reply(q) THEN 1 ELSE 0)
  BY <1>1, <1>2, OwedReceive
<1>7. Owed(q)' \in Nat
  <2>1. IsFiniteSet(Places(up, Ask(q))) /\ Cardinality(Places(up, Ask(q))) \in Nat
    BY <1>2, PlacesFinite
  <2>2. Cardinality(Places(down', Reply(q))) \in Nat
    BY <1>3, PlacesFinite
  <2>3. Owed(q)' = Cardinality(Places(up, Ask(q))) + Cardinality(Places(down', Reply(q)))
    BY <1>1 DEF Owed, Ask, Reply
  <2> QED BY <2>1, <2>2, <2>3
<1>8. \A S : Without(down, S) <=> Without(down', S) /\ Head(down) \notin S
  BY <1>1, <1>2, WithoutTail
<1>9. \A S, x : Stands(down, S, x) <=>
                  Stands(down', S, x) \/ (Head(down) = x /\ Without(down', S))
  BY <1>1, <1>2, StandsTail
<1>10. Followed(down', q)
  BY <1>1, <1>2, FollowedTail DEF WireInv
<1>11. RefusedInv(q)'
  BY <1>1, <1>9 DEF WireInv, RefusedInv
<1>12. PushedInv'
  BY <1>1, <1>9 DEF WireInv, PushedInv, Current
<1>13. ClosedInv' /\ OpenInv(q)
  BY <1>1 DEF WireInv, ClosedInv
<1> QED BY <1>1, <1>3, <1>5, <1>6, <1>7, <1>8, <1>9, <1>10, <1>11, <1>12, <1>13

\* What is left to show of an answer.
LEMMA WireReceive ==
  ASSUME LifeInv, WireInv, NEW kind, Receive(kind), \A q \in Query : OpenInv(q)'
  PROVE  WireInv'
<1>1. \A q \in Query : PushedInv' /\ ClosedInv' /\ RefusedInv(q)' /\ Followed(down, q)'
  BY Received
<1>2. PushedInv' /\ ClosedInv'
  <2>1. stream.state = "Open" /\ UNCHANGED <<stream, served, pushed>> /\ down # <<>> /\ down' = Tail(down)
    BY DEF Receive
  <2>2. \A S, x : Stands(Tail(down), S, x) => Stands(down, S, x)
    BY <2>1, StandsTail, LifeParts DEF WireTypeOK
  <2> QED BY <2>1, <2>2 DEF WireInv, PushedInv, ClosedInv, Current
<1> QED BY <1>1, <1>2 DEF WireInv

\* An answer about another query.
LEMMA OpenElse ==
  ASSUME LifeInv, WireInv, NEW kind, Receive(kind), NEW q \in Query,
         Head(down) \notin Reply(q), Head(down) # Cur(q), Head(down) # Err(q),
         Head(down) \notin Snapshot,
         targets'[q] = targets[q], views'[q] = views[q], ~online'.timer
  PROVE  OpenInv(q)'
<1>1. Owed(q)' = Owed(q)
  BY Received
<1>2. q \in Listened' <=> q \in Listened
  BY DEF Listened
<1>3. AskInv(q) => AskInv(q)'
  BY <1>2, Received DEF AskInv, Ask
<1>4. ServedInv(q) => ServedInv(q)'
  BY <1>2, Received DEF ServedInv, Ask, Reply, Err
<1>5. ShownInv(q) => ShownInv(q)'
  <2>1. Shown(q) => Shown(q)'
    BY Received DEF Shown
  <2> QED BY <2>1, Received DEF ShownInv, Ask, Reply, Cur, Snapshot
<1> QED BY <1>1, <1>3, <1>4, <1>5, Received DEF OpenInv

\* The response to a request.
LEMMA OpenReplied ==
  ASSUME LifeInv, WireInv, NEW kind, Receive(kind), NEW q \in Query,
         Head(down) \in Reply(q), targets'[q].waits = targets[q].waits - 1,
         targets[q].waits \in Int, views'[q] = views[q], ~online'.timer
  PROVE  OpenInv(q)'
<1>1. Owed(q)' = Owed(q) - 1 /\ Owed(q) \in Nat /\ Owed(q)' \in Nat
  BY Received
<1>2. q \in Listened' <=> q \in Listened
  BY DEF Listened
<1>3. Head(down) \notin Snapshot /\ Head(down) # Cur(q) /\ Head(down) # Err(q)
  BY Kinds
<1>4. AskInv(q) => AskInv(q)'
  BY <1>2, Received DEF AskInv, Ask
<1>5. ServedInv(q) => ServedInv(q)'
  BY <1>2, <1>3, Received DEF ServedInv, Ask, Reply, Err
<1>6. ShownInv(q) => ShownInv(q)'
  <2> SUFFICES ASSUME ShownInv(q), Without(up', Ask(q)), served'[q] = "current"
               PROVE  ~Without(down', Snapshot) /\ Stands(down', Reply(q), Cur(q))
    BY DEF ShownInv, Ask, Reply, Cur, Snapshot
  <2>1. ~Without(down, Reply(q))
    BY Received
  <2>2. ~Without(down, Snapshot) /\ Stands(down, Reply(q), Cur(q))
    BY <2>1, Received DEF ShownInv
  <2> QED BY <1>3, <2>2, Received
<1> QED BY <1>1, <1>4, <1>5, <1>6, Received DEF OpenInv

LEMMA WireTargetAdded ==
  ASSUME LifeInv, WireInv, TargetAdded
  PROVE  WireInv'
<1> DEFINE p == Head(down).q
<1>1. /\ Receive("added") /\ Notify(views, Updated("Online"))
      /\ targets' = [targets EXCEPT ![p].waits = @ - 1,
                                    ![p].pending = @ /\ targets[p].waits # 1]
  BY DEF TargetAdded
<1>2. views' = views /\ ~online'.timer
  BY <1>1 DEF Notify, Updated
<1>3. p \in Query /\ Head(down).kind = "added" /\ targets \in [Query -> TargetState]
  BY <1>1, ReceiveType, LifeParts DEF ClientInv, ClientTypeOK
<1>4. Head(down) \in Change
  BY <1>1, <1>3, Received
<1>5. Head(down) \in Reply(p)
  BY <1>3, <1>4, ChangeKinds
<1>6. /\ targets'[p].waits = targets[p].waits - 1 /\ targets[p].waits \in Int
      /\ \A q \in Query : q # p => targets'[q] = targets[q]
  <2> HIDE DEF p
  <2> QED BY <1>1, <1>3 DEF TargetState
<1>7. ASSUME NEW q \in Query PROVE OpenInv(q)'
  <2>1. CASE q = p
    <3> HIDE DEF p
    <3> QED BY <1>1, <1>2, <1>5, <1>6, <2>1, OpenReplied
  <2>2. CASE q # p
    <3>1. /\ Head(down) \notin Reply(q) /\ Head(down) # Cur(q) /\ Head(down) # Err(q)
          /\ Head(down) \notin Snapshot
      <4> HIDE DEF p
      <4> QED BY <1>5, <2>2, Kinds
    <3> QED BY <1>1, <1>2, <1>6, <2>2, <3>1, OpenElse
  <2> QED BY <2>1, <2>2
<1> QED BY <1>1, <1>7, WireReceive

LEMMA WireTargetRemoved ==
  ASSUME LifeInv, WireInv, TargetRemoved
  PROVE  WireInv'
<1> DEFINE p == Head(down).q
<1>1. /\ Receive("removed") /\ Notify(views, Updated("Online"))
      /\ targets' = [targets EXCEPT ![p] =
           IF targets[p].waits = 1 THEN NewTarget ELSE [targets[p] EXCEPT !.waits = @ - 1]]
  BY DEF TargetRemoved
<1>2. views' = views /\ ~online'.timer
  BY <1>1 DEF Notify, Updated
<1>3. p \in Query /\ Head(down).kind = "removed" /\ targets \in [Query -> TargetState]
  BY <1>1, ReceiveType, LifeParts DEF ClientInv, ClientTypeOK
<1>4. Head(down) \in Change
  BY <1>1, <1>3, Received
<1>5. Head(down) \in Reply(p)
  BY <1>3, <1>4, ChangeKinds
<1>6. /\ targets'[p].waits = targets[p].waits - 1 /\ targets[p].waits \in Int
      /\ \A q \in Query : q # p => targets'[q] = targets[q]
  <2> HIDE DEF p
  <2> QED BY <1>1, <1>3 DEF TargetState, NewTarget
<1>7. ASSUME NEW q \in Query PROVE OpenInv(q)'
  <2>1. CASE q = p
    <3> HIDE DEF p
    <3> QED BY <1>1, <1>2, <1>5, <1>6, <2>1, OpenReplied
  <2>2. CASE q # p
    <3>1. /\ Head(down) \notin Reply(q) /\ Head(down) # Cur(q) /\ Head(down) # Err(q)
          /\ Head(down) \notin Snapshot
      <4> HIDE DEF p
      <4> QED BY <1>5, <2>2, Kinds
    <3> QED BY <1>1, <1>2, <1>6, <2>2, <3>1, OpenElse
  <2> QED BY <2>1, <2>2
<1> QED BY <1>1, <1>7, WireReceive

\* A target that is current and owed nothing takes the word for it.
LEMMA WireTargetCurrent ==
  ASSUME LifeInv, WireInv, TargetCurrent
  PROVE  WireInv'
<1>0. PICK p \in Query : p = Head(down).q
  BY ReceiveType DEF TargetCurrent
<1>1. /\ Receive("current") /\ Notify(views, Updated("Online"))
      /\ targets' = IF Active(p)
                    THEN [targets EXCEPT ![p].current = TRUE, ![p].pending = TRUE] ELSE targets
  BY <1>0 DEF TargetCurrent
<1>2. views' = views /\ ~online'.timer /\ Listened' = Listened
  BY <1>1 DEF Notify, Updated, Listened
<1>3. Head(down).kind = "current" /\ targets \in [Query -> TargetState]
  BY <1>1, ReceiveType, LifeParts DEF ClientInv, ClientTypeOK
<1>4. Head(down) \in Change
  BY <1>1, <1>3, Received
<1>5. Head(down) = Cur(p)
  BY <1>0, <1>3, <1>4, ChangeKinds
<1>6. /\ targets'[p].waits = targets[p].waits /\ targets[p].waits \in Int
      /\ targets'[p].current = (targets[p].current \/ Active(p))
      /\ \A q \in Query : q # p => targets'[q] = targets[q]
  <2>1. targets[p] \in TargetState
    BY <1>3
  <2>2. CASE Active(p)
    BY <1>1, <1>3, <2>1, <2>2 DEF TargetState
  <2>3. CASE ~Active(p)
    BY <1>1, <1>3, <2>1, <2>3 DEF TargetState
  <2> QED BY <2>2, <2>3
<1>7. /\ Head(down) \notin Reply(p) /\ Head(down) # Err(p) /\ Head(down) \notin Snapshot
      /\ \A q \in Query : q # p =>
           /\ Head(down) \notin Reply(q) /\ Head(down) # Cur(q) /\ Head(down) # Err(q)
  BY <1>5, Kinds
<1>8. OpenInv(p)'
  <2>1. Owed(p)' = Owed(p)
    BY <1>1, <1>3, <1>7, Received
  <2>2. AskInv(p) => AskInv(p)'
    BY <1>1, <1>2, <1>3, Received DEF AskInv, Ask
  <2>3. ServedInv(p) => ServedInv(p)'
    BY <1>1, <1>2, <1>3, <1>7, Received DEF ServedInv, Ask, Reply, Err
  <2>4. ASSUME targets[p].waits = Owed(p), ServedInv(p), ShownInv(p) PROVE ShownInv(p)'
    <3> SUFFICES ASSUME Without(up', Ask(p)), served'[p] = "current"
                 PROVE  \/ /\ ~Without(down', Snapshot)
                           /\ \/ targets'[p].current /\ Without(down', Reply(p))
                              \/ Stands(down', Reply(p), Cur(p))
                        \/ /\ Without(down', Snapshot) /\ Without(down', Reply(p))
                           /\ targets'[p].current /\ Shown(p)'
      BY DEF ShownInv, Ask, Reply, Cur, Snapshot
    <3>1. Without(up, Ask(p)) /\ served[p] = "current" /\ UNCHANGED pushed
      BY <1>1, <1>3, Received
    <3>2. Without(down, Snapshot) <=> Without(down', Snapshot)
      BY <1>1, <1>3, <1>7, Received
    <3>3. Without(down, Reply(p)) <=> Without(down', Reply(p))
      BY <1>1, <1>3, <1>7, Received
    <3>4. Stands(down, Reply(p), Cur(p)) =>
            Stands(down', Reply(p), Cur(p)) \/ Without(down', Reply(p))
      BY <1>1, <1>3, Received
    <3>5. ASSUME Without(down, Reply(p)) PROVE targets'[p].current
      <4>1. Owed(p) = 0
        BY <1>1, <1>3, <3>1, <3>5, Received
      <4>2. p \in Listened
        BY <2>4, <3>1 DEF ServedInv
      <4> QED BY <1>6, <2>4, <4>1, <4>2 DEF Active
    <3>6. Shown(p) => Shown(p)'
      BY <1>2, <3>1 DEF Shown
    <3> QED BY <2>4, <3>1, <3>2, <3>3, <3>4, <3>5, <3>6 DEF ShownInv
  <2> QED BY <1>1, <1>3, <1>6, <2>1, <2>2, <2>3, <2>4, Received DEF OpenInv
<1>9. ASSUME NEW q \in Query PROVE OpenInv(q)'
  <2>1. CASE q = p
    BY <1>8, <2>1
  <2>2. CASE q # p
    BY <1>1, <1>2, <1>6, <1>7, <2>2, OpenElse
  <2> QED BY <2>1, <2>2
<1> QED BY <1>1, <1>9, WireReceive

LEMMA WireTargetError ==
  ASSUME LifeInv, WireInv, TargetError
  PROVE  WireInv'
<1>0. PICK p \in Query : p = Head(down).q
  BY ReceiveType DEF TargetError
<1>1. /\ Receive("error") /\ online' = Updated("Online")
      /\ views' = [views EXCEPT ![p] = NoView]
      /\ targets' = IF p \in Listened THEN [targets EXCEPT ![p] = NewTarget] ELSE targets
  BY <1>0 DEF TargetError
<1>2. ~online'.timer
  BY <1>1 DEF Updated
<1>3. /\ Head(down).kind = "error"
      /\ targets \in [Query -> TargetState] /\ views \in [Query -> View]
  BY <1>1, ReceiveType, LifeParts DEF ClientInv, ClientTypeOK
<1>4. Head(down) \in Change
  BY <1>1, <1>3, Received
<1>5. Head(down) = Err(p)
  BY <1>0, <1>3, <1>4, ChangeKinds
<1>6. \A q \in Query : q # p => targets'[q] = targets[q] /\ views'[q] = views[q]
  BY <1>1, <1>3
<1>7. /\ Head(down) \notin Reply(p) /\ Head(down) # Cur(p) /\ Head(down) \notin Snapshot
      /\ \A q \in Query : q # p =>
           /\ Head(down) \notin Reply(q) /\ Head(down) # Cur(q) /\ Head(down) # Err(q)
  BY <1>5, Kinds
<1>8. p \notin Listened'
  BY <1>1, <1>3, Defaults DEF Listened
<1>9. OpenInv(p)'
  <2>1. Owed(p)' = Owed(p) /\ Owed(p) \in Nat
    BY <1>1, <1>3, <1>7, Received
  <2>2. CASE p \in Listened
    <3>1. targets'[p].waits = 0
      BY <1>1, <1>3, <2>2 DEF NewTarget
    <3>2. ASSUME Owed(p)' = 0 PROVE AskInv(p)' /\ ServedInv(p)' /\ ShownInv(p)'
      <4>1. Without(up, Ask(p)) /\ Without(down, Reply(p)) /\ UNCHANGED <<up, served>>
        BY <1>1, <1>3, <2>1, <3>2, Received
      <4>2. Stands(down, Reply(p), Err(p))
        BY <1>1, <1>3, <1>5, <4>1, Received
      <4>3. served'[p] = "no"
        BY <1>3, <4>1, <4>2 DEF WireInv, RefusedInv
      <4>4. AskInv(p)'
        BY <4>1 DEF AskInv, Ask, Stands, Without
      <4> QED BY <1>8, <4>3, <4>4 DEF ServedInv, ShownInv
    <3> QED BY <2>1, <3>1, <3>2 DEF OpenInv
  <2>3. CASE p \notin Listened
    <3>1. targets'[p] = targets[p] /\ OpenInv(p)
      BY <1>1, <1>3, <2>3, Received
    <3>2. AskInv(p) => AskInv(p)'
      BY <1>1, <1>3, <1>8, <2>3, Received DEF AskInv, Ask
    <3>3. ServedInv(p) => ServedInv(p)'
      BY <1>1, <1>3, <1>8, <2>3, Received DEF ServedInv, Ask
    <3>4. ServedInv(p) => ShownInv(p)'
      BY <1>1, <1>3, <2>3, Received DEF ServedInv, ShownInv, Ask
    <3> QED BY <2>1, <3>1, <3>2, <3>3, <3>4 DEF OpenInv
  <2> QED BY <2>2, <2>3
<1>10. ASSUME NEW q \in Query PROVE OpenInv(q)'
  <2>1. CASE q = p
    BY <1>9, <2>1
  <2>2. CASE q # p
    BY <1>1, <1>2, <1>6, <1>7, <2>2, OpenElse
  <2> QED BY <2>1, <2>2
<1> QED BY <1>1, <1>10, WireReceive

\* The last snapshot shows what is current, and it is the one that is due.
LEMMA WireRaiseWatchSnapshot ==
  ASSUME LifeInv, WireInv, RaiseWatchSnapshot
  PROVE  WireInv'
<1> DEFINE h == Head(down)
           news == {q \in h.of : Active(q)}
           told == {q \in Query : Active(q) /\ (targets[q].pending \/ q \in news)}
           shown(q) == IF q \in news THEN h.ver ELSE views[q].ver
           current(q) == IF q \in told THEN targets[q].current ELSE views[q].current
           pending(q) == targets[q].pending /\ q \notin told
           vs == [q \in Query |-> [views[q] EXCEPT !.ver = shown(q), !.current = current(q)]]
<1>1. /\ Receive("snapshot") /\ Notify(vs, Updated("Online"))
      /\ targets' = [q \in Query |-> [targets[q] EXCEPT !.pending = pending(q)]]
  BY DEF RaiseWatchSnapshot
<1>2. views' = vs /\ ~online'.timer
  <2> HIDE DEF vs
  <2> QED BY <1>1 DEF Notify, Updated
<1>3. /\ targets \in [Query -> TargetState] /\ views \in [Query -> View]
      /\ h.kind = "snapshot"
  BY <1>1, ReceiveType, LifeParts DEF ClientInv, ClientTypeOK
<1>4. ASSUME NEW q \in Query
      PROVE  /\ targets'[q].waits = targets[q].waits /\ targets[q].waits \in Int
             /\ targets'[q].current = targets[q].current
             /\ views'[q].who = views[q].who
             /\ views'[q].ver = shown(q) /\ views'[q].current = current(q)
  <2>1. targets[q] \in TargetState /\ views[q] \in View
    BY <1>3
  <2> HIDE DEF shown, current, pending
  <2> QED BY <1>1, <1>2, <2>1 DEF TargetState, View
<1>5. Listened' = Listened
  BY <1>4 DEF Listened
<1>6. ASSUME NEW q \in Query PROVE OpenInv(q)'
  <2>1. h \in Change
    BY <1>1, Received
  <2>2. h \in Snapshot
    BY <1>3, <2>1, ChangeKinds
  <2>3. h \notin Reply(q) /\ h # Cur(q) /\ h # Err(q)
    BY <2>2, Kinds
  <2> HIDE DEF h
  <2>4. /\ Owed(q)' = Owed(q) /\ UNCHANGED <<up, served, pushed>>
        /\ Owed(q) = 0 <=> Without(up, Ask(q)) /\ Without(down, Reply(q))
        /\ Without(down, Reply(q)) <=> Without(down', Reply(q))
        /\ Stands(down, Reply(q), Cur(q)) <=> Stands(down', Reply(q), Cur(q))
        /\ Stands(down, Reply(q), Err(q)) <=> Stands(down', Reply(q), Err(q))
        /\ ~Without(down, Snapshot)
        /\ OpenInv(q) /\ Followed(down', q)
    <3>1. /\ UNCHANGED <<up, served, pushed>> /\ OpenInv(q) /\ Followed(down, q)'
          /\ Owed(q) = 0 <=> Without(up, Ask(q)) /\ Without(down, Reply(q))
      BY <1>1, Received
    <3>4. Owed(q)' = Owed(q)
      <4>1. Owed(q) \in Nat /\ Owed(q)' = Owed(q) - (IF Head(down) \in Reply(q) THEN 1 ELSE 0)
        BY <1>1, Received
      <4>2. Head(down) \notin Reply(q)
        BY <2>3 DEF h
      <4> QED BY <4>1, <4>2
    <3>2. /\ Without(down, Reply(q)) <=> Without(down', Reply(q))
          /\ ~Without(down, Snapshot)
      BY <1>1, <2>2, <2>3, Received DEF h
    <3>3. /\ Stands(down, Reply(q), Cur(q)) <=> Stands(down', Reply(q), Cur(q))
          /\ Stands(down, Reply(q), Err(q)) <=> Stands(down', Reply(q), Err(q))
      BY <1>1, <2>3, Received DEF h
    <3> QED BY <3>1, <3>2, <3>3, <3>4 DEF Followed, Cur, Snapshot
  <2>5. Without(down', Snapshot) => Stands(down, Snapshot, h)
    BY <1>1, Received DEF h
  <2>6. AskInv(q) => AskInv(q)'
    BY <1>5, <2>4 DEF AskInv, Ask
  <2>7. ServedInv(q) => ServedInv(q)'
    BY <1>5, <2>4 DEF ServedInv, Ask, Reply, Err
  <2>8. ASSUME targets[q].waits = Owed(q), ServedInv(q), ShownInv(q) PROVE ShownInv(q)'
    <3> SUFFICES ASSUME Without(up', Ask(q)), served'[q] = "current"
                 PROVE  \/ /\ ~Without(down', Snapshot)
                           /\ \/ targets'[q].current /\ Without(down', Reply(q))
                              \/ Stands(down', Reply(q), Cur(q))
                        \/ /\ Without(down', Snapshot) /\ Without(down', Reply(q))
                           /\ targets'[q].current /\ Shown(q)'
      BY DEF ShownInv, Ask, Reply, Cur, Snapshot
    <3>1. \/ targets[q].current /\ Without(down, Reply(q))
          \/ Stands(down, Reply(q), Cur(q))
      BY <2>4, <2>8 DEF ShownInv
    <3>2. CASE ~Without(down', Snapshot)
      BY <1>4, <2>4, <3>1, <3>2
    <3>3. CASE Without(down', Snapshot)
      <4>1. ~Stands(down', Reply(q), Cur(q))
        BY <2>4, <3>3 DEF Stands, Followed, Without
      <4>2. targets[q].current /\ Without(down, Reply(q))
        BY <2>4, <3>1, <4>1
      <4>3. Owed(q) = 0 /\ q \in Listened
        BY <2>4, <2>8, <4>2 DEF ServedInv
      <4>4. Active(q)
        BY <2>8, <4>3 DEF Active
      <4>5. h.ver = pushed /\ q \in h.of
        BY <2>2, <2>4, <2>5, <3>3 DEF WireInv, PushedInv, Current
      <4>6. views'[q].current /\ views'[q].ver = pushed
        BY <1>4, <4>2, <4>4, <4>5
      <4>7. Shown(q)'
        BY <1>2, <2>4, <4>6 DEF Shown
      <4> QED BY <1>4, <2>4, <3>3, <4>2, <4>7
    <3> QED BY <3>2, <3>3
  <2> QED BY <1>4, <2>4, <2>6, <2>7, <2>8 DEF OpenInv
<1> QED BY <1>1, <1>6, WireReceive

-----------------------------------------------------------------------------
(* The server sends *)

\* The server puts y on the wire, that is no reply for q.
LEMMA OpenPushed ==
  ASSUME WireInv, WireTypeOK, stream.state = "Open", NEW y \in Change, down' = Append(down, y),
         NEW q \in Query, y \notin Reply(q), y # Cur(q),
         UNCHANGED <<up, targets, views, online>>,
         served'[q] = served[q] \/ (served'[q] = "no" /\ y = Err(q)),
         y \notin Snapshot => UNCHANGED pushed
  PROVE  OpenInv(q)'
<1>1. Owed(q)' = Owed(q) /\ OpenInv(q)
  BY OwedPush DEF WireInv
<1>2. /\ \A S : Without(down', S) <=> Without(down, S) /\ y \notin S
      /\ \A S, x : Stands(down', S, x) <=> y = x \/ (Stands(down, S, x) /\ y \notin S)
  BY WithoutAppend, StandsAppend DEF WireTypeOK
<1>3. Listened' = Listened
  BY DEF Listened
<1>4. AskInv(q) => AskInv(q)'
  BY <1>3 DEF AskInv, Ask
<1>5. ServedInv(q) => ServedInv(q)'
  BY <1>2, <1>3 DEF ServedInv, Ask, Reply, Err
<1>6. ShownInv(q) => ShownInv(q)'
  <2> SUFFICES ASSUME ShownInv(q), Without(up', Ask(q)), served'[q] = "current"
               PROVE  \/ /\ ~Without(down', Snapshot)
                         /\ \/ targets'[q].current /\ Without(down', Reply(q))
                            \/ Stands(down', Reply(q), Cur(q))
                      \/ /\ Without(down', Snapshot) /\ Without(down', Reply(q))
                         /\ targets'[q].current /\ Shown(q)'
    BY DEF ShownInv, Ask, Reply, Cur, Snapshot
  <2>1. served[q] = "current" /\ Without(up, Ask(q))
    OBVIOUS
  <2>2. CASE y \in Snapshot
    <3>1. ~Without(down', Snapshot)
      BY <1>2, <2>2
    <3>2. \/ targets[q].current /\ Without(down, Reply(q))
          \/ Stands(down, Reply(q), Cur(q))
      BY <2>1 DEF ShownInv
    <3> QED BY <1>2, <3>1, <3>2
  <2>3. CASE y \notin Snapshot
    <3>1. Shown(q) => Shown(q)'
      BY <2>3 DEF Shown
    <3> QED BY <1>2, <2>1, <2>3, <3>1 DEF ShownInv
  <2> QED BY <2>2, <2>3
<1> QED BY <1>1, <1>4, <1>5, <1>6 DEF OpenInv

\* The snapshot it puts there is of all that is current, and the newest.
LEMMA PushedLast ==
  ASSUME WireTypeOK, NEW y \in Snapshot \intersect Change, down' = Append(down, y),
         pushed' = y.ver, Current' \subseteq y.of
  PROVE  PushedInv'
<1> SUFFICES ASSUME NEW x \in Snapshot, Stands(down', Snapshot, x)
             PROVE  x.ver = pushed' /\ Current' \subseteq x.of
  BY DEF PushedInv, Snapshot
<1>1. y = x
  BY StandsAppend DEF WireTypeOK
<1> QED BY <1>1

LEMMA PushedKept ==
  ASSUME WireTypeOK, PushedInv, NEW y \in Change, y \notin Snapshot, down' = Append(down, y),
         UNCHANGED pushed, Current' \subseteq Current
  PROVE  PushedInv'
<1> SUFFICES ASSUME NEW x \in Snapshot, Stands(down', Snapshot, x)
             PROVE  x.ver = pushed' /\ Current' \subseteq x.of
  BY DEF PushedInv, Snapshot
<1>1. Stands(down, Snapshot, x)
  BY StandsAppend DEF WireTypeOK
<1> QED BY <1>1 DEF PushedInv

LEMMA WirePushChange ==
  ASSUME LifeInv, WireInv, PushChange
  PROVE  WireInv'
<1> DEFINE y == [kind |-> "snapshot", ver |-> world, of |-> Current]
<1>1. /\ stream.state = "Open" /\ down' = Append(down, y) /\ pushed' = world
      /\ UNCHANGED <<views, online, stream, targets, up, served>>
  BY DEF PushChange, Serving, client
<1>2. WireTypeOK /\ world \in Version /\ down \in Seq(Change)
  BY LifeParts DEF WireTypeOK, OutsideTypeOK
<1>3. y \in Change /\ y \in Snapshot /\ y.ver = world /\ y.of = Current
  BY <1>2 DEF Change, Snapshot, Current
<1> HIDE DEF y
<1>4. \A q \in Query : y \notin Reply(q) /\ y # Cur(q) /\ y # Err(q)
  BY <1>3, Kinds
<1>5. ClosedInv'
  BY <1>1 DEF ClosedInv
<1>6. PushedInv'
  BY <1>1, <1>2, <1>3, PushedLast DEF Current
<1>7. ASSUME NEW q \in Query PROVE RefusedInv(q)' /\ Followed(down, q)' /\ OpenInv(q)'
  <2>1. Stands(down', Reply(q), Err(q)) => Stands(down, Reply(q), Err(q))
    BY <1>1, <1>2, <1>3, <1>4, StandsAppend
  <2>2. RefusedInv(q)'
    BY <1>1, <2>1 DEF WireInv, RefusedInv, Reply, Err
  <2>3. Followed(down', q)
    BY <1>1, <1>2, <1>3, <1>4, FollowedAppend DEF WireInv
  <2>4. OpenInv(q)'
    BY <1>1, <1>2, <1>3, <1>4, OpenPushed
  <2> QED BY <2>2, <2>3, <2>4
<1> QED BY <1>5, <1>6, <1>7 DEF WireInv

LEMMA WireRefuseTarget ==
  ASSUME LifeInv, WireInv, NEW p \in Query, RefuseTarget(p)
  PROVE  WireInv'
<1> DEFINE y == [kind |-> "error", q |-> p]
<1>1. /\ stream.state = "Open" /\ down' = Append(down, y)
      /\ served' = [served EXCEPT ![p] = "no"]
      /\ UNCHANGED <<views, online, stream, targets, up, pushed>>
  BY DEF RefuseTarget, Serving, client
<1>2. /\ WireTypeOK /\ down \in Seq(Change)
      /\ served \in [Query -> {"no", "added", "current"}]
  BY LifeParts DEF WireTypeOK
<1>3. y \in Change /\ y = Err(p)
  BY DEF Change, Err
<1> HIDE DEF y
<1>4. /\ y \notin Snapshot
      /\ \A q \in Query : y \notin Reply(q) /\ y # Cur(q) /\ (q # p => y # Err(q))
  BY <1>3, Kinds
<1>5. ClosedInv'
  BY <1>1 DEF ClosedInv
<1>6. PushedInv'
  <2>1. Current' \subseteq Current
    BY <1>1, <1>2 DEF Current
  <2> QED BY <1>1, <1>2, <1>3, <1>4, <2>1, PushedKept DEF WireInv
<1>7. ASSUME NEW q \in Query PROVE RefusedInv(q)' /\ Followed(down, q)' /\ OpenInv(q)'
  <2>1. served'[q] = served[q] \/ (served'[q] = "no" /\ q = p)
    BY <1>1, <1>2
  <2>2. Stands(down', Reply(q), Err(q)) => q = p \/ Stands(down, Reply(q), Err(q))
    BY <1>1, <1>2, <1>3, <1>4, StandsAppend
  <2>3. RefusedInv(q)'
    BY <1>1, <1>2, <2>1, <2>2 DEF WireInv, RefusedInv, Reply, Err
  <2>4. Followed(down', q)
    BY <1>1, <1>2, <1>3, <1>4, FollowedAppend DEF WireInv
  <2>5. OpenInv(q)'
    BY <1>1, <1>2, <1>3, <1>4, <2>1, OpenPushed
  <2> QED BY <2>3, <2>4, <2>5
<1> QED BY <1>5, <1>6, <1>7 DEF WireInv

\* The word that p is current, and the snapshot that shows it.
LEMMA WireCatchUp ==
  ASSUME LifeInv, WireInv, NEW p \in Query, CatchUp(p)
  PROVE  WireInv'
<1> DEFINE c == [kind |-> "current", q |-> p]
           d == [kind |-> "snapshot", ver |-> world, of |-> Current \union {p}]
           mid == Append(down, c)
<1>1. /\ stream.state = "Open" /\ down' = down \o <<c, d>> /\ pushed' = world
      /\ served[p] = "added" /\ served' = [served EXCEPT ![p] = "current"]
      /\ UNCHANGED <<views, online, stream, targets, up>>
  BY DEF CatchUp, Serving, client
<1>2. /\ WireTypeOK /\ down \in Seq(Change) /\ up \in Seq(Request) /\ world \in Version
      /\ served \in [Query -> {"no", "added", "current"}]
  BY LifeParts DEF WireTypeOK, OutsideTypeOK
<1>3. c \in Change /\ c = Cur(p)
  BY DEF Change, Cur
<1>4. d \in Change /\ d \in Snapshot /\ d.ver = world /\ d.of = Current \union {p}
  BY <1>2 DEF Change, Snapshot, Current
<1> HIDE DEF c, d
<1>5. mid \in Seq(Change) /\ down' = Append(mid, d)
  BY <1>1, <1>2, <1>3, <1>4
<1> HIDE DEF mid
<1>6. /\ c \notin Snapshot
      /\ \A q \in Query : c \notin Reply(q) /\ (q # p => c # Cur(q)) /\ c # Err(q)
      /\ \A q \in Query : d \notin Reply(q) /\ d # Cur(q) /\ d # Err(q)
  BY <1>3, <1>4, Kinds
<1>7. ClosedInv'
  BY <1>1 DEF ClosedInv
<1>8. PushedInv'
  <2>1. Current' \subseteq Current \union {p}
    BY <1>1, <1>2 DEF Current
  <2> SUFFICES ASSUME NEW x \in Snapshot, Stands(down', Snapshot, x)
               PROVE  x.ver = pushed' /\ Current' \subseteq x.of
    BY DEF PushedInv, Snapshot
  <2>2. x = d
    BY <1>4, <1>5, StandsAppend
  <2> QED BY <1>1, <1>4, <2>1, <2>2
<1>9. ASSUME NEW q \in Query PROVE RefusedInv(q)' /\ Followed(down, q)' /\ OpenInv(q)'
  <2>1. \A x : Stands(mid, Reply(q), x) <=> c = x \/ Stands(down, Reply(q), x)
    <3>1. c \notin Reply(q)
      BY <1>6
    <3> QED BY <1>2, <1>3, <3>1, StandsAppend DEF mid
  <2>2. \A x : Stands(down', Reply(q), x) <=> d = x \/ c = x \/ Stands(down, Reply(q), x)
    BY <1>4, <1>5, <1>6, <2>1, StandsAppend
  <2>3. Without(down', Reply(q)) <=> Without(down, Reply(q))
    <3>1. Without(mid, Reply(q)) <=> Without(down, Reply(q))
      BY <1>2, <1>3, <1>6, WithoutAppend DEF mid
    <3> QED BY <1>4, <1>5, <1>6, <3>1, WithoutAppend
  <2>4. ~Without(down', Snapshot)
    BY <1>4, <1>5, WithoutAppend
  <2>5. Stands(down', Reply(q), Err(q)) <=> Stands(down, Reply(q), Err(q))
    BY <1>6, <2>2
  <2>6. served'[q] = served[q] \/ (q = p /\ served[q] = "added" /\ served'[q] = "current")
    BY <1>1, <1>2
  <2>7. Listened' = Listened /\ OpenInv(q)
    BY <1>1 DEF Listened, WireInv
  <2>8. RefusedInv(q)'
    BY <2>5, <2>6 DEF WireInv, RefusedInv, Reply, Err
  <2>9. Followed(down', q)
    <3>1. c = Cur(q) => d \in Snapshot /\ q \in d.of
      BY <1>3, <1>4, <1>6
    <3>2. Followed(Append(Append(down, c), d), q)
      BY <1>2, <1>3, <1>4, <1>6, <3>1, FollowedPair DEF WireInv
    <3> QED BY <1>5, <3>2 DEF mid
  <2>10. Owed(q)' = Owed(q)
    <3>1. Cardinality(Places(down, Reply(q))) \in Nat
      BY <1>2, PlacesFinite
    <3>2. Cardinality(Places(mid, Reply(q))) = Cardinality(Places(down, Reply(q)))
      BY <1>2, <1>3, <1>6, <3>1, PlacesAppend DEF mid
    <3>3. Cardinality(Places(down', Reply(q))) = Cardinality(Places(down, Reply(q)))
      BY <1>4, <1>5, <1>6, <3>1, <3>2, PlacesAppend
    <3> QED BY <1>1, <3>3 DEF Owed, Ask, Reply
  <2>11. AskInv(q) => AskInv(q)'
    BY <1>1, <2>7 DEF AskInv, Ask
  <2>12. ServedInv(q) => ServedInv(q)'
    BY <1>1, <2>5, <2>6, <2>7 DEF ServedInv, Ask, Reply, Err
  <2>13. ShownInv(q) => ShownInv(q)'
    <3> SUFFICES ASSUME ShownInv(q), Without(up', Ask(q)), served'[q] = "current"
                 PROVE  \/ targets'[q].current /\ Without(down', Reply(q))
                        \/ Stands(down', Reply(q), Cur(q))
      BY <2>4 DEF ShownInv, Ask, Reply, Cur, Snapshot
    <3>1. CASE q = p
      BY <1>3, <2>2, <3>1
    <3>2. CASE q # p
      <4>1. Without(up, Ask(q)) /\ served[q] = "current"
        BY <1>1, <2>6, <3>2
      <4> QED BY <1>1, <2>2, <2>3, <4>1 DEF ShownInv
    <3> QED BY <3>1, <3>2
  <2> QED BY <1>1, <2>7, <2>8, <2>9, <2>10, <2>11, <2>12, <2>13 DEF OpenInv
<1> QED BY <1>7, <1>8, <1>9 DEF WireInv

\* The answer to the last request for p decides whether it is served.
LEMMA WireAnswerRequest ==
  ASSUME LifeInv, WireInv, AnswerRequest
  PROVE  WireInv'
<1> DEFINE r == Head(up)
           kind == IF r.kind = "watch" THEN "added" ELSE "removed"
<1>0. WireTypeOK /\ down \in Seq(Change) /\ up \in Seq(Request) /\ up # <<>>
  BY LifeParts DEF WireTypeOK, AnswerRequest
<1>1. r \in Request /\ r.q \in Query /\ r.kind \in {"watch", "unwatch"} /\ r \in Ask(r.q)
  <2>1. r \in Request
    BY <1>0, SeqTail
  <2> HIDE DEF r
  <2> QED BY <2>1 DEF Request, Ask
<1>2. PICK p \in Query, y \in Change :
        /\ p = r.q /\ y = [kind |-> kind, q |-> p] /\ y \in Reply(p)
  <2> DEFINE z == [kind |-> kind, q |-> r.q]
  <2>1. kind \in {"added", "removed"}
    OBVIOUS
  <2> HIDE DEF r, kind
  <2>2. z \in Change /\ z \in Reply(r.q)
    BY <1>1, <2>1 DEF Change, Reply
  <2> QED BY <1>1, <2>2
<1>3. /\ stream.state = "Open" /\ up' = Tail(up) /\ down' = Append(down, y)
      /\ served' = [served EXCEPT ![p] = IF r.kind = "watch" THEN "added" ELSE "no"]
      /\ UNCHANGED <<views, online, stream, targets, pushed>>
  BY <1>2 DEF AnswerRequest, Serving, client
<1>4. served \in [Query -> {"no", "added", "current"}]
  BY <1>0 DEF WireTypeOK
<1>5. /\ y \notin Snapshot /\ \A q \in Query : y # Cur(q) /\ y # Err(q)
      /\ \A q \in Query : q # p => y \notin Reply(q) /\ r \notin Ask(q)
      /\ r \in Ask(p)
  <2>1. r \in Ask(p)
    BY <1>1, <1>2
  <2> HIDE DEF r, kind
  <2> QED BY <1>2, <2>1, Kinds
<1> HIDE DEF kind
<1>6. /\ \A q \in Query : q # p => served'[q] = served[q]
      /\ served'[p] = IF r.kind = "watch" THEN "added" ELSE "no"
  BY <1>3, <1>4
<1>7. ClosedInv'
  BY <1>3 DEF ClosedInv
<1>8. PushedInv'
  <2>1. Current' \subseteq Current
    BY <1>3, <1>6 DEF Current
  <2> QED BY <1>0, <1>2, <1>3, <1>5, <2>1, PushedKept DEF WireInv
<1>9. ASSUME NEW q \in Query PROVE RefusedInv(q)' /\ Followed(down, q)' /\ OpenInv(q)'
  <2>1. /\ \A S : Without(down', S) <=> Without(down, S) /\ y \notin S
        /\ \A S, x : Stands(down', S, x) <=> y = x \/ (Stands(down, S, x) /\ y \notin S)
    BY <1>0, <1>2, <1>3, WithoutAppend, StandsAppend
  <2>2. /\ \A S : Without(up, S) <=> Without(up', S) /\ Head(up) \notin S
        /\ \A S, x : Stands(up, S, x) <=>
                       Stands(up', S, x) \/ (Head(up) = x /\ Without(up', S))
    BY <1>0, <1>3, WithoutTail, StandsTail
  <2>3. Followed(down', q)
    BY <1>0, <1>2, <1>3, <1>5, FollowedAppend DEF WireInv
  <2>4. Head(up) \in Ask(q) <=> y \in Reply(q)
    BY <1>2, <1>5
  <2>5. Owed(q)' = Owed(q) /\ OpenInv(q)
    BY <1>0, <1>2, <1>3, <2>4, OwedAnswer DEF WireInv
  <2>6. Listened' = Listened
    BY <1>3 DEF Listened
  <2>7. AskInv(q) => AskInv(q)'
    BY <2>2, <2>6 DEF AskInv, Ask
  <2>8. CASE q = p
    <3>1. ~Stands(down', Reply(q), Err(q))
      BY <1>2, <1>5, <2>1, <2>8
    <3>2. RefusedInv(q)'
      BY <3>1 DEF RefusedInv, Reply, Err
    <3>3. ShownInv(q)'
      BY <1>6, <2>8 DEF ShownInv
    <3>4. ASSUME AskInv(q), Without(up', Ask(q)) PROVE served'[q] # "no" <=> q \in Listened
      <4>1. Stands(up, Ask(q), r)
        BY <2>2, <3>4
      <4>2. r.kind = "watch" <=> q \in Listened
        BY <1>5, <2>8, <3>4, <4>1 DEF AskInv
      <4> QED BY <1>6, <2>8, <4>2
    <3>5. AskInv(q) => ServedInv(q)'
      BY <2>6, <3>4 DEF ServedInv, Ask
    <3> QED BY <1>3, <2>3, <2>5, <2>7, <3>2, <3>3, <3>5 DEF OpenInv
  <2>9. CASE q # p
    <3>1. /\ served'[q] = served[q] /\ y \notin Reply(q) /\ y # Err(q) /\ y # Cur(q) /\ r \notin Ask(q)
      BY <1>5, <1>6, <2>9
    <3>2. /\ Without(up', Ask(q)) <=> Without(up, Ask(q))
          /\ Without(down', Reply(q)) <=> Without(down, Reply(q))
          /\ Without(down', Snapshot) <=> Without(down, Snapshot)
          /\ Stands(down', Reply(q), Err(q)) <=> Stands(down, Reply(q), Err(q))
          /\ Stands(down', Reply(q), Cur(q)) <=> Stands(down, Reply(q), Cur(q))
      BY <1>5, <2>1, <2>2, <3>1
    <3>3. RefusedInv(q)'
      BY <3>1, <3>2 DEF WireInv, RefusedInv, Reply, Err
    <3>4. ServedInv(q) => ServedInv(q)'
      BY <2>6, <3>1, <3>2 DEF ServedInv, Ask, Reply, Err
    <3>5. ShownInv(q) => ShownInv(q)'
      <4>1. Shown(q) => Shown(q)'
        BY <1>3 DEF Shown
      <4> QED BY <1>3, <3>1, <3>2, <4>1 DEF ShownInv, Ask, Reply, Cur, Snapshot
    <3> QED BY <1>3, <2>3, <2>5, <2>7, <3>3, <3>4, <3>5 DEF OpenInv
  <2> QED BY <2>8, <2>9
<1> QED BY <1>7, <1>8, <1>9 DEF WireInv

-----------------------------------------------------------------------------

LEMMA WireStep == LifeInv /\ WireInv /\ [Next]_vars => WireInv'
<1> SUFFICES ASSUME LifeInv, WireInv, [Next]_vars PROVE WireInv'
  OBVIOUS
<1>1. ASSUME NEW l \in Listener, Call(l) \/ Remove(l) \/ Hear(l) PROVE WireInv'
  <2>1. UNCHANGED client /\ UNCHANGED wire
    BY <1>1 DEF Call, Remove, Hear
  <2> QED BY <2>1, WireApp
<1>2. CASE Blocks
  BY <1>2, WireAddListener, WireRemoveListener DEF Blocks
<1>3. CASE StreamOpens \/ StreamFails \/ BackoffElapsed
  BY <1>3, WireStreamOpens, WireEnds
<1>4. CASE IdleTimeout \/ CredentialDidChange \/ OnlineStateTimeout
  BY <1>4, WireEnds, WireOnlineStateTimeout
<1>5. CASE Answers
  BY <1>5, WireTargetAdded, WireTargetRemoved, WireTargetCurrent, WireRaiseWatchSnapshot,
     WireTargetError DEF Answers
<1>6. CASE Server \/ \E q \in Query : RefuseTarget(q)
  BY <1>6, WireAnswerRequest, WirePushChange, WireCatchUp, WireRefuseTarget DEF Server
<1>7. CASE SomebodyWrites \/ Connection
  <2>1. UNCHANGED client /\ UNCHANGED wire
    BY <1>7 DEF SomebodyWrites, Connection
  <2> QED BY <2>1, WireApp
<1>8. CASE UNCHANGED vars
  <2>1. UNCHANGED client /\ UNCHANGED wire
    BY <1>8 DEF vars
  <2> QED BY <2>1, WireApp
<1> QED BY <1>1, <1>2, <1>3, <1>4, <1>5, <1>6, <1>7, <1>8 DEF Next

LEMMA WireInit == Init => WireInv
<1> SUFFICES ASSUME Init PROVE WireInv
  OBVIOUS
<1>1. /\ stream.state = "Initial" /\ up = <<>> /\ down = <<>>
      /\ \A q \in Query : served[q] = "no"
  BY DEF Init
<1>2. ClosedInv
  BY <1>1 DEF ClosedInv, Started
<1>3. PushedInv /\ \A q \in Query : RefusedInv(q) /\ Followed(down, q)
  BY <1>1, EmptyWire DEF PushedInv, RefusedInv
<1> QED BY <1>1, <1>2, <1>3 DEF WireInv

\* The two ends of the stream never lose count of each other: the requests and
\* the answers that are under way account for what each end holds of a query.
THEOREM WireInvariant == Spec => []WireInv
<1>1. Init => LifeInv /\ WireInv
  BY LifeInit, WireInit
<1>2. LifeInv /\ WireInv /\ [Next]_vars => (LifeInv /\ WireInv)'
  BY LifeStep, WireStep
<1> QED BY <1>1, <1>2, PTL DEF Spec

\* Whatever was asked, stopped, refused and pushed meanwhile: once nothing is
\* under way on an open stream, the server serves exactly the queries that are
\* listened to, and what it last sent of them is what the listeners were shown
\* (FSTRemoteStore.mm:201, 231; FSTWatchChangeAggregator.mm:147).
THEOREM EndsAgreeAlways == Spec => []EndsAgree
<1>1. LifeInv /\ WireInv => EndsAgree
  <2> SUFFICES ASSUME LifeInv, WireInv, stream.state = "Open", up = <<>>, down = <<>>,
                      NEW q \in Query, ~Miscounted(q)
               PROVE  /\ targets[q].waits = 0
                      /\ (q \in Listened) <=> (served[q] # "no")
                      /\ served[q] = "current" => views[q].current /\ views[q].ver = pushed
    BY DEF EndsAgree
  <2>1. Without(up, Ask(q)) /\ Without(down, Reply(q)) /\ Without(down, Snapshot)
    BY EmptyWire
  <2>2. ~Stands(down, Reply(q), Err(q)) /\ ~Stands(down, Reply(q), Cur(q))
    BY EmptyWire
  <2>3. Owed(q) = 0
    BY <2>1, OwedType, LifeParts
  <2>4. targets[q].waits \in Int /\ served[q] \in {"no", "added", "current"}
    BY LifeParts DEF ClientInv, ClientTypeOK, TargetState, WireTypeOK
  <2>5. targets[q].waits = 0 /\ ServedInv(q) /\ ShownInv(q)
    BY <2>3, <2>4 DEF WireInv, OpenInv, Miscounted
  <2>6. served[q] = "current" => Shown(q)
    BY <2>1, <2>2, <2>5 DEF ShownInv
  <2> QED BY <2>1, <2>2, <2>4, <2>5, <2>6 DEF ServedInv, Shown
<1> QED BY <1>1, LifeInvariant, WireInvariant, PTL

-----------------------------------------------------------------------------
(* What the listeners of a query can still be told *)

\* For a listener born at version b, all that q is owed being waited for: the
\* view is current only with documents as new, and the snapshots that will be
\* taken for the answer to the last request have documents as new.
Fed(q, b) ==
  /\ Counted(q)
  /\ views[q].current => views[q].ver >= b
  /\ Without(up, Ask(q)) =>
       \A x \in Snapshot : Stands(down, Reply(q), x) /\ q \in x.of => x.ver >= b

\* A target that was told to be current has news in the snapshot that says so.
NewsInv(q) ==
  stream.state = "Open" /\ Active(q) /\ Counted(q) /\ targets[q].current /\ targets[q].pending =>
    down # <<>> /\ Head(down) \in Snapshot /\ q \in Head(down).of

FeedInv == \A q \in Query : NewsInv(q)

\* What a step must do for q.
FeedsOn(q) ==
  /\ NewsInv(q)'
  /\ \A b \in Version :
       b <= world /\ q \in Listened /\ q \in Listened' /\ Fed(q, b) => Fed(q, b)'

LEMMA FeedRests ==
  ASSUME FeedInv, NEW q \in Query,
         UNCHANGED <<up, down, targets>>, stream'.state = stream.state,
         stream.state = "Open" /\ q \in Listened' => q \in Listened,
         q \in Listened /\ views'[q].current => views[q].current /\ views'[q].ver = views[q].ver
  PROVE  FeedsOn(q)
<1>1. Counted(q)' <=> Counted(q)
  BY DEF Counted, Owed, Ask, Reply
<1>2. NewsInv(q)'
  BY <1>1 DEF FeedInv, NewsInv, Active, Snapshot
<1>3. ASSUME NEW b \in Version, q \in Listened, Fed(q, b) PROVE Fed(q, b)'
  BY <1>1, <1>3 DEF Fed, Ask, Reply, Snapshot
<1> QED BY <1>2, <1>3 DEF FeedsOn

LEMMA FeedCloses ==
  ASSUME FeedInv, NEW q \in Query, down' = <<>>, stream'.state # "Open",
         q \in Listened /\ views'[q].current => views[q].current /\ views'[q].ver = views[q].ver
  PROVE  FeedsOn(q)
<1>1. Counted(q)' /\ NewsInv(q)'
  BY DEF Counted, NewsInv
<1>2. ASSUME NEW b \in Version, q \in Listened, Fed(q, b) PROVE Fed(q, b)'
  <2>1. \A x : ~Stands(down', Reply(q), x)
    BY EmptyWire
  <2>2. views'[q].current => views'[q].ver >= b
    BY <1>2 DEF Fed
  <2> QED BY <1>1, <2>1, <2>2 DEF Fed, Ask, Reply, Snapshot
<1> QED BY <1>1, <1>2 DEF FeedsOn

\* A request for p goes out: who hears of p now is new, or nobody.
LEMMA FeedSends ==
  ASSUME FeedInv, WireTypeOK, ClientTypeOK, stream.state = "Open", stream'.state = "Open",
         NEW kind \in {"watch", "unwatch"}, NEW p \in Query, Send(kind, p), UNCHANGED down,
         p \notin Listened \/ p \notin Listened',
         NEW q \in Query, q # p => views'[q] = views[q]
  PROVE  FeedsOn(q)
<1> DEFINE x == [kind |-> kind, q |-> p]
<1>1. /\ up \in Seq(Request) /\ x \in Request /\ up' = Append(up, x) /\ x \in Ask(p)
  BY DEF Send, WireTypeOK, Request, Ask
<1>2. /\ targets'[p].waits = targets[p].waits + 1 /\ targets[p].waits \in Int
      /\ q # p => targets'[q] = targets[q]
  BY DEF Send, ClientTypeOK, TargetState
<1> HIDE DEF x
<1>3. CASE q = p
  <2>1. Owed(q) \in Nat /\ Owed(q)' = Owed(q) + 1
    BY <1>1, <1>3, OwedType, OwedSend
  <2>2. ~(Active(q)' /\ Counted(q)')
    BY <1>2, <1>3, <2>1 DEF Active, Counted
  <2> QED BY <1>3, <2>2 DEF FeedsOn, NewsInv
<1>4. CASE q # p
  <2>1. x \notin Ask(q)
    BY <1>1, <1>4, Kinds
  <2>2. Owed(q) \in Nat /\ Owed(q)' = Owed(q)
    BY <1>1, <2>1, OwedType, OwedSend
  <2>3. Counted(q)' <=> Counted(q)
    BY <1>2, <1>4, <2>2 DEF Counted
  <2>4. q \in Listened' <=> q \in Listened
    BY <1>4 DEF Listened
  <2>5. NewsInv(q)'
    BY <1>2, <1>4, <2>3, <2>4 DEF FeedInv, NewsInv, Active, Snapshot
  <2>6. Without(up', Ask(q)) <=> Without(up, Ask(q))
    BY <1>1, <2>1, WithoutAppend
  <2>7. ASSUME NEW b \in Version, Fed(q, b) PROVE Fed(q, b)'
    BY <1>4, <2>3, <2>6, <2>7 DEF Fed, Ask, Reply, Snapshot
  <2> QED BY <2>5, <2>7 DEF FeedsOn
<1> QED BY <1>3, <1>4

LEMMA FeedApp ==
  ASSUME FeedInv, UNCHANGED client, UNCHANGED wire, NEW q \in Query
  PROVE  FeedsOn(q)
<1>1. UNCHANGED <<up, down, targets, views>> /\ stream'.state = stream.state
  BY DEF client, wire
<1>2. Listened' = Listened
  BY <1>1 DEF Listened
<1> QED BY <1>1, <1>2, FeedRests

LEMMA FeedAddListener ==
  ASSUME LifeInv, WireInv, FeedInv, NEW l \in Listener, AddListener(l), NEW p \in Query
  PROVE  FeedsOn(p)
<1> DEFINE q == Of[l]
           first == views[q].who = {}
           starts == first /\ stream.state \notin Started
           new == [who |-> views[q].who \union {l},
                   ver |-> IF first THEN cache[q] ELSE views[q].ver,
                   current |-> ~first /\ views[q].current]
<1>1. /\ views' = [views EXCEPT ![q] = new]
      /\ IF starts
         THEN StartWatchStream(stream.state) /\ UNCHANGED up
         ELSE IF first /\ stream.state = "Open"
         THEN Send("watch", q) /\ stream' = Written
         ELSE UNCHANGED <<stream, targets, up>>
      /\ UNCHANGED <<down, served, pushed>>
  BY DEF AddListener
<1>2. q \in Query /\ views \in [Query -> View] /\ WireTypeOK /\ ClientTypeOK /\ stream \in StreamState
  BY OfType, LifeParts DEF ClientInv, ClientTypeOK
<1>3. /\ views'[q] = new /\ (first <=> q \notin Listened)
      /\ p # q => views'[p] = views[p] /\ (p \in Listened' <=> p \in Listened)
  BY <1>1, <1>2 DEF Listened
<1>4. p \in Listened /\ views'[p].current => views[p].current /\ views'[p].ver = views[p].ver
  <2>1. CASE p = q
    <3>1. p \in Listened => ~first
      BY <1>3, <2>1
    <3>2. /\ views'[p].current = (~first /\ views[q].current)
          /\ views'[p].ver = IF first THEN cache[q] ELSE views[q].ver
      BY <1>3, <2>1
    <3> QED BY <2>1, <3>1, <3>2
  <2>2. CASE p # q
    BY <1>3, <2>2
  <2> QED BY <2>1, <2>2
<1>5. CASE starts
  <2>1. stream.state # "Open" /\ StartWatchStream(stream.state)
    BY <1>1, <1>5 DEF Started
  <2>2. down' = <<>>
    BY <1>1, <2>1 DEF WireInv, ClosedInv
  <2>3. stream'.state # "Open"
    BY <2>1, StartType DEF StartWatchStream
  <2> QED BY <1>4, <2>2, <2>3, FeedCloses
<1>6. CASE first /\ stream.state = "Open"
  <2>1. ~starts
    BY <1>6 DEF Started
  <2>2. Send("watch", q) /\ stream' = Written
    BY <1>1, <1>6, <2>1
  <2>3. stream'.state = "Open"
    BY <1>2, <1>6, <2>2 DEF Written, StreamState
  <2> HIDE DEF q
  <2> QED BY <1>1, <1>2, <1>3, <1>6, <2>2, <2>3, FeedSends
<1>7. CASE ~starts /\ ~(first /\ stream.state = "Open")
  <2>1. UNCHANGED <<stream, targets, up>>
    BY <1>1, <1>7
  <2>2. stream.state = "Open" /\ p \in Listened' => p \in Listened
    BY <1>3, <1>7
  <2> QED BY <1>1, <1>4, <2>1, <2>2, FeedRests
<1> QED BY <1>5, <1>6, <1>7

LEMMA FeedRemoveListener ==
  ASSUME LifeInv, WireInv, FeedInv, NEW l \in Listener, RemoveListener(l), NEW p \in Query
  PROVE  FeedsOn(p)
<1> DEFINE q == Of[l]
           last == views[q].who = {l}
           none == last /\ Listened = {q}
           left == [views[q] EXCEPT !.who = views[q].who \ {l}]
<1>1. /\ views' = IF last THEN [views EXCEPT ![q] = NoView] ELSE [views EXCEPT ![q] = left]
      /\ IF last /\ stream.state = "Open"
         THEN Send("unwatch", q) /\ stream' = [Written EXCEPT !.idle = none]
         ELSE UNCHANGED <<up, targets, stream>>
      /\ UNCHANGED <<down, served, pushed>>
  BY DEF RemoveListener
<1>2. /\ q \in Query /\ views \in [Query -> View] /\ views[q] \in View
      /\ WireTypeOK /\ ClientTypeOK /\ stream \in StreamState
  BY OfType, LifeParts DEF ClientInv, ClientTypeOK
<1>3. /\ left.who = views[q].who \ {l} /\ left.ver = views[q].ver /\ left.current = views[q].current
      /\ ~NoView.current /\ NoView.who = {}
  BY <1>2 DEF View, NoView
<1> HIDE DEF left
<1>4. /\ p # q => views'[p] = views[p]
      /\ views'[q] = IF last THEN NoView ELSE left
  BY <1>1, <1>2
<1>5. p \in Listened' => p \in Listened
  <2>1. CASE p = q
    BY <1>3, <1>4, <2>1 DEF Listened
  <2>2. CASE p # q
    BY <1>4, <2>2 DEF Listened
  <2> QED BY <2>1, <2>2
<1>6. views'[p].current => views[p].current /\ views'[p].ver = views[p].ver
  <2>1. CASE p = q
    BY <1>3, <1>4, <2>1
  <2>2. CASE p # q
    BY <1>4, <2>2
  <2> QED BY <2>1, <2>2
<1>7. CASE last /\ stream.state = "Open"
  <2>1. Send("unwatch", q) /\ stream' = [Written EXCEPT !.idle = none]
    BY <1>1, <1>7
  <2>2. stream'.state = "Open"
    BY <1>2, <1>7, <2>1 DEF Written, StreamState
  <2>3. q \notin Listened'
    BY <1>2, <1>3, <1>4, <1>7 DEF Listened
  <2> HIDE DEF q
  <2> QED BY <1>1, <1>2, <1>4, <1>7, <2>1, <2>2, <2>3, FeedSends
<1>8. CASE ~(last /\ stream.state = "Open")
  <2>1. UNCHANGED <<up, targets, stream>>
    BY <1>1, <1>8
  <2> QED BY <1>1, <1>5, <1>6, <2>1, FeedRests
<1> QED BY <1>7, <1>8

LEMMA FeedStreamOpens ==
  ASSUME LifeInv, WireInv, StreamOpens, NEW q \in Query
  PROVE  FeedsOn(q)
<1>1. NewsInv(q)'
  <2>1. ~targets'[q].current
    BY AllRequested DEF NewTarget
  <2> QED BY <2>1 DEF NewsInv
<1>2. Counted(q)'
  BY AllRequested DEF Counted
<1>3. ASSUME NEW b \in Version, Fed(q, b) PROVE Fed(q, b)'
  <2>1. down' = <<>> /\ UNCHANGED views
    BY AllRequested
  <2>2. \A x : ~Stands(down', Reply(q), x)
    BY <2>1, EmptyWire
  <2> QED BY <1>2, <1>3, <2>1, <2>2 DEF Fed, Ask, Reply, Snapshot
<1> QED BY <1>1, <1>3 DEF FeedsOn

LEMMA FeedEnds ==
  ASSUME LifeInv, WireInv, FeedInv, NEW q \in Query,
         StreamFails \/ IdleTimeout \/ CredentialDidChange \/ BackoffElapsed
  PROVE  FeedsOn(q)
<1>0. stream \in StreamState
  BY LifeParts DEF ClientInv, ClientTypeOK
<1>1. CASE StreamFails
  <2> DEFINE vs == AfterOnlineState(views, AtFailure(online))
  <2>1. /\ views' = vs /\ NoWire
        /\ IF Listened # {} THEN StartWatchStream("Error") ELSE stream' = Closed("Error")
    BY <1>1 DEF StreamFails, Interrupted, Notify
  <2>2. down' = <<>>
    BY <2>1 DEF NoWire
  <2>3. stream'.state # "Open"
    <3>1. CASE Listened # {}
      BY <2>1, <3>1, StartType
    <3>2. CASE Listened = {}
      BY <2>1, <3>2 DEF Closed
    <3> QED BY <3>1, <3>2
  <2>4. views'[q].current => views[q].current /\ views'[q].ver = views[q].ver
    <3>1. views[q] \in View
      BY LifeParts DEF ClientInv, ClientTypeOK
    <3> QED BY <2>1, <3>1 DEF AfterOnlineState, View
  <2> QED BY <2>2, <2>3, <2>4, FeedCloses
<1>2. CASE IdleTimeout
  <2>1. views' = views /\ down' = <<>> /\ stream'.state # "Open"
    BY <1>2 DEF IdleTimeout, Notify, NoWire, Closed
  <2> QED BY <2>1, FeedCloses
<1>3. CASE CredentialDidChange
  <2> DEFINE from == IF stream.state \in Started THEN "Initial" ELSE stream.state
  <2>1. from \in {"Error", "Initial"}
    BY <1>0 DEF StreamState
  <2>2. /\ views' = views /\ down' = <<>>
        /\ IF Listened # {} THEN StartWatchStream(from) ELSE stream' = Closed(from)
    BY <1>3 DEF CredentialDidChange, Notify, NoWire
  <2> HIDE DEF from
  <2>3. stream'.state # "Open"
    <3>1. CASE Listened # {}
      BY <2>2, <3>1, StartType
    <3>2. CASE Listened = {}
      BY <2>1, <2>2, <3>2 DEF Closed
    <3> QED BY <3>1, <3>2
  <2> QED BY <2>2, <2>3, FeedCloses
<1>4. CASE BackoffElapsed
  <2>1. stream.state = "Backoff" /\ stream'.state = "Starting" /\ UNCHANGED <<views, down>>
    BY <1>0, <1>4 DEF BackoffElapsed, StreamState, wire
  <2>2. down' = <<>>
    BY <2>1 DEF WireInv, ClosedInv
  <2> QED BY <2>1, <2>2, FeedCloses
<1> QED BY <1>1, <1>2, <1>3, <1>4

LEMMA FeedOnlineStateTimeout ==
  ASSUME LifeInv, FeedInv, OnlineStateTimeout, NEW q \in Query
  PROVE  FeedsOn(q)
<1> DEFINE o == [online EXCEPT !.state = "Offline", !.timer = FALSE]
           vs == AfterOnlineState(views, o)
<1>1. views' = vs /\ UNCHANGED <<stream, targets>> /\ UNCHANGED wire
  BY DEF OnlineStateTimeout, Notify
<1>2. vs \in [Query -> View] /\ \A p \in Query : vs[p].who = views[p].who
  BY AfterOnlineStateType, LifeParts DEF ClientInv, ClientTypeOK
<1>3. vs[q].current => views[q].current /\ vs[q].ver = views[q].ver
  <2>1. views[q] \in View
    BY LifeParts DEF ClientInv, ClientTypeOK
  <2> HIDE DEF o
  <2> QED BY <2>1 DEF AfterOnlineState, View
<1>4. Listened' = Listened
  <2> HIDE DEF vs
  <2> QED BY <1>1, <1>2, ListenedKept
<1>5. UNCHANGED <<up, down, targets>> /\ stream'.state = stream.state
  BY <1>1 DEF wire
<1> HIDE DEF vs
<1> QED BY <1>1, <1>3, <1>4, <1>5, FeedRests

-----------------------------------------------------------------------------
(* Answers *)

\* An answer that is no snapshot leaves the views of those it does not end.
LEMMA FeedReceive ==
  ASSUME LifeInv, WireInv, FeedInv, NEW kind, Receive(kind), NEW q \in Query,
         Counted(q) /\ q \in Listened /\ q \in Listened' => Counted(q)',
         NewsInv(q)',
         \A b \in Version : Fed(q, b) /\ q \in Listened' /\ views'[q].current => views'[q].ver >= b
  PROVE  FeedsOn(q)
<1>1. ASSUME NEW b \in Version, q \in Listened, q \in Listened', Fed(q, b) PROVE Fed(q, b)'
  <2>1. Counted(q)'
    BY <1>1 DEF Fed
  <2>2. views'[q].current => views'[q].ver >= b
    BY <1>1
  <2>3. Without(up', Ask(q)) => \A x \in Snapshot : Stands(down', Reply(q), x) /\ q \in x.of => x.ver >= b
    BY <1>1, Received DEF Fed
  <2> QED BY <2>1, <2>2, <2>3 DEF Fed, Ask, Reply, Snapshot
<1> QED BY <1>1 DEF FeedsOn

\* An answer that is not about q.
LEMMA FeedElse ==
  ASSUME LifeInv, WireInv, FeedInv, NEW kind, Receive(kind), NEW q \in Query,
         Head(down) \notin Reply(q), Head(down) \notin Snapshot,
         targets'[q] = targets[q], views'[q] = views[q]
  PROVE  FeedsOn(q)
<1>1. Owed(q)' = Owed(q) /\ stream.state = "Open" /\ stream'.state = "Open"
  BY Received
<1>2. (Counted(q)' <=> Counted(q)) /\ (Active(q)' <=> Active(q))
  BY <1>1 DEF Counted, Active, Listened
<1>3. NewsInv(q)'
  BY <1>1, <1>2 DEF FeedInv, NewsInv
<1>4. \A b \in Version : Fed(q, b) /\ views'[q].current => views'[q].ver >= b
  BY DEF Fed
<1> QED BY <1>2, <1>3, <1>4, FeedReceive

\* A response for q: an answer that was pending is not shown after it.
LEMMA FeedReplied ==
  ASSUME LifeInv, WireInv, FeedInv, NEW kind, Receive(kind), NEW q \in Query,
         Head(down) \in Reply(q),
         targets'[q].waits = targets[q].waits - 1, targets[q].waits \in Int,
         targets'[q].waits = 0 => ~targets'[q].pending \/ ~targets'[q].current,
         views'[q] = views[q]
  PROVE  FeedsOn(q)
<1>1. /\ Owed(q) \in Nat /\ Owed(q)' = Owed(q) - 1
      /\ stream.state = "Open" /\ stream'.state = "Open"
  BY Received
<1>2. Counted(q)' <=> Counted(q)
  BY <1>1 DEF Counted
<1>3. NewsInv(q)'
  BY DEF NewsInv, Active
<1>4. \A b \in Version : Fed(q, b) /\ views'[q].current => views'[q].ver >= b
  BY DEF Fed
<1> QED BY <1>2, <1>3, <1>4, FeedReceive

LEMMA FeedTargetAdded ==
  ASSUME LifeInv, WireInv, FeedInv, TargetAdded, NEW q \in Query
  PROVE  FeedsOn(q)
<1>0. PICK p \in Query : p = Head(down).q
  BY ReceiveType DEF TargetAdded
<1>1. /\ Receive("added") /\ Notify(views, Updated("Online"))
      /\ targets' = [targets EXCEPT ![p].waits = @ - 1,
                                    ![p].pending = @ /\ targets[p].waits # 1]
  BY <1>0 DEF TargetAdded
<1>2. views' = views
  BY <1>1 DEF Notify
<1>3. Head(down) \in Change /\ Head(down).kind = "added" /\ targets \in [Query -> TargetState]
  BY <1>1, Received, ReceiveType, LifeParts DEF ClientInv, ClientTypeOK
<1>4. Head(down) \in Reply(p)
  BY <1>0, <1>3, ChangeKinds
<1>5. /\ targets'[p].waits = targets[p].waits - 1 /\ targets[p].waits \in Int
      /\ targets'[p].waits = 0 => ~targets'[p].pending
      /\ q # p => targets'[q] = targets[q]
  <2>1. targets[p] \in TargetState
    BY <1>3
  <2> QED BY <1>1, <1>3, <2>1 DEF TargetState
<1>6. CASE q = p
  BY <1>1, <1>2, <1>4, <1>5, <1>6, FeedReplied
<1>7. CASE q # p
  <2>1. Head(down) \notin Reply(q) /\ Head(down) \notin Snapshot
    BY <1>4, <1>7, Kinds
  <2> QED BY <1>1, <1>2, <1>5, <1>7, <2>1, FeedElse
<1> QED BY <1>6, <1>7

LEMMA FeedTargetRemoved ==
  ASSUME LifeInv, WireInv, FeedInv, TargetRemoved, NEW q \in Query
  PROVE  FeedsOn(q)
<1>0. PICK p \in Query : p = Head(down).q
  BY ReceiveType DEF TargetRemoved
<1>1. /\ Receive("removed") /\ Notify(views, Updated("Online"))
      /\ targets' = [targets EXCEPT ![p] =
           IF targets[p].waits = 1 THEN NewTarget ELSE [targets[p] EXCEPT !.waits = @ - 1]]
  BY <1>0 DEF TargetRemoved
<1>2. views' = views
  BY <1>1 DEF Notify
<1>3. Head(down) \in Change /\ Head(down).kind = "removed" /\ targets \in [Query -> TargetState]
  BY <1>1, Received, ReceiveType, LifeParts DEF ClientInv, ClientTypeOK
<1>4. Head(down) \in Reply(p)
  BY <1>0, <1>3, ChangeKinds
<1>5. /\ targets'[p].waits = targets[p].waits - 1 /\ targets[p].waits \in Int
      /\ targets'[p].waits = 0 => ~targets'[p].current
      /\ q # p => targets'[q] = targets[q]
  <2>1. targets[p] \in TargetState
    BY <1>3
  <2> QED BY <1>1, <1>3, <2>1 DEF TargetState, NewTarget
<1>6. CASE q = p
  BY <1>1, <1>2, <1>4, <1>5, <1>6, FeedReplied
<1>7. CASE q # p
  <2>1. Head(down) \notin Reply(q) /\ Head(down) \notin Snapshot
    BY <1>4, <1>7, Kinds
  <2> QED BY <1>1, <1>2, <1>5, <1>7, <2>1, FeedElse
<1> QED BY <1>6, <1>7

\* The snapshot follows at once.
LEMMA FeedTargetCurrent ==
  ASSUME LifeInv, WireInv, FeedInv, TargetCurrent, NEW q \in Query
  PROVE  FeedsOn(q)
<1>0. PICK p \in Query : p = Head(down).q
  BY ReceiveType DEF TargetCurrent
<1>1. /\ Receive("current") /\ Notify(views, Updated("Online"))
      /\ targets' = IF Active(p)
                    THEN [targets EXCEPT ![p].current = TRUE, ![p].pending = TRUE] ELSE targets
  BY <1>0 DEF TargetCurrent
<1>2. views' = views
  BY <1>1 DEF Notify
<1>3. Head(down) \in Change /\ Head(down).kind = "current" /\ targets \in [Query -> TargetState]
  BY <1>1, Received, ReceiveType, LifeParts DEF ClientInv, ClientTypeOK
<1>4. Head(down) = Cur(p)
  BY <1>0, <1>3, ChangeKinds
<1>5. Head(down) \notin Reply(q) /\ Head(down) \notin Snapshot
  BY <1>4, Kinds
<1>6. targets'[p].waits = targets[p].waits /\ (q # p => targets'[q] = targets[q])
  <2>1. targets[p] \in TargetState
    BY <1>3
  <2>2. CASE Active(p)
    BY <1>1, <1>3, <2>1, <2>2 DEF TargetState
  <2>3. CASE ~Active(p)
    BY <1>1, <2>3
  <2> QED BY <2>2, <2>3
<1>7. CASE q = p
  <2>1. Owed(q)' = Owed(q) /\ stream.state = "Open" /\ stream'.state = "Open"
    BY <1>1, <1>5, Received
  <2>2. Counted(q)' <=> Counted(q)
    BY <1>6, <1>7, <2>1 DEF Counted
  <2>3. NewsInv(q)'
    <3>1. down # <<>> /\ down' = Tail(down) /\ down \in Seq(Change)
      BY <1>1, LifeParts DEF Receive, WireTypeOK
    <3>2. Followed(down, p)
      BY DEF WireInv
    <3>3. down' # <<>> /\ Head(down') \in Snapshot /\ p \in Head(down').of
      BY <1>4, <3>1, <3>2, FollowedTail
    <3> QED BY <1>7, <3>3 DEF NewsInv, Snapshot
  <2>4. \A b \in Version : Fed(q, b) /\ views'[q].current => views'[q].ver >= b
    BY <1>2 DEF Fed
  <2> QED BY <1>1, <2>2, <2>3, <2>4, FeedReceive
<1>8. CASE q # p
  BY <1>1, <1>2, <1>5, <1>6, <1>8, FeedElse
<1> QED BY <1>7, <1>8

LEMMA FeedTargetError ==
  ASSUME LifeInv, WireInv, FeedInv, TargetError, NEW q \in Query
  PROVE  FeedsOn(q)
<1>0. PICK p \in Query : p = Head(down).q
  BY ReceiveType DEF TargetError
<1>1. /\ Receive("error")
      /\ views' = [views EXCEPT ![p] = NoView]
      /\ targets' = IF p \in Listened THEN [targets EXCEPT ![p] = NewTarget] ELSE targets
  BY <1>0 DEF TargetError
<1>2. /\ Head(down) \in Change /\ Head(down).kind = "error"
      /\ targets \in [Query -> TargetState] /\ views \in [Query -> View]
  BY <1>1, Received, ReceiveType, LifeParts DEF ClientInv, ClientTypeOK
<1>3. Head(down) \notin Reply(q) /\ Head(down) \notin Snapshot
  <2>1. Head(down) = Err(p)
    BY <1>0, <1>2, ChangeKinds
  <2> QED BY <2>1, Kinds
<1>4. CASE q = p
  <2>1. q \notin Listened'
    BY <1>1, <1>2, <1>4, Defaults DEF Listened
  <2> QED BY <2>1 DEF FeedsOn, NewsInv, Active
<1>5. CASE q # p
  <2>1. targets'[q] = targets[q] /\ views'[q] = views[q]
    BY <1>1, <1>2, <1>5
  <2> QED BY <1>1, <1>3, <2>1, FeedElse
<1> QED BY <1>4, <1>5

\* A view becomes current, or newer, only by a snapshot that is not older than
\* the last request.
LEMMA FeedRaiseWatchSnapshot ==
  ASSUME LifeInv, WireInv, FeedInv, RaiseWatchSnapshot, NEW q \in Query
  PROVE  FeedsOn(q)
<1> DEFINE h == Head(down)
           news == {p \in h.of : Active(p)}
           told == {p \in Query : Active(p) /\ (targets[p].pending \/ p \in news)}
           shown(p) == IF p \in news THEN h.ver ELSE views[p].ver
           current(p) == IF p \in told THEN targets[p].current ELSE views[p].current
           pending(p) == targets[p].pending /\ p \notin told
           vs == [p \in Query |-> [views[p] EXCEPT !.ver = shown(p), !.current = current(p)]]
<1>1. /\ Receive("snapshot") /\ Notify(vs, Updated("Online"))
      /\ targets' = [p \in Query |-> [targets[p] EXCEPT !.pending = pending(p)]]
  BY DEF RaiseWatchSnapshot
<1>2. views' = vs
  <2> HIDE DEF vs
  <2> QED BY <1>1 DEF Notify
<1>3. /\ targets[q] \in TargetState /\ views[q] \in View /\ h \in Change /\ h.kind = "snapshot"
  BY <1>1, Received, ReceiveType, LifeParts DEF ClientInv, ClientTypeOK
<1>4. h \in Snapshot /\ h \notin Reply(q) /\ h.ver \in Version
  <2>1. h \in Snapshot
    BY <1>3, ChangeKinds
  <2> HIDE DEF h
  <2> QED BY <2>1, Kinds DEF Snapshot
<1>5. /\ targets'[q].waits = targets[q].waits /\ targets'[q].pending = pending(q)
      /\ views'[q].who = views[q].who /\ views'[q].ver = shown(q) /\ views'[q].current = current(q)
  <2> HIDE DEF shown, current, pending
  <2> QED BY <1>1, <1>2, <1>3 DEF TargetState, View
<1>6. q \in Listened' <=> q \in Listened
  BY <1>5 DEF Listened
<1>7. Owed(q)' = Owed(q) /\ stream.state = "Open" /\ stream'.state = "Open"
  <2>1. Owed(q) \in Nat /\ Owed(q)' = Owed(q) - (IF Head(down) \in Reply(q) THEN 1 ELSE 0)
    BY <1>1, Received
  <2>2. Head(down) \notin Reply(q)
    BY <1>4
  <2>3. stream.state = "Open" /\ stream'.state = "Open"
    BY <1>1, Received
  <2> HIDE DEF h
  <2> QED BY <2>1, <2>2, <2>3
<1>8. (Counted(q)' <=> Counted(q)) /\ (Active(q)' <=> Active(q))
  BY <1>5, <1>6, <1>7 DEF Counted, Active
<1>9. NewsInv(q)'
  <2>1. ~(Active(q)' /\ targets'[q].pending)
    BY <1>5, <1>8
  <2> QED BY <2>1 DEF NewsInv
<1>10. ASSUME NEW b \in Version, Fed(q, b), views'[q].current PROVE views'[q].ver >= b
  <2>1. ASSUME Active(q), q \in h.of PROVE h.ver >= b
    <3>1. Owed(q) = 0
      BY <1>7, <1>10, <2>1 DEF Fed, Counted, Active
    <3>2. Without(up, Ask(q)) /\ Without(down, Reply(q))
      BY <1>1, <3>1, Received
    <3>3. Stands(down, Reply(q), h)
      BY <1>1, <3>2, Received
    <3> QED BY <1>4, <1>10, <2>1, <3>2, <3>3 DEF Fed
  <2>2. CASE q \in news
    BY <1>5, <2>1, <2>2
  <2>3. CASE q \notin news /\ q \in told
    <3>1. Active(q) /\ targets[q].pending /\ targets[q].current
      BY <1>5, <1>10, <2>3
    <3>2. q \in h.of
      BY <1>7, <1>10, <3>1 DEF FeedInv, NewsInv, Fed
    <3> QED BY <2>3, <3>1, <3>2
  <2>4. CASE q \notin news /\ q \notin told
    BY <1>5, <1>10, <2>4 DEF Fed
  <2> QED BY <2>2, <2>3, <2>4
<1> HIDE DEF h, news, told, shown, current, pending, vs
<1> QED BY <1>1, <1>8, <1>9, <1>10, FeedReceive

-----------------------------------------------------------------------------
(* What the server sends *)

LEMMA HeadAppend ==
  ASSUME NEW T, NEW s \in Seq(T), NEW y \in T, s # <<>>
  PROVE  Append(s, y) # <<>> /\ Head(Append(s, y)) = Head(s)
OBVIOUS

\* A snapshot the server sends is of the documents as they are.
LEMMA FeedServed ==
  ASSUME LifeInv, FeedInv, NEW q \in Query, UNCHANGED <<views, stream, targets>>,
         Owed(q)' = Owed(q),
         down # <<>> => down' # <<>> /\ Head(down') = Head(down),
         \A x \in Snapshot : Without(up', Ask(q)) /\ Stands(down', Reply(q), x) =>
           x.ver = world \/ (Without(up, Ask(q)) /\ Stands(down, Reply(q), x))
  PROVE  FeedsOn(q)
<1>1. (Counted(q)' <=> Counted(q)) /\ (Active(q)' <=> Active(q))
  BY DEF Counted, Active, Listened
<1>2. NewsInv(q)'
  BY <1>1 DEF FeedInv, NewsInv, Snapshot
<1>3. ASSUME NEW b \in Version, b <= world, Fed(q, b) PROVE Fed(q, b)'
  <2> SUFFICES ASSUME NEW x \in Snapshot, Without(up', Ask(q)), Stands(down', Reply(q), x), q \in x.of
               PROVE  x.ver >= b
    BY <1>1, <1>3 DEF Fed, Ask, Reply, Snapshot
  <2>1. CASE x.ver = world
    <3>1. world \in Nat /\ b \in Nat
      BY <1>3, ListenAssumption, LifeParts DEF OutsideTypeOK, Version
    <3> QED BY <1>3, <2>1, <3>1
  <2>2. CASE x.ver # world
    BY <1>3, <2>2 DEF Fed
  <2> QED BY <2>1, <2>2
<1> QED BY <1>2, <1>3 DEF FeedsOn

LEMMA FeedServer ==
  ASSUME LifeInv, FeedInv, NEW q \in Query,
         AnswerRequest \/ PushChange \/ (\E p \in Query : CatchUp(p) \/ RefuseTarget(p))
  PROVE  FeedsOn(q)
<1>0. /\ WireTypeOK /\ up \in Seq(Request) /\ down \in Seq(Change) /\ world \in Version
  BY LifeParts DEF WireTypeOK, OutsideTypeOK
<1>1. UNCHANGED <<views, stream, targets>>
  BY DEF AnswerRequest, PushChange, CatchUp, RefuseTarget, client
<1>2. CASE AnswerRequest
  <2> DEFINE r == Head(up)
             kind == IF r.kind = "watch" THEN "added" ELSE "removed"
             y == [kind |-> kind, q |-> r.q]
  <2>1. up # <<>> /\ up' = Tail(up) /\ down' = Append(down, y)
    BY <1>2 DEF AnswerRequest
  <2>2. r \in Request /\ kind \in {"added", "removed"}
    BY <1>0, <2>1, SeqTail
  <2>3. y \in Change /\ y \notin Snapshot /\ (r \in Ask(q) <=> y \in Reply(q))
    <3> HIDE DEF r, kind
    <3> QED BY <2>2 DEF Request, Change, Snapshot, Ask, Reply
  <2> HIDE DEF y
  <2>4. Owed(q)' = Owed(q)
    BY <1>0, <2>1, <2>3, OwedAnswer
  <2>5. down # <<>> => down' # <<>> /\ Head(down') = Head(down)
    BY <1>0, <2>1, <2>3, HeadAppend
  <2>6. Without(up, Ask(q)) <=> Without(up', Ask(q)) /\ r \notin Ask(q)
    BY <1>0, <2>1, WithoutTail
  <2>7. ASSUME NEW x \in Snapshot, Without(up', Ask(q)), Stands(down', Reply(q), x)
        PROVE  Without(up, Ask(q)) /\ Stands(down, Reply(q), x)
    <3>1. y # x
      BY <2>3
    <3>2. Stands(down, Reply(q), x) /\ y \notin Reply(q)
      BY <1>0, <2>1, <2>3, <2>7, <3>1, StandsAppend
    <3> QED BY <2>3, <2>6, <2>7, <3>2
  <2> QED BY <1>1, <2>4, <2>5, <2>7, FeedServed
<1>3. ASSUME NEW y \in Change, down' = Append(down, y), UNCHANGED up, y \notin Reply(q),
             y \in Snapshot => y.ver = world
      PROVE  FeedsOn(q)
  <2>1. Owed(q)' = Owed(q)
    BY <1>0, <1>3, OwedPush
  <2>2. down # <<>> => down' # <<>> /\ Head(down') = Head(down)
    BY <1>0, <1>3, HeadAppend
  <2>3. \A x \in Snapshot : Without(up', Ask(q)) /\ Stands(down', Reply(q), x) =>
           x.ver = world \/ (Without(up, Ask(q)) /\ Stands(down, Reply(q), x))
    <3> TAKE x \in Snapshot
    <3>1. Stands(down', Reply(q), x) => y = x \/ Stands(down, Reply(q), x)
      BY <1>0, <1>3, StandsAppend
    <3> QED BY <1>3, <3>1
  <2> QED BY <1>1, <2>1, <2>2, <2>3, FeedServed
<1>4. CASE PushChange
  <2> DEFINE y == [kind |-> "snapshot", ver |-> world, of |-> Current]
  <2>1. down' = Append(down, y) /\ UNCHANGED up
    BY <1>4 DEF PushChange
  <2>2. y \in Change /\ y \in Snapshot /\ y.ver = world
    BY <1>0 DEF Change, Snapshot, Current
  <2> HIDE DEF y
  <2>3. y \notin Reply(q)
    BY <2>2, Kinds
  <2> QED BY <1>3, <2>1, <2>2, <2>3
<1>5. ASSUME NEW p \in Query, RefuseTarget(p) PROVE FeedsOn(q)
  <2> DEFINE y == [kind |-> "error", q |-> p]
  <2>1. down' = Append(down, y) /\ UNCHANGED up
    BY <1>5 DEF RefuseTarget
  <2>2. y \in Change /\ y = Err(p)
    BY DEF Change, Err
  <2> HIDE DEF y
  <2>3. y \notin Reply(q) /\ y \notin Snapshot
    BY <2>2, Kinds
  <2> QED BY <1>3, <2>1, <2>2, <2>3
<1>6. ASSUME NEW p \in Query, CatchUp(p) PROVE FeedsOn(q)
  <2> DEFINE c == [kind |-> "current", q |-> p]
             d == [kind |-> "snapshot", ver |-> world, of |-> Current \union {p}]
             mid == Append(down, c)
  <2>1. down' = down \o <<c, d>> /\ UNCHANGED up
    BY <1>6 DEF CatchUp
  <2>2. c \in Change /\ c = Cur(p)
    BY DEF Change, Cur
  <2>3. d \in Change /\ d \in Snapshot /\ d.ver = world
    BY <1>0 DEF Change, Snapshot, Current
  <2> HIDE DEF c, d
  <2>4. mid \in Seq(Change) /\ down' = Append(mid, d)
    BY <1>0, <2>1, <2>2, <2>3
  <2> HIDE DEF mid
  <2>5. c \notin Reply(q) /\ c \notin Snapshot /\ d \notin Reply(q)
    BY <2>2, <2>3, Kinds
  <2>6. Owed(q)' = Owed(q)
    <3>1. Cardinality(Places(down, Reply(q))) \in Nat
      BY <1>0, PlacesFinite
    <3>2. Cardinality(Places(mid, Reply(q))) = Cardinality(Places(down, Reply(q)))
      BY <1>0, <2>2, <2>5, <3>1, PlacesAppend DEF mid
    <3>3. Cardinality(Places(down', Reply(q))) = Cardinality(Places(down, Reply(q)))
      BY <2>3, <2>4, <2>5, <3>1, <3>2, PlacesAppend
    <3> QED BY <2>1, <3>3 DEF Owed, Ask, Reply
  <2>7. down # <<>> => down' # <<>> /\ Head(down') = Head(down)
    <3>1. down # <<>> => mid # <<>> /\ Head(mid) = Head(down)
      BY <1>0, <2>2, HeadAppend DEF mid
    <3>2. mid # <<>> => down' # <<>> /\ Head(down') = Head(mid)
      BY <2>3, <2>4, HeadAppend
    <3> QED BY <3>1, <3>2
  <2>8. \A x \in Snapshot : Without(up', Ask(q)) /\ Stands(down', Reply(q), x) =>
           x.ver = world \/ (Without(up, Ask(q)) /\ Stands(down, Reply(q), x))
    <3> TAKE x \in Snapshot
    <3>1. Stands(down', Reply(q), x) => d = x \/ Stands(mid, Reply(q), x)
      BY <2>3, <2>4, StandsAppend
    <3>2. Stands(mid, Reply(q), x) => c = x \/ Stands(down, Reply(q), x)
      BY <1>0, <2>2, StandsAppend DEF mid
    <3> QED BY <2>1, <2>3, <2>5, <3>1, <3>2
  <2> QED BY <1>1, <2>6, <2>7, <2>8, FeedServed
<1> QED BY <1>2, <1>4, <1>5, <1>6

LEMMA FeedStep ==
  ASSUME LifeInv, WireInv, FeedInv, [Next]_vars, NEW q \in Query
  PROVE  FeedsOn(q)
<1>1. ASSUME NEW l \in Listener, Call(l) \/ Remove(l) \/ Hear(l) PROVE FeedsOn(q)
  <2>1. UNCHANGED client /\ UNCHANGED wire
    BY <1>1 DEF Call, Remove, Hear
  <2> QED BY <2>1, FeedApp
<1>2. CASE Blocks
  BY <1>2, FeedAddListener, FeedRemoveListener DEF Blocks
<1>3. CASE StreamOpens \/ StreamFails \/ BackoffElapsed
  BY <1>3, FeedStreamOpens, FeedEnds
<1>4. CASE IdleTimeout \/ CredentialDidChange \/ OnlineStateTimeout
  BY <1>4, FeedEnds, FeedOnlineStateTimeout
<1>5. CASE Answers
  BY <1>5, FeedTargetAdded, FeedTargetRemoved, FeedTargetCurrent, FeedRaiseWatchSnapshot,
     FeedTargetError DEF Answers
<1>6. CASE Server \/ \E p \in Query : RefuseTarget(p)
  BY <1>6, FeedServer DEF Server
<1>7. CASE SomebodyWrites \/ Connection
  <2>1. UNCHANGED client /\ UNCHANGED wire
    BY <1>7 DEF SomebodyWrites, Connection
  <2> QED BY <2>1, FeedApp
<1>8. CASE UNCHANGED vars
  <2>1. UNCHANGED client /\ UNCHANGED wire
    BY <1>8 DEF vars
  <2> QED BY <2>1, FeedApp
<1> QED BY <1>1, <1>2, <1>3, <1>4, <1>5, <1>6, <1>7, <1>8 DEF Next

\* The first to ask, when all that is owed is waited for, is fed from its request on.
LEMMA FeedNew ==
  ASSUME LifeInv, WireInv, NEW l \in Listener, AddListener(l),
         views[Of[l]].who = {}, Counted(Of[l]), NEW b
  PROVE  Fed(Of[l], b)' /\ ~views'[Of[l]].current
<1> DEFINE q == Of[l]
           starts == stream.state \notin Started
           new == [who |-> {} \union {l}, ver |-> cache[q], current |-> FALSE]
<1>1. /\ views' = [views EXCEPT ![q] = new]
      /\ IF starts
         THEN StartWatchStream(stream.state) /\ UNCHANGED up
         ELSE IF stream.state = "Open"
         THEN Send("watch", q) /\ stream' = Written
         ELSE UNCHANGED <<stream, targets, up>>
      /\ UNCHANGED down
  BY DEF AddListener
<1>2. q \in Query /\ views \in [Query -> View] /\ WireTypeOK /\ ClientTypeOK /\ stream \in StreamState
  BY OfType, LifeParts DEF ClientInv, ClientTypeOK
<1>3. ~views'[q].current
  BY <1>1, <1>2
<1>4. CASE stream.state = "Open"
  <2> DEFINE x == [kind |-> "watch", q |-> q]
  <2>1. Send("watch", q) /\ stream' = Written
    BY <1>1, <1>4 DEF Started
  <2>2. up \in Seq(Request) /\ x \in Request /\ up' = Append(up, x) /\ x \in Ask(q)
    BY <1>2, <2>1 DEF Send, WireTypeOK, Request, Ask
  <2>3. targets'[q].waits = targets[q].waits + 1 /\ targets[q].waits \in Int
    <3> HIDE DEF q
    <3> QED BY <1>2, <2>1 DEF Send, ClientTypeOK, TargetState
  <2> HIDE DEF x
  <2>4. Owed(q) \in Nat /\ Owed(q)' = Owed(q) + 1
    BY <1>1, <1>2, <2>2, OwedType, OwedSend
  <2>5. Counted(q)'
    BY <1>4, <2>3, <2>4 DEF Counted
  <2>6. ~Without(up', Ask(q))
    BY <2>2, WithoutAppend
  <2> QED BY <1>3, <2>5, <2>6 DEF Fed, Ask
<1>5. CASE stream.state # "Open"
  <2>1. stream'.state # "Open"
    <3>1. CASE starts
      BY <1>1, <3>1, StartType DEF StartWatchStream
    <3>2. CASE ~starts
      BY <1>1, <1>5, <3>2
    <3> QED BY <3>1, <3>2
  <2>2. down' = <<>>
    BY <1>1, <1>5 DEF WireInv, ClosedInv
  <2>3. \A x : ~Stands(down', Reply(q), x)
    BY <2>2, EmptyWire
  <2> QED BY <1>3, <2>1, <2>3 DEF Fed, Counted, Reply, Snapshot
<1> QED BY <1>4, <1>5

-----------------------------------------------------------------------------
(* The listeners *)

\* Whose blocks wait on the worker queue, and whom the views serve.
WaitingInv ==
  /\ \A i \in DOMAIN worker :
       IF worker[i].kind = "add" THEN listeners[worker[i].l].at = "adding"
       ELSE listeners[worker[i].l].at \in {"in", "gone"}
  /\ \A i, j \in DOMAIN worker :
       worker[i].kind = "add" /\ worker[j].kind = "add" /\ worker[i].l = worker[j].l => i = j
  /\ \A q \in Query : \A l \in views[q].who : Of[l] = q /\ listeners[l].at = "in"

\* An error is the last event, and a get hears one event.
Heard(l) ==
  /\ listeners[l].at \in {"new", "adding"} => inbox[l] = <<>> /\ listeners[l].answers = 0
  /\ \A i \in DOMAIN inbox[l] :
       inbox[l][i].error => i = Len(inbox[l]) /\ listeners[l].at = "gone"
  /\ l \in Get => \/ listeners[l].answers = 0
                  \/ /\ listeners[l].answers = 1
                     /\ listeners[l].muted \/ (listeners[l].at = "gone" /\ inbox[l] = <<>>)
  /\ listeners[l].at # "new" => listeners[l].born <= world

\* What one that was lone is told by the server is not older than itself.
Told(l) ==
  listeners[l].lone =>
    /\ \A i \in DOMAIN inbox[l] : ~inbox[l][i].cached => inbox[l][i].ver >= listeners[l].born
    /\ listeners[l].answers > 0 /\ ~listeners[l].last.cached =>
         listeners[l].last.ver >= listeners[l].born
    /\ l \in views[Of[l]].who => Fed(Of[l], listeners[l].born)

FreshInv == FeedInv /\ WaitingInv /\ \A l \in Listener : Heard(l) /\ Told(l)

\* Who was served and is served still is still fed.
LEMMA FedKept ==
  ASSUME LifeInv, WireInv, FreshInv, [Next]_vars, NEW l \in Listener, NEW b,
         b = listeners[l].born, listeners[l].lone,
         l \in views[Of[l]].who, l \in views'[Of[l]].who
  PROVE  Fed(Of[l], b)'
<1>1. Of[l] \in Query /\ listeners[l] \in ListenerState
  BY OfType
<1>2. b \in Version
  BY <1>1 DEF ListenerState
<1>3. Of[l] \in Listened /\ Of[l] \in Listened'
  BY <1>1 DEF Listened
<1>4. listeners[l].at = "in"
  BY <1>1 DEF FreshInv, WaitingInv
<1>5. b <= world /\ Fed(Of[l], b)
  BY <1>4 DEF FreshInv, Heard, Told
<1>6. FeedsOn(Of[l])
  BY <1>1, FeedStep DEF FreshInv
<1> QED BY <1>2, <1>3, <1>5, <1>6 DEF FeedsOn

\* A listener that keeps all but its raised flag, and may get an event.
LEMMA ListenerGoes ==
  ASSUME LifeInv, WireInv, FreshInv, [Next]_vars, NEW l \in Listener, NEW a,
         (a \in {"in", "gone"} /\ listeners[l].at = "in") \/ a = listeners[l].at,
         listeners'[l].at = a, listeners'[l].answers = listeners[l].answers,
         listeners'[l].muted = listeners[l].muted, listeners'[l].last = listeners[l].last,
         listeners'[l].born = listeners[l].born, listeners'[l].lone = listeners[l].lone,
         l \in views'[Of[l]].who => l \in views[Of[l]].who,
         \/ inbox'[l] = inbox[l]
         \/ \E e \in Event :
              /\ inbox'[l] = Append(inbox[l], e) /\ listeners[l].at = "in"
              /\ e.error => a = "gone"
              /\ listeners[l].lone /\ ~e.cached => e.ver >= listeners[l].born
  PROVE  Heard(l)' /\ Told(l)'
<1>1. /\ inbox[l] \in Seq(Event) /\ Heard(l) /\ Told(l)
      /\ listeners[l] \in ListenerState
  BY LifeParts DEF FreshInv, AppTypeOK
<1>2. \A i \in DOMAIN inbox'[l] :
        \/ i \in DOMAIN inbox[l] /\ inbox'[l] = inbox[l]
        \/ i \in DOMAIN inbox[l] /\ inbox'[l][i] = inbox[l][i] /\ listeners[l].at = "in"
        \/ /\ i = Len(inbox'[l]) /\ inbox'[l][i].error => a = "gone"
           /\ listeners[l].lone /\ ~inbox'[l][i].cached => inbox'[l][i].ver >= listeners[l].born
  <2>1. CASE inbox'[l] = inbox[l]
    BY <2>1
  <2>2. ASSUME NEW e \in Event, inbox'[l] = Append(inbox[l], e), listeners[l].at = "in",
               e.error => a = "gone",
               listeners[l].lone /\ ~e.cached => e.ver >= listeners[l].born,
               NEW i \in DOMAIN inbox'[l]
        PROVE  \/ i \in DOMAIN inbox[l] /\ inbox'[l][i] = inbox[l][i]
               \/ /\ i = Len(inbox'[l]) /\ inbox'[l][i].error => a = "gone"
                  /\ listeners[l].lone /\ ~inbox'[l][i].cached => inbox'[l][i].ver >= listeners[l].born
    <3>1. (i \in DOMAIN inbox[l] /\ inbox'[l][i] = inbox[l][i]) \/ (i = Len(inbox'[l]) /\ inbox'[l][i] = e)
      BY <1>1, <2>2
    <3> QED BY <2>2, <3>1
  <2> QED BY <2>1, <2>2
<1>3. \A i \in DOMAIN inbox[l] : inbox[l][i].error => i = Len(inbox[l]) /\ listeners[l].at = "gone"
  BY <1>1 DEF Heard
<1>4. \A i \in DOMAIN inbox'[l] : inbox'[l][i].error => i = Len(inbox'[l]) /\ a = "gone"
  <2>1. CASE inbox'[l] = inbox[l]
    BY <1>3, <2>1
  <2>2. ASSUME NEW e \in Event, inbox'[l] = Append(inbox[l], e), listeners[l].at = "in",
               e.error => a = "gone",
               NEW i \in DOMAIN inbox'[l], inbox'[l][i].error
        PROVE  i = Len(inbox'[l]) /\ a = "gone"
    <3>1. (i \in DOMAIN inbox[l] /\ inbox'[l][i] = inbox[l][i]) \/ (i = Len(inbox'[l]) /\ inbox'[l][i] = e)
      BY <1>1, <2>2
    <3> QED BY <1>3, <2>2, <3>1
  <2> QED BY <2>1, <2>2
<1>5. inbox'[l] # inbox[l] => listeners[l].at = "in"
  OBVIOUS
<1>6. world' >= world /\ world \in Nat /\ world' \in Nat /\ listeners[l].born \in Nat
  <2>1. world \in Nat /\ world' \in Nat
    BY LifeStep, LifeParts DEF LifeInv, TypeOK, OutsideTypeOK, Version
  <2>2. UNCHANGED world \/ world' = world + 1
    BY DEF Next, Call, Remove, Hear, Blocks, AddListener, RemoveListener, StreamOpens, StreamFails,
       BackoffElapsed, IdleTimeout, CredentialDidChange, OnlineStateTimeout, Answers, Receive,
       TargetAdded, TargetRemoved, TargetCurrent, RaiseWatchSnapshot, TargetError,
       Server, AnswerRequest, PushChange, CatchUp, RefuseTarget, SomebodyWrites, Connection,
       outside, vars
  <2>3. listeners[l].born \in Nat
    BY <1>1 DEF ListenerState, Version
  <2> QED BY <2>1, <2>2, <2>3
<1>7. Heard(l)'
  <2>1. a \in {"new", "adding"} => inbox'[l] = <<>> /\ listeners'[l].answers = 0
    BY <1>1, <1>5 DEF Heard
  <2>2. l \in Get => \/ listeners'[l].answers = 0
                     \/ /\ listeners'[l].answers = 1
                        /\ listeners'[l].muted \/ (a = "gone" /\ inbox'[l] = <<>>)
    BY <1>1, <1>5 DEF Heard
  <2>3. a # "new" => listeners'[l].born <= world'
    BY <1>1, <1>6 DEF Heard
  <2> QED BY <1>4, <2>1, <2>2, <2>3 DEF Heard
<1>8. ASSUME listeners[l].lone
      PROVE  \A i \in DOMAIN inbox'[l] : ~inbox'[l][i].cached => inbox'[l][i].ver >= listeners[l].born
  <2>1. \A i \in DOMAIN inbox[l] : ~inbox[l][i].cached => inbox[l][i].ver >= listeners[l].born
    BY <1>1, <1>8 DEF Told
  <2> QED BY <1>2, <1>8, <2>1
<1>9. ASSUME listeners[l].lone, NEW b, b = listeners[l].born, l \in views'[Of[l]].who
      PROVE  Fed(Of[l], b)'
  BY <1>9, FedKept
<1>10. Told(l)'
  <2> SUFFICES ASSUME listeners[l].lone, NEW b, b = listeners[l].born
               PROVE  /\ \A i \in DOMAIN inbox'[l] : ~inbox'[l][i].cached => inbox'[l][i].ver >= b
                      /\ listeners'[l].answers > 0 /\ ~listeners'[l].last.cached =>
                           listeners'[l].last.ver >= b
                      /\ l \in views'[Of[l]].who => Fed(Of[l], b)'
    BY DEF Told, Fed, Ask, Reply, Snapshot
  <2> QED BY <1>1, <1>8, <1>9 DEF Told
<1> QED BY <1>7, <1>10

\* A step that leaves the listeners and their queues alone.
LEMMA FreshRests ==
  ASSUME LifeInv, WireInv, FreshInv, [Next]_vars, UNCHANGED app,
         \A q \in Query : views'[q].who = views[q].who
  PROVE  FreshInv'
<1>1. UNCHANGED <<listeners, inbox, worker>>
  BY DEF app
<1>2. FeedInv'
  BY FeedStep DEF FreshInv, FeedInv, FeedsOn
<1>3. WaitingInv'
  BY <1>1 DEF FreshInv, WaitingInv
<1>4. ASSUME NEW l \in Listener PROVE Heard(l)' /\ Told(l)'
  <2>1. Of[l] \in Query
    BY OfType
  <2>2. l \in views'[Of[l]].who => l \in views[Of[l]].who
    BY <2>1
  <2> QED BY <1>1, <2>2, ListenerGoes
<1> QED BY <1>2, <1>3, <1>4 DEF FreshInv

\* A step that notifies: an event that is not of the cache is as new as the view.
LEMMA FreshNotifies ==
  ASSUME LifeInv, WireInv, FreshInv, [Next]_vars,
         NEW vs \in [Query -> View], NEW o, Notify(vs, o), UNCHANGED worker,
         \A q \in Query : vs[q].who = views[q].who
  PROVE  FreshInv'
<1>1. FeedInv'
  BY FeedStep DEF FreshInv, FeedInv, FeedsOn
<1>2. views' = vs
  BY DEF Notify
<1>3. ASSUME NEW l \in Listener
      PROVE  /\ listeners'[l].at = listeners[l].at /\ listeners'[l].answers = listeners[l].answers
             /\ listeners'[l].muted = listeners[l].muted /\ listeners'[l].last = listeners[l].last
             /\ listeners'[l].born = listeners[l].born /\ listeners'[l].lone = listeners[l].lone
  <2> DEFINE raised == listeners[l].raised \/ Raises(l, vs, o.state)
             at == IF l \in vs[Of[l]].who THEN "in" ELSE listeners[l].at
  <2>1. listeners'[l] = [listeners[l] EXCEPT !.raised = raised, !.at = at]
    BY DEF Notify
  <2>2. Of[l] \in Query /\ listeners[l] \in ListenerState
    BY OfType
  <2>3. at = listeners[l].at
    BY <2>2 DEF FreshInv, WaitingInv
  <2> HIDE DEF raised, at
  <2> QED BY <2>1, <2>2, <2>3 DEF ListenerState
<1>4. ASSUME NEW l \in Listener PROVE Heard(l)' /\ Told(l)'
  <2> DEFINE e == [ver |-> vs[Of[l]].ver, cached |-> ~vs[Of[l]].current, error |-> FALSE]
  <2>1. Of[l] \in Query /\ vs[Of[l]] \in View
    BY OfType
  <2>2. inbox'[l] = inbox[l] \/ (l \in vs[Of[l]].who /\ inbox'[l] = Append(inbox[l], e))
    BY DEF Notify, Raises
  <2>3. e \in Event /\ ~e.error
    BY <2>1 DEF View, Event
  <2>4. ASSUME l \in vs[Of[l]].who, listeners[l].lone, ~e.cached PROVE e.ver >= listeners[l].born
    <3>1. PICK b : b = listeners[l].born
      OBVIOUS
    <3>2. Fed(Of[l], b)'
      BY <1>2, <2>1, <2>4, <3>1, FedKept
    <3>3. views'[Of[l]].current => views'[Of[l]].ver >= b
      BY <3>2 DEF Fed
    <3> QED BY <1>2, <2>4, <3>1, <3>3
  <2>5. l \in vs[Of[l]].who => listeners[l].at = "in"
    BY <2>1 DEF FreshInv, WaitingInv
  <2>6. l \in views'[Of[l]].who => l \in views[Of[l]].who
    BY <1>2, <2>1
  <2> HIDE DEF e
  <2> QED BY <1>3, <2>2, <2>3, <2>4, <2>5, <2>6, ListenerGoes
<1>5. WaitingInv'
  <2>1. worker \in Seq(Block) /\ \A i \in DOMAIN worker : worker[i].l \in Listener
    <3>1. worker \in Seq(Block)
      BY LifeParts DEF AppTypeOK
    <3>2. \A i \in DOMAIN worker : worker[i] \in Block
      BY <3>1
    <3> QED BY <3>1, <3>2 DEF Block
  <2>2. \A q \in Query : \A l \in views'[q].who : Of[l] = q /\ listeners'[l].at = "in"
    <3>1. \A q \in Query : views[q].who \subseteq Listener
      BY LifeParts DEF ClientInv, ClientTypeOK, View
    <3> QED BY <1>2, <1>3, <3>1 DEF FreshInv, WaitingInv
  <2> QED BY <1>3, <2>1, <2>2 DEF FreshInv, WaitingInv
<1> QED BY <1>1, <1>4, <1>5 DEF FreshInv

-----------------------------------------------------------------------------
(* The blocks *)

LEMMA WaitingBlocks ==
  ASSUME LifeInv
  PROVE  /\ worker \in Seq(Block) /\ \A i \in DOMAIN worker : worker[i].l \in Listener
         /\ \A q \in Query : views[q].who \subseteq Listener
<1>1. worker \in Seq(Block)
  BY LifeParts DEF AppTypeOK
<1>2. \A i \in DOMAIN worker : worker[i] \in Block
  BY <1>1
<1>3. \A q \in Query : views[q].who \subseteq Listener
  BY LifeParts DEF ClientInv, ClientTypeOK, View
<1> QED BY <1>1, <1>2, <1>3 DEF Block

\* One more block waits, for a listener that is called or removed.
LEMMA WaitsMore ==
  ASSUME LifeInv, WaitingInv, NEW l \in Listener, NEW kind \in {"add", "remove"},
         worker' = Append(worker, [kind |-> kind, l |-> l]), UNCHANGED views,
         \A k \in Listener : k # l => listeners'[k].at = listeners[k].at,
         IF kind = "add" THEN listeners[l].at = "new" /\ listeners'[l].at = "adding"
         ELSE listeners[l].at \in {"in", "gone"} /\ listeners'[l].at = listeners[l].at
  PROVE  WaitingInv'
<1> DEFINE x == [kind |-> kind, l |-> l]
           n == Len(worker) + 1
<1>1. x \in Block /\ x.kind = kind /\ x.l = l
  BY DEF Block
<1> HIDE DEF x
<1>2. /\ DOMAIN worker' = 1..n /\ n \notin DOMAIN worker
      /\ \A i \in DOMAIN worker : i \in DOMAIN worker' /\ worker'[i] = worker[i]
      /\ \A i \in DOMAIN worker' : i \in DOMAIN worker \/ (i = n /\ worker'[i] = x)
  <2>1. worker' = Append(worker, x)
    BY DEF x
  <2> QED BY <1>1, <2>1, WaitingBlocks, SeqAppend
<1>3. \A i \in DOMAIN worker :
        /\ worker[i].l \in Listener
        /\ worker[i].l = l => (kind = "remove" /\ listeners'[l].at = listeners[l].at)
        /\ listeners'[worker[i].l].at = listeners[worker[i].l].at
        /\ worker[i].l = l /\ worker[i].kind = "add" => kind # "add"
  BY WaitingBlocks DEF WaitingInv
<1> HIDE DEF n
<1>4. \A i \in DOMAIN worker' :
        IF worker'[i].kind = "add" THEN listeners'[worker'[i].l].at = "adding"
        ELSE listeners'[worker'[i].l].at \in {"in", "gone"}
  <2> TAKE i \in DOMAIN worker'
  <2>1. CASE i \in DOMAIN worker
    BY <1>2, <1>3, <2>1 DEF WaitingInv
  <2>2. CASE i \notin DOMAIN worker
    BY <1>1, <1>2, <2>2
  <2> QED BY <2>1, <2>2
<1>5. ASSUME NEW i \in DOMAIN worker', NEW j \in DOMAIN worker',
             worker'[i].kind = "add", worker'[j].kind = "add", worker'[i].l = worker'[j].l
      PROVE  i = j
  <2>1. CASE i \in DOMAIN worker /\ j \in DOMAIN worker
    BY <1>2, <1>5, <2>1 DEF WaitingInv
  <2>2. CASE i \in DOMAIN worker /\ j \notin DOMAIN worker
    BY <1>1, <1>2, <1>3, <1>5, <2>2
  <2>3. CASE i \notin DOMAIN worker /\ j \in DOMAIN worker
    BY <1>1, <1>2, <1>3, <1>5, <2>3
  <2>4. CASE i \notin DOMAIN worker /\ j \notin DOMAIN worker
    BY <1>2, <2>4
  <2> QED BY <2>1, <2>2, <2>3, <2>4
<1>6. \A q \in Query : \A k \in views'[q].who : Of[k] = q /\ listeners'[k].at = "in"
  BY WaitingBlocks DEF WaitingInv
<1> QED BY <1>4, <1>5, <1>6 DEF WaitingInv

\* The first block runs.
LEMMA WaitsLess ==
  ASSUME LifeInv, WaitingInv, NEW l \in Listener, NEW kind \in {"add", "remove"},
         NextBlock(kind, l),
         \A k \in Listener : k # l => listeners'[k].at = listeners[k].at,
         listeners'[l].at = IF kind = "add" THEN "in" ELSE "gone",
         \A q \in Query : \A k \in views'[q].who :
           (kind = "add" /\ k = l /\ Of[l] = q) \/ (k \in views[q].who /\ (kind = "add" \/ k # l))
  PROVE  WaitingInv' /\ listeners[l].at \in (IF kind = "add" THEN {"adding"} ELSE {"in", "gone"})
<1>1. /\ worker # <<>> /\ worker' = Tail(worker)
      /\ 1 \in DOMAIN worker /\ worker[1] = [kind |-> kind, l |-> l]
  <2>1. worker # <<>> /\ worker' = Tail(worker) /\ Head(worker) = [kind |-> kind, l |-> l]
    BY DEF NextBlock
  <2> QED BY <2>1, WaitingBlocks, SeqTail
<1>2. \A i \in DOMAIN worker' : i # 0 /\ i + 1 \in DOMAIN worker /\ worker'[i] = worker[i + 1] /\ i \in Nat
  <2>1. worker \in Seq(Block)
    BY WaitingBlocks
  <2>2. /\ Len(worker) \in Nat \ {0} /\ DOMAIN worker' = 1..(Len(worker) - 1)
        /\ \A i \in DOMAIN worker' : i + 1 \in DOMAIN worker /\ worker'[i] = worker[i + 1]
    BY <1>1, <2>1, SeqTail
  <2> QED BY <2>2
<1>3. listeners[l].at \in IF kind = "add" THEN {"adding"} ELSE {"in", "gone"}
  BY <1>1 DEF WaitingInv
<1>4. ASSUME NEW i \in DOMAIN worker', worker'[i].l = l PROVE kind = "remove" /\ worker'[i].kind # "add"
  <2>1. worker[i + 1].l = l /\ i + 1 # 1 /\ i + 1 \in DOMAIN worker /\ worker'[i] = worker[i + 1]
    BY <1>2, <1>4
  <2>2. CASE kind = "add"
    <3>1. worker[i + 1].kind = "add"
      BY <1>3, <2>1, <2>2 DEF WaitingInv
    <3> QED BY <1>1, <2>1, <2>2, <3>1 DEF WaitingInv
  <2>3. CASE kind = "remove"
    <3>1. worker[i + 1].kind # "add"
      BY <1>3, <2>1, <2>3 DEF WaitingInv
    <3> QED BY <2>1, <2>3, <3>1
  <2> QED BY <2>2, <2>3
<1>5. \A i \in DOMAIN worker' :
        IF worker'[i].kind = "add" THEN listeners'[worker'[i].l].at = "adding"
        ELSE listeners'[worker'[i].l].at \in {"in", "gone"}
  <2> TAKE i \in DOMAIN worker'
  <2>1. CASE worker'[i].l = l
    BY <1>4, <2>1
  <2>2. CASE worker'[i].l # l
    BY <1>2, <2>2, WaitingBlocks DEF WaitingInv
  <2> QED BY <2>1, <2>2
<1>6. ASSUME NEW i \in DOMAIN worker', NEW j \in DOMAIN worker',
             worker'[i].kind = "add", worker'[j].kind = "add", worker'[i].l = worker'[j].l
      PROVE  i = j
  <2>1. i + 1 = j + 1
    BY <1>2, <1>6 DEF WaitingInv
  <2> QED BY <1>2, <2>1
<1>7. \A q \in Query : \A k \in views'[q].who : Of[k] = q /\ listeners'[k].at = "in"
  BY WaitingBlocks DEF WaitingInv
<1> QED BY <1>3, <1>5, <1>6, <1>7 DEF WaitingInv

LEMMA FedAll ==
  ASSUME LifeInv, WireInv, FreshInv, [Next]_vars
  PROVE  FeedInv'
BY FeedStep DEF FreshInv, FeedInv, FeedsOn

\* A listener that an action does not touch.
LEMMA ListenerRests ==
  ASSUME LifeInv, WireInv, FreshInv, [Next]_vars, NEW l \in Listener,
         listeners'[l] = listeners[l], inbox'[l] = inbox[l],
         l \in views'[Of[l]].who => l \in views[Of[l]].who
  PROVE  Heard(l)' /\ Told(l)'
BY ListenerGoes

LEMMA FreshCall ==
  ASSUME LifeInv, WireInv, FreshInv, [Next]_vars, NEW l \in Listener, Call(l)
  PROVE  FreshInv'
<1>1. /\ listeners[l].at = "new"
      /\ listeners' = [listeners EXCEPT ![l].at = "adding", ![l].born = world]
      /\ worker' = Append(worker, [kind |-> "add", l |-> l])
      /\ UNCHANGED <<inbox, views, world>>
  BY DEF Call, client, outside
<1>2. /\ listeners'[l].at = "adding" /\ listeners'[l].born = world
      /\ listeners'[l].answers = listeners[l].answers
      /\ \A k \in Listener : k # l => listeners'[k] = listeners[k]
  BY <1>1, LifeParts DEF AppTypeOK, ListenerState
<1>3. WaitingInv'
  BY <1>1, <1>2, WaitsMore DEF FreshInv
<1>4. l \notin views[Of[l]].who
  BY <1>1, OfType DEF FreshInv, WaitingInv
<1>5. inbox[l] = <<>> /\ listeners[l].answers = 0
  BY <1>1 DEF FreshInv, Heard
<1>6. world \in Nat
  BY LifeParts DEF OutsideTypeOK, Version
<1>7. Heard(l)' /\ Told(l)'
  <2>1. Heard(l)'
    BY <1>1, <1>2, <1>5, <1>6 DEF Heard
  <2>2. Told(l)'
    BY <1>1, <1>2, <1>4, <1>5 DEF Told
  <2> QED BY <2>1, <2>2
<1>8. \A k \in Listener : Heard(k)' /\ Told(k)'
  <2> TAKE k \in Listener
  <2>1. CASE k = l
    BY <1>7, <2>1
  <2>2. CASE k # l
    BY <1>1, <1>2, <2>2, ListenerRests
  <2> QED BY <2>1, <2>2
<1> QED BY <1>3, <1>8, FedAll DEF FreshInv

LEMMA FreshRemove ==
  ASSUME LifeInv, WireInv, FreshInv, [Next]_vars, NEW l \in Listener, Remove(l)
  PROVE  FreshInv'
<1>1. /\ l \notin Get /\ listeners[l].at = "in"
      /\ listeners' = [listeners EXCEPT ![l].muted = TRUE]
      /\ worker' = Append(worker, [kind |-> "remove", l |-> l])
      /\ UNCHANGED <<inbox, views, world>>
  BY DEF Remove, client, outside
<1>2. /\ listeners'[l].at = "in" /\ listeners'[l].born = listeners[l].born
      /\ listeners'[l].answers = listeners[l].answers /\ listeners'[l].last = listeners[l].last
      /\ listeners'[l].lone = listeners[l].lone
      /\ \A k \in Listener : k # l => listeners'[k] = listeners[k]
  BY <1>1, LifeParts DEF AppTypeOK, ListenerState
<1>3. WaitingInv'
  BY <1>1, <1>2, WaitsMore DEF FreshInv
<1>4. Heard(l)'
  BY <1>1, <1>2 DEF FreshInv, Heard
<1>5. Told(l)'
  <2> SUFFICES ASSUME listeners[l].lone, NEW b, b = listeners[l].born
               PROVE  /\ \A i \in DOMAIN inbox'[l] : ~inbox'[l][i].cached => inbox'[l][i].ver >= b
                      /\ listeners'[l].answers > 0 /\ ~listeners'[l].last.cached =>
                           listeners'[l].last.ver >= b
                      /\ l \in views'[Of[l]].who => Fed(Of[l], b)'
    BY <1>2 DEF Told, Fed, Ask, Reply, Snapshot
  <2> QED BY <1>1, <1>2, FedKept DEF FreshInv, Told
<1>6. \A k \in Listener : Heard(k)' /\ Told(k)'
  <2> TAKE k \in Listener
  <2>1. CASE k = l
    BY <1>4, <1>5, <2>1
  <2>2. CASE k # l
    BY <1>1, <1>2, <2>2, ListenerRests
  <2> QED BY <2>1, <2>2
<1> QED BY <1>3, <1>6, FedAll DEF FreshInv

\* The first snapshot is the last a get hears.
LEMMA FreshHear ==
  ASSUME LifeInv, WireInv, FreshInv, [Next]_vars, NEW l \in Listener, Hear(l)
  PROVE  FreshInv'
<1> DEFINE e == Head(inbox[l])
           ends == l \in Get /\ ~e.error /\ ~listeners[l].muted
           n == IF listeners[l].answers < 2 THEN listeners[l].answers + 1 ELSE listeners[l].answers
           m == listeners[l].muted \/ ends
<1>1. /\ inbox[l] # <<>> /\ inbox' = [inbox EXCEPT ![l] = Tail(inbox[l])]
      /\ UNCHANGED <<views, world>>
      /\ IF Deaf(l) THEN UNCHANGED <<listeners, worker>>
         ELSE /\ listeners' = [listeners EXCEPT ![l] =
                   [listeners[l] EXCEPT !.answers = n, !.last = e, !.muted = m]]
              /\ worker' = IF ends THEN Append(worker, [kind |-> "remove", l |-> l]) ELSE worker
  BY DEF Hear, client, outside
<1>2. /\ inbox \in [Listener -> Seq(Event)] /\ inbox[l] \in Seq(Event)
      /\ listeners \in [Listener -> ListenerState] /\ listeners[l] \in ListenerState
  BY LifeParts DEF AppTypeOK
<1>3. /\ inbox'[l] = Tail(inbox[l])
      /\ \A k \in Listener : k # l => inbox'[k] = inbox[k] /\ listeners'[k] = listeners[k]
  <2> HIDE DEF e, n, m, ends
  <2> QED BY <1>1, <1>2
<1>4. /\ e = inbox[l][1] /\ 1 \in DOMAIN inbox[l] /\ Len(inbox[l]) \in Nat
      /\ Len(inbox'[l]) = Len(inbox[l]) - 1
      /\ \A i \in DOMAIN inbox'[l] :
           i \in Nat \ {0} /\ i + 1 \in DOMAIN inbox[l] /\ inbox'[l][i] = inbox[l][i + 1]
      /\ Len(inbox[l]) = 1 => inbox'[l] = <<>>
  <2>1. Len(inbox[l]) = 1 => Tail(inbox[l]) = <<>>
    BY <1>1, <1>2
  <2>2. /\ \A i \in DOMAIN Tail(inbox[l]) : i \in Nat \ {0}
    BY <1>1, <1>2
  <2> QED BY <1>1, <1>2, <1>3, <2>1, <2>2, SeqTail
<1>5. listeners[l].at \notin {"new", "adding"}
  BY <1>1 DEF FreshInv, Heard
<1>6. listeners[l].at \in {"in", "gone"}
  BY <1>2, <1>5 DEF ListenerState
<1>7. e.error => listeners[l].at = "gone" /\ inbox'[l] = <<>>
  BY <1>4 DEF FreshInv, Heard
<1>8. \A i \in DOMAIN inbox'[l] : inbox'[l][i].error => i = Len(inbox'[l]) /\ listeners[l].at = "gone"
  BY <1>4 DEF FreshInv, Heard
<1>9. listeners[l].lone =>
        /\ ~e.cached => e.ver >= listeners[l].born
        /\ \A i \in DOMAIN inbox'[l] : ~inbox'[l][i].cached => inbox'[l][i].ver >= listeners[l].born
  BY <1>4 DEF FreshInv, Told
<1> HIDE DEF e
<1>10. CASE Deaf(l)
  <2>1. UNCHANGED <<listeners, worker, views>>
    BY <1>1, <1>10
  <2>2. WaitingInv'
    BY <2>1 DEF FreshInv, WaitingInv
  <2>3. Heard(l)'
    <3>1. listeners[l].muted
      BY <1>10 DEF Deaf
    <3> QED BY <1>1, <1>5, <1>8, <2>1, <3>1 DEF FreshInv, Heard
  <2>4. Told(l)'
    <3> SUFFICES ASSUME listeners[l].lone, NEW b, b = listeners[l].born
                 PROVE  /\ \A i \in DOMAIN inbox'[l] : ~inbox'[l][i].cached => inbox'[l][i].ver >= b
                        /\ listeners'[l].answers > 0 /\ ~listeners'[l].last.cached =>
                             listeners'[l].last.ver >= b
                        /\ l \in views'[Of[l]].who => Fed(Of[l], b)'
      BY <2>1 DEF Told, Fed, Ask, Reply, Snapshot
    <3> QED BY <1>9, <2>1, FedKept DEF FreshInv, Told
  <2>5. \A k \in Listener : Heard(k)' /\ Told(k)'
    <3> TAKE k \in Listener
    <3>1. CASE k = l
      BY <2>3, <2>4, <3>1
    <3>2. CASE k # l
      BY <1>3, <2>1, <3>2, ListenerRests
    <3> QED BY <3>1, <3>2
  <2> QED BY <2>2, <2>5, FedAll DEF FreshInv
<1>11. CASE ~Deaf(l)
  <2>1. /\ listeners' = [listeners EXCEPT ![l] =
             [listeners[l] EXCEPT !.answers = n, !.last = e, !.muted = m]]
        /\ worker' = IF ends THEN Append(worker, [kind |-> "remove", l |-> l]) ELSE worker
        /\ ~listeners[l].muted
    BY <1>1, <1>11 DEF Deaf
  <2>2. /\ listeners'[l].at = listeners[l].at /\ listeners'[l].born = listeners[l].born
        /\ listeners'[l].answers = n /\ listeners'[l].last = e
        /\ listeners'[l].lone = listeners[l].lone /\ listeners'[l].muted = m
    <3> HIDE DEF n, m, ends
    <3> QED BY <1>2, <2>1 DEF ListenerState
  <2>3. WaitingInv'
    <3>1. CASE ends
      BY <1>1, <1>3, <1>6, <2>1, <2>2, <3>1, WaitsMore DEF FreshInv
    <3>2. CASE ~ends
      <4>1. UNCHANGED <<worker, views>> /\ \A k \in Listener : listeners'[k].at = listeners[k].at
        BY <1>1, <1>3, <2>1, <2>2, <3>2
      <4> QED BY <4>1, WaitingBlocks DEF FreshInv, WaitingInv
    <3> QED BY <3>1, <3>2
  <2>4. Heard(l)'
    <3>1. listeners[l].answers \in 0..2 /\ listeners[l].born <= world
      BY <1>2, <1>5 DEF FreshInv, Heard, ListenerState
    <3>2. ASSUME l \in Get PROVE n = 1 /\ (m \/ (listeners[l].at = "gone" /\ inbox'[l] = <<>>))
      <4>1. listeners[l].answers = 0
        BY <1>1, <2>1, <3>2 DEF FreshInv, Heard
      <4> QED BY <1>7, <3>2, <4>1
    <3> HIDE DEF n, m
    <3> QED BY <1>1, <1>5, <1>8, <2>2, <3>1, <3>2 DEF Heard
  <2>5. Told(l)'
    <3> SUFFICES ASSUME listeners[l].lone, NEW b, b = listeners[l].born
                 PROVE  /\ \A i \in DOMAIN inbox'[l] : ~inbox'[l][i].cached => inbox'[l][i].ver >= b
                        /\ ~listeners'[l].last.cached => listeners'[l].last.ver >= b
                        /\ l \in views'[Of[l]].who => Fed(Of[l], b)'
      BY <2>2 DEF Told, Fed, Ask, Reply, Snapshot
    <3> QED BY <1>1, <1>9, <2>2, FedKept
  <2>6. \A k \in Listener : Heard(k)' /\ Told(k)'
    <3> TAKE k \in Listener
    <3>1. CASE k = l
      BY <2>4, <2>5, <3>1
    <3>2. CASE k # l
      BY <1>1, <1>3, <3>2, ListenerRests
    <3> QED BY <3>1, <3>2
  <2> QED BY <2>3, <2>6, FedAll DEF FreshInv
<1> QED BY <1>10, <1>11

LEMMA FreshAddListener ==
  ASSUME LifeInv, WireInv, FreshInv, [Next]_vars, NEW l \in Listener, AddListener(l)
  PROVE  FreshInv'
<1> DEFINE q == Of[l]
           first == views[q].who = {}
           lone == first /\ Counted(q)
           ver == IF first THEN cache[q] ELSE views[q].ver
           new == [who |-> views[q].who \union {l}, ver |-> ver,
                   current |-> ~first /\ views[q].current]
           vs == [views EXCEPT ![q] = new]
           starts == first /\ stream.state \notin Started
           o == IF starts THEN AtStart(online) ELSE online
           hear == {k \in {l} : ShouldRaise(k, vs[q], online.state) \/ ShouldRaise(k, vs[q], o.state)}
           event == [ver |-> ver, cached |-> ~vs[q].current, error |-> FALSE]
           raised == hear # {}
<1>1. /\ NextBlock("add", l) /\ views' = vs /\ UNCHANGED world
      /\ listeners' = [listeners EXCEPT ![l].at = "in", ![l].raised = raised, ![l].lone = lone,
                                          ![l].starts = starts]
      /\ inbox' = IF ~raised THEN inbox ELSE [inbox EXCEPT ![l] = Append(@, event)]
  BY DEF AddListener, outside
<1>2. /\ q \in Query /\ views \in [Query -> View] /\ ver \in Version
      /\ inbox \in [Listener -> Seq(Event)]
      /\ listeners \in [Listener -> ListenerState] /\ listeners[l] \in ListenerState
  BY OfType, LifeParts DEF ClientInv, ClientTypeOK, AppTypeOK
<1>3. /\ listeners'[l].at = "in" /\ listeners'[l].lone = lone
      /\ listeners'[l].born = listeners[l].born /\ listeners'[l].answers = listeners[l].answers
      /\ \A k \in Listener : k # l => listeners'[k] = listeners[k]
  <2> HIDE DEF lone, raised, starts
  <2> QED BY <1>1, <1>2 DEF ListenerState
<1>4. /\ vs[q] = new
      /\ \A p \in Query : p # q => vs[p] = views[p]
  BY <1>2
<1>5. \A p \in Query : \A k \in views'[p].who :
        (k = l /\ Of[l] = p) \/ k \in views[p].who
  <2>1. new.who = views[q].who \union {l}
    OBVIOUS
  <2> HIDE DEF new, vs
  <2> QED BY <1>1, <1>4, <2>1
<1>6. WaitingInv' /\ listeners[l].at = "adding"
  BY <1>1, <1>3, <1>5, WaitsLess DEF FreshInv
<1>7. inbox[l] = <<>> /\ listeners[l].answers = 0 /\ listeners[l].born <= world
  BY <1>6 DEF FreshInv, Heard
<1>8. inbox'[l] = <<>> \/ inbox'[l] = <<event>>
  <2> HIDE DEF event, raised
  <2>1. inbox'[l] = IF ~raised THEN inbox[l] ELSE Append(inbox[l], event)
    BY <1>1, <1>2
  <2>2. Append(<<>>, event) = <<event>>
    OBVIOUS
  <2> QED BY <1>7, <2>1, <2>2
<1>9. \A k \in Listener : k # l => inbox'[k] = inbox[k]
  <2> HIDE DEF event, raised
  <2> QED BY <1>1, <1>2
<1>10. Heard(l)'
  <2>1. ~event.error
    OBVIOUS
  <2>2. \A i \in DOMAIN inbox'[l] : ~inbox'[l][i].error
    <3> HIDE DEF event
    <3> QED BY <1>8, <2>1
  <2> QED BY <1>1, <1>3, <1>7, <2>2 DEF Heard
<1>11. Told(l)'
  <2> SUFFICES ASSUME lone, NEW b, b = listeners[l].born
               PROVE  /\ \A i \in DOMAIN inbox'[l] : ~inbox'[l][i].cached => inbox'[l][i].ver >= b
                      /\ listeners'[l].answers > 0 /\ ~listeners'[l].last.cached =>
                           listeners'[l].last.ver >= b
                      /\ Fed(Of[l], b)'
    <3> HIDE DEF lone
    <3> QED BY <1>3 DEF Told, Fed, Ask, Reply, Snapshot
  <2>1. first
    OBVIOUS
  <2>2. ~vs[q].current
    <3>1. new.current = (~first /\ views[q].current)
      OBVIOUS
    <3> HIDE DEF new, vs, first
    <3> QED BY <1>4, <2>1, <3>1
  <2>3. event.cached
    BY <2>2
  <2>4. \A i \in DOMAIN inbox'[l] : inbox'[l][i].cached
    <3> HIDE DEF event
    <3> QED BY <1>8, <2>3
  <2>5. Fed(Of[l], b)'
    BY <2>1, FeedNew
  <2> QED BY <1>3, <1>7, <2>4, <2>5
<1>12. \A k \in Listener : Heard(k)' /\ Told(k)'
  <2> TAKE k \in Listener
  <2>1. CASE k = l
    BY <1>10, <1>11, <2>1
  <2>2. CASE k # l
    <3>1. Of[k] \in Query
      BY OfType
    <3>2. k \in views'[Of[k]].who => k \in views[Of[k]].who
      BY <1>5, <2>2, <3>1
    <3> QED BY <1>3, <1>9, <2>2, <3>2, ListenerRests
  <2> QED BY <2>1, <2>2
<1> QED BY <1>6, <1>12, FedAll DEF FreshInv

LEMMA FreshRemoveListener ==
  ASSUME LifeInv, WireInv, FreshInv, [Next]_vars, NEW l \in Listener, RemoveListener(l)
  PROVE  FreshInv'
<1> DEFINE q == Of[l]
           last == views[q].who = {l}
           left == [views[q] EXCEPT !.who = views[q].who \ {l}]
<1>1. /\ NextBlock("remove", l)
      /\ listeners' = [listeners EXCEPT ![l].at = "gone"]
      /\ views' = IF last THEN [views EXCEPT ![q] = NoView] ELSE [views EXCEPT ![q] = left]
      /\ UNCHANGED <<inbox, world>>
  BY DEF RemoveListener, outside
<1>2. /\ q \in Query /\ views \in [Query -> View] /\ views[q] \in View
      /\ listeners \in [Listener -> ListenerState] /\ listeners[l] \in ListenerState
  BY OfType, LifeParts DEF ClientInv, ClientTypeOK, AppTypeOK
<1>3. /\ listeners'[l].at = "gone" /\ listeners'[l].lone = listeners[l].lone
      /\ listeners'[l].born = listeners[l].born /\ listeners'[l].answers = listeners[l].answers
      /\ listeners'[l].muted = listeners[l].muted /\ listeners'[l].last = listeners[l].last
      /\ \A k \in Listener : k # l => listeners'[k] = listeners[k]
  BY <1>1, <1>2 DEF ListenerState
<1>4. left.who = views[q].who \ {l} /\ NoView.who = {}
  BY <1>2, Defaults DEF View
<1> HIDE DEF left
<1>5. \A p \in Query : \A k \in views'[p].who : k \in views[p].who /\ k # l
  <2> TAKE p \in Query
  <2>1. CASE p = q
    BY <1>1, <1>2, <1>4, <2>1
  <2>2. CASE p # q
    <3>1. views'[p] = views[p]
      BY <1>1, <1>2, <2>2
    <3>2. \A k \in views[p].who : Of[k] = p
      BY DEF FreshInv, WaitingInv
    <3> QED BY <2>2, <3>1, <3>2
  <2> QED BY <2>1, <2>2
<1>6. WaitingInv' /\ listeners[l].at \in {"in", "gone"}
  BY <1>1, <1>3, <1>5, WaitsLess DEF FreshInv
<1>7. Heard(l)'
  BY <1>1, <1>3, <1>6 DEF FreshInv, Heard
<1>8. Told(l)'
  BY <1>1, <1>2, <1>3, <1>5 DEF FreshInv, Told
<1>9. \A k \in Listener : Heard(k)' /\ Told(k)'
  <2> TAKE k \in Listener
  <2>1. CASE k = l
    BY <1>7, <1>8, <2>1
  <2>2. CASE k # l
    BY <1>1, <1>3, <1>5, <2>2, OfType, ListenerRests
  <2> QED BY <2>1, <2>2
<1> QED BY <1>6, <1>9, FedAll DEF FreshInv

LEMMA FreshTargetError ==
  ASSUME LifeInv, WireInv, FreshInv, [Next]_vars, TargetError
  PROVE  FreshInv'
<1>0. PICK q \in Query : q = Head(down).q
  BY ReceiveType DEF TargetError
<1> DEFINE e == [ver |-> 0, cached |-> TRUE, error |-> TRUE]
<1>1. /\ views' = [views EXCEPT ![q] = NoView] /\ UNCHANGED worker
      /\ listeners' = [l \in Listener |->
           IF l \in views[q].who THEN [listeners[l] EXCEPT !.at = "gone"] ELSE listeners[l]]
      /\ inbox' = [l \in Listener |-> IF l \in views[q].who THEN Append(inbox[l], e) ELSE inbox[l]]
  BY <1>0 DEF TargetError, Receive
<1>2. views \in [Query -> View] /\ NoView.who = {}
  BY Defaults, LifeParts DEF ClientInv, ClientTypeOK
<1>3. e \in Event /\ e.cached
  BY ListenAssumption DEF Event, Version
<1> HIDE DEF e
<1>4. \A p \in Query : views'[p].who = IF p = q THEN {} ELSE views[p].who
  BY <1>1, <1>2
<1>5. \A l \in views[q].who : l \in Listener /\ Of[l] = q /\ listeners[l].at = "in"
  BY WaitingBlocks DEF FreshInv, WaitingInv
<1>6. ASSUME NEW l \in Listener
      PROVE  /\ listeners'[l].at = IF l \in views[q].who THEN "gone" ELSE listeners[l].at
             /\ listeners'[l].answers = listeners[l].answers
             /\ listeners'[l].muted = listeners[l].muted /\ listeners'[l].last = listeners[l].last
             /\ listeners'[l].born = listeners[l].born /\ listeners'[l].lone = listeners[l].lone
  <2>1. listeners[l] \in ListenerState
    BY OfType
  <2> QED BY <1>1, <2>1 DEF ListenerState
<1>7. ASSUME NEW l \in Listener PROVE Heard(l)' /\ Told(l)'
  <2>1. l \in views'[Of[l]].who => l \in views[Of[l]].who
    BY <1>4, OfType
  <2>2. CASE l \in views[q].who
    BY <1>1, <1>3, <1>5, <1>6, <2>1, <2>2, ListenerGoes
  <2>3. CASE l \notin views[q].who
    BY <1>1, <1>6, <2>1, <2>3, ListenerGoes
  <2> QED BY <2>2, <2>3
<1>8. WaitingInv'
  <2>1. \A i \in DOMAIN worker :
          IF worker[i].kind = "add" THEN listeners'[worker[i].l].at = "adding"
          ELSE listeners'[worker[i].l].at \in {"in", "gone"}
    <3> TAKE i \in DOMAIN worker
    <3>1. worker[i].l \in Listener
      BY WaitingBlocks
    <3> QED BY <1>5, <1>6, <3>1 DEF FreshInv, WaitingInv
  <2>2. \A p \in Query : \A l \in views'[p].who : Of[l] = p /\ listeners'[l].at = "in"
    <3> TAKE p \in Query
    <3> TAKE l \in views'[p].who
    <3>1. p # q /\ l \in views[p].who
      BY <1>4
    <3>2. l \in Listener /\ Of[l] = p /\ listeners[l].at = "in"
      BY <3>1, WaitingBlocks DEF FreshInv, WaitingInv
    <3> QED BY <1>5, <1>6, <3>1, <3>2
  <2> QED BY <1>1, <2>1, <2>2 DEF FreshInv, WaitingInv
<1> QED BY <1>7, <1>8, FedAll DEF FreshInv

-----------------------------------------------------------------------------

LEMMA FreshAnswers ==
  ASSUME LifeInv, WireInv, FreshInv, [Next]_vars,
         TargetAdded \/ TargetRemoved \/ TargetCurrent \/ RaiseWatchSnapshot
  PROVE  FreshInv'
<1>1. views \in [Query -> View] /\ targets \in [Query -> TargetState]
  BY LifeParts DEF ClientInv, ClientTypeOK
<1>2. CASE TargetAdded \/ TargetRemoved \/ TargetCurrent
  <2>1. Notify(views, Updated("Online")) /\ UNCHANGED worker
    BY <1>2 DEF TargetAdded, TargetRemoved, TargetCurrent, Receive
  <2> QED BY <1>1, <2>1, FreshNotifies
<1>3. CASE RaiseWatchSnapshot
  <2> DEFINE h == Head(down)
             news == {p \in h.of : Active(p)}
             told == {p \in Query : Active(p) /\ (targets[p].pending \/ p \in news)}
             shown(p) == IF p \in news THEN h.ver ELSE views[p].ver
             current(p) == IF p \in told THEN targets[p].current ELSE views[p].current
             vs == [p \in Query |-> [views[p] EXCEPT !.ver = shown(p), !.current = current(p)]]
  <2>1. Receive("snapshot") /\ Notify(vs, Updated("Online")) /\ UNCHANGED worker
    BY <1>3 DEF RaiseWatchSnapshot, Receive
  <2>2. h.ver \in Version
    BY <2>1, ReceiveType
  <2>3. ASSUME NEW p \in Query
        PROVE  /\ [views[p] EXCEPT !.ver = shown(p), !.current = current(p)] \in View
               /\ [views[p] EXCEPT !.ver = shown(p), !.current = current(p)].who = views[p].who
    <3>1. views[p] \in View /\ targets[p] \in TargetState
      BY <1>1
    <3>2. shown(p) \in Version
      <4> HIDE DEF news, h
      <4> QED BY <2>2, <3>1 DEF View
    <3>3. current(p) \in BOOLEAN
      <4> HIDE DEF told
      <4> QED BY <3>1 DEF View, TargetState
    <3> HIDE DEF shown, current
    <3> QED BY <3>1, <3>2, <3>3, ViewTold
  <2>4. vs \in [Query -> View] /\ \A p \in Query : vs[p].who = views[p].who
    <3> HIDE DEF shown, current
    <3> QED BY <2>3
  <2> HIDE DEF vs
  <2> QED BY <2>1, <2>4, FreshNotifies
<1> QED BY <1>2, <1>3

LEMMA FreshStep == LifeInv /\ WireInv /\ FreshInv /\ [Next]_vars => FreshInv'
<1> SUFFICES ASSUME LifeInv, WireInv, FreshInv, [Next]_vars PROVE FreshInv'
  OBVIOUS
<1>0. views \in [Query -> View]
  BY LifeParts DEF ClientInv, ClientTypeOK
<1>1. ASSUME NEW l \in Listener, Call(l) \/ Remove(l) \/ Hear(l) PROVE FreshInv'
  BY <1>1, FreshCall, FreshRemove, FreshHear
<1>2. CASE Blocks
  BY <1>2, FreshAddListener, FreshRemoveListener DEF Blocks
<1>3. CASE StreamOpens \/ BackoffElapsed \/ SomebodyWrites \/ Connection \/ UNCHANGED vars
  <2>1. UNCHANGED app /\ UNCHANGED views
    BY <1>3 DEF StreamOpens, BackoffElapsed, SomebodyWrites, Connection, vars, client
  <2> QED BY <2>1, FreshRests
<1>4. CASE Server \/ \E q \in Query : RefuseTarget(q)
  <2>1. UNCHANGED app /\ UNCHANGED client
    BY <1>4 DEF Server, AnswerRequest, PushChange, CatchUp, RefuseTarget
  <2>2. UNCHANGED views
    BY <2>1 DEF client
  <2> QED BY <2>1, <2>2, FreshRests
<1>5. ASSUME NEW o1, NEW o2, Notify(AfterOnlineState(views, o1), o2), UNCHANGED worker PROVE FreshInv'
  BY <1>0, <1>5, AfterOnlineStateType, FreshNotifies
<1>6. ASSUME NEW o, Notify(views, o), UNCHANGED worker PROVE FreshInv'
  BY <1>0, <1>6, FreshNotifies
<1>7. CASE StreamFails \/ OnlineStateTimeout
  BY <1>5, <1>7 DEF StreamFails, Interrupted, OnlineStateTimeout
<1>8. CASE IdleTimeout \/ CredentialDidChange
  BY <1>6, <1>8 DEF IdleTimeout, CredentialDidChange
<1>9. CASE Answers
  BY <1>9, FreshAnswers, FreshTargetError DEF Answers
<1> QED BY <1>1, <1>2, <1>3, <1>4, <1>7, <1>8, <1>9 DEF Next

LEMMA FreshInit == Init => FreshInv
<1> SUFFICES ASSUME Init PROVE FreshInv
  OBVIOUS
<1>1. /\ stream.state = "Initial" /\ worker = <<>> /\ \A q \in Query : views[q].who = {}
      /\ \A l \in Listener : listeners[l] = NewListener /\ inbox[l] = <<>>
  BY Defaults DEF Init
<1>2. FeedInv
  BY <1>1 DEF FeedInv, NewsInv
<1>3. WaitingInv
  BY <1>1 DEF WaitingInv
<1>4. \A l \in Listener : Heard(l) /\ Told(l)
  BY <1>1 DEF Heard, Told, NewListener
<1> QED BY <1>2, <1>3, <1>4 DEF FreshInv

\* What is on its way to a listener that was the first of its query is not
\* older than the listener, wherever it is: on the wire, in the view, in the
\* queue of its events.
THEOREM FreshInvariant == Spec => []FreshInv
<1>1. Init => LifeInv /\ WireInv /\ FreshInv
  BY LifeInit, WireInit, FreshInit
<1>2. LifeInv /\ WireInv /\ FreshInv /\ [Next]_vars => (LifeInv /\ WireInv /\ FreshInv)'
  BY LifeStep, WireStep, FreshStep
<1> QED BY <1>1, <1>2, PTL DEF Spec

\* getDocuments answers once, and an answer that does not say it is of the
\* cache has documents as new as the call, for whoever is the first to ask for
\* the query and is owed no answer of an earlier one (FIRQuery.mm:120).
THEOREM FreshIfServerAlways == Spec => []FreshIfServer
<1>1. LifeInv /\ FreshInv => FreshIfServer
  <2> SUFFICES ASSUME LifeInv, FreshInv, NEW l \in Get
               PROVE  /\ listeners[l].answers <= 1
                      /\ listeners[l].answers > 0 /\ listeners[l].lone /\ ~listeners[l].last.cached =>
                           listeners[l].last.ver >= listeners[l].born
    BY DEF FreshIfServer
  <2>1. l \in Listener
    BY ListenAssumption
  <2> QED BY <2>1 DEF FreshInv, Heard, Told
<1> QED BY <1>1, LifeInvariant, FreshInvariant, PTL

=============================================================================
