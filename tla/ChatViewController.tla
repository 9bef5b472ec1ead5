-------------------------- MODULE ChatViewController --------------------------
(***************************************************************************)
(* One phone's conversations: the chat screen, the manager that listens to *)
(* a conversation's thread, and the writes of a message and of a complaint *)
(* (ChatViewController, MessagesManager, Channel.add, Message).             *)
(*                                                                         *)
(* A listener is added each time a chat is opened and none is removed.     *)
(* They all write the one array of MessagesManager, which the screen on top *)
(* is drawn from, and each tells only the screen that added it.            *)
(***************************************************************************)
EXTENDS Integers, Sequences, FiniteSets, SequencesExt

CONSTANTS
  User, Account,  \* users, and those that sign in on this phone
  NoUser,         \* UserManager.currentUser = nil
  Channel,        \* channels: records of their first and second user
  Message,        \* messages, by the moment they are sent: positive numbers
  Author,         \* who writes each of them
  Place,          \* in which channel
  Screen,         \* bound: the chats opened between two launches
  NoScreen, NoChannel,
  MaxComplaint    \* bound: the complaints that are made

ASSUME UserAssumption == NoUser \notin User /\ Account \subseteq User
ASSUME ChannelAssumption ==
  \A c \in Channel : {c.first, c.second} \subseteq User /\ c.first # c.second
ASSUME MessageAssumption ==
  /\ Message \subseteq Nat \ {0} /\ IsFiniteSet(Message)
  /\ Place \in [Message -> Channel]
  /\ DOMAIN Author = Message
  /\ \A m \in Message : Author[m] \in {Place[m].first, Place[m].second}
ASSUME BoundAssumption ==
  NoScreen \notin Screen /\ NoChannel \notin Channel /\ MaxComplaint \in Nat

VARIABLES
  live,         \* the channel documents of the server
  thread,       \* the messages the server has
  last,         \* lastMessageDate of each channel, 0 before any message
  blocked,      \* pairs <<u, v>>: the document users/u/block/v exists
  analise,      \* the documents of the collection analise
  known,        \* messages of the server that reached this phone
  queue,        \* for each account, its writes not acknowledged yet, in order
  currentUser,  \* UserManager.instance.currentUser
  listeners,    \* the channel each chat opened since the launch listens to
  due,          \* the listeners whose next snapshot has not been handled
  messages,     \* MessagesManager.instance.messages
  top,          \* the chat that is presented
  rows,         \* what its collection view shows
  asked,        \* complaints confirmed, whose read of the cache is awaited
  complaints,   \* counts up to MaxComplaint
  crashed       \* the process was stopped by a trap

server == <<live, thread, last, blocked, analise>>
chat == <<listeners, messages, top, rows>>
vars == <<server, known, queue, currentUser, due, chat, asked, complaints, crashed>>

-----------------------------------------------------------------------------

\* Writes.  For a complaint: who is reported, who complained, and whether the
\* account was still the same when the cache was read.
Report == [who : User, by : User, chan : Channel, steady : BOOLEAN]
Write ==
  [op : {"add", "date"}, of : Message] \union [op : {"block"}, of : User \X User]
    \union [op : {"report"}, of : Report]

Writer == Account \union {NoUser}

Added(u) == {m \in Message : \E i \in DOMAIN queue[u] : queue[u][i] = [op |-> "add", of |-> m]}

\* The phone's view of a thread: what it has of the server, and the messages of
\* the account that are still queued.
ThreadView(c) == {m \in known \union Added(currentUser) : Place[m] = c}

\* order(by: "created")
ByDate(S) == [i \in 1..Cardinality(S) |->
                CHOOSE m \in S : Cardinality({n \in S : n < m}) = i - 1]

Listening(c) == {s \in Screen : listeners[s] = c}

Enqueue(writes) == queue' = [queue EXCEPT ![currentUser] = @ \o writes]

\* (A definition that says "slip" is wrong on purpose: it replaces the one that
\* follows it in the checks that show a property can fail.)

Init ==
  /\ live = Channel /\ thread = {} /\ last = [c \in Channel |-> 0]
  /\ blocked = {} /\ analise = {} /\ known = {}
  /\ queue = [u \in Writer |-> <<>>]
  /\ currentUser = NoUser
  /\ listeners = [s \in Screen |-> NoChannel] /\ due = {}
  /\ messages = <<>> /\ top = NoScreen /\ rows = <<>>
  /\ asked = {} /\ complaints = 0 /\ crashed = FALSE

-----------------------------------------------------------------------------
(* Other phones, and the session *)

\* Another phone's two writes of a message, in their order; the second may
\* come late.
AddElsewhere(m) ==
  /\ m \notin thread /\ Author[m] \notin Account
  /\ thread' = thread \union {m}
  /\ UNCHANGED <<live, last, blocked, analise, known, queue, currentUser, due, chat, asked,
                 complaints, crashed>>

DateElsewhere(m) ==
  /\ m \in thread /\ Author[m] \notin Account /\ Place[m] \in live
  /\ last' = [last EXCEPT ![Place[m]] = m]
  /\ UNCHANGED <<live, thread, blocked, analise, known, queue, currentUser, due, chat, asked,
                 complaints, crashed>>

\* The deletion of a channel leaves its thread.
DeleteElsewhere(c) ==
  /\ c \in live /\ live' = live \ {c}
  /\ UNCHANGED <<thread, last, blocked, analise, known, queue, currentUser, due, chat, asked,
                 complaints, crashed>>

SignIn(u) ==
  /\ ~crashed /\ currentUser = NoUser /\ currentUser' = u
  /\ due' = {s \in Screen : listeners[s] # NoChannel}
  /\ UNCHANGED <<server, known, queue, chat, asked, complaints, crashed>>

\* The array and the listeners outlive the session.
SignOut ==
  /\ ~crashed /\ currentUser # NoUser /\ top = NoScreen
  /\ currentUser' = NoUser
  /\ due' = {s \in Screen : listeners[s] # NoChannel}
  /\ UNCHANGED <<server, known, queue, chat, asked, complaints, crashed>>

Relaunch ==
  /\ listeners' = [s \in Screen |-> NoChannel] /\ due' = {}
  /\ messages' = <<>> /\ top' = NoScreen /\ rows' = <<>>
  /\ asked' = {} /\ crashed' = FALSE
  /\ UNCHANGED <<server, known, queue, currentUser, complaints>>

-----------------------------------------------------------------------------
(* The store: queued writes go out in order, threads come in *)

\* updateData of a channel that is gone is refused; nobody is told.
Commit ==
  /\ ~crashed /\ queue[currentUser] # <<>>
  /\ queue' = [queue EXCEPT ![currentUser] = Tail(@)]
  /\ LET w == Head(queue[currentUser]) IN
       \/ /\ w.op = "add" /\ thread' = thread \union {w.of} /\ known' = known \union {w.of}
          /\ UNCHANGED <<last, blocked, analise>>
       \/ /\ w.op = "date"
          /\ last' = IF Place[w.of] \in live THEN [last EXCEPT ![Place[w.of]] = w.of] ELSE last
          /\ UNCHANGED <<thread, known, blocked, analise>>
       \/ /\ w.op = "block" /\ blocked' = blocked \union {w.of}
          /\ UNCHANGED <<thread, known, last, analise>>
       \/ /\ w.op = "report" /\ analise' = analise \union {w.of}
          /\ UNCHANGED <<thread, known, last, blocked>>
  /\ UNCHANGED <<live, currentUser, due, chat, asked, complaints, crashed>>

\* A message of the server reaches a thread that is listened to.
Receive(m) ==
  /\ ~crashed /\ m \in thread \ known /\ Listening(Place[m]) # {}
  /\ known' = known \union {m}
  /\ due' = due \union Listening(Place[m])
  /\ UNCHANGED <<server, queue, currentUser, chat, asked, complaints, crashed>>

-----------------------------------------------------------------------------
(* The chat *)

\* Slip: the chat is presented, and nothing listens to the thread.
OpenChatDeaf(s, c) ==
  /\ ~crashed /\ currentUser \in {c.first, c.second}
  /\ top = NoScreen /\ listeners[s] = NoChannel
  /\ messages' = <<>> /\ rows' = <<>> /\ top' = s
  /\ UNCHANGED <<server, known, queue, currentUser, listeners, due, asked, complaints, crashed>>

\* viewDidLoad: the array is emptied and a listener is added.
OpenChat(s, c) ==
  /\ ~crashed /\ currentUser \in {c.first, c.second}
  /\ top = NoScreen /\ listeners[s] = NoChannel
  /\ messages' = <<>> /\ rows' = <<>> /\ top' = s
  /\ listeners' = [listeners EXCEPT ![s] = c]
  /\ due' = due \union {s}
  /\ UNCHANGED <<server, known, queue, currentUser, asked, complaints, crashed>>

\* Slip: the array is not emptied before the documents are appended.
SnapshotAppends(s) ==
  /\ ~crashed /\ s \in due /\ due' = due \ {s}
  /\ messages' = messages \o ByDate(ThreadView(listeners[s]))
  /\ rows' = IF top = s THEN messages' ELSE rows
  /\ UNCHANGED <<server, known, queue, currentUser, listeners, top, asked, complaints, crashed>>

\* Slip: only the first snapshot is told to the screen.
SnapshotOnce(s) ==
  /\ ~crashed /\ s \in due /\ due' = due \ {s}
  /\ messages' = ByDate(ThreadView(listeners[s]))
  /\ rows' = IF top = s /\ rows = <<>> THEN messages' ELSE rows
  /\ UNCHANGED <<server, known, queue, currentUser, listeners, top, asked, complaints, crashed>>

\* The closure of addSnapshotListener, and readedMessagesFromChannel of the
\* screen that added it.
Snapshot(s) ==
  /\ ~crashed /\ s \in due
  /\ due' = due \ {s}
  /\ messages' = ByDate(ThreadView(listeners[s]))
  /\ rows' = IF top = s THEN messages' ELSE rows
  /\ UNCHANGED <<server, known, queue, currentUser, listeners, top, asked, complaints, crashed>>

\* The error is printed, and (query?.documents)! traps.
SnapshotFails(s) ==
  /\ ~crashed /\ listeners[s] # NoChannel
  /\ crashed' = TRUE
  /\ UNCHANGED <<server, known, queue, currentUser, due, chat, asked, complaints>>

\* messageForItem, for a row that scrolls into sight.
MessageForItem(i) ==
  /\ ~crashed /\ top # NoScreen /\ i \in DOMAIN rows
  /\ IF i > Len(messages)
     THEN crashed' = TRUE /\ UNCHANGED rows
     ELSE rows' = [rows EXCEPT ![i] = messages[i]] /\ UNCHANGED crashed
  /\ UNCHANGED <<server, known, queue, currentUser, listeners, due, messages, top, asked,
                 complaints>>

\* Slip: the date goes first.
SendDateFirst(m) ==
  /\ ~crashed /\ top # NoScreen /\ Place[m] = listeners[top] /\ Author[m] = currentUser
  /\ \A n \in thread \union Added(currentUser) : Author[n] = currentUser => n < m
  /\ Enqueue(<<[op |-> "date", of |-> m], [op |-> "add", of |-> m]>>)
  /\ due' = due \union Listening(Place[m])
  /\ UNCHANGED <<server, known, currentUser, chat, asked, complaints, crashed>>

\* save, that is Channel.add: the message, then the channel's date.
Send(m) ==
  /\ ~crashed /\ top # NoScreen /\ Place[m] = listeners[top] /\ Author[m] = currentUser
  /\ \A n \in thread \union Added(currentUser) : Author[n] = currentUser => n < m
  /\ Enqueue(<<[op |-> "add", of |-> m], [op |-> "date", of |-> m]>>)
  /\ due' = due \union Listening(Place[m])
  /\ UNCHANGED <<server, known, currentUser, chat, asked, complaints, crashed>>

\* buttonAction: the listener stays.
Dismiss ==
  /\ ~crashed /\ top # NoScreen
  /\ top' = NoScreen /\ rows' = <<>>
  /\ UNCHANGED <<server, known, queue, currentUser, listeners, due, messages, asked, complaints,
                 crashed>>

\* "Bloquear Usuário": the cache is asked and the chat dismissed at once.
ComplainAction ==
  /\ ~crashed /\ top # NoScreen /\ complaints < MaxComplaint
  /\ complaints' = complaints + 1
  /\ asked' = asked \union {[chan |-> listeners[top], by |-> currentUser]}
  /\ top' = NoScreen /\ rows' = <<>>
  /\ UNCHANGED <<server, known, queue, currentUser, listeners, due, messages, crashed>>

BlocksOf(c) ==
  <<[op |-> "block", of |-> <<c.first, c.second>>], [op |-> "block", of |-> <<c.second, c.first>>]>>

\* Slip: the account is compared with the wrong user.
ReportedSelf(c) == IF c.second = currentUser THEN c.second ELSE c.first

\* Who is sent to analise is found by the account of this moment.
Reported(c) == IF c.first = currentUser THEN c.second ELSE c.first

CacheAnswers(q) ==
  /\ ~crashed /\ q \in asked /\ asked' = asked \ {q}
  /\ Enqueue(BlocksOf(q.chan) \o
       <<[op |-> "report", of |-> [who |-> Reported(q.chan), by |-> q.by, chan |-> q.chan,
                                   steady |-> currentUser = q.by]]>>)
  /\ UNCHANGED <<server, known, currentUser, due, chat, complaints, crashed>>

\* The channel is not in the cache: nothing is written.
CacheMisses(q) ==
  /\ ~crashed /\ q \in asked /\ asked' = asked \ {q}
  /\ UNCHANGED <<server, known, queue, currentUser, due, chat, complaints, crashed>>

\* The cache knows that the channel was deleted: firstUser! traps.
CacheTraps(q) ==
  /\ ~crashed /\ q \in asked /\ q.chan \notin live
  /\ crashed' = TRUE
  /\ UNCHANGED <<server, known, queue, currentUser, due, chat, asked, complaints>>

-----------------------------------------------------------------------------

Next ==
  \/ \E m \in Message : AddElsewhere(m) \/ DateElsewhere(m) \/ Receive(m) \/ Send(m)
  \/ \E c \in Channel : DeleteElsewhere(c)
  \/ \E u \in Account : SignIn(u)
  \/ SignOut \/ Relaunch \/ Commit \/ Dismiss \/ ComplainAction
  \/ \E s \in Screen : \/ \E c \in Channel : OpenChat(s, c)
                       \/ Snapshot(s) \/ SnapshotFails(s)
  \/ \E i \in DOMAIN rows : MessageForItem(i)
  \/ \E q \in asked : CacheAnswers(q) \/ CacheMisses(q) \/ CacheTraps(q)

Spec == Init /\ [][Next]_vars

\* A snapshot that is due is dispatched; a listener is sent what the server has.
FairSpec ==
  /\ Spec
  /\ \A s \in Screen : WF_vars(Snapshot(s))
  /\ \A m \in Message : WF_vars(Receive(m))

-----------------------------------------------------------------------------
(* Properties *)

\* Every variable keeps its type, and only listeners have snapshots to handle.
TypeOK ==
  /\ live \subseteq Channel /\ known \subseteq thread /\ thread \subseteq Message
  /\ last \in [Channel -> Message \union {0}]
  /\ blocked \subseteq User \X User /\ analise \subseteq Report
  /\ DOMAIN queue = Writer /\ \A u \in Writer : Range(queue[u]) \subseteq Write
  /\ currentUser \in Writer
  /\ listeners \in [Screen -> Channel \union {NoChannel}]
  /\ due \subseteq {s \in Screen : listeners[s] # NoChannel}
  /\ Range(messages) \subseteq Message /\ Range(rows) \subseteq Message
  /\ top \in Screen \union {NoScreen} /\ (top # NoScreen => listeners[top] # NoChannel)
  /\ asked \subseteq [chan : Channel, by : User]
  /\ complaints \in 0..MaxComplaint /\ crashed \in BOOLEAN

\* Since the launch, only the conversation that is on show was opened.
Lone == top # NoScreen /\ \A s \in Screen : listeners[s] \in {NoChannel, listeners[top]}

\* With no snapshot on its way, the chat shows its whole thread in the order of
\* the dates, however often it was opened before and whatever was queued, sent
\* or received meanwhile: earlier listeners of the conversation write the same
\* array.  (Those of another conversation put their messages under this chat,
\* or make the rows outnumber the array.)
ShowsItsThread ==
  Lone /\ due = {} => rows = messages /\ rows = ByDate(ThreadView(listeners[top]))

\* The date that orders the conversations is never that of a message the server
\* has not got, across launches, sign-outs and late writes of other phones.
DateHasMessage == \A c \in live : last[c] # 0 => last[c] \in thread

\* Whoever is under analysis is already blocked both ways, and did not complain
\* unless the account changed before the cache answered.
ReportIsFounded ==
  \A r \in analise :
    /\ {<<r.chan.first, r.chan.second>>, <<r.chan.second, r.chan.first>>} \subseteq blocked
    /\ r.steady => r.who # r.by

\* A message the server has reaches the screen that shows its conversation,
\* unless the chat is left (from a chat to another there is no way but that).
ReceivedIsShown ==
  \A m \in Message :
    Lone /\ listeners[top] = Place[m] /\ m \in thread
      ~> m \in Range(rows) \/ top = NoScreen \/ crashed

=============================================================================
