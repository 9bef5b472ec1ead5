----------------------- MODULE ChatViewControllerProofs -----------------------
(***************************************************************************)
(* For any users, channels, messages and complaints.  WriteInv is the order *)
(* of a phone's writes: a date follows its message and a complaint follows *)
(* its two blocks, through sign-outs, launches and the writes of other      *)
(* phones.  ChatInv adds the types and what a chat shows: a screen whose    *)
(* listener has no snapshot to handle, and no listener of another           *)
(* conversation beside it, shows its thread.                                *)
(***************************************************************************)
EXTENDS ChatViewController, FiniteSetTheorems, TLAPS

\* Whether a server with messages T and blocks B has had a write; and what a
\* write supposes.
Done(T, B, w) == CASE w.op = "add" -> w.of \in T
                   [] w.op = "block" -> w.of \in B
                   [] OTHER -> TRUE

Pair(c) == {<<c.first, c.second>>, <<c.second, c.first>>}

Needs(w) == CASE w.op = "date" -> {[op |-> "add", of |-> w.of]}
              [] w.op = "report" -> {[op |-> "block", of |-> b] : b \in Pair(w.of.chan)}
              [] OTHER -> {}

Earlier(q, i, n) == \E j \in 1..Len(q) : j < i /\ q[j] = n

\* What a queued write supposes is on the server, or ahead of it in its queue.
Sound(T, B, q) ==
  \A i \in 1..Len(q) : \A n \in Needs(q[i]) : Done(T, B, n) \/ Earlier(q, i, n)

Fair(r) == r.steady => r.who # r.by

Founded(q) == \A i \in 1..Len(q) : q[i].op = "report" => Fair(q[i].of)

QueueType ==
  /\ queue \in [Writer -> Seq(Write)] /\ currentUser \in Writer
  /\ last \in [Channel -> Message \union {0}]
  /\ listeners \in [Screen -> Channel \union {NoChannel}]
  /\ asked \subseteq [chan : Channel, by : User]
  /\ top # NoScreen => top \in Screen /\ listeners[top] \in Channel /\ currentUser \in Account

DatesKept == \A c \in Channel : last[c] # 0 => last[c] \in thread

WriteInv ==
  /\ QueueType /\ DatesKept /\ ReportIsFounded
  /\ \A u \in Writer : Sound(thread, blocked, queue[u]) /\ Founded(queue[u])

LEMMA WriteKinds ==
  ASSUME NEW w \in Write
  PROVE  /\ w.op \in {"add", "date"} => w.of \in Message /\ Place[w.of] \in Channel
         /\ w.op = "block" => w.of \in User \X User
         /\ w.op = "report" => w.of \in Report
         /\ w.op \in {"add", "date", "block", "report"}
         /\ w = [op |-> w.op, of |-> w.of]
<1>1. CASE w \in [op : {"add", "date"}, of : Message]
  BY <1>1, MessageAssumption
<1>2. CASE w \in [op : {"block"}, of : User \X User]
  BY <1>2
<1>3. CASE w \in [op : {"report"}, of : Report]
  BY <1>3
<1> QED BY <1>1, <1>2, <1>3 DEF Write

\* What the server has it keeps.
LEMMA DoneStays ==
  ASSUME NEW T, NEW B, NEW T2, NEW B2, T \subseteq T2, B \subseteq B2, NEW w, Done(T, B, w)
  PROVE  Done(T2, B2, w)
BY DEF Done

LEMMA SoundStays ==
  ASSUME NEW T, NEW B, NEW T2, NEW B2, T \subseteq T2, B \subseteq B2, NEW q, Sound(T, B, q)
  PROVE  Sound(T2, B2, q)
BY DoneStays DEF Sound

LEMMA SoundConcat ==
  ASSUME NEW T, NEW B, NEW q \in Seq(Write), NEW s \in Seq(Write), Sound(T, B, q), Sound(T, B, s), Founded(q), Founded(s)
  PROVE  Sound(T, B, q \o s) /\ Founded(q \o s) /\ q \o s \in Seq(Write)
<1>1. /\ q \o s \in Seq(Write) /\ Len(q \o s) = Len(q) + Len(s) /\ Len(q) \in Nat /\ Len(s) \in Nat
      /\ \A i \in 1..Len(q) : i \in 1..Len(q \o s) /\ (q \o s)[i] = q[i]
      /\ \A i \in 1..Len(s) : i + Len(q) \in 1..Len(q \o s) /\ (q \o s)[i + Len(q)] = s[i]
  OBVIOUS
<1> DEFINE t == q \o s
<1> HIDE DEF t
<1>2. ASSUME NEW i \in 1..Len(t)
      PROVE  \/ i \in 1..Len(q) /\ t[i] = q[i]
             \/ \E k \in 1..Len(s) : i = k + Len(q) /\ t[i] = s[k]
  <2>1. CASE i <= Len(q)
    BY <1>1, <2>1 DEF t
  <2>2. CASE i > Len(q)
    <3>1. i - Len(q) \in 1..Len(s) /\ i = (i - Len(q)) + Len(q)
      BY <1>1, <2>2 DEF t
    <3> QED BY <1>1, <3>1 DEF t
  <2> QED BY <1>1, <2>1, <2>2 DEF t
<1>3. ASSUME NEW i \in 1..Len(t), NEW n \in Needs(t[i]) PROVE Done(T, B, n) \/ Earlier(t, i, n)
  <2>1. CASE i \in 1..Len(q) /\ t[i] = q[i]
    <3>1. Done(T, B, n) \/ \E j \in 1..Len(q) : j < i /\ q[j] = n
      BY <1>3, <2>1 DEF Sound, Earlier
    <3> QED BY <1>1, <3>1 DEF t, Earlier
  <2>2. ASSUME NEW k \in 1..Len(s), i = k + Len(q), t[i] = s[k] PROVE Done(T, B, n) \/ Earlier(t, i, n)
    <3>1. Done(T, B, n) \/ \E j \in 1..Len(s) : j < k /\ s[j] = n
      BY <1>3, <2>2 DEF Sound, Earlier
    <3>2. ASSUME NEW j \in 1..Len(s), j < k, s[j] = n PROVE Earlier(t, i, n)
      <4>1. j + Len(q) \in 1..Len(t) /\ t[j + Len(q)] = n
        BY <1>1, <3>2 DEF t
      <4>2. j + Len(q) < i
        BY <1>1, <2>2, <3>2
      <4> QED BY <4>1, <4>2 DEF Earlier
    <3> QED BY <3>1, <3>2
  <2> QED BY <1>2, <2>1, <2>2
<1>4. ASSUME NEW i \in 1..Len(t), t[i].op = "report" PROVE Fair(t[i].of)
  BY <1>2, <1>4 DEF Founded
<1> QED BY <1>1, <1>3, <1>4 DEF t, Sound, Founded

\* The head of a queue is written.
LEMMA SoundTail ==
  ASSUME NEW T, NEW B, NEW T2, NEW B2, T \subseteq T2, B \subseteq B2,
         NEW q \in Seq(Write), q # <<>>, Sound(T, B, q), Founded(q), Done(T2, B2, Head(q))
  PROVE  Sound(T2, B2, Tail(q)) /\ Founded(Tail(q)) /\ Tail(q) \in Seq(Write)
<1> DEFINE t == Tail(q)
<1>1. /\ t \in Seq(Write) /\ Len(q) \in Nat /\ Len(q) >= 1 /\ Len(t) = Len(q) - 1 /\ q[1] = Head(q)
      /\ \A i \in 1..Len(t) : i + 1 \in 1..Len(q) /\ t[i] = q[i + 1]
  OBVIOUS
<1> HIDE DEF t
<1>2. ASSUME NEW i \in 1..Len(t), NEW n \in Needs(t[i]) PROVE Done(T2, B2, n) \/ Earlier(t, i, n)
  <2>1. Done(T, B, n) \/ \E j \in 1..Len(q) : j < i + 1 /\ q[j] = n
    BY <1>1, <1>2 DEF Sound, Earlier
  <2>2. ASSUME NEW j \in 1..Len(q), j < i + 1, q[j] = n PROVE Done(T2, B2, n) \/ Earlier(t, i, n)
    <3>1. CASE j = 1
      BY <1>1, <2>2, <3>1
    <3>2. CASE j # 1
      <4>1. j - 1 \in 1..Len(t) /\ j - 1 < i /\ (j - 1) + 1 = j
        BY <1>1, <2>2, <3>2
      <4>2. t[j - 1] = n
        BY <1>1, <2>2, <4>1
      <4> QED BY <4>1, <4>2 DEF Earlier
    <3> QED BY <3>1, <3>2
  <2> QED BY <2>1, <2>2, DoneStays
<1>3. Sound(T2, B2, t)
  BY <1>2 DEF Sound
<1>4. Founded(t)
  BY <1>1 DEF Founded
<1> QED BY <1>1, <1>3, <1>4 DEF t

-----------------------------------------------------------------------------
(* The steps *)

\* A step that leaves the server, the queues and the account.
LEMMA WritesRest ==
  ASSUME WriteInv, UNCHANGED <<thread, last, blocked, analise, queue, currentUser>>,
         listeners' \in [Screen -> Channel \union {NoChannel}],
         asked' \subseteq [chan : Channel, by : User],
         top' # NoScreen => top' \in Screen /\ listeners'[top'] \in Channel /\ currentUser \in Account
  PROVE  WriteInv'
<1>1. QueueType' /\ DatesKept' /\ ReportIsFounded'
  BY DEF WriteInv, QueueType, DatesKept, ReportIsFounded
<1>2. ASSUME NEW u \in Writer PROVE Sound(thread', blocked', queue'[u]) /\ Founded(queue'[u])
  BY SoundStays DEF WriteInv
<1> QED BY <1>1, <1>2 DEF WriteInv

\* Writes are added behind those of the account.
LEMMA Enqueued ==
  ASSUME WriteInv, NEW w \in Seq(Write), Sound(thread, blocked, w), Founded(w), Enqueue(w),
         UNCHANGED <<thread, last, blocked, analise, currentUser, listeners>>,
         top' = top, asked' \subseteq asked
  PROVE  WriteInv'
<1> DEFINE q == queue[currentUser]
<1>1. q \in Seq(Write) /\ Sound(thread, blocked, q) /\ Founded(q) /\ currentUser \in Writer
  BY DEF WriteInv, QueueType
<1>2. queue' = [queue EXCEPT ![currentUser] = q \o w]
  BY DEF Enqueue
<1> HIDE DEF q
<1>3. q \o w \in Seq(Write) /\ Sound(thread, blocked, q \o w) /\ Founded(q \o w)
  BY <1>1, SoundConcat
<1>4. QueueType' /\ DatesKept' /\ ReportIsFounded'
  BY <1>1, <1>2, <1>3 DEF WriteInv, QueueType, DatesKept, ReportIsFounded
<1>5. ASSUME NEW u \in Writer PROVE Sound(thread', blocked', queue'[u]) /\ Founded(queue'[u])
  <2>1. Sound(thread, blocked, queue'[u]) /\ Founded(queue'[u])
    BY <1>1, <1>2, <1>3 DEF WriteInv, QueueType
  <2> QED BY <2>1, SoundStays
<1> QED BY <1>4, <1>5 DEF WriteInv

LEMMA SendKeeps ==
  ASSUME WriteInv, NEW m \in Message, Send(m)
  PROVE  WriteInv'
<1> DEFINE a == [op |-> "add", of |-> m]
           d == [op |-> "date", of |-> m]
           w == <<a, d>>
<1>1. a \in Write /\ d \in Write
  BY DEF Write
<1>2. Needs(a) = {} /\ Needs(d) = {a} /\ a.op # "report" /\ d.op # "report"
  BY DEF Needs
<1>3. Enqueue(w)
  BY DEF Send
<1> HIDE DEF a, d
<1>4. w \in Seq(Write) /\ Len(w) = 2 /\ w[1] = a /\ w[2] = d
  BY <1>1
<1> HIDE DEF w
<1>5. Earlier(w, 2, a)
  BY <1>4 DEF Earlier
<1>6. Sound(thread, blocked, w) /\ Founded(w)
  BY <1>2, <1>4, <1>5 DEF Sound, Founded
<1> QED BY <1>3, <1>4, <1>6, Enqueued DEF Send, server, chat

LEMMA AnswerKeeps ==
  ASSUME WriteInv, NEW q \in asked, CacheAnswers(q)
  PROVE  WriteInv'
<1> DEFINE c == q.chan
           b1 == [op |-> "block", of |-> <<c.first, c.second>>]
           b2 == [op |-> "block", of |-> <<c.second, c.first>>]
           r == [who |-> Reported(c), by |-> q.by, chan |-> c, steady |-> currentUser = q.by]
           w3 == [op |-> "report", of |-> r]
           w == <<b1, b2>> \o <<w3>>
<1>1. c \in Channel /\ q.by \in User
  BY DEF WriteInv, QueueType
<1>2. {c.first, c.second} \subseteq User /\ c.first # c.second
  BY <1>1, ChannelAssumption
<1>3. r \in Report /\ Fair(r)
  BY <1>1, <1>2 DEF Report, Reported, Fair
<1>4. b1 \in Write /\ b2 \in Write /\ w3 \in Write
  BY <1>2, <1>3 DEF Write
<1>5. /\ Needs(b1) = {} /\ Needs(b2) = {} /\ Needs(w3) = {b1, b2}
      /\ b1.op # "report" /\ b2.op # "report" /\ w3.of = r
  <2>1. r.chan = c
    OBVIOUS
  <2> HIDE DEF r, c
  <2> QED BY <2>1 DEF Needs, Pair
<1>6. Enqueue(w)
  BY DEF CacheAnswers, BlocksOf
<1> HIDE DEF b1, b2, r, w3
<1>7. w \in Seq(Write) /\ Len(w) = 3 /\ w[1] = b1 /\ w[2] = b2 /\ w[3] = w3
  <2>1. <<b1, b2>> \in Seq(Write) /\ <<w3>> \in Seq(Write)
    BY <1>4
  <2> QED BY <2>1
<1> HIDE DEF w
<1>8. Earlier(w, 3, b1) /\ Earlier(w, 3, b2)
  BY <1>7 DEF Earlier
<1>9. Sound(thread, blocked, w) /\ Founded(w)
  BY <1>3, <1>5, <1>7, <1>8 DEF Sound, Founded
<1> QED BY <1>6, <1>7, <1>9, Enqueued DEF CacheAnswers, server, chat

LEMMA CommitKeeps ==
  ASSUME WriteInv, Commit
  PROVE  WriteInv'
<1> DEFINE q == queue[currentUser]
           w == Head(q)
<1>1. q \in Seq(Write) /\ q # <<>> /\ Sound(thread, blocked, q) /\ Founded(q) /\ currentUser \in Writer
  BY DEF Commit, WriteInv, QueueType
<1>2. /\ queue' = [queue EXCEPT ![currentUser] = Tail(q)]
      /\ UNCHANGED <<live, currentUser, asked, listeners, top>>
      /\ \/ /\ w.op = "add" /\ thread' = thread \union {w.of}
            /\ UNCHANGED <<last, blocked, analise>>
         \/ /\ w.op = "date"
            /\ last' = IF Place[w.of] \in live THEN [last EXCEPT ![Place[w.of]] = w.of] ELSE last
            /\ UNCHANGED <<thread, blocked, analise>>
         \/ /\ w.op = "block" /\ blocked' = blocked \union {w.of}
            /\ UNCHANGED <<thread, last, analise>>
         \/ /\ w.op = "report" /\ analise' = analise \union {w.of}
            /\ UNCHANGED <<thread, last, blocked>>
  BY DEF Commit, chat
<1> HIDE DEF q
<1>3. w = q[1] /\ 1 \in 1..Len(q) /\ w \in Write
  BY <1>1
<1>4. (\A n \in Needs(w) : Done(thread, blocked, n)) /\ (w.op = "report" => Fair(w.of))
  BY <1>1, <1>3 DEF Sound, Earlier, Founded
<1> HIDE DEF w
<1>5. thread \subseteq thread' /\ blocked \subseteq blocked' /\ Done(thread', blocked', w)
  BY <1>2 DEF Done
<1>6. Sound(thread', blocked', Tail(q)) /\ Founded(Tail(q)) /\ Tail(q) \in Seq(Write)
  BY <1>1, <1>5, SoundTail DEF w
<1>7. w.op = "date" => w.of \in thread /\ w.of \in Message /\ Place[w.of] \in Channel
  BY <1>3, <1>4, WriteKinds DEF Needs, Done
<1>8. QueueType'
  BY <1>1, <1>2, <1>6, <1>7 DEF WriteInv, QueueType
<1>9. DatesKept'
  BY <1>2, <1>5, <1>7 DEF WriteInv, QueueType, DatesKept
<1>10. ReportIsFounded'
  <2>1. CASE w.op = "report"
    <3>1. ASSUME NEW b \in Pair(w.of.chan) PROVE b \in blocked
      <4>1. [op |-> "block", of |-> b] \in Needs(w)
        BY <2>1 DEF Needs
      <4> QED BY <1>4, <4>1 DEF Done
    <3>2. analise' = analise \union {w.of} /\ blocked' = blocked /\ Fair(w.of)
      BY <1>2, <1>4, <2>1
    <3> QED BY <3>1, <3>2 DEF WriteInv, ReportIsFounded, Pair, Fair
  <2>2. CASE w.op # "report"
    BY <1>2, <1>5, <2>2 DEF WriteInv, ReportIsFounded
  <2> QED BY <2>1, <2>2
<1>11. ASSUME NEW u \in Writer PROVE Sound(thread', blocked', queue'[u]) /\ Founded(queue'[u])
  <2>1. CASE u = currentUser
    BY <1>1, <1>2, <1>6, <2>1 DEF WriteInv, QueueType
  <2>2. CASE u # currentUser
    BY <1>2, <1>5, <2>2, SoundStays DEF WriteInv, QueueType
  <2> QED BY <2>1, <2>2
<1> QED BY <1>8, <1>9, <1>10, <1>11 DEF WriteInv

LEMMA ElsewhereKeeps ==
  ASSUME WriteInv, NEW m \in Message, NEW c \in Channel,
         AddElsewhere(m) \/ DateElsewhere(m) \/ DeleteElsewhere(c) \/ Receive(m)
  PROVE  WriteInv'
<1>1. /\ thread \subseteq thread' /\ Place[m] \in Channel
      /\ last' = last \/ (m \in thread /\ last' = [last EXCEPT ![Place[m]] = m])
      /\ UNCHANGED <<blocked, analise, queue, currentUser, listeners, asked, top>>
  BY MessageAssumption DEF AddElsewhere, DateElsewhere, DeleteElsewhere, Receive, server, chat
<1>2. QueueType'
  BY <1>1 DEF WriteInv, QueueType
<1>3. DatesKept'
  BY <1>1 DEF WriteInv, QueueType, DatesKept
<1>4. ReportIsFounded'
  BY <1>1 DEF WriteInv, ReportIsFounded
<1>5. ASSUME NEW u \in Writer PROVE Sound(thread', blocked', queue'[u]) /\ Founded(queue'[u])
  BY <1>1, SoundStays DEF WriteInv
<1> QED BY <1>2, <1>3, <1>4, <1>5 DEF WriteInv

\* The account changes while no chat is presented.
LEMMA SessionKeeps ==
  ASSUME WriteInv, NEW u \in Account, SignIn(u) \/ SignOut
  PROVE  WriteInv'
<1>1. /\ UNCHANGED <<thread, last, blocked, analise, queue, listeners, asked, top>>
      /\ currentUser' \in Writer /\ (top # NoScreen => currentUser = NoUser)
  BY DEF SignIn, SignOut, server, chat, Writer
<1>2. top = NoScreen
  BY <1>1, UserAssumption DEF WriteInv, QueueType
<1>3. QueueType' /\ DatesKept' /\ ReportIsFounded'
  BY <1>1, <1>2 DEF WriteInv, QueueType, DatesKept, ReportIsFounded
<1>4. ASSUME NEW v \in Writer PROVE Sound(thread', blocked', queue'[v]) /\ Founded(queue'[v])
  BY <1>1, SoundStays DEF WriteInv
<1> QED BY <1>3, <1>4 DEF WriteInv

LEMMA WritesNext == WriteInv /\ [Next]_vars => WriteInv'
<1> SUFFICES ASSUME WriteInv, [Next]_vars PROVE WriteInv'
  OBVIOUS
<1> USE DEF server, chat
<1>1. ASSUME NEW m \in Message, AddElsewhere(m) \/ DateElsewhere(m) \/ Receive(m) PROVE WriteInv'
  <2>1. Place[m] \in Channel
    BY MessageAssumption
  <2> QED BY <1>1, <2>1, ElsewhereKeeps
<1>2. ASSUME NEW c \in Channel, DeleteElsewhere(c) PROVE WriteInv'
  BY <1>2, WritesRest DEF DeleteElsewhere, WriteInv, QueueType
<1>3. ASSUME NEW m \in Message, Send(m) PROVE WriteInv'
  BY <1>3, SendKeeps
<1>4. ASSUME NEW u \in Account, SignIn(u) PROVE WriteInv'
  BY <1>4, SessionKeeps
<1>5. CASE SignOut
  BY <1>5, SessionKeeps DEF SignOut, WriteInv, QueueType, Writer
<1>6. CASE Relaunch
  BY <1>6, WritesRest DEF Relaunch
<1>7. CASE Commit
  BY <1>7, CommitKeeps
<1>8. CASE Dismiss
  BY <1>8, WritesRest DEF Dismiss, WriteInv, QueueType
<1>9. CASE ComplainAction
  <2>1. listeners[top] \in Channel /\ currentUser \in User
    BY <1>9, UserAssumption DEF ComplainAction, WriteInv, QueueType
  <2>2. asked' \subseteq [chan : Channel, by : User]
    BY <1>9, <2>1 DEF ComplainAction, WriteInv, QueueType
  <2> QED BY <1>9, <2>2, WritesRest DEF ComplainAction, WriteInv, QueueType
<1>10. ASSUME NEW s \in Screen, NEW c \in Channel, OpenChat(s, c) PROVE WriteInv'
  <2>1. currentUser \in Account
    BY <1>10, ChannelAssumption, UserAssumption DEF OpenChat, WriteInv, QueueType, Writer
  <2> QED BY <1>10, <2>1, WritesRest DEF OpenChat, WriteInv, QueueType
<1>11. ASSUME NEW s \in Screen, Snapshot(s) \/ SnapshotFails(s) PROVE WriteInv'
  BY <1>11, WritesRest DEF Snapshot, SnapshotFails, WriteInv, QueueType
<1>12. ASSUME NEW i \in DOMAIN rows, MessageForItem(i) PROVE WriteInv'
  BY <1>12, WritesRest DEF MessageForItem, WriteInv, QueueType
<1>13. ASSUME NEW q \in asked, CacheAnswers(q) \/ CacheMisses(q) \/ CacheTraps(q) PROVE WriteInv'
  BY <1>13, AnswerKeeps, WritesRest DEF CacheMisses, CacheTraps, WriteInv, QueueType
<1>14. CASE UNCHANGED vars
  BY <1>14, WritesRest DEF vars, WriteInv, QueueType
<1> QED BY <1>1, <1>2, <1>3, <1>4, <1>5, <1>6, <1>7, <1>8, <1>9, <1>10, <1>11, <1>12, <1>13, <1>14
        DEF Next

LEMMA WritesInit == Init => WriteInv
<1> SUFFICES ASSUME Init PROVE WriteInv
  OBVIOUS
<1>1. <<>> \in Seq(Write) /\ Len(<<>>) = 0
  OBVIOUS
<1>2. QueueType
  BY <1>1 DEF Init, QueueType, Writer
<1>3. \A u \in Writer : Sound(thread, blocked, queue[u]) /\ Founded(queue[u])
  BY <1>1 DEF Init, Sound, Founded
<1> QED BY <1>2, <1>3 DEF Init, WriteInv, DatesKept, ReportIsFounded

LEMMA WriteInvariant == Spec => []WriteInv
BY WritesInit, WritesNext, PTL DEF Spec

\* The date of a channel is that of a message the server has, however the
\* account changes, the process ends and another phone's dates come late.
THEOREM DateHasMessageAlways == Spec => []DateHasMessage
<1>1. WriteInv /\ live \subseteq Channel => DateHasMessage
  BY DEF WriteInv, DatesKept, DateHasMessage
<1>2. Init => live \subseteq Channel
  BY DEF Init
<1>3. live \subseteq Channel /\ [Next]_vars => (live \subseteq Channel)'
  <2> SUFFICES ASSUME live \subseteq Channel, [Next]_vars PROVE live' \subseteq live
    OBVIOUS
  <2> QED BY DEF Next, vars, server, AddElsewhere, DateElsewhere, DeleteElsewhere, SignIn, SignOut,
         Relaunch, Commit, Receive, OpenChat, Snapshot, SnapshotFails, MessageForItem, Send, Dismiss,
         ComplainAction, CacheAnswers, CacheMisses, CacheTraps
<1> QED BY <1>1, <1>2, <1>3, WriteInvariant, PTL DEF Spec

\* Whoever is under analysis is blocked both ways, and did not complain of
\* itself unless the account changed while the cache was read.
THEOREM ReportIsFoundedAlways == Spec => []ReportIsFounded
<1>1. WriteInv => ReportIsFounded
  BY DEF WriteInv
<1> QED BY <1>1, WriteInvariant, PTL

-----------------------------------------------------------------------------
(* The order of the dates: the rank of a message in a thread is the number *)
(* of those sent before it.                                                 *)

Rank(S, m) == Cardinality({n \in S : n < m})

LEMMA RankType ==
  ASSUME NEW S \in SUBSET Nat, IsFiniteSet(S), NEW m \in S
  PROVE  /\ Rank(S, m) \in Nat /\ Cardinality(S) \in Nat /\ Rank(S, m) < Cardinality(S)
         /\ IsFiniteSet({n \in S : n < m})
<1> DEFINE B == {n \in S : n < m}
<1>1. B \in SUBSET S /\ m \notin B /\ m \in S
  OBVIOUS
<1> HIDE DEF B
<1>2. /\ IsFiniteSet(B) /\ Cardinality(B) <= Cardinality(S)
      /\ Cardinality(B) = Cardinality(S) => B = S
  BY <1>1, FS_Subset
<1>3. Cardinality(B) \in Nat /\ Cardinality(S) \in Nat
  BY <1>2, FS_CardinalityType
<1>4. Cardinality(B) # Cardinality(S)
  BY <1>1, <1>2
<1>5. Cardinality(B) < Cardinality(S)
  BY <1>2, <1>3, <1>4
<1> QED BY <1>2, <1>3, <1>5 DEF Rank, B

LEMMA RankGrows ==
  ASSUME NEW S \in SUBSET Nat, IsFiniteSet(S), NEW m \in S, NEW n \in S, m < n
  PROVE  Rank(S, m) < Rank(S, n)
<1> DEFINE B == {k \in S : k < n}
           A == {k \in S : k < m}
<1>1. B \in SUBSET Nat /\ m \in B
  OBVIOUS
<1>a. A = {k \in B : k < m}
  <2>1. ASSUME NEW k \in S, k < m PROVE k < n
    <3>1. k \in Nat /\ m \in Nat /\ n \in Nat
      OBVIOUS
    <3> QED BY <2>1, <3>1
  <2> QED BY <2>1
<1>2. IsFiniteSet(B)
  BY RankType
<1> HIDE DEF A, B
<1>3. Rank(B, m) < Cardinality(B)
  BY <1>1, <1>2, RankType
<1>4. Rank(B, m) = Rank(S, m)
  BY <1>a DEF Rank, A
<1> QED BY <1>3, <1>4 DEF Rank, B

\* Every rank is taken.
LEMMA RankTaken ==
  ASSUME NEW S \in SUBSET Nat, IsFiniteSet(S), NEW p \in Nat, p < Cardinality(S)
  PROVE  \E m \in S : Rank(S, m) = p
<1> DEFINE n == Cardinality(S)
           P == 0..(n - 1)
           f == [m \in S |-> Rank(S, m)]
<1>1. n \in Nat
  BY FS_CardinalityType
<1>2. IsFiniteSet(P) /\ Cardinality(P) = n
  <2>1. n - 1 \in Int
    BY <1>1
  <2>2. IsFiniteSet(0..(n - 1)) /\ Cardinality(0..(n - 1)) = IF 0 > n - 1 THEN 0 ELSE (n - 1) - 0 + 1
    BY <2>1, FS_Interval
  <2> QED BY <1>1, <2>2
<1>3. f \in [S -> P]
  <2>1. ASSUME NEW m \in S PROVE Rank(S, m) \in P
    <3>1. Rank(S, m) \in Nat /\ Rank(S, m) < n
      BY RankType
    <3> QED BY <1>1, <3>1
  <2> QED BY <2>1
<1>4. ASSUME NEW m \in S, NEW k \in S, f[m] = f[k] PROVE m = k
  <2>1. m \in Nat /\ k \in Nat /\ Rank(S, m) = Rank(S, k) /\ Rank(S, m) \in Nat
    BY <1>4, RankType
  <2>2. ~(m < k) /\ ~(k < m)
    BY <2>1, RankGrows
  <2> QED BY <2>1, <2>2
<1> HIDE DEF f, P
<1>5. f \in Injection(S, P)
  BY <1>3, <1>4 DEF Injection, IsInjective
<1>6. f \in Surjection(S, P)
  BY <1>2, <1>5, FS_Injection
<1>7. p \in P
  BY <1>1 DEF P
<1>8. \E m \in S : f[m] = p
  BY <1>6, <1>7 DEF Surjection
<1> QED BY <1>8 DEF f

\* ByDate lists every message of a thread once, the earlier ones first.
LEMMA ByDateSorts ==
  ASSUME NEW S \in SUBSET Message
  PROVE  /\ ByDate(S) \in Seq(Message) /\ Range(ByDate(S)) = S
         /\ \A i, j \in 1..Len(ByDate(S)) : i < j => ByDate(S)[i] < ByDate(S)[j]
<1> DEFINE n == Cardinality(S)
           e(i) == CHOOSE m \in S : Rank(S, m) = i - 1
<1>1. S \in SUBSET Nat /\ IsFiniteSet(S) /\ n \in Nat
  BY MessageAssumption, FS_Subset, FS_CardinalityType
<1>2. \A i \in 1..n : e(i) \in S /\ Rank(S, e(i)) = i - 1
  <2> SUFFICES ASSUME NEW i \in 1..n PROVE \E m \in S : Rank(S, m) = i - 1
    OBVIOUS
  <2>1. i - 1 \in Nat /\ i - 1 < n
    BY <1>1
  <2> QED BY <1>1, <2>1, RankTaken
<1>3. ByDate(S) = [i \in 1..n |-> e(i)]
  BY DEF ByDate, Rank
<1> HIDE DEF n, e
<1> DEFINE q == ByDate(S)
<1>4. q \in [1..n -> S]
  BY <1>2, <1>3
<1>a. q \in [1..n -> Message]
  BY <1>4
<1>5. q \in Seq(Message) /\ Len(q) = n /\ DOMAIN q = 1..n
  <2> HIDE DEF q
  <2> QED BY <1>1, <1>a
<1>6. \A i \in 1..n : q[i] \in S /\ Rank(S, q[i]) = i - 1
  BY <1>2, <1>3
<1> HIDE DEF q
<1>7. ASSUME NEW i \in 1..n, NEW j \in 1..n, i < j PROVE q[i] < q[j]
  <2>0. q[i] \in S /\ q[j] \in S /\ Rank(S, q[i]) = i - 1 /\ Rank(S, q[j]) = j - 1
    BY <1>6
  <2>1. q[i] \in Nat /\ q[j] \in Nat /\ Rank(S, q[i]) < Rank(S, q[j])
    <3>1. q[i] \in Nat /\ q[j] \in Nat
      BY <1>1, <2>0
    <3>2. i \in Nat /\ j \in Nat
      BY <1>1
    <3>3. i - 1 < j - 1
      BY <1>7, <3>2
    <3> QED BY <2>0, <3>1, <3>3
  <2>2. q[i] # q[j]
    BY <1>1, <1>7, <2>0
  <2>3. ~(q[j] < q[i])
    <3>1. q[j] < q[i] => Rank(S, q[j]) < Rank(S, q[i])
      BY <1>1, <1>6, RankGrows
    <3>2. Rank(S, q[i]) \in Nat /\ Rank(S, q[j]) \in Nat
      BY <1>1, <1>6, RankType
    <3> QED BY <2>1, <3>1, <3>2
  <2> QED BY <2>1, <2>2, <2>3
<1>8. ASSUME NEW m \in S PROVE \E i \in 1..n : q[i] = m
  <2>1. Rank(S, m) \in Nat /\ Rank(S, m) < n
    BY <1>1, RankType DEF n
  <2>2. Rank(S, m) + 1 \in 1..n
    BY <1>1, <2>1
  <2> DEFINE k == q[Rank(S, m) + 1]
  <2>3. k \in S /\ Rank(S, k) = Rank(S, m)
    BY <1>6, <2>1, <2>2
  <2> HIDE DEF k
  <2>4. ~(k < m) /\ ~(m < k)
    BY <1>1, <2>1, <2>3, RankGrows
  <2>5. k = m
    BY <1>1, <2>3, <2>4
  <2> QED BY <2>2, <2>5 DEF k
<1>9. Range(q) = S
  BY <1>5, <1>6, <1>8 DEF Range
<1> QED BY <1>5, <1>7, <1>9 DEF q

-----------------------------------------------------------------------------
(* What a chat shows *)

Queued(q) == {m \in Message : \E i \in DOMAIN q : q[i] = [op |-> "add", of |-> m]}
View(k, q, c) == {m \in k \union Queued(q) : Place[m] = c}

StateType ==
  /\ live \subseteq Channel /\ known \subseteq thread /\ thread \subseteq Message
  /\ blocked \subseteq User \X User /\ analise \subseteq Report
  /\ due \subseteq {s \in Screen : listeners[s] # NoChannel}
  /\ messages \in Seq(Message) /\ rows \in Seq(Message)
  /\ top \in Screen \union {NoScreen}
  /\ complaints \in 0..MaxComplaint /\ crashed \in BOOLEAN

\* Whatever changes a thread that is shown gives the screen on top a snapshot to
\* handle; an earlier listener of the same conversation writes what is there.
Shown ==
  Lone /\ top \notin due =>
    /\ rows = messages
    /\ messages = ByDate(View(known, queue[currentUser], listeners[top]))

ChatInv == WriteInv /\ StateType /\ Shown

LEMMA ThreadViewIs == \A c : ThreadView(c) = View(known, queue[currentUser], c)
BY DEF ThreadView, View, Added, Queued

LEMMA ViewType ==
  ASSUME NEW k \in SUBSET Message, NEW q, NEW c
  PROVE  View(k, q, c) \in SUBSET Message
BY DEF View, Queued

\* The head of a queue that goes out stays in the view.
LEMMA ViewAfterHead ==
  ASSUME NEW k, NEW q \in Seq(Write), q # <<>>, NEW c, NEW k2,
         \/ Head(q).op = "add" /\ k2 = k \union {Head(q).of}
         \/ Head(q).op # "add" /\ k2 = k
  PROVE  View(k2, Tail(q), c) = View(k, q, c)
<1> DEFINE w == Head(q)
           t == Tail(q)
<1>1. /\ t \in Seq(Write) /\ Len(q) \in Nat /\ Len(q) >= 1 /\ Len(t) = Len(q) - 1 /\ q[1] = w
      /\ DOMAIN q = 1..Len(q) /\ DOMAIN t = 1..Len(t) /\ w \in Write
      /\ \A i \in 1..Len(t) : i + 1 \in 1..Len(q) /\ t[i] = q[i + 1]
  OBVIOUS
<1>2. \/ w.op = "add" /\ k2 = k \union {w.of}
      \/ w.op # "add" /\ k2 = k
  OBVIOUS
<1> HIDE DEF w, t
<1>3. w = [op |-> w.op, of |-> w.of] /\ (w.op = "add" => w.of \in Message)
  BY <1>1, WriteKinds
<1>4. ASSUME NEW m \in Message, NEW i \in DOMAIN t, t[i] = [op |-> "add", of |-> m]
      PROVE  m \in Queued(q)
  BY <1>1, <1>4 DEF Queued
<1>5. ASSUME NEW m \in Message, NEW i \in DOMAIN q, q[i] = [op |-> "add", of |-> m]
      PROVE  m \in Queued(t) \/ w = [op |-> "add", of |-> m]
  <2>1. CASE i = 1
    BY <1>1, <1>5, <2>1
  <2>2. CASE i # 1
    <3>1. i - 1 \in DOMAIN t /\ (i - 1) + 1 = i
      BY <1>1, <2>2
    <3>2. t[i - 1] = [op |-> "add", of |-> m]
      BY <1>1, <1>5, <3>1
    <3> QED BY <3>1, <3>2 DEF Queued
  <2> QED BY <2>1, <2>2
<1>6. Queued(t) \subseteq Queued(q)
  BY <1>4 DEF Queued
<1>7. \A m \in Queued(q) : m \in Queued(t) \/ w = [op |-> "add", of |-> m]
  BY <1>5 DEF Queued
<1>8. w.op = "add" => w.of \in Queued(q)
  BY <1>1, <1>2, <1>3 DEF Queued
<1>9. k2 \union Queued(t) = k \union Queued(q)
  <2>1. CASE w.op = "add"
    <3>1. \A m \in Queued(q) : m \in Queued(t) \/ m = w.of
      BY <1>7
    <3> QED BY <1>2, <1>6, <1>8, <2>1, <3>1
  <2>2. CASE w.op # "add"
    <3>1. \A m \in Queued(q) : m \in Queued(t)
      BY <1>7, <2>2
    <3> QED BY <1>2, <1>6, <2>2, <3>1
  <2> QED BY <2>1, <2>2
<1> QED BY <1>9 DEF View, t

\* A complaint leaves the view.
LEMMA ViewWithout ==
  ASSUME NEW k, NEW q \in Seq(Write), NEW v \in Seq(Write), NEW c,
         \A i \in 1..Len(v) : v[i].op # "add"
  PROVE  View(k, q \o v, c) = View(k, q, c)
<1>1. /\ q \o v \in Seq(Write) /\ Len(q \o v) = Len(q) + Len(v) /\ Len(q) \in Nat /\ Len(v) \in Nat
      /\ DOMAIN (q \o v) = 1..Len(q \o v) /\ DOMAIN q = 1..Len(q)
      /\ \A i \in 1..Len(q) : i \in 1..Len(q \o v) /\ (q \o v)[i] = q[i]
      /\ \A i \in 1..Len(q \o v) : i > Len(q) => i - Len(q) \in 1..Len(v) /\ (q \o v)[i] = v[i - Len(q)]
  OBVIOUS
<1> DEFINE t == q \o v
<1> HIDE DEF t
<1>2. ASSUME NEW m \in Message, NEW i \in DOMAIN t, t[i] = [op |-> "add", of |-> m]
      PROVE  m \in Queued(q)
  <2>1. i <= Len(q)
    <3>1. i > Len(q) => t[i].op # "add"
      BY <1>1 DEF t
    <3> QED BY <1>1, <1>2, <3>1 DEF t
  <2> QED BY <1>1, <1>2, <2>1 DEF t, Queued
<1>3. ASSUME NEW m \in Message, NEW i \in DOMAIN q, q[i] = [op |-> "add", of |-> m]
      PROVE  m \in Queued(t)
  BY <1>1, <1>3 DEF t, Queued
<1>4. Queued(t) = Queued(q)
  BY <1>2, <1>3 DEF Queued
<1> QED BY <1>4 DEF View, t

\* A step that leaves the screen on top as it is, and its view unless its
\* listener has a snapshot to handle.
LEMMA ShownRests ==
  ASSUME Shown, UNCHANGED <<top, listeners, messages, rows>>, due \subseteq due',
         top \in due' \/ View(known', queue'[currentUser'], listeners[top])
                         = View(known, queue[currentUser], listeners[top])
  PROVE  Shown'
BY DEF Shown, Lone

LEMMA ShownSend ==
  ASSUME ChatInv, NEW m \in Message, Send(m)
  PROVE  Shown'
<1>1. top \in Screen /\ top \in due'
  BY DEF Send, Listening, ChatInv, WriteInv, QueueType
<1> QED BY <1>1 DEF Send, chat, Shown

LEMMA ShownReceive ==
  ASSUME ChatInv, NEW m \in Message, Receive(m)
  PROVE  Shown'
<1>1. /\ UNCHANGED <<top, listeners, messages, rows, queue, currentUser>>
      /\ due' = due \union Listening(Place[m]) /\ known' = known \union {m}
  BY DEF Receive, chat
<1>2. CASE top = NoScreen
  BY <1>1, <1>2 DEF Shown, Lone
<1>3. CASE top # NoScreen
  <2>1. top \in Screen
    BY <1>3 DEF ChatInv, StateType
  <2>2. CASE listeners[top] = Place[m]
    BY <1>1, <2>1, <2>2 DEF Listening, Shown
  <2>3. CASE listeners[top] # Place[m]
    <3>1. View(known', queue'[currentUser'], listeners[top]) = View(known, queue[currentUser], listeners[top])
      BY <1>1, <2>3 DEF View
    <3> QED BY <1>1, <3>1, ShownRests DEF ChatInv
  <2> QED BY <2>2, <2>3
<1> QED BY <1>2, <1>3

LEMMA ShownCommit ==
  ASSUME ChatInv, Commit
  PROVE  Shown'
<1> DEFINE q == queue[currentUser]
           w == Head(q)
<1>1. q \in Seq(Write) /\ q # <<>> /\ currentUser \in Writer
  BY DEF Commit, ChatInv, WriteInv, QueueType
<1>2. /\ queue' = [queue EXCEPT ![currentUser] = Tail(q)]
      /\ UNCHANGED <<currentUser, top, listeners, messages, rows, due>>
      /\ \/ w.op = "add" /\ known' = known \union {w.of}
         \/ w.op # "add" /\ known' = known
  BY DEF Commit, chat
<1>3. queue'[currentUser'] = Tail(q)
  BY <1>1, <1>2 DEF ChatInv, WriteInv, QueueType
<1>4. \/ Head(q).op = "add" /\ known' = known \union {Head(q).of}
      \/ Head(q).op # "add" /\ known' = known
  BY <1>2
<1> HIDE DEF q, w
<1>5. View(known', Tail(q), listeners[top]) = View(known, q, listeners[top])
  BY <1>1, <1>4, ViewAfterHead
<1>6. View(known', queue'[currentUser'], listeners[top]) = View(known, queue[currentUser], listeners[top])
  BY <1>3, <1>5 DEF q
<1> QED BY <1>2, <1>6, ShownRests DEF ChatInv

LEMMA ShownAnswer ==
  ASSUME ChatInv, NEW r \in asked, CacheAnswers(r)
  PROVE  Shown'
<1> DEFINE q == queue[currentUser]
           w3 == [op |-> "report", of |-> [who |-> Reported(r.chan), by |-> r.by, chan |-> r.chan,
                                            steady |-> currentUser = r.by]]
           v == BlocksOf(r.chan) \o <<w3>>
<1>1. q \in Seq(Write) /\ currentUser \in Writer
  BY DEF ChatInv, WriteInv, QueueType
<1>2. /\ queue' = [queue EXCEPT ![currentUser] = q \o v]
      /\ UNCHANGED <<known, currentUser, top, listeners, messages, rows, due>>
  BY DEF CacheAnswers, Enqueue, server, chat
<1>3. v \in Seq(Write) /\ Len(v) = 3 /\ \A i \in 1..3 : v[i].op # "add"
  <2> DEFINE b1 == [op |-> "block", of |-> <<r.chan.first, r.chan.second>>]
             b2 == [op |-> "block", of |-> <<r.chan.second, r.chan.first>>]
  <2>1. r.chan \in Channel /\ r.by \in User
    BY DEF ChatInv, WriteInv, QueueType
  <2>2. {r.chan.first, r.chan.second} \subseteq User
    BY <2>1, ChannelAssumption
  <2>3. b1 \in Write /\ b2 \in Write /\ w3 \in Write
    BY <2>1, <2>2 DEF Write, Report, Reported
  <2>4. b1.op # "add" /\ b2.op # "add" /\ w3.op # "add" /\ v = <<b1, b2>> \o <<w3>>
    BY DEF BlocksOf
  <2> HIDE DEF b1, b2, w3, v
  <2>5. <<b1, b2>> \in Seq(Write) /\ <<w3>> \in Seq(Write)
    BY <2>3
  <2>6. v \in Seq(Write) /\ Len(v) = 3 /\ v[1] = b1 /\ v[2] = b2 /\ v[3] = w3
    BY <2>4, <2>5
  <2> QED BY <2>4, <2>6
<1> HIDE DEF v, q
<1>4. View(known, q \o v, listeners[top]) = View(known, q, listeners[top])
  BY <1>1, <1>3, ViewWithout
<1>5. queue'[currentUser'] = q \o v
  BY <1>1, <1>2 DEF ChatInv, WriteInv, QueueType
<1>6. View(known', queue'[currentUser'], listeners[top]) = View(known, queue[currentUser], listeners[top])
  BY <1>2, <1>4, <1>5 DEF q
<1> QED BY <1>2, <1>6, ShownRests DEF ChatInv

LEMMA ShownSnapshot ==
  ASSUME ChatInv, NEW s \in Screen, Snapshot(s)
  PROVE  Shown'
<1> SUFFICES ASSUME Lone', top' \notin due'
             PROVE  rows' = messages' /\ messages' = ByDate(View(known', queue'[currentUser'], listeners'[top']))
  BY DEF Shown
<1>1. /\ UNCHANGED <<known, queue, currentUser, listeners, top>>
      /\ s \in due /\ due' = due \ {s}
      /\ messages' = ByDate(View(known, queue[currentUser], listeners[s]))
      /\ rows' = IF top = s THEN messages' ELSE rows
  BY ThreadViewIs DEF Snapshot, server
<1>2. listeners[s] = listeners[top] /\ top # NoScreen
  BY <1>1 DEF Lone, ChatInv, StateType
<1>3. CASE top # s
  BY <1>1, <1>2, <1>3 DEF ChatInv, Shown, Lone
<1>4. CASE top = s
  BY <1>1, <1>4
<1> QED BY <1>3, <1>4

\* A row that scrolls into sight reads the array anew.
LEMMA ShownItem ==
  ASSUME ChatInv, NEW i \in DOMAIN rows, MessageForItem(i)
  PROVE  Shown' /\ rows' \in Seq(Message)
<1>1. UNCHANGED <<known, queue, currentUser, listeners, due, messages, top>>
  BY DEF MessageForItem, server
<1>2. rows \in Seq(Message) /\ messages \in Seq(Message) /\ i \in 1..Len(rows)
  BY DEF ChatInv, StateType
<1>3. CASE i > Len(messages)
  BY <1>1, <1>2, <1>3 DEF MessageForItem, ChatInv, Shown, Lone
<1>4. CASE ~(i > Len(messages))
  <2>1. rows' = [rows EXCEPT ![i] = messages[i]]
    BY <1>4 DEF MessageForItem
  <2>2. i \in 1..Len(messages)
    BY <1>2, <1>4
  <2>3. rows' \in Seq(Message)
    BY <1>2, <2>1, <2>2
  <2>4. rows = messages => rows' = messages
    BY <1>2, <2>1
  <2>5. Shown'
    BY <1>1, <2>4 DEF ChatInv, Shown, Lone
  <2> QED BY <2>3, <2>5
<1> QED BY <1>3, <1>4

LEMMA ShownNext == ChatInv /\ [Next]_vars => Shown'
<1> SUFFICES ASSUME ChatInv, [Next]_vars PROVE Shown'
  OBVIOUS
<1> USE DEF server, chat
<1>1. ASSUME NEW m \in Message, AddElsewhere(m) \/ DateElsewhere(m) PROVE Shown'
  BY <1>1, ShownRests DEF AddElsewhere, DateElsewhere, ChatInv
<1>2. ASSUME NEW c \in Channel, DeleteElsewhere(c) PROVE Shown'
  BY <1>2, ShownRests DEF DeleteElsewhere, ChatInv
<1>3. ASSUME NEW m \in Message, Send(m) PROVE Shown'
  BY <1>3, ShownSend
<1>4. ASSUME NEW m \in Message, Receive(m) PROVE Shown'
  BY <1>4, ShownReceive
<1>5. ASSUME NEW u \in Account, SignIn(u) PROVE Shown'
  <2>1. top = NoScreen
    BY <1>5, UserAssumption DEF SignIn, ChatInv, WriteInv, QueueType
  <2> QED BY <1>5, <2>1 DEF SignIn, Shown, Lone
<1>6. CASE SignOut \/ Relaunch \/ Dismiss \/ ComplainAction
  BY <1>6 DEF SignOut, Relaunch, Dismiss, ComplainAction, Shown, Lone
<1>7. CASE Commit
  BY <1>7, ShownCommit
<1>8. ASSUME NEW s \in Screen, NEW c \in Channel, OpenChat(s, c) PROVE Shown'
  BY <1>8 DEF OpenChat, Shown
<1>9. ASSUME NEW s \in Screen, Snapshot(s) PROVE Shown'
  BY <1>9, ShownSnapshot
<1>10. ASSUME NEW s \in Screen, SnapshotFails(s) PROVE Shown'
  BY <1>10, ShownRests DEF SnapshotFails, ChatInv
<1>11. ASSUME NEW i \in DOMAIN rows, MessageForItem(i) PROVE Shown'
  BY <1>11, ShownItem
<1>12. ASSUME NEW q \in asked, CacheAnswers(q) PROVE Shown'
  BY <1>12, ShownAnswer
<1>13. ASSUME NEW q \in asked, CacheMisses(q) \/ CacheTraps(q) PROVE Shown'
  BY <1>13, ShownRests DEF CacheMisses, CacheTraps, ChatInv
<1>14. CASE UNCHANGED vars
  BY <1>14, ShownRests DEF vars, ChatInv
<1> QED BY <1>1, <1>2, <1>3, <1>4, <1>5, <1>6, <1>7, <1>8, <1>9, <1>10, <1>11, <1>12, <1>13, <1>14
        DEF Next

LEMMA CommitTypes ==
  ASSUME ChatInv, Commit
  PROVE  StateType'
<1> DEFINE q == queue[currentUser]
           w == Head(q)
<1>1. q \in Seq(Write) /\ q # <<>>
  BY DEF Commit, ChatInv, WriteInv, QueueType
<1>2. /\ UNCHANGED <<live, due, listeners, messages, rows, top, complaints, crashed>>
      /\ \/ /\ w.op = "add" /\ thread' = thread \union {w.of} /\ known' = known \union {w.of}
            /\ UNCHANGED <<blocked, analise>>
         \/ w.op = "date" /\ UNCHANGED <<thread, known, blocked, analise>>
         \/ /\ w.op = "block" /\ blocked' = blocked \union {w.of}
            /\ UNCHANGED <<thread, known, analise>>
         \/ /\ w.op = "report" /\ analise' = analise \union {w.of}
            /\ UNCHANGED <<thread, known, blocked>>
  BY DEF Commit, chat
<1> HIDE DEF q
<1>3. w \in Write
  BY <1>1
<1> HIDE DEF w
<1>4. /\ w.op \in {"add", "date"} => w.of \in Message
      /\ w.op = "block" => w.of \in User \X User
      /\ w.op = "report" => w.of \in Report
  BY <1>3, WriteKinds
<1> QED BY <1>2, <1>4 DEF ChatInv, StateType

LEMMA TypesNext == ChatInv /\ [Next]_vars => StateType'
<1> SUFFICES ASSUME ChatInv, [Next]_vars PROVE StateType'
  OBVIOUS
<1> USE DEF server, chat, ChatInv
<1>1. ASSUME NEW m \in Message, AddElsewhere(m) \/ DateElsewhere(m) \/ Send(m) \/ Receive(m)
      PROVE  StateType'
  <2>1. \A s \in Listening(Place[m]) : s \in Screen /\ listeners[s] # NoChannel
    BY MessageAssumption, BoundAssumption DEF Listening
  <2> QED BY <1>1, <2>1 DEF AddElsewhere, DateElsewhere, Send, Receive, StateType
<1>2. ASSUME NEW c \in Channel, DeleteElsewhere(c) PROVE StateType'
  BY <1>2 DEF DeleteElsewhere, StateType
<1>3. ASSUME NEW u \in Account, SignIn(u) PROVE StateType'
  BY <1>3 DEF SignIn, StateType
<1>4. CASE SignOut
  BY <1>4 DEF SignOut, StateType
<1>5. CASE Relaunch
  <2>1. <<>> \in Seq(Message) /\ messages' = <<>> /\ rows' = <<>>
    BY <1>5 DEF Relaunch
  <2>2. due' = {} /\ crashed' = FALSE /\ top' = NoScreen
    BY <1>5 DEF Relaunch
  <2>3. messages' \in Seq(Message) /\ rows' \in Seq(Message)
    BY <2>1
  <2> QED BY <1>5, <2>2, <2>3 DEF Relaunch, StateType
<1>6. CASE Commit
  BY <1>6, CommitTypes
<1>7. CASE Dismiss
  BY <1>7 DEF Dismiss, StateType
<1>8. CASE ComplainAction
  BY <1>8, BoundAssumption DEF ComplainAction, StateType
<1>9. ASSUME NEW s \in Screen, NEW c \in Channel, OpenChat(s, c) PROVE StateType'
  <2>1. c # NoChannel /\ listeners' = [listeners EXCEPT ![s] = c] /\ due' = due \union {s}
    BY <1>9, BoundAssumption DEF OpenChat
  <2>2. due' \subseteq {x \in Screen : listeners'[x] # NoChannel}
    BY <2>1 DEF StateType, WriteInv, QueueType
  <2> QED BY <1>9, <2>2 DEF OpenChat, StateType
<1>10. ASSUME NEW s \in Screen, Snapshot(s) PROVE StateType'
  <2>1. messages' = ByDate(ThreadView(listeners[s]))
    BY <1>10 DEF Snapshot
  <2>2. ThreadView(listeners[s]) \in SUBSET Message
    BY DEF StateType, ThreadView, Added
  <2>3. messages' \in Seq(Message)
    BY <2>1, <2>2, ByDateSorts
  <2> QED BY <1>10, <2>3 DEF Snapshot, StateType
<1>11. ASSUME NEW s \in Screen, SnapshotFails(s) PROVE StateType'
  BY <1>11 DEF SnapshotFails, StateType
<1>12. ASSUME NEW i \in DOMAIN rows, MessageForItem(i) PROVE StateType'
  <2>1. rows' \in Seq(Message)
    BY <1>12, ShownItem
  <2> QED BY <1>12, <2>1 DEF MessageForItem, StateType
<1>13. ASSUME NEW q \in asked, CacheAnswers(q) \/ CacheMisses(q) \/ CacheTraps(q) PROVE StateType'
  BY <1>13 DEF CacheAnswers, CacheMisses, CacheTraps, StateType
<1>14. CASE UNCHANGED vars
  BY <1>14 DEF vars, StateType
<1> QED BY <1>1, <1>2, <1>3, <1>4, <1>5, <1>6, <1>7, <1>8, <1>9, <1>10, <1>11, <1>12, <1>13, <1>14
        DEF Next

LEMMA ChatInit == Init => ChatInv
<1> SUFFICES ASSUME Init PROVE ChatInv
  OBVIOUS
<1>1. StateType
  <2>1. <<>> \in Seq(Message) /\ messages = <<>> /\ rows = <<>>
    BY DEF Init
  <2>2. messages \in Seq(Message) /\ rows \in Seq(Message) /\ 0 \in 0..MaxComplaint
    BY <2>1, BoundAssumption
  <2> QED BY <2>2 DEF Init, StateType
<1>2. Shown
  BY DEF Init, Shown, Lone
<1> QED BY <1>1, <1>2, WritesInit DEF ChatInv

LEMMA ChatInvariant == Spec => []ChatInv
<1>1. ChatInv /\ [Next]_vars => ChatInv'
  BY WritesNext, TypesNext, ShownNext DEF ChatInv
<1> QED BY <1>1, ChatInit, PTL DEF Spec

\* Every variable of the phone and of the server keeps its type: the queues hold
\* writes of messages, blocks and complaints, the array and the rows hold
\* messages, and only listeners have snapshots to handle.
THEOREM TypeCorrect == Spec => []TypeOK
<1>1. ChatInv => TypeOK
  <2> SUFFICES ASSUME ChatInv PROVE TypeOK
    OBVIOUS
  <2>1. DOMAIN queue = Writer /\ \A u \in Writer : Range(queue[u]) \subseteq Write
    BY DEF ChatInv, WriteInv, QueueType, Range
  <2>2. Range(messages) \subseteq Message /\ Range(rows) \subseteq Message
    BY DEF ChatInv, StateType, Range
  <2>3. top # NoScreen => listeners[top] # NoChannel
    BY BoundAssumption DEF ChatInv, WriteInv, QueueType
  <2> QED BY <2>1, <2>2, <2>3 DEF TypeOK, ChatInv, StateType, WriteInv, QueueType
<1> QED BY <1>1, ChatInvariant, PTL

\* A chat beside which no other conversation was opened since the launch shows,
\* with no snapshot on its way, its thread in the order of the dates: whatever
\* its earlier listeners wrote, and whatever was sent, queued, received,
\* acknowledged or redrawn meanwhile.
THEOREM ShowsItsThreadAlways == Spec => []ShowsItsThread
<1>1. ChatInv => ShowsItsThread
  BY ThreadViewIs DEF ChatInv, Shown, ShowsItsThread
<1> QED BY <1>1, ChatInvariant, PTL

=============================================================================
