------------------------ MODULE ChannelsManagerProofs ------------------------
(***************************************************************************)
(* Theorems about ChannelsManager and about the conversations screen that  *)
(* drives it (Messages), for every set of users, accounts, channels and    *)
(* loads.  The screen's behaviours are shown to be behaviours of the       *)
(* manager, so that what is proved of the manager holds under it.          *)
(***************************************************************************)
EXTENDS Messages, FiniteSetTheorems, TLAPS

\* What an answer appends to channels is a sequence of the documents kept,
\* none twice (the loop of loadChannels).
LEMMA OrdersAreSequences ==
  ASSUME NEW S, S \subseteq Channel, NEW s \in Orders(S)
  PROVE  s \in Seq(Channel) /\ IsInjective(s) /\ Range(s) \subseteq S
<1>1. Cardinality(S) \in Nat
  BY ChannelAssumption, FS_Subset, FS_CardinalityType
<1>2. s \in [1..Cardinality(S) -> S] /\ IsInjective(s)
  BY DEF Orders
<1>3. s \in Seq(Channel)
  BY <1>1, <1>2
<1> QED BY <1>2, <1>3 DEF Range

LEMMA IdleLoadType == IdleLoad \in LoadState
BY DEF IdleLoad, LoadState, Stage

\* The range of a concatenation.
LEMMA RangeOfConcat ==
  ASSUME NEW s \in Seq(Channel), NEW t \in Seq(Channel)
  PROVE  Range(s \o t) = Range(s) \union Range(t)
<1>1. DOMAIN s = 1..Len(s) /\ DOMAIN t = 1..Len(t)
  OBVIOUS
<1>2. DOMAIN (s \o t) = 1..(Len(s) + Len(t))
  OBVIOUS
<1>3. ASSUME NEW x \in Range(s \o t) PROVE x \in Range(s) \union Range(t)
  <2>1. PICK i \in 1..(Len(s) + Len(t)) : x = (s \o t)[i]
    BY <1>2, <1>3 DEF Range
  <2>2. CASE i <= Len(s)
    BY <1>1, <2>1, <2>2 DEF Range
  <2>3. CASE i > Len(s)
    <3>1. i - Len(s) \in 1..Len(t) /\ x = t[i - Len(s)]
      BY <2>1, <2>3
    <3> QED BY <1>1, <3>1 DEF Range
  <2> QED BY <2>2, <2>3
<1>4. ASSUME NEW x \in Range(s) PROVE x \in Range(s \o t)
  <2>1. PICK i \in 1..Len(s) : x = s[i]
    BY <1>1, <1>4 DEF Range
  <2>2. i \in 1..(Len(s) + Len(t)) /\ x = (s \o t)[i]
    BY <2>1
  <2> QED BY <1>2, <2>2 DEF Range
<1>5. ASSUME NEW x \in Range(t) PROVE x \in Range(s \o t)
  <2>1. PICK i \in 1..Len(t) : x = t[i]
    BY <1>1, <1>5 DEF Range
  <2>2. Len(s) + i \in 1..(Len(s) + Len(t)) /\ x = (s \o t)[Len(s) + i]
    BY <2>1
  <2> QED BY <1>2, <2>2 DEF Range
<1> QED BY <1>3, <1>4, <1>5

-----------------------------------------------------------------------------
(* Types *)

LEMMA TypeInit == Init => TypeOK
<1> SUFFICES ASSUME Init PROVE TypeOK
  OBVIOUS
<1>1. loads \in [Load -> LoadState]
  BY IdleLoadType DEF Init
<1>2. channels \in Seq(Channel)
  BY DEF Init
<1>4. crashed \in BOOLEAN
  BY DEF Init
<1>3. /\ blocked \subseteq Account \X User /\ profile \subseteq User
      /\ live \subseteq Channel /\ gone \subseteq Channel /\ queue \subseteq Mutation
      /\ currentUser \in Account \union {NoUser} /\ seen \subseteq Account
      /\ block \subseteq User
  BY UserAssumption DEF Init
<1> QED BY <1>1, <1>2, <1>3, <1>4 DEF TypeOK

LEMMA LeaveType ==
  ASSUME TypeOK, NEW l \in Load, NEW n \in Nat, NEW failure \in BOOLEAN,
         loads[l].seconds > 0, Leave(l, n, failure)
  PROVE  TypeOK'
<1>1. CASE loads[l].count >= n
  <2> DEFINE s == [loads[l] EXCEPT !.count = @ - n, !.seconds = @ - 1, !.failed = @ \/ failure]
  <2>1. s \in LoadState
    <3>1. loads[l] \in LoadState
      BY DEF TypeOK
    <3>2. loads[l].count - n \in Nat /\ loads[l].seconds - 1 \in Nat
      BY <1>1, <3>1 DEF LoadState
    <3>3. (loads[l].failed \/ failure) \in BOOLEAN
      OBVIOUS
    <3> QED BY <3>1, <3>2, <3>3, Zenon DEF LoadState
  <2>2. loads' = [loads EXCEPT ![l] = s] /\ UNCHANGED crashed
    BY <1>1 DEF Leave
  <2> QED BY <2>1, <2>2 DEF Leave, TypeOK, lists, server
<1>2. CASE ~(loads[l].count >= n)
  BY <1>2 DEF Leave, TypeOK, lists, server
<1> QED BY <1>1, <1>2

\* Every step keeps the types, action by action.
LEMMA TypeNext == TypeOK /\ [Next]_vars => TypeOK'
<1> SUFFICES ASSUME TypeOK, [Next]_vars PROVE TypeOK'
  OBVIOUS
<1> USE DEF TypeOK
<1>1. ASSUME World PROVE TypeOK'
  <2>1. ASSUME NEW u \in User, SaveProfile(u) PROVE TypeOK'
    BY <2>1 DEF SaveProfile, lists
  <2>2. ASSUME NEW u \in User, NEW v \in User, Block(u, v) PROVE TypeOK'
    BY <2>2 DEF Block, lists
  <2>3. ASSUME NEW c \in Channel, CreateElsewhere(c) PROVE TypeOK'
    BY <2>3 DEF CreateElsewhere, lists
  <2>4. ASSUME NEW c \in Channel, DeleteElsewhere(c) PROVE TypeOK'
    BY <2>4 DEF DeleteElsewhere, lists
  <2>5. ASSUME NEW c \in Channel, CreateChannel(c) PROVE TypeOK'
    BY <2>5, ChannelAssumption, UserAssumption DEF CreateChannel, lists, server, Mutation
  <2>6. ASSUME NEW m \in queue, Commit(m) PROVE TypeOK'
    BY <2>6 DEF Commit, lists, Mutation
  <2>7. ASSUME NEW u \in Account, SignIn(u) PROVE TypeOK'
    BY <2>7 DEF SignIn, lists, server
  <2>8. ASSUME SignOut PROVE TypeOK'
    BY <2>8 DEF SignOut, lists, server
  <2>9. ASSUME Relaunch PROVE TypeOK'
    <3>1. loads' \in [Load -> LoadState]
      BY <2>9, IdleLoadType DEF Relaunch
    <3>2. channels' \in Seq(Channel)
      BY <2>9 DEF Relaunch
    <3>3. crashed' \in BOOLEAN
      BY <2>9 DEF Relaunch
    <3> QED BY <2>9, <3>1, <3>2, <3>3 DEF Relaunch, server
  <2>10. ASSUME Trap PROVE TypeOK'
    BY <2>10 DEF Trap, lists, server
  <2> QED BY <1>1, <2>1, <2>2, <2>3, <2>4, <2>5, <2>6, <2>7, <2>8, <2>9, <2>10 DEF World
<1>2. ASSUME NEW l \in Load, PreLoad(l) \/ Answer(l) PROVE TypeOK'
  <2>1. CASE PreLoad(l)
    BY <2>1, IdleLoadType, UserAssumption DEF PreLoad, server, LoadState, Stage
  <2>2. ASSUME NEW docs \in SUBSET User, BlocksArrive(l, docs) PROVE TypeOK'
    <3>1. loads' \in [Load -> LoadState]
      <4>1. loads' = [loads EXCEPT ![l] = [loads[l] EXCEPT !.stage = "list", !.got = docs]]
        BY <2>2 DEF BlocksArrive
      <4>2. [loads[l] EXCEPT !.stage = "list", !.got = docs] \in LoadState
        BY DEF LoadState, Stage
      <4> QED BY <4>1, <4>2
    <3>2. channels' \in Seq(Channel)
      BY <2>2 DEF BlocksArrive
    <3> QED BY <2>2, <3>1, <3>2 DEF BlocksArrive, server
  <2>3. CASE BlocksFail(l)
    BY <2>3, IdleLoadType DEF BlocksFail, Finish, lists, server
  <2>4. ASSUME NEW docs \in SUBSET Visible(currentUser),
               NEW listing \in Orders(Kept(docs)), ListArrives(l, docs, listing)
        PROVE  TypeOK'
    <3>1. Kept(docs) \subseteq Channel /\ Rejected(docs) \subseteq Channel
      BY DEF Visible, Ever, Queued, Kept, Rejected
    <3>2. listing \in Seq(Channel)
      BY <3>1, OrdersAreSequences
    <3>3. channels' \in Seq(Channel)
      BY <2>4, <3>2 DEF ListArrives
    <3>4. Range(channels') \subseteq Channel /\ Len(channels') \in Nat
      BY <3>3 DEF Range
    <3>5. loads' \in [Load -> LoadState]
      <4> DEFINE n == Len(channels')
                 g == Range(channels')
      <4>1. loads' = [loads EXCEPT ![l] =
                        [loads[l] EXCEPT !.stage = "names", !.group = g, !.firsts = n, !.count = n]]
        BY <2>4 DEF ListArrives
      <4>2. n \in Nat /\ g \in SUBSET Channel
        BY <3>4
      <4> HIDE DEF n, g
      <4>3. [loads[l] EXCEPT !.stage = "names", !.group = g, !.firsts = n, !.count = n] \in LoadState
        BY <4>2 DEF LoadState, Stage
      <4> QED BY <4>1, <4>3
    <3>6. queue' \subseteq Mutation
      <4>1. \A c \in Rejected(docs) : currentUser \in User
        BY ChannelAssumption, <3>1 DEF Rejected, IsMyChannel
      <4> QED BY <2>4, <3>1, <4>1 DEF ListArrives, Mutation
    <3> QED BY <2>4, <3>3, <3>5, <3>6 DEF ListArrives, server
  <2>5. CASE ListFails(l)
    BY <2>5, IdleLoadType DEF ListFails, Finish, lists, server
  <2>6. CASE Lookup(l)
    <3>1. CASE FirstFound(l)
      BY <3>1 DEF FirstFound, LoadState, lists, server
    <3>2. CASE FirstFails(l)
      BY <3>2 DEF FirstFails, LoadState, lists, server
    <3>3. CASE SecondFound(l)
      BY <3>3, LeaveType DEF SecondFound
    <3>4. CASE SecondFails(l)
      BY <3>4, LeaveType DEF SecondFails
    <3>5. CASE NameMissing(l)
      BY <3>5 DEF NameMissing, lists, server
    <3> QED BY <2>6, <3>1, <3>2, <3>3, <3>4, <3>5 DEF Lookup
  <2>7. CASE Notify(l)
    <3>1. CASE Finish(l)
      BY <2>7, <3>1, IdleLoadType DEF Notify, Finish, lists, server
    <3>2. CASE loads' = [loads EXCEPT ![l].stage = "told"]
      <4>1. [loads[l] EXCEPT !.stage = "told"] \in LoadState
        BY DEF LoadState, Stage
      <4>2. loads' \in [Load -> LoadState]
        BY <3>2, <4>1
      <4>3. UNCHANGED <<server, queue, currentUser, lists, crashed, seen>>
        BY <2>7 DEF Notify
      <4> QED BY <4>2, <4>3 DEF lists, server
    <3> QED BY <2>7, <3>1, <3>2 DEF Notify
  <2> QED BY <1>2, <2>1, <2>2, <2>3, <2>4, <2>5, <2>6, <2>7 DEF Answer
<1>3. CASE UNCHANGED vars
  BY <1>3 DEF vars
<1> QED BY <1>1, <1>2, <1>3 DEF Next

\* ChannelsManager's variables keep their types, and its DispatchGroup never
\* counts below zero, for any number of users, channels and loads.
THEOREM TypeCorrect == Spec => []TypeOK
BY TypeInit, TypeNext, PTL DEF Spec

-----------------------------------------------------------------------------
(* Whose conversations and whose block list the arrays hold *)

\* Who asks is an account of this launch.
Provenance ==
  /\ currentUser # NoUser => currentUser \in seen
  /\ \A l \in Load : loads[l].stage # "idle" => loads[l].uid \in seen

\* Nobody complains about oneself.
NoSelfBlock == \A u \in User : <<u, u>> \notin blocked

SessionInv == TypeOK /\ Provenance /\ NoSelfBlock /\ SessionIsolation

LEMMA SessionInit == Init => SessionInv
<1> SUFFICES ASSUME Init PROVE SessionInv
  OBVIOUS
<1>1. Range(channels) = {}
  BY DEF Init, Range
<1> QED BY <1>1, TypeInit DEF Init, SessionInv, Provenance, NoSelfBlock, SessionIsolation, IdleLoad

\* A step that leaves both arrays, the account and the block lists alone, and
\* starts no load.
LEMMA SessionStutter ==
  ASSUME SessionInv, TypeOK',
         UNCHANGED <<blocked, currentUser, block, channels, seen>>,
         \A l \in Load : loads'[l].stage = "idle"
                         \/ (loads[l].stage # "idle" /\ loads'[l].uid = loads[l].uid)
  PROVE  SessionInv'
BY DEF SessionInv, Provenance, NoSelfBlock, SessionIsolation

LEMMA LeaveKeepsStage ==
  ASSUME TypeOK, NEW l \in Load, NEW n, NEW failure, Leave(l, n, failure)
  PROVE  \A k \in Load : loads'[k].stage = loads[k].stage /\ loads'[k].uid = loads[k].uid
<1> DEFINE s == [loads[l] EXCEPT !.count = @ - n, !.seconds = @ - 1, !.failed = @ \/ failure]
<1>1. loads' = [loads EXCEPT ![l] = s] \/ loads' = loads
  BY DEF Leave
<1>2. s.stage = loads[l].stage /\ s.uid = loads[l].uid
  BY DEF TypeOK, LoadState
<1> HIDE DEF s
<1> QED BY <1>1, <1>2 DEF TypeOK

LEMMA SessionNext == SessionInv /\ [Next]_vars => SessionInv'
<1> SUFFICES ASSUME SessionInv, [Next]_vars PROVE SessionInv'
  OBVIOUS
<1>0. TypeOK /\ TypeOK'
  BY TypeNext DEF SessionInv
<1>a. \A l \in Load : loads[l] \in LoadState
  BY <1>0 DEF TypeOK
<1>1. ASSUME World PROVE SessionInv'
  <2>1. ASSUME NEW u \in User, SaveProfile(u) PROVE SessionInv'
    BY <1>0, <2>1, SessionStutter DEF SaveProfile, lists
  <2>2. ASSUME NEW u \in User, NEW v \in User, Block(u, v) PROVE SessionInv'
    <3>1. u # v
      <4>1. PICK c \in Ever : {c.first, c.second} = {u, v}
        BY <2>2 DEF Block
      <4> QED BY <1>0, <4>1, ChannelAssumption DEF Ever, TypeOK
    <3> QED BY <1>0, <2>2, <3>1
        DEF Block, lists, SessionInv, Provenance, NoSelfBlock, SessionIsolation
  <2>3. ASSUME NEW c \in Channel, CreateElsewhere(c) PROVE SessionInv'
    BY <1>0, <2>3, SessionStutter DEF CreateElsewhere, lists
  <2>4. ASSUME NEW c \in Channel, DeleteElsewhere(c) PROVE SessionInv'
    BY <1>0, <2>4, SessionStutter DEF DeleteElsewhere, lists
  <2>5. ASSUME NEW c \in Channel, CreateChannel(c) PROVE SessionInv'
    BY <1>0, <2>5, SessionStutter DEF CreateChannel, lists, server
  <2>6. ASSUME NEW m \in queue, Commit(m) PROVE SessionInv'
    BY <1>0, <2>6, SessionStutter DEF Commit, lists
  <2>7. ASSUME NEW u \in Account, SignIn(u) PROVE SessionInv'
    BY <1>0, <2>7 DEF SignIn, lists, server, SessionInv, Provenance, NoSelfBlock, SessionIsolation
  <2>8. ASSUME SignOut PROVE SessionInv'
    BY <1>0, <2>8 DEF SignOut, lists, server, SessionInv, Provenance, NoSelfBlock, SessionIsolation
  <2>9. ASSUME Relaunch PROVE SessionInv'
    <3>1. Range(channels') = {}
      BY <2>9 DEF Relaunch, Range
    <3> QED BY <1>0, <2>9, <3>1
        DEF Relaunch, server, SessionInv, Provenance, NoSelfBlock, SessionIsolation, IdleLoad
  <2>10. ASSUME Trap PROVE SessionInv'
    BY <1>0, <2>10, SessionStutter DEF Trap, lists, server
  <2> QED BY <1>1, <2>1, <2>2, <2>3, <2>4, <2>5, <2>6, <2>7, <2>8, <2>9, <2>10 DEF World
<1>2. ASSUME NEW l \in Load, PreLoad(l) \/ Answer(l) PROVE SessionInv'
  <2>1. CASE PreLoad(l)
    <3>1. Provenance'
      BY <1>0, <2>1, <1>a DEF PreLoad, server, SessionInv, Provenance, IdleLoad, LoadState
    <3> QED BY <1>0, <2>1, <3>1 DEF PreLoad, server, SessionInv, NoSelfBlock, SessionIsolation
  <2>2. ASSUME NEW docs \in SUBSET User, BlocksArrive(l, docs) PROVE SessionInv'
    <3>1. Provenance'
      BY <1>0, <2>2, <1>a DEF BlocksArrive, server, SessionInv, Provenance, TypeOK, LoadState
    <3>2. Range(channels') = {}
      BY <2>2 DEF BlocksArrive, Range
    <3>3. \A v \in block' : \E u \in seen : <<u, v>> \in blocked
      BY <2>2 DEF BlocksArrive, SessionInv, Provenance, SessionIsolation
    <3> QED BY <1>0, <2>2, <3>1, <3>2, <3>3
        DEF BlocksArrive, server, SessionInv, NoSelfBlock, SessionIsolation
  <2>3. CASE BlocksFail(l)
    BY <1>0, <2>3, SessionStutter DEF BlocksFail, Finish, lists, server, TypeOK, IdleLoad
  <2>4. ASSUME NEW docs \in SUBSET Visible(currentUser),
               NEW listing \in Orders(Kept(docs)), ListArrives(l, docs, listing)
        PROVE  SessionInv'
    <3>1. Provenance'
      BY <1>0, <2>4, <1>a DEF ListArrives, server, SessionInv, Provenance, TypeOK, LoadState
    <3>2. Kept(docs) \subseteq Channel
      BY <1>0 DEF Visible, Ever, Queued, Kept, TypeOK
    <3>3. listing \in Seq(Channel) /\ Range(listing) \subseteq Kept(docs)
      BY <3>2, OrdersAreSequences
    <3>4. \A c \in Kept(docs) : {c.first, c.second} \intersect seen # {}
      BY <3>2, ChannelAssumption, UserAssumption
      DEF Kept, IsMyChannel, SessionInv, Provenance
    <3>5. Range(channels') = Range(channels) \union Range(listing)
      BY <1>0, <2>4, <3>3, RangeOfConcat DEF ListArrives, TypeOK
    <3> QED BY <1>0, <2>4, <3>1, <3>3, <3>4, <3>5
        DEF ListArrives, server, SessionInv, NoSelfBlock, SessionIsolation
  <2>5. CASE ListFails(l)
    BY <1>0, <2>5, SessionStutter DEF ListFails, Finish, lists, server, TypeOK, IdleLoad
  <2>6. CASE Lookup(l)
    <3>1. UNCHANGED <<server, currentUser, lists, seen>> /\ loads[l].stage # "idle"
      BY <2>6 DEF Lookup, Looking, FirstFound, FirstFails, SecondFound, SecondFails, NameMissing, Leave
    <3>2. \A k \in Load : loads'[k].stage = loads[k].stage /\ loads'[k].uid = loads[k].uid
      <4>1. CASE FirstFound(l)
        BY <1>0, <4>1 DEF FirstFound, TypeOK, LoadState
      <4>2. CASE FirstFails(l)
        BY <1>0, <4>2 DEF FirstFails, TypeOK, LoadState
      <4>3. CASE SecondFound(l)
        BY <1>0, <4>3, LeaveKeepsStage DEF SecondFound
      <4>4. CASE SecondFails(l)
        BY <1>0, <4>4, LeaveKeepsStage DEF SecondFails
      <4>5. CASE NameMissing(l)
        BY <4>5 DEF NameMissing
      <4> QED BY <2>6, <4>1, <4>2, <4>3, <4>4, <4>5 DEF Lookup
    <3> QED BY <1>0, <3>1, <3>2, SessionStutter DEF lists, server
  <2>7. CASE Notify(l)
    <3>1. UNCHANGED <<server, currentUser, lists, seen>> /\ loads[l].stage = "names"
      BY <2>7 DEF Notify
    <3>2. CASE Finish(l)
      BY <1>0, <3>1, <3>2, SessionStutter DEF Finish, IdleLoad, TypeOK, lists, server
    <3>3. CASE loads' = [loads EXCEPT ![l].stage = "told"]
      <4>1. loads' = [loads EXCEPT ![l] = [loads[l] EXCEPT !.stage = "told"]]
        BY <3>3
      <4>2. [loads[l] EXCEPT !.stage = "told"].uid = loads[l].uid
        BY <1>a DEF LoadState
      <4>3. \A k \in Load : loads'[k].uid = loads[k].uid
        BY <1>0, <4>1, <4>2 DEF TypeOK
      <4>4. \A k \in Load : k # l => loads'[k] = loads[k]
        BY <1>0, <4>1 DEF TypeOK
      <4> QED BY <1>0, <3>1, <4>3, <4>4, SessionStutter DEF lists, server
    <3> QED BY <2>7, <3>2, <3>3 DEF Notify
  <2> QED BY <1>2, <2>1, <2>2, <2>3, <2>4, <2>5, <2>6, <2>7 DEF Answer
<1>3. CASE UNCHANGED vars
  BY <1>0, <1>3, SessionStutter DEF vars
<1> QED BY <1>1, <1>2, <1>3 DEF Next

\* Whatever the accounts do and however answers are delayed, the arrays only
\* hold channels of accounts used since the launch, and users they blocked.
THEOREM SessionsIsolated == Spec => []SessionIsolation
<1>1. SessionInv => SessionIsolation
  BY DEF SessionInv
<1> QED BY <1>1, SessionInit, SessionNext, PTL DEF Spec

\* The deletions of loadChannels: with one account since the launch, each is
\* of a channel of that account with a user that account blocked.
THEOREM DeletionsJustified == Spec => DeletionJustified
<1> DEFINE Justified ==
      \A m \in queue' \ queue :
        m.op = "reject" /\ seen \subseteq {m.by} =>
          /\ m.by \in {m.chan.first, m.chan.second}
          /\ <<m.by, Other(m.chan, m.by)>> \in blocked
<1>1. SessionInv /\ [Next]_vars => [Justified]_vars
  <2> SUFFICES ASSUME SessionInv, Next PROVE Justified
    BY DEF DeletionJustified
  <2>1. ASSUME World PROVE Justified
    <3>1. CASE \E c \in Channel : CreateChannel(c)
      BY <3>1 DEF CreateChannel
    <3>2. CASE queue' \subseteq queue
      BY <3>2
    <3> QED BY <2>1, <3>1, <3>2 DEF World, SaveProfile, Block, CreateElsewhere, DeleteElsewhere,
            Commit, SignIn, SignOut, Trap, Relaunch
  <2>2. ASSUME NEW l \in Load, NEW docs \in SUBSET Visible(currentUser),
               NEW listing \in Orders(Kept(docs)), ListArrives(l, docs, listing)
        PROVE  Justified
    <3> SUFFICES ASSUME NEW m \in queue' \ queue, seen \subseteq {m.by}
                 PROVE  /\ m.by \in {m.chan.first, m.chan.second}
                        /\ <<m.by, Other(m.chan, m.by)>> \in blocked
      OBVIOUS
    <3>1. PICK c \in Rejected(docs) : m = [op |-> "reject", by |-> currentUser, chan |-> c]
      BY <2>2 DEF ListArrives
    <3>2. c \in Channel
      BY DEF Rejected, Visible, Ever, Queued, SessionInv, TypeOK
    <3>3. m.by = currentUser /\ m.chan = c
      BY <3>1
    <3>4. PICK v \in {c.first, c.second} : v \in block
      BY DEF Rejected, IsBlocked
    <3>5. <<currentUser, v>> \in blocked /\ v # currentUser
      BY <3>2, <3>3, <3>4, ChannelAssumption
      DEF SessionInv, SessionIsolation, NoSelfBlock
    <3>6. currentUser \in {c.first, c.second}
      BY DEF Rejected, IsMyChannel
    <3>7. Other(c, currentUser) = v
      BY <3>4, <3>5, <3>6 DEF Other
    <3> QED BY <3>3, <3>5, <3>6, <3>7
  <2>3. ASSUME NEW l \in Load, queue' = queue PROVE Justified
    BY <2>3
  <2> QED BY <2>1, <2>2, <2>3 DEF Next, Answer, PreLoad, BlocksArrive, BlocksFail, ListFails, Lookup,
          FirstFound, FirstFails, SecondFound, SecondFails, Leave, NameMissing, Notify
<1> QED BY <1>1, SessionInit, SessionNext, PTL DEF Spec, DeletionJustified

-----------------------------------------------------------------------------
(* The group of loadUsernames *)

\* What GroupBalanced says of one load, and that no lookup is under way before
\* the list is there (ListArrives sets the count from the length alone).
Balanced(s) ==
  /\ s.stage \in {"idle", "blocks", "list"} => s.seconds = 0
  /\ s.stage \in {"names", "told"} =>
       /\ s.count <= s.firsts + s.seconds
       /\ ~s.failed => s.count = s.firsts + s.seconds

GroupInv == TypeOK /\ \A l \in Load : Balanced(loads[l])

\* A step after which one load at most is another, and balanced.
LEMMA BalanceOfOne ==
  ASSUME GroupInv, TypeOK', NEW l \in Load, NEW s, Balanced(s),
         loads' = [loads EXCEPT ![l] = s]
  PROVE  GroupInv'
BY DEF GroupInv, TypeOK

\* A leave by a lookup that is under way: once if it was found, twice with an
\* error.
LEMMA LeaveBalances ==
  ASSUME GroupInv, TypeOK', NEW l \in Load, NEW n \in 1..2, NEW failure \in BOOLEAN,
         loads[l].stage \in {"names", "told"}, loads[l].seconds > 0, n = 2 => failure,
         Leave(l, n, failure)
  PROVE  GroupInv'
<1>1. CASE loads[l].count >= n
  <2> DEFINE s == [loads[l] EXCEPT !.count = @ - n, !.seconds = @ - 1, !.failed = @ \/ failure]
  <2>1. loads' = [loads EXCEPT ![l] = s]
    BY <1>1 DEF Leave
  <2>2. /\ s.stage = loads[l].stage
        /\ s.count = loads[l].count - n /\ s.firsts = loads[l].firsts
        /\ s.seconds = loads[l].seconds - 1
    BY DEF GroupInv, TypeOK, LoadState
  <2>3. s.failed = (loads[l].failed \/ failure)
    BY DEF GroupInv, TypeOK, LoadState
  <2>4. loads[l].count \in Nat /\ loads[l].firsts \in Nat /\ loads[l].seconds \in Nat
    BY DEF GroupInv, TypeOK, LoadState
  <2>5. Balanced(s)
    <3>1. s.count <= s.firsts + s.seconds
      BY <2>2, <2>4 DEF GroupInv, Balanced
    <3>2. ASSUME ~s.failed PROVE s.count = s.firsts + s.seconds
      <4>1. ~loads[l].failed /\ ~failure
        BY <2>3, <3>2, Zenon
      <4>2. n = 1
        BY <4>1
      <4> QED BY <2>2, <2>4, <4>1, <4>2 DEF GroupInv, Balanced
    <3> QED BY <2>2, <3>1, <3>2 DEF Balanced
  <2> HIDE DEF s
  <2> QED BY <2>1, <2>5, BalanceOfOne
<1>2. CASE ~(loads[l].count >= n)
  BY <1>2 DEF Leave, GroupInv
<1> QED BY <1>1, <1>2

LEMMA BalanceNext == GroupInv /\ [Next]_vars => GroupInv'
<1> SUFFICES ASSUME GroupInv, [Next]_vars PROVE GroupInv'
  OBVIOUS
<1>0. TypeOK /\ TypeOK'
  BY TypeNext DEF GroupInv
<1>a. \A l \in Load : loads[l] \in LoadState
  BY <1>0 DEF TypeOK
<1>b. Balanced(IdleLoad)
  BY DEF Balanced, IdleLoad
<1>c. CASE loads' = loads
  BY <1>0, <1>c DEF GroupInv
<1>1. ASSUME World PROVE GroupInv'
  <2>1. CASE Relaunch
    BY <1>0, <1>b, <2>1 DEF Relaunch, GroupInv
  <2> QED BY <1>1, <1>c, <2>1 DEF World, SaveProfile, Block, CreateElsewhere, DeleteElsewhere,
          CreateChannel, Commit, SignIn, SignOut, Trap
<1>2. ASSUME NEW l \in Load, PreLoad(l) \/ Answer(l) PROVE GroupInv'
  <2>1. CASE PreLoad(l)
    <3>1. ASSUME NEW k \in Load PROVE Balanced(loads'[k])
      <4>1. CASE k = l
        BY <2>1, <4>1 DEF PreLoad, Balanced, IdleLoad
      <4>2. CASE k # l
        <5>1. loads'[k] = [loads[k] EXCEPT !.lone = FALSE]
          BY <2>1, <4>2 DEF PreLoad
        <5> QED BY <1>a, <5>1 DEF GroupInv, Balanced, LoadState
      <4> QED BY <4>1, <4>2
    <3> QED BY <1>0, <3>1 DEF GroupInv
  <2>2. ASSUME NEW docs \in SUBSET User, BlocksArrive(l, docs) PROVE GroupInv'
    <3> DEFINE s == [loads[l] EXCEPT !.stage = "list", !.got = docs]
    <3>1. loads' = [loads EXCEPT ![l] = s]
      BY <2>2 DEF BlocksArrive
    <3>2. Balanced(s)
      BY <1>a, <2>2 DEF BlocksArrive, GroupInv, Balanced, LoadState
    <3> QED BY <1>0, <3>1, <3>2, BalanceOfOne
  <2>3. CASE Finish(l)
    BY <1>0, <1>b, <2>3, BalanceOfOne DEF Finish
  <2>4. ASSUME NEW docs \in SUBSET Visible(currentUser),
               NEW listing \in Orders(Kept(docs)), ListArrives(l, docs, listing)
        PROVE  GroupInv'
    <3> DEFINE n == Len(channels')
               g == Range(channels')
               s == [loads[l] EXCEPT !.stage = "names", !.group = g, !.firsts = n, !.count = n]
    <3>1. loads' = [loads EXCEPT ![l] = s]
      BY <2>4 DEF ListArrives
    <3>2. n \in Nat
      BY <1>0 DEF TypeOK
    <3> HIDE DEF n, g
    <3>3. loads[l].seconds = 0
      BY <2>4 DEF ListArrives, GroupInv, Balanced
    <3>4. Balanced(s)
      BY <1>a, <3>2, <3>3 DEF Balanced, LoadState
    <3> QED BY <1>0, <3>1, <3>4, BalanceOfOne
  <2>5. CASE Lookup(l)
    <3>1. CASE FirstFound(l)
      <4> DEFINE s == [loads[l] EXCEPT !.firsts = @ - 1, !.seconds = @ + 1]
      <4>1. Balanced(s)
        BY <1>a, <3>1 DEF FirstFound, Looking, GroupInv, Balanced, LoadState
      <4> QED BY <1>0, <3>1, <4>1, BalanceOfOne DEF FirstFound
    <3>2. CASE FirstFails(l)
      <4> DEFINE s == [loads[l] EXCEPT !.firsts = @ - 1, !.seconds = @ + 2, !.failed = TRUE]
      <4>1. Balanced(s)
        BY <1>a, <3>2 DEF FirstFails, Looking, GroupInv, Balanced, LoadState
      <4> QED BY <1>0, <3>2, <4>1, BalanceOfOne DEF FirstFails
    <3>3. CASE SecondFound(l)
      <4>1. loads[l].stage \in {"names", "told"} /\ loads[l].seconds > 0 /\ Leave(l, 1, FALSE)
        BY <3>3 DEF SecondFound, Looking
      <4>2. 1 \in 1..2 /\ FALSE \in BOOLEAN /\ (1 = 2 => FALSE)
        OBVIOUS
      <4> QED BY <1>0, <4>1, <4>2, LeaveBalances, Zenon
    <3>4. CASE SecondFails(l)
      <4>1. loads[l].stage \in {"names", "told"} /\ loads[l].seconds > 0 /\ Leave(l, 2, TRUE)
        BY <3>4 DEF SecondFails, Looking
      <4>2. 2 \in 1..2 /\ TRUE \in BOOLEAN /\ (2 = 2 => TRUE)
        OBVIOUS
      <4> QED BY <1>0, <4>1, <4>2, LeaveBalances, Zenon
    <3>5. CASE NameMissing(l)
      BY <1>c, <3>5 DEF NameMissing
    <3> QED BY <2>5, <3>1, <3>2, <3>3, <3>4, <3>5 DEF Lookup
  <2>6. CASE Notify(l)
    <3>1. CASE loads' = [loads EXCEPT ![l].stage = "told"]
      <4> DEFINE s == [loads[l] EXCEPT !.stage = "told"]
      <4>1. Balanced(s)
        BY <1>a, <2>6 DEF Notify, GroupInv, Balanced, LoadState
      <4> QED BY <1>0, <3>1, <4>1, BalanceOfOne
    <3> QED BY <2>3, <2>6, <3>1 DEF Notify
  <2> QED BY <1>2, <2>1, <2>2, <2>3, <2>4, <2>5, <2>6 DEF Answer, BlocksFail, ListFails
<1>3. CASE UNCHANGED vars
  BY <1>c, <1>3 DEF vars
<1> QED BY <1>1, <1>2, <1>3 DEF Next

\* However lookups fail and loads overlap, the group never counts a lookup that
\* is not under way: the block that shows the list is not waited for in vain.
THEOREM GroupsBalanced == Spec => []GroupBalanced
<1>1. Init => GroupInv
  BY TypeInit DEF Init, GroupInv, Balanced, IdleLoad
<1>2. GroupInv => GroupBalanced
  BY DEF GroupInv, Balanced, GroupBalanced
<1> QED BY <1>1, <1>2, BalanceNext, PTL DEF Spec

-----------------------------------------------------------------------------
(* The list of a load that ran alone *)

\* What arrays b and ch are to load s, as far as it has come by itself.
Exact(s, b, ch) ==
  /\ s.stage = "blocks" => b = {}
  /\ s.stage = "list" => b = s.got /\ ch = <<>>
  /\ s.stage = "names" =>
       /\ IsInjective(ch)
       /\ \A c \in Range(ch) : {c.first, c.second} \intersect s.got = {}

Alone(l) == \A k \in Load : k # l => loads[k].stage = "idle"

LoneInv ==
  TypeOK /\ \A l \in Load :
    loads[l].lone => loads[l].stage # "idle" /\ Alone(l) /\ Exact(loads[l], block, channels)

\* A step of a load under way: no other is lone.
LEMMA LoneOfOne ==
  ASSUME LoneInv, TypeOK', NEW l \in Load, loads[l].stage # "idle", NEW s,
         loads' = [loads EXCEPT ![l] = s],
         s.lone => loads[l].lone /\ s.stage # "idle" /\ Exact(s, block', channels')
  PROVE  LoneInv'
<1>1. loads'[l] = s /\ \A k \in Load : k # l => loads'[k] = loads[k]
  BY DEF LoneInv, TypeOK
<1>2. ASSUME NEW k \in Load, loads'[k].lone
      PROVE  loads'[k].stage # "idle" /\ Alone(k)' /\ Exact(loads'[k], block', channels')
  <2>1. k = l
    BY <1>1, <1>2 DEF LoneInv, Alone
  <2> QED BY <1>1, <1>2, <2>1 DEF LoneInv, Alone
<1> QED BY <1>2 DEF LoneInv

\* A step in which every load keeps its stage, what it was given and its
\* being alone.
LEMMA LoneStutter ==
  ASSUME LoneInv, TypeOK', UNCHANGED <<block, channels>>,
         \A k \in Load : /\ loads'[k].stage = loads[k].stage /\ loads'[k].got = loads[k].got
                         /\ loads'[k].lone = loads[k].lone
  PROVE  LoneInv'
BY DEF LoneInv, Alone, Exact

\* A step that changes only what load l still waits for.
LEMMA LoneLook ==
  ASSUME LoneInv, TypeOK', NEW l \in Load, NEW s, loads' = [loads EXCEPT ![l] = s],
         s.stage = loads[l].stage, s.got = loads[l].got, s.lone = loads[l].lone,
         UNCHANGED <<block, channels>>
  PROVE  LoneInv'
<1>1. \A k \in Load : loads'[k].stage = loads[k].stage /\ loads'[k].got = loads[k].got
                       /\ loads'[k].lone = loads[k].lone
  BY DEF LoneInv, TypeOK
<1> QED BY <1>1, LoneStutter

LEMMA LoneNext == LoneInv /\ [Next]_vars => LoneInv'
<1> SUFFICES ASSUME LoneInv, [Next]_vars PROVE LoneInv'
  OBVIOUS
<1>0. TypeOK /\ TypeOK'
  BY TypeNext DEF LoneInv
<1>a. \A l \in Load : loads[l] \in LoadState
  BY <1>0 DEF TypeOK
<1>b. ~IdleLoad.lone /\ IdleLoad.stage = "idle"
  BY DEF IdleLoad
<1>c. CASE UNCHANGED <<block, channels, loads>>
  BY <1>0, <1>c, LoneStutter
<1>1. ASSUME World PROVE LoneInv'
  <2>1. CASE Relaunch
    BY <1>0, <1>b, <2>1 DEF Relaunch, LoneInv
  <2> QED BY <1>1, <1>c, <2>1 DEF World, SaveProfile, Block, CreateElsewhere, DeleteElsewhere,
          CreateChannel, Commit, SignIn, SignOut, Trap, lists
<1>2. ASSUME NEW l \in Load, PreLoad(l) \/ Answer(l) PROVE LoneInv'
  <2>1. CASE PreLoad(l)
    <3>1. ASSUME NEW k \in Load, k # l
          PROVE  ~loads'[k].lone /\ loads'[k].stage = loads[k].stage
      <4> DEFINE r == loads[k]
      <4>1. loads'[k] = [r EXCEPT !.lone = FALSE]
        BY <2>1, <3>1 DEF PreLoad
      <4>2. r \in LoadState
        BY <1>a
      <4> HIDE DEF r
      <4>3. ~loads'[k].lone /\ loads'[k].stage = r.stage
        BY <4>1, <4>2 DEF LoadState
      <4> QED BY <4>3 DEF r
    <3>2. /\ loads'[l].stage = "blocks" /\ (loads'[l].lone => Active = {})
          /\ block' = {}
      BY <2>1 DEF PreLoad, IdleLoad
    <3>3. ASSUME Active = {} PROVE Alone(l)'
      BY <3>1, <3>3 DEF Active, Alone
    <3>4. Exact(loads'[l], block', channels')
      BY <3>2 DEF Exact
    <3> QED BY <1>0, <3>1, <3>2, <3>3, <3>4 DEF LoneInv
  <2>2. ASSUME NEW docs \in SUBSET User, BlocksArrive(l, docs) PROVE LoneInv'
    <3> DEFINE r == loads[l]
               s == [r EXCEPT !.stage = "list", !.got = docs]
    <3>1. loads' = [loads EXCEPT ![l] = s] /\ r.stage = "blocks"
          /\ block' = block \union docs /\ channels' = <<>>
      BY <2>2 DEF BlocksArrive
    <3>2. r \in LoadState /\ (r.lone => Exact(r, block, channels))
      BY <1>a DEF LoneInv
    <3> HIDE DEF r
    <3>3. s.stage = "list" /\ s.got = docs /\ s.lone = r.lone
      BY <3>2 DEF LoadState
    <3> HIDE DEF s
    <3>4. s.lone => r.lone /\ s.stage # "idle" /\ Exact(s, block', channels')
      BY <3>1, <3>2, <3>3 DEF Exact
    <3> QED BY <1>0, <3>1, <3>4, LoneOfOne DEF r
  <2>3. ASSUME Finish(l), loads[l].stage # "idle" PROVE LoneInv'
    BY <1>0, <1>b, <2>3, LoneOfOne DEF Finish
  <2>4. ASSUME NEW docs \in SUBSET Visible(currentUser),
               NEW listing \in Orders(Kept(docs)), ListArrives(l, docs, listing)
        PROVE  LoneInv'
    <3> DEFINE r == loads[l]
               n == Len(channels')
               g == Range(channels')
               s == [r EXCEPT !.stage = "names", !.group = g, !.firsts = n, !.count = n]
    <3>1. loads' = [loads EXCEPT ![l] = s] /\ r.stage = "list"
          /\ block' = block /\ channels' = channels \o listing
      BY <2>4 DEF ListArrives, lists
    <3>2. r \in LoadState /\ (r.lone => Exact(r, block, channels))
      BY <1>a DEF LoneInv
    <3>3. Kept(docs) \subseteq Channel /\ \A c \in Kept(docs) : {c.first, c.second} \intersect block = {}
      BY <1>0 DEF Visible, Ever, Queued, Kept, IsBlocked, TypeOK
    <3>4. listing \in Seq(Channel) /\ IsInjective(listing) /\ Range(listing) \subseteq Kept(docs)
      BY <3>3, OrdersAreSequences
    <3> HIDE DEF r, n, g
    <3>5. s.stage = "names" /\ s.got = r.got /\ s.lone = r.lone
      BY <3>2 DEF LoadState
    <3> HIDE DEF s
    <3>6. ASSUME r.lone PROVE Exact(s, block', channels')
      <4>1. channels = <<>> /\ block = r.got
        BY <3>1, <3>2, <3>6 DEF Exact
      <4>2. channels' = listing
        BY <3>1, <3>4, <4>1
      <4> QED BY <3>3, <3>4, <3>5, <4>1, <4>2 DEF Exact
    <3>7. s.lone => r.lone /\ s.stage # "idle" /\ Exact(s, block', channels')
      BY <3>5, <3>6
    <3> QED BY <1>0, <3>1, <3>7, LoneOfOne DEF r
  <2>5. CASE Lookup(l)
    <3>1. UNCHANGED <<block, channels>>
      BY <2>5 DEF Lookup, FirstFound, FirstFails, SecondFound, SecondFails, NameMissing, Leave, lists
    <3>2. CASE FirstFound(l)
      <4> DEFINE r == loads[l]
                 s == [r EXCEPT !.firsts = @ - 1, !.seconds = @ + 1]
      <4>1. loads' = [loads EXCEPT ![l] = s] /\ r \in LoadState
        BY <1>a, <3>2 DEF FirstFound
      <4> HIDE DEF r
      <4>2. s.stage = r.stage /\ s.got = r.got /\ s.lone = r.lone
        BY <4>1 DEF LoadState
      <4> HIDE DEF s
      <4> QED BY <1>0, <3>1, <4>1, <4>2, LoneLook DEF r
    <3>3. CASE FirstFails(l)
      <4> DEFINE r == loads[l]
                 s == [r EXCEPT !.firsts = @ - 1, !.seconds = @ + 2, !.failed = TRUE]
      <4>1. loads' = [loads EXCEPT ![l] = s] /\ r \in LoadState
        BY <1>a, <3>3 DEF FirstFails
      <4> HIDE DEF r
      <4>2. s.stage = r.stage /\ s.got = r.got /\ s.lone = r.lone
        BY <4>1 DEF LoadState
      <4> HIDE DEF s
      <4> QED BY <1>0, <3>1, <4>1, <4>2, LoneLook DEF r
    <3>4. ASSUME NEW n, NEW failure, Leave(l, n, failure) PROVE LoneInv'
      <4> DEFINE r == loads[l]
                 s == [r EXCEPT !.count = @ - n, !.seconds = @ - 1, !.failed = @ \/ failure]
      <4>1. loads' = [loads EXCEPT ![l] = s] \/ loads' = loads
        BY <3>4 DEF Leave
      <4>2. r \in LoadState
        BY <1>a
      <4> HIDE DEF r
      <4>3. s.stage = r.stage /\ s.got = r.got /\ s.lone = r.lone
        BY <4>2 DEF LoadState
      <4> HIDE DEF s
      <4>4. CASE loads' = [loads EXCEPT ![l] = s]
        BY <1>0, <3>1, <4>3, <4>4, LoneLook DEF r
      <4> QED BY <1>c, <3>1, <4>1, <4>4
    <3>5. CASE SecondFound(l)
      BY <3>4, <3>5 DEF SecondFound
    <3>6. CASE SecondFails(l)
      BY <3>4, <3>6 DEF SecondFails
    <3>7. CASE NameMissing(l)
      BY <1>c, <3>1, <3>7 DEF NameMissing
    <3> QED BY <2>5, <3>2, <3>3, <3>5, <3>6, <3>7 DEF Lookup
  <2>6. CASE Notify(l)
    <3>1. UNCHANGED <<block, channels>> /\ loads[l].stage = "names"
      BY <2>6 DEF Notify, lists
    <3>2. CASE loads' = [loads EXCEPT ![l].stage = "told"]
      <4> DEFINE r == loads[l]
                 s == [r EXCEPT !.stage = "told"]
      <4>1. r \in LoadState /\ loads' = [loads EXCEPT ![l] = s]
        BY <1>a, <3>2
      <4> HIDE DEF r
      <4>2. s.stage = "told" /\ s.lone = r.lone
        BY <4>1 DEF LoadState
      <4> HIDE DEF s
      <4>3. s.lone => r.lone /\ s.stage # "idle" /\ Exact(s, block', channels')
        BY <4>2 DEF Exact
      <4> QED BY <1>0, <3>1, <4>1, <4>3, LoneOfOne DEF r
    <3> QED BY <2>3, <2>6, <3>1, <3>2 DEF Notify
  <2> QED BY <1>2, <2>1, <2>2, <2>3, <2>4, <2>5, <2>6 DEF Answer, BlocksFail, ListFails
<1>3. CASE UNCHANGED vars
  BY <1>c, <1>3 DEF vars, lists
<1> QED BY <1>1, <1>2, <1>3 DEF Next

\* A load that no other overlapped hands over each channel once, and none with
\* a user of the block list it was given, whoever is signed in by then.
THEOREM LoneLoadsAreExact == Spec => []LoneLoadIsExact
<1>1. Init => LoneInv
  BY TypeInit DEF Init, LoneInv, IdleLoad
<1>2. LoneInv => LoneLoadIsExact
  BY DEF LoneInv, Exact, LoneLoadIsExact
<1> QED BY <1>1, <1>2, LoneNext, PTL DEF Spec

-----------------------------------------------------------------------------
(* The screen on top of it (Messages)                                       *)

\* A step of the screen is one of the manager, or the user's deletion.
LEMMA ScreenStep == [ScreenNext]_svars => [Next]_vars \/ Confirm
<1> SUFFICES ASSUME [ScreenNext]_svars PROVE [Next]_vars \/ Confirm
  OBVIOUS
<1>1. CASE Elsewhere
  BY <1>1 DEF Elsewhere, Next, World
<1>2. CASE LogOut
  BY <1>2 DEF LogOut, LeaveScreen, Next, World
<1>3. CASE Restart
  BY <1>3 DEF Restart, LeaveScreen, Next, World
<1>4. CASE EditButton \/ Dismiss
  BY <1>4 DEF EditButton, Dismiss
<1>5. ASSUME NEW i \in DOMAIN rows, DrawRow(i) \/ TapRow(i) \/ DeleteButton(i)
      PROVE  [Next]_vars
  BY <1>5 DEF DrawRow, TapRow, DeleteButton, Touch, Next, World
<1>6. ASSUME NEW m \in queue, Acknowledge(m) PROVE [Next]_vars
  BY <1>6 DEF Acknowledge, Next, World
<1>7. ASSUME NEW l \in Load, OpenMessages(l) \/ PullRefresh(l) PROVE [Next]_vars
  BY <1>7 DEF OpenMessages, PullRefresh, Next
<1>8. ASSUME NEW l \in Load, ScreenAnswer(l) PROVE [Next]_vars
  BY <1>8 DEF ScreenAnswer, ReadedChannels, Next, Answer
<1>9. CASE UNCHANGED svars
  BY <1>9 DEF svars
<1> QED BY <1>1, <1>2, <1>3, <1>4, <1>5, <1>6, <1>7, <1>8, <1>9 DEF ScreenNext

\* The screen is of a session; what is presented is over it, and what was
\* touched at rest is what the row showed.
ScreenInv ==
  /\ ScreenTypeOK /\ RowsInStep
  /\ open => currentUser # NoUser
  /\ ~open => modal = NoModal
  /\ modal # NoModal /\ modal.steady => modal.chan = modal.shown

\* Deletions of the user have an author.
LEMMA ConfirmType == ScreenInv /\ Confirm => TypeOK'
<1> SUFFICES ASSUME ScreenInv, Confirm PROVE TypeOK'
  OBVIOUS
<1>1. modal.kind = "delete" /\ modal \in Modal
  BY DEF Confirm, ScreenInv, ScreenTypeOK
<1>2. modal # NoModal /\ modal.chan \in Channel
  BY <1>1 DEF Modal, NoModal
<1>3. currentUser \in User
  BY <1>2, UserAssumption DEF ScreenInv, ScreenTypeOK, TypeOK
<1>4. [op |-> "delete", by |-> currentUser, chan |-> modal.chan] \in Mutation
  BY <1>2, <1>3 DEF Mutation
<1> QED BY <1>4 DEF Confirm, ScreenInv, ScreenTypeOK, TypeOK, server, lists

\* At rest before and after, with rows and array as they were.
LEMMA StillInStep ==
  ASSUME RowsInStep, UNCHANGED <<rows, channels>>, AtRest' => AtRest
  PROVE  RowsInStep'
BY DEF RowsInStep

\* What a load that goes on, or ends, does to the rest of the table.
LEMMA RestOfOthers ==
  ASSUME TypeOK, NEW l \in Load, NEW s, loads' = [loads EXCEPT ![l] = s],
         s.stage \notin {"idle", "blocks"} \/ loads[l].stage \in {"idle", "blocks"}
  PROVE  AtRest' /\ open /\ ~stray => AtRest
<1>1. ASSUME AtRest', open, ~stray, NEW k \in Load PROVE loads[k].stage \in {"idle", "blocks"}
  BY <1>1 DEF AtRest, TypeOK
<1> QED BY <1>1 DEF AtRest

LEMMA ScreenInvInit == ScreenInit => ScreenInv
<1> SUFFICES ASSUME ScreenInit PROVE ScreenInv
  OBVIOUS
<1>1. rows \in Seq(Channel \union {Blank})
  BY DEF ScreenInit
<1>2. modal \in Modal /\ modal = NoModal /\ ~open
  BY DEF ScreenInit, Modal
<1> QED BY <1>1, <1>2, TypeInit DEF ScreenInit, ScreenInv, ScreenTypeOK, RowsInStep, AtRest

\* A lookup, answered or not, leaves every load in its stage.
LEMMA LookupKeepsStage ==
  ASSUME TypeOK, NEW l \in Load, Lookup(l)
  PROVE  \A k \in Load : loads'[k].stage = loads[k].stage
<1>1. CASE FirstFound(l)
  <2> DEFINE s == [loads[l] EXCEPT !.firsts = @ - 1, !.seconds = @ + 1]
  <2>1. loads' = [loads EXCEPT ![l] = s]
    BY <1>1 DEF FirstFound
  <2>2. s.stage = loads[l].stage
    BY DEF TypeOK, LoadState
  <2> HIDE DEF s
  <2> QED BY <2>1, <2>2 DEF TypeOK
<1>2. CASE FirstFails(l)
  <2> DEFINE s == [loads[l] EXCEPT !.firsts = @ - 1, !.seconds = @ + 2, !.failed = TRUE]
  <2>1. loads' = [loads EXCEPT ![l] = s]
    BY <1>2 DEF FirstFails
  <2>2. s.stage = loads[l].stage
    BY DEF TypeOK, LoadState
  <2> HIDE DEF s
  <2> QED BY <2>1, <2>2 DEF TypeOK
<1>3. CASE SecondFound(l) \/ SecondFails(l)
  BY <1>3, LeaveKeepsStage DEF SecondFound, SecondFails
<1>4. CASE NameMissing(l)
  BY <1>4 DEF NameMissing
<1> QED BY <1>1, <1>2, <1>3, <1>4 DEF Lookup

LEMMA ScreenInvNext == ScreenInv /\ [ScreenNext]_svars => ScreenInv'
<1> SUFFICES ASSUME ScreenInv, [ScreenNext]_svars PROVE ScreenInv'
  OBVIOUS
<1>0. TypeOK /\ TypeOK'
  BY ScreenStep, TypeNext, ConfirmType DEF ScreenInv, ScreenTypeOK
<1>a. channels \in Seq(Channel) /\ channels' \in Seq(Channel)
  BY <1>0 DEF TypeOK
<1>b. channels \in Seq(Channel \union {Blank}) /\ channels' \in Seq(Channel \union {Blank})
  <2>1. \A s \in Seq(Channel) : s \in Seq(Channel \union {Blank})
    OBVIOUS
  <2> QED BY <1>a, <2>1
<1>c. NoModal \in Modal
  BY DEF Modal
<1>d. ASSUME UNCHANGED screen, currentUser # NoUser => currentUser' # NoUser, RowsInStep'
      PROVE  ScreenInv'
  BY <1>0, <1>d DEF ScreenInv, ScreenTypeOK, screen
<1>e. ASSUME UNCHANGED <<screen, channels>>, UNCHANGED loads,
             currentUser # NoUser => currentUser' # NoUser
      PROVE  ScreenInv'
  <2>1. RowsInStep'
    BY <1>e, StillInStep DEF ScreenInv, AtRest, screen
  <2> QED BY <1>d, <1>e, <2>1
<1>1. CASE Elsewhere
  <2>1. UNCHANGED <<screen, channels, loads>> /\ (currentUser # NoUser => currentUser' # NoUser)
    BY <1>1 DEF Elsewhere, SaveProfile, Block, CreateElsewhere, DeleteElsewhere, CreateChannel,
       SignIn, lists
  <2> QED BY <1>e, <2>1
<1>2. CASE LogOut \/ Restart
  <2>1. /\ ~open' /\ ~spinning' /\ ~editing' /\ rows' = <<>> /\ modal' = NoModal
        /\ awaiting' = {} /\ fresh' = {} /\ ~unanswered' /\ ~stray'
        /\ open' = FALSE /\ spinning' = FALSE /\ editing' = FALSE
        /\ unanswered' = FALSE /\ stray' = FALSE
    BY <1>2 DEF LogOut, Restart, LeaveScreen
  <2>2. rows' \in Seq(Channel \union {Blank})
    BY <2>1
  <2>3. ScreenTypeOK'
    BY <1>0, <1>c, <2>1, <2>2 DEF ScreenTypeOK
  <2> QED BY <2>1, <2>3 DEF ScreenInv, RowsInStep, AtRest
<1>3. CASE EditButton
  BY <1>0, <1>3, <1>b DEF EditButton, Reload, vars, lists, ScreenInv, ScreenTypeOK, RowsInStep
<1>4. CASE Dismiss \/ Confirm
  <2>1. /\ UNCHANGED <<channels, loads, rows, open, stray, currentUser, spinning, editing, fresh, unanswered>>
        /\ modal' = NoModal
    BY <1>4 DEF Dismiss, Confirm, vars, lists
  <2>2. awaiting' \subseteq Channel
    <3>1. modal.kind = "delete" => modal.chan \in Channel
      BY DEF ScreenInv, ScreenTypeOK, Modal, NoModal
    <3> QED BY <1>4, <3>1 DEF Dismiss, Confirm, ScreenInv, ScreenTypeOK
  <2>3. RowsInStep'
    BY <2>1, StillInStep DEF ScreenInv, AtRest
  <2> QED BY <1>0, <1>c, <2>1, <2>2, <2>3 DEF ScreenInv, ScreenTypeOK
<1>5. ASSUME NEW i \in DOMAIN rows, DrawRow(i) PROVE ScreenInv'
  <2>1. CASE Trap /\ UNCHANGED screen
    BY <1>e, <2>1 DEF Trap, lists
  <2>2. CASE ~(channels # <<>> /\ i > Len(channels))
    <3> DEFINE x == IF channels = <<>> THEN Blank ELSE channels[i]
    <3>1. rows' = [rows EXCEPT ![i] = x]
          /\ UNCHANGED <<vars, open, spinning, editing, modal, awaiting, fresh, unanswered, stray>>
      BY <1>5, <2>2 DEF DrawRow
    <3>2. rows \in Seq(Channel \union {Blank}) /\ i \in 1..Len(rows)
      BY DEF ScreenInv, ScreenTypeOK
    <3>3. x \in Channel \union {Blank}
      BY <1>a, <2>2, <3>2
    <3>4. ASSUME AtRest' PROVE rows' = rows
      <4>1. rows = channels
        BY <3>1, <3>4 DEF ScreenInv, RowsInStep, AtRest, vars
      <4>2. x = rows[i]
        BY <3>2, <4>1
      <4> QED BY <3>1, <3>2, <4>2
    <3>5. rows' \in Seq(Channel \union {Blank})
      BY <3>1, <3>2, <3>3
    <3>6. RowsInStep'
      BY <3>1, <3>4 DEF ScreenInv, RowsInStep, AtRest, vars, lists
    <3> QED BY <1>0, <3>1, <3>5, <3>6 DEF ScreenInv, ScreenTypeOK, vars
  <2> QED BY <1>5, <2>1, <2>2 DEF DrawRow
<1>6. ASSUME NEW i \in DOMAIN rows, NEW kind \in {"chat", "delete"}, Touch(i, kind) PROVE ScreenInv'
  <2>1. CASE Trap /\ UNCHANGED screen
    BY <1>e, <2>1 DEF Trap, lists
  <2>2. CASE ~(i > Len(channels))
    <3> DEFINE m == [kind |-> kind, chan |-> channels[i], shown |-> rows[i], steady |-> AtRest]
    <3>1. /\ open /\ modal' = m
          /\ UNCHANGED <<vars, open, spinning, editing, rows, awaiting, fresh, unanswered, stray>>
      BY <1>6, <2>2 DEF Touch, Touchable
    <3>2. rows \in Seq(Channel \union {Blank}) /\ i \in 1..Len(rows)
      BY DEF ScreenInv, ScreenTypeOK
    <3>3. channels[i] \in Channel /\ rows[i] \in Channel \union {Blank}
      BY <1>a, <2>2, <3>2
    <3>4. AtRest => channels[i] = rows[i]
      BY DEF ScreenInv, RowsInStep
    <3>5. m \in Modal
      BY <3>3 DEF Modal, AtRest
    <3>6. RowsInStep'
      BY <3>1, StillInStep DEF ScreenInv, AtRest, vars, lists
    <3> QED BY <1>0, <3>1, <3>4, <3>5, <3>6 DEF ScreenInv, ScreenTypeOK, vars
  <2> QED BY <1>6, <2>1, <2>2 DEF Touch
<1>7. ASSUME NEW m \in queue, Acknowledge(m) PROVE ScreenInv'
  <2>1. UNCHANGED <<channels, loads, currentUser, open, spinning, editing, modal, fresh, unanswered>>
        /\ awaiting' \subseteq awaiting
    BY <1>7 DEF Acknowledge, Commit, lists
  <2>2. CASE Reload
    BY <1>0, <1>b, <2>1, <2>2 DEF Reload, ScreenInv, ScreenTypeOK, RowsInStep
  <2>3. CASE UNCHANGED <<rows, stray>>
    <3>1. RowsInStep'
      BY <2>1, <2>3, StillInStep DEF ScreenInv, AtRest
    <3> QED BY <1>0, <2>1, <2>3, <3>1 DEF ScreenInv, ScreenTypeOK
  <2> QED BY <1>7, <2>2, <2>3 DEF Acknowledge
<1>8. ASSUME NEW l \in Load, PreLoad(l) PROVE UNCHANGED <<channels, currentUser>> /\ (AtRest' /\ open /\ ~stray => AtRest)
  <2>1. ASSUME AtRest', NEW k \in Load PROVE loads[k].stage \in {"idle", "blocks"}
    <3> DEFINE r == loads[k]
    <3>1. r \in LoadState /\ (k # l => loads'[k] = [r EXCEPT !.lone = FALSE]) /\ (k = l => r.stage = "idle")
      BY <1>0, <1>8 DEF PreLoad, TypeOK
    <3>2. loads'[k].stage \in {"idle", "blocks"}
      BY <2>1 DEF AtRest
    <3> HIDE DEF r
    <3>3. r.stage \in {"idle", "blocks"}
      BY <3>1, <3>2 DEF LoadState
    <3> QED BY <3>3 DEF r
  <2> QED BY <1>8, <2>1 DEF PreLoad, AtRest, lists
<1>9. ASSUME NEW l \in Load, OpenMessages(l) PROVE ScreenInv'
  <2>1. PreLoad(l) /\ UNCHANGED <<channels, currentUser, modal, awaiting, unanswered, stray>>
        /\ rows' = channels /\ currentUser # NoUser
    BY <1>9, <1>8 DEF OpenMessages, PreLoad
  <2> QED BY <1>0, <1>9, <1>b, <2>1 DEF OpenMessages, ScreenInv, ScreenTypeOK, RowsInStep
<1>10. ASSUME NEW l \in Load, PullRefresh(l) PROVE ScreenInv'
  <2>1. /\ UNCHANGED <<channels, currentUser, open, spinning, editing, rows, modal, awaiting, unanswered, stray>>
        /\ fresh' = fresh \union {l} /\ (AtRest' /\ open /\ ~stray => AtRest)
    BY <1>10, <1>8 DEF PullRefresh
  <2>2. RowsInStep'
    BY <2>1, StillInStep DEF ScreenInv, AtRest
  <2> QED BY <1>0, <2>1, <2>2 DEF ScreenInv, ScreenTypeOK
<1>11. ASSUME NEW l \in Load, ScreenAnswer(l) PROVE ScreenInv'
  <2>1. ASSUME NEW docs \in SUBSET User, BlocksArrive(l, docs), UNCHANGED screen PROVE ScreenInv'
    <3>1. loads' = [loads EXCEPT ![l] = [loads[l] EXCEPT !.stage = "list", !.got = docs]]
          /\ currentUser' = currentUser
      BY <2>1 DEF BlocksArrive
    <3>2. loads'[l].stage = "list"
      BY <1>0, <3>1 DEF TypeOK, LoadState
    <3>3. ~AtRest'
      BY <3>2 DEF AtRest
    <3> QED BY <1>d, <2>1, <3>1, <3>3 DEF RowsInStep
  <2>2. CASE BlocksFail(l) /\ Forget(l) /\ UNCHANGED stray
    <3>1. /\ UNCHANGED <<channels, currentUser, open, spinning, editing, rows, modal, awaiting, stray>>
          /\ fresh' = fresh \ {l} /\ unanswered' \in BOOLEAN
      BY <2>2 DEF BlocksFail, Forget, lists, ScreenInv, ScreenTypeOK
    <3>2. AtRest' => AtRest
      BY <1>0, <2>2, <3>1, RestOfOthers DEF BlocksFail, Finish, AtRest
    <3>3. RowsInStep'
      BY <3>1, <3>2, StillInStep DEF ScreenInv
    <3> QED BY <1>0, <3>1, <3>3 DEF ScreenInv, ScreenTypeOK
  <2>3. ASSUME NEW docs \in SUBSET Visible(currentUser),
               NEW listing \in Orders(Kept(docs)), ListArrives(l, docs, listing), UNCHANGED screen
        PROVE  ScreenInv'
    <3>1. currentUser' = currentUser
      BY <2>3 DEF ListArrives
    <3>2. loads'[l].stage = "names"
      <4> DEFINE n == Len(channels')
                 g == Range(channels')
      <4>1. loads' = [loads EXCEPT ![l] =
                        [loads[l] EXCEPT !.stage = "names", !.group = g, !.firsts = n, !.count = n]]
        BY <2>3 DEF ListArrives
      <4> HIDE DEF n, g
      <4> QED BY <1>0, <4>1 DEF TypeOK, LoadState
    <3>3. ~AtRest'
      BY <3>2 DEF AtRest
    <3> QED BY <1>d, <2>3, <3>1, <3>3 DEF RowsInStep
  <2>4. CASE ListFails(l) /\ Forget(l) /\ stray' = TRUE
    BY <1>0, <2>4 DEF ListFails, Forget, ScreenInv, ScreenTypeOK, RowsInStep, AtRest
  <2>5. CASE Lookup(l) /\ UNCHANGED screen
    <3>1. UNCHANGED <<channels, currentUser>>
      BY <2>5 DEF Lookup, FirstFound, FirstFails, SecondFound, SecondFails, NameMissing, Leave, lists
    <3>2. \A k \in Load : loads'[k].stage = loads[k].stage
      BY <1>0, <2>5, LookupKeepsStage
    <3>3. RowsInStep'
      BY <2>5, <3>1, <3>2, StillInStep DEF ScreenInv, AtRest, screen
    <3> QED BY <1>d, <2>5, <3>1, <3>3
  <2>6. CASE ReadedChannels(l)
    <3>1. /\ UNCHANGED <<channels, currentUser, open, editing, modal, awaiting, unanswered>>
          /\ fresh' = fresh \ {l}
      BY <2>6 DEF ReadedChannels, Notify, lists
    <3>2. CASE Reload /\ spinning' = FALSE
      BY <1>0, <1>b, <3>1, <3>2 DEF Reload, ScreenInv, ScreenTypeOK, RowsInStep
    <3>3. CASE stray' = TRUE /\ UNCHANGED <<rows, spinning>>
      BY <1>0, <3>1, <3>3 DEF ScreenInv, ScreenTypeOK, RowsInStep, AtRest
    <3> QED BY <2>6, <3>2, <3>3 DEF ReadedChannels
  <2> QED BY <1>11, <2>1, <2>2, <2>3, <2>4, <2>5, <2>6 DEF ScreenAnswer
<1>12. CASE UNCHANGED svars
  BY <1>12, <1>e DEF svars, vars, lists
<1> QED BY <1>1, <1>2, <1>3, <1>4, <1>5, <1>6, <1>7, <1>9, <1>10, <1>11, <1>12
    DEF ScreenNext, TapRow, DeleteButton

\* The screen's variables keep their types.
THEOREM ScreenTypeCorrect == ScreenSpec => []ScreenTypeOK
<1>1. ScreenInv => ScreenTypeOK
  BY DEF ScreenInv
<1> QED BY <1>1, ScreenInvInit, ScreenInvNext, PTL DEF ScreenSpec

\* Rows and array agree whenever no load is between its block list and its end,
\* however refreshes, sessions and deletions overlap.
THEOREM RowsInStepAlways == ScreenSpec => []RowsInStep
<1>1. ScreenInv => RowsInStep
  BY DEF ScreenInv
<1> QED BY <1>1, ScreenInvInit, ScreenInvNext, PTL DEF ScreenSpec

\* Only the alert's button asks for a deletion.
LEMMA OnlyConfirmDeletes ==
  ASSUME [ScreenNext]_svars, NEW m \in queue' \ queue, m.op = "delete"
  PROVE  Confirm
<1>1. CASE [Next]_vars
  <2>1. CASE UNCHANGED vars
    BY <2>1 DEF vars
  <2>2. ASSUME World PROVE FALSE
    BY <2>2 DEF World, SaveProfile, Block, CreateElsewhere, DeleteElsewhere, CreateChannel,
       Commit, SignIn, SignOut, Trap, Relaunch
  <2>3. ASSUME NEW l \in Load, PreLoad(l) \/ Answer(l) PROVE FALSE
    <3>1. CASE PreLoad(l)
      BY <3>1 DEF PreLoad
    <3>2. ASSUME NEW docs, NEW listing, ListArrives(l, docs, listing) PROVE FALSE
      BY <3>2 DEF ListArrives
    <3>3. CASE Answer(l)
      BY <3>2, <3>3 DEF Answer, BlocksArrive, BlocksFail, ListFails, Lookup, FirstFound,
         FirstFails, SecondFound, SecondFails, NameMissing, Leave, Notify
    <3> QED BY <2>3, <3>1, <3>3
  <2> QED BY <1>1, <2>1, <2>2, <2>3 DEF Next
<1> QED BY <1>1, ScreenStep

\* The alert deletes the conversation that the row showed, if the table was at
\* rest when its button was pressed, whatever happens while it asks.
THEOREM DeletesWhatWasShownAlways == ScreenSpec => DeletesWhatWasShown
<1> DEFINE A == \A m \in queue' \ queue :
                  m.op = "delete" /\ modal.steady => m.chan = modal.shown
<1>1. ScreenInv /\ [ScreenNext]_svars => [A]_svars
  <2> SUFFICES ASSUME ScreenInv, [ScreenNext]_svars, NEW m \in queue' \ queue,
                      m.op = "delete", modal.steady
               PROVE  m.chan = modal.shown
    OBVIOUS
  <2>1. Confirm
    BY OnlyConfirmDeletes
  <2>2. m.chan = modal.chan /\ modal # NoModal
    BY <2>1 DEF Confirm, NoModal
  <2> QED BY <2>2 DEF ScreenInv
<1> QED BY <1>1, ScreenInvInit, ScreenInvNext, PTL DEF ScreenSpec, DeletesWhatWasShown

-----------------------------------------------------------------------------
(* The screen's behaviours are behaviours of the manager                    *)

\* The queue of the manager: the user's deletions are made elsewhere.
LEMMA ManagerVisible == Visible(currentUser) \subseteq Manager!Visible(currentUser)
BY DEF Visible, Manager!Visible, Queued, Manager!Queued, Ever, Manager!Ever

\* A step that leaves the queue's other writes alone is the same step.
LEMMA ManagerQueue ==
  ASSUME NEW m, m.op # "delete"
  PROVE  /\ {w \in queue \union {m} : w.op # "delete"} = {w \in queue : w.op # "delete"} \union {m}
         /\ {w \in queue \ {m} : w.op # "delete"} = {w \in queue : w.op # "delete"} \ {m}
OBVIOUS

\* What the two instances share.
LEMMA ManagerSame ==
  /\ Manager!IdleLoad = IdleLoad
  /\ \A docs : Manager!Kept(docs) = Kept(docs) /\ Manager!Rejected(docs) = Rejected(docs)
  /\ \A S : Manager!Orders(S) = Orders(S)
  /\ \A f : Manager!Range(f) = Range(f)
  /\ \A u : Manager!Queued("set", u) = Queued("set", u)
  /\ Manager!Ever = Ever /\ Manager!Active = Active
<1>1. Manager!IdleLoad = IdleLoad
  BY DEF IdleLoad, Manager!IdleLoad
<1>2. \A docs : Manager!Kept(docs) = Kept(docs) /\ Manager!Rejected(docs) = Rejected(docs)
  BY DEF Kept, Manager!Kept, Rejected, Manager!Rejected, IsMyChannel, Manager!IsMyChannel,
     IsBlocked, Manager!IsBlocked
<1>3. \A S : Manager!Orders(S) = Orders(S)
  <2>1. \A s : Manager!IsInjective(s) <=> IsInjective(s)
    BY DEF IsInjective, Manager!IsInjective
  <2>2. \A S : Manager!Cardinality(S) = Cardinality(S)
    BY DEF Cardinality, Manager!Cardinality
  <2> QED BY <2>1, <2>2, Zenon DEF Orders, Manager!Orders
<1>4. \A f : Manager!Range(f) = Range(f)
  BY DEF Range, Manager!Range
<1>5. \A u : Manager!Queued("set", u) = Queued("set", u)
  BY DEF Queued, Manager!Queued
<1>6. Manager!Ever = Ever /\ Manager!Active = Active
  BY DEF Ever, Manager!Ever, Active, Manager!Active
<1> QED BY <1>1, <1>2, <1>3, <1>4, <1>5, <1>6

LEMMA ManagerInit == ScreenInit => Manager!Init
<1> SUFFICES ASSUME Init PROVE Manager!Init
  BY DEF ScreenInit
<1> QED BY ManagerSame DEF Init, Manager!Init

\* The acknowledgment of a write: of the user's deletion, one made elsewhere.
LEMMA ManagerCommit ==
  ASSUME ScreenTypeOK, NEW m \in queue, Commit(m)
  PROVE  [Manager!Next]_(Manager!vars)
<1>1. m \in Mutation
  BY DEF ScreenTypeOK, TypeOK
<1>2. CASE m.op # "delete"
  <2>1. m \in {w \in queue : w.op # "delete"}
    BY <1>2
  <2>2. Manager!Commit(m)
    BY <1>2, <2>1, ManagerQueue, ManagerSame DEF Commit, Manager!Commit, lists, Manager!lists
  <2> QED BY <2>1, <2>2 DEF Manager!Next, Manager!World
<1>3. CASE m.op = "delete"
  <2>1. {w \in queue' : w.op # "delete"} = {w \in queue : w.op # "delete"}
    BY <1>3 DEF Commit
  <2>2. m.chan \in Channel
    BY <1>1 DEF Mutation
  <2>3. CASE m.chan \in live
    <3>1. live' = live \ {m.chan} /\ gone' = gone \union {m.chan}
      BY <1>3, <2>3 DEF Commit
    <3>2. Manager!DeleteElsewhere(m.chan)
      BY <2>1, <2>3, <3>1 DEF Commit, Manager!DeleteElsewhere, lists, Manager!lists
    <3> QED BY <2>2, <3>2 DEF Manager!Next, Manager!World
  <2>4. CASE m.chan \notin live
    <3>1. UNCHANGED <<live, gone>>
      BY <1>3, <2>4 DEF Commit
    <3> QED BY <2>1, <3>1 DEF Commit, Manager!vars, lists
  <2> QED BY <2>3, <2>4
<1> QED BY <1>2, <1>3

\* What is not an acknowledgment changes the rest of the world alike.
LEMMA ManagerWorld ==
  ASSUME World, \A m \in queue : ~Commit(m)
  PROVE  Manager!World
<1>1. ASSUME NEW u \in User, SaveProfile(u) PROVE Manager!SaveProfile(u)
  BY <1>1 DEF SaveProfile, Manager!SaveProfile, lists, Manager!lists
<1>2. ASSUME NEW u \in User, NEW v \in User, Block(u, v) PROVE Manager!Block(u, v)
  <2>1. Manager!Ever = Ever
    BY ManagerSame
  <2>2. Manager!lists' = Manager!lists
    BY <1>2 DEF Block, lists, Manager!lists
  <2>3. {w \in queue' : w.op # "delete"} = {w \in queue : w.op # "delete"}
    BY <1>2 DEF Block
  <2>4. Manager!Cardinality(blocked) = Cardinality(blocked)
    BY DEF Cardinality, Manager!Cardinality
  <2> QED BY <1>2, <2>1, <2>2, <2>3, <2>4 DEF Block, Manager!Block
<1>3. ASSUME NEW c \in Channel, CreateElsewhere(c) PROVE Manager!CreateElsewhere(c)
  BY <1>3, ManagerSame DEF CreateElsewhere, Manager!CreateElsewhere, lists, Manager!lists
<1>4. ASSUME NEW c \in Channel, DeleteElsewhere(c) PROVE Manager!DeleteElsewhere(c)
  BY <1>4 DEF DeleteElsewhere, Manager!DeleteElsewhere, lists, Manager!lists
<1>5. ASSUME NEW c \in Channel, CreateChannel(c) PROVE Manager!CreateChannel(c)
  <2> DEFINE m == [op |-> "set", by |-> currentUser, chan |-> c]
  <2>1. queue' = queue \union {m}
    BY <1>5 DEF CreateChannel
  <2>2. {w \in queue' : w.op # "delete"} = {w \in queue : w.op # "delete"} \union {m}
    BY <2>1, ManagerQueue
  <2> QED BY <1>5, <2>2, ManagerSame
      DEF CreateChannel, Manager!CreateChannel, server, Manager!server, lists, Manager!lists
<1>6. ASSUME NEW u \in Account, SignIn(u) PROVE Manager!SignIn(u)
  BY <1>6 DEF SignIn, Manager!SignIn, server, Manager!server, lists, Manager!lists
<1>7. ASSUME SignOut PROVE Manager!SignOut
  BY <1>7 DEF SignOut, Manager!SignOut, server, Manager!server, lists, Manager!lists
<1>8. ASSUME Trap PROVE Manager!Trap
  BY <1>8 DEF Trap, Manager!Trap, server, Manager!server, lists, Manager!lists
<1>9. ASSUME Relaunch PROVE Manager!Relaunch
  BY <1>9, ManagerSame DEF Relaunch, Manager!Relaunch, server, Manager!server
<1> QED BY <1>1, <1>2, <1>3, <1>4, <1>5, <1>6, <1>7, <1>8, <1>9 DEF World, Manager!World

\* A load sees no less when the user's deletions are made elsewhere.
LEMMA ManagerLoad ==
  ASSUME NEW l \in Load, PreLoad(l) \/ Answer(l)
  PROVE  Manager!PreLoad(l) \/ Manager!Answer(l)
<1> USE ManagerSame
<1>1. ASSUME PreLoad(l) PROVE Manager!PreLoad(l)
  BY <1>1 DEF PreLoad, Manager!PreLoad, server, Manager!server
<1>2. ASSUME NEW docs \in SUBSET User, BlocksArrive(l, docs) PROVE Manager!BlocksArrive(l, docs)
  BY <1>2 DEF BlocksArrive, Manager!BlocksArrive, server, Manager!server
<1>3. ASSUME BlocksFail(l) \/ ListFails(l) PROVE Manager!BlocksFail(l) \/ Manager!ListFails(l)
  BY <1>3 DEF BlocksFail, Manager!BlocksFail, ListFails, Manager!ListFails, Finish, Manager!Finish,
     server, Manager!server, lists, Manager!lists
<1>4. ASSUME NEW docs \in SUBSET Visible(currentUser), NEW listing \in Orders(Kept(docs)),
             ListArrives(l, docs, listing)
      PROVE  Manager!Answer(l)
  <2> DEFINE new == {[op |-> "reject", by |-> currentUser, chan |-> c] : c \in Rejected(docs)}
  <2>1. queue' = queue \union new
    BY <1>4 DEF ListArrives
  <2>2. \A w \in new : w.op # "delete"
    OBVIOUS
  <2>3. {w \in queue' : w.op # "delete"} = {w \in queue : w.op # "delete"} \union new
    BY <2>1, <2>2
  <2>4. docs \in SUBSET Manager!Visible(currentUser) /\ listing \in Manager!Orders(Manager!Kept(docs))
    BY ManagerVisible
  <2>5. Manager!ListArrives(l, docs, listing)
    BY <1>4, <2>3, <2>4 DEF ListArrives, Manager!ListArrives, server, Manager!server
  <2> QED BY <2>4, <2>5 DEF Manager!Answer
<1>5. ASSUME FirstFound(l) \/ FirstFails(l) \/ NameMissing(l)
      PROVE  Manager!FirstFound(l) \/ Manager!FirstFails(l) \/ Manager!NameMissing(l)
  BY <1>5 DEF FirstFound, Manager!FirstFound, FirstFails, Manager!FirstFails, NameMissing,
     Manager!NameMissing, Looking, Manager!Looking, server, Manager!server, lists, Manager!lists
<1>6. ASSUME SecondFound(l) \/ SecondFails(l)
      PROVE  Manager!SecondFound(l) \/ Manager!SecondFails(l)
  BY <1>6 DEF SecondFound, Manager!SecondFound, SecondFails, Manager!SecondFails, Leave,
     Manager!Leave, Looking, Manager!Looking, server, Manager!server, lists, Manager!lists
<1>7. ASSUME Notify(l) PROVE Manager!Notify(l)
  BY <1>7 DEF Notify, Manager!Notify, Finish, Manager!Finish, server, Manager!server, lists, Manager!lists
<1> QED BY <1>1, <1>2, <1>3, <1>4, <1>5, <1>6, <1>7
    DEF Answer, Manager!Answer, Lookup, Manager!Lookup

\* The answer to the alert is, for the manager, no step at all.
LEMMA ManagerConfirm == ScreenTypeOK /\ Confirm => UNCHANGED Manager!vars
<1> SUFFICES ASSUME Confirm PROVE UNCHANGED Manager!vars
  OBVIOUS
<1>1. {w \in queue' : w.op # "delete"} = {w \in queue : w.op # "delete"}
  BY DEF Confirm
<1> QED BY <1>1 DEF Confirm, Manager!vars, server, lists

\* The conversations screen drives the manager as ChannelsManager says: what
\* is proved of the manager alone holds under the screen.
THEOREM ManagerImplemented == ScreenSpec => ManagerSpec
<1>1. ScreenInv /\ [ScreenNext]_svars => [Manager!Next]_(Manager!vars)
  <2> SUFFICES ASSUME ScreenInv, [ScreenNext]_svars PROVE [Manager!Next]_(Manager!vars)
    OBVIOUS
  <2>1. CASE Confirm
    BY <2>1, ManagerConfirm DEF ScreenInv
  <2>2. CASE UNCHANGED vars
    BY <2>2 DEF vars, Manager!vars
  <2>3. ASSUME NEW m \in queue, Commit(m) PROVE [Manager!Next]_(Manager!vars)
    BY <2>3, ManagerCommit DEF ScreenInv
  <2>4. CASE World /\ \A m \in queue : ~Commit(m)
    BY <2>4, ManagerWorld DEF Manager!Next
  <2>5. ASSUME NEW l \in Load, PreLoad(l) \/ Answer(l) PROVE Manager!Next
    BY <2>5, ManagerLoad DEF Manager!Next
  <2> QED BY <2>1, <2>2, <2>3, <2>4, <2>5, ScreenStep DEF Next
<1> QED BY <1>1, ManagerInit, ScreenInvInit, ScreenInvNext, PTL DEF ScreenSpec, ManagerSpec, Manager!Spec
=============================================================================
