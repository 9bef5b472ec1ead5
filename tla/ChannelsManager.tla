--------------------------- MODULE ChannelsManager ---------------------------
(***************************************************************************)
(* The singleton that holds the conversations of the signed-in account     *)
(* (Model/Managers/ChannelsManager.swift), on one phone, with the documents *)
(* it reads and deletes.                                                   *)
(*                                                                         *)
(* Every call to the store is asynchronous: a load of the list is a chain  *)
(* of callbacks (the block list, the channels, two names per channel), and *)
(* several loads run at once when the screen asks again before the last    *)
(* one finished.  All of them write the same two arrays, block and         *)
(* channels, and read UserManager.currentUser when an answer arrives, not  *)
(* when it was asked for.                                                  *)
(***************************************************************************)
EXTENDS Integers, Sequences, FiniteSets, Functions

CONSTANTS
  User,      \* every uid of the service
  Profiled,  \* the users whose profile document exists at the start
  Account,   \* the uids that sign in on this phone
  NoUser,    \* UserManager.currentUser = nil
  Channel,   \* the channel documents that may ever exist
  MaxBlock,  \* bound: the block documents that are written
  Load       \* bound: the loads that may be in flight at once

ASSUME UserAssumption == NoUser \notin User /\ Account \subseteq User /\ Profiled \subseteq User
ASSUME ChannelAssumption ==
  /\ IsFiniteSet(Channel)
  /\ \A c \in Channel : c.first \in User /\ c.second \in User /\ c.first # c.second

VARIABLES
  blocked,      \* pairs <<u, v>>: the document users/u/block/v exists
  profile,      \* the users whose document users/u exists
  live,         \* the documents of the collection channels
  gone,         \* channels deleted on the server
  queue,        \* writes of this phone the server has not acknowledged
  currentUser,  \* UserManager.instance.currentUser
  block,        \* ChannelsManager.instance.block
  channels,     \* ChannelsManager.instance.channels
  loads,        \* the loads in flight
  crashed,      \* the process was stopped by a runtime trap
  seen          \* history: the accounts used since the app was launched

server == <<blocked, profile, live, gone>>
lists == <<block, channels>>
vars == <<blocked, profile, live, gone, queue, currentUser, block, channels,
          loads, crashed, seen>>

-----------------------------------------------------------------------------
(* Channels and the phone's view of the store *)

Other(c, u) == IF c.first = u THEN c.second ELSE c.first

Ever == live \union gone

\* Writes still queued.  Firestore keeps one durable queue per account.  A load
\* makes a "reject", the user's own deletion (module Messages) is a "delete".
Mutation == [op : {"set", "reject", "delete"}, by : User, chan : Channel]
Queued(op, u) == {c \in Channel : [op |-> op, by |-> u, chan |-> c] \in queue}

\* What a query may return to account u: the documents of the server or, when
\* the phone is offline, those that its cache still holds; u's own queued
\* writes are laid over both.
Visible(u) ==
  (Ever \union Queued("set", u)) \ (Queued("reject", u) \union Queued("delete", u))

AnyChannel(c) == TRUE
IsMyChannel(c) == currentUser \in {c.first, c.second}
IsBlockedFirst(c) == c.first \in block
IsBlocked(c) == c.first \in block \/ c.second \in block

\* The documents of an answer that the loop keeps, and those it deletes.
Kept(docs) == {c \in docs : IsMyChannel(c) /\ ~IsBlocked(c)}
RejectedOfAnyone(docs) == {c \in docs : IsBlocked(c)}
Rejected(docs) == {c \in docs : IsMyChannel(c) /\ IsBlocked(c)}

\* (AnyChannel, IsBlockedFirst, RejectedOfAnyone, like every definition below
\* that says "slip", are wrong on purpose: they replace the definition that
\* follows them in the checks that show a property can fail.)

\* The query sorts by lastMessageDate, which every message changes: any order.
Orders(S) == {s \in [1..Cardinality(S) -> S] : IsInjective(s)}

-----------------------------------------------------------------------------
(* One load *)

Stage == {"idle", "blocks", "list", "names", "told"}

\* uid: whose block list was asked for; count: the DispatchGroup; firsts and
\* seconds: name lookups not answered; group: the channels being looked up.
\* History: got, the blocked users of the answer; lone, no other load ran
\* since this one began; failed, some lookup ended in an error.
LoadState == [stage : Stage, uid : User \union {NoUser}, got : SUBSET User,
              group : SUBSET Channel, firsts : Nat, seconds : Nat, count : Nat,
              lone : BOOLEAN, failed : BOOLEAN]

IdleLoad == [stage |-> "idle", uid |-> NoUser, got |-> {}, group |-> {},
             firsts |-> 0, seconds |-> 0, count |-> 0,
             lone |-> FALSE, failed |-> FALSE]

Active == {l \in Load : loads[l].stage # "idle"}
Finish(l) == loads' = [loads EXCEPT ![l] = IdleLoad]

Init ==
  /\ blocked = {} /\ profile = Profiled
  /\ live \in SUBSET Channel /\ gone = {} /\ queue = {}
  /\ currentUser = NoUser /\ seen = {}
  /\ block = {} /\ channels = <<>>
  /\ loads = [l \in Load |-> IdleLoad]
  /\ crashed = FALSE

-----------------------------------------------------------------------------
(* The rest of the service: other phones, and the other screens *)

SaveProfile(u) ==
  /\ u \notin profile
  /\ profile' = profile \union {u}
  /\ UNCHANGED <<blocked, live, gone, queue, currentUser, lists, loads, crashed, seen>>

\* A complaint writes both pairs, each as a write of its own that may be lost;
\* only the lists of this phone's accounts are read here.
Block(u, v) ==
  /\ u \in Account /\ Cardinality(blocked) < MaxBlock
  /\ \E c \in Ever : {c.first, c.second} = {u, v}
  /\ blocked' = blocked \union {<<u, v>>}
  /\ UNCHANGED <<profile, live, gone, queue, currentUser, lists, loads, crashed, seen>>

CreateElsewhere(c) ==
  /\ c \notin Ever /\ \A m \in queue : m.chan # c
  /\ live' = live \union {c}
  /\ UNCHANGED <<blocked, profile, gone, queue, currentUser, lists, loads, crashed, seen>>

DeleteElsewhere(c) ==
  /\ c \in live
  /\ live' = live \ {c} /\ gone' = gone \union {c}
  /\ UNCHANGED <<blocked, profile, queue, currentUser, lists, loads, crashed, seen>>

\* A queued write reaches the server, only while its account is signed in.
Commit(m) ==
  /\ ~crashed /\ m \in queue /\ m.by = currentUser
  /\ m.op # "set" => m.chan \notin Queued("set", m.by)
  /\ queue' = queue \ {m}
  /\ IF m.op = "set"
     THEN live' = live \union {m.chan} /\ UNCHANGED gone
     ELSE live' = live \ {m.chan} /\ gone' = gone \union (live \intersect {m.chan})
  /\ UNCHANGED <<blocked, profile, currentUser, lists, loads, crashed, seen>>

SignIn(u) ==
  /\ ~crashed /\ currentUser = NoUser
  /\ currentUser' = u /\ seen' = seen \union {u}
  /\ UNCHANGED <<server, queue, lists, loads, crashed>>

\* Nothing that is loading is cancelled, and both arrays keep their contents.
SignOut ==
  /\ ~crashed /\ currentUser # NoUser
  /\ currentUser' = NoUser
  /\ UNCHANGED <<server, queue, lists, loads, crashed, seen>>

\* Other code of the app traps (the screen of module Messages does).
Trap ==
  /\ ~crashed /\ crashed' = TRUE
  /\ UNCHANGED <<server, queue, currentUser, lists, loads, seen>>

\* The process ends, by a trap or by the user, and starts again: the account
\* and the queued writes are on disk, the rest is lost.
Relaunch ==
  /\ block' = {} /\ channels' = <<>>
  /\ loads' = [l \in Load |-> IdleLoad]
  /\ crashed' = FALSE
  /\ seen' = {currentUser} \ {NoUser}
  /\ UNCHANGED <<server, queue, currentUser>>

-----------------------------------------------------------------------------
(* The manager *)

\* createChannel: the document is in the local view at once.
CreateChannel(c) ==
  /\ ~crashed /\ c.first = currentUser
  /\ c \notin Ever /\ \A m \in queue : m.chan # c
  /\ queue' = queue \union {[op |-> "set", by |-> currentUser, chan |-> c]}
  /\ UNCHANGED <<server, currentUser, lists, loads, crashed, seen>>

\* preLoad: the block array is emptied when the call is made.
PreLoad(l) ==
  /\ ~crashed /\ currentUser # NoUser /\ loads[l].stage = "idle"
  /\ block' = {}
  /\ loads' = [k \in Load |->
       IF k = l
       THEN [IdleLoad EXCEPT !.stage = "blocks", !.uid = currentUser, !.lone = Active = {}]
       ELSE [loads[k] EXCEPT !.lone = FALSE]]
  /\ UNCHANGED <<server, queue, currentUser, channels, crashed, seen>>

\* The block list arrives: it is appended, and loadChannels empties channels.
BlocksArrive(l, docs) ==
  /\ ~crashed /\ loads[l].stage = "blocks"
  /\ docs \subseteq {v \in User : <<loads[l].uid, v>> \in blocked}
  /\ block' = block \union docs
  /\ channels' = <<>>
  /\ loads' = [loads EXCEPT ![l].stage = "list", ![l].got = docs]
  /\ UNCHANGED <<server, queue, currentUser, crashed, seen>>

\* The error is printed and the requester is never called.
BlocksFail(l) ==
  /\ ~crashed /\ loads[l].stage = "blocks"
  /\ Finish(l)
  /\ UNCHANGED <<server, queue, currentUser, lists, crashed, seen>>

\* The channels arrive: the loop appends mine and deletes mine that are
\* blocked, and loadUsernames enters the group once per element of channels.
ListArrives(l, docs, listing) ==
  /\ ~crashed /\ loads[l].stage = "list"
  /\ docs \subseteq Visible(currentUser)
  /\ listing \in Orders(Kept(docs))
  /\ channels' = channels \o listing
  /\ queue' = queue \union
       {[op |-> "reject", by |-> currentUser, chan |-> c] : c \in Rejected(docs)}
  /\ loads' = [loads EXCEPT ![l].stage = "names", ![l].group = Range(channels'),
                            ![l].firsts = Len(channels'), ![l].count = Len(channels')]
  /\ UNCHANGED <<server, currentUser, block, crashed, seen>>

ListFails(l) ==
  /\ ~crashed /\ loads[l].stage = "list"
  /\ Finish(l)
  /\ UNCHANGED <<server, queue, currentUser, lists, crashed, seen>>

-----------------------------------------------------------------------------
(* retriveDisplayName, twice per channel, and the group they leave *)

Looking(l) == ~crashed /\ loads[l].stage \in {"names", "told"}

\* Slip: an unbalanced leave goes unnoticed.
LeaveUnchecked(l, n, failure) ==
  /\ loads' = [loads EXCEPT ![l].count = @ - n, ![l].seconds = @ - 1,
                            ![l].failed = @ \/ failure]
  /\ UNCHANGED <<server, queue, currentUser, lists, crashed, seen>>

\* dispatch.leave(), n times: below zero the library stops the process.
Leave(l, n, failure) ==
  /\ IF loads[l].count >= n
     THEN /\ loads' = [loads EXCEPT ![l].count = @ - n, ![l].seconds = @ - 1,
                                    ![l].failed = @ \/ failure]
          /\ UNCHANGED crashed
     ELSE crashed' = TRUE /\ UNCHANGED loads
  /\ UNCHANGED <<server, queue, currentUser, lists, seen>>

\* Slip: the closure returns without a second lookup or a leave.
FirstFoundOnly(l) ==
  /\ Looking(l) /\ loads[l].firsts > 0
  /\ loads' = [loads EXCEPT ![l].firsts = @ - 1]
  /\ UNCHANGED <<server, queue, currentUser, lists, crashed, seen>>

\* The closure of the first lookup starts the second one.
FirstFound(l) ==
  /\ Looking(l) /\ loads[l].firsts > 0
  /\ \E c \in loads[l].group : c.first \in profile
  /\ loads' = [loads EXCEPT ![l].firsts = @ - 1, ![l].seconds = @ + 1]
  /\ UNCHANGED <<server, queue, currentUser, lists, crashed, seen>>

\* An error calls the closure with the error and, the document being nil,
\* once more without: two second lookups.
FirstFails(l) ==
  /\ Looking(l) /\ loads[l].firsts > 0
  /\ loads' = [loads EXCEPT ![l].firsts = @ - 1, ![l].seconds = @ + 2, ![l].failed = TRUE]
  /\ UNCHANGED <<server, queue, currentUser, lists, crashed, seen>>

SecondFound(l) ==
  /\ Looking(l) /\ loads[l].seconds > 0
  /\ \E c \in loads[l].group : c.second \in profile
  /\ Leave(l, 1, FALSE)

SecondFails(l) ==
  /\ Looking(l) /\ loads[l].seconds > 0
  /\ Leave(l, 2, TRUE)

\* The answer says there is no such document, and data()! traps.
NameMissing(l) ==
  /\ Looking(l)
  /\ \E c \in loads[l].group : \/ loads[l].firsts > 0 /\ c.first \notin profile
                               \/ loads[l].seconds > 0 /\ c.second \notin profile
  /\ crashed' = TRUE
  /\ UNCHANGED <<server, queue, currentUser, lists, loads, seen>>

\* The group is empty: requester.readedChannels.  A lookup that is still out
\* (one failed, and left the group twice) keeps the load in stage "told".
Notify(l) ==
  /\ ~crashed /\ loads[l].stage = "names" /\ loads[l].count = 0
  /\ IF loads[l].firsts + loads[l].seconds = 0
     THEN Finish(l)
     ELSE loads' = [loads EXCEPT ![l].stage = "told"]
  /\ UNCHANGED <<server, queue, currentUser, lists, crashed, seen>>

-----------------------------------------------------------------------------

World ==
  \/ \E u \in User : SaveProfile(u)
  \/ \E u, v \in User : Block(u, v)
  \/ \E c \in Channel : CreateElsewhere(c) \/ DeleteElsewhere(c) \/ CreateChannel(c)
  \/ \E m \in queue : Commit(m)
  \/ \E u \in Account : SignIn(u)
  \/ SignOut
  \/ Trap
  \/ Relaunch

Lookup(l) ==
  FirstFound(l) \/ FirstFails(l) \/ SecondFound(l) \/ SecondFails(l) \/ NameMissing(l)

\* The next callback of load l.
Answer(l) ==
  \/ \E docs \in SUBSET User : BlocksArrive(l, docs)
  \/ BlocksFail(l)
  \/ \E docs \in SUBSET Visible(currentUser) :
       \E listing \in Orders(Kept(docs)) : ListArrives(l, docs, listing)
  \/ ListFails(l)
  \/ Lookup(l)
  \/ Notify(l)

Next == World \/ \E l \in Load : PreLoad(l) \/ Answer(l)

Spec == Init /\ [][Next]_vars

\* A request is always answered, by the server or, once the client gives the
\* connection up, from its cache; the group's block is on the main queue.
FairSpec == Spec /\ \A l \in Load : WF_vars(Answer(l))

-----------------------------------------------------------------------------
(* Properties *)

\* Every variable keeps its type; the group's count never goes below zero
\* (the unbalanced dispatch.leave() of retriveDisplayName traps first).
TypeOK ==
  /\ blocked \subseteq Account \X User /\ profile \subseteq User
  /\ live \subseteq Channel /\ gone \subseteq Channel
  /\ queue \subseteq Mutation
  /\ currentUser \in Account \union {NoUser} /\ seen \subseteq Account
  /\ block \subseteq User /\ channels \in Seq(Channel)
  /\ loads \in [Load -> LoadState]
  /\ crashed \in BOOLEAN

\* Both arrays outlive a sign-out and answers keep arriving after it, but what
\* they hold comes from an account used since the launch: a listed channel is
\* a channel of such an account, a blocked uid was blocked by one.
SessionIsolation ==
  /\ \A c \in Range(channels) : {c.first, c.second} \intersect seen # {}
  /\ \A v \in block : \E u \in seen : <<u, v>> \in blocked

\* loadChannels deletes a document of both users while it builds a list.  As
\* long as one account only was used since the launch, it deletes none but a
\* channel of that account whose other user that account has blocked, however
\* loads overlap and whatever the cache answers.
DeletionJustified ==
  [][\A m \in queue' \ queue :
       m.op = "reject" /\ seen \subseteq {m.by} =>
         /\ m.by \in {m.chan.first, m.chan.second}
         /\ <<m.by, Other(m.chan, m.by)>> \in blocked]_vars

\* The group of loadUsernames never waits for a lookup that is not under way
\* (the list would never be shown), and unless a lookup failed its count is
\* the number of lookups that are.
GroupBalanced ==
  \A l \in Load : loads[l].stage \in {"names", "told"} =>
    /\ loads[l].count <= loads[l].firsts + loads[l].seconds
    /\ ~loads[l].failed => loads[l].count = loads[l].firsts + loads[l].seconds

\* A load that no other load overlapped hands its requester every channel at
\* most once, and none with a user of the block list it was given, also when
\* the account changed between two of its answers.
LoneLoadIsExact ==
  \A l \in Load : loads[l].lone /\ loads[l].stage = "names" =>
    /\ IsInjective(channels)
    /\ \A c \in Range(channels) : {c.first, c.second} \intersect loads[l].got = {}

=============================================================================
