---------------------------- MODULE RelatoManager ----------------------------
(***************************************************************************)
(* The feed of stories (Model/Managers/RelatoManager.swift and its screen,  *)
(* Controller/Feed.swift) on one phone, with the documents it reads.       *)
(*                                                                         *)
(* Like ChannelsManager, a singleton with two arrays, block and stories,   *)
(* filled by a chain of two queries that a refresh starts again while the  *)
(* last chain is under way.  loadStories is handed the block list that was *)
(* read for it, and filters by the shared array instead.                   *)
(***************************************************************************)
EXTENDS Integers, Sequences, FiniteSets, Functions

CONSTANTS
  User,     \* every uid
  Account,  \* those that sign in on this phone
  NoUser,   \* UserManager.currentUser = nil
  Story,    \* the stories that may ever be posted, in the order of their dates
  Author,   \* the field "autor" of each
  Load,     \* bound: the loads in flight at once
  Offline,  \* whether queries may be answered from the phone's cache
  MaxEdit   \* bound: the times stories are archived, restored or deleted

ASSUME UserAssumption == NoUser \notin User /\ Account \subseteq User
ASSUME StoryAssumption ==
  Story \subseteq Nat /\ IsFiniteSet(Story) /\ Author \in [Story -> User]
ASSUME BoundAssumption == Offline \in BOOLEAN /\ MaxEdit \in Nat

VARIABLES
  blocked,      \* pairs <<u, v>>: the document users/u/block/v exists
  status,       \* the field "status" of each story document, or its absence
  edits,        \* counts up to MaxEdit
  currentUser,  \* UserManager.instance.currentUser
  block,        \* RelatoManager.instance.block
  stories,      \* RelatoManager.instance.stories
  loads,        \* the loads in flight
  open,         \* the feed of this session has been loaded
  spinning,     \* activityView is animating
  rows,         \* what the rows of feedTableView show
  crashed,      \* the process was stopped by a trap
  drawn,        \* history: the load whose readedStories drew the rows
  unanswered,   \* history: a load of this feed ended in an error
  stray         \* history: the array changed for good since, unseen

store == <<blocked, status, edits>>
lists == <<block, stories>>
feed == <<open, spinning, rows, drawn, unanswered, stray>>
vars == <<store, currentUser, lists, loads, feed, crashed>>

-----------------------------------------------------------------------------
(* Stories and loads *)

Status == {"absent", "active", "archived", "deleted"}
Stage == {"idle", "blocks", "stories"}

\* uid: whose block list was asked for; own: the requester is the feed on show,
\* not one of an earlier session.  History: lone, no other load ran since it
\* was asked for; hide, the users that uid had blocked by then; off, the
\* stories that were archived or deleted by then, and still are; stale, the cache
\* answered one of its queries with less or more than the server has.
LoadState == [stage : Stage, uid : User \union {NoUser}, own : BOOLEAN, lone : BOOLEAN,
              hide : SUBSET User, off : SUBSET Story, stale : BOOLEAN]
IdleLoad == [stage |-> "idle", uid |-> NoUser, own |-> FALSE, lone |-> FALSE,
             hide |-> {}, off |-> {}, stale |-> FALSE]

Active == {l \in Load : loads[l].stage # "idle"}
Finish(l) == loads' = [loads EXCEPT ![l] = IdleLoad]

BlockedBy(u) == {v \in User : <<u, v>> \in blocked}
Off == {s \in Story : status[s] \in {"archived", "deleted"}}

\* (A definition that says "slip" is wrong on purpose: it replaces the one that
\* follows it in the checks that show a property can fail.)

\* Slip: the status is not looked at.
ListedAnyStatus(s) == status[s] \in {"active", "archived"} /\ Author[s] \notin block

\* A document of the server's answer that the loop appends.
Listed(s) == status[s] = "active" /\ Author[s] \notin block

\* A document of an answer from the cache, whose status may be an old one.
ListedFromCache(s) == Offline /\ status[s] # "absent" /\ Author[s] \notin block

\* The query sorts by the date of the story, latest first.
Descending(S) ==
  {s \in [1..Cardinality(S) -> S] : \A i, j \in 1..Cardinality(S) : i < j => s[i] > s[j]}

Init ==
  /\ blocked = {} /\ status = [s \in Story |-> "absent"] /\ edits = 0
  /\ currentUser = NoUser /\ block = {} /\ stories = <<>>
  /\ loads = [l \in Load |-> IdleLoad]
  /\ open = FALSE /\ spinning = FALSE /\ rows = <<>> /\ drawn = IdleLoad
  /\ unanswered = FALSE /\ stray = FALSE /\ crashed = FALSE

-----------------------------------------------------------------------------
(* The service: other phones and other screens *)

\* complainAction, one of its two writes.
Block(u, v) ==
  /\ u \in Account /\ u # v
  /\ blocked' = blocked \union {<<u, v>>}
  /\ UNCHANGED <<status, edits, currentUser, lists, loads, feed, crashed>>

\* Relato.init and the sendButton of NewStoryScreen save the same document.
Post(s) ==
  /\ status[s] = "absent" /\ \A t \in Story : t > s => status[t] = "absent"
  /\ status' = [status EXCEPT ![s] = "active"]
  /\ UNCHANGED <<blocked, edits, currentUser, lists, loads, feed, crashed>>

\* Slip: a status no other code knows.
SetStatusMisspelt(s, from, to) ==
  /\ edits < MaxEdit /\ edits' = edits + 1
  /\ status[s] = from /\ status' = [status EXCEPT ![s] = "passado"]
  /\ UNCHANGED <<blocked, currentUser, lists, loads, feed, crashed>>

\* archiveButton and the deleteButton of the profile, on its author's phone.
SetStatus(s, from, to) ==
  /\ edits < MaxEdit /\ edits' = edits + 1
  /\ status[s] = from /\ status' = [status EXCEPT ![s] = to]
  /\ loads' = [l \in Load |-> [loads[l] EXCEPT !.off = IF to = "active" THEN @ \ {s} ELSE @]]
  /\ UNCHANGED <<blocked, currentUser, lists, feed, crashed>>

Edit(s) ==
  \/ SetStatus(s, "active", "archived")
  \/ SetStatus(s, "archived", "active")
  \/ SetStatus(s, "active", "deleted")
  \/ SetStatus(s, "archived", "deleted")

SignIn(u) ==
  /\ ~crashed /\ currentUser = NoUser /\ currentUser' = u
  /\ UNCHANGED <<store, lists, loads, feed, crashed>>

CloseFeed ==
  /\ open' = FALSE /\ spinning' = FALSE /\ rows' = <<>> /\ drawn' = IdleLoad
  /\ unanswered' = FALSE /\ stray' = FALSE

\* The arrays and the loads outlive the session.
SignOut ==
  /\ ~crashed /\ currentUser # NoUser /\ currentUser' = NoUser
  /\ loads' = [l \in Load |-> [loads[l] EXCEPT !.own = FALSE]]
  /\ CloseFeed
  /\ UNCHANGED <<store, lists, crashed>>

Relaunch ==
  /\ block' = {} /\ stories' = <<>>
  /\ loads' = [l \in Load |-> IdleLoad]
  /\ crashed' = FALSE
  /\ CloseFeed
  /\ UNCHANGED <<store, currentUser>>

-----------------------------------------------------------------------------
(* RelatoManager *)

PreLoad(l) ==
  /\ ~crashed /\ currentUser # NoUser /\ loads[l].stage = "idle"
  /\ block' = {}
  /\ loads' = [k \in Load |->
       IF k = l
       THEN [stage |-> "blocks", uid |-> currentUser, own |-> TRUE, lone |-> Active = {},
             hide |-> BlockedBy(currentUser), off |-> Off, stale |-> FALSE]
       ELSE [loads[k] EXCEPT !.lone = FALSE]]
  /\ UNCHANGED <<store, currentUser, stories, crashed>>

\* The block list is appended; loadStories empties stories and asks for them.
BlocksArrive(l, docs) ==
  /\ ~crashed /\ loads[l].stage = "blocks"
  /\ docs \subseteq BlockedBy(loads[l].uid) /\ (~Offline => docs = BlockedBy(loads[l].uid))
  /\ block' = block \union docs
  /\ stories' = <<>>
  /\ loads' = [loads EXCEPT ![l].stage = "stories", ![l].stale = docs # BlockedBy(loads[l].uid)]
  /\ UNCHANGED <<store, currentUser, feed, crashed>>

\* Either query fails: the error is printed, and nobody is told.
QueryFails(l) ==
  /\ ~crashed /\ loads[l].stage # "idle"
  /\ Finish(l)
  /\ unanswered' = (unanswered \/ loads[l].own)
  /\ stray' = (stray \/ loads[l].stage = "stories")
  /\ UNCHANGED <<store, currentUser, lists, open, spinning, rows, drawn, crashed>>

\* Slip: readedStories leaves the spinner on when the feed is empty.
ReadedSomeStories(load) ==
  IF load.own
  THEN /\ rows' = stories' /\ drawn' = load /\ stray' = FALSE
       /\ spinning' = (spinning /\ stories' = <<>>)
  ELSE stray' = TRUE /\ UNCHANGED <<rows, drawn, spinning>>

\* requester.readedStories; an old screen redraws a table nobody sees.
ReadedStories(load) ==
  IF load.own
  THEN /\ rows' = stories' /\ drawn' = load /\ stray' = FALSE /\ spinning' = FALSE
  ELSE stray' = TRUE /\ UNCHANGED <<rows, drawn, spinning>>

\* The stories arrive: the loop appends those listed, and the requester is told.
StoriesArrive(l, docs, listing) ==
  /\ ~crashed /\ loads[l].stage = "stories"
  /\ \/ docs = {s \in Story : Listed(s)}
     \/ docs \subseteq {s \in Story : ListedFromCache(s)}
  /\ listing \in Descending(docs)
  /\ stories' = stories \o listing
  /\ ReadedStories([loads[l] EXCEPT !.stale = @ \/ docs # {s \in Story : Listed(s)}])
  /\ Finish(l)
  /\ UNCHANGED <<store, currentUser, block, open, unanswered, crashed>>

-----------------------------------------------------------------------------
(* The screen *)

\* viewDidLoad: preLoad, then reloadData, which shows what the array holds.
OpenFeed(l) ==
  /\ ~open /\ PreLoad(l)
  /\ open' = TRUE /\ spinning' = TRUE /\ rows' = stories
  /\ UNCHANGED <<drawn, unanswered, stray>>

RefreshData(l) == open /\ PreLoad(l) /\ UNCHANGED feed

\* A row scrolls into sight (cellForRowAt), or is tapped (prepare): the array is
\* indexed with its number.  A StoryScreen that opens changes nothing here.
Index(i, guarded) ==
  /\ ~crashed /\ open /\ i \in DOMAIN rows
  /\ i > Len(stories) /\ ~(guarded /\ stories = <<>>)
  /\ crashed' = TRUE
  /\ UNCHANGED <<store, currentUser, lists, loads, feed>>

DrawRow(i) == Index(i, TRUE)
DidSelectRow(i) == Index(i, FALSE)

Answer(l) ==
  \/ \E docs \in SUBSET User : BlocksArrive(l, docs)
  \/ \E docs \in SUBSET {s \in Story : Listed(s) \/ ListedFromCache(s)} :
       \E listing \in Descending(docs) : StoriesArrive(l, docs, listing)
  \/ QueryFails(l)

Next ==
  \/ \E u, v \in User : Block(u, v)
  \/ \E s \in Story : Post(s) \/ Edit(s)
  \/ \E u \in Account : SignIn(u)
  \/ SignOut \/ Relaunch
  \/ \E l \in Load : OpenFeed(l) \/ RefreshData(l) \/ Answer(l)
  \/ \E i \in DOMAIN rows : DrawRow(i) \/ DidSelectRow(i)

Spec == Init /\ [][Next]_vars

\* Queries are answered: by the server, or from the cache, or by an error.
FairSpec == Spec /\ \A l \in Load : WF_vars(Answer(l))

-----------------------------------------------------------------------------
(* Properties *)

\* Every variable keeps its type.
TypeOK ==
  /\ blocked \subseteq Account \X User /\ status \in [Story -> Status] /\ edits \in 0..MaxEdit
  /\ currentUser \in Account \union {NoUser}
  /\ block \subseteq User /\ stories \in Seq(Story)
  /\ loads \in [Load -> LoadState] /\ drawn \in LoadState
  /\ open \in BOOLEAN /\ spinning \in BOOLEAN /\ rows \in Seq(Story)
  /\ crashed \in BOOLEAN /\ unanswered \in BOOLEAN /\ stray \in BOOLEAN

\* What a load that no other overlapped drew has no story twice and, unless its
\* answers were stale, none of a user whom the account had blocked when it
\* asked, and none that was archived or deleted by then and until the answer.
LoneFeedIsFresh ==
  drawn.lone =>
    /\ IsInjective(rows)
    /\ ~drawn.stale =>
         \A s \in Range(rows) : Author[s] \notin drawn.hide /\ s \notin drawn.off

\* The spinner stops, unless a query of the feed failed or the process went down.
SpinnerStops == spinning ~> (~spinning \/ unanswered \/ crashed)

\* "Vocês não verão postagens um do outro mais!" (ChatViewController.swift:67):
\* what a load drew has no story of a user whom the account had blocked before
\* that load was asked for.  False for overlapping loads: the second preLoad
\* empties the array by which the first one filters.
NoPostOfBlocked == ~Offline => \A s \in Range(rows) : Author[s] \notin drawn.hide

=============================================================================
