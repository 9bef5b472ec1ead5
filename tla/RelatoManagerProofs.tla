------------------------- MODULE RelatoManagerProofs -------------------------
(***************************************************************************)
(* Theorems about RelatoManager: what the feed shows, for every set of     *)
(* users, accounts and loads, every finite set of stories, and every bound. *)
(***************************************************************************)
EXTENDS RelatoManager, FiniteSetTheorems, TLAPS

\* What an answer appends to stories: a sequence of its documents, latest
\* first, hence none twice.
LEMMA DescendingAreSequences ==
  ASSUME NEW S, S \subseteq Story, NEW s \in Descending(S)
  PROVE  s \in Seq(Story) /\ IsInjective(s) /\ Range(s) \subseteq S
<1>1. Cardinality(S) \in Nat
  BY StoryAssumption, FS_Subset, FS_CardinalityType
<1> DEFINE n == Cardinality(S)
<1>2. /\ s \in [1..n -> S]
      /\ \A i, j \in 1..n : i < j => s[i] > s[j]
  BY DEF Descending
<1>3. s \in [1..n -> Story]
  BY <1>2
<1> HIDE DEF n
<1>4. s \in Seq(Story)
  BY <1>1, <1>3 DEF n
<1>5. ASSUME NEW i \in 1..n, NEW j \in 1..n, s[i] = s[j] PROVE i = j
  <2>1. s[i] \in Nat /\ s[j] \in Nat
    <3>1. s[i] \in Story /\ s[j] \in Story
      BY <1>3
    <3> QED BY <3>1, StoryAssumption
  <2>0. i \in Int /\ j \in Int
    BY <1>1 DEF n
  <2>2. ~(i < j) /\ ~(j < i)
    BY <1>2, <1>5, <2>1
  <2> QED BY <2>0, <2>2
<1> QED BY <1>2, <1>4, <1>5 DEF IsInjective, Range

LEMMA IdleLoadType == IdleLoad \in LoadState
BY DEF IdleLoad, LoadState, Stage

-----------------------------------------------------------------------------
(* Types *)

LEMMA TypeInit == Init => TypeOK
<1> SUFFICES ASSUME Init PROVE TypeOK
  OBVIOUS
<1>1. loads \in [Load -> LoadState] /\ drawn \in LoadState
  BY IdleLoadType DEF Init
<1>2. stories \in Seq(Story) /\ rows \in Seq(Story)
  BY DEF Init
<1>3. edits \in 0..MaxEdit
  BY BoundAssumption DEF Init
<1> QED BY <1>1, <1>2, <1>3 DEF Init, TypeOK, Status

LEMMA EditType ==
  ASSUME TypeOK, NEW s \in Story, NEW from, NEW to \in Status, SetStatus(s, from, to)
  PROVE  TypeOK'
<1>1. edits' \in 0..MaxEdit
  BY BoundAssumption DEF SetStatus, TypeOK
<1>2. loads' \in [Load -> LoadState]
  <2>1. ASSUME NEW l \in Load PROVE loads'[l] \in LoadState
    <3> DEFINE r == loads[l]
               o == IF to = "active" THEN r.off \ {s} ELSE r.off
    <3>1. r \in LoadState
      BY DEF TypeOK
    <3>2. o \in SUBSET Story
      BY <3>1 DEF LoadState
    <3>3. loads'[l] = [r EXCEPT !.off = o]
      BY DEF SetStatus
    <3> HIDE DEF r, o
    <3> QED BY <3>1, <3>2, <3>3 DEF LoadState
  <2> QED BY <2>1 DEF SetStatus
<1> QED BY <1>1, <1>2 DEF SetStatus, TypeOK, lists, feed

LEMMA PreLoadType ==
  ASSUME TypeOK, NEW l \in Load, PreLoad(l)
  PROVE  loads' \in [Load -> LoadState] /\ block' \subseteq User
<1>1. ASSUME NEW k \in Load PROVE loads'[k] \in LoadState
  <2>1. CASE k = l
    BY <2>1, UserAssumption DEF PreLoad, TypeOK, LoadState, Stage, BlockedBy, Off
  <2>2. CASE k # l
    <3>1. loads'[k] = [loads[k] EXCEPT !.lone = FALSE]
      BY <2>2 DEF PreLoad
    <3> QED BY <3>1 DEF TypeOK, LoadState
  <2> QED BY <2>1, <2>2
<1> QED BY <1>1 DEF PreLoad

LEMMA CloseType == CloseFeed => /\ rows' \in Seq(Story) /\ drawn' \in LoadState
                                /\ open' \in BOOLEAN /\ spinning' \in BOOLEAN
                                /\ unanswered' \in BOOLEAN /\ stray' \in BOOLEAN
<1> SUFFICES ASSUME CloseFeed
             PROVE  /\ rows' \in Seq(Story) /\ drawn' \in LoadState
                    /\ open' \in BOOLEAN /\ spinning' \in BOOLEAN
                    /\ unanswered' \in BOOLEAN /\ stray' \in BOOLEAN
  OBVIOUS
<1>1. rows' \in Seq(Story)
  BY DEF CloseFeed
<1>2. drawn' \in LoadState
  BY IdleLoadType DEF CloseFeed
<1> QED BY <1>1, <1>2 DEF CloseFeed

\* What the callback leaves in the array: the old stories and those listed.
LEMMA ArrivalType ==
  ASSUME TypeOK, NEW l \in Load, NEW docs \in SUBSET {s \in Story : Listed(s) \/ ListedFromCache(s)},
         NEW listing \in Descending(docs), StoriesArrive(l, docs, listing)
  PROVE  /\ listing \in Seq(Story) /\ IsInjective(listing) /\ Range(listing) \subseteq docs
         /\ stories' = stories \o listing /\ stories' \in Seq(Story)
<1>1. docs \subseteq Story
  OBVIOUS
<1>2. listing \in Seq(Story) /\ IsInjective(listing) /\ Range(listing) \subseteq docs
  BY <1>1, DescendingAreSequences
<1> QED BY <1>2 DEF StoriesArrive, TypeOK

\* Every step keeps the types, action by action.
LEMMA TypeNext == TypeOK /\ [Next]_vars => TypeOK'
<1> SUFFICES ASSUME TypeOK, [Next]_vars PROVE TypeOK'
  OBVIOUS
<1>1. ASSUME NEW u \in User, NEW v \in User, Block(u, v) PROVE TypeOK'
  BY <1>1 DEF Block, TypeOK, lists, feed
<1>2. ASSUME NEW s \in Story, Post(s) PROVE TypeOK'
  BY <1>2 DEF Post, TypeOK, lists, feed, Status
<1>3. ASSUME NEW s \in Story, Edit(s) PROVE TypeOK'
  <2>1. {"active", "archived", "deleted"} \subseteq Status
    BY DEF Status
  <2> QED BY <1>3, <2>1, EditType DEF Edit
<1>4. ASSUME NEW u \in Account, SignIn(u) PROVE TypeOK'
  BY <1>4 DEF SignIn, TypeOK, store, lists, feed
<1>5. CASE SignOut
  <2>1. loads' \in [Load -> LoadState]
    <3>1. \A l \in Load : [loads[l] EXCEPT !.own = FALSE] \in LoadState
      BY DEF TypeOK, LoadState
    <3> QED BY <1>5, <3>1 DEF SignOut
  <2> QED BY <1>5, <2>1, CloseType DEF SignOut, TypeOK, store, lists
<1>6. CASE Relaunch
  <2>1. loads' \in [Load -> LoadState]
    BY <1>6, IdleLoadType DEF Relaunch
  <2>2. stories' \in Seq(Story)
    BY <1>6 DEF Relaunch
  <2> QED BY <1>6, <2>1, <2>2, CloseType DEF Relaunch, TypeOK, store
<1>7. ASSUME NEW l \in Load, OpenFeed(l) PROVE TypeOK'
  BY <1>7, PreLoadType DEF OpenFeed, PreLoad, TypeOK, store
<1>8. ASSUME NEW l \in Load, RefreshData(l) PROVE TypeOK'
  BY <1>8, PreLoadType DEF RefreshData, PreLoad, TypeOK, store, feed
<1>9. ASSUME NEW l \in Load, Answer(l) PROVE TypeOK'
  <2>1. ASSUME NEW docs \in SUBSET User, BlocksArrive(l, docs) PROVE TypeOK'
    <3> DEFINE b == docs # BlockedBy(loads[l].uid)
               s == [loads[l] EXCEPT !.stage = "stories", !.stale = b]
    <3>1. loads' = [loads EXCEPT ![l] = s]
      BY <2>1 DEF BlocksArrive
    <3>2. b \in BOOLEAN
      OBVIOUS
    <3> HIDE DEF b
    <3>3. s \in LoadState
      BY <3>2 DEF TypeOK, LoadState, Stage
    <3> HIDE DEF s
    <3>4. loads' \in [Load -> LoadState]
      BY <3>1, <3>3 DEF TypeOK
    <3>5. stories' \in Seq(Story)
      BY <2>1 DEF BlocksArrive
    <3> QED BY <2>1, <3>4, <3>5 DEF BlocksArrive, TypeOK, store, feed
  <2>2. ASSUME NEW docs \in SUBSET {s \in Story : Listed(s) \/ ListedFromCache(s)},
               NEW listing \in Descending(docs), StoriesArrive(l, docs, listing)
        PROVE  TypeOK'
    <3> DEFINE b == loads[l].stale \/ docs # {s \in Story : Listed(s)}
               r == [loads[l] EXCEPT !.stale = b]
    <3>1. ReadedStories(r) /\ Finish(l)
      BY <2>2 DEF StoriesArrive
    <3>2. b \in BOOLEAN
      OBVIOUS
    <3> HIDE DEF b
    <3>3. r \in LoadState
      BY <3>2 DEF TypeOK, LoadState
    <3> HIDE DEF r
    <3>4. loads' \in [Load -> LoadState]
      BY <3>1, IdleLoadType DEF Finish, TypeOK
    <3>5. stories' \in Seq(Story)
      BY <2>2, ArrivalType
    <3>6. /\ rows' \in Seq(Story) /\ drawn' \in LoadState
          /\ spinning' \in BOOLEAN /\ stray' \in BOOLEAN
      BY <3>1, <3>3, <3>5 DEF ReadedStories, TypeOK
    <3> QED BY <2>2, <3>4, <3>5, <3>6 DEF StoriesArrive, TypeOK, store
  <2>3. CASE QueryFails(l)
    BY <2>3, IdleLoadType DEF QueryFails, Finish, TypeOK, store, lists
  <2> QED BY <1>9, <2>1, <2>2, <2>3 DEF Answer
<1>10. ASSUME NEW i \in DOMAIN rows, DrawRow(i) \/ DidSelectRow(i) PROVE TypeOK'
  BY <1>10 DEF DrawRow, DidSelectRow, Index, TypeOK, store, lists, feed
<1>11. CASE UNCHANGED vars
  BY <1>11 DEF vars, TypeOK, store, lists, feed
<1> QED BY <1>1, <1>2, <1>3, <1>4, <1>5, <1>6, <1>7, <1>8, <1>9, <1>10, <1>11 DEF Next

\* RelatoManager's variables keep their types, for any number of users,
\* stories and loads.
THEOREM TypeCorrect == Spec => []TypeOK
BY TypeInit, TypeNext, PTL DEF Spec

-----------------------------------------------------------------------------
(* What a load that ran alone has drawn *)

Alone(l) == \A k \in Load : k # l => loads[k].stage = "idle"

\* The array block holds what load s is to hide, unless the cache held it back.
Hides(s, b) == ~s.stale => s.hide \subseteq b

\* How far lone load s has come, over the arrays b and st: what it was to hide
\* and what was off when it was asked for are so still.
Fresh(s, b, st, bl, off) ==
  /\ s.off \subseteq off
  /\ s.stage = "blocks" => b = {} /\ s.hide \subseteq {v \in User : <<s.uid, v>> \in bl}
  /\ s.stage = "stories" => st = <<>> /\ Hides(s, b)

\* What load s drew, when it was alone, is what the property says.
Drawn(s, shown) ==
  s.lone =>
    /\ IsInjective(shown)
    /\ ~s.stale => \A t \in Range(shown) : Author[t] \notin s.hide /\ t \notin s.off

\* With no feed on show nothing is drawn, and no load is its own.
Shown == open \/ (drawn = IdleLoad /\ \A l \in Load : ~loads[l].own)

LoneInv ==
  /\ TypeOK
  /\ \A l \in Load : loads[l].lone =>
       loads[l].stage # "idle" /\ Alone(l) /\ Fresh(loads[l], block, stories, blocked, Off)
  /\ Shown
  /\ Drawn(drawn, rows)

\* A step that changes neither a load's stage nor what it compares with.
LEMMA LoneStutter ==
  ASSUME LoneInv, TypeOK', UNCHANGED <<block, stories>>,
         blocked \subseteq blocked', Off \subseteq Off',
         loads' = loads, Shown', Drawn(drawn, rows)'
  PROVE  LoneInv'
BY DEF LoneInv, Alone, Fresh, Hides

\* A step of a load under way: no other is lone.
LEMMA LoneOfOne ==
  ASSUME LoneInv, TypeOK', NEW l \in Load, loads[l].stage # "idle", NEW s,
         loads' = [loads EXCEPT ![l] = s],
         s.lone => loads[l].lone /\ s.stage # "idle"
                     /\ Fresh(s, block', stories', blocked', Off'),
         Shown', Drawn(drawn, rows)'
  PROVE  LoneInv'
<1>1. loads'[l] = s /\ \A k \in Load : k # l => loads'[k] = loads[k]
  BY DEF LoneInv, TypeOK
<1>2. ASSUME NEW k \in Load, loads'[k].lone
      PROVE  loads'[k].stage # "idle" /\ Alone(k)'
               /\ Fresh(loads'[k], block', stories', blocked', Off')
  <2>1. k = l
    BY <1>1, <1>2 DEF LoneInv, Alone
  <2> QED BY <1>1, <1>2, <2>1 DEF LoneInv, Alone
<1> QED BY <1>2 DEF LoneInv

\* A load begins: it is lone if no other is under way, and ends the others' so.
LEMMA LonePreLoad ==
  ASSUME LoneInv, TypeOK', NEW l \in Load, PreLoad(l),
         Shown', Drawn(drawn, rows)'
  PROVE  LoneInv'
<1>1. ASSUME NEW k \in Load, k # l
      PROVE  ~loads'[k].lone /\ loads'[k].stage = loads[k].stage
  <2> DEFINE r == loads[k]
  <2>1. loads'[k] = [r EXCEPT !.lone = FALSE]
    BY <1>1 DEF PreLoad
  <2>2. r \in LoadState
    BY DEF LoneInv, TypeOK
  <2> HIDE DEF r
  <2>3. ~loads'[k].lone /\ loads'[k].stage = r.stage
    BY <2>1, <2>2 DEF LoadState
  <2> QED BY <2>3 DEF r
<1>2. /\ loads'[l].stage = "blocks" /\ (loads'[l].lone => Active = {})
      /\ loads'[l].uid = currentUser /\ loads'[l].hide = BlockedBy(currentUser)
      /\ loads'[l].off = Off /\ block' = {} /\ UNCHANGED <<blocked, status>>
  BY DEF PreLoad, store
<1>3. ASSUME Active = {} PROVE Alone(l)'
  BY <1>1, <1>3 DEF Active, Alone
<1>4. Fresh(loads'[l], block', stories', blocked', Off')
  BY <1>2 DEF Fresh, BlockedBy, Off
<1> QED BY <1>1, <1>2, <1>3, <1>4 DEF LoneInv

LEMMA IdleDrawn == ASSUME NEW shown PROVE Drawn(IdleLoad, shown)
BY DEF IdleLoad, Drawn

\* Archiving, restoring and deleting: what is restored leaves every off.
LEMMA LoneEdit ==
  ASSUME LoneInv, TypeOK', NEW s \in Story, NEW from \in {"active", "archived"},
         NEW to \in {"active", "archived", "deleted"}, SetStatus(s, from, to)
  PROVE  LoneInv'
<1>1. ASSUME NEW l \in Load
      PROVE  /\ loads'[l].stage = loads[l].stage /\ loads'[l].lone = loads[l].lone
             /\ loads'[l].uid = loads[l].uid /\ loads'[l].hide = loads[l].hide
             /\ loads'[l].stale = loads[l].stale /\ loads'[l].own = loads[l].own
             /\ loads[l].off \subseteq Off => loads'[l].off \subseteq Off'
  <2> DEFINE r == loads[l]
             o == IF to = "active" THEN r.off \ {s} ELSE r.off
  <2>1. loads'[l] = [r EXCEPT !.off = o]
    BY DEF SetStatus
  <2>2. r \in LoadState
    BY DEF LoneInv, TypeOK
  <2> HIDE DEF o
  <2>3. /\ loads'[l].stage = r.stage /\ loads'[l].lone = r.lone /\ loads'[l].uid = r.uid
        /\ loads'[l].hide = r.hide /\ loads'[l].stale = r.stale /\ loads'[l].off = o
        /\ loads'[l].own = r.own
    BY <2>1, <2>2 DEF LoadState
  <2>4. ASSUME r.off \subseteq Off, NEW t \in o PROVE t \in Off'
    <3>1. t \in r.off /\ (to = "active" => t # s)
      BY <2>4 DEF o
    <3>2. t \in Story /\ status[t] \in {"archived", "deleted"}
      BY <2>4, <3>1 DEF Off
    <3>3. status' = [status EXCEPT ![s] = to] /\ status \in [Story -> Status]
      BY DEF SetStatus, LoneInv, TypeOK
    <3>4. status'[t] \in {"archived", "deleted"}
      BY <3>1, <3>2, <3>3
    <3> QED BY <3>2, <3>4 DEF Off
  <2> QED BY <2>3, <2>4
<1>2. UNCHANGED <<block, stories, blocked, open, drawn, rows>>
  BY DEF SetStatus, lists, feed
<1> QED BY <1>1, <1>2 DEF LoneInv, Alone, Fresh, Hides, Shown

LEMMA LoneNext == LoneInv /\ [Next]_vars => LoneInv'
<1> SUFFICES ASSUME LoneInv, [Next]_vars PROVE LoneInv'
  OBVIOUS
<1>0. TypeOK /\ TypeOK' /\ Shown /\ Drawn(drawn, rows)
  BY TypeNext DEF LoneInv
<1>a. ASSUME NEW l \in Load PROVE loads[l] \in LoadState
  BY <1>0 DEF TypeOK
<1>b. ~IdleLoad.lone /\ ~IdleLoad.own /\ IdleLoad.stage = "idle"
  BY DEF IdleLoad
<1>c. ASSUME UNCHANGED <<block, stories, loads, status, open, drawn, rows>>,
             blocked \subseteq blocked'
      PROVE  LoneInv'
  <2>1. Off' = Off
    BY <1>c DEF Off
  <2>2. Shown'
    BY <1>0, <1>c DEF Shown
  <2> QED BY <1>0, <1>c, <2>1, <2>2, LoneStutter DEF Drawn
<1>1. ASSUME NEW u \in User, NEW v \in User, Block(u, v) PROVE LoneInv'
  BY <1>1, <1>c DEF Block, lists, feed
<1>2. ASSUME NEW s \in Story, Post(s) PROVE LoneInv'
  <2>1. Off \subseteq Off'
    BY <1>0, <1>2 DEF Post, Off, TypeOK
  <2> QED BY <1>0, <1>2, <2>1, LoneStutter DEF Post, lists, feed, Drawn, Shown
<1>3. ASSUME NEW s \in Story, Edit(s) PROVE LoneInv'
  BY <1>0, <1>3, LoneEdit DEF Edit
<1>4. ASSUME NEW u \in Account, SignIn(u) PROVE LoneInv'
  BY <1>4, <1>c DEF SignIn, store, lists, feed
<1>5. CASE SignOut
  <2>1. ASSUME NEW l \in Load
        PROVE  /\ loads'[l].stage = loads[l].stage /\ loads'[l].lone = loads[l].lone
               /\ loads'[l].uid = loads[l].uid /\ loads'[l].hide = loads[l].hide
               /\ loads'[l].stale = loads[l].stale /\ loads'[l].off = loads[l].off
               /\ ~loads'[l].own
    <3> DEFINE r == loads[l]
    <3>1. loads'[l] = [r EXCEPT !.own = FALSE] /\ r \in LoadState
      BY <1>5, <1>a DEF SignOut
    <3> HIDE DEF r
    <3>2. /\ loads'[l].stage = r.stage /\ loads'[l].lone = r.lone /\ loads'[l].uid = r.uid
          /\ loads'[l].hide = r.hide /\ loads'[l].stale = r.stale /\ loads'[l].off = r.off
          /\ ~loads'[l].own
      BY <3>1 DEF LoadState
    <3> QED BY <3>2 DEF r
  <2>2. UNCHANGED <<block, stories, blocked, status>> /\ drawn' = IdleLoad
    BY <1>5 DEF SignOut, CloseFeed, store, lists
  <2>3. Off' = Off /\ Drawn(drawn, rows)'
    BY <2>2, IdleDrawn DEF Off
  <2> QED BY <1>0, <2>1, <2>2, <2>3 DEF LoneInv, Alone, Fresh, Hides, Shown
<1>6. CASE Relaunch
  BY <1>0, <1>6, <1>b, IdleDrawn DEF Relaunch, CloseFeed, LoneInv, Shown
<1>7. ASSUME NEW l \in Load, OpenFeed(l) PROVE LoneInv'
  <2>1. PreLoad(l) /\ Shown' /\ drawn' = IdleLoad
    BY <1>0, <1>7 DEF OpenFeed, Shown
  <2> QED BY <1>0, <2>1, IdleDrawn, LonePreLoad
<1>8. ASSUME NEW l \in Load, RefreshData(l) PROVE LoneInv'
  BY <1>0, <1>8, LonePreLoad DEF RefreshData, feed, Drawn, Shown
<1>9. ASSUME NEW l \in Load, Answer(l) PROVE LoneInv'
  <2>1. ASSUME NEW docs \in SUBSET User, BlocksArrive(l, docs) PROVE LoneInv'
    <3> DEFINE r == loads[l]
               b == docs # BlockedBy(r.uid)
               s == [r EXCEPT !.stage = "stories", !.stale = b]
    <3>1. /\ loads' = [loads EXCEPT ![l] = s] /\ r.stage = "blocks"
          /\ block' = block \union docs /\ stories' = <<>>
          /\ UNCHANGED <<blocked, status, open, drawn, rows>>
      BY <2>1 DEF BlocksArrive, store, feed
    <3>2. r \in LoadState /\ (r.lone => Fresh(r, block, stories, blocked, Off)) /\ Off' = Off
      BY <1>a, <3>1 DEF LoneInv, Off
    <3>3. ~b => docs = BlockedBy(r.uid)
      OBVIOUS
    <3> HIDE DEF r, b
    <3>4. /\ s.stage = "stories" /\ s.stale = b /\ s.lone = r.lone /\ s.hide = r.hide
          /\ s.off = r.off
      BY <3>2 DEF LoadState
    <3> HIDE DEF s
    <3>5. ASSUME s.lone PROVE Fresh(s, block', stories', blocked', Off')
      BY <3>1, <3>2, <3>3, <3>4, <3>5 DEF Fresh, Hides, BlockedBy
    <3>6. s.own = loads[l].own
      BY <1>a DEF s, r, LoadState
    <3>7. Shown'
      BY <1>0, <3>1, <3>6 DEF Shown, TypeOK
    <3> QED BY <1>0, <3>1, <3>4, <3>5, <3>7, LoneOfOne DEF r, Drawn
  <2>2. ASSUME NEW docs \in SUBSET {s \in Story : Listed(s) \/ ListedFromCache(s)},
               NEW listing \in Descending(docs), StoriesArrive(l, docs, listing)
        PROVE  LoneInv'
    <3> DEFINE r == loads[l]
               b == r.stale \/ docs # {s \in Story : Listed(s)}
               s == [r EXCEPT !.stale = b]
    <3>1. /\ r.stage = "stories" /\ ReadedStories(s) /\ Finish(l)
          /\ UNCHANGED <<block, blocked, status, open>>
      BY <2>2 DEF StoriesArrive, store
    <3>2. r \in LoadState /\ (r.lone => Fresh(r, block, stories, blocked, Off))
      BY <1>a DEF LoneInv
    <3>3. ~b => ~r.stale /\ docs = {t \in Story : Listed(t)}
      OBVIOUS
    <3>4. /\ IsInjective(listing) /\ Range(listing) \subseteq docs
          /\ listing \in Seq(Story) /\ stories' = stories \o listing
      BY <1>0, <2>2, ArrivalType
    <3> HIDE DEF b
    <3>5. /\ s.stale = b /\ s.lone = r.lone /\ s.hide = r.hide /\ s.off = r.off
      BY <3>2 DEF LoadState
    <3>5a. s.own = r.own /\ (r.own => loads[l].own)
      BY <3>2 DEF LoadState, r
    <3>6. ASSUME s.lone PROVE Drawn(s, stories')
      <4>1. stories = <<>> /\ r.off \subseteq Off /\ Hides(r, block)
        BY <3>1, <3>2, <3>5, <3>6 DEF Fresh
      <4>2. stories' = listing
        BY <3>4, <4>1
      <4>3. ASSUME ~s.stale, NEW t \in Range(listing)
            PROVE  Author[t] \notin s.hide /\ t \notin s.off
        <5>1. Listed(t) /\ ~r.stale
          BY <3>3, <3>4, <3>5, <4>3
        <5>2. status[t] = "active" /\ Author[t] \notin block
          BY <5>1 DEF Listed
        <5> QED BY <3>5, <4>1, <5>1, <5>2 DEF Hides, Off
      <4> QED BY <3>4, <4>2, <4>3 DEF Drawn
    <3>7. Drawn(s, stories')
      BY <3>6 DEF Drawn
    <3> HIDE DEF s
    <3>8. Drawn(drawn, rows)'
      BY <1>0, <3>1, <3>7 DEF ReadedStories, Drawn
    <3>9. Shown'
      BY <1>0, <1>b, <3>1, <3>5a DEF ReadedStories, Shown, Finish, TypeOK
    <3> QED BY <1>0, <1>b, <3>1, <3>8, <3>9, LoneOfOne DEF r, Finish
  <2>3. CASE QueryFails(l)
    BY <1>0, <1>b, <2>3, LoneOfOne DEF QueryFails, Finish, lists, Drawn, Shown, TypeOK
  <2> QED BY <1>9, <2>1, <2>2, <2>3 DEF Answer
<1>10. ASSUME NEW i \in DOMAIN rows, DrawRow(i) \/ DidSelectRow(i) PROVE LoneInv'
  BY <1>10, <1>c DEF DrawRow, DidSelectRow, Index, store, lists, feed
<1>11. CASE UNCHANGED vars
  BY <1>11, <1>c DEF vars, store, lists, feed
<1> QED BY <1>1, <1>2, <1>3, <1>4, <1>5, <1>6, <1>7, <1>8, <1>9, <1>10, <1>11 DEF Next

\* What a load that no other overlapped drew has no story twice and, its
\* answers being fresh, none of a user whom the account had blocked when it
\* asked, and none that was archived or deleted by then and until the answer.
THEOREM LoneFeedsAreFresh == Spec => []LoneFeedIsFresh
<1>1. Init => LoneInv
  <2> SUFFICES ASSUME Init PROVE LoneInv
    OBVIOUS
  <2>1. \A l \in Load : ~loads[l].lone /\ ~loads[l].own
    BY DEF Init, IdleLoad
  <2>2. Drawn(drawn, rows) /\ drawn = IdleLoad
    BY IdleDrawn DEF Init
  <2> QED BY <2>1, <2>2, TypeInit DEF LoneInv, Shown
<1>2. LoneInv => LoneFeedIsFresh
  BY DEF LoneInv, Drawn, LoneFeedIsFresh
<1> QED BY <1>1, <1>2, LoneNext, PTL DEF Spec

=============================================================================
