---------------------------- MODULE ProfileProofs ----------------------------
(***************************************************************************)
(* The profile's rows and arrays, for any users, stories, loads and edits: *)
(* the types of Profile, whose stories are listed and in which order, and  *)
(* that a row is always in the array it is looked up in.                   *)
(***************************************************************************)
EXTENDS Profile, FiniteSetTheorems, TLAPS

Arrays == [Segment -> Seq(Story)]

\* What is listed, or presented, was posted once.
Posted(s) == s \in Story /\ status[s] # "absent"

TypeInv ==
  /\ TypeOK /\ relatos \in Arrays
  /\ \A g \in Segment : \A i \in 1..Len(relatos[g]) : Posted(relatos[g][i])
  /\ modal # NoModal => Posted(modal.story)
  /\ modal.kind = "toggle" => status[modal.story] # "deleted"

LEMMA EmptyArrays == Empty \in Arrays /\ \A g \in Segment : Len(Empty[g]) = 0 /\ Empty[g] = <<>>
<1>1. <<>> \in Seq(Story) /\ Len(<<>>) = 0
  OBVIOUS
<1> QED BY <1>1 DEF Empty, Arrays

LEMMA DescendingProperties ==
  ASSUME NEW S \in SUBSET Story, NEW q \in Descending(S)
  PROVE  /\ q \in Seq(S) /\ q \in Seq(Story)
         /\ \A i, j \in 1..Len(q) : i < j => q[i] > q[j]
<1>1. Cardinality(S) \in Nat
  BY StoryAssumption, FS_Subset, FS_CardinalityType
<1> DEFINE n == Cardinality(S)
<1>2. q \in [1..n -> S] /\ \A i, j \in 1..n : i < j => q[i] > q[j]
  BY DEF Descending
<1> HIDE DEF n
<1>3. n \in Nat
  BY <1>1 DEF n
<1>4. q \in Seq(S) /\ Len(q) = n
  BY <1>2, <1>3
<1>5. q \in [1..n -> Story]
  BY <1>2
<1>6. q \in Seq(Story)
  BY <1>3, <1>5
<1> QED BY <1>2, <1>4, <1>6

\* An answer adds stories behind those that are listed.
LEMMA Arrival ==
  ASSUME TypeInv, NEW l \in Load, NEW docs, StoriesArrive(l, docs)
  PROVE  \E past \in Seq(Story), now \in Seq(Story) :
           /\ relatos' = [passados |-> relatos["passados"] \o past,
                          atuais |-> relatos["atuais"] \o now]
           /\ \A i \in 1..Len(past) : past[i] \in docs /\ Mine(past[i]) /\ Group(past[i]) = "passados"
           /\ \A i \in 1..Len(now) : now[i] \in docs /\ Mine(now[i]) /\ Group(now[i]) = "atuais"
           /\ \A i, j \in 1..Len(past) : i < j => past[i] > past[j]
           /\ \A i, j \in 1..Len(now) : i < j => now[i] > now[j]
           /\ docs = {} => past = <<>> /\ now = <<>>
<1> DEFINE P == {s \in docs : Mine(s) /\ Group(s) = "passados"}
           A == {s \in docs : Mine(s) /\ Group(s) = "atuais"}
<1>1. PICK past \in Descending(P), now \in Descending(A) :
        relatos' = [passados |-> relatos["passados"] \o past, atuais |-> relatos["atuais"] \o now]
  BY DEF StoriesArrive
<1>2. P \subseteq Story /\ A \subseteq Story
  BY DEF StoriesArrive
<1> HIDE DEF P, A
<1>3. past \in Seq(P) /\ past \in Seq(Story) /\ \A i, j \in 1..Len(past) : i < j => past[i] > past[j]
  BY <1>2, DescendingProperties
<1>4. now \in Seq(A) /\ now \in Seq(Story) /\ \A i, j \in 1..Len(now) : i < j => now[i] > now[j]
  BY <1>2, DescendingProperties
<1>5. (\A i \in 1..Len(past) : past[i] \in P) /\ \A i \in 1..Len(now) : now[i] \in A
  BY <1>3, <1>4
<1>6. ASSUME docs = {} PROVE past = <<>> /\ now = <<>>
  <2>1. P = {} /\ A = {}
    BY <1>6 DEF P, A
  <2>2. Len(past) = 0 /\ Len(now) = 0
    BY <1>3, <1>4, <1>5, <2>1
  <2> QED BY <1>3, <1>4, <2>2
<1> QED BY <1>1, <1>3, <1>4, <1>5, <1>6 DEF P, A

LEMMA ConcatStories ==
  ASSUME NEW s \in Seq(Story), NEW t \in Seq(Story)
  PROVE  /\ s \o t \in Seq(Story) /\ Len(s \o t) = Len(s) + Len(t)
         /\ Len(s) \in Nat /\ Len(t) \in Nat
         /\ \A i \in 1..Len(s) : (s \o t)[i] = s[i]
         /\ \A i \in 1..(Len(s) + Len(t)) : i > Len(s) => i - Len(s) \in 1..Len(t) /\ (s \o t)[i] = t[i - Len(s)]
OBVIOUS

LEMMA TwoArrays ==
  ASSUME NEW a \in Seq(Story), NEW b \in Seq(Story)
  PROVE  [passados |-> a, atuais |-> b] \in Arrays
<1>1. [passados |-> a, atuais |-> b] \in [passados : Seq(Story), atuais : Seq(Story)]
  OBVIOUS
<1> DEFINE r == [passados |-> a, atuais |-> b]
<1>2. r = [g \in {"passados", "atuais"} |-> r[g]]
  OBVIOUS
<1>3. r["passados"] \in Seq(Story) /\ r["atuais"] \in Seq(Story)
  OBVIOUS
<1> HIDE DEF r
<1>4. r \in [{"passados", "atuais"} -> Seq(Story)]
  BY <1>2, <1>3
<1> QED BY <1>4 DEF r, Arrays, Segment

-----------------------------------------------------------------------------
(* Types *)

LEMMA TypeInit == Init => TypeInv
<1> SUFFICES ASSUME Init PROVE TypeInv
  OBVIOUS
<1>1. loads \in [Load -> LoadState]
  BY DEF Init, LoadState, IdleLoad
<1>2. status \in [Story -> Status] /\ modal \in Modal /\ edits \in 0..MaxEdit
  BY BoundAssumption DEF Init, Status, Modal
<1>3. /\ DOMAIN relatos = Segment /\ (\A g \in Segment : relatos[g] \in Seq(Story))
      /\ rows \in Seq(Story) /\ segment \in Segment
  BY EmptyArrays DEF Init, Arrays, Segment
<1>4. {open, spinning, editing, crashed, filled, unanswered, stray} \subseteq BOOLEAN
      /\ deleting = {} /\ currentUser = NoUser
  BY DEF Init
<1>5. TypeOK
  BY <1>1, <1>2, <1>3, <1>4 DEF TypeOK
<1> QED BY <1>5, EmptyArrays DEF Init, TypeInv, NoModal

\* A step that neither edits stories nor changes the arrays.
LEMMA TypeRests ==
  ASSUME TypeInv, UNCHANGED <<status, edits, relatos>>, deleting' \subseteq deleting,
         currentUser' \in Account \union {NoUser}, loads' \in [Load -> LoadState],
         segment' \in Segment, rows' \in Seq(Story),
         UNCHANGED modal \/ modal' = NoModal,
         {open', spinning', editing', crashed', filled', unanswered', stray'} \subseteq BOOLEAN
  PROVE  TypeInv'
<1>1. modal' \in Modal /\ (modal' # NoModal => modal' = modal)
  BY DEF TypeInv, TypeOK, Modal
<1>2. modal'.kind = "toggle" => modal' = modal
  BY <1>1 DEF NoModal
<1> QED BY <1>1, <1>2 DEF TypeInv, TypeOK, Posted

\* A load is asked for.
LEMMA TypeAsk ==
  ASSUME TypeInv, NEW l \in Load, Ask(l), UNCHANGED <<status, deleting, edits, currentUser, modal>>,
         segment' \in Segment, rows' \in Seq(Story),
         {open', spinning', editing', crashed', unanswered', stray'} \subseteq BOOLEAN
  PROVE  TypeInv'
<1>1. relatos' = Empty /\ filled' = FALSE
  BY DEF Ask
<1>2. loads' \in [Load -> LoadState]
  BY DEF Ask, TypeInv, TypeOK, LoadState
<1>3. TypeOK'
  BY <1>1, <1>2, EmptyArrays DEF TypeInv, TypeOK, Arrays
<1> QED BY <1>1, <1>3, EmptyArrays DEF TypeInv, Posted

LEMMA TypeArrive ==
  ASSUME TypeInv, NEW l \in Load, NEW docs, StoriesArrive(l, docs)
  PROVE  TypeInv'
<1>1. PICK past \in Seq(Story), now \in Seq(Story) :
        /\ relatos' = [passados |-> relatos["passados"] \o past,
                       atuais |-> relatos["atuais"] \o now]
        /\ \A i \in 1..Len(past) : past[i] \in docs
        /\ \A i \in 1..Len(now) : now[i] \in docs
  BY Arrival
<1>2. relatos["passados"] \in Seq(Story) /\ relatos["atuais"] \in Seq(Story) /\ segment \in Segment
  BY DEF TypeInv, Arrays, TypeOK, Segment
<1>3. relatos' \in Arrays
  BY <1>1, <1>2, TwoArrays, ConcatStories
<1>4. UNCHANGED <<status, deleting, edits, currentUser, open, segment, editing, modal, crashed>>
      /\ loads' = [loads EXCEPT ![l] = IdleLoad] /\ filled' = loads[l].lone
      /\ \A s \in docs : Posted(s)
  BY DEF StoriesArrive, Posted
<1>5. /\ rows' \in Seq(Story)
      /\ {spinning', unanswered', stray'} \subseteq BOOLEAN
  <2>1. relatos'[segment] \in Seq(Story)
    BY <1>2, <1>3 DEF Arrays
  <2>2. loads[l].own \in BOOLEAN
    BY DEF TypeInv, TypeOK, LoadState
  <2> QED BY <1>4, <2>1, <2>2 DEF StoriesArrive, Tell, Reload, TypeInv, TypeOK
<1>6. loads' \in [Load -> LoadState] /\ filled' \in BOOLEAN
  BY <1>4 DEF TypeInv, TypeOK, LoadState, IdleLoad
<1>7. TypeOK'
  BY <1>3, <1>4, <1>5, <1>6 DEF TypeInv, TypeOK, Arrays
<1>8. ASSUME NEW g \in Segment, NEW i \in 1..Len(relatos'[g]) PROVE Posted(relatos'[g][i])
  <2>1. \A j \in 1..Len(relatos[g]) : Posted(relatos[g][j])
    BY DEF TypeInv
  <2>2. CASE g = "passados"
    <3>1. relatos'[g] = relatos[g] \o past
      BY <1>1, <2>2
    <3> QED BY <1>1, <1>2, <1>4, <1>8, <2>1, <2>2, <3>1, ConcatStories
  <2>3. CASE g = "atuais"
    <3>1. relatos'[g] = relatos[g] \o now
      BY <1>1, <2>3
    <3> QED BY <1>1, <1>2, <1>4, <1>8, <2>1, <2>3, <3>1, ConcatStories
  <2> QED BY <2>2, <2>3 DEF Segment
<1> QED BY <1>3, <1>4, <1>7, <1>8 DEF TypeInv, Posted

\* What is presented over the profile was posted.
LEMMA TypePresent ==
  ASSUME TypeInv, UNCHANGED <<status, deleting, edits, currentUser, relatos, loads, open, spinning,
                              segment, editing, rows, history>>,
         crashed' \in BOOLEAN, modal' \in Modal,
         modal' # NoModal => Posted(modal'.story),
         modal'.kind = "toggle" => status[modal'.story] # "deleted"
  PROVE  TypeInv'
BY DEF TypeInv, TypeOK, history, Posted

LEMMA TypeEdit ==
  ASSUME TypeInv, NEW s \in Story, NEW to \in {"active", "archived", "deleted"}, Edit(s, to),
         deleting' \subseteq deleting \union {s}, s \in deleting' => to = "deleted"
  PROVE  TypeInv'
<1>1. /\ status' = [status EXCEPT ![s] = to] /\ edits' = edits + 1 /\ edits < MaxEdit
      /\ modal' = NoModal
      /\ UNCHANGED <<currentUser, relatos, loads, open, spinning, segment, editing, rows, crashed,
                     filled, unanswered, stray>>
  BY DEF Edit, history
<1>2. /\ status' \in [Story -> Status] /\ status'[s] = to
      /\ \A t \in Story : t # s => status'[t] = status[t]
  BY <1>1 DEF TypeInv, TypeOK, Status
<1>3. deleting' \subseteq {t \in Story : status'[t] = "deleted"}
  BY <1>2 DEF TypeInv, TypeOK
<1>4. edits' \in 0..MaxEdit
  BY <1>1, BoundAssumption DEF TypeInv, TypeOK
<1>5. TypeOK'
  BY <1>1, <1>2, <1>3, <1>4 DEF TypeInv, TypeOK, Modal
<1>6. \A t : Posted(t) => Posted(t)'
  BY <1>2 DEF Posted
<1>7. modal' = NoModal /\ modal'.kind # "toggle"
  BY <1>1 DEF NoModal
<1> QED BY <1>1, <1>5, <1>6, <1>7 DEF TypeInv

\* The array of the segment on show.
LEMMA ShownArray ==
  ASSUME TypeInv
  PROVE  /\ relatos[segment] \in Seq(Story) /\ Len(relatos[segment]) \in Nat
         /\ \A i \in 1..Len(relatos[segment]) : Posted(relatos[segment][i])
         /\ \A g \in Segment : relatos[g] \in Seq(Story)
BY DEF TypeInv, TypeOK, Arrays

LEMMA TypeTouch ==
  ASSUME TypeInv, NEW i \in DOMAIN rows, TapRow(i) \/ DeleteButton(i)
  PROVE  TypeInv'
<1>1. i \in 1..Len(rows)
  BY DEF TypeInv, TypeOK
<1> DEFINE s == relatos[segment][i]
<1>2. CASE i > Len(relatos[segment])
  <2>1. crashed' = TRUE /\ modal' = modal
    BY <1>2 DEF TapRow, DeleteButton, Touch
  <2>2. UNCHANGED <<status, deleting, edits, currentUser, relatos, loads, open, spinning,
                    segment, editing, rows, history>>
    BY DEF TapRow, DeleteButton, Touch
  <2>3. modal \in Modal
    BY DEF TypeInv, TypeOK
  <2> QED BY <2>1, <2>2, <2>3, TypePresent DEF TypeInv, Posted
<1>3. CASE i <= Len(relatos[segment])
  <2>1. Posted(s) /\ s \in Story
    BY <1>1, <1>3, ShownArray DEF Posted
  <2> HIDE DEF s
  <2>2. modal' \in {[kind |-> "story", story |-> s], [kind |-> "delete", story |-> s]}
        /\ crashed' = crashed
    BY <1>1, <1>3, ShownArray DEF TapRow, DeleteButton, Touch, s
  <2>3. modal' \in Modal /\ modal'.story = s /\ modal'.kind # "toggle"
    BY <2>1, <2>2 DEF Modal
  <2>4. UNCHANGED <<status, deleting, edits, currentUser, relatos, loads, open, spinning,
                    segment, editing, rows, history>>
    BY DEF TapRow, DeleteButton, Touch
  <2>5. crashed \in BOOLEAN
    BY DEF TypeInv, TypeOK
  <2> QED BY <2>1, <2>2, <2>3, <2>4, <2>5, TypePresent
<1> QED BY <1>1, <1>2, <1>3, ShownArray

\* The alerts, and the cache's answer to the button of a story.
LEMMA TypeModal ==
  ASSUME TypeInv, Dismiss \/ ArchiveButton \/ CacheAnswers \/ CacheMisses
  PROVE  TypeInv'
<1>1. /\ modal # NoModal /\ modal \in Modal
      /\ UNCHANGED <<status, deleting, edits, currentUser, relatos, loads, open, spinning,
                     segment, editing, rows, history>>
  BY DEF Dismiss, ArchiveButton, CacheAnswers, CacheMisses, NoModal, TypeInv, TypeOK
<1>2. modal.story \in Story /\ Posted(modal.story) /\ crashed \in BOOLEAN
  BY <1>1 DEF TypeInv, TypeOK, Posted
<1>3. \/ modal' = [kind |-> "story", story |-> modal.story] /\ UNCHANGED crashed
      \/ modal' = [kind |-> "cache", story |-> modal.story] /\ UNCHANGED crashed
      \/ /\ modal' = [kind |-> "toggle", story |-> modal.story, property |-> status[modal.story]]
         /\ status[modal.story] # "deleted" /\ UNCHANGED crashed
      \/ modal' = NoModal /\ UNCHANGED crashed
      \/ UNCHANGED modal /\ crashed' = TRUE
  BY DEF Dismiss, ArchiveButton, CacheAnswers, CacheMisses
<1>4. status[modal.story] \in Status
  BY <1>2 DEF TypeInv, TypeOK
<1>5. CASE modal' = NoModal
  BY <1>1, <1>2, <1>3, <1>5, TypePresent DEF Modal, NoModal
<1>6. CASE UNCHANGED modal
  BY <1>1, <1>2, <1>3, <1>6, TypePresent DEF TypeInv, Posted
<1>7. CASE modal' = [kind |-> "story", story |-> modal.story] /\ UNCHANGED crashed
  BY <1>1, <1>2, <1>7, TypePresent DEF Modal
<1>8. CASE modal' = [kind |-> "cache", story |-> modal.story] /\ UNCHANGED crashed
  BY <1>1, <1>2, <1>8, TypePresent DEF Modal
<1>9. CASE /\ modal' = [kind |-> "toggle", story |-> modal.story, property |-> status[modal.story]]
           /\ status[modal.story] # "deleted" /\ UNCHANGED crashed
  <2>1. status[modal.story] \in {"active", "archived"}
    BY <1>2, <1>4, <1>9 DEF Status, Posted
  <2>2. modal' \in Modal
    BY <1>2, <1>9, <2>1 DEF Modal
  <2> QED BY <1>1, <1>2, <1>9, <2>2, TypePresent
<1> QED BY <1>3, <1>5, <1>6, <1>7, <1>8, <1>9

\* The profile is gone from the screen.
LEMMA Closed ==
  ASSUME CloseProfile
  PROVE  /\ segment' \in Segment /\ rows' \in Seq(Story) /\ rows' = <<>>
         /\ modal' = NoModal /\ modal' \in Modal /\ modal'.kind # "toggle"
         /\ {open', spinning', editing', unanswered', stray'} \subseteq BOOLEAN /\ ~open'
<1>1. rows' = <<>> /\ <<>> \in Seq(Story)
  BY DEF CloseProfile
<1>2. modal' = NoModal /\ NoModal \in Modal /\ NoModal.kind # "toggle"
  BY DEF CloseProfile, Modal, NoModal
<1>3. segment' \in Segment /\ {open', spinning', editing', unanswered', stray'} \subseteq BOOLEAN
      /\ ~open'
  BY DEF CloseProfile, Segment
<1> QED BY <1>1, <1>2, <1>3

LEMMA TypeNext == TypeInv /\ [Next]_vars => TypeInv'
<1> SUFFICES ASSUME TypeInv, [Next]_vars PROVE TypeInv'
  OBVIOUS
<1>1. ASSUME NEW u \in Account, SignIn(u) PROVE TypeInv'
  BY <1>1, TypeRests DEF SignIn, screen, history, TypeInv, TypeOK
<1>2. CASE SignOut
  <2>1. loads' \in [Load -> LoadState]
    BY <1>2 DEF SignOut, TypeInv, TypeOK, LoadState
  <2>2. /\ CloseProfile /\ currentUser' = NoUser
        /\ UNCHANGED <<status, deleting, edits, relatos, crashed, filled>>
    BY <1>2 DEF SignOut
  <2>3. {crashed', filled'} \subseteq BOOLEAN
    BY <2>2 DEF TypeInv, TypeOK
  <2> QED BY <2>1, <2>2, <2>3, Closed, TypeRests
<1>3. CASE Relaunch
  <2>1. loads' \in [Load -> LoadState] /\ relatos' = Empty /\ modal' = NoModal /\ deleting' = {}
        /\ UNCHANGED <<status, edits, currentUser>>
    BY <1>3 DEF Relaunch, CloseProfile, LoadState, IdleLoad
  <2>2. CloseProfile /\ {crashed', filled'} \subseteq BOOLEAN
    BY <1>3 DEF Relaunch
  <2>3. TypeOK'
    BY <2>1, <2>2, EmptyArrays, Closed DEF TypeInv, TypeOK, Arrays
  <2> QED BY <2>1, <2>2, <2>3, EmptyArrays, Closed DEF TypeInv
<1>4. ASSUME NEW s \in Story, Send(s) PROVE TypeInv'
  <2>1. /\ status' = [status EXCEPT ![s] = "active"] /\ status[s] = "absent"
        /\ UNCHANGED <<deleting, edits, currentUser, relatos, loads, modal, open, spinning, segment,
                       editing, rows, crashed, filled, unanswered, stray>>
    BY <1>4 DEF Send, screen, history
  <2>2. status' \in [Story -> Status] /\ \A t \in Story : t # s => status'[t] = status[t]
    BY <2>1 DEF TypeInv, TypeOK, Status
  <2>3. TypeOK'
    BY <2>1, <2>2 DEF TypeInv, TypeOK
  <2>4. \A t : Posted(t) => Posted(t)' /\ status'[t] = status[t]
    BY <2>1, <2>2 DEF Posted
  <2>5. modal.kind = "toggle" => modal # NoModal
    BY DEF NoModal
  <2> QED BY <2>1, <2>3, <2>4, <2>5 DEF TypeInv
<1>5. ASSUME NEW s \in Story, Deleted(s) PROVE TypeInv'
  BY <1>5, ShownArray, TypeRests DEF Deleted, Reload, TypeInv, TypeOK
<1>6. ASSUME NEW l \in Load, OpenProfile(l) PROVE TypeInv'
  <2>1. rows' \in Seq(Story) /\ "passados" \in Segment /\ stray' = FALSE
    BY <1>6, EmptyArrays DEF OpenProfile, Ask, Reload, Arrays, Segment
  <2> QED BY <1>6, <2>1, TypeAsk DEF OpenProfile, TypeInv, TypeOK
<1>7. ASSUME NEW l \in Load, RefreshData(l) PROVE TypeInv'
  <2>1. segment \in Segment /\ segment' = segment
    BY <1>7 DEF RefreshData, TypeInv, TypeOK
  <2>2. rows' \in Seq(Story) /\ stray' = FALSE
    BY <1>7, <2>1, EmptyArrays DEF RefreshData, Ask, Reload, Arrays
  <2> QED BY <1>7, <2>1, <2>2, TypeAsk DEF RefreshData, TypeInv, TypeOK
<1>8. ASSUME NEW l \in Load, Answer(l) PROVE TypeInv'
  <2>1. CASE StoriesFail(l)
    <3>1. loads' \in [Load -> LoadState]
      BY <2>1 DEF StoriesFail, TypeInv, TypeOK, LoadState, IdleLoad
    <3>2. unanswered' \in BOOLEAN
      BY <2>1 DEF StoriesFail, TypeInv, TypeOK, LoadState
    <3> QED BY <2>1, <3>1, <3>2, TypeRests DEF StoriesFail, screen, TypeInv, TypeOK
  <2> QED BY <1>8, <2>1, TypeArrive DEF Answer
<1>9. CASE EditButton
  BY <1>9, ShownArray, TypeRests DEF EditButton, Reload, TypeInv, TypeOK
<1>10. ASSUME NEW g \in Segment, OnChangeOfSegment(g) PROVE TypeInv'
  <2>1. rows' \in Seq(Story) /\ segment' = g /\ stray' = FALSE
    BY <1>10, ShownArray DEF OnChangeOfSegment, Reload
  <2> QED BY <1>10, <2>1, TypeRests DEF OnChangeOfSegment, TypeInv, TypeOK
<1>11. ASSUME NEW i \in DOMAIN rows, TapRow(i) \/ DeleteButton(i) PROVE TypeInv'
  BY <1>11, TypeTouch
<1>12. CASE Dismiss \/ ArchiveButton \/ CacheAnswers \/ CacheMisses
  BY <1>12, TypeModal
<1>13. CASE Confirm
  <2>1. modal.story \in Story
    BY <1>13 DEF Confirm, TypeInv, Posted, NoModal
  <2> QED BY <1>13, <2>1, TypeEdit DEF Confirm
<1>14. CASE Toggle
  <2>1. modal.story \in Story /\ status[modal.story] # "deleted"
    BY <1>14 DEF Toggle, TypeInv, Posted, NoModal
  <2>2. modal.story \notin deleting /\ UNCHANGED deleting
    BY <1>14, <2>1 DEF Toggle, TypeInv, TypeOK
  <2> QED BY <1>14, <2>1, <2>2, TypeEdit DEF Toggle
<1>15. CASE UNCHANGED vars
  BY <1>15, TypeRests DEF vars, screen, history, TypeInv, TypeOK
<1> QED BY <1>1, <1>2, <1>3, <1>4, <1>5, <1>6, <1>7, <1>8, <1>9, <1>10, <1>11, <1>12, <1>13, <1>14,
           <1>15 DEF Next

LEMMA TypeInvariant == Spec => []TypeInv
BY TypeInit, TypeNext, PTL DEF Spec

\* Every variable of Profile keeps its type; among the rest, what is listed and
\* what a screen or an alert is about was posted, and only deleted stories are
\* waiting for the acknowledgement of their deletion.
THEOREM TypeCorrect == Spec => []TypeOK
<1>1. TypeInv => TypeOK
  BY DEF TypeInv
<1> QED BY <1>1, TypeInvariant, PTL

-----------------------------------------------------------------------------
(* Whose stories are listed, and in which order *)

MineOnly == \A g \in Segment : \A i \in 1..Len(relatos[g]) : Author[relatos[g][i]] = currentUser

Ordered ==
  /\ \A g \in Segment : \A i, j \in 1..Len(relatos[g]) : i < j => relatos[g][i] > relatos[g][j]
  /\ \A i \in 1..Len(relatos["passados"]), j \in 1..Len(relatos["atuais"]) :
       relatos["passados"][i] # relatos["atuais"][j]

\* A load that ran alone so far found the arrays empty, and they still are.
LoneFacts(l) ==
  /\ loads[l].busy /\ relatos = Empty
  /\ \A k \in Load : loads[k].busy => k = l

ListInv ==
  /\ open => currentUser # NoUser /\ MineOnly
  /\ \A l \in Load : loads[l].lone => LoneFacts(l)
  /\ filled => Ordered

\* A step that leaves the arrays, and asks for no load.
LEMMA ListRests ==
  ASSUME ListInv, UNCHANGED <<relatos, filled>>,
         open' => open /\ currentUser' = currentUser,
         \A l \in Load : loads'[l].busy = loads[l].busy /\ loads'[l].lone = loads[l].lone
  PROVE  ListInv'
BY DEF ListInv, MineOnly, Ordered, LoneFacts

LEMMA ListAsk ==
  ASSUME TypeInv, ListInv, NEW l \in Load, Ask(l), UNCHANGED currentUser
  PROVE  ListInv'
<1>1. relatos' = Empty /\ filled' = FALSE /\ currentUser # NoUser
  BY DEF Ask
<1>2. MineOnly'
  BY <1>1, EmptyArrays DEF MineOnly
<1>3. ASSUME NEW k \in Load, loads'[k].lone PROVE LoneFacts(k)'
  <2>1. ASSUME NEW m \in Load, m # l PROVE loads'[m].busy = loads[m].busy /\ ~loads'[m].lone
    <3> DEFINE r == loads[m]
    <3>1. loads'[m] = [r EXCEPT !.lone = FALSE]
      BY <2>1 DEF Ask
    <3>2. r \in [busy : BOOLEAN, own : BOOLEAN, lone : BOOLEAN]
      BY DEF TypeInv, TypeOK, LoadState
    <3> HIDE DEF r
    <3>3. loads'[m].busy = r.busy /\ ~loads'[m].lone
      BY <3>1, <3>2
    <3> QED BY <3>3 DEF r
  <2>2. k = l /\ loads'[l].busy /\ Active = {}
    BY <1>3, <2>1 DEF Ask
  <2>3. \A m \in Load : ~loads[m].busy
    BY <2>2 DEF Active
  <2> QED BY <1>1, <2>1, <2>2, <2>3 DEF LoneFacts
<1> QED BY <1>1, <1>2, <1>3 DEF ListInv

LEMMA ListFail ==
  ASSUME TypeInv, ListInv, NEW l \in Load, loads' = [loads EXCEPT ![l] = IdleLoad],
         UNCHANGED <<relatos, filled, open, currentUser>>
  PROVE  ListInv'
<1>1. ASSUME NEW k \in Load, loads'[k].lone PROVE LoneFacts(k)'
  <2>1. k # l /\ loads'[k] = loads[k] /\ \A m \in Load : loads'[m].busy => loads[m].busy
    BY <1>1 DEF TypeInv, TypeOK, IdleLoad
  <2> QED BY <1>1, <2>1 DEF ListInv, LoneFacts
<1> QED BY <1>1 DEF ListInv, MineOnly, Ordered

LEMMA ListArrive ==
  ASSUME TypeInv, ListInv, NEW l \in Load, NEW docs, StoriesArrive(l, docs)
  PROVE  ListInv'
<1>1. PICK past \in Seq(Story), now \in Seq(Story) :
        /\ relatos' = [passados |-> relatos["passados"] \o past,
                       atuais |-> relatos["atuais"] \o now]
        /\ \A i \in 1..Len(past) : past[i] \in docs /\ Mine(past[i]) /\ Group(past[i]) = "passados"
        /\ \A i \in 1..Len(now) : now[i] \in docs /\ Mine(now[i]) /\ Group(now[i]) = "atuais"
        /\ \A i, j \in 1..Len(past) : i < j => past[i] > past[j]
        /\ \A i, j \in 1..Len(now) : i < j => now[i] > now[j]
        /\ docs = {} => past = <<>> /\ now = <<>>
  BY Arrival
<1>2. /\ loads' = [loads EXCEPT ![l] = IdleLoad] /\ loads[l].busy
      /\ filled' = loads[l].lone /\ UNCHANGED <<open, currentUser>>
  BY DEF StoriesArrive
<1>3. relatos["passados"] \in Seq(Story) /\ relatos["atuais"] \in Seq(Story)
  BY DEF TypeInv, Arrays, Segment
<1>4. \A k \in Load : ~loads'[k].lone
  BY <1>2 DEF ListInv, LoneFacts, TypeInv, TypeOK, IdleLoad
<1>5. ASSUME open' PROVE currentUser' # NoUser /\ MineOnly'
  <2>1. currentUser' = currentUser /\ currentUser # NoUser /\ MineOnly
    BY <1>2, <1>5 DEF ListInv
  <2>2. ASSUME NEW g \in Segment, NEW i \in 1..Len(relatos'[g])
        PROVE  Author[relatos'[g][i]] = currentUser
    <3>1. \A j \in 1..Len(relatos[g]) : Author[relatos[g][j]] = currentUser
      BY <2>1 DEF MineOnly
    <3>2. CASE g = "passados"
      <4>1. relatos'[g] = relatos[g] \o past /\ relatos[g] \in Seq(Story)
        BY <1>1, <1>3, <3>2
      <4>2. CASE i <= Len(relatos[g])
        BY <2>2, <3>1, <4>1, <4>2, ConcatStories
      <4>3. CASE i > Len(relatos[g])
        <5> DEFINE k == i - Len(relatos[g])
        <5>1. relatos'[g][i] = past[k] /\ k \in 1..Len(past)
          BY <2>2, <4>1, <4>3, ConcatStories
        <5> HIDE DEF k
        <5>2. Mine(past[k])
          BY <1>1, <5>1
        <5> QED BY <5>1, <5>2 DEF Mine
      <4> QED BY <2>2, <4>1, <4>2, <4>3, ConcatStories
    <3>3. CASE g = "atuais"
      <4>1. relatos'[g] = relatos[g] \o now /\ relatos[g] \in Seq(Story)
        BY <1>1, <1>3, <3>3
      <4>2. CASE i <= Len(relatos[g])
        BY <2>2, <3>1, <4>1, <4>2, ConcatStories
      <4>3. CASE i > Len(relatos[g])
        <5> DEFINE k == i - Len(relatos[g])
        <5>1. relatos'[g][i] = now[k] /\ k \in 1..Len(now)
          BY <2>2, <4>1, <4>3, ConcatStories
        <5> HIDE DEF k
        <5>2. Mine(now[k])
          BY <1>1, <5>1
        <5> QED BY <5>1, <5>2 DEF Mine
      <4> QED BY <2>2, <4>1, <4>2, <4>3, ConcatStories
    <3> QED BY <3>2, <3>3 DEF Segment
  <2> QED BY <2>1, <2>2 DEF MineOnly
<1>6. ASSUME filled' PROVE Ordered'
  <2>1. relatos["passados"] = <<>> /\ relatos["atuais"] = <<>>
    BY <1>2, <1>6, EmptyArrays DEF ListInv, LoneFacts, Segment
  <2>2. relatos'["passados"] = past /\ relatos'["atuais"] = now
    BY <1>1, <2>1
  <2>3. \A i \in 1..Len(past), j \in 1..Len(now) : past[i] # now[j]
    BY <1>1
  <2>4. ASSUME NEW g \in Segment, NEW i \in 1..Len(relatos'[g]), NEW j \in 1..Len(relatos'[g]), i < j
        PROVE  relatos'[g][i] > relatos'[g][j]
    <3>1. CASE g = "passados"
      BY <1>1, <2>2, <2>4, <3>1
    <3>2. CASE g = "atuais"
      BY <1>1, <2>2, <2>4, <3>2
    <3> QED BY <3>1, <3>2 DEF Segment
  <2>5. \A i \in 1..Len(relatos'["passados"]), j \in 1..Len(relatos'["atuais"]) :
          relatos'["passados"][i] # relatos'["atuais"][j]
    BY <2>2, <2>3
  <2> QED BY <2>4, <2>5 DEF Ordered
<1> QED BY <1>4, <1>5, <1>6 DEF ListInv

LEMMA ListNext == TypeInv /\ ListInv /\ [Next]_vars => ListInv'
<1> SUFFICES ASSUME TypeInv, ListInv, [Next]_vars PROVE ListInv'
  OBVIOUS
<1>1. ASSUME NEW u \in Account, SignIn(u) PROVE ListInv'
  BY <1>1, ListRests DEF SignIn, screen, history, ListInv
<1>2. CASE SignOut
  <2>1. \A l \in Load : loads'[l].busy = loads[l].busy /\ loads'[l].lone = loads[l].lone
    BY <1>2 DEF SignOut, TypeInv, TypeOK, LoadState
  <2> QED BY <1>2, <2>1, ListRests DEF SignOut, CloseProfile
<1>3. CASE Relaunch
  BY <1>3 DEF Relaunch, CloseProfile, ListInv, IdleLoad
<1>4. ASSUME NEW s \in Story, Send(s) \/ Deleted(s) PROVE ListInv'
  BY <1>4, ListRests DEF Send, Deleted, screen, history
<1>5. ASSUME NEW l \in Load, OpenProfile(l) \/ RefreshData(l) PROVE ListInv'
  BY <1>5, ListAsk DEF OpenProfile, RefreshData
<1>6. ASSUME NEW l \in Load, Answer(l) PROVE ListInv'
  BY <1>6, ListArrive, ListFail DEF Answer, StoriesFail, screen
<1>7. ASSUME NEW g \in Segment, EditButton \/ OnChangeOfSegment(g) PROVE ListInv'
  BY <1>7, ListRests DEF EditButton, OnChangeOfSegment
<1>8. ASSUME NEW i \in DOMAIN rows, TapRow(i) \/ DeleteButton(i) PROVE ListInv'
  BY <1>8, ListRests DEF TapRow, DeleteButton, Touch, history
<1>9. CASE Dismiss \/ ArchiveButton \/ CacheAnswers \/ CacheMisses
  BY <1>9, ListRests DEF Dismiss, ArchiveButton, CacheAnswers, CacheMisses, history
<1>10. CASE Confirm \/ Toggle
  BY <1>10, ListRests DEF Confirm, Toggle, Edit, history
<1>11. CASE UNCHANGED vars
  BY <1>11, ListRests DEF vars, screen, history
<1>12. "passados" \in Segment
  BY DEF Segment
<1> QED BY <1>1, <1>2, <1>3, <1>4, <1>5, <1>6, <1>7, <1>8, <1>9, <1>10, <1>11, <1>12 DEF Next

\* The profile only lists the stories of its user, whatever loads of the users
\* before are still answered; and a load that ran alone lists each story once,
\* latest first.
THEOREM ListIsProperAlways == Spec => []ListIsProper
<1>1. Init => ListInv
  BY DEF Init, ListInv, IdleLoad
<1>2. TypeInv /\ ListInv => ListIsProper
  <2> SUFFICES ASSUME TypeInv, ListInv PROVE ListIsProper
    OBVIOUS
  <2>1. \A g \in Segment : DOMAIN relatos[g] = 1..Len(relatos[g])
                           /\ Range(relatos[g]) = {relatos[g][i] : i \in 1..Len(relatos[g])}
    BY DEF TypeInv, Arrays, Range
  <2>2. ASSUME open, NEW g \in Segment, NEW s \in Range(relatos[g]) PROVE Author[s] = currentUser
    <3>1. PICK i \in 1..Len(relatos[g]) : s = relatos[g][i]
      BY <2>1, <2>2
    <3> QED BY <2>2, <3>1 DEF ListInv, MineOnly
  <2>3. ASSUME filled PROVE Range(relatos["passados"]) \intersect Range(relatos["atuais"]) = {}
    BY <2>1, <2>3 DEF ListInv, Ordered, Segment
  <2>4. ASSUME filled
        PROVE  \A g \in Segment : \A i, j \in DOMAIN relatos[g] : i < j => relatos[g][i] > relatos[g][j]
    BY <2>1, <2>4 DEF ListInv, Ordered
  <2> QED BY <2>2, <2>3, <2>4 DEF ListIsProper
<1> QED BY <1>1, <1>2, TypeInvariant, ListNext, PTL DEF Spec

-----------------------------------------------------------------------------
(* The rows *)

LEMMA PrefixIsPointwise ==
  ASSUME NEW s \in Seq(Story), NEW t \in Seq(Story)
  PROVE  IsPrefix(s, t) <=> Len(s) <= Len(t) /\ \A i \in 1..Len(s) : s[i] = t[i]
<1>1. Len(s) \in Nat /\ Len(t) \in Nat
  OBVIOUS
<1>2. CASE Len(s) <= Len(t)
  <2>1. /\ SubSeq(s, 1, Len(s)) \in Seq(Story) /\ Len(SubSeq(s, 1, Len(s))) = Len(s)
        /\ SubSeq(t, 1, Len(s)) \in Seq(Story) /\ Len(SubSeq(t, 1, Len(s))) = Len(s)
    BY <1>1, <1>2
  <2>2. \A i \in 1..Len(s) : SubSeq(s, 1, Len(s))[i] = s[i] /\ SubSeq(t, 1, Len(s))[i] = t[i]
    BY <1>1, <1>2
  <2>3. SubSeq(s, 1, Len(s)) = SubSeq(t, 1, Len(s))
        <=> \A i \in 1..Len(s) : SubSeq(s, 1, Len(s))[i] = SubSeq(t, 1, Len(s))[i]
    BY <2>1
  <2> QED BY <1>2, <2>2, <2>3 DEF IsPrefix
<1>3. CASE ~(Len(s) <= Len(t))
  BY <1>3 DEF IsPrefix
<1> QED BY <1>2, <1>3

LEMMA PrefixGrows ==
  ASSUME NEW s \in Seq(Story), NEW t \in Seq(Story), NEW u \in Seq(Story), IsPrefix(s, t) \/ s = t
  PROVE  IsPrefix(s, t \o u)
<1>1. /\ Len(s) \in Nat /\ Len(t) \in Nat /\ Len(u) \in Nat
      /\ Len(s) <= Len(t) /\ \A i \in 1..Len(s) : s[i] = t[i]
  BY PrefixIsPointwise
<1>2. t \o u \in Seq(Story) /\ Len(t \o u) = Len(t) + Len(u) /\ \A i \in 1..Len(t) : (t \o u)[i] = t[i]
  BY ConcatStories
<1>3. Len(s) <= Len(t \o u) /\ \A i \in 1..Len(s) : s[i] = (t \o u)[i]
  BY <1>1, <1>2
<1> QED BY <1>2, <1>3, PrefixIsPointwise

\* A step that leaves the rows and the arrays.
LEMMA RowsRest ==
  ASSUME RowsInStep, UNCHANGED <<rows, relatos, segment, stray>>, open' => open
  PROVE  RowsInStep'
BY DEF RowsInStep

\* A step that reloads the table.
LEMMA RowsReloaded ==
  ASSUME rows' = relatos'[segment'], stray' = FALSE
  PROVE  RowsInStep'
BY DEF RowsInStep

LEMMA RowsArrive ==
  ASSUME TypeInv, RowsInStep, NEW l \in Load, NEW docs, StoriesArrive(l, docs)
  PROVE  RowsInStep'
<1>1. PICK past \in Seq(Story), now \in Seq(Story) :
        /\ relatos' = [passados |-> relatos["passados"] \o past,
                       atuais |-> relatos["atuais"] \o now]
        /\ docs = {} => past = <<>> /\ now = <<>>
  BY Arrival
<1>2. Tell(l, docs) /\ UNCHANGED <<open, segment>> /\ segment \in Segment
  BY DEF StoriesArrive, TypeInv, TypeOK
<1>3. relatos[segment] \in Seq(Story) /\ rows \in Seq(Story)
  BY <1>2 DEF TypeInv, TypeOK, Arrays
<1>4. PICK more \in Seq(Story) :
        relatos'[segment] = relatos[segment] \o more /\ (docs = {} => more = <<>>)
  <2>1. CASE segment = "passados"
    BY <1>1, <2>1
  <2>2. CASE segment = "atuais"
    BY <1>1, <2>2
  <2> QED BY <1>2, <2>1, <2>2 DEF Segment
<1>5. CASE loads[l].own /\ docs # {}
  BY <1>2, <1>5, RowsReloaded DEF Tell, Reload
<1>6. CASE loads[l].own /\ docs = {}
  <2>1. rows' = rows /\ stray' = stray
    BY <1>2, <1>6 DEF Tell, TypeInv, TypeOK
  <2>2. relatos'[segment] = relatos[segment]
    BY <1>3, <1>4, <1>6
  <2> QED BY <1>2, <2>1, <2>2 DEF RowsInStep
<1>7. CASE ~loads[l].own
  <2>1. rows' = rows /\ stray' = TRUE
    BY <1>2, <1>7 DEF Tell, TypeInv, TypeOK
  <2>2. ASSUME open PROVE IsPrefix(rows, relatos[segment]) \/ rows = relatos[segment]
    BY <2>2 DEF RowsInStep
  <2>3. ASSUME open PROVE IsPrefix(rows, relatos'[segment])
    BY <1>3, <1>4, <2>2, <2>3, PrefixGrows
  <2> QED BY <1>2, <2>1, <2>3 DEF RowsInStep
<1> QED BY <1>5, <1>6, <1>7

LEMMA RowsNext == TypeInv /\ RowsInStep /\ [Next]_vars => RowsInStep'
<1> SUFFICES ASSUME TypeInv, RowsInStep, [Next]_vars PROVE RowsInStep'
  OBVIOUS
<1>1. ASSUME NEW u \in Account, SignIn(u) PROVE RowsInStep'
  BY <1>1, RowsRest DEF SignIn, screen, history
<1>2. CASE SignOut \/ Relaunch
  BY <1>2 DEF SignOut, Relaunch, CloseProfile, RowsInStep
<1>3. ASSUME NEW s \in Story, Send(s) PROVE RowsInStep'
  BY <1>3, RowsRest DEF Send, screen, history
<1>4. ASSUME NEW s \in Story, Deleted(s) PROVE RowsInStep'
  BY <1>4, RowsRest, RowsReloaded DEF Deleted, Reload
<1>5. ASSUME NEW l \in Load, OpenProfile(l) \/ RefreshData(l) PROVE RowsInStep'
  BY <1>5, RowsReloaded DEF OpenProfile, RefreshData, Reload
<1>6. ASSUME NEW l \in Load, Answer(l) PROVE RowsInStep'
  BY <1>6, RowsArrive, RowsRest DEF Answer, StoriesFail, screen
<1>7. ASSUME NEW g \in Segment, EditButton \/ OnChangeOfSegment(g) PROVE RowsInStep'
  BY <1>7, RowsReloaded DEF EditButton, OnChangeOfSegment, Reload
<1>8. ASSUME NEW i \in DOMAIN rows, TapRow(i) \/ DeleteButton(i) PROVE RowsInStep'
  BY <1>8, RowsRest DEF TapRow, DeleteButton, Touch, history
<1>9. CASE Dismiss \/ ArchiveButton \/ CacheAnswers \/ CacheMisses
  BY <1>9, RowsRest DEF Dismiss, ArchiveButton, CacheAnswers, CacheMisses, history
<1>10. CASE Confirm \/ Toggle
  BY <1>10, RowsRest DEF Confirm, Toggle, Edit, history
<1>11. CASE UNCHANGED vars
  BY <1>11, RowsRest DEF vars, screen, history
<1>12. "passados" \in Segment
  BY DEF Segment
<1> QED BY <1>1, <1>2, <1>3, <1>4, <1>5, <1>6, <1>7, <1>8, <1>9, <1>10, <1>11, <1>12 DEF Next

\* Every row is in the array under its number, whatever is loaded, archived or
\* deleted, and whoever was signed in before.
THEOREM RowsInStepAlways == Spec => []RowsInStep
<1>1. Init => RowsInStep
  BY DEF Init, RowsInStep
<1> QED BY <1>1, TypeInvariant, RowsNext, PTL DEF Spec

\* No touch of the table indexes past the end of an array, or opens another
\* story than the row shows: didSelectRowAt and the button of a cell are safe.
THEOREM TouchesAreSafe ==
  Spec => [][\A i \in DOMAIN rows : TapRow(i) \/ DeleteButton(i) =>
               ~crashed' /\ modal'.story = rows[i]]_vars
<1> DEFINE Safe == \A i \in DOMAIN rows : TapRow(i) \/ DeleteButton(i) =>
                     ~crashed' /\ modal'.story = rows[i]
<1>1. TypeInv /\ RowsInStep => Safe
  <2> SUFFICES ASSUME TypeInv, RowsInStep, NEW i \in DOMAIN rows, TapRow(i) \/ DeleteButton(i)
               PROVE  ~crashed' /\ modal'.story = rows[i]
    OBVIOUS
  <2>1. open /\ ~crashed
    BY DEF TapRow, DeleteButton, Touch, Touchable
  <2>2. rows \in Seq(Story) /\ relatos[segment] \in Seq(Story) /\ i \in 1..Len(rows)
    BY DEF TypeInv, TypeOK
  <2>3. i <= Len(relatos[segment]) /\ relatos[segment][i] = rows[i]
    BY <2>1, <2>2, PrefixIsPointwise DEF RowsInStep
  <2>4. ~(i > Len(relatos[segment]))
    BY <2>2, <2>3
  <2>5. /\ UNCHANGED crashed
        /\ \/ modal' = [kind |-> "story", story |-> relatos[segment][i]]
           \/ modal' = [kind |-> "delete", story |-> relatos[segment][i]]
    BY <2>4 DEF TapRow, DeleteButton, Touch
  <2> QED BY <2>1, <2>3, <2>5
<1> QED BY <1>1, TypeInvariant, RowsInStepAlways, PTL DEF Spec

=============================================================================
