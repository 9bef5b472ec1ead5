------------------------------- MODULE Profile -------------------------------
(***************************************************************************)
(* A user's own stories: how they are written, listed on the profile,      *)
(* archived, restored and deleted (NewStoryScreen, Relato,                 *)
(* MyStoriesManager, Profile and its cells, StoryScreen).                   *)
(*                                                                         *)
(* The manager's two arrays are emptied when a load is asked for and filled *)
(* when it is answered, by whoever is signed in then; nothing else changes  *)
(* them, so that a story that was archived or deleted stays in its row.     *)
(***************************************************************************)
EXTENDS Integers, SequencesExt, FiniteSets

CONSTANTS
  User, Account,  \* users, and those that sign in on this phone
  NoUser,         \* UserManager.currentUser = nil
  Story,          \* the stories, by their date: natural numbers
  Author,         \* Author[s] is the user who posts story s
  Load,           \* bound: the loads that may be in flight at once
  MaxEdit         \* bound: the times stories are archived, restored or deleted

ASSUME UserAssumption == NoUser \notin User /\ Account \subseteq User
ASSUME StoryAssumption ==
  Story \subseteq Nat /\ IsFiniteSet(Story) /\ Author \in [Story -> User]
ASSUME BoundAssumption == MaxEdit \in Nat

VARIABLES
  status,       \* each story's field "status" as this phone knows it
  deleting,     \* deletions the server has not acknowledged
  edits,        \* counts up to MaxEdit
  currentUser,  \* UserManager.instance.currentUser
  relatos,      \* relatosPassados and relatosAtuais
  loads,        \* the loads in flight
  open,         \* the profile of this session has been loaded
  spinning,     \* activityView is animating
  segment,      \* currentSegment
  editing,      \* profileIsEditing
  rows,         \* what the rows of profileTableView show
  modal,        \* what is presented over the profile
  crashed,      \* the process was stopped by a trap
  filled,       \* history: the load that filled the arrays, alone
  unanswered,   \* history: a load of this profile told nothing
  stray         \* history: since the last reload, a load of an earlier
                \* session's profile filled the arrays

screen == <<open, spinning, segment, editing, rows, modal>>
history == <<filled, unanswered, stray>>
vars == <<status, deleting, edits, currentUser, relatos, loads, screen, crashed, history>>

Status == {"absent", "active", "archived", "deleted"}
Segment == {"passados", "atuais"}
Empty == [g \in Segment |-> <<>>]

\* own: the requester is the profile on show.  lone: no other load was in
\* flight since this one was asked for (history).
LoadState == [busy : BOOLEAN, own : BOOLEAN, lone : BOOLEAN]
IdleLoad == [busy |-> FALSE, own |-> FALSE, lone |-> FALSE]
Active == {l \in Load : loads[l].busy}

\* A story's screen, the read of the cache its button awaits, the alert that
\* asks to archive or restore it, and the alert that asks to delete a row.
NoModal == [kind |-> "none"]
Modal == {NoModal}
  \union [kind : {"story", "cache", "delete"}, story : Story]
  \union [kind : {"toggle"}, story : Story, property : {"active", "archived"}]

Init ==
  /\ status = [s \in Story |-> "absent"] /\ deleting = {} /\ edits = 0
  /\ currentUser = NoUser /\ relatos = Empty
  /\ loads = [l \in Load |-> IdleLoad]
  /\ open = FALSE /\ spinning = FALSE /\ segment = "passados" /\ editing = FALSE
  /\ rows = <<>> /\ modal = NoModal /\ crashed = FALSE
  /\ filled = FALSE /\ unanswered = FALSE /\ stray = FALSE

\* (A definition that says "slip" is wrong on purpose: it replaces the one that
\* follows it in the checks that show a property can fail.)

\* profileTableView.reloadData()
Reload(g) == rows' = relatos'[g] /\ stray' = FALSE

Touchable == ~crashed /\ open /\ modal = NoModal

-----------------------------------------------------------------------------
(* The session *)

CloseProfile ==
  /\ open' = FALSE /\ spinning' = FALSE /\ segment' = "passados" /\ editing' = FALSE
  /\ rows' = <<>> /\ modal' = NoModal /\ unanswered' = FALSE /\ stray' = FALSE

SignIn(u) ==
  /\ ~crashed /\ currentUser = NoUser /\ currentUser' = u
  /\ UNCHANGED <<status, deleting, edits, relatos, loads, screen, crashed, history>>

\* The arrays and the loads outlive the session.
SignOut ==
  /\ ~crashed /\ currentUser # NoUser /\ modal = NoModal
  /\ currentUser' = NoUser
  /\ loads' = [l \in Load |-> [loads[l] EXCEPT !.own = FALSE]]
  /\ CloseProfile
  /\ UNCHANGED <<status, deleting, edits, relatos, crashed, filled>>

\* Queued writes are on disk; their completions are lost.
Relaunch ==
  /\ relatos' = Empty /\ loads' = [l \in Load |-> IdleLoad]
  /\ deleting' = {} /\ crashed' = FALSE /\ filled' = FALSE
  /\ CloseProfile
  /\ UNCHANGED <<status, edits, currentUser>>

-----------------------------------------------------------------------------
(* Writing *)

\* sendButton on this phone, or another's: Relato.init saves the story, and the
\* button saves it again under the same id.
Send(s) ==
  /\ ~crashed /\ status[s] = "absent" /\ \A t \in Story : t > s => status[t] = "absent"
  /\ Author[s] \in Account => Author[s] = currentUser /\ modal = NoModal
  /\ status' = [status EXCEPT ![s] = "active"]
  /\ UNCHANGED <<deleting, edits, currentUser, relatos, loads, screen, crashed, history>>

-----------------------------------------------------------------------------
(* MyStoriesManager.loadMyStories *)

\* Slip: the arrays are not emptied.
AskKeeping(l) ==
  /\ ~crashed /\ currentUser # NoUser /\ ~loads[l].busy
  /\ relatos' = relatos /\ filled' = FALSE
  /\ loads' = [k \in Load |->
       IF k = l THEN [busy |-> TRUE, own |-> TRUE, lone |-> Active = {}]
       ELSE [loads[k] EXCEPT !.lone = FALSE]]

Ask(l) ==
  /\ ~crashed /\ currentUser # NoUser /\ ~loads[l].busy
  /\ relatos' = Empty /\ filled' = FALSE
  /\ loads' = [k \in Load |->
       IF k = l THEN [busy |-> TRUE, own |-> TRUE, lone |-> Active = {}]
       ELSE [loads[k] EXCEPT !.lone = FALSE]]

Group(s) == IF status[s] = "active" THEN "atuais" ELSE "passados"

\* Slip: the author is not looked at.
AnyStory(s) == TRUE

Mine(s) == Author[s] = currentUser

\* The query sorts by date, latest first.
Descending(S) ==
  {q \in [1..Cardinality(S) -> S] : \A i, j \in 1..Cardinality(S) : i < j => q[i] > q[j]}

\* Slip: the requester is told after the loop, if something is listed.
TellIfAny(l, docs) ==
  IF loads[l].own /\ \E s \in docs : Mine(s)
  THEN Reload(segment) /\ spinning' = FALSE /\ UNCHANGED unanswered
  ELSE /\ stray' = (stray \/ ~loads[l].own)
       /\ unanswered' = (unanswered \/ (loads[l].own /\ docs = {}))
       /\ UNCHANGED <<rows, spinning>>

\* readedMyStories is called for every document, and for none if there is none.
Tell(l, docs) ==
  IF loads[l].own /\ docs # {}
  THEN Reload(segment) /\ spinning' = FALSE /\ UNCHANGED unanswered
  ELSE /\ stray' = (stray \/ ~loads[l].own)
       /\ unanswered' = (unanswered \/ loads[l].own)
       /\ UNCHANGED <<rows, spinning>>

\* The answer, of the server or of the cache (which may lack documents).
StoriesArrive(l, docs) ==
  /\ ~crashed /\ loads[l].busy
  /\ docs \subseteq {s \in Story : status[s] \in {"active", "archived"}}
  /\ \E past \in Descending({s \in docs : Mine(s) /\ Group(s) = "passados"}),
        now \in Descending({s \in docs : Mine(s) /\ Group(s) = "atuais"}) :
       relatos' = [passados |-> relatos["passados"] \o past, atuais |-> relatos["atuais"] \o now]
  /\ loads' = [loads EXCEPT ![l] = IdleLoad]
  /\ filled' = loads[l].lone
  /\ Tell(l, docs)
  /\ UNCHANGED <<status, deleting, edits, currentUser, open, segment, editing, modal, crashed>>

StoriesFail(l) ==
  /\ ~crashed /\ loads[l].busy
  /\ loads' = [loads EXCEPT ![l] = IdleLoad]
  /\ unanswered' = (unanswered \/ loads[l].own)
  /\ UNCHANGED <<status, deleting, edits, currentUser, relatos, screen, crashed, filled, stray>>

-----------------------------------------------------------------------------
(* The profile *)

\* viewDidLoad, and the first layout of the table.
OpenProfile(l) ==
  /\ ~open /\ Ask(l)
  /\ open' = TRUE /\ spinning' = TRUE /\ segment' = "passados" /\ editing' = FALSE
  /\ Reload("passados")
  /\ UNCHANGED <<status, deleting, edits, currentUser, modal, crashed, unanswered>>

\* Slip: refreshData does not reload the table.
RefreshUnseen(l) ==
  /\ Touchable /\ Ask(l)
  /\ UNCHANGED <<status, deleting, edits, currentUser, screen, crashed, unanswered, stray>>

RefreshData(l) ==
  /\ Touchable /\ Ask(l) /\ UNCHANGED segment /\ Reload(segment)
  /\ UNCHANGED <<status, deleting, edits, currentUser, open, spinning, editing, modal, crashed,
                 unanswered>>

EditButton ==
  /\ Touchable /\ editing' = ~editing /\ UNCHANGED <<relatos, segment>> /\ Reload(segment)
  /\ UNCHANGED <<status, deleting, edits, currentUser, loads, open, spinning, modal, crashed,
                 filled, unanswered>>

OnChangeOfSegment(g) ==
  /\ Touchable /\ segment' = g /\ UNCHANGED relatos /\ Reload(g)
  /\ UNCHANGED <<status, deleting, edits, currentUser, loads, open, spinning, editing, modal,
                 crashed, filled, unanswered>>

\* The array of the segment is indexed with the number of the row.
Touch(i, next) ==
  /\ Touchable /\ i \in DOMAIN rows
  /\ IF i > Len(relatos[segment])
     THEN crashed' = TRUE /\ UNCHANGED modal
     ELSE modal' = next /\ UNCHANGED crashed
  /\ UNCHANGED <<status, deleting, edits, currentUser, relatos, loads, open, spinning, segment,
                 editing, rows, history>>

\* didSelectRowAt and prepare
TapRow(i) == Touch(i, [kind |-> "story", story |-> relatos[segment][i]])

\* The button of the cell.
DeleteButton(i) ==
  editing /\ Touch(i, [kind |-> "delete", story |-> relatos[segment][i]])

\* "Cancelar", dismissButton
Dismiss ==
  /\ ~crashed /\ modal # NoModal
  /\ modal' = IF modal.kind = "toggle" THEN [kind |-> "story", story |-> modal.story] ELSE NoModal
  /\ UNCHANGED <<status, deleting, edits, currentUser, relatos, loads, open, spinning, segment,
                 editing, rows, crashed, history>>

Edit(s, to) ==
  /\ edits < MaxEdit /\ edits' = edits + 1
  /\ status' = [status EXCEPT ![s] = to]
  /\ modal' = NoModal
  /\ UNCHANGED <<currentUser, relatos, loads, open, spinning, segment, editing, rows, crashed,
                 history>>

\* "Excluir relato"
Confirm ==
  /\ ~crashed /\ modal.kind = "delete"
  /\ Edit(modal.story, "deleted")
  /\ deleting' = deleting \union {modal.story}

\* The completion reloads the table, of arrays that still hold the story.
Deleted(s) ==
  /\ ~crashed /\ s \in deleting /\ currentUser = Author[s]
  /\ deleting' = deleting \ {s}
  /\ UNCHANGED <<relatos, segment>>
  /\ IF open THEN Reload(segment) ELSE UNCHANGED <<rows, stray>>
  /\ UNCHANGED <<status, edits, currentUser, loads, open, spinning, editing, modal, crashed,
                 filled, unanswered>>

-----------------------------------------------------------------------------
(* StoryScreen *)

\* archiveButton asks the cache.
ArchiveButton ==
  /\ ~crashed /\ modal.kind = "story"
  /\ modal' = [kind |-> "cache", story |-> modal.story]
  /\ UNCHANGED <<status, deleting, edits, currentUser, relatos, loads, open, spinning, segment,
                 editing, rows, crashed, history>>

\* Slip: the status is not unwrapped.
CacheAnswersUnchecked ==
  /\ ~crashed /\ modal.kind = "cache"
  /\ modal' = [kind |-> "toggle", story |-> modal.story, property |-> status[modal.story]]
  /\ UNCHANGED <<status, deleting, edits, currentUser, relatos, loads, open, spinning, segment,
                 editing, rows, crashed, history>>

\* print(property!) traps when the story was deleted, its row still being there.
CacheAnswers ==
  /\ ~crashed /\ modal.kind = "cache"
  /\ IF status[modal.story] = "deleted"
     THEN crashed' = TRUE /\ UNCHANGED modal
     ELSE /\ modal' = [kind |-> "toggle", story |-> modal.story, property |-> status[modal.story]]
          /\ UNCHANGED crashed
  /\ UNCHANGED <<status, deleting, edits, currentUser, relatos, loads, open, spinning, segment,
                 editing, rows, history>>

CacheMisses ==
  /\ ~crashed /\ modal.kind = "cache"
  /\ modal' = [kind |-> "story", story |-> modal.story]
  /\ UNCHANGED <<status, deleting, edits, currentUser, relatos, loads, open, spinning, segment,
                 editing, rows, crashed, history>>

\* "Arquivar relato", "Desarquivar relato"
Toggle ==
  /\ ~crashed /\ modal.kind = "toggle"
  /\ Edit(modal.story, IF modal.property = "archived" THEN "active" ELSE "archived")
  /\ UNCHANGED deleting

-----------------------------------------------------------------------------

Answer(l) == (\E docs \in SUBSET Story : StoriesArrive(l, docs)) \/ StoriesFail(l)

Next ==
  \/ \E u \in Account : SignIn(u)
  \/ SignOut \/ Relaunch
  \/ \E s \in Story : Send(s) \/ Deleted(s)
  \/ \E l \in Load : OpenProfile(l) \/ RefreshData(l) \/ Answer(l)
  \/ EditButton \/ (\E g \in Segment : OnChangeOfSegment(g))
  \/ \E i \in DOMAIN rows : TapRow(i) \/ DeleteButton(i)
  \/ Dismiss \/ Confirm \/ ArchiveButton \/ CacheAnswers \/ CacheMisses \/ Toggle

Spec == Init /\ [][Next]_vars

\* The query is answered: by the server, from the cache, or by an error.
FairSpec == Spec /\ \A l \in Load : WF_vars(Answer(l))

-----------------------------------------------------------------------------
(* Properties *)

\* Every variable keeps its type.
TypeOK ==
  /\ status \in [Story -> Status] /\ deleting \subseteq {s \in Story : status[s] = "deleted"}
  /\ edits \in 0..MaxEdit /\ currentUser \in Account \union {NoUser}
  /\ DOMAIN relatos = Segment /\ \A g \in Segment : relatos[g] \in Seq(Story)
  /\ loads \in [Load -> LoadState]
  /\ segment \in Segment /\ rows \in Seq(Story) /\ modal \in Modal
  /\ {open, spinning, editing, crashed, filled, unanswered, stray} \subseteq BOOLEAN

\* Every row is in the array under its number, before, during and after every
\* load, whatever was archived or deleted meanwhile: no touch of a row indexes
\* past the end or opens another story.  The array may only have more, when a
\* load of an earlier session's profile was answered.
RowsInStep ==
  open => IF stray THEN IsPrefix(rows, relatos[segment]) ELSE rows = relatos[segment]

\* The profile lists its user's stories only, although the arrays and the loads
\* of the user before are still there when it opens; and a load that ran alone
\* lists a story once, under one segment, latest first.  (Two that overlap list
\* every story twice.)
ListIsProper ==
  /\ open => \A g \in Segment : \A s \in Range(relatos[g]) : Author[s] = currentUser
  /\ filled =>
       /\ \A g \in Segment : \A i, j \in DOMAIN relatos[g] : i < j => relatos[g][i] > relatos[g][j]
       /\ Range(relatos["passados"]) \intersect Range(relatos["atuais"]) = {}

\* The spinner of viewDidLoad stops, unless a load fails or finds no story of
\* anybody (nobody is told), or the process goes down.
SpinnerStops == spinning ~> ~spinning \/ unanswered \/ crashed

=============================================================================
