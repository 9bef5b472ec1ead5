------------------------------ MODULE Messages ------------------------------
(***************************************************************************)
(* The conversations screen (Controller/Messages.swift and the delete      *)
(* button of its cells) on top of ChannelsManager.                         *)
(*                                                                         *)
(* The table is drawn from the manager's array when reloadData is called,  *)
(* and every tap is looked up in that array again, by row number: what the *)
(* rows show and what the array holds part as soon as a refresh empties it. *)
(***************************************************************************)
EXTENDS ChannelsManager

CONSTANT Blank  \* a row drawn while the array was empty: an unconfigured cell

VARIABLES
  open,        \* the screen of this session has been loaded
  spinning,    \* activityView is animating
  editing,     \* messageIsEditing
  rows,        \* what the rows of messagesTableView show
  modal,       \* what is presented over the table
  awaiting,    \* deletions confirmed here whose completion has not run
  fresh,       \* loads whose requester is this screen, not an older one
  unanswered,  \* history: a load of this screen ended in an error
  stray        \* history: since the last reload, the array changed for good
               \* and this screen was not told

screen == <<open, spinning, editing, rows, modal, awaiting, fresh, unanswered, stray>>
svars == <<vars, screen>>

\* A conversation opened from a row, or the alert that asks to confirm a
\* deletion.  History: shown, what the row showed; steady, whether the table
\* was at rest when it was touched.
NoModal == [kind |-> "none"]
Modal == {NoModal} \union
  [kind : {"chat", "delete"}, chan : Channel, shown : Channel \union {Blank}, steady : BOOLEAN]

\* No load is between its block list and its end, and none ended unseen.
AtRest == open /\ ~stray /\ \A l \in Load : loads[l].stage \in {"idle", "blocks"}

ScreenInit ==
  /\ Init
  /\ open = FALSE /\ spinning = FALSE /\ editing = FALSE
  /\ rows = <<>> /\ modal = NoModal /\ awaiting = {} /\ fresh = {}
  /\ unanswered = FALSE /\ stray = FALSE

\* Slip: the table is not redrawn.  (As in ChannelsManager, a slip replaces the
\* definition after it in the checks that show a property can fail.)
ReloadForgotten == UNCHANGED rows /\ stray' = FALSE

\* messagesTableView.reloadData()
Reload == rows' = channels /\ stray' = FALSE

Touchable == ~crashed /\ open /\ modal = NoModal

-----------------------------------------------------------------------------
(* The session around the screen *)

Elsewhere ==
  /\ \/ \E u \in User : SaveProfile(u)
     \/ \E u, v \in User : Block(u, v)
     \/ \E c \in Channel : CreateElsewhere(c) \/ DeleteElsewhere(c) \/ CreateChannel(c)
     \/ \E u \in Account : SignIn(u)
  /\ UNCHANGED screen

\* The screen is gone; its loads are still answered.
LeaveScreen(step) ==
  /\ step
  /\ open' = FALSE /\ spinning' = FALSE /\ editing' = FALSE
  /\ rows' = <<>> /\ modal' = NoModal /\ awaiting' = {} /\ fresh' = {}
  /\ unanswered' = FALSE /\ stray' = FALSE

LogOut == modal = NoModal /\ LeaveScreen(SignOut)
Restart == LeaveScreen(Relaunch)

-----------------------------------------------------------------------------
(* The screen *)

\* viewDidLoad, and the first layout of the table, before any answer.
OpenMessages(l) ==
  /\ ~open /\ PreLoad(l)
  /\ open' = TRUE /\ spinning' = TRUE /\ editing' = FALSE
  /\ rows' = channels /\ fresh' = {l}
  /\ UNCHANGED <<modal, awaiting, unanswered, stray>>

\* refreshData
PullRefresh(l) ==
  /\ Touchable /\ PreLoad(l)
  /\ fresh' = fresh \union {l}
  /\ UNCHANGED <<open, spinning, editing, rows, modal, awaiting, unanswered, stray>>

EditButton ==
  /\ Touchable /\ editing' = ~editing /\ Reload
  /\ UNCHANGED <<vars, open, spinning, modal, awaiting, fresh, unanswered>>

\* cellForRowAt, for a row that scrolls into sight.
DrawRow(i) ==
  /\ open /\ ~crashed /\ i \in DOMAIN rows
  /\ IF channels # <<>> /\ i > Len(channels)
     THEN Trap /\ UNCHANGED screen
     ELSE /\ rows' = [rows EXCEPT ![i] = IF channels = <<>> THEN Blank ELSE channels[i]]
          /\ UNCHANGED <<vars, open, spinning, editing, modal, awaiting, fresh, unanswered, stray>>

\* The array is indexed with the number of the row that was touched.
Touch(i, kind) ==
  /\ Touchable /\ i \in DOMAIN rows
  /\ IF i > Len(channels)
     THEN Trap /\ UNCHANGED screen
     ELSE /\ modal' = [kind |-> kind, chan |-> channels[i], shown |-> rows[i], steady |-> AtRest]
          /\ UNCHANGED <<vars, open, spinning, editing, rows, awaiting, fresh, unanswered, stray>>

TapRow(i) == Touch(i, "chat")                    \* didSelectRowAt
DeleteButton(i) == editing /\ Touch(i, "delete") \* the button of the cell

\* The chat is left, or the alert is cancelled.
Dismiss ==
  /\ ~crashed /\ modal # NoModal
  /\ modal' = NoModal
  /\ UNCHANGED <<vars, open, spinning, editing, rows, awaiting, fresh, unanswered, stray>>

\* Slip: the row is looked up again when the alert is answered.
ConfirmRow ==
  /\ ~crashed /\ modal.kind = "delete"
  /\ \E i \in DOMAIN rows \intersect DOMAIN channels :
       /\ rows[i] = modal.shown
       /\ queue' = queue \union {[op |-> "delete", by |-> currentUser, chan |-> channels[i]]}
  /\ awaiting' = awaiting /\ modal' = NoModal
  /\ UNCHANGED <<server, currentUser, lists, loads, crashed, seen>>
  /\ UNCHANGED <<open, spinning, editing, rows, fresh, unanswered, stray>>

\* Slip: the conversation leaves the array too, and the table is not redrawn.
ConfirmLocally ==
  /\ ~crashed /\ modal.kind = "delete"
  /\ queue' = queue \union {[op |-> "delete", by |-> currentUser, chan |-> modal.chan]}
  /\ channels' = SelectSeq(channels, LAMBDA c : c # modal.chan)
  /\ awaiting' = awaiting \union {modal.chan} /\ modal' = NoModal
  /\ UNCHANGED <<server, currentUser, block, loads, crashed, seen>>
  /\ UNCHANGED <<open, spinning, editing, rows, fresh, unanswered, stray>>

\* Excluir conversa: the alert captured the channel; the array is not touched.
Confirm ==
  /\ ~crashed /\ modal.kind = "delete"
  /\ queue' = queue \union {[op |-> "delete", by |-> currentUser, chan |-> modal.chan]}
  /\ awaiting' = awaiting \union {modal.chan}
  /\ modal' = NoModal
  /\ UNCHANGED <<server, currentUser, lists, loads, crashed, seen>>
  /\ UNCHANGED <<open, spinning, editing, rows, fresh, unanswered, stray>>

-----------------------------------------------------------------------------
(* Callbacks *)

\* The completion of the cell's delete() reloads the table.
Acknowledge(m) ==
  /\ Commit(m)
  /\ IF m.op = "delete" /\ m.chan \in awaiting
     THEN awaiting' = awaiting \ {m.chan} /\ Reload
     ELSE UNCHANGED <<awaiting, rows, stray>>
  /\ UNCHANGED <<open, spinning, editing, modal, fresh, unanswered>>

\* No line of the managers tells the requester of an error.
Forget(l) ==
  /\ fresh' = fresh \ {l}
  /\ unanswered' = (unanswered \/ l \in fresh)
  /\ UNCHANGED <<open, spinning, editing, rows, modal, awaiting>>

\* Slip: with nothing to show the spinner is left alone.
ReadedSomeChannels(l) ==
  /\ Notify(l)
  /\ fresh' = fresh \ {l}
  /\ IF l \in fresh
     THEN Reload /\ spinning' = (spinning /\ channels = <<>>)
     ELSE stray' = TRUE /\ UNCHANGED <<rows, spinning>>
  /\ UNCHANGED <<open, editing, modal, awaiting, unanswered>>

\* readedChannels
ReadedChannels(l) ==
  /\ Notify(l)
  /\ fresh' = fresh \ {l}
  /\ IF l \in fresh
     THEN Reload /\ spinning' = FALSE
     ELSE stray' = TRUE /\ UNCHANGED <<rows, spinning>>
  /\ UNCHANGED <<open, editing, modal, awaiting, unanswered>>

ScreenAnswer(l) ==
  \/ (\E docs \in SUBSET User : BlocksArrive(l, docs)) /\ UNCHANGED screen
  \/ BlocksFail(l) /\ Forget(l) /\ UNCHANGED stray
  \/ /\ \E docs \in SUBSET Visible(currentUser) :
          \E listing \in Orders(Kept(docs)) : ListArrives(l, docs, listing)
     /\ UNCHANGED screen
  \/ ListFails(l) /\ Forget(l) /\ stray' = TRUE
  \/ Lookup(l) /\ UNCHANGED screen
  \/ ReadedChannels(l)

ScreenNext ==
  \/ Elsewhere \/ LogOut \/ Restart
  \/ EditButton \/ Dismiss \/ Confirm
  \/ \E i \in DOMAIN rows : DrawRow(i) \/ TapRow(i) \/ DeleteButton(i)
  \/ \E m \in queue : Acknowledge(m)
  \/ \E l \in Load : OpenMessages(l) \/ PullRefresh(l) \/ ScreenAnswer(l)

ScreenSpec == ScreenInit /\ [][ScreenNext]_svars

FairScreenSpec == ScreenSpec /\ \A l \in Load : WF_svars(ScreenAnswer(l))

-----------------------------------------------------------------------------
(* Properties *)

\* Every variable of the screen keeps its type.
ScreenTypeOK ==
  /\ TypeOK
  /\ open \in BOOLEAN /\ spinning \in BOOLEAN /\ editing \in BOOLEAN
  /\ rows \in Seq(Channel \union {Blank})
  /\ modal \in Modal
  /\ awaiting \subseteq Channel /\ fresh \subseteq Load
  /\ unanswered \in BOOLEAN /\ stray \in BOOLEAN

\* Rows and array agree, number by number, once no load is on its way between
\* the two: overlapping refreshes, answers meant for the screen of an earlier
\* session, cached answers and deletions notwithstanding.  (During a load, or
\* after one that failed half-way, they do not: a tap then opens another
\* conversation or indexes past the end, Messages.swift:114.)
RowsInStep == AtRest => rows = channels

\* The alert deletes the conversation of the row whose button was pressed,
\* even when the list changes while it asks, if the table was at rest when it
\* was pressed.
DeletesWhatWasShown ==
  [][\A m \in queue' \ queue :
       m.op = "delete" /\ modal.steady => m.chan = modal.shown]_svars

\* The spinner of viewDidLoad stops, unless a load of the screen ended in an
\* error (nobody is told) or the process went down.
SpinnerStops == spinning ~> (~spinning \/ unanswered \/ crashed)

\* Under the screen the manager runs as ChannelsManager says, the user's
\* deletions being, for it, deletions made elsewhere.
Manager == INSTANCE ChannelsManager WITH queue <- {m \in queue : m.op # "delete"}
ManagerSpec == Manager!Spec

=============================================================================
