# ChaDas5: models, checks and proofs

ChaDas5 is an iOS app in which people write stories (*relatos*) anonymously,
under the name of a tea, and start conversations with the author of a story.
It is a client only: Firebase Auth holds the accounts, Firestore the documents.
Its own logic is in `src/ChaDas5/ChaDas5/` (3,700 lines of Swift). What it relies
on most, queues of writes that survive a kill, listeners, answers from a cache,
is the Firestore client under `src/ChaDas5/Pods/`, whose core is modelled from
its code too; the rest of `Pods/` is third-party code that is not. The
repository has no unit tests and its README is a git tutorial, so the source, its
assertions, alerts and comments are the reference.

## The system

The documents are `users/u` (the field `username`), `users/u/block/v` (u does
not want to meet v), `stories/s` (author, date, status `active` or `archived`),
`channels/c` (two users, the date of the last message), `channels/c/thread/m`
and `analise/u` (users who were complained about).

| Part | State | Operations | Hard behaviour |
|---|---|---|---|
| Session: `UserManager`, `AppSettings`, `AppDelegate`, `SplashScreen`, `Login`, `CreateNewAccount`, `ChooseYourTeaScreen`, logout in `Profile` | the account of Auth and `displayName` (on disk), `currentUser` (in memory), `users/u` | login, sign-up, verification of the mail, choice of a tea, logout, launch | four copies of "who am I", set by different callbacks; a sign-up is a chain of seven calls, any of which may fail, be answered after its screen was left, or be cut off by a kill |
| `ChannelsManager` | the arrays `block`, `channels` of a singleton | `preLoad`, `loadChannels`, `loadUsernames`, `retriveDisplayName`, `createChannel` | loads overlap and share the arrays; a load *deletes* channels of blocked users; a DispatchGroup over lookups that may call back twice; sign-outs in between |
| `Messages` and its cells | rows, edit mode, alert | refresh, tap, delete | rows are drawn from the array at one moment and looked up in it at another |
| `RelatoManager`, `Feed` | the arrays `block`, `stories`; rows, label, spinner | `preLoad`, `loadStories`, refresh, tap | as above, with answers from the cache |
| `MyStoriesManager`, `Profile` and its cells, `StoryScreen`, `NewStoryScreen`, `Relato` | two arrays, segment, rows, alerts | load, refresh, change of segment, write, archive, restore, delete | arrays emptied at the request and filled at the answer; entries that are gone stay listed |
| `MessagesManager`, `ChatViewController`, `Channel.add`, `Message` | one array for all chats, listeners, rows | open, send, receive, leave, complain | listeners are never removed; two writes per message, three per complaint |
| Firestore client, credentials: `firebase_credentials_provider_apple.mm`, `FIRAuth.m`, `stream.mm` | the account (FIRAuth), `current_user`, `token_counter` (provider), `close_count_` (stream) | sign-in, sign-out, a request for a token and its answer | three queues side by side; a token may be answered after the account, or the stream, has changed |
| Firestore client, writes: `FSTSyncEngine`, `FSTLocalStore`, `FSTLevelDBMutationQueue`, `FSTRemoteStore`, `write_stream.mm`, `grpc_stream.cc` | batches and the last acknowledged id (on disk), pipeline, stream, RPC, completion blocks | write, refill, handshake, answer, rejection, idle timeout, change of account, start | answers without a name; ids that begin again; batches sent more than once; a process that ends between two steps |
| Firestore client, queries: `FIRQuery`, `FSTEventManager`, `FSTView`, `FSTRemoteStore`, `FSTRemoteEvent` (the aggregator), `FSTOnlineStateTracker` | listeners, views, targets and their outstanding responses, the online state and its timer, the watch stream | get, listen, remove, every kind of answer, failures, timers | a target id is used again while answers to its last use are on the wire; "off line" is a guess of a timer |
| Firestore client, timers: `async_queue.cc`, `executor_libdispatch.mm`, `exponential_backoff.cc` | slots (libdispatch), the schedule, the handles | schedule, run, cancel | who may free what: bare addresses in two places |

Components of the app interact through the singletons (a screen calls a manager
and is called back as its *requester*), through
`UserManager.instance.currentUser`, which managers read when an answer arrives,
and through the documents. All its callbacks run on the main queue, so that a
closure is one atomic step and what interleaves is the order of closures.
Firebase Auth and the Firestore client have queues of their own beside it. Auth
changes its account, and loads what it knows of one, on its work queue
(FIRAuth.m:1713, FIRUser.m:392), and dispatches the completion to the main queue
(FIRAuth.m:1722); its getter waits for the work queue (FIRAuth.m:457), so that the
app sees the new account before it is told. Calls of the app are enqueued on the
client's worker queue, its events and completions on the main queue; tokens and
changes of account come from Auth's work queue by way of the main queue.

What makes each part correct: a list shows what its account may see, once; a
load deletes nothing else than it should; a touch acts on what the row shows; a
spinner stops; a chat shows its own thread, complete and in order; a complaint
blocks both ways; everybody agrees on who is signed in; a write is sent under
its own account, in order, and reported as what happened to it; a query is
answered, and by the server when it says so. The hazards behind these are in
`PROJECT.json`, each at its line.

## The modules

| Module | Models | Composes |
|---|---|---|
| `ChannelsManager` | the manager, the phone's queue of writes and its cache, the other phones | |
| `Messages` | the conversations screen | `ChannelsManager`, by EXTENDS; refines it |
| `ChannelsManagerProofs` | theorems about both | `Messages` |
| `RelatoManager` | manager and screen of the feed | |
| `Session` | accounts, launch, login, sign-up, tea, logout | |
| `ChatViewController` | chat screen, listeners, messages, complaints | |
| `Profile` | the user's own stories and the story screen | |
| `RelatoManagerProofs`, `SessionProofs`, `ChatViewControllerProofs`, `ProfileProofs` | theorems about each | the module of that name |
| `FirestoreCredentials` | FIRAuth's account, the provider, the three queues, tokens | |
| `FirestoreWrites` | mutation queues, pipeline, write stream, completions, the server's end of it | `FirestoreCredentials`, by EXTENDS; implements `WriteQueues` |
| `FirestoreWritesProofs` | theorems about it: accounts and tokens, the pipeline and its answers, the queue, the log of the server, the promise | `FirestoreWrites` |
| `WriteQueues` | what the client promises about writes | |
| `FirestoreListen` | gets and listeners, views, watch stream, aggregator, online state, the server's end of it | |
| `FirestoreListenProofs` | theorems about it | `FirestoreListen` |
| `FirestoreTimers` | slots, schedule and handles of the two timers of each stream | |
| `FirestoreTimersProofs` | theorems about it | `FirestoreTimers` |
| `MC...` | the values TLC needs, and symmetry | the module of that name |

### State and actions: the app

A variable has the name of the Swift property it stands
for (`block`, `channels`, `stories`, `currentUser`, `messages`, ...). `rows` is
what the table shows, set where the code calls `reloadData`, and read where a
touch or a scroll uses a row's number. An asynchronous call is a record in
`loads` (or `chains` in Session, `listeners` and `due` in ChatViewController),
whose stage says which closure comes next; each closure is one action, with its
errors as actions of their own (`BlocksArrive`, `BlocksFail`, ...). A trap
(`!`, an index past the end, an unbalanced `leave`) sets `crashed`, after which
only `Relaunch` is possible; the user may also kill the app at any moment, the
same action. Variables marked *history* belong to the properties and guard
nothing.

- *ChannelsManager*: `PreLoad` / `BlocksArrive` / `ListArrives` / the four
  lookups / `Notify` are one load. `Visible` is what a query may return: any
  document that exists or that the cache may still hold, under the account's own
  queued writes. A load adds `reject` writes to the queue, which the user's own
  deletions (`delete`, in Messages) share.
- *Messages*: a touch captures the channel under its number; `Confirm` deletes
  what the alert captured; `Acknowledge` is the completion. A load asked for by
  the screen of an earlier session still fills the array (`stray`).
- *RelatoManager*: `ReadedStories` is the callback of the screen. `Offline`
  chooses whether answers may come from the cache (it is off in the run that
  shows the violation, so that the cache is not its cause); `stale` remembers
  that one did and differed from the server's.
- *Session*: a chain of the sign-up goes through `providers`, `create`, `created`,
  `commit`, `set`, `mail`, the alerts, `reload`, `loaded` and `save`, one of the
  login through `signIn`, `signedIn` and `name`. What Auth does on its work queue
  is an action (`AuthSignsIn`, `AuthCreates`, `AccountLoaded`), and so is the
  closure that the main queue runs later (`SignInSucceeds`, `CreateSucceeds`,
  `CommitSucceeds`, `ReloadSucceeds`), where `UserManager.currentUser` is set and
  `Auth.auth().currentUser` read again: the name is committed, the mail sent and
  the flag looked at for whoever is signed in by then. `ahead[k]` is the chains
  whose completions are on the main queue ahead of the one that k awaits, so
  that they run in the order in which Auth dispatched them, and touches and other
  closures in between. A write of a profile waits in the queue of the account
  that was signed in when it was made (`by`). `fore` is the chains that began on
  the screen that is on top: UIKit presents nothing from any other.
- *ChatViewController*: `ThreadView` is the phone's view of a thread;
  a snapshot is due (`due`) after any change of it. Writes leave the queue in
  order.
- *Profile*: `Ask` empties the arrays, `StoriesArrive` fills them; the status of
  stories changes only by this phone's user (one phone per user: see below).

### State and actions: the Firestore client

A block of the worker queue, of the main queue or of FIRAuth's work queue is one
action; what a block calls is part of it, down to the new start of a stream
(`FillWritePipeline`, `StartWatchStream`). The RPC is the two sequences of what
is on its way up and down; a stream that closes loses both.

- *FirestoreCredentials*: `AuthChanges` (a sign-in, over another account too, a
  sign-out, a new token) posts on the main queue, `HearChange`
  counts and tells the worker. `AuthTakes` reads the account for a token and
  `AuthAnswers` brings it, as two steps. `Valid` and `Current` are the two
  comparisons of counters.
- *FirestoreWrites*: `rows` and `acked` are on disk and survive `Relaunch`. A
  batch is written by `WriteMutations`, fetched by `Refilled`, sent by
  `HandshakeDone` (all of the pipeline) or on the way into it, settled by
  `ReceiveResponse` or `RejectFirst`. `Initialize` is the start of the client,
  with the account the provider knows at that time (`Launch`: the keychain may
  not have been read yet). `RelaunchAfterTelling` is an end of the process
  between the completion and the acknowledgement. `WriteFails`, an operation of
  gRPC that fails before what was read is delivered, is a step of
  `OvertakenSpec` only: see the violations.
- *FirestoreListen*: `listeners[l].at` follows a listener from its call over the
  worker queue (`AddListener`, `RemoveListener`) to its removal; `Notify` raises
  the events that a change of the views and of the online state causes, `Hear`
  runs one on the main queue. `Receive` is any answer of the server, with
  `TargetAdded`, `TargetRemoved`, `TargetCurrent`, `RaiseWatchSnapshot` and
  `TargetError` for its kinds. The documents of a query are one number, the
  version of the last change.
- *FirestoreTimers*: `memory` says whose slot is at an address, `schedule` which
  slots are to run, `handle` what each timer's owner believes it can cancel.
  `Expire` is libdispatch coming to a slot that was cancelled.

## What the runs check

`pass` unless it says *violation*. Bounds are constants of the .cfg.

| Run | Question | Instance |
|---|---|---|
| `ChannelsManager_safety` | whose conversations and whose block list are in the arrays, also after a sign-out (`SessionIsolation`); which channels a load deletes (`DeletionJustified`); the group of lookups (`GroupBalanced`); a load on its own is exact (`LoneLoadIsExact`) | 2 accounts, 3 users, 2 channels, 2 loads, 2 blocks |
| `Messages_rest` | rows are in step with the array when no load is between its queries (`RowsInStep`) | 1 conversation, 2 loads |
| `Messages_delete` | the alert deletes what the row showed (`DeletesWhatWasShown`); the spinner stops (`SpinnerStops`); the screen's behaviours are behaviours of ChannelsManager (`ManagerSpec`) | 2 conversations, 1 load |
| `RelatoManager_feed` | a load that ran alone has drawn the right stories (`LoneFeedIsFresh`), the spinner stops | 2 stories, 2 loads, 1 edit, cache |
| `RelatoManager_blocked` | *violation*: no story of a blocked user | 2 stories, 2 loads |
| `Session_safety` | the notions of the user agree (`UsersAgree`); what a sign-up deletes and saves (`ProfiledNotDeleted`, `SavesVerified`) | 2 addresses, both without an account, 2 teas, 2 chains |
| `ChatViewController_thread` | the chat shows its thread (`ShowsItsThread`) and what arrives (`ReceivedIsShown`); dates have messages (`DateHasMessage`); a report comes after the blocks, both ways (`ReportIsFounded`) | 2 conversations, 2 accounts of one phone, 2 messages, 2 chats, 1 complaint |
| `Profile_list` | rows, arrays, segments (`RowsInStep`); whose stories, and how often (`ListIsProper`); the spinner stops | 3 stories, 2 accounts, 2 loads, 2 edits |
| `FirestoreListen_get` | an answer that is called the server's is (`FreshIfServer`); the code's assertions (`AssertionsHold`); when the wire is empty, client and server agree (`EndsAgree`); a get is answered (`GetAnswered`) | a get and a listener on one query, 2 versions, 1 trouble |
| `FirestoreWrites_queue` | an open stream carries the token of the account whose writes it sends (`StreamServesItsUser`); whose answer it is (`AnswerIsForFirst`); every write is done, in the pipeline or still to be fetched, under an id above the last acknowledged one (`NoWriteForgotten`); none is overwritten by an older one (`LaterStands`) or reported as what it is not (`ToldTrue`); the assertions about tokens and idleness (`AssertionsHold`); `WriteQueues` is implemented (`PromiseKept`); writes settle (`Settles`) | 2 accounts, 3 writes, a pipeline of 2, 2 troubles |
| `FirestoreWrites_overtaken` | *violation*: a write that is reported as failed was refused | 1 account, 4 writes, no trouble |
| `FirestoreTimers_reused` | *violation*: a stream in Backoff has its delay scheduled | 2 streams, 3 addresses |

*Why the bounds are enough to be interesting.* Two loads (or chains) are the
least that overlap: the arrays are shared by all loads and each load is
otherwise independent, so that a third interleaves as the second does. Two
accounts are the least for a leak between sessions; three users let an account
be the first user of one channel and the second of another, with a partner both
accounts know. Two documents give the index errors (a row past the end, another
row's document) and the orders of a list. Three writes over a pipeline of two
make it full, keep one waiting on disk and give both accounts a write; two
troubles are a change of account and the way back, or a restart after either
(ids then begin again). A get and a listener on one query follow each other
under one target id, in both orders and at the same time, which is where
answers of one reach the other; one trouble is a lost connection, a refused
target, a failed stream or a change of account. (A target that is refused twice is
beyond this bound, and within the proofs: see `Counted`.) Both addresses of
Session begin without an account, so that two people can sign up on one phone,
and sign-ups can overlap; two chains are enough for a completion that waits while
the other chain's closures run, or has another one ahead of it (3.7 million
states, 67 steps deep). Actions that would make a
behaviour unbounded without new states are capped: `MaxBlock`, `MaxEdit`,
`MaxComplaint`, `MaxWrite`, `MaxVersion`, `MaxTrouble`. The proofs do not depend
on any of these.

### What the violations say

- `NoPostOfBlocked`: `loadStories` filters by the shared array, not by the list
  that it is handed; a refresh in between shows posts of blocked users
  (RelatoManager.swift:56). ChannelsManager shares the pattern: that is why
  `LoneLoadIsExact` speaks of loads that nothing overlapped.
- `FailedWasRefused`: the first write of the pipeline is rejected for a
  permanent error (FSTRemoteStore.mm:596) because all answers in front of the
  error are supposed to have been read. When an operation fails, the reads that
  gRPC has completed are turned into no-ops with the others
  (grpc_stream.cc:210-225); the one read whose block is on the worker queue
  already is still delivered. It takes four writes: the server applies the first
  two and refuses the third while the fourth is being sent. The fourth fails, the
  answer to the first arrives, and then the second, which was applied, is
  reported as failed and leaves the queue. (TLC's trace has 21 states; with
  three writes there is one answer, and it is delivered.)
  `FirestoreWrites_queue` leaves this one step (`WriteFails`) out, so that the
  rest of the protocol is checked without it.
- `BackoffElapses`: a delay has run, its slot is freed, and its owner keeps the
  handle. The other stream's delay is allocated at the same address. When the
  first stream fails it cancels "its" delay (stream.mm:246), and the second
  stream waits for ever in Backoff: writes, or answers, stop until the account
  changes or the app is started again. The handle of the idle timer is
  cleared when it runs (by `Close`); that of the delay is not.

Two more disagreements show in reading Session, without a run: the splash screen
(SplashScreen.swift:25) and the login (Login.swift:163) let in an account whose
mail is not verified, and the second "Ok, verifiquei!" looks at
the flag before its reload is answered (CreateNewAccount.swift:244-245).

### Conditions inside properties

`LoneLoadIsExact`, `LoneFeedIsFresh` and the second half of
`ListIsProper` speak of loads that ran alone, because overlapping ones do
list entries twice or against the block list. `RowsInStep` of Messages
speaks of a table at rest, because between the arrival of the block list and the
end of a load the array is empty under the rows. `DeletionJustified` speaks of
launches with one account, because the list of blocked users of one account may
be used for the next one's channels; `SessionIsolation` bounds that leak.
`ShowsItsThread` and `ReceivedIsShown` speak of conversations that were the only
one opened since the launch, because the listeners of others stay and write the
same array. `UsersAgree` (of the two variables) and `SavesVerified` (of the uid)
except the time between a change of Auth's account and the completion that tells
of it (`Told`): `currentUser` is the old user's then, and the code does go wrong in
it. A reload is answered, and before its closure runs another sign-in changes
Auth's account; the closure finds the flag of the new account, which is
verified, and writes the profile of the old one, which need not be, or is deleted
already (CreateNewAccount.swift:217, 357). TLC reaches it in 25 states when the
exception is taken out of `SavesVerified`. What is left says that this window is
the only cause. `UsersAgree` (of the name) and `ProfiledNotDeleted` exclude accounts
that changed under a callback (`mixed`), and `ProfiledNotDeleted` a launch in
which an answer signed in or saved a profile off its screen, or saved one beside
another chain of callbacks (`abandoned`): a second sign-up that fails after
that deletes the account with the profile of the first. Nothing is claimed of the
names of a list whose requester was told while lookups were out (stage `told`: an
error calls the closure twice, ChannelsManager.swift:121).

Three conditions of FirestoreListen are behaviours of the code that nothing
provides for. `Stuck`: when the last target goes while the stream is not open,
the timer is cleared and the stream stays started (FSTRemoteStore.mm:270-278);
the next listener starts no timer, and when the attempt hangs the client waits
for the server, although the tracker is there so as not to wait "indefinitely"
(FSTOnlineStateTracker.mm:44-46). `Miscounted`: an error is taken for one of a target
whenever the target is listened to (FSTRemoteStore.mm:424), so that the error of
an earlier listen ends the new one and resets its count of responses, which the
answers still on the wire make negative; the target is never active again.
`Counted` (in the `lone` of a listener): with a second error of the same kind the
count can also be too small without being negative; the new listen is then
active while answers to earlier ones are due, and takes the first of them for
its own. `FreshIfServer` is claimed of the first listener of a query all of
whose answers are waited for. It takes three listens before the get and two refusals, more than the
run has: the proof found it, and TLC shows it (29 states) with four listeners
on one query and `MaxTrouble` = 2 when `lone` is set without `Counted`.

In each case the excluded behaviour is in the model and reached by TLC; but for
the last, in the instance of the run.

### Fairness

- The app: weak fairness of a load's next answer (`WF_vars(Answer(l))`): the
  Firestore client answers every request, from the server, from its cache or with
  an error, and closures on the main queue are run. (`GetAnswered` is this
  assumption seen from inside the client, and says when it fails.) In
  ChatViewController, of a snapshot that is due and of a message's arrival at its
  listener. Nothing is assumed of users, of other phones, of commits or of
  launches; properties allow for a crash and for an error that nobody is told
  about (`unanswered`).
- FirestoreWrites: one weak fairness condition over everything that can run:
  blocks on a queue, timers that are set, FIRAuth's answers, and the server while
  the stream is open. It says only that something that can happen does. Failures,
  the idle timer and ends of the process are not fair, and the former are bounded:
  the phone is on line in the end.
- FirestoreListen: blocks and events run, the tracker's timer elapses, and with a
  connection the stream opens and the server serves it; without one an attempt
  may hang for ever, and a stream that had answers breaks in the end (the
  transport gives it up).

## What is proved

A proof holds for every value of the constants. Assumptions are the ASSUMEs of
the modules, each checked by TLC in a run; FirestoreTimers has none. Every
safety invariant, every action property and both refinements that the passing
runs check are theorems. In each module the argument is an inductive invariant
with a lemma for each action, or for each form of a step; the parts that are
not the property itself say why the property lasts.

`ChannelsManagerProofs`, for every set of users, accounts and loads and
every finite set of channels between two users:

- `TypeCorrect`: `Spec => []TypeOK`, one step per action. `OrdersAreSequences`
  says what an answer appends.
- `SessionsIsolated`: `Spec => []SessionIsolation`. The property is not
  inductive: who asked for a block list may have signed out by the time it
  arrives. `SessionInv` adds `Provenance` (the current account and the account
  of each load under way were used since the launch) and `NoSelfBlock` (nobody
  blocks oneself: no channel has one user twice). Each action either leaves what
  they speak of alone (`SessionStutter`) or is treated in its own step.
- `DeletionsJustified`: `Spec => DeletionJustified`, an action property, from
  the same invariant: the blocked user that made the loop delete is in `block`,
  hence blocked by an account of the launch, hence, there being one, by this
  account; being different from it, it is the channel's other user.
- `GroupsBalanced`: `Spec => []GroupBalanced`. `GroupInv` adds that no lookup is
  under way before the list is there, since `ListArrives` sets the count from
  the length of the list alone. `LeaveBalances` is the arithmetic of a leave.
- `LoneLoadsAreExact`: `Spec => []LoneLoadIsExact`. `LoneInv` says that a lone
  load is the only one under way (`Alone`) and that the arrays are what it put
  there, stage by stage (`Exact`): `block` is empty, then its answer, and
  `channels` is empty, then the listing without the users of that answer. A step
  of a load that is not lone contradicts `Alone` (`LoneOfOne`).
- `ScreenTypeCorrect`, `RowsInStepAlways` and `DeletesWhatWasShownAlways`, of the
  screen: a step of it is a step of the manager or the user's deletion
  (`ScreenStep`), so that the types of the manager carry over. `ScreenInv` adds
  what the alert holds and what was at rest when its button was pressed.
- `ManagerImplemented`: `ScreenSpec => ManagerSpec`, the screen refines the
  manager. The mapping takes the user's own deletions out of the phone's queue
  (for the manager they are made elsewhere): a load sees no less then
  (`ManagerVisible`, `ManagerLoad`), the acknowledgement of such a deletion is a
  deletion by another phone (`ManagerCommit`), and its request is no step.

`RelatoManagerProofs`, for all users, accounts, loads and finite sets of stories:

- `TypeCorrect`: `Spec => []TypeOK`; `DescendingAreSequences` says what an answer
  appends.
- `LoneFeedsAreFresh`: `Spec => []LoneFeedIsFresh`. `LoneInv` says of a load that
  is lone so far that it is the only one under way, that what was to be hidden
  and what was archived or deleted when it began still is (`Fresh`), and that what
  it drew keeps what the property says (`Drawn`); restoring a story takes it out of
  both sides (`LoneEdit`).

`SessionProofs`, for all users, addresses, teas and chains of callbacks:

- `TypeCorrect`: `Spec => []TypeOK`. The invariant `SessionInv` has one part per
  group of variables (`ServiceOK`, `IdentityOK`, `PlaceOK`, `ChainsOK`), each with
  a lemma over all actions; what becomes of a chain is said once per form of a
  step (`ChainStarts`, `ChainGoes`, `ChainEnds`, `ChainDeletes`, `ChainSaves`).
- `MemoryAgrees`: how the account of Auth and UserManager's variable come together
  again. While somebody is signed in, either they are the same and no change waits
  to be told, or among the completions that wait there is one that brings Auth's
  account and has every other ahead of it (`LastTold`): it has the last word. That
  is `AgreeOK`, inductive because Auth, when it changes its account, dispatches the
  completion behind all that wait (`AgreeChanges`), and because the last one sets the
  variable when it runs and another leaves it the last (`AgreeTold`). The other half,
  that the flag in memory is only set for a verified account, is in `IdentityOK`.
- `SavesVerifiedAlways`: `Spec => SavesVerified`, from the same invariant: of all
  steps only the two that pass `SaveIfVerified` begin to save (`Quiet`), and they
  look at the flag of `auth` and write for `currentUser`, which `AgreeOK` sets
  against each other (`SavesWell`).
- `UsersAgreeAlways` and `ProfiledNotDeletedAlways` rest on `NamesInv`. While no
  account changed under a callback, at most one sign-up is beyond the creation of
  its account (`FlowOK`); it is `Hot` as long as it may still save, and the
  account has no profile then. While a completion waits that tells of a change,
  everything else that is awaited has it ahead of itself (`WaitOK`), so that no
  closure runs in between. While no profile was saved off its screen, who
  has one is on the tabs or the splash screen, or his sign-in has that completion
  waiting (`AwayOK`, `Entering`); on those screens no chain of the
  sign-up can present or delete anything (`ScreenOK`). Most steps do no more
  than end a chain, begin an innocent call or change the alert (`Calm`,
  `CalmKeeps`); a sign-up that goes on is `Advance`; each of the others, which
  change the account or a profile, has a lemma of its own. For the deletions,
  all steps but the five are `Harmless`, and those five spare a profile
  (`Spares`). That a profile may be saved beside another chain (the second half of
  `abandoned`) is what this proof found: it takes two people who sign up on one
  phone.

`ChatViewControllerProofs`, for all users, channels, messages and complaints:

- `DateHasMessageAlways` and `ReportIsFoundedAlways`. Both rest on the order of
  the phone's queues, which `WriteInv` states: what a queued write supposes
  (`Needs`: a date its message, a complaint its two blocks) is on the server, or
  ahead of it in the same queue (`Sound`), and a complaint is not of its author
  unless the account changed (`Founded`). `SoundConcat` and `SoundTail` say that
  enqueueing a sound list and committing the head keep it so; `SendKeeps` and
  `AnswerKeeps` that the lists of the code are sound, `CommitKeeps` the rest.
- `TypeCorrect`: `ByDateSorts` says that the thread in the order of its dates is a
  sequence with each message once. It is defined by ranks (the place of a message
  is the number of those before it); that every rank is taken is `RankTaken`.
- `ShowsItsThreadAlways`: `ChatInv` adds to `WriteInv` that whatever changes the
  thread of the screen on top leaves a snapshot due for its listener (`Shown`):
  a message that leaves the queue for the server stays in the view
  (`ViewAfterHead`), and writes of another kind add nothing to it (`ViewWithout`).

`ProfileProofs`, for all users, loads, edits and finite sets of stories:

- `TypeCorrect`: `Spec => []TypeOK`. `TypeInv` adds that what is listed or
  presented was posted. `Arrival` says what an answer appends.
- `ListIsProperAlways`: `ListInv` adds that an open profile has a user, and that
  a load that is alone so far is the only one under way and finds the arrays
  empty.
- `RowsInStepAlways`: inductive with `TypeInv`; `PrefixGrows` is the answer to a
  load of an earlier session. `TouchesAreSafe` follows: no touch of a row
  indexes past the end or opens another story.

`FirestoreWritesProofs`, for all accounts, bounds and writes, from one invariant
(`WritesInv`) in five parts:

- `StreamServesItsUserAlways`: three queues and two counters stand between the
  account of FIRAuth and the bearer of a stream. `TokensAreInLine` is the argument:
  an answer that the provider's counter would still accept is for the account
  that the worker has, or a change of account stands before it in line
  (`TokenInv`, by the position of blocks in the main and the worker queue). The
  proof needs the provider's counter only; TLC says that the stream's counter
  suffices as well (with either comparison taken out, the property still holds):
  they are two guards of one thing.
- `AnswerIsForFirstAlways`: the pipeline is what was answered, what is refused
  and what is on the wire, in this order. `Fits` says it for each state of the
  stream, with the handshake between; `PipelineInv` adds the bound, which is
  `PipelineIsBounded`.
- `AssertionsAlwaysHold`: stream.mm:128 and FSTRemoteStore.mm:551. `LiveInv`: the
  request that a starting stream waits for is one, on one of the queues.
- `RejectsTheRefusedAlways`: what a permanent error removes from the pipeline is
  what the server refused. It is a theorem of `Spec`, in which the end of a
  call is seen behind its answers; `FirestoreWrites_overtaken` shows that the
  code does not see to that.
- `TypeCorrect` and `NoWriteForgottenAlways`: `QueueInv` orders the batches of an
  account by the writes they are of, those on the worker queue behind those on
  disk (`WritesInLine`), and says that the pipeline is the beginning of the
  listing. The listing by ids (`InKeyOrder`) is reasoned about by places: the place
  of a batch is the number of smaller ids, every place is taken (`PlaceTaken`), and
  whatever has all of them in order is the listing (`KeyOrderUnique`). Ids that
  begin again do so when no queue holds a batch; `NextIdIsAbove`.
- `ToldTrueAlways` and `LaterStandsAlways`: `LogInv` sets the log of the server
  against the queue. An answer on its way is of a write that was applied after
  every older one of its account (`AnswersLogged`). A write that was applied leaves
  the queue behind all that is older (`OlderSettled`), so that one over which an
  older write was applied again is still there to be applied in its turn, unless
  it was refused (`NewerSettled`).
- `PromiseIsKept`: `Spec => PromiseKept`, that the detailed model implements
  `WriteQueues`, step by step. `WriteMutations` adds to the end of a queue
  (`ListedLast`), the server applies its head, an answer or a refusal takes the
  head off (`ListedWithoutFirst`), a change of account or a new process is a change
  of the active queue; everything else is a stutter (`PromiseRests`).

`FirestoreListenProofs`, for every finite set of queries, every set of listeners
and every bound:

- `StreamLifeAsserted`: `Spec => []AssertionsHold`, and `TypeCorrect`:
  `Spec => []TypeOK`. The invariant is both together (`LifeInv`): that the tracker
  is on line only while its stream is open depends on the idle timer, the idle
  timer on who listens, and who listens on the stream being started, so that no
  part is inductive without the others. `ClientInv` is the part that the actions
  disturb; there is one step per action.
- `EndsAgreeAlways`: `Spec => []EndsAgree`. `Owed` counts the responses for a query
  that are due: its requests on the way up and its replies on the way down.
  `WireInv` says that no more are waited for than are owed, and that when as many
  are, the two ends are in step (`OpenInv`): the last request says what is needed
  (`AskInv`), the server has done it or refused (`ServedInv`), and what is current
  there is shown, or the word of it and then the snapshot are on the way behind
  all replies (`ShownInv`). With an empty wire nothing is owed. An error taken for
  that of a later listen lowers the count below what is owed, where the
  invariant claims nothing until the stream breaks, which sets both to none.
- `FreshIfServerAlways`: `Spec => []FreshIfServer`. `Fed(q, b)` says that whoever was
  there at version b will not be told less: the view is current only with
  documents as new as b, and so is every snapshot behind the reply to the last
  request; the step that adds the first listener establishes it (`FeedNew`) and
  every step keeps it (`FeedsOn`), since the server sends what it has.
  `FreshInv` carries it from the view over the queue of events to the listener
  (`Told`), and says that an error is the last event and that a get hears one
  (`Heard`).

`FirestoreTimersProofs`, for every set of streams and of addresses:

- `SlotsAreLive`: `Spec => [](TypeOK /\ ScheduleIsLive)`: the schedule never
  points to freed memory, the invariant that executor_libdispatch.mm:109 states,
  although handles do.
- `TimersAssert`: `Spec => []TimersAsserted`: no timer is scheduled twice
  (async_queue.cc:79), a delay that elapses finds its stream in Backoff
  (stream.mm:159), an idle timer its stream open. `TimersInv` adds what makes
  this inductive: a slot on the schedule can be reached by the handle of the timer
  it belongs to (`HandleReaches`), so that closing a stream takes its own timers
  off, whatever else it takes off by a stale handle. The violation above is the
  converse, which is false.

Model-checked only: liveness, which is out of the prover's reach (`SpinnerStops` of
three screens, `ReceivedIsShown`, `GetAnswered`, `Settles`), and the three
violations, which are counterexamples of TLC. `TypeOK`, `ScheduleIsLive` and
`TimersAsserted` of FirestoreTimers are proved and not part of a run: they hold in
the instance of `FirestoreTimers_reused` as well (3,048 states).

Definitions that say *slip* are wrong variants of the definition that follows
them, kept to show that each property fails when the code has that bug
(`mutants` in `PROJECT.json`).

## What is abstracted, and what is assumed

The app:
- Names, texts and dates: users, channels, stories and messages are atoms;
  dates are the order of natural numbers. `keyString` has a resolution of one
  second, so that two channels or stories of a user made within one second are
  one document: not modelled.
- The Firestore client under it: writes are queued durably per account and, in
  ChatViewController and Session, sent in order (what `WriteQueues` says, and
  FirestoreWrites checks); a query returns documents of the server or, offline,
  of the cache; the rules of the server accept what the app writes. A user's own
  stories are edited on one phone.
- Session: an object `User` of Auth is its uid: a second sign-in to the same
  account makes a new object, with a flag of its own. Auth does not sign out by
  itself: an invalid token, and a sign-up whose account is created but cannot be
  loaded (the app is then told of a user that is nil), are left out; so is an
  account that is deleted on another phone. The store is taken to know of a change
  of account at once; that it lags behind is what FirestoreCredentials models.
- Layout, animations, the keyboard, the reuse of cells and storyboards; the
  reset of a password, the placeholder `users/u/myChannels/first`, the
  labels of empty lists (that of the feed is never hidden again once shown,
  Feed.swift:117).

The Firestore client:
- Writes: the server takes the requests of a stream in order and has forgotten
  an RPC when its client opens another; a write is a number, a batch one write.
  The app writes only once its main queue has heard of its account. Left out:
  stream tokens, enabling and disabling the network by the app (which does not),
  transactions, the share of the watch stream in a change of account.
- Queries: the server answers the requests of a stream in their order, an unwatch
  also of a target it has given up; documents come with CURRENT, in one snapshot
  (the aggregator keeps `current` when a target is added again,
  FSTRemoteEvent.mm:353-358, so that documents in a snapshot of their own would be
  shown as current early). Left out: documents in limbo, existence filters, resume
  tokens, limits, overlapping queries. A stream opens without a round trip, as
  gRPC's does.
- Timers: the heap may give the address of a freed slot to the next one. The
  timers of the tracker and of the garbage collector share the schedule and are
  left out: they can be hit by a stale handle in the same way.
- The read of `token_counter` without its lock is one atomic read.

Not modelled at all: `Informations`, `NavigationController`,
`CustomSegmentedContrl`, the view additions, the unused classes, and, under
`Pods`, MessageKit, gRPC, BoringSSL, Protobuf, LevelDB, nanopb and the parts of
Firebase that the app does not use: third-party code whose correctness is not a
matter of this app's protocol. The lines modelled are therefore a small share of
those of the repository.

## Plan

Done: the core of the app (ChannelsManager, Messages on top of it,
RelatoManager, Session, ChatViewController, Profile), the client under
it (FirestoreCredentials, FirestoreWrites with its promise, FirestoreListen and
FirestoreTimers), and proofs of every safety property and refinement that a run
checks.

Next, models:
1. The app's screens over `WriteQueues` and over the promise of FirestoreListen
   (an abstract get: answered once, by the server or from the cache), in the place
   of the queues they have of their own.
2. A composition of two phones over one store: a complaint on one phone, a load
   that deletes on the other, a chat that is open on both.
3. `StoryScreen` opened from the feed: the chat that is created and presented
   when the server answers, duplicates of a conversation, ids that collide
   within a second.
4. Limbo documents and existence filters in FirestoreListen, with queries that
   overlap; the cache's garbage collector, whose timer joins FirestoreTimers.

Next, proofs:
1. That each violation has no other cause: what holds of RelatoManager as long as
   no refresh comes between a block list and its stories, and of FirestoreTimers
   as long as no address of a delay that elapsed is used again.
2. What FirestoreTimers promises to the two stream models, which have their
   timers elapse without a schedule.
3. With the abstract get of the models below, that FirestoreListen implements it.
