------------------------------- MODULE Session -------------------------------
(***************************************************************************)
(* Who is signed in on a phone, and how it came to that: the splash screen, *)
(* the login, the creation of an account with its mail of verification, the *)
(* choice of a tea (the user's display name) and the logout.               *)
(* (UserManager, AppSettings, AppDelegate, SplashScreen, Login,            *)
(* CreateNewAccount, ChooseYourTeaScreen, Profile.)                        *)
(*                                                                         *)
(* Four things say who the user is, and no step sets them all: the account *)
(* of Firebase Auth and the setting displayName, both on disk, the variable *)
(* currentUser, and the document users/uid.  Every call is answered later, *)
(* and by then the screen, the account or both may have changed.           *)
(*                                                                         *)
(* Two threads are at work.  Firebase Auth handles an answer of its service *)
(* on a work queue of its own, where it changes its account, and hands the *)
(* completion to the main queue; the app's code, and UserManager's variable *)
(* with it, runs there later, in the order of the queue, while the user    *)
(* touches the screen in between.                                          *)
(***************************************************************************)
EXTENDS Integers, FiniteSets

CONSTANTS
  User,    \* the uids that may ever be created; a deleted one never returns
  Mail,    \* the address each is created for
  Known,   \* the uids whose sign-up was completed before
  NoUser,  \* nil, of Auth.auth().currentUser and UserManager.currentUser
  Tea,     \* UserManager.teas: the names a user may take
  NoTea,   \* no display name, no document users/uid
  Chain    \* bound: the chains of callbacks that may be under way at once

ASSUME SessionAssumption ==
  /\ NoUser \notin User /\ NoTea \notin Tea /\ Known \subseteq User
  /\ DOMAIN Mail = User

VARIABLES
  accounts,      \* the accounts of the service
  used,          \* every uid created so far
  mailed,        \* the accounts a mail of verification was sent to
  verified,      \* those that followed its link
  username,      \* the field of the document users/uid, NoTea if there is none
  auth,          \* Auth.auth().currentUser?.uid
  authVerified,  \* Auth.auth().currentUser?.isEmailVerified, as last loaded
  currentUser,   \* UserManager.instance.currentUser
  displayName,   \* AppSettings.displayName
  view,          \* the screen on top
  fore,          \* the chains that began on the screen that is on top
  prompt,        \* the alert on it, with the tea its buttons captured
  chains,        \* the callbacks awaited
  ahead,         \* those that are on the main queue ahead of a chain's own
  crashed,       \* the process was stopped by a trap
  mixed,         \* history: the account, Auth's or UserManager's, changed while
                 \* another chain's callback, or an alert, was awaited
  abandoned      \* history: a chain signed in, or saved, off its screen or
                 \* under an alert, or saved beside another chain

service == <<accounts, used, mailed, verified, username>>
identity == <<auth, authVerified, currentUser, displayName>>
place == <<view, fore>>
history == <<mixed, abandoned>>
callbacks == <<chains, ahead>>
vars == <<service, identity, place, prompt, callbacks, crashed, history>>

View == {"splash", "main", "login", "signup", "tabs"}
Alert == {"none", "oops", "used", "verify", "unverified"}
Stage == {"idle", "signIn", "signedIn", "name", "providers", "create", "created",
          "commit", "set", "mail", "reload", "loaded", "refresh", "save", "tea",
          "write", "delete"}

\* by: the account in whose queue of the store a write waits.
Idle == [stage |-> "idle", uid |-> NoUser, tea |-> NoTea, by |-> NoUser]
NoAlert == [kind |-> "none", tea |-> NoTea]

\* (A definition that says "slip" is wrong on purpose: it replaces the one that
\* follows it in the checks that show a property can fail.)

Free(k) == ~crashed /\ chains[k].stage = "idle"
\* A request under way.
Under(k, stage) == ~crashed /\ chains[k].stage = stage

\* Slip: the completions do not run in the order in which Auth changed.
AtAnyTime(k, stage) == Under(k, stage)

\* A completion whose turn on the main queue has come.
At(k, stage) == Under(k, stage) /\ ahead[k] = {}

\* Auth changed its account, and the completion that tells the app waits.
Told(k) == chains[k].stage \in {"signedIn", "created"}
OnMain == {k \in Chain : Told(k) \/ chains[k].stage = "loaded"}

\* Chain k goes on.  What waits on the main queue now runs before its next
\* callback, and nothing waits for it any longer.
Queue(k, before) ==
  ahead' = [j \in Chain |-> IF j = k THEN before \ {k} ELSE ahead[j] \ {k}]
Go(k, stage) == chains' = [chains EXCEPT ![k].stage = stage] /\ Queue(k, OnMain)
End(k) == chains' = [chains EXCEPT ![k] = Idle] /\ Queue(k, {})
Call(k, call) == chains' = [chains EXCEPT ![k] = call] /\ Queue(k, OnMain)
Start(k, stage, uid, tea) ==
  Call(k, [stage |-> stage, uid |-> uid, tea |-> tea, by |-> NoUser])
Write(k, stage, uid, tea) ==
  Call(k, [stage |-> stage, uid |-> uid, tea |-> tea, by |-> auth])
Alone(k) == \A j \in Chain \ {k} : chains[j].stage = "idle"

Touchable(v) == ~crashed /\ view = v /\ prompt = NoAlert
Pressed(kind) == ~crashed /\ prompt.kind = kind

\* UIKit presents nothing from a screen that is not on top, or has an alert;
\* a screen that was left is another one than the next of its kind.
Shows(k) == k \in fore /\ prompt = NoAlert
Present(k, kind, tea) ==
  prompt' = IF Shows(k) THEN [kind |-> kind, tea |-> tea] ELSE prompt
GoTo(v) == view' = v /\ fore' = IF v = view THEN fore ELSE {}
Segue(k) == GoTo(IF Shows(k) THEN "tabs" ELSE view)
Fore(k) == fore' = fore \union {k} /\ UNCHANGED view

Init ==
  /\ accounts = Known /\ used = Known /\ mailed = Known /\ verified = Known
  /\ username \in {f \in [User -> Tea \union {NoTea}] :
                     \A u \in User : f[u] = NoTea <=> u \notin Known}
  /\ auth = NoUser /\ authVerified = FALSE /\ currentUser = NoUser
  /\ displayName = NoTea /\ view = "splash" /\ fore = {} /\ prompt = NoAlert
  /\ chains = [k \in Chain |-> Idle] /\ ahead = [k \in Chain |-> {}] /\ crashed = FALSE
  /\ mixed = FALSE /\ abandoned = FALSE

-----------------------------------------------------------------------------
(* Launch, navigation, logout *)

\* The listener of the splash screen looks at the account and nothing else.
\* (On later changes it fires again, with the splash no longer on top.)
SplashPasses ==
  /\ Touchable("splash")
  /\ GoTo(IF auth # NoUser THEN "tabs" ELSE "main")
  /\ UNCHANGED <<service, identity, prompt, callbacks, crashed, history>>

\* Main to Login or CreateNewAccount, and their dismissButton.
Navigate ==
  /\ \/ Touchable("main") /\ \E v \in {"login", "signup"} : GoTo(v)
     \/ (Touchable("login") \/ Touchable("signup")) /\ GoTo("main")
  /\ UNCHANGED <<service, identity, prompt, callbacks, crashed, history>>

\* The alert is closed: "Ok", or "Cancelar", that leaves the screen.
CloseOops ==
  /\ Pressed("oops") /\ prompt' = NoAlert /\ \E v \in {view, "main"} : GoTo(v)
  /\ UNCHANGED <<service, identity, callbacks, crashed, history>>

SignOut ==
  /\ Touchable("tabs")
  /\ auth' = NoUser /\ authVerified' = FALSE /\ currentUser' = NoUser
  /\ GoTo("main")
  /\ mixed' = (mixed \/ \E k \in Chain : chains[k].stage # "idle")
  /\ UNCHANGED <<service, displayName, prompt, callbacks, crashed, abandoned>>

\* Slip: AppDelegate does not call UserManager.setup.
RelaunchWithoutSetup ==
  /\ view' = "splash" /\ fore' = {} /\ prompt' = NoAlert /\ crashed' = FALSE
  /\ currentUser' = NoUser
  /\ chains' = [k \in Chain |->
       IF chains[k].stage \in {"save", "tea", "write"}
       THEN [chains[k] EXCEPT !.stage = "write"] ELSE Idle]
  /\ ahead' = [k \in Chain |-> {}]
  /\ mixed' = (mixed \/ \E k \in Chain : chains[k].stage # "idle")
  /\ UNCHANGED <<service, auth, authVerified, displayName, abandoned>>

\* Writes to the store are on disk and are sent after the launch; their
\* completions, and every other callback, are lost.  AppDelegate calls setup.
Relaunch ==
  /\ view' = "splash" /\ fore' = {} /\ prompt' = NoAlert /\ crashed' = FALSE
  /\ currentUser' = auth
  /\ chains' = [k \in Chain |->
       IF chains[k].stage \in {"save", "tea", "write"}
       THEN [chains[k] EXCEPT !.stage = "write"] ELSE Idle]
  /\ ahead' = [k \in Chain |-> {}]
  /\ mixed' = (mixed \/ \E k \in Chain : chains[k].stage # "idle")
  /\ UNCHANGED <<service, auth, authVerified, displayName, abandoned>>

\* The owner of the mailbox follows the link.
Verify(u) ==
  /\ u \in accounts \intersect mailed
  /\ verified' = verified \union {u}
  /\ UNCHANGED <<accounts, used, mailed, username, identity, place, prompt, callbacks, crashed, history>>

-----------------------------------------------------------------------------
(* Login *)

\* textFieldChanged enables the button again while a sign-in is under way.
HandleSignIn(k, u) ==
  /\ Touchable("login") /\ Free(k)
  /\ Start(k, "signIn", u, NoTea)
  /\ Fore(k)
  /\ UNCHANGED <<service, identity, prompt, crashed, history>>

\* The work queue: the account is Auth's from here on, with its flag as just
\* loaded, and the completion is handed to the main queue.
AuthSignsIn(k) ==
  /\ Under(k, "signIn") /\ chains[k].uid \in accounts
  /\ auth' = chains[k].uid /\ authVerified' = (chains[k].uid \in verified)
  /\ Go(k, "signedIn")
  /\ mixed' = (mixed \/ ~Alone(k) \/ prompt # NoAlert)
  /\ UNCHANGED <<service, currentUser, displayName, place, prompt, crashed, abandoned>>

\* The completion: UserManager's variable, whoever is signed in by now.
SignInSucceeds(k) ==
  /\ At(k, "signedIn")
  /\ currentUser' = chains[k].uid
  /\ Go(k, "name")
  /\ Segue(k)
  /\ mixed' = (mixed \/ ~Alone(k) \/ prompt # NoAlert)
  /\ abandoned' = (abandoned \/ ~Shows(k))
  /\ UNCHANGED <<service, auth, authVerified, displayName, prompt, crashed>>

SignInFails(k) ==
  /\ At(k, "signIn")
  /\ End(k) /\ Present(k, "oops", NoTea)
  /\ UNCHANGED <<service, identity, place, crashed, history>>

\* The name is read after the feed is on show, and set whoever is signed in.
NameArrives(k) ==
  /\ At(k, "name") /\ username[chains[k].uid] # NoTea
  /\ displayName' = username[chains[k].uid]
  /\ End(k)
  /\ mixed' = (mixed /\ ~(Alone(k) /\ prompt = NoAlert /\ auth = chains[k].uid))
  /\ UNCHANGED <<service, auth, authVerified, currentUser, place, prompt, crashed, abandoned>>

\* No document, or no answer: as! String traps on nil.
NameTraps(k) ==
  /\ At(k, "name")
  /\ crashed' = TRUE
  /\ UNCHANGED <<service, identity, place, prompt, callbacks, history>>

-----------------------------------------------------------------------------
(* CreateNewAccount: handleSignUp *)

\* In this chain, uid is a uid of the address that was typed.
CreateNewButton(k, u, t) ==
  /\ Touchable("signup") /\ Free(k)
  /\ Start(k, "providers", u, t)
  /\ Fore(k)
  /\ UNCHANGED <<service, identity, prompt, crashed, history>>

Taken(u) == \E a \in accounts : Mail[a] = Mail[u]

ProvidersAnswer(k) ==
  /\ At(k, "providers")
  /\ IF Taken(chains[k].uid)
     THEN End(k) /\ Present(k, "used", NoTea)
     ELSE Go(k, "create") /\ UNCHANGED prompt
  /\ UNCHANGED <<service, identity, place, crashed, history>>

\* Slip: nil is not looked for.
DeleteAuthUnchecked(k) == Start(k, "delete", auth, NoTea)

\* Auth.auth().currentUser?.delete, in place of what chain k was.
DeleteAuth(k) == IF auth = NoUser THEN End(k) ELSE Start(k, "delete", auth, NoTea)

\* resetForm() and the deletion of the account that is signed in.
GiveUp(k) ==
  /\ Present(k, "oops", NoTea) /\ DeleteAuth(k)
  /\ UNCHANGED <<identity, place, crashed, history>>

\* The work queue: the account is created, and is Auth's from here on.
AuthCreates(k) ==
  /\ Under(k, "create") /\ ~Taken(chains[k].uid)
  /\ \E u \in User \ used :
       /\ Mail[u] = Mail[chains[k].uid]
       /\ accounts' = accounts \union {u} /\ used' = used \union {u}
       /\ auth' = u /\ authVerified' = FALSE
       /\ Start(k, "created", u, chains[k].tea)
  /\ mixed' = (mixed \/ ~Alone(k) \/ prompt # NoAlert)
  /\ UNCHANGED <<mailed, verified, username, currentUser, displayName, place, prompt, crashed,
                 abandoned>>

\* The completion: UserManager's variable is the new account, and the name to
\* commit is that of whoever is signed in by now.
CreateSucceeds(k) ==
  /\ At(k, "created")
  /\ currentUser' = chains[k].uid
  /\ IF auth = NoUser THEN End(k) ELSE Start(k, "commit", auth, chains[k].tea)
  /\ mixed' = (mixed \/ ~Alone(k) \/ prompt # NoAlert)
  /\ UNCHANGED <<service, auth, authVerified, displayName, place, prompt, crashed, abandoned>>

\* The address was taken meanwhile, or the call failed, perhaps after the
\* service had created the account.
CreateFails(k) ==
  /\ At(k, "create")
  /\ \/ UNCHANGED <<accounts, used>>
     \/ /\ ~Taken(chains[k].uid)
        /\ \E u \in User \ used :
             /\ Mail[u] = Mail[chains[k].uid]
             /\ accounts' = accounts \union {u} /\ used' = used \union {u}
  /\ GiveUp(k)
  /\ UNCHANGED <<mailed, verified, username>>

\* The work queue: what the service says of an account is loaded, by the commit
\* (before it sets the name) and by a reload, whose completion then waits.  The
\* flag that is read is that of the account signed in, this one or not.
AccountLoaded(k) ==
  /\ ~crashed /\ chains[k].stage \in {"commit", "reload", "refresh"}
  /\ chains[k].uid \in accounts
  /\ authVerified' = IF auth = chains[k].uid THEN auth \in verified ELSE authVerified
  /\ \/ chains[k].stage = "commit" /\ Go(k, "set")
     \/ chains[k].stage = "reload" /\ Go(k, "loaded")
     \/ chains[k].stage = "refresh" /\ End(k)
  /\ UNCHANGED <<service, auth, currentUser, displayName, place, prompt, crashed, history>>

\* The mail is asked for whoever is signed in by now.
CommitSucceeds(k) ==
  /\ At(k, "set")
  /\ IF auth = NoUser THEN End(k) ELSE Start(k, "mail", auth, chains[k].tea)
  /\ UNCHANGED <<service, identity, place, prompt, crashed, history>>

CommitFails(k) == (At(k, "commit") \/ At(k, "set")) /\ GiveUp(k) /\ UNCHANGED service

\* The service sends the mail; its answer may be lost.
MailSent(k) ==
  /\ chains[k].stage = "mail" /\ chains[k].uid \in accounts
  /\ mailed' = mailed \union {chains[k].uid}
  /\ UNCHANGED <<accounts, used, verified, username, identity, place, prompt, callbacks, crashed, history>>

MailSucceeds(k) ==
  /\ At(k, "mail") /\ chains[k].uid \in mailed
  /\ End(k) /\ Present(k, "verify", chains[k].tea)
  /\ UNCHANGED <<service, identity, place, crashed, history>>

\* The account stays, without a profile; the alert says so and no more.
MailFails(k) ==
  /\ At(k, "mail")
  /\ End(k) /\ Present(k, "oops", NoTea)
  /\ UNCHANGED <<service, identity, place, crashed, history>>

\* Both buttons of "E-mail já usado anteriormente" delete the account that is
\* signed in; the second one leaves the screen.
CloseUsed(k) ==
  /\ Pressed("used") /\ Free(k)
  /\ prompt' = NoAlert /\ DeleteAuth(k) /\ \E v \in {view, "main"} : GoTo(v)
  /\ UNCHANGED <<service, identity, crashed, history>>

\* "Reenviar": the alert is closed and nothing brings it back.
Resend ==
  /\ Pressed("verify") \/ Pressed("unverified")
  /\ mailed' = mailed \union ({auth} \ {NoUser})
  /\ prompt' = NoAlert
  /\ UNCHANGED <<accounts, used, verified, username, identity, place, callbacks, crashed, history>>

\* "Ok, verifiquei!" of the first alert.
OkVerify(k) ==
  /\ Pressed("verify") /\ Free(k)
  /\ prompt' = NoAlert /\ Fore(k)
  /\ IF auth = NoUser THEN UNCHANGED callbacks ELSE Start(k, "reload", auth, prompt.tea)
  /\ UNCHANGED <<service, identity, crashed, history>>

\* Slip: the profile is saved as soon as the reload is answered.
SaveUnverified(k, tea) ==
  IF currentUser # NoUser
  THEN Write(k, "save", currentUser, tea) /\ displayName' = tea
  ELSE End(k) /\ UNCHANGED displayName

\* saveProfile, when the flag of the account signed in is set: it writes the
\* document of UserManager's user, and sets the name before the write.
SaveIfVerified(k, tea) ==
  IF authVerified /\ currentUser # NoUser
  THEN Write(k, "save", currentUser, tea) /\ displayName' = tea
  ELSE End(k) /\ UNCHANGED displayName

ReloadSucceeds(k) ==
  /\ At(k, "loaded")
  /\ IF auth = NoUser
     THEN crashed' = TRUE /\ UNCHANGED <<displayName, prompt, callbacks>>
     ELSE /\ SaveIfVerified(k, chains[k].tea)
          /\ IF authVerified THEN UNCHANGED prompt
             ELSE Present(k, "unverified", chains[k].tea)
          /\ UNCHANGED crashed
  /\ UNCHANGED <<service, auth, authVerified, currentUser, place, history>>

\* "Ok, verifiquei!" of the second alert: it starts a reload, and looks at the
\* flag that was loaded before.
OkUnverified(k) ==
  /\ Pressed("unverified") /\ Free(k)
  /\ prompt' = NoAlert /\ Fore(k)
  /\ IF auth = NoUser
     THEN crashed' = TRUE /\ UNCHANGED <<callbacks, displayName>>
     ELSE /\ IF authVerified
             THEN SaveIfVerified(k, prompt.tea)
             ELSE Start(k, "refresh", auth, NoTea) /\ UNCHANGED displayName
          /\ UNCHANGED crashed
  /\ UNCHANGED <<service, auth, authVerified, currentUser, mixed, abandoned>>

\* "Cancelar": the account is deleted and the screen left.
CancelUnverified(k) ==
  /\ Pressed("unverified") /\ Free(k)
  /\ prompt' = NoAlert /\ DeleteAuth(k) /\ GoTo("main")
  /\ UNCHANGED <<service, identity, crashed, history>>

\* Slip: the sign-up screen stays when the profile is saved.
SaveStays(k) ==
  /\ At(k, "save") /\ auth = chains[k].by
  /\ username' = [username EXCEPT ![chains[k].uid] = chains[k].tea]
  /\ End(k)
  /\ abandoned' = (abandoned \/ ~Shows(k) \/ ~Alone(k))
  /\ UNCHANGED <<accounts, used, mailed, verified, identity, place, prompt, crashed, mixed>>

\* The write is acknowledged while the account in whose queue it waits is
\* signed in.
SaveSucceeds(k) ==
  /\ At(k, "save") /\ auth = chains[k].by
  /\ username' = [username EXCEPT ![chains[k].uid] = chains[k].tea]
  /\ End(k) /\ Segue(k)
  /\ abandoned' = (abandoned \/ ~Shows(k) \/ ~Alone(k))
  /\ UNCHANGED <<accounts, used, mailed, verified, identity, prompt, crashed, mixed>>

DeleteSucceeds(k) ==
  /\ Under(k, "delete")
  /\ accounts' = accounts \ {chains[k].uid}
  /\ IF auth = chains[k].uid THEN auth' = NoUser /\ authVerified' = FALSE
     ELSE UNCHANGED <<auth, authVerified>>
  /\ End(k)
  /\ mixed' = (mixed \/ ~Alone(k) \/ prompt # NoAlert)
  /\ UNCHANGED <<used, mailed, verified, username, currentUser, displayName, place, prompt,
                 crashed, abandoned>>

\* The error is printed, or dropped: providers, reload, save, tea, delete, ...
FailsSilently(k) ==
  /\ ~crashed /\ chains[k].stage \in {"providers", "reload", "refresh", "save", "tea", "write", "delete"}
  /\ End(k)
  /\ UNCHANGED <<service, identity, place, prompt, crashed, history>>

-----------------------------------------------------------------------------
(* ChooseYourTeaScreen, from the profile *)

Salvar(k, t) ==
  /\ Touchable("tabs") /\ Free(k) /\ auth # NoUser
  /\ Write(k, "tea", auth, t)
  /\ UNCHANGED <<service, identity, place, prompt, crashed, history>>

\* Slip: the name of the settings is forgotten.
TeaSavedOnly(k) ==
  /\ At(k, "tea") /\ auth = chains[k].by
  /\ username' = [username EXCEPT ![chains[k].uid] = chains[k].tea]
  /\ End(k)
  /\ UNCHANGED <<accounts, used, mailed, verified, identity, place, prompt, crashed, history>>

TeaSaved(k) ==
  /\ At(k, "tea") /\ auth = chains[k].by
  /\ username' = [username EXCEPT ![chains[k].uid] = chains[k].tea]
  /\ displayName' = chains[k].tea
  /\ End(k)
  /\ UNCHANGED <<accounts, used, mailed, verified, auth, authVerified, currentUser, place, prompt,
                 crashed, history>>

\* reload(), by viewDidLoad of Profile and after salvar, with no completion.
AuthReloads ==
  /\ ~crashed /\ view = "tabs" /\ auth # NoUser
  /\ authVerified' = (auth \in verified)
  /\ UNCHANGED <<service, auth, currentUser, displayName, place, prompt, callbacks, crashed, history>>

\* A write queued before the launch.
QueuedWrite(k) ==
  /\ Under(k, "write") /\ auth = chains[k].by
  /\ username' = [username EXCEPT ![chains[k].uid] = chains[k].tea]
  /\ End(k)
  /\ UNCHANGED <<accounts, used, mailed, verified, identity, place, prompt, crashed, history>>

-----------------------------------------------------------------------------

LoginStep(k) ==
  \/ \E u \in User : HandleSignIn(k, u)
  \/ AuthSignsIn(k) \/ SignInSucceeds(k) \/ SignInFails(k) \/ NameArrives(k) \/ NameTraps(k)

SignUpStep(k) ==
  \/ \E u \in User, t \in Tea : CreateNewButton(k, u, t)
  \/ ProvidersAnswer(k) \/ AuthCreates(k) \/ CreateSucceeds(k) \/ CreateFails(k)
  \/ AccountLoaded(k) \/ CommitSucceeds(k) \/ CommitFails(k)
  \/ MailSent(k) \/ MailSucceeds(k) \/ MailFails(k)
  \/ CloseUsed(k) \/ OkVerify(k) \/ OkUnverified(k) \/ CancelUnverified(k)
  \/ ReloadSucceeds(k) \/ SaveSucceeds(k) \/ DeleteSucceeds(k) \/ FailsSilently(k)

TeaStep(k) == (\E t \in Tea : Salvar(k, t)) \/ TeaSaved(k) \/ QueuedWrite(k)

Next ==
  \/ AuthReloads
  \/ SplashPasses \/ Navigate \/ CloseOops \/ Resend \/ SignOut \/ Relaunch
  \/ \E u \in User : Verify(u)
  \/ \E k \in Chain : LoginStep(k) \/ SignUpStep(k) \/ TeaStep(k)

Spec == Init /\ [][Next]_vars

-----------------------------------------------------------------------------
(* Properties *)

\* Every variable keeps its type; a callback is awaited for some account.
TypeOK ==
  /\ accounts \subseteq used /\ mailed \subseteq used /\ verified \subseteq used
  /\ used \subseteq User /\ username \in [User -> Tea \union {NoTea}]
  /\ {auth, currentUser} \subseteq User \union {NoUser}
  /\ displayName \in Tea \union {NoTea}
  /\ view \in View /\ fore \subseteq Chain /\ prompt \in [kind : Alert, tea : Tea \union {NoTea}]
  /\ chains \in [Chain -> [stage : Stage, uid : User \union {NoUser}, tea : Tea \union {NoTea},
                          by : User \union {NoUser}]]
  /\ ahead \in [Chain -> SUBSET Chain]
  /\ \A k \in Chain : chains[k].stage # "idle" => chains[k].uid # NoUser
  /\ {authVerified, crashed, mixed, abandoned} \subseteq BOOLEAN

\* The sign-up saves a profile only while the account that is signed in is a
\* verified one, although it looks at a cached flag; and it writes the document
\* of that account, although it takes the uid from another variable, unless
\* Auth's account has changed and the app is yet to be told.
SavesVerified ==
  [][\A k \in Chain :
       chains'[k].stage = "save" /\ chains[k].stage # "save" =>
         /\ auth \in verified
         /\ chains'[k].uid = auth \/ \E j \in Chain : Told(j)]_vars

\* The notions of the user agree: when the app was told of every change of
\* Auth's account, and somebody is signed in, the two in memory do, whatever
\* sign-ins, sign-ups, deletions and logouts overlapped; and the name on the
\* profile is the one of the user's document when nothing is awaited, and nothing
\* was when the account changed or the app was launched.
UsersAgree ==
  /\ auth # NoUser /\ (\A k \in Chain : ~Told(k)) => currentUser = auth
  /\ view = "tabs" /\ ~mixed /\ (\A k \in Chain : chains[k].stage = "idle")
       /\ auth # NoUser /\ username[auth] # NoTea
     => displayName = username[auth]

\* The sign-up deletes "the account that is signed in" in five places, meaning
\* the one it has just created.  It never asks to delete an account whose
\* profile is saved, unless an answer came after its screen was left (the user
\* is then signed in and sees the main screen), or while another chain of
\* callbacks was under way: a profile that is saved while a second sign-up is
\* on its way goes with the failure of that one.
ProfiledNotDeleted ==
  [][\A k \in Chain :
       chains'[k].stage = "delete" /\ chains[k].stage # "delete"
         /\ ~mixed /\ ~abandoned =>
         username[chains'[k].uid] = NoTea]_vars

=============================================================================
