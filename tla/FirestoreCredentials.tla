------------------------ MODULE FirestoreCredentials ------------------------
(***************************************************************************)
(* How a change of account reaches the Firestore client, and how a stream  *)
(* gets the token it is opened with                                        *)
(* (firebase_credentials_provider_apple.mm, FIRAuth.m, stream.mm).         *)
(*                                                                         *)
(* Three queues run side by side.  The work queue of FIRAuth owns the      *)
(* account; it tells the main queue of every change and hands it every     *)
(* token; the main queue tells the worker queue of Firestore, which owns   *)
(* the streams.  A token that was asked for on behalf of one account may   *)
(* so be answered after the phone has moved to another one.  Two counters  *)
(* tell: token_counter of the provider and close_count_ of the stream.     *)
(*                                                                         *)
(* The module has the state and the steps of this machinery; what the      *)
(* worker does with what it is told is in the module of the stream.        *)
(***************************************************************************)
EXTENDS Integers, Sequences, FiniteSets

CONSTANTS
  Account,  \* the uids that sign in on this phone
  NoUser    \* nobody is signed in: FIRAuth's nil, Firestore's unauthenticated user

ASSUME AccountAssumption == NoUser \notin Account

User == Account \union {NoUser}

VARIABLES
  auth,        \* FIRAuth's _currentUser, kept in the keychain
  provider,    \* the credentials provider: current_user and token_counter
  asked,       \* getTokenForcingRefresh calls that are not answered
  main,        \* the blocks on the main queue
  worker,      \* the blocks on Firestore's worker queue
  closeCount   \* close_count_ of the stream

credentials == <<auth, provider, asked, main, worker, closeCount>>

\* user: whose token it is; counter and close: the two counters when it was
\* asked for; taken: FIRAuth has read its current user for it.
Request == [user : User, counter : Nat, close : Nat, taken : BOOLEAN]
MainBlock ==
  [kind : {"state"}, user : User]
    \union [kind : {"token"}, user : User, counter : Nat, close : Nat, ok : BOOLEAN]
WorkerBlock ==
  [kind : {"change"}, user : User]
    \union [kind : {"token"}, user : User, close : Nat, ok : BOOLEAN]
    \union [kind : {"write"}, user : User, n : Nat]

\* A process that starts knows the account of the keychain, or not yet: then
\* FIRAuth posts it once it is read.
Launch(u) ==
  \/ provider' = [user |-> u, counter |-> 0] /\ main' = <<>>
  \/ /\ provider' = [user |-> NoUser, counter |-> 0]
     /\ u # NoUser /\ main' = <<[kind |-> "state", user |-> u]>>

-----------------------------------------------------------------------------
(* The work queue of FIRAuth *)

\* A sign-in, over another account or none, a sign-out, or a new token of the
\* same account, and possiblyPostAuthStateChangeNotification.
AuthChanges(u) ==
  /\ u # NoUser \/ auth # NoUser
  /\ auth' = u
  /\ main' = Append(main, [kind |-> "state", user |-> u])
  /\ UNCHANGED <<provider, asked, worker, closeCount>>

Answer(r, u, ok) ==
  main' = Append(main, [kind |-> "token", user |-> u, counter |-> r.counter,
                        close |-> r.close, ok |-> ok])

\* Its block runs: without a user the nil token goes to the main queue at once.
AuthTakes(r) ==
  /\ r \in asked /\ ~r.taken
  /\ IF auth = NoUser
     THEN asked' = asked \ {r} /\ Answer(r, NoUser, TRUE)
     ELSE /\ asked' = (asked \ {r}) \union {[r EXCEPT !.user = auth, !.taken = TRUE]}
          /\ UNCHANGED main
  /\ UNCHANGED <<auth, provider, worker, closeCount>>

\* The token of the user that was read, however long it took to fetch.
AuthAnswers(r, ok) ==
  /\ r \in asked /\ r.taken
  /\ asked' = asked \ {r} /\ Answer(r, r.user, ok)
  /\ UNCHANGED <<auth, provider, worker, closeCount>>

-----------------------------------------------------------------------------
(* The main queue *)

\* The observer of the notification, and the listener it calls.
HearChange ==
  /\ main # <<>> /\ Head(main).kind = "state"
  /\ main' = Tail(main)
  /\ provider' = [user |-> Head(main).user, counter |-> provider.counter + 1]
  /\ worker' = Append(worker, [kind |-> "change", user |-> Head(main).user])
  /\ UNCHANGED <<auth, asked, closeCount>>

\* A token is aborted when the account changed since it was asked for.
Valid(b) == b.ok /\ b.counter = provider.counter

\* get_token_callback
HearToken ==
  /\ main # <<>> /\ Head(main).kind = "token"
  /\ main' = Tail(main)
  /\ worker' = Append(worker, [kind |-> "token", user |-> Head(main).user,
                               close |-> Head(main).close, ok |-> Valid(Head(main))])
  /\ UNCHANGED <<auth, provider, asked, closeCount>>

-----------------------------------------------------------------------------
(* The worker queue *)

\* Slip: the answer to a stream that was closed is taken by the next one.
CurrentAlways(b) == TRUE

\* The stream that asked has not been closed since.
Current(b) == b.close = closeCount

\* Stream::RequestCredentials, by a stream whose close count is close.
GetToken(close) ==
  asked' = asked \union {[user |-> NoUser, counter |-> provider.counter,
                          close |-> close, taken |-> FALSE]}

CredentialsTypeOK ==
  /\ auth \in User /\ provider \in [user : User, counter : Nat]
  /\ asked \subseteq Request /\ main \in Seq(MainBlock) /\ worker \in Seq(WorkerBlock)
  /\ closeCount \in Nat

=============================================================================
