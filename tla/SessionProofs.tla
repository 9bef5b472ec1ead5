----------------------------- MODULE SessionProofs -----------------------------
(***************************************************************************)
(* Who is signed in, for any users, mails, teas and chains of callbacks:   *)
(* the types of Session, that UserManager's user is Auth's once the app was *)
(* told of every change, and the last change it is to be told of is the     *)
(* right one until then, that the sign-up saves a profile while a verified  *)
(* account is signed in only, and that it spares an account whose profile   *)
(* is saved.                                                                *)
(***************************************************************************)
EXTENDS Session, TLAPS

ChainState == [stage : Stage, uid : User \union {NoUser}, tea : Tea \union {NoTea},
               by : User \union {NoUser}]

ServiceOK ==
  /\ accounts \subseteq used /\ mailed \subseteq used /\ verified \subseteq used
  /\ used \subseteq User /\ username \in [User -> Tea \union {NoTea}]

\* The flag in memory is only set for an account that was verified.
IdentityOK ==
  /\ auth \in used \union {NoUser} /\ currentUser \in used \union {NoUser}
  /\ displayName \in Tea \union {NoTea} /\ authVerified \in BOOLEAN
  /\ authVerified => auth \in verified

PlaceOK ==
  /\ view \in View /\ fore \subseteq Chain /\ prompt \in [kind : Alert, tea : Tea \union {NoTea}]
  /\ crashed \in BOOLEAN /\ mixed \in BOOLEAN /\ abandoned \in BOOLEAN

ChainsOK ==
  /\ chains \in [Chain -> ChainState] /\ ahead \in [Chain -> SUBSET Chain]
  /\ \A k \in Chain : chains[k].stage # "idle" => chains[k].uid # NoUser
  /\ \A k \in Chain : chains[k].stage \in {"signedIn", "created"} => chains[k].uid \in used
  /\ \A k \in Chain : chains[k].stage = "tea" => chains[k].uid = chains[k].by

\* The last change of Auth's account that the app is yet to be told of: the
\* others run ahead of it on the main queue.
LastTold(k) ==
  Told(k) /\ chains[k].uid = auth /\ \A j \in Chain \ {k} : Told(j) => j \in ahead[k]

AgreeOK ==
  auth # NoUser =>
    \/ currentUser = auth /\ \A k \in Chain : ~Told(k)
    \/ \E k \in Chain : LastTold(k)

SessionInv == ServiceOK /\ IdentityOK /\ PlaceOK /\ ChainsOK /\ AgreeOK

\* No chain begins to save a profile.
Quiet == \A k \in Chain : chains'[k].stage = "save" => chains[k].stage = "save"

\* A chain that begins to do so does it while a verified account is signed in,
\* and writes that account's document, or the app is yet to be told of a change.
SavesWell ==
  \A k \in Chain :
    chains'[k].stage = "save" /\ chains[k].stage # "save" =>
      auth \in verified /\ (chains'[k].uid = auth \/ \E j \in Chain : Told(j))

-----------------------------------------------------------------------------
(* Chains *)

\* One chain moves, the others keep their place and wait for it no longer.
Others(k) == \A j \in Chain : j # k => chains'[j] = chains[j]
Turned(k) == \A j \in Chain : j # k => ahead'[j] = ahead[j] \ {k}

LEMMA QueueFacts ==
  ASSUME ChainsOK, NEW k \in Chain, NEW before \in SUBSET Chain, Queue(k, before)
  PROVE  ahead' \in [Chain -> SUBSET Chain] /\ ahead'[k] = before \ {k} /\ Turned(k)
<1>1. ahead' = [j \in Chain |-> IF j = k THEN before \ {k} ELSE ahead[j] \ {k}]
  BY DEF Queue
<1>2. \A j \in Chain : ahead[j] \in SUBSET Chain
  BY DEF ChainsOK
<1>3. \A j \in Chain : (IF j = k THEN before \ {k} ELSE ahead[j] \ {k}) \in SUBSET Chain
  BY <1>2
<1> QED BY <1>1, <1>3 DEF Turned

LEMMA CallFacts ==
  ASSUME ChainsOK, NEW k \in Chain, NEW call \in ChainState, Call(k, call)
  PROVE  /\ chains' \in [Chain -> ChainState] /\ chains'[k] = call /\ Others(k)
         /\ ahead' \in [Chain -> SUBSET Chain] /\ ahead'[k] = OnMain \ {k} /\ Turned(k)
<1>1. chains' = [chains EXCEPT ![k] = call] /\ Queue(k, OnMain)
  BY DEF Call
<1>2. OnMain \in SUBSET Chain
  BY DEF OnMain
<1>3. chains' \in [Chain -> ChainState] /\ chains'[k] = call /\ Others(k)
  BY <1>1 DEF ChainsOK, Others
<1> QED BY <1>1, <1>2, <1>3, QueueFacts

LEMMA StartFacts ==
  ASSUME ChainsOK, NEW k \in Chain, NEW stage \in Stage, NEW uid \in User \union {NoUser},
         NEW tea \in Tea \union {NoTea}, Start(k, stage, uid, tea)
  PROVE  /\ chains' \in [Chain -> ChainState] /\ Others(k)
         /\ chains'[k].stage = stage /\ chains'[k].uid = uid /\ chains'[k].tea = tea
         /\ ahead' \in [Chain -> SUBSET Chain] /\ ahead'[k] = OnMain \ {k} /\ Turned(k)
<1> DEFINE s == [stage |-> stage, uid |-> uid, tea |-> tea, by |-> NoUser]
<1>1. s \in ChainState /\ s.stage = stage /\ s.uid = uid /\ s.tea = tea
  BY DEF ChainState
<1>2. Call(k, s)
  BY DEF Start
<1> HIDE DEF s
<1> QED BY <1>1, <1>2, CallFacts

LEMMA WriteFacts ==
  ASSUME ChainsOK, auth \in User \union {NoUser}, NEW k \in Chain, NEW stage \in Stage,
         NEW uid \in User \union {NoUser}, NEW tea \in Tea \union {NoTea}, Write(k, stage, uid, tea)
  PROVE  /\ chains' \in [Chain -> ChainState] /\ Others(k)
         /\ chains'[k].stage = stage /\ chains'[k].uid = uid /\ chains'[k].tea = tea
         /\ chains'[k].by = auth
         /\ ahead' \in [Chain -> SUBSET Chain] /\ ahead'[k] = OnMain \ {k} /\ Turned(k)
<1>1. PICK b \in User \union {NoUser} : b = auth
  OBVIOUS
<1> DEFINE s == [stage |-> stage, uid |-> uid, tea |-> tea, by |-> b]
<1>2. s \in ChainState /\ s.stage = stage /\ s.uid = uid /\ s.tea = tea /\ s.by = b
  BY DEF ChainState
<1>3. Call(k, s)
  BY <1>1 DEF Write
<1> HIDE DEF s
<1> QED BY <1>1, <1>2, <1>3, CallFacts

LEMMA GoFacts ==
  ASSUME ChainsOK, NEW k \in Chain, NEW stage \in Stage, Go(k, stage)
  PROVE  /\ chains' \in [Chain -> ChainState] /\ Others(k)
         /\ chains'[k].stage = stage /\ chains'[k].uid = chains[k].uid /\ chains'[k].tea = chains[k].tea
         /\ chains'[k].by = chains[k].by
         /\ ahead' \in [Chain -> SUBSET Chain] /\ ahead'[k] = OnMain \ {k} /\ Turned(k)
<1> DEFINE r == chains[k]
           s == [r EXCEPT !.stage = stage]
<1>1. r \in [stage : Stage, uid : User \union {NoUser}, tea : Tea \union {NoTea},
             by : User \union {NoUser}]
  BY DEF ChainsOK, ChainState
<1>2. Call(k, s)
  BY DEF Go, Call
<1> HIDE DEF r
<1>3. s \in ChainState /\ s.stage = stage /\ s.uid = r.uid /\ s.tea = r.tea /\ s.by = r.by
  BY <1>1 DEF ChainState
<1> HIDE DEF s
<1>4. /\ chains' \in [Chain -> ChainState] /\ chains'[k] = s /\ Others(k)
      /\ ahead' \in [Chain -> SUBSET Chain] /\ ahead'[k] = OnMain \ {k} /\ Turned(k)
  BY <1>2, <1>3, CallFacts
<1> QED BY <1>3, <1>4 DEF r

LEMMA EndFacts ==
  ASSUME ChainsOK, NEW k \in Chain, End(k)
  PROVE  /\ chains' \in [Chain -> ChainState] /\ Others(k) /\ chains'[k].stage = "idle"
         /\ ahead' \in [Chain -> SUBSET Chain] /\ Turned(k)
<1>1. Idle \in ChainState /\ Idle.stage = "idle"
  BY DEF Idle, ChainState, Stage
<1>2. chains' = [chains EXCEPT ![k] = Idle] /\ Queue(k, {}) /\ {} \in SUBSET Chain
  BY DEF End
<1>3. chains' \in [Chain -> ChainState] /\ chains'[k] = Idle /\ Others(k)
  BY <1>1, <1>2 DEF ChainsOK, Others
<1> QED BY <1>1, <1>2, <1>3, QueueFacts

\* A chain moves and keeps what is said of its uid.
LEMMA ChainMoves ==
  ASSUME ChainsOK, used \subseteq used', NEW k \in Chain,
         chains' \in [Chain -> ChainState], Others(k), ahead' \in [Chain -> SUBSET Chain],
         chains'[k].stage # "idle" => chains'[k].uid # NoUser,
         chains'[k].stage \in {"signedIn", "created"} => chains'[k].uid \in used',
         chains'[k].stage = "tea" => chains'[k].uid = chains'[k].by
  PROVE  ChainsOK' /\ (chains'[k].stage # "save" => Quiet)
BY DEF ChainsOK, Others, Quiet

LEMMA ChainRests ==
  ASSUME ChainsOK, UNCHANGED callbacks, used \subseteq used'
  PROVE  ChainsOK' /\ Quiet
BY DEF ChainsOK, Quiet, callbacks

LEMMA ChainStarts ==
  ASSUME ChainsOK, used \subseteq used', NEW k \in Chain,
         NEW stage \in Stage \ {"idle", "tea", "save"}, NEW uid \in User,
         NEW tea \in Tea \union {NoTea}, Start(k, stage, uid, tea),
         stage \in {"signedIn", "created"} => uid \in used'
  PROVE  ChainsOK' /\ Quiet
<1>1. /\ chains' \in [Chain -> ChainState] /\ Others(k)
      /\ chains'[k].stage = stage /\ chains'[k].uid = uid
      /\ ahead' \in [Chain -> SUBSET Chain]
  BY StartFacts
<1> QED BY <1>1, ChainMoves, SessionAssumption

LEMMA ChainGoes ==
  ASSUME ChainsOK, used \subseteq used', NEW k \in Chain,
         NEW stage \in Stage \ {"idle", "tea", "save", "created"},
         Go(k, stage), chains[k].stage # "idle", stage = "signedIn" => chains[k].uid \in used
  PROVE  ChainsOK' /\ Quiet
<1>1. /\ chains' \in [Chain -> ChainState] /\ Others(k)
      /\ chains'[k].stage = stage /\ chains'[k].uid = chains[k].uid
      /\ ahead' \in [Chain -> SUBSET Chain]
  BY GoFacts
<1>2. chains[k].uid # NoUser
  BY DEF ChainsOK
<1> QED BY <1>1, <1>2, ChainMoves

LEMMA ChainEnds ==
  ASSUME ChainsOK, used \subseteq used', NEW k \in Chain, End(k)
  PROVE  ChainsOK' /\ Quiet
BY EndFacts, ChainMoves

LEMMA DeleteFacts ==
  ASSUME SessionInv, NEW k \in Chain, DeleteAuth(k)
  PROVE  /\ chains' \in [Chain -> ChainState] /\ Others(k) /\ Turned(k)
         /\ ahead' \in [Chain -> SUBSET Chain]
         /\ \/ chains'[k].stage = "idle"
            \/ /\ chains'[k].stage = "delete" /\ auth # NoUser /\ chains'[k].uid = auth
               /\ ahead'[k] = OnMain \ {k}
<1> USE DEF SessionInv
<1>1. CASE auth = NoUser
  BY <1>1, EndFacts DEF DeleteAuth
<1>2. CASE auth # NoUser
  <2>1. auth \in User \union {NoUser} /\ "delete" \in Stage /\ Start(k, "delete", auth, NoTea)
    BY <1>2 DEF DeleteAuth, IdentityOK, ServiceOK, Stage
  <2> QED BY <1>2, <2>1, StartFacts
<1> QED BY <1>1, <1>2

LEMMA ChainDeletes ==
  ASSUME SessionInv, used \subseteq used', NEW k \in Chain, DeleteAuth(k)
  PROVE  ChainsOK' /\ Quiet
<1>1. ChainsOK
  BY DEF SessionInv
<1> QED BY <1>1, DeleteFacts, ChainMoves

\* The profile is saved, or the chain ends.
LEMMA SaveFacts ==
  ASSUME SessionInv, NEW k \in Chain, NEW tea \in Tea \union {NoTea}, SaveIfVerified(k, tea)
  PROVE  /\ chains' \in [Chain -> ChainState] /\ Others(k) /\ Turned(k)
         /\ ahead' \in [Chain -> SUBSET Chain]
         /\ \/ /\ chains'[k].stage = "save" /\ chains'[k].uid = currentUser /\ chains'[k].tea = tea
               /\ displayName' = tea /\ authVerified /\ currentUser # NoUser
               /\ ahead'[k] = OnMain \ {k}
            \/ chains'[k].stage = "idle" /\ displayName' = displayName
<1> USE DEF SessionInv
<1>1. CASE authVerified /\ currentUser # NoUser
  <2>1. /\ auth \in User \union {NoUser} /\ currentUser \in User \union {NoUser} /\ "save" \in Stage
        /\ Write(k, "save", currentUser, tea) /\ displayName' = tea
    BY <1>1 DEF SaveIfVerified, IdentityOK, ServiceOK, Stage
  <2> QED BY <1>1, <2>1, WriteFacts
<1>2. CASE ~(authVerified /\ currentUser # NoUser)
  BY <1>2, EndFacts DEF SaveIfVerified
<1> QED BY <1>1, <1>2

LEMMA ChainSaves ==
  ASSUME SessionInv, used \subseteq used', NEW k \in Chain,
         NEW tea \in Tea \union {NoTea}, SaveIfVerified(k, tea), auth # NoUser
  PROVE  ChainsOK' /\ SavesWell
<1>1. ChainsOK /\ (authVerified => auth \in verified)
  BY DEF SessionInv, IdentityOK
<1>2. currentUser = auth \/ \E j \in Chain : Told(j)
  BY DEF SessionInv, AgreeOK, LastTold
<1>3. ChainsOK'
  BY <1>1, SaveFacts, ChainMoves
<1>4. SavesWell
  BY <1>1, <1>2, SaveFacts DEF SavesWell, Others
<1> QED BY <1>3, <1>4

-----------------------------------------------------------------------------
(* The chains of callbacks, step by step *)

\* A flag that is set to whether an account is verified.
LEMMA FlagSet ==
  ASSUME NEW x, NEW p \in BOOLEAN, x = p
  PROVE  x \in BOOLEAN /\ (x => p)
OBVIOUS

LEMMA AwaitedUid ==
  ASSUME SessionInv, NEW k \in Chain, chains[k].stage # "idle"
  PROVE  chains[k].uid \in User /\ chains[k].tea \in Tea \union {NoTea}
BY DEF SessionInv, ChainsOK, ChainState

LEMMA LoginChains ==
  ASSUME SessionInv, NEW k \in Chain, LoginStep(k)
  PROVE  ChainsOK' /\ SavesWell
<1> USE DEF SessionInv, Stage
<1>1. Quiet => SavesWell
  BY DEF Quiet, SavesWell
<1>2. ASSUME NEW u \in User, HandleSignIn(k, u) PROVE ChainsOK' /\ Quiet
  BY <1>2, ChainStarts DEF HandleSignIn, service
<1>3. CASE AuthSignsIn(k)
  <2>1. chains[k].uid \in used /\ used' = used /\ chains[k].stage # "idle" /\ Go(k, "signedIn")
    BY <1>3 DEF AuthSignsIn, Under, service, ServiceOK
  <2> QED BY <1>1, <2>1, ChainGoes
<1>4. CASE SignInSucceeds(k)
  BY <1>1, <1>4, ChainGoes DEF SignInSucceeds, At, Under, service
<1>5. CASE SignInFails(k)
  BY <1>1, <1>5, ChainEnds DEF SignInFails, service
<1>6. CASE NameArrives(k)
  BY <1>1, <1>6, ChainEnds DEF NameArrives, service
<1>7. CASE NameTraps(k)
  BY <1>1, <1>7, ChainRests DEF NameTraps, service
<1> QED BY <1>1, <1>2, <1>3, <1>4, <1>5, <1>6, <1>7 DEF LoginStep

LEMMA SignUpChains ==
  ASSUME SessionInv, NEW k \in Chain, SignUpStep(k)
  PROVE  ChainsOK' /\ SavesWell
<1> USE DEF SessionInv, Stage
<1>1. Quiet => SavesWell
  BY DEF Quiet, SavesWell
<1>2. ASSUME NEW u \in User, NEW t \in Tea, CreateNewButton(k, u, t) PROVE ChainsOK' /\ Quiet
  BY <1>2, ChainStarts DEF CreateNewButton, service
<1>3. CASE ProvidersAnswer(k)
  BY <1>1, <1>3, ChainEnds, ChainGoes DEF ProvidersAnswer, At, Under, service
<1>4. CASE AuthCreates(k)
  <2>1. chains[k].tea \in Tea \union {NoTea}
    BY <1>4, AwaitedUid DEF AuthCreates, Under
  <2>2. PICK u \in User \ used : used' = used \union {u} /\ Start(k, "created", u, chains[k].tea)
    BY <1>4 DEF AuthCreates
  <2> QED BY <1>1, <2>1, <2>2, ChainStarts
<1>5. CASE CreateFails(k)
  <2>1. used \subseteq used' /\ DeleteAuth(k)
    BY <1>5 DEF CreateFails, GiveUp
  <2> QED BY <1>1, <2>1, ChainDeletes
<1>6. CASE CreateSucceeds(k) \/ CommitSucceeds(k)
  <2>1. /\ chains[k].tea \in Tea \union {NoTea} /\ used' = used
        /\ auth # NoUser => auth \in User
    BY <1>6, AwaitedUid DEF CreateSucceeds, CommitSucceeds, At, Under, service, IdentityOK, ServiceOK
  <2>2. CASE auth = NoUser
    BY <1>1, <1>6, <2>1, <2>2, ChainEnds DEF CreateSucceeds, CommitSucceeds
  <2>3. CASE auth # NoUser
    <3>1. Start(k, "commit", auth, chains[k].tea) \/ Start(k, "mail", auth, chains[k].tea)
      BY <1>6, <2>3 DEF CreateSucceeds, CommitSucceeds
    <3> QED BY <1>1, <2>1, <2>3, <3>1, ChainStarts
  <2> QED BY <2>2, <2>3
<1>7. CASE CommitFails(k) \/ CloseUsed(k) \/ CancelUnverified(k)
  BY <1>1, <1>7, ChainDeletes DEF CommitFails, GiveUp, CloseUsed, CancelUnverified, service
<1>8. CASE MailSucceeds(k) \/ MailFails(k) \/ SaveSucceeds(k) \/ DeleteSucceeds(k) \/ FailsSilently(k)
  BY <1>1, <1>8, ChainEnds DEF MailSucceeds, MailFails, SaveSucceeds,
     DeleteSucceeds, FailsSilently, service
<1>9. CASE OkVerify(k)
  <2>1. used' = used /\ prompt.tea \in Tea \union {NoTea} /\ (auth # NoUser => auth \in User)
    BY <1>9 DEF OkVerify, service, PlaceOK, IdentityOK, ServiceOK
  <2> QED BY <1>1, <1>9, <2>1, ChainRests, ChainStarts DEF OkVerify
<1>10. CASE OkUnverified(k)
  <2>1. used' = used /\ prompt.tea \in Tea \union {NoTea} /\ (auth # NoUser => auth \in User)
    BY <1>10 DEF OkUnverified, service, PlaceOK, IdentityOK, ServiceOK
  <2>2. CASE auth = NoUser
    BY <1>1, <1>10, <2>1, <2>2, ChainRests DEF OkUnverified
  <2>3. CASE auth # NoUser /\ authVerified
    BY <1>10, <2>1, <2>3, ChainSaves DEF OkUnverified
  <2>4. CASE auth # NoUser /\ ~authVerified
    BY <1>1, <1>10, <2>1, <2>4, ChainStarts DEF OkUnverified
  <2> QED BY <2>2, <2>3, <2>4
<1>11. CASE ReloadSucceeds(k)
  <2>1. used' = used /\ chains[k].tea \in Tea \union {NoTea}
    BY <1>11, AwaitedUid DEF ReloadSucceeds, At, Under, service
  <2>2. CASE auth = NoUser
    BY <1>1, <1>11, <2>1, <2>2, ChainRests DEF ReloadSucceeds
  <2>3. CASE auth # NoUser
    BY <1>11, <2>1, <2>3, ChainSaves DEF ReloadSucceeds
  <2> QED BY <2>2, <2>3
<1>12. CASE AccountLoaded(k)
  <2>1. used' = used /\ chains[k].stage # "idle" /\ (End(k) \/ Go(k, "set") \/ Go(k, "loaded"))
    BY <1>12 DEF AccountLoaded, service
  <2> QED BY <1>1, <2>1, ChainGoes, ChainEnds
<1>13. CASE MailSent(k)
  BY <1>1, <1>13, ChainRests DEF MailSent
<1> QED BY <1>1, <1>2, <1>3, <1>4, <1>5, <1>6, <1>7, <1>8, <1>9, <1>10, <1>11, <1>12, <1>13
        DEF SignUpStep

LEMMA TeaChains ==
  ASSUME SessionInv, NEW k \in Chain, TeaStep(k)
  PROVE  ChainsOK' /\ SavesWell
<1> USE DEF SessionInv, Stage
<1>1. Quiet => SavesWell
  BY DEF Quiet, SavesWell
<1>2. ASSUME NEW t \in Tea, Salvar(k, t) PROVE ChainsOK' /\ Quiet
  <2>1. auth \in User /\ auth \in User \union {NoUser} /\ auth # NoUser /\ used' = used
        /\ Write(k, "tea", auth, t)
    BY <1>2 DEF Salvar, IdentityOK, ServiceOK, service
  <2>2. /\ chains' \in [Chain -> ChainState] /\ Others(k)
        /\ chains'[k].stage = "tea" /\ chains'[k].uid = auth /\ chains'[k].by = auth
        /\ ahead' \in [Chain -> SUBSET Chain]
    BY <2>1, WriteFacts
  <2> QED BY <2>1, <2>2, ChainMoves
<1>3. CASE TeaSaved(k) \/ QueuedWrite(k)
  BY <1>1, <1>3, ChainEnds DEF TeaSaved, QueuedWrite
<1> QED BY <1>1, <1>2, <1>3 DEF TeaStep

LEMMA ChainsNext ==
  ASSUME SessionInv, [Next]_vars
  PROVE  ChainsOK' /\ SavesWell
<1>1. Quiet => SavesWell
  BY DEF Quiet, SavesWell
<1>2. ASSUME NEW u \in User, Verify(u) PROVE ChainsOK' /\ SavesWell
  BY <1>1, <1>2, ChainRests DEF Verify, SessionInv
<1>3. CASE Relaunch
  <2>1. ASSUME NEW k \in Chain
        PROVE  /\ chains'[k] \in ChainState /\ chains'[k].stage \in {"idle", "write"}
               /\ chains'[k].stage # "idle" => chains'[k].uid # NoUser
    <3>1. CASE chains[k].stage \in {"save", "tea", "write"}
      <4> DEFINE r == chains[k]
      <4>1. r \in [stage : Stage, uid : User \union {NoUser}, tea : Tea \union {NoTea},
                   by : User \union {NoUser}]
            /\ r.uid # NoUser
        BY <3>1 DEF SessionInv, ChainsOK, ChainState
      <4>2. chains'[k] = [r EXCEPT !.stage = "write"]
        BY <1>3, <3>1 DEF Relaunch
      <4> HIDE DEF r
      <4> QED BY <4>1, <4>2 DEF ChainState, Stage
    <3>2. CASE chains[k].stage \notin {"save", "tea", "write"}
      BY <1>3, <3>2 DEF Relaunch, Idle, ChainState, Stage
    <3> QED BY <3>1, <3>2
  <2>2. chains' \in [Chain -> ChainState]
    <3>1. chains' = [k \in Chain |-> chains'[k]]
      BY <1>3 DEF Relaunch
    <3> QED BY <2>1, <3>1
  <2>3. ahead' \in [Chain -> SUBSET Chain]
    BY <1>3 DEF Relaunch
  <2> QED BY <1>1, <2>1, <2>2, <2>3 DEF ChainsOK, Quiet
<1>4. ASSUME NEW k \in Chain, LoginStep(k) \/ SignUpStep(k) \/ TeaStep(k)
      PROVE  ChainsOK' /\ SavesWell
  BY <1>4, LoginChains, SignUpChains, TeaChains
<1>5. CASE AuthReloads \/ SplashPasses \/ Navigate \/ CloseOops \/ Resend \/ SignOut \/ UNCHANGED vars
  BY <1>1, <1>5, ChainRests DEF AuthReloads, SplashPasses, Navigate, CloseOops, Resend, SignOut,
     vars, service, callbacks, SessionInv
<1> QED BY <1>2, <1>3, <1>4, <1>5 DEF Next

-----------------------------------------------------------------------------
(* The service and the identity *)

\* Accounts, mails and verifications are only added; a document is set to the
\* tea of a chain.
LEMMA ServiceNext ==
  ASSUME SessionInv, [Next]_vars
  PROVE  ServiceOK' /\ used \subseteq used' /\ verified \subseteq verified'
<1> USE DEF SessionInv, service
<1>1. ASSUME NEW u \in User, Verify(u) PROVE ServiceOK' /\ used \subseteq used' /\ verified \subseteq verified'
  BY <1>1 DEF Verify, ServiceOK
<1>2. CASE Resend
  BY <1>2 DEF Resend, ServiceOK, IdentityOK
<1>3. CASE AuthReloads \/ SplashPasses \/ Navigate \/ CloseOops \/ SignOut \/ Relaunch \/ UNCHANGED vars
  BY <1>3 DEF AuthReloads, SplashPasses, Navigate, CloseOops, SignOut, Relaunch, vars, ServiceOK
<1>4. ASSUME NEW k \in Chain, LoginStep(k) PROVE UNCHANGED service
  BY <1>4 DEF LoginStep, HandleSignIn, AuthSignsIn, SignInSucceeds, SignInFails, NameArrives, NameTraps
<1>5. ASSUME NEW k \in Chain, AuthCreates(k) \/ CreateFails(k)
      PROVE  ServiceOK' /\ used \subseteq used' /\ verified \subseteq verified'
  BY <1>5 DEF AuthCreates, CreateFails, ServiceOK
<1>6. ASSUME NEW k \in Chain, MailSent(k) PROVE ServiceOK' /\ used \subseteq used' /\ verified \subseteq verified'
  BY <1>6 DEF MailSent, ServiceOK
<1>7. ASSUME NEW k \in Chain, SaveSucceeds(k) \/ TeaSaved(k) \/ QueuedWrite(k)
      PROVE  ServiceOK' /\ used \subseteq used' /\ verified \subseteq verified'
  <2>1. chains[k].tea \in Tea \union {NoTea}
    BY <1>7, AwaitedUid DEF SaveSucceeds, TeaSaved, QueuedWrite, At, Under
  <2> QED BY <1>7, <2>1 DEF SaveSucceeds, TeaSaved, QueuedWrite, ServiceOK
<1>8. ASSUME NEW k \in Chain, DeleteSucceeds(k)
      PROVE  ServiceOK' /\ used \subseteq used' /\ verified \subseteq verified'
  BY <1>8 DEF DeleteSucceeds, ServiceOK
<1>9. ASSUME NEW k \in Chain, NEW u \in User, NEW t \in Tea, CreateNewButton(k, u, t)
      PROVE  UNCHANGED service
  BY <1>9 DEF CreateNewButton
<1>10. ASSUME NEW k \in Chain,
             \/ ProvidersAnswer(k) \/ CreateSucceeds(k) \/ AccountLoaded(k) \/ CommitSucceeds(k)
             \/ CommitFails(k) \/ MailSucceeds(k) \/ MailFails(k) \/ CloseUsed(k) \/ OkVerify(k)
             \/ OkUnverified(k) \/ CancelUnverified(k) \/ ReloadSucceeds(k) \/ FailsSilently(k)
      PROVE  UNCHANGED service
  BY <1>10 DEF ProvidersAnswer, CreateSucceeds, AccountLoaded, CommitSucceeds, CommitFails,
     MailSucceeds, MailFails, CloseUsed, OkVerify, OkUnverified, CancelUnverified, ReloadSucceeds,
     FailsSilently
<1>11. ASSUME NEW k \in Chain, NEW t \in Tea, Salvar(k, t) PROVE UNCHANGED service
  BY <1>11 DEF Salvar
<1>12. UNCHANGED service => ServiceOK' /\ used \subseteq used' /\ verified \subseteq verified'
  BY DEF ServiceOK
<1> QED BY <1>1, <1>2, <1>3, <1>4, <1>5, <1>6, <1>7, <1>8, <1>9, <1>10, <1>11, <1>12
        DEF Next, SignUpStep, TeaStep

\* Auth's account changes with its flag; UserManager's variable becomes the
\* account of a completion, which exists.
LEMMA IdentityNext ==
  ASSUME SessionInv, [Next]_vars
  PROVE  IdentityOK'
<1> USE DEF SessionInv, identity
<1>1. used \subseteq used' /\ verified \subseteq verified' /\ ServiceOK
  BY ServiceNext
<1>2. UNCHANGED identity => IdentityOK'
  BY <1>1 DEF IdentityOK
<1>3. ASSUME NEW u \in User, Verify(u) PROVE IdentityOK'
  BY <1>2, <1>3 DEF Verify
<1>4. CASE AuthReloads
  BY <1>1, <1>4 DEF AuthReloads, IdentityOK, service
<1>5. CASE SplashPasses \/ Navigate \/ CloseOops \/ Resend \/ UNCHANGED vars
  BY <1>2, <1>5 DEF SplashPasses, Navigate, CloseOops, Resend, vars
<1>6. CASE SignOut
  BY <1>1, <1>6 DEF SignOut, IdentityOK
<1>7. CASE Relaunch
  BY <1>1, <1>7 DEF Relaunch, IdentityOK, ServiceOK
<1>8. ASSUME NEW k \in Chain, AuthSignsIn(k) PROVE IdentityOK'
  <2>1. /\ auth' = chains[k].uid /\ chains[k].uid \in accounts
        /\ UNCHANGED <<currentUser, displayName>>
    BY <1>8 DEF AuthSignsIn
  <2>2. authVerified' \in BOOLEAN /\ (authVerified' => chains[k].uid \in verified)
    <3> DEFINE p == chains[k].uid \in verified
    <3>1. authVerified' = p
      BY <1>8 DEF AuthSignsIn
    <3>2. p \in BOOLEAN
      OBVIOUS
    <3> HIDE DEF p
    <3>3. authVerified' \in BOOLEAN /\ (authVerified' => p)
      BY <3>1, <3>2, FlagSet
    <3> QED BY <3>3 DEF p
  <2> QED BY <1>1, <2>1, <2>2 DEF IdentityOK, ServiceOK
<1>9. ASSUME NEW k \in Chain, NameArrives(k) PROVE IdentityOK'
  <2>1. chains[k].uid \in User
    BY <1>9, AwaitedUid DEF NameArrives, At, Under
  <2>2. username[chains[k].uid] \in Tea \union {NoTea}
    BY <2>1 DEF ServiceOK
  <2> QED BY <1>1, <1>9, <2>2 DEF NameArrives, IdentityOK
<1>10. ASSUME NEW k \in Chain, AuthCreates(k) PROVE IdentityOK'
  BY <1>1, <1>10 DEF AuthCreates, IdentityOK
<1>11. ASSUME NEW k \in Chain, DeleteSucceeds(k) PROVE IdentityOK'
  BY <1>1, <1>11 DEF DeleteSucceeds, IdentityOK
<1>12. ASSUME NEW k \in Chain, SignInSucceeds(k) \/ CreateSucceeds(k) PROVE IdentityOK'
  <2>1. chains[k].uid \in used
    BY <1>12 DEF SignInSucceeds, CreateSucceeds, At, Under, ChainsOK
  <2> QED BY <1>1, <1>12, <2>1 DEF SignInSucceeds, CreateSucceeds, IdentityOK
<1>13. ASSUME NEW k \in Chain, OkUnverified(k) \/ ReloadSucceeds(k) PROVE IdentityOK'
  <2>1. /\ prompt.tea \in Tea \union {NoTea}
        /\ ReloadSucceeds(k) => chains[k].tea \in Tea \union {NoTea}
    BY AwaitedUid DEF PlaceOK, ReloadSucceeds, At, Under
  <2>2. /\ UNCHANGED <<auth, authVerified, currentUser>>
        /\ \/ displayName' = displayName
           \/ OkUnverified(k) /\ displayName' = prompt.tea
           \/ ReloadSucceeds(k) /\ displayName' = chains[k].tea
    BY <1>13 DEF OkUnverified, ReloadSucceeds, SaveIfVerified
  <2> QED BY <1>1, <2>1, <2>2 DEF IdentityOK
<1>14. ASSUME NEW k \in Chain, AccountLoaded(k) PROVE IdentityOK'
  <2>1. authVerified' \in BOOLEAN /\ (authVerified' => auth \in verified)
    <3>1. authVerified' = IF auth = chains[k].uid THEN auth \in verified ELSE authVerified
      BY <1>14 DEF AccountLoaded
    <3>2. CASE auth # chains[k].uid
      BY <3>1, <3>2 DEF IdentityOK
    <3>3. CASE auth = chains[k].uid
      <4> DEFINE p == auth \in verified
      <4>1. authVerified' = p
        BY <3>1, <3>3
      <4>2. p \in BOOLEAN
        OBVIOUS
      <4> HIDE DEF p
      <4>3. authVerified' \in BOOLEAN /\ (authVerified' => p)
        BY <4>1, <4>2, FlagSet
      <4> QED BY <4>3 DEF p
    <3> QED BY <3>2, <3>3
  <2>2. UNCHANGED <<auth, currentUser, displayName>>
    BY <1>14 DEF AccountLoaded
  <2> QED BY <1>1, <2>1, <2>2 DEF IdentityOK
<1>15. ASSUME NEW k \in Chain, TeaSaved(k) PROVE IdentityOK'
  <2>1. chains[k].tea \in Tea \union {NoTea}
    BY <1>15, AwaitedUid DEF TeaSaved, At, Under
  <2> QED BY <1>1, <1>15, <2>1 DEF TeaSaved, IdentityOK
<1>16. ASSUME NEW k \in Chain,
              \/ SignInFails(k) \/ NameTraps(k) \/ ProvidersAnswer(k) \/ CreateFails(k)
              \/ CommitSucceeds(k) \/ CommitFails(k) \/ MailSent(k) \/ MailSucceeds(k) \/ MailFails(k)
              \/ CloseUsed(k) \/ OkVerify(k) \/ CancelUnverified(k) \/ SaveSucceeds(k)
              \/ FailsSilently(k) \/ QueuedWrite(k)
       PROVE  UNCHANGED identity
  BY <1>16 DEF SignInFails, NameTraps, ProvidersAnswer, CreateFails, GiveUp, CommitSucceeds,
     CommitFails, MailSent, MailSucceeds, MailFails, CloseUsed, OkVerify, CancelUnverified,
     SaveSucceeds, FailsSilently, QueuedWrite
<1>17. ASSUME NEW k \in Chain, NEW u \in User, HandleSignIn(k, u) PROVE UNCHANGED identity
  BY <1>17 DEF HandleSignIn
<1>18. ASSUME NEW k \in Chain, NEW u \in User, NEW t \in Tea, CreateNewButton(k, u, t)
       PROVE  UNCHANGED identity
  BY <1>18 DEF CreateNewButton
<1>19. ASSUME NEW k \in Chain, NEW t \in Tea, Salvar(k, t) PROVE UNCHANGED identity
  BY <1>19 DEF Salvar
<1> QED BY <1>2, <1>3, <1>4, <1>5, <1>6, <1>7, <1>8, <1>9, <1>10, <1>11, <1>12, <1>13, <1>14, <1>15,
           <1>16, <1>17, <1>18, <1>19 DEF Next, LoginStep, SignUpStep, TeaStep

-----------------------------------------------------------------------------
(* The two users in memory.  Every change of Auth's account is followed by a *)
(* completion that waits behind those that wait already, so that the last    *)
(* one of the queue leaves UserManager's variable as Auth's.                 *)

\* A chain moves that tells the app of no change, before or after.
LEMMA AgreeMoves ==
  ASSUME SessionInv, UNCHANGED <<auth, currentUser>>, NEW k \in Chain, Others(k), Turned(k),
         ~Told(k), chains'[k].stage \notin {"signedIn", "created"}
  PROVE  AgreeOK'
<1>1. \A j \in Chain : Told(j)' <=> Told(j)
  BY DEF Others, Told
<1>2. \A j \in Chain : LastTold(j) => LastTold(j)'
  <2> SUFFICES ASSUME NEW j \in Chain, LastTold(j) PROVE LastTold(j)'
    OBVIOUS
  <2>1. j # k /\ chains'[j] = chains[j] /\ ahead'[j] = ahead[j] \ {k}
    BY DEF LastTold, Others, Turned
  <2> QED BY <1>1, <2>1 DEF LastTold
<1> QED BY <1>1, <1>2 DEF SessionInv, AgreeOK

\* Auth's account changes, and the completion joins the queue as its last.
LEMMA AgreeChanges ==
  ASSUME SessionInv, NEW k \in Chain, chains'[k].stage \in {"signedIn", "created"},
         chains'[k].uid = auth', Others(k), ahead'[k] = OnMain \ {k}
  PROVE  AgreeOK'
<1>1. Told(k)' /\ \A j \in Chain \ {k} : Told(j)' => j \in OnMain
  BY DEF Told, Others, OnMain
<1>2. LastTold(k)'
  BY <1>1 DEF LastTold
<1> QED BY <1>2 DEF AgreeOK

\* The app is told: by the last completion, or before it.
LEMMA AgreeTold ==
  ASSUME SessionInv, NEW k \in Chain, Told(k), ahead[k] = {}, auth' = auth,
         currentUser' = chains[k].uid, chains'[k].stage \notin {"signedIn", "created"},
         Others(k), Turned(k)
  PROVE  AgreeOK'
<1> SUFFICES ASSUME auth # NoUser PROVE AgreeOK'
  BY DEF AgreeOK
<1>1. PICK j \in Chain : LastTold(j)
  BY DEF SessionInv, AgreeOK
<1>2. ~Told(k)' /\ \A i \in Chain : i # k => (Told(i)' <=> Told(i))
  BY DEF Told, Others
<1>3. CASE j = k
  BY <1>1, <1>2, <1>3 DEF LastTold, AgreeOK
<1>4. CASE j # k
  <2>1. chains'[j] = chains[j] /\ ahead'[j] = ahead[j] \ {k}
    BY <1>4 DEF Others, Turned
  <2>2. LastTold(j)'
    BY <1>1, <1>2, <1>4, <2>1 DEF LastTold
  <2> QED BY <2>2 DEF AgreeOK
<1> QED BY <1>3, <1>4

LEMMA AgreeLogin ==
  ASSUME SessionInv, NEW k \in Chain, LoginStep(k)
  PROVE  AgreeOK'
<1>1. ChainsOK /\ {"signIn", "signedIn", "name"} \subseteq Stage
  BY DEF SessionInv, Stage
<1>2. ASSUME NEW u \in User, HandleSignIn(k, u) PROVE AgreeOK'
  <2>1. /\ Others(k) /\ Turned(k) /\ chains'[k].stage = "signIn"
    BY <1>1, <1>2, StartFacts DEF HandleSignIn
  <2> QED BY <1>2, <2>1, AgreeMoves DEF HandleSignIn, Free, Told, identity
<1>3. CASE AuthSignsIn(k)
  <2>1. /\ Others(k) /\ chains'[k].stage = "signedIn" /\ chains'[k].uid = chains[k].uid
        /\ ahead'[k] = OnMain \ {k}
    BY <1>1, <1>3, GoFacts DEF AuthSignsIn
  <2> QED BY <1>3, <2>1, AgreeChanges DEF AuthSignsIn
<1>4. CASE SignInSucceeds(k)
  <2>1. Others(k) /\ Turned(k) /\ chains'[k].stage = "name"
    BY <1>1, <1>4, GoFacts DEF SignInSucceeds
  <2> QED BY <1>4, <2>1, AgreeTold DEF SignInSucceeds, At, Under, Told
<1>5. CASE SignInFails(k) \/ NameArrives(k)
  <2>1. /\ End(k) /\ UNCHANGED <<auth, currentUser>> /\ ~Told(k)
    BY <1>5 DEF SignInFails, NameArrives, At, Under, Told, identity
  <2> QED BY <1>1, <2>1, EndFacts, AgreeMoves
<1>6. CASE NameTraps(k)
  BY <1>6 DEF NameTraps, SessionInv, AgreeOK, LastTold, Told, callbacks, identity
<1> QED BY <1>2, <1>3, <1>4, <1>5, <1>6 DEF LoginStep

LEMMA AgreeSignUp ==
  ASSUME SessionInv, NEW k \in Chain, SignUpStep(k)
  PROVE  AgreeOK'
<1>1. ChainsOK /\ (auth # NoUser => auth \in User) /\ auth \in User \union {NoUser}
      /\ NoTea \in Tea \union {NoTea}
      /\ {"providers", "create", "created", "commit", "set", "mail", "reload", "loaded", "refresh"}
           \subseteq Stage
  BY DEF SessionInv, Stage, IdentityOK, ServiceOK
<1>2. UNCHANGED <<callbacks, auth, currentUser>> => AgreeOK'
  BY DEF SessionInv, AgreeOK, LastTold, Told, callbacks
<1>3. ASSUME NEW u \in User, NEW t \in Tea, CreateNewButton(k, u, t) PROVE AgreeOK'
  <2>1. /\ Others(k) /\ Turned(k) /\ chains'[k].stage = "providers"
    BY <1>1, <1>3, StartFacts DEF CreateNewButton
  <2> QED BY <1>3, <2>1, AgreeMoves DEF CreateNewButton, Free, Told, identity
<1>4. CASE AuthCreates(k)
  <2>1. chains[k].tea \in Tea \union {NoTea}
    BY <1>4, AwaitedUid DEF AuthCreates, Under
  <2>2. PICK u \in User : auth' = u /\ Start(k, "created", u, chains[k].tea)
    BY <1>4 DEF AuthCreates
  <2>3. /\ Others(k) /\ chains'[k].stage = "created" /\ chains'[k].uid = u
        /\ ahead'[k] = OnMain \ {k}
    BY <1>1, <2>1, <2>2, StartFacts
  <2> QED BY <2>2, <2>3, AgreeChanges
<1>5. CASE CreateSucceeds(k)
  <2>1. chains[k].tea \in Tea \union {NoTea}
    BY <1>5, AwaitedUid DEF CreateSucceeds, At, Under
  <2>2. Others(k) /\ Turned(k) /\ chains'[k].stage \in {"idle", "commit"}
    BY <1>1, <1>5, <2>1, EndFacts, StartFacts DEF CreateSucceeds
  <2> QED BY <1>5, <2>2, AgreeTold DEF CreateSucceeds, At, Under, Told
<1>6. CASE CreateFails(k) \/ CommitFails(k) \/ CloseUsed(k) \/ CancelUnverified(k)
  <2>1. DeleteAuth(k) /\ UNCHANGED <<auth, currentUser>> /\ ~Told(k)
    BY <1>6 DEF CreateFails, CommitFails, GiveUp, CloseUsed, CancelUnverified, At, Under, Free, Told,
       identity
  <2>2. Others(k) /\ Turned(k) /\ chains'[k].stage \in {"idle", "delete"}
    BY <2>1, DeleteFacts
  <2> QED BY <2>1, <2>2, AgreeMoves
<1>7. CASE ProvidersAnswer(k) \/ AccountLoaded(k)
  <2>1. /\ End(k) \/ Go(k, "create") \/ Go(k, "set") \/ Go(k, "loaded")
        /\ UNCHANGED <<auth, currentUser>> /\ ~Told(k)
    BY <1>7 DEF ProvidersAnswer, AccountLoaded, At, Under, Told, identity
  <2>2. Others(k) /\ Turned(k) /\ chains'[k].stage \in {"idle", "create", "set", "loaded"}
    BY <1>1, <2>1, EndFacts, GoFacts
  <2> QED BY <2>1, <2>2, AgreeMoves
<1>8. CASE CommitSucceeds(k)
  <2>1. chains[k].tea \in Tea \union {NoTea} /\ UNCHANGED <<auth, currentUser>> /\ ~Told(k)
    BY <1>8, AwaitedUid DEF CommitSucceeds, At, Under, Told, identity
  <2>2. Others(k) /\ Turned(k) /\ chains'[k].stage \in {"idle", "mail"}
    BY <1>1, <1>8, <2>1, EndFacts, StartFacts DEF CommitSucceeds
  <2> QED BY <2>1, <2>2, AgreeMoves
<1>9. CASE MailSucceeds(k) \/ MailFails(k) \/ SaveSucceeds(k) \/ FailsSilently(k)
  <2>1. /\ End(k) /\ UNCHANGED <<auth, currentUser>> /\ ~Told(k)
    BY <1>9 DEF MailSucceeds, MailFails, SaveSucceeds, FailsSilently, At, Under, Told, identity
  <2> QED BY <1>1, <2>1, EndFacts, AgreeMoves
<1>10. CASE DeleteSucceeds(k)
  <2>1. /\ End(k) /\ currentUser' = currentUser /\ auth' \in {auth, NoUser} /\ ~Told(k)
    BY <1>10 DEF DeleteSucceeds, Under, Told
  <2>2. auth' = NoUser => AgreeOK'
    BY DEF AgreeOK
  <2> QED BY <1>1, <2>1, <2>2, EndFacts, AgreeMoves
<1>11. CASE MailSent(k)
  BY <1>2, <1>11 DEF MailSent, identity
<1>12. CASE OkVerify(k) \/ OkUnverified(k) \/ ReloadSucceeds(k)
  <2>1. /\ UNCHANGED <<auth, currentUser>> /\ ~Told(k) /\ prompt.tea \in Tea \union {NoTea}
        /\ ReloadSucceeds(k) => chains[k].tea \in Tea \union {NoTea}
    BY <1>12, AwaitedUid DEF OkVerify, OkUnverified, ReloadSucceeds, At, Under, Free, Told, identity,
       SessionInv, PlaceOK
  <2>2. \/ UNCHANGED callbacks
        \/ Start(k, "reload", auth, prompt.tea) \/ Start(k, "refresh", auth, NoTea)
        \/ SaveIfVerified(k, prompt.tea) \/ (ReloadSucceeds(k) /\ SaveIfVerified(k, chains[k].tea))
    BY <1>12 DEF OkVerify, OkUnverified, ReloadSucceeds
  <2>3. \/ UNCHANGED callbacks
        \/ Others(k) /\ Turned(k) /\ chains'[k].stage \in {"idle", "reload", "refresh", "save"}
    BY <1>1, <2>1, <2>2, StartFacts, SaveFacts
  <2> QED BY <1>2, <2>1, <2>3, AgreeMoves
<1> QED BY <1>3, <1>4, <1>5, <1>6, <1>7, <1>8, <1>9, <1>10, <1>11, <1>12 DEF SignUpStep

LEMMA AgreeTea ==
  ASSUME SessionInv, NEW k \in Chain, TeaStep(k)
  PROVE  AgreeOK'
<1>1. ChainsOK /\ auth \in User \union {NoUser} /\ "tea" \in Stage
  BY DEF SessionInv, Stage, IdentityOK, ServiceOK
<1>2. ASSUME NEW t \in Tea, Salvar(k, t) PROVE AgreeOK'
  <2>1. Others(k) /\ Turned(k) /\ chains'[k].stage = "tea"
    BY <1>1, <1>2, WriteFacts DEF Salvar
  <2> QED BY <1>2, <2>1, AgreeMoves DEF Salvar, Free, Told, identity
<1>3. CASE TeaSaved(k) \/ QueuedWrite(k)
  <2>1. /\ End(k) /\ UNCHANGED <<auth, currentUser>> /\ ~Told(k)
    BY <1>3 DEF TeaSaved, QueuedWrite, At, Under, Told, identity
  <2> QED BY <1>1, <2>1, EndFacts, AgreeMoves
<1> QED BY <1>2, <1>3 DEF TeaStep

LEMMA AgreeNext ==
  ASSUME SessionInv, [Next]_vars
  PROVE  AgreeOK'
<1>1. UNCHANGED <<callbacks, auth, currentUser>> => AgreeOK'
  BY DEF SessionInv, AgreeOK, LastTold, Told, callbacks
<1>2. CASE AuthReloads \/ SplashPasses \/ Navigate \/ CloseOops \/ Resend \/ UNCHANGED vars
  BY <1>1, <1>2 DEF AuthReloads, SplashPasses, Navigate, CloseOops, Resend, vars, identity
<1>3. ASSUME NEW u \in User, Verify(u) PROVE AgreeOK'
  BY <1>1, <1>3 DEF Verify, identity
<1>4. CASE SignOut
  BY <1>4 DEF SignOut, AgreeOK
<1>5. CASE Relaunch
  <2>1. \A k \in Chain : ~Told(k)'
    BY <1>5 DEF Relaunch, Told, Idle
  <2> QED BY <1>5, <2>1 DEF Relaunch, AgreeOK
<1>6. ASSUME NEW k \in Chain, LoginStep(k) \/ SignUpStep(k) \/ TeaStep(k) PROVE AgreeOK'
  BY <1>6, AgreeLogin, AgreeSignUp, AgreeTea
<1> QED BY <1>2, <1>3, <1>4, <1>5, <1>6 DEF Next

-----------------------------------------------------------------------------
(* The screens, and the whole *)

LEMMA PlaceNext ==
  ASSUME SessionInv, [Next]_vars
  PROVE  PlaceOK'
<1> USE DEF SessionInv, place, history
<1>1. UNCHANGED <<place, prompt, crashed, history>> => PlaceOK'
  BY DEF PlaceOK
<1>2. NoAlert \in [kind : Alert, tea : Tea \union {NoTea}]
  BY DEF NoAlert, Alert
<1>3. ASSUME NEW v \in View, GoTo(v) PROVE view' \in View /\ fore' \subseteq Chain
  BY <1>3 DEF GoTo, PlaceOK
<1>4. ASSUME NEW k \in Chain, Segue(k) PROVE view' \in View /\ fore' \subseteq Chain
  <2>1. (IF Shows(k) THEN "tabs" ELSE view) \in View
    BY DEF PlaceOK, View
  <2> QED BY <1>3, <1>4, <2>1 DEF Segue
<1>5. ASSUME NEW k \in Chain, NEW kind \in Alert, NEW tea \in Tea \union {NoTea}, Present(k, kind, tea)
      PROVE  prompt' \in [kind : Alert, tea : Tea \union {NoTea}]
  BY <1>5 DEF Present, PlaceOK
<1>6. ASSUME NEW k \in Chain, Fore(k) PROVE view' \in View /\ fore' \subseteq Chain
  BY <1>6 DEF Fore, PlaceOK
<1>7. {"main", "login", "signup", "tabs"} \subseteq View /\ "oops" \in Alert /\ "used" \in Alert
      /\ "verify" \in Alert /\ "unverified" \in Alert
  BY DEF View, Alert
<1>8. CASE SplashPasses
  BY <1>3, <1>7, <1>8 DEF SplashPasses, PlaceOK
<1>9. CASE Navigate
  BY <1>3, <1>7, <1>9 DEF Navigate, PlaceOK
<1>10. CASE CloseOops
  <2>1. PICK v \in {view, "main"} : GoTo(v)
    BY <1>10 DEF CloseOops
  <2>2. v \in View
    BY <1>7 DEF PlaceOK
  <2> QED BY <1>2, <1>3, <1>10, <2>1, <2>2 DEF CloseOops, PlaceOK
<1>11. CASE SignOut
  BY <1>3, <1>7, <1>11 DEF SignOut, PlaceOK
<1>12. CASE Relaunch
  BY <1>2, <1>12 DEF Relaunch, PlaceOK, View
<1>13. CASE Resend
  BY <1>2, <1>13 DEF Resend, PlaceOK
<1>14. CASE AuthReloads \/ UNCHANGED vars
  BY <1>1, <1>14 DEF AuthReloads, vars
<1>15. ASSUME NEW u \in User, Verify(u) PROVE PlaceOK'
  BY <1>1, <1>15 DEF Verify
<1>16. ASSUME NEW k \in Chain, NEW u \in User, HandleSignIn(k, u) PROVE PlaceOK'
  BY <1>6, <1>16 DEF HandleSignIn, PlaceOK
<1>17. ASSUME NEW k \in Chain, NEW u \in User, NEW t \in Tea, CreateNewButton(k, u, t) PROVE PlaceOK'
  BY <1>6, <1>17 DEF CreateNewButton, PlaceOK
<1>18. ASSUME NEW k \in Chain, SignInSucceeds(k) \/ SaveSucceeds(k) PROVE PlaceOK'
  BY <1>4, <1>18 DEF SignInSucceeds, SaveSucceeds, PlaceOK
<1>19. ASSUME NEW k \in Chain, SignInFails(k) \/ MailFails(k) PROVE PlaceOK'
  BY <1>5, <1>7, <1>19 DEF SignInFails, MailFails, PlaceOK
<1>20. ASSUME NEW k \in Chain,
              \/ AuthSignsIn(k) \/ NameArrives(k) \/ NameTraps(k) \/ AuthCreates(k) \/ CreateSucceeds(k)
              \/ DeleteSucceeds(k)
       PROVE  PlaceOK'
  BY <1>20 DEF AuthSignsIn, NameArrives, NameTraps, AuthCreates, CreateSucceeds, DeleteSucceeds, PlaceOK
<1>21. ASSUME NEW k \in Chain, ProvidersAnswer(k) PROVE PlaceOK'
  BY <1>5, <1>7, <1>21 DEF ProvidersAnswer, PlaceOK
<1>22. ASSUME NEW k \in Chain, CreateFails(k) \/ CommitFails(k) PROVE PlaceOK'
  BY <1>5, <1>7, <1>22 DEF CreateFails, CommitFails, GiveUp, PlaceOK
<1>23. ASSUME NEW k \in Chain, MailSucceeds(k) PROVE PlaceOK'
  <2>1. chains[k].tea \in Tea \union {NoTea}
    BY <1>23, AwaitedUid DEF MailSucceeds, At, Under
  <2> QED BY <1>5, <1>7, <1>23, <2>1 DEF MailSucceeds, PlaceOK
<1>24. ASSUME NEW k \in Chain, CloseUsed(k) PROVE PlaceOK'
  <2>1. PICK v \in {view, "main"} : GoTo(v)
    BY <1>24 DEF CloseUsed
  <2>2. v \in View
    BY <1>7 DEF PlaceOK
  <2> QED BY <1>2, <1>3, <1>24, <2>1, <2>2 DEF CloseUsed, PlaceOK
<1>25. ASSUME NEW k \in Chain, OkVerify(k) PROVE PlaceOK'
  BY <1>2, <1>6, <1>25 DEF OkVerify, PlaceOK
<1>26. ASSUME NEW k \in Chain, OkUnverified(k) PROVE PlaceOK'
  BY <1>2, <1>6, <1>26 DEF OkUnverified, PlaceOK
<1>27. ASSUME NEW k \in Chain, CancelUnverified(k) PROVE PlaceOK'
  BY <1>2, <1>3, <1>7, <1>27 DEF CancelUnverified, PlaceOK
<1>28. ASSUME NEW k \in Chain, ReloadSucceeds(k) PROVE PlaceOK'
  <2>1. chains[k].tea \in Tea \union {NoTea}
    BY <1>28, AwaitedUid DEF ReloadSucceeds, At, Under
  <2>2. prompt' \in [kind : Alert, tea : Tea \union {NoTea}]
    BY <1>5, <1>7, <1>28, <2>1 DEF ReloadSucceeds, PlaceOK
  <2> QED BY <1>28, <2>2 DEF ReloadSucceeds, PlaceOK
<1>29. ASSUME NEW k \in Chain,
              \/ AccountLoaded(k) \/ CommitSucceeds(k) \/ MailSent(k) \/ FailsSilently(k) \/ TeaSaved(k)
              \/ QueuedWrite(k)
       PROVE  PlaceOK'
  BY <1>1, <1>29 DEF AccountLoaded, CommitSucceeds, MailSent, FailsSilently, TeaSaved, QueuedWrite
<1>30. ASSUME NEW k \in Chain, NEW t \in Tea, Salvar(k, t) PROVE PlaceOK'
  BY <1>1, <1>30 DEF Salvar
<1> QED BY <1>8, <1>9, <1>10, <1>11, <1>12, <1>13, <1>14, <1>15, <1>16, <1>17, <1>18, <1>19, <1>20,
           <1>21, <1>22, <1>23, <1>24, <1>25, <1>26, <1>27, <1>28, <1>29, <1>30
        DEF Next, LoginStep, SignUpStep, TeaStep

LEMMA SessionInit == Init => SessionInv
<1> SUFFICES ASSUME Init PROVE SessionInv
  OBVIOUS
<1>1. ServiceOK
  BY SessionAssumption DEF Init, ServiceOK
<1>2. IdentityOK
  BY DEF Init, IdentityOK
<1>3. PlaceOK
  BY DEF Init, PlaceOK, View, Alert, NoAlert
<1>4. ChainsOK
  <2>1. Idle \in ChainState /\ Idle.stage = "idle"
    BY DEF Idle, ChainState, Stage
  <2>2. chains = [k \in Chain |-> Idle] /\ ahead = [k \in Chain |-> {}]
    BY DEF Init
  <2> QED BY <2>1, <2>2 DEF ChainsOK
<1>5. AgreeOK
  BY DEF Init, AgreeOK
<1> QED BY <1>1, <1>2, <1>3, <1>4, <1>5 DEF SessionInv

LEMMA SessionInvariant == Spec => []SessionInv
<1>1. SessionInv /\ [Next]_vars => SessionInv'
  BY ServiceNext, IdentityNext, PlaceNext, ChainsNext, AgreeNext DEF SessionInv
<1> QED BY <1>1, SessionInit, PTL DEF Spec

\* Every variable of Session keeps its type, and a callback is awaited for some
\* account.
THEOREM TypeCorrect == Spec => []TypeOK
<1>1. SessionInv => TypeOK
  <2> SUFFICES ASSUME SessionInv PROVE TypeOK
    OBVIOUS
  <2>1. {auth, currentUser} \subseteq User \union {NoUser}
    BY DEF SessionInv, ServiceOK, IdentityOK
  <2> QED BY <2>1 DEF SessionInv, ServiceOK, IdentityOK, PlaceOK, ChainsOK, ChainState, TypeOK
<1> QED BY <1>1, SessionInvariant, PTL

\* What ties the two users in memory together while Auth changes its account on
\* its work queue and the app is told on the main queue later: somebody who is
\* signed in is UserManager's user, or the account of a completion that waits,
\* with every other one that brings a change ahead of it, so that it has the
\* last word.  And the cached flag says of no unverified account that it was
\* verified.
THEOREM MemoryAgrees ==
  Spec => [](/\ auth # NoUser =>
                  \/ currentUser = auth /\ \A k \in Chain : ~Told(k)
                  \/ \E k \in Chain :
                       /\ Told(k) /\ chains[k].uid = auth
                       /\ \A j \in Chain \ {k} : Told(j) => j \in ahead[k]
             /\ authVerified => auth \in verified)
<1>1. SessionInv =>
        /\ auth # NoUser =>
             \/ currentUser = auth /\ \A k \in Chain : ~Told(k)
             \/ \E k \in Chain :
                  /\ Told(k) /\ chains[k].uid = auth
                  /\ \A j \in Chain \ {k} : Told(j) => j \in ahead[k]
        /\ authVerified => auth \in verified
  BY DEF SessionInv, IdentityOK, AgreeOK, LastTold
<1> QED BY <1>1, SessionInvariant, PTL

\* handleSignUp saves a profile only while the account that is signed in is
\* verified, however stale the flag that it looks at might be; and the document
\* it writes, UserManager's user's, is that account's unless Auth has changed its
\* account and the app is yet to be told.
THEOREM SavesVerifiedAlways == Spec => SavesVerified
<1>1. SessionInv /\ [Next]_vars => SavesWell
  BY ChainsNext
<1>2. SavesWell =>
        \A k \in Chain :
          chains'[k].stage = "save" /\ chains[k].stage # "save" =>
            /\ auth \in verified
            /\ chains'[k].uid = auth \/ \E j \in Chain : Told(j)
  BY DEF SavesWell
<1> QED BY <1>1, <1>2, SessionInvariant, PTL DEF Spec, SavesVerified

-----------------------------------------------------------------------------
(* Names and deletions.  While no account changed under a callback (~mixed), *)
(* at most one sign-up is beyond the creation of its account, and it is hot  *)
(* as long as it may still save: the account has no profile then, and the    *)
(* tabs are not on show.  While no profile was saved off its screen or       *)
(* beside another chain (~abandoned), one who has a profile is on the tabs,  *)
(* or the completion of his sign-in waits to bring him there.                *)

SignUp == {"providers", "create", "created", "commit", "set", "mail", "reload", "loaded",
           "refresh", "save"}
Named == {"created", "commit", "set", "mail"}
Asked == {"reload", "loaded", "refresh", "save"}
Flow(k) == chains[k].stage \in Named \union Asked
Asking == prompt.kind \in {"verify", "unverified"}
Naming == \E k \in Chain : chains[k].stage \in {"signedIn", "name"}
Hot ==
  \/ Asking
  \/ \E k \in Chain : \/ chains[k].stage \in Asked
                      \/ chains[k].stage \in Named /\ k \in fore
Home == view \in {"tabs", "splash"}
Profiled == auth # NoUser /\ username[auth] # NoTea
Entering == \E k \in Chain : chains[k].stage = "signedIn" /\ chains[k].uid = auth

\* Who was never created has no profile, and no write of a profile is under way.
FreshOK ==
  /\ \A u \in User \ used : username[u] = NoTea
  /\ \A k \in Chain : chains[k].stage \in {"save", "tea", "write"} => chains[k].uid \in used

\* A chain that may present something, or an alert, is that of the login or of
\* the sign-up, whichever is on top.
ScreenOK ==
  /\ fore # {} => view \in {"login", "signup"}
  /\ prompt # NoAlert => view \in {"login", "signup"}
  /\ Asking => view = "signup"
  /\ \A k \in fore : chains[k].stage \in SignUp => view = "signup"

FlowOK ==
  ~mixed =>
    /\ \A j, k \in Chain : Flow(j) /\ Flow(k) => j = k
    /\ \A k \in Chain : Flow(k) => ~Asking /\ ~Naming
    /\ Asking => ~Naming
    /\ \A k \in Chain : /\ chains[k].stage # "write"
                        /\ chains[k].stage \in {"signedIn", "name"} => chains[k].uid = auth
                        /\ chains[k].stage = "tea" => view = "tabs"
                        /\ chains[k].stage = "save" => displayName = chains[k].tea
    /\ Hot => ~Home /\ ~Profiled
    /\ Profiled => displayName = username[auth] \/ Naming

\* While a completion that tells of a change waits, whatever else is awaited
\* waits for it, and no alert is on show.
WaitOK ==
  ~mixed => \A j \in Chain : Told(j) =>
    prompt = NoAlert /\ \A k \in Chain \ {j} : chains[k].stage = "idle" \/ j \in ahead[k]

AwayOK ==
  ~abandoned =>
    /\ Profiled => Home \/ Entering
    /\ \A k \in Chain : chains[k].stage \in {"tea", "write"} /\ chains[k].uid = auth => Home \/ Entering
    /\ ~mixed /\ Home => \A k \in Chain : chains[k].stage \notin SignUp

NamesInv == SessionInv /\ FreshOK /\ ScreenOK /\ FlowOK /\ WaitOK /\ AwayOK

LEMMA NamesFacts ==
  ASSUME SessionInv
  PROVE  /\ ChainsOK /\ fore \subseteq Chain /\ NoAlert.kind = "none" /\ NoTea \in Tea \union {NoTea}
         /\ auth \in used \union {NoUser} /\ auth \in User \union {NoUser}
         /\ currentUser \in used \union {NoUser} /\ prompt.tea \in Tea \union {NoTea}
         /\ mixed \in BOOLEAN /\ abandoned \in BOOLEAN
BY DEF SessionInv, PlaceOK, IdentityOK, ServiceOK, NoAlert

\* What most steps do, and no more: a chain ends, or begins a call that is not
\* the sign-up's beyond its creation; an alert is closed, or one that asks for
\* nothing is shown; a screen is left.
Calm ==
  /\ UNCHANGED <<username, auth, displayName, mixed, abandoned>> /\ used \subseteq used'
  /\ \A k \in Chain :
       \/ chains'[k] = chains[k]
       \/ chains[k].stage \notin {"signedIn", "name"} /\ chains'[k].stage \in {"idle", "signIn", "delete"}
       \/ chains[k].stage = "idle" /\ chains'[k].stage = "providers" /\ view = "signup"
       \/ chains[k].stage = "providers" /\ chains'[k].stage = "create"
  /\ \/ prompt' \in {prompt, NoAlert}
     \/ /\ prompt = NoAlert /\ prompt'.kind \in {"oops", "used"}
        /\ fore # {} /\ view' = view /\ fore' = fore
  /\ \/ /\ view' = view /\ fore \subseteq fore' /\ (fore' = fore \/ view \in {"login", "signup"})
        /\ \A k \in fore' \ fore :
              chains'[k].stage = "signIn" \/ (chains'[k].stage = "providers" /\ view = "signup")
     \/ /\ fore' = {} /\ prompt' = NoAlert
        /\ \/ ~Home /\ ~Home'
           \/ view = "splash" /\ view' = "tabs"
           \/ view = "splash" /\ view' = "main" /\ auth = NoUser

LEMMA CalmChain ==
  ASSUME SessionInv, NEW k \in Chain, Others(k),
         \/ chains[k].stage \notin {"signedIn", "name"} /\ chains'[k].stage \in {"idle", "signIn", "delete"}
         \/ chains[k].stage = "idle" /\ chains'[k].stage = "providers" /\ view = "signup"
         \/ chains[k].stage = "providers" /\ chains'[k].stage = "create"
  PROVE  \A j \in Chain :
           \/ chains'[j] = chains[j]
           \/ chains[j].stage \notin {"signedIn", "name"} /\ chains'[j].stage \in {"idle", "signIn", "delete"}
           \/ chains[j].stage = "idle" /\ chains'[j].stage = "providers" /\ view = "signup"
           \/ chains[j].stage = "providers" /\ chains'[j].stage = "create"
BY DEF Others

\* The screen, the alert or the flag changes, and no chain.
LEMMA CalmScreens ==
  ASSUME SessionInv, ScreenOK, NEW u,
         \/ AuthReloads \/ SplashPasses \/ Navigate \/ CloseOops \/ Resend \/ Verify(u)
         \/ UNCHANGED vars
  PROVE  Calm
<1> USE DEF service, identity, place, history, callbacks
<1>1. CASE AuthReloads \/ Resend \/ Verify(u) \/ UNCHANGED vars
  BY <1>1 DEF AuthReloads, Resend, Verify, vars, Calm
<1>2. CASE SplashPasses
  BY <1>2 DEF SplashPasses, Touchable, GoTo, Calm
<1>3. CASE Navigate
  BY <1>3 DEF Navigate, Touchable, GoTo, Calm, Home
<1>4. CASE CloseOops
  <2>1. prompt # NoAlert /\ ~Home
    BY <1>4 DEF CloseOops, Pressed, NoAlert, ScreenOK, Home
  <2>2. PICK v \in {view, "main"} : GoTo(v)
    BY <1>4 DEF CloseOops
  <2>3. prompt' = NoAlert /\ UNCHANGED <<username, auth, displayName, mixed, abandoned, used, chains>>
    BY <1>4 DEF CloseOops
  <2>4. CASE v = view
    BY <2>2, <2>3, <2>4 DEF GoTo, Calm
  <2>5. CASE v # view
    BY <2>1, <2>2, <2>3, <2>5 DEF GoTo, Calm, Home
  <2> QED BY <2>2, <2>4, <2>5
<1> QED BY <1>1, <1>2, <1>3, <1>4

\* A chain ends, with or without an alert.
LEMMA CalmEnds ==
  ASSUME SessionInv, NEW k \in Chain,
         \/ SignInFails(k) \/ NameTraps(k) \/ MailSent(k) \/ MailFails(k) \/ FailsSilently(k)
         \/ ProvidersAnswer(k)
  PROVE  Calm
<1> USE DEF service, identity, place, history, callbacks
<1>1. ChainsOK /\ "create" \in Stage
  BY NamesFacts DEF Stage
<1>2. CASE NameTraps(k) \/ MailSent(k)
  BY <1>2 DEF NameTraps, MailSent, Calm
<1>3. CASE FailsSilently(k)
  <2>1. /\ End(k) /\ chains[k].stage \notin {"signedIn", "name"}
        /\ UNCHANGED <<username, auth, displayName, mixed, abandoned, used, place, prompt>>
    BY <1>3 DEF FailsSilently
  <2>2. Others(k) /\ chains'[k].stage = "idle"
    BY <1>1, <2>1, EndFacts
  <2> QED BY <2>1, <2>2, CalmChain DEF Calm
<1>4. CASE SignInFails(k) \/ MailFails(k) \/ ProvidersAnswer(k)
  <2>1. /\ UNCHANGED <<username, auth, displayName, mixed, abandoned, used, place>>
        /\ chains[k].stage \in {"signIn", "mail", "providers"}
    BY <1>4 DEF SignInFails, MailFails, ProvidersAnswer, At, Under
  <2>2. \/ prompt' = prompt
        \/ prompt = NoAlert /\ prompt'.kind \in {"oops", "used"} /\ fore # {}
    BY <1>4 DEF SignInFails, MailFails, ProvidersAnswer, Present, Shows
  <2>3. /\ Others(k)
        /\ chains'[k].stage = "idle" \/ (chains[k].stage = "providers" /\ chains'[k].stage = "create")
    BY <1>1, <1>4, EndFacts, GoFacts DEF SignInFails, MailFails, ProvidersAnswer, At, Under
  <2>4. \A j \in Chain :
           \/ chains'[j] = chains[j]
           \/ chains[j].stage \notin {"signedIn", "name"} /\ chains'[j].stage \in {"idle", "signIn", "delete"}
           \/ chains[j].stage = "idle" /\ chains'[j].stage = "providers" /\ view = "signup"
           \/ chains[j].stage = "providers" /\ chains'[j].stage = "create"
    BY <2>1, <2>3, CalmChain
  <2> QED BY <2>1, <2>2, <2>4 DEF Calm
<1> QED BY <1>2, <1>3, <1>4

\* A login or a sign-up begins.
LEMMA CalmStarts ==
  ASSUME SessionInv, NEW k \in Chain, NEW u \in User, NEW t \in Tea,
         HandleSignIn(k, u) \/ CreateNewButton(k, u, t)
  PROVE  Calm
<1> USE DEF service, identity, place, history, callbacks
<1>1. /\ UNCHANGED <<username, auth, displayName, mixed, abandoned, used, prompt, view>>
      /\ fore' = fore \union {k} /\ chains[k].stage = "idle"
  BY DEF HandleSignIn, CreateNewButton, Fore, Free
<1>2. /\ Others(k)
      /\ \/ chains'[k].stage = "signIn" /\ view = "login"
         \/ chains'[k].stage = "providers" /\ view = "signup"
  <2>1. ChainsOK /\ {"signIn", "providers"} \subseteq Stage
    BY NamesFacts DEF Stage
  <2> QED BY <2>1, NamesFacts, StartFacts DEF HandleSignIn, CreateNewButton, Touchable
<1>3. \A j \in Chain :
         \/ chains'[j] = chains[j]
         \/ chains[j].stage \notin {"signedIn", "name"} /\ chains'[j].stage \in {"idle", "signIn", "delete"}
         \/ chains[j].stage = "idle" /\ chains'[j].stage = "providers" /\ view = "signup"
         \/ chains[j].stage = "providers" /\ chains'[j].stage = "create"
  BY <1>1, <1>2, CalmChain
<1> QED BY <1>1, <1>2, <1>3 DEF Calm

\* The deletion of the account that is signed in is asked for.
LEMMA CalmDeletes ==
  ASSUME SessionInv, ScreenOK, NEW k \in Chain,
         CreateFails(k) \/ CommitFails(k) \/ CloseUsed(k) \/ CancelUnverified(k)
  PROVE  Calm /\ DeleteAuth(k)
<1> USE DEF service, identity, place, history, callbacks
<1>1. /\ DeleteAuth(k) /\ UNCHANGED <<username, auth, displayName, mixed, abandoned>>
      /\ used \subseteq used' /\ chains[k].stage \notin {"signedIn", "name"}
  BY DEF CreateFails, CommitFails, GiveUp, CloseUsed, CancelUnverified, At, Under, Free
<1>2. \A j \in Chain :
         \/ chains'[j] = chains[j]
         \/ chains[j].stage \notin {"signedIn", "name"} /\ chains'[j].stage \in {"idle", "signIn", "delete"}
         \/ chains[j].stage = "idle" /\ chains'[j].stage = "providers" /\ view = "signup"
         \/ chains[j].stage = "providers" /\ chains'[j].stage = "create"
  BY <1>1, DeleteFacts, CalmChain
<1>3. CASE CreateFails(k) \/ CommitFails(k)
  <2>1. UNCHANGED place /\ Present(k, "oops", NoTea)
    BY <1>3 DEF CreateFails, CommitFails, GiveUp
  <2>2. \/ prompt' = prompt
        \/ prompt = NoAlert /\ prompt'.kind \in {"oops", "used"} /\ fore # {}
    BY <2>1 DEF Present, Shows
  <2> QED BY <1>1, <1>2, <2>1, <2>2 DEF Calm
<1>4. CASE CloseUsed(k) \/ CancelUnverified(k)
  <2>1. prompt # NoAlert /\ ~Home /\ prompt' = NoAlert
    BY <1>4 DEF CloseUsed, CancelUnverified, Pressed, NoAlert, ScreenOK, Home
  <2>2. PICK v \in {view, "main"} : GoTo(v)
    BY <1>4 DEF CloseUsed, CancelUnverified
  <2>3. CASE v = view
    BY <1>1, <1>2, <2>1, <2>2, <2>3 DEF GoTo, Calm
  <2>4. CASE v # view
    BY <1>1, <1>2, <2>1, <2>2, <2>4 DEF GoTo, Calm, Home
  <2> QED BY <2>3, <2>4
<1> QED BY <1>1, <1>3, <1>4

LEMMA CalmKeeps ==
  ASSUME NamesInv, Calm, fore' \subseteq Chain
  PROVE  FreshOK' /\ ScreenOK' /\ FlowOK' /\ AwayOK'
<1> USE DEF NamesInv
<1>1. FreshOK'
  BY DEF Calm, FreshOK
<1>2. /\ UNCHANGED <<username, auth, displayName, mixed, abandoned>>
      /\ \A k \in Chain :
           \/ chains'[k] = chains[k]
           \/ chains[k].stage \notin {"signedIn", "name"} /\ chains'[k].stage \in {"idle", "signIn", "delete"}
           \/ chains[k].stage = "idle" /\ chains'[k].stage = "providers" /\ view = "signup"
           \/ chains[k].stage = "providers" /\ chains'[k].stage = "create"
      /\ fore \subseteq Chain /\ NoAlert.kind = "none"
  BY DEF Calm, NoAlert, SessionInv, PlaceOK
<1>3. Asking' => Asking
  BY <1>2 DEF Calm, Asking
<1>4. /\ \A k \in Chain : Flow(k)' => Flow(k) /\ chains'[k] = chains[k]
      /\ (Naming' <=> Naming) /\ (Entering' <=> Entering)
  BY <1>2 DEF Flow, Naming, Entering, Named, Asked
<1>5. \/ /\ view' = view /\ fore \subseteq fore' /\ (fore' = fore \/ view \in {"login", "signup"})
         /\ \A k \in fore' \ fore :
               chains'[k].stage = "signIn" \/ (chains'[k].stage = "providers" /\ view = "signup")
      \/ /\ fore' = {} /\ prompt' = NoAlert
         /\ \/ ~Home /\ ~Home'
            \/ view = "splash" /\ view' = "tabs"
            \/ view = "splash" /\ view' = "main" /\ auth = NoUser
  BY DEF Calm
<1>6. ScreenOK'
  <2>1. fore' # {} => view' \in {"login", "signup"}
    BY <1>5 DEF ScreenOK
  <2>2. prompt' # NoAlert => view' \in {"login", "signup"}
    BY <1>5 DEF Calm, ScreenOK
  <2>3. Asking' => view' = "signup"
    BY <1>2, <1>3, <1>5 DEF ScreenOK, Asking
  <2>4. ASSUME NEW k \in fore', chains'[k].stage \in SignUp PROVE view' = "signup"
    <3>1. view' = view /\ k \in Chain
      BY <1>5, <2>4
    <3>2. CASE k \in fore
      BY <1>2, <2>4, <3>1, <3>2 DEF ScreenOK, SignUp
    <3>3. CASE k \notin fore
      BY <1>5, <2>4, <3>1, <3>3 DEF SignUp
    <3> QED BY <3>2, <3>3
  <2> QED BY <2>1, <2>2, <2>3, <2>4 DEF ScreenOK
<1>7. FlowOK'
  <2> SUFFICES ASSUME ~mixed
               PROVE  /\ \A j, k \in Chain : Flow(j)' /\ Flow(k)' => j = k
                      /\ \A k \in Chain : Flow(k)' => ~Asking' /\ ~Naming'
                      /\ Asking' => ~Naming'
                      /\ \A k \in Chain : /\ chains'[k].stage # "write"
                                          /\ chains'[k].stage \in {"signedIn", "name"} => chains'[k].uid = auth'
                                          /\ chains'[k].stage = "tea" => view' = "tabs"
                                          /\ chains'[k].stage = "save" => displayName' = chains'[k].tea
                      /\ Hot' => ~Home' /\ ~Profiled'
                      /\ Profiled' => displayName' = username'[auth'] \/ Naming'
    BY <1>2 DEF FlowOK
  <2>1. /\ \A j, k \in Chain : Flow(j) /\ Flow(k) => j = k
        /\ \A k \in Chain : Flow(k) => ~Asking /\ ~Naming
        /\ Asking => ~Naming
        /\ \A k \in Chain : /\ chains[k].stage # "write"
                            /\ chains[k].stage \in {"signedIn", "name"} => chains[k].uid = auth
                            /\ chains[k].stage = "tea" => view = "tabs"
                            /\ chains[k].stage = "save" => displayName = chains[k].tea
        /\ Hot => ~Home /\ ~Profiled
        /\ Profiled => displayName = username[auth] \/ Naming
    BY DEF FlowOK
  <2>2. Profiled' <=> Profiled
    BY <1>2 DEF Profiled
  <2>3. \A k \in Chain : chains'[k].stage = "tea" => view' = "tabs"
    BY <1>2, <1>5, <2>1 DEF Home
  <2>4. Hot' => Hot
    <3>1. ASSUME NEW k \in Chain, chains'[k].stage \in Named, k \in fore' PROVE Hot
      BY <1>2, <1>5, <3>1 DEF Hot, Named
    <3>2. ASSUME NEW k \in Chain, chains'[k].stage \in Asked PROVE Hot
      BY <1>2, <3>2 DEF Hot, Asked
    <3> QED BY <1>3, <3>1, <3>2 DEF Hot
  <2>5. Hot' => ~Home'
    BY <1>5, <2>1, <2>4 DEF Home
  <2>6. \A k \in Chain : /\ chains'[k].stage # "write"
                         /\ chains'[k].stage \in {"signedIn", "name"} => chains'[k].uid = auth'
                         /\ chains'[k].stage = "save" => displayName' = chains'[k].tea
    BY <1>2, <2>1
  <2>7. Profiled' => displayName' = username'[auth'] \/ Naming'
    BY <1>2, <1>4, <2>1, <2>2
  <2> HIDE DEF NamesInv
  <2> QED BY <1>3, <1>4, <2>1, <2>2, <2>3, <2>4, <2>5, <2>6, <2>7
<1>8. AwayOK'
  <2> SUFFICES ASSUME ~abandoned
               PROVE  /\ Profiled' => Home' \/ Entering'
                      /\ \A k \in Chain : chains'[k].stage \in {"tea", "write"} /\ chains'[k].uid = auth'
                                            => Home' \/ Entering'
                      /\ ~mixed' /\ Home' => \A k \in Chain : chains'[k].stage \notin SignUp
    BY <1>2 DEF AwayOK
  <2>1. /\ Profiled => Home \/ Entering
        /\ \A k \in Chain : chains[k].stage \in {"tea", "write"} /\ chains[k].uid = auth
                              => Home \/ Entering
        /\ ~mixed /\ Home => \A k \in Chain : chains[k].stage \notin SignUp
    BY DEF AwayOK
  <2>2. Home => Home' \/ auth = NoUser
    BY <1>5 DEF Home
  <2>3. Home' => Home
    BY <1>5 DEF Home
  <2>4. Profiled' => Home' \/ Entering'
    BY <1>2, <1>4, <2>1, <2>2 DEF Profiled
  <2>5. ASSUME NEW k \in Chain, chains'[k].stage \in {"tea", "write"}, chains'[k].uid = auth'
        PROVE  Home' \/ Entering'
    <3>1. chains'[k] = chains[k] /\ auth' = auth
      BY <1>2, <2>5
    <3>2. chains[k].uid # NoUser
      BY <2>5, <3>1 DEF SessionInv, ChainsOK
    <3> QED BY <1>4, <2>1, <2>2, <2>5, <3>1, <3>2
  <2>6. ASSUME ~mixed', Home', NEW k \in Chain PROVE chains'[k].stage \notin SignUp
    <3>1. ~mixed /\ Home /\ view # "signup" /\ chains[k].stage \notin SignUp
      BY <1>2, <2>1, <2>3, <2>6 DEF Home
    <3> QED BY <1>2, <3>1 DEF SignUp
  <2> QED BY <2>4, <2>5, <2>6
<1> QED BY <1>1, <1>6, <1>7, <1>8

\* Segue: the tabs, with nothing presented, or the screen that is on top.
LEMMA SegueFacts ==
  ASSUME NamesInv, NEW k \in Chain, Segue(k)
  PROVE  /\ Shows(k) => view' = "tabs" /\ fore' = {} /\ prompt = NoAlert
         /\ ~Shows(k) => view' = view /\ fore' = fore
BY DEF NamesInv, ScreenOK, Segue, Shows, GoTo

\* A chain's uid is used when a profile, a tea or a write is awaited for it.
LEMMA FreshMoves ==
  ASSUME NamesInv, used \subseteq used', UNCHANGED username, NEW k \in Chain, Others(k),
         chains'[k].stage \in {"save", "tea", "write"} => chains'[k].uid \in used
  PROVE  FreshOK'
BY DEF NamesInv, FreshOK, Others

LEMMA AuthSignsInKeeps ==
  ASSUME NamesInv, NEW k \in Chain, AuthSignsIn(k)
  PROVE  FreshOK' /\ ScreenOK' /\ FlowOK' /\ AwayOK'
<1> USE DEF NamesInv, service, place
<1>1. /\ auth' = chains[k].uid
      /\ UNCHANGED <<used, username, displayName, view, fore, prompt, abandoned>>
      /\ mixed' = (mixed \/ ~Alone(k) \/ prompt # NoAlert)
  BY DEF AuthSignsIn
<1>2. chains'[k].stage = "signedIn" /\ chains'[k].uid = chains[k].uid /\ Others(k)
  <2>1. ChainsOK /\ "signedIn" \in Stage
    BY DEF SessionInv, Stage
  <2> QED BY <2>1, GoFacts DEF AuthSignsIn
<1>3. NoAlert.kind = "none" /\ fore \subseteq Chain
  BY NamesFacts
<1>4. FreshOK'
  BY <1>1, <1>2, FreshMoves
<1>5. ScreenOK'
  BY <1>1, <1>2, <1>3 DEF ScreenOK, Asking, Others, SignUp
<1>6. FlowOK'
  <2> SUFFICES ASSUME ~mixed' PROVE FlowOK'
    BY DEF FlowOK
  <2>1. prompt' = NoAlert /\ \A j \in Chain : j # k => chains'[j].stage = "idle"
    BY <1>1, <1>2 DEF Alone, Others
  <2>2. ~Asking' /\ ~Hot' /\ Naming'
    BY <1>2, <1>3, <2>1 DEF Asking, Hot, Naming, Named, Asked
  <2>3. \A j \in Chain : ~Flow(j)'
    BY <1>2, <2>1 DEF Flow, Named, Asked
  <2>4. \A j \in Chain : chains'[j].stage \in {"idle", "signedIn"} /\ (chains'[j].stage = "signedIn" => j = k)
    BY <1>2, <2>1
  <2> QED BY <1>1, <1>2, <2>2, <2>3, <2>4 DEF FlowOK
<1>7. AwayOK'
  <2>1. Entering'
    BY <1>1, <1>2 DEF Entering
  <2>2. ~mixed' => \A j \in Chain : chains'[j].stage \notin SignUp
    BY <1>1, <1>2 DEF Alone, Others, SignUp
  <2> QED BY <2>1, <2>2 DEF AwayOK
<1> QED BY <1>4, <1>5, <1>6, <1>7

LEMMA SignInKeeps ==
  ASSUME NamesInv, NEW k \in Chain, SignInSucceeds(k)
  PROVE  FreshOK' /\ ScreenOK' /\ FlowOK' /\ AwayOK'
<1> USE DEF NamesInv, service
<1>1. /\ UNCHANGED <<used, username, auth, displayName, prompt>> /\ chains[k].stage = "signedIn"
      /\ mixed' = (mixed \/ ~Alone(k) \/ prompt # NoAlert)
      /\ abandoned' = (abandoned \/ ~Shows(k))
  BY DEF SignInSucceeds, At, Under
<1>2. chains'[k].stage = "name" /\ chains'[k].uid = chains[k].uid /\ Others(k)
  <2>1. ChainsOK /\ "name" \in Stage
    BY DEF SessionInv, Stage
  <2> QED BY <2>1, GoFacts DEF SignInSucceeds
<1>3. /\ Shows(k) => view' = "tabs" /\ fore' = {} /\ prompt = NoAlert
      /\ ~Shows(k) => view' = view /\ fore' = fore
      /\ NoAlert.kind = "none" /\ fore \subseteq Chain
  BY NamesFacts, SegueFacts DEF SignInSucceeds
<1>4. FreshOK'
  BY <1>1, <1>2, FreshMoves
<1>5. ScreenOK'
  BY <1>1, <1>2, <1>3 DEF ScreenOK, Asking, Others, SignUp
<1>6. FlowOK'
  <2> SUFFICES ASSUME ~mixed' PROVE FlowOK'
    BY DEF FlowOK
  <2>1. prompt' = NoAlert /\ \A j \in Chain : j # k => chains'[j].stage = "idle"
    BY <1>1, <1>2 DEF Alone, Others
  <2>2. ~Asking' /\ ~Hot' /\ Naming'
    BY <1>2, <1>3, <2>1 DEF Asking, Hot, Naming, Named, Asked
  <2>3. \A j \in Chain : ~Flow(j)'
    BY <1>2, <2>1 DEF Flow, Named, Asked
  <2>4. \A j \in Chain : chains'[j].stage \in {"idle", "name"} /\ (chains'[j].stage = "name" => j = k)
    BY <1>2, <2>1
  <2>5. chains'[k].uid = auth'
    BY <1>1, <1>2 DEF FlowOK
  <2> QED BY <2>2, <2>3, <2>4, <2>5 DEF FlowOK
<1>7. AwayOK'
  <2> SUFFICES ASSUME ~abandoned' PROVE AwayOK'
    BY DEF AwayOK
  <2>1. Home'
    BY <1>1, <1>3 DEF Home
  <2>2. ~mixed' => \A j \in Chain : chains'[j].stage \notin SignUp
    BY <1>1, <1>2 DEF Alone, Others, SignUp
  <2> QED BY <2>1, <2>2 DEF AwayOK
<1> QED BY <1>4, <1>5, <1>6, <1>7

LEMMA AuthCreatesKeeps ==
  ASSUME NamesInv, NEW k \in Chain, AuthCreates(k)
  PROVE  FreshOK' /\ ScreenOK' /\ FlowOK' /\ AwayOK'
<1> USE DEF NamesInv
<1>1. PICK u \in User \ used :
        /\ used' = used \union {u} /\ auth' = u /\ Start(k, "created", u, chains[k].tea)
  BY DEF AuthCreates
<1>2. /\ UNCHANGED <<username, displayName, view, fore, prompt, abandoned>>
      /\ mixed' = (mixed \/ ~Alone(k) \/ prompt # NoAlert) /\ chains[k].stage = "create"
  BY DEF AuthCreates, Under, place
<1>3. chains'[k].stage = "created" /\ chains'[k].uid = u /\ Others(k)
  <2>1. ChainsOK /\ "created" \in Stage /\ chains[k].tea \in Tea \union {NoTea}
    BY <1>2, AwaitedUid DEF SessionInv, Stage
  <2> QED BY <1>1, <2>1, StartFacts
<1>4. ~Profiled' /\ NoAlert.kind = "none" /\ fore \subseteq Chain
  BY <1>1, <1>2, NamesFacts DEF Profiled, FreshOK
<1>5. FreshOK'
  BY <1>1, <1>2, <1>3, FreshMoves
<1>6. ScreenOK'
  BY <1>2, <1>3, <1>4 DEF ScreenOK, Asking, Others, SignUp
<1>7. FlowOK'
  <2> SUFFICES ASSUME ~mixed' PROVE FlowOK'
    BY DEF FlowOK
  <2>1. prompt' = NoAlert /\ \A j \in Chain : j # k => chains'[j].stage = "idle"
    BY <1>2, <1>3 DEF Alone, Others
  <2>2. ~Asking' /\ ~Naming'
    BY <1>3, <1>4, <2>1 DEF Asking, Naming
  <2>3. \A j \in Chain : Flow(j)' => j = k
    BY <2>1 DEF Flow, Named, Asked
  <2>4. Hot' => ~Home'
    <3>1. Hot' => k \in fore
      BY <1>2, <1>3, <2>1, <2>2 DEF Hot, Named, Asked
    <3>2. k \in fore => view = "signup"
      BY <1>2 DEF ScreenOK, SignUp
    <3> QED BY <1>2, <3>1, <3>2 DEF Home
  <2>5. \A j \in Chain : chains'[j].stage \in {"idle", "created"}
    BY <1>3, <2>1
  <2> QED BY <1>4, <2>2, <2>3, <2>4, <2>5 DEF FlowOK
<1>8. AwayOK'
  <2> SUFFICES ASSUME ~abandoned' PROVE AwayOK'
    BY DEF AwayOK
  <2>1. \A j \in Chain : chains'[j].stage \in {"tea", "write"} => chains'[j].uid # auth'
    BY <1>1, <1>3 DEF FreshOK, Others
  <2>2. mixed' \/ ~Home'
    BY <1>2 DEF AwayOK, Home, SignUp
  <2> QED BY <1>4, <2>1, <2>2 DEF AwayOK
<1> QED BY <1>5, <1>6, <1>7, <1>8

LEMMA DeleteKeeps ==
  ASSUME NamesInv, NEW k \in Chain, DeleteSucceeds(k)
  PROVE  FreshOK' /\ ScreenOK' /\ FlowOK' /\ AwayOK'
<1> USE DEF NamesInv
<1>1. /\ UNCHANGED <<used, username, displayName, view, fore, prompt, abandoned>>
      /\ auth' \in {auth, NoUser} /\ chains[k].stage = "delete"
      /\ mixed' = (mixed \/ ~Alone(k) \/ prompt # NoAlert)
  BY DEF DeleteSucceeds, Under, place
<1>2. chains'[k].stage = "idle" /\ Others(k) /\ NoAlert.kind = "none" /\ fore \subseteq Chain
  BY NamesFacts, EndFacts DEF DeleteSucceeds
<1>3. Profiled' => Profiled /\ auth' = auth
  BY <1>1 DEF Profiled
<1>4. FreshOK'
  BY <1>1, <1>2, FreshMoves
<1>5. ScreenOK'
  BY <1>1, <1>2 DEF ScreenOK, Asking, Others, SignUp
<1>6. FlowOK'
  <2> SUFFICES ASSUME ~mixed' PROVE FlowOK'
    BY DEF FlowOK
  <2>1. prompt' = NoAlert /\ \A j \in Chain : chains'[j].stage = "idle"
    BY <1>1, <1>2 DEF Alone, Others
  <2>2. ~Asking' /\ ~Naming' /\ ~Hot'
    BY <1>2, <2>1 DEF Asking, Naming, Hot, Named, Asked
  <2>3. \A j \in Chain : ~Flow(j)'
    BY <2>1 DEF Flow, Named, Asked
  <2>4. Profiled' => displayName' = username'[auth']
    <3>1. ~Naming
      BY <1>1 DEF Alone, Naming
    <3> QED BY <1>1, <1>3, <3>1 DEF FlowOK
  <2> QED BY <2>1, <2>2, <2>3, <2>4 DEF FlowOK
<1>7. AwayOK'
  <2> SUFFICES ASSUME ~abandoned' PROVE AwayOK'
    BY DEF AwayOK
  <2>1. (Home' <=> Home) /\ (auth' = auth => (Entering' <=> Entering))
    BY <1>1, <1>2 DEF Home, Entering, Others
  <2>2. ASSUME NEW j \in Chain, chains'[j].stage \in {"tea", "write"}, chains'[j].uid = auth'
        PROVE  Home' \/ Entering'
    <3>1. chains'[j] = chains[j]
      BY <1>2, <2>2 DEF Others
    <3>2. chains[j].uid # NoUser
      BY <2>2, <3>1 DEF SessionInv, ChainsOK
    <3>3. auth' = auth
      BY <1>1, <2>2, <3>1, <3>2
    <3> QED BY <1>1, <2>1, <2>2, <3>1, <3>3 DEF AwayOK
  <2>3. ~mixed' /\ Home' => \A j \in Chain : chains'[j].stage \notin SignUp
    BY <1>1, <1>2, <2>1 DEF AwayOK, Others, SignUp
  <2>4. Profiled' => Home' \/ Entering'
    BY <1>1, <1>3, <2>1 DEF AwayOK
  <2> QED BY <2>2, <2>3, <2>4 DEF AwayOK
<1> QED BY <1>4, <1>5, <1>6, <1>7

LEMMA NameKeeps ==
  ASSUME NamesInv, NEW k \in Chain, NameArrives(k)
  PROVE  FreshOK' /\ ScreenOK' /\ FlowOK' /\ AwayOK'
<1> USE DEF NamesInv
<1>1. /\ UNCHANGED <<used, username, auth, view, fore, prompt, abandoned>>
      /\ displayName' = username[chains[k].uid] /\ chains[k].stage = "name"
      /\ mixed' = (mixed /\ ~(Alone(k) /\ prompt = NoAlert /\ auth = chains[k].uid))
  BY DEF NameArrives, At, Under, service, place
<1>2. chains'[k].stage = "idle" /\ Others(k) /\ NoAlert.kind = "none" /\ fore \subseteq Chain
  BY NamesFacts, EndFacts DEF NameArrives
<1>3. (Profiled' <=> Profiled) /\ (Home' <=> Home) /\ (Entering' <=> Entering)
  BY <1>1, <1>2 DEF Profiled, Home, Entering, Others
<1>4. FreshOK'
  BY <1>1, <1>2, FreshMoves
<1>5. ScreenOK'
  BY <1>1, <1>2 DEF ScreenOK, Asking, Others, SignUp
<1>6. CASE mixed /\ ~mixed'
  <2>1. prompt' = NoAlert /\ \A j \in Chain : chains'[j].stage = "idle"
    BY <1>1, <1>2, <1>6 DEF Alone, Others
  <2>2. ~Asking' /\ ~Naming' /\ ~Hot'
    BY <1>2, <2>1 DEF Asking, Naming, Hot, Named, Asked
  <2>3. \A j \in Chain : ~Flow(j)'
    BY <2>1 DEF Flow, Named, Asked
  <2>4. displayName' = username'[auth']
    BY <1>1, <1>6
  <2>5. FlowOK'
    BY <2>1, <2>2, <2>3, <2>4 DEF FlowOK
  <2>6. AwayOK'
    BY <1>1, <1>3, <2>1 DEF AwayOK, SignUp
  <2> QED BY <1>4, <1>5, <2>5, <2>6
<1>7. CASE ~mixed
  <2>1. Naming /\ chains[k].uid = auth
    BY <1>1, <1>7 DEF Naming, FlowOK
  <2>2. (\A j \in Chain : ~Flow(j)) /\ ~Asking
    BY <1>7, <2>1 DEF FlowOK
  <2>3. ~Asking' /\ \A j \in Chain : ~Flow(j)'
    BY <1>1, <1>2, <2>2 DEF Asking, Flow, Others, Named, Asked
  <2>4. ~Hot'
    BY <2>3 DEF Hot, Flow
  <2>5. \A j \in Chain : /\ chains'[j].stage # "write" /\ chains'[j].stage # "save"
                         /\ chains'[j].stage \in {"signedIn", "name"} => chains'[j].uid = auth'
                         /\ chains'[j].stage = "tea" => view' = "tabs"
    BY <1>1, <1>2, <1>7, <2>3 DEF FlowOK, Others, Flow, Named, Asked
  <2>6. displayName' = username'[auth']
    BY <1>1, <2>1
  <2>7. FlowOK'
    BY <2>3, <2>4, <2>5, <2>6 DEF FlowOK
  <2>8. AwayOK'
    BY <1>1, <1>2, <1>3, <1>7 DEF AwayOK, SignUp, Others
  <2> QED BY <1>4, <1>5, <2>7, <2>8
<1>8. CASE mixed /\ mixed'
  <2>1. FlowOK'
    BY <1>8 DEF FlowOK
  <2>2. AwayOK'
    BY <1>1, <1>2, <1>3, <1>8 DEF AwayOK, SignUp, Others
  <2> QED BY <1>4, <1>5, <2>1, <2>2
<1>9. mixed \in BOOLEAN /\ mixed' \in BOOLEAN
  BY <1>1 DEF SessionInv, PlaceOK
<1> QED BY <1>6, <1>7, <1>8, <1>9

\* A sign-up goes on, beyond the creation of its account, or is taken up again
\* by a button of its alert.
Advance(k) ==
  /\ UNCHANGED <<used, username, auth, abandoned, view>> /\ (mixed => mixed') /\ Others(k)
  /\ Flow(k) \/ (Asking /\ chains[k].stage = "idle")
  /\ chains'[k].stage \in {"idle", "commit", "set", "mail"} \union Asked
  /\ chains'[k].stage \in Named => chains[k].stage \in Named /\ fore' = fore
  /\ chains'[k].stage \in Asked => Asking \/ chains[k].stage \in Asked
  /\ IF chains'[k].stage = "save"
     THEN displayName' = chains'[k].tea /\ chains'[k].uid \in used
     ELSE displayName' = displayName
  /\ ~mixed' /\ chains'[k].stage # "idle" => ~Asking'
  /\ Asking' => Asking \/ (k \in fore /\ Flow(k))
  /\ prompt' # NoAlert => prompt # NoAlert \/ k \in fore
  /\ fore' \in {fore, fore \union {k}} /\ (fore' # fore => Asking)

LEMMA AdvanceKeeps ==
  ASSUME NamesInv, NEW k \in Chain, Advance(k)
  PROVE  FreshOK' /\ ScreenOK' /\ FlowOK' /\ AwayOK'
<1> USE DEF NamesInv
<1>1. /\ UNCHANGED <<used, username, auth, abandoned, view>> /\ (~mixed' => ~mixed)
      /\ \A j \in Chain : j # k => chains'[j] = chains[j]
      /\ Flow(k) \/ (Asking /\ chains[k].stage = "idle")
      /\ chains'[k].stage \in {"idle", "commit", "set", "mail"} \union Asked
      /\ fore \subseteq Chain
  BY NamesFacts DEF Advance, Others
<1>2. (Profiled' <=> Profiled) /\ (Home' <=> Home) /\ (Entering' <=> Entering)
  BY <1>1 DEF Profiled, Home, Entering, Flow, Named, Asked
<1>3. Asking => view = "signup"
  BY DEF ScreenOK
<1>4. k \in fore /\ Flow(k) => view = "signup"
  BY DEF ScreenOK, Flow, SignUp, Named, Asked
<1>5. FreshOK'
  <2>1. chains'[k].stage \in {"save", "tea", "write"} => chains'[k].uid \in used
    BY <1>1 DEF Advance, Asked
  <2> QED BY <1>1, <2>1 DEF FreshOK
<1>6. ScreenOK'
  <2>1. fore' # {} => view' \in {"login", "signup"}
    BY <1>1, <1>3 DEF Advance, ScreenOK
  <2>2. prompt' # NoAlert => view' \in {"login", "signup"}
    BY <1>1 DEF Advance, ScreenOK
  <2>3. Asking' => view' = "signup"
    BY <1>1, <1>3, <1>4 DEF Advance
  <2>4. ASSUME NEW j \in fore', chains'[j].stage \in SignUp PROVE view' = "signup"
    <3>1. CASE j = k
      BY <1>1, <1>3, <1>4, <3>1 DEF Advance
    <3>2. CASE j # k
      BY <1>1, <2>4, <3>2 DEF Advance, ScreenOK
    <3> QED BY <3>1, <3>2
  <2> QED BY <2>1, <2>2, <2>3, <2>4 DEF ScreenOK
<1>7. FlowOK'
  <2> SUFFICES ASSUME ~mixed', ~mixed PROVE FlowOK'
    BY <1>1 DEF FlowOK
  <2>1. ~Naming /\ \A j \in Chain : j # k => ~Flow(j)
    BY <1>1 DEF FlowOK
  <2>2. \A j \in Chain : Flow(j)' => j = k
    BY <1>1, <2>1 DEF Flow
  <2>3. ~Naming'
    BY <1>1, <2>1 DEF Naming, Asked
  <2>4. Flow(k)' => ~Asking'
    BY DEF Advance, Flow, Named, Asked
  <2>5. Hot' => Hot
    <3>1. Asking' => Hot
      BY DEF Advance, Hot, Flow
    <3>2. chains'[k].stage \in Asked => Hot
      BY DEF Advance, Hot
    <3>3. chains'[k].stage \in Named /\ k \in fore' => Hot
      BY DEF Advance, Hot
    <3> QED BY <1>1, <2>2, <3>1, <3>2, <3>3 DEF Hot, Flow
  <2>6. \A j \in Chain : /\ chains'[j].stage # "write"
                         /\ chains'[j].stage \in {"signedIn", "name"} => chains'[j].uid = auth'
                         /\ chains'[j].stage = "tea" => view' = "tabs"
                         /\ chains'[j].stage = "save" => displayName' = chains'[j].tea
    <3>1. ASSUME NEW j \in Chain, j # k
          PROVE  /\ chains'[j].stage \notin {"write", "signedIn", "name", "save"}
                 /\ chains'[j].stage = "tea" => view' = "tabs"
      BY <1>1, <2>1, <3>1 DEF FlowOK, Naming, Flow, Asked
    <3>2. /\ chains'[k].stage = "save" => displayName' = chains'[k].tea
          /\ chains'[k].stage \notin {"write", "signedIn", "name", "tea"}
      BY <1>1 DEF Advance, Asked
    <3> QED BY <3>1, <3>2
  <2>7. Profiled' => displayName' = username'[auth']
    <3>1. Profiled => displayName = username[auth]
      BY <2>1 DEF FlowOK
    <3>2. chains'[k].stage = "save" => ~Profiled
      BY DEF Advance, Hot, FlowOK, Asked
    <3>3. chains'[k].stage # "save" => displayName' = displayName
      BY DEF Advance
    <3> QED BY <1>1, <1>2, <3>1, <3>2, <3>3
  <2>8. Hot' => ~Home' /\ ~Profiled'
    BY <1>2, <2>5 DEF FlowOK
  <2> HIDE DEF NamesInv
  <2> QED BY <2>2, <2>3, <2>4, <2>6, <2>7, <2>8 DEF FlowOK
<1>8. AwayOK'
  <2> SUFFICES ASSUME ~abandoned PROVE AwayOK'
    BY <1>1 DEF AwayOK
  <2>1. \A j \in Chain : chains'[j].stage \in {"tea", "write"} /\ chains'[j].uid = auth'
                           => Home' \/ Entering'
    BY <1>1, <1>2 DEF AwayOK, Asked
  <2>2. ~mixed' /\ Home' => \A j \in Chain : chains'[j].stage \notin SignUp
    <3>1. Flow(k) => chains[k].stage \in SignUp
      BY DEF Flow, SignUp, Named, Asked
    <3>2. ~mixed /\ Home => FALSE
      BY <1>1, <1>3, <3>1 DEF AwayOK, Home
    <3> QED BY <1>1, <1>2, <3>2
  <2>3. Profiled' => Home' \/ Entering'
    BY <1>2 DEF AwayOK
  <2> QED BY <2>1, <2>2, <2>3 DEF AwayOK
<1> QED BY <1>5, <1>6, <1>7, <1>8

LEMMA AdvanceSteps ==
  ASSUME NamesInv, NEW k \in Chain,
         \/ CreateSucceeds(k) \/ AccountLoaded(k) \/ CommitSucceeds(k) \/ MailSucceeds(k)
         \/ OkVerify(k) \/ OkUnverified(k) \/ ReloadSucceeds(k)
  PROVE  Advance(k) \/ Calm
<1> USE DEF NamesInv, service, identity, place, history, callbacks
<1>1. /\ ChainsOK /\ NoAlert.kind = "none" /\ NoTea \in Tea \union {NoTea}
      /\ auth \in User \union {NoUser} /\ prompt.tea \in Tea \union {NoTea}
      /\ currentUser \in used \union {NoUser}
      /\ {"commit", "set", "mail", "reload", "loaded", "refresh"} \subseteq Stage
  BY NamesFacts DEF Stage
<1>2. Flow(k) /\ ~mixed => ~Asking
  BY DEF FlowOK
<1>3. CASE CreateSucceeds(k) \/ CommitSucceeds(k)
  <2>1. /\ UNCHANGED <<used, username, auth, abandoned, view, fore, prompt, displayName>>
        /\ chains[k].stage \in {"created", "set"} /\ Flow(k) /\ chains[k].stage \in Named
        /\ mixed' = (mixed \/ ~Alone(k) \/ prompt # NoAlert) \/ mixed' = mixed
    BY <1>3 DEF CreateSucceeds, CommitSucceeds, At, Under, Flow, Named
  <2>2. chains[k].tea \in Tea \union {NoTea}
    BY <2>1, AwaitedUid
  <2>3. Others(k) /\ chains'[k].stage \in {"idle", "commit", "mail"}
    BY <1>1, <1>3, <2>2, EndFacts, StartFacts DEF CreateSucceeds, CommitSucceeds
  <2>4. (mixed => mixed') /\ (~mixed' => ~Asking')
    BY <1>1, <1>2, <2>1, NamesFacts DEF Asking
  <2> QED BY <2>1, <2>3, <2>4 DEF Advance, Asking, Asked
<1>4. CASE AccountLoaded(k)
  <2>1. UNCHANGED <<used, username, auth, mixed, abandoned, view, fore, prompt, displayName>>
    BY <1>4 DEF AccountLoaded
  <2>2. CASE chains[k].stage \in {"commit", "reload"}
    <3>1. /\ Others(k)
          /\ \/ chains[k].stage = "commit" /\ chains'[k].stage = "set"
             \/ chains[k].stage = "reload" /\ chains'[k].stage = "loaded"
      BY <1>1, <1>4, <2>2, GoFacts DEF AccountLoaded
    <3>2. Flow(k)
      BY <2>2 DEF Flow, Named, Asked
    <3> QED BY <1>2, <2>1, <3>1, <3>2 DEF Advance, Asking, Named, Asked
  <2>3. CASE chains[k].stage = "refresh"
    <3>1. Others(k) /\ chains'[k].stage = "idle"
      BY <1>1, <1>4, <2>3, EndFacts DEF AccountLoaded
    <3> QED BY <2>1, <2>3, <3>1, CalmChain DEF Calm
  <2> QED BY <1>4, <2>2, <2>3 DEF AccountLoaded
<1>5. CASE MailSucceeds(k)
  <2>1. /\ UNCHANGED <<used, username, auth, mixed, abandoned, view, fore, displayName>>
        /\ chains[k].stage = "mail" /\ Flow(k)
    BY <1>5 DEF MailSucceeds, At, Under, Flow, Named
  <2>2. chains'[k].stage = "idle" /\ Others(k)
    BY <1>1, <1>5, EndFacts DEF MailSucceeds
  <2>3. prompt' = prompt \/ k \in fore
    BY <1>5 DEF MailSucceeds, Present, Shows
  <2> QED BY <2>1, <2>2, <2>3 DEF Advance, Asking, Named, Asked
<1>6. CASE OkVerify(k) \/ OkUnverified(k)
  <2>1. /\ UNCHANGED <<used, username, auth, mixed, abandoned, view>>
        /\ chains[k].stage = "idle" /\ Asking /\ prompt' = NoAlert /\ fore' = fore \union {k}
    BY <1>6 DEF OkVerify, OkUnverified, Free, Pressed, Asking, Fore
  <2>2. ~Asking'
    BY <1>1, <2>1 DEF Asking
  <2>3. \/ UNCHANGED <<callbacks, displayName>>
        \/ UNCHANGED displayName /\ (Start(k, "reload", auth, prompt.tea) \/ Start(k, "refresh", auth, NoTea))
        \/ SaveIfVerified(k, prompt.tea)
    BY <1>6 DEF OkVerify, OkUnverified
  <2>4. /\ Others(k)
        /\ \/ chains'[k].stage \in {"idle", "reload", "refresh"} /\ displayName' = displayName
           \/ /\ chains'[k].stage = "save" /\ chains'[k].uid = currentUser /\ currentUser # NoUser
              /\ displayName' = chains'[k].tea
    <3>1. CASE UNCHANGED <<callbacks, displayName>>
      BY <2>1, <3>1 DEF Others
    <3>2. CASE Start(k, "reload", auth, prompt.tea) \/ Start(k, "refresh", auth, NoTea)
      BY <1>1, <2>3, <3>2, StartFacts, SaveFacts
    <3>3. CASE SaveIfVerified(k, prompt.tea)
      BY <1>1, <3>3, SaveFacts
    <3> QED BY <2>3, <3>1, <3>2, <3>3
  <2> QED BY <1>1, <2>1, <2>2, <2>4 DEF Advance, Named, Asked
<1>7. CASE ReloadSucceeds(k)
  <2>1. /\ UNCHANGED <<used, username, auth, mixed, abandoned, view, fore>>
        /\ chains[k].stage = "loaded" /\ Flow(k) /\ chains[k].stage \in Asked
    BY <1>7 DEF ReloadSucceeds, At, Under, Flow, Asked
  <2>2. CASE auth = NoUser
    BY <1>7, <2>1, <2>2 DEF ReloadSucceeds, Calm
  <2>3. CASE auth # NoUser
    <3>1. chains[k].tea \in Tea \union {NoTea} /\ SaveIfVerified(k, chains[k].tea)
      BY <1>7, <2>1, <2>3, AwaitedUid DEF ReloadSucceeds
    <3>2. /\ Others(k)
          /\ \/ /\ chains'[k].stage = "save" /\ chains'[k].uid = currentUser /\ authVerified
                /\ currentUser # NoUser /\ displayName' = chains'[k].tea
             \/ chains'[k].stage = "idle" /\ displayName' = displayName
      BY <3>1, SaveFacts
    <3>3. /\ authVerified => prompt' = prompt
          /\ prompt' = prompt \/ k \in fore
      BY <1>7, <2>3 DEF ReloadSucceeds, Present, Shows
    <3> QED BY <1>1, <1>2, <2>1, <3>2, <3>3 DEF Advance, Asking, Named, Asked
  <2> QED BY <2>2, <2>3
<1> QED BY <1>3, <1>4, <1>5, <1>6, <1>7

LEMMA SaveKeeps ==
  ASSUME NamesInv, NEW k \in Chain, SaveSucceeds(k)
  PROVE  FreshOK' /\ ScreenOK' /\ FlowOK' /\ AwayOK'
<1> USE DEF NamesInv
<1>1. /\ UNCHANGED <<used, auth, displayName, prompt, mixed>>
      /\ chains[k].stage = "save" /\ Flow(k)
      /\ abandoned' = (abandoned \/ ~Shows(k) \/ ~Alone(k))
      /\ NoAlert.kind = "none" /\ fore \subseteq Chain
  BY NamesFacts DEF SaveSucceeds, At, Under, identity, Flow, Asked
<1>2. chains'[k].stage = "idle" /\ Others(k)
  BY NamesFacts, EndFacts DEF SaveSucceeds
<1>3. /\ Shows(k) => view' = "tabs" /\ fore' = {} /\ prompt = NoAlert
      /\ ~Shows(k) => view' = view /\ fore' = fore
  BY SegueFacts DEF SaveSucceeds
<1>4. chains[k].uid \in used /\ chains[k].uid \in User
  BY <1>1 DEF FreshOK, SessionInv, ServiceOK
<1>5. /\ username'[chains[k].uid] = chains[k].tea
      /\ \A u \in User : u # chains[k].uid => username'[u] = username[u]
  BY <1>4 DEF SaveSucceeds, SessionInv, ServiceOK
<1>6. FreshOK'
  BY <1>1, <1>2, <1>4, <1>5 DEF FreshOK, Others
<1>7. ScreenOK'
  BY <1>1, <1>2, <1>3 DEF ScreenOK, Asking, Others, SignUp
<1>8. FlowOK'
  <2> SUFFICES ASSUME ~mixed PROVE FlowOK'
    BY <1>1 DEF FlowOK
  <2>1. ~Naming /\ ~Asking /\ \A j \in Chain : j # k => ~Flow(j)
    BY <1>1 DEF FlowOK
  <2>2. ~Naming' /\ ~Asking' /\ \A j \in Chain : ~Flow(j)'
    BY <1>1, <1>2, <2>1 DEF Naming, Asking, Flow, Others, Named, Asked
  <2>3. ~Hot'
    BY <2>2 DEF Hot, Flow
  <2>4. ~Home /\ ~Profiled
    BY <1>1 DEF FlowOK, Hot, Asked
  <2>5. ASSUME NEW j \in Chain
        PROVE  chains'[j].stage \notin {"write", "signedIn", "name", "tea", "save"}
    <3>1. CASE j = k
      BY <1>2, <3>1
    <3>2. CASE j # k
      BY <1>2, <2>1, <2>4, <3>2 DEF Others, FlowOK, Naming, Flow, Home, Asked
    <3> QED BY <3>1, <3>2
  <2>6. Profiled' => displayName' = username'[auth']
    <3>1. CASE chains[k].uid = auth
      BY <1>1, <1>5, <3>1 DEF FlowOK
    <3>2. CASE chains[k].uid # auth
      <4>1. auth # NoUser => username'[auth] = username[auth]
        BY <1>5, <3>2 DEF SessionInv, IdentityOK, ServiceOK
      <4> QED BY <1>1, <2>4, <4>1 DEF Profiled
    <3> QED BY <3>1, <3>2
  <2> HIDE DEF NamesInv
  <2> QED BY <2>2, <2>3, <2>5, <2>6 DEF FlowOK
<1>9. AwayOK'
  <2> SUFFICES ASSUME ~abandoned' PROVE AwayOK'
    BY DEF AwayOK
  <2>1. Home' /\ \A j \in Chain : chains'[j].stage = "idle"
    BY <1>1, <1>2, <1>3 DEF Home, Alone, Others
  <2> QED BY <2>1 DEF AwayOK, SignUp
<1> QED BY <1>6, <1>7, <1>8, <1>9

LEMMA TeaKeeps ==
  ASSUME NamesInv, NEW k \in Chain, TeaSaved(k) \/ QueuedWrite(k)
  PROVE  FreshOK' /\ ScreenOK' /\ FlowOK' /\ AwayOK'
<1> USE DEF NamesInv
<1>1. /\ UNCHANGED <<used, auth, view, fore, prompt, mixed, abandoned>>
      /\ auth = chains[k].by
      /\ \/ chains[k].stage = "tea" /\ displayName' = chains[k].tea
         \/ chains[k].stage = "write" /\ displayName' = displayName
  BY DEF TeaSaved, QueuedWrite, At, Under, identity, place, history
<1>2. chains'[k].stage = "idle" /\ Others(k) /\ NoAlert.kind = "none" /\ fore \subseteq Chain
  BY NamesFacts, EndFacts DEF TeaSaved, QueuedWrite
<1>3. chains[k].uid \in used /\ chains[k].uid \in User
  BY <1>1 DEF FreshOK, SessionInv, ServiceOK
<1>4. /\ username'[chains[k].uid] = chains[k].tea
      /\ \A u \in User : u # chains[k].uid => username'[u] = username[u]
  BY <1>3 DEF TeaSaved, QueuedWrite, SessionInv, ServiceOK
<1>5. FreshOK'
  BY <1>1, <1>2, <1>3, <1>4 DEF FreshOK, Others
<1>6. ScreenOK'
  BY <1>1, <1>2 DEF ScreenOK, Asking, Others, SignUp
<1>7. FlowOK'
  <2> SUFFICES ASSUME ~mixed PROVE FlowOK'
    BY <1>1 DEF FlowOK
  <2>1. chains[k].stage = "tea" /\ view = "tabs" /\ displayName' = chains[k].tea
    BY <1>1 DEF FlowOK
  <2>2. ~Hot
    BY <2>1 DEF FlowOK, Home
  <2>3. ~Hot' /\ ~Asking'
    BY <1>1, <1>2, <2>2 DEF Hot, Asking, Others, Named, Asked
  <2>4. /\ \A j \in Chain : Flow(j)' => Flow(j)
        /\ Naming' => Naming
    BY <1>2 DEF Flow, Naming, Others, Named, Asked
  <2>5. \A j \in Chain : /\ chains'[j].stage # "write" /\ chains'[j].stage # "save"
                         /\ chains'[j].stage \in {"signedIn", "name"} => chains'[j].uid = auth'
                         /\ chains'[j].stage = "tea" => view' = "tabs"
    BY <1>1, <1>2, <2>1, <2>2 DEF FlowOK, Others, Hot, Asked
  <2>6. chains[k].uid = auth
    BY <1>1, <2>1 DEF SessionInv, ChainsOK
  <2>7. displayName' = username'[auth']
    BY <1>1, <1>4, <2>1, <2>6
  <2>8. \A i, j \in Chain : Flow(i)' /\ Flow(j)' => i = j
    BY <2>4 DEF FlowOK
  <2>9. \A j \in Chain : Flow(j)' => ~Naming'
    BY <2>4 DEF FlowOK
  <2> HIDE DEF NamesInv
  <2> QED BY <2>3, <2>5, <2>7, <2>8, <2>9 DEF FlowOK
<1>8. AwayOK'
  <2> SUFFICES ASSUME ~abandoned PROVE AwayOK'
    BY <1>1 DEF AwayOK
  <2>1. (Home' <=> Home) /\ (Entering' <=> Entering)
    BY <1>1, <1>2 DEF Home, Entering, Others
  <2>2. Profiled' => Home \/ Entering
    <3>1. CASE chains[k].uid = auth
      BY <1>1, <3>1 DEF AwayOK
    <3>2. CASE chains[k].uid # auth
      <4>1. auth # NoUser => username'[auth] = username[auth]
        BY <1>4, <3>2 DEF SessionInv, IdentityOK, ServiceOK
      <4> QED BY <1>1, <4>1 DEF Profiled, AwayOK
    <3> QED BY <3>1, <3>2
  <2>3. \A j \in Chain : chains'[j].stage \in {"tea", "write"} /\ chains'[j].uid = auth' => Home \/ Entering
    BY <1>1, <1>2 DEF AwayOK, Others
  <2>4. ~mixed' /\ Home => \A j \in Chain : chains'[j].stage \notin SignUp
    BY <1>1, <1>2 DEF AwayOK, SignUp, Others
  <2> QED BY <2>1, <2>2, <2>3, <2>4 DEF AwayOK
<1> QED BY <1>5, <1>6, <1>7, <1>8

LEMMA SalvarKeeps ==
  ASSUME NamesInv, NEW k \in Chain, NEW t \in Tea, Salvar(k, t)
  PROVE  FreshOK' /\ ScreenOK' /\ FlowOK' /\ AwayOK'
<1> USE DEF NamesInv
<1>1. /\ UNCHANGED <<used, username, auth, displayName, view, fore, prompt, mixed, abandoned>>
      /\ view = "tabs" /\ chains[k].stage = "idle" /\ auth \in used
      /\ NoAlert.kind = "none" /\ fore \subseteq Chain
  BY NamesFacts DEF Salvar, Touchable, Free, service, identity, place, history
<1>2. chains'[k].stage = "tea" /\ chains'[k].uid = auth /\ Others(k)
  <2>1. ChainsOK /\ auth \in User \union {NoUser} /\ "tea" \in Stage /\ t \in Tea \union {NoTea}
    BY NamesFacts DEF Stage
  <2> QED BY <2>1, WriteFacts DEF Salvar
<1>3. (Profiled' <=> Profiled) /\ Home /\ Home'
  BY <1>1 DEF Profiled, Home
<1>4. FreshOK'
  BY <1>1, <1>2 DEF FreshOK, Others
<1>5. ScreenOK'
  BY <1>1, <1>2 DEF ScreenOK, Asking, Others, SignUp
<1>6. FlowOK'
  <2> SUFFICES ASSUME ~mixed PROVE FlowOK'
    BY <1>1 DEF FlowOK
  <2>1. ~Hot' /\ ~Asking'
    BY <1>1, <1>2, <1>3 DEF FlowOK, Hot, Asking, Others, Named, Asked
  <2>2. /\ \A j \in Chain : Flow(j)' => Flow(j)
        /\ Naming' <=> Naming
    BY <1>1, <1>2 DEF Flow, Naming, Others, Named, Asked
  <2>3. \A j \in Chain : /\ chains'[j].stage # "write"
                         /\ chains'[j].stage \in {"signedIn", "name"} => chains'[j].uid = auth'
                         /\ chains'[j].stage = "tea" => view' = "tabs"
                         /\ chains'[j].stage = "save" => displayName' = chains'[j].tea
    BY <1>1, <1>2 DEF FlowOK, Others
  <2>4. Profiled' => displayName' = username'[auth'] \/ Naming'
    BY <1>1, <1>3, <2>2 DEF FlowOK
  <2>5. \A i, j \in Chain : Flow(i)' /\ Flow(j)' => i = j
    BY <2>2 DEF FlowOK
  <2>6. \A j \in Chain : Flow(j)' => ~Naming'
    BY <2>2 DEF FlowOK
  <2> HIDE DEF NamesInv
  <2> QED BY <2>1, <2>3, <2>4, <2>5, <2>6 DEF FlowOK
<1>7. AwayOK'
  BY <1>1, <1>2, <1>3 DEF AwayOK, SignUp, Others
<1> QED BY <1>4, <1>5, <1>6, <1>7

LEMMA SignOutKeeps ==
  ASSUME NamesInv, SignOut
  PROVE  FreshOK' /\ ScreenOK' /\ FlowOK' /\ AwayOK'
<1> USE DEF NamesInv
<1>1. /\ UNCHANGED <<used, username, displayName, chains, prompt, abandoned>>
      /\ view' = "main" /\ fore' = {} /\ auth' = NoUser /\ prompt = NoAlert /\ NoAlert.kind = "none"
      /\ mixed' = (mixed \/ \E k \in Chain : chains[k].stage # "idle")
  BY DEF SignOut, Touchable, GoTo, service, callbacks, NoAlert
<1>2. ~Profiled' /\ ~Asking' /\ ~Home'
  BY <1>1 DEF Profiled, Asking, Home
<1>3. FreshOK'
  BY <1>1 DEF FreshOK
<1>4. ScreenOK'
  BY <1>1, <1>2 DEF ScreenOK
<1>5. FlowOK'
  <2> SUFFICES ASSUME ~mixed' PROVE FlowOK'
    BY DEF FlowOK
  <2>1. \A j \in Chain : chains'[j].stage = "idle"
    BY <1>1
  <2>2. ~Naming' /\ ~Hot' /\ \A j \in Chain : ~Flow(j)'
    BY <1>2, <2>1 DEF Naming, Hot, Flow, Named, Asked
  <2> QED BY <1>2, <2>1, <2>2 DEF FlowOK
<1>6. \A k \in Chain : chains'[k].stage \in {"tea", "write"} => chains'[k].uid # auth'
  BY <1>1 DEF SessionInv, ChainsOK
<1>7. AwayOK'
  BY <1>2, <1>6 DEF AwayOK
<1> QED BY <1>3, <1>4, <1>5, <1>7

LEMMA RelaunchKeeps ==
  ASSUME NamesInv, Relaunch
  PROVE  FreshOK' /\ ScreenOK' /\ FlowOK' /\ AwayOK'
<1> USE DEF NamesInv
<1>1. /\ UNCHANGED <<used, username, displayName, auth, abandoned>>
      /\ view' = "splash" /\ fore' = {} /\ prompt' = NoAlert /\ NoAlert.kind = "none"
      /\ mixed' = (mixed \/ \E k \in Chain : chains[k].stage # "idle")
  BY DEF Relaunch, service, NoAlert
<1>2. ASSUME NEW k \in Chain
      PROVE  \/ chains'[k].stage = "idle"
             \/ /\ chains[k].stage \in {"save", "tea", "write"}
                /\ chains'[k].stage = "write" /\ chains'[k].uid = chains[k].uid
  <2>1. CASE chains[k].stage \in {"save", "tea", "write"}
    <3> DEFINE r == chains[k]
    <3>1. r \in [stage : Stage, uid : User \union {NoUser}, tea : Tea \union {NoTea},
                 by : User \union {NoUser}]
      BY DEF SessionInv, ChainsOK, ChainState
    <3>2. chains'[k] = [r EXCEPT !.stage = "write"]
      BY <2>1 DEF Relaunch
    <3> HIDE DEF r
    <3>3. chains'[k].stage = "write" /\ chains'[k].uid = r.uid
      BY <3>1, <3>2
    <3> QED BY <2>1, <3>3 DEF r
  <2>2. CASE chains[k].stage \notin {"save", "tea", "write"}
    BY <2>2 DEF Relaunch, Idle
  <2> QED BY <2>1, <2>2
<1>3. ~Asking' /\ Home' /\ (Profiled' <=> Profiled)
  BY <1>1 DEF Asking, Home, Profiled
<1>4. FreshOK'
  BY <1>1, <1>2 DEF FreshOK
<1>5. ScreenOK'
  BY <1>1, <1>3 DEF ScreenOK
<1>6. FlowOK'
  <2> SUFFICES ASSUME ~mixed' PROVE FlowOK'
    BY DEF FlowOK
  <2>1. ~mixed /\ \A j \in Chain : chains[j].stage = "idle"
    BY <1>1
  <2>2. \A j \in Chain : chains'[j].stage = "idle"
    BY <1>2, <2>1
  <2>3. ~Naming /\ ~Naming' /\ ~Hot' /\ \A j \in Chain : ~Flow(j)'
    BY <1>3, <2>1, <2>2 DEF Naming, Hot, Flow, Named, Asked
  <2>4. Profiled' => displayName' = username'[auth']
    BY <1>1, <1>3, <2>1, <2>3 DEF FlowOK
  <2> HIDE DEF NamesInv
  <2> QED BY <1>3, <2>2, <2>3, <2>4 DEF FlowOK
<1>7. AwayOK'
  BY <1>2, <1>3 DEF AwayOK, SignUp
<1> QED BY <1>4, <1>5, <1>6, <1>7

-----------------------------------------------------------------------------
(* What waits for a completion that tells of a change *)

\* A chain begins a call, ends, or goes on behind what waits already.
LEMMA WaitMoves ==
  ASSUME NamesInv, mixed' = mixed, prompt' \in {prompt, NoAlert}, NEW k \in Chain,
         Others(k), Turned(k), ~Told(k),
         \/ chains'[k].stage = "idle"
         \/ chains'[k].stage \notin {"signedIn", "created"} /\ ahead'[k] = OnMain \ {k}
  PROVE  WaitOK'
<1> SUFFICES ASSUME ~mixed, NEW j \in Chain, Told(j)'
             PROVE  prompt' = NoAlert /\ \A i \in Chain \ {j} : chains'[i].stage = "idle" \/ j \in ahead'[i]
  BY DEF WaitOK
<1>1. j # k /\ Told(j) /\ j \in OnMain
  BY DEF Told, Others, OnMain
<1>2. prompt = NoAlert /\ \A i \in Chain \ {j} : chains[i].stage = "idle" \/ j \in ahead[i]
  BY <1>1 DEF NamesInv, WaitOK
<1>3. ASSUME NEW i \in Chain \ {j} PROVE chains'[i].stage = "idle" \/ j \in ahead'[i]
  <2>1. CASE i = k
    BY <1>1, <2>1
  <2>2. CASE i # k
    BY <1>1, <1>2, <2>2 DEF Others, Turned
  <2> QED BY <2>1, <2>2
<1> QED BY <1>2, <1>3

\* A callback whose turn has come runs after every change was told.
LEMMA WaitTurn ==
  ASSUME NamesInv, ~mixed' => ~mixed, NEW k \in Chain, Others(k), chains[k].stage # "idle",
         ahead[k] = {}, ~Told(k), chains'[k].stage \notin {"signedIn", "created"}
  PROVE  WaitOK'
<1> SUFFICES ASSUME ~mixed, NEW j \in Chain, Told(j)' PROVE FALSE
  BY DEF WaitOK
<1>1. j # k /\ Told(j)
  BY DEF Told, Others
<1> QED BY <1>1 DEF NamesInv, WaitOK

\* The account changes beside nothing else, or the change is told so.
LEMMA WaitChanges ==
  ASSUME NamesInv, NEW k \in Chain, Others(k), prompt' = prompt,
         mixed' = (mixed \/ ~Alone(k) \/ prompt # NoAlert)
  PROVE  WaitOK'
<1> SUFFICES ASSUME ~mixed' PROVE WaitOK'
  BY DEF WaitOK
<1>1. prompt' = NoAlert /\ \A j \in Chain : j # k => chains'[j].stage = "idle"
  BY DEF Alone, Others
<1>2. \A j \in Chain : Told(j)' => j = k
  BY <1>1 DEF Told
<1> QED BY <1>1, <1>2 DEF WaitOK

LEMMA WaitRests ==
  ASSUME NamesInv, mixed' = mixed, prompt' \in {prompt, NoAlert}, UNCHANGED callbacks
  PROVE  WaitOK'
BY DEF NamesInv, WaitOK, Told, callbacks

LEMMA WaitLogin ==
  ASSUME NamesInv, NEW k \in Chain, LoginStep(k)
  PROVE  WaitOK'
<1>1. SessionInv /\ ChainsOK /\ {"signIn", "signedIn", "name"} \subseteq Stage
      /\ NoTea \in Tea \union {NoTea}
  BY NamesFacts DEF NamesInv, Stage
<1>2. ASSUME NEW u \in User, HandleSignIn(k, u) PROVE WaitOK'
  <2>1. Others(k) /\ Turned(k) /\ chains'[k].stage = "signIn" /\ ahead'[k] = OnMain \ {k}
    BY <1>1, <1>2, StartFacts DEF HandleSignIn
  <2> QED BY <1>2, <2>1, WaitMoves DEF HandleSignIn, Free, Told, history
<1>3. CASE AuthSignsIn(k) \/ SignInSucceeds(k)
  <2>1. Others(k)
    BY <1>1, <1>3, GoFacts DEF AuthSignsIn, SignInSucceeds
  <2> QED BY <1>3, <2>1, WaitChanges DEF AuthSignsIn, SignInSucceeds
<1>4. CASE SignInFails(k)
  <2>1. Others(k) /\ chains'[k].stage = "idle"
    BY <1>1, <1>4, EndFacts DEF SignInFails
  <2> QED BY <1>4, <2>1, WaitTurn DEF SignInFails, At, Under, Told, history
<1>5. CASE NameArrives(k)
  <2>1. Others(k) /\ chains'[k].stage = "idle"
    BY <1>1, <1>5, EndFacts DEF NameArrives
  <2>2. /\ mixed' = (mixed /\ ~(Alone(k) /\ prompt = NoAlert /\ auth = chains[k].uid))
        /\ chains[k].stage = "name" /\ ahead[k] = {} /\ prompt' = prompt
    BY <1>5 DEF NameArrives, At, Under
  <2>3. CASE ~mixed' /\ mixed
    <3>1. \A j \in Chain : chains'[j].stage = "idle"
      BY <2>1, <2>2, <2>3 DEF Alone, Others
    <3> QED BY <3>1 DEF WaitOK, Told
  <2>4. CASE ~mixed' => ~mixed
    BY <2>1, <2>2, <2>4, WaitTurn DEF Told
  <2> QED BY <2>3, <2>4
<1>6. CASE NameTraps(k)
  BY <1>6, WaitRests DEF NameTraps, history
<1> QED BY <1>2, <1>3, <1>4, <1>5, <1>6 DEF LoginStep

LEMMA WaitSignUp ==
  ASSUME NamesInv, NEW k \in Chain, SignUpStep(k)
  PROVE  WaitOK'
<1>1. /\ SessionInv /\ ChainsOK /\ NoTea \in Tea \union {NoTea}
      /\ auth \in User \union {NoUser} /\ prompt.tea \in Tea \union {NoTea}
      /\ {"providers", "create", "created", "commit", "set", "mail", "reload", "loaded", "refresh"}
           \subseteq Stage
  BY NamesFacts DEF NamesInv, Stage
<1>2. ASSUME NEW u \in User, NEW t \in Tea, CreateNewButton(k, u, t) PROVE WaitOK'
  <2>1. Others(k) /\ Turned(k) /\ chains'[k].stage = "providers" /\ ahead'[k] = OnMain \ {k}
    BY <1>1, <1>2, StartFacts DEF CreateNewButton
  <2> QED BY <1>2, <2>1, WaitMoves DEF CreateNewButton, Free, Told, history
<1>3. CASE AuthCreates(k) \/ CreateSucceeds(k)
  <2>1. /\ chains[k].tea \in Tea \union {NoTea} /\ prompt' = prompt
        /\ mixed' = (mixed \/ ~Alone(k) \/ prompt # NoAlert)
    BY <1>1, <1>3, AwaitedUid DEF AuthCreates, CreateSucceeds, At, Under
  <2>2. \/ End(k) \/ Start(k, "commit", auth, chains[k].tea)
        \/ \E u \in User : Start(k, "created", u, chains[k].tea)
    BY <1>3 DEF AuthCreates, CreateSucceeds
  <2>3. Others(k)
    BY <1>1, <2>1, <2>2, EndFacts, StartFacts
  <2> QED BY <2>1, <2>3, WaitChanges
<1>4. CASE DeleteSucceeds(k)
  <2>1. Others(k)
    BY <1>1, <1>4, EndFacts DEF DeleteSucceeds
  <2> QED BY <1>4, <2>1, WaitChanges DEF DeleteSucceeds
<1>5. CASE CreateFails(k) \/ CommitFails(k)
  <2>1. /\ DeleteAuth(k) /\ mixed' = mixed /\ ahead[k] = {} /\ chains[k].stage \in {"create", "commit", "set"}
    BY <1>5 DEF CreateFails, CommitFails, GiveUp, At, Under, history
  <2>2. Others(k) /\ chains'[k].stage \in {"idle", "delete"}
    BY <1>1, <2>1, DeleteFacts
  <2> QED BY <2>1, <2>2, WaitTurn DEF Told
<1>6. CASE CloseUsed(k) \/ CancelUnverified(k)
  <2>1. DeleteAuth(k) /\ mixed' = mixed /\ prompt' = NoAlert /\ chains[k].stage = "idle"
    BY <1>6 DEF CloseUsed, CancelUnverified, Free, history
  <2>2. /\ Others(k) /\ Turned(k)
        /\ chains'[k].stage = "idle" \/ (chains'[k].stage = "delete" /\ ahead'[k] = OnMain \ {k})
    BY <1>1, <2>1, DeleteFacts
  <2> QED BY <2>1, <2>2, WaitMoves DEF Told
<1>7. CASE ProvidersAnswer(k) \/ CommitSucceeds(k) \/ MailSucceeds(k) \/ MailFails(k) \/ SaveSucceeds(k)
  <2>1. /\ mixed' = mixed /\ ahead[k] = {} /\ chains[k].stage \in {"providers", "set", "mail", "save"}
    BY <1>7 DEF ProvidersAnswer, CommitSucceeds, MailSucceeds, MailFails, SaveSucceeds, At, Under, history
  <2>2. chains[k].tea \in Tea \union {NoTea}
    BY <1>1, <2>1, AwaitedUid
  <2>3. End(k) \/ Go(k, "create") \/ Start(k, "mail", auth, chains[k].tea)
    BY <1>7 DEF ProvidersAnswer, CommitSucceeds, MailSucceeds, MailFails, SaveSucceeds
  <2>4. Others(k) /\ chains'[k].stage \in {"idle", "create", "mail"}
    BY <1>1, <2>2, <2>3, EndFacts, GoFacts, StartFacts
  <2> QED BY <2>1, <2>4, WaitTurn DEF Told
<1>8. CASE AccountLoaded(k) \/ FailsSilently(k)
  <2>1. /\ mixed' = mixed /\ prompt' = prompt /\ ~Told(k)
        /\ End(k) \/ Go(k, "set") \/ Go(k, "loaded")
    BY <1>8 DEF AccountLoaded, FailsSilently, Told, history
  <2>2. /\ Others(k) /\ Turned(k)
        /\ \/ chains'[k].stage = "idle"
           \/ chains'[k].stage \in {"set", "loaded"} /\ ahead'[k] = OnMain \ {k}
    BY <1>1, <2>1, EndFacts, GoFacts
  <2> QED BY <2>1, <2>2, WaitMoves
<1>9. CASE MailSent(k)
  BY <1>9, WaitRests DEF MailSent, history
<1>10. CASE OkVerify(k) \/ OkUnverified(k)
  <2>1. /\ mixed' = mixed /\ prompt' = NoAlert /\ ~Told(k)
        /\ \/ UNCHANGED callbacks \/ SaveIfVerified(k, prompt.tea)
           \/ Start(k, "reload", auth, prompt.tea) \/ Start(k, "refresh", auth, NoTea)
    BY <1>10 DEF OkVerify, OkUnverified, Free, Told, history
  <2>2. CASE UNCHANGED callbacks
    BY <2>1, <2>2, WaitRests
  <2>3. CASE ~UNCHANGED callbacks
    <3>1. /\ Others(k) /\ Turned(k)
          /\ \/ chains'[k].stage = "idle"
             \/ chains'[k].stage \in {"reload", "refresh", "save"} /\ ahead'[k] = OnMain \ {k}
      BY <1>1, <2>1, <2>3, StartFacts, SaveFacts
    <3> QED BY <2>1, <3>1, WaitMoves
  <2> QED BY <2>2, <2>3
<1>11. CASE ReloadSucceeds(k)
  <2>1. /\ mixed' = mixed /\ ahead[k] = {} /\ chains[k].stage = "loaded"
        /\ auth = NoUser => UNCHANGED <<callbacks, prompt>>
        /\ auth # NoUser => SaveIfVerified(k, chains[k].tea)
    BY <1>11 DEF ReloadSucceeds, At, Under, history
  <2>2. CASE auth = NoUser
    BY <2>1, <2>2, WaitRests
  <2>3. CASE auth # NoUser
    <3>1. chains[k].tea \in Tea \union {NoTea}
      BY <1>1, <2>1, AwaitedUid
    <3>2. Others(k) /\ chains'[k].stage \in {"idle", "save"}
      BY <1>1, <2>1, <2>3, <3>1, SaveFacts
    <3> QED BY <2>1, <3>2, WaitTurn DEF Told
  <2> QED BY <2>2, <2>3
<1> QED BY <1>2, <1>3, <1>4, <1>5, <1>6, <1>7, <1>8, <1>9, <1>10, <1>11 DEF SignUpStep

LEMMA WaitTea ==
  ASSUME NamesInv, NEW k \in Chain, TeaStep(k)
  PROVE  WaitOK'
<1>1. /\ ChainsOK /\ auth \in User \union {NoUser} /\ "tea" \in Stage
  BY NamesFacts DEF NamesInv, Stage
<1>2. ASSUME NEW t \in Tea, Salvar(k, t) PROVE WaitOK'
  <2>1. Others(k) /\ Turned(k) /\ chains'[k].stage = "tea" /\ ahead'[k] = OnMain \ {k}
    BY <1>1, <1>2, WriteFacts DEF Salvar
  <2> QED BY <1>2, <2>1, WaitMoves DEF Salvar, Free, Told, history
<1>3. CASE TeaSaved(k) \/ QueuedWrite(k)
  <2>1. /\ End(k) /\ mixed' = mixed /\ prompt' = prompt /\ ~Told(k)
    BY <1>3 DEF TeaSaved, QueuedWrite, At, Under, Told, history
  <2>2. Others(k) /\ Turned(k) /\ chains'[k].stage = "idle"
    BY <1>1, <2>1, EndFacts
  <2> QED BY <2>1, <2>2, WaitMoves
<1> QED BY <1>2, <1>3 DEF TeaStep

LEMMA WaitNext ==
  ASSUME NamesInv, [Next]_vars
  PROVE  WaitOK'
<1>1. CASE AuthReloads \/ SplashPasses \/ Navigate \/ CloseOops \/ Resend \/ UNCHANGED vars
  BY <1>1, WaitRests DEF AuthReloads, SplashPasses, Navigate, CloseOops, Resend, vars, history, callbacks
<1>2. ASSUME NEW u \in User, Verify(u) PROVE WaitOK'
  BY <1>2, WaitRests DEF Verify, history
<1>3. CASE SignOut
  <2>1. /\ mixed' = (mixed \/ \E k \in Chain : chains[k].stage # "idle") /\ chains' = chains
    BY <1>3 DEF SignOut, callbacks
  <2>2. ~mixed' => \A j \in Chain : ~Told(j)'
    BY <2>1 DEF Told
  <2> QED BY <2>2 DEF WaitOK
<1>4. CASE Relaunch
  <2>1. \A j \in Chain : ~Told(j)'
    BY <1>4 DEF Relaunch, Told, Idle
  <2> QED BY <2>1 DEF WaitOK
<1>5. ASSUME NEW k \in Chain, LoginStep(k) \/ SignUpStep(k) \/ TeaStep(k) PROVE WaitOK'
  BY <1>5, WaitLogin, WaitSignUp, WaitTea
<1> QED BY <1>1, <1>2, <1>3, <1>4, <1>5 DEF Next

-----------------------------------------------------------------------------
(* The whole *)

LEMMA NamesNext ==
  ASSUME NamesInv, [Next]_vars
  PROVE  FreshOK' /\ ScreenOK' /\ FlowOK' /\ AwayOK'
<1>1. SessionInv /\ ScreenOK
  BY DEF NamesInv
<1>2. Calm => FreshOK' /\ ScreenOK' /\ FlowOK' /\ AwayOK'
  <2>1. fore' \subseteq Chain
    BY <1>1, PlaceNext DEF PlaceOK
  <2> QED BY <2>1, CalmKeeps
<1>3. CASE AuthReloads \/ SplashPasses \/ Navigate \/ CloseOops \/ Resend \/ UNCHANGED vars
  BY <1>1, <1>2, <1>3, CalmScreens
<1>4. ASSUME NEW u \in User, Verify(u) PROVE Calm
  BY <1>1, <1>4, CalmScreens
<1>5. CASE SignOut
  BY <1>5, SignOutKeeps
<1>6. CASE Relaunch
  BY <1>6, RelaunchKeeps
<1>7. ASSUME NEW k \in Chain, LoginStep(k) PROVE FreshOK' /\ ScreenOK' /\ FlowOK' /\ AwayOK'
  <2>1. ASSUME NEW u \in User, HandleSignIn(k, u) PROVE Calm
    <3>1. CASE Tea = {}
      <4>1. /\ UNCHANGED <<username, auth, displayName, mixed, abandoned, used, prompt, view>>
            /\ fore' = fore \union {k} /\ chains[k].stage = "idle" /\ view = "login"
        BY <2>1 DEF HandleSignIn, Fore, Free, Touchable, service, identity, history
      <4>2. chains'[k].stage = "signIn" /\ Others(k)
        <5>1. ChainsOK /\ "signIn" \in Stage /\ NoTea \in Tea \union {NoTea}
          BY <1>1, NamesFacts DEF Stage
        <5> QED BY <2>1, <5>1, StartFacts DEF HandleSignIn
      <4>3. \A j \in Chain :
               \/ chains'[j] = chains[j]
               \/ chains[j].stage \notin {"signedIn", "name"} /\ chains'[j].stage \in {"idle", "signIn", "delete"}
               \/ chains[j].stage = "idle" /\ chains'[j].stage = "providers" /\ view = "signup"
               \/ chains[j].stage = "providers" /\ chains'[j].stage = "create"
        BY <1>1, <4>1, <4>2, CalmChain
      <4> QED BY <4>1, <4>2, <4>3 DEF Calm
    <3>2. ASSUME NEW t \in Tea PROVE Calm
      BY <1>1, <2>1, CalmStarts
    <3> QED BY <3>1, <3>2
  <2>2. CASE AuthSignsIn(k) \/ SignInSucceeds(k)
    BY <2>2, AuthSignsInKeeps, SignInKeeps
  <2>3. CASE NameArrives(k)
    BY <2>3, NameKeeps
  <2>4. CASE SignInFails(k) \/ NameTraps(k)
    BY <1>1, <1>2, <2>4, CalmEnds
  <2> QED BY <1>2, <1>7, <2>1, <2>2, <2>3, <2>4 DEF LoginStep
<1>8. ASSUME NEW k \in Chain, SignUpStep(k) PROVE FreshOK' /\ ScreenOK' /\ FlowOK' /\ AwayOK'
  <2>1. ASSUME NEW u \in User, NEW t \in Tea, CreateNewButton(k, u, t) PROVE Calm
    BY <1>1, <2>1, CalmStarts
  <2>2. CASE AuthCreates(k)
    BY <2>2, AuthCreatesKeeps
  <2>3. CASE CreateFails(k) \/ CommitFails(k) \/ CloseUsed(k) \/ CancelUnverified(k)
    BY <1>1, <1>2, <2>3, CalmDeletes
  <2>4. CASE \/ CreateSucceeds(k) \/ AccountLoaded(k) \/ CommitSucceeds(k) \/ MailSucceeds(k)
             \/ OkVerify(k) \/ OkUnverified(k) \/ ReloadSucceeds(k)
    BY <1>2, <2>4, AdvanceSteps, AdvanceKeeps
  <2>5. CASE SaveSucceeds(k)
    BY <2>5, SaveKeeps
  <2>6. CASE DeleteSucceeds(k)
    BY <2>6, DeleteKeeps
  <2>7. CASE ProvidersAnswer(k) \/ MailSent(k) \/ MailFails(k) \/ FailsSilently(k)
    BY <1>1, <1>2, <2>7, CalmEnds
  <2> QED BY <1>2, <1>8, <2>1, <2>2, <2>3, <2>4, <2>5, <2>6, <2>7 DEF SignUpStep
<1>9. ASSUME NEW k \in Chain, TeaStep(k) PROVE FreshOK' /\ ScreenOK' /\ FlowOK' /\ AwayOK'
  BY <1>9, SalvarKeeps, TeaKeeps DEF TeaStep
<1> QED BY <1>2, <1>3, <1>4, <1>5, <1>6, <1>7, <1>8, <1>9 DEF Next

LEMMA NamesInit == Init => NamesInv
<1> SUFFICES ASSUME Init PROVE NamesInv
  OBVIOUS
<1>1. \A k \in Chain : chains[k].stage = "idle"
  BY DEF Init, Idle
<1>2. prompt.kind = "none" /\ prompt = NoAlert /\ fore = {} /\ auth = NoUser /\ used = Known
  BY DEF Init, NoAlert
<1>3. ~Asking /\ ~Naming /\ ~Hot /\ ~Profiled /\ \A k \in Chain : ~Flow(k)
  BY <1>1, <1>2 DEF Asking, Naming, Hot, Flow, Profiled, Named, Asked
<1>4. FreshOK
  BY <1>1, <1>2 DEF Init, FreshOK
<1>5. ScreenOK
  BY <1>2, <1>3 DEF ScreenOK
<1>6. FlowOK
  BY <1>1, <1>3 DEF FlowOK
<1>7. AwayOK
  BY <1>1, <1>3 DEF AwayOK, SignUp
<1>8. WaitOK
  BY <1>1 DEF WaitOK, Told
<1> QED BY <1>4, <1>5, <1>6, <1>7, <1>8, SessionInit DEF NamesInv

LEMMA NamesInvariant == Spec => []NamesInv
<1>1. NamesInv /\ [Next]_vars => NamesInv'
  <2> SUFFICES ASSUME NamesInv, [Next]_vars PROVE NamesInv'
    OBVIOUS
  <2>1. SessionInv'
    BY ServiceNext, IdentityNext, PlaceNext, ChainsNext, AgreeNext DEF SessionInv, NamesInv
  <2> QED BY <2>1, NamesNext, WaitNext DEF NamesInv
<1> QED BY <1>1, NamesInit, PTL DEF Spec

\* When the app was told of every change of Auth's account, whatever sign-ins,
\* sign-ups, deletions and logouts overlapped, UserManager's user is the one who
\* is signed in, if somebody is; and the name on the profile is that of the
\* user's document, when nothing is awaited and nothing was when the account
\* changed or the app was launched.
THEOREM UsersAgreeAlways == Spec => []UsersAgree
<1>1. NamesInv => UsersAgree
  <2> SUFFICES ASSUME NamesInv PROVE UsersAgree
    OBVIOUS
  <2>1. auth # NoUser /\ (\A k \in Chain : ~Told(k)) => currentUser = auth
    BY DEF NamesInv, SessionInv, AgreeOK, LastTold
  <2>2. ASSUME ~mixed, \A k \in Chain : chains[k].stage = "idle", auth # NoUser, username[auth] # NoTea
        PROVE  displayName = username[auth]
    <3>1. ~Naming /\ Profiled
      BY <2>2 DEF Naming, Profiled
    <3> QED BY <2>2, <3>1 DEF NamesInv, FlowOK
  <2> QED BY <2>1, <2>2 DEF UsersAgree
<1> QED BY <1>1, NamesInvariant, PTL

\* A chain that asks for the deletion of the account that is signed in does so
\* while that account has no profile, unless an answer came off its screen or
\* beside another chain.
Spares ==
  \A k \in Chain :
    chains'[k].stage = "delete" /\ chains[k].stage # "delete" /\ ~mixed /\ ~abandoned =>
      username[chains'[k].uid] = NoTea

LEMMA DeletesNew ==
  ASSUME NamesInv, NEW k \in Chain,
         CreateFails(k) \/ CommitFails(k) \/ CloseUsed(k) \/ CancelUnverified(k)
  PROVE  Spares
<1> USE DEF NamesInv
<1>1. DeleteAuth(k)
  BY CalmDeletes
<1>2. /\ \A j \in Chain : j # k => chains'[j] = chains[j]
      /\ chains'[k].stage = "delete" => auth # NoUser /\ chains'[k].uid = auth
  BY <1>1, DeleteFacts DEF Others
<1>3. ASSUME NEW j \in Chain, Told(j), ~mixed
      PROVE  prompt = NoAlert /\ \A i \in Chain \ {j} : chains[i].stage = "idle" \/ j \in ahead[i]
  BY <1>3 DEF WaitOK
<1>4. CASE CreateFails(k) \/ CommitFails(k)
  <2>1. chains[k].stage \in SignUp
    BY <1>4 DEF CreateFails, CommitFails, At, Under, SignUp
  <2>2. ~mixed => ~Entering
    <3>1. ahead[k] = {} /\ chains[k].stage \in {"create", "commit", "set"}
      BY <1>4 DEF CreateFails, CommitFails, At, Under
    <3>2. ~mixed => \A j \in Chain : ~Told(j)
      BY <1>3, <3>1 DEF Told
    <3> QED BY <3>2 DEF Entering, Told
  <2>3. ~mixed /\ ~abandoned => ~Profiled
    BY <2>1, <2>2 DEF AwayOK
  <2> QED BY <1>2, <2>3 DEF Spares, Profiled
<1>5. CASE CloseUsed(k) \/ CancelUnverified(k)
  <2>1. prompt # NoAlert
    BY <1>5 DEF CloseUsed, CancelUnverified, Pressed, NoAlert
  <2>2. ~Home
    BY <2>1 DEF ScreenOK, Home
  <2>3. ~mixed => ~Entering
    BY <1>3, <2>1 DEF Entering, Told
  <2>4. ~mixed /\ ~abandoned => ~Profiled
    BY <2>2, <2>3 DEF AwayOK
  <2> QED BY <1>2, <2>4 DEF Spares, Profiled
<1> QED BY <1>4, <1>5

\* No chain begins to ask for a deletion.
Harmless == \A k \in Chain : chains'[k].stage = "delete" => chains[k].stage = "delete"

LEMMA HarmlessChain ==
  ASSUME NEW k \in Chain, Others(k), chains'[k].stage # "delete"
  PROVE  Harmless
BY DEF Others, Harmless

LEMMA HarmlessScreens ==
  ASSUME NEW u,
         \/ AuthReloads \/ SplashPasses \/ Navigate \/ CloseOops \/ Resend \/ SignOut \/ Relaunch
         \/ Verify(u) \/ UNCHANGED vars
  PROVE  Harmless
<1>1. CASE Relaunch
  <2> SUFFICES ASSUME NEW k \in Chain PROVE chains'[k].stage = "delete" => chains[k].stage = "delete"
    BY DEF Harmless
  <2>1. CASE chains[k].stage \in {"save", "tea", "write"}
    <3>1. chains'[k] = [chains[k] EXCEPT !.stage = "write"]
      BY <1>1, <2>1 DEF Relaunch
    <3> QED BY <2>1, <3>1
  <2>2. CASE chains[k].stage \notin {"save", "tea", "write"}
    BY <1>1, <2>2 DEF Relaunch, Idle
  <2> QED BY <2>1, <2>2
<1>2. CASE ~Relaunch
  BY <1>2 DEF AuthReloads, SplashPasses, Navigate, CloseOops, Resend, SignOut, Verify, vars, callbacks,
     Harmless
<1> QED BY <1>1, <1>2

LEMMA HarmlessChains ==
  ASSUME SessionInv, NEW k \in Chain, LoginStep(k) \/ SignUpStep(k) \/ TeaStep(k)
  PROVE  Harmless \/ CreateFails(k) \/ CommitFails(k) \/ CloseUsed(k) \/ CancelUnverified(k)
<1>1. /\ ChainsOK /\ auth \in User \union {NoUser} /\ NoTea \in Tea \union {NoTea}
      /\ prompt.tea \in Tea \union {NoTea} /\ User \subseteq User \union {NoUser}
  BY NamesFacts
<1>2. {"signIn", "signedIn", "name", "providers", "create", "created", "commit", "set", "mail", "reload",
       "loaded", "refresh", "tea"} \subseteq Stage
  BY DEF Stage
<1>3. ASSUME NEW u \in User, HandleSignIn(k, u) PROVE Harmless
  BY <1>1, <1>2, <1>3, StartFacts, HarmlessChain DEF HandleSignIn
<1>4. ASSUME NEW u \in User, NEW t \in Tea, CreateNewButton(k, u, t) PROVE Harmless
  BY <1>1, <1>2, <1>4, StartFacts, HarmlessChain DEF CreateNewButton
<1>5. ASSUME NEW t \in Tea, Salvar(k, t) PROVE Harmless
  BY <1>1, <1>2, <1>5, WriteFacts, HarmlessChain DEF Salvar
<1>6. CASE NameTraps(k) \/ MailSent(k)
  BY <1>6 DEF NameTraps, MailSent, callbacks, Harmless
<1>7. CASE AuthCreates(k) \/ CreateSucceeds(k) \/ CommitSucceeds(k)
  <2>1. chains[k].tea \in Tea \union {NoTea}
    BY <1>7, AwaitedUid DEF AuthCreates, CreateSucceeds, CommitSucceeds, At, Under
  <2>2. \/ End(k) \/ Start(k, "commit", auth, chains[k].tea) \/ Start(k, "mail", auth, chains[k].tea)
        \/ \E u \in User : Start(k, "created", u, chains[k].tea)
    BY <1>7 DEF AuthCreates, CreateSucceeds, CommitSucceeds
  <2>3. Others(k) /\ chains'[k].stage \in {"idle", "created", "commit", "mail"}
    BY <1>1, <1>2, <2>1, <2>2, EndFacts, StartFacts
  <2> QED BY <2>3, HarmlessChain
<1>8. CASE AuthSignsIn(k) \/ SignInSucceeds(k) \/ ProvidersAnswer(k) \/ AccountLoaded(k)
  <2>1. \/ End(k) \/ Go(k, "signedIn") \/ Go(k, "name") \/ Go(k, "create") \/ Go(k, "set")
        \/ Go(k, "loaded")
    BY <1>8 DEF AuthSignsIn, SignInSucceeds, ProvidersAnswer, AccountLoaded
  <2> QED BY <1>1, <1>2, <2>1, EndFacts, GoFacts, HarmlessChain
<1>9. CASE \/ SignInFails(k) \/ NameArrives(k) \/ MailSucceeds(k) \/ MailFails(k) \/ SaveSucceeds(k)
           \/ DeleteSucceeds(k) \/ FailsSilently(k) \/ TeaSaved(k) \/ QueuedWrite(k)
  <2>1. End(k)
    BY <1>9 DEF SignInFails, NameArrives, MailSucceeds, MailFails, SaveSucceeds,
       DeleteSucceeds, FailsSilently, TeaSaved, QueuedWrite
  <2> QED BY <1>1, <2>1, EndFacts, HarmlessChain
<1>10. CASE OkVerify(k) \/ OkUnverified(k) \/ ReloadSucceeds(k)
  <2>1. ReloadSucceeds(k) => chains[k].tea \in Tea \union {NoTea}
    BY AwaitedUid DEF ReloadSucceeds, At, Under
  <2>2. \/ UNCHANGED chains
        \/ Start(k, "reload", auth, prompt.tea) \/ Start(k, "refresh", auth, NoTea)
        \/ \E tea \in Tea \union {NoTea} : SaveIfVerified(k, tea)
    BY <1>1, <1>10, <2>1 DEF OkVerify, OkUnverified, ReloadSucceeds, callbacks
  <2>3. CASE UNCHANGED chains
    BY <2>3 DEF Harmless
  <2>4. CASE Start(k, "reload", auth, prompt.tea) \/ Start(k, "refresh", auth, NoTea)
    BY <1>1, <1>2, <2>4, StartFacts, HarmlessChain
  <2>5. ASSUME NEW tea \in Tea \union {NoTea}, SaveIfVerified(k, tea) PROVE Harmless
    BY <2>5, SaveFacts, HarmlessChain
  <2> QED BY <2>2, <2>3, <2>4, <2>5
<1> QED BY <1>3, <1>4, <1>5, <1>6, <1>7, <1>8, <1>9, <1>10 DEF LoginStep, SignUpStep, TeaStep

\* The sign-up, that deletes the account that is signed in in five places, asks
\* for no deletion of an account whose profile is saved, but when an answer came
\* off its screen or beside another chain.
THEOREM ProfiledNotDeletedAlways == Spec => ProfiledNotDeleted
<1>1. NamesInv /\ [Next]_vars => Spares
  <2> SUFFICES ASSUME NamesInv, [Next]_vars PROVE Spares
    OBVIOUS
  <2>1. Harmless => Spares
    BY DEF Harmless, Spares
  <2>2. SessionInv
    BY DEF NamesInv
  <2>3. ASSUME NEW k \in Chain, LoginStep(k) \/ SignUpStep(k) \/ TeaStep(k) PROVE Spares
    BY <2>1, <2>2, <2>3, HarmlessChains, DeletesNew
  <2>4. CASE \/ AuthReloads \/ SplashPasses \/ Navigate \/ CloseOops \/ Resend \/ SignOut \/ Relaunch
             \/ UNCHANGED vars
    BY <2>1, <2>4, HarmlessScreens
  <2>5. ASSUME NEW u \in User, Verify(u) PROVE Spares
    BY <2>1, <2>5, HarmlessScreens
  <2> QED BY <2>3, <2>4, <2>5 DEF Next
<1>2. NamesInv /\ [Next]_vars => [\A k \in Chain :
       chains'[k].stage = "delete" /\ chains[k].stage # "delete"
         /\ ~mixed /\ ~abandoned =>
         username[chains'[k].uid] = NoTea]_vars
  BY <1>1 DEF Spares
<1> QED BY <1>2, NamesInvariant, PTL DEF Spec, ProfiledNotDeleted

=============================================================================
