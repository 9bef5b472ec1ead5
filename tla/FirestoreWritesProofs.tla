----------------------- MODULE FirestoreWritesProofs -----------------------
(***************************************************************************)
(* What the way of a write keeps, for any accounts, any number of writes   *)
(* and troubles, any bound of the pipeline, and however the three queues   *)
(* are interleaved.  The proof is one inductive invariant, in five parts   *)
(* that lean on each other:                                                *)
(*                                                                         *)
(*   TokenInv     follows a change of account down the queues: the last    *)
(*                one on the main queue is the account of FIRAuth, the     *)
(*                last one on the worker queue the user of the provider,   *)
(*                and a token that was not aborted stands on the worker    *)
(*                queue behind the change to its own user;                 *)
(*   PipelineInv  fits the pipeline, the stream and its RPC together, and  *)
(*   LiveInv      the one request that a starting stream waits for;        *)
(*   QueueInv     orders the batches of an account, on disk and on their   *)
(*                way to it, by the writes they are of: the pipeline is    *)
(*                the beginning of the queue;                              *)
(*   LogInv       is about what the server applied, what it refused and    *)
(*                what the application was told, against the queue.        *)
(*                                                                         *)
(* From it come the properties of FirestoreWrites, and that every step is  *)
(* one of the abstract WriteQueues.                                        *)
(***************************************************************************)
EXTENDS FirestoreWrites, FiniteSetTheorems, TLAPS

\* u is the user of the last block of that kind before the i-th of a queue, or
\* base if none is.
Leads(seq, kind, base, i, u) ==
  \/ \E j \in 1..(i - 1) : /\ seq[j].kind = kind /\ seq[j].user = u
                           /\ \A k \in (j + 1)..(i - 1) : seq[k].kind # kind
  \/ u = base /\ \A k \in 1..(i - 1) : seq[k].kind # kind

NoneOf(seq, kind, i) == \A k \in 1..(i - 1) : seq[k].kind # kind

StreamTypeOK ==
  /\ CredentialsTypeOK
  /\ user \in User /\ made \in Seq(User)
  /\ "bearer" \in DOMAIN call

AuthIsAhead == Leads(main, "state", provider.user, Len(main) + 1, auth)
ProviderIsAhead == Leads(worker, "change", user, Len(worker) + 1, provider.user)

CountersBehind ==
  /\ \A r \in asked : r.counter <= provider.counter
  /\ \A i \in 1..Len(main) : main[i].kind = "token" => main[i].counter <= provider.counter

\* What the counter is worth, for a request and for an answer.
TakenForProvider ==
  \A r \in asked :
    r.taken /\ r.counter = provider.counter /\ NoneOf(main, "state", Len(main) + 1)
      => r.user = provider.user
AnsweredForProvider ==
  \A i \in 1..Len(main) :
    main[i].kind = "token" /\ main[i].counter = provider.counter /\ NoneOf(main, "state", i)
      => main[i].user = provider.user

TokensInLine ==
  \A i \in 1..Len(worker) :
    worker[i].kind = "token" /\ worker[i].ok => Leads(worker, "change", user, i, worker[i].user)

TokenInv ==
  /\ StreamTypeOK /\ StreamServesItsUser
  /\ AuthIsAhead /\ ProviderIsAhead
  /\ CountersBehind /\ TakenForProvider /\ AnsweredForProvider
  /\ TokensInLine

-----------------------------------------------------------------------------
(* Queues *)

\* A block at the end changes nothing of what is before it.
LEMMA LeadsAppend ==
  ASSUME NEW S, NEW seq \in Seq(S), NEW b \in S, NEW kind, NEW base, NEW u,
         NEW i \in 1..(Len(seq) + 1), Leads(seq, kind, base, i, u)
  PROVE  Leads(Append(seq, b), kind, base, i, u)
<1>1. \A k \in 1..(i - 1) : Append(seq, b)[k] = seq[k]
  OBVIOUS
<1>2. \A j \in 1..(i - 1), k \in Int : k \in (j + 1)..(i - 1) => k \in 1..(i - 1)
  OBVIOUS
<1> QED BY <1>1, <1>2 DEF Leads

\* A block of another kind at the end leaves the last one of this kind.
LEMMA LeadsPastOther ==
  ASSUME NEW S, NEW seq \in Seq(S), NEW b \in S, NEW kind, NEW base, NEW u,
         Leads(seq, kind, base, Len(seq) + 1, u), b.kind # kind
  PROVE  Leads(Append(seq, b), kind, base, Len(Append(seq, b)) + 1, u)
<1>1. Len(Append(seq, b)) = Len(seq) + 1 /\ Len(seq) \in Nat
  OBVIOUS
<1>2. \A k \in 1..Len(seq) : Append(seq, b)[k] = seq[k]
  OBVIOUS
<1>3. Append(seq, b)[Len(seq) + 1] = b
  OBVIOUS
<1> QED BY <1>1, <1>2, <1>3 DEF Leads

\* A block of this kind at the end is the last one.
LEMMA LeadsPastSame ==
  ASSUME NEW S, NEW seq \in Seq(S), NEW b \in S, NEW kind, NEW base, b.kind = kind
  PROVE  Leads(Append(seq, b), kind, base, Len(Append(seq, b)) + 1, b.user)
<1>1. Len(Append(seq, b)) = Len(seq) + 1 /\ Append(seq, b)[Len(seq) + 1] = b
  OBVIOUS
<1>2. Len(seq) + 1 \in 1..(Len(seq) + 1 + 1 - 1)
  OBVIOUS
<1>3. \A k \in Int : k \notin (Len(seq) + 1 + 1)..(Len(seq) + 1 + 1 - 1)
  OBVIOUS
<1> QED BY <1>1, <1>2, <1>3 DEF Leads

LEMMA TailBlocks ==
  ASSUME NEW S, NEW seq \in Seq(S), seq # <<>>
  PROVE  /\ Len(Tail(seq)) \in Nat /\ Len(seq) = Len(Tail(seq)) + 1
         /\ \A k \in 1..Len(Tail(seq)) : Tail(seq)[k] = seq[k + 1]
         /\ Head(seq) = seq[1] /\ Tail(seq) \in Seq(S) /\ Head(seq) \in S
OBVIOUS

\* The first block is of another kind: it is taken, and nothing changes.
LEMMA LeadsTailOther ==
  ASSUME NEW S, NEW seq \in Seq(S), seq # <<>>, NEW kind, NEW base, NEW u,
         NEW i \in 1..(Len(Tail(seq)) + 1), Leads(seq, kind, base, i + 1, u),
         Head(seq).kind # kind
  PROVE  Leads(Tail(seq), kind, base, i, u)
<1>1. Len(Tail(seq)) \in Nat /\ Head(seq) = seq[1]
      /\ \A k \in 1..(i - 1) : Tail(seq)[k] = seq[k + 1]
  BY TailBlocks
<1>2. CASE \E j \in 1..i : /\ seq[j].kind = kind /\ seq[j].user = u
                           /\ \A k \in (j + 1)..i : seq[k].kind # kind
  <2>1. PICK j \in 1..i : /\ seq[j].kind = kind /\ seq[j].user = u
                          /\ \A k \in (j + 1)..i : seq[k].kind # kind
    BY <1>2
  <2>2. j - 1 \in 1..(i - 1) /\ Tail(seq)[j - 1] = seq[j]
    BY <1>1, <2>1
  <2>3. ASSUME NEW k \in (j - 1 + 1)..(i - 1) PROVE Tail(seq)[k].kind # kind
    <3>1. k \in 1..(i - 1) /\ k + 1 \in (j + 1)..i
      BY <1>1
    <3> QED BY <1>1, <2>1, <3>1
  <2> QED BY <2>1, <2>2, <2>3 DEF Leads
<1>3. CASE u = base /\ \A k \in 1..i : seq[k].kind # kind
  <2>1. \A k \in 1..(i - 1) : k + 1 \in 1..i
    BY <1>1
  <2> QED BY <1>1, <1>3, <2>1 DEF Leads
<1>4. i + 1 - 1 = i
  BY <1>1
<1> QED BY <1>2, <1>3, <1>4 DEF Leads

\* The first block is of this kind: it is taken, and its user is the new base.
LEMMA LeadsTailSame ==
  ASSUME NEW S, NEW seq \in Seq(S), seq # <<>>, NEW kind, NEW base, NEW u,
         NEW i \in 1..(Len(Tail(seq)) + 1), Leads(seq, kind, base, i + 1, u),
         Head(seq).kind = kind
  PROVE  Leads(Tail(seq), kind, Head(seq).user, i, u)
<1>1. Len(Tail(seq)) \in Nat /\ Head(seq) = seq[1]
      /\ \A k \in 1..(i - 1) : Tail(seq)[k] = seq[k + 1]
  BY TailBlocks
<1>2. i + 1 - 1 = i /\ 1 \in 1..i
  BY <1>1
<1>3. PICK j \in 1..i : /\ seq[j].kind = kind /\ seq[j].user = u
                        /\ \A k \in (j + 1)..i : seq[k].kind # kind
  BY <1>1, <1>2 DEF Leads
<1>4. ASSUME NEW k \in Int, k >= j, k <= i - 1 PROVE Tail(seq)[k].kind # kind
  <2>1. k \in 1..(i - 1) /\ k + 1 \in (j + 1)..i
    BY <1>1, <1>4
  <2> QED BY <1>1, <1>3, <2>1
<1>5. CASE j = 1
  BY <1>1, <1>3, <1>4, <1>5 DEF Leads
<1>6. CASE j # 1
  <2>1. j - 1 \in 1..(i - 1) /\ Tail(seq)[j - 1] = seq[j]
    BY <1>1, <1>6
  <2>2. \A k \in (j - 1 + 1)..(i - 1) : Tail(seq)[k].kind # kind
    BY <1>4
  <2> QED BY <1>3, <2>1, <2>2 DEF Leads
<1> QED BY <1>5, <1>6

\* Nothing is before the first block.
LEMMA LeadsFirst ==
  ASSUME NEW seq, NEW kind, NEW base, NEW u, Leads(seq, kind, base, 1, u)
  PROVE  u = base
BY DEF Leads

-----------------------------------------------------------------------------
(* Requests and the stream *)

\* A request that is made now, and nothing else, is added.
AsksAtMost ==
  /\ asked' \subseteq Request
  /\ \A r \in asked' : r \in asked \/ (~r.taken /\ r.counter = provider.counter)

LEMMA GetTokenAsks ==
  ASSUME StreamTypeOK, NEW n \in Nat, GetToken(n)
  PROVE  AsksAtMost
<1> DEFINE r == [user |-> NoUser, counter |-> provider.counter, close |-> n, taken |-> FALSE]
<1>1. provider.counter \in Nat /\ NoUser \in User /\ asked \subseteq Request
  BY DEF StreamTypeOK, CredentialsTypeOK, User
<1>2. r \in Request /\ ~r.taken /\ r.counter = provider.counter
  BY <1>1 DEF Request
<1>3. asked' = asked \union {r}
  BY DEF GetToken
<1> HIDE DEF r
<1> QED BY <1>1, <1>2, <1>3 DEF AsksAtMost

\* Filling the pipeline opens no stream, and leaves the token of one that is open.
LEMMA FillKeepsStream ==
  ASSUME StreamTypeOK, NEW pipe, NEW st, NEW c, NEW stored, NEW ack, NEW u,
         "bearer" \in DOMAIN c, closeCount' \in Nat,
         FillWritePipeline(pipe, st, c, stored, ack, u)
  PROVE  /\ AsksAtMost
         /\ "bearer" \in DOMAIN call' /\ call'.bearer = c.bearer
         /\ state' = "Open" => st = "Open"
<1>1. AsksAtMost
  <2>1. UNCHANGED asked \/ GetToken(closeCount')
    BY DEF FillWritePipeline
  <2>2. CASE UNCHANGED asked
    BY <2>2 DEF AsksAtMost, StreamTypeOK, CredentialsTypeOK
  <2>3. CASE GetToken(closeCount')
    BY <2>3, GetTokenAsks
  <2> QED BY <2>1, <2>2, <2>3
<1>2. "bearer" \in DOMAIN call' /\ call'.bearer = c.bearer
  <2>1. PICK wire, idle : call' = [c EXCEPT !.wire = wire, !.idle = idle]
    BY DEF FillWritePipeline
  <2> QED BY <2>1
<1>3. state' = "Open" => st = "Open"
  BY DEF FillWritePipeline
<1> QED BY <1>1, <1>2, <1>3

\* What a step leaves to show when no block and no account moves.
LEMMA QueuesRest ==
  ASSUME TokenInv, UNCHANGED <<auth, provider, main, worker, user>>,
         made' \in Seq(User), closeCount' \in Nat, AsksAtMost,
         "bearer" \in DOMAIN call', state' = "Open" => call'.bearer = user
  PROVE  TokenInv'
<1>1. StreamTypeOK' /\ StreamServesItsUser'
  BY DEF TokenInv, StreamTypeOK, CredentialsTypeOK, AsksAtMost, StreamServesItsUser
<1>2. AuthIsAhead' /\ ProviderIsAhead' /\ AnsweredForProvider' /\ TokensInLine'
  BY DEF TokenInv, AuthIsAhead, ProviderIsAhead, AnsweredForProvider, TokensInLine, Leads, NoneOf
<1>3. CountersBehind'
  <2>1. provider.counter \in Nat
    BY DEF TokenInv, StreamTypeOK, CredentialsTypeOK
  <2> QED BY <2>1 DEF TokenInv, CountersBehind, AsksAtMost
<1>4. TakenForProvider'
  BY DEF TokenInv, TakenForProvider, AsksAtMost, NoneOf
<1> QED BY <1>1, <1>2, <1>3, <1>4 DEF TokenInv

\* The same when the worker queue takes its first block and the user stays.
LEMMA WorkerTakes ==
  ASSUME TokenInv, worker # <<>>, Head(worker).kind # "change", worker' = Tail(worker),
         UNCHANGED <<auth, provider, main, user, made>>, closeCount' \in Nat, AsksAtMost,
         "bearer" \in DOMAIN call', state' = "Open" => call'.bearer = user
  PROVE  TokenInv'
<1>1. worker \in Seq(WorkerBlock)
  BY DEF TokenInv, StreamTypeOK, CredentialsTypeOK
<1>2. /\ Len(worker') \in Nat /\ Len(worker) = Len(worker') + 1
      /\ \A k \in 1..Len(worker') : worker'[k] = worker[k + 1]
      /\ worker' \in Seq(WorkerBlock)
  BY <1>1, TailBlocks
<1>3. StreamTypeOK' /\ StreamServesItsUser'
  BY <1>2 DEF TokenInv, StreamTypeOK, CredentialsTypeOK, AsksAtMost, StreamServesItsUser
<1>4. AuthIsAhead' /\ AnsweredForProvider'
  BY DEF TokenInv, AuthIsAhead, AnsweredForProvider, Leads, NoneOf
<1>5. ASSUME NEW i \in 1..(Len(worker') + 1), NEW u, Leads(worker, "change", user, i + 1, u)
      PROVE  Leads(worker', "change", user', i, u)
  <2>1. Leads(Tail(worker), "change", user, i, u)
    BY <1>1, <1>5, LeadsTailOther
  <2> QED BY <2>1
<1>6. ProviderIsAhead'
  <2>1. Len(worker') + 1 \in 1..(Len(worker') + 1)
    BY <1>2
  <2>2. Leads(worker, "change", user, Len(worker') + 1 + 1, provider.user)
    BY <1>2 DEF TokenInv, ProviderIsAhead
  <2> QED BY <1>5, <2>1, <2>2 DEF ProviderIsAhead
<1>7. TokensInLine'
  <2> SUFFICES ASSUME NEW i \in 1..Len(worker'), worker'[i].kind = "token", worker'[i].ok
               PROVE  Leads(worker', "change", user', i, worker'[i].user)
    BY DEF TokensInLine
  <2>1. i + 1 \in 1..Len(worker) /\ worker'[i] = worker[i + 1] /\ i \in 1..(Len(worker') + 1)
    BY <1>2
  <2>2. Leads(worker, "change", user, i + 1, worker[i + 1].user)
    BY <2>1 DEF TokenInv, TokensInLine
  <2> QED BY <1>5, <2>1, <2>2
<1>8. CountersBehind'
  <2>1. provider.counter \in Nat
    BY DEF TokenInv, StreamTypeOK, CredentialsTypeOK
  <2> QED BY <2>1 DEF TokenInv, CountersBehind, AsksAtMost
<1>9. TakenForProvider'
  BY DEF TokenInv, TakenForProvider, AsksAtMost, NoneOf
<1> QED BY <1>3, <1>4, <1>6, <1>7, <1>8, <1>9 DEF TokenInv

-----------------------------------------------------------------------------
(* FIRAuth and the main queue *)

\* A block at the end of the main queue.
LEMMA MainGrows ==
  ASSUME TokenInv, NEW b \in MainBlock, main' = Append(main, b)
  PROVE  /\ main' \in Seq(MainBlock) /\ Len(main') = Len(main) + 1 /\ Len(main) \in Nat
         /\ \A i \in 1..Len(main) : main'[i] = main[i]
         /\ main'[Len(main) + 1] = b
         /\ \A i \in 1..(Len(main) + 1) : NoneOf(main', "state", i) <=> NoneOf(main, "state", i)
<1>1. main \in Seq(MainBlock)
  BY DEF TokenInv, StreamTypeOK, CredentialsTypeOK
<1>2. /\ main' \in Seq(MainBlock) /\ Len(main') = Len(main) + 1 /\ Len(main) \in Nat
      /\ \A i \in 1..Len(main) : main'[i] = main[i]
      /\ main'[Len(main) + 1] = b
  BY <1>1
<1>3. \A i \in 1..(Len(main) + 1) : \A k \in 1..(i - 1) : main'[k] = main[k]
  BY <1>2
<1> QED BY <1>2, <1>3 DEF NoneOf

LEMMA TokenAuthChanges ==
  ASSUME TokenInv, NEW u \in User, AuthChanges(u), UNCHANGED <<user, made, call, state>>
  PROVE  TokenInv'
<1> DEFINE b == [kind |-> "state", user |-> u]
<1>1. b \in MainBlock /\ b.kind = "state" /\ b.user = u
  BY DEF MainBlock
<1>2. main' = Append(main, b) /\ auth' = u
      /\ UNCHANGED <<provider, asked, worker, closeCount>>
  BY DEF AuthChanges
<1> HIDE DEF b
<1>3. /\ main' \in Seq(MainBlock) /\ Len(main') = Len(main) + 1 /\ Len(main) \in Nat
      /\ \A i \in 1..Len(main) : main'[i] = main[i]
      /\ main'[Len(main) + 1] = b
      /\ \A i \in 1..(Len(main) + 1) : NoneOf(main', "state", i) <=> NoneOf(main, "state", i)
  BY <1>1, <1>2, MainGrows
<1>4. StreamTypeOK' /\ StreamServesItsUser' /\ ProviderIsAhead' /\ TokensInLine'
  BY <1>2, <1>3 DEF TokenInv, StreamTypeOK, CredentialsTypeOK, StreamServesItsUser,
                    ProviderIsAhead, TokensInLine, Leads
<1>5. AuthIsAhead'
  <2>1. main \in Seq(MainBlock)
    BY DEF TokenInv, StreamTypeOK, CredentialsTypeOK
  <2>2. Leads(Append(main, b), "state", provider.user, Len(Append(main, b)) + 1, b.user)
    BY <1>1, <2>1, LeadsPastSame
  <2> QED BY <1>1, <1>2, <2>2 DEF AuthIsAhead
<1>6. CountersBehind'
  BY <1>1, <1>2, <1>3 DEF TokenInv, CountersBehind
<1>7. TakenForProvider'
  <2>1. ~NoneOf(main', "state", Len(main') + 1)
    <3>1. Len(main) + 1 \in 1..(Len(main') + 1 - 1)
      BY <1>3
    <3> QED BY <1>1, <1>3, <3>1 DEF NoneOf
  <2> QED BY <2>1 DEF TakenForProvider
<1>8. AnsweredForProvider'
  BY <1>1, <1>2, <1>3 DEF TokenInv, AnsweredForProvider
<1> QED BY <1>4, <1>5, <1>6, <1>7, <1>8 DEF TokenInv

\* An answer whose counter is the provider's is for the user of the provider.
LEMMA TokenAnswer ==
  ASSUME TokenInv, NEW r \in asked, NEW u \in User, NEW ok \in BOOLEAN, Answer(r, u, ok),
         asked' = asked \ {r},
         r.counter = provider.counter /\ NoneOf(main, "state", Len(main) + 1)
           => u = provider.user,
         UNCHANGED <<auth, provider, worker, closeCount, user, made, call, state>>
  PROVE  TokenInv'
<1> DEFINE b == [kind |-> "token", user |-> u, counter |-> r.counter, close |-> r.close, ok |-> ok]
<1>0. r.counter \in Nat /\ r.close \in Nat /\ r.counter <= provider.counter
  BY DEF TokenInv, StreamTypeOK, CredentialsTypeOK, Request, CountersBehind
<1>1. b \in MainBlock /\ b.kind = "token" /\ b.user = u /\ b.counter = r.counter
  BY <1>0 DEF MainBlock
<1>2. main' = Append(main, b)
  BY DEF Answer
<1> HIDE DEF b
<1>3. /\ main' \in Seq(MainBlock) /\ Len(main') = Len(main) + 1 /\ Len(main) \in Nat
      /\ \A i \in 1..Len(main) : main'[i] = main[i]
      /\ main'[Len(main) + 1] = b
      /\ \A i \in 1..(Len(main) + 1) : NoneOf(main', "state", i) <=> NoneOf(main, "state", i)
  BY <1>1, <1>2, MainGrows
<1>4. StreamTypeOK' /\ StreamServesItsUser' /\ ProviderIsAhead' /\ TokensInLine'
  BY <1>3 DEF TokenInv, StreamTypeOK, CredentialsTypeOK, StreamServesItsUser,
              ProviderIsAhead, TokensInLine, Leads
<1>5. AuthIsAhead'
  <2>1. main \in Seq(MainBlock) /\ Leads(main, "state", provider.user, Len(main) + 1, auth)
    BY DEF TokenInv, StreamTypeOK, CredentialsTypeOK, AuthIsAhead
  <2>2. Leads(Append(main, b), "state", provider.user, Len(Append(main, b)) + 1, auth)
    BY <1>1, <2>1, LeadsPastOther
  <2> QED BY <1>2, <2>2 DEF AuthIsAhead
<1>6. CountersBehind'
  BY <1>0, <1>1, <1>3 DEF TokenInv, CountersBehind
<1>7. TakenForProvider'
  <2>1. NoneOf(main', "state", Len(main') + 1) => NoneOf(main, "state", Len(main) + 1)
    BY <1>3 DEF NoneOf
  <2> QED BY <2>1 DEF TokenInv, TakenForProvider
<1>8. AnsweredForProvider'
  BY <1>1, <1>3 DEF TokenInv, AnsweredForProvider
<1> QED BY <1>4, <1>5, <1>6, <1>7, <1>8 DEF TokenInv

\* A block moves from the main queue to the end of the worker queue.
LEMMA BlockMoves ==
  ASSUME TokenInv, main # <<>>, main' = Tail(main),
         NEW b \in WorkerBlock, worker' = Append(worker, b), UNCHANGED user
  PROVE  /\ main \in Seq(MainBlock) /\ main' \in Seq(MainBlock) /\ Head(main) \in MainBlock
         /\ Len(main') \in Nat /\ Len(main) = Len(main') + 1 /\ Head(main) = main[1]
         /\ \A i \in 1..Len(main') : main'[i] = main[i + 1]
         /\ worker \in Seq(WorkerBlock) /\ worker' \in Seq(WorkerBlock)
         /\ Len(worker') = Len(worker) + 1 /\ worker'[Len(worker) + 1] = b
         /\ \A i \in 1..Len(worker) :
              worker'[i].kind = "token" /\ worker'[i].ok
                => Leads(worker', "change", user', i, worker'[i].user)
<1>1. main \in Seq(MainBlock) /\ worker \in Seq(WorkerBlock)
  BY DEF TokenInv, StreamTypeOK, CredentialsTypeOK
<1>2. /\ main' \in Seq(MainBlock) /\ Head(main) \in MainBlock
      /\ Len(main') \in Nat /\ Len(main) = Len(main') + 1 /\ Head(main) = main[1]
      /\ \A i \in 1..Len(main') : main'[i] = main[i + 1]
  BY <1>1, TailBlocks
<1>3. /\ worker' \in Seq(WorkerBlock) /\ Len(worker) \in Nat
      /\ Len(worker') = Len(worker) + 1 /\ worker'[Len(worker) + 1] = b
      /\ \A i \in 1..Len(worker) : worker'[i] = worker[i]
  BY <1>1
<1>4. ASSUME NEW i \in 1..Len(worker), worker'[i].kind = "token", worker'[i].ok
      PROVE  Leads(worker', "change", user', i, worker'[i].user)
  <2>1. Leads(worker, "change", user, i, worker[i].user) /\ i \in 1..(Len(worker) + 1)
    BY <1>3, <1>4 DEF TokenInv, TokensInLine
  <2>2. Leads(Append(worker, b), "change", user, i, worker[i].user)
    BY <1>1, <2>1, LeadsAppend
  <2> QED BY <1>3, <2>2
<1> QED BY <1>1, <1>2, <1>3, <1>4

LEMMA TokenHearChange ==
  ASSUME TokenInv, HearChange, UNCHANGED <<user, made, call, state>>
  PROVE  TokenInv'
<1> DEFINE b == [kind |-> "change", user |-> Head(main).user]
<1>0. main # <<>> /\ Head(main).kind = "state" /\ main' = Tail(main)
      /\ provider' = [user |-> Head(main).user, counter |-> provider.counter + 1]
      /\ worker' = Append(worker, b) /\ UNCHANGED <<auth, asked, closeCount>>
  BY DEF HearChange
<1>t. main \in Seq(MainBlock) /\ provider.counter \in Nat
  BY DEF TokenInv, StreamTypeOK, CredentialsTypeOK
<1>1. Head(main).user \in User
  <2>1. Head(main) \in MainBlock
    BY <1>0, <1>t, TailBlocks
  <2> QED BY <2>1 DEF MainBlock
<1>2. b \in WorkerBlock /\ b.kind = "change" /\ b.user = provider'.user
      /\ provider'.user = Head(main).user /\ provider'.counter = provider.counter + 1
      /\ provider' \in [user : User, counter : Nat]
  BY <1>0, <1>1, <1>t DEF WorkerBlock
<1> HIDE DEF b
<1>3. /\ main \in Seq(MainBlock) /\ main' \in Seq(MainBlock) /\ Head(main) \in MainBlock
      /\ Len(main') \in Nat /\ Len(main) = Len(main') + 1 /\ Head(main) = main[1]
      /\ \A i \in 1..Len(main') : main'[i] = main[i + 1]
      /\ worker \in Seq(WorkerBlock) /\ worker' \in Seq(WorkerBlock)
      /\ Len(worker') = Len(worker) + 1 /\ worker'[Len(worker) + 1] = b
      /\ \A i \in 1..Len(worker) :
           worker'[i].kind = "token" /\ worker'[i].ok
             => Leads(worker', "change", user', i, worker'[i].user)
  BY <1>0, <1>2, BlockMoves
<1>4. StreamTypeOK' /\ StreamServesItsUser'
  BY <1>0, <1>2, <1>3 DEF TokenInv, StreamTypeOK, CredentialsTypeOK, StreamServesItsUser
<1>5. AuthIsAhead'
  <2>1. Len(main') + 1 \in 1..(Len(main') + 1)
        /\ Leads(main, "state", provider.user, Len(main') + 1 + 1, auth)
    BY <1>3 DEF TokenInv, AuthIsAhead
  <2>2. Leads(Tail(main), "state", Head(main).user, Len(main') + 1, auth)
    BY <1>0, <1>3, <2>1, LeadsTailSame
  <2> QED BY <1>0, <1>2, <2>2 DEF AuthIsAhead
<1>6. ProviderIsAhead'
  <2>1. Leads(Append(worker, b), "change", user, Len(Append(worker, b)) + 1, b.user)
    BY <1>2, <1>3, LeadsPastSame
  <2> QED BY <1>0, <1>2, <2>1 DEF ProviderIsAhead
<1>7. /\ \A r \in asked' : r.counter \in Nat /\ r.counter < provider'.counter
      /\ \A i \in 1..Len(main') : main'[i].kind = "token" => main'[i].counter < provider'.counter
  <2>1. \A r \in asked : r.counter \in Nat /\ r.counter <= provider.counter
    BY DEF TokenInv, StreamTypeOK, CredentialsTypeOK, Request, CountersBehind
  <2>2. ASSUME NEW i \in 1..Len(main'), main'[i].kind = "token"
        PROVE  main'[i].counter < provider'.counter
    <3>1. i + 1 \in 1..Len(main) /\ main'[i] = main[i + 1]
      BY <1>3
    <3>2. main[i + 1].counter <= provider.counter
      BY <2>2, <3>1 DEF TokenInv, CountersBehind
    <3>3. main[i + 1] \in MainBlock
      BY <3>1, <1>3
    <3>4. main[i + 1].counter \in Nat
      BY <2>2, <3>1, <3>3 DEF MainBlock
    <3> QED BY <1>2, <1>t, <3>1, <3>2, <3>4
  <2> QED BY <1>0, <1>2, <1>t, <2>1, <2>2
<1>8. CountersBehind' /\ TakenForProvider' /\ AnsweredForProvider'
  <2>1. \A r \in asked' : r.counter # provider'.counter /\ r.counter <= provider'.counter
    BY <1>2, <1>7, <1>t
  <2>2. ASSUME NEW i \in 1..Len(main'), main'[i].kind = "token"
        PROVE  main'[i].counter # provider'.counter /\ main'[i].counter <= provider'.counter
    <3>1. main'[i] \in MainBlock
      BY <1>3
    <3>2. main'[i].counter \in Nat
      BY <2>2, <3>1 DEF MainBlock
    <3> QED BY <1>2, <1>7, <1>t, <2>2, <3>2
  <2> QED BY <2>1, <2>2 DEF CountersBehind, TakenForProvider, AnsweredForProvider
<1>9. TokensInLine'
  BY <1>2, <1>3 DEF TokensInLine
<1> QED BY <1>4, <1>5, <1>6, <1>8, <1>9 DEF TokenInv

LEMMA TokenHearToken ==
  ASSUME TokenInv, HearToken, UNCHANGED <<user, made, call, state>>
  PROVE  TokenInv'
<1> DEFINE b == [kind |-> "token", user |-> Head(main).user,
                 close |-> Head(main).close, ok |-> Valid(Head(main))]
<1>0. main # <<>> /\ Head(main).kind = "token" /\ main' = Tail(main)
      /\ worker' = Append(worker, b) /\ UNCHANGED <<auth, provider, asked, closeCount>>
  BY DEF HearToken
<1>t. main \in Seq(MainBlock)
  BY DEF TokenInv, StreamTypeOK, CredentialsTypeOK
<1>1. Head(main).user \in User /\ Head(main).close \in Nat /\ Head(main).ok \in BOOLEAN
  <2>1. Head(main) \in MainBlock
    BY <1>0, <1>t, TailBlocks
  <2> QED BY <1>0, <2>1 DEF MainBlock
<1>2. b \in WorkerBlock /\ b.kind = "token" /\ b.user = Head(main).user
      /\ (b.ok => Head(main).counter = provider.counter)
  BY <1>1 DEF WorkerBlock, Valid
<1> HIDE DEF b
<1>3. /\ main \in Seq(MainBlock) /\ main' \in Seq(MainBlock) /\ Head(main) \in MainBlock
      /\ Len(main') \in Nat /\ Len(main) = Len(main') + 1 /\ Head(main) = main[1]
      /\ \A i \in 1..Len(main') : main'[i] = main[i + 1]
      /\ worker \in Seq(WorkerBlock) /\ worker' \in Seq(WorkerBlock)
      /\ Len(worker') = Len(worker) + 1 /\ worker'[Len(worker) + 1] = b
      /\ \A i \in 1..Len(worker) :
           worker'[i].kind = "token" /\ worker'[i].ok
             => Leads(worker', "change", user', i, worker'[i].user)
  BY <1>0, <1>2, BlockMoves
<1>n. ASSUME NEW i \in 1..(Len(main') + 1), NoneOf(main', "state", i)
      PROVE  NoneOf(main, "state", i + 1)
  <2> SUFFICES ASSUME NEW k \in 1..i PROVE main[k].kind # "state"
    BY <1>3 DEF NoneOf
  <2>1. CASE k = 1
    BY <1>0, <1>3, <2>1
  <2>2. CASE k # 1
    <3>1. k - 1 \in 1..(i - 1) /\ k - 1 \in 1..Len(main') /\ k = k - 1 + 1
      BY <1>3, <2>2
    <3>2. main'[k - 1] = main[k]
      BY <1>3, <3>1
    <3> QED BY <1>n, <3>1, <3>2 DEF NoneOf
  <2> QED BY <2>1, <2>2
<1>4. StreamTypeOK' /\ StreamServesItsUser'
  BY <1>0, <1>3 DEF TokenInv, StreamTypeOK, CredentialsTypeOK, StreamServesItsUser
<1>5. AuthIsAhead'
  <2>1. Len(main') + 1 \in 1..(Len(main') + 1)
        /\ Leads(main, "state", provider.user, Len(main') + 1 + 1, auth)
    BY <1>3 DEF TokenInv, AuthIsAhead
  <2>2. Leads(Tail(main), "state", provider.user, Len(main') + 1, auth)
    BY <1>0, <1>3, <2>1, LeadsTailOther
  <2> QED BY <1>0, <2>2 DEF AuthIsAhead
<1>6. ProviderIsAhead'
  <2>1. Leads(worker, "change", user, Len(worker) + 1, provider.user)
    BY DEF TokenInv, ProviderIsAhead
  <2>2. Leads(Append(worker, b), "change", user, Len(Append(worker, b)) + 1, provider.user)
    BY <1>2, <1>3, <2>1, LeadsPastOther
  <2> QED BY <1>0, <2>2 DEF ProviderIsAhead
<1>7. CountersBehind' /\ AnsweredForProvider'
  <2>1. \A i \in 1..Len(main') : i + 1 \in 1..Len(main) /\ i \in 1..(Len(main') + 1)
    BY <1>3
  <2> QED BY <1>0, <1>3, <1>n, <2>1 DEF TokenInv, CountersBehind, AnsweredForProvider
<1>8. TakenForProvider'
  <2>1. Len(main') + 1 \in 1..(Len(main') + 1) /\ Len(main') + 1 + 1 = Len(main) + 1
    BY <1>3
  <2>2. NoneOf(main', "state", Len(main') + 1) => NoneOf(main, "state", Len(main) + 1)
    BY <1>n, <2>1
  <2> QED BY <1>0, <2>2 DEF TokenInv, TakenForProvider
<1>9. TokensInLine'
  <2>1. ASSUME b.ok PROVE Leads(worker', "change", user', Len(worker) + 1, b.user)
    <3>1. 1 \in 1..Len(main) /\ NoneOf(main, "state", 1)
      BY <1>3 DEF NoneOf
    <3>2. b.user = provider.user
      BY <1>0, <1>2, <1>3, <2>1, <3>1 DEF TokenInv, AnsweredForProvider
    <3>3. Leads(worker, "change", user, Len(worker) + 1, provider.user)
          /\ Len(worker) + 1 \in 1..(Len(worker) + 1)
      BY <1>3 DEF TokenInv, ProviderIsAhead
    <3>4. Leads(Append(worker, b), "change", user, Len(worker) + 1, provider.user)
      BY <1>2, <1>3, <3>3, LeadsAppend
    <3> QED BY <1>0, <3>2, <3>4
  <2> QED BY <1>3, <2>1 DEF TokensInLine
<1> QED BY <1>4, <1>5, <1>6, <1>7, <1>8, <1>9 DEF TokenInv

\* FIRAuth reads its account for a token, or answers at once that it has none.
LEMMA TokenAuthTakes ==
  ASSUME TokenInv, NEW r \in asked, AuthTakes(r), UNCHANGED <<user, made, call, state>>
  PROVE  TokenInv'
<1>1. NoneOf(main, "state", Len(main) + 1) => auth = provider.user
  <2>1. \A k \in 1..(Len(main) + 1 - 1) : k \in 1..Len(main)
    BY DEF TokenInv, StreamTypeOK, CredentialsTypeOK
  <2> QED BY <2>1 DEF TokenInv, AuthIsAhead, Leads, NoneOf
<1>2. CASE auth = NoUser
  <2>1. Answer(r, NoUser, TRUE) /\ asked' = asked \ {r} /\ NoUser \in User
    BY <1>2 DEF AuthTakes, User
  <2> QED BY <1>1, <1>2, <2>1, TokenAnswer DEF AuthTakes
<1>3. CASE auth # NoUser
  <2> DEFINE q == [r EXCEPT !.user = auth, !.taken = TRUE]
  <2>1. r \in Request /\ auth \in User /\ r.counter <= provider.counter
    BY DEF TokenInv, StreamTypeOK, CredentialsTypeOK, CountersBehind
  <2>2. q \in Request /\ q.user = auth /\ q.counter = r.counter
    BY <2>1 DEF Request
  <2>3. asked' = (asked \ {r}) \union {q}
        /\ UNCHANGED <<main, auth, provider, worker, closeCount>>
    BY <1>3 DEF AuthTakes
  <2> HIDE DEF q
  <2>4. StreamTypeOK' /\ StreamServesItsUser'
    BY <2>2, <2>3 DEF TokenInv, StreamTypeOK, CredentialsTypeOK, StreamServesItsUser
  <2>5. AuthIsAhead' /\ ProviderIsAhead' /\ AnsweredForProvider' /\ TokensInLine'
    BY <2>3 DEF TokenInv, AuthIsAhead, ProviderIsAhead, AnsweredForProvider, TokensInLine,
                Leads, NoneOf
  <2>6. CountersBehind' /\ TakenForProvider'
    BY <1>1, <2>1, <2>2, <2>3 DEF TokenInv, CountersBehind, TakenForProvider, NoneOf
  <2> QED BY <2>4, <2>5, <2>6 DEF TokenInv
<1> QED BY <1>2, <1>3

LEMMA TokenAuthAnswers ==
  ASSUME TokenInv, NEW r \in asked, NEW ok \in BOOLEAN, AuthAnswers(r, ok),
         UNCHANGED <<user, made, call, state>>
  PROVE  TokenInv'
<1>1. r.user \in User
  BY DEF TokenInv, StreamTypeOK, CredentialsTypeOK, Request
<1>2. r.counter = provider.counter /\ NoneOf(main, "state", Len(main) + 1)
        => r.user = provider.user
  BY DEF TokenInv, TakenForProvider, AuthAnswers
<1> QED BY <1>1, <1>2, TokenAnswer DEF AuthAnswers

-----------------------------------------------------------------------------
(* The application and the worker queue *)

LEMMA TokenMakeWrite ==
  ASSUME TokenInv, MakeWrite
  PROVE  TokenInv'
<1> DEFINE b == [kind |-> "write", user |-> auth, n |-> Len(made) + 1]
<1>t. worker \in Seq(WorkerBlock) /\ auth \in User /\ made \in Seq(User)
  BY DEF TokenInv, StreamTypeOK, CredentialsTypeOK
<1>0. Len(made) + 1 \in 1..MaxWrite
  BY <1>t, WritesAssumption DEF MakeWrite
<1>1. b \in WorkerBlock /\ b.kind = "write"
  BY <1>0, <1>t DEF WorkerBlock
<1>2. worker' = Append(worker, b) /\ made' = Append(made, auth)
      /\ UNCHANGED <<auth, provider, asked, main, closeCount, user, call, state>>
  BY DEF MakeWrite, memory
<1> HIDE DEF b
<1>3. /\ worker' \in Seq(WorkerBlock) /\ Len(worker) \in Nat
      /\ Len(worker') = Len(worker) + 1 /\ worker'[Len(worker) + 1] = b
      /\ \A i \in 1..Len(worker) : worker'[i] = worker[i]
      /\ made' \in Seq(User)
  BY <1>1, <1>2, <1>t
<1>4. StreamTypeOK' /\ StreamServesItsUser'
  BY <1>2, <1>3 DEF TokenInv, StreamTypeOK, CredentialsTypeOK, StreamServesItsUser
<1>5. AuthIsAhead' /\ CountersBehind' /\ TakenForProvider' /\ AnsweredForProvider'
  BY <1>2 DEF TokenInv, AuthIsAhead, CountersBehind, TakenForProvider, AnsweredForProvider,
              Leads, NoneOf
<1>6. ProviderIsAhead'
  <2>1. Leads(worker, "change", user, Len(worker) + 1, provider.user)
    BY DEF TokenInv, ProviderIsAhead
  <2>2. Leads(Append(worker, b), "change", user, Len(Append(worker, b)) + 1, provider.user)
    BY <1>1, <1>t, <2>1, LeadsPastOther
  <2> QED BY <1>2, <2>2 DEF ProviderIsAhead
<1>7. TokensInLine'
  <2> SUFFICES ASSUME NEW i \in 1..Len(worker'), worker'[i].kind = "token", worker'[i].ok
               PROVE  Leads(worker', "change", user', i, worker'[i].user)
    BY DEF TokensInLine
  <2>1. i \in 1..Len(worker) /\ worker'[i] = worker[i] /\ i \in 1..(Len(worker) + 1)
    BY <1>1, <1>3
  <2>2. Leads(worker, "change", user, i, worker[i].user)
    BY <2>1 DEF TokenInv, TokensInLine
  <2>3. Leads(Append(worker, b), "change", user, i, worker[i].user)
    BY <1>1, <1>t, <2>1, <2>2, LeadsAppend
  <2> QED BY <1>2, <2>1, <2>3
<1> QED BY <1>4, <1>5, <1>6, <1>7 DEF TokenInv

\* The worker takes over the account that the provider heard of.
LEMMA TokenCredentialDidChange ==
  ASSUME TokenInv, CredentialDidChange
  PROVE  TokenInv'
<1>0. worker # <<>> /\ Head(worker).kind = "change" /\ worker' = Tail(worker)
      /\ user' = Head(worker).user /\ UNCHANGED <<auth, provider, main, made>>
  BY DEF CredentialDidChange, NextBlock, history
<1>1. worker \in Seq(WorkerBlock) /\ StreamTypeOK
  BY DEF TokenInv, StreamTypeOK, CredentialsTypeOK
<1>2. /\ Len(worker') \in Nat /\ Len(worker) = Len(worker') + 1
      /\ \A k \in 1..Len(worker') : worker'[k] = worker[k + 1]
      /\ worker' \in Seq(WorkerBlock) /\ Head(worker) \in WorkerBlock
  BY <1>0, <1>1, TailBlocks
<1>3. user' \in User
  BY <1>0, <1>2 DEF WorkerBlock
<1>4. AsksAtMost /\ "bearer" \in DOMAIN call' /\ closeCount' \in Nat /\ state' # "Open"
  <2> DEFINE st == IF Stops(state) THEN "Initial" ELSE state
             c == IF Stops(state) THEN NoCall ELSE call
  <2>1. closeCount' \in Nat
    BY <1>1 DEF CredentialDidChange, StreamTypeOK, CredentialsTypeOK
  <2>2. "bearer" \in DOMAIN c
    BY <1>1 DEF NoCall, StreamTypeOK
  <2>3. st # "Open"
    BY DEF Stops, Started
  <2>4. FillWritePipeline(PipelineAfterStop, st, c, rows, acked', user')
    BY DEF CredentialDidChange
  <2> HIDE DEF st, c
  <2> QED BY <1>1, <2>1, <2>2, <2>3, <2>4, FillKeepsStream
<1>5. StreamTypeOK' /\ StreamServesItsUser'
  BY <1>0, <1>1, <1>2, <1>3, <1>4
     DEF StreamTypeOK, CredentialsTypeOK, AsksAtMost, StreamServesItsUser
<1>6. AuthIsAhead' /\ AnsweredForProvider'
  BY <1>0 DEF TokenInv, AuthIsAhead, AnsweredForProvider, Leads, NoneOf
<1>7. ASSUME NEW i \in 1..(Len(worker') + 1), NEW u, Leads(worker, "change", user, i + 1, u)
      PROVE  Leads(worker', "change", user', i, u)
  <2>1. Leads(Tail(worker), "change", Head(worker).user, i, u)
    BY <1>0, <1>1, <1>7, LeadsTailSame
  <2> QED BY <1>0, <2>1
<1>8. ProviderIsAhead'
  <2>1. Len(worker') + 1 \in 1..(Len(worker') + 1)
        /\ Leads(worker, "change", user, Len(worker') + 1 + 1, provider.user)
    BY <1>2 DEF TokenInv, ProviderIsAhead
  <2> QED BY <1>0, <1>7, <2>1 DEF ProviderIsAhead
<1>9. TokensInLine'
  <2> SUFFICES ASSUME NEW i \in 1..Len(worker'), worker'[i].kind = "token", worker'[i].ok
               PROVE  Leads(worker', "change", user', i, worker'[i].user)
    BY DEF TokensInLine
  <2>1. i + 1 \in 1..Len(worker) /\ worker'[i] = worker[i + 1] /\ i \in 1..(Len(worker') + 1)
    BY <1>2
  <2>2. Leads(worker, "change", user, i + 1, worker[i + 1].user)
    BY <2>1 DEF TokenInv, TokensInLine
  <2> QED BY <1>7, <2>1, <2>2
<1>10. CountersBehind' /\ TakenForProvider'
  <2>1. provider.counter \in Nat
    BY <1>1 DEF StreamTypeOK, CredentialsTypeOK
  <2> QED BY <1>0, <1>4, <2>1
      DEF TokenInv, CountersBehind, TakenForProvider, AsksAtMost, NoneOf
<1> QED BY <1>5, <1>6, <1>8, <1>9, <1>10 DEF TokenInv

\* A token that is taken is for the user of the stream.
LEMMA TokenResumeStart ==
  ASSUME TokenInv, ResumeStart
  PROVE  TokenInv'
<1>0. worker # <<>> /\ Head(worker).kind = "token" /\ worker' = Tail(worker)
      /\ UNCHANGED <<auth, provider, main, user, made>>
  BY DEF ResumeStart, NextBlock, history
<1>1. worker \in Seq(WorkerBlock) /\ StreamTypeOK /\ closeCount \in Nat /\ StreamServesItsUser
  BY DEF TokenInv, StreamTypeOK, CredentialsTypeOK
<1>2. Head(worker).ok => Head(worker).user = user
  <2>1. 1 \in 1..Len(worker) /\ Head(worker) = worker[1]
    BY <1>0, <1>1
  <2>2. Head(worker).ok => Leads(worker, "change", user, 1, worker[1].user)
    BY <1>0, <2>1 DEF TokenInv, TokensInLine
  <2> QED BY <2>1, <2>2, LeadsFirst
<1>3. AsksAtMost
  BY <1>1 DEF ResumeStart, FailStream, AsksAtMost, StreamTypeOK, CredentialsTypeOK
<1>4. closeCount' \in Nat /\ "bearer" \in DOMAIN call' /\ (state' = "Open" => call'.bearer = user)
  <2>1. CASE ~Current(Head(worker))
    BY <1>1, <2>1 DEF ResumeStart, StreamTypeOK, StreamServesItsUser
  <2>2. CASE Current(Head(worker)) /\ Head(worker).ok
    <3>1. call' = [NoCall EXCEPT !.bearer = Head(worker).user, !.hello = "asked"]
          /\ closeCount' = closeCount
      BY <2>2 DEF ResumeStart
    <3> QED BY <1>1, <1>2, <2>2, <3>1 DEF NoCall
  <2>3. CASE Current(Head(worker)) /\ ~Head(worker).ok
    BY <1>1, <2>3 DEF ResumeStart, FailStream, NoCall
  <2> QED BY <2>1, <2>2, <2>3
<1> QED BY <1>0, <1>3, <1>4, WorkerTakes

LEMMA TokenWriteMutations ==
  ASSUME TokenInv, WriteMutations
  PROVE  TokenInv'
<1>0. worker # <<>> /\ Head(worker).kind = "write" /\ worker' = Tail(worker)
      /\ UNCHANGED <<auth, provider, main, user, made, closeCount>>
  BY DEF WriteMutations, NextBlock, history
<1>1. StreamTypeOK /\ closeCount' \in Nat /\ "bearer" \in DOMAIN call /\ StreamServesItsUser
  BY <1>0 DEF TokenInv, StreamTypeOK, CredentialsTypeOK
<1>2. FillWritePipeline(pipeline, state, call, rows', acked, user)
  BY DEF WriteMutations
<1>3. AsksAtMost /\ "bearer" \in DOMAIN call' /\ (state' = "Open" => call'.bearer = user)
  BY <1>1, <1>2, FillKeepsStream DEF StreamServesItsUser
<1> QED BY <1>0, <1>1, <1>3, WorkerTakes

\* The other steps of the stream: none opens it, or changes its token.
LEMMA TokenStream ==
  ASSUME TokenInv,
         \/ BackoffElapsed \/ IdleTimeout \/ StreamFails \/ HandshakeDone
         \/ ReceiveResponse \/ SeeEnd \/ RejectFirst
  PROVE  TokenInv'
<1>1. StreamTypeOK /\ closeCount \in Nat /\ "bearer" \in DOMAIN call /\ StreamServesItsUser
  BY DEF TokenInv, StreamTypeOK, CredentialsTypeOK
<1>2. "bearer" \in DOMAIN NoCall
  BY DEF NoCall
<1>3. UNCHANGED asked => AsksAtMost
  BY <1>1 DEF AsksAtMost, StreamTypeOK, CredentialsTypeOK
<1>4. UNCHANGED <<auth, provider, main, worker, user, made>> /\ made' \in Seq(User)
  BY <1>1 DEF BackoffElapsed, IdleTimeout, StreamFails, HandshakeDone, ReceiveResponse, SeeEnd,
              RejectFirst, OnWorker, history, StreamTypeOK
<1>5. /\ AsksAtMost /\ closeCount' \in Nat
      /\ "bearer" \in DOMAIN call' /\ (state' = "Open" => call'.bearer = user)
  <2>1. CASE BackoffElapsed
    BY <1>1, <2>1, GetTokenAsks DEF BackoffElapsed
  <2>2. CASE IdleTimeout
    BY <1>1, <1>2, <1>3, <2>2 DEF IdleTimeout
  <2>3. CASE StreamFails
    BY <1>1, <1>2, <1>3, <2>3 DEF StreamFails, FailStream
  <2>4. CASE HandshakeDone
    BY <1>1, <1>3, <2>4 DEF HandshakeDone, StreamServesItsUser
  <2>5. CASE ReceiveResponse
    <3>1. "bearer" \in DOMAIN AfterRead /\ AfterRead.bearer = call.bearer
      BY <1>1 DEF AfterRead
    <3>2. FillWritePipeline(Tail(pipeline), state, AfterRead, rows', acked', user)
          /\ closeCount' \in Nat
      BY <1>1, <2>5 DEF ReceiveResponse
    <3>3. AsksAtMost /\ "bearer" \in DOMAIN call' /\ call'.bearer = AfterRead.bearer
          /\ (state' = "Open" => state = "Open")
      BY <1>1, <3>1, <3>2, FillKeepsStream
    <3> QED BY <1>1, <3>1, <3>2, <3>3 DEF StreamServesItsUser
  <2>6. CASE SeeEnd
    BY <1>1, <1>3, <2>6 DEF SeeEnd, StreamServesItsUser
  <2>7. CASE RejectFirst
    <3>1. FillWritePipeline(Tail(pipeline), "Initial", NoCall, rows', acked, user)
          /\ closeCount' \in Nat
      BY <1>1, <2>7 DEF RejectFirst
    <3> QED BY <1>1, <1>2, <3>1, FillKeepsStream
  <2> QED BY <2>1, <2>2, <2>3, <2>4, <2>5, <2>6, <2>7
<1> QED BY <1>4, <1>5, QueuesRest

-----------------------------------------------------------------------------
(* The process *)

\* A client that starts asks, if at all, for the account the provider knows.
LEMMA TokenStart ==
  ASSUME TokenInv, Launch(auth), Initialize, UNCHANGED <<auth, made>>
  PROVE  TokenInv'
<1>1. auth \in User /\ NoUser \in User /\ made \in Seq(User)
  BY DEF TokenInv, StreamTypeOK, CredentialsTypeOK, User
<1>2. /\ user' = provider'.user /\ worker' = <<>> /\ closeCount' = 0 /\ state' # "Open"
      /\ "bearer" \in DOMAIN call' /\ provider'.counter = 0
  BY DEF Initialize, NoCall, Launch
<1>3. asked' \subseteq Request /\ \A r \in asked' : r.counter = 0 /\ ~r.taken
  <2> DEFINE r == [user |-> NoUser, counter |-> 0, close |-> 0, taken |-> FALSE]
  <2>1. r \in Request /\ r.counter = 0 /\ ~r.taken
    BY <1>1 DEF Request
  <2>2. asked' = {} \/ asked' = {r}
    BY DEF Initialize
  <2> HIDE DEF r
  <2> QED BY <2>1, <2>2
<1>4. CASE provider' = [user |-> auth, counter |-> 0] /\ main' = <<>>
  <2>1. StreamTypeOK' /\ StreamServesItsUser'
    BY <1>1, <1>2, <1>3, <1>4 DEF StreamTypeOK, CredentialsTypeOK, StreamServesItsUser
  <2>2. AuthIsAhead' /\ ProviderIsAhead' /\ TokensInLine'
    BY <1>2, <1>4 DEF AuthIsAhead, ProviderIsAhead, TokensInLine, Leads
  <2>3. CountersBehind' /\ TakenForProvider' /\ AnsweredForProvider'
    BY <1>2, <1>3, <1>4 DEF CountersBehind, TakenForProvider, AnsweredForProvider
  <2> QED BY <2>1, <2>2, <2>3 DEF TokenInv
<1>5. CASE provider' = [user |-> NoUser, counter |-> 0]
           /\ main' = <<[kind |-> "state", user |-> auth]>>
  <2> DEFINE b == [kind |-> "state", user |-> auth]
  <2>1. b \in MainBlock /\ b.kind = "state" /\ b.user = auth
    BY <1>1 DEF MainBlock
  <2>2. main' = <<b>>
    BY <1>5
  <2> HIDE DEF b
  <2>3. main' \in Seq(MainBlock) /\ Len(main') = 1 /\ main'[1] = b
    BY <2>1, <2>2
  <2>4. StreamTypeOK' /\ StreamServesItsUser'
    BY <1>1, <1>2, <1>3, <1>5, <2>3 DEF StreamTypeOK, CredentialsTypeOK, StreamServesItsUser
  <2>5. AuthIsAhead'
    BY <2>1, <2>3 DEF AuthIsAhead, Leads
  <2>6. ProviderIsAhead' /\ TokensInLine'
    BY <1>2 DEF ProviderIsAhead, TokensInLine, Leads
  <2>7. CountersBehind' /\ TakenForProvider' /\ AnsweredForProvider'
    BY <1>2, <1>3, <2>1, <2>3 DEF CountersBehind, TakenForProvider, AnsweredForProvider
  <2> QED BY <2>4, <2>5, <2>6, <2>7 DEF TokenInv
<1> QED BY <1>4, <1>5 DEF Launch

LEMMA TokenInit == Init => TokenInv
<1> SUFFICES ASSUME Init PROVE TokenInv
  OBVIOUS
<1>1. auth \in User /\ user = auth /\ provider = [user |-> auth, counter |-> 0]
      /\ main = <<>> /\ worker = <<>> /\ asked = {} /\ closeCount = 0 /\ made = <<>>
      /\ state = "Initial" /\ "bearer" \in DOMAIN call
  BY WritesAssumption DEF Init, NoCall
<1>2. StreamTypeOK /\ StreamServesItsUser
  BY <1>1 DEF StreamTypeOK, CredentialsTypeOK, StreamServesItsUser
<1>3. AuthIsAhead /\ ProviderIsAhead /\ TokensInLine
  BY <1>1 DEF AuthIsAhead, ProviderIsAhead, TokensInLine, Leads
<1>4. CountersBehind /\ TakenForProvider /\ AnsweredForProvider
  BY <1>1 DEF CountersBehind, TakenForProvider, AnsweredForProvider
<1> QED BY <1>2, <1>3, <1>4 DEF TokenInv

LEMMA TokenNext == TokenInv /\ [Next]_vars => TokenInv'
<1> SUFFICES ASSUME TokenInv, [Next]_vars PROVE TokenInv'
  OBVIOUS
<1>0. StreamTypeOK /\ StreamServesItsUser
  BY DEF TokenInv
<1>q. UNCHANGED asked => AsksAtMost
  BY <1>0 DEF AsksAtMost, StreamTypeOK, CredentialsTypeOK
<1>1. CASE MakeWrite
  BY <1>1, TokenMakeWrite
<1>2. CASE AccountTrouble
  <2>1. UNCHANGED <<user, made, call, state>>
    BY <1>2 DEF AccountTrouble, memory
  <2> QED BY <1>2, <2>1, TokenAuthChanges, TokenAuthAnswers DEF AccountTrouble
<1>3. CASE TakeToken
  BY <1>3, TokenAuthTakes DEF TakeToken, memory, history
<1>4. CASE AnswerToken
  BY <1>4, TokenAuthAnswers DEF AnswerToken, memory, history
<1>5. CASE MainQueue
  BY <1>5, TokenHearChange, TokenHearToken DEF MainQueue, memory, history
<1>6. CASE WriteMutations
  BY <1>6, TokenWriteMutations
<1>7. CASE CredentialDidChange
  BY <1>7, TokenCredentialDidChange
<1>8. CASE ResumeStart
  BY <1>8, TokenResumeStart
<1>9. CASE \/ BackoffElapsed \/ IdleTimeout \/ StreamFails \/ HandshakeDone
           \/ ReceiveResponse \/ SeeEnd \/ RejectFirst
  BY <1>9, TokenStream
<1>10. CASE AnswerHandshake \/ Apply \/ Refuse
  <2>1. UNCHANGED <<auth, provider, main, worker, user, made, asked, closeCount>>
        /\ state' = state
    BY <1>10 DEF AnswerHandshake, Apply, Refuse, credentials, history
  <2>2. "bearer" \in DOMAIN call' /\ call'.bearer = call.bearer
    BY <1>0, <1>10 DEF AnswerHandshake, Apply, Refuse, StreamTypeOK
  <2> QED BY <1>0, <1>q, <2>1, <2>2, QueuesRest
          DEF StreamTypeOK, CredentialsTypeOK, StreamServesItsUser
<1>11. CASE Relaunch \/ RelaunchAfterTelling
  BY <1>11, TokenStart DEF Relaunch, RelaunchAfterTelling
<1>12. CASE UNCHANGED vars
  BY <1>0, <1>q, <1>12, QueuesRest
     DEF vars, credentials, memory, history, StreamTypeOK, CredentialsTypeOK, StreamServesItsUser
<1> QED BY <1>1, <1>2, <1>3, <1>4, <1>5, <1>6, <1>7, <1>8, <1>9, <1>10, <1>11, <1>12
        DEF Next, Worker

LEMMA TokenInvariant == Spec => []TokenInv
BY TokenInit, TokenNext, PTL DEF Spec

\* Whatever the account does between the request for a token and its answer, an
\* open write stream has the token of the user whose mutation queue it sends.
THEOREM StreamServesItsUserAlways == Spec => []StreamServesItsUser
<1>1. TokenInv => StreamServesItsUser
  BY DEF TokenInv
<1> QED BY <1>1, TokenInvariant, PTL

\* The counter of the provider is enough for it: a token on the worker queue
\* that was not aborted stands behind the change to its own account.
THEOREM TokensAreInLine == Spec => []TokensInLine
<1>1. TokenInv => TokensInLine
  BY DEF TokenInv
<1> QED BY <1>1, TokenInvariant, PTL

-----------------------------------------------------------------------------
(* The answers of the write stream carry no name: that each one belongs to   *)
(* the first batch of the pipeline, with the assertion of the idle timer and *)
(* the bound of the pipeline, which lean on each other.                      *)

StreamState == {"Initial", "Error"} \union Started

IsCall(c) ==
  /\ c = [bearer |-> c.bearer, hello |-> c.hello, idle |-> c.idle, wire |-> c.wire,
          replies |-> c.replies, refusing |-> c.refusing, ending |-> c.ending]
  /\ c.hello \in {"none", "asked", "answered", "done"} /\ c.idle \in BOOLEAN
  /\ c.ending \in {"no", "now"}

\* The pipeline and the RPC hold batches, whatever these are.
Batches(pipe, c) ==
  \E S : pipe \in Seq(S) /\ c.wire \in Seq(S) /\ c.replies \in Seq(S) /\ c.refusing \in Seq(S)

\* A pipeline, a stream in state st and its RPC fit together.
Fits(pipe, st, c) ==
  /\ IsCall(c) /\ Batches(pipe, c) /\ st \in StreamState
  /\ Len(pipe) <= MaxPipeline
  /\ st # "Open" => c = NoCall
  /\ c.hello # "done" => c.wire = <<>> /\ c.replies = <<>> /\ c.refusing = <<>>
  /\ c.hello = "done" => pipe = c.replies \o c.refusing \o c.wire
  /\ c.ending = "now" => c.replies = <<>> /\ c.refusing # <<>>
  /\ c.idle => pipe = <<>>
  /\ st \in Started /\ c.hello # "done" => pipe # <<>>

PipelineInv ==
  /\ IsFiniteSet(rows)
  /\ Fits(pipeline, state, call)
  /\ pipeline # <<>> => state \in Started

-----------------------------------------------------------------------------
(* Sequences *)

LEMMA SeqWidens ==
  ASSUME NEW S, NEW T, NEW s \in Seq(S), S \subseteq T
  PROVE  s \in Seq(T)
OBVIOUS

LEMMA ConcatProperties ==
  ASSUME NEW S, NEW s \in Seq(S), NEW t \in Seq(S)
  PROVE  /\ s \o t \in Seq(S) /\ Len(s \o t) = Len(s) + Len(t)
         /\ Len(s) \in Nat /\ Len(t) \in Nat
         /\ \A i \in 1..Len(s) : (s \o t)[i] = s[i]
         /\ \A i \in (Len(s) + 1)..(Len(s) + Len(t)) : (s \o t)[i] = t[i - Len(s)]
OBVIOUS

LEMMA SeqEqual ==
  ASSUME NEW S, NEW s \in Seq(S), NEW t \in Seq(S), Len(s) = Len(t),
         \A i \in 1..Len(s) : s[i] = t[i]
  PROVE  s = t
OBVIOUS

LEMMA ConcatAssociates ==
  ASSUME NEW S, NEW r \in Seq(S), NEW s \in Seq(S), NEW t \in Seq(S)
  PROVE  (r \o s) \o t = r \o (s \o t)
<1>1. /\ r \o s \in Seq(S) /\ (r \o s) \o t \in Seq(S)
      /\ s \o t \in Seq(S) /\ r \o (s \o t) \in Seq(S)
      /\ Len((r \o s) \o t) = Len(r) + Len(s) + Len(t)
      /\ Len(r \o (s \o t)) = Len(r) + (Len(s) + Len(t))
      /\ Len(r) \in Nat /\ Len(s) \in Nat /\ Len(t) \in Nat
  OBVIOUS
<1>2. ASSUME NEW i \in 1..(Len(r) + Len(s) + Len(t))
      PROVE  ((r \o s) \o t)[i] = (r \o (s \o t))[i]
  <2>1. CASE i <= Len(r)
    BY <1>1, <2>1
  <2>2. CASE i > Len(r) /\ i <= Len(r) + Len(s)
    BY <1>1, <2>2
  <2>3. CASE i > Len(r) + Len(s)
    BY <1>1, <2>3
  <2> QED BY <1>1, <2>1, <2>2, <2>3
<1> QED BY <1>1, <1>2, SeqEqual

LEMMA HeadTail ==
  ASSUME NEW S, NEW s \in Seq(S), s # <<>>
  PROVE  /\ Head(s) \in S /\ <<Head(s)>> \in Seq(S) /\ Tail(s) \in Seq(S)
         /\ s = <<Head(s)>> \o Tail(s) /\ Len(Tail(s)) = Len(s) - 1
<1>1. /\ Head(s) \in S /\ <<Head(s)>> \in Seq(S) /\ Tail(s) \in Seq(S)
      /\ Len(Tail(s)) = Len(s) - 1 /\ Len(s) \in Nat
  OBVIOUS
<1>2. <<Head(s)>> \o Tail(s) \in Seq(S) /\ Len(<<Head(s)>> \o Tail(s)) = Len(s)
  BY <1>1
<1>3. \A i \in 1..Len(s) : (<<Head(s)>> \o Tail(s))[i] = s[i]
  BY <1>1
<1> QED BY <1>1, <1>2, <1>3, SeqEqual

LEMMA ConcatEmpty ==
  ASSUME NEW S, NEW s \in Seq(S)
  PROVE  s \o <<>> = s /\ <<>> \o s = s
<1>1. s \o <<>> \in Seq(S) /\ <<>> \o s \in Seq(S)
      /\ Len(s \o <<>>) = Len(s) /\ Len(<<>> \o s) = Len(s)
  OBVIOUS
<1>2. \A i \in 1..Len(s) : (s \o <<>>)[i] = s[i] /\ (<<>> \o s)[i] = s[i]
  OBVIOUS
<1> QED BY <1>1, <1>2, SeqEqual

\* The batch at the front of the wire is applied, or refused.
LEMMA WireMoves ==
  ASSUME NEW S, NEW r \in Seq(S), NEW w \in Seq(S), w # <<>>
  PROVE  /\ r \o <<>> \o w = Append(r, Head(w)) \o <<>> \o Tail(w)
         /\ r \o <<>> \o w = r \o <<Head(w)>> \o Tail(w)
<1>1. /\ <<Head(w)>> \in Seq(S) /\ Tail(w) \in Seq(S) /\ w = <<Head(w)>> \o Tail(w)
      /\ Head(w) \in S
  BY HeadTail
<1>2. Append(r, Head(w)) = r \o <<Head(w)>> /\ r \o <<Head(w)>> \in Seq(S)
  <2>1. /\ Append(r, Head(w)) \in Seq(S) /\ r \o <<Head(w)>> \in Seq(S)
        /\ Len(Append(r, Head(w))) = Len(r) + 1 /\ Len(r \o <<Head(w)>>) = Len(r) + 1
    BY <1>1
  <2>2. \A i \in 1..(Len(r) + 1) : Append(r, Head(w))[i] = (r \o <<Head(w)>>)[i]
    BY <1>1
  <2> QED BY <2>1, <2>2, SeqEqual
<1>3. r \o <<>> = r /\ (r \o <<Head(w)>>) \o <<>> = r \o <<Head(w)>>
  BY <1>2, ConcatEmpty
<1>4. (r \o <<Head(w)>>) \o Tail(w) = r \o w
  BY <1>1, ConcatAssociates
<1> QED BY <1>2, <1>3, <1>4

\* The first answer goes with the first batch.
LEMMA FirstGoes ==
  ASSUME NEW S, NEW r \in Seq(S), NEW f \in Seq(S), NEW w \in Seq(S), r # <<>>
  PROVE  Tail(r \o f \o w) = Tail(r) \o f \o w
<1>1. Tail(r) \in Seq(S) /\ Len(Tail(r)) = Len(r) - 1 /\ Len(r) \in Nat /\ Len(r) > 0
      /\ Len(f) \in Nat /\ Len(w) \in Nat
  OBVIOUS
<1>2. r \o f \in Seq(S) /\ r \o f # <<>> /\ Tail(r \o f) = Tail(r) \o f
  <2>1. r \o f \in Seq(S) /\ Len(r \o f) = Len(r) + Len(f) /\ r \o f # <<>>
    BY <1>1
  <2>2. Tail(r \o f) \in Seq(S) /\ Tail(r) \o f \in Seq(S)
        /\ Len(Tail(r \o f)) = Len(r) + Len(f) - 1 /\ Len(Tail(r) \o f) = Len(r) - 1 + Len(f)
    BY <1>1, <2>1
  <2>3. \A i \in 1..(Len(r) + Len(f) - 1) : Tail(r \o f)[i] = (Tail(r) \o f)[i]
    BY <1>1, <2>1
  <2> QED BY <1>1, <2>1, <2>2, <2>3, SeqEqual
<1> DEFINE q == r \o f
<1>3. Tail(q) \in Seq(S) /\ Len(Tail(q)) = Len(q) - 1 /\ Len(q) \in Nat /\ Len(q) > 0 /\ q \in Seq(S)
  <2>1. q \in Seq(S) /\ q # <<>>
    BY <1>2
  <2> HIDE DEF q
  <2> QED BY <2>1
<1>4. Tail(q \o w) = Tail(q) \o w
  <2> HIDE DEF q
  <2>1. q \o w \in Seq(S) /\ Len(q \o w) = Len(q) + Len(w) /\ q \o w # <<>>
    BY <1>1, <1>3
  <2>2. Tail(q \o w) \in Seq(S) /\ Tail(q) \o w \in Seq(S)
        /\ Len(Tail(q \o w)) = Len(q) + Len(w) - 1 /\ Len(Tail(q) \o w) = Len(q) - 1 + Len(w)
    BY <1>1, <1>3, <2>1
  <2>3. \A i \in 1..(Len(q) + Len(w) - 1) : Tail(q \o w)[i] = (Tail(q) \o w)[i]
    BY <1>1, <1>3, <2>1
  <2> QED BY <1>1, <1>3, <2>1, <2>2, <2>3, SeqEqual
<1> QED BY <1>2, <1>4

-----------------------------------------------------------------------------
(* Filling the pipeline *)

LEMMA KeyOrderIsSequence ==
  ASSUME NEW some, IsFiniteSet(some)
  PROVE  \E T : InKeyOrder(some) \in Seq(T)
<1> DEFINE n == Cardinality(some)
           e(i) == CHOOSE r \in some : Cardinality({s \in some : s.id < r.id}) = i - 1
           T == {e(i) : i \in 1..n}
<1>1. n \in Nat
  BY FS_CardinalityType
<1>2. InKeyOrder(some) = [i \in 1..n |-> e(i)]
  BY DEF InKeyOrder
<1> HIDE DEF n, e
<1>3. [i \in 1..n |-> e(i)] \in [1..n -> T]
  OBVIOUS
<1> HIDE DEF T
<1>4. [i \in 1..n |-> e(i)] \in Seq(T)
  BY <1>1, <1>3
<1> QED BY <1>2, <1>4

LEMMA MinOfTwo ==
  ASSUME NEW a \in Int, NEW b \in Int
  PROVE  Min({a, b}) \in {a, b} /\ Min({a, b}) <= a /\ Min({a, b}) <= b
<1>1. \E x \in {a, b} : \A y \in {a, b} : x <= y
  <2>1. CASE a <= b
    BY <2>1
  <2>2. CASE b <= a
    BY <2>2
  <2> QED BY <2>1, <2>2
<1>2. Min({a, b}) \in {a, b} /\ \A y \in {a, b} : Min({a, b}) <= y
  BY <1>1 DEF Min
<1> QED BY <1>2

\* Batches were added behind those that were there, up to the bound.
Extends(full, pipe, S) ==
  \E T : \E fresh \in Seq(T) :
    S \subseteq T /\ full = pipe \o fresh /\ Len(pipe) + Len(fresh) <= MaxPipeline

LEMMA RefilledExtends ==
  ASSUME NEW S, NEW pipe \in Seq(S), Len(pipe) <= MaxPipeline,
         NEW stored, IsFiniteSet(stored), NEW ack, NEW u
  PROVE  Extends(Refilled(pipe, stored, ack, u), pipe, S)
<1> DEFINE last == IF pipe = <<>> THEN -1 ELSE Last(pipe).id
           some == {r \in stored : r.by = u /\ r.id > last /\ r.id > ack[u]}
           next == BatchesAfter(stored, ack, u, last)
           m == Min({MaxPipeline - Len(pipe), Len(next)})
           fresh == SubSeq(next, 1, m)
<1>1. PICK T : next \in Seq(T)
  <2>1. IsFiniteSet(some)
    BY FS_Subset
  <2>2. next = InKeyOrder(some)
    BY DEF BatchesAfter
  <2> HIDE DEF some, next
  <2> QED BY <2>1, <2>2, KeyOrderIsSequence
<1>2. Refilled(pipe, stored, ack, u) = pipe \o fresh
  BY DEF Refilled
<1>3. m \in Nat /\ m <= Len(next) /\ m <= MaxPipeline - Len(pipe)
  <2> HIDE DEF next
  <2>1. MaxPipeline - Len(pipe) \in Nat /\ Len(next) \in Nat
    BY <1>1, WritesAssumption
  <2> DEFINE a == MaxPipeline - Len(pipe)
             b == Len(next)
  <2>2. a \in Int /\ b \in Int
    BY <2>1
  <2> HIDE DEF a, b
  <2>3. Min({a, b}) \in {a, b} /\ Min({a, b}) <= a /\ Min({a, b}) <= b
    BY <2>2, MinOfTwo
  <2>4. a \in Nat /\ b \in Nat
    BY <2>1 DEF a, b
  <2>5. Min({a, b}) \in Nat /\ Min({a, b}) <= b /\ Min({a, b}) <= a
    BY <2>3, <2>4
  <2> QED BY <2>5 DEF a, b
<1>4. fresh \in Seq(T) /\ Len(fresh) = m
  <2> HIDE DEF next, m
  <2> QED BY <1>1, <1>3
<1> HIDE DEF fresh, m, next
<1>5. fresh \in Seq(S \union T)
  BY <1>4, SeqWidens
<1>6. Len(pipe) \in Nat /\ Len(pipe) + Len(fresh) <= MaxPipeline
  BY <1>3, <1>4, WritesAssumption
<1> QED BY <1>2, <1>5, <1>6 DEF Extends

LEMMA NoCallFits ==
  /\ IsCall(NoCall) /\ NoCall.wire = <<>> /\ NoCall.replies = <<>> /\ NoCall.refusing = <<>>
  /\ NoCall.hello = "none" /\ ~NoCall.idle /\ NoCall.ending = "no"
BY DEF NoCall, IsCall

\* What is fetched is sent on a stream that is past its handshake, and by the
\* next handshake otherwise: pipeline and RPC still fit.
LEMMA FillFits ==
  ASSUME NEW pipe, NEW st, NEW c, Fits(pipe, st, c),
         NEW stored, IsFiniteSet(stored), NEW ack, NEW u,
         FillWritePipeline(pipe, st, c, stored, ack, u)
  PROVE  Fits(pipeline', state', call') /\ (pipeline' # <<>> => state' \in Started)
<1>1. PICK S : pipe \in Seq(S) /\ c.wire \in Seq(S) /\ c.replies \in Seq(S) /\ c.refusing \in Seq(S)
  BY DEF Fits, Batches
<1>2. PICK T : \E fresh \in Seq(T) :
           /\ S \subseteq T /\ Refilled(pipe, stored, ack, u) = pipe \o fresh
           /\ Len(pipe) + Len(fresh) <= MaxPipeline
  <2>1. Len(pipe) <= MaxPipeline
    BY DEF Fits
  <2>2. Extends(Refilled(pipe, stored, ack, u), pipe, S)
    BY <1>1, <2>1, RefilledExtends
  <2> QED BY <2>2 DEF Extends
<1>3. PICK fresh \in Seq(T) :
           /\ S \subseteq T /\ Refilled(pipe, stored, ack, u) = pipe \o fresh
           /\ Len(pipe) + Len(fresh) <= MaxPipeline
  BY <1>2
<1>4. pipe \in Seq(T) /\ c.wire \in Seq(T) /\ c.replies \in Seq(T) /\ c.refusing \in Seq(T)
  BY <1>1, <1>3, SeqWidens
<1> DEFINE full == pipe \o fresh
<1>5. full \in Seq(T) /\ Len(full) = Len(pipe) + Len(fresh) /\ Len(pipe) \in Nat /\ Len(fresh) \in Nat
  BY <1>3, <1>4
<1>6. SubSeq(full, Len(pipe) + 1, Len(full)) = fresh
  <2>1. SubSeq(full, Len(pipe) + 1, Len(full)) \in Seq(T)
        /\ Len(SubSeq(full, Len(pipe) + 1, Len(full))) = Len(fresh)
    <3> HIDE DEF full
    <3> QED BY <1>5
  <2>2. \A i \in 1..Len(fresh) : SubSeq(full, Len(pipe) + 1, Len(full))[i] = full[Len(pipe) + i]
    <3> HIDE DEF full
    <3> QED BY <1>5
  <2>3. \A i \in 1..Len(fresh) : full[Len(pipe) + i] = fresh[i]
    BY <1>4, <1>5
  <2> QED BY <1>3, <2>1, <2>2, <2>3, SeqEqual
<1>7. full = <<>> <=> pipe = <<>> /\ fresh = <<>>
  BY <1>3, <1>4, <1>5
<1> DEFINE sends == Writable(st, c) /\ fresh # <<>>
<1>8. /\ pipeline' = full
      /\ call' = [c EXCEPT !.wire = IF sends THEN @ \o fresh ELSE @,
                           !.idle = (@ \/ (full = <<>> /\ st = "Open")) /\ ~sends]
      /\ IF st \in Started \/ full = <<>> THEN state' = st
         ELSE IF st = "Error" THEN state' = "Backoff" ELSE state' = "Starting"
  BY <1>3, <1>6 DEF FillWritePipeline
<1> HIDE DEF full
<1>9. /\ IsCall(call') /\ call'.hello = c.hello /\ call'.ending = c.ending
      /\ call'.replies = c.replies /\ call'.refusing = c.refusing /\ call'.bearer = c.bearer
      /\ call'.wire = IF sends THEN c.wire \o fresh ELSE c.wire
      /\ call'.idle = ((c.idle \/ (full = <<>> /\ st = "Open")) /\ ~sends)
  BY <1>8 DEF Fits, IsCall
<1>10. state' \in StreamState /\ (state' = "Open" <=> st = "Open")
       /\ (pipeline' # <<>> => state' \in Started)
  BY <1>8 DEF Fits, StreamState, Started
<1>11. Batches(pipeline', call') /\ Len(pipeline') <= MaxPipeline
  <2>1. call'.wire \in Seq(T)
    BY <1>3, <1>4, <1>9
  <2> QED BY <1>3, <1>4, <1>5, <1>8, <1>9, <2>1 DEF Batches
<1>12. state' # "Open" => call' = NoCall
  <2>1. ASSUME st # "Open" PROVE call' = NoCall
    <3>1. c = NoCall /\ ~sends
      BY <2>1 DEF Fits, Writable
    <3>2. call'.idle = FALSE /\ call'.wire = <<>>
      BY <1>9, <2>1, <3>1, NoCallFits
    <3>3. call' = [bearer |-> c.bearer, hello |-> c.hello, idle |-> FALSE, wire |-> <<>>,
                   replies |-> c.replies, refusing |-> c.refusing, ending |-> c.ending]
      BY <1>9, <3>2 DEF IsCall
    <3> QED BY <3>1, <3>3 DEF NoCall
  <2> QED BY <1>10, <2>1
<1>13. call'.hello # "done" => call'.wire = <<>> /\ call'.replies = <<>> /\ call'.refusing = <<>>
  BY <1>9 DEF Fits, Writable
<1>14. ASSUME call'.hello = "done" PROVE pipeline' = call'.replies \o call'.refusing \o call'.wire
  <2>1. pipe = c.replies \o c.refusing \o c.wire
    BY <1>9, <1>14 DEF Fits
  <2>2. st = "Open"
    BY <1>9, <1>14, NoCallFits DEF Fits
  <2>3. CASE fresh = <<>>
    <3>1. call'.wire = c.wire
      BY <1>9, <2>3
    <3>2. pipe \o <<>> = pipe
      BY <1>4, ConcatEmpty
    <3> QED BY <1>8, <1>9, <2>1, <2>3, <3>1, <3>2 DEF full
  <2>4. CASE fresh # <<>>
    <3>1. call'.wire = c.wire \o fresh
      BY <1>9, <1>14, <2>2, <2>4 DEF Writable
    <3> DEFINE q == c.replies \o c.refusing
               w == c.wire
    <3>2. q \in Seq(T) /\ w \in Seq(T) /\ pipe = q \o w
      BY <1>4, <2>1
    <3> HIDE DEF q, w
    <3>3. (q \o w) \o fresh = q \o (w \o fresh)
      BY <1>3, <3>2, ConcatAssociates
    <3>4. full = q \o (w \o fresh)
      BY <3>2, <3>3 DEF full
    <3> QED BY <1>8, <1>9, <3>1, <3>4 DEF q, w
  <2> QED BY <2>3, <2>4
<1>15. call'.ending = "now" => call'.replies = <<>> /\ call'.refusing # <<>>
  BY <1>9 DEF Fits
<1>16. call'.idle => pipeline' = <<>>
  <2> SUFFICES ASSUME c.idle, ~sends PROVE full = <<>>
    BY <1>8, <1>9
  <2>1. pipe = <<>> /\ st = "Open"
    BY NoCallFits DEF Fits
  <2>2. c.hello = "done"
    BY <2>1 DEF Fits, Started
  <2> QED BY <1>7, <2>1, <2>2 DEF Writable
<1>17. state' \in Started /\ call'.hello # "done" => pipeline' # <<>>
  <2>1. CASE st \in Started
    BY <1>7, <1>8, <1>9, <2>1 DEF Fits
  <2>2. CASE st \notin Started
    BY <1>8, <2>2
  <2> QED BY <2>1, <2>2
<1> QED BY <1>9, <1>10, <1>11, <1>12, <1>13, <1>14, <1>15, <1>16, <1>17 DEF Fits

-----------------------------------------------------------------------------
(* The token a stream waits for *)

Tokens(seq, n) == {i \in 1..Len(seq) : seq[i].kind = "token" /\ seq[i].close = n}

\* What can still start the stream: a request, an answer on its way over the
\* main queue, one on the worker queue.
AskedNow == {r \in asked : r.close = closeCount}
OnMain == Tokens(main, closeCount)
OnWorkerQueue == Tokens(worker, closeCount)

AtMostOne(X) == \A x, y \in X : x = y
OneOf(X, Y, Z) ==
  /\ AtMostOne(X) /\ AtMostOne(Y) /\ AtMostOne(Z)
  /\ X = {} \/ Y = {}
  /\ X = {} \/ Z = {}
  /\ Y = {} \/ Z = {}

ClosesBehind(seq, n) == \A i \in 1..Len(seq) : seq[i].kind = "token" => seq[i].close \in 0..n

\* At most one of them is there, and only while the stream waits.
LiveInv ==
  /\ \A r \in asked : r.close \in 0..closeCount
  /\ ClosesBehind(main, closeCount) /\ ClosesBehind(worker, closeCount)
  /\ OneOf(AskedNow, OnMain, OnWorkerQueue)
  /\ state # "Starting" => AskedNow = {} /\ OnMain = {} /\ OnWorkerQueue = {}

LEMMA TokensAppend ==
  ASSUME NEW S, NEW seq \in Seq(S), NEW b \in S, NEW n
  PROVE  /\ Tokens(Append(seq, b), n)
              = Tokens(seq, n) \union (IF b.kind = "token" /\ b.close = n THEN {Len(seq) + 1} ELSE {})
         /\ Len(seq) + 1 \notin Tokens(seq, n)
         /\ \A m : ClosesBehind(seq, m) /\ (b.kind = "token" => b.close \in 0..m)
                     => ClosesBehind(Append(seq, b), m)
<1>1. /\ Len(Append(seq, b)) = Len(seq) + 1 /\ Len(seq) \in Nat /\ Append(seq, b)[Len(seq) + 1] = b
      /\ \A i \in 1..Len(seq) : Append(seq, b)[i] = seq[i]
  OBVIOUS
<1>2. \A i : i \in 1..(Len(seq) + 1) <=> i \in 1..Len(seq) \/ i = Len(seq) + 1
  BY <1>1
<1>3. Len(seq) + 1 \notin 1..Len(seq)
  BY <1>1
<1> QED BY <1>1, <1>2, <1>3 DEF Tokens, ClosesBehind

LEMMA TokensTail ==
  ASSUME NEW S, NEW seq \in Seq(S), seq # <<>>, NEW n
  PROVE  /\ \A i \in Tokens(Tail(seq), n) : i \in Int /\ i # 0 /\ i + 1 \in Tokens(seq, n)
         /\ Head(seq).kind = "token" /\ Head(seq).close = n <=> 1 \in Tokens(seq, n)
         /\ \A m : ClosesBehind(seq, m) => ClosesBehind(Tail(seq), m)
<1>1. /\ Len(Tail(seq)) \in Nat /\ Len(seq) = Len(Tail(seq)) + 1 /\ Head(seq) = seq[1]
      /\ \A k \in 1..Len(Tail(seq)) : Tail(seq)[k] = seq[k + 1]
  BY TailBlocks
<1>2. \A k \in 1..Len(Tail(seq)) : k + 1 \in 1..Len(seq) /\ k \in Int /\ k # 0
  BY <1>1
<1>3. 1 \in 1..Len(seq)
  BY <1>1
<1> QED BY <1>1, <1>2, <1>3 DEF Tokens, ClosesBehind

\* The first block is taken: a token behind it is still one, if it was the first
\* there is none.
LEMMA OneIsTaken ==
  ASSUME NEW S, NEW seq \in Seq(S), seq # <<>>, NEW n, AtMostOne(Tokens(seq, n))
  PROVE  /\ AtMostOne(Tokens(Tail(seq), n))
         /\ Tokens(seq, n) = {} => Tokens(Tail(seq), n) = {}
         /\ Head(seq).kind = "token" /\ Head(seq).close = n => Tokens(Tail(seq), n) = {}
<1>1. \A i \in Tokens(Tail(seq), n) : i \in Int /\ i # 0 /\ i + 1 \in Tokens(seq, n)
  BY TokensTail
<1>2. Head(seq).kind = "token" /\ Head(seq).close = n => 1 \in Tokens(seq, n)
  BY TokensTail
<1>3. AtMostOne(Tokens(Tail(seq), n))
  <2> SUFFICES ASSUME NEW i \in Tokens(Tail(seq), n), NEW j \in Tokens(Tail(seq), n) PROVE i = j
    BY DEF AtMostOne
  <2>1. i + 1 = j + 1 /\ i \in Int /\ j \in Int
    BY <1>1 DEF AtMostOne
  <2> QED BY <2>1
<1>4. ASSUME 1 \in Tokens(seq, n), NEW i \in Tokens(Tail(seq), n) PROVE FALSE
  <2>1. i + 1 = 1 /\ i \in Int /\ i # 0
    BY <1>1, <1>4 DEF AtMostOne
  <2> QED BY <2>1
<1> QED BY <1>1, <1>2, <1>3, <1>4

\* No token has the close count that comes next.
LEMMA NoneAfterClose ==
  ASSUME NEW seq, NEW n \in Nat, ClosesBehind(seq, n)
  PROVE  Tokens(seq, n + 1) = {} /\ ClosesBehind(seq, n + 1)
<1>1. n + 1 \notin 0..n /\ 0..n \subseteq 0..(n + 1)
  OBVIOUS
<1> QED BY <1>1 DEF Tokens, ClosesBehind

\* How a step of the worker queue may touch the requests and the waiting.
Closes == closeCount' = closeCount + 1 /\ UNCHANGED asked /\ state' # "Starting"
ClosesAndAsks == closeCount' = closeCount + 1 /\ GetToken(closeCount') /\ state' = "Starting"
Asks == UNCHANGED closeCount /\ GetToken(closeCount') /\ state # "Starting" /\ state' = "Starting"
Keeps == UNCHANGED <<closeCount, asked>> /\ (state' = "Starting" => state = "Starting")

WorkerRests == UNCHANGED worker
WorkerSteps == worker # <<>> /\ worker' = Tail(worker)

LEMMA LiveWorker ==
  ASSUME StreamTypeOK, LiveInv, UNCHANGED main, WorkerRests \/ WorkerSteps,
         Closes \/ ClosesAndAsks \/ Asks \/ Keeps,
         state = "Starting" /\ Keeps /\ state' # "Starting"
           => /\ WorkerSteps /\ Head(worker).kind = "token" /\ Head(worker).close = closeCount
  PROVE  LiveInv'
<1> DEFINE n == closeCount'
<1>t. closeCount \in Nat /\ worker \in Seq(WorkerBlock) /\ main \in Seq(MainBlock)
  BY DEF StreamTypeOK, CredentialsTypeOK
<1>1. \A m : ClosesBehind(worker, m) => ClosesBehind(worker', m)
  BY <1>t, TokensTail DEF WorkerRests, WorkerSteps
<1>2. CASE closeCount' = closeCount + 1
  <2>1. Tokens(main, n) = {} /\ ClosesBehind(main, n) /\ Tokens(worker, n) = {} /\ ClosesBehind(worker, n)
    BY <1>2, <1>t, NoneAfterClose DEF LiveInv
  <2>2. Tokens(worker', n) = {}
    <3>1. AtMostOne(Tokens(worker, n))
      BY <2>1 DEF AtMostOne
    <3> QED BY <1>t, <2>1, <3>1, OneIsTaken DEF WorkerRests, WorkerSteps
  <2>3. \A r \in asked : r.close \in 0..n /\ r.close # n
    BY <1>2, <1>t DEF LiveInv
  <2>4. n \in 0..n
    BY <1>2, <1>t
  <2>5. CASE UNCHANGED asked /\ state' # "Starting"
    <3>1. AskedNow' = {}
      BY <2>3, <2>5 DEF AskedNow
    <3> QED BY <1>1, <2>1, <2>2, <2>3, <2>5, <3>1
            DEF LiveInv, OneOf, AtMostOne, OnMain, OnWorkerQueue
  <2>6. CASE GetToken(closeCount') /\ state' = "Starting"
    <3> DEFINE q == [user |-> NoUser, counter |-> provider.counter, close |-> n, taken |-> FALSE]
    <3>1. asked' = asked \union {q} /\ q.close = n
      BY <2>6 DEF GetToken
    <3> HIDE DEF q
    <3>2. AskedNow' = {q}
      BY <2>3, <3>1 DEF AskedNow
    <3>3. \A r \in asked' : r.close \in 0..n
      BY <2>3, <2>4, <3>1
    <3> QED BY <1>1, <2>1, <2>2, <2>6, <3>2, <3>3
            DEF LiveInv, OneOf, AtMostOne, OnMain, OnWorkerQueue
  <2> QED BY <1>2, <1>t, <2>5, <2>6 DEF Closes, ClosesAndAsks, Asks, Keeps
<1>3. CASE closeCount' = closeCount
  <2>1. AtMostOne(OnWorkerQueue') /\ (OnWorkerQueue = {} => OnWorkerQueue' = {})
        /\ (WorkerSteps /\ Head(worker).kind = "token" /\ Head(worker).close = closeCount
              => OnWorkerQueue # {} /\ OnWorkerQueue' = {})
    <3>1. AtMostOne(Tokens(worker, closeCount))
      BY DEF LiveInv, OneOf, OnWorkerQueue
    <3>2. CASE WorkerRests
      BY <1>3, <3>1, <3>2, <1>t, OneIsTaken, TokensTail DEF WorkerRests, OnWorkerQueue, WorkerSteps
    <3>3. CASE WorkerSteps
      BY <1>3, <3>1, <3>3, <1>t, OneIsTaken, TokensTail DEF WorkerSteps, OnWorkerQueue
    <3> QED BY <3>2, <3>3
  <2>2. OnMain' = OnMain
    BY <1>3 DEF OnMain
  <2>3. ClosesBehind(main', n) /\ ClosesBehind(worker', n)
    BY <1>1, <1>3 DEF LiveInv
  <2>4. CASE Asks
    <3> DEFINE q == [user |-> NoUser, counter |-> provider.counter, close |-> n, taken |-> FALSE]
    <3>1. asked' = asked \union {q} /\ q.close = n
      BY <2>4 DEF GetToken, Asks
    <3> HIDE DEF q
    <3>2. AskedNow = {} /\ OnMain = {} /\ OnWorkerQueue = {} /\ state' = "Starting"
      BY <2>4 DEF LiveInv, Asks
    <3>3. AskedNow' = {q}
      BY <1>3, <3>1, <3>2 DEF AskedNow
    <3>4. \A r \in asked' : r.close \in 0..n
      BY <1>3, <1>t, <3>1 DEF LiveInv
    <3> QED BY <2>1, <2>2, <2>3, <3>2, <3>3, <3>4 DEF LiveInv, OneOf, AtMostOne
  <2>5. CASE Keeps
    <3>1. AskedNow' = AskedNow /\ \A r \in asked' : r.close \in 0..n
      BY <1>3, <2>5 DEF AskedNow, Keeps, LiveInv
    <3>2. OneOf(AskedNow', OnMain', OnWorkerQueue')
      BY <2>1, <2>2, <3>1 DEF LiveInv, OneOf
    <3>3. ASSUME state' # "Starting" PROVE AskedNow' = {} /\ OnMain' = {} /\ OnWorkerQueue' = {}
      <4>1. CASE state # "Starting"
        BY <2>1, <2>2, <3>1, <4>1 DEF LiveInv
      <4>2. CASE state = "Starting"
        <5>1. OnWorkerQueue # {} /\ OnWorkerQueue' = {}
          BY <2>1, <2>5, <3>3, <4>2
        <5>2. AskedNow = {} /\ OnMain = {}
          BY <5>1 DEF LiveInv, OneOf
        <5> QED BY <2>2, <3>1, <5>1, <5>2
      <4> QED BY <4>1, <4>2
    <3> QED BY <2>3, <3>1, <3>2, <3>3 DEF LiveInv
  <2> QED BY <1>3, <1>t, <2>4, <2>5 DEF Closes, ClosesAndAsks, Asks, Keeps
<1> QED BY <1>2, <1>3 DEF Closes, ClosesAndAsks, Asks, Keeps

\* A request becomes an answer.
LEMMA LiveAnswer ==
  ASSUME StreamTypeOK, StreamTypeOK', LiveInv, NEW r \in asked, NEW u, NEW ok, Answer(r, u, ok),
         asked' = asked \ {r}, UNCHANGED <<worker, closeCount, state>>
  PROVE  LiveInv'
<1> DEFINE b == [kind |-> "token", user |-> u, counter |-> r.counter, close |-> r.close, ok |-> ok]
<1>1. b.kind = "token" /\ b.close = r.close /\ main' = Append(main, b)
  BY DEF Answer
<1> HIDE DEF b
<1>t. main \in Seq(MainBlock) /\ main' \in Seq(MainBlock) /\ r.close \in 0..closeCount
  BY DEF StreamTypeOK, CredentialsTypeOK, LiveInv
<1>2. b \in MainBlock
  <2>1. main'[Len(main) + 1] = b /\ Len(main) + 1 \in 1..Len(main')
    <3>1. Append(main, b)[Len(main) + 1] = b /\ Len(Append(main, b)) = Len(main) + 1 /\ Len(main) \in Nat
      BY <1>t
    <3> QED BY <1>1, <3>1
  <2> QED BY <1>t, <2>1
<1>3. OnMain' = OnMain \union (IF r.close = closeCount THEN {Len(main) + 1} ELSE {})
      /\ ClosesBehind(main', closeCount)
  BY <1>1, <1>2, <1>t, TokensAppend DEF OnMain, LiveInv
<1>4. AskedNow' = AskedNow \ {r} /\ (r.close = closeCount <=> r \in AskedNow)
  BY DEF AskedNow
<1>5. OnWorkerQueue' = OnWorkerQueue /\ \A q \in asked' : q.close \in 0..closeCount'
  BY DEF OnWorkerQueue, LiveInv
<1>6. OneOf(AskedNow', OnMain', OnWorkerQueue')
      /\ (state' # "Starting" => AskedNow' = {} /\ OnMain' = {} /\ OnWorkerQueue' = {})
  <2>1. CASE r \in AskedNow
    <3>1. OnMain = {} /\ OnWorkerQueue = {} /\ AskedNow = {r} /\ state = "Starting"
      BY <2>1 DEF LiveInv, OneOf, AtMostOne
    <3> QED BY <1>3, <1>4, <1>5, <2>1, <3>1 DEF OneOf, AtMostOne
  <2>2. CASE r \notin AskedNow
    <3>1. OnMain' = OnMain /\ AskedNow' = AskedNow
      BY <1>3, <1>4, <2>2
    <3> QED BY <1>5, <3>1 DEF LiveInv
  <2> QED BY <2>1, <2>2
<1> QED BY <1>3, <1>5, <1>6 DEF LiveInv

LEMMA LiveAuthTakes ==
  ASSUME StreamTypeOK, StreamTypeOK', LiveInv, NEW r \in asked, AuthTakes(r), UNCHANGED state
  PROVE  LiveInv'
<1>1. CASE auth = NoUser
  BY <1>1, LiveAnswer DEF AuthTakes
<1>2. CASE auth # NoUser
  <2> DEFINE q == [r EXCEPT !.user = auth, !.taken = TRUE]
  <2>1. q.close = r.close
    BY DEF StreamTypeOK, CredentialsTypeOK, Request
  <2>2. asked' = (asked \ {r}) \union {q} /\ UNCHANGED <<main, worker, closeCount>>
    BY <1>2 DEF AuthTakes
  <2> HIDE DEF q
  <2>3. AskedNow' = IF r \in AskedNow THEN (AskedNow \ {r}) \union {q} ELSE AskedNow
    BY <2>1, <2>2 DEF AskedNow
  <2>4. OnMain' = OnMain /\ OnWorkerQueue' = OnWorkerQueue
    BY <2>2 DEF OnMain, OnWorkerQueue
  <2>5. OneOf(AskedNow', OnMain', OnWorkerQueue')
        /\ (state' # "Starting" => AskedNow' = {} /\ OnMain' = {} /\ OnWorkerQueue' = {})
    BY <2>3, <2>4 DEF LiveInv, OneOf, AtMostOne
  <2> QED BY <2>1, <2>2, <2>5 DEF LiveInv
<1> QED BY <1>1, <1>2

\* A block that is no token comes at the end of the main queue or of the
\* worker queue.
LEMMA LiveOther ==
  ASSUME StreamTypeOK, LiveInv, UNCHANGED <<asked, closeCount, state>>,
         \/ /\ UNCHANGED worker
            /\ \E b \in MainBlock : b.kind # "token" /\ main' = Append(main, b)
         \/ /\ UNCHANGED main
            /\ \E b \in WorkerBlock : b.kind # "token" /\ worker' = Append(worker, b)
  PROVE  LiveInv'
<1>1. main \in Seq(MainBlock) /\ worker \in Seq(WorkerBlock)
  BY DEF StreamTypeOK, CredentialsTypeOK
<1>2. ASSUME NEW b \in MainBlock, b.kind # "token", main' = Append(main, b)
      PROVE  OnMain' = OnMain /\ ClosesBehind(main', closeCount)
  <2>1. Tokens(Append(main, b), closeCount) = Tokens(main, closeCount)
              \union (IF b.kind = "token" /\ b.close = closeCount THEN {Len(main) + 1} ELSE {})
    BY <1>1, TokensAppend
  <2>2. \A m : ClosesBehind(main, m) => ClosesBehind(Append(main, b), m)
    BY <1>1, <1>2, TokensAppend
  <2>3. ClosesBehind(main, closeCount)
    BY DEF LiveInv
  <2> QED BY <1>2, <2>1, <2>2, <2>3 DEF OnMain
<1>3. ASSUME NEW b \in WorkerBlock, b.kind # "token", worker' = Append(worker, b)
      PROVE  OnWorkerQueue' = OnWorkerQueue /\ ClosesBehind(worker', closeCount)
  <2>1. Tokens(Append(worker, b), closeCount) = Tokens(worker, closeCount)
              \union (IF b.kind = "token" /\ b.close = closeCount THEN {Len(worker) + 1} ELSE {})
    BY <1>1, TokensAppend
  <2>2. \A m : ClosesBehind(worker, m) => ClosesBehind(Append(worker, b), m)
    BY <1>1, <1>3, TokensAppend
  <2>3. ClosesBehind(worker, closeCount)
    BY DEF LiveInv
  <2> QED BY <1>3, <2>1, <2>2, <2>3 DEF OnWorkerQueue
<1>4. /\ OnMain' = OnMain /\ ClosesBehind(main', closeCount)
      /\ OnWorkerQueue' = OnWorkerQueue /\ ClosesBehind(worker', closeCount)
  BY <1>2, <1>3 DEF OnMain, OnWorkerQueue, LiveInv
<1>5. AskedNow' = AskedNow
  BY DEF AskedNow
<1> QED BY <1>4, <1>5 DEF LiveInv

\* The main queue hands its first block to the worker queue.
LEMMA LiveMainQueue ==
  ASSUME StreamTypeOK, StreamTypeOK', LiveInv, HearChange \/ HearToken, UNCHANGED state
  PROVE  LiveInv'
<1> DEFINE b == worker'[Len(worker) + 1]
<1>t. main \in Seq(MainBlock) /\ worker \in Seq(WorkerBlock) /\ worker' \in Seq(WorkerBlock)
  BY DEF StreamTypeOK, CredentialsTypeOK
<1>1. main # <<>> /\ main' = Tail(main) /\ UNCHANGED <<asked, closeCount>>
  BY DEF HearChange, HearToken
<1>2. PICK e : /\ worker' = Append(worker, e) /\ e.kind \in {"change", "token"}
               /\ e.kind = "token" <=> Head(main).kind = "token"
               /\ e.kind = "token" => e.close = Head(main).close
  <2>1. CASE HearChange
    BY <2>1 DEF HearChange
  <2>2. CASE HearToken
    BY <2>2 DEF HearToken
  <2> QED BY <2>1, <2>2
<1>3. e \in WorkerBlock
  <2>1. Append(worker, e)[Len(worker) + 1] = e /\ Len(Append(worker, e)) = Len(worker) + 1
        /\ Len(worker) \in Nat
    BY <1>t
  <2>2. Len(worker) + 1 \in 1..Len(worker') /\ worker'[Len(worker) + 1] = e
    BY <1>2, <2>1
  <2> QED BY <1>t, <2>2
<1>4. /\ AtMostOne(OnMain') /\ (OnMain = {} => OnMain' = {})
      /\ (Head(main).kind = "token" /\ Head(main).close = closeCount => OnMain # {} /\ OnMain' = {})
      /\ ClosesBehind(main', closeCount)
  <2>1. AtMostOne(Tokens(main, closeCount))
    BY DEF LiveInv, OneOf, OnMain
  <2> QED BY <1>1, <1>t, <2>1, OneIsTaken, TokensTail DEF OnMain, LiveInv
<1>5. Head(main).kind = "token" => Head(main).close \in 0..closeCount
  <2>1. Head(main) = main[1] /\ 1 \in 1..Len(main)
    BY <1>1, <1>t
  <2> QED BY <2>1 DEF LiveInv, ClosesBehind
<1>6. /\ OnWorkerQueue' = OnWorkerQueue \union
           (IF e.kind = "token" /\ e.close = closeCount THEN {Len(worker) + 1} ELSE {})
      /\ ClosesBehind(worker', closeCount)
  BY <1>1, <1>2, <1>3, <1>5, <1>t, TokensAppend DEF OnWorkerQueue, LiveInv
<1>7. AskedNow' = AskedNow
  BY <1>1 DEF AskedNow
<1>8. OneOf(AskedNow', OnMain', OnWorkerQueue')
      /\ (state' # "Starting" => AskedNow' = {} /\ OnMain' = {} /\ OnWorkerQueue' = {})
  <2>1. CASE e.kind = "token" /\ e.close = closeCount
    <3>1. OnMain # {} /\ OnMain' = {}
      BY <1>2, <1>4, <2>1
    <3>2. AskedNow = {} /\ OnWorkerQueue = {} /\ state = "Starting"
      BY <3>1 DEF LiveInv, OneOf
    <3>3. OnWorkerQueue' = {Len(worker) + 1}
      BY <1>6, <2>1, <3>2
    <3> QED BY <1>7, <3>1, <3>2, <3>3 DEF OneOf, AtMostOne
  <2>2. CASE ~(e.kind = "token" /\ e.close = closeCount)
    <3>1. OnWorkerQueue' = OnWorkerQueue
      BY <1>6, <2>2
    <3> QED BY <1>4, <1>7, <3>1 DEF LiveInv, OneOf
  <2> QED BY <2>1, <2>2
<1> QED BY <1>1, <1>4, <1>6, <1>8 DEF LiveInv

\* A client that starts has asked at most once.
LEMMA LiveStart ==
  ASSUME StreamTypeOK, Initialize, Launch(auth)
  PROVE  LiveInv'
<1>1. worker' = <<>> /\ closeCount' = 0
  BY DEF Initialize
<1>2. ClosesBehind(main', 0) /\ OnMain' = {}
  <2>1. main' = <<>> \/ main' = <<[kind |-> "state", user |-> auth]>>
    BY DEF Launch
  <2>2. CASE main' = <<>>
    BY <2>2 DEF ClosesBehind, OnMain, Tokens
  <2>3. CASE main' = <<[kind |-> "state", user |-> auth]>>
    <3>1. Len(main') = 1 /\ main'[1].kind = "state"
      BY <2>3
    <3>2. \A i \in 1..Len(main') : main'[i].kind # "token"
      BY <3>1
    <3> QED BY <3>2 DEF ClosesBehind, OnMain, Tokens
  <2> QED BY <2>1, <2>2, <2>3
<1>3. ClosesBehind(worker', 0) /\ OnWorkerQueue' = {}
  BY <1>1 DEF ClosesBehind, OnWorkerQueue, Tokens
<1>4. \/ asked' = {} /\ state' = "Initial"
      \/ asked' = {[user |-> NoUser, counter |-> 0, close |-> 0, taken |-> FALSE]} /\ state' = "Starting"
  BY DEF Initialize
<1>5. /\ \A r \in asked' : r.close \in 0..0
      /\ AtMostOne(AskedNow') /\ (state' # "Starting" => AskedNow' = {})
  <2>1. CASE asked' = {}
    BY <2>1 DEF AskedNow, AtMostOne
  <2>2. CASE asked' = {[user |-> NoUser, counter |-> 0, close |-> 0, taken |-> FALSE]}
             /\ state' = "Starting"
    <3> DEFINE q == [user |-> NoUser, counter |-> 0, close |-> 0, taken |-> FALSE]
    <3>1. asked' = {q} /\ q.close = 0
      BY <2>2
    <3> HIDE DEF q
    <3>2. \A r \in asked' : r.close = 0 /\ r = q
      BY <3>1
    <3>3. 0 \in 0..0
      OBVIOUS
    <3> QED BY <2>2, <3>2, <3>3 DEF AskedNow, AtMostOne
  <2> QED BY <1>4, <2>1, <2>2
<1> QED BY <1>1, <1>2, <1>3, <1>5 DEF LiveInv, OneOf, AtMostOne

\* Filling the pipeline asks for a token exactly when it starts the stream.
LEMMA FillAsks ==
  ASSUME NEW pipe, NEW st, NEW c, NEW stored, NEW ack, NEW u,
         FillWritePipeline(pipe, st, c, stored, ack, u)
  PROVE  \/ UNCHANGED asked /\ (st \in Started => state' = st) /\ (state' = "Starting" => st = "Starting")
         \/ GetToken(closeCount') /\ state' = "Starting" /\ st \notin Started
BY DEF FillWritePipeline, Started

-----------------------------------------------------------------------------
(* The steps of the worker queue *)

\* An empty pipeline and a stream that is stopped.
LEMMA StoppedFits ==
  ASSUME NEW st \in StreamState \ Started
  PROVE  Fits(<<>>, st, NoCall)
<1>1. <<>> \in Seq({}) /\ Len(<<>>) = 0
  OBVIOUS
<1>2. Batches(<<>>, NoCall)
  BY <1>1, NoCallFits DEF Batches
<1> QED BY <1>1, <1>2, NoCallFits, WritesAssumption DEF Fits

\* A stream that stops keeps what was in the pipeline, or but its first batch.
LEMMA StopFits ==
  ASSUME NEW S, NEW pipe \in Seq(S), Len(pipe) <= MaxPipeline,
         NEW st \in StreamState, st # "Open", pipe # <<>> \/ st \notin Started
  PROVE  Fits(pipe, st, NoCall)
<1>1. <<>> \in Seq(S)
  OBVIOUS
<1>2. Batches(pipe, NoCall)
  BY <1>1, NoCallFits DEF Batches
<1> QED BY <1>2, NoCallFits DEF Fits

\* Nothing answered and nothing refused is of an empty pipeline.
LEMMA SomethingSent ==
  ASSUME NEW S, NEW r \in Seq(S), NEW f \in Seq(S), NEW w \in Seq(S), r # <<>> \/ f # <<>>,
         NEW pipe \in Seq(S), pipe = r \o f \o w
  PROVE  pipe # <<>> /\ Tail(pipe) \in Seq(S)
         /\ Len(Tail(pipe)) = Len(pipe) - 1 /\ Len(pipe) \in Nat
<1>1. /\ Len(r) \in Nat /\ Len(f) \in Nat /\ Len(w) \in Nat /\ Len(pipe) \in Nat
      /\ (r # <<>> => Len(r) > 0) /\ (f # <<>> => Len(f) > 0)
  OBVIOUS
<1>2. Len(r \o f) = Len(r) + Len(f) /\ r \o f \in Seq(S)
  OBVIOUS
<1>3. Len(pipe) = Len(r \o f) + Len(w)
  BY <1>2, ConcatProperties
<1>4. pipe # <<>>
  BY <1>1, <1>2, <1>3
<1> QED BY <1>4

LEMMA AnswersWriteMutations ==
  ASSUME StreamTypeOK, PipelineInv, LiveInv, WriteMutations
  PROVE  PipelineInv' /\ LiveInv'
<1>1. IsFiniteSet(rows')
  BY FS_AddElement DEF WriteMutations, PipelineInv
<1>2. FillWritePipeline(pipeline, state, call, rows', acked, user)
  BY DEF WriteMutations
<1>3. PipelineInv'
  BY <1>1, <1>2, FillFits DEF PipelineInv
<1>4. (Keeps /\ (state = "Starting" => state' = "Starting")) \/ Asks
  BY <1>2, FillAsks DEF WriteMutations, Keeps, Asks, Started
<1>5. UNCHANGED main /\ WorkerSteps
  BY DEF WriteMutations, NextBlock, WorkerSteps
<1> QED BY <1>3, <1>4, <1>5, LiveWorker DEF Asks

LEMMA AnswersCredentialDidChange ==
  ASSUME StreamTypeOK, PipelineInv, LiveInv, CredentialDidChange
  PROVE  PipelineInv' /\ LiveInv'
<1> DEFINE st == IF Stops(state) THEN "Initial" ELSE state
           c == IF Stops(state) THEN NoCall ELSE call
<1>1. st \in StreamState \ Started /\ c = NoCall
  BY DEF PipelineInv, Fits, Stops, StreamState, Started
<1>2. FillWritePipeline(<<>>, st, c, rows, acked', user')
  BY DEF CredentialDidChange, PipelineAfterStop
<1> HIDE DEF st, c
<1>3. Fits(<<>>, st, c)
  BY <1>1, StoppedFits
<1>4. PipelineInv'
  <2>1. IsFiniteSet(rows) /\ rows' = rows
    BY DEF CredentialDidChange, PipelineInv
  <2> QED BY <1>2, <1>3, <2>1, FillFits DEF PipelineInv
<1>5. \/ UNCHANGED asked /\ state' # "Starting"
      \/ GetToken(closeCount') /\ state' = "Starting"
  BY <1>1, <1>2, FillAsks DEF Started
<1>6. \/ state \in Started /\ closeCount' = closeCount + 1
      \/ state \notin Started /\ closeCount' = closeCount
  BY DEF CredentialDidChange, Stops
<1>7. Closes \/ ClosesAndAsks \/ Asks \/ (Keeps /\ state # "Starting")
  BY <1>5, <1>6 DEF Closes, ClosesAndAsks, Asks, Keeps, Started
<1>8. UNCHANGED main /\ WorkerSteps
  BY DEF CredentialDidChange, NextBlock, WorkerSteps
<1>9. ~(state = "Starting" /\ Keeps /\ state' # "Starting")
  <2>1. closeCount \in Nat
    BY DEF StreamTypeOK, CredentialsTypeOK
  <2> QED BY <1>6, <2>1 DEF Keeps, Started
<1> QED BY <1>4, <1>7, <1>8, <1>9, LiveWorker

\* A stream that takes a token was waiting for it, with something to send.
LEMMA AnswersResumeStart ==
  ASSUME StreamTypeOK, PipelineInv, LiveInv, ResumeStart
  PROVE  PipelineInv' /\ LiveInv'
<1>1. UNCHANGED <<main, rows>> /\ WorkerSteps /\ Head(worker).kind = "token"
  BY DEF ResumeStart, NextBlock, WorkerSteps, disk
<1>2. closeCount \in Nat /\ worker \in Seq(WorkerBlock)
  BY DEF StreamTypeOK, CredentialsTypeOK
<1>3. Current(Head(worker)) => state = "Starting"
  <2>1. Head(worker).close = closeCount => OnWorkerQueue # {}
    BY <1>1, <1>2, TokensTail DEF WorkerSteps, OnWorkerQueue
  <2> QED BY <2>1 DEF Current, LiveInv
<1>4. CASE ~Current(Head(worker))
  <2>1. UNCHANGED <<asked, closeCount, pipeline, state, call>>
    BY <1>4 DEF ResumeStart
  <2>2. Keeps /\ state' = state
    BY <2>1 DEF Keeps
  <2> QED BY <1>1, <2>1, <2>2, LiveWorker DEF PipelineInv, Fits, Batches
<1>5. CASE Current(Head(worker)) /\ Head(worker).ok
  <2>1. /\ state' = "Open" /\ UNCHANGED <<asked, closeCount, pipeline>>
        /\ call' = [NoCall EXCEPT !.bearer = Head(worker).user, !.hello = "asked"]
    BY <1>5 DEF ResumeStart
  <2>2. state = "Starting" /\ call = NoCall /\ pipeline # <<>>
    BY <1>3, <1>5, NoCallFits DEF PipelineInv, Fits, Started
  <2>3. /\ IsCall(call') /\ call'.wire = <<>> /\ call'.replies = <<>> /\ call'.refusing = <<>>
        /\ call'.hello = "asked" /\ call'.ending = "no" /\ ~call'.idle
    BY <2>1 DEF NoCall, IsCall
  <2>4. Batches(pipeline', call')
    BY <2>1, <2>2, <2>3, NoCallFits DEF PipelineInv, Fits, Batches
  <2>5. PipelineInv'
    BY <1>1, <2>1, <2>2, <2>3, <2>4 DEF PipelineInv, Fits, StreamState, Started
  <2>6. Keeps /\ Head(worker).close = closeCount
    BY <1>5, <2>1 DEF Keeps, Current
  <2> QED BY <1>1, <2>5, <2>6, LiveWorker
<1>6. CASE Current(Head(worker)) /\ ~Head(worker).ok
  <2>1. FailStream
    BY <1>6 DEF ResumeStart
  <2>2. PICK S : pipeline \in Seq(S)
    BY DEF PipelineInv, Fits, Batches
  <2>3. Len(pipeline) <= MaxPipeline
    BY DEF PipelineInv, Fits
  <2>4. state' \in StreamState /\ state' # "Open" /\ state' # "Starting"
        /\ (pipeline # <<>> \/ state' \notin Started) /\ (pipeline # <<>> => state' \in Started)
        /\ call' = NoCall /\ pipeline' = pipeline
    BY <2>1 DEF FailStream, StreamState, Started
  <2>5. Fits(pipeline, state', NoCall)
    BY <2>2, <2>3, <2>4, StopFits
  <2>6. PipelineInv'
    BY <1>1, <2>4, <2>5 DEF PipelineInv
  <2>7. Closes
    BY <2>1, <2>4 DEF FailStream, Closes
  <2>8. ~Keeps
    BY <1>2, <2>7 DEF Closes, Keeps
  <2> QED BY <1>1, <2>6, <2>7, <2>8, LiveWorker
<1> QED BY <1>4, <1>5, <1>6

\* The stream closes with an error, or because nothing was sent for long.
LEMMA AnswersClose ==
  ASSUME StreamTypeOK, PipelineInv, LiveInv, IdleTimeout \/ StreamFails
  PROVE  PipelineInv' /\ LiveInv'
<1>1. UNCHANGED <<main, worker, rows, pipeline, asked>> /\ call' = NoCall
      /\ closeCount' = closeCount + 1 /\ state' # "Open" /\ state' # "Starting"
      /\ state' \in StreamState
  BY DEF IdleTimeout, StreamFails, FailStream, OnWorker, disk, StreamState, Started
<1>2. (pipeline # <<>> \/ state' \notin Started) /\ (pipeline # <<>> => state' \in Started)
  BY DEF IdleTimeout, StreamFails, FailStream, PipelineInv, Fits, Started
<1>3. PICK S : pipeline \in Seq(S)
  BY DEF PipelineInv, Fits, Batches
<1>4. Fits(pipeline, state', NoCall)
  <2>1. Len(pipeline) <= MaxPipeline
    BY DEF PipelineInv, Fits
  <2> QED BY <1>1, <1>2, <1>3, <2>1, StopFits
<1>5. PipelineInv'
  BY <1>1, <1>2, <1>4 DEF PipelineInv
<1>6. Closes /\ ~Keeps /\ WorkerRests
  <2>1. closeCount \in Nat
    BY DEF StreamTypeOK, CredentialsTypeOK
  <2> QED BY <1>1, <2>1 DEF Closes, Keeps, WorkerRests
<1> QED BY <1>1, <1>5, <1>6, LiveWorker

LEMMA AnswersBackoff ==
  ASSUME StreamTypeOK, PipelineInv, LiveInv, BackoffElapsed
  PROVE  PipelineInv' /\ LiveInv'
<1>1. state = "Backoff" /\ state' = "Starting" /\ UNCHANGED <<main, worker, rows, pipeline, call, closeCount>>
      /\ GetToken(closeCount')
  BY DEF BackoffElapsed, OnWorker, disk, GetToken
<1>2. PipelineInv'
  BY <1>1 DEF PipelineInv, Fits, Batches, StreamState, Started
<1>3. Asks /\ ~(state = "Starting")
  BY <1>1 DEF Asks
<1> QED BY <1>1, <1>2, <1>3, LiveWorker DEF WorkerRests

LEMMA AnswersHandshakeDone ==
  ASSUME PipelineInv, HandshakeDone
  PROVE  PipelineInv'
<1>1. /\ call.hello = "answered" /\ UNCHANGED <<rows, pipeline, state>>
      /\ call' = [call EXCEPT !.hello = "done", !.wire = pipeline, !.idle = @ /\ pipeline = <<>>]
  BY DEF HandshakeDone, disk
<1>2. state = "Open" /\ call.replies = <<>> /\ call.refusing = <<>> /\ call.ending # "now"
  BY <1>1, NoCallFits DEF PipelineInv, Fits
<1>3. /\ IsCall(call') /\ call'.hello = "done" /\ call'.wire = pipeline
      /\ call'.replies = <<>> /\ call'.refusing = <<>> /\ call'.ending # "now"
      /\ (call'.idle => pipeline = <<>>)
  BY <1>1, <1>2 DEF PipelineInv, Fits, IsCall
<1>4. PICK S : pipeline \in Seq(S)
  BY DEF PipelineInv, Fits, Batches
<1>5. <<>> \o <<>> \o pipeline = pipeline
  <2>1. <<>> \in Seq(S) /\ <<>> \o <<>> = <<>>
    OBVIOUS
  <2> QED BY <1>4, <2>1, ConcatEmpty
<1>6. Batches(pipeline', call')
  <2>1. <<>> \in Seq(S)
    OBVIOUS
  <2> QED BY <1>1, <1>3, <1>4, <2>1 DEF Batches
<1> QED BY <1>1, <1>2, <1>3, <1>5, <1>6 DEF PipelineInv, Fits

LEMMA AnswersSeeEnd ==
  ASSUME PipelineInv, SeeEnd
  PROVE  PipelineInv'
<1>1. /\ call.refusing # <<>> /\ call.replies = <<>> /\ UNCHANGED <<rows, pipeline, state>>
      /\ call' = [call EXCEPT !.ending = "now"]
  BY DEF SeeEnd, disk
<1>2. /\ IsCall(call') /\ call'.hello = call.hello /\ call'.wire = call.wire
      /\ call'.replies = <<>> /\ call'.refusing = call.refusing /\ call'.idle = call.idle
  BY <1>1 DEF PipelineInv, Fits, IsCall
<1>3. state = "Open"
  BY <1>1, NoCallFits DEF PipelineInv, Fits
<1> QED BY <1>1, <1>2, <1>3 DEF PipelineInv, Fits, Batches

\* The first batch of the pipeline is gone with its answer.
LEMMA AnswersReceiveResponse ==
  ASSUME StreamTypeOK, PipelineInv, LiveInv, ReceiveResponse
  PROVE  PipelineInv' /\ LiveInv'
<1>1. /\ call.replies # <<>> /\ UNCHANGED <<main, worker, closeCount>>
      /\ rows' \subseteq rows /\ state \in Started
      /\ FillWritePipeline(Tail(pipeline), state, AfterRead, rows', acked', user)
  BY DEF ReceiveResponse, OnWorker
<1>2. /\ state = "Open" /\ call.hello = "done" /\ call.ending = "no"
      /\ pipeline = call.replies \o call.refusing \o call.wire
  BY <1>1, NoCallFits DEF PipelineInv, Fits, IsCall
<1>3. PICK S : /\ pipeline \in Seq(S) /\ call.wire \in Seq(S)
               /\ call.replies \in Seq(S) /\ call.refusing \in Seq(S)
  BY DEF PipelineInv, Fits, Batches
<1>4. Tail(pipeline) = Tail(call.replies) \o call.refusing \o call.wire
  <2> DEFINE r == call.replies
             f == call.refusing
             w == call.wire
  <2>1. r \in Seq(S) /\ f \in Seq(S) /\ w \in Seq(S) /\ r # <<>> /\ pipeline = r \o f \o w
    BY <1>1, <1>2, <1>3
  <2> HIDE DEF r, f, w
  <2>2. Tail(r \o f \o w) = Tail(r) \o f \o w
    BY <2>1, FirstGoes
  <2>3. Tail(pipeline) = Tail(r) \o f \o w
    BY <2>1, <2>2
  <2> QED BY <2>3 DEF r, f, w
<1>5. pipeline # <<>> /\ Tail(pipeline) \in Seq(S) /\ Len(Tail(pipeline)) <= MaxPipeline
      /\ Tail(call.replies) \in Seq(S)
  <2>1. pipeline # <<>> /\ Tail(pipeline) \in Seq(S)
        /\ Len(Tail(pipeline)) = Len(pipeline) - 1 /\ Len(pipeline) \in Nat
    <3> DEFINE r == call.replies
               f == call.refusing
               w == call.wire
               pipe == pipeline
    <3>1. /\ r \in Seq(S) /\ f \in Seq(S) /\ w \in Seq(S) /\ pipe \in Seq(S)
          /\ r # <<>> \/ f # <<>>
          /\ pipe = r \o f \o w
      BY <1>1, <1>2, <1>3
    <3> HIDE DEF r, f, w, pipe
    <3>2. pipe # <<>> /\ Tail(pipe) \in Seq(S)
          /\ Len(Tail(pipe)) = Len(pipe) - 1 /\ Len(pipe) \in Nat
      BY <3>1, SomethingSent
    <3> QED BY <3>2 DEF pipe
  <2>2. Tail(call.replies) \in Seq(S)
    BY <1>1, <1>3
  <2>3. Len(pipeline) <= MaxPipeline
    BY DEF PipelineInv, Fits
  <2> QED BY <2>1, <2>2, <2>3, WritesAssumption
<1>6. /\ IsCall(AfterRead) /\ AfterRead.hello = "done" /\ AfterRead.wire = call.wire
      /\ AfterRead.replies = Tail(call.replies) /\ AfterRead.refusing = call.refusing
      /\ AfterRead.idle = call.idle /\ AfterRead.ending = "no"
  <2>1. IsCall(call)
    BY DEF PipelineInv, Fits
  <2>2. AfterRead = [call EXCEPT !.replies = Tail(call.replies), !.ending = "no"]
    BY <1>2 DEF AfterRead
  <2> QED BY <1>2, <2>1, <2>2 DEF IsCall
<1>7. Batches(Tail(pipeline), AfterRead)
  BY <1>3, <1>5, <1>6 DEF Batches
<1>8. Fits(Tail(pipeline), state, AfterRead)
  <2>1. ~call.idle
    BY <1>5 DEF PipelineInv, Fits
  <2> QED BY <1>2, <1>4, <1>5, <1>6, <1>7, <2>1 DEF Fits, StreamState, Started
<1>9. IsFiniteSet(rows')
  BY <1>1, FS_Subset DEF PipelineInv
<1>10. PipelineInv'
  BY <1>1, <1>8, <1>9, FillFits DEF PipelineInv
<1>11. Keeps /\ state # "Starting"
  BY <1>1, <1>2, FillAsks DEF Keeps, Started
<1> QED BY <1>1, <1>10, <1>11, LiveWorker DEF WorkerRests

LEMMA AnswersRejectFirst ==
  ASSUME StreamTypeOK, PipelineInv, LiveInv, RejectFirst
  PROVE  PipelineInv' /\ LiveInv'
<1>1. /\ call.ending = "now" /\ UNCHANGED <<main, worker>> /\ closeCount' = closeCount + 1
      /\ rows' \subseteq rows
      /\ FillWritePipeline(Tail(pipeline), "Initial", NoCall, rows', acked, user)
  BY DEF RejectFirst, OnWorker
<1>2. call.refusing # <<>> /\ call.hello = "done"
      /\ pipeline = call.replies \o call.refusing \o call.wire
  BY <1>1 DEF PipelineInv, Fits
<1>3. PICK S : /\ pipeline \in Seq(S) /\ call.wire \in Seq(S)
               /\ call.replies \in Seq(S) /\ call.refusing \in Seq(S)
  BY DEF PipelineInv, Fits, Batches
<1>4. pipeline # <<>> /\ Tail(pipeline) \in Seq(S) /\ Len(Tail(pipeline)) <= MaxPipeline
  <2>1. pipeline # <<>> /\ Tail(pipeline) \in Seq(S)
        /\ Len(Tail(pipeline)) = Len(pipeline) - 1 /\ Len(pipeline) \in Nat
    <3> DEFINE r == call.replies
               f == call.refusing
               w == call.wire
               pipe == pipeline
    <3>1. /\ r \in Seq(S) /\ f \in Seq(S) /\ w \in Seq(S) /\ pipe \in Seq(S)
          /\ r # <<>> \/ f # <<>>
          /\ pipe = r \o f \o w
      BY <1>2, <1>3
    <3> HIDE DEF r, f, w, pipe
    <3>2. pipe # <<>> /\ Tail(pipe) \in Seq(S)
          /\ Len(Tail(pipe)) = Len(pipe) - 1 /\ Len(pipe) \in Nat
      BY <3>1, SomethingSent
    <3> QED BY <3>2 DEF pipe
  <2>2. Len(pipeline) <= MaxPipeline
    BY DEF PipelineInv, Fits
  <2> QED BY <2>1, <2>2, WritesAssumption
<1>5. Fits(Tail(pipeline), "Initial", NoCall)
  BY <1>4, StopFits DEF StreamState, Started
<1>6. IsFiniteSet(rows')
  BY <1>1, FS_Subset DEF PipelineInv
<1>7. PipelineInv'
  BY <1>1, <1>5, <1>6, FillFits DEF PipelineInv
<1>8. Closes \/ ClosesAndAsks
  BY <1>1, FillAsks DEF Closes, ClosesAndAsks
<1>9. ~Keeps
  <2>1. closeCount \in Nat
    BY DEF StreamTypeOK, CredentialsTypeOK
  <2> QED BY <1>1, <2>1 DEF Keeps
<1> QED BY <1>1, <1>7, <1>8, <1>9, LiveWorker DEF WorkerRests

-----------------------------------------------------------------------------
(* The server, the process, and every step *)

LEMMA AnswersServer ==
  ASSUME PipelineInv, AnswerHandshake \/ Apply \/ Refuse
  PROVE  PipelineInv'
<1>1. /\ state = "Open" /\ call.refusing = <<>> /\ call.ending # "now"
      /\ UNCHANGED <<rows, pipeline, state>>
  BY DEF AnswerHandshake, Apply, Refuse, Serving, disk, PipelineInv, Fits
<1>2. IsCall(call) /\ Len(pipeline) <= MaxPipeline
  BY DEF PipelineInv, Fits
<1>3. PICK S : /\ pipeline \in Seq(S) /\ call.wire \in Seq(S)
               /\ call.replies \in Seq(S) /\ call.refusing \in Seq(S)
  BY DEF PipelineInv, Fits, Batches
<1>4. CASE AnswerHandshake
  <2>1. call.hello = "asked" /\ call' = [call EXCEPT !.hello = "answered"]
    BY <1>4 DEF AnswerHandshake
  <2>2. /\ IsCall(call') /\ call'.hello = "answered" /\ call'.wire = call.wire
        /\ call'.replies = call.replies /\ call'.refusing = call.refusing
        /\ call'.idle = call.idle /\ call'.ending = call.ending
    BY <1>2, <2>1 DEF IsCall
  <2> QED BY <1>1, <2>1, <2>2 DEF PipelineInv, Fits, Batches
<1> DEFINE r == call.replies
           w == call.wire
<1>5. CASE Apply \/ Refuse
  <2>1. w # <<>> /\ call.hello = "done" /\ pipeline = r \o <<>> \o w /\ r \in Seq(S) /\ w \in Seq(S)
    BY <1>1, <1>3, <1>5 DEF Apply, Refuse, PipelineInv, Fits
  <2> HIDE DEF r, w
  <2>2. /\ r \o <<>> \o w = Append(r, Head(w)) \o <<>> \o Tail(w)
        /\ r \o <<>> \o w = r \o <<Head(w)>> \o Tail(w)
    BY <2>1, WireMoves
  <2>3. /\ Append(r, Head(w)) \in Seq(S) /\ Tail(w) \in Seq(S) /\ <<Head(w)>> \in Seq(S)
        /\ <<>> \in Seq(S) /\ <<Head(w)>> # <<>>
    BY <2>1
  <2>4. CASE Apply
    <3>1. call' = [call EXCEPT !.wire = Tail(w), !.replies = Append(r, Head(w))]
      BY <2>4 DEF Apply, r, w
    <3>2. /\ IsCall(call') /\ call'.hello = "done" /\ call'.wire = Tail(w)
          /\ call'.replies = Append(r, Head(w)) /\ call'.refusing = <<>>
          /\ call'.idle = call.idle /\ call'.ending = call.ending
      BY <1>1, <1>2, <2>1, <3>1 DEF IsCall
    <3>3. Batches(pipeline', call')
      BY <1>1, <1>3, <2>3, <3>2 DEF Batches
    <3> QED BY <1>1, <2>1, <2>2, <3>2, <3>3 DEF PipelineInv, Fits
  <2>5. CASE Refuse
    <3>1. call' = [call EXCEPT !.wire = Tail(w), !.refusing = <<Head(w)>>]
      BY <2>5 DEF Refuse, w
    <3>2. /\ IsCall(call') /\ call'.hello = "done" /\ call'.wire = Tail(w)
          /\ call'.replies = r /\ call'.refusing = <<Head(w)>>
          /\ call'.idle = call.idle /\ call'.ending = call.ending
      BY <1>1, <1>2, <2>1, <3>1 DEF IsCall, r
    <3>3. Batches(pipeline', call')
      BY <1>1, <1>3, <2>1, <2>3, <3>2 DEF Batches
    <3> QED BY <1>1, <2>1, <2>2, <3>2, <3>3 DEF PipelineInv, Fits
  <2> QED BY <1>5, <2>4, <2>5
<1> QED BY <1>4, <1>5

LEMMA AnswersStart ==
  ASSUME PipelineInv, Initialize, UNCHANGED rows
  PROVE  PipelineInv'
<1>1. <<>> \in Seq({}) /\ Len(<<>>) <= MaxPipeline
  BY WritesAssumption
<1>2. Extends(Refilled(<<>>, rows, acked', user'), <<>>, {})
  BY <1>1, RefilledExtends DEF PipelineInv
<1>3. PICK T, fresh : fresh \in Seq(T) /\ pipeline' = <<>> \o fresh /\ Len(<<>>) + Len(fresh) <= MaxPipeline
  BY <1>2 DEF Initialize, Extends
<1>4. pipeline' \in Seq(T) /\ Len(pipeline') <= MaxPipeline
  <2>1. <<>> \o fresh = fresh /\ Len(<<>>) = 0 /\ Len(fresh) \in Nat
    BY <1>3, ConcatEmpty
  <2> QED BY <1>3, <2>1
<1>5. /\ call' = NoCall /\ state' \in {"Initial", "Starting"}
      /\ state' = "Initial" <=> pipeline' = <<>>
  BY DEF Initialize
<1>6. Fits(pipeline', state', NoCall)
  BY <1>4, <1>5, StopFits DEF StreamState, Started
<1> QED BY <1>5, <1>6 DEF PipelineInv, Started

AnswersInv == TokenInv /\ PipelineInv /\ LiveInv

LEMMA AnswersInit == Init => AnswersInv
<1> SUFFICES ASSUME Init PROVE AnswersInv
  OBVIOUS
<1>1. PipelineInv
  BY StoppedFits, FS_EmptySet DEF Init, PipelineInv, StreamState, Started
<1>2. LiveInv
  BY DEF Init, LiveInv, OneOf, AtMostOne, AskedNow, OnMain, OnWorkerQueue, Tokens, ClosesBehind
<1> QED BY <1>1, <1>2, TokenInit DEF AnswersInv

LEMMA AnswersNext == AnswersInv /\ [Next]_vars => AnswersInv'
<1> SUFFICES ASSUME AnswersInv, [Next]_vars PROVE AnswersInv'
  OBVIOUS
<1>1. TokenInv' /\ TokenInv /\ PipelineInv /\ LiveInv
  BY TokenNext DEF AnswersInv
<1>2. StreamTypeOK /\ StreamTypeOK'
  BY <1>1 DEF TokenInv
<1>3. SUFFICES PipelineInv' /\ LiveInv'
  BY <1>1 DEF AnswersInv
<1>4. ASSUME UNCHANGED <<disk, memory>> PROVE PipelineInv' /\ state' = state
  BY <1>1, <1>4 DEF disk, memory, PipelineInv, Fits, Batches
<1>5. CASE MakeWrite
  <2>1. PipelineInv' /\ state' = state
    BY <1>4, <1>5 DEF MakeWrite
  <2> DEFINE b == [kind |-> "write", user |-> auth, n |-> Len(made) + 1]
  <2>2. b \in WorkerBlock /\ b.kind # "token"
    BY <1>2, <1>5, WritesAssumption DEF WorkerBlock, MakeWrite, StreamTypeOK, CredentialsTypeOK
  <2>3. worker' = Append(worker, b) /\ UNCHANGED <<main, asked, closeCount>>
    BY <1>5 DEF MakeWrite
  <2> HIDE DEF b
  <2> QED BY <1>1, <1>2, <2>1, <2>2, <2>3, LiveOther
<1>6. CASE AccountTrouble
  <2>1. UNCHANGED <<disk, memory>>
    BY <1>6 DEF AccountTrouble
  <2>2. CASE \E u \in User : AuthChanges(u)
    <3>1. PICK u \in User : AuthChanges(u)
      BY <2>2
    <3> DEFINE b == [kind |-> "state", user |-> u]
    <3>2. b \in MainBlock /\ b.kind # "token"
      BY DEF MainBlock
    <3>3. main' = Append(main, b) /\ UNCHANGED <<worker, asked, closeCount>>
      BY <3>1 DEF AuthChanges
    <3> HIDE DEF b
    <3> QED BY <1>1, <1>2, <1>4, <2>1, <3>2, <3>3, LiveOther
  <2>3. CASE \E r \in asked : AuthAnswers(r, FALSE)
    BY <1>1, <1>2, <1>4, <2>1, <2>3, LiveAnswer DEF AuthAnswers
  <2> QED BY <1>6, <2>2, <2>3 DEF AccountTrouble
<1>7. CASE TakeToken
  BY <1>1, <1>2, <1>4, <1>7, LiveAuthTakes DEF TakeToken
<1>8. CASE AnswerToken
  BY <1>1, <1>2, <1>4, <1>8, LiveAnswer DEF AnswerToken, AuthAnswers
<1>9. CASE MainQueue
  BY <1>1, <1>2, <1>4, <1>9, LiveMainQueue DEF MainQueue
<1>10. CASE WriteMutations \/ CredentialDidChange \/ ResumeStart
  BY <1>1, <1>2, <1>10, AnswersWriteMutations, AnswersCredentialDidChange, AnswersResumeStart
<1>11. CASE BackoffElapsed \/ ReceiveResponse \/ RejectFirst \/ IdleTimeout \/ StreamFails
  BY <1>1, <1>2, <1>11, AnswersBackoff, AnswersReceiveResponse, AnswersRejectFirst, AnswersClose
<1>12. CASE HandshakeDone \/ SeeEnd \/ AnswerHandshake \/ Apply \/ Refuse
  <2>1. PipelineInv'
    BY <1>1, <1>12, AnswersHandshakeDone, AnswersSeeEnd, AnswersServer
  <2>2. UNCHANGED <<asked, closeCount, main, worker, state>>
    BY <1>12 DEF HandshakeDone, SeeEnd, AnswerHandshake, Apply, Refuse, OnWorker, credentials
  <2> QED BY <1>1, <1>2, <2>1, <2>2, LiveWorker DEF Keeps, WorkerRests
<1>13. CASE Relaunch \/ RelaunchAfterTelling
  BY <1>1, <1>2, <1>13, AnswersStart, LiveStart DEF Relaunch, RelaunchAfterTelling
<1>14. CASE UNCHANGED vars
  <2>1. UNCHANGED <<disk, memory, asked, closeCount, main, worker, state>>
    BY <1>14 DEF vars, credentials, memory
  <2> QED BY <1>1, <1>2, <1>4, <2>1, LiveWorker DEF Keeps, WorkerRests
<1> QED BY <1>5, <1>6, <1>7, <1>8, <1>9, <1>10, <1>11, <1>12, <1>13, <1>14 DEF Next, Worker

LEMMA AnswersInvariant == Spec => []AnswersInv
BY AnswersInit, AnswersNext, PTL DEF Spec

\* Whatever is written, interrupted and sent again: the batches the server has
\* answered, the one it refused and those on the wire are the pipeline, in this
\* order, so that an answer is for its first batch.
THEOREM AnswerIsForFirstAlways == Spec => []AnswerIsForFirst
<1>1. AnswersInv => AnswerIsForFirst
  BY DEF AnswersInv, PipelineInv, Fits, AnswerIsForFirst
<1> QED BY <1>1, AnswersInvariant, PTL

\* The assertions at stream.mm:128 and FSTRemoteStore.mm:551 never fail.
THEOREM AssertionsAlwaysHold == Spec => []AssertionsHold
<1>1. ASSUME AnswersInv, worker # <<>>, Head(worker).kind = "token", Current(Head(worker))
      PROVE  state = "Starting"
  <2>1. worker \in Seq(WorkerBlock)
    BY <1>1 DEF AnswersInv, TokenInv, StreamTypeOK, CredentialsTypeOK
  <2>2. OnWorkerQueue # {}
    BY <1>1, <2>1, TokensTail DEF OnWorkerQueue, Current
  <2> QED BY <1>1, <2>2 DEF AnswersInv, LiveInv
<1>2. AnswersInv => AssertionsHold
  BY <1>1 DEF AnswersInv, PipelineInv, Fits, AssertionsHold
<1> QED BY <1>2, AnswersInvariant, PTL

\* The pipeline never holds more than kMaxPendingWrites batches.
THEOREM PipelineIsBounded == Spec => [](Len(pipeline) <= MaxPipeline)
<1>1. AnswersInv => Len(pipeline) <= MaxPipeline
  BY DEF AnswersInv, PipelineInv, Fits
<1> QED BY <1>1, AnswersInvariant, PTL

\* The batch that is rejected when the RPC ends is the one for which the server
\* ended it, as long as the end is seen behind the answers.
RejectsTheRefused == call.ending = "now" => Head(pipeline) = Head(call.refusing)

THEOREM RejectsTheRefusedAlways == Spec => []RejectsTheRefused
<1>1. ASSUME AnswersInv, call.ending = "now" PROVE Head(pipeline) = Head(call.refusing)
  <2> DEFINE f == call.refusing
             w == call.wire
  <2>1. f # <<>> /\ pipeline = <<>> \o f \o w
    BY <1>1 DEF AnswersInv, PipelineInv, Fits
  <2>2. PICK S : f \in Seq(S) /\ w \in Seq(S)
    BY <1>1 DEF AnswersInv, PipelineInv, Fits, Batches
  <2> HIDE DEF f, w
  <2>3. <<>> \o f = f
    BY <2>2, ConcatEmpty
  <2>4. Head(f \o w) = Head(f)
    BY <2>1, <2>2
  <2>5. Head(pipeline) = Head(f)
    BY <2>1, <2>3, <2>4
  <2> QED BY <2>5 DEF f
<1>2. AnswersInv => RejectsTheRefused
  BY <1>1 DEF RejectsTheRefused
<1> QED BY <1>2, AnswersInvariant, PTL

-----------------------------------------------------------------------------
(* The batches of a user in the order of their ids.  The place of a batch is *)
(* the number of those with a smaller id: what InKeyOrder, a refill and the  *)
(* removal of the first one do is said of places, and needs no induction.    *)

Below(S, r) == {s \in S : s.id < r.id}
Place(S, r) == Cardinality(Below(S, r))

Keyed(S) == /\ IsFiniteSet(S)
            /\ \A r \in S : r.id \in Int /\ \A s \in S : r.id = s.id => r = s

LEMMA PlaceType ==
  ASSUME NEW S, Keyed(S), NEW r \in S
  PROVE  /\ IsFiniteSet(Below(S, r)) /\ Place(S, r) \in Nat
         /\ Cardinality(S) \in Nat /\ Place(S, r) < Cardinality(S)
<1>1. IsFiniteSet(S) /\ Cardinality(S) \in Nat
  BY FS_CardinalityType DEF Keyed
<1>2. Below(S, r) \in SUBSET S /\ r \notin Below(S, r)
  BY DEF Below, Keyed
<1>3. /\ IsFiniteSet(Below(S, r)) /\ Cardinality(Below(S, r)) <= Cardinality(S)
      /\ Cardinality(S) = Cardinality(Below(S, r)) => S = Below(S, r)
  BY <1>1, <1>2, FS_Subset
<1>4. Place(S, r) \in Nat
  BY <1>3, FS_CardinalityType DEF Place
<1> QED BY <1>1, <1>2, <1>3, <1>4 DEF Place

LEMMA PlaceGrows ==
  ASSUME NEW S, Keyed(S), NEW r \in S, NEW s \in S, r.id < s.id
  PROVE  Place(S, r) < Place(S, s)
<1>1. IsFiniteSet(Below(S, s)) /\ Place(S, r) \in Nat /\ Place(S, s) \in Nat
  BY PlaceType
<1>2. Below(S, r) \in SUBSET Below(S, s)
  BY DEF Below, Keyed
<1>3. r \in Below(S, s) /\ r \notin Below(S, r)
  BY DEF Below, Keyed
<1> QED BY <1>1, <1>2, <1>3, FS_Subset DEF Place

LEMMA PlaceOrders ==
  ASSUME NEW S, Keyed(S), NEW r \in S, NEW s \in S
  PROVE  /\ Place(S, r) < Place(S, s) <=> r.id < s.id
         /\ Place(S, r) = Place(S, s) <=> r = s
<1>1. Place(S, r) \in Nat /\ Place(S, s) \in Nat /\ r.id \in Int /\ s.id \in Int
  BY PlaceType DEF Keyed
<1>2. /\ r.id < s.id => Place(S, r) < Place(S, s)
      /\ s.id < r.id => Place(S, s) < Place(S, r)
  BY PlaceGrows
<1>3. r.id = s.id => r = s
  BY DEF Keyed
<1> QED BY <1>1, <1>2, <1>3

\* Every place is taken.
LEMMA PlaceTaken ==
  ASSUME NEW S, Keyed(S), NEW p \in Nat, p < Cardinality(S)
  PROVE  \E r \in S : Place(S, r) = p
<1> DEFINE n == Cardinality(S)
           P == 0..(n - 1)
           f == [r \in S |-> Place(S, r)]
<1>1. n \in Nat /\ IsFiniteSet(S)
  BY FS_CardinalityType DEF Keyed
<1>2. IsFiniteSet(P) /\ Cardinality(P) = n
  <2>1. n - 1 \in Int
    BY <1>1
  <2>2. IsFiniteSet(0..(n - 1)) /\ Cardinality(0..(n - 1)) = IF 0 > n - 1 THEN 0 ELSE (n - 1) - 0 + 1
    BY <2>1, FS_Interval
  <2> QED BY <1>1, <2>2
<1>3. f \in [S -> P]
  <2>1. \A r \in S : Place(S, r) \in P
    BY <1>1, PlaceType
  <2> QED BY <2>1
<1>4. \A r, s \in S : f[r] = f[s] => r = s
  BY PlaceOrders
<1> HIDE DEF f, P
<1>5. f \in Injection(S, P)
  BY <1>3, <1>4 DEF Injection, IsInjective
<1>6. f \in Surjection(S, P)
  BY <1>2, <1>5, FS_Injection
<1>7. p \in P
  BY <1>1 DEF P
<1>8. \E r \in S : f[r] = p
  BY <1>6, <1>7 DEF Surjection
<1> QED BY <1>8 DEF f

\* The i-th row of the listing is the one with i - 1 smaller ids.
LEMMA KeyOrderPlaces ==
  ASSUME NEW S, Keyed(S)
  PROVE  /\ InKeyOrder(S) \in Seq(S) /\ Len(InKeyOrder(S)) = Cardinality(S)
         /\ Cardinality(S) \in Nat
         /\ \A i \in 1..Cardinality(S) : Place(S, InKeyOrder(S)[i]) = i - 1
<1> DEFINE n == Cardinality(S)
           e(i) == CHOOSE r \in S : Place(S, r) = i - 1
<1>1. n \in Nat
  BY FS_CardinalityType DEF Keyed
<1>2. \A i \in 1..n : e(i) \in S /\ Place(S, e(i)) = i - 1
  <2> SUFFICES ASSUME NEW i \in 1..n PROVE \E r \in S : Place(S, r) = i - 1
    OBVIOUS
  <2> QED BY <1>1, PlaceTaken
<1>3. InKeyOrder(S) = [i \in 1..n |-> e(i)]
  BY DEF InKeyOrder, Place, Below
<1> HIDE DEF n, e
<1>4. InKeyOrder(S) \in [1..n -> S]
  BY <1>2, <1>3
<1>5. InKeyOrder(S) \in Seq(S) /\ Len(InKeyOrder(S)) = n
  BY <1>1, <1>4
<1>6. \A i \in 1..n : InKeyOrder(S)[i] = e(i)
  BY <1>3
<1> QED BY <1>1, <1>2, <1>5, <1>6 DEF n

\* Whatever has all the places, in their order, is the listing.
LEMMA KeyOrderUnique ==
  ASSUME NEW S, Keyed(S), NEW q \in Seq(S), Len(q) = Cardinality(S),
         \A i \in 1..Len(q) : Place(S, q[i]) = i - 1
  PROVE  q = InKeyOrder(S)
<1>1. /\ InKeyOrder(S) \in Seq(S) /\ Len(InKeyOrder(S)) = Len(q)
      /\ \A i \in 1..Len(q) : Place(S, InKeyOrder(S)[i]) = i - 1
  BY KeyOrderPlaces
<1>2. ASSUME NEW i \in 1..Len(q) PROVE q[i] = InKeyOrder(S)[i]
  <2>1. q[i] \in S /\ InKeyOrder(S)[i] \in S
    BY <1>1
  <2> QED BY <1>1, <2>1, PlaceOrders
<1> QED BY <1>1, <1>2, SeqEqual

\* A finite set of numbers that is not empty has a largest one.
LEMMA MaxIsLargest ==
  ASSUME NEW S, S \subseteq Int, IsFiniteSet(S), S # {}
  PROVE  Max(S) \in S /\ \A x \in S : x <= Max(S)
<1> DEFINE K == {[id |-> x] : x \in S}
           f == [x \in S |-> [id |-> x]]
           n == Cardinality(K)
<1>1. Keyed(K) /\ n \in Nat /\ n # 0
  <2>1. f \in Surjection(S, K)
    BY DEF Surjection
  <2>2. IsFiniteSet(K)
    BY <2>1, FS_Surjection
  <2>3. K # {}
    OBVIOUS
  <2>4. n \in Nat /\ n # 0
    BY <2>2, <2>3, FS_EmptySet, FS_CardinalityType
  <2>5. \A r \in K : r.id \in Int /\ \A s \in K : r.id = s.id => r = s
    OBVIOUS
  <2> QED BY <2>2, <2>4, <2>5 DEF Keyed
<1>2. PICK r \in K : Place(K, r) = n - 1
  <2>1. n - 1 \in Nat /\ n - 1 < n
    BY <1>1
  <2> HIDE DEF n
  <2> QED BY <1>1, <2>1, PlaceTaken DEF n
<1>3. Below(K, r) = K \ {r}
  <2>1. IsFiniteSet(K \ {r}) /\ Cardinality(K \ {r}) = n - 1
    BY <1>1, FS_RemoveElement DEF Keyed
  <2>2. Below(K, r) \in SUBSET (K \ {r})
    BY <1>1 DEF Below, Keyed
  <2> QED BY <1>2, <2>1, <2>2, FS_Subset DEF Place
<1>4. r.id \in S /\ \A x \in S : x <= r.id
  <2>1. r.id \in S /\ r = [id |-> r.id]
    OBVIOUS
  <2>2. ASSUME NEW x \in S PROVE x <= r.id
    <3>1. [id |-> x] \in K
      OBVIOUS
    <3>2. [id |-> x] = r \/ [id |-> x] \in Below(K, r)
      BY <1>3, <3>1
    <3>3. x = r.id \/ x < r.id
      BY <3>2 DEF Below
    <3> QED BY <2>1, <3>3
  <2> QED BY <2>1, <2>2
<1> HIDE DEF K
<1>5. \E y \in S : \A x \in S : y >= x
  BY <1>4
<1> QED BY <1>5 DEF Max

\* The same, of the ids of the batches on disk.
LEMMA NextIdIsAbove ==
  ASSUME NEW stored, IsFiniteSet(stored), \A r \in stored : r.id \in Nat
  PROVE  /\ LoadNextBatchID(stored) \in Nat
         /\ \A r \in stored : r.id < LoadNextBatchID(stored)
<1> DEFINE I == {r.id : r \in stored}
           f == [r \in stored |-> r.id]
<1>1. CASE stored = {}
  BY <1>1 DEF LoadNextBatchID
<1>2. CASE stored # {}
  <2>1. f \in Surjection(stored, I)
    BY DEF Surjection
  <2>2. IsFiniteSet(I) /\ I \subseteq Int /\ I # {} /\ I \subseteq Nat
    BY <1>2, <2>1, FS_Surjection
  <2>3. LoadNextBatchID(stored) = 1 + Max(I)
    BY <1>2 DEF LoadNextBatchID
  <2>4. \A r \in stored : r.id \in I
    OBVIOUS
  <2> HIDE DEF I
  <2>5. Max(I) \in I /\ \A x \in I : x <= Max(I)
    BY <2>2, MaxIsLargest
  <2> DEFINE m == Max(I)
  <2>6. m \in Nat /\ \A r \in stored : r.id <= m
    BY <2>2, <2>4, <2>5
  <2>7. LoadNextBatchID(stored) = 1 + m
    BY <2>3
  <2> HIDE DEF m
  <2> QED BY <2>6, <2>7
<1> QED BY <1>1, <1>2

\* The places behind a row.
After(S, p) == {r \in S : r.id > p.id}

LEMMA PlacesAfter ==
  ASSUME NEW S, Keyed(S), NEW p \in S
  PROVE  /\ Keyed(After(S, p)) /\ Cardinality(After(S, p)) \in Nat
         /\ Cardinality(S) = Place(S, p) + 1 + Cardinality(After(S, p))
         /\ \A r \in After(S, p) : Place(S, r) = Place(S, p) + 1 + Place(After(S, p), r)
<1> DEFINE upTo == Below(S, p) \union {p}
           T == After(S, p)
<1> USE DEF After
<1>1. IsFiniteSet(S) /\ p.id \in Int /\ IsFiniteSet(T)
  BY FS_Subset DEF Keyed
<1>2. Keyed(T) /\ Cardinality(T) \in Nat
  BY <1>1, FS_CardinalityType DEF Keyed
<1>3. IsFiniteSet(Below(S, p)) /\ p \notin Below(S, p) /\ Place(S, p) \in Nat
  BY <1>1, PlaceType DEF Below
<1>4. IsFiniteSet(upTo) /\ Cardinality(upTo) = Place(S, p) + 1
  BY <1>3, FS_AddElement DEF Place
<1>5. \A s \in upTo : s.id \in Int /\ s.id <= p.id
  BY <1>1 DEF Below, Keyed
<1>6. ASSUME NEW U, U \subseteq T
      PROVE  Cardinality(upTo \union U) = Place(S, p) + 1 + Cardinality(U)
  <2>1. upTo \intersect U = {}
    BY <1>1, <1>5, <1>6 DEF Keyed
  <2>2. IsFiniteSet(U) /\ Cardinality(U) \in Nat
    BY <1>1, <1>6, FS_Subset, FS_CardinalityType
  <2> HIDE DEF upTo
  <2>3. Cardinality(upTo \union U)
          = Cardinality(upTo) + Cardinality(U) - Cardinality(upTo \intersect U)
    BY <1>4, <2>2, FS_Union
  <2>4. Cardinality(upTo \intersect U) = 0
    BY <2>1, FS_EmptySet
  <2> QED BY <1>3, <1>4, <2>2, <2>3, <2>4
<1>7. S = upTo \union T
  BY <1>1 DEF Below, Keyed
<1>8. ASSUME NEW r \in T PROVE Below(S, r) = upTo \union Below(T, r)
  <2>1. r.id \in Int /\ p.id < r.id
    BY <1>1 DEF Keyed
  <2>2. \A s \in upTo : s.id < r.id /\ s \in S
    BY <1>1, <1>5, <2>1 DEF Below
  <2> HIDE DEF upTo
  <2> QED BY <1>7, <2>2 DEF Below
<1>9. \A r \in T : Below(T, r) \subseteq T
  BY DEF Below
<1> HIDE DEF upTo, After
<1> QED BY <1>2, <1>6, <1>7, <1>8, <1>9 DEF Place

LEMMA FirstPlace ==
  ASSUME NEW S, Keyed(S), NEW p \in S, Place(S, p) = 0
  PROVE  S \ {p} = After(S, p)
<1>1. ASSUME NEW r \in S, r # p PROVE r.id > p.id
  <2>1. Place(S, r) \in Nat /\ Place(S, r) # 0
    BY <1>1, PlaceType, PlaceOrders
  <2>2. Place(S, p) < Place(S, r)
    BY <2>1
  <2>3. p.id < r.id
    BY <2>2, PlaceOrders
  <2> QED BY <2>3 DEF Keyed
<1>2. ~(p.id > p.id)
  BY DEF Keyed
<1> QED BY <1>1, <1>2 DEF After

\* A row whose id is larger than all takes the place after them.
LEMMA PlaceAtEnd ==
  ASSUME NEW S, Keyed(S), NEW r, r.id \in Int, \A s \in S : s.id < r.id
  PROVE  /\ Keyed(S \union {r}) /\ Cardinality(S \union {r}) = Cardinality(S) + 1
         /\ Cardinality(S) \in Nat /\ Place(S \union {r}, r) = Cardinality(S)
         /\ \A s \in S : Place(S \union {r}, s) = Place(S, s)
<1> DEFINE T == S \union {r}
<1>1. IsFiniteSet(S) /\ Cardinality(S) \in Nat /\ r \notin S
  BY FS_CardinalityType DEF Keyed
<1>2. IsFiniteSet(T) /\ Cardinality(T) = Cardinality(S) + 1
  BY <1>1, FS_AddElement
<1>3. Keyed(T)
  <2>1. \A s \in S : s.id \in Int /\ s.id # r.id
    BY DEF Keyed
  <2> QED BY <1>2, <2>1 DEF Keyed
<1>4. Below(T, r) = S
  BY DEF Below
<1>5. ASSUME NEW s \in S PROVE Below(T, s) = Below(S, s)
  <2>1. s.id \in Int /\ s.id < r.id
    BY DEF Keyed
  <2> QED BY <2>1 DEF Below
<1> QED BY <1>1, <1>2, <1>3, <1>4, <1>5 DEF Place

-----------------------------------------------------------------------------
(* The pipeline is the beginning of the listing                              *)

OfUser(stored, u) == {r \in stored : r.by = u}

InPlace(pipe, S) == pipe \in Seq(S) /\ \A i \in 1..Len(pipe) : Place(S, pipe[i]) = i - 1

Filled(pipe, S) ==
  /\ InPlace(pipe, S) /\ Len(pipe) <= MaxPipeline
  /\ Len(pipe) < MaxPipeline => Len(pipe) = Cardinality(S)

LEMMA InPlaceIsPrefix ==
  ASSUME NEW S, Keyed(S), NEW pipe, InPlace(pipe, S)
  PROVE  /\ Len(pipe) \in Nat /\ Len(pipe) <= Cardinality(S)
         /\ \A i \in 1..Len(pipe) : pipe[i] \in S /\ pipe[i] = InKeyOrder(S)[i]
<1>1. /\ InKeyOrder(S) \in Seq(S) /\ Len(InKeyOrder(S)) = Cardinality(S)
      /\ Cardinality(S) \in Nat
      /\ \A i \in 1..Cardinality(S) : Place(S, InKeyOrder(S)[i]) = i - 1
  BY KeyOrderPlaces
<1>2. pipe \in Seq(S) /\ Len(pipe) \in Nat
  BY DEF InPlace
<1>3. Len(pipe) <= Cardinality(S)
  <2>1. CASE Len(pipe) > 0
    <3>1. Len(pipe) \in 1..Len(pipe)
      BY <1>2, <2>1
    <3>2. pipe[Len(pipe)] \in S /\ Place(S, pipe[Len(pipe)]) = Len(pipe) - 1
      BY <1>2, <3>1 DEF InPlace
    <3> QED BY <1>1, <1>2, <3>2, PlaceType
  <2> QED BY <1>1, <1>2, <2>1
<1>4. ASSUME NEW i \in 1..Len(pipe) PROVE pipe[i] \in S /\ pipe[i] = InKeyOrder(S)[i]
  <2>1. pipe[i] \in S /\ i \in 1..Cardinality(S) /\ Place(S, pipe[i]) = i - 1
    BY <1>1, <1>2, <1>3 DEF InPlace
  <2>2. InKeyOrder(S)[i] \in S /\ Place(S, InKeyOrder(S)[i]) = i - 1
    BY <1>1, <2>1
  <2> QED BY <2>1, <2>2, PlaceOrders
<1> QED BY <1>2, <1>3, <1>4

\* A pipeline as long as the queue holds all of it.
LEMMA AllInPlace ==
  ASSUME NEW S, Keyed(S), NEW pipe, InPlace(pipe, S), Len(pipe) = Cardinality(S)
  PROVE  ToSet(pipe) = S
<1>1. pipe \in Seq(S) /\ DOMAIN pipe = 1..Len(pipe) /\ Len(pipe) \in Nat
  BY DEF InPlace
<1>2. ASSUME NEW r \in S PROVE r \in ToSet(pipe)
  <2> DEFINE i == Place(S, r) + 1
  <2>1. i \in 1..Len(pipe) /\ i - 1 = Place(S, r)
    BY <1>1, PlaceType
  <2> HIDE DEF i
  <2>2. pipe[i] \in S /\ Place(S, pipe[i]) = i - 1
    BY <1>1, <2>1 DEF InPlace
  <2>3. pipe[i] = r
    BY <2>1, <2>2, PlaceOrders
  <2> QED BY <1>1, <2>1, <2>3 DEF ToSet
<1> QED BY <1>1, <1>2 DEF ToSet

\* The first batch leaves the queue and the pipeline.
LEMMA TailInPlace ==
  ASSUME NEW S, Keyed(S), NEW pipe, InPlace(pipe, S), pipe # <<>>
  PROVE  /\ Head(pipe) \in S /\ Keyed(S \ {Head(pipe)})
         /\ InPlace(Tail(pipe), S \ {Head(pipe)})
         /\ Len(pipe) \in Nat /\ Len(Tail(pipe)) = Len(pipe) - 1
         /\ Cardinality(S \ {Head(pipe)}) = Cardinality(S) - 1
         /\ \A r \in S \ {Head(pipe)} : r.id > Head(pipe).id
<1> DEFINE p == Head(pipe)
           T == S \ {p}
<1>1. pipe \in Seq(S) /\ 1 \in 1..Len(pipe) /\ p = pipe[1] /\ p \in S /\ Len(pipe) \in Nat
  BY DEF InPlace
<1>2. Place(S, p) = 0
  <2>1. Place(S, pipe[1]) = 1 - 1
    BY <1>1 DEF InPlace
  <2> QED BY <1>1, <2>1
<1>3. T = After(S, p)
  BY <1>1, <1>2, FirstPlace
<1> HIDE DEF p, T
<1>4. /\ Keyed(T) /\ Cardinality(T) \in Nat
      /\ Cardinality(S) = Place(S, p) + 1 + Cardinality(T)
      /\ \A r \in T : Place(S, r) = Place(S, p) + 1 + Place(T, r)
  BY <1>1, <1>3, PlacesAfter
<1>5. ASSUME NEW i \in 1..Len(Tail(pipe))
      PROVE  Tail(pipe)[i] \in T /\ Place(T, Tail(pipe)[i]) = i - 1
  <2>1. i + 1 \in 1..Len(pipe) /\ Tail(pipe)[i] = pipe[i + 1] /\ pipe[i + 1] \in S
    BY <1>1
  <2>2. Place(S, pipe[i + 1]) = i + 1 - 1
    BY <2>1 DEF InPlace
  <2>3. pipe[i + 1] # p
    BY <1>1, <1>2, <2>2
  <2>4. pipe[i + 1] \in T
    BY <2>1, <2>3 DEF T
  <2>5. Place(T, pipe[i + 1]) \in Nat
    BY <1>4, <2>4, PlaceType
  <2> QED BY <1>2, <1>4, <2>1, <2>2, <2>4, <2>5
<1>6. Tail(pipe) \in Seq(T) /\ Len(Tail(pipe)) = Len(pipe) - 1
  <2>1. Tail(pipe) \in Seq(S) /\ Len(Tail(pipe)) = Len(pipe) - 1
    BY <1>1
  <2> DEFINE t == Tail(pipe)
  <2>2. t \in Seq(S) /\ \A i \in 1..Len(t) : t[i] \in T
    BY <1>5, <2>1
  <2> HIDE DEF t
  <2>3. t \in Seq(T)
    BY <2>2
  <2> QED BY <2>1, <2>3 DEF t
<1>7. Cardinality(T) = Cardinality(S) - 1
  BY <1>2, <1>4
<1>8. \A r \in T : r.id > p.id
  BY <1>3 DEF After
<1> QED BY <1>1, <1>4, <1>5, <1>6, <1>7, <1>8 DEF InPlace, T, p

\* A new batch is behind those in the pipeline.
LEMMA InPlaceAtEnd ==
  ASSUME NEW S, Keyed(S), NEW r, r.id \in Int, \A s \in S : s.id < r.id,
         NEW pipe, InPlace(pipe, S)
  PROVE  InPlace(pipe, S \union {r})
<1>1. pipe \in Seq(S) /\ pipe \in Seq(S \union {r})
  BY SeqWidens DEF InPlace
<1>2. \A i \in 1..Len(pipe) : pipe[i] \in S
  BY <1>1
<1>3. \A s \in S : Place(S \union {r}, s) = Place(S, s)
  BY PlaceAtEnd
<1> QED BY <1>1, <1>2, <1>3 DEF InPlace

\* fillWritePipeline adds the batches that follow, as many as there is room for.
LEMMA RefilledInPlace ==
  ASSUME NEW stored, NEW ack, NEW u, NEW S, S = OfUser(stored, u), Keyed(S),
         \A r \in S : r.id \in Nat /\ r.id > ack[u],
         NEW pipe, InPlace(pipe, S), Len(pipe) <= MaxPipeline
  PROVE  Filled(Refilled(pipe, stored, ack, u), S)
<1> DEFINE last == IF pipe = <<>> THEN -1 ELSE Last(pipe).id
           T == {r \in S : r.id > last}
           next == BatchesAfter(stored, ack, u, last)
           k == Len(pipe)
           m == Min({MaxPipeline - k, Len(next)})
           fresh == SubSeq(next, 1, m)
<1>1. pipe \in Seq(S) /\ k \in Nat /\ MaxPipeline \in Nat /\ Refilled(pipe, stored, ack, u) = pipe \o fresh
  BY WritesAssumption DEF InPlace, Refilled
<1>2. next = InKeyOrder(T)
  <2>1. T = {r \in stored : r.by = u /\ r.id > last /\ r.id > ack[u]}
    BY DEF OfUser
  <2> QED BY <2>1 DEF BatchesAfter
<1>3. /\ Keyed(T) /\ Cardinality(T) \in Nat /\ T \subseteq S
      /\ Cardinality(S) = k + Cardinality(T)
      /\ \A r \in T : Place(S, r) = k + Place(T, r)
  <2>1. CASE pipe = <<>>
    <3>1. T = S /\ k = 0
      BY <2>1
    <3>2. Cardinality(S) \in Nat
      BY FS_CardinalityType DEF Keyed
    <3>3. \A r \in S : Place(S, r) \in Nat
      BY PlaceType
    <3> HIDE DEF T, k
    <3> QED BY <3>1, <3>2, <3>3
  <2>2. CASE pipe # <<>>
    <3> DEFINE p == pipe[k]
    <3>1. k \in 1..Len(pipe) /\ p \in S /\ last = p.id
      BY <1>1, <2>2 DEF Last
    <3>2. Place(S, p) = k - 1
      BY <3>1 DEF InPlace
    <3>3. T = After(S, p)
      BY <3>1 DEF After
    <3> HIDE DEF T, p, k
    <3>4. /\ Keyed(T) /\ Cardinality(T) \in Nat
          /\ Cardinality(S) = Place(S, p) + 1 + Cardinality(T)
          /\ \A r \in T : Place(S, r) = Place(S, p) + 1 + Place(T, r)
      BY <3>1, <3>3, PlacesAfter
    <3>5. T \subseteq S
      BY <3>3 DEF After
    <3> QED BY <1>1, <3>2, <3>4, <3>5
  <2> QED BY <2>1, <2>2
<1> HIDE DEF T
<1>4. /\ next \in Seq(T) /\ Len(next) = Cardinality(T)
      /\ \A j \in 1..Cardinality(T) : Place(T, next[j]) = j - 1
  BY <1>2, <1>3, KeyOrderPlaces
<1> HIDE DEF next, k
<1>5. m \in Nat /\ m <= Len(next) /\ m <= MaxPipeline - k /\ (m = Len(next) \/ m = MaxPipeline - k)
  <2> DEFINE a == MaxPipeline - k
             b == Len(next)
  <2>1. a \in Nat /\ b \in Nat
    BY <1>1, <1>3, <1>4 DEF k
  <2> HIDE DEF a, b
  <2>i. a \in Int /\ b \in Int
    BY <2>1
  <2>2. Min({a, b}) \in {a, b} /\ Min({a, b}) <= a /\ Min({a, b}) <= b
    BY <2>i, MinOfTwo
  <2>3. Min({a, b}) \in Nat
    BY <2>1, <2>2
  <2> QED BY <2>2, <2>3 DEF a, b
<1> HIDE DEF m
<1>6. fresh \in Seq(T) /\ Len(fresh) = m /\ \A j \in 1..m : fresh[j] = next[j] /\ next[j] \in T
  BY <1>4, <1>5
<1> HIDE DEF fresh
<1> DEFINE full == pipe \o fresh
<1>7. fresh \in Seq(S)
  BY <1>3, <1>6, SeqWidens
<1>8. /\ full \in Seq(S) /\ Len(full) = k + m
      /\ \A i \in 1..k : full[i] = pipe[i]
      /\ \A i \in (k + 1)..(k + m) : full[i] = fresh[i - k]
  <2>1. pipe \in Seq(S) /\ fresh \in Seq(S) /\ Len(pipe) = k /\ Len(fresh) = m
    BY <1>1, <1>6, <1>7 DEF k
  <2>2. /\ full \in Seq(S) /\ Len(full) = Len(pipe) + Len(fresh)
        /\ \A i \in 1..Len(pipe) : full[i] = pipe[i]
        /\ \A i \in (Len(pipe) + 1)..(Len(pipe) + Len(fresh)) : full[i] = fresh[i - Len(pipe)]
    <3>1. \A Z : \A a, b \in Seq(Z) :
            /\ a \o b \in Seq(Z) /\ Len(a \o b) = Len(a) + Len(b)
            /\ \A i \in 1..Len(a) : (a \o b)[i] = a[i]
            /\ \A i \in (Len(a) + 1)..(Len(a) + Len(b)) : (a \o b)[i] = b[i - Len(a)]
      BY ConcatProperties
    <3> QED BY <2>1, <3>1, Zenon
  <2> HIDE DEF full
  <2> QED BY <2>1, <2>2
<1> HIDE DEF full
<1>9. ASSUME NEW i \in 1..Len(full) PROVE Place(S, full[i]) = i - 1
  <2>1. CASE i \in 1..k
    BY <1>8, <2>1 DEF InPlace, k
  <2>2. CASE i \in (k + 1)..(k + m)
    <3> DEFINE j == i - k
    <3>1. j \in 1..m /\ j \in 1..Cardinality(T) /\ i = k + j /\ full[i] = fresh[j]
      BY <1>1, <1>3, <1>4, <1>5, <1>8, <2>2
    <3> HIDE DEF j
    <3>2. full[i] \in T /\ Place(T, full[i]) = j - 1
      BY <1>4, <1>6, <3>1
    <3>3. Place(S, full[i]) = k + (j - 1)
      BY <1>3, <3>2
    <3> QED BY <1>1, <3>1, <3>3
  <2> QED BY <1>1, <1>5, <1>8, <2>1, <2>2
<1>10. Len(full) <= MaxPipeline /\ (Len(full) < MaxPipeline => Len(full) = Cardinality(S))
  BY <1>1, <1>3, <1>4, <1>5, <1>8
<1> QED BY <1>1, <1>8, <1>9, <1>10 DEF Filled, InPlace, full

-----------------------------------------------------------------------------
(* The batches on disk, the writes on their way to it, and the pipeline      *)

\* The batches of an account are in the order of its writes, and none is taken
\* for an acknowledged one.
InOrder(stored, ack) ==
  /\ stored \subseteq Row /\ IsFiniteSet(stored) /\ ack \in [User -> Int]
  /\ \A r \in stored : ack[r.by] < r.id
  /\ \A r, s \in stored : /\ r.n = s.n => r = s
                          /\ r.by = s.by /\ r.n < s.n => r.id < s.id

RowsInv ==
  /\ InOrder(rows, acked) /\ Len(made) <= MaxWrite
  /\ nextID \in Nat /\ acked[user] < nextID
  /\ \A u \in User : acked[u] >= -1
  /\ \A r \in rows : r.n <= Len(made) /\ made[r.n] = r.by /\ (r.by = user => r.id < nextID)

\* The writes that have been on disk.
Touched == {r.n : r \in rows} \union ToSet(log) \union refused \union {t.n : t \in told}

\* The writes on the worker queue, each behind the change to its account.
WritesInLine ==
  \A i \in 1..Len(worker) : worker[i].kind = "write" =>
    /\ worker[i].n \in 1..Len(made) /\ made[worker[i].n] = worker[i].user
    /\ Leads(worker, "change", user, i, worker[i].user)
    /\ \A j \in 1..(i - 1) : worker[j].kind = "write" => worker[j].n < worker[i].n
    /\ \A n \in Touched : n < worker[i].n

Mine == OfUser(rows, user)

QueueInv ==
  /\ RowsInv /\ WritesInLine /\ Touched \subseteq 1..Len(made)
  /\ Filled(pipeline, Mine) /\ waiting \subseteq rows

LEMMA RowsAreKeyed ==
  ASSUME NEW stored, NEW ack, InOrder(stored, ack), NEW u
  PROVE  /\ Keyed(OfUser(stored, u)) /\ OfUser(stored, u) \subseteq stored
         /\ \A r \in OfUser(stored, u) :
              /\ r.id \in Nat /\ r.n \in 1..MaxWrite /\ r.id > ack[u] /\ r.by = u
              /\ \A s \in OfUser(stored, u) : r.n < s.n <=> r.id < s.id
<1>1. IsFiniteSet(OfUser(stored, u)) /\ OfUser(stored, u) \subseteq stored
  BY FS_Subset DEF OfUser, InOrder
<1>2. \A r \in OfUser(stored, u) : r.id \in Nat /\ r.by = u /\ r.n \in 1..MaxWrite /\ r.id > ack[u]
  BY DEF OfUser, InOrder, Row
<1>3. ASSUME NEW r \in OfUser(stored, u), NEW s \in OfUser(stored, u)
      PROVE  (r.n < s.n <=> r.id < s.id) /\ (r.id = s.id => r = s)
  <2>1. /\ r \in stored /\ s \in stored /\ r.by = s.by
        /\ r.n \in Nat /\ s.n \in Nat /\ r.id \in Nat /\ s.id \in Nat
    BY <1>1, <1>2
  <2>2. (r.n < s.n => r.id < s.id) /\ (s.n < r.n => s.id < r.id) /\ (r.n = s.n => r = s)
    BY <2>1 DEF InOrder
  <2> QED BY <2>1, <2>2
<1> QED BY <1>1, <1>2, <1>3 DEF Keyed

\* The parts of a sequence.
LEMMA PartsOfSeq ==
  ASSUME NEW S, NEW r \in Seq(S), NEW f \in Seq(S), NEW w \in Seq(S), NEW T, NEW pipe \in Seq(T),
         pipe = r \o f \o w
  PROVE  /\ r \in Seq(T) /\ f \in Seq(T) /\ w \in Seq(T)
         /\ Len(pipe) = Len(r) + Len(f) + Len(w)
         /\ \A i \in 1..Len(r) : pipe[i] = r[i]
         /\ \A i \in 1..Len(f) : pipe[Len(r) + i] = f[i]
         /\ \A i \in 1..Len(w) : pipe[Len(r) + Len(f) + i] = w[i]
<1>1. /\ Len(r) \in Nat /\ Len(f) \in Nat /\ Len(w) \in Nat
      /\ r \o f \in Seq(S) /\ Len(r \o f) = Len(r) + Len(f)
      /\ \A i \in 1..Len(r) : (r \o f)[i] = r[i]
      /\ \A i \in (Len(r) + 1)..(Len(r) + Len(f)) : (r \o f)[i] = f[i - Len(r)]
  BY ConcatProperties
<1> DEFINE q == r \o f
<1>2. /\ Len(q \o w) = Len(q) + Len(w)
      /\ \A i \in 1..Len(q) : (q \o w)[i] = q[i]
      /\ \A i \in (Len(q) + 1)..(Len(q) + Len(w)) : (q \o w)[i] = w[i - Len(q)]
  <2>1. q \in Seq(S)
    BY <1>1
  <2> HIDE DEF q
  <2> QED BY <2>1, ConcatProperties
<1>3. pipe = q \o w /\ Len(q) = Len(r) + Len(f) /\ DOMAIN pipe = 1..Len(pipe)
      /\ (\A i \in 1..Len(pipe) : pipe[i] \in T)
      /\ (\A i \in 1..Len(r) : q[i] = r[i])
      /\ (\A i \in (Len(r) + 1)..(Len(r) + Len(f)) : q[i] = f[i - Len(r)])
  BY <1>1
<1> HIDE DEF q
<1>4. Len(pipe) = Len(r) + Len(f) + Len(w)
  BY <1>1, <1>2, <1>3
<1>5. ASSUME NEW i \in 1..Len(r) PROVE pipe[i] = r[i] /\ r[i] \in T
  <2>1. i \in 1..Len(q) /\ i \in 1..Len(pipe)
    BY <1>1, <1>3, <1>4
  <2> QED BY <1>2, <1>3, <2>1
<1>6. ASSUME NEW i \in 1..Len(f) PROVE pipe[Len(r) + i] = f[i] /\ f[i] \in T
  <2> DEFINE k == Len(r) + i
  <2>1. k \in 1..Len(q) /\ k \in 1..Len(pipe) /\ k \in (Len(r) + 1)..(Len(r) + Len(f)) /\ k - Len(r) = i
    BY <1>1, <1>3, <1>4
  <2> HIDE DEF k
  <2>2. pipe[k] = f[i] /\ pipe[k] \in T
    BY <1>2, <1>3, <2>1
  <2> QED BY <2>2 DEF k
<1>7. ASSUME NEW i \in 1..Len(w) PROVE pipe[Len(r) + Len(f) + i] = w[i] /\ w[i] \in T
  <2> DEFINE k == Len(r) + Len(f) + i
  <2>1. k \in 1..Len(pipe) /\ k \in (Len(q) + 1)..(Len(q) + Len(w)) /\ k - Len(q) = i
    BY <1>1, <1>3, <1>4
  <2> HIDE DEF k
  <2>2. pipe[k] = w[i] /\ pipe[k] \in T
    BY <1>2, <1>3, <2>1
  <2> QED BY <2>2 DEF k
<1>8. r \in Seq(T) /\ f \in Seq(T) /\ w \in Seq(T)
  BY <1>5, <1>6, <1>7
<1> QED BY <1>4, <1>5, <1>6, <1>7, <1>8

\* What is answered, refused and on the wire are batches of the user.
LEMMA CallHoldsMine ==
  ASSUME PipelineInv, pipeline \in Seq(Mine)
  PROVE  /\ call.replies \in Seq(Mine) /\ call.refusing \in Seq(Mine) /\ call.wire \in Seq(Mine)
         /\ \A i \in 1..Len(call.replies) : i \in 1..Len(pipeline) /\ pipeline[i] = call.replies[i]
         /\ call.replies = <<>> =>
              \A i \in 1..Len(call.refusing) : i \in 1..Len(pipeline) /\ pipeline[i] = call.refusing[i]
         /\ call.refusing = <<>> =>
              \A i \in 1..Len(call.wire) : /\ Len(call.replies) + i \in 1..Len(pipeline)
                                           /\ pipeline[Len(call.replies) + i] = call.wire[i]
         /\ call.replies # <<>> \/ call.refusing # <<>> \/ call.wire # <<>> => pipeline # <<>>
<1> DEFINE r == call.replies
           f == call.refusing
           w == call.wire
<1>1. CASE call.hello # "done"
  <2>1. r = <<>> /\ f = <<>> /\ w = <<>>
    BY <1>1 DEF PipelineInv, Fits
  <2> QED BY <2>1
<1>2. CASE call.hello = "done"
  <2>1. pipeline = r \o f \o w
    BY <1>2 DEF PipelineInv, Fits
  <2>2. PICK S : r \in Seq(S) /\ f \in Seq(S) /\ w \in Seq(S)
    BY DEF PipelineInv, Fits, Batches
  <2> HIDE DEF r, f, w
  <2>3. /\ r \in Seq(Mine) /\ f \in Seq(Mine) /\ w \in Seq(Mine)
        /\ Len(pipeline) = Len(r) + Len(f) + Len(w)
        /\ \A i \in 1..Len(r) : pipeline[i] = r[i]
        /\ \A i \in 1..Len(f) : pipeline[Len(r) + i] = f[i]
        /\ \A i \in 1..Len(w) : pipeline[Len(r) + Len(f) + i] = w[i]
    BY <2>1, <2>2, PartsOfSeq
  <2>4. Len(r) \in Nat /\ Len(f) \in Nat /\ Len(w) \in Nat
        /\ (r = <<>> <=> Len(r) = 0) /\ (f = <<>> <=> Len(f) = 0) /\ (w = <<>> <=> Len(w) = 0)
        /\ (pipeline = <<>> => Len(pipeline) = 0)
    BY <2>3
  <2>5. \A i \in 1..Len(r) : i \in 1..Len(pipeline)
    BY <2>3, <2>4
  <2>6. r = <<>> => \A i \in 1..Len(f) : i \in 1..Len(pipeline) /\ pipeline[i] = f[i]
    <3>1. \A i \in Int : 0 + i = i
      OBVIOUS
    <3> QED BY <2>3, <2>4, <3>1
  <2>7. f = <<>> => \A i \in 1..Len(w) : /\ Len(r) + i \in 1..Len(pipeline)
                                         /\ pipeline[Len(r) + i] = w[i]
    BY <2>3, <2>4
  <2>8. r # <<>> \/ f # <<>> \/ w # <<>> => pipeline # <<>>
    BY <2>3, <2>4
  <2> QED BY <2>3, <2>5, <2>6, <2>7, <2>8 DEF r, f, w
<1> QED BY <1>1, <1>2

LEMMA EmptyInPlace ==
  ASSUME NEW S
  PROVE  InPlace(<<>>, S) /\ Len(<<>>) <= MaxPipeline
BY WritesAssumption DEF InPlace

\* The pipeline once it is filled again.
LEMMA FilledAgain ==
  ASSUME NEW stored, NEW ack, InOrder(stored, ack), NEW u,
         NEW pipe, InPlace(pipe, OfUser(stored, u)), Len(pipe) <= MaxPipeline
  PROVE  Filled(Refilled(pipe, stored, ack, u), OfUser(stored, u))
<1> DEFINE S == OfUser(stored, u)
<1>1. Keyed(S) /\ \A r \in S : r.id \in Nat /\ r.id > ack[u]
  BY RowsAreKeyed
<1>2. S = OfUser(stored, u) /\ InPlace(pipe, S)
  OBVIOUS
<1> HIDE DEF S
<1>3. Filled(Refilled(pipe, stored, ack, u), S)
  BY <1>1, <1>2, RefilledInPlace
<1> QED BY <1>3 DEF S

\* The first batch of the pipeline, and what its removal leaves.
Remaining == rows \ {Head(pipeline)}

LEMMA FirstBatch ==
  ASSUME QueueInv, pipeline # <<>>
  PROVE  /\ Head(pipeline) \in rows /\ Head(pipeline).by = user
         /\ {r \in rows : r.by # user \/ r.id # Head(pipeline).id} = Remaining
         /\ OfUser(Remaining, user) = Mine \ {Head(pipeline)}
         /\ Keyed(Mine \ {Head(pipeline)})
         /\ InPlace(Tail(pipeline), Mine \ {Head(pipeline)})
         /\ Len(Tail(pipeline)) <= MaxPipeline
         /\ \A r \in Mine \ {Head(pipeline)} : r.id > Head(pipeline).id /\ r.n > Head(pipeline).n
         /\ {w \in waiting : w.by = user /\ w.id = Head(pipeline).id} = waiting \intersect {Head(pipeline)}
         /\ StillWaiting(Head(pipeline)) = waiting \ {Head(pipeline)}
<1> DEFINE p == Head(pipeline)
<1>1. /\ Keyed(Mine) /\ Mine \subseteq rows
      /\ \A r \in Mine : /\ r.id \in Nat /\ r.n \in 1..MaxWrite /\ r.by = user
                         /\ \A s \in Mine : r.n < s.n <=> r.id < s.id
  BY RowsAreKeyed DEF QueueInv, RowsInv, Mine
<1>2. InPlace(pipeline, Mine) /\ Len(pipeline) <= MaxPipeline
  BY DEF QueueInv, Filled
<1>3. /\ p \in Mine /\ Keyed(Mine \ {p}) /\ InPlace(Tail(pipeline), Mine \ {p})
      /\ Len(pipeline) \in Nat /\ Len(Tail(pipeline)) = Len(pipeline) - 1
      /\ \A r \in Mine \ {p} : r.id > p.id
  BY <1>1, <1>2, TailInPlace
<1>4. \A r \in Mine \ {p} : r.id > p.id /\ r.n > p.n
  BY <1>1, <1>3
<1>5. \A r \in rows : r.by = user /\ r.id = p.id <=> r = p
  <2>1. \A r \in rows : r.by = user <=> r \in Mine
    BY DEF Mine, OfUser
  <2> QED BY <1>1, <1>3, <2>1 DEF Keyed
<1>6. {r \in rows : r.by # user \/ r.id # p.id} = Remaining
  BY <1>5 DEF Remaining
<1>7. OfUser(Remaining, user) = Mine \ {p}
  BY DEF OfUser, Mine, Remaining
<1>8. /\ {w \in waiting : w.by = user /\ w.id = p.id} = waiting \intersect {p}
      /\ StillWaiting(p) = waiting \ {p}
  BY <1>5 DEF StillWaiting, QueueInv
<1>9. Len(Tail(pipeline)) <= MaxPipeline
  BY <1>2, <1>3, WritesAssumption
<1> QED BY <1>1, <1>3, <1>4, <1>6, <1>7, <1>8, <1>9

LEMMA FewerInOrder ==
  ASSUME NEW stored, NEW ack, InOrder(stored, ack), NEW less, less \subseteq stored
  PROVE  InOrder(less, ack)
BY FS_Subset DEF InOrder

-----------------------------------------------------------------------------
(* The queue over the steps of the worker                                    *)

\* The rows and the pipeline after the removal of the first batch.
LEMMA QueueRemoves ==
  ASSUME QueueInv, StreamTypeOK, pipeline # <<>>, rows' = Remaining,
         UNCHANGED <<user, nextID, made>>,
         acked' = acked \/ acked' = [acked EXCEPT ![user] = Head(pipeline).id],
         pipeline' = Refilled(Tail(pipeline), rows', acked', user')
  PROVE  RowsInv' /\ Filled(pipeline', Mine')
<1> DEFINE p == Head(pipeline)
<1>1. /\ p \in rows /\ p.by = user /\ OfUser(Remaining, user) = Mine \ {p}
      /\ InPlace(Tail(pipeline), Mine \ {p}) /\ Len(Tail(pipeline)) <= MaxPipeline
      /\ \A r \in Mine \ {p} : r.id > p.id
  BY FirstBatch
<1>2. user \in User /\ p.id \in Nat /\ InOrder(rows, acked) /\ acked \in [User -> Int]
  BY <1>1 DEF StreamTypeOK, QueueInv, RowsInv, InOrder, Row
<1>3. InOrder(Remaining, acked)
  BY <1>2, FewerInOrder DEF Remaining
<1>4. acked' \in [User -> Int] /\ (\A u \in User : acked'[u] >= -1) /\ acked'[user] < nextID
  BY <1>1, <1>2 DEF QueueInv, RowsInv
<1>5. \A r \in Remaining : acked'[r.by] < r.id
  <2> SUFFICES ASSUME NEW r \in Remaining PROVE acked'[r.by] < r.id
    OBVIOUS
  <2>1. acked[r.by] < r.id /\ r.by \in User /\ r.id \in Nat
    BY <1>3 DEF InOrder, Row
  <2>2. r.by = user => r.id > p.id
    BY <1>1 DEF OfUser
  <2> QED BY <1>2, <2>1, <2>2
<1>6. InOrder(rows', acked')
  BY <1>3, <1>4, <1>5 DEF InOrder
<1>7. RowsInv'
  BY <1>4, <1>6 DEF QueueInv, RowsInv, Remaining
<1>8. OfUser(rows', user') = Mine \ {p}
  BY <1>1
<1>9. InPlace(Tail(pipeline), OfUser(rows', user'))
  BY <1>1, <1>8
<1>10. Filled(Refilled(Tail(pipeline), rows', acked', user'), OfUser(rows', user'))
  BY <1>1, <1>6, <1>9, FilledAgain
<1> QED BY <1>7, <1>10 DEF Mine

\* The queue of a user whose account is taken over, or of a new process.
LEMMA QueueStarts ==
  ASSUME QueueInv, user' \in User, StartQueue(user'), UNCHANGED <<rows, made>>,
         pipeline' = Refilled(<<>>, rows', acked', user')
  PROVE  RowsInv' /\ Filled(pipeline', Mine')
<1> DEFINE next == LoadNextBatchID(rows)
<1>1. InOrder(rows, acked) /\ \A r \in rows : r.id \in Nat /\ r.by \in User
  BY DEF QueueInv, RowsInv, InOrder, Row
<1>2. next \in Nat /\ \A r \in rows : r.id < next
  BY <1>1, NextIdIsAbove DEF InOrder
<1>3. nextID' = next /\ acked' = [acked EXCEPT ![user'] = IF @ >= next THEN -1 ELSE @]
  BY DEF StartQueue, AckedAtStart
<1> HIDE DEF next
<1>4. acked \in [User -> Int] /\ \A u \in User : acked[u] >= -1
  BY <1>1 DEF InOrder, QueueInv, RowsInv
<1>5. acked' \in [User -> Int] /\ (\A u \in User : acked'[u] >= -1 /\ (acked'[u] = acked[u] \/ acked'[u] = -1))
      /\ acked'[user'] < nextID'
  BY <1>2, <1>3, <1>4
<1>6. InOrder(rows', acked')
  <2>1. \A r \in rows : acked[r.by] < r.id
    BY <1>1 DEF InOrder
  <2>2. \A r \in rows : acked'[r.by] < r.id
    BY <1>1, <1>4, <1>5, <2>1
  <2> QED BY <1>1, <1>5, <2>2 DEF InOrder
<1>7. RowsInv'
  BY <1>2, <1>3, <1>5, <1>6 DEF QueueInv, RowsInv
<1>8. Filled(Refilled(<<>>, rows', acked', user'), OfUser(rows', user'))
  BY <1>6, EmptyInPlace, FilledAgain
<1> QED BY <1>7, <1>8 DEF Mine

\* A write becomes the last batch of its account.
LEMMA QueueAdds ==
  ASSUME QueueInv, StreamTypeOK, UNCHANGED <<user, acked, made>>, nextID' = nextID + 1,
         NEW n \in 1..Len(made), made[n] = user, \A r \in rows : r.n < n,
         rows' = rows \union {[by |-> user, id |-> nextID, n |-> n]},
         pipeline' = Refilled(pipeline, rows', acked', user')
  PROVE  RowsInv' /\ Filled(pipeline', Mine')
<1> DEFINE row == [by |-> user, id |-> nextID, n |-> n]
<1>1. /\ InOrder(rows, acked) /\ nextID \in Nat /\ acked[user] < nextID
      /\ \A r \in rows : r \in Row /\ (r.by = user => r.id < nextID)
  BY DEF QueueInv, RowsInv, InOrder
<1>2. row \in Row /\ row.by = user /\ row.id = nextID /\ row.n = n /\ user \in User
  <2>1. n \in 1..MaxWrite
    BY WritesAssumption DEF QueueInv, RowsInv, StreamTypeOK
  <2> QED BY <1>1, <2>1 DEF Row, StreamTypeOK
<1>3. rows' = rows \union {row}
  OBVIOUS
<1> HIDE DEF row
<1>4. IsFiniteSet(rows')
  <2>1. IsFiniteSet(rows)
    BY <1>1 DEF InOrder
  <2>2. IsFiniteSet(rows \union {row})
    BY <2>1, FS_AddElement
  <2> QED BY <1>3, <2>2
<1>5. \A r \in rows : r.n \in Nat /\ r.n < n /\ r.id \in Nat
  BY <1>1 DEF Row
<1>6. InOrder(rows', acked')
  <2>1. rows' \subseteq Row /\ \A r \in rows' : acked'[r.by] < r.id
    BY <1>1, <1>2, <1>3 DEF InOrder
  <2>2. ASSUME NEW r \in rows', NEW s \in rows'
        PROVE  (r.n = s.n => r = s) /\ (r.by = s.by /\ r.n < s.n => r.id < s.id)
    <3>1. CASE r \in rows /\ s \in rows
      BY <1>1, <3>1 DEF InOrder
    <3>2. CASE r = row /\ s = row
      BY <1>2, <3>2
    <3>3. CASE r \in rows /\ s = row
      BY <1>1, <1>2, <1>5, <3>3
    <3>4. CASE r = row /\ s \in rows
      BY <1>1, <1>2, <1>5, <3>4
    <3> QED BY <1>3, <3>1, <3>2, <3>3, <3>4
  <2> QED BY <1>1, <1>4, <2>1, <2>2 DEF InOrder
<1>7. RowsInv'
  <2>1. \A r \in rows' : r.n <= Len(made) /\ made[r.n] = r.by /\ (r.by = user => r.id < nextID + 1)
    BY <1>1, <1>2, <1>3, <1>5 DEF QueueInv, RowsInv, StreamTypeOK
  <2> QED BY <1>1, <1>6, <2>1, <1>2 DEF QueueInv, RowsInv, InOrder
<1>8. Keyed(Mine) /\ \A r \in Mine : r.id < row.id
  <2>1. Keyed(Mine) /\ Mine \subseteq rows
    BY <1>1, RowsAreKeyed DEF Mine
  <2> QED BY <1>1, <1>2, <2>1 DEF Mine, OfUser
<1>9. OfUser(rows', user') = Mine \union {row}
  BY <1>2, <1>3 DEF OfUser, Mine
<1>10. InPlace(pipeline, OfUser(rows', user')) /\ Len(pipeline) <= MaxPipeline
  <2>1. InPlace(pipeline, Mine) /\ row.id \in Int
    BY <1>1, <1>2 DEF QueueInv, Filled
  <2>2. InPlace(pipeline, Mine \union {row})
    BY <1>8, <2>1, InPlaceAtEnd
  <2> QED BY <1>9, <2>2 DEF QueueInv, Filled
<1>11. Filled(Refilled(pipeline, rows', acked', user'), OfUser(rows', user'))
  BY <1>6, <1>10, FilledAgain
<1> QED BY <1>7, <1>11 DEF Mine

-----------------------------------------------------------------------------
(* The writes in line                                                        *)

LEMMA LineRests ==
  ASSUME WritesInLine, UNCHANGED <<user, made>>, Touched' \subseteq Touched,
         worker' = worker \/ worker' = <<>>
  PROVE  WritesInLine'
<1>1. CASE worker' = <<>>
  BY <1>1 DEF WritesInLine
<1>2. CASE worker' = worker
  <2>1. \A i, u : Leads(worker', "change", user', i, u) <=> Leads(worker, "change", user, i, u)
    BY <1>2
  <2>2. \A n \in Touched' : n \in Touched
    OBVIOUS
  <2> QED BY <1>2, <2>1, <2>2 DEF WritesInLine
<1> QED BY <1>1, <1>2

\* The first block is taken: of the writes on disk, only its own is new.
LEMMA LineTakes ==
  ASSUME WritesInLine, worker \in Seq(WorkerBlock), worker # <<>>, worker' = Tail(worker),
         UNCHANGED made,
         IF Head(worker).kind = "change" THEN user' = Head(worker).user ELSE user' = user,
         \A n \in Touched' : n \in Touched \/ (Head(worker).kind = "write" /\ n = Head(worker).n)
  PROVE  WritesInLine'
<1>1. /\ Len(worker') \in Nat /\ Len(worker) = Len(worker') + 1 /\ Head(worker) = worker[1]
      /\ \A k \in 1..Len(worker') : worker'[k] = worker[k + 1]
  BY TailBlocks
<1> SUFFICES ASSUME NEW i \in 1..Len(worker'), worker'[i].kind = "write"
             PROVE  /\ worker'[i].n \in 1..Len(made) /\ made[worker'[i].n] = worker'[i].user
                    /\ Leads(worker', "change", user', i, worker'[i].user)
                    /\ \A j \in 1..(i - 1) : worker'[j].kind = "write" => worker'[j].n < worker'[i].n
                    /\ \A n \in Touched' : n < worker'[i].n
  BY DEF WritesInLine
<1>2. /\ i + 1 \in 1..Len(worker) /\ worker'[i] = worker[i + 1]
      /\ i \in 1..(Len(worker') + 1) /\ 1 \in 1..(i + 1 - 1)
  BY <1>1
<1>3. /\ worker[i + 1].n \in 1..Len(made) /\ made[worker[i + 1].n] = worker[i + 1].user
      /\ Leads(worker, "change", user, i + 1, worker[i + 1].user)
      /\ \A j \in 1..(i + 1 - 1) : worker[j].kind = "write" => worker[j].n < worker[i + 1].n
      /\ \A n \in Touched : n < worker[i + 1].n
  BY <1>2 DEF WritesInLine
<1>4. Leads(Tail(worker), "change", user', i, worker[i + 1].user)
  BY <1>2, <1>3, LeadsTailOther, LeadsTailSame
<1>5. ASSUME NEW j \in 1..(i - 1), worker'[j].kind = "write" PROVE worker'[j].n < worker'[i].n
  <2>1. j + 1 \in 1..(i + 1 - 1) /\ worker'[j] = worker[j + 1]
    BY <1>1
  <2> QED BY <1>2, <1>3, <1>5, <2>1
<1>6. \A n \in Touched' : n < worker'[i].n
  BY <1>1, <1>2, <1>3
<1> QED BY <1>2, <1>3, <1>4, <1>5, <1>6

\* A block joins the line: if it is a write, it is the latest.
LEMMA LineGrows ==
  ASSUME WritesInLine, worker \in Seq(WorkerBlock), made \in Seq(User),
         NEW b \in WorkerBlock, worker' = Append(worker, b), UNCHANGED user,
         Touched \subseteq 1..Len(made), Touched' \subseteq Touched,
         \/ b.kind # "write" /\ UNCHANGED made
         \/ /\ b.kind = "write" /\ b.n = Len(made) + 1 /\ made' = Append(made, b.user)
            /\ b.user \in User /\ Leads(worker, "change", user, Len(worker) + 1, b.user)
  PROVE  WritesInLine'
<1>1. /\ Len(worker) \in Nat /\ Len(worker') = Len(worker) + 1 /\ worker'[Len(worker) + 1] = b
      /\ \A i \in 1..Len(worker) : worker'[i] = worker[i]
  OBVIOUS
<1>2. /\ Len(made) \in Nat /\ Len(made) <= Len(made') /\ Len(made') \in Nat
      /\ \A n \in 1..Len(made) : made'[n] = made[n]
  OBVIOUS
<1>3. ASSUME NEW i \in 1..Len(worker), worker'[i].kind = "write"
      PROVE  /\ worker'[i].n \in 1..Len(made) /\ made'[worker'[i].n] = worker'[i].user
             /\ Leads(worker', "change", user', i, worker'[i].user)
             /\ \A j \in 1..(i - 1) : worker'[j].kind = "write" => worker'[j].n < worker'[i].n
             /\ \A n \in Touched' : n < worker'[i].n
  <2>1. worker'[i] = worker[i] /\ i \in 1..(Len(worker) + 1)
    BY <1>1
  <2>2. /\ worker[i].n \in 1..Len(made) /\ made[worker[i].n] = worker[i].user
        /\ Leads(worker, "change", user, i, worker[i].user)
        /\ \A j \in 1..(i - 1) : worker[j].kind = "write" => worker[j].n < worker[i].n
        /\ \A n \in Touched : n < worker[i].n
    BY <1>3, <2>1 DEF WritesInLine
  <2>3. Leads(Append(worker, b), "change", user, i, worker[i].user)
    BY <2>1, <2>2, LeadsAppend
  <2>4. \A j \in 1..(i - 1) : worker'[j] = worker[j]
    BY <1>1
  <2> QED BY <1>2, <2>1, <2>2, <2>3, <2>4
<1>4. ASSUME b.kind = "write"
      PROVE  /\ b.n \in 1..Len(made') /\ made'[b.n] = b.user
             /\ Leads(worker', "change", user', Len(worker) + 1, b.user)
             /\ \A j \in 1..Len(worker) : worker'[j].kind = "write" => worker'[j].n < b.n
             /\ \A n \in Touched' : n < b.n
  <2>1. b.n = Len(made) + 1 /\ made' = Append(made, b.user) /\ b.user \in User
        /\ Leads(worker, "change", user, Len(worker) + 1, b.user)
    BY <1>4
  <2>2. Leads(Append(worker, b), "change", user, Len(worker) + 1, b.user)
    <3>1. Len(worker) + 1 \in 1..(Len(worker) + 1)
      BY <1>1
    <3> QED BY <2>1, <3>1, LeadsAppend
  <2>3. \A j \in 1..Len(worker) : worker'[j].kind = "write" => worker'[j].n < b.n
    BY <1>2, <1>3, <2>1
  <2>4. b.n \in 1..Len(made') /\ made'[b.n] = b.user
    BY <1>2, <2>1
  <2> QED BY <1>2, <2>1, <2>2, <2>3, <2>4
<1>5. \A i \in 1..Len(worker') : i \in 1..Len(worker) \/ i = Len(worker) + 1
  BY <1>1
<1>6. Len(worker) + 1 - 1 = Len(worker)
  BY <1>1
<1>7. \A i \in 1..Len(worker) : worker'[i].n \in 1..Len(made) => worker'[i].n \in 1..Len(made')
  BY <1>2
<1> QED BY <1>1, <1>3, <1>4, <1>5, <1>6, <1>7 DEF WritesInLine

-----------------------------------------------------------------------------
(* Every step keeps the order of the queue                                   *)

LEMMA QueueRests ==
  ASSUME QueueInv, WritesInLine', Touched' \subseteq Touched,
         UNCHANGED <<disk, user, nextID, waiting, pipeline, made>>
  PROVE  QueueInv'
<1>1. RowsInv'
  BY DEF QueueInv, RowsInv, InOrder, disk
<1>2. Mine' = Mine
  BY DEF Mine, OfUser, disk
<1> QED BY <1>1, <1>2 DEF QueueInv, disk

LEMMA QueueMakeWrite ==
  ASSUME QueueInv, StreamTypeOK, ProviderIsAhead, MakeWrite
  PROVE  QueueInv'
<1> DEFINE b == [kind |-> "write", user |-> auth, n |-> Len(made) + 1]
<1>1. worker \in Seq(WorkerBlock) /\ made \in Seq(User) /\ auth \in User /\ Len(made) \in Nat
  BY DEF StreamTypeOK, CredentialsTypeOK
<1>2. b \in WorkerBlock /\ b.kind = "write" /\ b.user = auth /\ b.n = Len(made) + 1
  BY <1>1 DEF WorkerBlock
<1>3. /\ worker' = Append(worker, b) /\ made' = Append(made, auth) /\ provider.user = auth
      /\ Len(made) < MaxWrite /\ UNCHANGED <<disk, memory, log, refused, told>>
  BY DEF MakeWrite
<1> HIDE DEF b
<1>4. /\ Len(made') = Len(made) + 1 /\ \A n \in 1..Len(made) : made'[n] = made[n]
  BY <1>1, <1>3
<1>5. Touched' = Touched
  BY <1>3 DEF Touched, disk
<1>6. WritesInLine'
  <2>1. Leads(worker, "change", user, Len(worker) + 1, b.user)
    BY <1>2, <1>3 DEF ProviderIsAhead
  <2>2. UNCHANGED user /\ WritesInLine /\ Touched \subseteq 1..Len(made)
    BY <1>3 DEF QueueInv, memory
  <2> QED BY <1>1, <1>2, <1>3, <1>5, <2>1, <2>2, LineGrows
<1>7. RowsInv'
  <2>1. UNCHANGED <<rows, acked, user, nextID>>
    BY <1>3 DEF disk, memory
  <2>2. InOrder(rows, acked) /\ \A r \in rows : r.n \in 1..Len(made)
    BY <1>1 DEF QueueInv, RowsInv, InOrder, Row
  <2>3. Len(made') <= MaxWrite
    BY <1>1, <1>3, <1>4, WritesAssumption
  <2>4. \A r \in rows : r.n <= Len(made') /\ made'[r.n] = r.by
    BY <1>1, <1>4, <2>2 DEF QueueInv, RowsInv
  <2> QED BY <2>1, <2>2, <2>3, <2>4 DEF QueueInv, RowsInv
<1>8. Mine' = Mine /\ UNCHANGED <<pipeline, waiting, rows>>
  BY <1>3 DEF Mine, OfUser, disk, memory
<1>9. Touched' \subseteq 1..Len(made')
  BY <1>1, <1>4, <1>5 DEF QueueInv
<1> QED BY <1>6, <1>7, <1>8, <1>9 DEF QueueInv

\* A write that is taken from the worker queue is of its user, and the latest.
LEMMA TakenWrite ==
  ASSUME QueueInv, worker \in Seq(WorkerBlock), worker # <<>>, Head(worker).kind = "write"
  PROVE  /\ Head(worker).n \in 1..Len(made) /\ made[Head(worker).n] = user
         /\ \A n \in Touched : n < Head(worker).n
<1>1. Head(worker) = worker[1] /\ 1 \in 1..Len(worker)
  OBVIOUS
<1>2. /\ worker[1].n \in 1..Len(made) /\ made[worker[1].n] = worker[1].user
      /\ Leads(worker, "change", user, 1, worker[1].user)
      /\ \A n \in Touched : n < worker[1].n
  BY <1>1 DEF QueueInv, WritesInLine
<1>3. worker[1].user = user
  BY <1>2, LeadsFirst
<1> QED BY <1>1, <1>2, <1>3

LEMMA QueueWriteMutations ==
  ASSUME QueueInv, StreamTypeOK, WriteMutations
  PROVE  QueueInv'
<1> DEFINE n == Head(worker).n
           row == [by |-> user, id |-> nextID, n |-> n]
<1>1. /\ worker # <<>> /\ Head(worker).kind = "write" /\ worker' = Tail(worker)
      /\ rows' = rows \union {row} /\ nextID' = nextID + 1
      /\ waiting' \subseteq waiting \union {row}
      /\ pipeline' = Refilled(pipeline, rows', acked, user)
      /\ UNCHANGED <<acked, user, history>>
  BY DEF WriteMutations, NextBlock, FillWritePipeline
<1>2. worker \in Seq(WorkerBlock)
  BY DEF StreamTypeOK, CredentialsTypeOK
<1>3. n \in 1..Len(made) /\ made[n] = user /\ \A m \in Touched : m < n
  BY <1>1, <1>2, TakenWrite
<1>4. UNCHANGED <<user, acked, made, log, refused, told>>
  BY <1>1 DEF history
<1>5. \A r \in rows : r.n < n
  BY <1>3 DEF Touched
<1>6. RowsInv' /\ Filled(pipeline', Mine')
  <2>1. pipeline' = Refilled(pipeline, rows', acked', user')
    BY <1>1
  <2> HIDE DEF n
  <2>2. rows' = rows \union {[by |-> user, id |-> nextID, n |-> n]}
    BY <1>1
  <2> QED BY <1>1, <1>3, <1>4, <1>5, <2>1, <2>2, QueueAdds
<1>7. \A m \in Touched' : m \in Touched \/ m = n
  BY <1>1, <1>4 DEF Touched
<1>8. WritesInLine'
  <2>1. IF Head(worker).kind = "change" THEN user' = Head(worker).user ELSE user' = user
    BY <1>1
  <2>2. \A m \in Touched' : m \in Touched \/ (Head(worker).kind = "write" /\ m = Head(worker).n)
    BY <1>1, <1>7
  <2> QED BY <1>1, <1>2, <1>4, <2>1, <2>2, LineTakes DEF QueueInv
<1>9. Touched' \subseteq 1..Len(made')
  BY <1>3, <1>4, <1>7 DEF QueueInv
<1>10. waiting' \subseteq rows'
  BY <1>1 DEF QueueInv
<1> QED BY <1>6, <1>8, <1>9, <1>10 DEF QueueInv

LEMMA QueueCredentialDidChange ==
  ASSUME QueueInv, StreamTypeOK, CredentialDidChange
  PROVE  QueueInv'
<1>1. /\ worker # <<>> /\ Head(worker).kind = "change" /\ worker' = Tail(worker)
      /\ user' = Head(worker).user
      /\ IF user' # user THEN StartQueue(user') ELSE UNCHANGED <<nextID, acked>>
      /\ pipeline' = Refilled(<<>>, rows', acked', user')
      /\ UNCHANGED <<rows, waiting, history>>
  BY DEF CredentialDidChange, NextBlock, FillWritePipeline, PipelineAfterStop
<1>2. worker \in Seq(WorkerBlock)
  BY DEF StreamTypeOK, CredentialsTypeOK
<1>3. user' \in User
  <2>1. Head(worker) \in WorkerBlock
    BY <1>1, <1>2
  <2> QED BY <1>1, <2>1 DEF WorkerBlock
<1>4. UNCHANGED <<made, log, refused, told>>
  BY <1>1 DEF history
<1>5. RowsInv' /\ Filled(pipeline', Mine')
  <2>1. CASE user' # user
    BY <1>1, <1>3, <1>4, <2>1, QueueStarts
  <2>2. CASE user' = user
    <3>1. RowsInv'
      BY <1>1, <1>4, <2>2 DEF QueueInv, RowsInv, InOrder
    <3>2. Filled(Refilled(<<>>, rows', acked', user'), OfUser(rows', user'))
      BY <3>1, EmptyInPlace, FilledAgain DEF RowsInv
    <3> QED BY <1>1, <3>1, <3>2 DEF Mine
  <2> QED BY <2>1, <2>2
<1>6. Touched' = Touched
  BY <1>1, <1>4 DEF Touched
<1>7. WritesInLine'
  BY <1>1, <1>2, <1>4, <1>6, LineTakes DEF QueueInv
<1> QED BY <1>1, <1>4, <1>5, <1>6, <1>7 DEF QueueInv

\* What a completion that is called tells of was on disk.
LEMMA ToldTouched ==
  ASSUME QueueInv, NEW batch, NEW ok
  PROVE  {t.n : t \in Told(batch, ok)} \subseteq Touched
BY DEF QueueInv, Told, Touched

LEMMA QueueFirstGoes ==
  ASSUME QueueInv, StreamTypeOK, PipelineInv, ReceiveResponse \/ RejectFirst
  PROVE  QueueInv'
<1> DEFINE batch == Head(pipeline)
<1>1. pipeline # <<>>
  <2>1. pipeline \in Seq(Mine)
    BY DEF QueueInv, Filled, InPlace
  <2>2. call.replies # <<>> \/ call.refusing # <<>>
    BY DEF ReceiveResponse, RejectFirst, PipelineInv, Fits
  <2> QED BY <2>1, <2>2, CallHoldsMine
<1>2. PICK ok \in BOOLEAN :
        /\ told' = told \union Told(batch, ok) /\ waiting' = StillWaiting(batch)
        /\ rows' = {r \in rows : r.by # user \/ r.id # batch.id}
        /\ acked' = acked \/ acked' = [acked EXCEPT ![user] = batch.id]
        /\ pipeline' = Refilled(Tail(pipeline), rows', acked', user')
        /\ UNCHANGED <<user, nextID, made, log, refused, worker>>
  <2>1. CASE ReceiveResponse
    <3>1. told' = told \union Told(batch, TRUE)
      BY <2>1 DEF ReceiveResponse
    <3> QED BY <2>1, <3>1 DEF ReceiveResponse, FillWritePipeline, OnWorker
  <2>2. CASE RejectFirst
    <3>1. told' = told \union Told(batch, FALSE)
      BY <2>2 DEF RejectFirst
    <3> QED BY <2>2, <3>1 DEF RejectFirst, FillWritePipeline, OnWorker
  <2> QED BY <2>1, <2>2
<1>3. rows' = Remaining /\ waiting' = waiting \ {batch}
  BY <1>1, <1>2, FirstBatch
<1>4. RowsInv' /\ Filled(pipeline', Mine')
  BY <1>1, <1>2, <1>3, QueueRemoves
<1>5. Touched' \subseteq Touched
  <2>1. rows' \subseteq rows
    BY <1>3 DEF Remaining
  <2>2. {t.n : t \in Told(batch, ok)} \subseteq Touched
    BY ToldTouched
  <2> HIDE DEF batch
  <2> QED BY <1>2, <2>1, <2>2 DEF Touched
<1>6. WritesInLine'
  BY <1>2, <1>5, LineRests DEF QueueInv
<1> QED BY <1>2, <1>3, <1>4, <1>5, <1>6 DEF QueueInv, Remaining

LEMMA QueueServer ==
  ASSUME QueueInv, StreamTypeOK, PipelineInv, Apply \/ Refuse
  PROVE  QueueInv'
<1>1. /\ call.wire # <<>> /\ UNCHANGED <<disk, user, nextID, waiting, pipeline, made, told, worker>>
      /\ \/ log' = Append(log, Head(call.wire).n) /\ UNCHANGED refused
         \/ refused' = refused \union {Head(call.wire).n} /\ UNCHANGED log
  BY DEF Apply, Refuse, credentials
<1>2. call.wire \in Seq(Mine)
  BY CallHoldsMine DEF QueueInv, Filled, InPlace
<1>3. Head(call.wire) \in Mine
  BY <1>1, <1>2
<1> DEFINE n == Head(call.wire).n
<1>4. n \in Touched
  BY <1>3 DEF Touched, Mine, OfUser
<1> HIDE DEF n
<1>5. ToSet(log') \subseteq ToSet(log) \union {n}
  BY <1>1 DEF n, ToSet
<1>6. Touched' \subseteq Touched
  BY <1>1, <1>4, <1>5 DEF Touched, disk, n
<1>7. WritesInLine'
  BY <1>1, <1>6, LineRests DEF QueueInv
<1> QED BY <1>1, <1>6, <1>7, QueueRests

LEMMA QueueStart ==
  ASSUME QueueInv, StreamTypeOK, Relaunch \/ RelaunchAfterTelling
  PROVE  QueueInv'
<1>1. /\ Launch(auth) /\ Initialize /\ UNCHANGED <<rows, made, log, refused>>
      /\ told' = told \/ told' = told \union Told(Head(pipeline), TRUE)
  BY DEF Relaunch, RelaunchAfterTelling
<1>2. user' \in User /\ waiting' = {} /\ worker' = <<>>
  BY <1>1 DEF Initialize, Launch, StreamTypeOK, CredentialsTypeOK, User
<1>3. RowsInv' /\ Filled(pipeline', Mine')
  <2>1. StartQueue(user') /\ pipeline' = Refilled(<<>>, rows', acked', user')
    BY <1>1 DEF Initialize
  <2> QED BY <1>1, <1>2, <2>1, QueueStarts
<1>4. Touched' \subseteq Touched
  <2>1. {t.n : t \in Told(Head(pipeline), TRUE)} \subseteq Touched
    BY ToldTouched
  <2> QED BY <1>1, <2>1 DEF Touched
<1>5. WritesInLine'
  BY <1>2 DEF WritesInLine
<1> QED BY <1>1, <1>2, <1>3, <1>4, <1>5 DEF QueueInv

\* The steps that move blocks, tokens and the stream only.
LEMMA QueueOther ==
  ASSUME QueueInv, StreamTypeOK, StreamTypeOK',
         UNCHANGED <<disk, user, nextID, waiting, pipeline, made, log, refused, told>>,
         \/ worker' = worker
         \/ NextBlock("token")
         \/ HearChange \/ HearToken
  PROVE  QueueInv'
<1>1. Touched' = Touched
  BY DEF Touched, disk
<1>2. worker \in Seq(WorkerBlock) /\ made \in Seq(User) /\ worker' \in Seq(WorkerBlock)
  BY DEF StreamTypeOK, CredentialsTypeOK
<1>3. WritesInLine'
  <2>1. CASE worker' = worker
    BY <1>1, <2>1, LineRests DEF QueueInv
  <2>2. CASE NextBlock("token")
    BY <1>1, <1>2, <2>2, LineTakes DEF QueueInv, NextBlock
  <2>3. CASE HearChange \/ HearToken
    <3>1. PICK b : worker' = Append(worker, b) /\ b.kind # "write"
      BY <2>3 DEF HearChange, HearToken
    <3>2. b \in WorkerBlock
      <4>1. worker'[Len(worker) + 1] = b /\ Len(worker) + 1 \in 1..Len(worker')
        BY <1>2, <3>1
      <4> QED BY <1>2, <4>1
    <3> QED BY <1>1, <1>2, <3>1, <3>2, LineGrows DEF QueueInv
  <2> QED BY <2>1, <2>2, <2>3
<1> QED BY <1>1, <1>3, QueueRests

LEMMA QueueInit == Init => QueueInv
<1> SUFFICES ASSUME Init PROVE QueueInv
  OBVIOUS
<1>1. /\ rows = {} /\ acked = [u \in User |-> -1] /\ worker = <<>> /\ waiting = {}
      /\ pipeline = <<>> /\ made = <<>> /\ log = <<>> /\ refused = {} /\ told = {}
      /\ nextID = 0 /\ user \in User
  BY WritesAssumption DEF Init, User
<1>2. InOrder(rows, acked)
  BY <1>1, FS_EmptySet DEF InOrder
<1>3. RowsInv
  BY <1>1, <1>2, WritesAssumption DEF RowsInv
<1>4. Mine = {} /\ Cardinality(Mine) = 0
  BY <1>1, FS_EmptySet DEF Mine, OfUser
<1>5. Filled(pipeline, Mine)
  BY <1>1, <1>4, EmptyInPlace DEF Filled
<1>6. Touched = {}
  BY <1>1 DEF Touched, ToSet
<1> QED BY <1>1, <1>3, <1>5, <1>6 DEF QueueInv, WritesInLine

LEMMA QueueNext == AnswersInv /\ AnswersInv' /\ QueueInv /\ [Next]_vars => QueueInv'
<1> SUFFICES ASSUME AnswersInv, AnswersInv', QueueInv, [Next]_vars PROVE QueueInv'
  OBVIOUS
<1>1. PipelineInv /\ StreamTypeOK /\ StreamTypeOK' /\ ProviderIsAhead
  BY DEF AnswersInv, TokenInv
<1>2. CASE MakeWrite
  BY <1>1, <1>2, QueueMakeWrite
<1>3. CASE AccountTrouble \/ TakeToken \/ AnswerToken
  <2>1. UNCHANGED worker
    BY <1>3 DEF AccountTrouble, TakeToken, AnswerToken, AuthChanges, AuthTakes, AuthAnswers
  <2> QED BY <1>1, <1>3, <2>1, QueueOther DEF AccountTrouble, TakeToken, AnswerToken, memory, history
<1>4. CASE MainQueue
  BY <1>1, <1>4, QueueOther DEF MainQueue, memory, history
<1>5. CASE WriteMutations
  BY <1>1, <1>5, QueueWriteMutations
<1>6. CASE CredentialDidChange
  BY <1>1, <1>6, QueueCredentialDidChange
<1>7. CASE ResumeStart
  BY <1>1, <1>7, QueueOther DEF ResumeStart, FailStream, history
<1>8. CASE BackoffElapsed \/ HandshakeDone \/ SeeEnd \/ IdleTimeout \/ StreamFails \/ AnswerHandshake
  BY <1>1, <1>8, QueueOther
     DEF BackoffElapsed, HandshakeDone, SeeEnd, IdleTimeout, StreamFails, FailStream, AnswerHandshake,
         OnWorker, history, credentials
<1>9. CASE ReceiveResponse \/ RejectFirst
  BY <1>1, <1>9, QueueFirstGoes
<1>10. CASE Apply \/ Refuse
  BY <1>1, <1>10, QueueServer
<1>11. CASE Relaunch \/ RelaunchAfterTelling
  BY <1>1, <1>11, QueueStart
<1>12. CASE UNCHANGED vars
  BY <1>1, <1>12, QueueOther DEF vars, credentials, memory, history
<1> QED BY <1>2, <1>3, <1>4, <1>5, <1>6, <1>7, <1>8, <1>9, <1>10, <1>11, <1>12 DEF Next, Worker

LEMMA QueueInvariant == Spec => [](AnswersInv /\ QueueInv)
<1>1. Init => AnswersInv /\ QueueInv
  BY AnswersInit, QueueInit
<1>2. AnswersInv /\ QueueInv /\ [Next]_vars => (AnswersInv /\ QueueInv)'
  BY AnswersNext, QueueNext
<1> QED BY <1>1, <1>2, PTL DEF Spec

-----------------------------------------------------------------------------
(* The log of the server, against the queue                                  *)

\* The last place of an element of a sequence.
LastIn(seq, n) == Max({i \in DOMAIN seq : seq[i] = n})

\* An answer on its way is of a write that was applied, after every older one
\* of its account; one that ended the RPC is of a write that was refused.
AnswersLogged ==
  /\ \A i \in 1..Len(call.replies) :
       /\ call.replies[i].n \in ToSet(log)
       /\ \A n \in ToSet(log) :
            n < call.replies[i].n /\ made[n] = user
              => LastIn(log, n) < LastIn(log, call.replies[i].n)
  /\ \A i \in 1..Len(call.refusing) : call.refusing[i].n \in refused

\* Nobody waits any more for what was told.
ToldInv == ToldTrue /\ \A t \in told, w \in waiting : t.n # w.n

\* What is behind a write that was applied leaves the queue after it.
OlderSettled ==
  \A m \in ToSet(log), r \in rows : r.by = made[m] /\ r.n < m => Stored(m) \/ m \in refused

NewerSettled ==
  \A n, m \in ToSet(log) :
    n < m /\ made[n] = made[m] /\ LastIn(log, m) < LastIn(log, n) => Stored(m) \/ m \in refused

LogInv == log \in Seq(Nat) /\ AnswersLogged /\ ToldInv /\ OlderSettled /\ NewerSettled

LEMMA LastInType ==
  ASSUME NEW S, NEW seq \in Seq(S), NEW n \in ToSet(seq)
  PROVE  /\ LastIn(seq, n) \in 1..Len(seq) /\ seq[LastIn(seq, n)] = n
         /\ \A i \in 1..Len(seq) : seq[i] = n => i <= LastIn(seq, n)
<1> DEFINE I == {i \in DOMAIN seq : seq[i] = n}
<1>1. DOMAIN seq = 1..Len(seq) /\ Len(seq) \in Nat
  OBVIOUS
<1>2. I \subseteq 1..Len(seq) /\ I \subseteq Int /\ I # {}
  BY <1>1 DEF ToSet
<1>3. IsFiniteSet(I)
  <2>1. IsFiniteSet(1..Len(seq))
    BY <1>1, FS_Interval
  <2> QED BY <1>2, <2>1, FS_Subset
<1> HIDE DEF I
<1>4. Max(I) \in I /\ \A x \in I : x <= Max(I)
  BY <1>2, <1>3, MaxIsLargest
<1> QED BY <1>1, <1>4 DEF LastIn, I

LEMMA LastInAppend ==
  ASSUME NEW S, NEW seq \in Seq(S), NEW n \in S
  PROVE  /\ LastIn(Append(seq, n), n) = Len(seq) + 1
         /\ \A m \in ToSet(seq) : m # n => LastIn(Append(seq, n), m) = LastIn(seq, m)
         /\ ToSet(Append(seq, n)) = ToSet(seq) \union {n}
<1> DEFINE long == Append(seq, n)
<1>1. /\ long \in Seq(S) /\ Len(long) = Len(seq) + 1 /\ long[Len(seq) + 1] = n
      /\ \A i \in 1..Len(seq) : long[i] = seq[i]
      /\ DOMAIN long = 1..(Len(seq) + 1) /\ DOMAIN seq = 1..Len(seq) /\ Len(seq) \in Nat
  OBVIOUS
<1> HIDE DEF long
<1>2. ToSet(long) = ToSet(seq) \union {n}
  <2>1. \A i \in 1..(Len(seq) + 1) : i \in 1..Len(seq) \/ i = Len(seq) + 1
    BY <1>1
  <2>2. 1..Len(seq) \subseteq 1..(Len(seq) + 1) /\ Len(seq) + 1 \in 1..(Len(seq) + 1)
    BY <1>1
  <2> QED BY <1>1, <2>1, <2>2 DEF ToSet
<1>3. LastIn(long, n) = Len(seq) + 1
  <2>1. /\ LastIn(long, n) \in 1..Len(long)
        /\ \A i \in 1..Len(long) : long[i] = n => i <= LastIn(long, n)
    BY <1>1, <1>2, LastInType
  <2> QED BY <1>1, <2>1
<1>4. ASSUME NEW m \in ToSet(seq), m # n PROVE LastIn(long, m) = LastIn(seq, m)
  <2>1. {i \in DOMAIN long : long[i] = m} = {i \in DOMAIN seq : seq[i] = m}
    BY <1>1, <1>4
  <2> QED BY <2>1 DEF LastIn
<1> QED BY <1>2, <1>3, <1>4 DEF long

\* A step that takes nothing from the queue and adds nothing to the log.
LEMMA LogRests ==
  ASSUME LogInv, UNCHANGED <<made, log, refused, told, rows>>, waiting' \subseteq waiting,
         \/ call'.replies = call.replies /\ user' = user
         \/ call'.replies = <<>>,
         call'.refusing = call.refusing \/ call'.refusing = <<>>
  PROVE  LogInv'
<1>1. AnswersLogged'
  <2>1. CASE call'.replies = <<>>
    BY <2>1 DEF LogInv, AnswersLogged
  <2>2. CASE call'.replies = call.replies /\ user' = user
    BY <2>2 DEF LogInv, AnswersLogged
  <2> QED BY <2>1, <2>2
<1>2. ToldInv' /\ OlderSettled' /\ NewerSettled'
  BY DEF LogInv, ToldInv, ToldTrue, OlderSettled, NewerSettled, Stored
<1> QED BY <1>1, <1>2 DEF LogInv

\* Filling the pipeline leaves the answers.
LEMMA FillKeepsAnswers ==
  ASSUME NEW pipe, NEW st, NEW c, NEW stored, NEW ack, NEW u, IsCall(c),
         FillWritePipeline(pipe, st, c, stored, ack, u)
  PROVE  call'.replies = c.replies /\ call'.refusing = c.refusing
<1>1. PICK wire, idle : call' = [c EXCEPT !.wire = wire, !.idle = idle]
  BY DEF FillWritePipeline
<1> QED BY <1>1 DEF IsCall

LEMMA NoAnswers ==
  NoCall.replies = <<>> /\ NoCall.refusing = <<>> /\ IsCall(NoCall)
BY DEF NoCall, IsCall

LEMMA LoggedTouched ==
  ASSUME QueueInv, made \in Seq(User)
  PROVE  /\ \A m \in ToSet(log) : m \in Touched /\ m \in 1..Len(made)
         /\ \A t \in told : t.n \in Touched
         /\ \A r \in rows : r.n \in Touched /\ r.n \in 1..Len(made) /\ made[r.n] = r.by
BY DEF QueueInv, RowsInv, Touched

LEMMA LogMakeWrite ==
  ASSUME LogInv, QueueInv, StreamTypeOK, MakeWrite
  PROVE  LogInv'
<1>1. made \in Seq(User) /\ made' = Append(made, auth)
      /\ UNCHANGED <<disk, memory, log, refused, told>>
  BY DEF MakeWrite, StreamTypeOK
<1>2. UNCHANGED <<rows, waiting, call, user>>
  BY <1>1 DEF disk, memory
<1>3. \A m \in ToSet(log) : made'[m] = made[m]
  BY <1>1, LoggedTouched
<1>4. AnswersLogged'
  BY <1>1, <1>2, <1>3 DEF LogInv, AnswersLogged
<1>5. ToldInv'
  BY <1>1, <1>2 DEF LogInv, ToldInv, ToldTrue
<1>6. OlderSettled' /\ NewerSettled'
  BY <1>1, <1>2, <1>3 DEF LogInv, OlderSettled, NewerSettled, Stored
<1> QED BY <1>1, <1>4, <1>5, <1>6 DEF LogInv

LEMMA LogWriteMutations ==
  ASSUME LogInv, QueueInv, StreamTypeOK, PipelineInv, WriteMutations
  PROVE  LogInv'
<1> DEFINE n == Head(worker).n
           row == [by |-> user, id |-> nextID, n |-> n]
<1>1. /\ worker # <<>> /\ Head(worker).kind = "write"
      /\ rows' = rows \union {row} /\ waiting' \subseteq waiting \union {row}
      /\ FillWritePipeline(pipeline, state, call, rows', acked, user)
      /\ UNCHANGED <<user, made, log, refused, told>>
  BY DEF WriteMutations, NextBlock, history
<1>2. worker \in Seq(WorkerBlock) /\ made \in Seq(User) /\ IsCall(call)
  BY DEF StreamTypeOK, CredentialsTypeOK, PipelineInv, Fits
<1>3. n \in Nat /\ \A m \in Touched : m \in Nat /\ m < n
  <2>1. n \in 1..Len(made) /\ \A m \in Touched : m < n
    BY <1>1, <1>2, TakenWrite
  <2> QED BY <2>1 DEF QueueInv
<1>4. row.n = n
  OBVIOUS
<1>5. call'.replies = call.replies /\ call'.refusing = call.refusing
  BY <1>1, <1>2, FillKeepsAnswers
<1> HIDE DEF row, n
<1>6. AnswersLogged'
  BY <1>1, <1>5 DEF LogInv, AnswersLogged
<1>7. \A m \in ToSet(log) : m < n /\ m \in Nat
  BY <1>2, <1>3, LoggedTouched
<1>8. ToldInv'
  <2>1. \A t \in told : t.n # row.n
    BY <1>2, <1>3, <1>4, LoggedTouched
  <2> QED BY <1>1, <2>1 DEF LogInv, ToldInv, ToldTrue
<1>9. \A m : Stored(m) => Stored(m)'
  BY <1>1 DEF Stored
<1>10. OlderSettled'
  <2> SUFFICES ASSUME NEW m \in ToSet(log), NEW r \in rows', r.by = made[m], r.n < m
               PROVE  Stored(m)' \/ m \in refused
    BY <1>1 DEF OlderSettled
  <2>1. r # row
    BY <1>3, <1>4, <1>7
  <2>2. r \in rows
    BY <1>1, <2>1
  <2> QED BY <1>9, <2>2 DEF LogInv, OlderSettled
<1>11. NewerSettled'
  BY <1>1, <1>9 DEF LogInv, NewerSettled
<1> QED BY <1>1, <1>6, <1>8, <1>10, <1>11 DEF LogInv

\* The server takes the first batch of the wire: those it has answered are
\* before it in the pipeline.
LEMMA NextOnWire ==
  ASSUME QueueInv, PipelineInv, call.refusing = <<>>, call.wire # <<>>
  PROVE  /\ Head(call.wire) \in Mine /\ Head(call.wire) \in rows /\ Head(call.wire).by = user
         /\ call.replies \in Seq(Mine) /\ Len(call.replies) + 1 \in 1..Len(pipeline)
         /\ pipeline[Len(call.replies) + 1] = Head(call.wire)
         /\ \A i \in 1..Len(call.replies) : call.replies[i].n < Head(call.wire).n
<1> DEFINE w == call.wire
           k == Len(call.replies) + 1
<1>1. pipeline \in Seq(Mine) /\ InPlace(pipeline, Mine)
  BY DEF QueueInv, Filled, InPlace
<1>2. /\ w \in Seq(Mine) /\ call.replies \in Seq(Mine)
      /\ \A i \in 1..Len(call.replies) : i \in 1..Len(pipeline) /\ pipeline[i] = call.replies[i]
      /\ \A i \in 1..Len(w) : /\ Len(call.replies) + i \in 1..Len(pipeline)
                              /\ pipeline[Len(call.replies) + i] = w[i]
  BY <1>1, CallHoldsMine
<1>3. 1 \in 1..Len(w) /\ w[1] = Head(w) /\ Head(w) \in Mine
  BY <1>2
<1>4. k \in 1..Len(pipeline) /\ pipeline[k] = Head(w) /\ k \in Nat
  BY <1>2, <1>3
<1>5. Keyed(Mine) /\ \A r, s \in Mine : r.n < s.n <=> r.id < s.id
  BY RowsAreKeyed DEF QueueInv, RowsInv, Mine
<1>6. ASSUME NEW i \in 1..Len(call.replies) PROVE call.replies[i].n < Head(w).n
  <2>1. i \in 1..Len(pipeline) /\ pipeline[i] = call.replies[i] /\ pipeline[i] \in Mine /\ i < k
    BY <1>1, <1>2
  <2>2. Place(Mine, pipeline[i]) = i - 1 /\ Place(Mine, pipeline[k]) = k - 1
    BY <1>1, <1>4, <2>1 DEF InPlace
  <2>3. Place(Mine, pipeline[i]) < Place(Mine, pipeline[k]) /\ pipeline[k] \in Mine
    BY <1>3, <1>4, <2>1, <2>2
  <2>4. pipeline[i].id < pipeline[k].id
    BY <1>5, <2>1, <2>3, PlaceOrders
  <2> QED BY <1>4, <1>5, <2>1, <2>3, <2>4
<1>7. Head(w) \in rows /\ Head(w).by = user
  BY <1>3 DEF Mine, OfUser
<1> QED BY <1>2, <1>3, <1>4, <1>6, <1>7 DEF w, k

LEMMA LogApply ==
  ASSUME LogInv, QueueInv, StreamTypeOK, PipelineInv, Apply
  PROVE  LogInv'
<1> DEFINE b == Head(call.wire)
           k == Len(call.replies) + 1
<1>1. /\ call.wire # <<>> /\ call.refusing = <<>> /\ log' = Append(log, b.n)
      /\ call' = [call EXCEPT !.wire = Tail(call.wire), !.replies = Append(call.replies, b)]
      /\ UNCHANGED <<disk, user, waiting, made, refused, told>>
  BY DEF Apply, Serving
<1>2. IsCall(call) /\ made \in Seq(User)
  BY DEF PipelineInv, Fits, StreamTypeOK
<1>3. /\ b \in rows /\ b.by = user /\ call.replies \in Seq(Mine) /\ b \in Mine
      /\ \A i \in 1..Len(call.replies) : call.replies[i].n < b.n
  BY <1>1, NextOnWire
<1>4. b.n \in 1..Len(made) /\ made[b.n] = user /\ b.n \in Nat
  BY <1>2, <1>3, LoggedTouched
<1>5. call'.replies = Append(call.replies, b) /\ call'.refusing = <<>>
  BY <1>1, <1>2 DEF IsCall
<1> DEFINE n == b.n
<1>6. log \in Seq(Nat) /\ log' = Append(log, n) /\ n \in Nat
  BY <1>1, <1>4 DEF LogInv
<1>7. /\ log' \in Seq(Nat) /\ ToSet(log') = ToSet(log) \union {n} /\ n \in ToSet(log')
      /\ LastIn(log', n) = Len(log) + 1 /\ Len(log) \in Nat
      /\ \A m \in ToSet(log) : m # n => LastIn(log', m) = LastIn(log, m)
      /\ \A m \in ToSet(log) : LastIn(log, m) \in 1..Len(log)
  <2> HIDE DEF n
  <2>1. /\ LastIn(Append(log, n), n) = Len(log) + 1
        /\ \A m \in ToSet(log) : m # n => LastIn(Append(log, n), m) = LastIn(log, m)
        /\ ToSet(Append(log, n)) = ToSet(log) \union {n}
    BY <1>6, LastInAppend
  <2>2. \A m \in ToSet(log) : LastIn(log, m) \in 1..Len(log)
    BY <1>6, LastInType
  <2> QED BY <1>6, <2>1, <2>2
<1>8. Stored(n) /\ UNCHANGED rows /\ \A m : Stored(m)' <=> Stored(m)
  BY <1>1, <1>3 DEF Stored, disk
<1>9. AnswersLogged'
  <2>1. call'.replies = Append(call.replies, b) /\ Len(call'.replies) = k /\ call'.replies[k] = b
        /\ Len(call.replies) \in Nat /\ \A i \in 1..Len(call.replies) : call'.replies[i] = call.replies[i]
    BY <1>3, <1>5
  <2>2. ASSUME NEW i \in 1..Len(call.replies), NEW x \in ToSet(log'),
               x < call.replies[i].n, made[x] = user
        PROVE  LastIn(log', x) < LastIn(log', call.replies[i].n)
    <3>1. /\ call.replies[i].n < n /\ call.replies[i].n \in ToSet(log)
          /\ call.replies[i].n \in Nat
      BY <1>2, <1>3, LoggedTouched DEF LogInv, AnswersLogged
    <3>2. x # n /\ call.replies[i].n # n
      BY <1>6, <2>2, <3>1
    <3>3. x \in ToSet(log)
      BY <1>7, <3>2
    <3>4. LastIn(log, x) < LastIn(log, call.replies[i].n)
      BY <2>2, <3>3 DEF LogInv, AnswersLogged
    <3> QED BY <1>7, <3>1, <3>2, <3>3, <3>4
  <2>3. ASSUME NEW x \in ToSet(log'), x < n PROVE LastIn(log', x) < LastIn(log', n)
    <3>1. x # n
      BY <1>6, <2>3
    <3>2. x \in ToSet(log)
      BY <1>7, <3>1
    <3> QED BY <1>7, <3>1, <3>2
  <2>4. ASSUME NEW i \in 1..k
        PROVE  /\ call'.replies[i].n \in ToSet(log')
               /\ \A x \in ToSet(log') : x < call'.replies[i].n /\ made'[x] = user'
                                           => LastIn(log', x) < LastIn(log', call'.replies[i].n)
    <3>1. CASE i \in 1..Len(call.replies)
      <4>1. call'.replies[i] = call.replies[i] /\ call.replies[i].n \in ToSet(log)
        BY <2>1, <3>1 DEF LogInv, AnswersLogged
      <4> QED BY <1>1, <1>7, <2>2, <3>1, <4>1
    <3>2. CASE i = k
      <4>1. call'.replies[i].n = n
        BY <2>1, <3>2
      <4> QED BY <1>7, <2>3, <4>1
    <3> QED BY <2>1, <3>1, <3>2
  <2> HIDE DEF k
  <2> QED BY <1>5, <2>1, <2>4 DEF AnswersLogged
<1>10. ToldInv'
  BY <1>1, <1>7 DEF LogInv, ToldInv, ToldTrue
<1>11. OlderSettled'
  BY <1>1, <1>7, <1>8 DEF LogInv, OlderSettled
<1>12. NewerSettled'
  <2> SUFFICES ASSUME NEW x \in ToSet(log'), NEW m \in ToSet(log'),
                      x < m, made[x] = made[m], LastIn(log', m) < LastIn(log', x)
               PROVE  Stored(m) \/ m \in refused
    BY <1>1, <1>8 DEF NewerSettled
  <2>1. CASE m = n
    BY <1>8, <2>1
  <2>2. CASE m # n /\ x = n
    <3>1. m \in ToSet(log) /\ b.by = made[m] /\ b.n < m
      BY <1>3, <1>4, <1>7, <2>2
    <3> QED BY <1>3, <3>1 DEF LogInv, OlderSettled
  <2>3. CASE m # n /\ x # n
    <3>1. m \in ToSet(log) /\ x \in ToSet(log) /\ LastIn(log, m) < LastIn(log, x)
      BY <1>7, <2>3
    <3> QED BY <3>1 DEF LogInv, NewerSettled
  <2> QED BY <2>1, <2>2, <2>3
<1> QED BY <1>7, <1>9, <1>10, <1>11, <1>12 DEF LogInv

LEMMA LogRefuse ==
  ASSUME LogInv, QueueInv, PipelineInv, Refuse
  PROVE  LogInv'
<1> DEFINE b == Head(call.wire)
<1>1. /\ refused' = refused \union {b.n}
      /\ call' = [call EXCEPT !.wire = Tail(call.wire), !.refusing = <<b>>]
      /\ UNCHANGED <<disk, user, waiting, made, log, told>>
  BY DEF Refuse
<1>2. IsCall(call)
  BY DEF PipelineInv, Fits
<1>3. call'.replies = call.replies /\ call'.refusing = <<b>>
  BY <1>1, <1>2 DEF IsCall
<1> HIDE DEF b
<1>4. AnswersLogged'
  <2>1. \A i \in 1..Len(call'.refusing) : call'.refusing[i].n \in refused'
    BY <1>1, <1>3
  <2> QED BY <1>1, <1>3, <2>1 DEF LogInv, AnswersLogged
<1>5. ToldInv' /\ OlderSettled' /\ NewerSettled'
  BY <1>1 DEF LogInv, ToldInv, ToldTrue, OlderSettled, NewerSettled, Stored, disk
<1> QED BY <1>1, <1>4, <1>5 DEF LogInv

\* The first batch of the pipeline is the one whose answer, or refusal, is next.
LEMMA FirstIsAnswered ==
  ASSUME QueueInv, PipelineInv
  PROVE  /\ call.replies # <<>> => /\ pipeline # <<>> /\ 1 \in 1..Len(call.replies)
                                   /\ call.replies[1] = Head(pipeline)
         /\ call.ending = "now" => /\ pipeline # <<>> /\ 1 \in 1..Len(call.refusing)
                                   /\ call.refusing[1] = Head(pipeline)
<1>1. pipeline \in Seq(Mine)
  BY DEF QueueInv, Filled, InPlace
<1>2. /\ call.replies \in Seq(Mine) /\ call.refusing \in Seq(Mine)
      /\ \A i \in 1..Len(call.replies) : i \in 1..Len(pipeline) /\ pipeline[i] = call.replies[i]
      /\ call.replies = <<>> =>
           \A i \in 1..Len(call.refusing) : i \in 1..Len(pipeline) /\ pipeline[i] = call.refusing[i]
  BY <1>1, CallHoldsMine
<1>3. call.ending = "now" => call.replies = <<>> /\ call.refusing # <<>>
  BY DEF PipelineInv, Fits
<1>4. \A s \in Seq(Mine) : s # <<>> => 1 \in 1..Len(s)
  OBVIOUS
<1>5. 1 \in 1..Len(pipeline) => pipeline # <<>> /\ Head(pipeline) = pipeline[1]
  BY <1>1
<1> QED BY <1>2, <1>3, <1>4, <1>5

\* The completion of the first batch is called, if somebody waits for it.
LEMMA ToldFirst ==
  ASSUME LogInv, QueueInv, pipeline # <<>>, NEW ok \in BOOLEAN,
         IF ok THEN Head(pipeline).n \in ToSet(log) ELSE Head(pipeline).n \in refused,
         told' = told \union Told(Head(pipeline), ok), UNCHANGED <<log, refused>>,
         waiting' \subseteq waiting \ {Head(pipeline)}
  PROVE  ToldInv'
<1> DEFINE p == Head(pipeline)
<1>1. p \in rows /\ {w \in waiting : w.by = user /\ w.id = p.id} = waiting \intersect {p}
  BY FirstBatch
<1>2. \A t \in Told(p, ok) : t = [n |-> p.n, ok |-> ok] /\ p \in waiting
  BY <1>1 DEF Told
<1>3. \A t \in Told(p, ok) : t.n = p.n /\ t.ok = ok /\ p \in waiting
  BY <1>2
<1>4. \A w \in waiting' : w.n # p.n
  BY <1>1 DEF QueueInv, RowsInv, InOrder
<1> HIDE DEF p
<1>5. told' = told \union Told(p, ok)
  BY DEF p
<1>6. \A t \in told' : IF t.ok THEN t.n \in ToSet(log) ELSE t.n \in refused
  <2>1. \A t \in Told(p, ok) : IF t.ok THEN t.n \in ToSet(log) ELSE t.n \in refused
    BY <1>3 DEF p
  <2> QED BY <1>5, <2>1 DEF LogInv, ToldInv, ToldTrue
<1>7. ASSUME NEW t \in told', NEW s \in told', t.n = s.n PROVE t = s
  <2>1. CASE t \in told /\ s \in told
    BY <1>7, <2>1 DEF LogInv, ToldInv, ToldTrue
  <2>2. CASE t \in Told(p, ok) /\ s \in Told(p, ok)
    BY <1>2, <2>2
  <2>3. ASSUME NEW x \in told, NEW y \in Told(p, ok) PROVE x.n # y.n
    BY <1>3 DEF LogInv, ToldInv
  <2> QED BY <1>5, <1>7, <2>1, <2>2, <2>3
<1>8. \A t \in told', w \in waiting' : t.n # w.n
  BY <1>3, <1>4, <1>5 DEF LogInv, ToldInv
<1> QED BY <1>6, <1>7, <1>8 DEF ToldInv, ToldTrue

LEMMA LogFirstGoes ==
  ASSUME LogInv, QueueInv, StreamTypeOK, PipelineInv, ReceiveResponse \/ RejectFirst
  PROVE  LogInv'
<1> DEFINE p == Head(pipeline)
<1>1. /\ pipeline # <<>> /\ UNCHANGED <<user, made, log, refused>>
      /\ rows' = Remaining /\ waiting' = waiting \ {p}
      /\ \E ok \in BOOLEAN : /\ told' = told \union Told(p, ok)
                             /\ IF ok THEN p.n \in ToSet(log) ELSE p.n \in refused
      /\ \/ /\ call'.replies = Tail(call.replies) /\ call'.refusing = call.refusing
            /\ call.replies # <<>>
         \/ call'.replies = <<>> /\ call'.refusing = <<>> /\ p.n \in refused
  <2>1. CASE ReceiveResponse
    <3>1. /\ call.replies # <<>> /\ told' = told \union Told(p, TRUE)
          /\ waiting' = StillWaiting(p) /\ rows' = {r \in rows : r.by # user \/ r.id # p.id}
          /\ FillWritePipeline(Tail(pipeline), state, AfterRead, rows', acked', user)
          /\ UNCHANGED <<user, made, log, refused>>
      BY <2>1 DEF ReceiveResponse
    <3>2. pipeline # <<>> /\ 1 \in 1..Len(call.replies) /\ call.replies[1] = p
      BY <3>1, FirstIsAnswered
    <3>3. rows' = Remaining /\ waiting' = waiting \ {p}
      BY <3>1, <3>2, FirstBatch
    <3>4. p.n \in ToSet(log)
      BY <3>2 DEF LogInv, AnswersLogged
    <3>5. IsCall(AfterRead) /\ AfterRead.replies = Tail(call.replies) /\ AfterRead.refusing = call.refusing
      <4>1. IsCall(call)
        BY DEF PipelineInv, Fits
      <4>2. AfterRead = [call EXCEPT !.replies = Tail(call.replies),
                                     !.ending = IF call.ending = "read" THEN "now" ELSE call.ending]
        BY DEF AfterRead
      <4> QED BY <4>1, <4>2 DEF IsCall
    <3>6. call'.replies = Tail(call.replies) /\ call'.refusing = call.refusing
      BY <3>1, <3>5, FillKeepsAnswers
    <3> QED BY <3>1, <3>2, <3>3, <3>4, <3>6
  <2>2. CASE RejectFirst
    <3>1. /\ call.ending = "now" /\ told' = told \union Told(p, FALSE)
          /\ waiting' = StillWaiting(p) /\ rows' = {r \in rows : r.by # user \/ r.id # p.id}
          /\ FillWritePipeline(Tail(pipeline), "Initial", NoCall, rows', acked, user)
          /\ UNCHANGED <<user, made, log, refused>>
      BY <2>2 DEF RejectFirst
    <3>2. pipeline # <<>> /\ 1 \in 1..Len(call.refusing) /\ call.refusing[1] = p
      BY <3>1, FirstIsAnswered
    <3>3. rows' = Remaining /\ waiting' = waiting \ {p}
      BY <3>1, <3>2, FirstBatch
    <3>4. p.n \in refused
      BY <3>2 DEF LogInv, AnswersLogged
    <3>5. call'.replies = <<>> /\ call'.refusing = <<>>
      BY <3>1, NoAnswers, FillKeepsAnswers
    <3> QED BY <3>1, <3>2, <3>3, <3>4, <3>5
  <2> QED BY <2>1, <2>2
<1>2. /\ p \in rows /\ p.by = user /\ \A r \in Mine \ {p} : r.n > p.n
      /\ rows' = rows \ {p} /\ p.n \in Nat /\ made[p.n] = user
  <2>1. made \in Seq(User)
    BY DEF StreamTypeOK
  <2> QED BY <1>1, <2>1, FirstBatch, LoggedTouched DEF Remaining
<1>3. call.replies # <<>> => 1 \in 1..Len(call.replies) /\ call.replies[1] = p
                             /\ call.replies \in Seq(Mine)
  <2>1. pipeline \in Seq(Mine)
    BY DEF QueueInv, Filled, InPlace
  <2> QED BY <2>1, FirstIsAnswered, CallHoldsMine
<1>4. ToldInv'
  BY <1>1, ToldFirst
<1>5. \A m : Stored(m) => Stored(m)' \/ m = p.n
  BY <1>2 DEF Stored
<1> HIDE DEF p
<1>6. AnswersLogged'
  <2>1. CASE call'.replies = <<>> /\ call'.refusing = <<>>
    BY <2>1 DEF AnswersLogged
  <2>2. CASE /\ call'.replies = Tail(call.replies) /\ call'.refusing = call.refusing
             /\ call.replies # <<>>
    <3>1. \A i \in 1..Len(Tail(call.replies)) :
            i + 1 \in 1..Len(call.replies) /\ Tail(call.replies)[i] = call.replies[i + 1]
      BY <1>3, <2>2
    <3>2. ASSUME NEW i \in 1..Len(call'.replies)
          PROVE  /\ call'.replies[i].n \in ToSet(log')
                 /\ \A n \in ToSet(log') : n < call'.replies[i].n /\ made'[n] = user'
                                             => LastIn(log', n) < LastIn(log', call'.replies[i].n)
      <4> DEFINE k == i + 1
      <4>1. k \in 1..Len(call.replies) /\ call'.replies[i] = call.replies[k]
        BY <2>2, <3>1
      <4> HIDE DEF k
      <4> QED BY <1>1, <4>1 DEF LogInv, AnswersLogged
    <3> QED BY <1>1, <2>2, <3>2 DEF LogInv, AnswersLogged
  <2> QED BY <1>1, <2>1, <2>2
<1>7. OlderSettled'
  <2> SUFFICES ASSUME NEW m \in ToSet(log), NEW r \in rows', r.by = made[m], r.n < m
               PROVE  Stored(m)' \/ m \in refused
    BY <1>1 DEF OlderSettled
  <2>1. Stored(m) \/ m \in refused
    BY <1>2 DEF LogInv, OlderSettled
  <2>2. m # p.n
    <3> SUFFICES ASSUME m = p.n PROVE FALSE
      OBVIOUS
    <3>1. r \in Mine \ {p}
      BY <1>2 DEF Mine, OfUser
    <3>2. r.n > p.n /\ r.n < p.n /\ r.n \in Nat
      BY <1>2, <3>1 DEF QueueInv, RowsInv, InOrder, Row
    <3> QED BY <1>2, <3>2
  <2> QED BY <1>5, <2>1, <2>2
<1>8. NewerSettled'
  <2> SUFFICES ASSUME NEW n \in ToSet(log), NEW m \in ToSet(log),
                      n < m, made[n] = made[m], LastIn(log, m) < LastIn(log, n)
               PROVE  Stored(m)' \/ m \in refused
    BY <1>1 DEF NewerSettled
  <2>1. Stored(m) \/ m \in refused
    BY DEF LogInv, NewerSettled
  <2>2. CASE m = p.n /\ call.replies # <<>>
    <3>1. n < call.replies[1].n /\ made[n] = user /\ 1 \in 1..Len(call.replies)
      BY <1>2, <1>3, <2>2
    <3>2. LastIn(log, n) < LastIn(log, m)
      BY <1>3, <2>2, <3>1 DEF LogInv, AnswersLogged
    <3>3. LastIn(log, n) \in Int /\ LastIn(log, m) \in Int
      <4>1. log \in Seq(Nat)
        BY DEF LogInv
      <4>2. LastIn(log, n) \in 1..Len(log) /\ LastIn(log, m) \in 1..Len(log)
        BY <4>1, LastInType
      <4> QED BY <4>2
    <3> QED BY <3>2, <3>3
  <2> QED BY <1>1, <1>5, <2>1, <2>2
<1> QED BY <1>1, <1>4, <1>6, <1>7, <1>8 DEF LogInv

LEMMA LogStart ==
  ASSUME LogInv, QueueInv, PipelineInv, Relaunch \/ RelaunchAfterTelling
  PROVE  LogInv'
<1>1. /\ call'.replies = <<>> /\ call'.refusing = <<>> /\ waiting' = {}
      /\ UNCHANGED <<rows, made, log, refused>>
  BY NoAnswers DEF Relaunch, RelaunchAfterTelling, Initialize
<1>2. CASE Relaunch
  <2>1. UNCHANGED told /\ waiting' \subseteq waiting
    BY <1>1, <1>2 DEF Relaunch
  <2> QED BY <1>1, <2>1, LogRests
<1>3. CASE RelaunchAfterTelling
  <2>1. call.replies # <<>> /\ told' = told \union Told(Head(pipeline), TRUE)
    BY <1>3 DEF RelaunchAfterTelling
  <2>2. pipeline # <<>> /\ 1 \in 1..Len(call.replies) /\ call.replies[1] = Head(pipeline)
    BY <2>1, FirstIsAnswered
  <2>3. Head(pipeline).n \in ToSet(log)
    BY <2>2 DEF LogInv, AnswersLogged
  <2>4. ToldInv'
    <3>1. waiting' \subseteq waiting \ {Head(pipeline)}
      BY <1>1
    <3> QED BY <1>1, <2>1, <2>2, <2>3, <3>1, ToldFirst
  <2>5. AnswersLogged'
    BY <1>1 DEF AnswersLogged
  <2>6. OlderSettled' /\ NewerSettled' /\ log' \in Seq(Nat)
    BY <1>1 DEF LogInv, OlderSettled, NewerSettled, Stored
  <2> QED BY <2>4, <2>5, <2>6 DEF LogInv
<1> QED BY <1>2, <1>3

LEMMA LogInit == Init => LogInv
<1> SUFFICES ASSUME Init PROVE LogInv
  OBVIOUS
<1>1. log = <<>> /\ told = {} /\ rows = {} /\ call.replies = <<>> /\ call.refusing = <<>>
  BY NoAnswers DEF Init
<1> QED BY <1>1 DEF LogInv, AnswersLogged, ToldInv, ToldTrue, OlderSettled, NewerSettled, ToSet

LEMMA LogNext == AnswersInv /\ QueueInv /\ LogInv /\ [Next]_vars => LogInv'
<1> SUFFICES ASSUME AnswersInv, QueueInv, LogInv, [Next]_vars PROVE LogInv'
  OBVIOUS
<1>1. PipelineInv /\ StreamTypeOK /\ IsCall(call)
  BY DEF AnswersInv, TokenInv, PipelineInv, Fits
<1>2. CASE MakeWrite
  BY <1>1, <1>2, LogMakeWrite
<1>3. CASE AccountTrouble \/ TakeToken \/ AnswerToken \/ MainQueue
  BY <1>3, LogRests DEF AccountTrouble, TakeToken, AnswerToken, MainQueue, disk, memory, history
<1>4. CASE WriteMutations
  BY <1>1, <1>4, LogWriteMutations
<1>5. CASE CredentialDidChange
  <2> DEFINE st == IF Stops(state) THEN "Initial" ELSE state
             c == IF Stops(state) THEN NoCall ELSE call
  <2>1. c.replies = <<>> /\ c.refusing = <<>> /\ IsCall(c)
    BY <1>1, NoAnswers DEF PipelineInv, Fits, Stops, Started
  <2>2. FillWritePipeline(PipelineAfterStop, st, c, rows, acked', user')
    BY <1>5 DEF CredentialDidChange
  <2> HIDE DEF st, c
  <2>3. call'.replies = <<>> /\ call'.refusing = <<>>
    BY <2>1, <2>2, FillKeepsAnswers
  <2> QED BY <1>5, <2>3, LogRests DEF CredentialDidChange, history
<1>6. CASE ResumeStart \/ IdleTimeout \/ StreamFails
  <2>1. UNCHANGED <<made, log, refused, told, rows, user>> /\ waiting' \subseteq waiting
    BY <1>6 DEF ResumeStart, IdleTimeout, StreamFails, history, disk
  <2>2. UNCHANGED call \/ (call'.replies = <<>> /\ call'.refusing = <<>>)
    <3>1. NoCall.replies = <<>> /\ NoCall.refusing = <<>>
      BY NoAnswers
    <3>2. [NoCall EXCEPT !.bearer = Head(worker).user, !.hello = "asked"].replies = <<>>
          /\ [NoCall EXCEPT !.bearer = Head(worker).user, !.hello = "asked"].refusing = <<>>
      BY DEF NoCall
    <3> QED BY <1>6, <3>1, <3>2 DEF ResumeStart, IdleTimeout, StreamFails, FailStream
  <2> QED BY <2>1, <2>2, LogRests
<1>7. CASE BackoffElapsed \/ HandshakeDone \/ SeeEnd \/ AnswerHandshake
  <2>1. UNCHANGED <<made, log, refused, told, rows, user>> /\ waiting' \subseteq waiting
    BY <1>7 DEF BackoffElapsed, HandshakeDone, SeeEnd, AnswerHandshake, history, disk
  <2>2. call'.replies = call.replies /\ call'.refusing = call.refusing
    BY <1>1, <1>7 DEF BackoffElapsed, HandshakeDone, SeeEnd, AnswerHandshake, IsCall
  <2> QED BY <2>1, <2>2, LogRests
<1>8. CASE ReceiveResponse \/ RejectFirst
  BY <1>1, <1>8, LogFirstGoes
<1>9. CASE Apply \/ Refuse
  BY <1>1, <1>9, LogApply, LogRefuse
<1>10. CASE Relaunch \/ RelaunchAfterTelling
  BY <1>1, <1>10, LogStart
<1>11. CASE UNCHANGED vars
  BY <1>11, LogRests DEF vars, disk, memory, history
<1> QED BY <1>2, <1>3, <1>4, <1>5, <1>6, <1>7, <1>8, <1>9, <1>10, <1>11 DEF Next, Worker

WritesInv == AnswersInv /\ QueueInv /\ LogInv

LEMMA WritesInvariant == Spec => []WritesInv
<1>1. Init => WritesInv
  BY AnswersInit, QueueInit, LogInit DEF WritesInv
<1>2. WritesInv /\ [Next]_vars => WritesInv'
  BY AnswersNext, QueueNext, LogNext DEF WritesInv
<1> QED BY <1>1, <1>2, PTL DEF Spec

\* Every variable keeps its type: the batches that are refilled, answered and
\* refused are batches of the queue, whose ids no change of account and no
\* restart lets overlap.
THEOREM TypeCorrect == Spec => []TypeOK
<1>1. ASSUME WritesInv PROVE TypeOK
  <2>1. StreamTypeOK /\ StreamServesItsUser /\ PipelineInv
    BY <1>1 DEF WritesInv, AnswersInv, TokenInv
  <2>2. /\ rows \subseteq Row /\ acked \in [User -> Int] /\ nextID \in Nat /\ waiting \subseteq Row
        /\ pipeline \in Seq(Mine) /\ Mine \subseteq Row /\ Len(pipeline) <= MaxPipeline
    BY <1>1 DEF WritesInv, QueueInv, RowsInv, InOrder, Filled, InPlace, Mine, OfUser
  <2>3. call.replies \in Seq(Mine) /\ call.refusing \in Seq(Mine) /\ call.wire \in Seq(Mine)
    BY <2>1, <2>2, CallHoldsMine DEF QueueInv, WritesInv
  <2>4. /\ pipeline \in Seq(Row) /\ call.replies \in Seq(Row) /\ call.refusing \in Seq(Row)
        /\ call.wire \in Seq(Row)
    BY <2>2, <2>3, SeqWidens
  <2>5. IsCall(call) /\ state \in {"Initial", "Error"} \union Started
    BY <2>1 DEF PipelineInv, Fits, StreamState
  <2>6. call.bearer \in User
    <3>1. CASE state = "Open"
      BY <2>1, <3>1 DEF StreamServesItsUser, StreamTypeOK
    <3>2. CASE state # "Open"
      BY <2>1, <3>2 DEF PipelineInv, Fits, NoCall, User
    <3> QED BY <3>1, <3>2
  <2> QED BY <1>1, <2>1, <2>2, <2>4, <2>5, <2>6 DEF TypeOK, StreamTypeOK, IsCall, WritesInv, QueueInv
<1> QED BY <1>1, WritesInvariant, PTL

\* No batch of the user on disk is skipped, however often the account changes
\* and batch ids are used again: the pipeline is the beginning of the queue of
\* the user, all of it unless it is full, and no batch is taken for an
\* acknowledged one.
THEOREM NoWriteForgottenAlways == Spec => []NoWriteForgotten
<1>1. ASSUME WritesInv PROVE NoWriteForgotten
  <2>1. /\ Keyed(Mine) /\ InPlace(pipeline, Mine) /\ pipeline \in Seq(Mine)
        /\ Len(pipeline) < MaxPipeline => Len(pipeline) = Cardinality(Mine)
    BY <1>1, RowsAreKeyed DEF WritesInv, QueueInv, RowsInv, Mine, Filled, InPlace
  <2>2. ASSUME NEW i \in DOMAIN pipeline PROVE pipeline[i].by = user /\ made[pipeline[i].n] = user
    <3>1. pipeline[i] \in Mine
      BY <2>1
    <3> QED BY <1>1, <3>1 DEF Mine, OfUser, WritesInv, QueueInv, RowsInv
  <2>3. Len(pipeline) < MaxPipeline => ToSet(pipeline) = Mine
    BY <2>1, AllInPlace
  <2>4. pipeline # <<>> => state \in Started
    BY <1>1 DEF WritesInv, AnswersInv, PipelineInv
  <2>5. \A r \in rows : acked[r.by] < r.id /\ (r.by = user => r.id < nextID)
    BY <1>1 DEF WritesInv, QueueInv, RowsInv, InOrder
  <2> QED BY <2>2, <2>3, <2>4, <2>5 DEF NoWriteForgotten, Mine, OfUser
<1> QED BY <1>1, WritesInvariant, PTL

\* The application is told that a write was done only if the server applied it,
\* that it failed only if the server refused it, and never both.
THEOREM ToldTrueAlways == Spec => []ToldTrue
<1>1. WritesInv => ToldTrue
  BY DEF WritesInv, LogInv, ToldInv
<1> QED BY <1>1, WritesInvariant, PTL

\* When the server has applied an older write of an account again over a newer
\* one, the newer one is still in the queue, or was refused.
THEOREM LaterStandsAlways == Spec => []LaterStands
<1>1. WritesInv => LaterStands
  BY DEF WritesInv, LogInv, NewerSettled, LaterStands, LastIn, LastAt
<1> QED BY <1>1, WritesInvariant, PTL

-----------------------------------------------------------------------------
(* The promise of WriteQueues                                                *)

QueueIn(stored, u) == Numbers(InKeyOrder(OfUser(stored, u)))

LEMMA QueueOfIs == \A u : QueueOf(u) = QueueIn(rows, u)
BY DEF QueueOf, QueueIn, OfUser

LEMMA NumbersType ==
  ASSUME NEW S, S \subseteq Row, NEW q \in Seq(S)
  PROVE  /\ Numbers(q) \in Seq(1..MaxWrite) /\ Len(Numbers(q)) = Len(q)
         /\ \A i \in 1..Len(q) : Numbers(q)[i] = q[i].n
<1>1. DOMAIN q = 1..Len(q) /\ Len(q) \in Nat /\ \A i \in 1..Len(q) : q[i].n \in 1..MaxWrite
  BY DEF Row
<1> QED BY <1>1 DEF Numbers

LEMMA NumbersAppend ==
  ASSUME NEW S, S \subseteq Row, NEW q \in Seq(S), NEW r \in S
  PROVE  Numbers(Append(q, r)) = Append(Numbers(q), r.n)
<1>1. Append(q, r) \in Seq(S) /\ r.n \in 1..MaxWrite
  BY DEF Row
<1>2. /\ Numbers(q) \in Seq(1..MaxWrite) /\ Len(Numbers(q)) = Len(q)
      /\ \A i \in 1..Len(q) : Numbers(q)[i] = q[i].n
  BY NumbersType
<1> DEFINE long == Append(q, r)
<1>3. /\ Len(long) = Len(q) + 1 /\ long[Len(q) + 1] = r /\ Len(q) \in Nat /\ long \in Seq(S)
      /\ \A i \in 1..Len(q) : long[i] = q[i]
  BY <1>1
<1> HIDE DEF long
<1>4. /\ Numbers(long) \in Seq(1..MaxWrite) /\ Len(Numbers(long)) = Len(q) + 1
      /\ \A i \in 1..(Len(q) + 1) : Numbers(long)[i] = long[i].n
  BY <1>3, NumbersType
<1> DEFINE a == Append(Numbers(q), r.n)
<1>5. /\ a \in Seq(1..MaxWrite) /\ Len(a) = Len(q) + 1 /\ a[Len(q) + 1] = r.n
      /\ \A i \in 1..Len(q) : a[i] = q[i].n
  BY <1>1, <1>2
<1> HIDE DEF a
<1>6. \A i \in 1..(Len(q) + 1) : Numbers(long)[i] = a[i]
  <2>1. \A i \in 1..(Len(q) + 1) : i \in 1..Len(q) \/ i = Len(q) + 1
    BY <1>3
  <2> QED BY <1>3, <1>4, <1>5, <2>1
<1>7. Numbers(long) = a
  BY <1>4, <1>5, <1>6, SeqEqual
<1> QED BY <1>7 DEF long, a

LEMMA NumbersTail ==
  ASSUME NEW S, S \subseteq Row, NEW q \in Seq(S), q # <<>>
  PROVE  Numbers(Tail(q)) = Tail(Numbers(q))
<1>1. /\ Tail(q) \in Seq(S) /\ Len(Tail(q)) = Len(q) - 1 /\ Len(q) \in Nat /\ Len(q) # 0
      /\ \A i \in 1..(Len(q) - 1) : Tail(q)[i] = q[i + 1]
  OBVIOUS
<1>2. /\ Numbers(q) \in Seq(1..MaxWrite) /\ Len(Numbers(q)) = Len(q)
      /\ \A i \in 1..Len(q) : Numbers(q)[i] = q[i].n
  BY NumbersType
<1>3. /\ Numbers(Tail(q)) \in Seq(1..MaxWrite) /\ Len(Numbers(Tail(q))) = Len(q) - 1
      /\ \A i \in 1..(Len(q) - 1) : Numbers(Tail(q))[i] = Tail(q)[i].n
  BY <1>1, NumbersType
<1> DEFINE m == Numbers(q)
<1>4. m \in Seq(1..MaxWrite) /\ Len(m) = Len(q) /\ m # <<>>
  BY <1>1, <1>2
<1> HIDE DEF m
<1>5. /\ Tail(m) \in Seq(1..MaxWrite) /\ Len(Tail(m)) = Len(q) - 1
      /\ \A i \in 1..(Len(q) - 1) : Tail(m)[i] = m[i + 1]
  BY <1>4
<1>6. ASSUME NEW i \in 1..(Len(q) - 1) PROVE Numbers(Tail(q))[i] = Tail(m)[i]
  <2>1. i + 1 \in 1..Len(q)
    BY <1>1
  <2>2. m[i + 1] = q[i + 1].n
    BY <1>2, <2>1 DEF m
  <2> QED BY <1>1, <1>3, <1>5, <2>2
<1>7. Numbers(Tail(q)) = Tail(m)
  BY <1>3, <1>5, <1>6, SeqEqual
<1> QED BY <1>7 DEF m

\* A batch whose id is the largest is listed last.
LEMMA ListedLast ==
  ASSUME NEW S, Keyed(S), NEW r, r.id \in Int, \A s \in S : s.id < r.id
  PROVE  InKeyOrder(S \union {r}) = Append(InKeyOrder(S), r)
<1> DEFINE T == S \union {r}
           k == InKeyOrder(S)
           q == Append(k, r)
<1>1. /\ Keyed(T) /\ Cardinality(T) = Cardinality(S) + 1 /\ Cardinality(S) \in Nat
      /\ Place(T, r) = Cardinality(S) /\ \A s \in S : Place(T, s) = Place(S, s)
  BY PlaceAtEnd
<1>2. /\ k \in Seq(S) /\ Len(k) = Cardinality(S)
      /\ \A i \in 1..Cardinality(S) : Place(S, k[i]) = i - 1
  BY KeyOrderPlaces
<1>3. S \subseteq T /\ r \in T
  OBVIOUS
<1> HIDE DEF T, k
<1>4. /\ q \in Seq(T) /\ Len(q) = Cardinality(S) + 1 /\ q[Cardinality(S) + 1] = r
      /\ \A i \in 1..Cardinality(S) : q[i] = k[i] /\ k[i] \in S
  <2>1. k \in Seq(T)
    BY <1>2, <1>3, SeqWidens
  <2> QED BY <1>1, <1>2, <1>3, <2>1
<1> HIDE DEF q
<1>5. ASSUME NEW i \in 1..Len(q) PROVE Place(T, q[i]) = i - 1
  <2>1. CASE i \in 1..Cardinality(S)
    BY <1>1, <1>2, <1>4, <2>1
  <2>2. CASE i = Cardinality(S) + 1
    BY <1>1, <1>4, <2>2
  <2> QED BY <1>1, <1>4, <2>1, <2>2
<1>6. q = InKeyOrder(T)
  BY <1>1, <1>4, <1>5, KeyOrderUnique
<1> QED BY <1>6 DEF q, k, T

\* Without the first one, the others are listed as they were.
LEMMA ListedWithoutFirst ==
  ASSUME NEW S, Keyed(S), S # {}
  PROVE  /\ InKeyOrder(S) # <<>>
         /\ InKeyOrder(S \ {Head(InKeyOrder(S))}) = Tail(InKeyOrder(S))
<1> DEFINE k == InKeyOrder(S)
           T == S \ {Head(k)}
<1>1. /\ k \in Seq(S) /\ Len(k) = Cardinality(S) /\ Cardinality(S) \in Nat
      /\ \A i \in 1..Cardinality(S) : Place(S, k[i]) = i - 1
  BY KeyOrderPlaces
<1>2. Cardinality(S) # 0
  BY FS_EmptySet DEF Keyed
<1>3. InPlace(k, S) /\ k # <<>>
  BY <1>1, <1>2 DEF InPlace
<1> HIDE DEF k
<1>4. /\ Keyed(T) /\ InPlace(Tail(k), T)
      /\ Len(Tail(k)) = Len(k) - 1 /\ Cardinality(T) = Cardinality(S) - 1
  BY <1>3, TailInPlace
<1>5. Tail(k) = InKeyOrder(T)
  <2> DEFINE t == Tail(k)
  <2>1. t \in Seq(T) /\ Len(t) = Cardinality(T) /\ \A i \in 1..Len(t) : Place(T, t[i]) = i - 1
    BY <1>1, <1>4 DEF InPlace
  <2> HIDE DEF t, T
  <2>2. t = InKeyOrder(T)
    BY <1>4, <2>1, KeyOrderUnique
  <2> QED BY <2>2 DEF t
<1> QED BY <1>3, <1>5 DEF k

LEMMA PromiseInit == Init => Promise!Init
<1> SUFFICES ASSUME Init PROVE Promise!Init
  OBVIOUS
<1>1. /\ rows = {} /\ log = <<>> /\ call.replies = <<>> /\ user \in User
  BY NoAnswers, WritesAssumption DEF Init, User
<1>2. InKeyOrder({}) = <<>>
  <2>1. Cardinality({}) = 0 /\ IsFiniteSet({})
    BY FS_EmptySet
  <2>2. Keyed({}) /\ <<>> \in Seq({}) /\ Len(<<>>) = Cardinality({})
    BY <2>1 DEF Keyed
  <2>3. \A i \in 1..Len(<<>>) : Place({}, <<>>[i]) = i - 1
    OBVIOUS
  <2> QED BY <2>2, <2>3, KeyOrderUnique
<1>3. \A u : QueueOf(u) = <<>>
  <2>1. \A u : {r \in rows : r.by = u} = {}
    BY <1>1
  <2>2. Numbers(<<>>) = <<>>
    BY DEF Numbers
  <2> QED BY <1>2, <2>1, <2>2 DEF QueueOf
<1> QED BY <1>1, <1>3 DEF Promise!Init

\* Steps that leave the rows and the log: the stream goes on, or starts again.
LEMMA PromiseRests ==
  ASSUME UNCHANGED <<rows, log>>, user' \in User,
         \/ UNCHANGED user /\ Len(call'.replies) = Len(call.replies)
         \/ call'.replies = <<>>
  PROVE  [Promise!Next]_Promise!vars
<1>1. [u \in User |-> QueueOf(u)]' = [u \in User |-> QueueOf(u)]
  BY QueueOfIs DEF QueueOf
<1>2. CASE UNCHANGED user /\ Len(call'.replies) = Len(call.replies)
  BY <1>1, <1>2 DEF Promise!vars
<1>3. CASE call'.replies = <<>>
  <2>1. Promise!Interrupt(user')
    BY <1>1, <1>3 DEF Promise!Interrupt
  <2> QED BY <2>1 DEF Promise!Next
<1> QED BY <1>2, <1>3

LEMMA PromiseWriteMutations ==
  ASSUME WritesInv, WriteMutations
  PROVE  Promise!Next
<1> DEFINE n == Head(worker).n
           row == [by |-> user, id |-> nextID, n |-> n]
<1>1. /\ worker # <<>> /\ Head(worker).kind = "write" /\ rows' = rows \union {row}
      /\ FillWritePipeline(pipeline, state, call, rows', acked, user)
      /\ UNCHANGED <<user, log>>
  BY DEF WriteMutations, NextBlock, history
<1>2. /\ QueueInv /\ IsCall(call) /\ worker \in Seq(WorkerBlock) /\ user \in User
      /\ InOrder(rows, acked) /\ nextID \in Nat /\ Len(made) <= MaxWrite /\ made \in Seq(User)
      /\ \A r \in Mine : r.id < nextID
  BY DEF WritesInv, AnswersInv, PipelineInv, Fits, TokenInv, StreamTypeOK, CredentialsTypeOK,
         QueueInv, RowsInv, Mine, OfUser
<1>3. n \in 1..MaxWrite
  <2>1. n \in 1..Len(made)
    BY <1>1, <1>2, TakenWrite
  <2> QED BY <1>2, <2>1, WritesAssumption
<1>4. Len(call'.replies) = Len(call.replies)
  BY <1>1, <1>2, FillKeepsAnswers
<1>5. row.id = nextID /\ row.by = user /\ row.n = n /\ row \in Row
  BY <1>2, <1>3 DEF Row
<1> HIDE DEF row
<1>6. Keyed(Mine) /\ Mine \subseteq Row /\ Mine \union {row} \subseteq Row
  BY <1>2, <1>5, RowsAreKeyed DEF Mine, InOrder, OfUser
<1>7. OfUser(rows', user) = Mine \union {row} /\ \A u \in User : u # user => OfUser(rows', u) = OfUser(rows, u)
  BY <1>1, <1>5 DEF OfUser, Mine
<1>8. InKeyOrder(Mine \union {row}) = Append(InKeyOrder(Mine), row)
  BY <1>2, <1>5, <1>6, ListedLast
<1>9. Numbers(Append(InKeyOrder(Mine), row)) = Append(Numbers(InKeyOrder(Mine)), n)
  <2>1. InKeyOrder(Mine) \in Seq(Mine)
    BY <1>6, KeyOrderPlaces
  <2>2. InKeyOrder(Mine) \in Seq(Mine \union {row}) /\ row \in Mine \union {row}
    BY <2>1, SeqWidens
  <2> QED BY <1>5, <1>6, <2>2, NumbersAppend
<1>10. QueueIn(rows', user) = Append(QueueIn(rows, user), n)
  BY <1>7, <1>8, <1>9 DEF QueueIn, Mine
<1>11. \A u \in User : u # user => QueueIn(rows', u) = QueueIn(rows, u)
  BY <1>7 DEF QueueIn
<1> HIDE DEF n
<1>12. [u \in User |-> QueueOf(u)]' = [[u \in User |-> QueueOf(u)] EXCEPT ![user] = Append(@, n)]
  <2>1. \A u : QueueOf(u) = QueueIn(rows, u)
    BY QueueOfIs
  <2>2. \A u : QueueOf(u)' = QueueIn(rows', u)
    BY DEF QueueOf, QueueIn, OfUser
  <2> QED BY <1>2, <1>10, <1>11, <2>1, <2>2
<1>13. Promise!Add(n)
  BY <1>1, <1>4, <1>12 DEF Promise!Add
<1> QED BY <1>3, <1>13 DEF Promise!Next

LEMMA PromiseApply ==
  ASSUME WritesInv, Apply
  PROVE  Promise!Next
<1> DEFINE k == Len(call.replies)
<1>1. /\ call.wire # <<>> /\ call.refusing = <<>> /\ log' = Append(log, Head(call.wire).n)
      /\ call' = [call EXCEPT !.wire = Tail(call.wire), !.replies = Append(call.replies, Head(call.wire))]
      /\ UNCHANGED <<rows, user>>
  BY DEF Apply, Serving, disk
<1>2. /\ QueueInv /\ PipelineInv /\ IsCall(call) /\ user \in User /\ InOrder(rows, acked)
  BY DEF WritesInv, AnswersInv, PipelineInv, Fits, TokenInv, StreamTypeOK, QueueInv, RowsInv
<1>3. /\ call.replies \in Seq(Mine) /\ k + 1 \in 1..Len(pipeline) /\ k \in Nat
      /\ pipeline[k + 1] = Head(call.wire)
  <2>1. /\ call.replies \in Seq(Mine) /\ k + 1 \in 1..Len(pipeline)
        /\ pipeline[k + 1] = Head(call.wire)
    BY <1>1, <1>2, NextOnWire
  <2> QED BY <2>1
<1>4. Keyed(Mine) /\ InPlace(pipeline, Mine) /\ Mine \subseteq Row
  BY <1>2, RowsAreKeyed DEF Mine, QueueInv, Filled, InOrder, OfUser
<1>5. /\ Len(pipeline) \in Nat /\ Len(pipeline) <= Cardinality(Mine)
      /\ pipeline[k + 1] = InKeyOrder(Mine)[k + 1]
  BY <1>3, <1>4, InPlaceIsPrefix
<1>6. InKeyOrder(Mine) \in Seq(Mine) /\ Len(InKeyOrder(Mine)) = Cardinality(Mine)
      /\ Cardinality(Mine) \in Nat
  BY <1>4, KeyOrderPlaces
<1>7. k + 1 \in 1..Len(InKeyOrder(Mine))
  BY <1>3, <1>5, <1>6
<1>8. /\ Len(QueueOf(user)) = Len(InKeyOrder(Mine))
      /\ QueueOf(user)[k + 1] = InKeyOrder(Mine)[k + 1].n
  <2>1. QueueOf(user) = Numbers(InKeyOrder(Mine))
    BY QueueOfIs DEF QueueIn, Mine
  <2> QED BY <1>4, <1>6, <1>7, <2>1, NumbersType
<1>9. Len(call'.replies) = k + 1
  BY <1>1, <1>2, <1>3 DEF IsCall
<1>10. [u \in User |-> QueueOf(u)]' = [u \in User |-> QueueOf(u)]
  BY <1>1 DEF QueueOf
<1>11. k < Len([u \in User |-> QueueOf(u)][user])
       /\ log' = Append(log, [u \in User |-> QueueOf(u)][user][k + 1])
  BY <1>1, <1>2, <1>3, <1>5, <1>6, <1>7, <1>8
<1>12. Promise!Apply
  BY <1>1, <1>9, <1>10, <1>11 DEF Promise!Apply
<1> QED BY <1>12 DEF Promise!Next

\* The removal of the first batch of the pipeline is that of the head of the queue.
LEMMA PromiseDrop ==
  ASSUME WritesInv, pipeline # <<>>, rows' = Remaining, UNCHANGED <<user, log>>
  PROVE  Promise!Drop /\ [u \in User |-> QueueOf(u)][user] # <<>>
<1> DEFINE p == Head(pipeline)
           k == InKeyOrder(Mine)
<1>1. QueueInv /\ user \in User /\ InOrder(rows, acked)
  BY DEF WritesInv, AnswersInv, TokenInv, StreamTypeOK, QueueInv, RowsInv
<1>2. Keyed(Mine) /\ InPlace(pipeline, Mine) /\ Mine \subseteq Row
  BY <1>1, RowsAreKeyed DEF Mine, QueueInv, Filled, InOrder, OfUser
<1>3. p \in Mine /\ OfUser(Remaining, user) = Mine \ {p} /\ p.by = user
  <2>1. p \in rows /\ p.by = user /\ OfUser(Remaining, user) = Mine \ {p}
    BY <1>1, FirstBatch
  <2> QED BY <2>1 DEF Mine, OfUser
<1>4. k # <<>> /\ InKeyOrder(Mine \ {Head(k)}) = Tail(k) /\ k \in Seq(Mine)
  BY <1>2, <1>3, ListedWithoutFirst, KeyOrderPlaces
<1>5. Head(k) = p
  <2>1. \A i \in 1..Len(pipeline) : pipeline[i] = k[i]
    BY <1>2, InPlaceIsPrefix
  <2>2. 1 \in 1..Len(pipeline) /\ pipeline[1] = p
    BY <1>2 DEF InPlace
  <2>3. k[1] = Head(k)
    BY <1>4
  <2> QED BY <2>1, <2>2, <2>3
<1>6. Numbers(Tail(k)) = Tail(Numbers(k)) /\ Numbers(k) # <<>>
  <2>1. Len(Numbers(k)) = Len(k) /\ Len(k) # 0
    BY <1>2, <1>4, NumbersType
  <2>2. Numbers(k) # <<>>
    BY <2>1
  <2> QED BY <1>2, <1>4, <2>2, NumbersTail
<1>7. QueueIn(rows', user) = Tail(QueueIn(rows, user)) /\ QueueIn(rows, user) # <<>>
  BY <1>3, <1>4, <1>5, <1>6 DEF QueueIn, Mine
<1>8. \A u \in User : u # user => QueueIn(rows', u) = QueueIn(rows, u)
  <2>1. \A u \in User : u # user => OfUser(rows', u) = OfUser(rows, u)
    BY <1>3 DEF OfUser, Remaining
  <2> QED BY <2>1 DEF QueueIn
<1>9. \A u : QueueOf(u) = QueueIn(rows, u)
  BY QueueOfIs
<1>10. \A u : QueueOf(u)' = QueueIn(rows', u)
  BY DEF QueueOf, QueueIn, OfUser
<1>11. [u \in User |-> QueueOf(u)]' = [[u \in User |-> QueueOf(u)] EXCEPT ![user] = Tail(@)]
  BY <1>1, <1>7, <1>8, <1>9, <1>10
<1> QED BY <1>1, <1>7, <1>9, <1>11 DEF Promise!Drop

LEMMA PromiseFirstGoes ==
  ASSUME WritesInv, ReceiveResponse \/ RejectFirst
  PROVE  Promise!Next
<1>1. QueueInv /\ PipelineInv /\ IsCall(call) /\ pipeline \in Seq(Mine)
  BY DEF WritesInv, AnswersInv, PipelineInv, Fits, QueueInv, Filled, InPlace
<1>2. pipeline # <<>>
  BY <1>1, FirstIsAnswered DEF ReceiveResponse, RejectFirst
<1>3. rows' = Remaining /\ UNCHANGED <<user, log>>
  BY <1>1, <1>2, FirstBatch DEF ReceiveResponse, RejectFirst
<1>4. Promise!Drop /\ [u \in User |-> QueueOf(u)][user] # <<>>
  BY <1>2, <1>3, PromiseDrop
<1>5. CASE ReceiveResponse
  <2>1. call.replies # <<>> /\ FillWritePipeline(Tail(pipeline), state, AfterRead, rows', acked', user)
    BY <1>5 DEF ReceiveResponse
  <2>2. IsCall(AfterRead) /\ AfterRead.replies = Tail(call.replies)
    <3>1. /\ call.ending = "no" => AfterRead = [call EXCEPT !.replies = Tail(call.replies), !.ending = "no"]
          /\ call.ending = "now" => AfterRead = [call EXCEPT !.replies = Tail(call.replies), !.ending = "now"]
      BY DEF AfterRead
    <3> QED BY <1>1, <3>1 DEF IsCall
  <2>3. call'.replies = Tail(call.replies)
    BY <2>1, <2>2, FillKeepsAnswers
  <2>4. Len(call.replies) > 0 /\ Len(call'.replies) = Len(call.replies) - 1
    <3>1. call.replies \in Seq(Mine)
      BY <1>1, CallHoldsMine
    <3> QED BY <2>1, <2>3, <3>1
  <2>5. Promise!Acknowledge
    BY <1>4, <2>4 DEF Promise!Acknowledge
  <2> QED BY <2>5 DEF Promise!Next
<1>6. CASE RejectFirst
  <2>1. call.ending = "now" /\ FillWritePipeline(Tail(pipeline), "Initial", NoCall, rows', acked, user)
    BY <1>6 DEF RejectFirst
  <2>2. call.replies = <<>> /\ call'.replies = <<>>
    BY <1>1, <2>1, NoAnswers, FillKeepsAnswers DEF PipelineInv, Fits
  <2>3. Promise!Refuse
    BY <1>4, <2>2 DEF Promise!Refuse
  <2> QED BY <2>3 DEF Promise!Next
<1> QED BY <1>5, <1>6

LEMMA PromiseNext == WritesInv /\ WritesInv' /\ [Next]_vars => [Promise!Next]_Promise!vars
<1> SUFFICES ASSUME WritesInv, WritesInv', [Next]_vars PROVE [Promise!Next]_Promise!vars
  OBVIOUS
<1>1. user \in User /\ user' \in User /\ IsCall(call) /\ PipelineInv
  BY DEF WritesInv, AnswersInv, TokenInv, StreamTypeOK, PipelineInv, Fits
<1>2. CASE MakeWrite \/ AccountTrouble \/ TakeToken \/ AnswerToken \/ MainQueue \/ UNCHANGED vars
  BY <1>1, <1>2, PromiseRests
     DEF MakeWrite, AccountTrouble, TakeToken, AnswerToken, MainQueue, vars, disk, memory, history
<1>3. CASE WriteMutations
  BY <1>3, PromiseWriteMutations
<1>4. CASE CredentialDidChange
  <2> DEFINE st == IF Stops(state) THEN "Initial" ELSE state
             c == IF Stops(state) THEN NoCall ELSE call
  <2>1. c.replies = <<>> /\ IsCall(c)
    BY <1>1, NoAnswers DEF PipelineInv, Fits, Stops, Started
  <2>2. FillWritePipeline(PipelineAfterStop, st, c, rows, acked', user')
    BY <1>4 DEF CredentialDidChange
  <2> HIDE DEF st, c
  <2>3. call'.replies = <<>>
    BY <2>1, <2>2, FillKeepsAnswers
  <2> QED BY <1>1, <1>4, <2>3, PromiseRests DEF CredentialDidChange, history
<1>5. CASE ResumeStart \/ IdleTimeout \/ StreamFails
  <2>1. UNCHANGED <<rows, log, user>>
    BY <1>5 DEF ResumeStart, IdleTimeout, StreamFails, history, disk
  <2>2. UNCHANGED call \/ call'.replies = <<>>
    <3>1. NoCall.replies = <<>>
      BY NoAnswers
    <3>2. [NoCall EXCEPT !.bearer = Head(worker).user, !.hello = "asked"].replies = <<>>
      BY DEF NoCall
    <3> QED BY <1>5, <3>1, <3>2 DEF ResumeStart, IdleTimeout, StreamFails, FailStream
  <2> QED BY <1>1, <2>1, <2>2, PromiseRests
<1>6. CASE BackoffElapsed \/ HandshakeDone \/ SeeEnd \/ AnswerHandshake \/ Refuse
  <2>1. UNCHANGED <<rows, log, user>>
    BY <1>6 DEF BackoffElapsed, HandshakeDone, SeeEnd, AnswerHandshake, Refuse, history, disk
  <2>2. call'.replies = call.replies
    BY <1>1, <1>6 DEF BackoffElapsed, HandshakeDone, SeeEnd, AnswerHandshake, Refuse, IsCall
  <2> QED BY <1>1, <2>1, <2>2, PromiseRests
<1>7. CASE ReceiveResponse \/ RejectFirst
  BY <1>7, PromiseFirstGoes
<1>8. CASE Apply
  BY <1>8, PromiseApply
<1>9. CASE Relaunch \/ RelaunchAfterTelling
  <2>1. UNCHANGED <<rows, log>> /\ call'.replies = <<>>
    BY <1>9, NoAnswers DEF Relaunch, RelaunchAfterTelling, Initialize
  <2> QED BY <1>1, <2>1, PromiseRests
<1> QED BY <1>2, <1>3, <1>4, <1>5, <1>6, <1>7, <1>8, <1>9 DEF Next, Worker

\* The machinery of queue, pipeline and stream keeps the promise of WriteQueues:
\* each account has a queue that only its own steps change, at its ends, and the
\* server applies the queue of the active one from its head, in its order.
THEOREM PromiseIsKept == Spec => PromiseKept
BY PromiseInit, PromiseNext, WritesInvariant, PTL DEF Spec, PromiseKept, Promise!Spec

=============================================================================
