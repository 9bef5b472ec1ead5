--------------------------- MODULE FirestoreWrites ---------------------------
(***************************************************************************)
(* The way of a write from the application to the server: the durable      *)
(* mutation queue of each account (FSTLevelDBMutationQueue.mm, behind      *)
(* FSTLocalStore), the pipeline of FSTRemoteStore.mm, the write stream     *)
(* (stream.mm, write_stream.mm, grpc_stream.cc) and the completion blocks  *)
(* of FSTSyncEngine.mm.                                                    *)
(*                                                                         *)
(* A batch leaves the queue when the server has answered it.  Until then   *)
(* it is sent again by every new stream, after a restart of the process    *)
(* too: the server may apply it more than once.  The answers carry no      *)
(* name, the first one belongs to the first batch of the pipeline.         *)
(***************************************************************************)
EXTENDS FirestoreCredentials, FiniteSetsExt, SequencesExt

CONSTANTS
  First,       \* bound: who may be signed in when the phone is first used
  MaxPipeline, \* kMaxPendingWrites
  MaxWrite,    \* bound: the writes the application makes
  MaxTrouble   \* bound: changes of account, streams that fail, tokens that
               \* cannot be had and ends of the process, all together

ASSUME WritesAssumption ==
  /\ First \subseteq User
  /\ MaxPipeline \in Nat \ {0}
  /\ MaxWrite \in Nat /\ MaxTrouble \in Nat

VARIABLES
  rows,      \* on disk: the mutation batches of all the accounts
  acked,     \* on disk: lastAcknowledgedBatchId of each account
  user,      \* _currentUser of the sync engine
  nextID,    \* nextBatchID of the queue of that user
  waiting,   \* _mutationCompletionBlocks
  pipeline,  \* writePipeline
  state,     \* the state of the write stream
  call,      \* the RPC under the stream
  made,      \* history: who made each write
  log,       \* the writes in the order in which the server applied them
  refused,   \* history: the writes the server refused
  told,      \* history: the completions that were called
  troubles   \* what has gone against MaxTrouble

disk == <<rows, acked>>
memory == <<user, nextID, waiting, pipeline, state, call>>
history == <<made, log, refused, told, troubles>>
vars == <<credentials, disk, memory, history>>

\* n is the number of the write; a batch id may be used again.
Row == [by : User, id : Nat, n : 1..MaxWrite]
Started == {"Starting", "Open", "Backoff"}

\* bearer: whose token opened it; hello: the handshake; idle: the idle timer
\* runs; wire, replies: batches on their way up, answers on their way down;
\* refusing: the batch, if any, for which the server has ended the RPC with a
\* status that is permanent; ending: "now" when the client is about to see that end,
\* "read" when it is after one more answer.
NoCall == [bearer |-> NoUser, hello |-> "none", idle |-> FALSE, wire |-> <<>>,
           replies |-> <<>>, refusing |-> <<>>, ending |-> "no"]

Stored(n) == \E r \in rows : r.n = n

Trouble == troubles < MaxTrouble /\ troubles' = troubles + 1

-----------------------------------------------------------------------------
(* The mutation queue *)

LoadNextBatchID(stored) == IF stored = {} THEN 0 ELSE 1 + Max({r.id : r \in stored})

\* Slip: the last acknowledged id outlives the ids it is compared with.
AckedKept(u, next) == acked

\* start: ids begin again when no queue holds one, and lastAcknowledgedBatchId
\* is reset with them.
AckedAtStart(u, next) == [acked EXCEPT ![u] = IF @ >= next THEN -1 ELSE @]

StartQueue(u) ==
  LET next == LoadNextBatchID(rows)
  IN nextID' = next /\ acked' = AckedAtStart(u, next)

\* Slip: the keys do not sort as the ids do.
InReverseOrder(some) ==
  [i \in 1..Cardinality(some) |->
     CHOOSE r \in some : Cardinality({s \in some : s.id > r.id}) = i - 1]

\* The rows of a user, in the order of their keys.
InKeyOrder(some) ==
  [i \in 1..Cardinality(some) |->
     CHOOSE r \in some : Cardinality({s \in some : s.id < r.id}) = i - 1]

\* nextMutationBatchAfterBatchID, until there is none.
BatchesAfter(stored, ack, u, last) ==
  InKeyOrder({r \in stored : r.by = u /\ r.id > last /\ r.id > ack[u]})

-----------------------------------------------------------------------------
(* The pipeline *)

\* Slip: the pipeline is filled from the newest batch only.
RefilledWithLast(pipe, stored, ack, u) ==
  LET next == BatchesAfter(stored, ack, u, -1)
  IN IF next = <<>> \/ Len(pipe) = MaxPipeline THEN pipe
     ELSE IF Last(next) \in ToSet(pipe) THEN pipe ELSE Append(pipe, Last(next))

\* Slip: the bound of canAddToWritePipeline is forgotten.
RefilledUnbounded(pipe, stored, ack, u) ==
  pipe \o BatchesAfter(stored, ack, u, IF pipe = <<>> THEN -1 ELSE Last(pipe).id)

Refilled(pipe, stored, ack, u) ==
  LET last == IF pipe = <<>> THEN -1 ELSE Last(pipe).id
      next == BatchesAfter(stored, ack, u, last)
  IN pipe \o SubSeq(next, 1, Min({MaxPipeline - Len(pipe), Len(next)}))

\* Slip: a batch is written as soon as the stream is open.
WritableOpen(st, c) == st = "Open"

\* The condition of addBatchToWritePipeline.
Writable(st, c) == st = "Open" /\ c.hello = "done"

\* fillWritePipeline, over a stream in state st with RPC c and a pipeline
\* pipe; the queue of u is stored.  Idle if there is nothing to do; started,
\* or put in line to be after an error, if there is.
FillWritePipeline(pipe, st, c, stored, ack, u) ==
  LET full == Refilled(pipe, stored, ack, u)
      fresh == SubSeq(full, Len(pipe) + 1, Len(full))
      sends == Writable(st, c) /\ fresh # <<>>
  IN /\ pipeline' = full
     /\ call' = [c EXCEPT !.wire = IF sends THEN @ \o fresh ELSE @,
                          !.idle = (@ \/ (full = <<>> /\ st = "Open")) /\ ~sends]
     /\ IF st \in Started \/ full = <<>>
        THEN state' = st /\ UNCHANGED asked
        ELSE IF st = "Error" THEN state' = "Backoff" /\ UNCHANGED asked
        ELSE state' = "Starting" /\ GetToken(closeCount')

-----------------------------------------------------------------------------
(* The application *)

\* setData, updateData, delete..., from the main queue.
MakeWrite ==
  /\ Len(made) < MaxWrite
  /\ auth # NoUser /\ provider.user = auth
  /\ made' = Append(made, auth)
  /\ worker' = Append(worker, [kind |-> "write", user |-> auth, n |-> Len(made) + 1])
  /\ UNCHANGED <<auth, provider, asked, main, closeCount>>
  /\ UNCHANGED <<disk, memory, log, refused, told, troubles>>

-----------------------------------------------------------------------------
(* Blocks of the worker queue *)

NextBlock(kind) ==
  /\ worker # <<>> /\ Head(worker).kind = kind
  /\ worker' = Tail(worker)
  /\ UNCHANGED <<auth, provider, main>>

\* FSTSyncEngine.writeMutations
WriteMutations ==
  LET row == [by |-> user, id |-> nextID, n |-> Head(worker).n]
  IN /\ NextBlock("write") /\ UNCHANGED closeCount
     /\ rows' = rows \union {row} /\ nextID' = nextID + 1
     /\ waiting' = {w \in waiting : w.by # row.by \/ w.id # row.id} \union {row}
     /\ FillWritePipeline(pipeline, state, call, rows', acked, user)
     /\ UNCHANGED <<acked, user, history>>

\* Slip: the writes in the pipeline survive the change of account.
PipelineKept == pipeline

PipelineAfterStop == <<>>

\* Slip: the change of account leaves a stream that is open as it is.
StopsUnlessOpen(st) == st \in Started \ {"Open"}

\* Stop closes the streams that are started, and only these.
Stops(st) == st \in Started

\* credentialDidChangeWithUser, down to the new start of the stream.
CredentialDidChange ==
  /\ NextBlock("change")
  /\ user' = Head(worker).user
  /\ IF user' # user THEN StartQueue(user') ELSE UNCHANGED <<nextID, acked>>
  /\ closeCount' = IF Stops(state) THEN closeCount + 1 ELSE closeCount
  /\ FillWritePipeline(PipelineAfterStop, IF Stops(state) THEN "Initial" ELSE state,
                       IF Stops(state) THEN NoCall ELSE call, rows, acked', user')
  /\ UNCHANGED <<rows, waiting, history>>

\* Slip: the stream is not started again.
FailStreamForGood ==
  /\ closeCount' = closeCount + 1
  /\ call' = NoCall /\ state' = "Error"
  /\ UNCHANGED <<asked, pipeline>>

\* The stream closes with an error that settles no write: it is started again
\* when there is something to send, after a delay.
FailStream ==
  /\ closeCount' = closeCount + 1
  /\ call' = NoCall
  /\ state' = IF pipeline = <<>> THEN "Error" ELSE "Backoff"
  /\ UNCHANGED <<asked, pipeline>>

\* ResumeStartWithCredentials.  The RPC is open at once, without a word from
\* the server, and the handshake is sent.
ResumeStart ==
  /\ NextBlock("token")
  /\ LET t == Head(worker) IN
     IF ~Current(t) THEN UNCHANGED <<asked, closeCount, pipeline, state, call>>
     ELSE IF t.ok
     THEN /\ state' = "Open"
          /\ call' = [NoCall EXCEPT !.bearer = t.user, !.hello = "asked"]
          /\ UNCHANGED <<asked, closeCount, pipeline>>
     ELSE FailStream
  /\ UNCHANGED <<disk, user, nextID, waiting, history>>

OnWorker ==
  /\ state \in Started
  /\ UNCHANGED <<auth, provider, main, worker>>

\* backoff_.BackoffAndRun
BackoffElapsed ==
  /\ OnWorker /\ state = "Backoff"
  /\ state' = "Starting" /\ GetToken(closeCount) /\ UNCHANGED closeCount
  /\ UNCHANGED <<disk, user, nextID, waiting, pipeline, call, history>>

\* The timer set by MarkIdle stops the stream.
IdleTimeout ==
  /\ OnWorker /\ call.idle
  /\ state' = "Initial" /\ call' = NoCall /\ closeCount' = closeCount + 1
  /\ UNCHANGED <<asked, disk, user, nextID, waiting, pipeline, history>>

\* processUserCallbacksForBatchID
Told(batch, ok) == {[n |-> w.n, ok |-> ok] :
                      w \in {w \in waiting : w.by = user /\ w.id = batch.id}}
StillWaiting(batch) == {w \in waiting : w.by # user \/ w.id # batch.id}

\* Slip: any error is taken for one of the first write.
StreamFailsRejecting ==
  /\ OnWorker /\ state = "Open" /\ Trouble /\ pipeline # <<>>
  /\ rows' = rows \ {Head(pipeline)}
  /\ told' = told \union Told(Head(pipeline), FALSE) /\ waiting' = StillWaiting(Head(pipeline))
  /\ closeCount' = closeCount + 1
  /\ FillWritePipeline(Tail(pipeline), "Initial", NoCall, rows', acked, user)
  /\ UNCHANGED <<acked, user, nextID, made, log, refused>>

\* The connection breaks: what is on the wire is lost both ways.
StreamFails ==
  /\ OnWorker /\ state = "Open" /\ Trouble
  /\ FailStream
  /\ UNCHANGED <<disk, user, nextID, waiting, made, log, refused, told>>

\* writeStreamDidCompleteHandshake: the whole pipeline is sent.
HandshakeDone ==
  /\ OnWorker /\ call.hello = "answered"
  /\ call' = [call EXCEPT !.hello = "done", !.wire = pipeline, !.idle = @ /\ pipeline = <<>>]
  /\ UNCHANGED <<asked, closeCount, disk, user, nextID, waiting, pipeline, state, history>>

\* What is left of the RPC when the client has read an answer.
AfterRead == [call EXCEPT !.replies = Tail(@), !.ending = IF @ = "read" THEN "now" ELSE @]

\* writeStreamDidReceiveResponse: the answer is for the first of the pipeline.
\* The completion is called, the batch is acknowledged and removed in one
\* transaction, and the next one is fetched.
ReceiveResponse ==
  /\ OnWorker /\ call.replies # <<>> /\ call.ending \in {"no", "read"}
  /\ LET batch == Head(pipeline) IN
     /\ told' = told \union Told(batch, TRUE) /\ waiting' = StillWaiting(batch)
     /\ rows' = {r \in rows : r.by # user \/ r.id # batch.id}
     /\ acked' = [acked EXCEPT ![user] = batch.id]
     /\ UNCHANGED closeCount
     /\ FillWritePipeline(Tail(pipeline), state, AfterRead, rows', acked', user)
  /\ UNCHANGED <<user, nextID, made, log, refused, troubles>>

\* Every answer has been read, and then the end.
SeeEnd ==
  /\ OnWorker /\ call.refusing # <<>> /\ call.replies = <<>> /\ call.ending = "no"
  /\ call' = [call EXCEPT !.ending = "now"]
  /\ UNCHANGED <<asked, closeCount, disk, user, nextID, waiting, pipeline, state, history>>

\* A write fails because the server has ended the RPC.  The read that had
\* ended before it is still delivered; FastFinishCompletionsBlocking turns
\* those behind it into no-ops.
WriteFails ==
  /\ OnWorker /\ call.refusing # <<>> /\ call.wire # <<>> /\ call.ending = "no"
  /\ call' = [call EXCEPT !.ending = IF call.replies = <<>> THEN "now" ELSE "read"]
  /\ UNCHANGED <<asked, closeCount, disk, user, nextID, waiting, pipeline, state, history>>

\* writeStreamWasInterruptedWithError and handleWriteError: the first batch of
\* the pipeline is rejected, and the others are sent again without delay.
RejectFirst ==
  /\ OnWorker /\ call.ending = "now"
  /\ LET batch == Head(pipeline) IN
     /\ rows' = {r \in rows : r.by # user \/ r.id # batch.id}
     /\ told' = told \union Told(batch, FALSE) /\ waiting' = StillWaiting(batch)
     /\ closeCount' = closeCount + 1
     /\ FillWritePipeline(Tail(pipeline), "Initial", NoCall, rows', acked, user)
  /\ UNCHANGED <<acked, user, nextID, made, log, refused, troubles>>

-----------------------------------------------------------------------------
(* FIRAuth and the main queue *)

TakeToken == (\E r \in asked : AuthTakes(r)) /\ UNCHANGED <<disk, memory, history>>
AnswerToken == (\E r \in asked : AuthAnswers(r, TRUE)) /\ UNCHANGED <<disk, memory, history>>
MainQueue == (HearChange \/ HearToken) /\ UNCHANGED <<disk, memory, history>>

\* The account changes, or no token can be had.
AccountTrouble ==
  /\ Trouble
  /\ (\E u \in User : AuthChanges(u)) \/ (\E r \in asked : AuthAnswers(r, FALSE))
  /\ UNCHANGED <<disk, memory, made, log, refused, told>>

-----------------------------------------------------------------------------
(* The server.  It takes the batches of an RPC in their order, answers each,  *)
(* ends the RPC at one it refuses, and has forgotten an RPC when its client   *)
(* opens another.                                                             *)

Serving == state = "Open" /\ call.refusing = <<>>

AnswerHandshake ==
  /\ Serving /\ call.hello = "asked"
  /\ call' = [call EXCEPT !.hello = "answered"]
  /\ UNCHANGED <<credentials, disk, user, nextID, waiting, pipeline, state, history>>

Apply ==
  /\ Serving /\ call.wire # <<>>
  /\ log' = Append(log, Head(call.wire).n)
  /\ call' = [call EXCEPT !.wire = Tail(@), !.replies = Append(@, Head(call.wire))]
  /\ UNCHANGED <<credentials, disk, user, nextID, waiting, pipeline, state>>
  /\ UNCHANGED <<made, refused, told, troubles>>

Refuse ==
  /\ Serving /\ call.wire # <<>>
  /\ refused' = refused \union {Head(call.wire).n}
  /\ call' = [call EXCEPT !.wire = Tail(@), !.refusing = <<Head(call.wire)>>]
  /\ UNCHANGED <<credentials, disk, user, nextID, waiting, pipeline, state>>
  /\ UNCHANGED <<made, log, told, troubles>>

-----------------------------------------------------------------------------
(* The process *)

\* FSTLocalStore.start and FSTRemoteStore.start, for the user the provider has.
Initialize ==
  /\ user' = provider'.user
  /\ StartQueue(user')
  /\ waiting' = {} /\ worker' = <<>> /\ closeCount' = 0
  /\ pipeline' = Refilled(<<>>, rows, acked', user')
  /\ call' = NoCall
  /\ IF pipeline' = <<>>
     THEN state' = "Initial" /\ asked' = {}
     ELSE /\ state' = "Starting"
          /\ asked' = {[user |-> NoUser, counter |-> 0, close |-> 0, taken |-> FALSE]}

\* The process ends anywhere and is started again.
Relaunch ==
  /\ Trouble
  /\ Launch(auth) /\ Initialize
  /\ UNCHANGED <<auth, rows, made, log, refused, told>>

\* It ends when a completion was called and its batch is not yet removed.
RelaunchAfterTelling ==
  /\ Trouble
  /\ call.replies # <<>> /\ call.ending \in {"no", "read"}
  /\ told' = told \union Told(Head(pipeline), TRUE)
  /\ Launch(auth) /\ Initialize
  /\ UNCHANGED <<auth, rows, made, log, refused>>

Init ==
  /\ auth \in First /\ provider = [user |-> auth, counter |-> 0]
  /\ asked = {} /\ main = <<>> /\ worker = <<>> /\ closeCount = 0
  /\ rows = {} /\ acked = [u \in User |-> -1]
  /\ user = auth /\ nextID = 0 /\ waiting = {} /\ pipeline = <<>>
  /\ state = "Initial" /\ call = NoCall
  /\ made = <<>> /\ log = <<>> /\ refused = {} /\ told = {}
  /\ troubles = 0

Worker ==
  \/ WriteMutations \/ CredentialDidChange \/ ResumeStart \/ BackoffElapsed
  \/ HandshakeDone \/ ReceiveResponse \/ SeeEnd \/ RejectFirst

Next ==
  \/ MakeWrite \/ AccountTrouble \/ TakeToken \/ AnswerToken \/ MainQueue
  \/ Worker \/ IdleTimeout \/ StreamFails
  \/ AnswerHandshake \/ Apply \/ Refuse
  \/ Relaunch \/ RelaunchAfterTelling

Spec == Init /\ [][Next]_vars

\* The scheduling: blocks that are on a queue run, timers that are set fire,
\* FIRAuth answers, and the server does while the stream is open.  One fairness
\* condition over all of them asks only that something that can run does.  The
\* idle timer, failures and ends of the process are not fair, and MaxTrouble of
\* the latter happen at most: the phone is on line again in the end.
Progress ==
  \/ Worker \/ MainQueue \/ TakeToken \/ AnswerToken
  \/ AnswerHandshake \/ Apply \/ Refuse

FairSpec == Spec /\ WF_vars(Progress)

-----------------------------------------------------------------------------
(* Properties *)

\* Every variable keeps its type, and the pipeline its bound, however often the
\* account changes and the stream is started again.
TypeOK ==
  /\ CredentialsTypeOK
  /\ rows \subseteq Row /\ acked \in [User -> Int] /\ user \in User /\ nextID \in Nat
  /\ waiting \subseteq Row /\ pipeline \in Seq(Row) /\ Len(pipeline) <= MaxPipeline
  /\ state \in {"Initial", "Error"} \union Started
  /\ call \in [bearer : User, hello : {"none", "asked", "answered", "done"}, idle : BOOLEAN,
               wire : Seq(Row), replies : Seq(Row), refusing : Seq(Row),
               ending : {"no", "read", "now"}]

\* An open stream was opened with the token of the user of the sync engine,
\* whatever the account did between the request and the answer.
StreamServesItsUser == state = "Open" => call.bearer = user

\* The first batch of the pipeline is the one that the next answer, or the
\* end of the RPC, is about.
AnswerIsForFirst ==
  call.hello = "done" => pipeline = call.replies \o call.refusing \o call.wire

\* The pipeline is of writes that the user of the sync engine made, never of
\* another account.  Every batch of the user on disk is in it unless it is full,
\* and a stream that has a batch to send is on its way.  No batch on disk is
\* taken for an acknowledged one (FSTLevelDBMutationQueue.mm:228), and the next
\* id is free: over changes of account, restarts and batch ids that are used
\* again, none is skipped.
NoWriteForgotten ==
  /\ \A i \in DOMAIN pipeline : pipeline[i].by = user /\ made[pipeline[i].n] = user
  /\ Len(pipeline) < MaxPipeline => ToSet(pipeline) = {r \in rows : r.by = user}
  /\ pipeline # <<>> => state \in Started
  /\ \A r \in rows : acked[r.by] < r.id /\ (r.by = user => r.id < nextID)

\* The assertions of the streams that another step could break: a token is
\* taken by a stream that waits for it (stream.mm:128), and the idle timer
\* finds nothing to send (FSTRemoteStore.mm:551).
AssertionsHold ==
  /\ worker # <<>> /\ Head(worker).kind = "token" /\ Current(Head(worker)) => state = "Starting"
  /\ call.idle => pipeline = <<>>

LastAt(n) == Max({i \in DOMAIN log : log[i] = n})

\* Batches are applied again after an interruption, but never so that an older
\* write of an account stands over a newer one: the newer one is still in the
\* queue, to be applied again too (or the server refuses it).
LaterStands ==
  \A n, m \in ToSet(log) :
    n < m /\ made[n] = made[m] /\ LastAt(m) < LastAt(n) => Stored(m) \/ m \in refused

\* The application is told that a write was done only if the server applied
\* it, that it failed only if the server refused it, and never both.
ToldTrue ==
  /\ \A t \in told : IF t.ok THEN t.n \in ToSet(log) ELSE t.n \in refused
  /\ \A t, s \in told : t.n = s.n => t = s

\* A write that is reported as failed is one that the server refused.
FailedWasRefused == \A t \in told : t.ok \/ t.n \in refused

\* A batch on disk is settled in the end, as long as its account is signed in:
\* it does not stay there for ever.
Settles == \A n \in 1..MaxWrite : []<>(~Stored(n) \/ auth # made[n])

\* The detailed machinery keeps the promise of WriteQueues.
Numbers(batches) == [i \in DOMAIN batches |-> batches[i].n]
QueueOf(u) == Numbers(InKeyOrder({r \in rows : r.by = u}))
Promise == INSTANCE WriteQueues
  WITH Write <- 1..MaxWrite, queues <- [u \in User |-> QueueOf(u)],
       active <- user, ahead <- Len(call.replies)
PromiseKept == Promise!Spec

\* With write operations that fail before the answers in front of them are read.
OvertakenSpec == Init /\ [][Next \/ WriteFails]_vars

=============================================================================
