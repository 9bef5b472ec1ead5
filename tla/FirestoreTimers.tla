--------------------------- MODULE FirestoreTimers ---------------------------
(***************************************************************************)
(* The delayed operations of Firestore's worker queue                      *)
(* (executor_libdispatch.mm, async_queue.cc) and the two that each stream  *)
(* sets: the one that restarts it after a failure (exponential_backoff.cc) *)
(* and the one that closes it when it is idle (stream.mm).                 *)
(*                                                                         *)
(* A TimeSlot belongs to libdispatch, which runs it when its time comes    *)
(* and frees it.  The executor's schedule and the handle by which an       *)
(* operation may be cancelled hold its bare address.  A handle outlives    *)
(* its slot, and the memory of a freed slot is given to another one: an    *)
(* address may come to mean somebody else's operation.                     *)
(***************************************************************************)

CONSTANTS
  Stream,   \* the watch stream and the write stream
  Address   \* bound: where the heap puts TimeSlots

VARIABLES
  state,     \* state_ of each stream
  handle,    \* per timer, the DelayedOperation its stream keeps: {} or {address}
  memory,    \* per address, the timer whose TimeSlot is there: {} or {timer}
  schedule   \* schedule_ of the executor; a slot is done_ when it is not in it

vars == <<state, handle, memory, schedule>>

Timer == Stream \X {"backoff", "idle"}
Started == {"Starting", "Open", "Backoff"}
State == Started \union {"Initial", "Error"}

-----------------------------------------------------------------------------
(* Handles *)

\* DelayedOperation::Cancel, on the handles of some timers: whatever is
\* scheduled at their addresses leaves the schedule; they are empty then.
Cancelled(some) == schedule \ UNION {handle[t] : t \in some}
Emptied(some) == [t \in Timer |-> IF t \in some THEN {} ELSE handle[t]]

\* Stream::Close cancels both timers of a stream.
Both(some) == {t \in Timer : t[1] \in some}

\* EnqueueAfterDelay, over a schedule and handles: a new TimeSlot, at a.
Schedule(t, a, scheduled, handles) ==
  /\ memory[a] = {} /\ memory' = [memory EXCEPT ![a] = {t}]
  /\ schedule' = scheduled \union {a}
  /\ handle' = [handles EXCEPT ![t] = {a}]

\* The time of the slot at a has come: it runs, and is freed.
Due(a, t) ==
  /\ a \in schedule /\ memory[a] = {t}
  /\ memory' = [memory EXCEPT ![a] = {}]

-----------------------------------------------------------------------------
(* A stream *)

Become(s, st) == state' = [state EXCEPT ![s] = st]

\* Start, of a stream that is needed: after a failure it waits first.
Start(s) ==
  \/ /\ state[s] = "Initial" /\ Become(s, "Starting")
     /\ UNCHANGED <<handle, memory, schedule>>
  \/ /\ state[s] = "Error" /\ Become(s, "Backoff")
     /\ \E a \in Address :
          Schedule(<<s, "backoff">>, a,
                   Cancelled({<<s, "backoff">>}), Emptied({<<s, "backoff">>}))

\* The token is there, and the RPC.
StreamOpens(s) ==
  /\ state[s] = "Starting" /\ Become(s, "Open")
  /\ UNCHANGED <<handle, memory, schedule>>

\* Close with an error, and the start that follows at once when the stream is
\* needed: after a delay, or without one when a write was at fault.
StreamFails(s) ==
  /\ state[s] \in {"Starting", "Open"}
  /\ \/ /\ Become(s, "Backoff")
        /\ \E a \in Address :
             Schedule(<<s, "backoff">>, a, Cancelled(Both({s})), Emptied(Both({s})))
     \/ /\ \E st \in {"Error", "Initial", "Starting"} : Become(s, st)
        /\ schedule' = Cancelled(Both({s})) /\ handle' = Emptied(Both({s}))
        /\ UNCHANGED memory

\* The operation of BackoffAndRun.  The handle stays.
BackoffElapsed(s) ==
  /\ \E a \in Address : Due(a, <<s, "backoff">>) /\ schedule' = schedule \ {a}
  /\ Become(s, "Starting")
  /\ UNCHANGED handle

\* MarkIdle
MarkIdle(s) ==
  /\ state[s] = "Open" /\ handle[<<s, "idle">>] = {}
  /\ \E a \in Address : Schedule(<<s, "idle">>, a, schedule, handle)
  /\ UNCHANGED state

\* Write cancels the idle timer.
Write(s) ==
  /\ state[s] = "Open"
  /\ schedule' = Cancelled({<<s, "idle">>}) /\ handle' = Emptied({<<s, "idle">>})
  /\ UNCHANGED <<state, memory>>

\* The operation of MarkIdle: Close, without an error; the slot is there until
\* it has run.
IdleTimeout(s) ==
  /\ \E a \in Address : Due(a, <<s, "idle">>) /\ schedule' = Cancelled(Both({s})) \ {a}
  /\ handle' = Emptied(Both({s})) /\ Become(s, "Initial")

\* credentialDidChange: every stream is stopped, and started again if it is
\* needed then.  A stream that was not started may be needed for the new
\* account: only the write stream, and it may have failed before.
CredentialDidChange ==
  LET stopped == {s \in Stream : state[s] \in Started}
      scheduled == Cancelled(Both(stopped))
      handles == Emptied(Both(stopped))
  IN \E needed \in SUBSET Stream :
       /\ state' = [s \in Stream |->
            IF s \notin needed THEN (IF s \in stopped THEN "Initial" ELSE state[s])
            ELSE IF state[s] = "Error" THEN "Backoff" ELSE "Starting"]
       /\ LET late == {s \in needed : state[s] = "Error"} IN
          \/ late = {} /\ schedule' = scheduled /\ handle' = handles /\ UNCHANGED memory
          \/ \E s \in Stream, a \in Address :
               late = {s} /\ Schedule(<<s, "backoff">>, a, scheduled, handles)

\* libdispatch comes to a slot that was cancelled: it is only freed.
Expire(a) ==
  /\ memory[a] # {} /\ a \notin schedule
  /\ memory' = [memory EXCEPT ![a] = {}]
  /\ UNCHANGED <<state, handle, schedule>>

-----------------------------------------------------------------------------

Init ==
  /\ state = [s \in Stream |-> "Initial"]
  /\ handle = [t \in Timer |-> {}] /\ memory = [a \in Address |-> {}]
  /\ schedule = {}

Next ==
  \/ \E s \in Stream :
       \/ Start(s) \/ StreamOpens(s) \/ StreamFails(s) \/ BackoffElapsed(s)
       \/ MarkIdle(s) \/ Write(s) \/ IdleTimeout(s)
  \/ CredentialDidChange
  \/ \E a \in Address : Expire(a)

Spec == Init /\ [][Next]_vars

-----------------------------------------------------------------------------
(* Properties *)

\* Every variable keeps its type, and no handle and no block of memory is two.
TypeOK ==
  /\ state \in [Stream -> State]
  /\ handle \in [Timer -> {{}} \union {{a} : a \in Address}]
  /\ memory \in [Address -> {{}} \union {{t} : t \in Timer}]
  /\ schedule \subseteq Address

\* What the executor's schedule points to has not been freed
\* (executor_libdispatch.mm:109), although libdispatch frees slots and the
\* schedule holds bare addresses.
ScheduleIsLive == \A a \in schedule : memory[a] # {}

At(t) == {a \in schedule : memory[a] = {t}}

\* Each timer is set once at most (async_queue.cc:79), the delay of a stream
\* elapses in Backoff only (stream.mm:159), and no stream is closed as idle
\* that is not open, although stale handles cancel what they should not.
TimersAsserted ==
  /\ \A t \in Timer : \A a, b \in At(t) : a = b
  /\ \A s \in Stream : At(<<s, "backoff">>) # {} => state[s] = "Backoff"
  /\ \A s \in Stream : At(<<s, "idle">>) # {} => state[s] = "Open"

\* "The "ConnectionBackoff" timer is used to restart a stream once the
\* appropriate backoff delay has elapsed" (async_queue.h:43): a stream in
\* Backoff has it on the schedule, because the handle of an operation that has
\* run does nothing (executor.h:46).
BackoffElapses == \A s \in Stream : state[s] = "Backoff" => At(<<s, "backoff">>) # {}

=============================================================================
