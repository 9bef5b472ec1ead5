------------------------ MODULE FirestoreTimersProofs ------------------------
(***************************************************************************)
(* What the executor's invariants are worth although handles go stale: the *)
(* schedule holds live slots, each timer at most once, and an operation    *)
(* only runs in the state of its stream it was set for.  For any number of *)
(* streams and any heap.                                                   *)
(***************************************************************************)
EXTENDS FirestoreTimers, TLAPS

\* A scheduled operation can be cancelled by its own timer's handle.  It is
\* the converse that fails: a handle may point to another timer's operation.
HandleReaches == \A t \in Timer : \A a \in At(t) : handle[t] = {a}

BackoffInBackoff == \A s \in Stream : At(<<s, "backoff">>) # {} => state[s] = "Backoff"
IdleInOpen == \A s \in Stream : At(<<s, "idle">>) # {} => state[s] = "Open"

TimersInv ==
  /\ TypeOK /\ ScheduleIsLive
  /\ HandleReaches /\ BackoffInBackoff /\ IdleInOpen

-----------------------------------------------------------------------------

\* The two timers of a stream.
LEMMA TimerPairs ==
  /\ \A s \in Stream : <<s, "backoff">> \in Timer /\ <<s, "idle">> \in Timer
  /\ \A t \in Timer : \E s \in Stream : t = <<s, "backoff">> \/ t = <<s, "idle">>
BY DEF Timer

\* What is left on the schedule when the handles of some timers are cancelled
\* belongs to other timers, is where it was, and is reached by its handle.
LEMMA CancelKeeps ==
  ASSUME TimersInv, NEW some \in SUBSET Timer
  PROVE  /\ Cancelled(some) \subseteq schedule
         /\ Emptied(some) \in [Timer -> {{}} \union {{a} : a \in Address}]
         /\ \A t \in Timer, a \in Cancelled(some) :
              memory[a] = {t} => t \notin some /\ Emptied(some)[t] = {a}
<1>1. Cancelled(some) \subseteq schedule
  BY DEF Cancelled
<1>2. Emptied(some) \in [Timer -> {{}} \union {{a} : a \in Address}]
  BY DEF Emptied, TimersInv, TypeOK
<1>3. ASSUME NEW t \in Timer, NEW a \in Cancelled(some), memory[a] = {t}
      PROVE  t \notin some /\ Emptied(some)[t] = {a}
  <2>1. a \in schedule /\ handle[t] = {a}
    BY <1>1, <1>3 DEF TimersInv, HandleReaches, At
  <2>2. t \notin some
    BY <2>1, <1>3 DEF Cancelled
  <2> QED
    BY <2>1, <2>2 DEF Emptied
<1> QED
  BY <1>1, <1>2, <1>3

\* The invariant of slots and handles alone, over any schedule and handles.
Sound(scheduled, handles, mem) ==
  /\ handles \in [Timer -> {{}} \union {{a} : a \in Address}]
  /\ mem \in [Address -> {{}} \union {{t} : t \in Timer}]
  /\ scheduled \subseteq Address
  /\ \A a \in scheduled : mem[a] # {}
  /\ \A t \in Timer, a \in scheduled : mem[a] = {t} => handles[t] = {a}

\* Cancelling keeps it.
LEMMA CancelSound ==
  ASSUME TimersInv, NEW some \in SUBSET Timer
  PROVE  Sound(Cancelled(some), Emptied(some), memory)
BY CancelKeeps DEF Sound, TimersInv, TypeOK, ScheduleIsLive

\* So does setting a timer that is not set; it is the only one that is new.
LEMMA ScheduleSound ==
  ASSUME NEW scheduled, NEW handles, Sound(scheduled, handles, memory),
         NEW t \in Timer, NEW a \in Address, Schedule(t, a, scheduled, handles),
         \A b \in scheduled : memory[b] # {t}
  PROVE  /\ Sound(schedule', handle', memory')
         /\ \A b \in schedule', u \in Timer :
              memory'[b] = {u} => u = t \/ (b \in scheduled /\ memory[b] = {u})
<1>1. memory' = [memory EXCEPT ![a] = {t}] /\ memory[a] = {} /\ a \notin scheduled
  BY DEF Schedule, Sound
<1>2. schedule' = scheduled \union {a} /\ handle' = [handles EXCEPT ![t] = {a}]
  BY DEF Schedule
<1>3. memory'[a] = {t} /\ \A b \in scheduled : memory'[b] = memory[b]
  BY <1>1 DEF Sound
<1>4. handle'[t] = {a} /\ \A u \in Timer : u # t => handle'[u] = handles[u]
  BY <1>2 DEF Sound
<1>5. Sound(schedule', handle', memory')
  <2>1. handle' \in [Timer -> {{}} \union {{b} : b \in Address}]
    BY <1>2 DEF Sound
  <2>2. memory' \in [Address -> {{}} \union {{u} : u \in Timer}]
    BY <1>1 DEF Sound
  <2>3. \A b \in schedule' : memory'[b] # {}
    BY <1>2, <1>3 DEF Sound
  <2>4. ASSUME NEW u \in Timer, NEW b \in schedule', memory'[b] = {u}
        PROVE  handle'[u] = {b}
    <3>1. CASE b = a
      BY <2>4, <3>1, <1>3, <1>4
    <3>2. CASE b # a
      <4>1. b \in scheduled /\ memory[b] = {u}
        BY <2>4, <3>2, <1>2, <1>3
      <4> QED
        BY <4>1, <1>4 DEF Sound
    <3> QED
      BY <3>1, <3>2
  <2> QED
    BY <2>1, <2>2, <2>3, <2>4, <1>2 DEF Sound
<1> QED
  BY <1>2, <1>3, <1>5

-----------------------------------------------------------------------------
(* One lemma for each action *)

\* A stream keeps the conditions on its timers when its state does not change,
\* when both are cancelled, or when none can have been set.
Undisturbed(r, some) ==
  \/ state'[r] = state[r]
  \/ <<r, "backoff">> \in some /\ <<r, "idle">> \in some
  \/ state[r] \notin {"Backoff", "Open"}

\* Some timers are cancelled, and none is set.
LEMMA OnlyCancelled ==
  ASSUME TimersInv, NEW some \in SUBSET Timer,
         schedule' = Cancelled(some), handle' = Emptied(some), memory' = memory,
         state' \in [Stream -> State], \A r \in Stream : Undisturbed(r, some)
  PROVE  TimersInv'
<1>1. Sound(schedule', handle', memory')
  BY CancelSound
<1>2. \A u \in Timer, b \in schedule' : memory'[b] = {u} => u \notin some /\ b \in At(u)
  BY CancelKeeps DEF At
<1>3. BackoffInBackoff'
  <2> SUFFICES ASSUME NEW r \in Stream, NEW b \in schedule', memory'[b] = {<<r, "backoff">>}
               PROVE  state'[r] = "Backoff"
    BY DEF BackoffInBackoff, At
  <2>1. <<r, "backoff">> \notin some /\ b \in At(<<r, "backoff">>)
    BY <1>2, TimerPairs
  <2> QED
    BY <2>1 DEF TimersInv, BackoffInBackoff, Undisturbed
<1>4. IdleInOpen'
  <2> SUFFICES ASSUME NEW r \in Stream, NEW b \in schedule', memory'[b] = {<<r, "idle">>}
               PROVE  state'[r] = "Open"
    BY DEF IdleInOpen, At
  <2>1. <<r, "idle">> \notin some /\ b \in At(<<r, "idle">>)
    BY <1>2, TimerPairs
  <2> QED
    BY <2>1 DEF TimersInv, IdleInOpen, Undisturbed
<1> QED
  BY <1>1, <1>3, <1>4 DEF TimersInv, TypeOK, ScheduleIsLive, HandleReaches, At, Sound

\* Some timers are cancelled, and the delay of a stream is set.
LEMMA BackoffSet ==
  ASSUME TimersInv, NEW s \in Stream, NEW a \in Address, NEW some \in SUBSET Timer,
         Schedule(<<s, "backoff">>, a, Cancelled(some), Emptied(some)),
         <<s, "backoff">> \in some \/ state[s] # "Backoff",
         <<s, "idle">> \in some \/ state[s] # "Open",
         state' \in [Stream -> State], state'[s] = "Backoff",
         \A r \in Stream : r # s => Undisturbed(r, some)
  PROVE  TimersInv'
<1>1. Sound(Cancelled(some), Emptied(some), memory)
  BY CancelSound
<1>2. ASSUME NEW b \in Cancelled(some) PROVE memory[b] # {<<s, "backoff">>}
  BY CancelKeeps, TimerPairs DEF At, TimersInv, BackoffInBackoff
<1>3. /\ Sound(schedule', handle', memory')
      /\ \A b \in schedule', u \in Timer :
           memory'[b] = {u} => u = <<s, "backoff">> \/ (b \in Cancelled(some) /\ memory[b] = {u})
  BY <1>1, <1>2, ScheduleSound, TimerPairs
<1>4. \A u \in Timer, b \in schedule' :
        memory'[b] = {u} => u = <<s, "backoff">> \/ (u \notin some /\ b \in At(u))
  BY <1>3, CancelKeeps DEF At
<1>5. BackoffInBackoff'
  <2> SUFFICES ASSUME NEW r \in Stream, NEW b \in schedule', memory'[b] = {<<r, "backoff">>}
               PROVE  state'[r] = "Backoff"
    BY DEF BackoffInBackoff, At
  <2>1. CASE r = s
    BY <2>1
  <2>2. CASE r # s
    <3>1. <<r, "backoff">> \notin some /\ b \in At(<<r, "backoff">>)
      BY <1>4, <2>2, TimerPairs
    <3> QED
      BY <3>1, <2>2 DEF TimersInv, BackoffInBackoff, Undisturbed
  <2> QED
    BY <2>1, <2>2
<1>6. IdleInOpen'
  <2> SUFFICES ASSUME NEW r \in Stream, NEW b \in schedule', memory'[b] = {<<r, "idle">>}
               PROVE  state'[r] = "Open"
    BY DEF IdleInOpen, At
  <2>1. <<r, "idle">> \notin some /\ b \in At(<<r, "idle">>)
    BY <1>4, TimerPairs
  <2> QED
    BY <2>1 DEF TimersInv, IdleInOpen, Undisturbed
<1> QED
  BY <1>3, <1>5, <1>6 DEF TimersInv, TypeOK, ScheduleIsLive, HandleReaches, At, Sound

\* Become, for a state.
LEMMA Becoming ==
  ASSUME TimersInv, NEW s \in Stream, NEW st \in State, Become(s, st)
  PROVE  /\ state' \in [Stream -> State] /\ state'[s] = st
         /\ \A r \in Stream : r # s => state'[r] = state[r]
BY DEF Become, TimersInv, TypeOK

\* Nothing happens to timers.
LEMMA NothingCancelled ==
  ASSUME TimersInv PROVE Cancelled({}) = schedule /\ Emptied({}) = handle
BY DEF Cancelled, Emptied, TimersInv, TypeOK

LEMMA BothOfOne ==
  ASSUME NEW s \in Stream
  PROVE  Both({s}) \in SUBSET Timer /\ <<s, "backoff">> \in Both({s}) /\ <<s, "idle">> \in Both({s})
BY TimerPairs DEF Both

LEMMA StartKeeps ==
  ASSUME TimersInv, NEW s \in Stream, Start(s) PROVE TimersInv'
<1>1. CASE state[s] = "Initial" /\ Become(s, "Starting") /\ UNCHANGED <<handle, memory, schedule>>
  <2>1. state' \in [Stream -> State] /\ \A r \in Stream : Undisturbed(r, {})
    BY <1>1, Becoming DEF Undisturbed, State, Started
  <2> QED
    BY <1>1, <2>1, NothingCancelled, OnlyCancelled
<1>2. ASSUME state[s] = "Error", Become(s, "Backoff"), NEW a \in Address,
             Schedule(<<s, "backoff">>, a,
                      Cancelled({<<s, "backoff">>}), Emptied({<<s, "backoff">>}))
      PROVE  TimersInv'
  <2>1. /\ state' \in [Stream -> State] /\ state'[s] = "Backoff"
        /\ \A r \in Stream : r # s => Undisturbed(r, {<<s, "backoff">>})
    BY <1>2, Becoming DEF Undisturbed, State, Started
  <2>2. {<<s, "backoff">>} \in SUBSET Timer
    BY TimerPairs
  <2> QED
    BY <1>2, <2>1, <2>2, BackoffSet
<1> QED
  BY <1>1, <1>2 DEF Start

LEMMA StreamOpensKeeps ==
  ASSUME TimersInv, NEW s \in Stream, StreamOpens(s) PROVE TimersInv'
<1>1. state' \in [Stream -> State] /\ \A r \in Stream : Undisturbed(r, {})
  BY Becoming DEF StreamOpens, Undisturbed, State, Started
<1> QED
  BY <1>1, NothingCancelled, OnlyCancelled DEF StreamOpens

LEMMA StreamFailsKeeps ==
  ASSUME TimersInv, NEW s \in Stream, StreamFails(s) PROVE TimersInv'
<1>1. ASSUME Become(s, "Backoff"), NEW a \in Address,
             Schedule(<<s, "backoff">>, a, Cancelled(Both({s})), Emptied(Both({s})))
      PROVE  TimersInv'
  <2>1. /\ state' \in [Stream -> State] /\ state'[s] = "Backoff"
        /\ \A r \in Stream : r # s => Undisturbed(r, Both({s}))
    BY <1>1, Becoming DEF Undisturbed, State, Started
  <2> QED
    BY <1>1, <2>1, BothOfOne, BackoffSet
<1>2. ASSUME NEW st \in {"Error", "Initial", "Starting"}, Become(s, st),
             schedule' = Cancelled(Both({s})), handle' = Emptied(Both({s})), UNCHANGED memory
      PROVE  TimersInv'
  <2>1. state' \in [Stream -> State] /\ \A r \in Stream : Undisturbed(r, Both({s}))
    BY <1>2, Becoming, BothOfOne DEF Undisturbed, State, Started
  <2> QED
    BY <1>2, <2>1, BothOfOne, OnlyCancelled
<1> QED
  BY <1>1, <1>2 DEF StreamFails

LEMMA WriteKeeps ==
  ASSUME TimersInv, NEW s \in Stream, Write(s) PROVE TimersInv'
<1>1. state' \in [Stream -> State] /\ \A r \in Stream : Undisturbed(r, {<<s, "idle">>})
  BY DEF Write, Undisturbed, TimersInv, TypeOK
<1>2. {<<s, "idle">>} \in SUBSET Timer
  BY TimerPairs
<1> QED
  BY <1>1, <1>2, OnlyCancelled DEF Write

\* Its timer is not set: it is set only while the handle is kept.
LEMMA MarkIdleKeeps ==
  ASSUME TimersInv, NEW s \in Stream, MarkIdle(s) PROVE TimersInv'
<1> DEFINE t == <<s, "idle">>
<1>1. t \in Timer /\ state[s] = "Open" /\ handle[t] = {} /\ state' = state
  BY TimerPairs DEF MarkIdle
<1>2. PICK a \in Address : Schedule(t, a, schedule, handle)
  BY DEF MarkIdle
<1>3. Sound(schedule, handle, memory)
  BY NothingCancelled, CancelSound
<1>4. \A b \in schedule : memory[b] # {t}
  BY <1>1 DEF TimersInv, HandleReaches, At
<1>5. /\ Sound(schedule', handle', memory')
      /\ \A b \in schedule', u \in Timer : memory'[b] = {u} => u = t \/ b \in At(u)
  BY <1>1, <1>2, <1>3, <1>4, ScheduleSound DEF At
<1>6. BackoffInBackoff'
  <2> SUFFICES ASSUME NEW r \in Stream, NEW b \in schedule', memory'[b] = {<<r, "backoff">>}
               PROVE  state[r] = "Backoff"
    BY <1>1 DEF BackoffInBackoff, At
  <2>1. <<r, "backoff">> # t
    OBVIOUS
  <2> QED
    BY <1>5, <2>1, TimerPairs DEF TimersInv, BackoffInBackoff
<1>7. IdleInOpen'
  <2> SUFFICES ASSUME NEW r \in Stream, NEW b \in schedule', memory'[b] = {<<r, "idle">>}
               PROVE  state[r] = "Open"
    BY <1>1 DEF IdleInOpen, At
  <2>1. <<r, "idle">> = t \/ b \in At(<<r, "idle">>)
    BY <1>5, TimerPairs
  <2> QED
    BY <1>1, <2>1 DEF TimersInv, IdleInOpen
<1> QED
  BY <1>1, <1>5, <1>6, <1>7 DEF TimersInv, TypeOK, ScheduleIsLive, HandleReaches, At, Sound

\* A slot off the schedule is freed: the others are where they were.
LEMMA FreedSlot ==
  ASSUME NEW scheduled, NEW handles, Sound(scheduled, handles, memory),
         NEW a \in Address, a \notin scheduled,
         schedule' = scheduled, handle' = handles, memory' = [memory EXCEPT ![a] = {}]
  PROVE  /\ Sound(schedule', handle', memory')
         /\ \A b \in schedule' : b \in scheduled /\ memory'[b] = memory[b]
BY DEF Sound

\* The only operation of its timer runs: no other slot has that timer.
LEMMA BackoffElapsedKeeps ==
  ASSUME TimersInv, NEW s \in Stream, BackoffElapsed(s) PROVE TimersInv'
<1> DEFINE t == <<s, "backoff">>
<1>1. PICK a \in Address : Due(a, t) /\ schedule' = schedule \ {a}
  BY DEF BackoffElapsed
<1>2. a \in At(t) /\ handle[t] = {a} /\ state[s] = "Backoff" /\ handle' = handle
  BY <1>1, TimerPairs DEF Due, At, TimersInv, HandleReaches, BackoffInBackoff, BackoffElapsed
<1>3. Sound(schedule \ {a}, handle, memory)
  BY NothingCancelled, CancelSound DEF Sound
<1>4. /\ Sound(schedule', handle', memory')
      /\ \A b \in schedule' : b \in schedule \ {a} /\ memory'[b] = memory[b]
  BY <1>1, <1>2, <1>3, FreedSlot DEF Due
<1>5. ASSUME NEW b \in schedule' PROVE memory'[b] # {t}
  <2>1. b \in schedule /\ b # a /\ memory'[b] = memory[b]
    BY <1>4
  <2>2. b \notin At(t)
    BY <1>2, <2>1, TimerPairs DEF TimersInv, HandleReaches
  <2> QED
    BY <2>1, <2>2 DEF At
<1>6. /\ state' \in [Stream -> State]
      /\ \A r \in Stream : r # s => state'[r] = state[r]
  BY Becoming DEF BackoffElapsed, State, Started
<1>7. BackoffInBackoff'
  <2> SUFFICES ASSUME NEW r \in Stream, NEW b \in schedule', memory'[b] = {<<r, "backoff">>}
               PROVE  state'[r] = "Backoff"
    BY DEF BackoffInBackoff, At
  <2>1. r # s
    BY <1>5
  <2>2. b \in At(<<r, "backoff">>)
    BY <1>4 DEF At
  <2> QED
    BY <2>1, <2>2, <1>6 DEF TimersInv, BackoffInBackoff
<1>8. IdleInOpen'
  <2> SUFFICES ASSUME NEW r \in Stream, NEW b \in schedule', memory'[b] = {<<r, "idle">>}
               PROVE  state'[r] = "Open"
    BY DEF IdleInOpen, At
  <2>1. b \in At(<<r, "idle">>)
    BY <1>4 DEF At
  <2>2. state[r] = "Open" /\ r # s
    BY <2>1, <1>2 DEF TimersInv, IdleInOpen
  <2> QED
    BY <2>2, <1>6
<1> QED
  BY <1>4, <1>6, <1>7, <1>8 DEF TimersInv, TypeOK, ScheduleIsLive, HandleReaches, At, Sound

\* Close empties both handles; then the slot that ran is freed.
LEMMA IdleTimeoutKeeps ==
  ASSUME TimersInv, NEW s \in Stream, IdleTimeout(s) PROVE TimersInv'
<1> DEFINE some == Both({s})
           scheduled == Cancelled(some)
<1>1. PICK a \in Address : Due(a, <<s, "idle">>) /\ schedule' = scheduled \ {a}
  BY DEF IdleTimeout
<1>2. Sound(scheduled \ {a}, Emptied(some), memory)
  BY CancelSound, BothOfOne DEF Sound
<1>3. /\ Sound(schedule', handle', memory')
      /\ \A b \in schedule' : b \in scheduled /\ memory'[b] = memory[b]
  BY <1>1, <1>2, FreedSlot DEF Due, IdleTimeout
<1>4. \A u \in Timer, b \in schedule' : memory'[b] = {u} => u \notin some /\ b \in At(u)
  BY <1>3, CancelKeeps, BothOfOne DEF At
<1>5. /\ state' \in [Stream -> State]
      /\ \A r \in Stream : r # s => state'[r] = state[r]
  BY Becoming DEF IdleTimeout, State, Started
<1>6. BackoffInBackoff'
  <2> SUFFICES ASSUME NEW r \in Stream, NEW b \in schedule', memory'[b] = {<<r, "backoff">>}
               PROVE  state'[r] = "Backoff"
    BY DEF BackoffInBackoff, At
  <2>1. r # s /\ b \in At(<<r, "backoff">>)
    BY <1>4, BothOfOne, TimerPairs
  <2> QED
    BY <2>1, <1>5 DEF TimersInv, BackoffInBackoff
<1>7. IdleInOpen'
  <2> SUFFICES ASSUME NEW r \in Stream, NEW b \in schedule', memory'[b] = {<<r, "idle">>}
               PROVE  state'[r] = "Open"
    BY DEF IdleInOpen, At
  <2>1. r # s /\ b \in At(<<r, "idle">>)
    BY <1>4, BothOfOne, TimerPairs
  <2> QED
    BY <2>1, <1>5 DEF TimersInv, IdleInOpen
<1> QED
  BY <1>3, <1>5, <1>6, <1>7 DEF TimersInv, TypeOK, ScheduleIsLive, HandleReaches, At, Sound

LEMMA CredentialDidChangeKeeps ==
  ASSUME TimersInv, CredentialDidChange PROVE TimersInv'
<1> DEFINE stopped == {s \in Stream : state[s] \in Started}
           some == Both(stopped)
<1>1. PICK needed \in SUBSET Stream :
        /\ state' = [s \in Stream |->
             IF s \notin needed THEN (IF s \in stopped THEN "Initial" ELSE state[s])
             ELSE IF state[s] = "Error" THEN "Backoff" ELSE "Starting"]
        /\ LET late == {s \in needed : state[s] = "Error"} IN
           \/ late = {} /\ schedule' = Cancelled(some) /\ handle' = Emptied(some)
              /\ UNCHANGED memory
           \/ \E s \in Stream, a \in Address :
                late = {s} /\ Schedule(<<s, "backoff">>, a, Cancelled(some), Emptied(some))
  BY DEF CredentialDidChange
<1>2. some \in SUBSET Timer
  BY DEF Both
<1>3. state' \in [Stream -> State]
  BY <1>1 DEF TimersInv, TypeOK, State, Started
<1>4. \A r \in Stream : Undisturbed(r, some)
  <2> SUFFICES ASSUME NEW r \in Stream PROVE Undisturbed(r, some)
    OBVIOUS
  <2>1. CASE r \in stopped
    BY <2>1, TimerPairs DEF Undisturbed, Both
  <2>2. CASE r \notin stopped
    BY <2>2 DEF Undisturbed, Started
  <2> QED
    BY <2>1, <2>2
<1>5. CASE /\ schedule' = Cancelled(some) /\ handle' = Emptied(some)
           /\ UNCHANGED memory
  BY <1>2, <1>3, <1>4, <1>5, OnlyCancelled
<1>6. ASSUME NEW s \in Stream, NEW a \in Address, {r \in needed : state[r] = "Error"} = {s},
             Schedule(<<s, "backoff">>, a, Cancelled(some), Emptied(some))
      PROVE  TimersInv'
  <2>1. s \in needed /\ state[s] = "Error"
    BY <1>6
  <2>2. state'[s] = "Backoff"
    BY <1>1, <2>1
  <2> QED
    BY <1>2, <1>3, <1>4, <1>6, <2>1, <2>2, BackoffSet
<1> QED
  BY <1>1, <1>5, <1>6

LEMMA ExpireKeeps ==
  ASSUME TimersInv, NEW a \in Address, Expire(a) PROVE TimersInv'
<1>1. Sound(schedule, handle, memory)
  BY NothingCancelled, CancelSound
<1>2. /\ Sound(schedule', handle', memory')
      /\ \A b \in schedule' : b \in schedule /\ memory'[b] = memory[b]
  BY <1>1, FreedSlot DEF Expire
<1>3. state' = state /\ \A t \in Timer : \A b \in At(t)' : b \in At(t)
  BY <1>2 DEF Expire, At
<1>4. BackoffInBackoff' /\ IdleInOpen'
  BY <1>3, TimerPairs DEF TimersInv, BackoffInBackoff, IdleInOpen, At
<1> QED
  BY <1>2, <1>3, <1>4 DEF TimersInv, TypeOK, ScheduleIsLive, HandleReaches, At, Sound

-----------------------------------------------------------------------------

\* Every behaviour of the streams and of the executor keeps the invariant.
THEOREM TimersInvariant == Spec => []TimersInv
<1>1. Init => TimersInv
  BY DEF Init, TimersInv, TypeOK, ScheduleIsLive, HandleReaches, BackoffInBackoff, IdleInOpen,
         At, State
<1>2. TimersInv /\ [Next]_vars => TimersInv'
  <2> SUFFICES ASSUME TimersInv, [Next]_vars PROVE TimersInv'
    OBVIOUS
  <2>1. ASSUME NEW s \in Stream,
               \/ Start(s) \/ StreamOpens(s) \/ StreamFails(s) \/ BackoffElapsed(s)
               \/ MarkIdle(s) \/ Write(s) \/ IdleTimeout(s)
        PROVE  TimersInv'
    BY <2>1, StartKeeps, StreamOpensKeeps, StreamFailsKeeps, BackoffElapsedKeeps,
       MarkIdleKeeps, WriteKeeps, IdleTimeoutKeeps
  <2>2. CASE CredentialDidChange
    BY <2>2, CredentialDidChangeKeeps
  <2>3. ASSUME NEW a \in Address, Expire(a) PROVE TimersInv'
    BY <2>3, ExpireKeeps
  <2>4. CASE UNCHANGED vars
    BY <2>4 DEF vars, TimersInv, TypeOK, ScheduleIsLive, HandleReaches, BackoffInBackoff,
                IdleInOpen, At
  <2> QED
    BY <2>1, <2>2, <2>3, <2>4 DEF Next
<1> QED
  BY <1>1, <1>2, PTL DEF Spec

\* The executor's schedule never points to a slot that libdispatch has freed
\* (executor_libdispatch.mm:109), for any heap and any number of streams.
THEOREM SlotsAreLive == Spec => [](TypeOK /\ ScheduleIsLive)
<1>1. TimersInv => TypeOK /\ ScheduleIsLive
  BY DEF TimersInv
<1> QED
  BY <1>1, TimersInvariant, PTL

\* Although stale handles cancel operations of others, the assertions of
\* async_queue.cc:79 and stream.mm:159 hold.
THEOREM TimersAssert == Spec => []TimersAsserted
<1>1. TimersInv => TimersAsserted
  BY DEF TimersInv, TimersAsserted, HandleReaches, BackoffInBackoff, IdleInOpen, At
<1> QED
  BY <1>1, TimersInvariant, PTL

=============================================================================
