----------------------------- MODULE WriteQueues -----------------------------
(***************************************************************************)
(* What the Firestore client promises to the screens and managers of the   *)
(* application about writes: each account has a queue that outlives the    *)
(* process; the server applies the writes of the account that is signed in *)
(* in their order, at least once, from the first one again after each      *)
(* interruption; a write leaves the queue at its head, when it was applied *)
(* or is refused.                                                          *)
(***************************************************************************)
EXTENDS Integers, Sequences

CONSTANTS
  User,   \* the accounts, and nobody
  Write   \* the writes

VARIABLES
  queues,  \* the writes of each user that are not settled
  active,  \* the user whose queue is being sent
  ahead,   \* how many of them the server has applied since the last interruption
  log      \* the writes in the order in which the server applied them

vars == <<queues, active, ahead, log>>

Init ==
  /\ queues = [u \in User |-> <<>>] /\ active \in User
  /\ ahead = 0 /\ log = <<>>

Add(w) ==
  /\ queues' = [queues EXCEPT ![active] = Append(@, w)]
  /\ UNCHANGED <<active, ahead, log>>

Apply ==
  /\ ahead < Len(queues[active])
  /\ log' = Append(log, queues[active][ahead + 1])
  /\ ahead' = ahead + 1
  /\ UNCHANGED <<queues, active>>

Drop == queues' = [queues EXCEPT ![active] = Tail(@)] /\ UNCHANGED <<active, log>>

Acknowledge == ahead > 0 /\ Drop /\ ahead' = ahead - 1

\* Only the first write that was not applied can be refused.
Refuse == ahead = 0 /\ queues[active] # <<>> /\ Drop /\ UNCHANGED ahead

Interrupt(u) == active' = u /\ ahead' = 0 /\ UNCHANGED <<queues, log>>

Next ==
  \/ \E w \in Write : Add(w)
  \/ Apply \/ Acknowledge \/ Refuse
  \/ \E u \in User : Interrupt(u)

Spec == Init /\ [][Next]_vars

=============================================================================
