------------------------- MODULE MCFirestoreTimers -------------------------
(***************************************************************************)
(* FirestoreTimers for the two streams of the client.                      *)
(***************************************************************************)
EXTENDS FirestoreTimers, TLC

CONSTANTS watch, write

\* The streams behave alike as far as their timers go, and so do addresses.
Symmetry == Permutations(Stream) \union Permutations(Address)

=============================================================================
