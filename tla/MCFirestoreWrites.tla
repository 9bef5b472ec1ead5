-------------------------- MODULE MCFirestoreWrites --------------------------
(***************************************************************************)
(* FirestoreWrites on a phone that Ana and Bia share.                      *)
(***************************************************************************)
EXTENDS FirestoreWrites, TLC

CONSTANTS ana, bia

==============================================================================
