-------------------------- MODULE MCFirestoreListen --------------------------
(***************************************************************************)
(* FirestoreListen for one call of getDocuments and one listener that the  *)
(* application adds and removes, on the same query.                        *)
(***************************************************************************)
EXTENDS FirestoreListen, TLC

CONSTANTS get, live, query

OneQuery == [l \in Listener |-> query]

==============================================================================
