------------------------------ MODULE MCProfile ------------------------------
(***************************************************************************)
(* Profile on a phone that Ana and Bia share.                              *)
(***************************************************************************)
EXTENDS Profile, TLC

CONSTANTS ana, bia, cid

Writers == <<ana, bia, ana>>
Writer == [s \in Story |-> Writers[s]]

Symmetry == Permutations(Load)

==============================================================================
