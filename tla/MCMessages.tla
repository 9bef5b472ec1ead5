----------------------------- MODULE MCMessages -----------------------------
(***************************************************************************)
(* Messages for one account and its conversations.                         *)
(***************************************************************************)
EXTENDS Messages, TLC

CONSTANTS ana, bia, caio

\* Bia and Caio both wrote to Ana.
MCTwoOfAna == {[first |-> caio, second |-> ana], [first |-> bia, second |-> ana]}

MCOneOfAna == {[first |-> caio, second |-> ana]}

\* The slots of loads are alike.
LoadSymmetry == Permutations(Load)

=============================================================================
