-------------------------- MODULE MCChannelsManager --------------------------
(***************************************************************************)
(* ChannelsManager on a phone where two people sign in, who both talk to a *)
(* third.                                                                  *)
(***************************************************************************)
EXTENDS ChannelsManager, TLC

CONSTANTS ana, bia, caio

\* Caio wrote to Ana, and Bia to Caio: the account is the second user of one
\* channel and the first of the other.
MCChannel == {[first |-> caio, second |-> ana], [first |-> bia, second |-> caio]}

MCOneOfAna == {[first |-> caio, second |-> ana]}

\* Both wrote to Ana.
MCTwoOfAna == {[first |-> caio, second |-> ana], [first |-> bia, second |-> ana]}

\* The slots of loads are alike.
LoadSymmetry == Permutations(Load)

=============================================================================
