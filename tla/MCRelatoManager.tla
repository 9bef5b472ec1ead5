--------------------------- MODULE MCRelatoManager ---------------------------
(***************************************************************************)
(* The feed of one phone, and two stories of other people.                 *)
(***************************************************************************)
EXTENDS RelatoManager, TLC

CONSTANTS ana, bia, caio

MCAuthor == 1 :> bia @@ 2 :> caio

\* One author, whom Ana may block while the feed is loaded.
MCOneAuthor == 1 :> bia @@ 2 :> bia

LoadSymmetry == Permutations(Load)

=============================================================================
