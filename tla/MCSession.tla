------------------------------ MODULE MCSession ------------------------------
(***************************************************************************)
(* Session with two addresses.  Nobody has an account at first: one whose  *)
(* sign-up is over is as a known user, and another may be on its way.      *)
(***************************************************************************)
EXTENDS Session, TLC

CONSTANTS ana, bia, anaMail, biaMail

TwoMails == ana :> anaMail @@ bia :> biaMail

ChainSymmetry == Permutations(Chain)
TeaSymmetry == Permutations(Tea)
Symmetry == ChainSymmetry \union TeaSymmetry

=============================================================================
