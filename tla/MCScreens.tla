----------------------------- MODULE MCScreens ------------------------------
(* Screens.tla on a small instance.  The two clicks are alike. *)
EXTENDS Screens, TLC

CONSTANTS c1, c2

CallSymmetry == Permutations({c1, c2})
=============================================================================
