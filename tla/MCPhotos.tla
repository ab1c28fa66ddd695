------------------------------ MODULE MCPhotos ------------------------------
(* Photos.tla on a small instance: two loops, as of a form that is closed and *)
(* opened again, other windows, and two requests.  The loops are alike, and   *)
(* so are the requests.                                                       *)
EXTENDS Photos, TLC

CONSTANTS q1, q2, l1, l2

Symmetry == Permutations({q1, q2}) \cup Permutations({l1, l2})
=============================================================================
