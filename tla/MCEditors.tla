----------------------------- MODULE MCEditors ------------------------------
(* Editors.tla on a small instance; requests are interchangeable.            *)
EXTENDS Editors, TLC

CONSTANTS q1, q2

CallSymmetry == Permutations({q1, q2})
=============================================================================
