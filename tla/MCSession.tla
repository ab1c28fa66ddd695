----------------------------- MODULE MCSession ------------------------------
(* Session.tla: two calls in one tab, a third in another. *)
EXTENDS Session

CONSTANTS w1, w2, r1, r2, r3

TwoTabs == [r \in Requests |-> IF r = r3 THEN w2 ELSE w1]
=============================================================================
