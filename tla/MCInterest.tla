----------------------------- MODULE MCInterest -----------------------------
(* Instances of Interest and PairLists for TLC.                                  *)
EXTENDS PairLists, TLC

CONSTANTS t1, t2, l1, p1, x1

\* One tenant, one landlord.
OneTenantOf == [p \in Profiles |-> t1]
OneLandlordOf == [l \in Listings |-> l1]

\* Every pair has its own key.
OwnKey == [pr \in Pairs |-> pr]

\* A bound: t2, who has no profile, blocks nobody and is blocked by nobody; no query
\* about the one pair reads such a block.
OthersDoNotBlock == blocks \subseteq {t1, l1} \X {t1, l1}

RequestSymmetry == Permutations(Requests)
=============================================================================
