------------------------------ MODULE MCViewing ------------------------------
(* Instances of Viewing for TLC.                                               *)
EXTENDS Viewing, TLC

CONSTANTS t1, t2, l1, x1, m1, m2, s1, s2

\* Rival tenants matched with the one listing of l1.
RivalTenantOf == [m \in Matches |-> IF m = m1 THEN t1 ELSE t2]
OneListingOf == [m \in Matches |-> x1]
OneLandlordOf == [x \in Listings |-> l1]

\* One match.
OneTenantOf == [m \in Matches |-> t1]

\* Every slot has its own advisory key.
OwnKey == [k \in Listings \X Slots |-> k]

Open(slots, c) == [open |-> slots, slotCapacity |-> c]
Single == Open(Slots, 1)
JustSingle == {Single}
Group == Open(Slots, 2)
\* An omitted capacity, a group slot, and a schedule without s2.
Changing == {Open(Slots, 0), Group, Open({s1}, 1)}

Interchangeable == Permutations(Requests) \cup Permutations(Viewings)
=============================================================================
