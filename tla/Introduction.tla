---------------------------- MODULE Introduction ----------------------------
(***************************************************************************)
(* What Zumeet promises about one tenant_profile <-> listing pair: the two *)
(* sides are introduced to each other exactly when both have expressed     *)
(* interest, and an introduction is never taken back.  Every operation is  *)
(* one atomic step; Interest.tla gives the transactions that implement it. *)
(***************************************************************************)
CONSTANT Pairs            \* the (tenant profile, listing) pairs

VARIABLES interest,       \* the interests table: one row per pair and side
          match,          \* the matches table: one row per pair
          revealed        \* who was answered "matched" with the other's contact

absVars == <<interest, match, revealed>>

Roles == {"tenant", "landlord"}

Other(a) == IF a = "tenant" THEN "landlord" ELSE "tenant"

\* A soft-deleted row keeps its place in the UNIQUE index, so it is a flag.
InterestRows == [status : {"none", "active", "withdrawn"}, deleted : BOOLEAN]
MatchRows == [status : {"none", "active", "listing_rented"}, deleted : BOOLEAN]

NoRow == [status |-> "none", deleted |-> FALSE]

\* The WHERE clauses of the queries: an interest that counts, a match that does.
Visible(row) == row.status = "active" /\ ~row.deleted
Exists(row) == row.status # "none"
Live(row) == Exists(row) /\ ~row.deleted

\* INSERT ... ON CONFLICT DO UPDATE SET status='active': deleted_at is kept.
Upserted(row) == [row EXCEPT !.status = "active"]

\* INSERT ... ON CONFLICT (tenant_profile_id, listing_id) DO NOTHING.
InsertedOnce(row) == IF Exists(row) THEN row ELSE [NoRow EXCEPT !.status = "active"]
-----------------------------------------------------------------------------
Init ==
  /\ interest = [pr \in Pairs |-> [a \in Roles |-> NoRow]]
  /\ match = [pr \in Pairs |-> NoRow]
  /\ revealed = {}

\* One side expresses interest and the other side has not: "pending".
ExpressPending(pr, a) ==
  /\ ~Visible(interest[pr][Other(a)])
  /\ interest' = [interest EXCEPT ![pr][a] = Upserted(@)]
  /\ UNCHANGED <<match, revealed>>

\* One side expresses interest and the other side has too: "matched".
ExpressMatched(pr, a) ==
  /\ interest[pr][Other(a)].status = "active"
  /\ interest' = [interest EXCEPT ![pr][a] = Upserted(@)]
  /\ match' = [match EXCEPT ![pr] = InsertedOnce(@)]
  /\ revealed' = revealed \cup {<<pr, a>>}

\* A side takes its interest back, which a live match forbids.
Withdraw(pr, a) ==
  /\ ~Live(match[pr])
  /\ interest' = [interest EXCEPT ![pr][a].status = "withdrawn"]
  /\ UNCHANGED <<match, revealed>>

\* A listing is rented out: some of its matches are flagged, none is lost.
Rent(S) ==
  /\ \A pr \in S : Exists(match[pr])
  /\ match' = [pr \in Pairs |-> IF pr \in S THEN [match[pr] EXCEPT !.status = "listing_rented"]
                                            ELSE match[pr]]
  /\ UNCHANGED <<interest, revealed>>

\* An account goes: interests I and matches M are soft-deleted.
Erase(I, M) ==
  /\ \A pr \in M : Exists(match[pr])
  /\ interest' = [pr \in Pairs |-> [a \in Roles |->
                   IF <<pr, a>> \in I THEN [interest[pr][a] EXCEPT !.deleted = TRUE]
                                      ELSE interest[pr][a]]]
  /\ match' = [pr \in Pairs |-> IF pr \in M THEN [match[pr] EXCEPT !.deleted = TRUE]
                                            ELSE match[pr]]
  /\ UNCHANGED revealed

Next ==
  \/ \E pr \in Pairs, a \in Roles :
        ExpressPending(pr, a) \/ ExpressMatched(pr, a) \/ Withdraw(pr, a)
  \/ \E S \in SUBSET Pairs : Rent(S)
  \/ \E I \in SUBSET (Pairs \X Roles), M \in SUBSET Pairs : Erase(I, M)

Spec == Init /\ [][Next]_absVars
-----------------------------------------------------------------------------
TypeOK ==
  /\ interest \in [Pairs -> [Roles -> InterestRows]]
  /\ match \in [Pairs -> MatchRows]
  /\ revealed \subseteq Pairs \X Roles

\* No missed match: once both sides' interests count, the pair has a match row,
\* whichever side was first and however the two calls overlapped
\* (interests.go:75, "to prevent missed matches").
MutualInterestMatched ==
  \A pr \in Pairs :
    (\A a \in Roles : Visible(interest[pr][a])) => Exists(match[pr])

\* No one-sided match: while a match is live neither side's interest is absent
\* or withdrawn (interests.go:265-268, a revealed contact cannot be unrevealed).
LiveMatchIsMutual ==
  \A pr \in Pairs :
    Live(match[pr]) => \A a \in Roles : interest[pr][a].status = "active"

\* A contact is only ever revealed for a pair that was matched
\* (README.md:130, contact_info is never returned before mutual match).
RevealedOnlyMatched == \A k \in revealed : Exists(match[k[1]])

\* A match row is created once: it is never removed, never un-deleted, and a
\* rented match never becomes active again (the ON CONFLICT DO NOTHING of
\* interests.go:196 together with the cascades that write the table).
MatchNeverRevived ==
  [][\A pr \in Pairs :
       /\ Exists(match[pr]) => Exists(match'[pr])
       /\ match[pr].deleted => match'[pr].deleted
       /\ match[pr].status = "listing_rented" => match'[pr].status = "listing_rented"]_absVars
=============================================================================
