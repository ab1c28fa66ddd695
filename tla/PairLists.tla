----------------------------- MODULE PairLists -----------------------------
(***************************************************************************)
(* The read side of a pair: which of the lists of a user shows it.  Each   *)
(* definition is the WHERE clause of one query, over the tables of         *)
(* Interest.tla.                                                           *)
(***************************************************************************)
EXTENDS Interest

PairBlocked(pr) == Blocked(TenantOf[pr[1]], LandlordOf[pr[2]])

InMutual_ActiveOnly(pr) ==
  match[pr].status = "active" /\ ~match[pr].deleted /\ ~PairBlocked(pr)

\* GetAllMutualMatches, the list that carries contact_info.
InMutual(pr) ==
  /\ match[pr].status \in {"active", "listing_rented"} /\ ~match[pr].deleted
  /\ ~PairBlocked(pr)

\* GetAllOutgoingInterests and GetAllIncomingInterests as side a sees them.
InOutgoing(pr, a) ==
  /\ Visible(interest[pr][a]) /\ ~Visible(interest[pr][Other(a)])
  /\ ~PairBlocked(pr)

InIncoming(pr, a) ==
  /\ Visible(interest[pr][Other(a)]) /\ ~Visible(interest[pr][a])
  /\ ~PairBlocked(pr)
-----------------------------------------------------------------------------
\* Between two live accounts that have not blocked each other an interest is
\* never lost and never shown twice: the one who expressed it finds the pair in
\* exactly one of outgoing and mutual, the other side in exactly one of incoming
\* and mutual (the three queries of matches.go over what interests.go commits).
EveryInterestListedOnce ==
  \A pr \in Pairs, a \in Roles :
    /\ Visible(interest[pr][a])
    /\ TenantOf[pr[1]] \notin gone /\ LandlordOf[pr[2]] \notin gone
    /\ ~PairBlocked(pr)
    => /\ InMutual(pr) # InOutgoing(pr, a)
       /\ InMutual(pr) # InIncoming(pr, Other(a))

\* listings.go:439, "mark all active matches for this listing as listing_rented".
RentedHasNoActiveMatch ==
  \A pr \in Pairs :
    listing[pr[2]] = "rented" /\ Live(match[pr]) => match[pr].status # "active"
=============================================================================
