-------------------------- MODULE PairListsProofs --------------------------
(***************************************************************************)
(* The match lists of PairLists.tla show every interest once, for any      *)
(* users, profiles, listings and overlapping requests.  What the proof     *)
(* adds to InterestProofs.tla: a soft-deleted row belongs to a deleted     *)
(* account, because only the account deletions flag interests and matches. *)
(***************************************************************************)
EXTENDS PairLists, InterestProofs

Departed(pr) == TenantOf[pr[1]] \in gone \/ LandlordOf[pr[2]] \in gone

FlaggedByDeparture ==
  \A pr \in Pairs :
    /\ match[pr].deleted => Departed(pr)
    /\ \A a \in Roles : interest[pr][a].deleted => Departed(pr)

\* What a deletion has locked belongs to the user it deletes.
ErasesItsOwn ==
  \A u \in Users :
    /\ \A k \in erasure[u].interests : OwnedBy(u, k[1])
    /\ \A pr \in erasure[u].matches : OwnedBy(u, pr)

LInv == FlaggedByDeparture /\ ErasesItsOwn
-----------------------------------------------------------------------------
LEMMA InitLInv == Init => LInv
BY DEF Init, LInv, FlaggedByDeparture, ErasesItsOwn, Promise!Init, Promise!NoRow, Roles,
       IdleErasure

\* Writing one interest row flags none if that row is not flagged by it.
LEMMA RowWritten ==
  ASSUME Typed, NEW p \in Pairs, NEW b \in Roles, NEW x,
         interest' = [interest EXCEPT ![p][b] = x],
         x.deleted => interest[p][b].deleted
  PROVE  \A pr \in Pairs, a \in Roles : interest'[pr][a].deleted => interest[pr][a].deleted
<1>1. interest \in [Pairs -> [Roles -> Promise!InterestRows]]
  BY DEF Typed, TypeOK, Promise!TypeOK, Roles
<1> QED
  BY <1>1

\* No transaction of a request flags a row, and none un-flags one.
LEMMA RequestsFlagNothing ==
  ASSUME Typed, NEW r \in Requests, RequestNext(r)
  PROVE  /\ UNCHANGED <<gone, erasure>>
         /\ \A pr \in Pairs :
              /\ match'[pr].deleted => match[pr].deleted
              /\ \A a \in Roles : interest'[pr][a].deleted => interest[pr][a].deleted
<1> USE DEF Typed, TypeOK, Promise!TypeOK, pairVars, entityVars, cascadeVars
<1>1. \A row \in Promise!InterestRows :
        /\ Promise!Upserted(row) \in Promise!InterestRows
        /\ Promise!Upserted(row).deleted = row.deleted
        /\ [row EXCEPT !.status = "withdrawn"] \in Promise!InterestRows
        /\ [row EXCEPT !.status = "withdrawn"].deleted = row.deleted
  BY DEF Promise!InterestRows, Promise!Upserted
<1>2. \A row \in Promise!MatchRows : Promise!InsertedOnce(row).deleted => row.deleted
  BY DEF Promise!MatchRows, Promise!InsertedOnce, Promise!NoRow
<1>3. ASSUME pc[r] # "idle" PROVE Pair(r) \in Pairs /\ Actor(r) \in Roles
  BY <1>3, SidesOfCalls DEF CallsInFlight, Pair, Actor, Roles
<1>4. ASSUME CommitPending(r) \/ CommitMatched(r)
      PROVE  \A pr \in Pairs, a \in Roles : interest'[pr][a].deleted => interest[pr][a].deleted
  <2>1. Pair(r) \in Pairs /\ Actor(r) \in Roles
    BY <1>3, <1>4 DEF CommitPending, CommitMatched
  <2>2. interest' = [interest EXCEPT ![Pair(r)][Actor(r)] =
                       Promise!Upserted(interest[Pair(r)][Actor(r)])]
    BY <1>4 DEF CommitPending, CommitMatched
  <2>3. interest[Pair(r)][Actor(r)] \in Promise!InterestRows
    BY <2>1 DEF Roles
  <2> DEFINE x == Promise!Upserted(interest[Pair(r)][Actor(r)])
  <2>4. x.deleted = interest[Pair(r)][Actor(r)].deleted
    BY <1>1, <2>3
  <2>5. interest' = [interest EXCEPT ![Pair(r)][Actor(r)] = x]
    BY <2>2
  <2> HIDE DEF x
  <2> QED
    BY <2>1, <2>4, <2>5, RowWritten
<1>5. CASE CommitPending(r)
  BY <1>4, <1>5 DEF CommitPending
<1>6. CASE CommitMatched(r)
  <2>1. Pair(r) \in Pairs /\ match[Pair(r)] \in Promise!MatchRows
    BY <1>3, <1>6 DEF CommitMatched
  <2>2. match' = [match EXCEPT ![Pair(r)] = Promise!InsertedOnce(match[Pair(r)])]
    BY <1>6 DEF CommitMatched
  <2>3. \A pr \in Pairs : match'[pr].deleted => match[pr].deleted
    BY <1>2, <2>1, <2>2
  <2> QED
    BY <1>4, <1>6, <2>3 DEF CommitMatched
<1>7. CASE CommitWithdrawn(r)
  <2>1. Pair(r) \in Pairs /\ Actor(r) \in Roles
    BY <1>3, <1>7 DEF CommitWithdrawn
  <2>2. interest[Pair(r)][Actor(r)] \in Promise!InterestRows
    BY <2>1 DEF Roles
  <2>3. \/ interest' = interest
        \/ interest' = [interest EXCEPT ![Pair(r)][Actor(r)] =
                          [interest[Pair(r)][Actor(r)] EXCEPT !.status = "withdrawn"]]
    BY <1>7, <2>1 DEF CommitWithdrawn
  <2>4. \A pr \in Pairs, a \in Roles : interest'[pr][a].deleted => interest[pr][a].deleted
    <3> DEFINE x == [interest[Pair(r)][Actor(r)] EXCEPT !.status = "withdrawn"]
    <3>1. x.deleted = interest[Pair(r)][Actor(r)].deleted
      BY <1>1, <2>2
    <3>2. interest' = interest \/ interest' = [interest EXCEPT ![Pair(r)][Actor(r)] = x]
      BY <2>3
    <3> HIDE DEF x
    <3> QED
      BY <2>1, <3>1, <3>2, RowWritten
  <2> QED
    BY <1>7, <2>4 DEF CommitWithdrawn
<1>8. ASSUME NEW at, NEW ok, NEW next, CheckThen(r, at, ok, next)
      PROVE  UNCHANGED <<pairVars, gone, erasure>>
  BY <1>8 DEF CheckThen
<1>9. CASE ReadProfile(r) \/ ReadListing(r) \/ CheckBlocks(r) \/ CheckOwner(r) \/ CheckMatched(r)
  BY <1>8, <1>9 DEF ReadProfile, ReadListing, CheckBlocks, CheckOwner, CheckMatched
<1>10. CASE \E kind \in Kinds, u \in Users, p \in Pairs : Call(r, kind, u, p)
  BY <1>10 DEF Call
<1>11. CASE \/ AcquireLock(r) \/ UpsertInterest(r) \/ CheckCounter(r) \/ InsertMatch(r)
            \/ UpdateInterest(r) \/ Abort(r)
  BY <1>11 DEF AcquireLock, UpsertInterest, CheckCounter, InsertMatch, UpdateInterest, Abort
<1> QED
  BY <1>5, <1>6, <1>7, <1>9, <1>10, <1>11 DEF RequestNext, Proceed

\* The rented cascade marks rows, and does not flag them.
LEMMA ListingsFlagNothing ==
  ASSUME Typed, NEW l \in Listings, ListingNext(l)
  PROVE  /\ UNCHANGED <<gone, erasure, interest>>
         /\ \A pr \in Pairs : match'[pr].deleted => match[pr].deleted
<1> USE DEF Typed, TypeOK, Promise!TypeOK, pairVars, entityVars, cascadeVars
<1>1. CASE CommitRented(l)
  <2>1. \A pr \in Pairs :
          match'[pr] \in {match[pr], [match[pr] EXCEPT !.status = "listing_rented"]}
    BY <1>1 DEF CommitRented
  <2>2. \A pr \in Pairs : match[pr] \in Promise!MatchRows
    OBVIOUS
  <2>3. \A row \in Promise!MatchRows :
          [row EXCEPT !.status = "listing_rented"].deleted = row.deleted
    BY DEF Promise!MatchRows
  <2>4. \A pr \in Pairs : match'[pr].deleted => match[pr].deleted
    BY <2>1, <2>2, <2>3
  <2> QED
    BY <1>1, <2>4 DEF CommitRented
<1> QED
  BY <1>1 DEF ListingNext, ActivateListing, PauseListing, DeleteListing, SetListing, StartRented,
       RentListing, RentMatches, AbortRented, AdminRemoveListing, AdminRestoreListing

\* A deletion flags what it has locked, and the account is gone with that commit.
LEMMA CommitFlags ==
  ASSUME Typed, LInv, NEW u \in Users, CommitErasure(u)
  PROVE  LInv'
<1> USE DEF Typed, TypeOK, Promise!TypeOK
<1>1. gone' = gone \cup {u} /\ erasure' = [erasure EXCEPT ![u] = IdleErasure]
  BY DEF CommitErasure
<1>2. \A pr \in Pairs : OwnedBy(u, pr) \/ Departed(pr) => Departed(pr)'
  BY <1>1 DEF OwnedBy, Departed
<1>3. ASSUME NEW pr \in Pairs, match'[pr].deleted PROVE Departed(pr)'
  <2>1. match'[pr] = IF pr \in erasure[u].matches
                     THEN [match[pr] EXCEPT !.deleted = TRUE] ELSE match[pr]
    BY DEF CommitErasure
  <2> QED
    BY <1>2, <1>3, <2>1 DEF LInv, FlaggedByDeparture, ErasesItsOwn
<1>4. ASSUME NEW pr \in Pairs, NEW a \in Roles, interest'[pr][a].deleted PROVE Departed(pr)'
  <2>1. interest'[pr][a] = IF <<pr, a>> \in erasure[u].interests
                           THEN [interest[pr][a] EXCEPT !.deleted = TRUE] ELSE interest[pr][a]
    BY DEF CommitErasure
  <2>2. <<pr, a>> \in erasure[u].interests => OwnedBy(u, pr)
    BY DEF LInv, ErasesItsOwn
  <2> QED
    BY <1>2, <1>4, <2>1, <2>2 DEF LInv, FlaggedByDeparture
<1>5. FlaggedByDeparture'
  BY <1>3, <1>4 DEF FlaggedByDeparture
<1>6. ErasesItsOwn'
  BY <1>1 DEF LInv, ErasesItsOwn, IdleErasure, OwnedBy
<1> QED
  BY <1>5, <1>6 DEF LInv

LEMMA LInvKept == Typed /\ LInv /\ [Next]_vars => LInv'
<1> SUFFICES ASSUME Typed, LInv, [Next]_vars PROVE LInv'
  OBVIOUS
<1>1. ASSUME UNCHANGED <<gone, erasure>>,
             \A pr \in Pairs :
               /\ match'[pr].deleted => match[pr].deleted
               /\ \A a \in Roles : interest'[pr][a].deleted => interest[pr][a].deleted
      PROVE  LInv'
  BY <1>1 DEF LInv, FlaggedByDeparture, ErasesItsOwn, Departed, OwnedBy
<1>2. ASSUME NEW r \in Requests, RequestNext(r) PROVE LInv'
  BY <1>1, <1>2, RequestsFlagNothing
<1>3. ASSUME NEW l \in Listings, ListingNext(l) PROVE LInv'
  BY <1>1, <1>3, ListingsFlagNothing
<1>4. ASSUME NEW p \in Profiles, ProfileNext(p) PROVE LInv'
  BY <1>1, <1>4 DEF ProfileNext, ToggleTenantProfileStatus, DeleteTenantProfile, SetProfile,
                    pairVars, cascadeVars
<1>5. ASSUME NEW u \in Users, UserNext(u) PROVE LInv'
  <2> USE DEF entityVars, pairVars, requestVars, cascadeVars
  <2>1. CASE \E v \in Users : BlockUser(u, v) \/ UnblockUser(u, v)
    BY <1>1, <2>1 DEF BlockUser, UnblockUser
  <2>2. ASSUME UNCHANGED <<gone, interest, match>>,
               NEW x, erasure' = [erasure EXCEPT ![u] = x],
               \A k \in x.interests : OwnedBy(u, k[1]),
               \A pr \in x.matches : OwnedBy(u, pr)
        PROVE  LInv'
    <3>1. FlaggedByDeparture'
      BY <2>2 DEF LInv, FlaggedByDeparture, Departed
    <3>2. \A v \in Users : erasure'[v] = IF v = u THEN x ELSE erasure[v]
      BY <2>2 DEF Typed, TypeOK
    <3>3. ErasesItsOwn'
      BY <2>2, <3>2 DEF LInv, ErasesItsOwn, OwnedBy
    <3> QED
      BY <3>1, <3>3 DEF LInv
  <2>3. erasure[u] \in ErasureStates /\ IdleErasure \in ErasureStates
    BY DEF Typed, TypeOK, ErasureStates, IdleErasure
  <2>4. CASE \E by \in {"self", "admin"} : StartErasure(u, by)
    <3>1. PICK by \in {"self", "admin"} : StartErasure(u, by)
      BY <2>4
    <3> DEFINE x == [IdleErasure EXCEPT !.at = "interests", !.by = by]
    <3>2. x.interests = {} /\ x.matches = {}
      BY DEF IdleErasure
    <3>3. UNCHANGED <<gone, interest, match>> /\ erasure' = [erasure EXCEPT ![u] = x]
      BY <3>1 DEF StartErasure
    <3> HIDE DEF x
    <3> QED
      BY <2>2, <3>2, <3>3
  <2>5. CASE EraseInterests(u)
    <3> DEFINE rows == IF erasure[u].by = "self" THEN {}
                       ELSE {k \in Pairs \X Roles :
                               /\ TenantOf[k[1][1]] = u
                               /\ Live(interest[k[1]][k[2]])}
               x == [erasure[u] EXCEPT !.at = "matches", !.interests = rows]
    <3>1. erasure' = [erasure EXCEPT ![u] = x] /\ UNCHANGED <<gone, interest, match>>
      BY <2>5 DEF EraseInterests
    <3>2. x.interests = rows /\ x.matches = erasure[u].matches
      BY <2>3 DEF ErasureStates
    <3>3. \A k \in rows : OwnedBy(u, k[1])
      BY DEF OwnedBy
    <3>4. \A pr \in erasure[u].matches : OwnedBy(u, pr)
      BY DEF LInv, ErasesItsOwn
    <3> HIDE DEF x, rows
    <3> QED
      BY <2>2, <3>1, <3>2, <3>3, <3>4
  <2>6. CASE EraseMatches(u)
    <3> DEFINE rows == {pr \in Pairs : OwnedBy(u, pr) /\ Live(match[pr])}
               x == [erasure[u] EXCEPT !.at = "commit", !.matches = rows]
    <3>1. UNCHANGED <<gone, interest, match>> /\ erasure' = [erasure EXCEPT ![u] = x]
      BY <2>6 DEF EraseMatches
    <3>2. x.interests = erasure[u].interests /\ x.matches = rows
      BY <2>3 DEF ErasureStates
    <3>3. \A k \in erasure[u].interests : OwnedBy(u, k[1])
      BY DEF LInv, ErasesItsOwn
    <3>4. \A pr \in rows : OwnedBy(u, pr)
      OBVIOUS
    <3> HIDE DEF x, rows
    <3> QED
      BY <2>2, <3>1, <3>2, <3>3, <3>4
  <2>7. CASE AbortErasure(u)
    <3>1. UNCHANGED <<gone, interest, match>> /\ erasure' = [erasure EXCEPT ![u] = IdleErasure]
      BY <2>7 DEF AbortErasure
    <3>2. IdleErasure.interests = {} /\ IdleErasure.matches = {}
      BY DEF IdleErasure
    <3> HIDE DEF IdleErasure
    <3> QED
      BY <2>2, <3>1, <3>2
  <2> QED
    BY <1>5, <2>1, <2>4, <2>5, <2>6, <2>7, CommitFlags
    DEF UserNext, DeleteAccount, AdminDeleteUser
<1>6. CASE UNCHANGED vars
  BY <1>1, <1>6 DEF vars, entityVars, pairVars, cascadeVars
<1> QED
  BY <1>2, <1>3, <1>4, <1>5, <1>6 DEF Next

\* Only a deleted account's rows are flagged: deleting a listing or a profile, renting,
\* expressing and withdrawing never do (reports_blocks.go:126-150, admin.go).
THEOREM OnlyDeparturesFlag == Spec => []LInv
<1>1. IInv => Typed
  BY DEF IInv
<1> QED
  BY <1>1, InitLInv, LInvKept, Inductive, PTL DEF Spec

\* Every interest of a live pair is in exactly one list of either side: the three
\* queries of matches.go over what the transactions of interests.go commit.
THEOREM ListedOnce == Spec => []EveryInterestListedOnce
<1>1. ASSUME Typed, AInv, LInv PROVE EveryInterestListedOnce
  <2> SUFFICES ASSUME NEW pr \in Pairs, NEW a \in Roles,
                      Visible(interest[pr][a]), ~Departed(pr), ~PairBlocked(pr)
               PROVE  /\ InMutual(pr) # InOutgoing(pr, a)
                      /\ InMutual(pr) # InIncoming(pr, Other(a))
    BY DEF EveryInterestListedOnce, Departed
  <2>1. a \in Promise!Roles /\ Other(a) \in Roles /\ Other(Other(a)) = a
          /\ \A b \in Roles : b = a \/ b = Other(a)
    BY DEF Roles, Other, Promise!Roles, Promise!Other
  <2>2. ~match[pr].deleted /\ ~interest[pr][Other(a)].deleted
    BY <1>1, <2>1 DEF LInv, FlaggedByDeparture
  <2>3. match[pr] \in Promise!MatchRows
    BY <1>1 DEF Typed, TypeOK, Promise!TypeOK
  <2>4. InMutual(pr) <=> match[pr].status # "none"
    BY <2>2, <2>3 DEF InMutual, Promise!MatchRows
  <2>5. match[pr].status # "none" <=> Visible(interest[pr][Other(a)])
    <3>1. ASSUME match[pr].status # "none" PROVE interest[pr][Other(a)].status = "active"
      BY <1>1, <2>1, <2>2, <3>1 DEF AInv, Promise!LiveMatchIsMutual, Promise!Live, Promise!Exists,
         Roles
    <3>2. ASSUME Visible(interest[pr][Other(a)]) PROVE match[pr].status # "none"
      BY <1>1, <2>1, <3>2 DEF AInv, Promise!MutualInterestMatched, Promise!Exists, Visible, Roles,
         Promise!Visible
    <3> QED
      BY <2>2, <3>1, <3>2 DEF Visible, Promise!Visible
  <2>6. InOutgoing(pr, a) <=> ~Visible(interest[pr][Other(a)])
    BY DEF InOutgoing
  <2>7. InIncoming(pr, Other(a)) <=> ~Visible(interest[pr][Other(a)])
    BY <2>1 DEF InIncoming
  <2> QED
    BY <2>4, <2>5, <2>6, <2>7 DEF InMutual, InOutgoing, InIncoming
<1>2. IInv => Typed
  BY DEF IInv
<1> QED
  BY <1>1, <1>2, Inductive, PromiseIsKept, PromiseInductive, OnlyDeparturesFlag, PTL
  DEF PromiseKept
=============================================================================
