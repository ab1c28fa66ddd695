--------------------------- MODULE InterestProofs ---------------------------
(***************************************************************************)
(* Proofs about Interest.tla for any users, profiles, listings, number of  *)
(* overlapping requests and any lock hash.                                 *)
(*                                                                         *)
(* The argument: the advisory lock excludes (LockExclusion), so what a     *)
(* transaction checked still holds when it commits (ChecksStillHold), so   *)
(* every commit is one step of Introduction.tla (PromiseIsKept), whose     *)
(* invariants are easy because its steps are atomic.                       *)
(***************************************************************************)
EXTENDS Interest, TLAPS

\* A started transaction has a call.
CallsInFlight == \A r \in Requests : pc[r] # "idle" => op[r] \in Calls

\* The rows a cascade has locked in matches are rows that exist.
LockedRowsExist ==
  /\ \A l \in Listings : \A pr \in rent[l].rows : Exists(match[pr])
  /\ \A u \in Users : \A pr \in erasure[u].matches : Exists(match[pr])

\* The advisory lock serializes the transactions of a pair, and of pairs whose
\* keys collide (interests.go:85-88).
LockExclusion ==
  \A r, s \in Requests :
    r # s /\ Locked(r) /\ Locked(s) => LockHash[Pair(r)] # LockHash[Pair(s)]

Typed == TypeOK /\ CallsInFlight
IInv == Typed /\ LockExclusion /\ ChecksStillHold /\ LockedRowsExist

-----------------------------------------------------------------------------
(* The row operators of Introduction.tla.                                   *)

LEMMA RowOps ==
  /\ \A row \in Promise!InterestRows :
       /\ Promise!Upserted(row) \in Promise!InterestRows
       /\ Promise!Upserted(row).status = "active"
       /\ [row EXCEPT !.status = "withdrawn"] \in Promise!InterestRows
       /\ [row EXCEPT !.deleted = TRUE] \in Promise!InterestRows
  /\ \A row \in Promise!MatchRows :
       /\ Promise!InsertedOnce(row) \in Promise!MatchRows
       /\ Promise!Exists(Promise!InsertedOnce(row))
       /\ [row EXCEPT !.status = "listing_rented"] \in Promise!MatchRows
       /\ [row EXCEPT !.deleted = TRUE] \in Promise!MatchRows
BY DEF Promise!InterestRows, Promise!MatchRows, Promise!Upserted, Promise!InsertedOnce,
       Promise!Exists, Promise!NoRow

LEMMA NestedUpdate ==
  ASSUME NEW S, NEW T, NEW X, NEW f \in [S -> [T -> X]],
         NEW s \in S, NEW t \in T, NEW x \in X
  PROVE  /\ [f EXCEPT ![s][t] = x] \in [S -> [T -> X]]
         /\ \A u \in S, v \in T :
              [f EXCEPT ![s][t] = x][u][v] = IF u = s /\ v = t THEN x ELSE f[u][v]
OBVIOUS

LEMMA SidesOfCalls ==
  /\ \A c \in Calls : c.pair \in Pairs /\ c.user \in Users /\ RoleOf(c.user) \in Promise!Roles
  /\ \A a \in Promise!Roles : Promise!Other(a) \in Promise!Roles /\ Promise!Other(a) # a
BY DEF Calls, RoleOf, Promise!Roles, Promise!Other

-----------------------------------------------------------------------------
(* Type correctness.                                                        *)

LEMMA InitTyped == Init => Typed
BY OwnersAssumption
   DEF Init, Typed, TypeOK, CallsInFlight, Promise!Init, Promise!TypeOK, Promise!NoRow,
       Promise!InterestRows, Promise!MatchRows, ProfileStates, ListingStates, RequestSteps,
       NoCall, IdleRent, IdleErasure, RentStates, ErasureStates

LEMMA RequestTyped ==
  ASSUME Typed, NEW r \in Requests, RequestNext(r)
  PROVE  Typed'
<1> USE DEF Typed, TypeOK, CallsInFlight, entityVars, pairVars, cascadeVars, Promise!TypeOK
<1>1. ASSUME NEW kind \in Kinds, NEW u \in Users, NEW pr \in Pairs, Call(r, kind, u, pr)
      PROVE  Typed'
  BY <1>1 DEF Call, Calls, RequestSteps
<1>2. CASE AcquireLock(r)
  BY <1>2 DEF AcquireLock, RequestSteps, LockedSteps, ExpressSteps, WithdrawSteps
<1>3. ASSUME NEW at, NEW ok, NEW next, next \in RequestSteps \ {"idle"}, at # "idle",
             CheckThen(r, at, ok, next)
      PROVE  Typed'
  BY <1>3 DEF CheckThen, Rollback, RequestSteps
<1>4. CASE ReadProfile(r) \/ ReadListing(r) \/ CheckBlocks(r) \/ CheckOwner(r) \/ CheckMatched(r)
  BY <1>3, <1>4 DEF ReadProfile, ReadListing, CheckBlocks, CheckOwner, CheckMatched,
                    RequestSteps, LockedSteps, ExpressSteps, WithdrawSteps
<1>5. CASE UpsertInterest(r) \/ CheckCounter(r) \/ InsertMatch(r) \/ UpdateInterest(r)
  BY <1>5 DEF UpsertInterest, CheckCounter, InsertMatch, UpdateInterest,
              RequestSteps, LockedSteps, ExpressSteps, WithdrawSteps
<1>6. CASE Abort(r)
  BY <1>6 DEF Abort, Rollback, RequestSteps
<1>7. CASE CommitPending(r) \/ CommitMatched(r) \/ CommitWithdrawn(r)
  <2>1. pc[r] # "idle" /\ op[r] \in Calls
    BY <1>7 DEF CommitPending, CommitMatched, CommitWithdrawn
  <2>2. Pair(r) \in Pairs /\ Actor(r) \in Promise!Roles
    BY <2>1, SidesOfCalls DEF Pair, Actor
  <2>3. (pc \in [Requests -> RequestSteps] /\ op \in [Requests -> Calls \cup {NoCall}] /\ CallsInFlight)'
    BY <1>7 DEF CommitPending, CommitMatched, CommitWithdrawn, Rollback, RequestSteps
  <2> DEFINE row == interest[Pair(r)][Actor(r)]
  <2>4. row \in Promise!InterestRows /\ match[Pair(r)] \in Promise!MatchRows
    BY <2>2
  <2>5. /\ Promise!Upserted(row) \in Promise!InterestRows
        /\ [row EXCEPT !.status = "withdrawn"] \in Promise!InterestRows
        /\ Promise!InsertedOnce(match[Pair(r)]) \in Promise!MatchRows
    BY <2>4, RowOps
  <2>6. interest' \in [Pairs -> [Promise!Roles -> Promise!InterestRows]]
    <3>1. \/ interest' = [interest EXCEPT ![Pair(r)][Actor(r)] = Promise!Upserted(row)]
          \/ interest' = [interest EXCEPT ![Pair(r)][Actor(r)] = [row EXCEPT !.status = "withdrawn"]]
          \/ interest' = interest
      BY <1>7 DEF CommitPending, CommitMatched, CommitWithdrawn
    <3>2. interest \in [Pairs -> [Promise!Roles -> Promise!InterestRows]]
      OBVIOUS
    <3>3. ASSUME NEW x \in Promise!InterestRows
          PROVE  [interest EXCEPT ![Pair(r)][Actor(r)] = x]
                   \in [Pairs -> [Promise!Roles -> Promise!InterestRows]]
      <4> HIDE DEF row, Typed, TypeOK, Promise!TypeOK
      <4> QED
        BY <3>2, <2>2, NestedUpdate
    <3> QED
      BY <3>1, <3>2, <3>3, <2>5
  <2>7. match' \in [Pairs -> Promise!MatchRows]
    BY <1>7, <2>2, <2>5 DEF CommitPending, CommitMatched, CommitWithdrawn
  <2>8. revealed' \subseteq Pairs \X Promise!Roles
    BY <1>7, <2>2 DEF CommitPending, CommitMatched, CommitWithdrawn
  <2> QED
    BY <1>7, <2>3, <2>6, <2>7, <2>8 DEF CommitPending, CommitMatched, CommitWithdrawn
<1> QED
  BY <1>1, <1>2, <1>4, <1>5, <1>6, <1>7 DEF RequestNext, Proceed

LEMMA ListingTyped ==
  ASSUME Typed, NEW l \in Listings, ListingNext(l)
  PROVE  Typed'
<1> USE DEF Typed, TypeOK, CallsInFlight, entityVars, pairVars, requestVars, cascadeVars,
            Promise!TypeOK
<1>1. CASE ActivateListing(l) \/ PauseListing(l) \/ DeleteListing(l)
  BY <1>1 DEF ActivateListing, PauseListing, DeleteListing, SetListing, ListingStates
<1>2. CASE StartRented(l) \/ RentListing(l) \/ RentMatches(l) \/ AbortRented(l)
  <2>1. \E at \in {"listing", "matches", "commit", "idle"}, rows \in SUBSET Pairs :
           rent' = [rent EXCEPT ![l] = [at |-> at, rows |-> rows]]
    <3>1. rent[l] = [at |-> rent[l].at, rows |-> rent[l].rows] /\ rent[l].rows \in SUBSET Pairs
      BY DEF RentStates
    <3>2. CASE RentMatches(l)
      BY <3>2 DEF RentMatches
    <3>3. CASE AbortRented(l)
      BY <3>3 DEF AbortRented, IdleRent
    <3> QED
      BY <1>2, <3>1, <3>2, <3>3 DEF StartRented, RentListing
  <2>2. rent' \in [Listings -> RentStates]
    BY <2>1 DEF RentStates
  <2> QED
    BY <1>2, <2>2 DEF StartRented, RentListing, RentMatches, AbortRented
<1>3. CASE CommitRented(l)
  <2>1. match' \in [Pairs -> Promise!MatchRows]
    BY <1>3, RowOps DEF CommitRented
  <2>2. listing' \in [Listings -> ListingStates] /\ rent' \in [Listings -> RentStates]
    BY <1>3 DEF CommitRented, ListingStates, RentStates, IdleRent
  <2> QED
    BY <1>3, <2>1, <2>2 DEF CommitRented
<1>4. CASE AdminRemoveListing(l) \/ AdminRestoreListing(l)
  BY <1>4 DEF AdminRemoveListing, AdminRestoreListing
<1> QED
  BY <1>1, <1>2, <1>3, <1>4 DEF ListingNext

LEMMA ProfileTyped ==
  ASSUME Typed, NEW p \in Profiles, ProfileNext(p)
  PROVE  Typed'
BY DEF Typed, TypeOK, CallsInFlight, pairVars, requestVars, cascadeVars, Promise!TypeOK,
       ProfileNext, ToggleTenantProfileStatus, DeleteTenantProfile, SetProfile, ProfileStates

LEMMA UserTyped ==
  ASSUME Typed, NEW u \in Users, UserNext(u)
  PROVE  Typed'
<1> USE DEF Typed, TypeOK, CallsInFlight, entityVars, pairVars, requestVars, cascadeVars,
            Promise!TypeOK
<1>1. ASSUME NEW v \in Users, BlockUser(u, v) \/ UnblockUser(u, v)
      PROVE  Typed'
  BY <1>1 DEF BlockUser, UnblockUser
<1>2. CASE DeleteAccount(u) \/ AdminDeleteUser(u) \/ AbortErasure(u)
  <2>1. PICK at \in {"idle", "interests"}, by \in {"self", "admin"} :
           erasure' = [erasure EXCEPT ![u] = [at |-> at, by |-> by,
                                              interests |-> {}, matches |-> {}]]
    BY <1>2 DEF DeleteAccount, AdminDeleteUser, AbortErasure, StartErasure, IdleErasure
  <2>2. [at |-> at, by |-> by, interests |-> {}, matches |-> {}] \in ErasureStates
    BY DEF ErasureStates
  <2>3. erasure' \in [Users -> ErasureStates]
    BY <2>1, <2>2
  <2> QED
    BY <1>2, <2>3 DEF DeleteAccount, AdminDeleteUser, AbortErasure, StartErasure
<1>3. CASE EraseInterests(u)
  <2>1. PICK rows \in SUBSET (Pairs \X Roles) :
          erasure' = [erasure EXCEPT ![u].at = "matches", ![u].interests = rows]
    BY <1>3 DEF EraseInterests
  <2>2. erasure' \in [Users -> ErasureStates]
    <3>1. /\ erasure'[u] = [erasure[u] EXCEPT !.at = "matches", !.interests = rows]
          /\ erasure' = [w \in Users |-> erasure'[w]]
          /\ \A w \in Users \ {u} : erasure'[w] = erasure[w]
      BY <2>1
    <3>2. [erasure[u] EXCEPT !.at = "matches", !.interests = rows] \in ErasureStates
      BY DEF ErasureStates
    <3> QED
      BY <3>1, <3>2
  <2> QED
    BY <1>3, <2>2 DEF EraseInterests
<1>4. CASE EraseMatches(u)
  <2>1. PICK rows \in SUBSET Pairs :
          erasure' = [erasure EXCEPT ![u].at = "commit", ![u].matches = rows]
    BY <1>4 DEF EraseMatches
  <2>2. erasure' \in [Users -> ErasureStates]
    <3>1. /\ erasure'[u] = [erasure[u] EXCEPT !.at = "commit", !.matches = rows]
          /\ erasure' = [w \in Users |-> erasure'[w]]
          /\ \A w \in Users \ {u} : erasure'[w] = erasure[w]
      BY <2>1
    <3>2. [erasure[u] EXCEPT !.at = "commit", !.matches = rows] \in ErasureStates
      BY DEF ErasureStates
    <3> QED
      BY <3>1, <3>2
  <2> QED
    BY <1>4, <2>2 DEF EraseMatches
<1>5. CASE CommitErasure(u)
  <2>1. interest' \in [Pairs -> [Promise!Roles -> Promise!InterestRows]]
    BY <1>5, RowOps DEF CommitErasure, Roles
  <2>2. match' \in [Pairs -> Promise!MatchRows]
    BY <1>5, RowOps DEF CommitErasure
  <2>3. erasure' \in [Users -> ErasureStates]
    BY <1>5 DEF CommitErasure, ErasureStates, IdleErasure
  <2>4. profile' \in [Profiles -> ProfileStates] /\ listing' \in [Listings -> ListingStates]
    BY <1>5 DEF CommitErasure, ProfileStates, ListingStates
  <2> QED
    BY <1>5, <2>1, <2>2, <2>3, <2>4 DEF CommitErasure
<1> QED
  BY <1>1, <1>2, <1>3, <1>4, <1>5 DEF UserNext

LEMMA TypedKept ==
  ASSUME Typed, [Next]_vars
  PROVE  Typed'
<1>1. ASSUME UNCHANGED vars PROVE Typed'
  BY <1>1 DEF Typed, TypeOK, CallsInFlight, vars, entityVars, pairVars, requestVars,
              cascadeVars, Promise!TypeOK
<1> QED
  BY <1>1, RequestTyped, ListingTyped, ProfileTyped, UserTyped DEF Next

\* Every variable keeps its type whatever the handlers do.
THEOREM TypeCorrect == Spec => []TypeOK
<1>1. Typed /\ [Next]_vars => Typed'
  BY TypedKept
<1> QED
  BY <1>1, InitTyped, PTL DEF Spec, Typed

-----------------------------------------------------------------------------
(* The advisory lock excludes.                                              *)

\* A step of one request leaves the others alone, keeps the call of a running
\* transaction, and enters the locked statements by AcquireLock only.
LEMMA RequestFrame ==
  ASSUME Typed, NEW r \in Requests, RequestNext(r)
  PROVE  /\ \A s \in Requests \ {r} : pc'[s] = pc[s] /\ op'[s] = op[s]
         /\ pc[r] # "idle" /\ pc'[r] # "idle" => op'[r] = op[r]
         /\ pc'[r] \in LockedSteps => Locked(r) \/ AcquireLock(r)
<1> USE DEF Typed, TypeOK, Locked, LockedSteps, ExpressSteps, WithdrawSteps
<1>1. ASSUME NEW kind \in Kinds, NEW u \in Users, NEW pr \in Pairs, Call(r, kind, u, pr)
      PROVE  pc[r] = "idle" /\ pc' = [pc EXCEPT ![r] = "lock"] /\ \E c : op' = [op EXCEPT ![r] = c]
  BY <1>1 DEF Call
<1>2. CASE \E kind \in Kinds, u \in Users, pr \in Pairs : Call(r, kind, u, pr)
  BY <1>1, <1>2
<1>3. CASE AcquireLock(r)
  BY <1>3 DEF AcquireLock
<1>4. ASSUME Proceed(r) \/ Abort(r)
      PROVE  /\ \/ Locked(r)
                \/ Abort(r)
             /\ \E at : pc' = [pc EXCEPT ![r] = at]
             /\ op' = op \/ (pc' = [pc EXCEPT ![r] = "idle"] /\ op' = [op EXCEPT ![r] = NoCall])
  <2>1. ASSUME NEW at, NEW ok, NEW next, CheckThen(r, at, ok, next)
        PROVE  /\ pc[r] = at
               /\ \E to : pc' = [pc EXCEPT ![r] = to]
               /\ op' = op \/ (pc' = [pc EXCEPT ![r] = "idle"] /\ op' = [op EXCEPT ![r] = NoCall])
    BY <2>1 DEF CheckThen, Rollback
  <2>2. CASE ReadProfile(r) \/ ReadListing(r) \/ CheckBlocks(r) \/ CheckOwner(r) \/ CheckMatched(r)
    BY <2>1, <2>2 DEF ReadProfile, ReadListing, CheckBlocks, CheckOwner, CheckMatched
  <2>3. CASE UpsertInterest(r) \/ CheckCounter(r) \/ InsertMatch(r) \/ UpdateInterest(r)
    BY <2>3 DEF UpsertInterest, CheckCounter, InsertMatch, UpdateInterest
  <2>4. CASE CommitPending(r) \/ CommitMatched(r) \/ CommitWithdrawn(r) \/ Abort(r)
    BY <2>4 DEF CommitPending, CommitMatched, CommitWithdrawn, Abort, Rollback
  <2> QED
    BY <1>4, <2>2, <2>3, <2>4 DEF Proceed
<1>5. CASE Proceed(r) \/ Abort(r)
  BY <1>4, <1>5 DEF Abort, Rollback
<1> QED
  BY <1>2, <1>3, <1>5 DEF RequestNext

\* Everything else leaves the requests alone.
LEMMA OthersKeepRequests ==
  ASSUME \/ \E l \in Listings : ListingNext(l)
         \/ \E p \in Profiles : ProfileNext(p)
         \/ \E u \in Users : UserNext(u)
  PROVE  UNCHANGED requestVars
BY DEF requestVars, ListingNext, ActivateListing, PauseListing, DeleteListing, SetListing,
       StartRented, RentListing, RentMatches, CommitRented, AbortRented, AdminRemoveListing,
       AdminRestoreListing, ProfileNext, ToggleTenantProfileStatus, DeleteTenantProfile,
       SetProfile, UserNext, BlockUser, UnblockUser, DeleteAccount, AdminDeleteUser,
       StartErasure, EraseInterests, EraseMatches, CommitErasure, AbortErasure

LEMMA LockExclusionKept ==
  ASSUME Typed, LockExclusion, [Next]_vars
  PROVE  LockExclusion'
<1>1. CASE UNCHANGED requestVars
  BY <1>1 DEF LockExclusion, requestVars, Locked, Pair
<1>2. ASSUME NEW r \in Requests, RequestNext(r) PROVE LockExclusion'
  <2>1. ASSUME NEW s \in Requests \ {r}, pc'[r] \in LockedSteps, pc'[s] \in LockedSteps
        PROVE  LockHash[op'[r].pair] # LockHash[op'[s].pair]
    <3>1. pc'[s] = pc[s] /\ op'[s] = op[s] /\ Locked(s)
      BY <1>2, <2>1, RequestFrame DEF Locked
    <3>2. op'[r] = op[r] /\ (Locked(r) \/ AcquireLock(r))
      BY <1>2, <2>1, RequestFrame DEF Locked, AcquireLock, LockedSteps, ExpressSteps, WithdrawSteps
    <3> QED
      BY <2>1, <3>1, <3>2 DEF LockExclusion, AcquireLock, Pair
  <2> QED
    BY <1>2, <2>1, RequestFrame DEF LockExclusion, Locked, Pair
<1> QED
  BY <1>1, <1>2, OthersKeepRequests DEF Next, vars, requestVars
-----------------------------------------------------------------------------
(* Nobody acts for another side.                                            *)

\* Between its two reads an express transaction of a tenant has only the profile's
\* owner checked.
OwnSides ==
  /\ WritersOwnTheirSide
  /\ \A r \in Requests :
       pc[r] = "listing" /\ Actor(r) = "tenant" => op[r].user = TenantOf[ProfileOf(r)]

LEMMA OwnSidesKept ==
  ASSUME Typed, OwnSides, [Next]_vars
  PROVE  OwnSides'
<1> USE DEF OwnSides, WritersOwnTheirSide, OwnerOf, Pair, Actor, ProfileOf, ListingOf
<1>1. CASE UNCHANGED requestVars
  BY <1>1 DEF requestVars
<1>2. ASSUME NEW r \in Requests, RequestNext(r)
      PROVE  OwnSides'
  <2> USE DEF Typed, TypeOK, LockedSteps, ExpressSteps, WithdrawSteps
  <2>1. \A s \in Requests \ {r} : pc'[s] = pc[s] /\ op'[s] = op[s]
    BY <1>2, RequestFrame
  <2> SUFFICES
         /\ pc'[r] \in LockedSteps \ {"profile", "listing", "owner"} =>
              op'[r].user = OwnerOf(Pair(r)', Actor(r)')
         /\ pc'[r] = "listing" /\ Actor(r)' = "tenant" => op'[r].user = TenantOf[ProfileOf(r)']
    BY <2>1
  <2>2. CASE \E kind \in Kinds, u \in Users, pr \in Pairs : Call(r, kind, u, pr)
    BY <2>2 DEF Call
  <2>3. CASE AcquireLock(r)
    BY <2>3 DEF AcquireLock
  <2>4. ASSUME NEW at, NEW ok, NEW next, CheckThen(r, at, ok, next)
        PROVE  pc[r] = at /\ ((ok /\ pc'[r] = next /\ op'[r] = op[r]) \/ pc'[r] = "idle")
    BY <2>4 DEF CheckThen, Rollback
  <2>5. CASE ReadProfile(r) \/ CheckOwner(r)
    BY <2>4, <2>5 DEF ReadProfile, CheckOwner
  <2>6. CASE ReadListing(r)
    <3>1. /\ pc[r] = "listing"
          /\ \/ pc'[r] = "idle"
             \/ /\ pc'[r] = "blocks" /\ op'[r] = op[r]
                /\ Actor(r) = "landlord" => LandlordOf[ListingOf(r)] = op[r].user
      BY <2>6 DEF ReadListing, CheckThen, Rollback
    <3>2. Actor(r) \in {"tenant", "landlord"}
      BY DEF RoleOf
    <3> QED
      BY <3>1, <3>2
  <2>7. CASE CheckBlocks(r) \/ CheckMatched(r)
    BY <2>4, <2>7 DEF CheckBlocks, CheckMatched
  <2>8. CASE UpsertInterest(r) \/ CheckCounter(r) \/ InsertMatch(r) \/ UpdateInterest(r)
    BY <2>8 DEF UpsertInterest, CheckCounter, InsertMatch, UpdateInterest
  <2>9. CASE CommitPending(r) \/ CommitMatched(r) \/ CommitWithdrawn(r) \/ Abort(r)
    BY <2>9 DEF CommitPending, CommitMatched, CommitWithdrawn, Abort, Rollback
  <2> QED
    BY <1>2, <2>2, <2>3, <2>5, <2>6, <2>7, <2>8, <2>9 DEF RequestNext, Proceed
<1> QED
  BY <1>1, <1>2, OthersKeepRequests DEF Next, vars, requestVars

\* A transaction that writes a side's interest acts for the user on that side
\* (interests.go:94-133, 276-316).
THEOREM OwnSidesOnly == Spec => []WritersOwnTheirSide
<1>1. Init => OwnSides
  BY DEF Init, OwnSides, WritersOwnTheirSide, LockedSteps, ExpressSteps, WithdrawSteps
<1>2. Typed /\ OwnSides /\ [Next]_vars => (Typed /\ OwnSides)'
  BY TypedKept, OwnSidesKept
<1> QED
  BY <1>1, <1>2, InitTyped, PTL DEF Spec, OwnSides
-----------------------------------------------------------------------------
(* What a transaction checked still holds.                                  *)

\* What a step does to interest and match: a request writes the rows of its own
\* pair, at its commit and under the lock; a cascade never changes the status of
\* an interest, never makes one visible, and neither adds nor revives a match.
LEMMA RequestWrites ==
  ASSUME Typed, NEW r \in Requests, RequestNext(r), NEW pr \in Pairs,
         interest'[pr] # interest[pr] \/ match'[pr] # match[pr]
  PROVE  Locked(r) /\ Pair(r) = pr
<1> USE DEF Typed, TypeOK, Promise!TypeOK, pairVars
<1>1. CASE CommitPending(r) \/ CommitMatched(r) \/ CommitWithdrawn(r)
  <2>1. Locked(r)
    BY <1>1 DEF CommitPending, CommitMatched, CommitWithdrawn, Locked, LockedSteps, ExpressSteps,
                WithdrawSteps
  <2>2. /\ (\E x : interest' = [interest EXCEPT ![Pair(r)][Actor(r)] = x]) \/ interest' = interest
        /\ (\E x : match' = [match EXCEPT ![Pair(r)] = x]) \/ match' = match
    BY <1>1 DEF CommitPending, CommitMatched, CommitWithdrawn
  <2> QED
    BY <2>1, <2>2
<1>2. ASSUME NEW at, NEW ok, NEW next, CheckThen(r, at, ok, next)
      PROVE  UNCHANGED pairVars
  BY <1>2 DEF CheckThen
<1>3. CASE ReadProfile(r) \/ ReadListing(r) \/ CheckBlocks(r) \/ CheckOwner(r) \/ CheckMatched(r)
  BY <1>2, <1>3 DEF ReadProfile, ReadListing, CheckBlocks, CheckOwner, CheckMatched
<1>4. ASSUME NEW kind \in Kinds, NEW u \in Users, NEW p \in Pairs, Call(r, kind, u, p)
      PROVE  UNCHANGED pairVars
  BY <1>4 DEF Call
<1>5. CASE \/ AcquireLock(r) \/ UpsertInterest(r) \/ CheckCounter(r) \/ InsertMatch(r)
           \/ UpdateInterest(r) \/ Abort(r)
  BY <1>5 DEF AcquireLock, UpsertInterest, CheckCounter, InsertMatch, UpdateInterest, Abort
<1> QED
  BY <1>1, <1>3, <1>4, <1>5 DEF RequestNext, Proceed

LEMMA OthersWrite ==
  ASSUME Typed, LockedRowsExist,
         \/ \E l \in Listings : ListingNext(l)
         \/ \E p \in Profiles : ProfileNext(p)
         \/ \E u \in Users : UserNext(u)
  PROVE  /\ \A pr \in Pairs, a \in Promise!Roles :
              /\ interest'[pr][a].status = interest[pr][a].status
              /\ Promise!Visible(interest'[pr][a]) => Promise!Visible(interest[pr][a])
         /\ \A pr \in Pairs :
              /\ Promise!Exists(match'[pr]) <=> Promise!Exists(match[pr])
              /\ Promise!Live(match'[pr]) => Promise!Live(match[pr])
<1> USE DEF Typed, TypeOK, Promise!TypeOK, Promise!Visible, Promise!Exists, Promise!Live, pairVars
<1>1. CASE UNCHANGED <<interest, match>>
  BY <1>1
<1>2. ASSUME NEW l \in Listings, CommitRented(l)
      PROVE  /\ UNCHANGED interest
             /\ \A pr \in Pairs :
                   \/ match'[pr] = match[pr]
                   \/ /\ Exists(match[pr])
                      /\ match'[pr] = [match[pr] EXCEPT !.status = "listing_rented"]
  <2>1. \A pr \in rent[l].rows : Exists(match[pr])
    BY DEF LockedRowsExist
  <2>2. /\ UNCHANGED interest
        /\ match' = [pr \in Pairs |-> IF pr \in rent[l].rows
                                      THEN [match[pr] EXCEPT !.status = "listing_rented"]
                                      ELSE match[pr]]
    BY <1>2 DEF CommitRented
  <2> QED
    BY <2>1, <2>2
<1>3. ASSUME NEW u \in Users, CommitErasure(u)
      PROVE  /\ \A pr \in Pairs : match'[pr] \in {match[pr], [match[pr] EXCEPT !.deleted = TRUE]}
             /\ \A pr \in Pairs, a \in Promise!Roles :
                   interest'[pr][a] \in {interest[pr][a], [interest[pr][a] EXCEPT !.deleted = TRUE]}
  BY <1>3 DEF CommitErasure, Roles
<1>4. CASE \E l \in Listings : CommitRented(l)
  <2>1. UNCHANGED interest
    BY <1>2, <1>4
  <2>2. \A pr \in Pairs :
          \/ match'[pr] = match[pr]
          \/ Exists(match[pr]) /\ match'[pr] = [match[pr] EXCEPT !.status = "listing_rented"]
    BY <1>2, <1>4
  <2>3. ASSUME NEW pr \in Pairs
        PROVE  /\ Promise!Exists(match'[pr]) <=> Promise!Exists(match[pr])
               /\ Promise!Live(match'[pr]) => Promise!Live(match[pr])
    <3>1. match[pr] \in Promise!MatchRows
      OBVIOUS
    <3>2. /\ [match[pr] EXCEPT !.status = "listing_rented"].status = "listing_rented"
          /\ [match[pr] EXCEPT !.status = "listing_rented"].deleted = match[pr].deleted
      BY <3>1 DEF Promise!MatchRows
    <3> QED
      BY <2>2, <3>2 DEF Exists
  <2> QED
    BY <2>1, <2>3
<1>5. CASE \E u \in Users : CommitErasure(u)
  <2>1. /\ \A row \in Promise!MatchRows :
             /\ [row EXCEPT !.deleted = TRUE].status = row.status
             /\ [row EXCEPT !.deleted = TRUE].deleted = TRUE
        /\ \A row \in Promise!InterestRows :
             /\ [row EXCEPT !.deleted = TRUE].status = row.status
             /\ [row EXCEPT !.deleted = TRUE].deleted = TRUE
    BY DEF Promise!MatchRows, Promise!InterestRows
  <2>2. PICK u \in Users : CommitErasure(u)
    BY <1>5
  <2>3. ASSUME NEW pr \in Pairs
        PROVE  /\ Promise!Exists(match'[pr]) <=> Promise!Exists(match[pr])
               /\ Promise!Live(match'[pr]) => Promise!Live(match[pr])
    <3>1. match[pr] \in Promise!MatchRows
      OBVIOUS
    <3> QED
      BY <1>3, <2>1, <2>2, <3>1
  <2>4. ASSUME NEW pr \in Pairs, NEW a \in Promise!Roles
        PROVE  /\ interest'[pr][a].status = interest[pr][a].status
               /\ Promise!Visible(interest'[pr][a]) => Promise!Visible(interest[pr][a])
    <3>1. interest[pr][a] \in Promise!InterestRows
      OBVIOUS
    <3> QED
      BY <1>3, <2>1, <2>2, <3>1
  <2> QED
    BY <2>3, <2>4
<1>6. ASSUME NEW l \in Listings, ListingNext(l)
      PROVE  CommitRented(l) \/ UNCHANGED <<interest, match>>
  BY <1>6 DEF ListingNext, ActivateListing, PauseListing, DeleteListing, SetListing,
       StartRented, RentListing, RentMatches, AbortRented, AdminRemoveListing, AdminRestoreListing
<1>7. ASSUME NEW u \in Users, UserNext(u)
      PROVE  CommitErasure(u) \/ UNCHANGED <<interest, match>>
  BY <1>7 DEF UserNext, BlockUser, UnblockUser, DeleteAccount, AdminDeleteUser,
       StartErasure, EraseInterests, EraseMatches, AbortErasure
<1>8. ASSUME NEW p \in Profiles, ProfileNext(p)
      PROVE  UNCHANGED <<interest, match>>
  BY <1>8 DEF ProfileNext, ToggleTenantProfileStatus, DeleteTenantProfile, SetProfile
<1> QED
  BY <1>1, <1>4, <1>5, <1>6, <1>7, <1>8

\* The statement a request is about to execute, seen from its own step: it has
\* just made the check, or it had made it before and no row has moved.
LEMMA OwnChecks ==
  ASSUME Typed, ChecksStillHold, NEW r \in Requests, RequestNext(r), pc'[r] # "idle"
  PROVE  /\ UNCHANGED pairVars
         /\ pc'[r] \in {"insert", "commitMatched"} =>
              op'[r] = op[r] /\ interest[Pair(r)][Other(Actor(r))].status = "active"
         /\ pc'[r] = "commitPending" =>
              op'[r] = op[r] /\ ~Visible(interest[Pair(r)][Other(Actor(r))])
         /\ pc'[r] \in {"update", "commitWithdrawn"} =>
              op'[r] = op[r] /\ ~Live(match[Pair(r)])
<1> USE DEF Typed, TypeOK, pairVars
<1>1. ASSUME NEW kind \in Kinds, NEW u \in Users, NEW pr \in Pairs, Call(r, kind, u, pr)
      PROVE  pc'[r] = "lock" /\ UNCHANGED pairVars
  BY <1>1 DEF Call
<1>2. CASE \E kind \in Kinds, u \in Users, pr \in Pairs : Call(r, kind, u, pr)
  BY <1>1, <1>2
<1>3. CASE AcquireLock(r)
  BY <1>3 DEF AcquireLock
<1>4. ASSUME NEW at, NEW ok, NEW next, CheckThen(r, at, ok, next), next # "idle"
      PROVE  ok /\ pc'[r] = next /\ op' = op /\ UNCHANGED pairVars
  BY <1>4 DEF CheckThen, Rollback
<1>5. CASE ReadProfile(r) \/ ReadListing(r) \/ CheckBlocks(r) \/ CheckOwner(r)
  <2>1. pc'[r] \in {"listing", "blocks", "upsert", "matched"} /\ UNCHANGED pairVars
    BY <1>4, <1>5 DEF ReadProfile, ReadListing, CheckBlocks, CheckOwner
  <2> QED
    BY <2>1
<1>6. CASE CheckMatched(r)
  <2>1. pc'[r] = "update" /\ op' = op /\ ~Live(match[Pair(r)]) /\ UNCHANGED pairVars
    BY <1>4, <1>6 DEF CheckMatched
  <2> QED
    BY <2>1
<1>7. CASE UpsertInterest(r) \/ CheckCounter(r) \/ InsertMatch(r) \/ UpdateInterest(r)
  BY <1>7 DEF UpsertInterest, CheckCounter, InsertMatch, UpdateInterest, ChecksStillHold,
              Visible, Promise!Visible
<1>8. CASE CommitPending(r) \/ CommitMatched(r) \/ CommitWithdrawn(r) \/ Abort(r)
  BY <1>8 DEF CommitPending, CommitMatched, CommitWithdrawn, Abort, Rollback
<1> QED
  BY <1>2, <1>3, <1>5, <1>6, <1>7, <1>8 DEF RequestNext, Proceed

LEMMA ChecksKept ==
  ASSUME IInv, [Next]_vars
  PROVE  ChecksStillHold'
<1> USE DEF IInv
<1>1. ASSUME UNCHANGED vars PROVE ChecksStillHold'
  BY <1>1 DEF ChecksStillHold, vars, pairVars, requestVars, Pair, Actor, Visible, Live,
              Promise!Visible, Promise!Live, Promise!Exists
<1>2. ASSUME NEW s \in Requests, pc'[s] # "idle",
             pc'[s] = pc[s], op'[s] = op[s],
             Pair(s) \in Pairs, Other(Actor(s)) \in Promise!Roles,
             interest'[Pair(s)][Other(Actor(s))].status = interest[Pair(s)][Other(Actor(s))].status,
             Visible(interest'[Pair(s)][Other(Actor(s))]) => Visible(interest[Pair(s)][Other(Actor(s))]),
             Live(match'[Pair(s)]) => Live(match[Pair(s)])
      PROVE  /\ pc'[s] \in {"insert", "commitMatched"} =>
                  interest'[Pair(s)][Other(Actor(s))].status = "active"
             /\ pc'[s] = "commitPending" => ~Visible(interest'[Pair(s)][Other(Actor(s))])
             /\ pc'[s] \in {"update", "commitWithdrawn"} => ~Live(match'[Pair(s)])
  BY <1>2 DEF ChecksStillHold
<1>3. ASSUME NEW s \in Requests, pc[s] # "idle"
      PROVE  Pair(s) \in Pairs /\ Other(Actor(s)) \in Promise!Roles
  BY <1>3, SidesOfCalls DEF Typed, CallsInFlight, Pair, Actor, Other
<1>4. ASSUME NEW r \in Requests, RequestNext(r) PROVE ChecksStillHold'
  <2>1. ASSUME NEW s \in Requests, pc'[s] \in LockedSteps
        PROVE  /\ pc'[s] \in {"insert", "commitMatched"} =>
                    interest'[op'[s].pair][Other(RoleOf(op'[s].user))].status = "active"
               /\ pc'[s] = "commitPending" =>
                    ~Visible(interest'[op'[s].pair][Other(RoleOf(op'[s].user))])
               /\ pc'[s] \in {"update", "commitWithdrawn"} => ~Live(match'[op'[s].pair])
    <3>1. CASE s = r
      <4>1. pc'[r] # "idle"
        BY <2>1, <3>1 DEF LockedSteps, ExpressSteps, WithdrawSteps
      <4> QED
        BY <1>4, <3>1, <4>1, OwnChecks DEF pairVars, Pair, Actor
    <3>2. CASE s # r
      <4>1. pc'[s] = pc[s] /\ op'[s] = op[s]
        BY <1>4, <3>2, RequestFrame
      <4>2. Locked(s) /\ pc[s] # "idle"
        BY <2>1, <4>1 DEF Locked, LockedSteps, ExpressSteps, WithdrawSteps
      <4>3. ~(Locked(r) /\ Pair(r) = Pair(s))
        BY <3>2, <4>2 DEF LockExclusion
      <4>4. interest'[Pair(s)] = interest[Pair(s)] /\ match'[Pair(s)] = match[Pair(s)]
        BY <1>3, <1>4, <4>2, <4>3, RequestWrites
      <4> QED
        BY <1>2, <1>3, <4>1, <4>2, <4>4 DEF Pair, Actor
    <3> QED
      BY <3>1, <3>2
  <2> QED
    BY <2>1 DEF ChecksStillHold, Pair, Actor, LockedSteps, ExpressSteps, WithdrawSteps
<1>5. ASSUME \/ \E l \in Listings : ListingNext(l)
             \/ \E p \in Profiles : ProfileNext(p)
             \/ \E u \in Users : UserNext(u)
      PROVE  ChecksStillHold'
  <2>1. pc' = pc /\ op' = op
    BY <1>5, OthersKeepRequests DEF requestVars
  <2>2. ASSUME NEW s \in Requests, pc'[s] # "idle"
        PROVE  /\ pc'[s] \in {"insert", "commitMatched"} =>
                    interest'[Pair(s)][Other(Actor(s))].status = "active"
               /\ pc'[s] = "commitPending" => ~Visible(interest'[Pair(s)][Other(Actor(s))])
               /\ pc'[s] \in {"update", "commitWithdrawn"} => ~Live(match'[Pair(s)])
    <3>1. Pair(s) \in Pairs /\ Other(Actor(s)) \in Promise!Roles
      BY <1>3, <2>1, <2>2
    <3>2. /\ interest'[Pair(s)][Other(Actor(s))].status = interest[Pair(s)][Other(Actor(s))].status
          /\ Promise!Visible(interest'[Pair(s)][Other(Actor(s))])
               => Promise!Visible(interest[Pair(s)][Other(Actor(s))])
          /\ Promise!Live(match'[Pair(s)]) => Promise!Live(match[Pair(s)])
      BY <1>5, <3>1, OthersWrite
    <3> QED
      BY <1>2, <2>1, <2>2, <3>1, <3>2 DEF Visible, Live
  <2> QED
    BY <2>1, <2>2 DEF ChecksStillHold, Pair, Actor
<1> QED
  BY <1>1, <1>4, <1>5 DEF Next

-----------------------------------------------------------------------------
(* The inductive invariant.                                                 *)

\* No step removes a match row: the commit of a request adds one or keeps it.
LEMMA MatchesStay ==
  ASSUME Typed, LockedRowsExist, [Next]_vars, NEW pr \in Pairs, Exists(match[pr])
  PROVE  Exists(match'[pr])
<1> USE DEF Exists
<1>1. ASSUME NEW r \in Requests, RequestNext(r) PROVE Promise!Exists(match'[pr])
  <2>1. CASE match'[pr] = match[pr]
    BY <2>1
  <2>2. CASE CommitMatched(r)
    <3>1. match' = [match EXCEPT ![Pair(r)] = Promise!InsertedOnce(@)]
      BY <2>2 DEF CommitMatched
    <3>2. match \in [Pairs -> Promise!MatchRows]
      BY DEF Typed, TypeOK, Promise!TypeOK
    <3>3. \A row \in Promise!MatchRows : Promise!Exists(Promise!InsertedOnce(row))
      BY RowOps
    <3>4. CASE pr = Pair(r)
      BY <3>1, <3>2, <3>3, <3>4
    <3>5. CASE pr # Pair(r)
      BY <3>1, <3>2, <3>5
    <3> QED
      BY <3>4, <3>5
  <2>3. ASSUME NEW at, NEW ok, NEW next, CheckThen(r, at, ok, next)
        PROVE  match' = match
    BY <2>3 DEF CheckThen, pairVars
  <2>4. CASE ReadProfile(r) \/ ReadListing(r) \/ CheckBlocks(r) \/ CheckOwner(r) \/ CheckMatched(r)
    BY <2>3, <2>4 DEF ReadProfile, ReadListing, CheckBlocks, CheckOwner, CheckMatched
  <2>5. ASSUME NEW kind \in Kinds, NEW u \in Users, NEW p \in Pairs, Call(r, kind, u, p)
        PROVE  match' = match
    BY <2>5 DEF Call, pairVars
  <2>6. CASE \/ AcquireLock(r) \/ UpsertInterest(r) \/ CheckCounter(r) \/ InsertMatch(r)
             \/ UpdateInterest(r) \/ Abort(r) \/ CommitPending(r) \/ CommitWithdrawn(r)
    BY <2>6 DEF AcquireLock, UpsertInterest, CheckCounter, InsertMatch, UpdateInterest, Abort,
                CommitPending, CommitWithdrawn, pairVars
  <2> QED
    BY <1>1, <2>2, <2>4, <2>5, <2>6 DEF RequestNext, Proceed
<1> QED
  BY <1>1, OthersWrite DEF Next, vars, pairVars

LEMMA LockedRowsKept ==
  ASSUME Typed, LockedRowsExist, [Next]_vars
  PROVE  LockedRowsExist'
<1> USE DEF Typed, TypeOK
<1>1. \A l \in Listings : \A pr \in rent[l].rows : pr \in Pairs
  BY DEF RentStates
<1>2. \A u \in Users : \A pr \in erasure[u].matches : pr \in Pairs
  BY DEF ErasureStates
<1>3. ASSUME NEW l \in Listings, NEW pr \in rent'[l].rows, pr \notin rent[l].rows
      PROVE  pr \in Pairs /\ Exists(match[pr])
  <2>1. PICK k \in Listings : ListingNext(k)
    <3>1. ASSUME UNCHANGED cascadeVars PROVE FALSE
      BY <1>3, <3>1 DEF cascadeVars
    <3>2. ASSUME NEW r \in Requests, RequestNext(r) PROVE UNCHANGED cascadeVars
      BY <3>2 DEF RequestNext, Call, AcquireLock, Abort, Proceed, ReadProfile, ReadListing,
           CheckBlocks, CheckThen, UpsertInterest, CheckCounter, InsertMatch, CommitPending,
           CommitMatched, CheckOwner, CheckMatched, UpdateInterest, CommitWithdrawn
    <3>3. ASSUME NEW p \in Profiles, ProfileNext(p) PROVE UNCHANGED cascadeVars
      BY <3>3 DEF ProfileNext, ToggleTenantProfileStatus, DeleteTenantProfile, SetProfile
    <3>4. ASSUME NEW u \in Users, UserNext(u) PROVE UNCHANGED rent
      BY <3>4 DEF UserNext, BlockUser, UnblockUser, DeleteAccount, AdminDeleteUser,
           StartErasure, EraseInterests, EraseMatches, CommitErasure, AbortErasure, cascadeVars
    <3> QED
      BY <1>3, <3>1, <3>2, <3>3, <3>4 DEF Next, vars, cascadeVars
  <2>2. CASE RentMatches(k)
    <3>1. PICK rows \in SUBSET Pairs :
            /\ rent' = [rent EXCEPT ![k] = [at |-> "commit", rows |-> rows]]
            /\ \A row \in rows : Live(match[row])
      <4> DEFINE rows == {q \in Pairs : q[2] = k /\ match[q].status = "active" /\ Live(match[q])}
      <4>1. rent' = [rent EXCEPT ![k] = [at |-> "commit", rows |-> rows]]
        BY <2>2 DEF RentMatches
      <4>2. rows \in SUBSET Pairs /\ \A row \in rows : Live(match[row])
        OBVIOUS
      <4> HIDE DEF rows
      <4> QED
        BY <4>1, <4>2
    <3>2. rent'[k].rows = rows /\ \A m \in Listings \ {k} : rent'[m] = rent[m]
      BY <3>1
    <3>3. pr \in rows
      BY <1>3, <3>2
    <3> QED
      BY <3>1, <3>3 DEF Live, Promise!Live, Exists
  <2>3. CASE StartRented(k) \/ RentListing(k)
    BY <1>3, <2>3 DEF StartRented, RentListing, RentStates
  <2>4. CASE CommitRented(k) \/ AbortRented(k)
    BY <1>3, <2>4 DEF CommitRented, AbortRented, IdleRent
  <2>5. CASE UNCHANGED rent
    BY <1>3, <2>5
  <2> QED
    BY <2>1, <2>2, <2>3, <2>4, <2>5 DEF ListingNext, ActivateListing, PauseListing,
         DeleteListing, SetListing, AdminRemoveListing, AdminRestoreListing, cascadeVars
<1>4. ASSUME NEW u \in Users, NEW pr \in erasure'[u].matches, pr \notin erasure[u].matches
      PROVE  pr \in Pairs /\ Exists(match[pr])
  <2>1. PICK v \in Users : UserNext(v)
    <3>1. ASSUME UNCHANGED cascadeVars PROVE FALSE
      BY <1>4, <3>1 DEF cascadeVars
    <3>2. ASSUME NEW r \in Requests, RequestNext(r) PROVE UNCHANGED cascadeVars
      BY <3>2 DEF RequestNext, Call, AcquireLock, Abort, Proceed, ReadProfile, ReadListing,
           CheckBlocks, CheckThen, UpsertInterest, CheckCounter, InsertMatch, CommitPending,
           CommitMatched, CheckOwner, CheckMatched, UpdateInterest, CommitWithdrawn
    <3>3. ASSUME NEW p \in Profiles, ProfileNext(p) PROVE UNCHANGED cascadeVars
      BY <3>3 DEF ProfileNext, ToggleTenantProfileStatus, DeleteTenantProfile, SetProfile
    <3>4. ASSUME NEW l \in Listings, ListingNext(l) PROVE UNCHANGED erasure
      BY <3>4 DEF ListingNext, ActivateListing, PauseListing, DeleteListing, SetListing,
           StartRented, RentListing, RentMatches, CommitRented, AbortRented,
           AdminRemoveListing, AdminRestoreListing, cascadeVars
    <3> QED
      BY <1>4, <3>1, <3>2, <3>3, <3>4 DEF Next, vars, cascadeVars
  <2>2. CASE EraseMatches(v)
    <3>1. PICK rows \in SUBSET Pairs :
            /\ erasure' = [erasure EXCEPT ![v].at = "commit", ![v].matches = rows]
            /\ \A row \in rows : Live(match[row])
      <4> DEFINE rows == {q \in Pairs : OwnedBy(v, q) /\ Live(match[q])}
      <4>1. erasure' = [erasure EXCEPT ![v].at = "commit", ![v].matches = rows]
        BY <2>2 DEF EraseMatches
      <4>2. rows \in SUBSET Pairs /\ \A row \in rows : Live(match[row])
        OBVIOUS
      <4> HIDE DEF rows
      <4> QED
        BY <4>1, <4>2
    <3>2. erasure'[v].matches = rows /\ \A w \in Users \ {v} : erasure'[w] = erasure[w]
      BY <3>1 DEF ErasureStates
    <3>3. pr \in rows
      BY <1>4, <3>2
    <3> QED
      BY <3>1, <3>3 DEF Live, Promise!Live, Exists
  <2>3. CASE EraseInterests(v)
    BY <1>4, <2>3 DEF EraseInterests, ErasureStates
  <2>4. CASE DeleteAccount(v) \/ AdminDeleteUser(v)
    <3>1. PICK by \in {"self", "admin"} :
            erasure' = [erasure EXCEPT ![v] = [at |-> "interests", by |-> by,
                                               interests |-> {}, matches |-> {}]]
      BY <2>4 DEF DeleteAccount, AdminDeleteUser, StartErasure, IdleErasure
    <3>2. erasure'[v].matches = {} /\ \A w \in Users \ {v} : erasure'[w] = erasure[w]
      BY <3>1
    <3> QED
      BY <1>4, <3>2
  <2>5. CASE CommitErasure(v) \/ AbortErasure(v)
    BY <1>4, <2>5 DEF CommitErasure, AbortErasure, IdleErasure
  <2>6. CASE UNCHANGED erasure
    BY <1>4, <2>6
  <2> QED
    BY <2>1, <2>2, <2>3, <2>4, <2>5, <2>6 DEF UserNext, BlockUser, UnblockUser, cascadeVars
<1>5. \A l \in Listings : \A pr \in rent'[l].rows : pr \in Pairs /\ Exists(match[pr])
  BY <1>1, <1>3 DEF LockedRowsExist
<1>6. \A u \in Users : \A pr \in erasure'[u].matches : pr \in Pairs /\ Exists(match[pr])
  BY <1>2, <1>4 DEF LockedRowsExist
<1> QED
  BY <1>5, <1>6, MatchesStay DEF LockedRowsExist, Exists

LEMMA InitIInv == Init => IInv
<1> SUFFICES ASSUME Init PROVE IInv
  OBVIOUS
<1>1. Typed
  BY InitTyped
<1>2. \A r \in Requests : pc[r] = "idle"
  BY DEF Init
<1>3. LockExclusion /\ ChecksStillHold
  BY <1>2 DEF LockExclusion, ChecksStillHold, Locked, LockedSteps, ExpressSteps, WithdrawSteps
<1>4. LockedRowsExist
  BY DEF Init, LockedRowsExist, IdleRent, IdleErasure
<1> QED
  BY <1>1, <1>3, <1>4 DEF IInv

\* The lock, the checks made under it and the rows of the cascades: what every
\* other result rests on.
THEOREM Inductive == Spec => []IInv
<1>1. IInv /\ [Next]_vars => IInv'
  BY TypedKept, LockExclusionKept, ChecksKept, LockedRowsKept DEF IInv
<1> QED
  BY <1>1, InitIInv, PTL DEF Spec

\* A check made under the lock is still true at the commit, whatever the listing,
\* profile, block, rented and deletion handlers do meanwhile.
THEOREM ChecksHold == Spec => []ChecksStillHold
BY Inductive, PTL DEF IInv

-----------------------------------------------------------------------------
(* The transactions implement the promise.                                  *)

LEMMA RequestKeepsPromise ==
  ASSUME IInv, NEW r \in Requests, RequestNext(r)
  PROVE  [Promise!Next]_(Promise!absVars)
<1> USE DEF Promise!absVars, pairVars
<1>1. ASSUME pc[r] \in LockedSteps
      PROVE  Pair(r) \in Pairs /\ Actor(r) \in Promise!Roles
  BY <1>1, SidesOfCalls DEF IInv, Typed, CallsInFlight, Pair, Actor, LockedSteps, ExpressSteps,
                            WithdrawSteps
<1>2. CASE CommitPending(r)
  <2>1. Pair(r) \in Pairs /\ Actor(r) \in Promise!Roles
    BY <1>1, <1>2 DEF CommitPending, LockedSteps, ExpressSteps
  <2>2. Promise!ExpressPending(Pair(r), Actor(r))
    BY <1>2 DEF CommitPending, Promise!ExpressPending, IInv, ChecksStillHold, Visible, Other
  <2> QED
    BY <2>1, <2>2 DEF Promise!Next
<1>3. CASE CommitMatched(r)
  <2>1. Pair(r) \in Pairs /\ Actor(r) \in Promise!Roles
    BY <1>1, <1>3 DEF CommitMatched, LockedSteps, ExpressSteps
  <2>2. Promise!ExpressMatched(Pair(r), Actor(r))
    BY <1>3 DEF CommitMatched, Promise!ExpressMatched, IInv, ChecksStillHold, Other
  <2> QED
    BY <2>1, <2>2 DEF Promise!Next
<1>4. CASE CommitWithdrawn(r)
  <2>1. Pair(r) \in Pairs /\ Actor(r) \in Promise!Roles
    BY <1>1, <1>4 DEF CommitWithdrawn, LockedSteps, WithdrawSteps
  <2>2. ~Promise!Live(match[Pair(r)])
    BY <1>4 DEF CommitWithdrawn, IInv, ChecksStillHold, Live
  <2>3. UNCHANGED Promise!absVars \/ Promise!Withdraw(Pair(r), Actor(r))
    BY <1>4, <2>2 DEF CommitWithdrawn, Promise!Withdraw
  <2> QED
    BY <2>1, <2>3 DEF Promise!Next
<1>5. ASSUME NEW at, NEW ok, NEW next, CheckThen(r, at, ok, next)
      PROVE  UNCHANGED pairVars
  BY <1>5 DEF CheckThen
<1>6. CASE ReadProfile(r) \/ ReadListing(r) \/ CheckBlocks(r) \/ CheckOwner(r) \/ CheckMatched(r)
  BY <1>5, <1>6 DEF ReadProfile, ReadListing, CheckBlocks, CheckOwner, CheckMatched
<1>7. CASE \E kind \in Kinds, u \in Users, pr \in Pairs : Call(r, kind, u, pr)
  BY <1>7 DEF Call
<1>8. CASE \/ AcquireLock(r) \/ UpsertInterest(r) \/ CheckCounter(r) \/ InsertMatch(r)
           \/ UpdateInterest(r) \/ Abort(r)
  BY <1>8 DEF AcquireLock, UpsertInterest, CheckCounter, InsertMatch, UpdateInterest, Abort
<1> QED
  BY <1>2, <1>3, <1>4, <1>6, <1>7, <1>8 DEF RequestNext, Proceed

LEMMA OthersKeepPromise ==
  ASSUME IInv,
         \/ \E l \in Listings : ListingNext(l)
         \/ \E p \in Profiles : ProfileNext(p)
         \/ \E u \in Users : UserNext(u)
  PROVE  [Promise!Next]_(Promise!absVars)
<1> USE DEF Promise!absVars, pairVars
<1>1. ASSUME NEW l \in Listings, CommitRented(l)
      PROVE  Promise!Next
  <2>1. rent[l].rows \in SUBSET Pairs
    BY DEF IInv, Typed, TypeOK, RentStates
  <2>2. \A pr \in rent[l].rows : Promise!Exists(match[pr])
    BY DEF IInv, LockedRowsExist, Exists
  <2>3. Promise!Rent(rent[l].rows)
    BY <1>1, <2>2 DEF CommitRented, Promise!Rent
  <2> QED
    BY <2>1, <2>3 DEF Promise!Next
<1>2. ASSUME NEW u \in Users, CommitErasure(u)
      PROVE  Promise!Next
  <2>1. /\ erasure[u].interests \in SUBSET (Pairs \X Promise!Roles)
        /\ erasure[u].matches \in SUBSET Pairs
    BY DEF IInv, Typed, TypeOK, ErasureStates, Roles
  <2>2. \A pr \in erasure[u].matches : Promise!Exists(match[pr])
    BY DEF IInv, LockedRowsExist, Exists
  <2>3. Promise!Erase(erasure[u].interests, erasure[u].matches)
    BY <1>2, <2>2 DEF CommitErasure, Promise!Erase, Roles
  <2> QED
    BY <2>1, <2>3 DEF Promise!Next
<1>3. ASSUME NEW l \in Listings, ListingNext(l)
      PROVE  CommitRented(l) \/ UNCHANGED pairVars
  BY <1>3 DEF ListingNext, ActivateListing, PauseListing, DeleteListing, SetListing,
       StartRented, RentListing, RentMatches, AbortRented, AdminRemoveListing, AdminRestoreListing
<1>4. ASSUME NEW u \in Users, UserNext(u)
      PROVE  CommitErasure(u) \/ UNCHANGED pairVars
  BY <1>4 DEF UserNext, BlockUser, UnblockUser, DeleteAccount, AdminDeleteUser,
       StartErasure, EraseInterests, EraseMatches, AbortErasure
<1>5. ASSUME NEW p \in Profiles, ProfileNext(p)
      PROVE  UNCHANGED pairVars
  BY <1>5 DEF ProfileNext, ToggleTenantProfileStatus, DeleteTenantProfile, SetProfile
<1> QED
  BY <1>1, <1>2, <1>3, <1>4, <1>5

\* Interest implements Introduction: each commit of an overlapping, interruptible
\* transaction is one atomic operation of the promise, all other steps are stutters.
THEOREM PromiseIsKept == Spec => PromiseKept
<1>1. Init => Promise!Init
  BY DEF Init
<1>2. IInv /\ [Next]_vars => [Promise!Next]_(Promise!absVars)
  <2>1. ASSUME UNCHANGED vars PROVE UNCHANGED Promise!absVars
    BY <2>1 DEF vars, pairVars, Promise!absVars
  <2> QED
    BY <2>1, RequestKeepsPromise, OthersKeepPromise DEF Next
<1> QED
  BY <1>1, <1>2, Inductive, PTL DEF Spec, PromiseKept, Promise!Spec

-----------------------------------------------------------------------------
(* What the promise implies, and so what the transactions keep.             *)

\* A match row that was never inserted was never deleted either.
NoGhostMatch == \A pr \in Pairs : match[pr].deleted => Promise!Exists(match[pr])

AInv == Promise!TypeOK /\ NoGhostMatch /\ Promise!MutualInterestMatched
        /\ Promise!LiveMatchIsMutual /\ Promise!RevealedOnlyMatched

\* A step that writes at most the interest row (pr, a) and the match row pr keeps
\* AInv if the rows it leaves there agree.
LEMMA OnePairKept ==
  ASSUME AInv, NEW pr \in Pairs, NEW a \in Promise!Roles,
         NEW x \in Promise!InterestRows, NEW m \in Promise!MatchRows,
         interest' = [interest EXCEPT ![pr][a] = x],
         match' = [match EXCEPT ![pr] = m],
         revealed' \in {revealed, revealed \cup {<<pr, a>>}},
         revealed' # revealed => Promise!Exists(m),
         Promise!Exists(match[pr]) => Promise!Exists(m),
         m.deleted => Promise!Exists(m),
         Promise!Visible(x) /\ Promise!Visible(interest[pr][Promise!Other(a)])
           => Promise!Exists(m),
         Promise!Live(m) => /\ x.status = "active"
                            /\ interest[pr][Promise!Other(a)].status = "active"
  PROVE  AInv'
<1> DEFINE IT == [Pairs -> [Promise!Roles -> Promise!InterestRows]]
<1>1. /\ interest \in IT
      /\ match \in [Pairs -> Promise!MatchRows]
      /\ revealed \subseteq Pairs \X Promise!Roles
  BY DEF AInv, Promise!TypeOK
<1>2. /\ interest' \in IT
      /\ \A q \in Pairs, b \in Promise!Roles :
            interest'[q][b] = IF q = pr /\ b = a THEN x ELSE interest[q][b]
  <2>1. interest \in [Pairs -> [Promise!Roles -> Promise!InterestRows]]
    BY <1>1
  <2> HIDE DEF AInv
  <2> QED
    BY <2>1, NestedUpdate
<1>3. /\ match' \in [Pairs -> Promise!MatchRows]
      /\ match'[pr] = m
      /\ \A q \in Pairs \ {pr} : match'[q] = match[q]
  BY <1>1
<1>4. revealed' \subseteq Pairs \X Promise!Roles
  BY <1>1
<1>5. \A b \in Promise!Roles : b = a \/ b = Promise!Other(a)
  BY DEF Promise!Roles, Promise!Other
<1>6. Promise!Other(a) \in Promise!Roles /\ Promise!Other(a) # a
  BY SidesOfCalls
<1>7. Promise!TypeOK'
  BY <1>2, <1>3, <1>4 DEF Promise!TypeOK
<1>8. NoGhostMatch'
  BY <1>3 DEF AInv, NoGhostMatch, Promise!Exists
<1>9. Promise!MutualInterestMatched'
  <2> SUFFICES ASSUME NEW q \in Pairs,
                      \A b \in Promise!Roles : Promise!Visible(interest'[q][b])
               PROVE  Promise!Exists(match'[q])
    BY DEF Promise!MutualInterestMatched, Promise!Visible, Promise!Exists
  <2>1. CASE q = pr
    BY <1>2, <1>3, <1>6, <2>1
  <2>2. CASE q # pr
    BY <1>2, <1>3, <2>2 DEF AInv, Promise!MutualInterestMatched
  <2> QED
    BY <2>1, <2>2
<1>10. Promise!LiveMatchIsMutual'
  <2> SUFFICES ASSUME NEW q \in Pairs, Promise!Live(match'[q]), NEW b \in Promise!Roles
               PROVE  interest'[q][b].status = "active"
    BY DEF Promise!LiveMatchIsMutual, Promise!Live, Promise!Exists
  <2>1. CASE q = pr
    BY <1>2, <1>3, <1>5, <1>6, <2>1
  <2>2. CASE q # pr
    BY <1>2, <1>3, <2>2 DEF AInv, Promise!LiveMatchIsMutual
  <2> QED
    BY <2>1, <2>2
<1>11. Promise!RevealedOnlyMatched'
  <2> SUFFICES ASSUME NEW k \in revealed' PROVE Promise!Exists(match'[k[1]])
    BY DEF Promise!RevealedOnlyMatched, Promise!Exists
  <2>1. CASE k \in revealed
    <3>1. k[1] \in Pairs /\ Promise!Exists(match[k[1]])
      BY <1>1, <2>1 DEF AInv, Promise!RevealedOnlyMatched
    <3> QED
      BY <1>3, <3>1
  <2>2. CASE k \notin revealed
    BY <1>3, <2>2
  <2> QED
    BY <2>1, <2>2
<1> QED
  BY <1>7, <1>8, <1>9, <1>10, <1>11 DEF AInv

\* A step that only flags existing rows, of any number of pairs, keeps AInv.
LEMMA FlaggedRowsKept ==
  ASSUME AInv, Promise!TypeOK', UNCHANGED revealed,
         \A pr \in Pairs :
           /\ Promise!Exists(match'[pr]) <=> Promise!Exists(match[pr])
           /\ match'[pr].deleted => match[pr].deleted \/ Promise!Exists(match[pr])
           /\ Promise!Live(match'[pr]) => Promise!Live(match[pr]),
         \A pr \in Pairs, b \in Promise!Roles :
           /\ interest'[pr][b].status = interest[pr][b].status
           /\ Promise!Visible(interest'[pr][b]) => Promise!Visible(interest[pr][b])
  PROVE  AInv'
<1>1. NoGhostMatch'
  BY DEF AInv, NoGhostMatch, Promise!Exists
<1>2. Promise!MutualInterestMatched'
  <2> SUFFICES ASSUME NEW q \in Pairs,
                      \A b \in Promise!Roles : Promise!Visible(interest'[q][b])
               PROVE  Promise!Exists(match'[q])
    BY DEF Promise!MutualInterestMatched, Promise!Visible, Promise!Exists
  <2> QED
    BY DEF AInv, Promise!MutualInterestMatched
<1>3. Promise!LiveMatchIsMutual'
  <2> SUFFICES ASSUME NEW q \in Pairs, Promise!Live(match'[q]), NEW b \in Promise!Roles
               PROVE  interest'[q][b].status = "active"
    BY DEF Promise!LiveMatchIsMutual, Promise!Live, Promise!Exists
  <2> QED
    BY DEF AInv, Promise!LiveMatchIsMutual
<1>4. Promise!RevealedOnlyMatched'
  <2> SUFFICES ASSUME NEW k \in revealed PROVE Promise!Exists(match'[k[1]])
    BY DEF Promise!RevealedOnlyMatched, Promise!Exists
  <2>1. k[1] \in Pairs /\ Promise!Exists(match[k[1]])
    BY DEF AInv, Promise!TypeOK, Promise!RevealedOnlyMatched
  <2> QED
    BY <2>1
<1> QED
  BY <1>1, <1>2, <1>3, <1>4 DEF AInv

\* What the properties read of a row after it was flagged.
LEMMA FlaggedRows ==
  /\ \A row \in Promise!InterestRows :
       LET d == [row EXCEPT !.deleted = TRUE] IN
       d \in Promise!InterestRows /\ d.status = row.status /\ d.deleted
  /\ \A row \in Promise!MatchRows :
       LET d == [row EXCEPT !.deleted = TRUE] IN
       d \in Promise!MatchRows /\ d.status = row.status /\ d.deleted
  /\ \A row \in Promise!MatchRows :
       LET d == [row EXCEPT !.status = "listing_rented"] IN
       d \in Promise!MatchRows /\ d.status = "listing_rented" /\ (d.deleted <=> row.deleted)
BY DEF Promise!InterestRows, Promise!MatchRows

LEMMA PairOpsKeepAInv ==
  ASSUME AInv, NEW pr \in Pairs, NEW a \in Promise!Roles,
         \/ Promise!ExpressPending(pr, a)
         \/ Promise!ExpressMatched(pr, a)
         \/ Promise!Withdraw(pr, a)
  PROVE  AInv'
<1> DEFINE row == interest[pr][a]
           m == match[pr]
<1>1. /\ row \in Promise!InterestRows /\ m \in Promise!MatchRows
      /\ match \in [Pairs -> Promise!MatchRows]
  BY DEF AInv, Promise!TypeOK
<1>2. /\ m.deleted => Promise!Exists(m)
      /\ Promise!Live(m) => \A b \in Promise!Roles : interest[pr][b].status = "active"
  BY DEF AInv, NoGhostMatch, Promise!LiveMatchIsMutual
<1>3. Promise!Other(a) \in Promise!Roles
  BY SidesOfCalls
<1>4. /\ Promise!Upserted(row) \in Promise!InterestRows
      /\ Promise!Upserted(row).status = "active"
      /\ [row EXCEPT !.status = "withdrawn"] \in Promise!InterestRows
      /\ [row EXCEPT !.status = "withdrawn"].status = "withdrawn"
      /\ Promise!InsertedOnce(m) \in Promise!MatchRows
      /\ Promise!Exists(Promise!InsertedOnce(m))
  BY <1>1, RowOps DEF Promise!InterestRows
<1>5. match = [match EXCEPT ![pr] = m]
  BY <1>1
<1>6. CASE Promise!ExpressPending(pr, a)
  <2>1. /\ interest' = [interest EXCEPT ![pr][a] = Promise!Upserted(row)]
        /\ match' = [match EXCEPT ![pr] = m]
        /\ revealed' = revealed
        /\ ~Promise!Visible(interest[pr][Promise!Other(a)])
    BY <1>5, <1>6 DEF Promise!ExpressPending
  <2> HIDE DEF row, m
  <2>2. Promise!Exists(match[pr]) => Promise!Exists(m)
    BY DEF m
  <2> QED
    BY <1>1, <1>2, <1>3, <1>4, <2>1, <2>2, OnePairKept
<1>7. CASE Promise!ExpressMatched(pr, a)
  <2>1. /\ interest' = [interest EXCEPT ![pr][a] = Promise!Upserted(row)]
        /\ match' = [match EXCEPT ![pr] = Promise!InsertedOnce(m)]
        /\ revealed' \in {revealed, revealed \cup {<<pr, a>>}}
        /\ interest[pr][Promise!Other(a)].status = "active"
    BY <1>7 DEF Promise!ExpressMatched
  <2> HIDE DEF row, m
  <2> QED
    BY <1>1, <1>3, <1>4, <2>1, OnePairKept
<1>8. CASE Promise!Withdraw(pr, a)
  <2>1. /\ interest' = [interest EXCEPT ![pr][a] = [row EXCEPT !.status = "withdrawn"]]
        /\ match' = [match EXCEPT ![pr] = m]
        /\ revealed' = revealed
        /\ ~Promise!Live(m)
    BY <1>5, <1>8 DEF Promise!Withdraw
  <2>2. ~Promise!Visible([row EXCEPT !.status = "withdrawn"])
    BY <1>4 DEF Promise!Visible
  <2>3. Promise!Exists(match[pr]) => Promise!Exists(m)
    OBVIOUS
  <2> HIDE DEF row, m
  <2> QED
    BY <1>1, <1>2, <1>4, <2>1, <2>2, <2>3, OnePairKept
<1> QED
  BY <1>6, <1>7, <1>8

LEMMA CascadesKeepAInv ==
  ASSUME AInv,
         \/ \E S \in SUBSET Pairs : Promise!Rent(S)
         \/ \E I \in SUBSET (Pairs \X Promise!Roles), M \in SUBSET Pairs : Promise!Erase(I, M)
  PROVE  AInv'
<1>1. /\ interest \in [Pairs -> [Promise!Roles -> Promise!InterestRows]]
      /\ match \in [Pairs -> Promise!MatchRows]
      /\ revealed \subseteq Pairs \X Promise!Roles
  BY DEF AInv, Promise!TypeOK
<1>2. ASSUME NEW S \in SUBSET Pairs, Promise!Rent(S) PROVE AInv'
  <2>1. Promise!TypeOK'
    BY <1>1, <1>2, FlaggedRows DEF Promise!Rent, Promise!TypeOK
  <2>2. ASSUME NEW pr \in Pairs
        PROVE  /\ Promise!Exists(match'[pr]) <=> Promise!Exists(match[pr])
               /\ match'[pr].deleted => match[pr].deleted \/ Promise!Exists(match[pr])
               /\ Promise!Live(match'[pr]) => Promise!Live(match[pr])
    BY <1>1, <1>2, FlaggedRows DEF Promise!Rent, Promise!Exists, Promise!Live
  <2>3. UNCHANGED <<interest, revealed>>
    BY <1>2 DEF Promise!Rent
  <2> QED
    BY <2>1, <2>2, <2>3, FlaggedRowsKept
<1>3. ASSUME NEW I \in SUBSET (Pairs \X Promise!Roles), NEW M \in SUBSET Pairs, Promise!Erase(I, M)
      PROVE  AInv'
  <2>1. Promise!TypeOK'
    BY <1>1, <1>3, FlaggedRows DEF Promise!Erase, Promise!TypeOK
  <2>2. ASSUME NEW pr \in Pairs
        PROVE  /\ Promise!Exists(match'[pr]) <=> Promise!Exists(match[pr])
               /\ match'[pr].deleted => match[pr].deleted \/ Promise!Exists(match[pr])
               /\ Promise!Live(match'[pr]) => Promise!Live(match[pr])
    BY <1>1, <1>3, FlaggedRows DEF Promise!Erase, Promise!Exists, Promise!Live
  <2>3. ASSUME NEW pr \in Pairs, NEW b \in Promise!Roles
        PROVE  /\ interest'[pr][b].status = interest[pr][b].status
               /\ Promise!Visible(interest'[pr][b]) => Promise!Visible(interest[pr][b])
    BY <1>1, <1>3, FlaggedRows DEF Promise!Erase, Promise!Visible
  <2>4. UNCHANGED revealed
    BY <1>3 DEF Promise!Erase
  <2> QED
    BY <2>1, <2>2, <2>3, <2>4, FlaggedRowsKept
<1> QED
  BY <1>2, <1>3

THEOREM PromiseInductive == Promise!Spec => []AInv
<1>1. Promise!Init => AInv
  BY DEF Promise!Init, AInv, Promise!TypeOK, NoGhostMatch, Promise!MutualInterestMatched,
         Promise!LiveMatchIsMutual, Promise!RevealedOnlyMatched, Promise!NoRow, Promise!Exists,
         Promise!Live, Promise!Visible, Promise!InterestRows, Promise!MatchRows, Promise!Roles
<1>2. AInv /\ [Promise!Next]_(Promise!absVars) => AInv'
  <2>1. ASSUME AInv, UNCHANGED Promise!absVars PROVE AInv'
    BY <2>1 DEF AInv, Promise!absVars, Promise!TypeOK, NoGhostMatch, Promise!MutualInterestMatched,
         Promise!LiveMatchIsMutual, Promise!RevealedOnlyMatched, Promise!Exists, Promise!Live,
         Promise!Visible
  <2> QED
    BY <2>1, PairOpsKeepAInv, CascadesKeepAInv DEF Promise!Next
<1> QED
  BY <1>1, <1>2, PTL DEF Promise!Spec

\* No missed match: two interests that count have a match row, however the calls
\* that expressed them overlapped.
THEOREM NoMissedMatch == Spec => []MutualInterestMatched
BY PromiseIsKept, PromiseInductive, PTL DEF PromiseKept, AInv, MutualInterestMatched

\* No one-sided match: under a live match neither interest is withdrawn.
THEOREM NoOneSidedMatch == Spec => []LiveMatchIsMutual
BY PromiseIsKept, PromiseInductive, PTL DEF PromiseKept, AInv, LiveMatchIsMutual

\* A contact is revealed for a matched pair only.
THEOREM NoEarlyContact == Spec => []RevealedOnlyMatched
BY PromiseIsKept, PromiseInductive, PTL DEF PromiseKept, AInv, RevealedOnlyMatched

\* A match row is for ever: never removed, un-deleted or active again once rented.
THEOREM MatchesAreForever == Spec => MatchNeverRevived
<1>1. AInv /\ [Promise!Next]_(Promise!absVars) =>
        [\A pr \in Pairs :
           /\ Promise!Exists(match[pr]) => Promise!Exists(match'[pr])
           /\ match[pr].deleted => match'[pr].deleted
           /\ match[pr].status = "listing_rented"
                => match'[pr].status = "listing_rented"]_(Promise!absVars)
  <2> SUFFICES ASSUME AInv, Promise!Next, NEW pr \in Pairs
               PROVE  /\ Promise!Exists(match[pr]) => Promise!Exists(match'[pr])
                      /\ match[pr].deleted => match'[pr].deleted
                      /\ match[pr].status = "listing_rented"
                           => match'[pr].status = "listing_rented"
    OBVIOUS
  <2>1. match \in [Pairs -> Promise!MatchRows] /\ (match[pr].deleted => Promise!Exists(match[pr]))
    BY DEF AInv, NoGhostMatch, Promise!TypeOK
  <2>2. ASSUME NEW q \in Pairs, NEW a \in Promise!Roles, Promise!ExpressMatched(q, a)
        PROVE  Promise!Exists(match[pr]) => match'[pr] = match[pr]
    BY <2>1, <2>2 DEF Promise!ExpressMatched, Promise!InsertedOnce
  <2>3. ASSUME NEW q \in Pairs, NEW a \in Promise!Roles,
               Promise!ExpressPending(q, a) \/ Promise!Withdraw(q, a)
        PROVE  match' = match
    BY <2>3 DEF Promise!ExpressPending, Promise!Withdraw
  <2>4. ASSUME NEW S \in SUBSET Pairs, Promise!Rent(S)
        PROVE  /\ Promise!Exists(match[pr]) => Promise!Exists(match'[pr])
               /\ match[pr].deleted => match'[pr].deleted
               /\ match[pr].status = "listing_rented" => match'[pr].status = "listing_rented"
    BY <2>1, <2>4, FlaggedRows DEF Promise!Rent, Promise!Exists
  <2>5. ASSUME NEW I \in SUBSET (Pairs \X Promise!Roles), NEW M \in SUBSET Pairs,
               Promise!Erase(I, M)
        PROVE  /\ match'[pr].status = match[pr].status
               /\ match[pr].deleted => match'[pr].deleted
    BY <2>1, <2>5, FlaggedRows DEF Promise!Erase
  <2>6. CASE \E q \in Pairs, a \in Promise!Roles :
               \/ Promise!ExpressPending(q, a)
               \/ Promise!ExpressMatched(q, a)
               \/ Promise!Withdraw(q, a)
    BY <2>1, <2>2, <2>3, <2>6 DEF Promise!Exists
  <2>7. CASE \E S \in SUBSET Pairs : Promise!Rent(S)
    BY <2>4, <2>7
  <2>8. CASE \E I \in SUBSET (Pairs \X Promise!Roles), M \in SUBSET Pairs : Promise!Erase(I, M)
    BY <2>5, <2>8 DEF Promise!Exists
  <2> QED
    BY <2>6, <2>7, <2>8 DEF Promise!Next
<1> QED
  BY <1>1, PromiseIsKept, PromiseInductive, PTL
     DEF PromiseKept, MatchNeverRevived, Promise!MatchNeverRevived, Promise!Spec

=============================================================================
