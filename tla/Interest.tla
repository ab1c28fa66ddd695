------------------------------ MODULE Interest ------------------------------
(***************************************************************************)
(* The interest -> match transactions of the Zumeet API and every handler  *)
(* that writes, under their feet, the rows they read: handler/interests.go *)
(* statement by statement, the listing, profile and block handlers, and    *)
(* the cascades of "rented" and of the two account deletions.              *)
(*                                                                         *)
(* The database is PostgreSQL at READ COMMITTED: a statement sees what was *)
(* committed when it began, a transaction's writes appear all at once at   *)
(* its commit, a row it updated stays locked until then, and an advisory   *)
(* transaction lock is released after the commit is visible.  What a       *)
(* transaction has written and not yet committed follows from its pc.      *)
(***************************************************************************)

CONSTANTS Tenants, Landlords,   \* users; onboarding gives a user one role
          Profiles, Listings,
          TenantOf,             \* tenant_profiles.tenant_id
          LandlordOf,           \* listings.landlord_id
          LockHash,             \* hashtext(profile || ':' || listing), any function
          Requests,             \* express/withdraw calls that may overlap
          Handlers,             \* the handlers an instance exercises (a bound)
          Leavers               \* the users whose account may be deleted (a bound)

ASSUME OwnersAssumption ==
  /\ TenantOf \in [Profiles -> Tenants]
  /\ LandlordOf \in [Listings -> Landlords]
  /\ Tenants \cap Landlords = {}

Users == Tenants \cup Landlords
Pairs == Profiles \X Listings

VARIABLES gone,        \* users with deleted_at set
          profile, listing, removed, blocks,    \* entity tables
          interest, match, revealed,            \* see Introduction.tla
          pc, op,      \* an express/withdraw transaction: next statement, call
          rent,        \* the "rented" cascade, at most one per listing row lock
          erasure      \* the account-deletion cascade of each user

entityVars == <<gone, profile, listing, removed, blocks>>
pairVars == <<interest, match, revealed>>
requestVars == <<pc, op>>
cascadeVars == <<rent, erasure>>
vars == <<entityVars, pairVars, requestVars, cascadeVars>>

Promise == INSTANCE Introduction
             WITH Pairs <- Pairs, interest <- interest, match <- match, revealed <- revealed

Roles == Promise!Roles
Other(a) == Promise!Other(a)
Visible(row) == Promise!Visible(row)
Exists(row) == Promise!Exists(row)
Live(row) == Promise!Live(row)

Kinds == {"express", "withdraw"}
Calls == [kind : Kinds, user : Users, pair : Pairs]
NoCall == [kind |-> "none"]

RoleOf(u) == IF u \in Tenants THEN "tenant" ELSE "landlord"
Actor(r) == RoleOf(op[r].user)
Pair(r) == op[r].pair
ProfileOf(r) == op[r].pair[1]
ListingOf(r) == op[r].pair[2]
OwnerOf(pr, a) == IF a = "tenant" THEN TenantOf[pr[1]] ELSE LandlordOf[pr[2]]

ProfileStates == {"active", "inactive", "deleted"}
ListingStates == {"draft", "active", "paused", "rented", "deleted"}

ExpressSteps == {"profile", "listing", "blocks", "upsert", "counter", "insert",
                 "commitPending", "commitMatched"}
WithdrawSteps == {"owner", "matched", "update", "commitWithdrawn"}
LockedSteps == ExpressSteps \cup WithdrawSteps
RequestSteps == {"idle", "lock"} \cup LockedSteps

IdleRent == [at |-> "idle", rows |-> {}]
IdleErasure == [at |-> "idle", by |-> "self", interests |-> {}, matches |-> {}]

Init ==
  /\ gone = {} /\ removed = {} /\ blocks = {}
  /\ profile = [p \in Profiles |-> "active"]
  /\ listing = [l \in Listings |-> "draft"]
  /\ Promise!Init
  /\ pc = [r \in Requests |-> "idle"] /\ op = [r \in Requests |-> NoCall]
  /\ rent = [l \in Listings |-> IdleRent]
  /\ erasure = [u \in Users |-> IdleErasure]
-----------------------------------------------------------------------------
(* Who holds what.  The advisory lock is taken first and kept to the end.   *)

Locked(r) == pc[r] \in LockedSteps

\* The request has updated an existing interest row, so it holds its row lock.
HoldsInterestRow(r, pr, a) ==
  /\ Locked(r) /\ Pair(r) = pr /\ Actor(r) = a
  /\ \/ /\ pc[r] \in {"counter", "insert", "commitPending", "commitMatched"}
        /\ Exists(interest[pr][a])
     \/ pc[r] = "commitWithdrawn" /\ Visible(interest[pr][a])

ErasureHoldsInterest(pr, a) == \E u \in Users : <<pr, a>> \in erasure[u].interests

\* An UPDATE of a listing that is already deleted finds no row to lock.
RentHoldsListing(l) == rent[l].at \in {"matches", "commit"} /\ listing[l] # "deleted"
ListingRowFree(l) == ~RentHoldsListing(l) /\ erasure[LandlordOf[l]].at = "idle"
ProfileRowFree(p) == erasure[TenantOf[p]].at = "idle"
MatchRowFree(pr) ==
  /\ \A l \in Listings : pr \notin rent[l].rows
  /\ \A u \in Users : pr \notin erasure[u].matches
-----------------------------------------------------------------------------
(* expressInterest and withdrawInterest, one action per statement.          *)

\* Auth and RequireRole pass for a user that is not deleted; then tx.Begin.
Call(r, kind, u, pr) ==
  /\ kind \in Handlers
  /\ pc[r] = "idle" /\ u \notin gone
  /\ pc' = [pc EXCEPT ![r] = "lock"]
  /\ op' = [op EXCEPT ![r] = [kind |-> kind, user |-> u, pair |-> pr]]
  /\ UNCHANGED <<entityVars, pairVars, cascadeVars>>

\* Mutants, here and below: an action with a bug that its name tells, for the runs
\* that show that the properties notice.  Each comes right before its original.
AcquireLock_NoLock(r) ==
  /\ pc[r] = "lock"
  /\ pc' = [pc EXCEPT ![r] = IF op[r].kind = "express" THEN "profile" ELSE "owner"]
  /\ UNCHANGED <<entityVars, pairVars, op, cascadeVars>>

AcquireLock_PerSide(r) ==
  /\ pc[r] = "lock"
  /\ \A s \in Requests \ {r} :
        Locked(s) /\ Actor(s) = Actor(r) => LockHash[Pair(s)] # LockHash[Pair(r)]
  /\ AcquireLock_NoLock(r)

AcquireLock_ExpressOnly(r) ==
  /\ op[r].kind = "express" =>
       \A s \in Requests \ {r} :
         Locked(s) /\ op[s].kind = "express" => LockHash[Pair(s)] # LockHash[Pair(r)]
  /\ AcquireLock_NoLock(r)

\* pg_advisory_xact_lock(hashtext(profile || ':' || listing)).
AcquireLock(r) ==
  /\ pc[r] = "lock"
  /\ \A s \in Requests \ {r} : Locked(s) => LockHash[Pair(s)] # LockHash[Pair(r)]
  /\ pc' = [pc EXCEPT ![r] = IF op[r].kind = "express" THEN "profile" ELSE "owner"]
  /\ UNCHANGED <<entityVars, pairVars, op, cascadeVars>>

\* Rollback: an error answer, a cancelled request context or a lost connection.
Rollback(r) ==
  /\ pc' = [pc EXCEPT ![r] = "idle"]
  /\ op' = [op EXCEPT ![r] = NoCall]

CheckThen_NoRollback(r, at, ok, next) ==
  /\ pc[r] = at
  /\ pc' = IF ok THEN [pc EXCEPT ![r] = next] ELSE pc
  /\ UNCHANGED <<entityVars, pairVars, op, cascadeVars>>

\* A guard statement: the transaction goes on, or answers 400/403/404/409.
CheckThen(r, at, ok, next) ==
  /\ pc[r] = at
  /\ \/ ok /\ pc' = [pc EXCEPT ![r] = next] /\ UNCHANGED op
     \/ ~ok /\ Rollback(r)
  /\ UNCHANGED <<entityVars, pairVars, cascadeVars>>

ReadProfile_AnyTenant(r) == CheckThen(r, "profile", profile[ProfileOf(r)] = "active", "listing")

ReadProfile(r) ==
  CheckThen(r, "profile",
    /\ profile[ProfileOf(r)] = "active"
    /\ Actor(r) = "tenant" => TenantOf[ProfileOf(r)] = op[r].user,
    "listing")

ReadListing(r) ==
  CheckThen(r, "listing",
    /\ listing[ListingOf(r)] = "active" /\ ListingOf(r) \notin removed
    /\ Actor(r) = "landlord" => LandlordOf[ListingOf(r)] = op[r].user,
    "blocks")

Blocked(u, v) == <<u, v>> \in blocks \/ <<v, u>> \in blocks

CheckBlocks(r) ==
  CheckThen(r, "blocks", ~Blocked(TenantOf[ProfileOf(r)], LandlordOf[ListingOf(r)]), "upsert")

\* INSERT ... ON CONFLICT DO UPDATE waits for a cascade that updated the row.
UpsertInterest(r) ==
  /\ pc[r] = "upsert"
  /\ ~ErasureHoldsInterest(Pair(r), Actor(r))
  /\ pc' = [pc EXCEPT ![r] = "counter"]
  /\ UNCHANGED <<entityVars, pairVars, op, cascadeVars>>

CheckCounter_AnyStatus(r) ==
  /\ pc[r] = "counter"
  /\ pc' = [pc EXCEPT ![r] = IF Live(interest[Pair(r)][Other(Actor(r))])
                             THEN "insert" ELSE "commitPending"]
  /\ UNCHANGED <<entityVars, pairVars, op, cascadeVars>>

CheckCounter(r) ==
  /\ pc[r] = "counter"
  /\ pc' = [pc EXCEPT ![r] = IF Visible(interest[Pair(r)][Other(Actor(r))])
                             THEN "insert" ELSE "commitPending"]
  /\ UNCHANGED <<entityVars, pairVars, op, cascadeVars>>

\* INSERT ... ON CONFLICT DO NOTHING waits for a cascade that updated the match.
InsertMatch(r) ==
  /\ pc[r] = "insert" /\ MatchRowFree(Pair(r))
  /\ pc' = [pc EXCEPT ![r] = "commitMatched"]
  /\ UNCHANGED <<entityVars, pairVars, op, cascadeVars>>

\* The commit publishes the upserted interest and answers "pending".
CommitPending(r) ==
  /\ pc[r] = "commitPending"
  /\ interest' = [interest EXCEPT ![Pair(r)][Actor(r)] = Promise!Upserted(@)]
  /\ Rollback(r)
  /\ UNCHANGED <<entityVars, match, revealed, cascadeVars>>

CommitMatched_NoMatchRow(r) ==
  /\ pc[r] = "commitMatched"
  /\ interest' = [interest EXCEPT ![Pair(r)][Actor(r)] = Promise!Upserted(@)]
  /\ revealed' = revealed \cup {<<Pair(r), Actor(r)>>}
  /\ Rollback(r)
  /\ UNCHANGED <<entityVars, match, cascadeVars>>

CommitMatched_DoUpdate(r) ==
  /\ pc[r] = "commitMatched"
  /\ interest' = [interest EXCEPT ![Pair(r)][Actor(r)] = Promise!Upserted(@)]
  /\ match' = [match EXCEPT ![Pair(r)].status = "active"]
  /\ revealed' = revealed \cup {<<Pair(r), Actor(r)>>}
  /\ Rollback(r)
  /\ UNCHANGED <<entityVars, cascadeVars>>

\* The commit publishes interest and match and answers with the contact.
CommitMatched(r) ==
  /\ pc[r] = "commitMatched"
  /\ interest' = [interest EXCEPT ![Pair(r)][Actor(r)] = Promise!Upserted(@)]
  /\ match' = [match EXCEPT ![Pair(r)] = Promise!InsertedOnce(@)]
  /\ revealed' = revealed \cup {<<Pair(r), Actor(r)>>}
  /\ Rollback(r)
  /\ UNCHANGED <<entityVars, cascadeVars>>

\* Ownership check of the acting side only.
CheckOwner(r) ==
  CheckThen(r, "owner",
    IF Actor(r) = "tenant"
    THEN profile[ProfileOf(r)] # "deleted" /\ TenantOf[ProfileOf(r)] = op[r].user
    ELSE listing[ListingOf(r)] # "deleted" /\ LandlordOf[ListingOf(r)] = op[r].user,
    "matched")

CheckMatched_Skipped(r) == CheckThen(r, "matched", TRUE, "update")

CheckMatched(r) == CheckThen(r, "matched", ~Live(match[Pair(r)]), "update")

UpdateInterest(r) ==
  /\ pc[r] = "update"
  /\ ~ErasureHoldsInterest(Pair(r), Actor(r))
  /\ pc' = [pc EXCEPT ![r] = "commitWithdrawn"]
  /\ UNCHANGED <<entityVars, pairVars, op, cascadeVars>>

\* The transaction is never ended and keeps its row lock.
CommitWithdrawn_LeftOpen(r) ==
  pc[r] = "commitWithdrawn" /\ UNCHANGED vars

CommitWithdrawn_UnknownStatus(r) ==
  /\ pc[r] = "commitWithdrawn"
  /\ interest' = [interest EXCEPT ![Pair(r)][Actor(r)].status = "cancelled"]
  /\ Rollback(r)
  /\ UNCHANGED <<entityVars, match, revealed, cascadeVars>>

CommitWithdrawn(r) ==
  /\ pc[r] = "commitWithdrawn"
  /\ interest' = IF Visible(interest[Pair(r)][Actor(r)])
                 THEN [interest EXCEPT ![Pair(r)][Actor(r)].status = "withdrawn"]
                 ELSE interest
  /\ Rollback(r)
  /\ UNCHANGED <<entityVars, match, revealed, cascadeVars>>

\* The client goes away, the pool loses the connection or the server dies.
Abort(r) ==
  /\ "crash" \in Handlers
  /\ pc[r] # "idle"
  /\ Rollback(r)
  /\ UNCHANGED <<entityVars, pairVars, cascadeVars>>

Proceed(r) ==
  \/ ReadProfile(r) \/ ReadListing(r) \/ CheckBlocks(r) \/ UpsertInterest(r)
  \/ CheckCounter(r) \/ InsertMatch(r) \/ CommitPending(r) \/ CommitMatched(r)
  \/ CheckOwner(r) \/ CheckMatched(r) \/ UpdateInterest(r) \/ CommitWithdrawn(r)
-----------------------------------------------------------------------------
(* UpdateListingStatus, DeleteListing and the admin's remove/restore.       *)

SetListing(l, to) ==
  /\ listing[l] # "deleted" /\ ListingRowFree(l)
  /\ LandlordOf[l] \notin gone
  /\ listing' = [listing EXCEPT ![l] = to]
  /\ UNCHANGED <<gone, profile, removed, blocks, pairVars, requestVars, cascadeVars>>

\* "active" is set from any status; photos and compliance are taken as given.
ActivateListing(l) == "activate" \in Handlers /\ SetListing(l, "active")
PauseListing(l) == "pause" \in Handlers /\ SetListing(l, "paused")
DeleteListing(l) == "deleteListing" \in Handlers /\ SetListing(l, "deleted")

\* The owner check of the handler, outside the transaction.
StartRented(l) ==
  /\ "rent" \in Handlers
  /\ rent[l].at = "idle"
  /\ listing[l] # "deleted" /\ LandlordOf[l] \notin gone
  /\ rent' = [rent EXCEPT ![l].at = "listing"]
  /\ UNCHANGED <<entityVars, pairVars, requestVars, erasure>>

\* UPDATE listings: takes the row lock, if the row is still there, to the commit.
RentListing(l) ==
  /\ rent[l].at = "listing" /\ ListingRowFree(l)
  /\ rent' = [rent EXCEPT ![l].at = "matches"]
  /\ UNCHANGED <<entityVars, pairVars, requestVars, erasure>>

\* UPDATE matches: the active matches this statement sees.
RentMatches(l) ==
  LET rows == {pr \in Pairs : pr[2] = l /\ match[pr].status = "active" /\ Live(match[pr])} IN
  /\ rent[l].at = "matches"
  /\ \A pr \in rows : MatchRowFree(pr)
  /\ rent' = [rent EXCEPT ![l] = [at |-> "commit", rows |-> rows]]
  /\ UNCHANGED <<entityVars, pairVars, requestVars, erasure>>

CommitRented(l) ==
  /\ rent[l].at = "commit"
  /\ listing' = [listing EXCEPT ![l] = IF @ = "deleted" THEN @ ELSE "rented"]
  /\ match' = [pr \in Pairs |-> IF pr \in rent[l].rows
                                THEN [match[pr] EXCEPT !.status = "listing_rented"]
                                ELSE match[pr]]
  /\ rent' = [rent EXCEPT ![l] = IdleRent]
  /\ UNCHANGED <<gone, profile, removed, blocks, interest, revealed, requestVars, erasure>>

AbortRented(l) ==
  /\ "crash" \in Handlers /\ rent[l].at # "idle"
  /\ rent' = [rent EXCEPT ![l] = IdleRent]
  /\ UNCHANGED <<entityVars, pairVars, requestVars, erasure>>

AdminRemoveListing(l) ==
  /\ "moderate" \in Handlers
  /\ listing[l] # "deleted" /\ l \notin removed /\ ListingRowFree(l)
  /\ removed' = removed \cup {l}
  /\ UNCHANGED <<gone, profile, listing, blocks, pairVars, requestVars, cascadeVars>>

AdminRestoreListing(l) ==
  /\ "moderate" \in Handlers
  /\ listing[l] # "deleted" /\ l \in removed /\ ListingRowFree(l)
  /\ removed' = removed \ {l}
  /\ UNCHANGED <<gone, profile, listing, blocks, pairVars, requestVars, cascadeVars>>
-----------------------------------------------------------------------------
(* ToggleTenantProfileStatus, DeleteTenantProfile, BlockUser, UnblockUser.  *)

SetProfile(p, to) ==
  /\ profile[p] # "deleted" /\ ProfileRowFree(p)
  /\ TenantOf[p] \notin gone
  /\ profile' = [profile EXCEPT ![p] = to]
  /\ UNCHANGED <<gone, listing, removed, blocks, pairVars, requestVars, cascadeVars>>

ToggleTenantProfileStatus(p) ==
  /\ "toggle" \in Handlers
  /\ \E to \in {"active", "inactive"} : SetProfile(p, to)

DeleteTenantProfile(p) == "deleteProfile" \in Handlers /\ SetProfile(p, "deleted")

BlockUser(u, v) ==
  /\ "block" \in Handlers
  /\ u # v /\ u \notin gone /\ v \notin gone
  /\ blocks' = blocks \cup {<<u, v>>}
  /\ UNCHANGED <<gone, profile, listing, removed, pairVars, requestVars, cascadeVars>>

UnblockUser(u, v) ==
  /\ "block" \in Handlers
  /\ u \notin gone
  /\ blocks' = blocks \ {<<u, v>>}
  /\ UNCHANGED <<gone, profile, listing, removed, pairVars, requestVars, cascadeVars>>
-----------------------------------------------------------------------------
(* DeleteAccount ("self") and AdminDeleteUser ("admin"): one transaction.   *)

OwnedBy(u, pr) == TenantOf[pr[1]] = u \/ LandlordOf[pr[2]] = u

StartErasure(u, by) ==
  /\ u \in Leavers
  /\ erasure[u].at = "idle"
  /\ \A l \in Listings : LandlordOf[l] = u => ~RentHoldsListing(l)
  /\ erasure' = [erasure EXCEPT ![u] = [IdleErasure EXCEPT !.at = "interests", !.by = by]]
  /\ UNCHANGED <<entityVars, pairVars, requestVars, rent>>

\* Auth has seen a live user; the profile and listing rows are locked.
DeleteAccount(u) == "deleteAccount" \in Handlers /\ u \notin gone /\ StartErasure(u, "self")

\* The admin names any user id, a deleted one too.
AdminDeleteUser(u) == "adminDelete" \in Handlers /\ StartErasure(u, "admin")

\* DeleteAccount's loop compares interests.tenant_profile_id with the user id,
\* which no row has; AdminDeleteUser selects the profiles of the user.
EraseInterests(u) ==
  LET rows == IF erasure[u].by = "self" THEN {}
              ELSE {k \in Pairs \X Roles :
                      /\ TenantOf[k[1][1]] = u
                      /\ Live(interest[k[1]][k[2]])} IN
  /\ erasure[u].at = "interests"
  /\ \A k \in rows, r \in Requests : ~HoldsInterestRow(r, k[1], k[2])
  /\ erasure' = [erasure EXCEPT ![u].at = "matches", ![u].interests = rows]
  /\ UNCHANGED <<entityVars, pairVars, requestVars, rent>>

EraseMatches(u) ==
  LET rows == {pr \in Pairs : OwnedBy(u, pr) /\ Live(match[pr])} IN
  /\ erasure[u].at = "matches"
  /\ \A pr \in rows : MatchRowFree(pr)
  /\ erasure' = [erasure EXCEPT ![u].at = "commit", ![u].matches = rows]
  /\ UNCHANGED <<entityVars, pairVars, requestVars, rent>>

CommitErasure(u) ==
  /\ erasure[u].at = "commit"
  /\ gone' = gone \cup {u}
  /\ profile' = [p \in Profiles |-> IF TenantOf[p] = u THEN "deleted" ELSE profile[p]]
  /\ listing' = [l \in Listings |-> IF LandlordOf[l] = u THEN "deleted" ELSE listing[l]]
  /\ blocks' = {b \in blocks : b[1] # u /\ b[2] # u}
  /\ interest' = [pr \in Pairs |-> [a \in Roles |->
                   IF <<pr, a>> \in erasure[u].interests
                   THEN [interest[pr][a] EXCEPT !.deleted = TRUE] ELSE interest[pr][a]]]
  /\ match' = [pr \in Pairs |-> IF pr \in erasure[u].matches
                                THEN [match[pr] EXCEPT !.deleted = TRUE] ELSE match[pr]]
  /\ erasure' = [erasure EXCEPT ![u] = IdleErasure]
  /\ UNCHANGED <<removed, revealed, requestVars, rent>>

AbortErasure(u) ==
  /\ "crash" \in Handlers /\ erasure[u].at # "idle"
  /\ erasure' = [erasure EXCEPT ![u] = IdleErasure]
  /\ UNCHANGED <<entityVars, pairVars, requestVars, rent>>
-----------------------------------------------------------------------------
RequestNext(r) ==
  \/ \E kind \in Kinds, u \in Users, pr \in Pairs : Call(r, kind, u, pr)
  \/ AcquireLock(r) \/ Proceed(r) \/ Abort(r)

ListingNext(l) ==
  \/ ActivateListing(l) \/ PauseListing(l) \/ DeleteListing(l)
  \/ StartRented(l) \/ RentListing(l) \/ RentMatches(l) \/ CommitRented(l) \/ AbortRented(l)
  \/ AdminRemoveListing(l) \/ AdminRestoreListing(l)

ProfileNext(p) == ToggleTenantProfileStatus(p) \/ DeleteTenantProfile(p)

UserNext(u) ==
  \/ \E v \in Users : BlockUser(u, v) \/ UnblockUser(u, v)
  \/ DeleteAccount(u) \/ AdminDeleteUser(u)
  \/ EraseInterests(u) \/ EraseMatches(u) \/ CommitErasure(u) \/ AbortErasure(u)

Next ==
  \/ \E r \in Requests : RequestNext(r)
  \/ \E l \in Listings : ListingNext(l)
  \/ \E p \in Profiles : ProfileNext(p)
  \/ \E u \in Users : UserNext(u)

Spec == Init /\ [][Next]_vars

\* The steps a transaction takes by itself once it was started.
RequestStep(r) == AcquireLock(r) \/ Proceed(r)
RentStep(l) == RentListing(l) \/ RentMatches(l) \/ CommitRented(l)
ErasureStep(u) == EraseInterests(u) \/ EraseMatches(u) \/ CommitErasure(u)

\* A started transaction runs on, and PostgreSQL serves the waiters of a lock in
\* the order they came, so a wait that is granted again and again ends: strong
\* fairness.  Nothing makes a user call a handler or a transaction crash.
Fairness ==
  /\ \A r \in Requests : SF_vars(RequestStep(r))
  /\ \A l \in Listings : SF_vars(RentStep(l))
  /\ \A u \in Users : SF_vars(ErasureStep(u))

FairSpec == Spec /\ Fairness
-----------------------------------------------------------------------------
RentStates == [at : {"idle", "listing", "matches", "commit"}, rows : SUBSET Pairs]
ErasureStates == [at : {"idle", "interests", "matches", "commit"}, by : {"self", "admin"},
                  interests : SUBSET (Pairs \X Roles), matches : SUBSET Pairs]

TypeOK ==
  /\ gone \subseteq Users /\ removed \subseteq Listings /\ blocks \subseteq Users \X Users
  /\ profile \in [Profiles -> ProfileStates] /\ listing \in [Listings -> ListingStates]
  /\ Promise!TypeOK
  /\ pc \in [Requests -> RequestSteps]
  /\ op \in [Requests -> Calls \cup {NoCall}]
  /\ rent \in [Listings -> RentStates] /\ erasure \in [Users -> ErasureStates]

\* What a transaction checked is still so when it acts on it (interests.go:164-216,
\* 318-343): the counter-interest that made it insert a match is not withdrawn, the
\* one it found absent has not come, and no match has formed under a withdrawal.
ChecksStillHold ==
  \A r \in Requests :
    /\ pc[r] \in {"insert", "commitMatched"} =>
         interest[Pair(r)][Other(Actor(r))].status = "active"
    /\ pc[r] = "commitPending" => ~Visible(interest[Pair(r)][Other(Actor(r))])
    /\ pc[r] \in {"update", "commitWithdrawn"} => ~Live(match[Pair(r)])

\* A transaction that writes a side's interest acts for the user on that side
\* (interests.go:112-133, 286-315): nobody expresses or withdraws for another.
WritersOwnTheirSide ==
  \A r \in Requests :
    pc[r] \in LockedSteps \ {"profile", "listing", "owner"} =>
      op[r].user = OwnerOf(Pair(r), Actor(r))

\* No missed match, no one-sided match, no contact without a match: the promises
\* of Introduction.tla, about the committed tables (interests.go:74-75, 265-268).
MutualInterestMatched == Promise!MutualInterestMatched
LiveMatchIsMutual == Promise!LiveMatchIsMutual
RevealedOnlyMatched == Promise!RevealedOnlyMatched
MatchNeverRevived == Promise!MatchNeverRevived

\* Every commit is one atomic operation of Introduction.tla, everything else a
\* stutter: the statement-level transactions implement the promise.
PromiseKept == Promise!Spec

\* Every express or withdraw call that was started ends and frees its lock: the
\* advisory lock and the row locks of the cascades cannot block each other.
RequestsEnd == \A r \in Requests : pc[r] # "idle" ~> pc[r] = "idle"

\* Every account deletion that was started commits, whatever it has to wait for.
ErasuresEnd == \A u \in Users : erasure[u].at # "idle" ~> erasure[u].at = "idle"
=============================================================================
