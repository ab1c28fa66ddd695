------------------------------- MODULE Viewing -------------------------------
(***************************************************************************)
(* Viewings of a listing (handler/viewings.go): a matched tenant books an  *)
(* open slot, either side reschedules or cancels, the landlord records the *)
(* attendance and changes the schedule, time passes, and the cascades of   *)
(* "rented" and of the two account deletions close what they find.         *)
(*                                                                         *)
(* PostgreSQL at READ COMMITTED as in Interest.tla.  The matches are there *)
(* from the start, active; Interest.tla says how they come to be.          *)
(***************************************************************************)
EXTENDS Naturals, FiniteSets

CONSTANTS Tenants, Landlords, Listings, Matches,
          TenantOf,        \* matches.tenant_id
          ListingOf,       \* matches.listing_id
          LandlordOf,      \* listings.landlord_id
          Slots,           \* slot starts
          LockHash,        \* hashtext(listing || ':' || start), any function
          Schedules,       \* the availabilities a landlord may set
          FirstSchedule,   \* the one every listing starts with
          Viewings,        \* ids for the rows of viewings (a bound on bookings)
          Requests,        \* book/reschedule/cancel calls that may overlap
          Handlers,        \* the handlers an instance exercises (a bound)
          Leavers          \* the users whose account may be deleted (a bound)

Users == Tenants \cup Landlords

ASSUME ViewingAssumption ==
  /\ TenantOf \in [Matches -> Tenants]
  /\ ListingOf \in [Matches -> Listings]
  /\ LandlordOf \in [Listings -> Landlords]
  /\ Tenants \cap Landlords = {}
  /\ Schedules \subseteq [open : SUBSET Slots, slotCapacity : Nat]
  /\ FirstSchedule \in Schedules
  /\ IsFiniteSet(Viewings)

VARIABLES gone, listing, schedule,   \* users deleted, listing status, availability
          past,                      \* slots whose start is not after now
          match, viewing,            \* the committed rows
          pc, op, seen,              \* a call: next statement, arguments, schedule read
          rent, erasure              \* the cascades, with the rows they have locked

tableVars == <<gone, listing, schedule, past, match, viewing>>
requestVars == <<pc, op, seen>>
cascadeVars == <<rent, erasure>>
vars == <<tableVars, requestVars, cascadeVars>>

NoMatch == "none"
NoSlot == "none"
NoViewing == [status |-> "none", match |-> NoMatch, slot |-> NoSlot, attendance |-> "none",
              deleted |-> FALSE]

\* An id of viewings that has no row yet.
Free(v) == viewing[v].status = "none"
Kept(v) == ~Free(v) /\ ~viewing[v].deleted

\* The WHERE clause of both partial indexes: the viewing occupies its slot.
Occupies(row) == row.status \in {"confirmed", "completed"} /\ ~row.deleted

ViewingsAt(rows, l, s) ==
  {v \in Viewings : Occupies(rows[v]) /\ ListingOf[rows[v].match] = l /\ rows[v].slot = s}

\* bookedStarts of one slot.
Booked(rows, l, s) == Cardinality(ViewingsAt(rows, l, s))

\* A slot_capacity of 0 counts as 1.
Capacity(sch) == IF sch.slotCapacity < 1 THEN 1 ELSE sch.slotCapacity

Party(u, m) == TenantOf[m] = u \/ LandlordOf[ListingOf[m]] = u
SlotListing(r) == ListingOf[op[r].match]
LockKey_PerMatch(r) == op[r].match
LockKey(r) == LockHash[<<SlotListing(r), op[r].slot>>]

Idle == [kind |-> "none"]
Calls == [kind : {"book", "move", "cancel"}, user : Users, match : Matches,
          viewing : Viewings \cup {"none"}, slot : Slots \cup {NoSlot}]

\* Statements made while the slot lock is held, and while the viewing row is.
SlotLockedSteps == {"schedule", "count", "insert", "commitBook", "update", "commitMove"}
ClaimedSteps == {"insert", "commitBook", "update", "commitMove"}
Steps == {"idle", "match", "viewing", "slot", "read", "cancel"} \cup SlotLockedSteps

HoldsSlot_OutsideTransaction(r) == FALSE
HoldsSlot(r) == pc[r] \in SlotLockedSteps
HoldsRow_PlainSelect(r) == FALSE
HoldsRow(r) == op[r].kind = "move" /\ pc[r] \in {"slot"} \cup SlotLockedSteps

IdleRent == [at |-> "idle", matches |-> {}, viewings |-> {}]
IdleErasure == [at |-> "idle", by |-> "self", matches |-> {}, viewings |-> {}]

Init ==
  /\ gone = {} /\ past = {}
  /\ listing = [l \in Listings |-> "active"]
  /\ schedule = [l \in Listings |-> FirstSchedule]
  /\ match = [m \in Matches |-> [status |-> "active", deleted |-> FALSE]]
  /\ viewing = [v \in Viewings |-> NoViewing]
  /\ pc = [r \in Requests |-> "idle"] /\ op = [r \in Requests |-> Idle]
  /\ seen = [r \in Requests |-> FirstSchedule]
  /\ rent = [l \in Listings |-> IdleRent]
  /\ erasure = [u \in Users |-> IdleErasure]
-----------------------------------------------------------------------------
(* Row locks.                                                               *)

ViewingRowFree(v) ==
  /\ \A r \in Requests : HoldsRow(r) => op[r].viewing # v
  /\ \A l \in Listings : v \notin rent[l].viewings
  /\ \A u \in Users : v \notin erasure[u].viewings

MatchRowFree(m) ==
  /\ \A l \in Listings : m \notin rent[l].matches
  /\ \A u \in Users : m \notin erasure[u].matches

RentHoldsListing(l) ==
  rent[l].at \in {"matches", "viewings", "commit"} /\ listing[l] # "deleted"
ListingRowFree(l) == ~RentHoldsListing(l) /\ erasure[LandlordOf[l]].at = "idle"
-----------------------------------------------------------------------------
(* The calls.                                                               *)

\* Auth passes for a user that is not deleted.
Start(r, call, at) ==
  /\ call.kind \in Handlers
  /\ pc[r] = "idle" /\ call.user \notin gone
  /\ pc' = [pc EXCEPT ![r] = at]
  /\ op' = [op EXCEPT ![r] = call]
  /\ UNCHANGED <<tableVars, seen, cascadeVars>>

\* Bound: no more bookings run than there are free ids.
CallBook(r, u, m, s) ==
  /\ Cardinality({q \in Requests : op[q].kind = "book"}) < Cardinality({v \in Viewings : Free(v)})
  /\ Start(r, [kind |-> "book", user |-> u, match |-> m, viewing |-> "none", slot |-> s], "match")

CallReschedule(r, u, v, s) ==
  /\ ~Free(v)
  /\ Start(r, [kind |-> "move", user |-> u, match |-> viewing[v].match, viewing |-> v, slot |-> s],
           "viewing")

CallCancel(r, u, v) ==
  /\ ~Free(v)
  /\ Start(r, [kind |-> "cancel", user |-> u, match |-> viewing[v].match, viewing |-> v,
               slot |-> NoSlot], "read")

End(r) ==
  /\ pc' = [pc EXCEPT ![r] = "idle"]
  /\ op' = [op EXCEPT ![r] = Idle]
  /\ seen' = [seen EXCEPT ![r] = FirstSchedule]

\* A guard: the call goes on, or answers an error and rolls back.
CheckThen(r, ok, next) ==
  \/ ok /\ pc' = [pc EXCEPT ![r] = next] /\ UNCHANGED <<op, seen>>
  \/ ~ok /\ End(r)

\* BookViewing's guard: the match is live and active, and the caller is its tenant.
ReadMatch(r) ==
  LET m == op[r].match IN
  /\ pc[r] = "match"
  /\ CheckThen(r, ~match[m].deleted /\ TenantOf[m] = op[r].user /\ match[m].status = "active",
               "slot")
  /\ UNCHANGED <<tableVars, cascadeVars>>

\* RescheduleViewing's SELECT ... FOR UPDATE and its guard.
LockViewing(r) ==
  LET v == op[r].viewing IN
  /\ pc[r] = "viewing" /\ ViewingRowFree(v)
  /\ CheckThen(r, Kept(v) /\ Party(op[r].user, op[r].match) /\ viewing[v].status = "confirmed",
               "slot")
  /\ UNCHANGED <<tableVars, cascadeVars>>

\* claimSlot: the advisory lock, then validateOpenSlot's two reads.
LockSlot(r) ==
  /\ pc[r] = "slot"
  /\ \A q \in Requests \ {r} : HoldsSlot(q) => LockKey(q) # LockKey(r)
  /\ pc' = [pc EXCEPT ![r] = "schedule"]
  /\ UNCHANGED <<tableVars, op, seen, cascadeVars>>

\* A deleted listing has no availability to load: 500.
ReadSchedule(r) ==
  /\ pc[r] = "schedule"
  /\ \/ /\ listing[SlotListing(r)] # "deleted"
        /\ pc' = [pc EXCEPT ![r] = "count"]
        /\ seen' = [seen EXCEPT ![r] = schedule[SlotListing(r)]]
        /\ UNCHANGED op
     \/ listing[SlotListing(r)] = "deleted" /\ End(r)
  /\ UNCHANGED <<tableVars, cascadeVars>>

\* bookedStarts, computeOpenSlots: the slot is offered, to come, and not full.
CountBooked_OffByOne(r) ==
  /\ pc[r] = "count"
  /\ CheckThen(r, /\ op[r].slot \in seen[r].open \ past
                  /\ Booked(viewing, SlotListing(r), op[r].slot) <= Capacity(seen[r]),
               IF op[r].kind = "book" THEN "insert" ELSE "update")
  /\ UNCHANGED <<tableVars, cascadeVars>>

CountBooked(r) ==
  /\ pc[r] = "count"
  /\ CheckThen(r, /\ op[r].slot \in seen[r].open \ past
                  /\ Booked(viewing, SlotListing(r), op[r].slot) < Capacity(seen[r]),
               IF op[r].kind = "book" THEN "insert" ELSE "update")
  /\ UNCHANGED <<tableVars, cascadeVars>>

\* The unique index makes an INSERT wait for a transaction that has inserted, moved
\* or closed an occupying viewing of the match and not ended.
IndexBusy_Never(m) == FALSE
IndexBusy_RowLockToo(m) ==
  \E q \in Requests : (HoldsRow(q) \/ pc[q] = "commitBook") /\ op[q].match = m

IndexBusy(m) ==
  \/ \E q \in Requests : pc[q] \in {"commitBook", "commitMove"} /\ op[q].match = m
  \/ \E v \in Viewings :
        /\ viewing[v].match = m /\ Occupies(viewing[v])
        /\ \/ \E l \in Listings : v \in rent[l].viewings
           \/ \E u \in Users : v \in erasure[u].viewings

HasViewing(m) == \E v \in Viewings : viewing[v].match = m /\ Occupies(viewing[v])

\* INSERT ... ON CONFLICT (match_id) WHERE ... DO NOTHING; no row inserted is 409.
InsertViewing(r) ==
  /\ pc[r] = "insert" /\ ~IndexBusy(op[r].match)
  /\ CheckThen(r, ~HasViewing(op[r].match), "commitBook")
  /\ UNCHANGED <<tableVars, cascadeVars>>

CommitBook(r) ==
  /\ pc[r] = "commitBook"
  /\ \E v \in Viewings :
        /\ Free(v)
        /\ viewing' = [viewing EXCEPT ![v] =
             [status |-> "confirmed", match |-> op[r].match, slot |-> op[r].slot,
              attendance |-> "none", deleted |-> FALSE]]
  /\ End(r)
  /\ UNCHANGED <<gone, listing, schedule, past, match, cascadeVars>>

UpdateSlot(r) ==
  /\ pc[r] = "update"
  /\ pc' = [pc EXCEPT ![r] = "commitMove"]
  /\ UNCHANGED <<tableVars, op, seen, cascadeVars>>

CommitMove(r) ==
  /\ pc[r] = "commitMove"
  /\ viewing' = [viewing EXCEPT ![op[r].viewing].slot = op[r].slot]
  /\ End(r)
  /\ UNCHANGED <<gone, listing, schedule, past, match, cascadeVars>>

\* CancelViewing: a read and its guard, then an UPDATE that does not repeat it.
ReadViewing(r) ==
  LET v == op[r].viewing IN
  /\ pc[r] = "read"
  /\ CheckThen(r, Kept(v) /\ Party(op[r].user, op[r].match) /\ viewing[v].status = "confirmed",
               "cancel")
  /\ UNCHANGED <<tableVars, cascadeVars>>

CancelStatus(u, m) == IF LandlordOf[ListingOf[m]] = u THEN "cancelled_landlord" ELSE "cancelled"

CancelNow(r) ==
  LET v == op[r].viewing IN
  /\ pc[r] = "cancel" /\ ViewingRowFree(v)
  /\ viewing' = IF viewing[v].deleted THEN viewing
                ELSE [viewing EXCEPT ![v].status = CancelStatus(op[r].user, op[r].match)]
  /\ End(r)
  /\ UNCHANGED <<gone, listing, schedule, past, match, cascadeVars>>

Abort(r) ==
  /\ "crash" \in Handlers /\ pc[r] # "idle"
  /\ End(r)
  /\ UNCHANGED <<tableVars, cascadeVars>>

Proceed(r) ==
  \/ ReadMatch(r) \/ LockViewing(r) \/ LockSlot(r) \/ ReadSchedule(r) \/ CountBooked(r)
  \/ InsertViewing(r) \/ CommitBook(r) \/ UpdateSlot(r) \/ CommitMove(r)
  \/ ReadViewing(r) \/ CancelNow(r)
-----------------------------------------------------------------------------
(* Handlers of one statement, and time.                                     *)

\* SetViewingAttendance: may be called again, and at any time.
SetViewingAttendance(v, attendance) ==
  /\ "attend" \in Handlers
  /\ Occupies(viewing[v]) /\ ViewingRowFree(v)
  /\ LandlordOf[ListingOf[viewing[v].match]] \notin gone
  /\ viewing' = [viewing EXCEPT ![v].status = "completed", ![v].attendance = attendance]
  /\ UNCHANGED <<gone, listing, schedule, past, match, requestVars, cascadeVars>>

UpdateViewingAvailability(l, sch) ==
  /\ "schedule" \in Handlers
  /\ listing[l] # "deleted" /\ LandlordOf[l] \notin gone /\ ListingRowFree(l)
  /\ schedule' = [schedule EXCEPT ![l] = sch]
  /\ UNCHANGED <<gone, listing, past, match, viewing, requestVars, cascadeVars>>

DeleteListing(l) ==
  /\ "deleteListing" \in Handlers
  /\ listing[l] # "deleted" /\ LandlordOf[l] \notin gone /\ ListingRowFree(l)
  /\ listing' = [listing EXCEPT ![l] = "deleted"]
  /\ UNCHANGED <<gone, schedule, past, match, viewing, requestVars, cascadeVars>>

\* The start of a slot comes and goes.
Pass(s) ==
  /\ "time" \in Handlers /\ s \notin past
  /\ past' = past \cup {s}
  /\ UNCHANGED <<gone, listing, schedule, match, viewing, requestVars, cascadeVars>>
-----------------------------------------------------------------------------
(* UpdateListingStatus to "rented": listing, matches, viewings, commit.     *)

StartRented(l) ==
  /\ "rent" \in Handlers
  /\ rent[l].at = "idle"
  /\ listing[l] # "deleted" /\ LandlordOf[l] \notin gone
  /\ rent' = [rent EXCEPT ![l].at = "listing"]
  /\ UNCHANGED <<tableVars, requestVars, erasure>>

RentListing(l) ==
  /\ rent[l].at = "listing" /\ ListingRowFree(l)
  /\ rent' = [rent EXCEPT ![l].at = "matches"]
  /\ UNCHANGED <<tableVars, requestVars, erasure>>

RentMatches(l) ==
  LET rows == {m \in Matches : ListingOf[m] = l /\ match[m].status = "active" /\ ~match[m].deleted} IN
  /\ rent[l].at = "matches"
  /\ \A m \in rows : MatchRowFree(m)
  /\ rent' = [rent EXCEPT ![l] = [at |-> "viewings", matches |-> rows, viewings |-> {}]]
  /\ UNCHANGED <<tableVars, requestVars, erasure>>

\* UPDATE viewings: the confirmed ones this statement sees.
RentViewings(l) ==
  LET rows == {v \in Viewings : /\ Kept(v) /\ viewing[v].status = "confirmed"
                                /\ ListingOf[viewing[v].match] = l} IN
  /\ rent[l].at = "viewings"
  /\ \A v \in rows : ViewingRowFree(v)
  /\ rent' = [rent EXCEPT ![l] = [at |-> "commit", matches |-> rent[l].matches, viewings |-> rows]]
  /\ UNCHANGED <<tableVars, requestVars, erasure>>

CommitRented_MatchStatus(l) ==
  /\ rent[l].at = "commit"
  /\ viewing' = [v \in Viewings |-> IF v \in rent[l].viewings
                                    THEN [viewing[v] EXCEPT !.status = "listing_rented"]
                                    ELSE viewing[v]]
  /\ rent' = [rent EXCEPT ![l] = IdleRent]
  /\ UNCHANGED <<gone, listing, schedule, past, match, requestVars, erasure>>

CommitRented(l) ==
  /\ rent[l].at = "commit"
  /\ listing' = [listing EXCEPT ![l] = IF @ = "deleted" THEN @ ELSE "rented"]
  /\ match' = [m \in Matches |-> IF m \in rent[l].matches
                                 THEN [match[m] EXCEPT !.status = "listing_rented"] ELSE match[m]]
  /\ viewing' = [v \in Viewings |-> IF v \in rent[l].viewings
                                    THEN [viewing[v] EXCEPT !.status = "cancelled_landlord"]
                                    ELSE viewing[v]]
  /\ rent' = [rent EXCEPT ![l] = IdleRent]
  /\ UNCHANGED <<gone, schedule, past, requestVars, erasure>>

AbortRented(l) ==
  /\ "crash" \in Handlers /\ rent[l].at # "idle"
  /\ rent' = [rent EXCEPT ![l] = IdleRent]
  /\ UNCHANGED <<tableVars, requestVars, erasure>>
-----------------------------------------------------------------------------
(* DeleteAccount ("self") and AdminDeleteUser ("admin").                    *)

StartErasure(u, by) ==
  /\ u \in Leavers
  /\ erasure[u].at = "idle"
  /\ \A l \in Listings : LandlordOf[l] = u => ~RentHoldsListing(l)
  /\ erasure' = [erasure EXCEPT ![u] = [at |-> "matches", by |-> by, matches |-> {},
                                        viewings |-> {}]]
  /\ UNCHANGED <<tableVars, requestVars, rent>>

DeleteAccount(u) == "deleteAccount" \in Handlers /\ u \notin gone /\ StartErasure(u, "self")
AdminDeleteUser(u) == "adminDelete" \in Handlers /\ StartErasure(u, "admin")

EraseMatches(u) ==
  LET rows == {m \in Matches : Party(u, m) /\ ~match[m].deleted} IN
  /\ erasure[u].at = "matches"
  /\ \A m \in rows : MatchRowFree(m)
  /\ erasure' = [erasure EXCEPT ![u] = [at |-> "viewings", by |-> erasure[u].by,
                                        matches |-> rows, viewings |-> {}]]
  /\ UNCHANGED <<tableVars, requestVars, rent>>

\* The admin's list of statements has none for viewings.
EraseViewings(u) ==
  LET rows == IF erasure[u].by = "admin" THEN {}
              ELSE {v \in Viewings : Kept(v) /\ Party(u, viewing[v].match)} IN
  /\ erasure[u].at = "viewings"
  /\ \A v \in rows : ViewingRowFree(v)
  /\ erasure' = [erasure EXCEPT ![u] = [at |-> "commit", by |-> erasure[u].by,
                                        matches |-> erasure[u].matches, viewings |-> rows]]
  /\ UNCHANGED <<tableVars, requestVars, rent>>

CommitErasure(u) ==
  /\ erasure[u].at = "commit"
  /\ gone' = gone \cup {u}
  /\ listing' = [l \in Listings |-> IF LandlordOf[l] = u THEN "deleted" ELSE listing[l]]
  /\ match' = [m \in Matches |-> IF m \in erasure[u].matches
                                 THEN [match[m] EXCEPT !.deleted = TRUE] ELSE match[m]]
  /\ viewing' = [v \in Viewings |-> IF v \in erasure[u].viewings
                                    THEN [viewing[v] EXCEPT !.deleted = TRUE] ELSE viewing[v]]
  /\ erasure' = [erasure EXCEPT ![u] = IdleErasure]
  /\ UNCHANGED <<schedule, past, requestVars, rent>>

AbortErasure(u) ==
  /\ "crash" \in Handlers /\ erasure[u].at # "idle"
  /\ erasure' = [erasure EXCEPT ![u] = IdleErasure]
  /\ UNCHANGED <<tableVars, requestVars, rent>>
-----------------------------------------------------------------------------
RequestNext(r) ==
  \/ \E u \in Users, m \in Matches, s \in Slots : CallBook(r, u, m, s)
  \/ \E u \in Users, v \in Viewings, s \in Slots : CallReschedule(r, u, v, s)
  \/ \E u \in Users, v \in Viewings : CallCancel(r, u, v)
  \/ Proceed(r) \/ Abort(r)

ListingNext(l) ==
  \/ \E sch \in Schedules : UpdateViewingAvailability(l, sch)
  \/ DeleteListing(l)
  \/ StartRented(l) \/ RentListing(l) \/ RentMatches(l) \/ RentViewings(l) \/ CommitRented(l)
  \/ AbortRented(l)

UserNext(u) ==
  \/ DeleteAccount(u) \/ AdminDeleteUser(u)
  \/ EraseMatches(u) \/ EraseViewings(u) \/ CommitErasure(u) \/ AbortErasure(u)

Next ==
  \/ \E r \in Requests : RequestNext(r)
  \/ \E v \in Viewings, a \in {"attended", "absent"} : SetViewingAttendance(v, a)
  \/ \E s \in Slots : Pass(s)
  \/ \E l \in Listings : ListingNext(l)
  \/ \E u \in Users : UserNext(u)

Spec == Init /\ [][Next]_vars

RentStep(l) == RentListing(l) \/ RentMatches(l) \/ RentViewings(l) \/ CommitRented(l)
ErasureStep(u) == EraseMatches(u) \/ EraseViewings(u) \/ CommitErasure(u)

\* As in Interest.tla: a started transaction runs on and its lock waits are queued.
Fairness ==
  /\ \A r \in Requests : SF_vars(Proceed(r))
  /\ \A l \in Listings : SF_vars(RentStep(l))
  /\ \A u \in Users : SF_vars(ErasureStep(u))

FairSpec == Spec /\ Fairness
-----------------------------------------------------------------------------
ViewingRows == [status : {"none", "confirmed", "completed", "cancelled", "cancelled_landlord"},
                match : Matches \cup {NoMatch}, slot : Slots \cup {NoSlot},
                attendance : {"none", "attended", "absent"}, deleted : BOOLEAN]
RentStates == [at : {"idle", "listing", "matches", "viewings", "commit"},
               matches : SUBSET Matches, viewings : SUBSET Viewings]
ErasureStates == [at : {"idle", "matches", "viewings", "commit"}, by : {"self", "admin"},
                  matches : SUBSET Matches, viewings : SUBSET Viewings]

TypeOK ==
  /\ gone \subseteq Users /\ past \subseteq Slots
  /\ listing \in [Listings -> {"active", "rented", "deleted"}]
  /\ schedule \in [Listings -> Schedules]
  /\ match \in [Matches -> [status : {"active", "listing_rented"}, deleted : BOOLEAN]]
  /\ viewing \in [Viewings -> ViewingRows]
  /\ pc \in [Requests -> Steps] /\ op \in [Requests -> Calls \cup {Idle}]
  /\ seen \in [Requests -> Schedules]
  /\ rent \in [Listings -> RentStates] /\ erasure \in [Users -> ErasureStates]

\* A claim stays good until it is used: from the count to the commit the slot has
\* room below the capacity the call read, because whoever could fill it waits for the
\* slot's lock (viewings.go:199-202).
ClaimsFit ==
  \A r \in Requests :
    pc[r] \in ClaimedSteps =>
      Booked(viewing, SlotListing(r), op[r].slot) < Capacity(seen[r])

\* "capacity is never exceeded" (viewings.go:201): whatever step makes a slot fuller is
\* the commit of a booking or of a move to it, and leaves at most the capacity that its
\* call read.
SlotsFit ==
  [][\A l \in Listings, s \in Slots :
       Booked(viewing', l, s) > Booked(viewing, l, s) =>
         \E r \in Requests : /\ pc[r] \in {"commitBook", "commitMove"} /\ pc'[r] = "idle"
                            /\ SlotListing(r) = l /\ op[r].slot = s
                            /\ Booked(viewing', l, s) <= Capacity(seen[r])]_vars

\* One occupying viewing per match, however two bookings, a move and a cancellation
\* of it overlap (schema.sql:345, viewings.go:380-381).
OneViewingPerMatch ==
  \A v, w \in Viewings :
    Occupies(viewing[v]) /\ Occupies(viewing[w]) /\ viewing[v].match = viewing[w].match => v = w

\* Only a viewing that is confirmed is moved, and what was cancelled or deleted never
\* occupies a slot again (viewings.go:614-633): no call that had read it before can
\* bring it back.
ClosedStaysClosed ==
  [][\A v \in Viewings :
       /\ ~Free(v) /\ ~Occupies(viewing[v]) => ~Occupies(viewing'[v])
       /\ ~Free(v) /\ viewing'[v].slot # viewing[v].slot =>
            viewing[v].status = "confirmed" /\ ~viewing[v].deleted]_vars

\* admin.go:402, "same logic as user self-deletion": when the statements of a deletion
\* are through, the user's viewings are among the rows it takes.
DeletionTakesViewings ==
  [][\A u \in Users, v \in Viewings :
       /\ erasure[u].at = "viewings" /\ erasure'[u].at = "commit"
       /\ Kept(v) /\ Party(u, viewing[v].match)
       => v \in erasure'[u].viewings]_vars

\* Every book, reschedule and cancel call ends: the slot locks, the row locks and the
\* waits of the unique index are never circular.
ViewingCallsEnd == \A r \in Requests : pc[r] # "idle" ~> pc[r] = "idle"
=============================================================================
