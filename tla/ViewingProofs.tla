---------------------------- MODULE ViewingProofs ----------------------------
(***************************************************************************)
(* Proofs about Viewing.tla for any matches, listings, slots, schedules,   *)
(* number of overlapping calls and any lock hash.                          *)
(*                                                                         *)
(* The argument: the slot lock excludes (SlotLockExclusion), so the room a *)
(* call counted is still there when it commits (ClaimsFit), so no slot is  *)
(* overfilled (SlotsFit).  The row lock keeps what a reschedule read       *)
(* (MovesHold), and the unique index what a booking found (InsertsHold).   *)
(***************************************************************************)
EXTENDS Viewing, FiniteSetTheorems, TLAPS

\* What the arguments of a running call are.
BookSteps == {"match", "insert", "commitBook"}
MoveSteps == {"viewing", "update", "commitMove"}
CancelSteps == {"read", "cancel"}

CallSound(r) ==
  pc[r] # "idle" =>
    /\ op[r] \in Calls
    /\ pc[r] \in BookSteps => op[r].kind = "book"
    /\ pc[r] \in MoveSteps => op[r].kind = "move"
    /\ pc[r] \in CancelSteps <=> op[r].kind = "cancel"
    /\ op[r].kind \in {"book", "move"} => op[r].slot \in Slots
    /\ op[r].kind \in {"move", "cancel"} =>
         /\ op[r].viewing \in Viewings
         /\ ~Free(op[r].viewing)
         /\ viewing[op[r].viewing].match = op[r].match

RowSound(v) == ~Free(v) => viewing[v].match \in Matches /\ viewing[v].slot \in Slots

LockedRowsExist ==
  /\ \A l \in Listings : \A v \in rent[l].viewings : ~Free(v)
  /\ \A u \in Users : \A v \in erasure[u].viewings : ~Free(v)

Sound == /\ \A r \in Requests : CallSound(r)
         /\ \A v \in Viewings : RowSound(v)
         /\ LockedRowsExist

Typed == TypeOK /\ Sound
-----------------------------------------------------------------------------
(* Type correctness.                                                        *)

LEMMA InitTyped == Init => Typed
BY ViewingAssumption
   DEF Init, Typed, Sound, CallSound, RowSound, LockedRowsExist, TypeOK, NoViewing, NoMatch,
       NoSlot, Free, ViewingRows, RentStates, ErasureStates, IdleRent, IdleErasure, Idle, Steps,
       SlotLockedSteps

\* What a call's step does to its own part of the state: it starts with arguments, goes
\* on with them, or ends; and which statement follows which.
Starts(r) ==
  /\ pc[r] = "idle"
  /\ \E c \in Calls :
       /\ op' = [op EXCEPT ![r] = c]
       /\ pc' = [pc EXCEPT ![r] = CASE c.kind = "book" -> "match"
                                    [] c.kind = "move" -> "viewing"
                                    [] OTHER -> "read"]
       /\ c.kind \in {"book", "move"} => c.slot \in Slots
       /\ c.kind \in {"move", "cancel"} =>
            c.viewing \in Viewings /\ ~Free(c.viewing) /\ viewing[c.viewing].match = c.match
  /\ UNCHANGED <<tableVars, seen, cascadeVars>>

GoesOn(r) ==
  /\ pc[r] # "idle"
  /\ \E at \in Steps : pc' = [pc EXCEPT ![r] = at] /\ <<pc[r], at>> \in
       {<<"match", "slot">>, <<"viewing", "slot">>, <<"slot", "schedule">>, <<"schedule", "count">>,
        <<"insert", "commitBook">>, <<"update", "commitMove">>, <<"read", "cancel">>}
  /\ op' = op
  /\ \E sch \in Schedules : seen' = [seen EXCEPT ![r] = sch]
  /\ pc[r] # "schedule" => seen' = seen
  /\ UNCHANGED <<tableVars, cascadeVars>>

Claims(r) ==
  /\ CountBooked(r)
  /\ pc' = [pc EXCEPT ![r] = IF op[r].kind = "book" THEN "insert" ELSE "update"]
  /\ op' = op /\ seen' = seen
  /\ Booked(viewing, SlotListing(r), op[r].slot) < Capacity(seen[r])
  /\ UNCHANGED <<tableVars, cascadeVars>>

Ends(r) ==
  /\ pc[r] # "idle" /\ End(r)
  /\ UNCHANGED <<gone, listing, schedule, past, match, cascadeVars>>
  /\ \/ UNCHANGED viewing
     \/ CommitBook(r) \/ CommitMove(r) \/ CancelNow(r)

LEMMA RequestShape ==
  ASSUME Typed, NEW r \in Requests, RequestNext(r)
  PROVE  Starts(r) \/ GoesOn(r) \/ Claims(r) \/ Ends(r)
<1> USE DEF tableVars, cascadeVars
<1>1. ASSUME NEW u \in Users, NEW m \in Matches, NEW s \in Slots, CallBook(r, u, m, s)
      PROVE  Starts(r)
  <2> DEFINE c == [kind |-> "book", user |-> u, match |-> m, viewing |-> "none", slot |-> s]
  <2>1. c \in Calls /\ c.kind = "book" /\ c.slot \in Slots
    BY DEF Calls
  <2>2. Start(r, c, "match")
    BY <1>1 DEF CallBook
  <2> HIDE DEF c
  <2> QED
    BY <2>1, <2>2 DEF Start, Starts
<1>2. ASSUME NEW u \in Users, NEW v \in Viewings, NEW s \in Slots, CallReschedule(r, u, v, s)
      PROVE  Starts(r)
  <2> DEFINE c == [kind |-> "move", user |-> u, match |-> viewing[v].match, viewing |-> v, slot |-> s]
  <2>1. ~Free(v) /\ viewing[v].match \in Matches
    BY <1>2 DEF CallReschedule, Typed, Sound, RowSound
  <2>2. c \in Calls /\ c.kind = "move" /\ c.slot \in Slots /\ c.viewing = v /\ c.match = viewing[v].match
    BY <2>1 DEF Calls
  <2>3. Start(r, c, "viewing")
    BY <1>2 DEF CallReschedule
  <2> HIDE DEF c
  <2> QED
    BY <2>1, <2>2, <2>3 DEF Start, Starts
<1>3. ASSUME NEW u \in Users, NEW v \in Viewings, CallCancel(r, u, v)
      PROVE  Starts(r)
  <2> DEFINE c == [kind |-> "cancel", user |-> u, match |-> viewing[v].match, viewing |-> v,
                   slot |-> NoSlot]
  <2>1. ~Free(v) /\ viewing[v].match \in Matches
    BY <1>3 DEF CallCancel, Typed, Sound, RowSound
  <2>2. c \in Calls /\ c.kind = "cancel" /\ c.viewing = v /\ c.match = viewing[v].match
    BY <2>1 DEF Calls
  <2>3. Start(r, c, "read")
    BY <1>3 DEF CallCancel
  <2> HIDE DEF c
  <2> QED
    BY <2>1, <2>2, <2>3 DEF Start, Starts
<1>4. seen \in [Requests -> Schedules] /\ seen = [seen EXCEPT ![r] = seen[r]]
  BY DEF Typed, TypeOK
<1>5. ASSUME NEW ok, NEW next, CheckThen(r, ok, next), pc[r] # "idle", next \in Steps,
             <<pc[r], next>> \in {<<"match", "slot">>, <<"viewing", "slot">>, <<"read", "cancel">>,
                                  <<"insert", "commitBook">>},
             UNCHANGED <<tableVars, cascadeVars>>
      PROVE  GoesOn(r) \/ Ends(r)
  <2>1. CASE End(r)
    BY <1>5, <2>1 DEF Ends
  <2>2. CASE pc' = [pc EXCEPT ![r] = next] /\ UNCHANGED <<op, seen>>
    BY <1>4, <1>5, <2>2 DEF GoesOn
  <2> QED
    BY <1>5, <2>1, <2>2 DEF CheckThen
<1>6. CASE ReadMatch(r) \/ LockViewing(r) \/ ReadViewing(r) \/ InsertViewing(r)
  BY <1>5, <1>6 DEF ReadMatch, LockViewing, ReadViewing, InsertViewing, Steps, SlotLockedSteps
<1>7. CASE LockSlot(r) \/ UpdateSlot(r)
  BY <1>4, <1>7 DEF LockSlot, UpdateSlot, GoesOn, Steps, SlotLockedSteps
<1>8. CASE ReadSchedule(r)
  <2>1. CASE End(r)
    BY <1>8, <2>1 DEF ReadSchedule, Ends
  <2>2. CASE /\ pc' = [pc EXCEPT ![r] = "count"] /\ UNCHANGED op
             /\ seen' = [seen EXCEPT ![r] = schedule[SlotListing(r)]]
    <3>1. op[r] \in Calls
      BY <1>8 DEF ReadSchedule, Typed, Sound, CallSound
    <3>2. SlotListing(r) \in Listings
      BY <3>1, ViewingAssumption DEF SlotListing, Calls
    <3>3. schedule[SlotListing(r)] \in Schedules
      BY <3>2 DEF Typed, TypeOK
    <3> QED
      BY <1>8, <2>2, <3>3 DEF ReadSchedule, GoesOn, Steps, SlotLockedSteps
  <2> QED
    BY <1>8, <2>1, <2>2 DEF ReadSchedule
<1>9. CASE CountBooked(r)
  <2>1. CASE End(r)
    BY <1>9, <2>1 DEF CountBooked, Ends
  <2> QED
    BY <1>9, <2>1 DEF CountBooked, CheckThen, Claims
<1>10. CASE CommitBook(r) \/ CommitMove(r) \/ CancelNow(r) \/ Abort(r)
  BY <1>10 DEF CommitBook, CommitMove, CancelNow, Abort, Ends
<1> QED
  BY <1>1, <1>2, <1>3, <1>6, <1>7, <1>8, <1>9, <1>10 DEF RequestNext, Proceed

-----------------------------------------------------------------------------
(* What a step does to a row of viewings: it inserts it, moves it, or closes it or  *)
(* records the attendance.                                                          *)

Inserted(v) ==
  /\ Free(v)
  /\ \E r \in Requests : CommitBook(r) /\ viewing'[v] =
       [status |-> "confirmed", match |-> op[r].match, slot |-> op[r].slot,
        attendance |-> "none", deleted |-> FALSE]
  /\ \A w \in Viewings \ {v} : viewing'[w] = viewing[w]

Moved(v) ==
  /\ \E r \in Requests : /\ CommitMove(r) /\ v = op[r].viewing
                         /\ viewing'[v] = [viewing[v] EXCEPT !.slot = op[r].slot]
  /\ \A w \in Viewings \ {v} : viewing'[w] = viewing[w]

Settled(v) ==
  /\ ~Free(v) /\ viewing'[v] \in ViewingRows /\ viewing'[v].status # "none"
  /\ viewing'[v].match = viewing[v].match /\ viewing'[v].slot = viewing[v].slot
  /\ Occupies(viewing'[v]) => Occupies(viewing[v])

SettledOnly == \A v \in Viewings : viewing'[v] = viewing[v] \/ Settled(v)

LEMMA BookInserts ==
  ASSUME Typed, NEW r \in Requests, CommitBook(r)
  PROVE  viewing' \in [Viewings -> ViewingRows] /\ \E v \in Viewings : Inserted(v)
<1> DEFINE row == [status |-> "confirmed", match |-> op[r].match, slot |-> op[r].slot,
                   attendance |-> "none", deleted |-> FALSE]
<1>0. viewing \in [Viewings -> ViewingRows]
  BY DEF Typed, TypeOK
<1>1. PICK v \in Viewings : Free(v) /\ viewing' = [viewing EXCEPT ![v] = row]
  BY DEF CommitBook
<1>2. op[r].match \in Matches /\ op[r].slot \in Slots
  BY DEF CommitBook, Typed, Sound, CallSound, Calls, BookSteps
<1>3. row \in ViewingRows
  BY <1>2 DEF ViewingRows
<1>4. viewing'[v] = row /\ \A w \in Viewings \ {v} : viewing'[w] = viewing[w]
  BY <1>0, <1>1
<1>5. Inserted(v)
  BY <1>1, <1>4 DEF Inserted
<1> QED
  BY <1>0, <1>1, <1>3, <1>5

LEMMA RowShape ==
  ASSUME Typed, Next
  PROVE  /\ viewing' \in [Viewings -> ViewingRows]
         /\ SettledOnly \/ \E v \in Viewings : Inserted(v) \/ Moved(v)
<1>0. viewing \in [Viewings -> ViewingRows]
  BY DEF Typed, TypeOK
<1>1. CASE UNCHANGED viewing
  BY <1>0, <1>1 DEF SettledOnly
<1>2. ASSUME NEW r \in Requests, CommitBook(r)
      PROVE  viewing' \in [Viewings -> ViewingRows] /\ \E v \in Viewings : Inserted(v)
  BY <1>2, BookInserts
<1>3. ASSUME NEW r \in Requests, CommitMove(r)
      PROVE  viewing' \in [Viewings -> ViewingRows] /\ \E v \in Viewings : Moved(v)
  <2> DEFINE v == op[r].viewing
  <2>1. v \in Viewings /\ op[r].slot \in Slots
    BY <1>3 DEF CommitMove, Typed, Sound, CallSound, MoveSteps
  <2>2. /\ viewing'[v] = [viewing[v] EXCEPT !.slot = op[r].slot]
        /\ viewing' = [w \in Viewings |-> viewing'[w]]
        /\ \A w \in Viewings \ {v} : viewing'[w] = viewing[w]
    BY <1>0, <1>3, <2>1 DEF CommitMove
  <2>3. viewing'[v] \in ViewingRows
    <3> HIDE DEF v
    <3>1. viewing[v] \in ViewingRows
      BY <1>0, <2>1
    <3> QED
      BY <2>1, <2>2, <3>1 DEF ViewingRows
  <2>4. Moved(v)
    BY <1>3, <2>2 DEF Moved
  <2>5. \A w \in Viewings : viewing'[w] \in ViewingRows
    BY <1>0, <2>2, <2>3
  <2> QED
    BY <2>1, <2>2, <2>4, <2>5
<1>4. ASSUME NEW v \in Viewings, ~Free(v), viewing' = [viewing EXCEPT ![v] = viewing'[v]],
             viewing'[v] \in ViewingRows, Settled(v)
      PROVE  viewing' \in [Viewings -> ViewingRows] /\ SettledOnly
  BY <1>0, <1>4 DEF SettledOnly
<1>5. ASSUME NEW r \in Requests, CancelNow(r)
      PROVE  viewing' \in [Viewings -> ViewingRows] /\ SettledOnly
  <2> DEFINE v == op[r].viewing
  <2> DEFINE st == CancelStatus(op[r].user, op[r].match)
  <2>1. v \in Viewings /\ ~Free(v)
    BY <1>5 DEF CancelNow, Typed, Sound, CallSound, CancelSteps
  <2>2. CASE viewing[v].deleted
    <3>1. viewing' = viewing
      BY <1>5, <2>2 DEF CancelNow
    <3> QED
      BY <1>0, <3>1 DEF SettledOnly
  <2>3. CASE ~viewing[v].deleted
    <3>1. st \in {"cancelled", "cancelled_landlord"}
      BY DEF CancelStatus
    <3>2. viewing' = [viewing EXCEPT ![v].status = st]
      BY <1>5, <2>3 DEF CancelNow
    <3> HIDE DEF v, st
    <3>3. viewing'[v] = [viewing[v] EXCEPT !.status = st]
      BY <1>0, <2>1, <3>2
    <3>4. viewing' = [viewing EXCEPT ![v] = viewing'[v]]
      BY <1>0, <2>1, <3>2
    <3>5. viewing[v] \in ViewingRows
      BY <1>0, <2>1
    <3>6. viewing'[v] \in ViewingRows
      BY <3>1, <3>3, <3>5 DEF ViewingRows
    <3>7. Settled(v)
      BY <2>1, <3>1, <3>3, <3>5, <3>6 DEF Settled, Occupies, ViewingRows
    <3> QED
      BY <1>4, <2>1, <3>4, <3>6, <3>7
  <2> QED
    BY <2>2, <2>3
<1>6. ASSUME NEW v \in Viewings, NEW a \in {"attended", "absent"}, SetViewingAttendance(v, a)
      PROVE  viewing' \in [Viewings -> ViewingRows] /\ SettledOnly
  <2>1. viewing' = [viewing EXCEPT ![v].status = "completed", ![v].attendance = a]
    BY <1>6 DEF SetViewingAttendance
  <2>2. viewing'[v] = [viewing[v] EXCEPT !.status = "completed", !.attendance = a]
    BY <1>0, <2>1
  <2>3. viewing' = [viewing EXCEPT ![v] = viewing'[v]]
    BY <1>0, <2>1
  <2>4. viewing[v] \in ViewingRows /\ viewing'[v] \in ViewingRows
    <3>1. viewing[v] \in ViewingRows
      BY <1>0
    <3> QED
      BY <2>2, <3>1 DEF ViewingRows
  <2>5. ~Free(v) /\ Occupies(viewing[v])
    BY <1>6 DEF SetViewingAttendance, Occupies, Free
  <2>6. Settled(v)
    BY <2>2, <2>4, <2>5 DEF Settled, ViewingRows
  <2> QED
    BY <1>4, <2>3, <2>4, <2>5, <2>6
<1>7. ASSUME NEW l \in Listings, CommitRented(l)
      PROVE  viewing' \in [Viewings -> ViewingRows] /\ SettledOnly
  <2>1. ASSUME NEW v \in Viewings
        PROVE  viewing'[v] \in ViewingRows /\ (viewing'[v] = viewing[v] \/ Settled(v))
    <3>1. CASE v \notin rent[l].viewings
      BY <1>0, <1>7, <3>1 DEF CommitRented
    <3>2. CASE v \in rent[l].viewings
      <4>1. viewing'[v] = [viewing[v] EXCEPT !.status = "cancelled_landlord"]
        BY <1>7, <3>2 DEF CommitRented
      <4>2. ~Free(v)
        BY <3>2 DEF Typed, Sound, LockedRowsExist
      <4>3. viewing[v] \in ViewingRows /\ viewing'[v] \in ViewingRows
        BY <1>0, <4>1 DEF ViewingRows
      <4> QED
        BY <4>1, <4>2, <4>3 DEF Settled, Occupies, ViewingRows
    <3> QED
      BY <3>1, <3>2
  <2>2. viewing' = [v \in Viewings |-> viewing'[v]]
    BY <1>7 DEF CommitRented
  <2> QED
    BY <2>1, <2>2 DEF SettledOnly
<1>8. ASSUME NEW u \in Users, CommitErasure(u)
      PROVE  viewing' \in [Viewings -> ViewingRows] /\ SettledOnly
  <2>1. ASSUME NEW v \in Viewings
        PROVE  viewing'[v] \in ViewingRows /\ (viewing'[v] = viewing[v] \/ Settled(v))
    <3>1. CASE v \notin erasure[u].viewings
      BY <1>0, <1>8, <3>1 DEF CommitErasure
    <3>2. CASE v \in erasure[u].viewings
      <4>1. viewing'[v] = [viewing[v] EXCEPT !.deleted = TRUE]
        BY <1>8, <3>2 DEF CommitErasure
      <4>2. ~Free(v)
        BY <3>2 DEF Typed, Sound, LockedRowsExist
      <4>3. viewing[v] \in ViewingRows /\ viewing'[v] \in ViewingRows
        BY <1>0, <4>1 DEF ViewingRows
      <4> QED
        BY <4>1, <4>2, <4>3 DEF Settled, Occupies, ViewingRows, Free
    <3> QED
      BY <3>1, <3>2
  <2>2. viewing' = [v \in Viewings |-> viewing'[v]]
    BY <1>8 DEF CommitErasure
  <2> QED
    BY <2>1, <2>2 DEF SettledOnly
<1>9. ASSUME NEW r \in Requests, RequestNext(r)
      PROVE  UNCHANGED viewing \/ CommitBook(r) \/ CommitMove(r) \/ CancelNow(r)
  BY <1>9, RequestShape DEF Starts, GoesOn, Claims, Ends, tableVars
<1>10. ASSUME NEW l \in Listings, ListingNext(l)
       PROVE  UNCHANGED viewing \/ CommitRented(l)
  BY <1>10 DEF ListingNext, UpdateViewingAvailability, DeleteListing, StartRented, RentListing,
               RentMatches, RentViewings, AbortRented, tableVars
<1>11. ASSUME NEW u \in Users, UserNext(u)
       PROVE  UNCHANGED viewing \/ CommitErasure(u)
  BY <1>11 DEF UserNext, DeleteAccount, AdminDeleteUser, StartErasure, EraseMatches,
               EraseViewings, AbortErasure, tableVars
<1>12. ASSUME NEW s \in Slots, Pass(s) PROVE UNCHANGED viewing
  BY <1>12 DEF Pass
<1> QED
  BY <1>1, <1>2, <1>3, <1>5, <1>6, <1>7, <1>8, <1>9, <1>10, <1>11, <1>12 DEF Next

\* What a row is for: it never becomes free again, and never changes its match.
LEMMA RowsStay ==
  ASSUME Typed, Next, NEW v \in Viewings, ~Free(v)
  PROVE  ~Free(v)' /\ viewing'[v].match = viewing[v].match
<1>1. viewing[v] \in ViewingRows
  BY DEF Typed, TypeOK
<1>2. CASE SettledOnly
  BY <1>2 DEF SettledOnly, Settled, Free
<1>3. ASSUME NEW w \in Viewings, Inserted(w) \/ Moved(w)
      PROVE  ~Free(v)' /\ viewing'[v].match = viewing[v].match
  <2>1. CASE w # v
    BY <1>3, <2>1 DEF Inserted, Moved, Free
  <2>2. CASE w = v
    <3>1. PICK r \in Requests : viewing'[v] = [viewing[v] EXCEPT !.slot = op[r].slot]
      BY <1>3, <2>2 DEF Inserted, Moved
    <3> QED
      BY <1>1, <3>1 DEF ViewingRows, Free
  <2> QED
    BY <2>1, <2>2
<1> QED
  BY <1>2, <1>3, RowShape

LEMMA RowSoundKept ==
  ASSUME Typed, Next, NEW v \in Viewings
  PROVE  RowSound(v)'
<1>1. viewing[v] \in ViewingRows /\ RowSound(v)
  BY DEF Typed, TypeOK, Sound
<1>2. CASE SettledOnly
  BY <1>1, <1>2 DEF SettledOnly, Settled, RowSound, Free
<1>3. ASSUME NEW w \in Viewings, Inserted(w) \/ Moved(w)
      PROVE  RowSound(v)'
  <2>1. CASE w # v
    BY <1>1, <1>3, <2>1 DEF Inserted, Moved, RowSound, Free
  <2>2. ASSUME w = v, NEW r \in Requests, pc[r] \in {"commitBook", "commitMove"}
        PROVE  op[r].match \in Matches /\ op[r].slot \in Slots
    BY <2>2 DEF Typed, Sound, CallSound, Calls, BookSteps, MoveSteps
  <2>3. CASE w = v /\ Inserted(v)
    <3>1. PICK r \in Requests : CommitBook(r) /\ viewing'[v] =
             [status |-> "confirmed", match |-> op[r].match, slot |-> op[r].slot,
              attendance |-> "none", deleted |-> FALSE]
      BY <2>3 DEF Inserted
    <3>2. op[r].match \in Matches /\ op[r].slot \in Slots
      BY <2>2, <2>3, <3>1 DEF CommitBook
    <3> QED
      BY <3>1, <3>2 DEF RowSound
  <2>4. CASE w = v /\ Moved(v)
    <3>1. PICK r \in Requests : CommitMove(r) /\ v = op[r].viewing
                                /\ viewing'[v] = [viewing[v] EXCEPT !.slot = op[r].slot]
      BY <2>4 DEF Moved
    <3>2. op[r].slot \in Slots /\ ~Free(v)
      BY <2>2, <2>4, <3>1 DEF CommitMove, Typed, Sound, CallSound, MoveSteps
    <3> QED
      BY <1>1, <3>1, <3>2 DEF RowSound, ViewingRows
  <2> QED
    BY <1>3, <2>1, <2>3, <2>4
<1> QED
  BY <1>2, <1>3, RowShape

LEMMA CallsKept ==
  ASSUME Typed, NEW r \in Requests, RequestNext(r), Next
  PROVE  /\ pc' \in [Requests -> Steps] /\ op' \in [Requests -> Calls \cup {Idle}]
         /\ seen' \in [Requests -> Schedules]
         /\ \A q \in Requests : CallSound(q)'
<1>0. /\ pc \in [Requests -> Steps] /\ op \in [Requests -> Calls \cup {Idle}]
      /\ seen \in [Requests -> Schedules]
      /\ \A q \in Requests : CallSound(q)
  BY DEF Typed, TypeOK, Sound
<1>1. ASSUME NEW q \in Requests, pc'[q] = pc[q], op'[q] = op[q]
      PROVE  CallSound(q)'
  BY <1>0, <1>1, RowsStay DEF CallSound
<1>2. CASE Starts(r)
  <2>1. PICK c \in Calls :
       /\ op' = [op EXCEPT ![r] = c]
       /\ pc' = [pc EXCEPT ![r] = CASE c.kind = "book" -> "match"
                                    [] c.kind = "move" -> "viewing"
                                    [] OTHER -> "read"]
       /\ c.kind \in {"book", "move"} => c.slot \in Slots
       /\ c.kind \in {"move", "cancel"} =>
            c.viewing \in Viewings /\ ~Free(c.viewing) /\ viewing[c.viewing].match = c.match
    BY <1>2 DEF Starts
  <2>2. c.kind \in {"book", "move", "cancel"}
    BY DEF Calls
  <2>3. op'[r] = c /\ pc'[r] = CASE c.kind = "book" -> "match"
                                 [] c.kind = "move" -> "viewing"
                                 [] OTHER -> "read"
    BY <1>0, <2>1
  <2>4. CallSound(r)'
    BY <2>1, <2>2, <2>3, RowsStay DEF CallSound, BookSteps, MoveSteps, CancelSteps
  <2>5. seen' = seen
    BY <1>2 DEF Starts
  <2>6. \A q \in Requests \ {r} : pc'[q] = pc[q] /\ op'[q] = op[q]
    BY <1>0, <2>1
  <2>7. pc' \in [Requests -> Steps] /\ op' \in [Requests -> Calls \cup {Idle}]
    BY <1>0, <2>1, <2>2 DEF Steps
  <2> QED
    BY <1>0, <1>1, <2>4, <2>5, <2>6, <2>7
<1>3. CASE GoesOn(r)
  <2>1. PICK at \in Steps : pc' = [pc EXCEPT ![r] = at] /\ <<pc[r], at>> \in
       {<<"match", "slot">>, <<"viewing", "slot">>, <<"slot", "schedule">>, <<"schedule", "count">>,
        <<"insert", "commitBook">>, <<"update", "commitMove">>, <<"read", "cancel">>}
    BY <1>3 DEF GoesOn
  <2>2. op' = op /\ pc'[r] = at /\ seen' \in [Requests -> Schedules]
    BY <1>0, <1>3, <2>1 DEF GoesOn
  <2>3. CallSound(r)'
    BY <1>0, <2>1, <2>2, RowsStay DEF CallSound, BookSteps, MoveSteps, CancelSteps
  <2> QED
    BY <1>0, <1>1, <2>1, <2>2, <2>3
<1>4. CASE Claims(r)
  <2>1. /\ pc[r] = "count" /\ op' = op /\ seen' = seen
        /\ pc' = [pc EXCEPT ![r] = IF op[r].kind = "book" THEN "insert" ELSE "update"]
    BY <1>4 DEF Claims, CountBooked
  <2>2. op[r].kind \in {"book", "move"}
    BY <1>0, <2>1 DEF CallSound, Calls, CancelSteps
  <2>3. CallSound(r)'
    BY <1>0, <2>1, <2>2, RowsStay DEF CallSound, BookSteps, MoveSteps, CancelSteps
  <2> QED
    BY <1>0, <1>1, <2>1, <2>3 DEF Steps, SlotLockedSteps
<1>5. CASE Ends(r)
  <2>1. End(r)
    BY <1>5 DEF Ends
  <2> QED
    BY <1>0, <1>1, <2>1, ViewingAssumption DEF End, CallSound, Steps
<1> QED
  BY <1>2, <1>3, <1>4, <1>5, RequestShape

LEMMA CascadesKept ==
  ASSUME Typed, Next
  PROVE  /\ rent' \in [Listings -> RentStates] /\ erasure' \in [Users -> ErasureStates]
         /\ LockedRowsExist'
<1>0. /\ rent \in [Listings -> RentStates] /\ erasure \in [Users -> ErasureStates]
      /\ LockedRowsExist
      /\ \A l \in Listings : rent[l].viewings \subseteq Viewings
      /\ \A u \in Users : erasure[u].viewings \subseteq Viewings
  BY DEF Typed, TypeOK, Sound, RentStates, ErasureStates
<1>1. CASE UNCHANGED <<rent, erasure>>
  BY <1>0, <1>1, RowsStay DEF LockedRowsExist
<1>2. ASSUME NEW l \in Listings, NEW s \in RentStates, UNCHANGED erasure,
             rent' = [rent EXCEPT ![l] = s], \A v \in s.viewings : v \in Viewings /\ ~Free(v)
      PROVE  /\ rent' \in [Listings -> RentStates] /\ erasure' \in [Users -> ErasureStates]
             /\ LockedRowsExist'
  BY <1>0, <1>2, RowsStay DEF LockedRowsExist
<1>3. ASSUME NEW u \in Users, NEW s \in ErasureStates, UNCHANGED rent,
             erasure' = [erasure EXCEPT ![u] = s], \A v \in s.viewings : v \in Viewings /\ ~Free(v)
      PROVE  /\ rent' \in [Listings -> RentStates] /\ erasure' \in [Users -> ErasureStates]
             /\ LockedRowsExist'
  BY <1>0, <1>3, RowsStay DEF LockedRowsExist
<1>4. ASSUME NEW l \in Listings, ListingNext(l)
      PROVE  \/ UNCHANGED <<rent, erasure>>
             \/ /\ UNCHANGED erasure
                /\ \E s \in RentStates : /\ rent' = [rent EXCEPT ![l] = s]
                                         /\ \A v \in s.viewings : v \in Viewings /\ ~Free(v)
  <2>1. rent[l] \in RentStates /\ \A v \in rent[l].viewings : v \in Viewings /\ ~Free(v)
    BY <1>0 DEF LockedRowsExist
  <2>2. CASE StartRented(l) \/ RentListing(l)
    <3>1. PICK at \in {"listing", "matches"} : rent' = [rent EXCEPT ![l].at = at]
      BY <2>2 DEF StartRented, RentListing
    <3>2. rent' = [rent EXCEPT ![l] = [rent[l] EXCEPT !.at = at]]
      BY <1>0, <3>1
    <3>3. [rent[l] EXCEPT !.at = at] \in RentStates
          /\ [rent[l] EXCEPT !.at = at].viewings = rent[l].viewings
      BY <2>1 DEF RentStates
    <3> QED
      BY <2>1, <2>2, <3>2, <3>3 DEF StartRented, RentListing
  <2>3. CASE RentMatches(l)
    <3>1. PICK rows \in SUBSET Matches :
             rent' = [rent EXCEPT ![l] = [at |-> "viewings", matches |-> rows, viewings |-> {}]]
      BY <2>3 DEF RentMatches
    <3>2. [at |-> "viewings", matches |-> rows, viewings |-> {}] \in RentStates
      BY DEF RentStates
    <3> QED
      BY <2>3, <3>1, <3>2 DEF RentMatches
  <2>4. CASE RentViewings(l)
    <3>1. PICK rows \in SUBSET Viewings :
             /\ \A v \in rows : Kept(v)
             /\ rent' = [rent EXCEPT ![l] = [at |-> "commit", matches |-> rent[l].matches,
                                             viewings |-> rows]]
      BY <2>4 DEF RentViewings
    <3>2. [at |-> "commit", matches |-> rent[l].matches, viewings |-> rows] \in RentStates
      BY <2>1 DEF RentStates
    <3> QED
      BY <2>4, <3>1, <3>2 DEF RentViewings, Kept
  <2>5. CASE CommitRented(l) \/ AbortRented(l)
    <3>1. IdleRent \in RentStates /\ IdleRent.viewings = {}
      BY DEF IdleRent, RentStates
    <3> QED
      BY <2>5, <3>1 DEF CommitRented, AbortRented
  <2> QED
    BY <1>4, <2>2, <2>3, <2>4, <2>5
       DEF ListingNext, UpdateViewingAvailability, DeleteListing, cascadeVars
<1>5. ASSUME NEW u \in Users, UserNext(u)
      PROVE  /\ UNCHANGED rent
             /\ \E s \in ErasureStates : /\ erasure' = [erasure EXCEPT ![u] = s]
                                         /\ \A v \in s.viewings : v \in Viewings /\ ~Free(v)
  <2>1. erasure[u] \in ErasureStates
    BY <1>0
  <2>2. CASE DeleteAccount(u) \/ AdminDeleteUser(u)
    <3>1. PICK by \in {"self", "admin"} : StartErasure(u, by)
      BY <2>2 DEF DeleteAccount, AdminDeleteUser
    <3>2. [at |-> "matches", by |-> by, matches |-> {}, viewings |-> {}] \in ErasureStates
      BY DEF ErasureStates
    <3> QED
      BY <3>1, <3>2 DEF StartErasure
  <2>3. CASE EraseMatches(u)
    <3>1. PICK rows \in SUBSET Matches :
             erasure' = [erasure EXCEPT ![u] = [at |-> "viewings", by |-> erasure[u].by,
                                                matches |-> rows, viewings |-> {}]]
      BY <2>3 DEF EraseMatches
    <3>2. [at |-> "viewings", by |-> erasure[u].by, matches |-> rows, viewings |-> {}]
            \in ErasureStates
      BY <2>1 DEF ErasureStates
    <3> QED
      BY <2>3, <3>1, <3>2 DEF EraseMatches
  <2>4. CASE EraseViewings(u)
    <3>1. PICK rows \in SUBSET Viewings :
             /\ \A v \in rows : Kept(v)
             /\ erasure' = [erasure EXCEPT ![u] = [at |-> "commit", by |-> erasure[u].by,
                                                   matches |-> erasure[u].matches,
                                                   viewings |-> rows]]
      <4> DEFINE rows == IF erasure[u].by = "admin" THEN {}
                         ELSE {v \in Viewings : Kept(v) /\ Party(u, viewing[v].match)}
      <4>1. rows \in SUBSET Viewings /\ \A v \in rows : Kept(v)
        OBVIOUS
      <4>2. erasure' = [erasure EXCEPT ![u] = [at |-> "commit", by |-> erasure[u].by,
                                               matches |-> erasure[u].matches,
                                               viewings |-> rows]]
        BY <2>4 DEF EraseViewings
      <4> QED
        BY <4>1, <4>2
    <3>2. [at |-> "commit", by |-> erasure[u].by, matches |-> erasure[u].matches,
           viewings |-> rows] \in ErasureStates
      BY <2>1 DEF ErasureStates
    <3> QED
      BY <2>4, <3>1, <3>2 DEF EraseViewings, Kept
  <2>5. CASE CommitErasure(u) \/ AbortErasure(u)
    <3>1. IdleErasure \in ErasureStates /\ IdleErasure.viewings = {}
      BY DEF IdleErasure, ErasureStates
    <3> QED
      BY <2>5, <3>1 DEF CommitErasure, AbortErasure
  <2> QED
    BY <1>5, <2>2, <2>3, <2>4, <2>5 DEF UserNext
<1>6. ASSUME NEW r \in Requests, RequestNext(r) PROVE UNCHANGED <<rent, erasure>>
  BY <1>6, RequestShape DEF Starts, GoesOn, Claims, Ends, cascadeVars
<1>7. ASSUME \/ \E v \in Viewings, a \in {"attended", "absent"} : SetViewingAttendance(v, a)
             \/ \E s \in Slots : Pass(s)
      PROVE  UNCHANGED <<rent, erasure>>
  BY <1>7 DEF SetViewingAttendance, Pass, cascadeVars
<1> QED
  BY <1>1, <1>2, <1>3, <1>4, <1>5, <1>6, <1>7 DEF Next

\* Only a step of a call touches the calls.
LEMMA OthersKeepRequests ==
  ASSUME Next, \A r \in Requests : ~RequestNext(r)
  PROVE  UNCHANGED requestVars
BY DEF Next, requestVars, SetViewingAttendance, Pass, ListingNext, UpdateViewingAvailability,
       DeleteListing, StartRented, RentListing, RentMatches, RentViewings, CommitRented,
       AbortRented, UserNext, DeleteAccount, AdminDeleteUser, StartErasure, EraseMatches,
       EraseViewings, CommitErasure, AbortErasure

LEMMA TablesKept ==
  ASSUME Typed, Next
  PROVE  /\ gone' \subseteq Users /\ past' \subseteq Slots
         /\ listing' \in [Listings -> {"active", "rented", "deleted"}]
         /\ schedule' \in [Listings -> Schedules]
         /\ match' \in [Matches -> [status : {"active", "listing_rented"}, deleted : BOOLEAN]]
<1> USE DEF Typed, TypeOK, tableVars
<1>1. ASSUME NEW r \in Requests, RequestNext(r)
      PROVE  UNCHANGED <<gone, past, listing, schedule, match>>
  BY <1>1, RequestShape DEF Starts, GoesOn, Claims, Ends
<1>2. ASSUME NEW l \in Listings, CommitRented(l)
      PROVE  match' \in [Matches -> [status : {"active", "listing_rented"}, deleted : BOOLEAN]]
  BY <1>2 DEF CommitRented
<1>3. ASSUME NEW l \in Listings, ListingNext(l)
      PROVE  /\ UNCHANGED <<gone, past>>
             /\ listing' \in [Listings -> {"active", "rented", "deleted"}]
             /\ schedule' \in [Listings -> Schedules]
             /\ UNCHANGED match \/ CommitRented(l)
  BY <1>3 DEF ListingNext, UpdateViewingAvailability, DeleteListing, StartRented, RentListing,
              RentMatches, RentViewings, CommitRented, AbortRented
<1>4. ASSUME NEW u \in Users, CommitErasure(u)
      PROVE  match' \in [Matches -> [status : {"active", "listing_rented"}, deleted : BOOLEAN]]
  BY <1>4 DEF CommitErasure
<1>5. ASSUME NEW u \in Users, UserNext(u)
      PROVE  /\ gone' \subseteq Users /\ UNCHANGED <<past, schedule>>
             /\ listing' \in [Listings -> {"active", "rented", "deleted"}]
             /\ UNCHANGED match \/ CommitErasure(u)
  BY <1>5 DEF UserNext, DeleteAccount, AdminDeleteUser, StartErasure, EraseMatches,
              EraseViewings, CommitErasure, AbortErasure
<1>6. ASSUME NEW v \in Viewings, NEW a \in {"attended", "absent"}, SetViewingAttendance(v, a)
      PROVE  UNCHANGED <<gone, past, listing, schedule, match>>
  BY <1>6 DEF SetViewingAttendance
<1>7. ASSUME NEW s \in Slots, Pass(s)
      PROVE  past' \subseteq Slots /\ UNCHANGED <<gone, listing, schedule, match>>
  BY <1>7 DEF Pass
<1> QED
  BY <1>1, <1>2, <1>3, <1>4, <1>5, <1>6, <1>7 DEF Next

LEMMA TypedKept ==
  ASSUME Typed, [Next]_vars
  PROVE  Typed'
<1>1. CASE UNCHANGED vars
  BY <1>1 DEF Typed, TypeOK, Sound, CallSound, RowSound, LockedRowsExist, Free, vars, tableVars,
              requestVars, cascadeVars
<1>2. CASE Next
  <2>1. viewing' \in [Viewings -> ViewingRows] /\ \A v \in Viewings : RowSound(v)'
    BY <1>2, RowShape, RowSoundKept
  <2>2. /\ pc' \in [Requests -> Steps] /\ op' \in [Requests -> Calls \cup {Idle}]
        /\ seen' \in [Requests -> Schedules]
        /\ \A q \in Requests : CallSound(q)'
    <3>1. CASE \E r \in Requests : RequestNext(r)
      BY <1>2, <3>1, CallsKept
    <3>2. CASE \A r \in Requests : ~RequestNext(r)
      <4>1. UNCHANGED <<pc, op, seen>>
        BY <1>2, <3>2, OthersKeepRequests DEF requestVars
      <4>2. /\ pc' \in [Requests -> Steps] /\ op' \in [Requests -> Calls \cup {Idle}]
            /\ seen' \in [Requests -> Schedules]
        BY <4>1 DEF Typed, TypeOK
      <4>3. ASSUME NEW q \in Requests PROVE CallSound(q)'
        BY <1>2, <4>1, RowsStay DEF Typed, Sound, CallSound
      <4> QED
        BY <4>2, <4>3
    <3> QED
      BY <3>1, <3>2
  <2>3. /\ rent' \in [Listings -> RentStates] /\ erasure' \in [Users -> ErasureStates]
        /\ LockedRowsExist'
    BY <1>2, CascadesKept
  <2> QED
    BY <1>2, <2>1, <2>2, <2>3, TablesKept DEF Typed, TypeOK, Sound
<1> QED
  BY <1>1, <1>2

\* Every variable keeps its type whatever the handlers do.
THEOREM ViewingTypes == Spec => []TypeOK
<1>1. Typed /\ [Next]_vars => Typed'
  BY TypedKept
<1> QED
  BY <1>1, InitTyped, PTL DEF Spec, Typed
-----------------------------------------------------------------------------
(* The slot lock excludes.                                                  *)

SlotLockExclusion ==
  \A q, r \in Requests : q # r /\ HoldsSlot(q) /\ HoldsSlot(r) => LockKey(q) # LockKey(r)

LEMMA SlotStepIsLock ==
  ASSUME Typed, NEW r \in Requests, RequestNext(r), pc[r] = "slot", pc'[r] # "idle"
  PROVE  LockSlot(r)
BY DEF RequestNext, CallBook, CallReschedule, CallCancel, Start, Proceed, ReadMatch, LockViewing,
       ReadSchedule, CountBooked, InsertViewing, CommitBook, UpdateSlot, CommitMove, ReadViewing,
       CancelNow, Abort, End, Typed, TypeOK

LEMMA LockFrame ==
  ASSUME Typed, NEW r \in Requests, RequestNext(r)
  PROVE  /\ \A q \in Requests \ {r} : pc'[q] = pc[q] /\ op'[q] = op[q] /\ seen'[q] = seen[q]
         /\ pc'[r] \in SlotLockedSteps => op'[r] = op[r] /\ (HoldsSlot(r) \/ LockSlot(r))
<1>0. /\ pc \in [Requests -> Steps] /\ op \in [Requests -> Calls \cup {Idle}]
      /\ seen \in [Requests -> Schedules]
  BY DEF Typed, TypeOK
<1>1. CASE Starts(r)
  <2>1. PICK c \in Calls, at \in {"match", "viewing", "read"} :
          op' = [op EXCEPT ![r] = c] /\ pc' = [pc EXCEPT ![r] = at]
    BY <1>1 DEF Starts
  <2> QED
    BY <1>0, <1>1, <2>1 DEF Starts, SlotLockedSteps
<1>2. CASE GoesOn(r)
  BY <1>0, <1>2, SlotStepIsLock DEF GoesOn, HoldsSlot, SlotLockedSteps
<1>3. CASE Claims(r)
  BY <1>0, <1>3 DEF Claims, CountBooked, HoldsSlot, SlotLockedSteps
<1>4. CASE Ends(r)
  BY <1>0, <1>4 DEF Ends, End, SlotLockedSteps
<1> QED
  BY <1>1, <1>2, <1>3, <1>4, RequestShape

LEMMA SlotLockExclusionKept ==
  ASSUME Typed, SlotLockExclusion, [Next]_vars
  PROVE  SlotLockExclusion'
<1>1. CASE UNCHANGED requestVars
  BY <1>1 DEF SlotLockExclusion, requestVars, HoldsSlot, LockKey, SlotListing
<1>2. ASSUME NEW r \in Requests, RequestNext(r) PROVE SlotLockExclusion'
  <2>1. ASSUME NEW q \in Requests \ {r}, HoldsSlot(q)', HoldsSlot(r)'
        PROVE  LockKey(q)' # LockKey(r)'
    <3>1. pc'[q] = pc[q] /\ op'[q] = op[q] /\ HoldsSlot(q)
      BY <1>2, <2>1, LockFrame DEF HoldsSlot
    <3>2. op'[r] = op[r] /\ (HoldsSlot(r) \/ LockSlot(r))
      BY <1>2, <2>1, LockFrame DEF HoldsSlot
    <3>3. LockKey(q) # LockKey(r)
      BY <3>1, <3>2 DEF SlotLockExclusion, LockSlot
    <3> QED
      BY <3>1, <3>2, <3>3 DEF LockKey, SlotListing
  <2>2. \A q, w \in Requests \ {r} : q # w /\ HoldsSlot(q)' /\ HoldsSlot(w)' => LockKey(q)' # LockKey(w)'
    BY <1>2, LockFrame DEF SlotLockExclusion, HoldsSlot, LockKey, SlotListing
  <2>3. ASSUME NEW q \in Requests, NEW w \in Requests, q # w, HoldsSlot(q)', HoldsSlot(w)'
        PROVE  LockKey(q)' # LockKey(w)'
    <3>1. CASE q = r
      BY <2>1, <2>3, <3>1
    <3>2. CASE w = r
      BY <2>1, <2>3, <3>2
    <3> QED
      BY <2>2, <2>3, <3>1, <3>2
  <2> QED
    BY <2>3 DEF SlotLockExclusion
<1> QED
  BY <1>1, <1>2, OthersKeepRequests DEF vars
-----------------------------------------------------------------------------
(* What a call counted still holds when it commits.                         *)

LEMMA BookedIsNat ==
  ASSUME NEW rows, NEW l, NEW s
  PROVE  IsFiniteSet(ViewingsAt(rows, l, s)) /\ Booked(rows, l, s) \in Nat
BY FS_Subset, FS_CardinalityType, ViewingAssumption DEF ViewingsAt, Booked

LEMMA BookedMonotonic ==
  ASSUME NEW rows, NEW newer, NEW l, NEW s,
         ViewingsAt(newer, l, s) \subseteq ViewingsAt(rows, l, s)
  PROVE  Booked(newer, l, s) <= Booked(rows, l, s)
BY FS_Subset, BookedIsNat DEF Booked

LEMMA BookedByOne ==
  ASSUME NEW rows, NEW newer, NEW l, NEW s, NEW v,
         ViewingsAt(newer, l, s) \subseteq ViewingsAt(rows, l, s) \cup {v}
  PROVE  Booked(newer, l, s) <= Booked(rows, l, s) + 1
<1>1. /\ IsFiniteSet(ViewingsAt(rows, l, s) \cup {v})
      /\ Cardinality(ViewingsAt(rows, l, s) \cup {v}) <= Booked(rows, l, s) + 1
  BY FS_AddElement, BookedIsNat DEF Booked
<1>2. Cardinality(ViewingsAt(newer, l, s)) <= Cardinality(ViewingsAt(rows, l, s) \cup {v})
  BY <1>1, FS_Subset
<1>3. Cardinality(ViewingsAt(rows, l, s) \cup {v}) \in Nat
  BY <1>1, FS_CardinalityType
<1> QED
  BY <1>1, <1>2, <1>3, BookedIsNat DEF Booked

\* The commit of r, holding the slot's lock, is the only step that adds a viewing to it.
Fills(r, l, s) ==
  /\ pc[r] \in {"commitBook", "commitMove"} /\ pc'[r] = "idle"
  /\ SlotListing(r) = l /\ op[r].slot = s
  /\ \E v : ViewingsAt(viewing', l, s) \subseteq ViewingsAt(viewing, l, s) \cup {v}

LEMMA OnlyCommitsFill ==
  ASSUME Typed, Next, NEW l \in Listings, NEW s \in Slots
  PROVE  \/ ViewingsAt(viewing', l, s) \subseteq ViewingsAt(viewing, l, s)
         \/ \E r \in Requests : Fills(r, l, s)
<1>1. CASE SettledOnly
  BY <1>1 DEF SettledOnly, Settled, ViewingsAt
<1>2. ASSUME NEW v \in Viewings, Inserted(v) \/ Moved(v)
      PROVE  \/ ViewingsAt(viewing', l, s) \subseteq ViewingsAt(viewing, l, s)
             \/ \E r \in Requests : Fills(r, l, s)
  <2>1. ViewingsAt(viewing', l, s) \subseteq ViewingsAt(viewing, l, s) \cup {v}
    BY <1>2 DEF Inserted, Moved, ViewingsAt
  <2>2. PICK r \in Requests :
          /\ CommitBook(r) \/ CommitMove(r)
          /\ viewing'[v].slot = op[r].slot /\ viewing'[v].match = op[r].match
    <3>1. CASE Inserted(v)
      BY <3>1 DEF Inserted
    <3>2. CASE Moved(v)
      <4>1. PICK r \in Requests : CommitMove(r) /\ v = op[r].viewing
                                  /\ viewing'[v] = [viewing[v] EXCEPT !.slot = op[r].slot]
        BY <3>2 DEF Moved
      <4>2. viewing[v] \in ViewingRows /\ viewing[v].match = op[r].match
        BY <4>1 DEF Typed, TypeOK, Sound, CallSound, CommitMove, MoveSteps
      <4> QED
        BY <4>1, <4>2 DEF ViewingRows
    <3> QED
      BY <1>2, <3>1, <3>2
  <2>3. pc[r] \in {"commitBook", "commitMove"} /\ pc'[r] = "idle"
    BY <2>2 DEF CommitBook, CommitMove, End, Typed, TypeOK
  <2>4. CASE SlotListing(r) = l /\ op[r].slot = s
    BY <2>1, <2>3, <2>4 DEF Fills
  <2>5. CASE ~(SlotListing(r) = l /\ op[r].slot = s)
    <3>1. v \notin ViewingsAt(viewing', l, s)
      BY <2>2, <2>5 DEF ViewingsAt, SlotListing
    <3> QED
      BY <2>1, <3>1
  <2> QED
    BY <2>4, <2>5
<1> QED
  BY <1>1, <1>2, RowShape

LEMMA CapacityIsNat ==
  ASSUME Typed, NEW r \in Requests
  PROVE  Capacity(seen[r]) \in Nat
<1>1. seen[r] \in [open : SUBSET Slots, slotCapacity : Nat]
  BY ViewingAssumption DEF Typed, TypeOK
<1> QED
  BY <1>1 DEF Capacity

\* A claim is made by the count, and its arguments stay.
LEMMA ClaimFrame ==
  ASSUME Typed, Next, NEW q \in Requests, pc'[q] \in ClaimedSteps
  PROVE  /\ op'[q] = op[q] /\ seen'[q] = seen[q]
         /\ pc[q] \in ClaimedSteps \/ Claims(q)
<1>0. /\ pc \in [Requests -> Steps] /\ op \in [Requests -> Calls \cup {Idle}]
      /\ seen \in [Requests -> Schedules]
  BY DEF Typed, TypeOK
<1>1. CASE \A r \in Requests : ~RequestNext(r)
  BY <1>1, OthersKeepRequests DEF requestVars
<1>2. ASSUME NEW r \in Requests, RequestNext(r), r # q
      PROVE  op'[q] = op[q] /\ seen'[q] = seen[q] /\ pc[q] \in ClaimedSteps
  BY <1>2, LockFrame
<1>3. ASSUME RequestNext(q)
      PROVE  op'[q] = op[q] /\ seen'[q] = seen[q] /\ (pc[q] \in ClaimedSteps \/ Claims(q))
  <2>1. CASE Starts(q)
    <3>1. PICK c \in Calls, at \in {"match", "viewing", "read"} :
            op' = [op EXCEPT ![q] = c] /\ pc' = [pc EXCEPT ![q] = at]
      BY <2>1 DEF Starts
    <3> QED
      BY <1>0, <3>1 DEF ClaimedSteps
  <2>2. CASE GoesOn(q)
    BY <1>0, <2>2 DEF GoesOn, ClaimedSteps
  <2>3. CASE Claims(q)
    BY <2>3 DEF Claims
  <2>4. CASE Ends(q)
    BY <1>0, <2>4 DEF Ends, End, ClaimedSteps
  <2> QED
    BY <1>3, <2>1, <2>2, <2>3, <2>4, RequestShape
<1> QED
  BY <1>1, <1>2, <1>3

LEMMA ClaimsFitKept ==
  ASSUME Typed, SlotLockExclusion, ClaimsFit, [Next]_vars
  PROVE  ClaimsFit'
<1>1. CASE UNCHANGED vars
  BY <1>1 DEF vars, tableVars, requestVars, ClaimsFit, Booked, ViewingsAt, SlotListing
<1>2. ASSUME Next, NEW q \in Requests, pc'[q] \in ClaimedSteps
      PROVE  Booked(viewing', SlotListing(q)', op'[q].slot) < Capacity(seen'[q])
  <2> DEFINE l == SlotListing(q)
  <2> DEFINE s == op[q].slot
  <2>1. op'[q] = op[q] /\ seen'[q] = seen[q] /\ SlotListing(q)' = l
    BY <1>2, ClaimFrame DEF SlotListing
  <2>2. Booked(viewing, l, s) < Capacity(seen[q]) /\ HoldsSlot(q)
    BY <1>2, ClaimFrame
       DEF ClaimsFit, Claims, CountBooked, HoldsSlot, ClaimedSteps, SlotLockedSteps
  <2>3. l \in Listings /\ s \in Slots
    <3>1. CallSound(q) /\ pc[q] # "idle" /\ pc[q] \notin CancelSteps
      BY <2>2 DEF Typed, Sound, HoldsSlot, SlotLockedSteps, CancelSteps
    <3> QED
      BY <3>1, ViewingAssumption DEF CallSound, Calls, SlotListing
  <2>4. ASSUME NEW r \in Requests PROVE ~Fills(r, l, s)
    <3>1. SUFFICES ASSUME Fills(r, l, s) PROVE FALSE
      OBVIOUS
    <3>2. r # q
      BY <1>2, <3>1 DEF Fills, ClaimedSteps
    <3>3. HoldsSlot(r) /\ LockKey(r) = LockKey(q)
      BY <3>1 DEF Fills, HoldsSlot, SlotLockedSteps, LockKey
    <3> QED
      BY <2>2, <3>2, <3>3 DEF SlotLockExclusion
  <2>5. ViewingsAt(viewing', l, s) \subseteq ViewingsAt(viewing, l, s)
    BY <1>2, <2>3, <2>4, OnlyCommitsFill
  <2>6. Booked(viewing', l, s) <= Booked(viewing, l, s)
    BY <2>5, BookedMonotonic
  <2>7. /\ Booked(viewing', l, s) \in Nat /\ Booked(viewing, l, s) \in Nat
        /\ Capacity(seen[q]) \in Nat
    BY BookedIsNat, CapacityIsNat
  <2> HIDE DEF l, s
  <2>8. Booked(viewing', l, s) < Capacity(seen[q])
    BY <2>2, <2>6, <2>7
  <2> QED
    BY <2>1, <2>8 DEF l, s
<1> QED
  BY <1>1, <1>2 DEF ClaimsFit

Claimed == Typed /\ SlotLockExclusion /\ ClaimsFit

LEMMA ClaimedInductive == Spec => []Claimed
<1>1. Init => Claimed
  BY InitTyped DEF Init, Claimed, SlotLockExclusion, HoldsSlot, SlotLockedSteps, ClaimsFit,
                   ClaimedSteps
<1>2. Claimed /\ [Next]_vars => Claimed'
  BY TypedKept, SlotLockExclusionKept, ClaimsFitKept DEF Claimed
<1> QED
  BY <1>1, <1>2, PTL DEF Spec

\* From the count to the commit of a booking or a move the slot keeps the room that was
\* counted, whatever the other calls, the landlord and the cascades do.
THEOREM ClaimsStayGood == Spec => []ClaimsFit
BY ClaimedInductive, PTL DEF Claimed

LEMMA FillsFit ==
  ASSUME Claimed, Next, NEW l \in Listings, NEW s \in Slots,
         Booked(viewing', l, s) > Booked(viewing, l, s)
  PROVE  \E r \in Requests : /\ pc[r] \in {"commitBook", "commitMove"} /\ pc'[r] = "idle"
                             /\ SlotListing(r) = l /\ op[r].slot = s
                             /\ Booked(viewing', l, s) <= Capacity(seen[r])
<1>1. Booked(viewing', l, s) \in Nat /\ Booked(viewing, l, s) \in Nat
  BY BookedIsNat
<1>2. ~(ViewingsAt(viewing', l, s) \subseteq ViewingsAt(viewing, l, s))
  <2>1. ~(Booked(viewing', l, s) <= Booked(viewing, l, s))
    BY <1>1
  <2> QED
    BY <2>1, BookedMonotonic
<1>3. PICK r \in Requests : Fills(r, l, s)
  BY <1>2, OnlyCommitsFill DEF Claimed
<1>4. Booked(viewing', l, s) <= Booked(viewing, l, s) + 1
  BY <1>3, BookedByOne DEF Fills
<1>5. Booked(viewing, l, s) < Capacity(seen[r])
  BY <1>3 DEF Fills, Claimed, ClaimsFit, ClaimedSteps
<1>6. Capacity(seen[r]) \in Nat
  BY CapacityIsNat DEF Claimed
<1>7. Booked(viewing', l, s) <= Capacity(seen[r])
  BY <1>1, <1>4, <1>5, <1>6
<1> QED
  BY <1>3, <1>7 DEF Fills

\* No slot is ever overfilled: a step that makes one fuller is a commit that leaves at
\* most the capacity its call read.
THEOREM NeverOverfilled == Spec => SlotsFit
<1>1. Claimed /\ [Next]_vars =>
        [\A l \in Listings, s \in Slots :
           Booked(viewing', l, s) > Booked(viewing, l, s) =>
             \E r \in Requests : /\ pc[r] \in {"commitBook", "commitMove"} /\ pc'[r] = "idle"
                                /\ SlotListing(r) = l /\ op[r].slot = s
                                /\ Booked(viewing', l, s) <= Capacity(seen[r])]_vars
  BY FillsFit
<1> QED
  BY <1>1, ClaimedInductive, PTL DEF Spec, SlotsFit
-----------------------------------------------------------------------------
(* One occupying viewing per match: what a booking found in the unique index still  *)
(* holds when it commits.                                                           *)

InsertsHold ==
  \A r \in Requests :
    pc[r] = "commitBook" =>
      /\ ~HasViewing(op[r].match)
      /\ \A q \in Requests \ {r} : pc[q] = "commitBook" => op[q].match # op[r].match

LEMMA CommitFrame ==
  ASSUME Typed, Next, NEW r \in Requests, pc'[r] = "commitBook"
  PROVE  /\ op'[r] = op[r]
         /\ \/ pc[r] = "commitBook"
            \/ /\ pc[r] = "insert" /\ ~IndexBusy(op[r].match) /\ ~HasViewing(op[r].match)
               /\ viewing' = viewing
               /\ \A q \in Requests \ {r} : pc'[q] = pc[q] /\ op'[q] = op[q]
<1>0. /\ pc \in [Requests -> Steps] /\ op \in [Requests -> Calls \cup {Idle}]
  BY DEF Typed, TypeOK
<1>1. CASE \A q \in Requests : ~RequestNext(q)
  BY <1>1, OthersKeepRequests DEF requestVars
<1>2. ASSUME NEW q \in Requests, RequestNext(q), q # r
      PROVE  op'[r] = op[r] /\ pc[r] = "commitBook"
  BY <1>2, LockFrame
<1>3. CASE RequestNext(r)
  <2>1. pc[r] = "insert" /\ op'[r] = op[r] /\ viewing' = viewing
    <3>1. CASE Starts(r)
      <4>1. PICK at \in {"match", "viewing", "read"} : pc' = [pc EXCEPT ![r] = at]
        BY <3>1 DEF Starts
      <4> QED
        BY <1>0, <4>1
    <3>2. CASE GoesOn(r)
      BY <1>0, <3>2 DEF GoesOn, tableVars
    <3>3. CASE Claims(r)
      BY <1>0, <3>3 DEF Claims
    <3>4. CASE Ends(r)
      BY <1>0, <3>4 DEF Ends, End
    <3> QED
      BY <1>3, <3>1, <3>2, <3>3, <3>4, RequestShape
  <2>2. InsertViewing(r)
    BY <1>0, <1>3, <2>1
       DEF RequestNext, CallBook, CallReschedule, CallCancel, Start, Proceed, ReadMatch,
           LockViewing, LockSlot, ReadSchedule, CountBooked, CommitBook, UpdateSlot, CommitMove,
           ReadViewing, CancelNow, Abort, End
  <2>3. ~IndexBusy(op[r].match) /\ ~HasViewing(op[r].match)
    BY <1>0, <2>1, <2>2 DEF InsertViewing, CheckThen, End
  <2> QED
    BY <1>3, <2>1, <2>3, LockFrame
<1> QED
  BY <1>1, <1>2, <1>3

\* Only the commit of a booking gives a match an occupying viewing.
LEMMA OnlyBookingsAdd ==
  ASSUME Typed, Next
  PROVE  \/ \A m : HasViewing(m)' => HasViewing(m)
         \/ \E v \in Viewings : Inserted(v)
<1>1. CASE SettledOnly
  BY <1>1 DEF SettledOnly, Settled, HasViewing
<1>2. ASSUME NEW v \in Viewings, Moved(v)
      PROVE  \A m : HasViewing(m)' => HasViewing(m)
  <2>1. PICK r \in Requests : viewing'[v] = [viewing[v] EXCEPT !.slot = op[r].slot]
    BY <1>2 DEF Moved
  <2>2. viewing[v] \in ViewingRows
    BY DEF Typed, TypeOK
  <2>3. viewing'[v].match = viewing[v].match /\ Occupies(viewing'[v]) = Occupies(viewing[v])
    BY <2>1, <2>2 DEF ViewingRows, Occupies
  <2> QED
    BY <1>2, <2>3 DEF Moved, HasViewing
<1> QED
  BY <1>1, <1>2, RowShape

LEMMA InsertsHoldKept ==
  ASSUME Typed, InsertsHold, [Next]_vars
  PROVE  InsertsHold'
<1>1. CASE UNCHANGED vars
  BY <1>1 DEF vars, tableVars, requestVars, InsertsHold, HasViewing
<1>2. ASSUME Next, NEW r \in Requests, pc'[r] = "commitBook", NEW q \in Requests \ {r},
             pc'[q] = "commitBook"
      PROVE  op'[q].match # op'[r].match
  <2>1. CASE pc[r] = "commitBook" /\ pc[q] = "commitBook"
    BY <1>2, <2>1, CommitFrame DEF InsertsHold
  <2>2. ASSUME NEW a \in Requests, NEW b \in Requests, pc'[a] = "commitBook",
               pc'[b] = "commitBook", pc[a] # "commitBook", a # b
        PROVE  op'[a].match # op'[b].match
    <3>1. /\ op'[a] = op[a] /\ ~IndexBusy(op[a].match)
          /\ pc'[b] = pc[b] /\ op'[b] = op[b]
      BY <1>2, <2>2, CommitFrame
    <3> QED
      BY <2>2, <3>1 DEF IndexBusy
  <2> QED
    BY <1>2, <2>1, <2>2
<1>3. ASSUME Next, NEW r \in Requests, pc'[r] = "commitBook"
      PROVE  ~HasViewing(op[r].match)'
  <2>1. CASE pc[r] = "commitBook"
    <3>1. op'[r] = op[r] /\ ~HasViewing(op[r].match)
      BY <1>3, <2>1, CommitFrame DEF InsertsHold
    <3>2. CASE \A m : HasViewing(m)' => HasViewing(m)
      BY <3>1, <3>2 DEF HasViewing
    <3>3. ASSUME NEW v \in Viewings, Inserted(v)
          PROVE  ~HasViewing(op[r].match)'
      <4>1. PICK q \in Requests : CommitBook(q) /\ viewing'[v].match = op[q].match
        BY <3>3 DEF Inserted
      <4>2. q # r
        BY <1>3, <4>1 DEF CommitBook, End, Typed, TypeOK
      <4>3. op[q].match # op[r].match
        BY <2>1, <4>1, <4>2 DEF InsertsHold, CommitBook
      <4>4. \A w \in Viewings \ {v} : viewing'[w] = viewing[w]
        BY <3>3 DEF Inserted
      <4> QED
        BY <3>1, <4>1, <4>3, <4>4 DEF HasViewing
    <3> QED
      BY <1>3, <3>2, <3>3, OnlyBookingsAdd
  <2>2. CASE pc[r] # "commitBook"
    BY <1>3, <2>2, CommitFrame DEF HasViewing
  <2> QED
    BY <2>1, <2>2
<1> QED
  BY <1>1, <1>2, <1>3 DEF InsertsHold

LEMMA OneViewingKept ==
  ASSUME Typed, InsertsHold, OneViewingPerMatch, [Next]_vars
  PROVE  OneViewingPerMatch'
<1>1. CASE UNCHANGED vars
  BY <1>1 DEF vars, tableVars, OneViewingPerMatch
<1>2. CASE Next /\ SettledOnly
  BY <1>2 DEF SettledOnly, Settled, OneViewingPerMatch
<1>3. ASSUME NEW v \in Viewings, Moved(v)
      PROVE  OneViewingPerMatch'
  <2>1. PICK r \in Requests : viewing'[v] = [viewing[v] EXCEPT !.slot = op[r].slot]
    BY <1>3 DEF Moved
  <2>2. viewing[v] \in ViewingRows
    BY DEF Typed, TypeOK
  <2>3. viewing'[v].match = viewing[v].match /\ Occupies(viewing'[v]) = Occupies(viewing[v])
    BY <2>1, <2>2 DEF ViewingRows, Occupies
  <2>4. \A w \in Viewings : /\ viewing'[w].match = viewing[w].match
                            /\ Occupies(viewing'[w]) => Occupies(viewing[w])
    BY <1>3, <2>3 DEF Moved
  <2> QED
    BY <2>4 DEF OneViewingPerMatch
<1>4. ASSUME NEW v \in Viewings, Inserted(v)
      PROVE  OneViewingPerMatch'
  <2>1. PICK r \in Requests : CommitBook(r) /\ viewing'[v].match = op[r].match
    BY <1>4 DEF Inserted
  <2>2. ~HasViewing(op[r].match)
    BY <2>1 DEF InsertsHold, CommitBook
  <2>3. \A w \in Viewings \ {v} : viewing'[w] = viewing[w]
    BY <1>4 DEF Inserted
  <2>4. \A w \in Viewings \ {v} : ~(Occupies(viewing'[w]) /\ viewing'[w].match = viewing'[v].match)
    BY <2>1, <2>2, <2>3 DEF HasViewing
  <2> QED
    BY <2>3, <2>4 DEF OneViewingPerMatch
<1> QED
  BY <1>1, <1>2, <1>3, <1>4, RowShape

\* A match never has two viewings that occupy a slot.
THEOREM OneViewing == Spec => []OneViewingPerMatch
<1> DEFINE I == Typed /\ InsertsHold /\ OneViewingPerMatch
<1>1. Init => I
  BY InitTyped DEF Init, InsertsHold, OneViewingPerMatch, Occupies, NoViewing
<1>2. I /\ [Next]_vars => I'
  BY TypedKept, InsertsHoldKept, OneViewingKept
<1> QED
  BY <1>1, <1>2, PTL DEF Spec
-----------------------------------------------------------------------------
(* The row lock of a reschedule keeps what it read.                         *)

RowKept(v) ==
  /\ Kept(v) /\ viewing[v].status = "confirmed"
  /\ \A l \in Listings : v \notin rent[l].viewings
  /\ \A u \in Users : v \notin erasure[u].viewings

MovesHold ==
  \A r \in Requests :
    HoldsRow(r) =>
      /\ RowKept(op[r].viewing)
      /\ \A q \in Requests \ {r} : HoldsRow(q) => op[q].viewing # op[r].viewing

\* A row lock is taken by LockViewing, which finds the row free, and is kept to the end.
LEMMA RowLockFrame ==
  ASSUME Typed, Next, NEW r \in Requests, HoldsRow(r)'
  PROVE  /\ op'[r] = op[r]
         /\ \/ HoldsRow(r)
            \/ /\ pc[r] = "viewing" /\ ViewingRowFree(op[r].viewing)
               /\ Kept(op[r].viewing) /\ viewing[op[r].viewing].status = "confirmed"
               /\ UNCHANGED <<viewing, rent, erasure>>
               /\ \A q \in Requests \ {r} : pc'[q] = pc[q] /\ op'[q] = op[q]
<1>0. pc \in [Requests -> Steps] /\ op \in [Requests -> Calls \cup {Idle}]
  BY DEF Typed, TypeOK
<1>1. CASE \A q \in Requests : ~RequestNext(q)
  BY <1>1, OthersKeepRequests DEF requestVars, HoldsRow
<1>2. ASSUME NEW q \in Requests, RequestNext(q), q # r
      PROVE  op'[r] = op[r] /\ HoldsRow(r)
  BY <1>2, LockFrame DEF HoldsRow
<1>3. CASE RequestNext(r)
  <2>1. CASE Starts(r)
    <3>1. PICK at \in {"match", "viewing", "read"} : pc' = [pc EXCEPT ![r] = at]
      BY <2>1 DEF Starts
    <3> QED
      BY <1>0, <3>1 DEF HoldsRow, SlotLockedSteps
  <2>2. CASE Ends(r)
    BY <1>0, <2>2 DEF Ends, End, HoldsRow, SlotLockedSteps
  <2>3. CASE Claims(r)
    BY <1>0, <2>3 DEF Claims, CountBooked, HoldsRow, SlotLockedSteps
  <2>4. CASE GoesOn(r)
    <3>1. op' = op /\ op[r].kind = "move" /\ UNCHANGED <<viewing, rent, erasure>>
      BY <2>4 DEF GoesOn, HoldsRow, tableVars, cascadeVars
    <3>2. CASE pc[r] = "viewing"
      <4>1. pc'[r] # "idle"
        BY DEF HoldsRow, SlotLockedSteps
      <4>2. LockViewing(r)
        BY <1>0, <1>3, <3>2, <4>1
           DEF RequestNext, CallBook, CallReschedule, CallCancel, Start, Proceed, ReadMatch,
               LockSlot, ReadSchedule, CountBooked, InsertViewing, CommitBook, UpdateSlot,
               CommitMove, ReadViewing, CancelNow, Abort, End
      <4>3. /\ ViewingRowFree(op[r].viewing) /\ Kept(op[r].viewing)
            /\ viewing[op[r].viewing].status = "confirmed"
        BY <1>0, <4>1, <4>2 DEF LockViewing, CheckThen, End
      <4> QED
        BY <1>3, <3>1, <3>2, <4>3, LockFrame
    <3>3. CASE pc[r] # "viewing"
      <4>1. pc[r] # "match"
        BY <2>4, <3>1 DEF GoesOn, Typed, Sound, CallSound, BookSteps
      <4>2. pc[r] # "read"
        BY <2>4, <3>1 DEF GoesOn, Typed, Sound, CallSound, CancelSteps
      <4>3. HoldsRow(r)
        BY <2>4, <3>1, <3>3, <4>1, <4>2 DEF GoesOn, HoldsRow, SlotLockedSteps
      <4> QED
        BY <3>1, <4>3
    <3> QED
      BY <3>2, <3>3
  <2> QED
    BY <1>3, <2>1, <2>2, <2>3, <2>4, RequestShape
<1> QED
  BY <1>1, <1>2, <1>3

\* No step but its own commit touches a row whose lock a reschedule holds.
LEMMA LockedRowKept ==
  ASSUME Typed, MovesHold, Next, NEW r \in Requests, HoldsRow(r), pc'[r] # "idle",
         NEW v \in Viewings, v = op[r].viewing
  PROVE  RowKept(v)'
<1>0. /\ viewing \in [Viewings -> ViewingRows] /\ rent \in [Listings -> RentStates]
      /\ erasure \in [Users -> ErasureStates] /\ pc \in [Requests -> Steps]
  BY DEF Typed, TypeOK
<1>1. RowKept(v)
  BY DEF MovesHold
<1>2. ASSUME NEW l \in Listings PROVE v \notin rent'[l].viewings
  <2>1. v \notin rent[l].viewings
    BY <1>1 DEF RowKept
  <2>2. ASSUME NEW x \in Listings, RentViewings(x) PROVE v \notin rent'[l].viewings
    <3>1. PICK rows \in SUBSET Viewings :
             /\ \A w \in rows : ViewingRowFree(w)
             /\ rent' = [rent EXCEPT ![x] = [at |-> "commit", matches |-> rent[x].matches,
                                             viewings |-> rows]]
      BY <2>2 DEF RentViewings
    <3>2. v \notin rows
      BY <3>1 DEF ViewingRowFree
    <3> QED
      BY <1>0, <2>1, <3>1, <3>2
  <2>3. ASSUME NEW x \in Listings, StartRented(x) \/ RentListing(x) \/ RentMatches(x)
                                   \/ CommitRented(x) \/ AbortRented(x)
        PROVE  v \notin rent'[l].viewings
    <3>1. \A y \in Listings : rent'[y].viewings \in {rent[y].viewings, {}}
      <4>1. ASSUME NEW y \in Listings PROVE rent'[y].viewings \in {rent[y].viewings, {}}
        <5>1. CASE y # x
          BY <1>0, <2>3, <5>1 DEF StartRented, RentListing, RentMatches, CommitRented, AbortRented
        <5>2. CASE y = x /\ (RentMatches(x) \/ CommitRented(x) \/ AbortRented(x))
          BY <1>0, <5>2 DEF RentMatches, CommitRented, AbortRented, IdleRent
        <5>3. CASE y = x /\ (StartRented(x) \/ RentListing(x))
          <6>1. PICK at \in {"listing", "matches"} : rent' = [rent EXCEPT ![x].at = at]
            BY <5>3 DEF StartRented, RentListing
          <6>2. rent'[x] = [rent[x] EXCEPT !.at = at] /\ rent[x] \in RentStates
            BY <1>0, <6>1
          <6> QED
            BY <5>3, <6>2 DEF RentStates
        <5> QED
          BY <2>3, <5>1, <5>2, <5>3
      <4> QED
        BY <4>1
    <3> QED
      BY <2>1, <3>1
  <2>4. rent' = rent \/ \E x \in Listings : \/ RentViewings(x) \/ StartRented(x) \/ RentListing(x)
                                            \/ RentMatches(x) \/ CommitRented(x) \/ AbortRented(x)
    <3>1. ASSUME NEW q \in Requests, RequestNext(q) PROVE rent' = rent
      BY <3>1, RequestShape DEF Starts, GoesOn, Claims, Ends, cascadeVars
    <3> QED
      BY <3>1 DEF Next, SetViewingAttendance, Pass, ListingNext, UpdateViewingAvailability,
                  DeleteListing, UserNext, DeleteAccount, AdminDeleteUser, StartErasure,
                  EraseMatches, EraseViewings, CommitErasure, AbortErasure, cascadeVars
  <2> QED
    BY <2>1, <2>2, <2>3, <2>4
<1>3. ASSUME NEW u \in Users PROVE v \notin erasure'[u].viewings
  <2>1. v \notin erasure[u].viewings
    BY <1>1 DEF RowKept
  <2>2. ASSUME NEW x \in Users, EraseViewings(x) PROVE v \notin erasure'[u].viewings
    <3> DEFINE rows == IF erasure[x].by = "admin" THEN {}
                       ELSE {w \in Viewings : Kept(w) /\ Party(x, viewing[w].match)}
    <3>1. /\ \A w \in rows : ViewingRowFree(w)
          /\ erasure' = [erasure EXCEPT ![x] = [at |-> "commit", by |-> erasure[x].by,
                                                matches |-> erasure[x].matches,
                                                viewings |-> rows]]
      BY <2>2 DEF EraseViewings
    <3>2. v \notin rows
      BY <3>1 DEF ViewingRowFree
    <3> HIDE DEF rows
    <3> QED
      BY <1>0, <2>1, <3>1, <3>2
  <2>3. ASSUME NEW x \in Users, DeleteAccount(x) \/ AdminDeleteUser(x) \/ EraseMatches(x)
                                \/ CommitErasure(x) \/ AbortErasure(x)
        PROVE  v \notin erasure'[u].viewings
    BY <1>0, <2>1, <2>3 DEF DeleteAccount, AdminDeleteUser, StartErasure, EraseMatches,
                            CommitErasure, AbortErasure, IdleErasure
  <2>4. erasure' = erasure \/ \E x \in Users : UserNext(x)
    <3>1. ASSUME NEW q \in Requests, RequestNext(q) PROVE erasure' = erasure
      BY <3>1, RequestShape DEF Starts, GoesOn, Claims, Ends, cascadeVars
    <3> QED
      BY <3>1 DEF Next, SetViewingAttendance, Pass, ListingNext, UpdateViewingAvailability,
                  DeleteListing, StartRented, RentListing, RentMatches, RentViewings,
                  CommitRented, AbortRented, cascadeVars
  <2> QED
    BY <2>1, <2>2, <2>3, <2>4 DEF UserNext
<1>4. viewing'[v] = viewing[v]
  <2>1. ASSUME NEW q \in Requests, RequestNext(q) PROVE viewing'[v] = viewing[v]
    <3>1. CASE CommitBook(q)
      <4>1. PICK w \in Viewings : Inserted(w)
        BY <3>1, BookInserts
      <4> QED
        BY <1>1, <4>1 DEF Inserted, RowKept, Kept
    <3>2. CASE CommitMove(q) \/ CancelNow(q)
      <4>1. op[q].viewing # v
        <5>1. CASE CancelNow(q)
          BY <5>1 DEF CancelNow, ViewingRowFree
        <5>2. CASE CommitMove(q)
          <6>1. q # r
            BY <1>0, <5>2 DEF CommitMove, End
          <6>2. HoldsRow(q)
            BY <5>2 DEF CommitMove, HoldsRow, SlotLockedSteps, Typed, Sound, CallSound, MoveSteps
          <6> QED
            BY <6>1, <6>2 DEF MovesHold
        <5> QED
          BY <3>2, <5>1, <5>2
      <4> QED
        BY <1>0, <1>1, <3>2, <4>1 DEF CommitMove, CancelNow
    <3> QED
      BY <2>1, <3>1, <3>2, RequestShape DEF Starts, GoesOn, Claims, Ends, tableVars
  <2>2. ASSUME NEW w \in Viewings, NEW a \in {"attended", "absent"}, SetViewingAttendance(w, a)
        PROVE  viewing'[v] = viewing[v]
    <3>1. w # v
      BY <2>2 DEF SetViewingAttendance, ViewingRowFree
    <3> QED
      BY <1>0, <1>1, <2>2, <3>1 DEF SetViewingAttendance
  <2>3. ASSUME NEW l \in Listings, ListingNext(l) PROVE viewing'[v] = viewing[v]
    <3>1. v \notin rent[l].viewings
      BY <1>1 DEF RowKept
    <3> QED
      BY <1>1, <2>3, <3>1
         DEF ListingNext, UpdateViewingAvailability, DeleteListing, StartRented, RentListing,
             RentMatches, RentViewings, CommitRented, AbortRented, tableVars
  <2>4. ASSUME NEW u \in Users, UserNext(u) PROVE viewing'[v] = viewing[v]
    <3>1. v \notin erasure[u].viewings
      BY <1>1 DEF RowKept
    <3> QED
      BY <1>1, <2>4, <3>1
         DEF UserNext, DeleteAccount, AdminDeleteUser, StartErasure, EraseMatches,
             EraseViewings, CommitErasure, AbortErasure, tableVars
  <2>5. ASSUME NEW s \in Slots, Pass(s) PROVE viewing'[v] = viewing[v]
    BY <2>5 DEF Pass
  <2> QED
    BY <2>1, <2>2, <2>3, <2>4, <2>5 DEF Next
<1> QED
  BY <1>1, <1>2, <1>3, <1>4 DEF RowKept, Kept, Free

LEMMA MovesHoldKept ==
  ASSUME Typed, MovesHold, [Next]_vars
  PROVE  MovesHold'
<1>1. CASE UNCHANGED vars
  BY <1>1 DEF vars, tableVars, requestVars, cascadeVars, MovesHold, HoldsRow, RowKept, Kept, Free
<1>2. ASSUME Next, NEW r \in Requests, HoldsRow(r)'
      PROVE  RowKept(op[r].viewing)'
  <2>1. op'[r] = op[r] /\ pc'[r] # "idle"
    BY <1>2, RowLockFrame DEF HoldsRow, SlotLockedSteps
  <2>2. pc[r] # "idle" /\ op[r].kind = "move"
    BY <1>2, RowLockFrame DEF HoldsRow, SlotLockedSteps
  <2>3. PICK v \in Viewings : v = op[r].viewing
    BY <2>2 DEF Typed, Sound, CallSound
  <2>4. RowKept(v)'
    <3>1. CASE HoldsRow(r)
      BY <1>2, <2>1, <2>3, <3>1, LockedRowKept
    <3>2. CASE ~HoldsRow(r)
      <4>1. /\ ViewingRowFree(v) /\ Kept(v) /\ viewing[v].status = "confirmed"
            /\ UNCHANGED <<viewing, rent, erasure>>
        BY <1>2, <2>3, <3>2, RowLockFrame
      <4> QED
        BY <4>1 DEF RowKept, ViewingRowFree, Kept, Free
    <3> QED
      BY <3>1, <3>2
  <2>5. op'[r].viewing = v
    BY <2>1, <2>3
  <2> QED
    BY <2>4, <2>5
<1>3. ASSUME Next, NEW r \in Requests, NEW q \in Requests, q # r, HoldsRow(r)', HoldsRow(q)'
      PROVE  op'[q].viewing # op'[r].viewing
  <2>1. op'[q] = op[q] /\ op'[r] = op[r]
    BY <1>3, RowLockFrame
  <2>2. CASE HoldsRow(q) /\ HoldsRow(r)
    BY <1>3, <2>1, <2>2 DEF MovesHold
  <2>3. ASSUME NEW a \in Requests, NEW b \in Requests, a # b, HoldsRow(a)', HoldsRow(b)',
               ~HoldsRow(a)
        PROVE  op[a].viewing # op[b].viewing
    <3>1. ViewingRowFree(op[a].viewing) /\ pc'[b] = pc[b] /\ op'[b] = op[b]
      BY <1>3, <2>3, RowLockFrame
    <3>2. HoldsRow(b)
      BY <2>3, <3>1 DEF HoldsRow
    <3> QED
      BY <3>1, <3>2 DEF ViewingRowFree
  <2> QED
    BY <1>3, <2>1, <2>2, <2>3
<1> QED
  BY <1>1, <1>2, <1>3 DEF MovesHold

LEMMA ClosingStep ==
  ASSUME Typed, MovesHold, Next, NEW v \in Viewings, ~Free(v)
  PROVE  /\ ~Occupies(viewing[v]) => ~Occupies(viewing'[v])
         /\ viewing'[v].slot # viewing[v].slot =>
              viewing[v].status = "confirmed" /\ ~viewing[v].deleted
<1>1. CASE SettledOnly
  BY <1>1 DEF SettledOnly, Settled
<1>2. ASSUME NEW w \in Viewings, w # v, Inserted(w) \/ Moved(w)
      PROVE  viewing'[v] = viewing[v]
  BY <1>2 DEF Inserted, Moved
<1>3. CASE Inserted(v)
  BY <1>3 DEF Inserted
<1>4. CASE Moved(v)
  <2>1. PICK r \in Requests : CommitMove(r) /\ v = op[r].viewing
                              /\ viewing'[v] = [viewing[v] EXCEPT !.slot = op[r].slot]
    BY <1>4 DEF Moved
  <2>2. HoldsRow(r)
    BY <2>1 DEF CommitMove, HoldsRow, SlotLockedSteps, Typed, Sound, CallSound, MoveSteps
  <2>3. Kept(v) /\ viewing[v].status = "confirmed"
    BY <2>1, <2>2 DEF MovesHold, RowKept
  <2>4. viewing[v] \in ViewingRows
    BY DEF Typed, TypeOK
  <2> QED
    BY <2>1, <2>3, <2>4 DEF Kept, Occupies, ViewingRows
<1> QED
  BY <1>1, <1>2, <1>3, <1>4, RowShape

\* A cancelled or deleted viewing never occupies a slot again, and only a confirmed one
\* moves: the reschedule that read it has kept its row locked.
THEOREM ClosedForGood == Spec => ClosedStaysClosed
<1> DEFINE I == Typed /\ MovesHold
<1>1. Init => I
  BY InitTyped DEF Init, MovesHold, HoldsRow, SlotLockedSteps
<1>2. I /\ [Next]_vars => I'
  BY TypedKept, MovesHoldKept
<1>3. I /\ [Next]_vars =>
        [\A v \in Viewings :
           /\ ~Free(v) /\ ~Occupies(viewing[v]) => ~Occupies(viewing'[v])
           /\ ~Free(v) /\ viewing'[v].slot # viewing[v].slot =>
                viewing[v].status = "confirmed" /\ ~viewing[v].deleted]_vars
  BY ClosingStep
<1> QED
  BY <1>1, <1>2, <1>3, PTL DEF Spec, ClosedStaysClosed
=============================================================================
