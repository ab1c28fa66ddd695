------------------------- MODULE AppointmentsProofs --------------------------
(***************************************************************************)
(* Proofs about Appointments.tla, for any viewings, slots, clicks and      *)
(* events: what a page offers the server accepts, and what a click made    *)
(* wrong on the page is not taken for up to date.                          *)
(***************************************************************************)
EXTENDS Appointments, TLAPS

Answers(k) ==
  CASE k = "viewings" -> SUBSET RowFact
    [] k = "matched" -> SUBSET {"active", "listing_rented"}
    [] k = "slots" -> SUBSET Slots
EntryType(k) == Entries(Answers(k))
ViewingType == [status : Status, slot : Slots \cup {None}]
DbType ==
  [viewing : [Viewings -> ViewingType], match : {"active", "listing_rented"},
   open : SUBSET Slots]
DialogType ==
  [mode : SlotOps \cup {"none"}, id : Viewings \cup {None}, pick : Slots \cup {None}]
CallType ==
  [at : {"unused", "sent", "served", "done"}, op : SlotOps \cup RowOps \cup {"none"},
   id : Viewings \cup {None}, slot : Slots \cup {None}, here : BOOLEAN]

Typed ==
  /\ role \in Roles /\ page \in Pages
  /\ db \in DbType /\ dialog \in DialogType
  /\ cache = [k \in Keys |-> cache[k]] /\ \A k \in Keys : cache[k] \in EntryType(k)
  /\ calls \in [Calls -> CallType] /\ \A i \in Calls : calls[i].at = "sent" => calls[i].op # "none"
  /\ behind \in SUBSET (Keys \X Calls) /\ late \in SUBSET behind

\* What a click outdated its answer invalidates, and once that has come the entry is
\* stale or being read again.
OutdatedIsStale ==
  \A b \in behind : calls[b[2]].at = "done" => ~Settled(cache[b[1]])

\* An answer under way that a write outdated is of a query on screen and of a click
\* still to be answered.
Outdated ==
  /\ \A b \in behind :
       \/ calls[b[2]].at = "served" /\ b[1] \in Refreshes(calls[b[2]].op)
       \/ calls[b[2]].at = "done" /\ ~Settled(cache[b[1]])
  /\ \A b \in late : b[1] \in Reads(page, dialog) /\ calls[b[2]].at = "served"

IInv == Typed /\ Outdated
-----------------------------------------------------------------------------
(* The operators of the model. *)

LEMMA EntrySteps ==
  ASSUME NEW k \in Keys, NEW e \in EntryType(k)
  PROVE  /\ Asked(e) \in EntryType(k) /\ Asked(e).data = e.data /\ ~Settled(Asked(e))
         /\ \A a \in Answers(k) \cup {Refused} :
              /\ Answered(e, a) \in EntryType(k) /\ Answered(e, a).data = e.data
              /\ ~Settled(Answered(e, a))
         /\ Received(e) \in EntryType(k)
         /\ \A b \in BOOLEAN :
              /\ Invalidated(e, b) \in EntryType(k) /\ Invalidated(e, b).data = e.data
              /\ ~Settled(Invalidated(e, b))
         /\ \A b \in BOOLEAN :
              /\ Mounted(e, b) \in EntryType(k) /\ Mounted(e, b).data = e.data
              /\ ~Settled(e) => ~Settled(Mounted(e, b))
<1>0. {} \in Answers(k)
  BY DEF Answers, Keys
<1>1. \A f \in EntryType(k) : /\ Asked(f) \in EntryType(k) /\ Asked(f).data = f.data
                              /\ ~Settled(Asked(f))
  BY <1>0 DEF EntryType, Entries, Asked, Settled
<1>2. \A a \in Answers(k) \cup {Refused} :
        /\ Answered(e, a) \in EntryType(k) /\ Answered(e, a).data = e.data
        /\ ~Settled(Answered(e, a))
  BY DEF EntryType, Entries, Answered, Settled
<1>3. Received(e) \in EntryType(k)
  <2> DEFINE d == IF e.got = Refused THEN e.data ELSE e.got
             b == (e.got = Refused)
  <2>1. d \in Answers(k) \cup {Unloaded}
    BY <1>0 DEF EntryType, Entries
  <2>2. b \in BOOLEAN
    OBVIOUS
  <2>3. Received(e) = [e EXCEPT !.data = d, !.stale = b, !.at = "idle", !.got = {}]
    BY DEF Received
  <2> HIDE DEF d, b
  <2> QED
    BY <2>1, <2>2, <2>3 DEF EntryType, Entries
<1> DEFINE s == [e EXCEPT !.stale = TRUE]
<1>4. s \in EntryType(k) /\ s.data = e.data /\ s.stale
  BY DEF EntryType, Entries
<1>5. \A b \in BOOLEAN : Invalidated(e, b) = IF b THEN Asked(s) ELSE s
  BY DEF Invalidated
<1>6. \A b \in BOOLEAN : /\ Invalidated(e, b) \in EntryType(k) /\ Invalidated(e, b).data = e.data
                         /\ ~Settled(Invalidated(e, b))
  <2> HIDE DEF s
  <2> QED
    BY <1>1, <1>4, <1>5 DEF Settled
<1>7. \A b \in BOOLEAN : /\ Mounted(e, b) \in EntryType(k) /\ Mounted(e, b).data = e.data
                         /\ ~Settled(e) => ~Settled(Mounted(e, b))
  BY <1>1 DEF Mounted
<1> QED
  BY <1>1, <1>2, <1>3, <1>6, <1>7

LEMMA Rendering ==
  ASSUME NEW c, \A k \in Keys : c[k] \in EntryType(k), NEW before, NEW after, NEW old
  PROVE  LET r == Rendered(before, after, c, old)
         IN  /\ r = [k \in Keys |-> r[k]]
             /\ \A k \in Keys : r[k] \in EntryType(k) /\ (~Settled(c[k]) => ~Settled(r[k]))
<1> DEFINE m == [k \in Keys |-> Mounted(c[k], k \in old)]
<1>1. \A k \in Keys : m[k] \in EntryType(k) /\ (~Settled(c[k]) => ~Settled(m[k]))
  <2> SUFFICES ASSUME NEW k \in Keys
               PROVE  m[k] \in EntryType(k) /\ (~Settled(c[k]) => ~Settled(m[k]))
    OBVIOUS
  <2>1. c[k] \in EntryType(k) /\ (k \in old) \in BOOLEAN /\ m[k] = Mounted(c[k], k \in old)
    OBVIOUS
  <2> QED
    BY <2>1, EntrySteps
<1>2. Rendered(before, after, c, old)
        = [k \in Keys |-> IF k \in after \ before THEN m[k] ELSE c[k]]
  BY DEF Rendered
<1> HIDE DEF m
<1> QED
  BY <1>1, <1>2

LEMMA Applying ==
  ASSUME NEW d \in DbType, NEW o \in SlotOps \cup RowOps, NEW v, NEW s, Accepts(d, o, v, s)
  PROVE  Applied(d, o, v, s) \in DbType /\ Applied(d, o, v, s).match = d.match
<1> DEFINE a == Applied(d, o, v, s)
<1>1. OpenSlots(d) \in SUBSET Slots
  BY DEF OpenSlots, DbType
<1>2. ASSUME NEW f \in [Viewings -> ViewingType], a = [d EXCEPT !.viewing = f]
      PROVE  a \in DbType /\ a.match = d.match
  BY <1>2 DEF DbType
<1>3. CASE o \in {"book", "rebook"}
  <2> DEFINE new == CHOOSE w \in Viewings : d.viewing[w].status = "none"
             r == [status |-> "confirmed", slot |-> s]
             f == [d.viewing EXCEPT ![new] = r]
  <2>1. r \in ViewingType
    BY <1>1, <1>3 DEF Accepts, ViewingType, Status
  <2>2. a = [d EXCEPT !.viewing = f]
    BY <1>3 DEF Applied, DbType
  <2> HIDE DEF new, r
  <2>3. f \in [Viewings -> ViewingType]
    BY <2>1 DEF DbType
  <2> QED
    BY <1>2, <2>2, <2>3
<1>4. CASE o = "reschedule"
  <2> DEFINE f == [d.viewing EXCEPT ![v].slot = s]
  <2>1. a = [d EXCEPT !.viewing = f]
    BY <1>4 DEF Applied, DbType
  <2>2. s \in Slots
    BY <1>1, <1>4 DEF Accepts
  <2>3. f \in [Viewings -> ViewingType]
    BY <2>2 DEF DbType, ViewingType
  <2> QED
    BY <1>2, <2>1, <2>3
<1>5. CASE o \in RowOps
  <2> DEFINE st == IF o = "cancel" THEN "cancelled" ELSE "completed"
             f == [d.viewing EXCEPT ![v].status = st]
  <2>1. a = [d EXCEPT !.viewing = f]
    BY <1>5 DEF Applied, DbType, RowOps
  <2>2. st \in Status
    BY DEF Status
  <2> HIDE DEF st
  <2>3. f \in [Viewings -> ViewingType]
    BY <2>2 DEF DbType, ViewingType
  <2> QED
    BY <1>2, <2>1, <2>3
<1> QED
  BY <1>3, <1>4, <1>5 DEF SlotOps

LEMMA FactsTyped ==
  ASSUME NEW d \in DbType, NEW k \in Keys
  PROVE  Facts(d, k) \in Answers(k)
<1>1. CASE k = "viewings"
  <2> DEFINE vs == {w \in Viewings : d.viewing[w].status # "none"}
             live == (d.match = "active")
             a == {[id |-> v, status |-> d.viewing[v].status, live |-> live] : v \in vs}
             b == {[id |-> v, slot |-> d.viewing[v].slot] : v \in vs}
  <2>1. \A v \in vs : v \in Viewings /\ d.viewing[v] \in ViewingType
    BY DEF DbType
  <2>2. a \subseteq RowFact
    <3>1. live \in BOOLEAN
      OBVIOUS
    <3> HIDE DEF live
    <3> QED
      BY <2>1, <3>1 DEF RowFact, ViewingType
  <2>3. b \subseteq RowFact
    BY <2>1 DEF RowFact, ViewingType
  <2>4. Facts(d, k) = a \cup b
    BY <1>1 DEF Facts
  <2>5. Answers(k) = SUBSET RowFact
    BY <1>1 DEF Answers
  <2> HIDE DEF a, b
  <2> QED
    BY <2>2, <2>3, <2>4, <2>5
<1>2. CASE k = "matched"
  BY <1>2 DEF Facts, Answers, DbType
<1>3. CASE k = "slots"
  BY <1>3 DEF Facts, Answers, OpenSlots, DbType
<1> QED
  BY <1>1, <1>2, <1>3 DEF Keys

LEMMA ReadsKeys == \A p, g : Reads(p, g) \in SUBSET Keys /\ "viewings" \in Reads(p, g)
BY DEF Reads, Keys

LEMMA ClosedTyped == Closed \in DialogType /\ Closed.mode = "none"
BY DEF Closed, DialogType

LEMMA DoneCall == Done \in CallType /\ Done.at = "done"
BY DEF Done, Unused, CallType
-----------------------------------------------------------------------------
(* Every step keeps the invariant. *)

LEMMA InitInv == Init => IInv
<1> SUFFICES ASSUME Init PROVE IInv
  OBVIOUS
<1>1. db \in DbType
  <2>1. PICK first \in {"none", "confirmed", "cancelled"} :
          LET v == CHOOSE w \in Viewings : TRUE
              s == CHOOSE x \in Slots : TRUE
          IN  db = [viewing |-> [w \in Viewings |-> IF w = v /\ first # "none"
                                                    THEN [status |-> first, slot |-> s]
                                                    ELSE NoViewing],
                    match |-> "active", open |-> Slots]
    BY DEF Init
  <2> DEFINE v == CHOOSE w \in Viewings : TRUE
             s == CHOOSE x \in Slots : TRUE
             f == [w \in Viewings |-> IF w = v /\ first # "none"
                                      THEN [status |-> first, slot |-> s] ELSE NoViewing]
  <2>2. s \in Slots
    BY SlotsAssumption
  <2>3. db = [viewing |-> f, match |-> "active", open |-> Slots]
    BY <2>1
  <2> HIDE DEF v, s
  <2>4. [status |-> first, slot |-> s] \in ViewingType /\ NoViewing \in ViewingType
    BY <2>2 DEF ViewingType, NoViewing, Status
  <2>5. f \in [Viewings -> ViewingType]
    BY <2>4
  <2> HIDE DEF f
  <2> QED
    BY <2>3, <2>5 DEF DbType
<1>2. cache = [k \in Keys |-> cache[k]] /\ \A k \in Keys : cache[k] \in EntryType(k)
  <2>1. \A k \in Keys : Empty \in EntryType(k)
    BY DEF Empty, EntryType, Entries
  <2> DEFINE c == [k \in Keys |-> Empty]
  <2>2. \A k \in Keys : c[k] \in EntryType(k)
    BY <2>1
  <2>3. cache = Rendered({}, Reads("list", Closed), c, {})
    BY DEF Init
  <2> HIDE DEF c
  <2> QED
    BY <2>2, <2>3, Rendering
<1>3. calls \in [Calls -> CallType] /\ \A i \in Calls : calls[i].at = "unused"
  BY DEF Init, Unused, CallType
<1> QED
  BY <1>1, <1>2, <1>3, ClosedTyped DEF Init, IInv, Typed, Outdated, Pages

\* Entries change, none that is behind becomes one taken for up to date, and no other
\* query leaves the screen.
LEMMA CacheInv ==
  ASSUME IInv,
         cache' = [k \in Keys |-> cache'[k]],
         \A k \in Keys : cache'[k] \in EntryType(k) /\ (~Settled(cache[k]) => ~Settled(cache'[k])),
         dialog' \in DialogType, \A k \in Reads(page, dialog) : k \in Reads(page, dialog'),
         UNCHANGED <<role, db, page, calls, behind, late>>
  PROVE  IInv'
<1>1. Typed'
  BY DEF IInv, Typed
<1>2. \A b \in behind : b[1] \in Keys
  BY DEF IInv, Typed
<1>3. Outdated'
  BY <1>2 DEF IInv, Outdated
<1> QED
  BY <1>1, <1>3 DEF IInv

LEMMA OpenPageInv ==
  ASSUME IInv, NEW p \in Pages, NEW old, OpenPage(p, old)
  PROVE  IInv'
<1>1. cache' = [k \in Keys |-> cache'[k]] /\ \A k \in Keys : cache'[k] \in EntryType(k)
  <2>1. /\ \A k \in Keys : cache[k] \in EntryType(k)
        /\ cache' = Rendered(Reads(page, dialog), Reads(p, Closed), cache, old)
    BY DEF IInv, Typed, OpenPage
  <2> QED
    BY <2>1, Rendering
<1>2. /\ calls' \in [Calls -> CallType]
      /\ \A i \in Calls : calls'[i].at = calls[i].at /\ calls'[i].op = calls[i].op
  BY DEF IInv, Typed, OpenPage, CallType
<1> QED
  BY <1>1, <1>2, ClosedTyped DEF IInv, Typed, Outdated, OpenPage

LEMMA OpenDialogInv ==
  ASSUME IInv, NEW m \in SlotOps \X (Viewings \cup {None}), NEW old, OpenDialog(m, old)
  PROVE  IInv'
<1> DEFINE g == [mode |-> m[1], id |-> m[2], pick |-> None]
<1>1. /\ dialog.mode = "none" /\ dialog' = g
      /\ cache' = Rendered(Reads(page, dialog), Reads(page, g), cache, old)
      /\ UNCHANGED <<role, db, page, calls, events, behind, late>>
  BY DEF OpenDialog
<1>2. \A k \in Keys : cache[k] \in EntryType(k)
  BY DEF IInv, Typed
<1>3. g \in DialogType
  BY DEF DialogType
<1>4. \A k \in Reads(page, dialog) : k \in Reads(page, g)
  BY <1>1 DEF Reads
<1> HIDE DEF g
<1>5. /\ cache' = [k \in Keys |-> cache'[k]]
      /\ \A k \in Keys : cache'[k] \in EntryType(k) /\ (~Settled(cache[k]) => ~Settled(cache'[k]))
  BY <1>1, <1>2, Rendering
<1> QED
  BY <1>1, <1>3, <1>4, <1>5, CacheInv

LEMMA RefocusInv ==
  ASSUME IInv, Refocus
  PROVE  IInv'
<1>1. /\ cache' = [k \in Keys |-> IF k \in Reads(page, dialog) THEN Mounted(cache[k], TRUE)
                                  ELSE cache[k]]
      /\ UNCHANGED <<role, db, page, dialog, calls, behind, late>>
  BY DEF Refocus
<1>2. \A k \in Keys : cache[k] \in EntryType(k) /\ dialog \in DialogType
  BY DEF IInv, Typed
<1>3. ASSUME NEW k \in Keys
      PROVE  cache'[k] \in EntryType(k) /\ (~Settled(cache[k]) => ~Settled(cache'[k]))
  <2>1. cache'[k] = Mounted(cache[k], TRUE) \/ cache'[k] = cache[k]
    BY <1>1
  <2> QED
    BY <1>2, <2>1, EntrySteps
<1>4. cache' = [k \in Keys |-> cache'[k]]
  BY <1>1
<1>5. dialog \in DialogType
  BY DEF IInv, Typed
<1> QED
  BY <1>1, <1>3, <1>4, <1>5, CacheInv

LEMMA AnswerInv ==
  ASSUME IInv, NEW k \in Keys, Answer(k) \/ Fail(k)
  PROVE  IInv'
<1>1. /\ cache = [j \in Keys |-> cache[j]] /\ \A j \in Keys : cache[j] \in EntryType(j)
      /\ dialog \in DialogType /\ db \in DbType
  BY DEF IInv, Typed
<1>2. PICK a \in Answers(k) \cup {Refused} : cache' = [cache EXCEPT ![k] = Answered(cache[k], a)]
  <2>1. CASE Answer(k)
    BY <1>1, <2>1, FactsTyped DEF Answer
  <2>2. CASE Fail(k)
    BY <1>1, <2>2 DEF Fail
  <2> QED
    BY <2>1, <2>2
<1> DEFINE e == Answered(cache[k], a)
<1>3. e \in EntryType(k) /\ ~Settled(e)
  BY <1>1, EntrySteps
<1> HIDE DEF e
<1>4. cache' = [cache EXCEPT ![k] = e]
  BY <1>2 DEF e
<1>5. /\ cache' = [j \in Keys |-> cache'[j]]
      /\ \A j \in Keys : cache'[j] \in EntryType(j) /\ (~Settled(cache[j]) => ~Settled(cache'[j]))
  BY <1>1, <1>3, <1>4
<1>6. UNCHANGED <<role, db, page, dialog, calls, behind, late>>
  BY DEF Answer, Fail
<1> QED
  BY <1>1, <1>5, <1>6, CacheInv

LEMMA PickInv ==
  ASSUME IInv, NEW s \in Slots, Pick(s)
  PROVE  IInv'
<1> DEFINE p == IF dialog.pick = s THEN None ELSE s
<1>1. /\ dialog \in DialogType /\ cache = [k \in Keys |-> cache[k]]
      /\ \A k \in Keys : cache[k] \in EntryType(k)
  BY DEF IInv, Typed
<1>2. /\ dialog' = [dialog EXCEPT !.pick = p] /\ p \in Slots \cup {None}
      /\ UNCHANGED <<role, db, page, cache, calls, behind, late>>
  BY <1>1 DEF Pick, DialogType
<1> HIDE DEF p
<1>3. dialog' \in DialogType /\ dialog'.mode = dialog.mode
  BY <1>1, <1>2 DEF DialogType
<1>4. \A k \in Reads(page, dialog) : k \in Reads(page, dialog')
  BY <1>3 DEF Reads
<1> QED
  BY <1>1, <1>2, <1>3, <1>4, CacheInv

\* A dialog that closes takes the slots off the screen.
LEMMA SlotsLeave ==
  \A k \in Reads(page, dialog) : k # "slots" => k \in Reads(page, Closed)
BY DEF Reads

LEMMA DismissInv ==
  ASSUME IInv, Dismiss
  PROVE  IInv'
<1>1. /\ dialog' = Closed
      /\ behind' = {b \in behind : b[1] # "slots"} /\ late' = {b \in late : b[1] # "slots"}
      /\ UNCHANGED <<role, db, page, cache, calls>>
  BY DEF Dismiss, CloseDialog
<1>2. Typed'
  BY <1>1, ClosedTyped DEF IInv, Typed
<1>3. Outdated'
  BY <1>1, SlotsLeave DEF IInv, Outdated
<1> QED
  BY <1>2, <1>3 DEF IInv

LEMMA SendInv ==
  ASSUME IInv, NEW i \in Calls,
         NEW o \in SlotOps \cup RowOps, NEW v \in Viewings \cup {None}, NEW s \in Slots \cup {None},
         Send(i, o, v, s)
  PROVE  IInv'
<1> DEFINE c == [at |-> "sent", op |-> o, id |-> v, slot |-> s, here |-> TRUE]
<1>1. c \in CallType /\ c.op = o
  BY DEF CallType
<1>2. o # "none"
  BY DEF SlotOps, RowOps
<1>3. /\ calls[i].at = "unused" /\ calls' = [calls EXCEPT ![i] = c]
      /\ UNCHANGED <<role, db, page, cache, dialog, behind, late>>
  BY DEF Send
<1> HIDE DEF c
<1>4. /\ calls' \in [Calls -> CallType] /\ calls'[i] = c
      /\ \A j \in Calls : j # i => calls'[j] = calls[j]
  BY <1>1, <1>3 DEF IInv, Typed
<1>5. Typed'
  BY <1>1, <1>2, <1>3, <1>4 DEF IInv, Typed
<1>6. \A b \in behind : b[2] \in Calls /\ b[2] # i
  BY <1>3 DEF IInv, Typed, Outdated
<1>7. \A b \in late : b \in behind
  BY DEF IInv, Typed
<1>8. Outdated'
  BY <1>3, <1>4, <1>6, <1>7 DEF IInv, Outdated
<1> QED
  BY <1>5, <1>8 DEF IInv

LEMMA ClickInv ==
  ASSUME IInv, NEW i \in Calls, (\E b \in RowOps \X Viewings : ClickRow(i, b)) \/ Submit(i)
  PROVE  IInv'
<1>1. CASE \E b \in RowOps \X Viewings : ClickRow(i, b)
  <2>1. PICK b \in RowOps \X Viewings : Send(i, b[1], b[2], None)
    BY <1>1 DEF ClickRow
  <2> QED
    BY <2>1, SendInv
<1>2. CASE Submit(i)
  <2>1. /\ Send(i, dialog.mode, dialog.id, dialog.pick)
        /\ dialog.mode \in SlotOps /\ dialog.id \in Viewings \cup {None}
        /\ dialog.pick \in Slots \cup {None}
    BY <1>2 DEF Submit, IInv, Typed, DialogType
  <2> QED
    BY <2>1, SendInv
<1> QED
  BY <1>1, <1>2

LEMMA CommitInv ==
  ASSUME IInv, NEW i \in Calls, Commit(i)
  PROVE  IInv'
<1> DEFINE o == calls[i].op
           d == Applied(db, o, calls[i].id, calls[i].slot)
           outdated == {k \in Reads(page, dialog) :
                          /\ calls[i].here /\ Facts(d, k) # Facts(db, k)
                          /\ k = "slots" => o \in SlotOps}
           c == [calls[i] EXCEPT !.at = "served"]
<1>1. /\ calls[i].at = "sent" /\ Accepts(db, o, calls[i].id, calls[i].slot) /\ db' = d
      /\ calls' = [calls EXCEPT ![i].at = "served"]
      /\ behind' = behind \cup (outdated \X {i})
      /\ late' = late \cup {b \in outdated \X {i} : cache[b[1]].at = "answered"}
      /\ UNCHANGED <<role, page, cache, dialog>>
  BY DEF Commit
<1>2. Typed /\ calls[i] \in CallType /\ db \in DbType
  BY DEF IInv, Typed
<1>3. o \in SlotOps \cup RowOps
  BY <1>1, <1>2 DEF Typed, CallType
<1>4. d \in DbType /\ d.match = db.match
  BY <1>1, <1>2, <1>3, Applying
<1>5. calls' = [calls EXCEPT ![i] = c] /\ c \in CallType /\ c.at = "served" /\ c.op = o
  BY <1>1, <1>2 DEF Typed, CallType
<1>6. \A k \in outdated : k \in Reads(page, dialog) /\ k \in Keys /\ k \in Refreshes(c.op)
  <2> SUFFICES ASSUME NEW k \in outdated
               PROVE  k \in Reads(page, dialog) /\ k \in Keys /\ k \in Refreshes(c.op)
    OBVIOUS
  <2>1. k \in Keys
    BY ReadsKeys
  <2>2. k # "matched"
    BY <1>4 DEF Facts
  <2> QED
    BY <1>5, <2>1, <2>2 DEF Keys, Refreshes
<1> HIDE DEF c, outdated, d
<1>7. /\ calls' \in [Calls -> CallType] /\ calls'[i] = c
      /\ \A j \in Calls : j # i => calls'[j] = calls[j]
  BY <1>2, <1>5 DEF Typed
<1>8. Typed'
  <2>1. behind' \in SUBSET (Keys \X Calls) /\ late' \in SUBSET behind'
    BY <1>1, <1>2, <1>6 DEF Typed
  <2> QED
    BY <1>1, <1>2, <1>4, <1>5, <1>7, <2>1 DEF Typed
<1>9. Outdated'
  <2>1. ASSUME NEW b \in behind'
        PROVE  \/ calls'[b[2]].at = "served" /\ b[1] \in Refreshes(calls'[b[2]].op)
               \/ calls'[b[2]].at = "done" /\ ~Settled(cache'[b[1]])
    <3>1. CASE b \in behind
      <4>1. b[2] \in Calls /\ b[2] # i
        BY <1>1, <1>2, <3>1 DEF IInv, Outdated, Typed
      <4> QED
        BY <1>1, <1>7, <3>1, <4>1 DEF IInv, Outdated
    <3>2. CASE b \in outdated \X {i}
      BY <1>5, <1>6, <1>7, <3>2
    <3> QED
      BY <1>1, <2>1, <3>1, <3>2
  <2>2. ASSUME NEW b \in late'
        PROVE  b[1] \in Reads(page, dialog) /\ calls'[b[2]].at = "served"
    <3>1. CASE b \in late
      <4>1. b[2] \in Calls /\ b[2] # i
        BY <1>1, <1>2, <3>1 DEF IInv, Outdated, Typed
      <4> QED
        BY <1>7, <3>1, <4>1 DEF IInv, Outdated
    <3>2. CASE b \in outdated \X {i}
      BY <1>5, <1>6, <1>7, <3>2
    <3> QED
      BY <1>1, <2>2, <3>1, <3>2
  <2> QED
    BY <1>1, <2>1, <2>2 DEF Outdated
<1> QED
  BY <1>8, <1>9 DEF IInv

LEMMA OverInv ==
  ASSUME IInv, NEW i \in Calls, Refuse(i) \/ Lose(i)
  PROVE  IInv'
<1>1. /\ calls' = [calls EXCEPT ![i] = Done]
      /\ UNCHANGED <<role, db, page, cache, dialog>>
      /\ behind' \in SUBSET behind /\ late' \in SUBSET late /\ late' \in SUBSET behind'
      /\ \A b \in behind' : b[2] # i
  <2>1. CASE Refuse(i)
    BY <2>1 DEF Refuse, IInv, Outdated, Typed
  <2>2. CASE Lose(i)
    BY <2>2 DEF Lose, IInv, Typed
  <2> QED
    BY <2>1, <2>2
<1>2. /\ calls' \in [Calls -> CallType] /\ calls'[i] = Done
      /\ \A j \in Calls : j # i => calls'[j] = calls[j]
  BY <1>1, DoneCall DEF IInv, Typed
<1>3. Typed'
  BY <1>1, <1>2, DoneCall DEF IInv, Typed
<1>4. \A b \in behind' : b \in behind /\ b[2] \in Calls /\ calls'[b[2]] = calls[b[2]]
  BY <1>1, <1>2 DEF IInv, Typed
<1>5. \A b \in late' : b \in late /\ calls'[b[2]] = calls[b[2]]
  BY <1>1, <1>4
<1>6. Outdated'
  BY <1>1, <1>4, <1>5 DEF IInv, Outdated
<1> QED
  BY <1>3, <1>6 DEF IInv

LEMMA ReplyInv ==
  ASSUME IInv, NEW i \in Calls, Reply(i)
  PROVE  IInv'
<1> DEFINE again == Refreshes(calls[i].op)
           shown == Reads(page, dialog)
<1>1. /\ calls[i].at = "served" /\ calls' = [calls EXCEPT ![i] = Done]
      /\ cache' = [k \in Keys |-> IF k \in again THEN Invalidated(cache[k], k \in shown)
                                  ELSE cache[k]]
      /\ UNCHANGED <<role, db, page>>
  BY DEF Reply
<1>2. /\ behind' \in SUBSET behind
      /\ \A b \in late' : b \in late /\ b \in behind' /\ b[1] \notin (again \cap shown)
      /\ dialog' = dialog \/ (dialog' = Closed /\ \A b \in late' : b[1] # "slots")
  <2>1. \A b \in late : b \in behind
    BY DEF IInv, Typed
  <2>2. CASE calls[i].here /\ calls[i].op \in SlotOps
    BY <2>1, <2>2 DEF Reply
  <2>3. CASE ~(calls[i].here /\ calls[i].op \in SlotOps)
    BY <2>1, <2>3 DEF Reply
  <2> QED
    BY <2>2, <2>3
<1>3. /\ Typed /\ \A k \in Keys : cache[k] \in EntryType(k)
  BY DEF IInv, Typed
<1>4. /\ calls' \in [Calls -> CallType] /\ calls'[i] = Done
      /\ \A j \in Calls : j # i => calls'[j] = calls[j]
  BY <1>1, DoneCall DEF IInv, Typed
<1>5. ASSUME NEW k \in Keys
      PROVE  /\ cache'[k] \in EntryType(k)
             /\ (k \in again \/ ~Settled(cache[k])) => ~Settled(cache'[k])
  <2> DEFINE b == k \in shown
  <2>1. cache[k] \in EntryType(k) /\ b \in BOOLEAN
    BY <1>3
  <2>2. cache'[k] = IF k \in again THEN Invalidated(cache[k], b) ELSE cache[k]
    BY <1>1
  <2> HIDE DEF again, b
  <2> QED
    BY <2>1, <2>2, EntrySteps
<1>6. dialog' \in DialogType
  BY <1>2, ClosedTyped DEF IInv, Typed
<1>7. Typed'
  <2>1. cache' = [k \in Keys |-> cache'[k]]
    BY <1>1
  <2>2. behind' \in SUBSET (Keys \X Calls) /\ late' \in SUBSET behind'
    BY <1>2, <1>3 DEF Typed
  <2> QED
    BY <1>1, <1>3, <1>4, <1>5, <1>6, <2>1, <2>2, DoneCall DEF Typed
<1>8. Outdated'
  <2>1. \A b \in behind : b[1] \in Keys /\ b[2] \in Calls
    BY <1>3 DEF Typed
  <2>2. ASSUME NEW b \in behind'
        PROVE  \/ calls'[b[2]].at = "served" /\ b[1] \in Refreshes(calls'[b[2]].op)
               \/ calls'[b[2]].at = "done" /\ ~Settled(cache'[b[1]])
    <3>1. b \in behind /\ b[1] \in Keys /\ b[2] \in Calls
      BY <1>2, <2>1
    <3>2. \/ calls[b[2]].at = "served" /\ b[1] \in Refreshes(calls[b[2]].op)
          \/ calls[b[2]].at = "done" /\ ~Settled(cache[b[1]])
      BY <3>1 DEF IInv, Outdated
    <3>3. CASE b[2] = i
      BY <1>1, <1>4, <1>5, <3>1, <3>2, <3>3, DoneCall
    <3>4. CASE b[2] # i
      BY <1>4, <1>5, <3>1, <3>2, <3>4
    <3> QED
      BY <3>3, <3>4
  <2>3. ASSUME NEW b \in late'
        PROVE  b[1] \in Reads(page, dialog') /\ calls'[b[2]].at = "served"
    <3>1. b \in late /\ b[1] \notin (again \cap shown) /\ b \in behind /\ b[2] \in Calls
      BY <1>2, <2>1
    <3>2. b[1] \in shown /\ calls[b[2]].at = "served"
      BY <3>1 DEF IInv, Outdated
    <3>3. b[1] \in Refreshes(calls[b[2]].op)
      BY <3>1, <3>2 DEF IInv, Outdated
    <3>4. b[2] # i
      BY <3>1, <3>2, <3>3
    <3>5. b[1] \in Reads(page, dialog')
      BY <1>2, <3>2, SlotsLeave
    <3> QED
      BY <1>4, <3>1, <3>2, <3>4, <3>5
  <2> QED
    BY <1>1, <2>2, <2>3 DEF Outdated
<1> QED
  BY <1>7, <1>8 DEF IInv

LEMMA ReceiveInv ==
  ASSUME IInv, NEW k \in Keys, Receive(k)
  PROVE  IInv'
<1> DEFINE e == Received(cache[k])
<1>1. /\ cache = [j \in Keys |-> cache[j]] /\ \A j \in Keys : cache[j] \in EntryType(j)
      /\ behind \in SUBSET (Keys \X Calls) /\ late \in SUBSET behind
  BY DEF IInv, Typed
<1>2. e \in EntryType(k)
  BY <1>1, EntrySteps
<1>3. /\ cache' = [cache EXCEPT ![k] = e]
      /\ behind' = {b \in behind : b[1] # k \/ (b \in late /\ cache[k].got # Refused)}
      /\ late' = {b \in late : b[1] # k}
      /\ UNCHANGED <<role, db, page, dialog, calls>>
  BY <1>1 DEF Receive
<1> HIDE DEF e
<1>4. /\ cache' = [j \in Keys |-> cache'[j]] /\ \A j \in Keys : cache'[j] \in EntryType(j)
      /\ \A j \in Keys : j # k => cache'[j] = cache[j]
  BY <1>1, <1>2, <1>3
<1>5. Typed'
  <2>1. behind' \in SUBSET (Keys \X Calls) /\ late' \in SUBSET behind'
    BY <1>1, <1>3
  <2> QED
    BY <1>3, <1>4, <2>1 DEF IInv, Typed
<1>6. Outdated'
  <2>1. ASSUME NEW b \in behind'
        PROVE  \/ calls[b[2]].at = "served" /\ b[1] \in Refreshes(calls[b[2]].op)
               \/ calls[b[2]].at = "done" /\ ~Settled(cache'[b[1]])
    <3>1. /\ b \in behind /\ b[1] \in Keys
          /\ b[1] # k \/ b \in late
      BY <1>1, <1>3
    <3>2. b \in late => calls[b[2]].at = "served"
      BY DEF IInv, Outdated
    <3> QED
      BY <1>4, <3>1, <3>2 DEF IInv, Outdated
  <2>2. \A b \in late' : b[1] \in Reads(page, dialog) /\ calls[b[2]].at = "served"
    BY <1>3 DEF IInv, Outdated
  <2> QED
    BY <1>3, <2>1, <2>2 DEF Outdated
<1> QED
  BY <1>5, <1>6 DEF IInv

LEMMA ElsewhereInv ==
  ASSUME IInv, Elsewhere
  PROVE  IInv'
<1>1. db \in DbType
  BY DEF IInv, Typed
<1>2. db' \in DbType
  <2>1. CASE \E o \in SlotOps \cup RowOps, v \in Viewings, s \in Slots :
               Accepts(db, o, v, s) /\ db' = Applied(db, o, v, s)
    BY <1>1, <2>1, Applying
  <2>2. CASE db' = Rented(db)
    <3> DEFINE f == [v \in Viewings |-> IF db.viewing[v].status = "confirmed"
                                        THEN [db.viewing[v] EXCEPT !.status = "cancelled"]
                                        ELSE db.viewing[v]]
    <3>1. db' = [db EXCEPT !.match = "listing_rented", !.viewing = f]
      BY <1>1, <2>2 DEF Rented, DbType
    <3>2. f \in [Viewings -> ViewingType]
      BY <1>1 DEF DbType, ViewingType, Status
    <3> HIDE DEF f
    <3> QED
      BY <1>1, <3>1, <3>2 DEF DbType
  <2>3. CASE \E s \in Slots : db' = [db EXCEPT !.open = IF s \in @ THEN @ \ {s} ELSE @ \cup {s}]
    BY <1>1, <2>3 DEF DbType
  <2> QED
    BY <2>1, <2>2, <2>3 DEF Elsewhere
<1>3. UNCHANGED <<role, page, cache, dialog, calls, behind, late>>
  BY DEF Elsewhere
<1> QED
  BY <1>2, <1>3 DEF IInv, Typed, Outdated

LEMMA NextInv == IInv /\ [Next]_vars => IInv'
<1> SUFFICES ASSUME IInv, [Next]_vars PROVE IInv'
  OBVIOUS
<1>1. CASE \E p \in Pages, old \in {{}, Keys} : OpenPage(p, old)
  BY <1>1, OpenPageInv
<1>2. CASE \E m \in SlotOps \X (Viewings \cup {None}), old \in {{}, Keys} : OpenDialog(m, old)
  BY <1>2, OpenDialogInv
<1>3. CASE \E s \in Slots : Pick(s)
  BY <1>3, PickInv
<1>4. CASE Dismiss
  BY <1>4, DismissInv
<1>5. CASE Refocus
  BY <1>5, RefocusInv
<1>6. CASE \E k \in Keys : Answer(k) \/ Fail(k)
  BY <1>6, AnswerInv
<1>7. CASE \E k \in Keys : Receive(k)
  BY <1>7, ReceiveInv
<1>8. CASE \E i \in Calls : (\E b \in RowOps \X Viewings : ClickRow(i, b)) \/ Submit(i)
  BY <1>8, ClickInv
<1>9. CASE \E i \in Calls : Commit(i)
  BY <1>9, CommitInv
<1>10. CASE \E i \in Calls : Refuse(i) \/ Lose(i)
  BY <1>10, OverInv
<1>11. CASE \E i \in Calls : Reply(i)
  BY <1>11, ReplyInv
<1>12. CASE Elsewhere
  BY <1>12, ElsewhereInv
<1>13. CASE UNCHANGED vars
  BY <1>13 DEF vars, IInv, Typed, Outdated, Reads
<1> QED
  BY <1>1, <1>2, <1>3, <1>4, <1>5, <1>6, <1>7, <1>8, <1>9, <1>10, <1>11, <1>12, <1>13
  DEF Next

LEMMA Invariant == Spec => []IInv
BY InitInv, NextInv, PTL DEF Spec
-----------------------------------------------------------------------------
(* The theorems. *)

\* Every variable keeps its type, the query cache its facts, and late is a part of
\* behind (TypeOK).
THEOREM AppointmentTypes == Spec => []TypeOK
<1>1. IInv => TypeOK
  <2> SUFFICES ASSUME IInv PROVE TypeOK
    OBVIOUS
  <2>1. /\ cache["slots"] \in Entries(SUBSET Slots)
        /\ cache["matched"] \in Entries(SUBSET {"active", "listing_rented"})
    BY DEF IInv, Typed, EntryType, Answers, Keys
  <2>2. \A i \in Calls : calls[i].at \in {"unused", "sent", "served", "done"}
    BY DEF IInv, Typed, CallType
  <2> QED
    BY <2>1, <2>2 DEF IInv, Typed, DbType, ViewingType, DialogType, TypeOK
<1> QED
  BY Invariant, <1>1, PTL

\* What a click outdated on its page is not taken for up to date once its success has
\* come, whatever refetches, answers and dialogs it overlapped: the safety half of
\* OwnWritesArrive, whose other half is the fairness of requests and answers.
THEOREM SuccessIsNoticed == Spec => []OutdatedIsStale
<1>1. IInv => OutdatedIsStale
  BY DEF IInv, Outdated, OutdatedIsStale
<1> QED
  BY Invariant, <1>1, PTL

\* A row of a list that has what the tables have.
LEMMA RowsOfTables ==
  ASSUME IInv, cache["viewings"].data = Facts(db, "viewings"),
         NEW statuses \in SUBSET (Status \ {"none"}), NEW live \in BOOLEAN
  PROVE  Rows(statuses, live) = {v \in Viewings : /\ db.viewing[v].status \in statuses
                                                  /\ live => db.match = "active"}
<1> DEFINE vs == {w \in Viewings : db.viewing[w].status # "none"}
           m == (db.match = "active")
           a == {[id |-> v, status |-> db.viewing[v].status, live |-> m] : v \in vs}
           b == {[id |-> v, slot |-> db.viewing[v].slot] : v \in vs}
<1>1. cache["viewings"].data = a \cup b
  BY DEF Facts
<1>2. m \in BOOLEAN
  OBVIOUS
<1>3. a \cup b \in SUBSET RowFact
  BY <1>1, FactsTyped DEF IInv, Typed, Answers, Keys
<1>4. cache["viewings"].data \ (Unloaded \cup Refused) = a \cup b
  BY <1>1, <1>3, AnswersAssumption DEF Unloaded, Refused
<1> HIDE DEF m
<1>5. ASSUME NEW v \in Viewings
      PROVE  v \in Rows(statuses, live) <=> /\ db.viewing[v].status \in statuses
                                            /\ live => m
  <2>1. ASSUME v \in Rows(statuses, live)
        PROVE  db.viewing[v].status \in statuses /\ (live => m)
    <3>1. PICK f \in a \cup b :
            /\ f.id = v /\ "status" \in DOMAIN f /\ f.status \in statuses
            /\ live => f.live
      BY <1>4, <2>1 DEF Rows
    <3>2. f \in a
      BY <3>1
    <3> QED
      BY <3>1, <3>2
  <2>2. ASSUME db.viewing[v].status \in statuses, live => m
        PROVE  v \in Rows(statuses, live)
    <3> DEFINE f == [id |-> v, status |-> db.viewing[v].status, live |-> m]
    <3>1. v \in vs
      BY <2>2
    <3>2. f \in a
      BY <3>1
    <3>3. /\ f.id = v /\ "status" \in DOMAIN f /\ f.status \in statuses
          /\ live => f.live
      BY <2>2
    <3> HIDE DEF f, a, b
    <3> QED
      BY <1>4, <3>2, <3>3 DEF Rows
  <2> QED
    BY <2>1, <2>2
<1>6. Rows(statuses, live) \in SUBSET Viewings
  BY DEF Rows
<1> QED
  BY <1>5, <1>6 DEF m

LEMMA RowsOfList ==
  ASSUME IInv, cache["viewings"].data = Facts(db, "viewings")
  PROVE  /\ Rows({"confirmed"}, FALSE) = {v \in Viewings : db.viewing[v].status = "confirmed"}
         /\ Rows({"cancelled"}, TRUE) = {v \in Viewings : /\ db.viewing[v].status = "cancelled"
                                                          /\ db.match = "active"}
<1>1. /\ {"confirmed"} \in SUBSET (Status \ {"none"})
      /\ {"cancelled"} \in SUBSET (Status \ {"none"})
  BY DEF Status
<1>2. Rows({"confirmed"}, FALSE) = {v \in Viewings : /\ db.viewing[v].status \in {"confirmed"}
                                                     /\ FALSE => db.match = "active"}
  BY <1>1, RowsOfTables, Zenon
<1>3. Rows({"cancelled"}, TRUE) = {v \in Viewings : /\ db.viewing[v].status \in {"cancelled"}
                                                    /\ TRUE => db.match = "active"}
  BY <1>1, RowsOfTables, Zenon
<1> QED
  BY <1>2, <1>3

\* The buttons of a page whose entries have what the tables have.
LEMMA ButtonsAccepted ==
  ASSUME IInv, \A k \in Reads(page, dialog) : cache[k].data = Facts(db, k),
         NEW b \in RowButtons
  PROVE  Accepts(db, b[1], b[2], None)
<1>1. cache["viewings"].data = Facts(db, "viewings")
  BY ReadsKeys
<1>2. Rows({"confirmed"}, FALSE) = {v \in Viewings : db.viewing[v].status = "confirmed"}
  BY <1>1, RowsOfList
<1>3. b[1] \in RowOps /\ db.viewing[b[2]].status = "confirmed"
  BY <1>2 DEF RowButtons, LandlordRowButtons, TenantRowButtons, RowOps
<1> QED
  BY <1>3 DEF Accepts, RowOps, Active

LEMMA DialogsAccepted ==
  ASSUME IInv, \A k \in Reads(page, dialog) : cache[k].data = Facts(db, k),
         NEW m \in Dialogs, NEW s \in OpenSlots(db)
  PROVE  \/ Accepts(db, m[1], m[2], s)
         \/ m[1] = "rebook" /\ Booked(db)
         \/ m[1] = "book" /\ \E v \in Viewings : db.viewing[v].status = "completed"
         \/ ~\E v \in Viewings : db.viewing[v].status = "none"
<1>1. cache["viewings"].data = Facts(db, "viewings")
  BY ReadsKeys
<1>2. /\ Rows({"confirmed"}, FALSE) = {v \in Viewings : db.viewing[v].status = "confirmed"}
      /\ Rows({"cancelled"}, TRUE) = {v \in Viewings : /\ db.viewing[v].status = "cancelled"
                                                       /\ db.match = "active"}
  BY <1>1, RowsOfList
<1>3. CASE m \in ListDialogs
  <2>1. CASE m[1] = "reschedule" /\ db.viewing[m[2]].status = "confirmed"
    BY <2>1 DEF Accepts
  <2>2. CASE m[1] = "rebook" /\ db.match = "active"
    BY <2>2 DEF Accepts
  <2> QED
    BY <1>2, <1>3, <2>1, <2>2 DEF ListDialogs
<1>4. CASE page = "matched" /\ BookButton /\ m = <<"book", None>>
  <2>1. cache["matched"].data = {db.match}
    BY <1>4 DEF Reads, Facts
  <2>2. db.match = "active" /\ ~\E v \in Viewings : db.viewing[v].status = "confirmed"
    BY <1>2, <1>4, <2>1 DEF BookButton
  <2>3. Booked(db) => \E v \in Viewings : db.viewing[v].status = "completed"
    BY <2>2 DEF Booked, Active
  <2> QED
    BY <1>4, <2>2, <2>3 DEF Accepts
<1> QED
  BY <1>3, <1>4 DEF Dialogs

\* Whatever the other side, other tenants and other windows did before, a page that is
\* up to date offers nothing the server refuses, but for the exceptions
\* OfferedIsAccepted names.
THEOREM ButtonsAreAccepted == Spec => []OfferedIsAccepted
<1>1. IInv => OfferedIsAccepted
  BY ButtonsAccepted, DialogsAccepted DEF OfferedIsAccepted
<1> QED
  BY Invariant, <1>1, PTL
=============================================================================
