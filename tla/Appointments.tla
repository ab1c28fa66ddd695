---------------------------- MODULE Appointments ----------------------------
(***************************************************************************)
(* The pages where a viewing is booked, moved, cancelled and marked: the   *)
(* list of viewings of either side, the tenant's matched tab, the dialog   *)
(* with the slot picker both open.  One match; other tenants compete for   *)
(* the slots of its listing.  A server handler is one step here:           *)
(* Viewing.tla has its statements.                                         *)
(***************************************************************************)
EXTENDS QueryCache, Naturals, FiniteSets

CONSTANTS Viewings, Slots,
          Calls,          \* the clicks of the visit: one mutation each (a bound)
          MaxEvents,      \* pages opened after the first, returns to the window,
                          \* steps of others and failures (a bound)
          None

Roles == {"tenant", "landlord"}
Pages == {"list", "matched"}
Keys == {"viewings", "matched", "slots"}
SlotOps == {"book", "reschedule", "rebook"}
RowOps == {"attendance", "cancel"}

VARIABLES role, db, page, cache,
          dialog,     \* the slot dialog: what it is for, and pickedSlot
          calls, events,
          behind, late            \* history: see Commit

vars == <<role, db, page, cache, dialog, calls, events, behind, late>>
-----------------------------------------------------------------------------
(* The tables and the handlers. *)

\* Who cancelled, and whether the tenant came, no button looks at.
Status == {"none", "confirmed", "completed", "cancelled"}
Active == {"confirmed", "completed"}

Booked(d) == \E v \in Viewings : d.viewing[v].status \in Active

\* What the list of viewings says of one.
RowFact ==
  [id : Viewings, status : Status, live : BOOLEAN] \cup [id : Viewings, slot : Slots \cup {None}]

ASSUME SlotsAssumption == Slots # {}
ASSUME AnswersAssumption == NoAnswer \notin RowFact /\ Error \notin RowFact

\* computeOpenSlots, with a capacity of 1: a full slot is not in the answer.  The
\* slots open are those of the schedule that no other tenant has.
OpenSlots(d) ==
  d.open \ {d.viewing[v].slot : v \in {w \in Viewings : d.viewing[w].status \in Active}}

Accepts(d, o, v, s) ==
  CASE o \in {"book", "rebook"} ->
         /\ d.match = "active" /\ s \in OpenSlots(d) /\ ~Booked(d)
         /\ \E w \in Viewings : d.viewing[w].status = "none"        \* a bound
    [] o = "reschedule" -> d.viewing[v].status = "confirmed" /\ s \in OpenSlots(d)
    [] o = "cancel" -> d.viewing[v].status = "confirmed"
    [] o = "attendance" -> d.viewing[v].status \in Active

Applied(d, o, v, s) ==
  CASE o \in {"book", "rebook"} ->
         LET new == CHOOSE w \in Viewings : d.viewing[w].status = "none"
         IN  [d EXCEPT !.viewing[new] = [status |-> "confirmed", slot |-> s]]
    [] o = "reschedule" -> [d EXCEPT !.viewing[v].slot = s]
    [] o = "cancel" -> [d EXCEPT !.viewing[v].status = "cancelled"]
    [] o = "attendance" -> [d EXCEPT !.viewing[v].status = "completed"]

\* The listing is marked as rented.
Rented(d) ==
  [d EXCEPT !.match = "listing_rented",
            !.viewing = [v \in Viewings |->
               IF @[v].status = "confirmed"
               THEN [@[v] EXCEPT !.status = "cancelled"] ELSE @[v]]]

Facts(d, k) ==
  CASE k = "viewings" ->
         {[id |-> v, status |-> d.viewing[v].status, live |-> d.match = "active"] :
             v \in {w \in Viewings : d.viewing[w].status # "none"}}
           \cup {[id |-> v, slot |-> d.viewing[v].slot] :
                   v \in {w \in Viewings : d.viewing[w].status # "none"}}
    [] k = "matched" -> {d.match}
    [] k = "slots" -> OpenSlots(d)
-----------------------------------------------------------------------------
(* The pages. *)

Closed == [mode |-> "none", id |-> None, pick |-> None]

\* SlotPicker asks for the slots while a dialog shows it.
Reads(p, g) ==
  {"viewings"}
    \cup (IF p = "matched" THEN {"matched"} ELSE {})
    \cup (IF g.mode # "none" THEN {"slots"} ELSE {})

Pending(ops) == \E i \in Calls : calls[i].here /\ calls[i].op \in ops
                                   /\ calls[i].at \in {"sent", "served"}

\* The rows of the list with one of these badges; match_active when live.
Rows(statuses, live) ==
  {v \in Viewings : \E f \in cache["viewings"].data \ (Unloaded \cup Refused) :
      f.id = v /\ "status" \in DOMAIN f /\ f.status \in statuses /\ (live => f.live)}

\* The buttons on the rows of the list, none of which waits for another.
LandlordRowButtons == RowOps \X Rows({"confirmed"}, FALSE)
TenantRowButtons == {"cancel"} \X Rows({"confirmed"}, FALSE)

RowButtons ==
  IF page # "list" THEN {}
  ELSE IF role = "landlord" THEN LandlordRowButtons ELSE TenantRowButtons

\* And those that open the dialog.
ListDialogs ==
  ({"reschedule"} \X Rows({"confirmed"}, FALSE))
    \cup ({"rebook"} \X Rows({"cancelled"}, TRUE))

BookButton_AnyMatch == Loaded(cache["matched"])

\* A matched listing not rented and without a confirmed viewing.
BookButton == "active" \in cache["matched"].data /\ Rows({"confirmed"}, FALSE) = {}

Dialogs ==
  IF role = "landlord" THEN {}
  ELSE IF page = "list" THEN ListDialogs
  ELSE IF page = "matched" /\ BookButton THEN {<<"book", None>>}
  ELSE {}

Refreshes_SlotsAlone(o) == IF o \in SlotOps THEN {"slots"} ELSE {"viewings"}

\* What the onSuccess of each mutation invalidates.
Refreshes(o) == {"viewings"} \cup (IF o \in SlotOps THEN {"slots"} ELSE {})
-----------------------------------------------------------------------------
\* The cache after a render: a query that came on screen is asked for if stale,
\* or if the 30 s have passed (old).
Rendered(before, after, c, old) ==
  [k \in Keys |-> IF k \in after \ before THEN Mounted(c[k], k \in old) ELSE c[k]]

Unused == [at |-> "unused", op |-> "none", id |-> None, slot |-> None, here |-> FALSE]
Done == [Unused EXCEPT !.at = "done"]

NoViewing == [status |-> "none", slot |-> None]

\* Both sides start on the list: no viewing yet, one confirmed, or one cancelled.
Init ==
  /\ role \in Roles
  /\ \E first \in {"none", "confirmed", "cancelled"} :
       LET v == CHOOSE w \in Viewings : TRUE
           s == CHOOSE x \in Slots : TRUE
       IN  db = [viewing |-> [w \in Viewings |-> IF w = v /\ first # "none"
                                                 THEN [status |-> first, slot |-> s]
                                                 ELSE NoViewing],
                 match |-> "active", open |-> Slots]
  /\ page = "list" /\ dialog = Closed
  /\ cache = Rendered({}, Reads("list", Closed), [k \in Keys |-> Empty], {})
  /\ calls = [i \in Calls |-> Unused]
  /\ events = 0
  /\ behind = {} /\ late = {}

Event == events < MaxEvents /\ events' = events + 1

OpenPage(p, old) ==
  /\ Event
  /\ role = "tenant" /\ p # page
  /\ page' = p /\ dialog' = Closed
  /\ cache' = Rendered(Reads(page, dialog), Reads(p, Closed), cache, old)
  /\ calls' = [i \in Calls |-> [calls[i] EXCEPT !.here = FALSE]]
  /\ behind' = {} /\ late' = {}
  /\ UNCHANGED <<role, db>>

\* The window gets the focus back after 30 s: every query on screen is asked again.
Refocus ==
  /\ Event
  /\ cache' = [k \in Keys |-> IF k \in Reads(page, dialog) THEN Mounted(cache[k], TRUE)
                              ELSE cache[k]]
  /\ UNCHANGED <<role, db, page, dialog, calls, behind, late>>

\* The dialog opens on a copy of the row, with no slot picked.
OpenDialog(m, old) ==
  LET g == [mode |-> m[1], id |-> m[2], pick |-> None]  IN
  /\ dialog.mode = "none"
  /\ m \in Dialogs
  /\ dialog' = g
  /\ cache' = Rendered(Reads(page, dialog), Reads(page, g), cache, old)
  /\ UNCHANGED <<role, db, page, calls, events, behind, late>>

\* A slot is picked, or picked again to drop it; it stays picked when a later
\* answer no longer has it.
Pick(s) ==
  /\ dialog.mode # "none" /\ s \in cache["slots"].data
  /\ dialog' = [dialog EXCEPT !.pick = IF @ = s THEN None ELSE s]
  /\ UNCHANGED <<role, db, page, cache, calls, events, behind, late>>

\* A query that leaves the screen is no longer counted as behind.
CloseDialog ==
  /\ dialog' = Closed
  /\ behind' = {b \in behind : b[1] # "slots"}
  /\ late' = {b \in late : b[1] # "slots"}

Dismiss ==
  /\ dialog.mode # "none"
  /\ CloseDialog
  /\ UNCHANGED <<role, db, page, cache, calls, events>>

Send(i, o, v, s) ==
  /\ calls[i].at = "unused"
  /\ calls' = [calls EXCEPT ![i] = [at |-> "sent", op |-> o, id |-> v, slot |-> s,
                                    here |-> TRUE]]
  /\ UNCHANGED <<role, db, page, cache, dialog, events, behind, late>>

ClickRow(i, b) ==
  /\ dialog.mode = "none"
  /\ b \in RowButtons
  /\ Send(i, b[1], b[2], None)

\* The dialog stays open until the answer; its button waits for the mutation.
Submit(i) ==
  /\ dialog.mode # "none" /\ dialog.pick # None
  /\ ~Pending(SlotOps)
  /\ Send(i, dialog.mode, dialog.id, dialog.pick)

\* The handler runs.  behind remembers the keys on screen whose cached answer this
\* write has outdated and its onSuccess sees to, late those whose answer under way
\* has.  A cancellation frees a slot and leaves the picker's list as it is.
Commit(i) ==
  LET call == calls[i]  IN
  LET d == Applied(db, call.op, call.id, call.slot)  IN
  LET outdated == {k \in Reads(page, dialog) :
                     /\ call.here /\ Facts(d, k) # Facts(db, k)
                     /\ k = "slots" => call.op \in SlotOps}  IN
  /\ call.at = "sent"
  /\ Accepts(db, call.op, call.id, call.slot)
  /\ db' = d
  /\ calls' = [calls EXCEPT ![i].at = "served"]
  /\ behind' = behind \cup (outdated \X {i})
  /\ late' = late \cup {b \in outdated \X {i} : cache[b[1]].at = "answered"}
  /\ UNCHANGED <<role, page, cache, dialog, events>>

\* A refusal and its answer: the page shows nothing of it.
Refuse(i) ==
  /\ calls[i].at = "sent"
  /\ ~Accepts(db, calls[i].op, calls[i].id, calls[i].slot)
  /\ calls' = [calls EXCEPT ![i] = Done]
  /\ UNCHANGED <<role, db, page, cache, dialog, events, behind, late>>

\* onSuccess; then the one of the click, which only a page that is still there
\* runs, and which closes whatever slot dialog is open by then.
Reply(i) ==
  LET again == Refreshes(calls[i].op)
      shown == Reads(page, dialog)  IN
  LET left(bs) == {b \in bs : b[1] \notin (again \cap shown)}  IN
  /\ calls[i].at = "served"
  /\ calls' = [calls EXCEPT ![i] = Done]
  /\ cache' = [k \in Keys |-> IF k \in again THEN Invalidated(cache[k], k \in shown)
                              ELSE cache[k]]
  /\ IF calls[i].here /\ calls[i].op \in SlotOps
     THEN /\ dialog' = Closed
          /\ behind' = {b \in behind : b[1] # "slots"}
          /\ late' = {b \in left(late) : b[1] # "slots"}
     ELSE late' = left(late) /\ UNCHANGED <<dialog, behind>>
  /\ UNCHANGED <<role, db, page, events>>

\* The connection fails before or after the handler ran.
Lose(i) ==
  /\ Event
  /\ calls[i].at \in {"sent", "served"}
  /\ calls' = [calls EXCEPT ![i] = Done]
  /\ behind' = {b \in behind : b[2] # i} /\ late' = {b \in late : b[2] # i}
  /\ UNCHANGED <<role, db, page, cache, dialog>>

Answer(k) ==
  /\ cache[k].at = "asked"
  /\ cache' = [cache EXCEPT ![k] = Answered(@, Facts(db, k))]
  /\ UNCHANGED <<role, db, page, dialog, calls, events, behind, late>>

Fail(k) ==
  /\ Event
  /\ cache[k].at = "asked"
  /\ cache' = [cache EXCEPT ![k] = Answered(@, Refused)]
  /\ UNCHANGED <<role, db, page, dialog, calls, behind, late>>

\* An answer arrives; what failed is not counted as behind.
Receive(k) ==
  /\ cache[k].at = "answered"
  /\ cache' = [cache EXCEPT ![k] = Received(@)]
  /\ behind' = {b \in behind : b[1] # k \/ (b \in late /\ cache[k].got # Refused)}
  /\ late' = {b \in late : b[1] # k}
  /\ UNCHANGED <<role, db, page, dialog, calls, events>>

\* The other side, the user's other windows, other tenants and the schedule.
Elsewhere ==
  /\ Event
  /\ \/ \E o \in SlotOps \cup RowOps, v \in Viewings, s \in Slots :
          /\ Accepts(db, o, v, s)
          /\ db' = Applied(db, o, v, s)
     \/ db.match = "active" /\ db' = Rented(db)
     \/ \E s \in Slots : db' = [db EXCEPT !.open = IF s \in @ THEN @ \ {s} ELSE @ \cup {s}]
  /\ UNCHANGED <<role, page, cache, dialog, calls, behind, late>>

Next ==
  \/ \E p \in Pages, old \in {{}, Keys} : OpenPage(p, old)
  \/ \E m \in SlotOps \X (Viewings \cup {None}), old \in {{}, Keys} : OpenDialog(m, old)
  \/ \E s \in Slots : Pick(s)
  \/ Dismiss \/ Refocus
  \/ \E k \in Keys : Answer(k) \/ Fail(k) \/ Receive(k)
  \/ \E i \in Calls : (\E b \in RowOps \X Viewings : ClickRow(i, b)) \/ Submit(i)
                        \/ Commit(i) \/ Refuse(i) \/ Reply(i) \/ Lose(i)
  \/ Elsewhere

\* Requests are answered and answers are delivered; a user owes nothing.
Fairness ==
  /\ \A i \in Calls : WF_vars(Commit(i)) /\ WF_vars(Refuse(i)) /\ WF_vars(Reply(i))
  /\ \A k \in Keys : WF_vars(Answer(k)) /\ WF_vars(Receive(k))

Spec == Init /\ [][Next]_vars /\ Fairness
-----------------------------------------------------------------------------
TypeOK ==
  /\ role \in Roles /\ page \in Pages
  /\ db \in [viewing : [Viewings -> [status : Status, slot : Slots \cup {None}]],
             match : {"active", "listing_rented"}, open : SUBSET Slots]
  /\ dialog \in [mode : SlotOps \cup {"none"}, id : Viewings \cup {None},
                 pick : Slots \cup {None}]
  /\ cache["slots"] \in Entries(SUBSET Slots)
  /\ cache["matched"] \in Entries(SUBSET {"active", "listing_rented"})
  /\ \A i \in Calls : calls[i].at \in {"unused", "sent", "served", "done"}
  /\ late \subseteq behind

\* What a page offers the server accepts: when all a page reads is up to date, its
\* row buttons are accepted, and so is every open slot of a dialog it offers to
\* open.  The exceptions are those of the code: a viewing that took place keeps its
\* match from booking again (viewings.go:380), but the matched tab only looks for a
\* confirmed one (TenantMatches.tsx:314), and an old cancelled viewing offers to
\* book again whether or not another one was booked since (ViewingList.tsx:206).
OfferedIsAccepted ==
  (\A k \in Reads(page, dialog) :
     cache[k].at = "idle" /\ cache[k].data = Facts(db, k)) =>
    /\ \A b \in RowButtons : Accepts(db, b[1], b[2], None)
    /\ \A m \in Dialogs, s \in OpenSlots(db) :
         \/ Accepts(db, m[1], m[2], s)
         \/ m[1] = "rebook" /\ Booked(db)
         \/ m[1] = "book" /\ \E v \in Viewings : db.viewing[v].status = "completed"
         \/ ~\E v \in Viewings : db.viewing[v].status = "none"        \* the bound

\* What a click made wrong on the page is put right without the user's help: each
\* answer it outdated is replaced by a later one, or the request fails, or the user
\* leaves the page or its dialog (the onSuccess of the five mutations).
OwnWritesArrive ==
  \A k \in {"viewings", "slots"} : (\E i \in Calls : <<k, i>> \in behind)
                                     ~> (\A i \in Calls : <<k, i>> \notin behind)
=============================================================================
