------------------------------- MODULE Photos -------------------------------
(***************************************************************************)
(* The photos of one listing: the upload, delete and reorder handlers      *)
(* statement by statement, the object store they write, and the photo      *)
(* section of the landlord's form, which uploads a batch file by file and  *)
(* keeps an order of its own while a drag is saved.  The form may be       *)
(* closed, which stops no upload, and opened again, which starts with no   *)
(* batch.  Other windows of the landlord call the same handlers.           *)
(***************************************************************************)
EXTENDS QueryCache, Integers, FiniteSets, Sequences, SequencesExt

CONSTANTS MaxIds,         \* the photos there can be (a bound)
          MaxPhotos,      \* maxListingPhotos
          Loops,          \* the batches of the page that may run at once (a bound)
          Calls,          \* the requests there can be (a bound)
          MaxFaults,      \* failures (a bound)
          Gone            \* the position of a photo that is deleted or not there

ASSUME PhotosAssumption ==
  /\ MaxIds \in Nat /\ MaxPhotos \in Nat \ {0} /\ Gone \notin Int
  /\ Loops \cap {"page", "other"} = {}

Ids == 1 .. MaxIds
Callers == Loops \cup {"page", "other"}      \* other: another window, or nobody
Kinds == {"upload", "delete", "reorder"}

VARIABLES position,      \* of each row of listing_photos that is not deleted
          made, store,   \* the rows ever inserted, the objects stored
          calls,
          entry,         \* listing-detail in the page's query cache
          open,          \* whether a form with the photo section is on screen
          localOrder,    \* the order of a drag until the server has it, else <<>>
          batch,         \* of each loop: files left, photos up, is it the section's own
          faults,
          shown, overtaken, together      \* history: see Heard, Insert, CountPhotos

vars == <<position, made, store, calls, entry, open, localOrder, batch, faults,
          shown, overtaken, together>>
history == <<overtaken, together>>
server == <<position, made, store, history>>
page == <<entry, open, localOrder, batch, shown>>
-----------------------------------------------------------------------------
(* The table. *)

Live(pos) == {p \in Ids : pos[p] # Gone}

\* ORDER BY position, which the unique index keeps distinct
Sorted(facts) ==
  [n \in 1..Cardinality(facts) |->
     (CHOOSE f \in facts : Cardinality({g \in facts : g[2] <= f[2]}) = n)[1]]

Facts == {<<p, position[p]>> : p \in Live(position)}

\* COALESCE(MAX(position), 0) + 1
NextPosition ==
  IF Live(position) = {} THEN 1
  ELSE 1 + (CHOOSE n \in {position[p] : p \in Live(position)} :
              \A p \in Live(position) : position[p] <= n)

\* The first UPDATE of a reorder, which the unique index refuses when it meets a
\* row that an earlier one parked.
Parked == [p \in Ids |-> IF p \in Live(position) THEN -position[p] ELSE Gone]
ParkCollides == \E p, q \in Live(position) : p # q /\ position[p] = -position[q]

\* The second: it takes the rows one by one in an order of its own, and the index
\* refuses a position that a row not yet moved still has.
Placed_ChangedOnly(order) ==
  [p \in Ids |-> IF p \in Range(order) \cap Live(position)
                    /\ ~(position[p] \in DOMAIN order /\ order[position[p]] = p)
                 THEN CHOOSE i \in DOMAIN order : order[i] = p ELSE Parked[p]]

Placed(order) ==
  [p \in Ids |-> IF p \in Range(order) \cap Live(position)
                 THEN CHOOSE i \in DOMAIN order : order[i] = p ELSE Parked[p]]
Fits(order, visit) ==
  \A i \in DOMAIN visit :
    \A q \in Live(position) \ {visit[j] : j \in 1..i} :
      Parked[q] # Placed(order)[visit[i]]
Visits(order) == SetToSeqs(Range(order) \cap Live(position))
-----------------------------------------------------------------------------
(* The handlers. *)

Unused == [at |-> "unused", by |-> "other", kind |-> "upload", photo |-> {}, order |-> <<>>]
Done == [Unused EXCEPT !.at = "done"]
Uploading == {i \in Calls : calls[i].at \in {"counted", "stored"}}

Start(i, w, k, photo, order) ==
  /\ calls[i].at = "unused"
  /\ calls' = [calls EXCEPT ![i] = [at |-> "sent", by |-> w, kind |-> k,
                                    photo |-> photo, order |-> order]]

\* Nobody waits for the other answers.
Goes(i, at) ==
  calls' = [calls EXCEPT ![i] = IF @.by = "other" /\ at \in {"served", "failed"} THEN Done
                                ELSE [@ EXCEPT !.at = at]]
Fails(i) == Goes(i, "failed") /\ UNCHANGED <<server, page, faults>>

TooMany_OffByOne(n) == n > MaxPhotos
TooMany(n) == n >= MaxPhotos

\* together is the most uploads there were at once between the count and the row,
\* and one at the least.
CountPhotos(i) ==
  LET n == Cardinality(Uploading) + 1  IN
  /\ calls[i].at = "sent" /\ calls[i].kind = "upload"
  /\ IF TooMany(Cardinality(Live(position)))
     THEN Fails(i)
     ELSE /\ Goes(i, "counted")
          /\ together' = IF n > together THEN n ELSE together
          /\ UNCHANGED <<position, made, store, overtaken, page, faults>>

\* The next position is read, then the object is stored under a fresh name.
StoreObject(i) ==
  /\ calls[i].at = "counted"
  /\ \E p \in Ids \ (store \cup made) :
       /\ \A q \in Ids \ (store \cup made) : p <= q
       /\ store' = store \cup {p}
       /\ calls' = [calls EXCEPT ![i].at = "stored", ![i].photo = {p},
                                 ![i].order = <<NextPosition>>]
  /\ UNCHANGED <<position, made, history, page, faults>>

\* The row; the index refuses a position another row has taken since.  overtaken
\* remembers the rows inserted while a reorder has checked its list.
Insert(i) ==
  LET p == CHOOSE x \in calls[i].photo : TRUE
      n == calls[i].order[1]  IN
  /\ calls[i].at = "stored"
  /\ IF \E q \in Live(position) : position[q] = n
     THEN Fails(i)
     ELSE /\ position' = [position EXCEPT ![p] = n]
          /\ made' = made \cup {p}
          /\ overtaken' = overtaken \cup
               {q \in {p} : \E j \in Calls : calls[j].at = "checked"}
          /\ Goes(i, "served")
          /\ UNCHANGED <<store, together, page, faults>>

FindRow(i) ==
  /\ calls[i].at = "sent" /\ calls[i].kind = "delete"
  /\ IF calls[i].photo \subseteq Live(position)
     THEN Goes(i, "found") /\ UNCHANGED <<server, page, faults>>
     ELSE Fails(i)

\* The UPDATE does not ask again: two deletes of one photo are both served.
DeleteRow(i) ==
  /\ calls[i].at = "found"
  /\ position' = [p \in Ids |-> IF p \in calls[i].photo THEN Gone ELSE position[p]]
  /\ Goes(i, "deleted")
  /\ UNCHANGED <<made, store, history, page, faults>>

RowGone_Assumed(i) == calls[i].kind = "delete" /\ calls[i].at \in {"found", "deleted"}

RowGone(i) == calls[i].at = "deleted"

Purge(i, done) ==
  /\ RowGone(i)
  /\ store' = IF done THEN store \ calls[i].photo ELSE store       \* best effort
  /\ Goes(i, "served")
  /\ UNCHANGED <<position, made, history, page, faults>>

\* The list has each photo of the listing once.
CheckOrder(i) ==
  /\ calls[i].at = "sent" /\ calls[i].kind = "reorder"
  /\ IF calls[i].order \in SetToSeqs(Live(position))
     THEN Goes(i, "checked") /\ UNCHANGED <<server, page, faults>>
     ELSE Fails(i)

PlaceAll(i) ==
  /\ calls[i].at = "checked"
  /\ \/ /\ ParkCollides \/ \E v \in Visits(calls[i].order) : ~Fits(calls[i].order, v)
        /\ Fails(i)
     \/ /\ ~ParkCollides
        /\ \E v \in Visits(calls[i].order) : Fits(calls[i].order, v)
        /\ position' = Placed(calls[i].order)
        /\ Goes(i, "served")
        /\ UNCHANGED <<made, store, history, page, faults>>
-----------------------------------------------------------------------------
(* The photo section. *)

Known == IF Loaded(entry) THEN entry.data ELSE {}
ServerIds == Sorted(Known)
ServerPhotos == {f[1] : f \in Known}

\* An order that is being saved leaves out what the server has beside it.
Shown == IF localOrder = <<>> THEN ServerPhotos ELSE Range(localOrder) \cap ServerPhotos

NoBatch == [left |-> 0, up |-> {}, mine |-> FALSE]
Fault == faults < MaxFaults /\ faults' = faults + 1

\* The effect that gives up the order of a drag once the server has it.
Settle(order, e) ==
  IF order # <<>> /\ Loaded(e) /\ order = Sorted(e.data) THEN <<>> ELSE order

\* A closed form takes its order along; its batch goes on, and the next section does
\* not know of it.
CloseForm ==
  /\ open /\ open' = FALSE
  /\ localOrder' = <<>>
  /\ batch' = [l \in Loops |-> [batch[l] EXCEPT !.mine = FALSE]]
  /\ UNCHANGED <<server, calls, entry, shown, faults>>

OpenForm(old) ==
  /\ ~open /\ open' = TRUE
  /\ entry' = Mounted(entry, old)
  /\ UNCHANGED <<server, calls, localOrder, batch, shown, faults>>

\* As many of the files chosen as there is room for by the photos on the page, unless
\* a batch of this section runs.
ChooseFiles(l, n) ==
  LET remaining == MaxPhotos - Cardinality(Shown)  IN
  /\ open /\ batch[l] = NoBatch /\ \A k \in Loops : ~batch[k].mine
  /\ remaining > 0
  /\ batch' = [batch EXCEPT ![l] = [left |-> IF n < remaining THEN n ELSE remaining,
                                    up |-> {}, mine |-> TRUE]]
  /\ UNCHANGED <<server, calls, entry, open, localOrder, faults, shown>>

UploadNext(i, l) ==
  /\ batch[l].left > 0 /\ \A j \in Calls : calls[j].by # l
  /\ Start(i, l, "upload", {}, <<>>)
  /\ UNCHANGED <<server, page, faults>>

DeletePhoto(i, p) ==
  /\ open /\ p \in Shown
  /\ Start(i, "page", "delete", {p}, <<>>)
  /\ UNCHANGED <<server, page, faults>>

\* A photo is dragged to the place of another: from the local order, deleted
\* photos and all, when there is one.
Drag(i, from, to) ==
  LET current == IF localOrder = <<>> THEN ServerIds ELSE localOrder  IN
  LET order == InsertAt(RemoveAt(current, from), to, current[from])  IN
  /\ open /\ {from, to} \subseteq DOMAIN current
  /\ from # to \/ localOrder # <<>>
  /\ {current[from], current[to]} \subseteq Shown
  /\ localOrder' = Settle(order, entry)
  /\ IF order = ServerIds
     THEN UNCHANGED calls
     ELSE Start(i, "page", "reorder", {}, order)
  /\ UNCHANGED <<server, entry, open, batch, shown, faults>>

\* After the last file or the first that fails.
Ended_AllOrNothing(b, e) ==
  IF b.left = 0 THEN Invalidated(e, open) ELSE e

Ended(b, e) == IF b.up # {} THEN Invalidated(e, open) ELSE e

\* shown has the photos of the batches that ended; but for those that ended behind a
\* closed form with a read under way, whose answer clears the mark.
ReplyUpload(l, photo, ok) ==
  LET b == IF ok THEN [batch[l] EXCEPT !.left = @ - 1, !.up = @ \cup photo] ELSE batch[l]  IN
  IF ok /\ b.left > 0
  THEN batch' = [batch EXCEPT ![l] = b] /\ UNCHANGED <<entry, shown>>
  ELSE /\ batch' = [batch EXCEPT ![l] = NoBatch]
       /\ entry' = Ended(b, entry)
       /\ shown' = IF open \/ entry.at = "idle" THEN shown \cup b.up ELSE shown

Heard(i, ok) ==
  /\ IF calls[i].kind = "upload" THEN ReplyUpload(calls[i].by, calls[i].photo, ok)
     ELSE /\ UNCHANGED <<batch, shown>>
          /\ entry' = IF ok THEN Invalidated(entry, open) ELSE entry
  /\ UNCHANGED <<server, open, localOrder>>

Reply(i) ==
  /\ calls[i].at \in {"served", "failed"}
  /\ calls' = [calls EXCEPT ![i] = Done]
  /\ Heard(i, calls[i].at = "served")
  /\ UNCHANGED faults

Answer ==
  /\ entry.at = "asked"
  /\ entry' = Answered(entry, Facts)
  /\ UNCHANGED <<server, calls, open, localOrder, batch, shown, faults>>

Receive ==
  LET e == Received(entry)  IN
  /\ entry.at = "answered"
  /\ entry' = e /\ localOrder' = Settle(localOrder, e)
  /\ UNCHANGED <<server, calls, open, batch, shown, faults>>
-----------------------------------------------------------------------------
\* Other windows, with whatever they send; one order stands for all.
OtherWindow(i) ==
  /\ \/ Start(i, "other", "upload", {}, <<>>)
     \/ \E p \in Live(position) : Start(i, "other", "delete", {p}, <<>>)
     \/ Start(i, "other", "reorder", {}, Reverse(Sorted(Facts)))
  /\ UNCHANGED <<server, page, faults>>

\* The process or the connection ends anywhere in a handler, or the answer is lost:
\* what was written stays, the page sees an error.  (A request of another window
\* that dies is one that takes no more steps.)
Die(i) ==
  /\ Fault
  /\ calls[i].by # "other" /\ calls[i].at \notin {"unused", "failed", "done"}
  /\ Goes(i, "failed")
  /\ UNCHANGED <<server, page>>

\* The page sees an error before the handler is done, which goes on unheard.
Lose(i) ==
  /\ Fault
  /\ calls[i].by # "other" /\ calls[i].at \notin {"unused", "served", "failed", "done"}
  /\ calls' = [calls EXCEPT ![i].by = "other"]
  /\ Heard(i, FALSE)

FailRead ==
  /\ Fault
  /\ entry.at = "asked"
  /\ entry' = Answered(entry, Refused)
  /\ UNCHANGED <<server, calls, open, localOrder, batch, shown>>

\* A form opens on a listing that is full or has room for one more photo.
Init ==
  /\ \E n \in {MaxPhotos - 1, MaxPhotos} :
       position = [p \in Ids |-> IF p <= n THEN p ELSE Gone]
  /\ made = Live(position) /\ store = Live(position)
  /\ calls = [i \in Calls |-> Unused]
  /\ entry = Asked(Empty)
  /\ open = TRUE /\ localOrder = <<>> /\ batch = [l \in Loops |-> NoBatch]
  /\ faults = 0
  /\ shown = {} /\ overtaken = {} /\ together = 1

Next ==
  \/ \E i \in Calls :
       \/ CountPhotos(i) \/ StoreObject(i) \/ Insert(i)
       \/ FindRow(i) \/ DeleteRow(i) \/ (\E done \in BOOLEAN : Purge(i, done))
       \/ CheckOrder(i) \/ PlaceAll(i)
       \/ (\E l \in Loops : UploadNext(i, l)) \/ (\E p \in Ids : DeletePhoto(i, p))
       \/ (\E from, to \in 1..Cardinality(Ids) : Drag(i, from, to))
       \/ Reply(i) \/ OtherWindow(i) \/ Die(i) \/ Lose(i)
  \/ \E l \in Loops, n \in 1..2 : ChooseFiles(l, n)
  \/ CloseForm \/ (\E old \in BOOLEAN : OpenForm(old))
  \/ Answer \/ Receive \/ FailRead

Spec == Init /\ [][Next]_vars
-----------------------------------------------------------------------------
TypeOK ==
  /\ position \in [Ids -> Int \cup {Gone}] /\ Live(position) \subseteq made
  /\ made \subseteq Ids /\ store \subseteq Ids /\ overtaken \subseteq made
  /\ entry \in Entries(SUBSET (Ids \X Int)) /\ open \in BOOLEAN
  /\ batch \in [Loops -> [left : 0..MaxPhotos, up : SUBSET made, mine : BOOLEAN]]
  /\ \A i \in Calls : /\ calls[i].by \in Callers /\ calls[i].kind \in Kinds
                      /\ calls[i].photo \subseteq Ids
                      /\ Cardinality(calls[i].photo) <= 1

\* The limit is a count before the upload and an insert after it, with no lock: n
\* uploads that are between the two at once, of one window whose form was closed and
\* opened again, of several, or given up by their page, pass it by n - 1 photos and no
\* more, whatever is deleted, refused or lost in between (listings.go:522-588).
OverByOverlapOnly ==
  Cardinality(Live(position)) <= MaxPhotos + together - 1

\* A photo on the listing has its object in the store: a delete takes the row first
\* and an upload the object first, so that dying in between leaves an object and
\* never a broken image (listings.go:570-588, 634-645).
RowsHaveObjects == Live(position) \subseteq store

\* A reorder first parks every row at the negative of its position and then sets the
\* positions of its list.  It leaves a row parked only when that row was inserted
\* between the reorder's check of its list and its transaction (listings.go:691-751).
ParkedOnlyOvertaken ==
  [][\A p \in Live(position) \cap Live(position)' :
       position[p] > 0 => position'[p] > 0 \/ p \in overtaken]_vars

\* The photos of a batch that ended are on the list, or it is stale or being read again,
\* also when a later file of the batch failed, and whether the form was closed and opened
\* meanwhile; but for a batch that ended behind a closed form while its list was read
\* (ListingFormModal.tsx:53-77).
UploadsArrive ==
  Settled(entry) => shown \cap Live(position) \subseteq {f[1] : f \in entry.data}
=============================================================================
