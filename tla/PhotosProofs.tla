---------------------------- MODULE PhotosProofs ----------------------------
(***************************************************************************)
(* Proofs about Photos.tla, for any number of photos, requests and         *)
(* failures, and any limit: the objects of the rows, the limit, what a     *)
(* reorder leaves parked, the types, and the uploads the page was told of. *)
(***************************************************************************)
EXTENDS Photos, FiniteSetTheorems, WellFoundedInduction, TLAPS

Ats == {"unused", "sent", "counted", "stored", "found", "deleted", "checked", "served",
        "failed", "done"}

CallType(order) ==
  [at : Ats, by : Callers, kind : Kinds, photo : SUBSET Ids, order : {order}]

CallsTyped ==
  /\ calls = [i \in Calls |-> calls[i]]
  /\ \A i \in Calls : calls[i] \in CallType(calls[i].order)

TablesTyped ==
  /\ position = [p \in Ids |-> position[p]]
  /\ made \subseteq Ids /\ store \subseteq Ids /\ overtaken \subseteq Ids

Typed == CallsTyped /\ TablesTyped

\* Which photo a request is about.
PhotoOfCall ==
  \A i \in Calls :
    /\ calls[i].at = "sent" /\ calls[i].kind = "delete" => \E p \in Ids : calls[i].photo = {p}
    /\ calls[i].at = "stored" => \E p \in store \ made : calls[i].photo = {p}
    /\ calls[i].at = "found" => \E p \in made : calls[i].photo = {p}
    /\ calls[i].at = "deleted" => \E p \in made \ Live(position) : calls[i].photo = {p}

OwnObject ==
  \A i, j \in Calls :
    calls[i].at = "stored" /\ calls[j].at = "stored" /\ calls[i].photo = calls[j].photo => i = j

RowsKept == Live(position) \subseteq made /\ Live(position) \subseteq store

ObjectsInv == Typed /\ PhotoOfCall /\ OwnObject /\ RowsKept

\* Every upload that was let through has a place, but for as many as there were beside
\* another one between its count and its row.
LimitInv ==
  /\ together \in Nat \ {0}
  /\ IsFiniteSet(Uploading) /\ Cardinality(Uploading) <= together
  /\ Cardinality(Live(position)) + Cardinality(Uploading) <= MaxPhotos + together - 1

\* What a reorder has checked is what there is, but for the rows that overtook it.
Ordered ==
  \A i \in Calls :
    calls[i].at = "checked" =>
      \E L \in SUBSET Ids : calls[i].order \in SetToSeqs(L) /\ Live(position) \subseteq L \cup overtaken
-----------------------------------------------------------------------------
(* What a step does, as far as the arguments need it: one request moves on. *)

Active(i) == calls[i].at \notin {"unused", "done"}

Keeps(i) ==
  /\ calls'[i].by = calls[i].by /\ calls'[i].kind = calls[i].kind
  /\ calls'[i].photo = calls[i].photo

Finished(i) ==
  /\ Active(i) /\ calls'[i].at \in {"served", "failed", "done"}
  /\ \/ calls'[i].at = "done" /\ calls'[i].by = "other" /\ calls'[i].photo = {}
     \/ Keeps(i) /\ calls[i].by # "other"

Advanced(i, from, to) ==
  /\ calls[i].at = from /\ calls'[i].at = to
  /\ calls'[i].by = calls[i].by /\ calls'[i].kind = calls[i].kind

Settles(i) == Finished(i) /\ calls'[i].at # "served" /\ UNCHANGED server

Starts(i) ==
  /\ calls[i].at = "unused" /\ calls'[i].at = "sent"
  /\ calls'[i].kind = "delete" => \E p \in Ids : calls'[i].photo = {p}
  /\ calls'[i].kind # "delete" => calls'[i].photo = {}
  /\ calls'[i].by = "page" => calls'[i].kind # "upload"
  /\ calls'[i].by \in Loops => /\ calls'[i].kind = "upload" /\ batch[calls'[i].by].left > 0
                              /\ \A j \in Calls : calls[j].by # calls'[i].by
  /\ UNCHANGED server

Counts(i) ==
  /\ Advanced(i, "sent", "counted") /\ Keeps(i) /\ calls[i].kind = "upload"
  /\ Cardinality(Live(position)) < MaxPhotos
  /\ together' = IF Cardinality(Uploading) + 1 > together THEN Cardinality(Uploading) + 1
                 ELSE together
  /\ UNCHANGED <<position, made, store, overtaken>>

Stores(i) ==
  /\ Advanced(i, "counted", "stored")
  /\ \E p \in Ids \ (store \cup made) : store' = store \cup {p} /\ calls'[i].photo = {p}
  /\ calls'[i].order = <<NextPosition>>
  /\ UNCHANGED <<position, made, history>>

Inserts(i) ==
  /\ calls[i].at = "stored" /\ Finished(i)
  /\ \E p \in Ids : /\ calls[i].photo = {p} /\ made' = made \cup {p}
                    /\ position' = [position EXCEPT ![p] = calls[i].order[1]]
                    /\ overtaken' = overtaken \cup
                         {q \in {p} : \E j \in Calls : calls[j].at = "checked"}
  /\ UNCHANGED <<store, together>>

Finds(i) ==
  /\ Advanced(i, "sent", "found") /\ Keeps(i) /\ calls[i].kind = "delete"
  /\ calls[i].photo \subseteq Live(position)
  /\ UNCHANGED server

DeletesRow(i) ==
  /\ Advanced(i, "found", "deleted")
  /\ \E p \in made : /\ calls'[i].photo = {p}
                     /\ position' = [q \in Ids |-> IF q = p THEN Gone ELSE position[q]]
  /\ UNCHANGED <<made, store, history>>

Purges(i) ==
  /\ calls[i].at = "deleted" /\ Finished(i)
  /\ store' \in {store, store \ calls[i].photo}
  /\ UNCHANGED <<position, made, history>>

Checks(i) ==
  /\ Advanced(i, "sent", "checked") /\ Keeps(i) /\ calls[i].kind = "reorder"
  /\ calls'[i].order \in SetToSeqs(Live(position))
  /\ UNCHANGED server

Places(i) ==
  /\ calls[i].at = "checked" /\ Finished(i)
  /\ position' = Placed(calls[i].order)
  /\ UNCHANGED <<made, store, history>>

\* A request that its page has given up goes on as nobody's.
Loses(i) ==
  /\ Active(i) /\ calls'[i].at = calls[i].at /\ calls'[i].kind = calls[i].kind
  /\ calls'[i].photo = calls[i].photo /\ calls'[i].order = calls[i].order
  /\ calls'[i].by = "other" /\ calls[i].at \notin {"served", "failed"}
  /\ UNCHANGED server

Moves(i) ==
  \/ Settles(i) \/ Starts(i) \/ Counts(i) \/ Stores(i) \/ Inserts(i) \/ Finds(i)
  \/ DeletesRow(i) \/ Purges(i) \/ Checks(i) \/ Places(i) \/ Loses(i)

OneMoves(i) ==
  CallsTyped' /\ Moves(i) /\ \A j \in Calls : j # i => calls'[j] = calls[j]
-----------------------------------------------------------------------------
LEMMA LiveFinite ==
  IsFiniteSet(Live(position)) /\ Cardinality(Live(position)) \in Nat
<1>1. IsFiniteSet(Ids)
  BY PhotosAssumption, FS_Interval DEF Ids
<1> QED
  BY <1>1, FS_Subset, FS_CardinalityType DEF Live

LEMMA DoneCall ==
  /\ Done \in CallType(Done.order)
  /\ Done.at = "done" /\ Done.by = "other" /\ Done.photo = {}
<1>1. Unused \in CallType(<<>>)
  BY DEF Unused, CallType, Ats, Callers, Kinds
<1>2. Done \in CallType(<<>>) /\ Done.at = "done" /\ Done.by = "other" /\ Done.photo = {}
  BY <1>1 DEF Done, Unused, CallType, Ats, Callers
<1>3. Done.order = <<>>
  BY <1>2 DEF CallType
<1> QED
  BY <1>2, <1>3

LEMMA CallWritten ==
  ASSUME CallsTyped, NEW i \in Calls, NEW c, c \in CallType(c.order),
         calls' = [calls EXCEPT ![i] = c]
  PROVE  /\ CallsTyped' /\ calls'[i] = c
         /\ \A j \in Calls : j # i => calls'[j] = calls[j]
<1>1. /\ calls'[i] = c /\ \A j \in Calls : j # i => calls'[j] = calls[j]
      /\ calls' = [j \in Calls |-> calls'[j]]
  BY DEF CallsTyped
<1> QED
  BY <1>1 DEF CallsTyped

\* A handler that goes on, or ends: the other window forgets a call that ended.
LEMMA GoesOn ==
  ASSUME CallsTyped, NEW i \in Calls, NEW at \in Ats, Goes(i, at)
  PROVE  /\ CallsTyped' /\ \A j \in Calls : j # i => calls'[j] = calls[j]
         /\ \/ /\ calls'[i].at = "done" /\ calls'[i].by = "other" /\ calls'[i].photo = {}
               /\ at \in {"served", "failed"}
            \/ /\ at \in {"served", "failed"} => calls[i].by # "other"
               /\ calls'[i].at = at /\ calls'[i].by = calls[i].by
               /\ calls'[i].kind = calls[i].kind /\ calls'[i].photo = calls[i].photo
               /\ calls'[i].order = calls[i].order
<1>1. CASE calls[i].by = "other" /\ at \in {"served", "failed"}
  <2>1. calls' = [calls EXCEPT ![i] = Done]
    BY <1>1 DEF Goes, CallsTyped
  <2> QED
    BY <1>1, <2>1, DoneCall, CallWritten
<1>2. CASE ~(calls[i].by = "other" /\ at \in {"served", "failed"})
  <2> DEFINE c == [calls[i] EXCEPT !.at = at]
  <2>1. calls' = [calls EXCEPT ![i] = c]
    BY <1>2 DEF Goes, CallsTyped
  <2>2. calls[i] \in CallType(calls[i].order)
    BY DEF CallsTyped
  <2>3. /\ c \in CallType(calls[i].order)
        /\ c.at = at /\ c.by = calls[i].by /\ c.kind = calls[i].kind
        /\ c.photo = calls[i].photo /\ c.order = calls[i].order
    BY <2>2 DEF CallType
  <2> HIDE DEF c
  <2> QED
    BY <1>2, <2>1, <2>3, CallWritten
<1> QED
  BY <1>1, <1>2

LEMMA FailsSettles ==
  ASSUME CallsTyped, NEW i \in Calls, Active(i), Fails(i)
  PROVE  OneMoves(i)
<1>1. Goes(i, "failed") /\ UNCHANGED server
  BY DEF Fails
<1>2. Finished(i)
  BY <1>1, GoesOn DEF Ats, Finished, Keeps
<1> QED
  BY <1>1, <1>2, GoesOn DEF Ats, OneMoves, Moves, Settles

LEMMA StartMoves ==
  ASSUME CallsTyped, NEW i \in Calls, NEW w \in Callers, NEW k \in Kinds,
         NEW photo \in SUBSET Ids, NEW order, Start(i, w, k, photo, order), UNCHANGED server,
         k = "delete" => \E p \in Ids : photo = {p}, k # "delete" => photo = {},
         w = "page" => k # "upload",
         w \in Loops => /\ k = "upload" /\ batch[w].left > 0
                        /\ \A j \in Calls : calls[j].by # w
  PROVE  OneMoves(i)
<1> DEFINE c == [at |-> "sent", by |-> w, kind |-> k, photo |-> photo, order |-> order]
<1>1. /\ c \in CallType(c.order)
      /\ c.at = "sent" /\ c.by = w /\ c.kind = k /\ c.photo = photo
  BY DEF CallType, Ats
<1>2. calls[i].at = "unused" /\ calls' = [calls EXCEPT ![i] = c]
  BY DEF Start
<1> HIDE DEF c
<1>3. /\ CallsTyped' /\ calls'[i] = c /\ \A j \in Calls : j # i => calls'[j] = calls[j]
  BY <1>1, <1>2, CallWritten
<1>4. Starts(i)
  BY <1>1, <1>2, <1>3 DEF Starts
<1> QED
  BY <1>3, <1>4 DEF OneMoves, Moves

\* The handlers, statement by statement.
LEMMA HandlerMoves ==
  ASSUME ObjectsInv, NEW i \in Calls,
         \/ CountPhotos(i) \/ StoreObject(i) \/ Insert(i) \/ FindRow(i) \/ DeleteRow(i)
         \/ (\E done \in BOOLEAN : Purge(i, done)) \/ CheckOrder(i) \/ PlaceAll(i)
  PROVE  OneMoves(i)
<1>0. CallsTyped
  BY DEF ObjectsInv, Typed
<1> DEFINE p == CHOOSE x \in calls[i].photo : TRUE
<1>1. CASE CountPhotos(i)
  <2>1. Active(i) /\ calls[i].at = "sent" /\ calls[i].kind = "upload"
    BY <1>1 DEF CountPhotos, Active
  <2>2. CASE TooMany(Cardinality(Live(position)))
    BY <1>0, <1>1, <2>1, <2>2, FailsSettles DEF CountPhotos
  <2>3. CASE ~TooMany(Cardinality(Live(position)))
    <3>1. /\ Goes(i, "counted") /\ UNCHANGED <<position, made, store, overtaken>>
          /\ together' = IF Cardinality(Uploading) + 1 > together
                         THEN Cardinality(Uploading) + 1 ELSE together
      BY <1>1, <2>3 DEF CountPhotos
    <3>2. Cardinality(Live(position)) < MaxPhotos
      <4>1. Cardinality(Live(position)) \in Nat
        BY LiveFinite
      <4> QED
        BY <2>3, <4>1, PhotosAssumption DEF TooMany
    <3>3. Counts(i)
      BY <1>0, <2>1, <3>1, <3>2, GoesOn DEF Counts, Advanced, Keeps, Ats
    <3> QED
      BY <1>0, <3>1, <3>3, GoesOn DEF OneMoves, Moves, Ats
  <2> QED
    BY <2>2, <2>3
<1>2. CASE StoreObject(i)
  <2>1. PICK q \in Ids \ (store \cup made) :
          /\ store' = store \cup {q}
          /\ calls' = [calls EXCEPT ![i].at = "stored", ![i].photo = {q},
                                    ![i].order = <<NextPosition>>]
    BY <1>2 DEF StoreObject
  <2>2. calls[i].at = "counted" /\ UNCHANGED <<position, made, history>>
    BY <1>2 DEF StoreObject
  <2> DEFINE c == [calls[i] EXCEPT !.at = "stored", !.photo = {q}, !.order = <<NextPosition>>]
  <2>3. calls[i] \in CallType(calls[i].order)
    BY <1>0 DEF CallsTyped
  <2> DEFINE n == <<NextPosition>>
  <2>4. calls' = [calls EXCEPT ![i] = c]
    BY <2>1
  <2> HIDE DEF n
  <2>5. LET d == [calls[i] EXCEPT !.at = "stored", !.photo = {q}, !.order = n]
        IN  /\ d \in CallType(n) /\ d.order = n /\ d.at = "stored" /\ d.photo = {q}
            /\ d.by = calls[i].by /\ d.kind = calls[i].kind
    BY <2>3 DEF CallType, Ats
  <2>6. /\ c \in CallType(c.order) /\ c.at = "stored" /\ c.photo = {q} /\ c.order = n
        /\ c.by = calls[i].by /\ c.kind = calls[i].kind
    BY <2>5 DEF n
  <2> HIDE DEF c
  <2>7. CallsTyped' /\ calls'[i] = c /\ \A j \in Calls : j # i => calls'[j] = calls[j]
    BY <1>0, <2>4, <2>6, CallWritten
  <2>8. Stores(i)
    BY <2>1, <2>2, <2>6, <2>7 DEF Stores, Advanced, n
  <2> QED
    BY <2>7, <2>8 DEF OneMoves, Moves
<1>3. CASE Insert(i)
  <2>1. calls[i].at = "stored" /\ Active(i)
    BY <1>3 DEF Insert, Active
  <2>2. PICK q \in store \ made : calls[i].photo = {q}
    BY <2>1 DEF ObjectsInv, PhotoOfCall
  <2>3. p = q /\ q \in Ids
    BY <2>2 DEF ObjectsInv, Typed, TablesTyped
  <2>4. CASE \E x \in Live(position) : position[x] = calls[i].order[1]
    BY <1>0, <1>3, <2>1, <2>4, FailsSettles DEF Insert
  <2>5. CASE ~\E x \in Live(position) : position[x] = calls[i].order[1]
    <3>1. /\ position' = [position EXCEPT ![q] = calls[i].order[1]]
          /\ made' = made \cup {q}
          /\ overtaken' = overtaken \cup {x \in {q} : \E j \in Calls : calls[j].at = "checked"}
          /\ Goes(i, "served") /\ UNCHANGED <<store, together>>
      BY <1>3, <2>3, <2>5 DEF Insert
    <3>2. Finished(i)
      BY <1>0, <2>1, <3>1, GoesOn DEF Finished, Ats, Keeps
    <3>3. Inserts(i)
      BY <2>1, <2>2, <2>3, <3>1, <3>2 DEF Inserts
    <3> QED
      BY <1>0, <3>1, <3>3, GoesOn DEF OneMoves, Moves, Ats
  <2> QED
    BY <2>4, <2>5
<1>4. CASE DeleteRow(i)
  <2>1. calls[i].at = "found"
    BY <1>4 DEF DeleteRow
  <2>2. PICK q \in made : calls[i].photo = {q}
    BY <2>1 DEF ObjectsInv, PhotoOfCall
  <2>3. /\ position' = [x \in Ids |-> IF x = q THEN Gone ELSE position[x]]
        /\ Goes(i, "deleted") /\ UNCHANGED <<made, store, history>>
    BY <1>4, <2>2 DEF DeleteRow
  <2>4. Advanced(i, "found", "deleted") /\ calls'[i].photo = {q}
    BY <1>0, <2>1, <2>2, <2>3, GoesOn DEF Advanced, Ats
  <2> QED
    BY <1>0, <2>2, <2>3, <2>4, GoesOn DEF OneMoves, Moves, DeletesRow, Ats
<1>8. CASE FindRow(i)
  <2>1. calls[i].at = "sent" /\ calls[i].kind = "delete" /\ Active(i)
    BY <1>8 DEF FindRow, Active
  <2>2. CASE ~(calls[i].photo \subseteq Live(position))
    BY <1>0, <1>8, <2>1, <2>2, FailsSettles DEF FindRow
  <2>3. CASE calls[i].photo \subseteq Live(position)
    <3>1. Goes(i, "found") /\ UNCHANGED server
      BY <1>8, <2>3 DEF FindRow
    <3>2. Advanced(i, "sent", "found") /\ Keeps(i)
      BY <1>0, <2>1, <3>1, GoesOn DEF Advanced, Keeps, Ats
    <3> QED
      BY <1>0, <2>1, <2>3, <3>1, <3>2, GoesOn DEF OneMoves, Moves, Finds, Ats
  <2> QED
    BY <2>2, <2>3
<1>5. ASSUME NEW done \in BOOLEAN, Purge(i, done) PROVE OneMoves(i)
  <2>1. /\ calls[i].at = "deleted" /\ Goes(i, "served")
        /\ store' \in {store, store \ calls[i].photo}
        /\ UNCHANGED <<position, made, history>>
    BY <1>5 DEF Purge, RowGone
  <2>2. Finished(i)
    BY <1>0, <2>1, GoesOn DEF Finished, Active, Ats, Keeps
  <2> QED
    BY <1>0, <2>1, <2>2, GoesOn DEF OneMoves, Moves, Purges, Ats
<1>6. CASE CheckOrder(i)
  <2>1. calls[i].at = "sent" /\ calls[i].kind = "reorder" /\ Active(i)
    BY <1>6 DEF CheckOrder, Active
  <2>2. CASE calls[i].order \notin SetToSeqs(Live(position))
    BY <1>0, <1>6, <2>1, <2>2, FailsSettles DEF CheckOrder
  <2>3. CASE calls[i].order \in SetToSeqs(Live(position))
    <3>1. Goes(i, "checked") /\ UNCHANGED server
      BY <1>6, <2>3 DEF CheckOrder
    <3>2. Advanced(i, "sent", "checked") /\ Keeps(i) /\ calls'[i].order = calls[i].order
      BY <1>0, <2>1, <3>1, GoesOn DEF Advanced, Keeps, Ats
    <3> QED
      BY <1>0, <2>1, <2>3, <3>1, <3>2, GoesOn DEF OneMoves, Moves, Checks, Ats
  <2> QED
    BY <2>2, <2>3
<1>7. CASE PlaceAll(i)
  <2>1. calls[i].at = "checked" /\ Active(i)
    BY <1>7 DEF PlaceAll, Active
  <2>2. CASE Fails(i)
    BY <1>0, <2>1, <2>2, FailsSettles
  <2>3. CASE position' = Placed(calls[i].order) /\ Goes(i, "served")
               /\ UNCHANGED <<made, store, history>>
    <3>1. Finished(i)
      BY <1>0, <2>1, <2>3, GoesOn DEF Finished, Ats, Keeps
    <3> QED
      BY <1>0, <2>1, <2>3, <3>1, GoesOn DEF OneMoves, Moves, Places, Ats
  <2> QED
    BY <1>7, <2>2, <2>3 DEF PlaceAll
<1> QED
  BY <1>1, <1>2, <1>3, <1>4, <1>5, <1>6, <1>7, <1>8

\* Every step moves one request, or none and leaves the tables.
LEMMA StepMoves ==
  ASSUME ObjectsInv, [Next]_vars
  PROVE  UNCHANGED <<calls, server>> \/ \E i \in Calls : OneMoves(i)
<1>0. CallsTyped
  BY DEF ObjectsInv, Typed
<1>1. ASSUME NEW i \in Calls, NEW l \in Loops, UploadNext(i, l) PROVE OneMoves(i)
  <2>1. /\ Start(i, l, "upload", {}, <<>>) /\ UNCHANGED server
        /\ batch[l].left > 0 /\ \A j \in Calls : calls[j].by # l
    BY <1>1 DEF UploadNext
  <2> QED
    BY <1>0, <2>1, StartMoves, PhotosAssumption DEF Callers, Kinds
<1>2. ASSUME NEW i \in Calls, NEW p \in Ids, DeletePhoto(i, p) PROVE OneMoves(i)
  <2>1. Start(i, "page", "delete", {p}, <<>>) /\ UNCHANGED server
    BY <1>2 DEF DeletePhoto
  <2> QED
    BY <1>0, <2>1, StartMoves, PhotosAssumption DEF Callers, Kinds
<1>3. ASSUME NEW i \in Calls, NEW from, NEW to, Drag(i, from, to)
      PROVE  UNCHANGED <<calls, server>> \/ OneMoves(i)
  <2>1. UNCHANGED server
    BY <1>3 DEF Drag
  <2>2. UNCHANGED calls \/ \E order : Start(i, "page", "reorder", {}, order)
    BY <1>3 DEF Drag
  <2> QED
    BY <1>0, <2>1, <2>2, StartMoves, PhotosAssumption DEF Callers, Kinds
<1>4. ASSUME NEW i \in Calls, OtherWindow(i) PROVE OneMoves(i)
  <2>1. UNCHANGED server
    BY <1>4 DEF OtherWindow
  <2>2. CASE Start(i, "other", "upload", {}, <<>>)
    BY <1>0, <2>1, <2>2, StartMoves, PhotosAssumption DEF Callers, Kinds
  <2>3. ASSUME NEW p \in Live(position), Start(i, "other", "delete", {p}, <<>>)
        PROVE  OneMoves(i)
    <3>1. p \in Ids
      BY DEF Live
    <3> QED
      BY <1>0, <2>1, <2>3, <3>1, StartMoves, PhotosAssumption DEF Callers, Kinds
  <2>4. ASSUME NEW order, Start(i, "other", "reorder", {}, order) PROVE OneMoves(i)
    BY <1>0, <2>1, <2>4, StartMoves, PhotosAssumption DEF Callers, Kinds
  <2> QED
    BY <1>4, <2>2, <2>3, <2>4 DEF OtherWindow
<1>5. ASSUME NEW i \in Calls, Reply(i) PROVE OneMoves(i)
  <2>1. Active(i) /\ calls' = [calls EXCEPT ![i] = Done] /\ UNCHANGED server
    BY <1>5 DEF Reply, Heard, Active
  <2>2. CallsTyped' /\ calls'[i] = Done /\ \A j \in Calls : j # i => calls'[j] = calls[j]
    BY <1>0, <2>1, DoneCall, CallWritten
  <2> QED
    BY <2>1, <2>2, DoneCall DEF OneMoves, Moves, Settles, Finished
<1>6. ASSUME NEW i \in Calls, Die(i) PROVE OneMoves(i)
  <2>1. Active(i) /\ Goes(i, "failed") /\ UNCHANGED server
    BY <1>6 DEF Die, Active
  <2>2. Finished(i)
    BY <1>0, <2>1, GoesOn DEF Finished, Ats, Keeps
  <2> QED
    BY <1>0, <2>1, <2>2, GoesOn DEF OneMoves, Moves, Settles, Ats
<1>7. ASSUME NEW i \in Calls, Lose(i) PROVE OneMoves(i)
  <2> DEFINE c == [calls[i] EXCEPT !.by = "other"]
  <2>1. /\ Active(i) /\ calls[i].at \notin {"served", "failed"}
        /\ calls' = [calls EXCEPT ![i] = c] /\ UNCHANGED server
    BY <1>7 DEF Lose, Heard, Active
  <2>2. calls[i] \in CallType(calls[i].order)
    BY <1>0 DEF CallsTyped
  <2>3. /\ c \in CallType(c.order)
        /\ c.at = calls[i].at /\ c.by = "other" /\ c.kind = calls[i].kind
        /\ c.photo = calls[i].photo /\ c.order = calls[i].order
    BY <2>2 DEF CallType, Callers
  <2> HIDE DEF c
  <2>4. CallsTyped' /\ calls'[i] = c /\ \A j \in Calls : j # i => calls'[j] = calls[j]
    BY <1>0, <2>1, <2>3, CallWritten
  <2> QED
    BY <2>1, <2>3, <2>4 DEF OneMoves, Moves, Loses
<1>8. CASE \/ \E l \in Loops, n \in 1..2 : ChooseFiles(l, n)
           \/ CloseForm \/ (\E old \in BOOLEAN : OpenForm(old))
           \/ Answer \/ Receive \/ FailRead \/ UNCHANGED vars
  BY <1>8 DEF ChooseFiles, CloseForm, OpenForm, Answer, Receive, FailRead, vars, server, history
<1> QED
  BY <1>1, <1>2, <1>3, <1>4, <1>5, <1>6, <1>7, <1>8, HandlerMoves DEF Next
-----------------------------------------------------------------------------
LEMMA InitObjects == Init => ObjectsInv
<1> SUFFICES ASSUME Init PROVE ObjectsInv
  OBVIOUS
<1>1. Unused \in CallType(Unused.order) /\ Unused.at = "unused"
  BY DEF Unused, CallType, Ats, Callers, Kinds
<1>2. \A i \in Calls : calls[i] = Unused
  BY DEF Init
<1>3. CallsTyped /\ PhotoOfCall /\ OwnObject
  <2> HIDE DEF Unused
  <2> QED
    BY <1>1, <1>2 DEF Init, CallsTyped, PhotoOfCall, OwnObject
<1>4. TablesTyped /\ RowsKept
  BY DEF Init, TablesTyped, RowsKept, Live
<1> QED
  BY <1>3, <1>4 DEF ObjectsInv, Typed

\* An object outlives its row, and an upload's object is its own: what the purge of a
\* deleted photo removes belongs to no row and to no upload.
LEMMA ObjectsKept == ObjectsInv /\ [Next]_vars => ObjectsInv'
<1> SUFFICES ASSUME ObjectsInv, [Next]_vars PROVE ObjectsInv'
  OBVIOUS
<1> USE DEF server, history
<1>1. CASE UNCHANGED <<calls, server>>
  BY <1>1 DEF ObjectsInv, Typed, CallsTyped, TablesTyped, PhotoOfCall, OwnObject, RowsKept, Live
<1>2. ASSUME NEW i \in Calls, OneMoves(i) PROVE ObjectsInv'
  <2>1. CallsTyped' /\ \A j \in Calls : j # i => calls'[j] = calls[j]
    BY <1>2 DEF OneMoves
  <2> USE DEF ObjectsInv, Typed, TablesTyped, PhotoOfCall, OwnObject, RowsKept
  <2>2. CASE Settles(i) \/ Starts(i) \/ Counts(i) \/ Finds(i) \/ Checks(i)
    <3>1. /\ UNCHANGED <<position, made, store, overtaken>>
          /\ calls'[i].at \in {"served", "failed", "done", "sent", "counted", "found", "checked"}
          /\ (calls'[i].at = "sent" /\ calls'[i].kind = "delete" => \E p \in Ids : calls'[i].photo = {p})
      BY <2>2 DEF Settles, Finished, Starts, Counts, Finds, Checks, Advanced
    <3>2. calls'[i].at = "found" => \E p \in made : calls'[i].photo = {p}
      BY <2>2 DEF Settles, Finished, Starts, Counts, Finds, Checks, Advanced, Keeps
    <3> QED
      BY <2>1, <3>1, <3>2 DEF Live
  <2>8. CASE Loses(i)
    <3>1. /\ UNCHANGED server /\ calls'[i].at = calls[i].at
          /\ calls'[i].kind = calls[i].kind /\ calls'[i].photo = calls[i].photo
      BY <2>8 DEF Loses
    <3>2. \A j \in Calls : /\ calls'[j].at = calls[j].at /\ calls'[j].kind = calls[j].kind
                          /\ calls'[j].photo = calls[j].photo
      BY <2>1, <3>1
    <3> QED
      BY <2>1, <3>1, <3>2 DEF Live
  <2>3. CASE Stores(i)
    <3>1. PICK p \in Ids \ (store \cup made) : store' = store \cup {p} /\ calls'[i].photo = {p}
      BY <2>3 DEF Stores
    <3>2. calls'[i].at = "stored" /\ UNCHANGED <<position, made, overtaken>>
      BY <2>3 DEF Stores, Advanced
    <3>3. TablesTyped' /\ RowsKept'
      BY <3>1, <3>2 DEF Live
    <3>4. PhotoOfCall'
      BY <2>1, <3>1, <3>2 DEF Live
    <3>5. \A j \in Calls : j # i /\ calls'[j].at = "stored" => calls'[j].photo # {p}
      BY <2>1, <3>1
    <3>6. OwnObject'
      BY <2>1, <3>1, <3>5
    <3> QED
      BY <2>1, <3>3, <3>4, <3>6
  <2>4. CASE Inserts(i)
    <3>1. PICK p \in Ids : /\ calls[i].photo = {p} /\ made' = made \cup {p}
                           /\ \E n : position' = [position EXCEPT ![p] = n]
                           /\ overtaken' \subseteq overtaken \cup {p}
      BY <2>4 DEF Inserts
    <3>2. calls[i].at = "stored" /\ calls'[i].at \in {"served", "failed", "done"} /\ store' = store
      BY <2>4 DEF Inserts, Finished
    <3>3. p \in store \ made
      BY <3>1, <3>2
    <3>4. /\ position' = [q \in Ids |-> position'[q]]
          /\ \A q \in Ids : q # p => position'[q] = position[q]
      BY <3>1
    <3>5. Live(position)' \subseteq Live(position) \cup {p}
      BY <3>4 DEF Live
    <3>6. TablesTyped' /\ RowsKept'
      BY <3>1, <3>2, <3>3, <3>4, <3>5
    <3>7. PhotoOfCall'
      <4>1. ASSUME NEW j \in Calls, calls'[j].at = "stored"
            PROVE  \E q \in store' \ made' : calls'[j].photo = {q}
        <5>1. j # i /\ calls[j].at = "stored" /\ calls'[j].photo = calls[j].photo
          BY <2>1, <3>2, <4>1
        <5>2. PICK q \in store \ made : calls[j].photo = {q}
          BY <5>1
        <5>3. calls[j].photo # calls[i].photo
          BY <3>2, <5>1
        <5>4. q # p
          BY <3>1, <5>2, <5>3
        <5> QED
          BY <3>1, <3>2, <5>1, <5>2, <5>4
      <4>2. ASSUME NEW j \in Calls, calls'[j].at = "deleted"
            PROVE  \E q \in made' \ Live(position)' : calls'[j].photo = {q}
        <5>1. j # i /\ calls[j].at = "deleted" /\ calls'[j].photo = calls[j].photo
          BY <2>1, <3>2, <4>2
        <5>2. PICK q \in made \ Live(position) : calls[j].photo = {q}
          BY <5>1
        <5> QED
          BY <3>1, <3>3, <3>5, <5>1, <5>2
      <4>3. \A j \in Calls : calls'[j].at \in {"sent", "found"} => j # i
        BY <3>2
      <4>4. \A j \in Calls : calls'[j].at = "found" => \E q \in made' : calls'[j].photo = {q}
        BY <2>1, <3>1, <4>3
      <4> QED
        BY <2>1, <4>1, <4>2, <4>3, <4>4
    <3>8. OwnObject'
      BY <2>1, <3>2
    <3> QED
      BY <2>1, <3>6, <3>7, <3>8
  <2>5. CASE DeletesRow(i)
    <3>1. PICK p \in made : /\ calls'[i].photo = {p}
                           /\ position' = [q \in Ids |-> IF q = p THEN Gone ELSE position[q]]
      BY <2>5 DEF DeletesRow
    <3>2. calls'[i].at = "deleted" /\ UNCHANGED <<made, store, overtaken>>
      BY <2>5 DEF DeletesRow, Advanced
    <3>3. position' = [q \in Ids |-> position'[q]] /\ Live(position)' = Live(position) \ {p}
      BY <3>1 DEF Live
    <3>4. TablesTyped' /\ RowsKept'
      BY <3>2, <3>3
    <3>5. PhotoOfCall'
      BY <2>1, <3>1, <3>2, <3>3
    <3>6. OwnObject'
      BY <2>1, <3>2
    <3> QED
      BY <2>1, <3>4, <3>5, <3>6
  <2>6. CASE Purges(i)
    <3>1. /\ calls[i].at = "deleted" /\ calls'[i].at \in {"served", "failed", "done"}
          /\ store' \in {store, store \ calls[i].photo}
          /\ UNCHANGED <<position, made, overtaken>>
      BY <2>6 DEF Purges, Finished
    <3>2. PICK p \in made \ Live(position) : calls[i].photo = {p}
      BY <3>1
    <3>3. store' = store \/ store' = store \ {p}
      BY <3>1, <3>2
    <3>4. TablesTyped' /\ RowsKept'
      BY <3>1, <3>2, <3>3 DEF Live
    <3>5. PhotoOfCall'
      BY <2>1, <3>1, <3>2, <3>3 DEF Live
    <3>6. OwnObject'
      BY <2>1, <3>1
    <3> QED
      BY <2>1, <3>4, <3>5, <3>6
  <2>7. CASE Places(i)
    <3>1. /\ calls'[i].at \in {"served", "failed", "done"}
          /\ position' = Placed(calls[i].order)
          /\ UNCHANGED <<made, store, overtaken>>
      BY <2>7 DEF Places, Finished
    <3>2. position' = [q \in Ids |-> position'[q]] /\ Live(position)' \subseteq Live(position)
      BY <3>1 DEF Placed, Parked, Live
    <3>3. TablesTyped' /\ RowsKept'
      BY <3>1, <3>2
    <3>4. PhotoOfCall'
      BY <2>1, <3>1, <3>2
    <3>5. OwnObject'
      BY <2>1, <3>1
    <3> QED
      BY <2>1, <3>3, <3>4, <3>5
  <2> QED
    BY <1>2, <2>2, <2>3, <2>4, <2>5, <2>6, <2>7, <2>8 DEF OneMoves, Moves
<1> QED
  BY <1>1, <1>2, StepMoves

\* The objects, the photos of the requests and the rows fit together in every state: each
\* upload has an object of its own until its row is there, each purge the object of a
\* deleted row (listings.go:570-588, 634-645).
THEOREM ObjectsInvariant == Spec => []ObjectsInv
BY InitObjects, ObjectsKept, PTL DEF Spec

\* A photo on the listing has its object, whenever an upload, a delete or a purge stops,
\* and however many of them overlap (listings.go:570-588, 634-645).
THEOREM NoBrokenImage == Spec => []RowsHaveObjects
<1>1. ObjectsInv => RowsHaveObjects
  BY DEF ObjectsInv, RowsKept, RowsHaveObjects
<1> QED
  BY <1>1, ObjectsInvariant, PTL
-----------------------------------------------------------------------------
(* The limit. *)

LEMMA InitLimit == Init => LimitInv
<1> SUFFICES ASSUME Init PROVE LimitInv
  OBVIOUS
<1>1. \A i \in Calls : calls[i].at = "unused"
  BY DEF Init, Unused
<1>2. Uploading = {} /\ together = 1
  BY <1>1 DEF Init, Uploading
<1>3. PICK n \in {MaxPhotos - 1, MaxPhotos} : position = [p \in Ids |-> IF p <= n THEN p ELSE Gone]
  BY DEF Init
<1>4. IsFiniteSet(1..n) /\ Cardinality(1..n) <= MaxPhotos
  <2>1. n \in Int /\ 0 <= n /\ n <= MaxPhotos
    BY <1>3, PhotosAssumption
  <2>2. IsFiniteSet(1..n) /\ Cardinality(1..n) = IF 1 > n THEN 0 ELSE n - 1 + 1
    BY <2>1, FS_Interval
  <2> QED
    BY <2>1, <2>2, PhotosAssumption
<1>5. Live(position) \in SUBSET (1..n)
  <2>1. \A p \in Ids : p \in Nat \ {0}
    BY PhotosAssumption DEF Ids
  <2> QED
    BY <1>3, <2>1, PhotosAssumption DEF Live
<1>6. Cardinality(Live(position)) <= MaxPhotos
  BY <1>4, <1>5, FS_Subset, FS_CardinalityType, PhotosAssumption
<1> QED
  BY <1>2, <1>6, LiveFinite, FS_EmptySet, PhotosAssumption DEF LimitInv

\* A count adds an upload, an insert a row for its own upload, and no other step adds
\* either.
LEMMA LimitMoved ==
  ASSUME ObjectsInv, LimitInv, NEW i \in Calls, OneMoves(i)
  PROVE  LimitInv'
<1>0. \A j \in Calls : j # i => calls'[j] = calls[j]
  BY DEF OneMoves
<1>1. /\ IsFiniteSet(Live(position)) /\ Cardinality(Live(position)) \in Nat
      /\ IsFiniteSet(Uploading) /\ Cardinality(Uploading) \in Nat
      /\ together \in Nat \ {0} /\ Cardinality(Uploading) <= together
      /\ Cardinality(Live(position)) + Cardinality(Uploading) <= MaxPhotos + together - 1
  BY LiveFinite, FS_CardinalityType DEF LimitInv
<1>2. CASE Counts(i)
  <2>1. /\ Cardinality(Live(position)) < MaxPhotos /\ Live(position)' = Live(position)
        /\ together' = IF Cardinality(Uploading) + 1 > together
                       THEN Cardinality(Uploading) + 1 ELSE together
    BY <1>2 DEF Counts, Live
  <2>2. Uploading' = Uploading \cup {i} /\ i \notin Uploading
    BY <1>0, <1>2 DEF Counts, Advanced, Uploading
  <2>3. IsFiniteSet(Uploading') /\ Cardinality(Uploading') = Cardinality(Uploading) + 1
    BY <1>1, <2>2, FS_AddElement
  <2> QED
    BY <1>1, <2>1, <2>3, PhotosAssumption DEF LimitInv
<1>3. CASE Inserts(i)
  <2>1. PICK p \in Ids : \E n : position' = [position EXCEPT ![p] = n]
    BY <1>3 DEF Inserts
  <2>2. Live(position)' \in SUBSET (Live(position) \cup {p})
    BY <2>1 DEF ObjectsInv, Typed, TablesTyped, Live
  <2>3. /\ Cardinality(Live(position)') \in Nat
        /\ Cardinality(Live(position)') <= Cardinality(Live(position)) + 1
    <3>1. /\ IsFiniteSet(Live(position) \cup {p})
          /\ Cardinality(Live(position) \cup {p}) <= Cardinality(Live(position)) + 1
      BY <1>1, FS_AddElement
    <3>2. /\ Cardinality(Live(position)') <= Cardinality(Live(position) \cup {p})
          /\ Cardinality(Live(position) \cup {p}) \in Nat
          /\ Cardinality(Live(position)') \in Nat
      BY <2>2, <3>1, FS_Subset, FS_CardinalityType
    <3> QED
      BY <1>1, <3>1, <3>2
  <2>4. calls[i].at = "stored" /\ calls'[i].at \in {"served", "failed", "done"}
    BY <1>3 DEF Inserts, Finished
  <2>5. i \in Uploading /\ Uploading' = Uploading \ {i} /\ together' = together
    BY <1>0, <1>3, <2>4 DEF Uploading, Inserts
  <2>6. IsFiniteSet(Uploading') /\ Cardinality(Uploading') = Cardinality(Uploading) - 1
    BY <1>1, <2>5, FS_RemoveElement
  <2> QED
    BY <1>1, <2>3, <2>5, <2>6, PhotosAssumption DEF LimitInv
<1>4. CASE ~Counts(i) /\ ~Inserts(i)
  <2>1. Live(position)' \in SUBSET Live(position) /\ together' = together
    BY <1>4 DEF OneMoves, Moves, Settles, Starts, Stores, Finds, DeletesRow, Purges, Checks,
                Places, Loses, server, history, Live, Placed, Parked, ObjectsInv, Typed,
                TablesTyped
  <2>2. calls'[i].at \in {"counted", "stored"} => calls[i].at \in {"counted", "stored"}
    BY <1>4 DEF OneMoves, Moves, Settles, Starts, Stores, Finds, DeletesRow, Purges, Checks,
                Places, Loses, Finished, Advanced
  <2>3. Uploading' \in SUBSET Uploading
    BY <1>0, <2>2 DEF Uploading
  <2>4. /\ Cardinality(Live(position)') \in Nat /\ IsFiniteSet(Uploading')
        /\ Cardinality(Uploading') \in Nat
        /\ Cardinality(Live(position)') <= Cardinality(Live(position))
        /\ Cardinality(Uploading') <= Cardinality(Uploading)
    BY <1>1, <2>1, <2>3, FS_Subset, FS_CardinalityType
  <2> QED
    BY <1>1, <2>1, <2>4, PhotosAssumption DEF LimitInv
<1> QED
  BY <1>2, <1>3, <1>4

LEMMA LimitKept == ObjectsInv /\ LimitInv /\ [Next]_vars => LimitInv'
<1> SUFFICES ASSUME ObjectsInv, LimitInv, [Next]_vars PROVE LimitInv'
  OBVIOUS
<1>1. CASE UNCHANGED <<calls, server>>
  <2>1. Uploading' = Uploading /\ Live(position)' = Live(position) /\ together' = together
    BY <1>1 DEF Uploading, server, history, Live
  <2> QED
    BY <2>1 DEF LimitInv
<1>2. ASSUME NEW i \in Calls, OneMoves(i) PROVE LimitInv'
  BY <1>2, LimitMoved
<1> QED
  BY <1>1, <1>2, StepMoves

\* A listing passes the limit by no more photos than there ever were uploads beside another
\* one between its count and its row, from however many windows, closed forms and given-up
\* requests they come, and whatever is deleted, refused or lost (listings.go:522-588).
THEOREM LimitPassedByOverlap == Spec => []OverByOverlapOnly
<1>1. LimitInv => OverByOverlapOnly
  BY LiveFinite, FS_CardinalityType, PhotosAssumption DEF LimitInv, OverByOverlapOnly
<1> QED
  BY <1>1, InitObjects, ObjectsKept, InitLimit, LimitKept, PTL DEF Spec
-----------------------------------------------------------------------------
(* What a reorder leaves parked. *)

\* A list that has each photo of a set once has all of them.
LEMMA EachOnce ==
  ASSUME NEW L \in SUBSET Ids, NEW order \in SetToSeqs(L)
  PROVE  /\ DOMAIN order = 1..Cardinality(L) /\ L \subseteq Range(order)
<1>1. IsFiniteSet(L) /\ Cardinality(L) \in Nat
  <2>1. IsFiniteSet(Ids)
    BY PhotosAssumption, FS_Interval DEF Ids
  <2> QED
    BY <2>1, FS_Subset, FS_CardinalityType
<1>2. order \in Injection(1..Cardinality(L), L)
  BY DEF SetToSeqs, Injection, IsInjective
<1>3. Cardinality(1..Cardinality(L)) = Cardinality(L)
  <2>1. Cardinality(1..Cardinality(L)) = IF 1 > Cardinality(L) THEN 0 ELSE Cardinality(L) - 1 + 1
    BY <1>1, FS_Interval
  <2> QED
    BY <1>1, <2>1
<1>4. order \in Surjection(1..Cardinality(L), L)
  BY <1>1, <1>2, <1>3, FS_Injection
<1> QED
  BY <1>4 DEF Surjection, Range

LEMMA InitOrdered == Init => Ordered
BY DEF Init, Unused, Ordered

LEMMA OrderedKept == ObjectsInv /\ Ordered /\ [Next]_vars => Ordered'
<1> SUFFICES ASSUME ObjectsInv, Ordered, [Next]_vars PROVE Ordered'
  OBVIOUS
<1>1. CASE UNCHANGED <<calls, server>>
  BY <1>1 DEF Ordered, server, history, Live
<1>2. ASSUME NEW i \in Calls, OneMoves(i), NEW j \in Calls, calls'[j].at = "checked"
      PROVE  \E L \in SUBSET Ids :
               calls'[j].order \in SetToSeqs(L) /\ Live(position)' \subseteq L \cup overtaken'
  <2>1. \A k \in Calls : k # i => calls'[k] = calls[k]
    BY <1>2 DEF OneMoves
  <2>2. CASE j = i /\ ~Loses(i)
    <3>1. calls'[i].order \in SetToSeqs(Live(position)) /\ UNCHANGED server
      BY <1>2, <2>2 DEF OneMoves, Moves, Settles, Starts, Counts, Stores, Inserts,
                              Finds, DeletesRow, Purges, Checks, Places, Finished, Advanced
    <3> QED
      BY <2>2, <3>1 DEF server, history, Live
  <2>3. CASE j # i \/ Loses(i)
    <3>1. calls'[j].order = calls[j].order /\ calls[j].at = "checked"
      BY <1>2, <2>1, <2>3 DEF Loses
    <3>2. PICK L \in SUBSET Ids :
            calls[j].order \in SetToSeqs(L) /\ Live(position) \subseteq L \cup overtaken
      BY <3>1 DEF Ordered
    <3>3. CASE Inserts(i)
      <4>1. PICK p \in Ids : /\ \E n : position' = [position EXCEPT ![p] = n]
                             /\ overtaken' = overtaken \cup
                                  {q \in {p} : \E k \in Calls : calls[k].at = "checked"}
        BY <3>3 DEF Inserts
      <4>2. overtaken' = overtaken \cup {p}
        BY <3>1, <4>1
      <4>3. Live(position)' \subseteq Live(position) \cup {p}
        BY <4>1 DEF ObjectsInv, Typed, TablesTyped, Live
      <4> QED
        BY <3>1, <3>2, <4>2, <4>3
    <3>4. CASE ~Inserts(i)
      <4>1. Live(position)' \subseteq Live(position) /\ overtaken' = overtaken
        BY <1>2, <3>4
           DEF OneMoves, Moves, Settles, Starts, Counts, Stores, Finds, DeletesRow, Purges,
               Checks, Places, Loses, server, history, Live, Placed, Parked, ObjectsInv, Typed,
               TablesTyped
      <4> QED
        BY <3>1, <3>2, <4>1
    <3> QED
      BY <3>3, <3>4
  <2> QED
    BY <2>2, <2>3
<1>3. ASSUME NEW i \in Calls, OneMoves(i) PROVE Ordered'
  BY <1>2, <1>3 DEF Ordered
<1> QED
  BY <1>1, <1>3, StepMoves

\* A reorder gives every row of its list a place from 1 up.
LEMMA PlacedFromOne ==
  ASSUME NEW L \in SUBSET Ids, NEW order \in SetToSeqs(L), NEW p \in L \cap Live(position)
  PROVE  Placed(order)[p] \in 1..Cardinality(L)
<1>1. DOMAIN order = 1..Cardinality(L) /\ p \in Range(order)
  BY EachOnce
<1>2. \E n \in DOMAIN order : order[n] = p
  BY <1>1 DEF Range
<1>3. (CHOOSE n \in DOMAIN order : order[n] = p) \in DOMAIN order
  BY <1>2
<1>4. Placed(order)[p] = CHOOSE n \in DOMAIN order : order[n] = p
  BY <1>1 DEF Placed
<1> QED
  BY <1>1, <1>3, <1>4

\* Of the rows a reorder finds, only one that was inserted after its check is left at
\* a position that is not one from 1 up (listings.go:691-751).
THEOREM ReorderParksOnlyOvertaken == Spec => ParkedOnlyOvertaken
<1>1. ASSUME ObjectsInv, Ordered, [Next]_vars,
             NEW p \in Live(position) \cap Live(position)', position[p] > 0, ~(position'[p] > 0)
      PROVE  p \in overtaken
  <2>1. position' # position
    <3> SUFFICES ASSUME position' = position PROVE FALSE
      OBVIOUS
    <3> QED
      BY <1>1
  <2>2. PICK i \in Calls : OneMoves(i)
    BY <1>1, <2>1, StepMoves DEF server
  <2>3. CASE Inserts(i)
    <3>1. PICK q \in Ids : /\ calls[i].photo = {q} /\ calls[i].at = "stored"
                           /\ \E n : position' = [position EXCEPT ![q] = n]
      BY <2>3 DEF Inserts
    <3>2. q \notin made
      BY <1>1, <3>1 DEF ObjectsInv, PhotoOfCall
    <3>3. p # q
      BY <1>1, <3>2 DEF ObjectsInv, RowsKept
    <3> QED
      BY <1>1, <3>1, <3>3 DEF ObjectsInv, Typed, TablesTyped, Live
  <2>4. CASE Places(i)
    <3>1. calls[i].at = "checked" /\ position' = Placed(calls[i].order)
      BY <2>4 DEF Places
    <3>2. PICK L \in SUBSET Ids :
            calls[i].order \in SetToSeqs(L) /\ Live(position) \subseteq L \cup overtaken
      BY <1>1, <3>1 DEF Ordered
    <3>3. ASSUME p \in L PROVE FALSE
      <4>1. position'[p] \in 1..Cardinality(L)
        BY <1>1, <3>1, <3>2, <3>3, PlacedFromOne
      <4> QED
        BY <1>1, <4>1
    <3> QED
      BY <1>1, <3>2, <3>3
  <2>5. CASE ~Inserts(i) /\ ~Places(i)
    <3>1. DeletesRow(i)
      BY <2>1, <2>2, <2>5 DEF OneMoves, Moves, Settles, Starts, Counts, Stores, Finds, Purges,
                              Checks, Loses, server
    <3>2. PICK q : position' = [x \in Ids |-> IF x = q THEN Gone ELSE position[x]]
      BY <3>1 DEF DeletesRow
    <3> QED
      BY <1>1, <3>2 DEF ObjectsInv, Typed, TablesTyped, Live
  <2> QED
    BY <2>3, <2>4, <2>5
<1>2. ObjectsInv /\ Ordered /\ [Next]_vars =>
        [\A p \in Live(position) \cap Live(position)' :
           position[p] > 0 => position'[p] > 0 \/ p \in overtaken]_vars
  BY <1>1
<1> QED
  BY <1>2, InitObjects, ObjectsKept, InitOrdered, OrderedKept, PTL DEF Spec, ParkedOnlyOvertaken
-----------------------------------------------------------------------------
(* The types of the tables and of the requests. *)

\* A finite table has a row that no other is behind: of the sets of rows without one,
\* the least would have one once a row of it is taken away.
LEMMA LastRow ==
  ASSUME \A p \in Live(position) : position[p] \in Int, Live(position) # {}
  PROVE  \E p \in Live(position) : \A q \in Live(position) : position[q] <= position[p]
<1> DEFINE S == Live(position)
           HasLast(W) == \E p \in W : \A q \in W : position[q] <= position[p]
           T == {W \in SUBSET S : W # {} /\ ~HasLast(W)}
<1> SUFFICES ASSUME ~HasLast(S) PROVE FALSE
  OBVIOUS
<1>1. IsWellFoundedOn(StrictSubsetOrdering(S), FiniteSubsetsOf(S))
  BY FS_StrictSubsetOrderingWellFounded
<1>2. S \in T
  OBVIOUS
<1>3. T \subseteq FiniteSubsetsOf(S)
  BY LiveFinite, FS_Subset DEF FiniteSubsetsOf
<1>4. PICK W \in T : \A V \in T : <<V, W>> \notin StrictSubsetOrdering(S)
  <2> HIDE DEF T, S
  <2> QED
    BY <1>1, <1>2, <1>3, WFMin
<1>5. PICK x \in W : TRUE
  BY <1>4
<1>6. W \ {x} \notin T
  BY <1>4, <1>5 DEF StrictSubsetOrdering
<1>7. CASE W \ {x} = {}
  <2>1. \A q \in W : position[q] <= position[x]
    BY <1>4, <1>5, <1>7
  <2> QED
    BY <1>4, <1>5, <2>1
<1>8. CASE HasLast(W \ {x})
  <2>1. PICK y \in W \ {x} : \A q \in W \ {x} : position[q] <= position[y]
    BY <1>8
  <2>2. \A q \in W : position[q] \in Int
    BY <1>4
  <2>3. CASE position[x] <= position[y]
    BY <1>4, <1>5, <2>1, <2>3
  <2>4. CASE ~(position[x] <= position[y])
    <3>1. \A q \in W : position[q] <= position[x]
      BY <1>5, <2>1, <2>2, <2>4
    <3> QED
      BY <1>4, <1>5, <3>1
  <2> QED
    BY <2>3, <2>4
<1> QED
  BY <1>4, <1>6, <1>7, <1>8

LEMMA NextIsNumber ==
  ASSUME \A p \in Live(position) : position[p] \in Int
  PROVE  NextPosition \in Int
<1>1. CASE Live(position) = {}
  BY <1>1 DEF NextPosition
<1>2. CASE Live(position) # {}
  <2> DEFINE P == {position[p] : p \in Live(position)}
             n == CHOOSE m \in P : \A p \in Live(position) : position[p] <= m
  <2>1. \E m \in P : \A p \in Live(position) : position[p] <= m
    BY <1>2, LastRow
  <2>2. n \in P
    BY <2>1
  <2>3. NextPosition = 1 + n
    BY <1>2 DEF NextPosition
  <2> QED
    BY <2>2, <2>3
<1> QED
  BY <1>1, <1>2

\* Of a request: it is about one photo at most, and one that a checked or served request
\* is about was made.
Numbered ==
  /\ \A p \in Live(position) : position[p] \in Int
  /\ \A i \in Calls : calls[i].at = "stored" => calls[i].order[1] \in Int

AboutOne ==
  \A i \in Calls :
    /\ calls[i].photo = {} \/ \E p \in Ids : calls[i].photo = {p}
    /\ calls[i].at = "sent" /\ calls[i].kind # "delete" => calls[i].photo = {}
    /\ calls[i].at \in {"checked", "served"} => calls[i].photo \subseteq made

RowsInv == Numbered /\ AboutOne /\ overtaken \subseteq made

LEMMA InitRows == Init => RowsInv
<1> SUFFICES ASSUME Init PROVE RowsInv
  OBVIOUS
<1>1. \A p \in Live(position) : position[p] \in Int
  BY PhotosAssumption DEF Init, Live, Ids
<1>2. \A i \in Calls : calls[i].at = "unused" /\ calls[i].photo = {}
  BY DEF Init, Unused
<1> QED
  BY <1>1, <1>2 DEF Init, RowsInv, Numbered, AboutOne

LEMMA NumberedKept ==
  ASSUME ObjectsInv, Ordered, Numbered, NEW i \in Calls, OneMoves(i)
  PROVE  Numbered'
<1>1. \A j \in Calls : j # i => calls'[j] = calls[j]
  BY DEF OneMoves
<1>2. CASE Settles(i) \/ Starts(i) \/ Counts(i) \/ Finds(i) \/ Checks(i) \/ Purges(i)
  <2>1. position' = position /\ calls'[i].at # "stored"
    BY <1>2 DEF Settles, Finished, Starts, Counts, Finds, Checks, Purges, Advanced, server
  <2> QED
    BY <1>1, <2>1 DEF Numbered, Live
<1>3. CASE Stores(i)
  <2>1. position' = position /\ calls'[i].order = <<NextPosition>>
    BY <1>3 DEF Stores
  <2>2. calls'[i].order[1] = NextPosition
    <3> HIDE DEF NextPosition
    <3> QED
      BY <2>1
  <2>3. NextPosition \in Int
    BY NextIsNumber DEF Numbered
  <2> QED
    BY <1>1, <2>1, <2>2, <2>3 DEF Numbered, Live
<1>4. CASE Inserts(i)
  <2>1. PICK p \in Ids : position' = [position EXCEPT ![p] = calls[i].order[1]]
    BY <1>4 DEF Inserts
  <2>2. calls[i].order[1] \in Int /\ calls'[i].at # "stored"
    BY <1>4 DEF Inserts, Finished, Numbered
  <2> QED
    BY <1>1, <2>1, <2>2 DEF Numbered, Live, ObjectsInv, Typed, TablesTyped
<1>5. CASE DeletesRow(i)
  <2>1. \E p : position' = [q \in Ids |-> IF q = p THEN Gone ELSE position[q]]
    BY <1>5 DEF DeletesRow
  <2>2. calls'[i].at # "stored"
    BY <1>5 DEF DeletesRow, Advanced
  <2> QED
    BY <1>1, <2>1, <2>2 DEF Numbered, Live, ObjectsInv, Typed, TablesTyped
<1>6. CASE Places(i)
  <2>1. /\ position' = Placed(calls[i].order) /\ calls'[i].at # "stored"
        /\ calls[i].at = "checked"
    BY <1>6 DEF Places, Finished
  <2>2. PICK L \in SUBSET Ids : calls[i].order \in SetToSeqs(L)
    BY <2>1 DEF Ordered
  <2> DEFINE order == calls[i].order
  <2>3. DOMAIN order \subseteq Int
    <3>1. DOMAIN order = 1..Cardinality(L)
      BY <2>2, EachOnce
    <3>2. IsFiniteSet(Ids)
      BY PhotosAssumption, FS_Interval DEF Ids
    <3>3. Cardinality(L) \in Nat
      BY <3>2, FS_Subset, FS_CardinalityType
    <3> QED
      BY <3>1, <3>3
  <2>4. ASSUME NEW p \in Live(position)' PROVE position'[p] \in Int
    <3>1. p \in Ids /\ position'[p] # Gone
      BY <2>4 DEF Live
    <3>2. CASE p \in Range(order) \cap Live(position)
      <4>1. position'[p] = CHOOSE n \in DOMAIN order : order[n] = p
        BY <2>1, <3>1, <3>2 DEF Placed
      <4>2. \E n \in DOMAIN order : order[n] = p
        BY <3>2 DEF Range
      <4> QED
        BY <2>3, <4>1, <4>2
    <3>3. CASE p \notin Range(order) \cap Live(position)
      <4>1. position'[p] = Parked[p]
        BY <2>1, <3>1, <3>3 DEF Placed
      <4>2. p \in Live(position) /\ position'[p] = -position[p]
        BY <3>1, <4>1 DEF Parked
      <4> QED
        BY <4>2 DEF Numbered
    <3> QED
      BY <3>2, <3>3
  <2> QED
    BY <1>1, <2>1, <2>4 DEF Numbered
<1>7. CASE Loses(i)
  <2>1. /\ position' = position /\ calls'[i].at = calls[i].at
        /\ calls'[i].order = calls[i].order
    BY <1>7 DEF Loses, server
  <2> QED
    BY <1>1, <2>1 DEF Numbered, Live
<1> QED
  BY <1>2, <1>3, <1>4, <1>5, <1>6, <1>7 DEF OneMoves, Moves

LEMMA AboutOneKept ==
  ASSUME ObjectsInv, AboutOne, overtaken \subseteq made, NEW i \in Calls, OneMoves(i)
  PROVE  AboutOne' /\ overtaken' \subseteq made' /\ made \subseteq made'
<1>1. /\ \A j \in Calls : j # i => calls'[j] = calls[j]
      /\ CallsTyped'
  BY DEF OneMoves
<1>2. made \subseteq made' /\ overtaken' \subseteq made'
  BY DEF OneMoves, Moves, Settles, Starts, Counts, Stores, Inserts, Finds, DeletesRow, Purges,
         Checks, Places, Loses, server, history
<1>3. calls'[i].photo = {} \/ \E p \in Ids : calls'[i].photo = {p}
  <2>1. CASE Finished(i) \/ Counts(i) \/ Finds(i) \/ Checks(i) \/ Loses(i)
    BY <2>1 DEF Finished, Keeps, Counts, Finds, Checks, Loses, AboutOne
  <2>2. CASE Starts(i)
    BY <2>2 DEF Starts
  <2>3. CASE Stores(i) \/ DeletesRow(i)
    BY <2>3 DEF Stores, DeletesRow, ObjectsInv, Typed, TablesTyped
  <2> QED
    BY <2>1, <2>2, <2>3 DEF OneMoves, Moves, Settles, Inserts, Purges, Places
<1>4. calls'[i].at = "sent" /\ calls'[i].kind # "delete" => calls'[i].photo = {}
  BY DEF OneMoves, Moves, Settles, Starts, Counts, Stores, Inserts, Finds, DeletesRow, Purges,
         Checks, Places, Loses, Finished, Advanced, AboutOne
<1>5. ASSUME calls'[i].at \in {"checked", "served"} PROVE calls'[i].photo \subseteq made'
  <2>1. CASE \/ Settles(i) \/ Starts(i) \/ Counts(i) \/ Stores(i) \/ Finds(i)
             \/ DeletesRow(i)
    BY <1>5, <2>1 DEF Settles, Finished, Starts, Counts, Stores, Finds, DeletesRow, Advanced
  <2>2. CASE Checks(i)
    BY <2>2 DEF Checks, Advanced, Keeps, AboutOne
  <2>3. CASE Finished(i) /\ calls[i].photo \subseteq made'
    BY <2>3 DEF Finished, Keeps
  <2>4. Inserts(i) \/ Purges(i) \/ Places(i) => Finished(i) /\ calls[i].photo \subseteq made'
    BY <1>2 DEF Inserts, Purges, Places, AboutOne, ObjectsInv, PhotoOfCall
  <2>5. CASE Loses(i)
    BY <1>2, <1>5, <2>5 DEF Loses, AboutOne
  <2> QED
    BY <2>1, <2>2, <2>3, <2>4, <2>5 DEF OneMoves, Moves
<1> QED
  BY <1>1, <1>2, <1>3, <1>4, <1>5 DEF AboutOne

LEMMA RowsInvKept == ObjectsInv /\ Ordered /\ RowsInv /\ [Next]_vars => RowsInv'
<1> SUFFICES ASSUME ObjectsInv, Ordered, RowsInv, [Next]_vars PROVE RowsInv'
  OBVIOUS
<1>1. CASE UNCHANGED <<calls, server>>
  BY <1>1 DEF RowsInv, Numbered, AboutOne, server, history, Live
<1>2. ASSUME NEW i \in Calls, OneMoves(i) PROVE RowsInv'
  BY <1>2, NumberedKept, AboutOneKept DEF RowsInv
<1> QED
  BY <1>1, <1>2, StepMoves
-----------------------------------------------------------------------------
(* The page: its entry of the cache, its batches of files, its answers. *)

\* What an answer may list: photos with their positions; and a batch.
Lists == SUBSET (Ids \X Int)
Batches == [left : 0..MaxPhotos, up : SUBSET made, mine : BOOLEAN]

PageTyped ==
  /\ entry \in Entries(Lists) /\ open \in BOOLEAN
  /\ batch \in [Loops -> Batches]

\* A loop has one file under way at a time, one of those it has left; an answer is for
\* somebody who waits.
FilesLeft ==
  /\ \A i \in Calls :
       /\ calls[i].by \in Loops => calls[i].kind = "upload" /\ batch[calls[i].by].left > 0
       /\ calls[i].by = "page" => calls[i].kind # "upload"
       /\ calls[i].at \in {"served", "failed"} => calls[i].by # "other"
  /\ \A i, j \in Calls : calls[i].by = calls[j].by /\ calls[i].by \in Loops => i = j

PageInv == PageTyped /\ FilesLeft

\* The list is stale, is asked for, or has every photo of the batches that ended; and so
\* has an answer that is under way.
Has(data) == shown \cap Live(position) \subseteq {f[1] : f \in data}

Arriving ==
  /\ Settled(entry) => Has(entry.data)
  /\ entry.at = "answered" => entry.got = Refused \/ Has(entry.got)

ArriveInv == shown \subseteq made /\ Arriving

LEMMA EntrySteps ==
  ASSUME NEW e \in Entries(Lists)
  PROVE  /\ Asked(e) \in Entries(Lists) /\ Asked(e).at = "asked"
         /\ Invalidated(e, TRUE) \in Entries(Lists)
         /\ Invalidated(e, TRUE).at = "asked"
         /\ Invalidated(e, FALSE) \in Entries(Lists)
         /\ Invalidated(e, FALSE).at = e.at /\ Invalidated(e, FALSE).got = e.got
         /\ Invalidated(e, FALSE).stale
         /\ \A a \in Lists \cup {Refused} : Answered(e, a) \in Entries(Lists)
         /\ Received(e) \in Entries(Lists) /\ Received(e).at = "idle"
         /\ Received(e).stale = (e.got = Refused)
         /\ e.got # Refused => Received(e).data = e.got
<1> DEFINE E == Entries(Lists)
<1>0. {} \in Lists
  BY DEF Lists
<1>1. \A f \in E : Asked(f) \in E /\ Asked(f).at = "asked"
  BY <1>0 DEF Entries, Asked
<1>2. /\ [e EXCEPT !.stale = TRUE] \in E /\ [e EXCEPT !.stale = TRUE].at = e.at
      /\ [e EXCEPT !.stale = TRUE].got = e.got /\ [e EXCEPT !.stale = TRUE].stale
  BY DEF Entries
<1>3. Invalidated(e, TRUE) \in E /\ Invalidated(e, TRUE).at = "asked"
  BY <1>1, <1>2 DEF Invalidated
<1>6. Invalidated(e, FALSE) = [e EXCEPT !.stale = TRUE]
  BY DEF Invalidated
<1>4. \A a \in Lists \cup {Refused} : Answered(e, a) \in E
  BY DEF Entries, Answered
<1>5. /\ Received(e) \in E /\ Received(e).at = "idle"
      /\ Received(e).stale = (e.got = Refused)
      /\ e.got # Refused => Received(e).data = e.got
  <2> DEFINE d == IF e.got = Refused THEN e.data ELSE e.got
             b == (e.got = Refused)
  <2>1. /\ d \in Lists \cup {Unloaded} /\ b \in BOOLEAN
        /\ e.got # Refused => d = e.got
    BY <1>0 DEF Entries
  <2>2. Received(e) = [e EXCEPT !.data = d, !.stale = b, !.at = "idle", !.got = {}]
    BY DEF Received
  <2> HIDE DEF d, b
  <2>3. /\ Received(e) \in E /\ Received(e).at = "idle"
        /\ Received(e).stale = b /\ Received(e).data = d
    BY <2>1, <2>2 DEF Entries
  <2> QED
    BY <2>1, <2>3 DEF b
<1> QED
  BY <1>1, <1>2, <1>3, <1>4, <1>5, <1>6

LEMMA AnsweredSteps ==
  ASSUME NEW e \in Entries(Lists), NEW a \in Lists \cup {Refused}
  PROVE  Answered(e, a).at = "answered" /\ Answered(e, a).got = a
BY DEF Entries, Answered

LEMMA ShownOfIds ==
  ASSUME PageTyped
  PROVE  Cardinality(Shown) \in Nat
<1>1. Known \in Lists
  BY DEF PageTyped, Known, Loaded, Entries, Lists
<1>2. ServerPhotos \subseteq Ids
  BY <1>1 DEF ServerPhotos, Lists
<1>3. Shown \in SUBSET Ids
  BY <1>2 DEF Shown
<1>4. IsFiniteSet(Ids)
  BY PhotosAssumption, FS_Interval DEF Ids
<1> QED
  BY <1>3, <1>4, FS_Subset, FS_CardinalityType

\* What a step does to the page.
LEMMA PageSteps ==
  ASSUME [Next]_vars
  PROVE  \/ UNCHANGED <<entry, open, batch, shown>>
         \/ \E i \in Calls : Reply(i) \/ Lose(i)
         \/ \E l \in Loops, n \in 1..2 : ChooseFiles(l, n)
         \/ CloseForm \/ (\E old \in BOOLEAN : OpenForm(old))
         \/ Answer \/ Receive \/ FailRead
<1>1. ASSUME NEW i \in Calls,
             \/ CountPhotos(i) \/ StoreObject(i) \/ Insert(i)
             \/ FindRow(i) \/ DeleteRow(i) \/ (\E done \in BOOLEAN : Purge(i, done))
             \/ CheckOrder(i) \/ PlaceAll(i)
      PROVE  UNCHANGED <<entry, open, batch, shown>>
  BY <1>1 DEF CountPhotos, StoreObject, Insert, FindRow, DeleteRow, Purge, CheckOrder,
              PlaceAll, Fails, page
<1>2. ASSUME NEW i \in Calls,
             \/ (\E l \in Loops : UploadNext(i, l)) \/ (\E p \in Ids : DeletePhoto(i, p))
             \/ (\E from, to \in 1..Cardinality(Ids) : Drag(i, from, to))
             \/ OtherWindow(i) \/ Die(i)
      PROVE  UNCHANGED <<entry, open, batch, shown>>
  BY <1>2 DEF UploadNext, DeletePhoto, Drag, OtherWindow, Die, page
<1>3. CASE UNCHANGED vars
  BY <1>3 DEF vars
<1> QED
  BY <1>1, <1>2, <1>3 DEF Next

\* What invalidating the list does, on screen and off.
Refreshed(e) ==
  /\ e \in Entries(Lists)
  /\ \/ open /\ e.at = "asked"
     \/ ~open /\ e.stale /\ e.at = entry.at /\ e.got = entry.got

LEMMA InvalidatedRefreshes ==
  ASSUME PageTyped
  PROVE  Refreshed(Invalidated(entry, open))
<1>1. entry \in Entries(Lists) /\ open \in BOOLEAN
  BY DEF PageTyped
<1>2. CASE open
  <2>1. open = TRUE
    BY <1>1, <1>2
  <2>2. Invalidated(entry, open) \in Entries(Lists) /\ Invalidated(entry, open).at = "asked"
    BY <1>1, <2>1, EntrySteps
  <2> QED
    BY <1>2, <2>2 DEF Refreshed
<1>3. CASE ~open
  <2>1. open = FALSE
    BY <1>1, <1>3
  <2>2. /\ Invalidated(entry, open) \in Entries(Lists) /\ Invalidated(entry, open).stale
        /\ Invalidated(entry, open).at = entry.at /\ Invalidated(entry, open).got = entry.got
    BY <1>1, <2>1, EntrySteps
  <2> QED
    BY <1>3, <2>2 DEF Refreshed
<1> QED
  BY <1>2, <1>3

\* What an answer, or the loss of one, does to the page: it ends a batch or goes on with
\* it, and only a batch that ended with a photo up is to be shown.
LEMMA HeardSteps ==
  ASSUME PageInv, NEW i \in Calls, calls[i].by \in Callers \ {"other"},
         NEW ok \in BOOLEAN, Heard(i, ok), ok => calls[i].photo \subseteq made
  PROVE  /\ UNCHANGED <<server, open>> /\ batch' \in [Loops -> Batches]
         /\ \A l \in Loops : batch'[l] = batch[l] \/ calls[i].by = l
         /\ \/ UNCHANGED <<entry, shown>>
            \/ /\ Refreshed(entry')
               /\ \/ shown' = shown
                  \/ /\ \E l \in Loops, photo \in SUBSET made :
                            shown' = shown \cup batch[l].up \cup photo
                     /\ open \/ entry.at = "idle"
<1>1. batch \in [Loops -> Batches] /\ UNCHANGED <<server, open>>
  BY DEF PageInv, PageTyped, Heard
<1>2. CASE calls[i].kind # "upload"
  <2>1. batch' = batch /\ shown' = shown
    BY <1>2 DEF Heard
  <2>2. entry' = entry \/ entry' = Invalidated(entry, open)
    BY <1>2 DEF Heard
  <2> QED
    BY <1>1, <2>1, <2>2, InvalidatedRefreshes DEF PageInv
<1>3. CASE calls[i].kind = "upload"
  <2> DEFINE l == calls[i].by
             b == IF ok THEN [batch[l] EXCEPT !.left = @ - 1, !.up = @ \cup calls[i].photo]
                  ELSE batch[l]
  <2>1. l \in Loops /\ batch[l].left > 0
    BY <1>3 DEF PageInv, FilesLeft, Callers
  <2>2. batch[l] \in Batches
    BY <1>1, <2>1
  <2>3. /\ b \in Batches /\ NoBatch \in Batches
        /\ \E photo \in SUBSET made : b.up = batch[l].up \cup photo
    <3>1. NoBatch \in Batches
      BY PhotosAssumption DEF NoBatch, Batches
    <3>2. CASE ok
      <4>1. /\ batch[l].left - 1 \in 0..MaxPhotos
            /\ batch[l].up \cup calls[i].photo \in SUBSET made
        BY <2>1, <2>2, <3>2, PhotosAssumption DEF Batches
      <4>2. b = [batch[l] EXCEPT !.left = @ - 1, !.up = @ \cup calls[i].photo]
        BY <3>2
      <4>3. b \in Batches /\ b.up = batch[l].up \cup calls[i].photo
        <5> HIDE DEF b, l
        <5> QED
          BY <2>2, <4>1, <4>2 DEF Batches
      <4> QED
        BY <3>1, <3>2, <4>3
    <3>3. CASE ~ok
      <4>1. b.up = batch[l].up \cup {}
        BY <3>3
      <4> QED
        BY <2>2, <3>1, <3>3, <4>1
    <3> QED
      BY <3>2, <3>3
  <2>4. \/ batch' = [batch EXCEPT ![l] = b] /\ UNCHANGED <<entry, shown>>
        \/ /\ batch' = [batch EXCEPT ![l] = NoBatch] /\ entry' = Ended(b, entry)
           /\ shown' = IF open \/ entry.at = "idle" THEN shown \cup b.up ELSE shown
    BY <1>3 DEF Heard, ReplyUpload
  <2> HIDE DEF b, l
  <2>5. /\ batch' \in [Loops -> Batches]
        /\ \A k \in Loops : batch'[k] = batch[k] \/ l = k
    BY <1>1, <2>1, <2>3, <2>4
  <2>6. CASE b.up = {}
    BY <1>1, <2>4, <2>5, <2>6 DEF Ended, l
  <2>7. CASE b.up # {}
    <3>1. Ended(b, entry) = Invalidated(entry, open)
      BY <2>7 DEF Ended
    <3> QED
      BY <1>1, <2>1, <2>3, <2>4, <2>5, <3>1, InvalidatedRefreshes DEF PageInv, l
  <2> QED
    BY <2>6, <2>7
<1> QED
  BY <1>2, <1>3

\* The same of the two steps that hear something.
LEMMA ReplySteps ==
  ASSUME ObjectsInv, RowsInv, PageInv, NEW i \in Calls, Reply(i) \/ Lose(i)
  PROVE  /\ calls[i].by # "other" /\ calls'[i].by = "other"
         /\ calls'[i].at \notin {"served", "failed"}
         /\ \A j \in Calls : j # i => calls'[j] = calls[j]
         /\ \E ok \in BOOLEAN : Heard(i, ok) /\ (ok => calls[i].photo \subseteq made)
<1>0. CallsTyped
  BY DEF ObjectsInv, Typed
<1>1. CASE Reply(i)
  <2>1. calls[i].at \in {"served", "failed"} /\ calls' = [calls EXCEPT ![i] = Done]
    BY <1>1 DEF Reply
  <2>2. calls'[i] = Done /\ \A j \in Calls : j # i => calls'[j] = calls[j]
    BY <1>0, <2>1, DoneCall, CallWritten
  <2>3. Heard(i, calls[i].at = "served") /\ (calls[i].at = "served") \in BOOLEAN
    BY <1>1 DEF Reply
  <2>4. calls[i].at = "served" => calls[i].photo \subseteq made
    BY DEF RowsInv, AboutOne
  <2> QED
    BY <2>1, <2>2, <2>3, <2>4, DoneCall DEF PageInv, FilesLeft
<1>2. CASE Lose(i)
  <2> DEFINE c == [calls[i] EXCEPT !.by = "other"]
  <2>1. /\ calls[i].by # "other" /\ calls[i].at \notin {"served", "failed"}
        /\ calls' = [calls EXCEPT ![i] = c] /\ Heard(i, FALSE)
    BY <1>2 DEF Lose
  <2>2. calls[i] \in CallType(calls[i].order)
    BY <1>0 DEF CallsTyped
  <2>3. c \in CallType(c.order) /\ c.by = "other" /\ c.at = calls[i].at
    BY <2>2 DEF CallType, Callers
  <2> HIDE DEF c
  <2>4. calls'[i] = c /\ \A j \in Calls : j # i => calls'[j] = calls[j]
    BY <1>0, <2>1, <2>3, CallWritten
  <2> QED
    BY <2>1, <2>3, <2>4
<1> QED
  BY <1>1, <1>2

LEMMA ChoiceSteps ==
  ASSUME PageTyped, NEW l \in Loops, NEW n \in 1..2, ChooseFiles(l, n)
  PROVE  /\ batch' \in [Loops -> Batches]
         /\ \A k \in Loops : batch'[k] = batch[k] \/ batch'[k].left > 0
<1>1. Cardinality(Shown) \in Nat
  BY ShownOfIds
<1> DEFINE remaining == MaxPhotos - Cardinality(Shown)
           m == IF n < remaining THEN n ELSE remaining
           b == [left |-> m, up |-> {}, mine |-> TRUE]
<1>2. remaining > 0 /\ batch' = [batch EXCEPT ![l] = b]
  BY DEF ChooseFiles
<1>3. m \in 0..MaxPhotos /\ m > 0
  BY <1>1, <1>2, PhotosAssumption
<1> HIDE DEF m
<1>4. b \in Batches /\ b.left > 0
  BY <1>3 DEF Batches
<1> HIDE DEF b
<1> QED
  BY <1>2, <1>4 DEF PageTyped

LEMMA InitPage == Init => PageInv /\ ArriveInv
<1> SUFFICES ASSUME Init PROVE PageInv /\ ArriveInv
  OBVIOUS
<1>1. \A i \in Calls : calls[i].at = "unused" /\ calls[i].by = "other"
  BY DEF Init, Unused
<1>2. Empty \in Entries(Lists)
  BY DEF Empty, Entries
<1>3. entry \in Entries(Lists) /\ entry.at = "asked"
  BY <1>2, EntrySteps DEF Init
<1>4. NoBatch \in Batches
  BY PhotosAssumption DEF NoBatch, Batches
<1>5. batch \in [Loops -> Batches] /\ open \in BOOLEAN /\ shown = {}
  BY <1>4 DEF Init
<1> QED
  BY <1>1, <1>3, <1>5, PhotosAssumption
     DEF PageInv, PageTyped, FilesLeft, ArriveInv, Arriving, Settled

LEMMA FactsListed ==
  ASSUME Numbered
  PROVE  Facts \in Lists /\ {f[1] : f \in Facts} = Live(position)
<1>1. \A p \in Live(position) : <<p, position[p]>> \in Ids \X Int
  BY DEF Numbered, Live
<1>2. Facts \in Lists
  BY <1>1 DEF Facts, Lists
<1>3. \A p \in Live(position) : <<p, position[p]>> \in Facts /\ <<p, position[p]>>[1] = p
  BY DEF Facts
<1>4. \A f \in Facts : f[1] \in Live(position)
  BY DEF Facts
<1>5. Live(position) \subseteq {f[1] : f \in Facts}
  BY <1>3
<1>6. {f[1] : f \in Facts} \subseteq Live(position)
  BY <1>4
<1> QED
  BY <1>2, <1>5, <1>6

LEMMA PageTypedKept ==
  ASSUME ObjectsInv, RowsInv, PageInv, [Next]_vars
  PROVE  PageTyped'
<1>1. entry \in Entries(Lists) /\ open \in BOOLEAN /\ batch \in [Loops -> Batches]
  BY DEF PageInv, PageTyped
<1>2. made \subseteq made'
  BY StepMoves, AboutOneKept DEF RowsInv, server
<1>3. batch \in [Loops -> Batches']
  <2>1. Batches \subseteq Batches'
    BY <1>2 DEF Batches
  <2> QED
    BY <1>1, <2>1
<1>4. CASE UNCHANGED <<entry, open, batch, shown>>
  BY <1>1, <1>3, <1>4 DEF PageTyped
<1>5. ASSUME NEW i \in Calls, Reply(i) \/ Lose(i) PROVE PageTyped'
  <2>1. calls[i].by \in Callers \ {"other"}
    BY <1>5, ReplySteps DEF ObjectsInv, Typed, CallsTyped, CallType
  <2>2. /\ batch' \in [Loops -> Batches] /\ UNCHANGED <<server, open>>
        /\ entry' \in Entries(Lists)
    BY <1>1, <1>5, <2>1, ReplySteps, HeardSteps DEF Refreshed
  <2>3. Batches' = Batches
    BY <2>2 DEF Batches, server
  <2> QED
    BY <1>1, <2>2, <2>3 DEF PageTyped
<1>6. ASSUME NEW l \in Loops, NEW n \in 1..2, ChooseFiles(l, n) PROVE PageTyped'
  <2>1. UNCHANGED <<entry, open, made>>
    BY <1>6 DEF ChooseFiles, server
  <2>2. batch' \in [Loops -> Batches]
    BY <1>6, ChoiceSteps DEF PageInv
  <2> QED
    BY <1>1, <2>1, <2>2 DEF PageTyped, Batches
<1>7. CASE CloseForm
  <2>1. /\ open' = FALSE /\ UNCHANGED <<entry, made>>
        /\ batch' = [l \in Loops |-> [batch[l] EXCEPT !.mine = FALSE]]
    BY <1>7 DEF CloseForm, server
  <2>2. batch' \in [Loops -> Batches]
    BY <1>1, <2>1 DEF Batches
  <2> QED
    BY <1>1, <2>1, <2>2 DEF PageTyped, Batches
<1>8. ASSUME NEW old \in BOOLEAN, OpenForm(old) PROVE PageTyped'
  <2>1. entry' \in Entries(Lists)
    BY <1>1, <1>8, EntrySteps DEF OpenForm, Mounted
  <2> QED
    BY <1>3, <1>8, <2>1 DEF OpenForm, PageTyped
<1>9. CASE Answer
  <2>1. Facts \in Lists
    BY FactsListed DEF RowsInv
  <2>2. entry' \in Entries(Lists)
    BY <1>1, <1>9, <2>1, EntrySteps DEF Answer
  <2> QED
    BY <1>1, <1>3, <1>9, <2>2 DEF Answer, PageTyped
<1>10. CASE Receive
  BY <1>1, <1>3, <1>10, EntrySteps DEF Receive, PageTyped
<1>11. CASE FailRead
  BY <1>1, <1>3, <1>11, EntrySteps DEF FailRead, PageTyped
<1> QED
  BY <1>4, <1>5, <1>6, <1>7, <1>8, <1>9, <1>10, <1>11, PageSteps

\* Whom a request that moves belongs to: nobody takes one over.
LEMMA OwnerKept ==
  ASSUME NEW i \in Calls, OneMoves(i)
  PROVE  /\ \/ calls'[i].by = "other" /\ calls'[i].at \notin {"served", "failed"}
            \/ /\ calls'[i].by = calls[i].by /\ calls'[i].kind = calls[i].kind
               /\ calls'[i].at \in {"served", "failed"} => calls'[i].by # "other"
            \/ Starts(i)
<1>1. CASE Finished(i)
  BY <1>1 DEF Finished, Keeps
<1>2. CASE Counts(i) \/ Stores(i) \/ Finds(i) \/ DeletesRow(i) \/ Checks(i)
  BY <1>2 DEF Counts, Stores, Finds, DeletesRow, Checks, Advanced
<1>3. CASE Loses(i)
  BY <1>3 DEF Loses
<1>4. \/ Finished(i) \/ Starts(i) \/ Loses(i)
      \/ Counts(i) \/ Stores(i) \/ Finds(i) \/ DeletesRow(i) \/ Checks(i)
  BY DEF OneMoves, Moves, Settles, Inserts, Purges, Places
<1> QED
  BY <1>1, <1>2, <1>3, <1>4

\* A request that moves stays one of the files of its loop.
LEMMA FilesMoved ==
  ASSUME FilesLeft, NEW i \in Calls, OneMoves(i), UNCHANGED batch
  PROVE  FilesLeft'
<1>1. \A j \in Calls : j # i => calls'[j] = calls[j]
  BY DEF OneMoves
<1>2. CASE calls'[i].by = "other" /\ calls'[i].at \notin {"served", "failed"}
  BY <1>1, <1>2, PhotosAssumption DEF FilesLeft
<1>3. CASE /\ calls'[i].by = calls[i].by /\ calls'[i].kind = calls[i].kind
           /\ calls'[i].at \in {"served", "failed"} => calls'[i].by # "other"
  BY <1>1, <1>3 DEF FilesLeft
<1>4. CASE Starts(i)
  BY <1>1, <1>4 DEF Starts, FilesLeft
<1> QED
  BY <1>2, <1>3, <1>4, OwnerKept

LEMMA FilesLeftKept ==
  ASSUME ObjectsInv, RowsInv, PageInv, [Next]_vars
  PROVE  FilesLeft'
<1>0. FilesLeft /\ batch \in [Loops -> Batches]
  BY DEF PageInv, PageTyped
<1>1. CASE UNCHANGED batch
  <2>1. CASE UNCHANGED calls
    BY <1>0, <1>1, <2>1 DEF FilesLeft
  <2>2. ASSUME NEW i \in Calls, OneMoves(i) PROVE FilesLeft'
    BY <1>0, <1>1, <2>2, FilesMoved
  <2> QED
    BY <2>1, <2>2, StepMoves
<1>2. ASSUME NEW i \in Calls, Reply(i) \/ Lose(i) PROVE FilesLeft'
  <2>1. /\ calls'[i].by = "other" /\ calls'[i].at \notin {"served", "failed"}
        /\ \A j \in Calls : j # i => calls'[j] = calls[j]
        /\ calls[i].by \in Callers \ {"other"}
    BY <1>2, ReplySteps DEF ObjectsInv, Typed, CallsTyped, CallType
  <2>2. \A l \in Loops : batch'[l] = batch[l] \/ calls[i].by = l
    BY <1>2, <2>1, ReplySteps, HeardSteps
  <2>3. \A j \in Calls : j # i /\ calls[j].by \in Loops => calls[j].by # calls[i].by
    BY <1>0 DEF FilesLeft
  <2> QED
    BY <1>0, <2>1, <2>2, <2>3, PhotosAssumption DEF FilesLeft
<1>3. ASSUME NEW l \in Loops, NEW n \in 1..2, ChooseFiles(l, n) PROVE FilesLeft'
  <2>1. calls' = calls
    BY <1>3 DEF ChooseFiles
  <2>2. \A k \in Loops : batch'[k] = batch[k] \/ batch'[k].left > 0
    BY <1>3, ChoiceSteps DEF PageInv
  <2> QED
    BY <1>0, <2>1, <2>2 DEF FilesLeft
<1>4. CASE CloseForm
  <2>1. calls' = calls /\ batch' = [l \in Loops |-> [batch[l] EXCEPT !.mine = FALSE]]
    BY <1>4 DEF CloseForm
  <2>2. \A l \in Loops : batch'[l].left = batch[l].left
    BY <1>0, <2>1 DEF Batches
  <2> QED
    BY <1>0, <2>1, <2>2 DEF FilesLeft
<1>5. CASE (\E old \in BOOLEAN : OpenForm(old)) \/ Answer \/ Receive \/ FailRead
  BY <1>1, <1>5 DEF OpenForm, Answer, Receive, FailRead
<1> QED
  BY <1>1, <1>2, <1>3, <1>4, <1>5, PageSteps

\* No step brings a row back that the page was told of.
LEMMA ShownRows ==
  ASSUME ObjectsInv, shown \subseteq made, [Next]_vars
  PROVE  /\ shown \cap Live(position)' \subseteq shown \cap Live(position)
         /\ made \subseteq made'
<1>1. CASE UNCHANGED <<calls, server>>
  BY <1>1 DEF server, Live
<1>2. ASSUME NEW i \in Calls, OneMoves(i), Inserts(i)
      PROVE  /\ shown \cap Live(position)' \subseteq shown \cap Live(position)
             /\ made \subseteq made'
  <2>1. PICK p \in Ids : /\ calls[i].photo = {p} /\ calls[i].at = "stored"
                         /\ made' = made \cup {p}
                         /\ position' = [position EXCEPT ![p] = calls[i].order[1]]
    BY <1>2 DEF Inserts
  <2>2. p \notin made
    BY <2>1 DEF ObjectsInv, PhotoOfCall
  <2> QED
    BY <2>1, <2>2 DEF ObjectsInv, Typed, TablesTyped, Live
<1>3. ASSUME NEW i \in Calls, OneMoves(i), ~Inserts(i)
      PROVE  Live(position)' \subseteq Live(position) /\ made' = made
  BY <1>3 DEF OneMoves, Moves, Settles, Starts, Counts, Stores, Finds, DeletesRow, Purges,
              Checks, Places, Loses, server, Live, Placed, Parked, ObjectsInv, Typed, TablesTyped
<1> QED
  BY <1>1, <1>2, <1>3, StepMoves

\* An answer lists what is there, a batch that ends asks for the list or leaves it marked,
\* and no row comes back.
LEMMA ArriveKept ==
  ObjectsInv /\ RowsInv /\ PageInv /\ ArriveInv /\ [Next]_vars => ArriveInv'
<1> SUFFICES ASSUME ObjectsInv, RowsInv, PageInv, ArriveInv, [Next]_vars PROVE ArriveInv'
  OBVIOUS
<1>1. /\ shown \cap Live(position)' \subseteq shown \cap Live(position)
      /\ made \subseteq made'
  BY ShownRows DEF ArriveInv
<1>2. entry \in Entries(Lists) /\ batch \in [Loops -> Batches]
  BY DEF PageInv, PageTyped
<1>3. CASE shown' = shown /\ entry' = entry
  BY <1>1, <1>3 DEF ArriveInv, Arriving, Has
<1>4. ASSUME NEW i \in Calls, Reply(i) \/ Lose(i) PROVE ArriveInv'
  <2>1. calls[i].by \in Callers \ {"other"}
    BY <1>4, ReplySteps DEF ObjectsInv, Typed, CallsTyped, CallType
  <2>2. \/ UNCHANGED <<entry, shown>>
        \/ /\ Refreshed(entry')
           /\ \/ shown' = shown
              \/ /\ \E l \in Loops, photo \in SUBSET made :
                        shown' = shown \cup batch[l].up \cup photo
                 /\ open \/ entry.at = "idle"
    BY <1>4, <2>1, ReplySteps, HeardSteps
  <2>3. shown' \subseteq made'
    BY <1>1, <1>2, <2>2 DEF ArriveInv, Batches
  <2>4. CASE entry'.at = "asked"
    BY <2>3, <2>4 DEF ArriveInv, Arriving, Settled
  <2>5. CASE entry'.stale /\ entry'.at = "idle"
    BY <2>3, <2>5 DEF ArriveInv, Arriving, Settled
  <2>6. CASE shown' = shown /\ entry'.stale /\ entry'.at = entry.at /\ entry'.got = entry.got
    BY <1>1, <2>3, <2>6 DEF ArriveInv, Arriving, Settled, Has
  <2> QED
    BY <1>3, <2>2, <2>4, <2>5, <2>6 DEF Refreshed
<1>5. CASE (\E l \in Loops, n \in 1..2 : ChooseFiles(l, n)) \/ CloseForm
  BY <1>3, <1>5 DEF ChooseFiles, CloseForm
<1>9. ASSUME NEW old \in BOOLEAN, OpenForm(old) PROVE ArriveInv'
  <2>1. shown' = shown /\ (entry' = entry \/ entry'.at = "asked")
    BY <1>2, <1>9, EntrySteps DEF OpenForm, Mounted
  <2>2. CASE entry'.at = "asked"
    BY <1>1, <2>1, <2>2 DEF ArriveInv, Arriving, Settled
  <2> QED
    BY <1>3, <2>1, <2>2
<1>6. CASE Answer
  <2>1. {f[1] : f \in Facts} = Live(position) /\ Facts \in Lists
    BY FactsListed DEF RowsInv
  <2>2. entry' = Answered(entry, Facts) /\ shown' = shown /\ position' = position
    BY <1>6 DEF Answer, server
  <2>3. entry'.at = "answered" /\ entry'.got = Facts
    BY <1>2, <2>1, <2>2, AnsweredSteps
  <2>4. Has(entry.got)'
    BY <2>1, <2>2, <2>3 DEF Has, Live
  <2>5. ~Settled(entry)'
    BY <2>3 DEF Settled
  <2> QED
    BY <1>1, <2>2, <2>4, <2>5 DEF ArriveInv, Arriving
<1>7. CASE Receive
  <2>1. entry.at = "answered" /\ entry' = Received(entry) /\ shown' = shown
    BY <1>7 DEF Receive
  <2>2. /\ entry'.at = "idle" /\ entry'.stale = (entry.got = Refused)
        /\ entry.got # Refused => entry'.data = entry.got
    BY <1>2, <2>1, EntrySteps
  <2>3. ASSUME Settled(entry)' PROVE Has(entry.data)'
    <3>1. entry.got # Refused
      BY <2>2, <2>3 DEF Settled
    <3>2. Has(entry.got) /\ entry'.data = entry.got
      BY <2>1, <2>2, <2>3, <3>1 DEF ArriveInv, Arriving
    <3> QED
      BY <1>1, <2>1, <3>2 DEF Has
  <2> QED
    BY <1>1, <2>1, <2>2, <2>3 DEF ArriveInv, Arriving
<1>8. CASE FailRead
  <2>1. entry' = Answered(entry, Refused) /\ shown' = shown
    BY <1>8 DEF FailRead
  <2>2. entry'.at = "answered" /\ entry'.got = Refused
    BY <1>2, <2>1, AnsweredSteps
  <2> QED
    BY <1>1, <2>1, <2>2 DEF ArriveInv, Arriving, Settled
<1> QED
  BY <1>3, <1>4, <1>5, <1>6, <1>7, <1>8, <1>9, PageSteps
-----------------------------------------------------------------------------
(* All of it, and what follows. *)

PhotosInv ==
  ObjectsInv /\ LimitInv /\ Ordered /\ RowsInv /\ PageInv /\ ArriveInv

LEMMA PhotosInvariant == Spec => []PhotosInv
<1>1. Init => PhotosInv
  BY InitObjects, InitLimit, InitOrdered, InitRows, InitPage DEF PhotosInv
<1>2. PhotosInv /\ [Next]_vars => PhotosInv'
  BY ObjectsKept, LimitKept, OrderedKept, RowsInvKept, PageTypedKept, FilesLeftKept, ArriveKept
     DEF PhotosInv, PageInv
<1> QED
  BY <1>1, <1>2, PTL DEF Spec

\* The rows have positions that are numbers, or are gone; a request is about one photo at
\* most; what the page has of the list, and the files left of its batch, are of their
\* types, whatever the windows do (listings.go:507-751, ListingFormModal.tsx:53-77).
THEOREM PhotoTypes == Spec => []TypeOK
<1>1. ASSUME PhotosInv PROVE TypeOK
  <2>1. position \in [Ids -> Int \cup {Gone}]
    BY <1>1 DEF PhotosInv, ObjectsInv, Typed, TablesTyped, RowsInv, Numbered, Live
  <2>2. /\ Live(position) \subseteq made
        /\ made \subseteq Ids /\ store \subseteq Ids /\ overtaken \subseteq made
    BY <1>1 DEF PhotosInv, ObjectsInv, Typed, TablesTyped, RowsKept, RowsInv
  <2>3. /\ entry \in Entries(SUBSET (Ids \X Int)) /\ open \in BOOLEAN
        /\ batch \in [Loops -> [left : 0..MaxPhotos, up : SUBSET made, mine : BOOLEAN]]
    BY <1>1 DEF PhotosInv, PageInv, PageTyped, Lists, Batches
  <2>4. ASSUME NEW i \in Calls
        PROVE  /\ calls[i].by \in Callers /\ calls[i].kind \in Kinds
               /\ calls[i].photo \subseteq Ids /\ Cardinality(calls[i].photo) <= 1
    <3>1. calls[i] \in CallType(calls[i].order)
      BY <1>1 DEF PhotosInv, ObjectsInv, Typed, CallsTyped
    <3>2. calls[i].photo = {} \/ \E p \in Ids : calls[i].photo = {p}
      BY <1>1 DEF PhotosInv, RowsInv, AboutOne
    <3>3. Cardinality(calls[i].photo) <= 1
      BY <3>2, FS_EmptySet, FS_Singleton
    <3> QED
      BY <3>1, <3>3 DEF CallType
  <2> QED
    BY <2>1, <2>2, <2>3, <2>4 DEF TypeOK
<1> QED
  BY <1>1, PhotosInvariant, PTL

\* The photos of a batch that ended are on the list once it is settled, also when a later
\* file failed or an answer was lost, whatever other windows did and however often the form
\* was closed; but for a batch that ended behind a closed form while its list was read
\* (ListingFormModal.tsx:53-77).
THEOREM UploadsAreShown == Spec => []UploadsArrive
<1>1. PhotosInv => UploadsArrive
  BY DEF PhotosInv, ArriveInv, Arriving, Has, UploadsArrive
<1> QED
  BY <1>1, PhotosInvariant, PTL
=============================================================================
