------------------------------ MODULE Screens -------------------------------
(***************************************************************************)
(* The dashboard of one user, tenant or landlord, over one profile-listing *)
(* pair: what each tab reads into the query cache, which buttons it offers *)
(* from what it read, what a click sends, and which entries the answer     *)
(* invalidates.  Meanwhile the other side, and other windows of the user,  *)
(* change the tables.  A server handler is one step here: Interest.tla has *)
(* its statements.                                                         *)
(***************************************************************************)
EXTENDS QueryCache, Naturals, FiniteSets

CONSTANTS Calls,          \* the clicks of the visit: one mutation each (a bound)
          MaxVisits,      \* tabs opened after the first (a bound)
          MaxEvents       \* steps of others and failures (a bound)

\* All that an answer can say of the pair.
FactNames == {"active", "inactive", "deleted", "draft", "paused", "rented", "photo",
              "open", "sent", "waiting", "listing_rented"}

ASSUME AnswersAssumption == {NoAnswer, Error} \cap FactNames = {}

Roles == {"tenant", "landlord"}
Other(r) == IF r = "tenant" THEN "landlord" ELSE "tenant"
Tabs == {"own", "browse", "incoming", "outgoing", "matched"}
Keys == {"mine", "browse", "incoming", "outgoing", "matched"}
Ops == {"express", "withdraw", "activate", "deactivate", "publish", "pause", "rent", "delete"}

VARIABLES role,       \* whose dashboard it is: RoleGuard lets one role in
          db,         \* the rows of the pair
          tab, cache, \* the tab shown, the query cache
          dialog,     \* the action a dialog holds until it is confirmed, or "none"
          calls,      \* the mutations
          visits, events,      \* counters of the bounds
          behind, late            \* history: see Commit

vars == <<role, db, tab, cache, dialog, calls, visits, events, behind, late>>
-----------------------------------------------------------------------------
(* The tables and the handlers. *)

ProfileStatus == {"active", "inactive", "deleted"}
ListingStatus == {"draft", "active", "paused", "rented", "deleted"}

OwnStatus(d, r) == IF r = "tenant" THEN d.profile ELSE d.listing

\* The checks of a handler, on a row of one's own.
Accepts(d, r, o) ==
  CASE o = "express" -> d.profile = "active" /\ d.listing = "active"
    [] o = "withdraw" -> d.match = "none" /\ OwnStatus(d, r) # "deleted"
    [] o = "publish" -> d.listing # "deleted" /\ d.photo
    [] OTHER -> OwnStatus(d, r) # "deleted"

\* Its writes.
Applied(d, r, o) ==
  CASE o = "express" ->
         [d EXCEPT !.interest[r] = TRUE,
                   !.match = IF d.interest[Other(r)] /\ @ = "none" THEN "active" ELSE @]
    [] o = "withdraw" -> [d EXCEPT !.interest[r] = FALSE]
    [] o = "activate" -> [d EXCEPT !.profile = "active"]
    [] o = "deactivate" -> [d EXCEPT !.profile = "inactive"]
    [] o = "publish" -> [d EXCEPT !.listing = "active"]
    [] o = "pause" -> [d EXCEPT !.listing = "paused"]
    [] o = "rent" -> [d EXCEPT !.listing = "rented",
                               !.match = IF @ = "active" THEN "listing_rented" ELSE @]
    [] o = "delete" /\ r = "tenant" -> [d EXCEPT !.profile = "deleted"]
    [] o = "delete" /\ r = "landlord" -> [d EXCEPT !.listing = "deleted"]

\* NOT EXISTS (an active interest of the other side), in both lists.
Unanswered(d, r) == d.interest[r] /\ ~d.interest[Other(r)]

\* What the query of a key answers.
Facts(d, r, k) ==
  CASE k = "mine" -> ({OwnStatus(d, r)} \ {"deleted"})
                       \cup (IF r = "landlord" /\ d.photo THEN {"photo"} ELSE {})
    [] k = "browse" ->
         IF OwnStatus(d, r) # "active" THEN Refused
         ELSE IF OwnStatus(d, Other(r)) # "active" \/ d.match = "active" THEN {}
         ELSE IF d.interest[r] THEN {"sent"} ELSE {"open"}
    [] k = "incoming" ->
         IF r = "tenant" /\ d.profile = "deleted" THEN Refused
         ELSE IF Unanswered(d, Other(r)) THEN {"waiting"} ELSE {}
    [] k = "outgoing" -> IF Unanswered(d, r) THEN {"sent"} ELSE {}
    [] k = "matched" -> {d.match} \ {"none"}

-----------------------------------------------------------------------------
(* The tabs. *)

\* The browse query waits for an active subject of one's own, and the tenant's
\* incoming lists for the profiles they are expanded under.
BrowseEnabled(c) == "active" \in c["mine"].data
IncomingEnabled(c) == Loaded(c["mine"]) /\ c["mine"].data # {}

\* The queries each tab holds enabled, given what the cache already shows.
TenantReads(t, c) ==
  CASE t = "own" -> {"mine"}
    [] t = "browse" -> {"mine"} \cup {k \in {"browse"} : BrowseEnabled(c)}
    [] t = "incoming" -> {"mine"} \cup {k \in {"incoming"} : IncomingEnabled(c)}
    [] OTHER -> {t}

LandlordReads(t, c) ==
  CASE t = "own" -> {"mine"}
    [] t = "browse" -> {"mine"} \cup {k \in {"browse"} : BrowseEnabled(c)}
    [] OTHER -> {t}

Reads(t, c) == IF role = "tenant" THEN TenantReads(t, c) ELSE LandlordReads(t, c)

Shows(k, fact) == k \in Reads(tab, cache) /\ fact \in cache[k].data

\* isPending of the tab's mutation: a new visit makes a new one.
Pending(o) ==
  \E i \in Calls : calls[i].here /\ calls[i].op = o /\ calls[i].at \in {"sent", "served"}

CanPublish_Bare == Shows("mine", "draft") \/ Shows("mine", "paused")

\* A draft needs a photo to be offered its publication, a paused listing does not.
CanPublish == (Shows("mine", "draft") /\ Shows("mine", "photo")) \/ Shows("mine", "paused")

\* The buttons of each tab, which stay while their mutation is pending unless
\* the page disables them.
MyProfileCard ==
  (IF Shows("mine", "inactive") THEN {"activate"} ELSE {})
    \cup (IF Shows("mine", "active") THEN {"deactivate"} ELSE {})
    \cup (IF IncomingEnabled(cache) THEN {"delete"} ELSE {})

ListingMgmtCard ==
  (IF CanPublish THEN {"publish"} ELSE {})
    \cup (IF Shows("mine", "active") THEN {"pause", "rent"} ELSE {})
    \cup (IF \E st \in ListingStatus : Shows("mine", st) THEN {"delete"} ELSE {})

TenantBrowseTab == IF Shows("browse", "open") THEN {"express"} ELSE {}
LandlordBrowseTab == IF Shows("browse", "open") THEN {"express"} ELSE {}

ProfileIncoming == IF Shows("incoming", "waiting") THEN {"express"} ELSE {}
LandlordIncomingTab ==
  IF Shows("incoming", "waiting") /\ ~Pending("express") THEN {"express"} ELSE {}

TenantOutgoingTab ==
  IF Shows("outgoing", "sent") /\ ~Pending("withdraw") THEN {"withdraw"} ELSE {}
LandlordOutgoingTab ==
  IF Shows("outgoing", "sent") /\ ~Pending("withdraw") THEN {"withdraw"} ELSE {}

Offers ==
  CASE tab = "own" -> IF role = "tenant" THEN MyProfileCard ELSE ListingMgmtCard
    [] tab = "browse" -> IF role = "tenant" THEN TenantBrowseTab ELSE LandlordBrowseTab
    [] tab = "incoming" -> IF role = "tenant" THEN ProfileIncoming ELSE LandlordIncomingTab
    [] tab = "outgoing" -> IF role = "tenant" THEN TenantOutgoingTab ELSE LandlordOutgoingTab
    [] tab = "matched" -> {}

\* A withdrawal and a tenant's deletion always ask first; a card of the tenant's
\* incoming list may be answered in its detail dialog, kept as it was opened.
Confirms == {"withdraw"} \cup (IF role = "tenant" /\ tab = "own" THEN {"delete"} ELSE {})
Details == IF role = "tenant" /\ tab = "incoming" THEN {"express"} ELSE {}

\* The component that holds the dialog is still there.
Holds(o) == o = "withdraw" \/ IncomingEnabled(cache)

AnswerRefreshes_MatchedAlone(matched) == {IF matched THEN "matched" ELSE "incoming"}

\* An answer to an incoming interest; the tenant's looks at its status.
AnswerRefreshes(matched) ==
  {"incoming"} \cup (IF role = "landlord" \/ matched THEN {"matched"} ELSE {})

\* What the onSuccess of a tab's mutations invalidates.
Refreshes(from, matched) ==
  CASE from = "own" -> {"mine"}
    [] from = "browse" -> {"browse"} \cup (IF role = "tenant" THEN {"matched"} ELSE {})
    [] from = "incoming" -> AnswerRefreshes(matched)
    [] from = "outgoing" -> {"outgoing"}

-----------------------------------------------------------------------------
\* The cache after a render: a query that became enabled is asked for if stale,
\* or if the 30 s have passed (old).
Rendered(before, t, c, old) ==
  [k \in Keys |-> IF k \in Reads(t, c) \ before THEN Mounted(c[k], k \in old) ELSE c[k]]

Unused == [at |-> "unused", op |-> "none", from |-> "own", here |-> FALSE, matched |-> FALSE]
Done == [Unused EXCEPT !.at = "done"]

Init ==
  /\ role \in Roles
  /\ \E l \in {"draft", "active"}, sent \in {{}, {"landlord"}} :
       /\ l = "draft" => sent = {}
       /\ db = [interest |-> [r \in Roles |-> r \in sent], match |-> "none",
                profile |-> "active", listing |-> l, photo |-> l = "active"]
  /\ tab = "own"
  /\ cache = Rendered({}, "own", [k \in Keys |-> Empty], {})
  /\ dialog = "none"
  /\ calls = [i \in Calls |-> Unused]
  /\ visits = 0 /\ events = 0
  /\ behind = {} /\ late = {}

\* Another tab: a dialog of the old one goes, its requests do not.
OpenTab(t, old) ==
  /\ visits < MaxVisits /\ t # tab
  /\ visits' = visits + 1
  /\ tab' = t /\ dialog' = "none"
  /\ cache' = Rendered(Reads(tab, cache), t, cache, old)
  /\ calls' = [i \in Calls |-> [calls[i] EXCEPT !.here = FALSE]]
  /\ behind' = {} /\ late' = {}
  /\ UNCHANGED <<role, db, events>>

\* The window gets the focus back, and 30 s have passed.
Refocus(k) ==
  /\ k \in Reads(tab, cache) /\ cache[k].at = "idle"
  /\ cache' = [cache EXCEPT ![k] = Asked(@)]
  /\ UNCHANGED <<role, db, tab, dialog, calls, visits, events, behind, late>>

Send(i, o) ==
  /\ calls[i].at = "unused"
  /\ calls' = [calls EXCEPT ![i] = [at |-> "sent", op |-> o, from |-> tab,
                                    here |-> TRUE, matched |-> FALSE]]
  /\ UNCHANGED <<role, db, tab, cache, visits, events, behind, late>>

Click(i, o) ==
  /\ o \in Offers \ Confirms
  /\ dialog = "none" /\ UNCHANGED dialog
  /\ Send(i, o)

OpenDialog(o) ==
  /\ dialog = "none"
  /\ o \in Offers \cap (Confirms \cup Details)
  /\ dialog' = o
  /\ UNCHANGED <<role, db, tab, cache, calls, visits, events, behind, late>>

\* The dialog does not look at the list again, nor at a pending mutation.
Confirm(i) ==
  /\ dialog # "none" /\ Holds(dialog)
  /\ dialog' = "none"
  /\ Send(i, dialog)

Dismiss ==
  /\ dialog # "none" /\ dialog' = "none"
  /\ UNCHANGED <<role, db, tab, cache, calls, visits, events, behind, late>>

\* The handler runs.  behind remembers the keys whose cached answer this write
\* of the tab shown has outdated, late those whose answer under way has.
Commit(i) ==
  LET o == calls[i].op  IN
  LET d == Applied(db, role, o)  IN
  LET outdated == {k \in Reads(tab, cache) :
                     calls[i].here /\ Facts(d, role, k) # Facts(db, role, k)}  IN
  /\ calls[i].at = "sent"
  /\ Accepts(db, role, o)
  /\ db' = d
  /\ calls' = [calls EXCEPT ![i].at = "served",
                            ![i].matched = (o = "express" /\ db.interest[Other(role)])]
  /\ behind' = behind \cup (outdated \X {i})
  /\ late' = late \cup {b \in outdated \X {i} : cache[b[1]].at = "answered"}
  /\ UNCHANGED <<role, tab, cache, dialog, visits, events>>

\* A refusal, and its answer: an error has no handler on these pages.
Refuse(i) ==
  /\ calls[i].at = "sent"
  /\ ~Accepts(db, role, calls[i].op)
  /\ calls' = [calls EXCEPT ![i] = Done]
  /\ UNCHANGED <<role, db, tab, cache, dialog, visits, events, behind, late>>

Event == events < MaxEvents /\ events' = events + 1

Forget(i) == {b \in behind : b[2] # i}

\* onSuccess, which runs whatever tab is shown by then.
Reply(i) ==
  LET again == Refreshes(calls[i].from, calls[i].matched)  IN
  /\ calls[i].at = "served"
  /\ calls' = [calls EXCEPT ![i] = Done]
  /\ cache' = [k \in Keys |-> IF k \in again THEN Invalidated(cache[k], k \in Reads(tab, cache))
                              ELSE cache[k]]
  /\ late' = {b \in late : b[1] \notin (again \cap Reads(tab, cache))}
  /\ UNCHANGED <<role, db, tab, dialog, visits, events, behind>>

\* The connection fails before or after the handler ran: the page takes it for
\* an error, and what it shows is not counted as behind.
Lose(i) ==
  /\ Event
  /\ calls[i].at \in {"sent", "served"}
  /\ calls' = [calls EXCEPT ![i] = Done]
  /\ behind' = Forget(i) /\ late' = late \cap Forget(i)
  /\ UNCHANGED <<role, db, tab, cache, dialog, visits>>

Answer(k) ==
  /\ cache[k].at = "asked"
  /\ cache' = [cache EXCEPT ![k] = Answered(@, Facts(db, role, k))]
  /\ UNCHANGED <<role, db, tab, dialog, calls, visits, events, behind, late>>

\* A request and its one retry both fail.
Fail(k) ==
  /\ Event
  /\ cache[k].at = "asked"
  /\ cache' = [cache EXCEPT ![k] = Answered(@, Refused)]
  /\ UNCHANGED <<role, db, tab, dialog, calls, visits, behind, late>>

\* An answer arrives and the tab renders with it; a query it disables, or one
\* that failed, is not counted as behind.
Receive(k) ==
  LET c == [cache EXCEPT ![k] = Received(@)]  IN
  LET gone == (Reads(tab, cache) \ Reads(tab, c)) \cup {k}  IN
  /\ cache[k].at = "answered"
  /\ cache' = Rendered(Reads(tab, cache), tab, c, {})
  /\ behind' = {b \in behind : b[1] \notin gone \/ (b \in late /\ cache[k].got # Refused)}
  /\ late' = {b \in late : b[1] \notin gone}
  /\ UNCHANGED <<role, db, tab, dialog, calls, visits, events>>

\* The other side, or the user in another window or device, on the same rows.
Elsewhere ==
  /\ Event
  /\ \/ \E r \in Roles, o \in Ops :
          /\ o \in {"activate", "deactivate"} => r = "tenant"
          /\ o \in {"publish", "pause", "rent"} => r = "landlord"
          /\ Accepts(db, r, o)
          /\ db' = Applied(db, r, o)
     \/ /\ db.listing # "deleted"        \* a photo uploaded, or the last one deleted
        /\ db' = [db EXCEPT !.photo = ~@]
  /\ UNCHANGED <<role, tab, cache, dialog, calls, visits, behind, late>>

Next ==
  \/ \E t \in Tabs, old \in {{}, Keys} : OpenTab(t, old)
  \/ \E k \in Keys : Refocus(k) \/ Answer(k) \/ Fail(k) \/ Receive(k)
  \/ \E i \in Calls : (\E o \in Ops : Click(i, o)) \/ Confirm(i)
                        \/ Commit(i) \/ Refuse(i) \/ Reply(i) \/ Lose(i)
  \/ \E o \in Ops : OpenDialog(o)
  \/ Dismiss
  \/ Elsewhere

Spec == Init /\ [][Next]_vars
-----------------------------------------------------------------------------
TypeOK ==
  /\ role \in Roles /\ tab \in Tabs /\ dialog \in Ops \cup {"none"}
  /\ db \in [interest : [Roles -> BOOLEAN], match : {"none", "active", "listing_rented"},
             profile : ProfileStatus, listing : ListingStatus, photo : BOOLEAN]
  /\ cache \in [Keys -> Entries(SUBSET FactNames)]
  /\ \A i \in Calls : calls[i].at \in {"unused", "sent", "served", "done"}
  /\ late \subseteq behind

\* What a page offers the server accepts: when everything a tab reads is up to
\* date, no button of it leads to a refusal.  The exceptions are those of the
\* code: the incoming and outgoing lists do not ask for the status of either side
\* (matches.go:228, 457, 534), and a paused listing is republished without a look
\* at its photos (ListingMgmtCard.tsx:109).
OfferedIsAccepted ==
  (\A k \in Reads(tab, cache) : cache[k].at = "idle" /\ cache[k].data = Facts(db, role, k)) =>
    \A o \in Offers :
      \/ Accepts(db, role, o)
      \/ tab = "incoming" /\ ~(db.profile = "active" /\ db.listing = "active")
      \/ tab = "outgoing" /\ OwnStatus(db, role) = "deleted"
      \/ o = "publish" /\ db.listing = "paused" /\ ~db.photo

\* An answer that says a click succeeded is never followed by the old picture: on
\* the tab that was clicked, what the click made wrong is stale or being asked
\* again, however its request overlaps refetches, other clicks and others' steps
\* (the onSuccess of the eight mutations).
OwnWritesShow ==
  \A b \in behind :
    b[1] \in Reads(tab, cache) /\ calls[b[2]].at = "done" => ~Settled(cache[b[1]])
=============================================================================
