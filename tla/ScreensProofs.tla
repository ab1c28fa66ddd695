---------------------------- MODULE ScreensProofs -----------------------------
(***************************************************************************)
(* Proofs about Screens.tla, for any number of clicks, visits and events:  *)
(* what a page offers the server accepts, and a click that succeeded is    *)
(* not followed by the old picture.                                        *)
(***************************************************************************)
EXTENDS Screens, TLAPS

DbType ==
  [interest : [Roles -> BOOLEAN], match : {"none", "active", "listing_rented"},
   profile : ProfileStatus, listing : ListingStatus, photo : BOOLEAN]

Answers == SUBSET FactNames
EntryType == Entries(Answers)

CallType ==
  [at : {"unused", "sent", "served", "done"}, op : Ops \cup {"none"}, from : Tabs,
   here : BOOLEAN, matched : BOOLEAN]

Typed ==
  /\ role \in Roles /\ tab \in Tabs /\ dialog \in Ops \cup {"none"}
  /\ db \in DbType
  /\ cache \in [Keys -> EntryType]
  /\ calls \in [Calls -> CallType]
  /\ behind \in SUBSET (Keys \X Calls) /\ late \in SUBSET behind

\* A match is of two interests, and neither is withdrawn after it.
Paired(d) == d.match # "none" => d.interest["tenant"] /\ d.interest["landlord"]

\* The operations a tab can ask for.
OfTab(o, t) ==
  /\ o \in Ops /\ t # "matched"
  /\ t \in {"browse", "incoming"} => o = "express"

\* A request of the tab shown is one of its own.
ClicksOfTab ==
  /\ dialog # "none" => OfTab(dialog, tab)
  /\ \A i \in Calls :
       calls[i].at = "sent" =>
         /\ calls[i].op \in Ops
         /\ calls[i].here => calls[i].from = tab /\ OfTab(calls[i].op, tab)

\* What a click outdated its answer invalidates; once that has come, the entry is not
\* taken for up to date.  An answer that is under way is of a query on screen, and of a
\* click still to be answered.
Outdated ==
  /\ \A b \in behind :
       \/ calls[b[2]].at = "served"
            /\ b[1] \in Refreshes(calls[b[2]].from, calls[b[2]].matched)
       \/ calls[b[2]].at = "done" /\ ~Settled(cache[b[1]])
  /\ \A b \in late : b[1] \in Reads(tab, cache) /\ calls[b[2]].at = "served"

IInv == Typed /\ Paired(db) /\ ClicksOfTab /\ Outdated
-----------------------------------------------------------------------------
(* The operators of the model. *)

LEMMA EntrySteps ==
  ASSUME NEW e \in EntryType
  PROVE  /\ Asked(e) \in EntryType /\ Asked(e).data = e.data /\ ~Settled(Asked(e))
         /\ \A a \in Answers \cup {Refused} :
              /\ Answered(e, a) \in EntryType /\ Answered(e, a).data = e.data
              /\ ~Settled(Answered(e, a))
         /\ Received(e) \in EntryType
         /\ \A b \in BOOLEAN :
              /\ Invalidated(e, b) \in EntryType /\ Invalidated(e, b).data = e.data
              /\ ~Settled(Invalidated(e, b))
         /\ \A b \in BOOLEAN :
              /\ Mounted(e, b) \in EntryType /\ Mounted(e, b).data = e.data
              /\ ~Settled(e) => ~Settled(Mounted(e, b))
<1>0. {} \in Answers
  BY DEF Answers
<1>1. \A f \in EntryType : /\ Asked(f) \in EntryType /\ Asked(f).data = f.data
                           /\ ~Settled(Asked(f))
  BY <1>0 DEF EntryType, Entries, Asked, Settled
<1>2. \A a \in Answers \cup {Refused} :
        /\ Answered(e, a) \in EntryType /\ Answered(e, a).data = e.data
        /\ ~Settled(Answered(e, a))
  BY DEF EntryType, Entries, Answered, Settled
<1>3. Received(e) \in EntryType
  <2> DEFINE d == IF e.got = Refused THEN e.data ELSE e.got
             b == (e.got = Refused)
  <2>1. d \in Answers \cup {Unloaded}
    BY <1>0 DEF EntryType, Entries
  <2>2. b \in BOOLEAN
    OBVIOUS
  <2>3. Received(e) = [e EXCEPT !.data = d, !.stale = b, !.at = "idle", !.got = {}]
    BY DEF Received
  <2> HIDE DEF d, b
  <2> QED
    BY <2>1, <2>2, <2>3 DEF EntryType, Entries
<1> DEFINE s == [e EXCEPT !.stale = TRUE]
<1>4. s \in EntryType /\ s.data = e.data /\ s.stale
  BY DEF EntryType, Entries
<1>5. \A b \in BOOLEAN : Invalidated(e, b) = IF b THEN Asked(s) ELSE s
  BY DEF Invalidated
<1>6. \A b \in BOOLEAN : /\ Invalidated(e, b) \in EntryType /\ Invalidated(e, b).data = e.data
                         /\ ~Settled(Invalidated(e, b))
  <2> HIDE DEF s
  <2> QED
    BY <1>1, <1>4, <1>5 DEF Settled
<1>7. \A b \in BOOLEAN : /\ Mounted(e, b) \in EntryType /\ Mounted(e, b).data = e.data
                         /\ ~Settled(e) => ~Settled(Mounted(e, b))
  BY <1>1 DEF Mounted
<1> QED
  BY <1>1, <1>2, <1>3, <1>6, <1>7

LEMMA Applying ==
  ASSUME NEW d \in DbType, NEW r \in Roles, NEW o \in Ops
  PROVE  /\ Applied(d, r, o) \in DbType
         /\ Paired(d) /\ Accepts(d, r, o) => Paired(Applied(d, r, o))
<1> DEFINE a == Applied(d, r, o)
<1> USE DEF Roles
<1>1. CASE o = "express"
  <2> DEFINE m == IF d.interest[Other(r)] /\ d.match = "none" THEN "active" ELSE d.match
             n == [d.interest EXCEPT ![r] = TRUE]
  <2>1. a = [d EXCEPT !.interest = n, !.match = m]
    BY <1>1 DEF Applied, DbType
  <2>2. n \in [Roles -> BOOLEAN] /\ m \in {"none", "active", "listing_rented"}
    BY DEF DbType
  <2>3. Paired(d) => (m # "none" => n["tenant"] /\ n["landlord"])
    BY <2>2 DEF Paired, DbType, Other
  <2> HIDE DEF m, n
  <2>4. a \in DbType /\ a.interest = n /\ a.match = m
    BY <2>1, <2>2 DEF DbType
  <2> QED
    BY <2>3, <2>4 DEF Paired
<1>2. CASE o = "withdraw"
  <2> DEFINE n == [d.interest EXCEPT ![r] = FALSE]
  <2>1. a = [d EXCEPT !.interest = n]
    BY <1>2 DEF Applied, DbType
  <2>2. n \in [Roles -> BOOLEAN]
    BY DEF DbType
  <2>3. Accepts(d, r, o) => d.match = "none"
    BY <1>2 DEF Accepts
  <2> HIDE DEF n
  <2> QED
    BY <2>1, <2>2, <2>3 DEF Paired, DbType
<1>3. CASE o = "rent"
  <2>1. a = [d EXCEPT !.listing = "rented",
                      !.match = IF d.match = "active" THEN "listing_rented" ELSE d.match]
    BY <1>3 DEF Applied, DbType
  <2> QED
    BY <2>1 DEF Paired, DbType, ListingStatus
<1>4. CASE o \notin {"express", "withdraw", "rent"}
  <2>1. \/ \E p \in ProfileStatus : a = [d EXCEPT !.profile = p]
        \/ \E l \in ListingStatus : a = [d EXCEPT !.listing = l]
    BY <1>4 DEF Applied, Ops, ProfileStatus, ListingStatus
  <2> QED
    BY <2>1 DEF Paired, DbType
<1> QED
  BY <1>1, <1>2, <1>3, <1>4

\* Expressing interest leaves the row of the user alone.
LEMMA MineKept ==
  ASSUME NEW d \in DbType, NEW r \in Roles
  PROVE  Facts(Applied(d, r, "express"), r, "mine") = Facts(d, r, "mine")
<1> DEFINE a == Applied(d, r, "express")
<1>1. a.profile = d.profile /\ a.listing = d.listing /\ a.photo = d.photo
  BY DEF Applied, DbType
<1> QED
  BY <1>1 DEF Facts, OwnStatus

LEMMA FactsTyped ==
  ASSUME NEW d \in DbType, NEW r \in Roles, NEW k \in Keys
  PROVE  Facts(d, r, k) \in Answers \cup {Refused}
<1>1. /\ {OwnStatus(d, r)} \subseteq FactNames /\ {d.match} \ {"none"} \subseteq FactNames
      /\ {"photo", "open", "sent", "waiting"} \subseteq FactNames
  BY DEF OwnStatus, DbType, ProfileStatus, ListingStatus, FactNames
<1>2. CASE k = "mine"
  BY <1>1, <1>2 DEF Facts, Answers
<1>3. CASE k = "browse"
  BY <1>1, <1>3 DEF Facts, Answers
<1>4. CASE k \in {"incoming", "outgoing"}
  BY <1>1, <1>4 DEF Facts, Answers
<1>5. CASE k = "matched"
  BY <1>1, <1>5 DEF Facts, Answers
<1> QED
  BY <1>2, <1>3, <1>4, <1>5 DEF Keys

LEMMA ReadsOfMine ==
  ASSUME NEW t \in Tabs, NEW c
  PROVE  /\ Reads(t, c) \in SUBSET Keys
         /\ \A d : d["mine"].data = c["mine"].data => Reads(t, d) = Reads(t, c)
BY DEF Reads, TenantReads, LandlordReads, BrowseEnabled, IncomingEnabled, Loaded, Tabs, Keys

LEMMA Rendering ==
  ASSUME NEW c \in [Keys -> EntryType], NEW before, NEW t, NEW old
  PROVE  /\ Rendered(before, t, c, old) \in [Keys -> EntryType]
         /\ \A k \in Keys :
              /\ Rendered(before, t, c, old)[k].data = c[k].data
              /\ ~Settled(c[k]) => ~Settled(Rendered(before, t, c, old)[k])
<1> DEFINE m == [k \in Keys |-> Mounted(c[k], k \in old)]
<1>1. \A k \in Keys : /\ m[k] \in EntryType /\ m[k].data = c[k].data
                      /\ ~Settled(c[k]) => ~Settled(m[k])
  <2> SUFFICES ASSUME NEW k \in Keys
               PROVE  /\ m[k] \in EntryType /\ m[k].data = c[k].data
                      /\ ~Settled(c[k]) => ~Settled(m[k])
    OBVIOUS
  <2>1. c[k] \in EntryType /\ (k \in old) \in BOOLEAN /\ m[k] = Mounted(c[k], k \in old)
    OBVIOUS
  <2> QED
    BY <2>1, EntrySteps
<1>2. Rendered(before, t, c, old)
        = [k \in Keys |-> IF k \in Reads(t, c) \ before THEN m[k] ELSE c[k]]
  BY DEF Rendered
<1> HIDE DEF m
<1> QED
  BY <1>1, <1>2

LEMMA OffersOfTab ==
  ASSUME tab \in Tabs, NEW o \in Offers
  PROVE  OfTab(o, tab)
<1>1. CASE tab = "own"
  <2>1. o \in MyProfileCard \/ o \in ListingMgmtCard
    BY <1>1 DEF Offers
  <2> QED
    BY <1>1, <2>1 DEF MyProfileCard, ListingMgmtCard, OfTab, Ops
<1>2. CASE tab = "browse"
  BY <1>2 DEF Offers, TenantBrowseTab, LandlordBrowseTab, OfTab, Ops
<1>3. CASE tab = "incoming"
  BY <1>3 DEF Offers, ProfileIncoming, LandlordIncomingTab, OfTab, Ops
<1>4. CASE tab = "outgoing"
  BY <1>4 DEF Offers, TenantOutgoingTab, LandlordOutgoingTab, OfTab, Ops
<1>5. CASE tab = "matched"
  BY <1>5 DEF Offers
<1> QED
  BY <1>1, <1>2, <1>3, <1>4, <1>5 DEF Tabs

\* What a click outdates on its own tab, its answer sees to.
LEMMA OutdatedIsRefreshed ==
  ASSUME Typed, NEW o, OfTab(o, tab), NEW matched,
         NEW k \in Reads(tab, cache),
         Facts(Applied(db, role, o), role, k) # Facts(db, role, k)
  PROVE  k \in Refreshes(tab, matched)
<1>1. db \in DbType /\ role \in Roles /\ tab \in Tabs
  BY DEF Typed
<1>2. CASE tab = "own"
  BY <1>2 DEF Reads, TenantReads, LandlordReads, Refreshes
<1>3. CASE tab \in {"browse", "incoming"}
  <2>1. o = "express"
    BY <1>3 DEF OfTab
  <2>2. k # "mine"
    BY <1>1, <2>1, MineKept
  <2>3. k = tab
    BY <1>3, <2>2 DEF Reads, TenantReads, LandlordReads
  <2> QED
    BY <1>3, <2>3 DEF Refreshes, AnswerRefreshes
<1>4. CASE tab = "outgoing"
  BY <1>4 DEF Reads, TenantReads, LandlordReads, Refreshes
<1> QED
  BY <1>1, <1>2, <1>3, <1>4 DEF OfTab, Tabs
-----------------------------------------------------------------------------
(* Every step keeps the invariant. *)

LEMMA InitInv == Init => IInv
<1> SUFFICES ASSUME Init PROVE IInv
  OBVIOUS
<1>1. db \in DbType /\ Paired(db)
  <2>1. PICK l \in {"draft", "active"}, sent \in {{}, {"landlord"}} :
          db = [interest |-> [r \in Roles |-> r \in sent], match |-> "none",
                profile |-> "active", listing |-> l, photo |-> l = "active"]
    BY DEF Init
  <2>2. [r \in Roles |-> r \in sent] \in [Roles -> BOOLEAN]
    OBVIOUS
  <2> QED
    BY <2>1, <2>2 DEF DbType, Paired, ProfileStatus, ListingStatus
<1>2. cache \in [Keys -> EntryType]
  <2>1. Empty \in EntryType
    BY DEF Empty, EntryType, Entries
  <2>2. [k \in Keys |-> Empty] \in [Keys -> EntryType]
    BY <2>1
  <2> QED
    BY <2>2, Rendering DEF Init
<1>3. calls \in [Calls -> CallType] /\ \A i \in Calls : calls[i].at = "unused"
  BY DEF Init, Unused, CallType, Tabs
<1> QED
  BY <1>1, <1>2, <1>3 DEF Init, IInv, Typed, ClicksOfTab, Outdated, Tabs

LEMMA OpenTabInv ==
  ASSUME IInv, NEW t \in Tabs, NEW old, OpenTab(t, old)
  PROVE  IInv'
<1>1. cache' \in [Keys -> EntryType]
  BY Rendering DEF IInv, Typed, OpenTab
<1>2. /\ calls' \in [Calls -> CallType]
      /\ \A i \in Calls : /\ calls'[i].at = calls[i].at /\ calls'[i].op = calls[i].op
                          /\ ~calls'[i].here
  BY DEF IInv, Typed, OpenTab, CallType
<1> QED
  BY <1>1, <1>2 DEF IInv, Typed, ClicksOfTab, Outdated, OpenTab

\* An entry is asked for, or its answer is on the way.
LEMMA AskedInv ==
  ASSUME IInv, NEW k \in Keys, NEW e \in EntryType, e.data = cache[k].data, ~Settled(e),
         cache' = [cache EXCEPT ![k] = e],
         UNCHANGED <<role, db, tab, dialog, calls, behind, late>>
  PROVE  IInv'
<1>1. cache \in [Keys -> EntryType] /\ tab \in Tabs
  BY DEF IInv, Typed
<1>2. /\ cache' \in [Keys -> EntryType] /\ cache'[k] = e
      /\ \A j \in Keys : j # k => cache'[j] = cache[j]
  BY <1>1
<1>3. Reads(tab, cache)' = Reads(tab, cache)
  <2>1. cache'["mine"].data = cache["mine"].data
    BY <1>2 DEF Keys
  <2> QED
    BY <1>1, <2>1, ReadsOfMine DEF Reads, TenantReads, LandlordReads
<1>4. Outdated'
  <2>1. \A b \in behind : b[1] \in Keys
    BY DEF IInv, Typed
  <2> QED
    BY <1>2, <1>3, <2>1 DEF IInv, Outdated, Refreshes, AnswerRefreshes
<1> QED
  BY <1>2, <1>4 DEF IInv, Typed, ClicksOfTab

LEMMA AskingInv ==
  ASSUME IInv, NEW k \in Keys, Refocus(k) \/ Answer(k) \/ Fail(k)
  PROVE  IInv'
<1>1. /\ cache[k] \in EntryType /\ db \in DbType /\ role \in Roles
      /\ cache = [j \in Keys |-> cache[j]]
  BY DEF IInv, Typed
<1>2. CASE Refocus(k)
  <2>1. cache' = [cache EXCEPT ![k] = Asked(cache[k])]
    BY <1>1, <1>2 DEF Refocus
  <2> QED
    BY <1>1, <1>2, <2>1, AskedInv, EntrySteps DEF Refocus
<1>3. CASE Answer(k)
  <2> DEFINE a == Facts(db, role, k)
  <2>1. a \in Answers \cup {Refused}
    BY <1>1, FactsTyped
  <2>2. cache' = [cache EXCEPT ![k] = Answered(cache[k], a)]
    BY <1>1, <1>3 DEF Answer
  <2> HIDE DEF a
  <2> QED
    BY <1>1, <1>3, <2>1, <2>2, AskedInv, EntrySteps DEF Answer
<1>4. CASE Fail(k)
  <2>1. cache' = [cache EXCEPT ![k] = Answered(cache[k], Refused)]
    BY <1>1, <1>4 DEF Fail
  <2> QED
    BY <1>1, <1>4, <2>1, AskedInv, EntrySteps DEF Fail
<1> QED
  BY <1>2, <1>3, <1>4

LEMMA SendInv ==
  ASSUME IInv, NEW i \in Calls, NEW o \in Ops, OfTab(o, tab), Send(i, o),
         dialog' \in {dialog, "none"}
  PROVE  IInv'
<1> DEFINE c == [at |-> "sent", op |-> o, from |-> tab, here |-> TRUE, matched |-> FALSE]
<1>1. c \in CallType /\ c.at = "sent" /\ c.op = o /\ c.from = tab
  BY DEF CallType, IInv, Typed
<1>2. /\ calls[i].at = "unused" /\ calls' = [calls EXCEPT ![i] = c]
      /\ UNCHANGED <<role, db, tab, cache, behind, late>>
  BY DEF Send
<1> HIDE DEF c
<1>3. /\ calls' \in [Calls -> CallType] /\ calls'[i] = c
      /\ \A j \in Calls : j # i => calls'[j] = calls[j]
  BY <1>1, <1>2 DEF IInv, Typed
<1>4. ClicksOfTab'
  BY <1>1, <1>2, <1>3 DEF IInv, ClicksOfTab
<1>5. Outdated'
  <2>1. \A b \in behind : b[2] \in Calls /\ b[2] # i
    BY <1>2 DEF IInv, Typed, Outdated
  <2>2. \A b \in late : b[2] \in Calls /\ b[2] # i
    BY <2>1 DEF IInv, Typed
  <2> QED
    BY <1>2, <1>3, <2>1, <2>2
    DEF IInv, Outdated, Refreshes, AnswerRefreshes, Reads, TenantReads, LandlordReads
<1> QED
  BY <1>2, <1>3, <1>4, <1>5 DEF IInv, Typed

LEMMA ClickInv ==
  ASSUME IInv, NEW i \in Calls, (\E o \in Ops : Click(i, o)) \/ Confirm(i)
  PROVE  IInv'
<1>1. tab \in Tabs /\ dialog \in Ops \cup {"none"} /\ (dialog # "none" => OfTab(dialog, tab))
  BY DEF IInv, Typed, ClicksOfTab
<1>2. CASE \E o \in Ops : Click(i, o)
  BY <1>1, <1>2, OffersOfTab, SendInv DEF Click
<1>3. CASE Confirm(i)
  <2>1. dialog \in Ops /\ OfTab(dialog, tab)
    BY <1>1, <1>3 DEF Confirm
  <2> QED
    BY <1>3, <2>1, SendInv DEF Confirm
<1> QED
  BY <1>2, <1>3

LEMMA DialogInv ==
  ASSUME IInv, (\E o \in Ops : OpenDialog(o)) \/ Dismiss
  PROVE  IInv'
<1>1. /\ dialog' \in Ops \cup {"none"} /\ (dialog' # "none" => OfTab(dialog', tab))
      /\ UNCHANGED <<role, db, tab, cache, calls, behind, late>>
  <2>1. CASE \E o \in Ops : OpenDialog(o)
    BY <2>1, OffersOfTab DEF OpenDialog, IInv, Typed
  <2>2. CASE Dismiss
    BY <2>2 DEF Dismiss
  <2> QED
    BY <2>1, <2>2
<1> QED
  BY <1>1 DEF IInv, Typed, ClicksOfTab, OfTab, Outdated, Reads, TenantReads, LandlordReads,
              Refreshes, AnswerRefreshes

LEMMA CommitInv ==
  ASSUME IInv, NEW i \in Calls, Commit(i)
  PROVE  IInv'
<1> DEFINE o == calls[i].op
           d == Applied(db, role, o)
           outdated == {k \in Reads(tab, cache) :
                          calls[i].here /\ Facts(d, role, k) # Facts(db, role, k)}
           m == (o = "express" /\ db.interest[Other(role)])
           c == [calls[i] EXCEPT !.at = "served", !.matched = m]
<1>1. /\ calls[i].at = "sent" /\ Accepts(db, role, o) /\ db' = d
      /\ calls' = [calls EXCEPT ![i].at = "served", ![i].matched = m]
      /\ behind' = behind \cup (outdated \X {i})
      /\ late' = late \cup {b \in outdated \X {i} : cache[b[1]].at = "answered"}
      /\ UNCHANGED <<role, tab, cache, dialog>>
  BY DEF Commit
<1>2. /\ Typed /\ o \in Ops /\ (calls[i].here => calls[i].from = tab /\ OfTab(o, tab))
      /\ Reads(tab, cache) \in SUBSET Keys
  BY <1>1, ReadsOfMine DEF IInv, ClicksOfTab, Typed
<1>3. db' \in DbType /\ Paired(db')
  BY <1>1, <1>2, Applying DEF IInv, Typed
<1>4. calls' = [calls EXCEPT ![i] = c]
  BY <1>1, <1>2 DEF Typed
<1>5. c \in CallType /\ c.at = "served" /\ c.op = o /\ c.from = calls[i].from /\ c.here = calls[i].here
  <2>1. m \in BOOLEAN /\ calls[i] \in CallType
    BY <1>2 DEF Typed
  <2> HIDE DEF m
  <2> QED
    BY <2>1 DEF CallType
<1>6. \A k \in outdated : k \in Reads(tab, cache) /\ k \in Refreshes(c.from, c.matched)
  BY <1>2, <1>5, OutdatedIsRefreshed
<1> HIDE DEF c, outdated, d
<1>7. /\ calls' \in [Calls -> CallType] /\ calls'[i] = c
      /\ \A j \in Calls : j # i => calls'[j] = calls[j]
  BY <1>2, <1>4, <1>5 DEF Typed
<1>8. outdated \in SUBSET Keys
  BY <1>2, <1>6
<1>9. Typed'
  <2>1. behind' \in SUBSET (Keys \X Calls) /\ late' \in SUBSET behind'
    BY <1>1, <1>2, <1>8 DEF Typed
  <2> QED
    BY <1>1, <1>2, <1>3, <1>7, <2>1 DEF Typed
<1>10. ClicksOfTab'
  BY <1>1, <1>5, <1>7 DEF IInv, ClicksOfTab
<1>11. Outdated'
  <2>1. Reads(tab, cache)' = Reads(tab, cache)
    BY <1>1 DEF Reads, TenantReads, LandlordReads
  <2>2. role' = role /\ cache' = cache
    BY <1>1
  <2>3. ASSUME NEW b \in behind'
        PROVE  \/ calls'[b[2]].at = "served"
                    /\ (b[1] \in Refreshes(calls[b[2]].from, calls[b[2]].matched))'
               \/ calls'[b[2]].at = "done" /\ ~Settled(cache'[b[1]])
    <3>1. CASE b \in behind
      <4>1. b[2] \in Calls /\ b[2] # i
        BY <1>1, <1>2, <3>1 DEF IInv, Outdated, Typed
      <4> QED
        BY <1>7, <2>2, <3>1, <4>1 DEF IInv, Outdated, Refreshes, AnswerRefreshes
    <3>2. CASE b \in outdated \X {i}
      <4>1. b[1] \in outdated /\ b[2] = i
        BY <3>2
      <4>2. b[1] \in Refreshes(c.from, c.matched)
        BY <1>6, <4>1
      <4> QED
        BY <1>5, <1>7, <2>2, <4>1, <4>2 DEF Refreshes, AnswerRefreshes
    <3> QED
      BY <1>1, <2>3, <3>1, <3>2
  <2>4. ASSUME NEW b \in late'
        PROVE  b[1] \in Reads(tab, cache) /\ calls'[b[2]].at = "served"
    <3>1. CASE b \in late
      <4>1. b[2] \in Calls /\ b[2] # i
        BY <1>1, <1>2, <3>1 DEF IInv, Outdated, Typed
      <4> QED
        BY <1>7, <3>1, <4>1 DEF IInv, Outdated
    <3>2. CASE b \in outdated \X {i}
      BY <1>5, <1>6, <1>7, <3>2
    <3> QED
      BY <1>1, <2>4, <3>1, <3>2
  <2> QED
    BY <2>1, <2>3, <2>4 DEF Outdated
<1> QED
  BY <1>3, <1>9, <1>10, <1>11 DEF IInv

LEMMA DoneCall == Done \in CallType /\ Done.at = "done"
BY DEF Done, Unused, CallType, Tabs

\* A request that is over without a success was not followed, or is forgotten.
LEMMA OverInv ==
  ASSUME IInv, NEW i \in Calls, Refuse(i) \/ Lose(i)
  PROVE  IInv'
<1>1. /\ calls' = [calls EXCEPT ![i] = Done]
      /\ UNCHANGED <<role, db, tab, cache, dialog>>
      /\ behind' \in SUBSET behind /\ late' \in SUBSET late /\ late' \in SUBSET behind'
      /\ \A b \in behind' : b[2] # i
  <2>1. CASE Refuse(i)
    BY <2>1 DEF Refuse, IInv, Outdated, Typed
  <2>2. CASE Lose(i)
    BY <2>2 DEF Lose, Forget, IInv, Typed
  <2> QED
    BY <2>1, <2>2
<1>2. /\ calls' \in [Calls -> CallType] /\ calls'[i] = Done
      /\ \A j \in Calls : j # i => calls'[j] = calls[j]
  BY <1>1, DoneCall DEF IInv, Typed
<1>3. Typed'
  BY <1>1, <1>2 DEF IInv, Typed
<1>4. ClicksOfTab'
  BY <1>1, <1>2, DoneCall DEF IInv, ClicksOfTab
<1>5. Outdated'
  <2>1. \A b \in behind' : b \in behind /\ b[2] \in Calls /\ calls'[b[2]] = calls[b[2]]
    BY <1>1, <1>2 DEF IInv, Typed
  <2>2. \A b \in late' : b \in late /\ calls'[b[2]] = calls[b[2]]
    BY <1>1, <2>1
  <2> QED
    BY <1>1, <2>1, <2>2
    DEF IInv, Outdated, Refreshes, AnswerRefreshes, Reads, TenantReads, LandlordReads
<1> QED
  BY <1>1, <1>3, <1>4, <1>5 DEF IInv

LEMMA ReplyInv ==
  ASSUME IInv, NEW i \in Calls, Reply(i)
  PROVE  IInv'
<1> DEFINE again == Refreshes(calls[i].from, calls[i].matched)
           shown == Reads(tab, cache)
<1>1. /\ calls[i].at = "served" /\ calls' = [calls EXCEPT ![i] = Done]
      /\ cache' = [k \in Keys |-> IF k \in again THEN Invalidated(cache[k], k \in shown)
                                  ELSE cache[k]]
      /\ late' = {b \in late : b[1] \notin (again \cap shown)}
      /\ UNCHANGED <<role, db, tab, dialog, behind>>
  BY DEF Reply
<1>2. /\ Typed /\ tab \in Tabs /\ cache \in [Keys -> EntryType]
  BY DEF IInv, Typed
<1>3. /\ calls' \in [Calls -> CallType] /\ calls'[i] = Done
      /\ \A j \in Calls : j # i => calls'[j] = calls[j]
  BY <1>1, DoneCall DEF IInv, Typed
<1>4. ASSUME NEW k \in Keys
      PROVE  /\ cache'[k] \in EntryType /\ cache'[k].data = cache[k].data
             /\ (k \in again \/ ~Settled(cache[k])) => ~Settled(cache'[k])
  <2> DEFINE b == k \in shown
  <2>1. cache[k] \in EntryType /\ b \in BOOLEAN
    BY <1>2
  <2>2. cache'[k] = IF k \in again THEN Invalidated(cache[k], b) ELSE cache[k]
    BY <1>1
  <2> HIDE DEF again, b
  <2> QED
    BY <2>1, <2>2, EntrySteps
<1>5. cache' \in [Keys -> EntryType]
  <2>1. cache' = [k \in Keys |-> cache'[k]]
    BY <1>1
  <2> QED
    BY <1>4, <2>1
<1>6. Reads(tab, cache)' = Reads(tab, cache)
  <2>1. cache'["mine"].data = cache["mine"].data
    BY <1>4 DEF Keys
  <2> QED
    BY <1>1, <1>2, <2>1, ReadsOfMine DEF Reads, TenantReads, LandlordReads
<1>7. Typed'
  BY <1>1, <1>2, <1>3, <1>5 DEF Typed
<1>8. ClicksOfTab'
  BY <1>1, <1>3, DoneCall DEF IInv, ClicksOfTab
<1>9. Outdated'
  <2>1. \A b \in behind : b[1] \in Keys /\ b[2] \in Calls
    BY <1>2 DEF Typed
  <2>2. ASSUME NEW b \in behind'
        PROVE  \/ calls'[b[2]].at = "served"
                    /\ (b[1] \in Refreshes(calls[b[2]].from, calls[b[2]].matched))'
               \/ calls'[b[2]].at = "done" /\ ~Settled(cache'[b[1]])
    <3>1. b \in behind /\ b[1] \in Keys /\ b[2] \in Calls
      BY <1>1, <2>1, <2>2
    <3>2. \/ calls[b[2]].at = "served" /\ b[1] \in Refreshes(calls[b[2]].from, calls[b[2]].matched)
          \/ calls[b[2]].at = "done" /\ ~Settled(cache[b[1]])
      BY <3>1 DEF IInv, Outdated
    <3>3. CASE b[2] = i
      BY <1>1, <1>3, <1>4, <3>1, <3>2, <3>3, DoneCall
    <3>4. CASE b[2] # i
      <4>1. calls'[b[2]] = calls[b[2]] /\ role' = role
        BY <1>1, <1>3, <3>1, <3>4
      <4> QED
        BY <1>4, <3>1, <3>2, <4>1 DEF Refreshes, AnswerRefreshes
    <3> QED
      BY <3>3, <3>4
  <2>3. ASSUME NEW b \in late'
        PROVE  b[1] \in Reads(tab, cache) /\ calls'[b[2]].at = "served"
    <3>1. b \in late /\ b[1] \notin (again \cap shown) /\ b \in behind
      BY <1>1, <1>2 DEF Typed
    <3>2. b[1] \in shown /\ calls[b[2]].at = "served" /\ b[2] \in Calls
      BY <2>1, <3>1 DEF IInv, Outdated
    <3>3. b[1] \in Refreshes(calls[b[2]].from, calls[b[2]].matched)
      BY <3>1, <3>2 DEF IInv, Outdated
    <3>4. b[2] # i
      BY <3>1, <3>2, <3>3
    <3> QED
      BY <1>3, <3>2, <3>4
  <2> QED
    BY <1>6, <2>2, <2>3 DEF Outdated
<1> QED
  BY <1>1, <1>7, <1>8, <1>9 DEF IInv

LEMMA ReceiveInv ==
  ASSUME IInv, NEW k \in Keys, Receive(k)
  PROVE  IInv'
<1> DEFINE c == [cache EXCEPT ![k] = Received(cache[k])]
           gone == (Reads(tab, cache) \ Reads(tab, c)) \cup {k}
<1>1. /\ cache \in [Keys -> EntryType] /\ tab \in Tabs
      /\ behind \in SUBSET (Keys \X Calls) /\ late \in SUBSET behind
  BY DEF IInv, Typed
<1>2. /\ cache' = Rendered(Reads(tab, cache), tab, c, {})
      /\ behind' = {b \in behind : b[1] \notin gone \/ (b \in late /\ cache[k].got # Refused)}
      /\ late' = {b \in late : b[1] \notin gone}
      /\ UNCHANGED <<role, db, tab, dialog, calls>>
  BY <1>1 DEF Receive
<1>3. c \in [Keys -> EntryType] /\ \A j \in Keys : j # k => c[j] = cache[j]
  <2>1. Received(cache[k]) \in EntryType
    BY <1>1, EntrySteps
  <2> QED
    BY <1>1, <2>1
<1> HIDE DEF c
<1>4. /\ cache' \in [Keys -> EntryType]
      /\ \A j \in Keys : /\ cache'[j].data = c[j].data
                         /\ ~Settled(c[j]) => ~Settled(cache'[j])
  BY <1>2, <1>3, Rendering
<1>5. Reads(tab, cache)' = Reads(tab, c)
  <2>1. cache'["mine"].data = c["mine"].data
    BY <1>4 DEF Keys
  <2>2. Reads(tab, cache') = Reads(tab, c)
    BY <1>1, <2>1, ReadsOfMine
  <2> QED
    BY <1>2, <2>2 DEF Reads, TenantReads, LandlordReads
<1>6. Typed'
  <2>1. behind' \in SUBSET (Keys \X Calls)
    BY <1>1, <1>2
  <2>2. late' \in SUBSET behind'
    BY <1>1, <1>2
  <2> QED
    BY <1>2, <1>4, <2>1, <2>2 DEF IInv, Typed
<1>7. ClicksOfTab'
  BY <1>2 DEF IInv, ClicksOfTab
<1>8. Outdated'
  <2>1. ASSUME NEW b \in behind'
        PROVE  \/ calls'[b[2]].at = "served"
                    /\ (b[1] \in Refreshes(calls[b[2]].from, calls[b[2]].matched))'
               \/ calls'[b[2]].at = "done" /\ ~Settled(cache'[b[1]])
    <3>1. /\ b \in behind /\ b[1] \in Keys
          /\ b[1] \notin gone \/ b \in late
      BY <1>1, <1>2
    <3>2. \/ calls[b[2]].at = "served" /\ b[1] \in Refreshes(calls[b[2]].from, calls[b[2]].matched)
          \/ calls[b[2]].at = "done" /\ ~Settled(cache[b[1]])
      BY <3>1 DEF IInv, Outdated
    <3>3. CASE calls[b[2]].at = "served"
      BY <1>2, <3>2, <3>3 DEF Refreshes, AnswerRefreshes
    <3>4. CASE calls[b[2]].at = "done"
      <4>1. b \notin late
        BY <3>4 DEF IInv, Outdated
      <4>2. b[1] # k
        BY <3>1, <4>1
      <4> QED
        BY <1>2, <1>3, <1>4, <3>1, <3>2, <3>4, <4>2
    <3> QED
      BY <3>2, <3>3, <3>4
  <2>2. ASSUME NEW b \in late'
        PROVE  b[1] \in Reads(tab, c) /\ calls'[b[2]].at = "served"
    BY <1>2 DEF IInv, Outdated
  <2> QED
    BY <1>5, <2>1, <2>2 DEF Outdated
<1> QED
  BY <1>2, <1>6, <1>7, <1>8 DEF IInv

LEMMA ElsewhereInv ==
  ASSUME IInv, Elsewhere
  PROVE  IInv'
<1>1. db \in DbType /\ Paired(db)
  BY DEF IInv, Typed
<1>2. db' \in DbType /\ Paired(db')
  <2>1. CASE \E r \in Roles, o \in Ops : Accepts(db, r, o) /\ db' = Applied(db, r, o)
    BY <1>1, <2>1, Applying
  <2>2. CASE db' = [db EXCEPT !.photo = ~db.photo]
    BY <1>1, <2>2 DEF DbType, Paired
  <2> QED
    BY <2>1, <2>2 DEF Elsewhere
<1>3. UNCHANGED <<role, tab, cache, dialog, calls, behind, late>>
  BY DEF Elsewhere
<1> QED
  BY <1>2, <1>3 DEF IInv, Typed, ClicksOfTab, Outdated, Reads, TenantReads, LandlordReads,
                    Refreshes, AnswerRefreshes

LEMMA NextInv == IInv /\ [Next]_vars => IInv'
<1> SUFFICES ASSUME IInv, [Next]_vars PROVE IInv'
  OBVIOUS
<1>1. CASE \E t \in Tabs, old \in {{}, Keys} : OpenTab(t, old)
  BY <1>1, OpenTabInv
<1>2. CASE \E k \in Keys : Refocus(k) \/ Answer(k) \/ Fail(k)
  BY <1>2, AskingInv
<1>3. CASE \E k \in Keys : Receive(k)
  BY <1>3, ReceiveInv
<1>4. CASE \E i \in Calls : (\E o \in Ops : Click(i, o)) \/ Confirm(i)
  BY <1>4, ClickInv
<1>5. CASE (\E o \in Ops : OpenDialog(o)) \/ Dismiss
  BY <1>5, DialogInv
<1>6. CASE \E i \in Calls : Commit(i)
  BY <1>6, CommitInv
<1>7. CASE \E i \in Calls : Refuse(i) \/ Lose(i)
  BY <1>7, OverInv
<1>8. CASE \E i \in Calls : Reply(i)
  BY <1>8, ReplyInv
<1>9. CASE Elsewhere
  BY <1>9, ElsewhereInv
<1>10. CASE UNCHANGED vars
  BY <1>10 DEF vars, IInv, Typed, ClicksOfTab, Outdated, Reads, TenantReads, LandlordReads,
               Refreshes, AnswerRefreshes
<1> QED
  BY <1>1, <1>2, <1>3, <1>4, <1>5, <1>6, <1>7, <1>8, <1>9, <1>10 DEF Next

LEMMA Invariant == Spec => []IInv
BY InitInv, NextInv, PTL DEF Spec
-----------------------------------------------------------------------------
(* The theorems. *)

\* Every variable keeps its type, the query cache its facts, and late is a part of
\* behind (TypeOK).
THEOREM ScreensTypes == Spec => []TypeOK
<1>1. IInv => TypeOK
  <2> SUFFICES ASSUME IInv PROVE TypeOK
    OBVIOUS
  <2>1. cache \in [Keys -> Entries(SUBSET FactNames)]
    BY DEF IInv, Typed, EntryType, Answers
  <2>2. \A i \in Calls : calls[i].at \in {"unused", "sent", "served", "done"}
    BY DEF IInv, Typed, CallType
  <2> QED
    BY <2>1, <2>2 DEF IInv, Typed, DbType, TypeOK
<1> QED
  BY Invariant, <1>1, PTL

\* However the request of a click overlaps refetches, other clicks and others' steps,
\* what it outdated on its tab is not taken for up to date once its success has come
\* (OwnWritesShow; the onSuccess of the eight mutations).
THEOREM SuccessIsShown == Spec => []OwnWritesShow
<1>1. IInv => OwnWritesShow
  BY DEF IInv, Outdated, OwnWritesShow
<1> QED
  BY Invariant, <1>1, PTL

\* The buttons of a tab whose entries have what the tables have.
LEMMA OffersAccepted ==
  ASSUME IInv, \A k \in Reads(tab, cache) : cache[k].data = Facts(db, role, k),
         NEW o \in Offers
  PROVE  \/ Accepts(db, role, o)
         \/ tab = "incoming" /\ ~(db.profile = "active" /\ db.listing = "active")
         \/ tab = "outgoing" /\ OwnStatus(db, role) = "deleted"
         \/ o = "publish" /\ db.listing = "paused" /\ ~db.photo
<1>1. /\ db \in DbType /\ role \in Roles /\ tab \in Tabs /\ Paired(db)
  BY DEF IInv, Typed
<1>2. \A k, fact : Shows(k, fact) => fact \in Facts(db, role, k)
  BY DEF Shows
<1>3. CASE tab = "own" /\ role = "tenant"
  <2>1. cache["mine"].data = Facts(db, role, "mine")
    BY <1>3 DEF Reads, TenantReads
  <2>2. Facts(db, role, "mine") = {db.profile} \ {"deleted"}
    BY <1>3 DEF Facts, OwnStatus
  <2>3. Facts(db, role, "mine") # {} => db.profile # "deleted"
    BY <2>2
  <2>4. o \in {"activate", "deactivate", "delete"} /\ Facts(db, role, "mine") # {}
    BY <1>2, <1>3, <2>1 DEF Offers, MyProfileCard, IncomingEnabled
  <2> QED
    BY <1>3, <2>3, <2>4 DEF Accepts, OwnStatus
<1>4. CASE tab = "own" /\ role = "landlord"
  <2>1. Facts(db, role, "mine")
          = ({db.listing} \ {"deleted"}) \cup (IF db.photo THEN {"photo"} ELSE {})
    BY <1>4 DEF Facts, OwnStatus
  <2>2. ASSUME NEW st \in ListingStatus, Shows("mine", st)
        PROVE  db.listing = st /\ st # "deleted"
    BY <1>2, <2>1, <2>2 DEF ListingStatus
  <2>3. Shows("mine", "photo") => db.photo
    BY <1>1, <1>2, <2>1 DEF DbType, ListingStatus
  <2>4. o \in ListingMgmtCard
    BY <1>4 DEF Offers
  <2>5. CASE o \in {"pause", "rent", "delete"}
    <3>1. db.listing # "deleted"
      BY <2>2, <2>4, <2>5 DEF ListingMgmtCard, ListingStatus
    <3> QED
      BY <1>4, <2>5, <3>1 DEF Accepts, OwnStatus
  <2>6. CASE o = "publish"
    <3>1. CanPublish
      BY <2>4, <2>6 DEF ListingMgmtCard
    <3> QED
      BY <1>1, <2>2, <2>3, <2>6, <3>1 DEF CanPublish, Accepts, ListingStatus, DbType
  <2> QED
    BY <2>4, <2>5, <2>6 DEF ListingMgmtCard
<1>5. CASE tab = "browse"
  <2>1. o = "express" /\ "open" \in Facts(db, role, "browse")
    BY <1>2, <1>5 DEF Offers, TenantBrowseTab, LandlordBrowseTab
  <2>2. "open" \notin Refused
    BY AnswersAssumption DEF Refused, FactNames
  <2>3. OwnStatus(db, role) = "active" /\ OwnStatus(db, Other(role)) = "active"
    BY <2>1, <2>2 DEF Facts
  <2> QED
    BY <1>1, <2>1, <2>3 DEF Accepts, OwnStatus, Other, Roles
<1>6. CASE tab = "incoming"
  <2>1. o = "express"
    BY <1>6 DEF Offers, ProfileIncoming, LandlordIncomingTab
  <2> QED
    BY <1>6, <2>1 DEF Accepts
<1>7. CASE tab = "outgoing"
  <2>1. o = "withdraw" /\ "sent" \in Facts(db, role, "outgoing")
    BY <1>2, <1>7 DEF Offers, TenantOutgoingTab, LandlordOutgoingTab
  <2>2. Unanswered(db, role)
    BY <2>1 DEF Facts
  <2>3. db.match = "none"
    BY <1>1, <2>2 DEF Unanswered, Other, Paired, Roles
  <2> QED
    BY <1>7, <2>1, <2>3 DEF Accepts
<1>8. CASE tab = "matched"
  BY <1>8 DEF Offers
<1> QED
  BY <1>1, <1>3, <1>4, <1>5, <1>6, <1>7, <1>8 DEF Tabs, Roles

\* Whatever the two sides and other windows did before, a page that is up to date offers
\* nothing the server refuses, but for the exceptions OfferedIsAccepted names.
THEOREM OffersAreAccepted == Spec => []OfferedIsAccepted
<1>1. IInv => OfferedIsAccepted
  BY OffersAccepted DEF OfferedIsAccepted
<1> QED
  BY Invariant, <1>1, PTL
=============================================================================
