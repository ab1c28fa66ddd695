------------------------------ MODULE Editors -------------------------------
(***************************************************************************)
(* The four forms a user edits: a listing, a tenant profile, the viewing   *)
(* hours of a listing and the account.  A form shows a copy of what the    *)
(* query cache holds and sends it back; the handlers write the row and the *)
(* contact, which belongs to the user.  Other windows of the user write    *)
(* the same rows.  A behaviour is about one kind of form; lists start      *)
(* with a row in them.                                                     *)
(***************************************************************************)
EXTENDS QueryCache, Drafts, FiniteSets

CONSTANTS Absent,         \* the content of a row there is not
          MaxRows, MaxForms, MaxEvents,    \* bounds: rows, forms opened, what others do
          Calls,          \* the requests there can be (a bound)
          Limit           \* maxTenantProfiles

ASSUME EditorsAssumption == MaxRows \in Nat \ {0} /\ MaxForms \in Nat /\ Limit \in Nat \ {0}
ASSUME AbsentAssumption == \A k \in Kinds : Absent \notin DraftType(k)

Rows == 1 .. MaxRows
New == 0                  \* the row of a form that creates one
Contacts == {"empty", "a", "b"}

VARIABLES kind, wish,     \* the form, and the one thing there is to type (a bound)
          row, contact,   \* the table, and users.contact_info
          entry,          \* the query cache
          mine,           \* contact_info as the page last read it
          form, calls,
          events,
          latest, made, together, unread    \* history: see ChangeContact, Write, CountProfiles

vars == <<kind, wish, row, contact, entry, mine, form, calls, events, latest, made, together,
          unread>>
chosen == <<kind, wish>>
page == <<entry, mine, form>>
history == <<latest, made, together, unread>>

Live == {x \in Rows : row[x] # Absent}
InPlace == kind \in {"availability", "account"}       \* a page of its own, never closed
HasContact == kind \in {"listing", "profile"}

\* Profiles are edited from their list, the others have a query for each row.
Key(x) == IF kind = "profile" THEN New ELSE x
Keys == Rows \cup {New}
Facts(k) == {<<x, row[x]>> : x \in {y \in Live : Key(y) = k}}

Known(e, x) == {f \in e.data : Loaded(e) /\ f[1] = x}
Copy(e, x) == (CHOOSE f \in Known(e, x) : TRUE)[2]
Listed(e) == {x \in Rows : Known(e, x) # {}}
-----------------------------------------------------------------------------
(* The form. *)

Closed == [at |-> "closed", of |-> New, draft |-> Defaults(kind), from |-> New,
           no |-> 0, busy |-> FALSE]

\* from is the row whose values the form was last given.
Fill(f, e) ==
  IF Known(e, f.of) = {} THEN f
  ELSE [f EXCEPT !.draft = Hydrated(kind, Copy(e, f.of)), !.from = f.of]

Blanked(x) == [Closed EXCEPT !.at = "open", !.of = x, !.no = form.no + 1]

\* The hours of another listing are chosen in the same form, which keeps what it
\* shows until it has theirs.
Base(x) ==
  IF kind = "availability" /\ form.at = "open"
  THEN [form EXCEPT !.of = x, !.no = @ + 1] ELSE Blanked(x)

OpenFill_NewsOnly(f, e) == f

OpenFill(f, e) == Fill(f, e)

Open(x, old) ==
  LET e == IF kind = "profile" THEN entry[Key(x)] ELSE Mounted(entry[Key(x)], old)  IN
  /\ form.no < MaxForms
  /\ form.at = "closed" \/ (kind = "availability" /\ form.of # x)
  /\ IF kind = "profile" THEN x \in Listed(entry[New]) ELSE row[x] # Absent
  /\ entry' = [entry EXCEPT ![Key(x)] = e]
  /\ form' = OpenFill(Base(x), e)
  /\ UNCHANGED <<chosen, row, contact, mine, calls, events, history>>

OpenNew ==
  /\ HasContact
  /\ form.no < MaxForms /\ form.at = "closed"
  /\ kind = "profile" => Cardinality(Listed(entry[New])) < Limit
  /\ form' = Blanked(New)
  /\ UNCHANGED <<chosen, row, contact, entry, mine, calls, events, history>>

Type ==
  /\ form.at = "open"
  /\ form' = [form EXCEPT !.draft = wish]
  /\ UNCHANGED <<chosen, row, contact, entry, mine, calls, events, history>>

\* Nothing is cancelled: a request goes on and is heard by the list.
Close ==
  /\ ~InPlace /\ form.at # "closed"
  /\ form' = [Closed EXCEPT !.no = form.no]
  /\ UNCHANGED <<chosen, row, contact, entry, mine, calls, events, history>>

\* News of the row fill the form again, whatever was typed; a profile's form took
\* its copy when it was opened.
Receive(k) ==
  LET e == Received(entry[k])  IN
  /\ entry[k].at = "answered"
  /\ entry' = [entry EXCEPT ![k] = e]
  /\ form' = IF e.data # entry[k].data /\ form.at = "open" /\ kind # "profile" /\ form.of = k
             THEN Fill(form, e) ELSE form
  /\ UNCHANGED <<chosen, row, contact, mine, calls, events, history>>

Answer(k) ==
  /\ entry[k].at = "asked"
  /\ entry' = [entry EXCEPT ![k] = Answered(@, Facts(k))]
  /\ UNCHANGED <<chosen, row, contact, mine, form, calls, events, history>>

\* /profile/me, read again when its 30 s are over and the window has the focus.
RereadContact ==
  /\ HasContact /\ mine # contact
  /\ mine' = contact
  /\ UNCHANGED <<chosen, row, contact, entry, form, calls, events, history>>
-----------------------------------------------------------------------------
(* Saving. *)

Unused == [at |-> "unused", by |-> "page", of |-> New, sent |-> Absent, contact |-> "empty",
           no |-> 0]
Done == [Unused EXCEPT !.at = "done"]

MaySubmit_Twice == HasContact => mine # "empty"

MaySubmit == ~form.busy /\ (HasContact => mine # "empty")

Submit(i) ==
  /\ form.at = "open" /\ MaySubmit
  /\ ClientAccepts(kind, form.draft, form.of = New)
  /\ calls[i].at = "unused"
  /\ calls' = [calls EXCEPT ![i] = [Unused EXCEPT !.at = "sent", !.of = form.of, !.contact = mine,
                                      !.sent = Payload(kind, form.draft), !.no = form.no]]
  /\ form' = [form EXCEPT !.busy = TRUE]
  /\ UNCHANGED <<chosen, row, contact, entry, mine, events, history>>

Goes(i, at) == calls' = [calls EXCEPT ![i].at = at]
Valid(i) == ServerAccepts(kind, calls[i].sent, calls[i].of = New)
Creates(i) == kind = "profile" /\ calls[i].of = New
Counted == {i \in Calls : calls[i].at = "counted"}

Refuse(i) ==
  /\ calls[i].at = "sent" /\ ~Valid(i)
  /\ Goes(i, "refused")
  /\ UNCHANGED <<chosen, row, contact, page, events, history>>

TooMany_OffByOne(n) == n > Limit
TooMany(n) == n >= Limit

\* together is the most creations there were at once between the count and the insert,
\* and one at the least.
LetIn(i) ==
  LET n == Cardinality(Counted) + 1  IN
  Goes(i, "counted") /\ together' = IF n > together THEN n ELSE together

CountProfiles(i) ==
  /\ calls[i].at = "sent" /\ Valid(i) /\ Creates(i)
  /\ IF TooMany(Cardinality(Live)) THEN Goes(i, "failed") /\ UNCHANGED together ELSE LetIn(i)
  /\ UNCHANGED <<chosen, row, contact, page, events, latest, made, unread>>

\* An empty contact never replaces one.
SetContact(c) == contact' = IF c = "empty" THEN contact ELSE c

\* A listing is written before the contact, a profile with it.  made counts the rows
\* of each form.
Write(i) ==
  LET c == calls[i]
      x == IF c.of = New THEN CHOOSE y \in Rows \ Live : \A z \in Rows \ Live : y <= z
           ELSE c.of  IN
  /\ IF Creates(i) THEN c.at = "counted" ELSE c.at = "sent" /\ Valid(i)
  /\ c.of = New => Live # Rows
  /\ row' = [row EXCEPT ![x] = Stored(kind, c.sent)]
  /\ IF kind = "profile" THEN SetContact(c.contact) ELSE UNCHANGED contact
  /\ Goes(i, IF kind = "listing" THEN "written" ELSE "served")
  /\ made' = IF c.of = New /\ c.by = "page" THEN [made EXCEPT ![c.no] = @ + 1] ELSE made
  /\ UNCHANGED <<chosen, page, events, latest, together, unread>>

WriteContact(i) ==
  /\ calls[i].at = "written"
  /\ SetContact(calls[i].contact)
  /\ Goes(i, "served")
  /\ UNCHANGED <<chosen, row, page, events, history>>

\* The form a request came from, unless it was closed meanwhile.
Heard(i) == InPlace \/ calls[i].no = form.no

\* A late success closes whatever form is open.  A listing that was created is
\* kept open for its photos.
FormServed(i) ==
  CASE InPlace -> [form EXCEPT !.busy = FALSE]
    [] kind = "listing" /\ calls[i].of = New ->
         IF Heard(i) /\ form.at = "open" THEN [form EXCEPT !.at = "photos", !.busy = FALSE] ELSE form
    [] OTHER -> [Closed EXCEPT !.no = form.no]

\* The hours and the copy a listing's form is filled with are not read again.
Refreshes == kind \in {"profile", "account"}

Served(i) ==
  /\ calls[i].at = "served" /\ calls[i].by = "page"
  /\ calls' = [calls EXCEPT ![i] = Done]
  /\ form' = FormServed(i)
  /\ entry' = IF Refreshes THEN [entry EXCEPT ![Key(calls[i].of)] = Invalidated(@, TRUE)] ELSE entry
  /\ UNCHANGED <<chosen, row, contact, mine, events, history>>

NotServed(i) ==
  /\ calls[i].at \in {"refused", "failed"} /\ calls[i].by = "page"
  /\ calls' = [calls EXCEPT ![i] = Done]
  /\ form' = IF Heard(i) THEN [form EXCEPT !.busy = FALSE] ELSE form
  /\ UNCHANGED <<chosen, row, contact, entry, mine, events, history>>
-----------------------------------------------------------------------------
(* The rest of the world. *)

Event == events < MaxEvents /\ events' = events + 1

\* The process or the connection ends in a handler, or the answer is lost: what was
\* written stays, and the form it came from may be sent again.
Die(i) ==
  /\ Event
  /\ calls[i].by = "page" /\ calls[i].at \in {"sent", "counted", "written", "served"}
  /\ Goes(i, "failed")
  /\ made' = IF calls[i].of = New /\ calls[i].at \in {"written", "served"}
             THEN [made EXCEPT ![calls[i].no] = @ - 1] ELSE made
  /\ UNCHANGED <<chosen, row, contact, page, latest, together, unread>>

\* The error of the count is ignored, and none is below the limit.
CountFails(i) ==
  /\ Event
  /\ calls[i].at = "sent" /\ Valid(i) /\ Creates(i)
  /\ LetIn(i) /\ unread' = unread + 1
  /\ UNCHANGED <<chosen, row, contact, page, latest, made>>

\* latest is what was last set on an account page.
ChangeContact(c) ==
  /\ Event
  /\ HasContact /\ contact # c
  /\ contact' = c /\ latest' = c
  /\ UNCHANGED <<chosen, row, page, calls, made, together, unread>>

ChangeRow(x) ==
  /\ Event
  /\ x \in Live
  /\ ClientAccepts(kind, wish, FALSE) /\ ServerAccepts(kind, Payload(kind, wish), FALSE)
  /\ row' = [row EXCEPT ![x] = Stored(kind, Payload(kind, wish))]
  /\ UNCHANGED <<chosen, contact, page, calls, history>>

CreateElsewhere(i) ==
  /\ Event
  /\ kind = "profile" /\ calls[i].at = "unused"
  /\ calls' = [calls EXCEPT ![i] = [Unused EXCEPT !.at = "sent", !.by = "other",
                                      !.sent = Filled(kind), !.contact = contact]]
  /\ UNCHANGED <<chosen, row, contact, page, history>>

Init ==
  /\ kind \in Kinds /\ wish \in DraftsOf(kind)
  /\ row = [x \in Rows |->
             IF x = 1 \/ (x = 2 /\ kind \in {"listing", "availability"})
             THEN Stored(kind, Payload(kind, Filled(kind))) ELSE Absent]
  /\ contact = "a" /\ mine = "a" /\ latest = "a"
  /\ entry = [k \in Keys |->
               IF kind = "profile" /\ k = New
               THEN [Empty EXCEPT !.data = Facts(New), !.stale = FALSE]
               ELSE IF kind = "account" /\ k = 1 THEN Asked(Empty) ELSE Empty]
  /\ form = IF kind = "account" THEN [Closed EXCEPT !.at = "open", !.of = 1] ELSE Closed
  /\ calls = [i \in Calls |-> Unused]
  /\ events = 0
  /\ made = [n \in 0..MaxForms |-> 0] /\ together = 1 /\ unread = 0

Next ==
  \/ \E x \in Rows : (\E old \in BOOLEAN : Open(x, old)) \/ ChangeRow(x)
  \/ OpenNew \/ Close \/ Type
  \/ \E k \in Keys : Receive(k) \/ Answer(k)
  \/ RereadContact \/ (\E c \in Contacts : ChangeContact(c))
  \/ \E i \in Calls :
       \/ Submit(i) \/ Refuse(i) \/ CountProfiles(i) \/ CountFails(i) \/ Write(i) \/ WriteContact(i)
       \/ Served(i) \/ NotServed(i) \/ Die(i) \/ CreateElsewhere(i)

Spec == Init /\ [][Next]_vars
-----------------------------------------------------------------------------
TypeOK ==
  /\ kind \in Kinds /\ contact \in Contacts /\ mine \in Contacts /\ latest \in Contacts
  /\ Live # {}
  /\ \A k \in Keys : /\ entry[k].at \in {"idle", "asked", "answered"}
                     /\ Loaded(entry[k]) => \A f \in entry[k].data : f[1] \in Rows
  /\ form.at \in {"closed", "open", "photos"}
  /\ form.of \in Rows \cup {New} /\ form.from \in Rows \cup {New}
  /\ DOMAIN form.draft = DOMAIN Defaults(kind)
  /\ \A i \in Calls : calls[i].of \in Rows \cup {New} /\ calls[i].contact \in Contacts
  /\ made \in [0..MaxForms -> Int] /\ together \in Nat \ {0} /\ unread \in Nat

\* Once a form has the values of the row it saves to, it shows those, or what was
\* typed over them, and never another row's, however rows are switched and answers
\* come in (LandlordViewingsView.tsx:63-90, ListingFormModal.tsx:449-484).
FormOfRow ==
  form.at = "open" /\ form.of # New /\ Known(entry[Key(form.of)], form.of) # {}
    => form.from = form.of

\* A form that creates makes one row, or one more for every answer it was denied
\* after the row was written (listings.go:217-219).
CreatedOnce == \A n \in DOMAIN made : made[n] <= 1

\* The limit is a count before the insert with no lock: n creations that are between the
\* two at once pass it by n - 1 profiles, a count that fails by one, and nothing else does,
\* from whatever forms and windows they come and whichever die (tenant_profiles.go:187-225).
OverByOverlapOnly ==
  kind = "profile" => Cardinality(Live) <= Limit + together - 1 + unread

\* What a form lets through, the server accepts, but for the cases KnownRefusal
\* lists (ListingFormModal.tsx:600-724, listings.go:134-170).
RefusedOnlyKnown ==
  \A i \in Calls : calls[i].at = "refused" => KnownRefusal(kind, calls[i].sent)

\* A row that is opened and saved untouched keeps what it has, but for the cases
\* KnownRewrite lists (ListingFormModal.tsx:452-512).
UntouchedKept ==
  \A x \in Live :
    \/ KnownRewrite(kind, row[x])
    \/ Stored(kind, Payload(kind, Hydrated(kind, row[x]))) = row[x]

\* "Contact info is a user-level value set once at /account"; a save sends "the
\* current /account value" (ListingFormModal.tsx:401, 494).
ContactAsSet == contact = latest
=============================================================================
