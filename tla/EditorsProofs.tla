---------------------------- MODULE EditorsProofs ----------------------------
(***************************************************************************)
(* Proofs about Editors.tla, for any number of rows, forms, requests and   *)
(* events: a form has its row's values, none creates two rows, profiles    *)
(* pass their limit by overlap only, the sides disagree only as known.     *)
(***************************************************************************)
EXTENDS Editors, FiniteSetTheorems, TLAPS

Ats == {"unused", "sent", "counted", "written", "served", "refused", "failed", "done"}

FormType(draft) ==
  [at : {"closed", "open", "photos"}, of : Rows \cup {New}, draft : {draft},
   from : Rows \cup {New}, no : 0..MaxForms, busy : BOOLEAN]

CallType(sent, c) ==
  [at : Ats, by : {"page", "other"}, of : Rows \cup {New}, sent : {sent}, contact : {c},
   no : 0..MaxForms]

EntryType(data, got) ==
  [data : {data}, stale : BOOLEAN, at : {"idle", "asked", "answered"}, got : {got}]

IsForm(f) == f \in FormType(f.draft)
IsCall(c) == c \in CallType(c.sent, c.contact)
IsEntry(e) == e \in EntryType(e.data, e.got)

WellTyped ==
  /\ kind \in Kinds /\ IsForm(form)
  /\ calls = [i \in Calls |-> calls[i]] /\ \A i \in Calls : IsCall(calls[i])
  /\ entry = [k \in Keys |-> entry[k]] /\ \A k \in Keys : IsEntry(entry[k])
  /\ row = [x \in Rows |-> row[x]]
  /\ made \in [0..MaxForms -> Int]

\* A profile's form has its copy from the moment it is opened.
CopiedAtOpen ==
  kind = "profile" /\ form.at = "open" /\ form.of # New => form.from = form.of

\* The requests of the page that are not over.
Pending(i) == calls[i].by = "page" /\ calls[i].at \notin {"unused", "done"}
Inserted(i) == calls[i].of = New /\ calls[i].at \in {"written", "served"}

\* A form waits for its one request.
OneRequest ==
  /\ \A i, j \in Calls : Pending(i) /\ Pending(j) /\ calls[i].no = calls[j].no => i = j
  /\ \A i \in Calls :
       Pending(i) => /\ calls[i].no <= form.no
                     /\ calls[i].no = form.no /\ form.at = "open" => form.busy

\* A form whose row is there is closed, kept for its photos, or waits for the answer;
\* a request that has not made its row belongs to a form that has none.
OneRow ==
  /\ \A n \in 0..MaxForms :
       made[n] > 0 =>
         /\ n <= form.no
         /\ n = form.no /\ form.at = "open" =>
              \E i \in Calls : Pending(i) /\ Inserted(i) /\ calls[i].no = n
  /\ \A i \in Calls :
       Pending(i) /\ calls[i].of = New /\ ~Inserted(i) => made[calls[i].no] <= 0

CreatingForms == HasContact => OneRequest /\ OneRow

\* The hours and the account are never created.
NothingNew ==
  InPlace =>
    /\ form.at = "open" => form.of # New
    /\ \A i \in Calls : Pending(i) => calls[i].of # New
    /\ \A n \in 0..MaxForms : made[n] <= 0

IInv ==
  /\ WellTyped /\ FormOfRow /\ CopiedAtOpen
  /\ CreatedOnce /\ CreatingForms /\ NothingNew
-----------------------------------------------------------------------------
(* What a step does to the forms and the requests. *)

Kept == UNCHANGED <<calls, made>>
SameForm ==
  form'.at = form.at /\ form'.of = form.of /\ form'.no = form.no /\ form'.busy = form.busy

Stays == Kept /\ SameForm

Opens ==
  /\ Kept
  /\ form'.at = "open" /\ form'.no = form.no + 1
  /\ InPlace => form'.of # New

Closes == Kept /\ form'.at = "closed" /\ form'.no = form.no

Submits(i) ==
  /\ form.at = "open" /\ ~form.busy
  /\ form'.at = "open" /\ form'.of = form.of /\ form'.no = form.no /\ form'.busy
  /\ calls[i].at = "unused"
  /\ calls'[i].at = "sent" /\ calls'[i].by = "page"
  /\ calls'[i].of = form.of /\ calls'[i].no = form.no
  /\ made' = made

KeepsCall(i) ==
  calls'[i].by = calls[i].by /\ calls'[i].of = calls[i].of /\ calls'[i].no = calls[i].no

Proceeds(i) ==
  /\ KeepsCall(i) /\ SameForm
  /\ calls[i].at \in {"sent", "counted", "written"}
  /\ calls'[i].at \in {"counted", "written", "served", "refused", "failed"}
  /\ calls[i].by = "page" => (Inserted(i) <=> Inserted(i)')
  /\ made' = made

Inserts(i) ==
  /\ KeepsCall(i) /\ SameForm
  /\ calls[i].by = "page" /\ calls[i].of = New
  /\ calls[i].at \in {"sent", "counted"} /\ calls'[i].at \in {"written", "served"}
  /\ made' = [made EXCEPT ![calls[i].no] = @ + 1]

Dies(i) ==
  /\ KeepsCall(i) /\ SameForm
  /\ calls[i].by = "page"
  /\ calls[i].at \in {"sent", "counted", "written", "served"} /\ calls'[i].at = "failed"
  /\ made' = IF Inserted(i) THEN [made EXCEPT ![calls[i].no] = @ - 1] ELSE made

\* An answer closes the form, or tells the one it came from that its request failed.
Ends(i) ==
  /\ Pending(i) /\ calls'[i].at = "done"
  /\ form'.no = form.no
  /\ form'.at = "open" =>
       /\ form.at = "open" /\ form'.of = form.of
       /\ HasContact =>
            \/ form'.busy = form.busy /\ calls[i].no # form.no
            \/ calls[i].at \in {"refused", "failed"} /\ calls[i].no = form.no
  /\ made' = made

StartsElsewhere(i) ==
  calls[i].at = "unused" /\ calls'[i].by = "other" /\ SameForm /\ made' = made

Moves(i) ==
  \/ Submits(i) \/ Proceeds(i) \/ Inserts(i) \/ Dies(i) \/ Ends(i) \/ StartsElsewhere(i)

OneMoves(i) == Moves(i) /\ \A j \in Calls : j # i => calls'[j] = calls[j]
-----------------------------------------------------------------------------
(* No form creates two rows. *)

\* As long as the form and the other requests are as they were.
LEMMA OnceIfStays ==
  ASSUME WellTyped, CreatedOnce, CreatingForms, NothingNew, kind' = kind, Stays
  PROVE  CreatedOnce' /\ CreatingForms' /\ NothingNew'
<1>1. calls' = calls /\ made' = made /\ SameForm
  BY DEF Stays, Kept
<1>2. CreatedOnce'
  BY <1>1 DEF CreatedOnce
<1>3. CreatingForms'
  BY <1>1 DEF CreatingForms, HasContact, OneRequest, OneRow, Pending, Inserted, SameForm
<1>4. NothingNew'
  BY <1>1 DEF NothingNew, InPlace, Pending, SameForm
<1> QED
  BY <1>2, <1>3, <1>4

LEMMA OnceIfOpens ==
  ASSUME WellTyped, CreatedOnce, CreatingForms, NothingNew, kind' = kind, Opens
  PROVE  CreatedOnce' /\ CreatingForms' /\ NothingNew'
<1>1. calls' = calls /\ made' = made /\ form'.no = form.no + 1 /\ form'.at = "open"
  BY DEF Opens, Kept
<1>2. /\ form.no \in 0..MaxForms /\ \A i \in Calls : calls[i].no \in 0..MaxForms
  BY DEF WellTyped, IsForm, FormType, IsCall, CallType
<1>3. CreatedOnce'
  BY <1>1 DEF CreatedOnce
<1>4. ASSUME OneRequest, OneRow PROVE OneRequest' /\ OneRow'
  <2>1. \A i \in Calls : Pending(i) => calls[i].no <= form.no
    BY <1>4 DEF OneRequest
  <2>2. \A i \in Calls : Pending(i) => calls[i].no <= form.no + 1 /\ calls[i].no # form.no + 1
    BY <1>2, <2>1
  <2>3. OneRequest'
    BY <1>1, <1>4, <2>2 DEF OneRequest, Pending
  <2>4. \A n \in 0..MaxForms : made[n] > 0 => n <= form.no + 1 /\ n # form.no + 1
    BY <1>2, <1>4 DEF OneRow
  <2>5. OneRow'
    BY <1>1, <1>4, <2>4 DEF OneRow, Pending, Inserted
  <2> QED
    BY <2>3, <2>5
<1>5. CreatingForms'
  BY <1>4 DEF CreatingForms, HasContact
<1>6. NothingNew'
  BY <1>1 DEF NothingNew, InPlace, Pending, Opens
<1> QED
  BY <1>3, <1>5, <1>6

LEMMA OnceIfCloses ==
  ASSUME WellTyped, CreatedOnce, CreatingForms, NothingNew, kind' = kind, Closes
  PROVE  CreatedOnce' /\ CreatingForms' /\ NothingNew'
<1>1. calls' = calls /\ made' = made /\ form'.no = form.no /\ form'.at = "closed"
  BY DEF Closes, Kept
<1>2. CreatedOnce'
  BY <1>1 DEF CreatedOnce
<1>3. CreatingForms'
  BY <1>1 DEF CreatingForms, HasContact, OneRequest, OneRow, Pending, Inserted
<1>4. NothingNew'
  BY <1>1 DEF NothingNew, InPlace, Pending
<1> QED
  BY <1>2, <1>3, <1>4

LEMMA OnceIfMoves ==
  ASSUME WellTyped, CreatedOnce, CreatingForms, NothingNew, kind' = kind,
         NEW i \in Calls, OneMoves(i)
  PROVE  CreatedOnce' /\ CreatingForms' /\ NothingNew'
<1>1. \A j \in Calls : j # i => calls'[j] = calls[j]
  BY DEF OneMoves
<1>2. /\ made \in [0..MaxForms -> Int] /\ form.no \in 0..MaxForms
      /\ \A j \in Calls : calls[j].no \in 0..MaxForms
  BY DEF WellTyped, IsForm, FormType, IsCall, CallType
<1>3. DOMAIN made = 0..MaxForms
  BY <1>2
<1>4. CASE Submits(i)
  <2>1. CreatedOnce'
    BY <1>4 DEF Submits, CreatedOnce
  <2>2. ASSUME OneRequest, OneRow PROVE OneRequest' /\ OneRow'
    <3>1. \A j \in Calls : Pending(j) => calls[j].no <= form.no /\ calls[j].no # form.no
      BY <1>4, <2>2 DEF Submits, OneRequest
    <3>2. OneRequest'
      BY <1>1, <1>2, <1>4, <2>2, <3>1 DEF Submits, OneRequest, Pending
    <3>3. \A n \in 0..MaxForms : made[n] > 0 => n <= form.no /\ n # form.no
      BY <1>4, <2>2, <3>1 DEF Submits, OneRow
    <3>4. made[form.no] <= 0
      BY <1>2, <3>3
    <3>5. OneRow'
      BY <1>1, <1>4, <2>2, <3>3, <3>4 DEF Submits, OneRow, Pending, Inserted
    <3> QED
      BY <3>2, <3>5
  <2>3. CreatingForms'
    BY <2>2 DEF CreatingForms, HasContact
  <2>4. NothingNew'
    BY <1>1, <1>4 DEF Submits, NothingNew, InPlace, Pending
  <2> QED
    BY <2>1, <2>3, <2>4
<1>5. CASE Proceeds(i)
  <2>1. CreatedOnce'
    BY <1>5 DEF Proceeds, CreatedOnce
  <2>2. ASSUME OneRequest, OneRow PROVE OneRequest' /\ OneRow'
    <3>1. \A j \in Calls : /\ Pending(j)' <=> Pending(j)
                           /\ calls'[j].no = calls[j].no /\ calls'[j].of = calls[j].of
                           /\ Pending(j) => (Inserted(j)' <=> Inserted(j))
      BY <1>1, <1>5 DEF Proceeds, KeepsCall, Pending, Inserted
    <3>2. SameForm /\ made' = made
      BY <1>5 DEF Proceeds
    <3>3. OneRequest'
      BY <2>2, <3>1, <3>2 DEF OneRequest, SameForm
    <3>4. OneRow'
      BY <2>2, <3>1, <3>2 DEF OneRow, SameForm
    <3> QED
      BY <3>3, <3>4
  <2>3. CreatingForms'
    BY <2>2 DEF CreatingForms, HasContact
  <2>4. NothingNew'
    BY <1>1, <1>5 DEF Proceeds, KeepsCall, NothingNew, InPlace, Pending, SameForm
  <2> QED
    BY <2>1, <2>3, <2>4
<1>6. CASE Inserts(i)
  <2> DEFINE m == calls[i].no
  <2>1. /\ m \in 0..MaxForms /\ made'[m] = made[m] + 1 /\ DOMAIN made' = 0..MaxForms
        /\ \A n \in 0..MaxForms : n # m => made'[n] = made[n]
    BY <1>2, <1>6 DEF Inserts
  <2>2. Pending(i) /\ calls[i].of = New /\ ~Inserted(i)
    BY <1>6 DEF Inserts, Pending, Inserted
  <2>3. HasContact /\ ~InPlace
    BY <2>2 DEF NothingNew, HasContact, InPlace, WellTyped, Kinds
  <2>4. OneRequest /\ OneRow /\ made[m] <= 0
    BY <2>2, <2>3 DEF CreatingForms, OneRow
  <2>5. CreatedOnce'
    BY <1>2, <1>3, <2>1, <2>4 DEF CreatedOnce
  <2>6. \A j \in Calls : /\ Pending(j)' <=> Pending(j)
                         /\ calls'[j].no = calls[j].no /\ calls'[j].of = calls[j].of
                         /\ j # i => (Inserted(j)' <=> Inserted(j))
    BY <1>1, <1>6 DEF Inserts, KeepsCall, Pending, Inserted
  <2>7. Pending(i)' /\ Inserted(i)'
    BY <1>6, <2>2, <2>6 DEF Inserts, KeepsCall, Inserted
  <2>8. SameForm
    BY <1>6 DEF Inserts
  <2>9. OneRequest'
    BY <2>4, <2>6, <2>8 DEF OneRequest, SameForm
  <2>10. \A j \in Calls : Pending(j) /\ j # i => calls[j].no # m
    BY <2>2, <2>4 DEF OneRequest
  <2>11. m <= form.no
    BY <2>2, <2>4 DEF OneRequest
  <2>12. OneRow'
    <3>1. ASSUME NEW n \in 0..MaxForms, made'[n] > 0
          PROVE  /\ n <= form'.no
                 /\ n = form'.no /\ form'.at = "open" =>
                      \E j \in Calls : Pending(j)' /\ Inserted(j)' /\ calls'[j].no = n
      <4>1. CASE n = m
        BY <2>6, <2>7, <2>8, <2>11, <4>1 DEF SameForm
      <4>2. CASE n # m
        <5>1. made[n] > 0
          BY <2>1, <3>1, <4>2
        <5>2. /\ n <= form.no
              /\ n = form.no /\ form.at = "open" =>
                   \E j \in Calls : Pending(j) /\ Inserted(j) /\ calls[j].no = n
          BY <2>4, <5>1 DEF OneRow
        <5> QED
          BY <2>2, <2>6, <2>8, <5>2 DEF SameForm
      <4> QED
        BY <4>1, <4>2
    <3>2. ASSUME NEW j \in Calls, Pending(j)', calls'[j].of = New, ~Inserted(j)'
          PROVE  made'[calls'[j].no] <= 0
      <4>1. j # i /\ Pending(j) /\ calls[j].of = New /\ ~Inserted(j)
        BY <2>6, <2>7, <3>2
      <4>2. made[calls[j].no] <= 0 /\ calls[j].no # m
        BY <2>4, <2>10, <4>1 DEF OneRow
      <4> QED
        BY <1>2, <2>1, <2>6, <4>2
    <3> QED
      BY <3>1, <3>2 DEF OneRow
  <2> QED
    BY <2>3, <2>5, <2>9, <2>12 DEF CreatingForms, NothingNew, HasContact, InPlace
<1>7. CASE Dies(i)
  <2>1. \A j \in Calls : /\ Pending(j)' <=> Pending(j)
                         /\ calls'[j].no = calls[j].no /\ calls'[j].of = calls[j].of
                         /\ j # i => (Inserted(j)' <=> Inserted(j))
    BY <1>1, <1>7 DEF Dies, KeepsCall, Pending, Inserted
  <2>2. SameForm /\ Pending(i) /\ ~Inserted(i)'
    BY <1>7 DEF Dies, Pending, Inserted
  <2>3. /\ DOMAIN made' = 0..MaxForms
        /\ \A n \in 0..MaxForms :
             made'[n] = IF n = calls[i].no /\ Inserted(i) THEN made[n] - 1 ELSE made[n]
    BY <1>2, <1>7 DEF Dies
  <2>4. \A n \in 0..MaxForms : made'[n] <= made[n] /\ made[n] \in Int /\ made'[n] \in Int
    BY <1>2, <2>3
  <2>5. CreatedOnce'
    BY <1>3, <2>3, <2>4 DEF CreatedOnce
  <2>6. ASSUME OneRequest, OneRow PROVE OneRequest' /\ OneRow'
    <3>1. OneRequest'
      BY <2>1, <2>2, <2>6 DEF OneRequest, SameForm
    <3>2. ASSUME NEW n \in 0..MaxForms, made'[n] > 0
          PROVE  /\ n <= form'.no
                 /\ n = form'.no /\ form'.at = "open" =>
                      \E j \in Calls : Pending(j)' /\ Inserted(j)' /\ calls'[j].no = n
      <4>1. made[n] > 0 /\ (n = calls[i].no => ~Inserted(i))
        <5>1. made[n] <= 1
          BY <1>3 DEF CreatedOnce
        <5> QED
          BY <2>3, <2>4, <3>2, <5>1
      <4>2. /\ n <= form.no
            /\ n = form.no /\ form.at = "open" =>
                 \E j \in Calls : Pending(j) /\ Inserted(j) /\ calls[j].no = n
        BY <2>6, <4>1 DEF OneRow
      <4> QED
        BY <2>1, <2>2, <4>1, <4>2 DEF SameForm
    <3>3. ASSUME NEW j \in Calls, Pending(j)', calls'[j].of = New, ~Inserted(j)'
          PROVE  made'[calls'[j].no] <= 0
      <4>1. calls[j].no \in 0..MaxForms /\ calls'[j].no = calls[j].no
        BY <1>2, <2>1
      <4>2. CASE Inserted(j)
        <5>1. j = i /\ made[calls[j].no] <= 1
          BY <1>3, <2>1, <3>3, <4>1, <4>2 DEF CreatedOnce
        <5> QED
          BY <2>3, <2>4, <4>1, <4>2, <5>1
      <4>3. CASE ~Inserted(j)
        <5>1. made[calls[j].no] <= 0
          BY <2>1, <2>6, <3>3, <4>3 DEF OneRow
        <5> QED
          BY <2>4, <4>1, <5>1
      <4> QED
        BY <4>2, <4>3
    <3>4. OneRow'
      BY <3>2, <3>3 DEF OneRow
    <3> QED
      BY <3>1, <3>4
  <2>7. CreatingForms'
    BY <2>6 DEF CreatingForms, HasContact
  <2>8. NothingNew'
    <3> SUFFICES ASSUME InPlace' PROVE NothingNew'
      BY DEF NothingNew
    <3>1. \A n \in 0..MaxForms : made[n] <= 0
      BY DEF NothingNew, InPlace
    <3>2. \A n \in 0..MaxForms : made'[n] <= 0
      BY <2>4, <3>1
    <3> QED
      BY <2>1, <2>2, <3>2 DEF NothingNew, InPlace, SameForm
  <2> QED
    BY <2>5, <2>7, <2>8
<1>8. CASE Ends(i)
  <2>1. CreatedOnce'
    BY <1>8 DEF Ends, CreatedOnce
  <2>2. \A j \in Calls : Pending(j)' =>
          /\ j # i /\ Pending(j) /\ calls'[j] = calls[j] /\ (Inserted(j)' <=> Inserted(j))
    BY <1>1, <1>8 DEF Ends, Pending, Inserted
  <2>3. ASSUME HasContact, OneRequest, OneRow PROVE OneRequest' /\ OneRow'
    <3>1. Pending(i) /\ form'.no = form.no /\ made' = made
      BY <1>8 DEF Ends
    <3>2. ASSUME form'.at = "open"
          PROVE  /\ form.at = "open"
                 /\ \/ form'.busy = form.busy /\ calls[i].no # form.no
                    \/ calls[i].no = form.no /\ ~Inserted(i)
      BY <1>8, <2>3, <3>2 DEF Ends, Inserted
    <3>3. OneRequest'
      <4>1. ASSUME NEW j \in Calls, Pending(j)', calls'[j].no = form'.no, form'.at = "open"
            PROVE  form'.busy
        <5>1. Pending(j) /\ j # i /\ calls[j].no = form.no
          BY <2>2, <3>1, <4>1
        <5>2. calls[i].no # form.no
          BY <2>3, <3>1, <5>1 DEF OneRequest
        <5> QED
          BY <2>3, <3>2, <4>1, <5>1, <5>2 DEF OneRequest
      <4>2. \A j \in Calls : Pending(j)' => calls'[j].no <= form'.no
        BY <2>2, <2>3, <3>1 DEF OneRequest
      <4>3. \A j, k \in Calls : Pending(j)' /\ Pending(k)' /\ calls'[j].no = calls'[k].no => j = k
        BY <2>2, <2>3 DEF OneRequest
      <4> QED
        BY <4>1, <4>2, <4>3 DEF OneRequest
    <3>4. OneRow'
      <4>1. ASSUME NEW n \in 0..MaxForms, made'[n] > 0
            PROVE  n <= form'.no
        BY <2>3, <3>1, <4>1 DEF OneRow
      <4>2. ASSUME NEW n \in 0..MaxForms, made'[n] > 0, n = form'.no, form'.at = "open"
            PROVE  \E j \in Calls : Pending(j)' /\ Inserted(j)' /\ calls'[j].no = n
        <5>1. PICK j \in Calls : Pending(j) /\ Inserted(j) /\ calls[j].no = n
          BY <2>3, <3>1, <3>2, <4>2 DEF OneRow
        <5>2. j # i
          BY <3>1, <3>2, <4>2, <5>1
        <5> QED
          BY <1>1, <5>1, <5>2 DEF Pending, Inserted
      <4>3. \A j \in Calls : Pending(j)' /\ calls'[j].of = New /\ ~Inserted(j)'
                               => made'[calls'[j].no] <= 0
        BY <2>2, <2>3, <3>1 DEF OneRow
      <4> QED
        BY <4>1, <4>2, <4>3 DEF OneRow
    <3> QED
      BY <3>3, <3>4
  <2>4. CreatingForms'
    BY <2>3 DEF CreatingForms, HasContact
  <2>5. NothingNew'
    BY <1>8, <2>2 DEF Ends, NothingNew, InPlace
  <2> QED
    BY <2>1, <2>4, <2>5
<1>9. CASE StartsElsewhere(i)
  <2>1. \A j \in Calls : Pending(j)' =>
          /\ Pending(j) /\ calls'[j] = calls[j] /\ (Inserted(j)' <=> Inserted(j))
    BY <1>1, <1>9 DEF StartsElsewhere, Pending, Inserted
  <2>2. \A j \in Calls : Pending(j) => Pending(j)' /\ calls'[j] = calls[j]
    BY <1>1, <1>9 DEF StartsElsewhere, Pending
  <2>3. SameForm /\ made' = made
    BY <1>9 DEF StartsElsewhere
  <2>4. CreatedOnce'
    BY <2>3 DEF CreatedOnce
  <2>5. CreatingForms'
    BY <2>1, <2>2, <2>3 DEF CreatingForms, HasContact, OneRequest, OneRow, SameForm
  <2>6. NothingNew'
    BY <2>1, <2>3 DEF NothingNew, InPlace, SameForm
  <2> QED
    BY <2>4, <2>5, <2>6
<1> QED
  BY <1>4, <1>5, <1>6, <1>7, <1>8, <1>9 DEF OneMoves, Moves
-----------------------------------------------------------------------------
(* The records that the steps write. *)

LEMMA ClosedForm ==
  IsForm(Closed) /\ Closed.at = "closed" /\ Closed.of = New /\ Closed.no = 0
BY EditorsAssumption DEF Closed, IsForm, FormType

LEMMA Busy ==
  ASSUME NEW f, IsForm(f), NEW b \in BOOLEAN
  PROVE  LET g == [f EXCEPT !.busy = b]
         IN  /\ IsForm(g) /\ g.busy = b
             /\ g.at = f.at /\ g.of = f.of /\ g.no = f.no /\ g.from = f.from
BY DEF IsForm, FormType

LEMMA Photos ==
  ASSUME NEW f, IsForm(f)
  PROVE  LET g == [f EXCEPT !.at = "photos", !.busy = FALSE]
         IN  IsForm(g) /\ g.at = "photos" /\ g.no = f.no
BY DEF IsForm, FormType

LEMMA Drafted ==
  ASSUME NEW f, IsForm(f), NEW d
  PROVE  LET g == [f EXCEPT !.draft = d]
         IN  /\ IsForm(g)
             /\ g.at = f.at /\ g.of = f.of /\ g.no = f.no /\ g.busy = f.busy /\ g.from = f.from
BY DEF IsForm, FormType

LEMMA Filling ==
  ASSUME NEW f, IsForm(f), NEW e
  PROVE  LET g == Fill(f, e)
         IN  /\ IsForm(g)
             /\ g.at = f.at /\ g.of = f.of /\ g.no = f.no /\ g.busy = f.busy
             /\ g.from = IF Known(e, f.of) = {} THEN f.from ELSE f.of
<1> DEFINE d == Hydrated(kind, Copy(e, f.of))
           g == [f EXCEPT !.draft = d, !.from = f.of]
<1> HIDE DEF d
<1>1. /\ IsForm(g) /\ g.from = f.of
      /\ g.at = f.at /\ g.of = f.of /\ g.no = f.no /\ g.busy = f.busy
  BY DEF IsForm, FormType
<1>2. Fill(f, e) = IF Known(e, f.of) = {} THEN f ELSE g
  BY DEF Fill, d
<1> HIDE DEF g
<1> QED
  BY <1>1, <1>2

LEMMA ClosedAgain ==
  ASSUME NEW n \in 0..MaxForms
  PROVE  LET g == [Closed EXCEPT !.no = n] IN IsForm(g) /\ g.at = "closed" /\ g.no = n
<1> HIDE DEF Closed
<1> QED
  BY ClosedForm DEF IsForm, FormType

LEMMA BlankedForm ==
  ASSUME IsForm(form), form.no < MaxForms, NEW x \in Rows \cup {New}
  PROVE  LET g == Blanked(x)
         IN  IsForm(g) /\ g.at = "open" /\ g.of = x /\ g.no = form.no + 1
<1>1. form.no + 1 \in 0..MaxForms
  BY EditorsAssumption DEF IsForm, FormType
<1>2. Blanked(x) = [Closed EXCEPT !.at = "open", !.of = x, !.no = form.no + 1]
  BY DEF Blanked
<1> HIDE DEF Closed
<1> QED
  BY <1>1, <1>2, ClosedForm DEF IsForm, FormType

LEMMA BaseForm ==
  ASSUME IsForm(form), form.no < MaxForms, NEW x \in Rows
  PROVE  LET g == Base(x)
         IN  IsForm(g) /\ g.at = "open" /\ g.of = x /\ g.no = form.no + 1
<1>1. CASE kind = "availability" /\ form.at = "open"
  <2> DEFINE n == form.no + 1
  <2>1. n \in 0..MaxForms
    BY EditorsAssumption DEF IsForm, FormType
  <2> DEFINE g == [form EXCEPT !.of = x, !.no = n]
  <2>2. Base(x) = g
    BY <1>1 DEF Base
  <2> HIDE DEF n
  <2>3. IsForm(g) /\ g.at = "open" /\ g.of = x /\ g.no = n
    BY <1>1, <2>1 DEF IsForm, FormType
  <2> QED
    BY <2>2, <2>3 DEF n
<1>2. CASE ~(kind = "availability" /\ form.at = "open")
  BY <1>2, BlankedForm DEF Base
<1> QED
  BY <1>1, <1>2

LEMMA EntrySteps ==
  ASSUME NEW e, IsEntry(e)
  PROVE  /\ IsEntry(Asked(e)) /\ Asked(e).data = e.data
         /\ \A answer : IsEntry(Answered(e, answer)) /\ Answered(e, answer).data = e.data
         /\ IsEntry(Received(e))
         /\ \A b \in BOOLEAN : IsEntry(Invalidated(e, b)) /\ Invalidated(e, b).data = e.data
         /\ \A b \in BOOLEAN : IsEntry(Mounted(e, b)) /\ Mounted(e, b).data = e.data
<1>1. \A s : IsEntry(s) => IsEntry(Asked(s)) /\ Asked(s).data = s.data
  BY DEF IsEntry, EntryType, Asked
<1>2. \A answer : IsEntry(Answered(e, answer)) /\ Answered(e, answer).data = e.data
  BY DEF IsEntry, EntryType, Answered
<1>3. IsEntry(Received(e))
  <2> DEFINE d == IF e.got = Refused THEN e.data ELSE e.got
             b == (e.got = Refused)
             g == [e EXCEPT !.data = d, !.stale = b, !.at = "idle", !.got = {}]
  <2>1. Received(e) = g
    BY DEF Received
  <2>2. b \in BOOLEAN
    OBVIOUS
  <2> HIDE DEF d, b
  <2>3. IsEntry(g)
    BY <2>2 DEF IsEntry, EntryType
  <2> QED
    BY <2>1, <2>3
<1>4. IsEntry([e EXCEPT !.stale = TRUE]) /\ [e EXCEPT !.stale = TRUE].data = e.data
  BY DEF IsEntry, EntryType
<1> DEFINE s == [e EXCEPT !.stale = TRUE]
<1>5. \A b \in BOOLEAN : Invalidated(e, b) = IF b THEN Asked(s) ELSE s
  BY DEF Invalidated
<1>6. \A b \in BOOLEAN : IsEntry(Invalidated(e, b)) /\ Invalidated(e, b).data = e.data
  <2>1. IsEntry(s) /\ s.data = e.data
    BY <1>4
  <2> HIDE DEF s
  <2> QED
    BY <1>1, <1>5, <2>1
<1>7. \A b \in BOOLEAN : IsEntry(Mounted(e, b)) /\ Mounted(e, b).data = e.data
  BY <1>1 DEF Mounted
<1> QED
  BY <1>1, <1>2, <1>3, <1>6, <1>7

LEMMA CallWritten ==
  ASSUME WellTyped, NEW i \in Calls, NEW c, IsCall(c), calls' = [calls EXCEPT ![i] = c]
  PROVE  /\ calls' = [j \in Calls |-> calls'[j]] /\ \A j \in Calls : IsCall(calls'[j])
         /\ calls'[i] = c /\ \A j \in Calls : j # i => calls'[j] = calls[j]
<1>1. /\ calls'[i] = c /\ \A j \in Calls : j # i => calls'[j] = calls[j]
      /\ calls' = [j \in Calls |-> calls'[j]]
  BY DEF WellTyped
<1>2. \A j \in Calls : IsCall(calls'[j])
  BY <1>1 DEF WellTyped
<1> QED
  BY <1>1, <1>2

LEMMA DoneCall == IsCall(Done) /\ Done.at = "done"
<1>1. IsCall(Unused)
  BY EditorsAssumption DEF Unused, IsCall, CallType, Ats
<1> HIDE DEF Unused
<1> QED
  BY <1>1 DEF Done, IsCall, CallType, Ats

LEMMA GoesOn ==
  ASSUME WellTyped, NEW i \in Calls, NEW at \in Ats, Goes(i, at)
  PROVE  /\ calls' = [j \in Calls |-> calls'[j]] /\ \A j \in Calls : IsCall(calls'[j])
         /\ calls'[i].at = at /\ KeepsCall(i)
         /\ \A j \in Calls : j # i => calls'[j] = calls[j]
<1> DEFINE c == [calls[i] EXCEPT !.at = at]
<1>1. /\ IsCall(c) /\ c.at = at
      /\ c.by = calls[i].by /\ c.of = calls[i].of /\ c.no = calls[i].no
  BY DEF WellTyped, IsCall, CallType
<1>2. calls' = [calls EXCEPT ![i] = c]
  BY DEF Goes, WellTyped
<1> HIDE DEF c
<1> QED
  BY <1>1, <1>2, CallWritten DEF KeepsCall

LEMMA EntryWritten ==
  ASSUME WellTyped, NEW k \in Keys, NEW e, IsEntry(e), entry' = [entry EXCEPT ![k] = e]
  PROVE  /\ entry' = [j \in Keys |-> entry'[j]] /\ \A j \in Keys : IsEntry(entry'[j])
         /\ entry'[k] = e /\ \A j \in Keys : j # k => entry'[j] = entry[j]
<1>1. /\ entry'[k] = e /\ \A j \in Keys : j # k => entry'[j] = entry[j]
      /\ entry' = [j \in Keys |-> entry'[j]]
  BY DEF WellTyped
<1>2. \A j \in Keys : IsEntry(entry'[j])
  BY <1>1 DEF WellTyped
<1> QED
  BY <1>1, <1>2

LEMMA KeyOfRow == \A x \in Rows \cup {New} : Key(x) \in Keys /\ Key(New) = New
BY DEF Key, Keys
-----------------------------------------------------------------------------
(* Every step of the page is one of the steps above. *)

LEMMA OpenShape ==
  ASSUME WellTyped, NEW x \in Rows, NEW old \in BOOLEAN, Open(x, old)
  PROVE  /\ WellTyped' /\ kind' = kind /\ Opens
         /\ form'.of = x
         /\ Known(entry'[Key(x)], x) # {} => form'.from = x
         /\ kind = "profile" => form'.from = x
<1> DEFINE e == IF kind = "profile" THEN entry[Key(x)] ELSE Mounted(entry[Key(x)], old)
<1>1. /\ form.no < MaxForms
      /\ entry' = [entry EXCEPT ![Key(x)] = e]
      /\ form' = Fill(Base(x), e)
      /\ UNCHANGED <<chosen, row, contact, mine, calls, events, history>>
  BY DEF Open, OpenFill
<1>2. Key(x) \in Keys
  BY KeyOfRow
<1>3. IsEntry(entry[Key(x)])
  BY <1>2 DEF WellTyped
<1>4. IsEntry(e)
  BY <1>3, EntrySteps
<1> HIDE DEF e
<1>5. /\ entry' = [j \in Keys |-> entry'[j]] /\ \A j \in Keys : IsEntry(entry'[j])
      /\ entry'[Key(x)] = e
  BY <1>1, <1>2, <1>4, EntryWritten
<1> DEFINE b == Base(x)
<1>6. IsForm(b) /\ b.at = "open" /\ b.of = x /\ b.no = form.no + 1
  BY <1>1, BaseForm DEF WellTyped
<1> HIDE DEF b
<1>7. form' = Fill(b, e)
  BY <1>1 DEF b
<1>8. /\ IsForm(form')
      /\ form'.at = "open" /\ form'.of = x /\ form'.no = form.no + 1
      /\ Known(e, x) # {} => form'.from = x
  BY <1>6, <1>7, Filling
<1>9. x # New
  BY DEF Rows, New
<1>10. /\ kind' = kind /\ row' = row /\ calls' = calls /\ made' = made
  BY <1>1 DEF chosen, history
<1>11. WellTyped'
  BY <1>5, <1>8, <1>10 DEF WellTyped, IsForm, IsCall, IsEntry
<1>12. Opens
  BY <1>8, <1>9, <1>10 DEF Opens, Kept
<1>13. ASSUME kind = "profile" PROVE form'.from = x
  <2>1. e = entry[New] /\ Known(entry[New], x) # {}
    BY <1>13 DEF Open, Listed, Key, e
  <2> QED
    BY <1>8, <2>1
<1> QED
  BY <1>5, <1>8, <1>10, <1>11, <1>12, <1>13

LEMMA OpenNewShape ==
  ASSUME WellTyped, OpenNew
  PROVE  /\ WellTyped' /\ kind' = kind /\ Opens
         /\ form'.of = New
<1>1. /\ form.no < MaxForms /\ HasContact
      /\ form' = Blanked(New)
      /\ UNCHANGED <<chosen, row, contact, entry, mine, calls, events, history>>
  BY DEF OpenNew
<1> DEFINE b == Blanked(New)
<1>2. IsForm(b) /\ b.at = "open" /\ b.of = New /\ b.no = form.no + 1
  BY <1>1, BlankedForm DEF WellTyped
<1> HIDE DEF b
<1>3. form' = b
  BY <1>1 DEF b
<1>4. IsForm(form') /\ form'.at = "open" /\ form'.of = New /\ form'.no = form.no + 1
  BY <1>2, <1>3
<1>5. /\ kind' = kind /\ row' = row /\ calls' = calls /\ made' = made /\ entry' = entry
  BY <1>1 DEF chosen, history
<1>6. WellTyped'
  BY <1>4, <1>5 DEF WellTyped, IsForm, IsCall, IsEntry
<1>7. Opens
  BY <1>1, <1>4, <1>5 DEF Opens, Kept, HasContact, InPlace
<1> QED
  BY <1>4, <1>5, <1>6, <1>7

LEMMA TypeShape ==
  ASSUME WellTyped, Type
  PROVE  WellTyped' /\ kind' = kind /\ entry' = entry /\ Stays /\ form'.from = form.from
<1>1. /\ form' = [form EXCEPT !.draft = wish]
      /\ UNCHANGED <<chosen, row, contact, entry, mine, calls, events, history>>
  BY DEF Type
<1>2. IsForm(form') /\ SameForm /\ form'.from = form.from
  BY <1>1, Drafted DEF WellTyped, SameForm
<1>3. /\ kind' = kind /\ row' = row /\ calls' = calls /\ made' = made /\ entry' = entry
  BY <1>1 DEF chosen, history
<1>4. WellTyped'
  BY <1>2, <1>3 DEF WellTyped, IsForm, IsCall, IsEntry
<1> QED
  BY <1>2, <1>3, <1>4 DEF Stays, Kept

LEMMA CloseShape ==
  ASSUME WellTyped, Close
  PROVE  WellTyped' /\ kind' = kind /\ entry' = entry /\ Closes
<1>1. /\ form' = [Closed EXCEPT !.no = form.no]
      /\ UNCHANGED <<chosen, row, contact, entry, mine, calls, events, history>>
  BY DEF Close
<1>2. form.no \in 0..MaxForms
  BY DEF WellTyped, IsForm, FormType
<1>3. IsForm(form') /\ form'.at = "closed" /\ form'.no = form.no
  BY <1>1, <1>2, ClosedAgain
<1>4. /\ kind' = kind /\ row' = row /\ calls' = calls /\ made' = made /\ entry' = entry
  BY <1>1 DEF chosen, history
<1>5. WellTyped'
  BY <1>3, <1>4 DEF WellTyped, IsForm, IsCall, IsEntry
<1> QED
  BY <1>3, <1>4, <1>5 DEF Closes, Kept

\* News of another row leave the form's values as they were.
LEMMA ReceiveShape ==
  ASSUME WellTyped, NEW k \in Keys, Receive(k)
  PROVE  /\ WellTyped' /\ kind' = kind /\ Stays
         /\ \A j \in Keys : j # k => entry'[j] = entry[j]
         /\ \/ form' = Fill(form, entry'[k]) /\ form.of = k /\ kind # "profile"
            \/ /\ form' = form
               /\ \/ entry'[k].data = entry[k].data
                  \/ form.at # "open" \/ kind = "profile" \/ form.of # k
<1> DEFINE e == Received(entry[k])
<1>1. IsEntry(e)
  BY EntrySteps DEF WellTyped
<1>2. /\ entry' = [entry EXCEPT ![k] = e]
      /\ form' = IF e.data # entry[k].data /\ form.at = "open" /\ kind # "profile" /\ form.of = k
                 THEN Fill(form, e) ELSE form
      /\ UNCHANGED <<chosen, row, contact, mine, calls, events, history>>
  BY DEF Receive
<1> HIDE DEF e
<1>3. /\ entry' = [j \in Keys |-> entry'[j]] /\ \A j \in Keys : IsEntry(entry'[j])
      /\ entry'[k] = e /\ \A j \in Keys : j # k => entry'[j] = entry[j]
  BY <1>1, <1>2, EntryWritten
<1>4. IsForm(form) /\ IsForm(Fill(form, e))
  BY Filling DEF WellTyped
<1>5. IsForm(form') /\ SameForm
  BY <1>2, <1>4, Filling DEF SameForm
<1>6. /\ kind' = kind /\ row' = row /\ calls' = calls /\ made' = made
  BY <1>2 DEF chosen, history
<1>7. WellTyped'
  BY <1>3, <1>5, <1>6 DEF WellTyped, IsForm, IsCall, IsEntry
<1> QED
  BY <1>2, <1>3, <1>5, <1>6, <1>7 DEF Stays, Kept

LEMMA AnswerShape ==
  ASSUME WellTyped, NEW k \in Keys, Answer(k)
  PROVE  /\ WellTyped' /\ kind' = kind /\ Stays /\ form' = form
         /\ \A j \in Keys : entry'[j].data = entry[j].data
<1> DEFINE e == Answered(entry[k], Facts(k))
<1>1. IsEntry(e) /\ e.data = entry[k].data
  BY EntrySteps DEF WellTyped
<1>2. /\ entry' = [entry EXCEPT ![k] = e]
      /\ UNCHANGED <<chosen, row, contact, mine, form, calls, events, history>>
  BY DEF Answer, WellTyped
<1> HIDE DEF e
<1>3. /\ entry' = [j \in Keys |-> entry'[j]] /\ \A j \in Keys : IsEntry(entry'[j])
      /\ entry'[k] = e /\ \A j \in Keys : j # k => entry'[j] = entry[j]
  BY <1>1, <1>2, EntryWritten
<1>4. /\ kind' = kind /\ row' = row /\ calls' = calls /\ made' = made /\ form' = form
  BY <1>2 DEF chosen, history
<1>5. WellTyped'
  BY <1>3, <1>4 DEF WellTyped, IsForm, IsCall, IsEntry
<1> QED
  BY <1>1, <1>3, <1>4, <1>5 DEF Stays, Kept, SameForm

LEMMA ElsewhereShape ==
  ASSUME WellTyped,
         RereadContact \/ (\E c \in Contacts : ChangeContact(c)) \/ (\E x \in Rows : ChangeRow(x))
  PROVE  WellTyped' /\ kind' = kind /\ Stays /\ form' = form /\ entry' = entry
<1>1. /\ kind' = kind /\ calls' = calls /\ made' = made /\ form' = form /\ entry' = entry
      /\ row' = [x \in Rows |-> row'[x]]
  <2>1. CASE RereadContact
    BY <2>1 DEF RereadContact, chosen, history, WellTyped
  <2>2. CASE \E c \in Contacts : ChangeContact(c)
    BY <2>2 DEF ChangeContact, chosen, page, WellTyped
  <2>3. CASE \E x \in Rows : ChangeRow(x)
    <3>1. PICK x \in Rows : ChangeRow(x)
      BY <2>3
    <3> DEFINE v == Stored(kind, Payload(kind, wish))
    <3>2. /\ row' = [row EXCEPT ![x] = v]
          /\ UNCHANGED <<chosen, contact, page, calls, history>>
      BY <3>1 DEF ChangeRow
    <3> HIDE DEF v
    <3> QED
      BY <3>2 DEF chosen, page, history, WellTyped
  <2> QED
    BY <2>1, <2>2, <2>3
<1>2. WellTyped'
  BY <1>1 DEF WellTyped, IsForm, IsCall, IsEntry
<1> QED
  BY <1>1, <1>2 DEF Stays, Kept, SameForm

\* A request leaves the form alone until it is answered, and no step of one fills it.
CallStep(i) ==
  \/ Submit(i) \/ Refuse(i) \/ CountProfiles(i) \/ CountFails(i) \/ Write(i)
  \/ WriteContact(i)
  \/ Served(i) \/ NotServed(i) \/ Die(i) \/ CreateElsewhere(i)

CallShape(i) ==
  /\ WellTyped' /\ kind' = kind /\ OneMoves(i)
  /\ \A j \in Keys : entry'[j].data = entry[j].data
  /\ form'.at = "open" => form.at = "open" /\ form'.of = form.of /\ form'.from = form.from

LEMMA SubmitShape ==
  ASSUME WellTyped, NEW i \in Calls, Submit(i)
  PROVE  CallShape(i)
<1> DEFINE sent == Payload(kind, form.draft)
           c == [Unused EXCEPT !.at = "sent", !.of = form.of, !.contact = mine,
                               !.sent = sent, !.no = form.no]
<1>1. /\ form.at = "open" /\ ~form.busy
      /\ calls[i].at = "unused"
      /\ calls' = [calls EXCEPT ![i] = c]
      /\ form' = [form EXCEPT !.busy = TRUE]
      /\ UNCHANGED <<chosen, row, contact, entry, mine, events, history>>
  BY DEF Submit, MaySubmit
<1>2. /\ form.no \in 0..MaxForms /\ form.of \in Rows \cup {New} /\ IsForm(form)
  BY DEF WellTyped, IsForm, FormType
<1>3. IsCall(c) /\ c.at = "sent" /\ c.by = "page" /\ c.of = form.of /\ c.no = form.no
  <2> HIDE DEF sent
  <2>1. IsCall(Unused) /\ Unused.by = "page"
    BY EditorsAssumption DEF Unused, IsCall, CallType, Ats
  <2> HIDE DEF Unused
  <2> QED
    BY <1>2, <2>1 DEF IsCall, CallType, Ats
<1> HIDE DEF c
<1>4. /\ calls' = [j \in Calls |-> calls'[j]] /\ \A j \in Calls : IsCall(calls'[j])
      /\ calls'[i] = c /\ \A j \in Calls : j # i => calls'[j] = calls[j]
  BY <1>1, <1>3, CallWritten
<1>5. /\ IsForm(form') /\ form'.busy
      /\ form'.at = form.at /\ form'.of = form.of /\ form'.no = form.no /\ form'.from = form.from
  BY <1>1, <1>2, Busy
<1>6. kind' = kind /\ row' = row /\ made' = made /\ entry' = entry
  BY <1>1 DEF chosen, history
<1>7. WellTyped'
  BY <1>4, <1>5, <1>6 DEF WellTyped, IsForm, IsCall, IsEntry
<1>8. Submits(i)
  BY <1>1, <1>3, <1>4, <1>5, <1>6 DEF Submits
<1> QED
  BY <1>4, <1>5, <1>6, <1>7, <1>8 DEF CallShape, OneMoves, Moves

\* The steps of a handler.
LEMMA HandlerShape ==
  ASSUME WellTyped, NEW i \in Calls,
         \/ Refuse(i) \/ CountProfiles(i) \/ CountFails(i) \/ Write(i)
         \/ WriteContact(i) \/ Die(i)
  PROVE  CallShape(i)
<1>1. /\ IsForm(form) /\ calls[i].no \in 0..MaxForms /\ made \in [0..MaxForms -> Int]
  BY DEF WellTyped, IsCall, CallType
<1>2. /\ kind' = kind /\ form' = form /\ entry' = entry
  BY DEF Refuse, CountProfiles, CountFails, Write, WriteContact, Die, chosen, page
<1>3. SameForm
  BY <1>2 DEF SameForm
<1>4. row' = [x \in Rows |-> row'[x]]
  <2>1. CASE Write(i)
    <3> DEFINE x == IF calls[i].of = New
                    THEN CHOOSE y \in Rows \ Live : \A z \in Rows \ Live : y <= z ELSE calls[i].of
               v == Stored(kind, calls[i].sent)
    <3>1. row' = [row EXCEPT ![x] = v]
      BY <2>1 DEF Write
    <3> HIDE DEF x, v
    <3> QED
      BY <3>1 DEF WellTyped
  <2>2. CASE ~Write(i)
    BY <2>2 DEF Refuse, CountProfiles, CountFails, WriteContact, Die, WellTyped
  <2> QED
    BY <2>1, <2>2
<1> DEFINE CallsGo == /\ calls' = [j \in Calls |-> calls'[j]]
                      /\ \A j \in Calls : IsCall(calls'[j])
                      /\ \A j \in Calls : j # i => calls'[j] = calls[j]
<1>5. CASE Refuse(i)
  <2>1. Goes(i, "refused") /\ calls[i].at = "sent" /\ made' = made
    BY <1>5 DEF Refuse, history
  <2>2. CallsGo /\ calls'[i].at = "refused" /\ KeepsCall(i)
    BY <2>1, GoesOn DEF Ats
  <2>3. Proceeds(i)
    BY <1>3, <2>1, <2>2 DEF Proceeds, Inserted
  <2> QED
    BY <1>1, <1>2, <1>4, <2>1, <2>2, <2>3
    DEF CallShape, OneMoves, Moves, WellTyped, IsForm, IsCall, IsEntry
<1>6. CASE CountProfiles(i) \/ CountFails(i)
  <2>1. /\ calls[i].at = "sent" /\ made' = made
        /\ Goes(i, "counted") \/ Goes(i, "failed")
    BY <1>6 DEF CountProfiles, CountFails, LetIn
  <2>2. CallsGo /\ calls'[i].at \in {"counted", "failed"} /\ KeepsCall(i)
    BY <2>1, GoesOn DEF Ats
  <2>3. Proceeds(i)
    BY <1>3, <2>1, <2>2 DEF Proceeds, Inserted
  <2> QED
    BY <1>1, <1>2, <1>4, <2>1, <2>2, <2>3
    DEF CallShape, OneMoves, Moves, WellTyped, IsForm, IsCall, IsEntry
<1>7. CASE Write(i)
  <2>1. /\ Goes(i, IF kind = "listing" THEN "written" ELSE "served")
        /\ calls[i].at \in {"sent", "counted"}
        /\ made' = IF calls[i].of = New /\ calls[i].by = "page"
                   THEN [made EXCEPT ![calls[i].no] = @ + 1] ELSE made
    BY <1>7 DEF Write
  <2>2. CallsGo /\ calls'[i].at \in {"written", "served"} /\ KeepsCall(i)
    <3>1. CASE kind = "listing"
      BY <2>1, <3>1, GoesOn DEF Ats
    <3>2. CASE kind # "listing"
      BY <2>1, <3>2, GoesOn DEF Ats
    <3> QED
      BY <3>1, <3>2
  <2>3. CASE calls[i].of = New /\ calls[i].by = "page"
    <3>1. Inserts(i)
      BY <1>3, <2>1, <2>2, <2>3 DEF Inserts
    <3>2. made' \in [0..MaxForms -> Int]
      BY <1>1, <2>1, <2>3
    <3> QED
      BY <1>1, <1>2, <1>4, <2>2, <3>1, <3>2
      DEF CallShape, OneMoves, Moves, WellTyped, IsForm, IsCall, IsEntry
  <2>4. CASE ~(calls[i].of = New /\ calls[i].by = "page")
    <3>1. Proceeds(i)
      BY <1>3, <2>1, <2>2, <2>4 DEF Proceeds, KeepsCall, Inserted
    <3> QED
      BY <1>1, <1>2, <1>4, <2>1, <2>2, <2>4, <3>1
      DEF CallShape, OneMoves, Moves, WellTyped, IsForm, IsCall, IsEntry
  <2> QED
    BY <2>3, <2>4
<1>8. CASE WriteContact(i)
  <2>1. Goes(i, "served") /\ calls[i].at = "written" /\ made' = made
    BY <1>8 DEF WriteContact, history
  <2>2. CallsGo /\ calls'[i].at = "served" /\ KeepsCall(i)
    BY <2>1, GoesOn DEF Ats
  <2>3. Proceeds(i)
    BY <1>3, <2>1, <2>2 DEF Proceeds, KeepsCall, Inserted
  <2> QED
    BY <1>1, <1>2, <1>4, <2>1, <2>2, <2>3
    DEF CallShape, OneMoves, Moves, WellTyped, IsForm, IsCall, IsEntry
<1>9. CASE Die(i)
  <2>1. /\ Goes(i, "failed")
        /\ calls[i].by = "page" /\ calls[i].at \in {"sent", "counted", "written", "served"}
        /\ made' = IF Inserted(i) THEN [made EXCEPT ![calls[i].no] = @ - 1] ELSE made
    BY <1>9 DEF Die, Inserted
  <2>2. CallsGo /\ calls'[i].at = "failed" /\ KeepsCall(i)
    BY <2>1, GoesOn DEF Ats
  <2>3. Dies(i)
    BY <1>3, <2>1, <2>2 DEF Dies
  <2>4. made' \in [0..MaxForms -> Int]
    BY <1>1, <2>1
  <2> QED
    BY <1>1, <1>2, <1>4, <2>2, <2>3, <2>4
    DEF CallShape, OneMoves, Moves, WellTyped, IsForm, IsCall, IsEntry
<1> QED
  BY <1>5, <1>6, <1>7, <1>8, <1>9

LEMMA ElsewhereCreates ==
  ASSUME WellTyped, NEW i \in Calls, CreateElsewhere(i)
  PROVE  CallShape(i)
<1> DEFINE sent == Filled(kind)
           c == [Unused EXCEPT !.at = "sent", !.by = "other", !.sent = sent, !.contact = contact]
<1>1. /\ calls[i].at = "unused"
      /\ calls' = [calls EXCEPT ![i] = c]
      /\ UNCHANGED <<chosen, row, contact, page, history>>
  BY DEF CreateElsewhere
<1>2. IsCall(c) /\ c.by = "other"
  <2> HIDE DEF sent
  <2>1. IsCall(Unused)
    BY EditorsAssumption DEF Unused, IsCall, CallType, Ats
  <2> HIDE DEF Unused
  <2> QED
    BY <2>1 DEF IsCall, CallType, Ats
<1> HIDE DEF c
<1>3. /\ calls' = [j \in Calls |-> calls'[j]] /\ \A j \in Calls : IsCall(calls'[j])
      /\ calls'[i] = c /\ \A j \in Calls : j # i => calls'[j] = calls[j]
  BY <1>1, <1>2, CallWritten
<1>4. kind' = kind /\ row' = row /\ made' = made /\ entry' = entry /\ form' = form
  BY <1>1 DEF chosen, page, history
<1>5. WellTyped'
  BY <1>3, <1>4 DEF WellTyped, IsForm, IsCall, IsEntry
<1>6. StartsElsewhere(i)
  BY <1>1, <1>2, <1>3, <1>4 DEF StartsElsewhere, SameForm
<1> QED
  BY <1>3, <1>4, <1>5, <1>6 DEF CallShape, OneMoves, Moves

\* The answers, a late one of which finds another form open.
LEMMA ServedShape ==
  ASSUME WellTyped, NEW i \in Calls, Served(i)
  PROVE  CallShape(i)
<1>1. /\ calls[i].at = "served" /\ calls[i].by = "page"
      /\ calls' = [calls EXCEPT ![i] = Done]
      /\ form' = FormServed(i)
      /\ UNCHANGED <<chosen, row, contact, mine, events, history>>
  BY DEF Served
<1>2. /\ IsForm(form) /\ form.no \in 0..MaxForms /\ calls[i].of \in Rows \cup {New}
  BY DEF WellTyped, IsForm, FormType, IsCall, CallType
<1>3. /\ calls' = [j \in Calls |-> calls'[j]] /\ \A j \in Calls : IsCall(calls'[j])
      /\ calls'[i] = Done /\ \A j \in Calls : j # i => calls'[j] = calls[j]
  BY <1>1, DoneCall, CallWritten
<1>4. kind' = kind /\ row' = row /\ made' = made
  BY <1>1 DEF chosen, history
<1>5. /\ entry' = [j \in Keys |-> entry'[j]] /\ \A j \in Keys : IsEntry(entry'[j])
      /\ \A j \in Keys : entry'[j].data = entry[j].data
  <2> DEFINE k == Key(calls[i].of)
             e == Invalidated(entry[k], TRUE)
  <2>1. k \in Keys
    BY <1>2, KeyOfRow
  <2>2. IsEntry(e) /\ e.data = entry[k].data
    BY <2>1, EntrySteps DEF WellTyped
  <2>3. entry' = entry \/ entry' = [entry EXCEPT ![k] = e]
    BY DEF Served
  <2> HIDE DEF e, k
  <2>4. CASE entry' = entry
    BY <2>4 DEF WellTyped
  <2>5. CASE entry' = [entry EXCEPT ![k] = e]
    BY <2>1, <2>2, <2>5, EntryWritten
  <2> QED
    BY <2>3, <2>4, <2>5
<1>6. /\ IsForm(form') /\ form'.no = form.no
      /\ form'.at = "open" =>
           /\ form.at = "open" /\ form'.of = form.of /\ form'.from = form.from
           /\ HasContact => form'.busy = form.busy /\ calls[i].no # form.no
  <2>1. CASE InPlace
    <3>1. form' = [form EXCEPT !.busy = FALSE]
      BY <1>1, <2>1 DEF FormServed, InPlace
    <3> QED
      BY <1>2, <2>1, <3>1, Busy DEF InPlace, HasContact
  <2>2. CASE ~InPlace /\ kind = "listing" /\ calls[i].of = New
    <3>1. form' = IF Heard(i) /\ form.at = "open"
                  THEN [form EXCEPT !.at = "photos", !.busy = FALSE] ELSE form
      BY <1>1, <2>2 DEF FormServed
    <3>2. CASE Heard(i) /\ form.at = "open"
      BY <1>2, <3>1, <3>2, Photos
    <3>3. CASE ~(Heard(i) /\ form.at = "open")
      BY <1>2, <3>1, <3>3 DEF Heard
    <3> QED
      BY <3>2, <3>3
  <2>3. CASE ~InPlace /\ ~(kind = "listing" /\ calls[i].of = New)
    <3>1. form' = [Closed EXCEPT !.no = form.no]
      BY <1>1, <2>3 DEF FormServed
    <3> QED
      BY <1>2, <3>1, ClosedAgain
  <2> QED
    BY <2>1, <2>2, <2>3
<1>7. WellTyped'
  BY <1>3, <1>4, <1>5, <1>6 DEF WellTyped, IsForm, IsCall, IsEntry
<1>8. Ends(i)
  BY <1>1, <1>3, <1>4, <1>6, DoneCall DEF Ends, Pending
<1> QED
  BY <1>3, <1>4, <1>5, <1>6, <1>7, <1>8 DEF CallShape, OneMoves, Moves

LEMMA NotServedShape ==
  ASSUME WellTyped, NEW i \in Calls, NotServed(i)
  PROVE  CallShape(i)
<1>1. /\ calls[i].at \in {"refused", "failed"} /\ calls[i].by = "page"
      /\ calls' = [calls EXCEPT ![i] = Done]
      /\ form' = IF Heard(i) THEN [form EXCEPT !.busy = FALSE] ELSE form
      /\ UNCHANGED <<chosen, row, contact, entry, mine, events, history>>
  BY DEF NotServed
<1>2. IsForm(form)
  BY DEF WellTyped
<1>3. /\ calls' = [j \in Calls |-> calls'[j]] /\ \A j \in Calls : IsCall(calls'[j])
      /\ calls'[i] = Done /\ \A j \in Calls : j # i => calls'[j] = calls[j]
  BY <1>1, DoneCall, CallWritten
<1>4. kind' = kind /\ row' = row /\ made' = made /\ entry' = entry
  BY <1>1 DEF chosen, history
<1>5. /\ IsForm(form')
      /\ form'.at = form.at /\ form'.of = form.of /\ form'.no = form.no /\ form'.from = form.from
  BY <1>1, <1>2, Busy
<1>6. HasContact => \/ form'.busy = form.busy /\ calls[i].no # form.no
                    \/ calls[i].no = form.no
  BY <1>1 DEF Heard, HasContact, InPlace
<1>7. WellTyped'
  BY <1>3, <1>4, <1>5 DEF WellTyped, IsForm, IsCall, IsEntry
<1>8. Ends(i)
  BY <1>1, <1>3, <1>4, <1>5, <1>6, DoneCall DEF Ends, Pending
<1> QED
  BY <1>3, <1>4, <1>5, <1>7, <1>8 DEF CallShape, OneMoves, Moves

LEMMA CallSteps ==
  ASSUME WellTyped, NEW i \in Calls, CallStep(i)
  PROVE  CallShape(i)
BY SubmitShape, HandlerShape, ServedShape, NotServedShape, ElsewhereCreates DEF CallStep
-----------------------------------------------------------------------------
(* A form has the values of its row. *)

\* Nothing was received, and no form opened.
LEMMA ShownIfKept ==
  ASSUME FormOfRow, CopiedAtOpen, kind' = kind, WellTyped, IsForm(form'),
         \A k \in Keys : entry'[k].data = entry[k].data,
         form'.at = "open" => form.at = "open" /\ form'.of = form.of /\ form'.from = form.from
  PROVE  FormOfRow' /\ CopiedAtOpen'
<1>1. CopiedAtOpen'
  BY DEF CopiedAtOpen
<1>2. ASSUME form'.at = "open", form'.of # New, Known(entry[Key(form.of)], form.of)' # {}
      PROVE  form'.from = form'.of
  <2>1. form.of \in Rows \cup {New}
    BY DEF WellTyped, IsForm, FormType
  <2>2. Key(form.of)' = Key(form.of) /\ Key(form.of) \in Keys
    BY <1>2, <2>1, KeyOfRow DEF Key
  <2>3. Known(entry[Key(form.of)], form.of)' = Known(entry[Key(form.of)], form.of)
    BY <1>2, <2>2 DEF Known, Loaded
  <2> QED
    BY <1>2, <2>3 DEF FormOfRow
<1>3. FormOfRow'
  BY <1>2 DEF FormOfRow
<1> QED
  BY <1>1, <1>3

LEMMA ShownIfReceived ==
  ASSUME FormOfRow, CopiedAtOpen, WellTyped, NEW k \in Keys, Receive(k)
  PROVE  FormOfRow' /\ CopiedAtOpen'
<1>1. /\ WellTyped' /\ kind' = kind /\ SameForm
      /\ \A j \in Keys : j # k => entry'[j] = entry[j]
  BY ReceiveShape DEF Stays
<1>2. form.of \in Rows \cup {New} /\ IsForm(form)
  BY DEF WellTyped, IsForm, FormType
<1>3. Key(form.of) \in Keys /\ Key(form.of)' = Key(form.of)
  BY <1>1, <1>2, KeyOfRow DEF Key, SameForm
<1>4. CASE form' = Fill(form, entry'[k]) /\ form.of = k /\ kind # "profile"
  <2>1. Key(form.of) = k
    BY <1>4 DEF Key
  <2>2. Known(entry'[k], form.of) # {} => form'.from = form.of
    BY <1>2, <1>4, Filling
  <2>3. FormOfRow'
    BY <1>1, <1>3, <2>1, <2>2 DEF FormOfRow, SameForm, Known, Loaded
  <2> QED
    BY <1>1, <1>4, <2>3 DEF CopiedAtOpen
<1>5. CASE /\ form' = form
           /\ \/ entry'[k].data = entry[k].data
              \/ form.at # "open" \/ kind = "profile" \/ form.of # k
  <2>1. CASE entry'[k].data = entry[k].data
    BY <1>1, <1>2, <1>5, <2>1, ShownIfKept
  <2>2. CASE form.at # "open"
    BY <1>5, <2>2 DEF FormOfRow, CopiedAtOpen
  <2>3. CASE kind = "profile"
    BY <1>1, <1>5, <2>3 DEF FormOfRow, CopiedAtOpen
  <2>4. CASE form.of # k /\ kind # "profile"
    <3>1. Key(form.of) = form.of
      BY <2>4 DEF Key
    <3>2. entry'[Key(form.of)] = entry[Key(form.of)]
      BY <1>1, <1>3, <2>4, <3>1
    <3>3. FormOfRow'
      BY <1>3, <1>5, <3>2 DEF FormOfRow, Known, Loaded
    <3> QED
      BY <1>1, <2>4, <3>3 DEF CopiedAtOpen
  <2> QED
    BY <1>5, <2>1, <2>2, <2>3, <2>4
<1> QED
  BY <1>4, <1>5, ReceiveShape
-----------------------------------------------------------------------------
(* The invariant. *)

LEMMA InitInv == Init => IInv
<1> SUFFICES ASSUME Init PROVE IInv
  OBVIOUS
<1>1. /\ kind \in Kinds
      /\ calls = [i \in Calls |-> Unused]
      /\ made = [n \in 0..MaxForms |-> 0]
      /\ form = IF kind = "account" THEN [Closed EXCEPT !.at = "open", !.of = 1] ELSE Closed
  BY DEF Init
<1>2. 1 \in Rows /\ 1 # New
  BY EditorsAssumption DEF Rows, New
<1>3. /\ IsForm(form)
      /\ kind # "account" => form.at = "closed"
      /\ kind = "account" => form.of = 1 /\ form.at = "open"
  <2>1. CASE kind = "account"
    <3> HIDE DEF Closed
    <3> QED
      BY <1>1, <1>2, <2>1, ClosedForm DEF IsForm, FormType
  <2>2. CASE kind # "account"
    BY <1>1, <2>2, ClosedForm
  <2> QED
    BY <2>1, <2>2
<1>4. IsCall(Unused) /\ Unused.at = "unused"
  BY EditorsAssumption DEF Unused, IsCall, CallType, Ats
<1>5. IsEntry(Empty) /\ Empty.data = Unloaded
  BY DEF Empty, IsEntry, EntryType
<1>6. /\ entry = [k \in Keys |-> entry[k]]
      /\ \A k \in Keys : IsEntry(entry[k])
      /\ kind = "account" => entry[1].data = Unloaded
  <2> DEFINE full == [Empty EXCEPT !.data = Facts(New), !.stale = FALSE]
  <2>1. IsEntry(full)
    <3> DEFINE d == Facts(New)
    <3>1. IsEntry([Empty EXCEPT !.data = d, !.stale = FALSE])
      <4> HIDE DEF d
      <4> QED
        BY DEF Empty, IsEntry, EntryType
    <3> QED
      BY <3>1
  <2>2. IsEntry(Asked(Empty)) /\ Asked(Empty).data = Unloaded
    BY <1>5, EntrySteps
  <2> HIDE DEF full
  <2>3. entry = [k \in Keys |-> IF kind = "profile" /\ k = New THEN full
                                ELSE IF kind = "account" /\ k = 1 THEN Asked(Empty) ELSE Empty]
    BY DEF Init, full
  <2>4. 1 \in Keys
    BY <1>2 DEF Keys
  <2> QED
    BY <1>5, <2>1, <2>2, <2>3, <2>4
<1>7. row = [x \in Rows |-> row[x]]
  BY DEF Init
<1>8. WellTyped
  BY <1>1, <1>3, <1>4, <1>6, <1>7 DEF WellTyped
<1>9. FormOfRow
  <2> SUFFICES ASSUME kind = "account" PROVE FormOfRow
    BY <1>3 DEF FormOfRow
  <2>1. form.of = 1 /\ Key(1) = 1
    BY <1>3 DEF Key
  <2>2. Known(entry[1], 1) = {}
    BY <1>6 DEF Known, Loaded
  <2> QED
    BY <2>1, <2>2 DEF FormOfRow
<1>10. CopiedAtOpen
  BY <1>3 DEF CopiedAtOpen
<1>11. \A i \in Calls : ~Pending(i)
  BY <1>1, <1>4 DEF Pending
<1>12. CreatedOnce /\ CreatingForms /\ NothingNew
  BY <1>1, <1>2, <1>3, <1>11 DEF CreatedOnce, CreatingForms, OneRequest, OneRow, NothingNew, InPlace
<1> QED
  BY <1>8, <1>9, <1>10, <1>12 DEF IInv

LEMMA NextInv == IInv /\ [Next]_vars => IInv'
<1> SUFFICES ASSUME IInv, [Next]_vars PROVE IInv'
  OBVIOUS
<1>1. /\ WellTyped /\ FormOfRow /\ CopiedAtOpen
      /\ CreatedOnce /\ CreatingForms /\ NothingNew /\ IsForm(form)
  BY DEF IInv, WellTyped
<1> USE <1>1
<1>2. CASE \E x \in Rows, old \in BOOLEAN : Open(x, old)
  <2>1. PICK x \in Rows, old \in BOOLEAN : Open(x, old)
    BY <1>2
  <2>2. /\ WellTyped' /\ kind' = kind /\ Opens /\ form'.of = x
        /\ Known(entry'[Key(x)], x) # {} => form'.from = x
        /\ kind = "profile" => form'.from = x
    BY <2>1, OpenShape
  <2>3. CreatedOnce' /\ CreatingForms' /\ NothingNew'
    BY <2>2, OnceIfOpens
  <2>4. FormOfRow' /\ CopiedAtOpen'
    BY <2>2 DEF FormOfRow, CopiedAtOpen, Key, Known, Loaded
  <2> QED
    BY <2>2, <2>3, <2>4 DEF IInv
<1>3. CASE OpenNew
  <2>1. WellTyped' /\ kind' = kind /\ Opens /\ form'.of = New
    BY <1>3, OpenNewShape
  <2>2. CreatedOnce' /\ CreatingForms' /\ NothingNew'
    BY <2>1, OnceIfOpens
  <2>3. FormOfRow' /\ CopiedAtOpen'
    BY <2>1 DEF FormOfRow, CopiedAtOpen
  <2> QED
    BY <2>1, <2>2, <2>3 DEF IInv
<1>4. CASE Type
  <2>1. WellTyped' /\ kind' = kind /\ entry' = entry /\ Stays /\ form'.from = form.from
    BY <1>4, TypeShape
  <2>2. CreatedOnce' /\ CreatingForms' /\ NothingNew'
    BY <2>1, OnceIfStays
  <2>3. IsForm(form') /\ form'.at = form.at /\ form'.of = form.of
    BY <2>1 DEF Stays, SameForm, WellTyped, IsForm
  <2>4. FormOfRow' /\ CopiedAtOpen'
    BY <2>1, <2>3, ShownIfKept
  <2> QED
    BY <2>1, <2>2, <2>4 DEF IInv
<1>5. CASE Close
  <2>1. WellTyped' /\ kind' = kind /\ Closes
    BY <1>5, CloseShape
  <2>2. CreatedOnce' /\ CreatingForms' /\ NothingNew'
    BY <2>1, OnceIfCloses
  <2>3. FormOfRow' /\ CopiedAtOpen'
    BY <2>1 DEF Closes, FormOfRow, CopiedAtOpen
  <2> QED
    BY <2>1, <2>2, <2>3 DEF IInv
<1>6. CASE \E k \in Keys : Receive(k)
  <2>1. WellTyped' /\ kind' = kind /\ Stays
    BY <1>6, ReceiveShape
  <2>2. CreatedOnce' /\ CreatingForms' /\ NothingNew'
    BY <2>1, OnceIfStays
  <2>3. FormOfRow' /\ CopiedAtOpen'
    BY <1>6, ShownIfReceived
  <2> QED
    BY <2>1, <2>2, <2>3 DEF IInv
<1>7. CASE \E k \in Keys : Answer(k)
  <2>1. /\ WellTyped' /\ kind' = kind /\ Stays /\ form' = form
        /\ \A j \in Keys : entry'[j].data = entry[j].data
    BY <1>7, AnswerShape
  <2>2. CreatedOnce' /\ CreatingForms' /\ NothingNew'
    BY <2>1, OnceIfStays
  <2>3. FormOfRow' /\ CopiedAtOpen'
    BY <2>1, ShownIfKept
  <2> QED
    BY <2>1, <2>2, <2>3 DEF IInv
<1>8. CASE \/ RereadContact \/ (\E c \in Contacts : ChangeContact(c))
           \/ (\E x \in Rows : ChangeRow(x))
  <2>1. WellTyped' /\ kind' = kind /\ Stays /\ form' = form /\ entry' = entry
    BY <1>8, ElsewhereShape
  <2>2. CreatedOnce' /\ CreatingForms' /\ NothingNew'
    BY <2>1, OnceIfStays
  <2>3. FormOfRow' /\ CopiedAtOpen'
    BY <2>1, ShownIfKept
  <2> QED
    BY <2>1, <2>2, <2>3 DEF IInv
<1>9. CASE \E i \in Calls : CallStep(i)
  <2>1. PICK i \in Calls : CallShape(i)
    BY <1>9, CallSteps
  <2>2. WellTyped' /\ kind' = kind /\ OneMoves(i)
    BY <2>1 DEF CallShape
  <2>3. CreatedOnce' /\ CreatingForms' /\ NothingNew'
    BY <2>2, OnceIfMoves
  <2>4. IsForm(form')
    BY <2>2 DEF WellTyped, IsForm
  <2>5. FormOfRow' /\ CopiedAtOpen'
    BY <2>1, <2>2, <2>4, ShownIfKept DEF CallShape
  <2> QED
    BY <2>2, <2>3, <2>5 DEF IInv
<1>10. CASE UNCHANGED vars
  BY <1>10 DEF vars, IInv, WellTyped, IsForm, IsCall, IsEntry, FormOfRow, CopiedAtOpen, Key, Known,
               Loaded, CreatedOnce, CreatingForms, HasContact, OneRequest, OneRow, Pending,
               Inserted, NothingNew, InPlace
<1> QED
  BY <1>2, <1>3, <1>4, <1>5, <1>6, <1>7, <1>8, <1>9, <1>10 DEF Next, CallStep

LEMMA Invariant == Spec => []IInv
BY InitInv, NextInv, PTL DEF Spec

\* A form that creates makes no second row, whatever is closed, opened again, answered
\* late or lost meanwhile, but for the answers it was denied (CreatedOnce;
\* ListingFormModal.tsx:600-724, ProfileFormModal.tsx).
THEOREM CreatesOneRow == Spec => []CreatedOnce
<1>1. IInv => CreatedOnce
  BY DEF IInv
<1> QED
  BY Invariant, <1>1, PTL

\* Once the page has the row a form is for, the form was last given that row's values,
\* not those of the row it showed before, however rows are switched and answers come in
\* (FormOfRow; LandlordViewingsView.tsx:63-90, ListingFormModal.tsx:449-484).
THEOREM NoOtherRowsValues == Spec => []FormOfRow
<1>1. IInv => FormOfRow
  BY DEF IInv
<1> QED
  BY Invariant, <1>1, PTL
-----------------------------------------------------------------------------
(* What the forms, the rows and the answers hold. *)

\* The rows that are written: no blank fee, capacity or range, a count of rooms with a
\* whole floor and with nothing else, and no blanks around a text.
RowType(k) ==
  {r \in DraftType(k) :
     /\ k = "listing" =>
          /\ r.fee # Blank /\ ~r.consent
          /\ r.home[1] = "whole_floor" <=> r.home[2] # Blank
     /\ k = "availability" => r.capacity # Blank /\ r.range # Blank
     /\ k = "account" => r.name # "blanks" /\ r.contact # "blanks"}

\* An answer is about rows that there are, and stay.
OfRows(answer, k, live) == \A f \in answer : f[1] \in live /\ f[2] \in RowType(k)
HoldsRows(e, k, live) ==
  /\ Loaded(e) => OfRows(e.data, k, live)
  /\ e.at = "answered" => OfRows(e.got, k, live)

RowsHold == Live # {} /\ \A x \in Live : row[x] \in RowType(kind)
EntriesHold == \A k \in Keys : HoldsRows(entry[k], kind, Live)
FormHolds == form.draft \in DraftType(kind) /\ (form.of # New => form.of \in Live)
ContactsHold ==
  wish \in DraftType(kind) /\ contact \in Contacts /\ mine \in Contacts /\ latest \in Contacts

\* What a request carries a form let through, what is counted the server let through.
LetThrough(sent, k, new) ==
  \E d \in DraftType(k) : ClientAccepts(k, d, new) /\ sent = Payload(k, d)
CallHolds(c, k, live) ==
  /\ c.contact \in Contacts
  /\ c.of # New => c.of \in live
  /\ c.at \in {"sent", "counted"} => LetThrough(c.sent, k, c.of = New)
  /\ c.at = "counted" => ServerAccepts(k, c.sent, c.of = New)
  /\ c.at = "refused" => KnownRefusal(k, c.sent)
CallsHold == \A i \in Calls : CallHolds(calls[i], kind, Live)

\* Every creation that was let in has a place, but for as many as there were beside another
\* one, or let in by a count that failed.
LimitHolds ==
  /\ together \in Nat \ {0} /\ unread \in Nat /\ IsFiniteSet(Counted)
  /\ kind = "profile" =>
       Cardinality(Live) + Cardinality(Counted) <= Limit + together - 1 + unread

DInv == RowsHold /\ EntriesHold /\ FormHolds /\ ContactsHold /\ CallsHold /\ LimitHolds
-----------------------------------------------------------------------------
(* The contents of the forms. *)

LEMMA DefaultsTyped == \A k \in Kinds : Defaults(k) \in DraftType(k)
<1>1. Defaults("listing") \in DraftType("listing")
  BY DEF Defaults, DraftType, N, Blank
<1>2. Defaults("profile") \in DraftType("profile")
  BY DEF Defaults, DraftType, N, Blank, Texts
<1>3. Defaults("availability") \in DraftType("availability")
  BY DEF Defaults, DraftType, N, Blank
<1>4. Defaults("account") \in DraftType("account")
  BY DEF Defaults, DraftType, Texts
<1> QED
  BY <1>1, <1>2, <1>3, <1>4 DEF Kinds

LEMMA FilledTyped == \A k \in Kinds : Filled(k) \in DraftType(k)
<1>1. Filled("listing") \in DraftType("listing")
  BY DEF Filled, DraftType, N, Blank
<1>2. Filled("profile") \in DraftType("profile")
  BY DEF Filled, DraftType, N, Blank, Texts
<1>3. Filled("availability") \in DraftType("availability")
  BY DEF Filled, DraftType, N, Blank
<1>4. Filled("account") \in DraftType("account")
  BY DEF Filled, DraftType, Texts
<1> QED
  BY <1>1, <1>2, <1>3, <1>4 DEF Kinds

\* One field that is typed.
LEMMA ListingField ==
  ASSUME NEW d \in DraftType("listing"), NEW f \in DOMAIN d, NEW v \in TypedListing[f]
  PROVE  [d EXCEPT ![f] = v] \in DraftType("listing")
<1>1. f \in {"place", "home", "date", "consent", "rent", "fee", "area", "lease"}
  BY DEF DraftType
<1>2. CASE f = "place"
  <2>1. v \in {"none", "city", "mixed", "known"}
    BY <1>2 DEF TypedListing
  <2> QED
    BY <1>2, <2>1 DEF DraftType
<1>3. CASE f = "home"
  <2>1. v \in {"empty", "suite", "whole_floor"} \X Int
    BY <1>3 DEF TypedListing, N, Blank
  <2> QED
    BY <1>3, <2>1 DEF DraftType
<1>4. CASE f = "date"
  <2>1. v \in BOOLEAN
    BY <1>4 DEF TypedListing
  <2> QED
    BY <1>4, <2>1 DEF DraftType
<1>6. CASE f = "consent"
  <2>1. v \in BOOLEAN
    BY <1>6 DEF TypedListing
  <2> QED
    BY <1>6, <2>1 DEF DraftType
<1>5. CASE f \in {"rent", "fee", "area", "lease"}
  <2>1. v \in Int
    BY <1>5 DEF TypedListing, N, Blank, Wide
  <2> QED
    BY <1>5, <2>1 DEF DraftType
<1> QED
  BY <1>1, <1>2, <1>3, <1>4, <1>5, <1>6

LEMMA ProfileField ==
  ASSUME NEW d \in DraftType("profile"), NEW f \in DOMAIN d, NEW v \in TypedProfile[f]
  PROVE  [d EXCEPT ![f] = v] \in DraftType("profile")
<1>1. f \in {"name", "budget", "date", "places", "rooms", "lease", "minArea", "age"}
  BY DEF DraftType
<1>2. CASE f = "name"
  <2>1. v \in Texts
    BY <1>2 DEF TypedProfile, Texts
  <2> QED
    BY <1>2, <2>1 DEF DraftType
<1>3. CASE f = "budget"
  <2>1. v \in Int \X Int
    BY <1>3 DEF TypedProfile, N, Blank, Wide
  <2> QED
    BY <1>3, <2>1 DEF DraftType
<1>4. CASE f = "date"
  <2>1. v \in BOOLEAN
    BY <1>4 DEF TypedProfile
  <2> QED
    BY <1>4, <2>1 DEF DraftType
<1>5. CASE f \in {"places", "rooms", "lease", "minArea", "age"}
  <2>1. v \in Int
    BY <1>5 DEF TypedProfile, N, Blank, Wide
  <2> QED
    BY <1>5, <2>1 DEF DraftType
<1> QED
  BY <1>1, <1>2, <1>3, <1>4, <1>5

LEMMA HoursField ==
  ASSUME NEW d \in DraftType("availability"), NEW f \in DOMAIN d, NEW v \in TypedHours[f]
  PROVE  [d EXCEPT ![f] = v] \in DraftType("availability")
<1>1. f \in {"enabled", "hours", "capacity", "range"}
  BY DEF DraftType
<1>2. CASE f = "enabled"
  <2>1. v \in BOOLEAN
    BY <1>2 DEF TypedHours
  <2> QED
    BY <1>2, <2>1 DEF DraftType
<1>3. CASE f = "hours"
  <2>1. v \in {"off", "forward", "backward", "cleared"}
    BY <1>3 DEF TypedHours
  <2> QED
    BY <1>3, <2>1 DEF DraftType
<1>4. CASE f \in {"capacity", "range"}
  <2>1. v \in Int
    BY <1>4 DEF TypedHours, N, Blank
  <2> QED
    BY <1>4, <2>1 DEF DraftType
<1> QED
  BY <1>1, <1>2, <1>3, <1>4

LEMMA AccountField ==
  ASSUME NEW d \in DraftType("account"), NEW f \in DOMAIN d, NEW v \in TypedAccount[f]
  PROVE  [d EXCEPT ![f] = v] \in DraftType("account")
<1>1. f \in {"name", "contact"} /\ v \in Texts
  BY DEF DraftType, TypedAccount, Texts
<1> QED
  BY <1>1 DEF DraftType

LEMMA FieldTyped ==
  ASSUME NEW k \in Kinds, NEW d \in DraftType(k), NEW f \in DOMAIN d, NEW v \in Typed(k)[f]
  PROVE  [d EXCEPT ![f] = v] \in DraftType(k)
<1>1. CASE k = "listing"
  BY <1>1, ListingField DEF Typed
<1>2. CASE k = "profile"
  BY <1>2, ProfileField DEF Typed
<1>3. CASE k = "availability"
  BY <1>3, HoursField DEF Typed
<1>4. CASE k = "account"
  BY <1>4, AccountField DEF Typed
<1> QED
  BY <1>1, <1>2, <1>3, <1>4 DEF Kinds

\* The fields that a conversion changes.
HomeType == {"empty", "suite", "whole_floor"} \X Int

LEMMA ListingSent ==
  ASSUME NEW d \in DraftType("listing"), NEW p, p = Payload("listing", d)
  PROVE  /\ p \in DraftType("listing")
         /\ p.fee = OrElse(d.fee, 0)
         /\ p.home = IF d.home[1] = "whole_floor" THEN d.home ELSE <<d.home[1], Blank>>
         /\ p.place = d.place /\ p.rent = d.rent /\ p.area = d.area /\ p.date = d.date
         /\ p.lease = d.lease /\ p.consent = d.consent
<1> DEFINE h == IF d.home[1] = "whole_floor" THEN d.home ELSE <<d.home[1], Blank>>
           fee == OrElse(d.fee, 0)
<1>1. d.home \in HomeType /\ d.fee \in Int
  BY DEF DraftType, HomeType
<1>2. p = [d EXCEPT !.fee = fee, !.home = h]
  BY DEF Payload, ListingPayload
<1>3. h \in HomeType /\ fee \in Int
  BY <1>1 DEF HomeType, OrElse, Blank
<1> HIDE DEF h, fee
<1>4. /\ p \in DraftType("listing") /\ p.fee = fee /\ p.home = h
      /\ p.place = d.place /\ p.rent = d.rent /\ p.area = d.area /\ p.date = d.date
      /\ p.lease = d.lease /\ p.consent = d.consent
  BY <1>2, <1>3 DEF DraftType, HomeType
<1> QED
  BY <1>4 DEF h, fee

LEMMA ListingConsent ==
  ASSUME NEW d \in DraftType("listing"), NEW b \in BOOLEAN, NEW p, p = [d EXCEPT !.consent = b]
  PROVE  /\ p \in DraftType("listing") /\ p.consent = b /\ p.fee = d.fee /\ p.home = d.home
BY DEF DraftType

LEMMA HoursSent ==
  ASSUME NEW d \in DraftType("availability"), NEW p, p = Payload("availability", d)
  PROVE  /\ p \in DraftType("availability")
         /\ p.capacity = OrElse(d.capacity, N(1)) /\ p.range = OrElse(d.range, N(14))
         /\ p.enabled = d.enabled /\ p.hours = d.hours
         /\ d.capacity # Blank /\ d.range # Blank => p = d
<1> DEFINE c == OrElse(d.capacity, N(1))
           g == OrElse(d.range, N(14))
<1>1. c \in Int /\ g \in Int
  BY DEF DraftType, OrElse, N
<1>2. p = [d EXCEPT !.capacity = c, !.range = g]
  BY DEF Payload
<1>3. d.capacity # Blank /\ d.range # Blank => c = d.capacity /\ g = d.range
  BY DEF OrElse
<1> HIDE DEF c, g
<1>4. /\ p \in DraftType("availability") /\ p.capacity = c /\ p.range = g
      /\ p.enabled = d.enabled /\ p.hours = d.hours
      /\ c = d.capacity /\ g = d.range => p = d
  BY <1>1, <1>2 DEF DraftType
<1> QED
  BY <1>3, <1>4 DEF c, g

LEMMA HoursShown ==
  ASSUME NEW d \in DraftType("availability"), NEW p, p = Hydrated("availability", d)
  PROVE  /\ p \in DraftType("availability")
         /\ d.capacity # 0 /\ d.range # 0 => p = d
<1> DEFINE c == ShownCapacity(d.capacity)
           g == OrZero(d.range, N(14))
<1>1. c \in Int /\ g \in Int
  BY DEF DraftType, ShownCapacity, OrZero, N
<1>2. p = [d EXCEPT !.capacity = c, !.range = g]
  BY DEF Hydrated
<1>3. d.capacity # 0 /\ d.range # 0 => c = d.capacity /\ g = d.range
  BY DEF ShownCapacity, OrZero
<1> HIDE DEF c, g
<1>4. p \in DraftType("availability") /\ (c = d.capacity /\ g = d.range => p = d)
  BY <1>1, <1>2 DEF DraftType
<1> QED
  BY <1>3, <1>4

LEMMA HoursEnabled ==
  ASSUME NEW d \in DraftType("availability"), NEW b \in BOOLEAN
  PROVE  [d EXCEPT !.enabled = b] \in DraftType("availability")
BY DEF DraftType

LEMMA DraftsTyped == \A k \in Kinds : DraftsOf(k) \in SUBSET DraftType(k)
<1> SUFFICES ASSUME NEW k \in Kinds, NEW d \in DraftsOf(k) PROVE d \in DraftType(k)
  OBVIOUS
<1> DEFINE full == Filled(k)
           off == [full EXCEPT !.enabled = FALSE]
<1>1. full \in DraftType(k)
  BY FilledTyped
<1>2. k = "availability" => off \in DraftType(k)
  BY <1>1, HoursEnabled
<1>3. \A e \in DraftType(k) : OneOff(k, e) \in SUBSET DraftType(k)
  <2> SUFFICES ASSUME NEW e \in DraftType(k), NEW f \in DOMAIN e, NEW v \in Typed(k)[f]
               PROVE  [e EXCEPT ![f] = v] \in DraftType(k)
    BY DEF OneOff
  <2> QED
    BY FieldTyped
<1>4. \/ d = full \/ d \in OneOff(k, full)
      \/ k = "availability" /\ d \in OneOff(k, off)
  BY DEF DraftsOf
<1> HIDE DEF full, off
<1> QED
  BY <1>1, <1>2, <1>3, <1>4

\* The form that fills itself in is one both sides let through.
LEMMA FilledAccepted ==
  \A k \in Kinds, new \in BOOLEAN :
    ClientAccepts(k, Filled(k), new) /\ ServerAccepts(k, Payload(k, Filled(k)), new)
<1> SUFFICES ASSUME NEW k \in Kinds, NEW new \in BOOLEAN
             PROVE  ClientAccepts(k, Filled(k), new) /\ ServerAccepts(k, Payload(k, Filled(k)), new)
  OBVIOUS
<1>1. /\ ClientAccepts("listing", Filled("listing"), new)
      /\ ServerAccepts("listing", Payload("listing", Filled("listing")), new)
  <2> DEFINE d == Filled("listing")
             p == Payload("listing", d)
  <2>1. ClientAccepts("listing", d, new)
    BY SMT DEF Filled, ClientAccepts, ListingChecked, Between, N, Blank, Wide
  <2>2. ServerAccepts("listing", p, new)
    <3> DEFINE h == <<"suite", Blank>>
    <3>1. /\ d.place = "known" /\ d.rent = N(1) /\ d.fee = 0 /\ d.area = N(1)
          /\ d.home = <<"suite", 0>> /\ d.date /\ d.lease = N(12) /\ d.consent
      BY SMT DEF Filled
    <3>2. d \in DraftType("listing") /\ OrElse(0, 0) = 0
      BY FilledTyped DEF Kinds, OrElse
    <3> HIDE DEF d
    <3>3. p = Payload("listing", d)
      OBVIOUS
    <3> HIDE DEF p
    <3>5. /\ p.fee = OrElse(d.fee, 0)
          /\ p.home = IF d.home[1] = "whole_floor" THEN d.home ELSE <<d.home[1], Blank>>
          /\ p.place = d.place /\ p.rent = d.rent /\ p.area = d.area /\ p.date = d.date
          /\ p.lease = d.lease /\ p.consent = d.consent
      BY <3>2, <3>3, ListingSent
    <3>4. /\ p.place = "known" /\ p.rent = N(1) /\ p.fee = 0 /\ p.area = N(1)
          /\ p.home = h /\ p.date /\ p.lease = N(12) /\ p.consent
      BY <3>1, <3>2, <3>5
    <3> HIDE DEF h
    <3> QED
      BY <3>4, SMT DEF h, ServerAccepts, ListingAccepted, Whole, Between, Fits, N, Blank, Wide
  <2> QED
    BY <2>1, <2>2
<1>2. /\ ClientAccepts("profile", Filled("profile"), new)
      /\ ServerAccepts("profile", Payload("profile", Filled("profile")), new)
  <2> DEFINE d == Filled("profile")
             p == Payload("profile", d)
  <2>1. ClientAccepts("profile", d, new)
    BY SMT DEF Filled, ClientAccepts, ProfileChecked, Between, N, Blank, Wide
  <2>2. ServerAccepts("profile", p, new)
    BY SMT DEF Filled, Payload, ServerAccepts, ProfileAccepted, Whole, Fits, N, Blank, Wide
  <2> QED
    BY <2>1, <2>2
<1>3. /\ ClientAccepts("availability", Filled("availability"), new)
      /\ ServerAccepts("availability", Payload("availability", Filled("availability")), new)
  <2> DEFINE d == Filled("availability")
             p == Payload("availability", d)
  <2>1. ClientAccepts("availability", d, new)
    BY SMT DEF Filled, ClientAccepts
  <2>2. ServerAccepts("availability", p, new)
    <3>1. d.enabled /\ d.capacity = N(1) /\ d.range = N(14) /\ d.hours = "forward"
      BY SMT DEF Filled
    <3>2. d \in DraftType("availability")
      BY FilledTyped DEF Kinds
    <3>3. OrElse(N(1), N(1)) = N(1) /\ OrElse(N(14), N(14)) = N(14)
      BY DEF OrElse
    <3> HIDE DEF d
    <3>4. p = Payload("availability", d)
      OBVIOUS
    <3> HIDE DEF p
    <3>6. /\ p.capacity = OrElse(d.capacity, N(1)) /\ p.range = OrElse(d.range, N(14))
          /\ p.enabled = d.enabled /\ p.hours = d.hours
      BY <3>2, <3>4, HoursSent
    <3>5. p.enabled /\ p.capacity = N(1) /\ p.range = N(14) /\ p.hours = "forward"
      BY <3>1, <3>3, <3>6
    <3> QED
      BY <3>5, SMT DEF ServerAccepts, AvailabilityAccepted, Whole, Between, N, Blank
  <2> QED
    BY <2>1, <2>2
<1>4. /\ ClientAccepts("account", Filled("account"), new)
      /\ ServerAccepts("account", Payload("account", Filled("account")), new)
  <2> DEFINE d == Filled("account")
             p == Payload("account", d)
  <2>1. ClientAccepts("account", d, new)
    BY SMT DEF Filled, ClientAccepts
  <2>2. ServerAccepts("account", p, new)
    BY SMT DEF Filled, Payload, ServerAccepts
  <2> QED
    BY <2>1, <2>2
<1> QED
  BY <1>1, <1>2, <1>3, <1>4 DEF Kinds

\* What the server lets through makes a row.
LEMMA RowStored ==
  ASSUME NEW k \in Kinds, NEW d \in DraftType(k), NEW new \in BOOLEAN,
         ServerAccepts(k, Payload(k, d), new)
  PROVE  Stored(k, Payload(k, d)) \in RowType(k)
<1>1. CASE k = "listing"
  <2> DEFINE p == Payload("listing", d)
             r == Stored("listing", p)
  <2>1. d \in DraftType("listing") /\ p = Payload("listing", d)
    BY <1>1
  <2>2. p.home[1] = "whole_floor" => p.home[2] # Blank
    BY <1>1 DEF ServerAccepts, ListingAccepted
  <2> HIDE DEF p
  <2>3. /\ p \in DraftType("listing")
        /\ p.fee = OrElse(d.fee, 0)
        /\ p.home = IF d.home[1] = "whole_floor" THEN d.home ELSE <<d.home[1], Blank>>
    BY <2>1, ListingSent
  <2>4. p.fee # Blank /\ (p.home[1] = "whole_floor" <=> p.home[2] # Blank)
    BY <2>2, <2>3 DEF OrElse, Blank
  <2>5. r = [p EXCEPT !.consent = FALSE]
    BY DEF Stored
  <2> HIDE DEF r
  <2>6. r \in DraftType("listing") /\ r.fee = p.fee /\ r.home = p.home /\ r.consent = FALSE
    BY <2>3, <2>5, ListingConsent
  <2>7. r \in RowType("listing")
    BY <2>4, <2>6 DEF RowType
  <2> QED
    BY <1>1, <2>7 DEF r, p
<1>2. CASE k = "profile"
  BY <1>2 DEF Payload, Stored, RowType
<1>3. CASE k = "availability"
  <2> DEFINE p == Payload("availability", d)
  <2>1. d \in DraftType("availability") /\ p = Payload("availability", d)
    BY <1>3
  <2>2. Stored("availability", p) = p
    BY DEF Stored
  <2> HIDE DEF p
  <2>3. /\ p \in DraftType("availability")
        /\ p.capacity = OrElse(d.capacity, N(1)) /\ p.range = OrElse(d.range, N(14))
    BY <2>1, HoursSent
  <2>4. p.capacity # Blank /\ p.range # Blank
    BY <2>3 DEF OrElse, N, Blank
  <2>5. p \in RowType("availability")
    BY <2>3, <2>4 DEF RowType
  <2> QED
    BY <1>3, <2>2, <2>5 DEF p
<1>4. CASE k = "account"
  <2> DEFINE n == Trimmed(d.name)
             c == Trimmed(d.contact)
             r == [name |-> n, contact |-> c]
  <2>1. n \in Texts /\ n # "blanks" /\ c \in Texts /\ c # "blanks"
    BY <1>4 DEF DraftType, Trimmed, Texts
  <2>2. Stored(k, Payload(k, d)) = r
    BY <1>4 DEF Payload, Stored
  <2> HIDE DEF n, c
  <2> QED
    BY <1>4, <2>1, <2>2 DEF RowType, DraftType
<1> QED
  BY <1>1, <1>2, <1>3, <1>4 DEF Kinds

\* A form can show every row.
LEMMA RowHydrated ==
  ASSUME NEW k \in Kinds, NEW r \in RowType(k)
  PROVE  Hydrated(k, r) \in DraftType(k)
<1>1. r \in DraftType(k)
  BY DEF RowType
<1>2. CASE k = "listing"
  <2> DEFINE h == <<r.home[1], OrElse(r.home[2], 0)>>
  <2>1. r.home \in {"empty", "suite", "whole_floor"} \X Int
    BY <1>1, <1>2 DEF DraftType
  <2>2. h \in {"empty", "suite", "whole_floor"} \X Int
    BY <2>1 DEF OrElse
  <2>3. Hydrated(k, r) = [r EXCEPT !.home = h]
    BY <1>2 DEF Hydrated
  <2> HIDE DEF h
  <2> QED
    BY <1>1, <1>2, <2>2, <2>3 DEF DraftType
<1>3. CASE k = "profile"
  <2> DEFINE a == OrZero(r.age, Blank)
  <2>1. a \in Int
    BY <1>1, <1>3 DEF DraftType, OrZero, Blank
  <2>2. Hydrated(k, r) = [r EXCEPT !.age = a]
    BY <1>3 DEF Hydrated
  <2> HIDE DEF a
  <2> QED
    BY <1>1, <1>3, <2>1, <2>2 DEF DraftType
<1>4. CASE k = "availability"
  BY <1>1, <1>4, HoursShown
<1>5. CASE k = "account"
  BY <1>1, <1>5 DEF Hydrated
<1> QED
  BY <1>2, <1>3, <1>4, <1>5 DEF Kinds

\* A row of any content that is shown, and sent and stored again untouched, is the row,
\* but for an age, a capacity or a range of 0 (ListingFormModal.tsx:452-512).
THEOREM RowUntouched ==
  ASSUME NEW k \in Kinds, NEW r \in RowType(k), ~KnownRewrite(k, r)
  PROVE  Stored(k, Payload(k, Hydrated(k, r))) = r
<1>1. r \in DraftType(k)
  BY DEF RowType
<1>2. CASE k = "listing"
  <2> DEFINE h == <<r.home[1], OrElse(r.home[2], 0)>>
             d == [r EXCEPT !.home = h]
             h2 == IF h[1] = "whole_floor" THEN h ELSE <<h[1], Blank>>
             p == [d EXCEPT !.fee = OrElse(@, 0), !.home = h2]
  <2>1. r.home \in HomeType /\ h \in HomeType /\ r.fee \in Int
    BY <1>1, <1>2 DEF DraftType, HomeType, OrElse
  <2>2. h2 = r.home
    BY <1>2, <2>1 DEF RowType, OrElse, HomeType
  <2>3. OrElse(r.fee, 0) = r.fee /\ r.consent = FALSE
    BY <1>1, <1>2 DEF RowType, DraftType, OrElse
  <2>4. d \in DraftType("listing") /\ d.home = h /\ d.fee = r.fee
    <3> HIDE DEF h
    <3> QED
      BY <1>1, <1>2, <2>1 DEF DraftType, HomeType
  <2>5. Hydrated(k, r) = d /\ Stored(k, Payload(k, d)) = [p EXCEPT !.consent = FALSE]
    <3>1. Hydrated(k, r) = d
      BY <1>2 DEF Hydrated
    <3> HIDE DEF d, h
    <3> QED
      BY <1>2, <2>4, <3>1 DEF Payload, ListingPayload, Stored
  <2>6. p = r
    <3>1. d = [r EXCEPT !.home = h] /\ p = [d EXCEPT !.fee = r.fee, !.home = r.home]
      BY <2>2, <2>3, <2>4
    <3> HIDE DEF d, p, h, h2
    <3> QED
      BY <1>1, <1>2, <2>1, <3>1 DEF DraftType
  <2>7. [r EXCEPT !.consent = FALSE] = r
    BY <1>1, <1>2, <2>3 DEF DraftType
  <2> HIDE DEF p, d
  <2> QED
    BY <2>5, <2>6, <2>7
<1>3. CASE k = "profile"
  BY <1>1, <1>3 DEF DraftType, Hydrated, OrZero, KnownRewrite, Payload, Stored
<1>4. CASE k = "availability"
  <2>1. r.capacity # 0 /\ r.range # 0 /\ r.capacity # Blank /\ r.range # Blank
    BY <1>4 DEF KnownRewrite, RowType
  <2>2. r \in DraftType("availability")
    BY <1>1, <1>4
  <2>3. Hydrated("availability", r) = r
    BY <2>1, <2>2, HoursShown
  <2>4. Payload("availability", r) = r
    BY <2>1, <2>2, HoursSent
  <2> QED
    BY <1>4, <2>3, <2>4 DEF Stored
<1>5. CASE k = "account"
  BY <1>1, <1>5 DEF RowType, DraftType, Hydrated, Payload, Trimmed, Stored
<1> QED
  BY <1>2, <1>3, <1>4, <1>5 DEF Kinds

\* Of all that can be typed into a form, what it lets through and the server does not is
\* one of the known cases (ListingFormModal.tsx:600-724, ProfileFormModal.tsx,
\* listings.go:134-170, tenant_profiles.go).
THEOREM RefusedKnown ==
  ASSUME NEW k \in Kinds, NEW d \in DraftType(k), NEW new \in BOOLEAN,
         ClientAccepts(k, d, new), ~ServerAccepts(k, Payload(k, d), new)
  PROVE  KnownRefusal(k, Payload(k, d))
<1>1. CASE k = "listing"
  <2> DEFINE p == Payload(k, d)
             h == IF d.home[1] = "whole_floor" THEN d.home ELSE <<d.home[1], Blank>>
             fee == OrElse(d.fee, 0)
  <2>1. d.home \in {"empty", "suite", "whole_floor"} \X Int /\ d.fee \in Int
    BY <1>1 DEF DraftType
  <2>2. p = [d EXCEPT !.fee = fee, !.home = h]
    BY <1>1 DEF Payload, ListingPayload
  <2>3. /\ h \in {"empty", "suite", "whole_floor"} \X Int /\ h[1] = d.home[1]
        /\ h[1] # "whole_floor" => h[2] = Blank
        /\ h = <<"whole_floor", Blank>> <=> h[1] = "whole_floor" /\ h[2] = Blank
    BY <2>1 DEF Blank
  <2> HIDE DEF h, fee, p
  <2>4. /\ p.place = d.place /\ p.rent = d.rent /\ p.fee = fee /\ p.area = d.area /\ p.home = h
        /\ p.date = d.date /\ p.lease = d.lease /\ p.consent = d.consent
        /\ p.rent \in Int /\ p.area \in Int /\ p.lease \in Int
    BY <1>1, <2>2 DEF DraftType
  <2>5. /\ d.place \in {"known", "mixed"}
        /\ Between(d.rent, N(1), N(999999))
        /\ d.fee = Blank \/ Between(d.fee, 0, N(999999))
        /\ Between(d.area, 1, 9999)
        /\ d.home[1] # "empty" /\ d.date
        /\ Between(d.lease, N(1), Wide)
        /\ new => d.consent
    BY <1>1 DEF ClientAccepts, ListingChecked
  <2>6. /\ Between(p.fee, 0, N(999999)) /\ N(1) <= p.lease
        /\ p.area < N(1000) /\ p.rent = d.rent
    BY <2>1, <2>4, <2>5 DEF Between, N, OrElse, Blank, fee
  <2>7. ~ListingAccepted(p, new)
    BY <1>1 DEF ServerAccepts, p
  <2>8. \/ p.place = "mixed"
        \/ ~Whole(p.rent) \/ ~Whole(p.fee) \/ ~Whole(p.lease) \/ ~Whole(p.home[2])
        \/ ~(N(1) <= p.area)
        \/ p.home = <<"whole_floor", Blank>>
        \/ ~(p.home[2] < N(32768)) \/ ~Fits(p.lease)
    BY <2>3, <2>4, <2>5, <2>6, <2>7 DEF ListingAccepted
  <2>9. /\ ~(N(1) <= p.area) => p.area < N(1)
        /\ ~(p.home[2] < N(32768)) => p.home[2] >= N(32768)
    BY <2>3, <2>4 DEF N
  <2> QED
    BY <1>1, <2>8, <2>9 DEF KnownRefusal, Fraction, TooWide, p
<1>2. CASE k = "profile"
  <2>1. Payload(k, d) = d
    BY <1>2 DEF Payload
  <2>2. /\ d.name # "empty" /\ d.places > 0 /\ d.rooms > 0 /\ d.date
        /\ \A i \in 1..2 : Between(d.budget[i], N(1), Wide)
        /\ d.budget[1] <= d.budget[2]
        /\ Between(d.lease, N(1), Wide)
        /\ d.minArea < N(1000)
    BY <1>2 DEF ClientAccepts, ProfileChecked
  <2>3. ~ProfileAccepted(d)
    BY <1>2, <2>1 DEF ServerAccepts
  <2>4. d.places \in Int /\ d.rooms \in Int /\ d.minArea \in Int
    BY <1>2 DEF DraftType
  <2>5. /\ d.places >= 1 /\ d.rooms >= 1 /\ N(1) <= d.lease
        /\ \A i \in 1..2 : N(1) <= d.budget[i]
        /\ ~(0 < d.minArea) => d.minArea <= 0
    BY <2>2, <2>4 DEF Between
  <2>6. \/ \E i \in 1..2 : ~Whole(d.budget[i]) \/ ~Fits(d.budget[i])
        \/ ~Whole(d.lease) \/ ~Fits(d.lease) \/ ~Whole(d.age)
        \/ d.minArea # Blank /\ d.minArea <= 0
    BY <2>2, <2>3, <2>5 DEF ProfileAccepted
  <2>7. 1..2 = {1, 2}
    OBVIOUS
  <2> QED
    BY <1>2, <2>1, <2>6, <2>7 DEF KnownRefusal, Fraction, TooWide
<1>3. CASE k = "availability"
  BY <1>3 DEF KnownRefusal
<1>4. CASE k = "account"
  BY <1>4 DEF ServerAccepts
<1> QED
  BY <1>1, <1>2, <1>3, <1>4 DEF Kinds
-----------------------------------------------------------------------------
(* Rows are written and stay. *)

Steady == kind' = kind /\ wish' = wish /\ Live \subseteq Live'

LEMMA SameRows ==
  ASSUME kind' = kind, wish' = wish, row' = row
  PROVE  Steady /\ Live' = Live /\ (RowsHold => RowsHold')
BY DEF Steady, Live, RowsHold

\* A row that is written is there, and so are the others.
LEMMA RowWritten ==
  ASSUME WellTyped, RowsHold, NEW x, NEW r \in RowType(kind),
         kind' = kind, wish' = wish, row' = [row EXCEPT ![x] = r]
  PROVE  Steady /\ RowsHold' /\ Live' \subseteq Live \cup {x}
<1>1. kind \in Kinds /\ row = [y \in Rows |-> row[y]]
  BY DEF WellTyped
<1>2. r # Absent
  BY <1>1, AbsentAssumption DEF RowType
<1>3. \A y \in Rows : row'[y] = IF y = x THEN r ELSE row[y]
  BY <1>1
<1>4. Live' = {y \in Rows : row'[y] # Absent}
  BY DEF Live
<1>5. Live \subseteq Live' /\ Live' \subseteq Live \cup {x}
  BY <1>2, <1>3, <1>4 DEF Live
<1>6. \A y \in Live' : row'[y] \in RowType(kind)
  BY <1>3, <1>4 DEF RowsHold, Live
<1>7. Live' # {}
  BY <1>5 DEF RowsHold
<1> QED
  BY <1>5, <1>6, <1>7 DEF Steady, RowsHold

LEMMA LiveCounted == IsFiniteSet(Live) /\ Cardinality(Live) \in Nat
<1>1. Live \in SUBSET (1 .. MaxRows) /\ MaxRows \in Int
  BY EditorsAssumption DEF Live, Rows
<1>2. IsFiniteSet(1 .. MaxRows)
  BY <1>1, FS_Interval
<1>3. IsFiniteSet(Live)
  BY <1>1, <1>2, FS_Subset
<1> QED
  BY <1>3, FS_CardinalityType

\* There is one row more at most.
LEMMA OneMore ==
  ASSUME NEW x, Live' \subseteq Live \cup {x}
  PROVE  Cardinality(Live') \in Nat /\ Cardinality(Live') <= Cardinality(Live) + 1
<1>1. IsFiniteSet(Live) /\ Cardinality(Live) \in Nat
  BY LiveCounted
<1>2. /\ IsFiniteSet(Live \cup {x})
      /\ Cardinality(Live \cup {x}) = IF x \in Live THEN Cardinality(Live) ELSE Cardinality(Live) + 1
  BY <1>1, FS_AddElement
<1>3. IsFiniteSet(Live') /\ Cardinality(Live') <= Cardinality(Live \cup {x})
  BY <1>2, FS_Subset
<1>4. Cardinality(Live') \in Nat
  BY <1>3, FS_CardinalityType
<1> QED
  BY <1>1, <1>2, <1>3, <1>4
-----------------------------------------------------------------------------
(* What is held stays true while rows are only added. *)

LEMMA RowsLater ==
  ASSUME NEW e, NEW k, NEW live, NEW more, live \subseteq more, HoldsRows(e, k, live)
  PROVE  HoldsRows(e, k, more)
BY DEF HoldsRows, OfRows

LEMMA CallLater ==
  ASSUME NEW c, NEW k, NEW live, NEW more, live \subseteq more, CallHolds(c, k, live)
  PROVE  CallHolds(c, k, more)
BY DEF CallHolds

LEMMA EntriesKept ==
  ASSUME Steady, EntriesHold, entry' = entry
  PROVE  EntriesHold'
<1> SUFFICES ASSUME NEW j \in Keys PROVE HoldsRows(entry'[j], kind', Live')
  BY DEF EntriesHold
<1>1. HoldsRows(entry[j], kind, Live)
  BY DEF EntriesHold
<1> QED
  BY <1>1, RowsLater DEF Steady

LEMMA EntryKept ==
  ASSUME WellTyped, Steady, EntriesHold, NEW k \in Keys, NEW e, HoldsRows(e, kind, Live),
         entry' = [entry EXCEPT ![k] = e]
  PROVE  EntriesHold'
<1> SUFFICES ASSUME NEW j \in Keys PROVE HoldsRows(entry'[j], kind', Live')
  BY DEF EntriesHold
<1>1. HoldsRows(entry[j], kind, Live)
  BY DEF EntriesHold
<1>2. entry'[j] = IF j = k THEN e ELSE entry[j]
  BY DEF WellTyped
<1>3. HoldsRows(entry'[j], kind, Live)
  BY <1>1, <1>2
<1> QED
  BY <1>3, RowsLater DEF Steady

LEMMA CallsKept ==
  ASSUME Steady, CallsHold, calls' = calls
  PROVE  CallsHold'
<1> SUFFICES ASSUME NEW j \in Calls PROVE CallHolds(calls'[j], kind', Live')
  BY DEF CallsHold
<1>1. CallHolds(calls[j], kind, Live)
  BY DEF CallsHold
<1> QED
  BY <1>1, CallLater DEF Steady

LEMMA CallKept ==
  ASSUME WellTyped, Steady, CallsHold, NEW i \in Calls, NEW c, CallHolds(c, kind, Live),
         calls' = [calls EXCEPT ![i] = c]
  PROVE  CallsHold'
<1> SUFFICES ASSUME NEW j \in Calls PROVE CallHolds(calls'[j], kind', Live')
  BY DEF CallsHold
<1>1. CallHolds(calls[j], kind, Live)
  BY DEF CallsHold
<1>2. calls'[j] = IF j = i THEN c ELSE calls[j]
  BY DEF WellTyped
<1>3. CallHolds(calls'[j], kind, Live)
  BY <1>1, <1>2
<1> QED
  BY <1>3, CallLater DEF Steady

LEMMA FormKept ==
  ASSUME Steady, FormHolds, form' = form
  PROVE  FormHolds'
BY DEF Steady, FormHolds

\* A step that adds no row and lets nobody in.
LEMMA LimitKept ==
  ASSUME kind' = kind, Live' = Live, together' = together, unread' = unread, LimitHolds,
         \A j \in Calls : calls'[j].at = "counted" => calls[j].at = "counted"
  PROVE  LimitHolds'
<1>1. Counted' \in SUBSET Counted
  BY DEF Counted
<1>2. /\ IsFiniteSet(Counted') /\ Cardinality(Counted) \in Nat /\ Cardinality(Counted') \in Nat
      /\ Cardinality(Counted') <= Cardinality(Counted)
  BY <1>1, FS_Subset, FS_CardinalityType DEF LimitHolds
<1> QED
  BY <1>2, LiveCounted, EditorsAssumption DEF LimitHolds

LEMMA NobodyLetIn ==
  ASSUME WellTyped, NEW i \in Calls, NEW c, calls' = [calls EXCEPT ![i] = c], c.at # "counted"
  PROVE  \A j \in Calls : calls'[j].at = "counted" => calls[j].at = "counted"
BY DEF WellTyped

\* One more that is let in by a count, good or failed.
LEMMA OneLetIn ==
  ASSUME WellTyped, LimitHolds, Live' = Live, kind' = kind,
         NEW i \in Calls, calls[i].at = "sent", LetIn(i),
         \/ unread' = unread /\ Cardinality(Live) < Limit
         \/ unread' = unread + 1
  PROVE  LimitHolds'
<1> DEFINE n == Cardinality(Counted)
<1>1. calls' = [calls EXCEPT ![i].at = "counted"]
  BY DEF LetIn, Goes
<1>2. i \notin Counted /\ Counted' = Counted \cup {i}
  BY <1>1 DEF Counted, WellTyped, IsCall, CallType
<1>3. IsFiniteSet(Counted') /\ Cardinality(Counted') = n + 1 /\ n \in Nat
  BY <1>2, FS_AddElement, FS_CardinalityType DEF LimitHolds
<1>4. together' = IF n + 1 > together THEN n + 1 ELSE together
  BY DEF LetIn
<1>5. Cardinality(Live) \in Nat /\ Cardinality(Live') = Cardinality(Live)
  BY LiveCounted
<1> QED
  BY <1>3, <1>4, <1>5, EditorsAssumption DEF LimitHolds

LEMMA ContactsKept ==
  ASSUME Steady, ContactsHold, contact' \in Contacts, mine' \in Contacts, latest' \in Contacts
  PROVE  ContactsHold'
BY DEF Steady, ContactsHold
-----------------------------------------------------------------------------
(* What the steps write. *)

LEMMA EntryHolds ==
  ASSUME NEW e, IsEntry(e), NEW k, NEW live, HoldsRows(e, k, live)
  PROVE  /\ HoldsRows(Asked(e), k, live)
         /\ \A answer : OfRows(answer, k, live) => HoldsRows(Answered(e, answer), k, live)
         /\ e.at = "answered" => HoldsRows(Received(e), k, live)
         /\ HoldsRows(Invalidated(e, TRUE), k, live)
         /\ \A b \in BOOLEAN : HoldsRows(Mounted(e, b), k, live)
<1>1. \A s : IsEntry(s) /\ HoldsRows(s, k, live) => HoldsRows(Asked(s), k, live)
  BY DEF IsEntry, EntryType, Asked, HoldsRows, Loaded
<1>2. \A answer : OfRows(answer, k, live) => HoldsRows(Answered(e, answer), k, live)
  BY DEF IsEntry, EntryType, Answered, HoldsRows, Loaded
<1>3. ASSUME e.at = "answered" PROVE HoldsRows(Received(e), k, live)
  <2> DEFINE d == IF e.got = Refused THEN e.data ELSE e.got
             b == (e.got = Refused)
             g == [e EXCEPT !.data = d, !.stale = b, !.at = "idle", !.got = {}]
  <2>1. Received(e) = g
    BY DEF Received
  <2>2. d = e.data \/ d = e.got
    OBVIOUS
  <2> HIDE DEF d, b
  <2>3. g.at = "idle" /\ g.data = d
    BY DEF IsEntry, EntryType
  <2> HIDE DEF g
  <2> QED
    BY <1>3, <2>1, <2>2, <2>3 DEF HoldsRows, Loaded
<1>4. HoldsRows(Invalidated(e, TRUE), k, live)
  <2> DEFINE s == [e EXCEPT !.stale = TRUE]
  <2>1. IsEntry(s) /\ HoldsRows(s, k, live)
    BY DEF IsEntry, EntryType, HoldsRows, Loaded
  <2>2. Invalidated(e, TRUE) = Asked(s)
    BY DEF Invalidated
  <2> HIDE DEF s
  <2> QED
    BY <1>1, <2>1, <2>2
<1>5. \A b \in BOOLEAN : HoldsRows(Mounted(e, b), k, live)
  BY <1>1 DEF Mounted
<1> QED
  BY <1>1, <1>2, <1>3, <1>4, <1>5

LEMMA FactsOfRows == ASSUME RowsHold, NEW k PROVE OfRows(Facts(k), kind, Live)
BY DEF RowsHold, OfRows, Facts

\* A form is filled with the values of a row, if with any.
LEMMA FillHolds ==
  ASSUME NEW f, f.draft \in DraftType(kind), IsForm(f), kind \in Kinds,
         NEW e, HoldsRows(e, kind, Live)
  PROVE  Fill(f, e).draft \in DraftType(kind) /\ Fill(f, e).of = f.of
<1>1. CASE Known(e, f.of) = {}
  BY <1>1 DEF Fill
<1>2. CASE Known(e, f.of) # {}
  <2> DEFINE r == Copy(e, f.of)
             d == Hydrated(kind, r)
  <2>1. r \in RowType(kind)
    BY <1>2 DEF Copy, Known, HoldsRows, OfRows
  <2> HIDE DEF r
  <2>2. d \in DraftType(kind)
    BY <2>1, RowHydrated
  <2>3. Fill(f, e) = [f EXCEPT !.draft = d, !.from = f.of]
    BY <1>2 DEF Fill, r
  <2> HIDE DEF d
  <2> QED
    BY <2>2, <2>3 DEF IsForm, FormType
<1> QED
  BY <1>1, <1>2

LEMMA ClosedHolds ==
  ASSUME kind \in Kinds, NEW n
  PROVE  LET g == [Closed EXCEPT !.no = n] IN g.draft \in DraftType(kind) /\ g.of = New
<1>1. Defaults(kind) \in DraftType(kind)
  BY DefaultsTyped
<1> QED
  BY <1>1 DEF Closed

LEMMA BlankedHolds ==
  ASSUME kind \in Kinds, NEW x
  PROVE  Blanked(x).draft \in DraftType(kind) /\ Blanked(x).of = x
<1>1. Defaults(kind) \in DraftType(kind)
  BY DefaultsTyped
<1> DEFINE n == form.no + 1
<1>2. Blanked(x) = [Closed EXCEPT !.at = "open", !.of = x, !.no = n]
  BY DEF Blanked
<1> HIDE DEF n
<1> QED
  BY <1>1, <1>2 DEF Closed

\* What a request carries the server refuses in the known cases, or makes a row of.
LEMMA SentHolds ==
  ASSUME NEW k \in Kinds, NEW sent, NEW new \in BOOLEAN, LetThrough(sent, k, new)
  PROVE  /\ ServerAccepts(k, sent, new) => Stored(k, sent) \in RowType(k)
         /\ ~ServerAccepts(k, sent, new) => KnownRefusal(k, sent)
<1>1. PICK d \in DraftType(k) : ClientAccepts(k, d, new) /\ sent = Payload(k, d)
  BY DEF LetThrough
<1>2. ServerAccepts(k, sent, new) => Stored(k, sent) \in RowType(k)
  BY <1>1, RowStored
<1>3. ~ServerAccepts(k, sent, new) => KnownRefusal(k, sent)
  BY <1>1, RefusedKnown
<1> QED
  BY <1>2, <1>3
-----------------------------------------------------------------------------
(* Every step keeps what is held. *)

\* The steps that touch no row and no request but the contact they read or set.
LEMMA OpenHolds ==
  ASSUME WellTyped, DInv, NEW x \in Rows, NEW old \in BOOLEAN, Open(x, old)
  PROVE  DInv'
<1> DEFINE e == IF kind = "profile" THEN entry[Key(x)] ELSE Mounted(entry[Key(x)], old)
           b == Base(x)
<1>1. /\ form.no < MaxForms
      /\ IF kind = "profile" THEN x \in Listed(entry[New]) ELSE row[x] # Absent
      /\ entry' = [entry EXCEPT ![Key(x)] = e]
      /\ form' = Fill(b, e)
      /\ kind' = kind /\ wish' = wish /\ row' = row /\ contact' = contact /\ mine' = mine
      /\ calls' = calls /\ latest' = latest
      /\ together' = together /\ unread' = unread
  BY DEF Open, OpenFill, chosen, history
<1>2. RowsHold /\ EntriesHold /\ FormHolds /\ ContactsHold /\ CallsHold /\ LimitHolds
  BY DEF DInv
<1>3. kind \in Kinds /\ IsForm(form) /\ Key(x) \in Keys /\ IsEntry(entry[Key(x)])
  BY KeyOfRow DEF WellTyped
<1>4. HoldsRows(entry[Key(x)], kind, Live)
  BY <1>2, <1>3 DEF EntriesHold
<1>5. HoldsRows(e, kind, Live)
  BY <1>3, <1>4, EntryHolds
<1>6. IsForm(b) /\ b.of = x
  BY <1>1, <1>3, BaseForm
<1>7. b.draft \in DraftType(kind)
  <2>1. CASE kind = "availability" /\ form.at = "open"
    <3> DEFINE n == form.no + 1
    <3>1. b = [form EXCEPT !.of = x, !.no = n]
      BY <2>1 DEF Base
    <3> HIDE DEF n, b
    <3>2. b.draft = form.draft
      BY <1>3, <3>1 DEF IsForm, FormType
    <3> QED
      BY <1>2, <3>2 DEF FormHolds
  <2>2. CASE ~(kind = "availability" /\ form.at = "open")
    BY <1>3, <2>2, BlankedHolds DEF Base
  <2> QED
    BY <2>1, <2>2
<1>8. x \in Live
  <2>1. CASE kind = "profile"
    <3>1. HoldsRows(entry[New], kind, Live) /\ Known(entry[New], x) # {}
      BY <1>1, <1>2, <2>1 DEF EntriesHold, Keys, Listed
    <3> QED
      BY <3>1 DEF Known, HoldsRows, OfRows
  <2>2. CASE kind # "profile"
    BY <1>1, <2>2 DEF Live
  <2> QED
    BY <2>1, <2>2
<1> HIDE DEF e, b
<1>9. form'.draft \in DraftType(kind) /\ form'.of = x
  BY <1>1, <1>3, <1>5, <1>6, <1>7, FillHolds
<1>10. Steady /\ Live' = Live /\ RowsHold'
  BY <1>1, <1>2, SameRows
<1>11. FormHolds'
  BY <1>1, <1>8, <1>9, <1>10 DEF FormHolds
<1>12. EntriesHold'
  BY <1>1, <1>2, <1>3, <1>5, <1>10, EntryKept
<1>13. CallsHold' /\ LimitHolds' /\ ContactsHold'
  BY <1>1, <1>2, <1>10, CallsKept, LimitKept, ContactsKept DEF ContactsHold
<1> QED
  BY <1>10, <1>11, <1>12, <1>13 DEF DInv

LEMMA FormStepHolds ==
  ASSUME WellTyped, DInv, OpenNew \/ Type \/ Close
  PROVE  DInv'
<1>1. /\ entry' = entry
      /\ kind' = kind /\ wish' = wish /\ row' = row /\ contact' = contact /\ mine' = mine
      /\ calls' = calls /\ latest' = latest
      /\ together' = together /\ unread' = unread
  BY DEF OpenNew, Type, Close, chosen, history
<1>2. RowsHold /\ EntriesHold /\ FormHolds /\ ContactsHold /\ CallsHold /\ LimitHolds
  BY DEF DInv
<1>3. kind \in Kinds /\ IsForm(form)
  BY DEF WellTyped
<1>4. Steady /\ Live' = Live /\ RowsHold'
  BY <1>1, <1>2, SameRows
<1>5. form'.draft \in DraftType(kind) /\ (form'.of = New \/ form'.of = form.of)
  <2>1. CASE OpenNew
    BY <1>3, <2>1, BlankedHolds DEF OpenNew
  <2>2. CASE Type
    <3>1. form' = [form EXCEPT !.draft = wish] /\ wish \in DraftType(kind)
      BY <1>2, <2>2 DEF Type, ContactsHold
    <3> QED
      BY <1>3, <3>1 DEF IsForm, FormType
  <2>3. CASE Close
    BY <1>3, <2>3, ClosedHolds DEF Close
  <2> QED
    BY <2>1, <2>2, <2>3
<1>6. FormHolds'
  BY <1>1, <1>2, <1>4, <1>5 DEF FormHolds
<1>7. EntriesHold' /\ CallsHold' /\ LimitHolds' /\ ContactsHold'
  BY <1>1, <1>2, <1>4, EntriesKept, CallsKept, LimitKept, ContactsKept DEF ContactsHold
<1> QED
  BY <1>4, <1>6, <1>7 DEF DInv

LEMMA AnswerHolds ==
  ASSUME WellTyped, DInv, NEW k \in Keys, Answer(k) \/ Receive(k)
  PROVE  DInv'
<1>1. /\ kind' = kind /\ wish' = wish /\ row' = row /\ contact' = contact /\ mine' = mine
      /\ calls' = calls /\ latest' = latest
      /\ together' = together /\ unread' = unread
  BY DEF Answer, Receive, chosen, history
<1>2. RowsHold /\ EntriesHold /\ FormHolds /\ ContactsHold /\ CallsHold /\ LimitHolds
  BY DEF DInv
<1>3. /\ kind \in Kinds /\ IsForm(form) /\ IsEntry(entry[k])
      /\ entry = [j \in Keys |-> entry[j]]
  BY DEF WellTyped
<1>4. HoldsRows(entry[k], kind, Live)
  BY <1>2 DEF EntriesHold
<1>5. Steady /\ Live' = Live /\ RowsHold'
  BY <1>1, <1>2, SameRows
<1>6. CallsHold' /\ LimitHolds' /\ ContactsHold'
  BY <1>1, <1>2, <1>5, CallsKept, LimitKept, ContactsKept DEF ContactsHold
<1>7. CASE Answer(k)
  <2> DEFINE facts == Facts(k)
             e == Answered(entry[k], facts)
  <2>1. entry' = [entry EXCEPT ![k] = e] /\ form' = form
    BY <1>3, <1>7 DEF Answer
  <2>2. HoldsRows(e, kind, Live)
    BY <1>2, <1>3, <1>4, EntryHolds, FactsOfRows
  <2> HIDE DEF e
  <2>3. EntriesHold' /\ FormHolds'
    BY <1>2, <1>5, <2>1, <2>2, EntryKept, FormKept
  <2> QED
    BY <1>5, <1>6, <2>3 DEF DInv
<1>8. CASE Receive(k)
  <2> DEFINE e == Received(entry[k])
  <2>1. /\ entry[k].at = "answered" /\ entry' = [entry EXCEPT ![k] = e]
        /\ form' = form \/ form' = Fill(form, e)
    BY <1>8 DEF Receive
  <2>2. HoldsRows(e, kind, Live)
    BY <1>3, <1>4, <2>1, EntryHolds
  <2> HIDE DEF e
  <2>3. form'.draft \in DraftType(kind) /\ form'.of = form.of
    BY <1>2, <1>3, <2>1, <2>2, FillHolds DEF FormHolds
  <2>4. EntriesHold' /\ FormHolds'
    BY <1>1, <1>2, <1>5, <2>1, <2>2, <2>3, EntryKept DEF FormHolds
  <2> QED
    BY <1>5, <1>6, <2>4 DEF DInv
<1> QED
  BY <1>7, <1>8

LEMMA ElsewhereHolds ==
  ASSUME WellTyped, DInv,
         RereadContact \/ (\E c \in Contacts : ChangeContact(c)) \/ (\E x \in Rows : ChangeRow(x))
  PROVE  DInv'
<1>1. /\ kind' = kind /\ wish' = wish /\ form' = form /\ entry' = entry /\ calls' = calls
      /\ together' = together /\ unread' = unread
  BY DEF RereadContact, ChangeContact, ChangeRow, chosen, page, history
<1>2. RowsHold /\ EntriesHold /\ FormHolds /\ ContactsHold /\ CallsHold /\ LimitHolds
  BY DEF DInv
<1>3. contact' \in Contacts /\ mine' \in Contacts /\ latest' \in Contacts
  BY <1>2 DEF ContactsHold, RereadContact, ChangeContact, ChangeRow, page, history
<1>4. Steady /\ Live' = Live /\ RowsHold'
  <2>1. CASE RereadContact \/ (\E c \in Contacts : ChangeContact(c))
    BY <1>1, <1>2, <2>1, SameRows DEF RereadContact, ChangeContact
  <2>2. CASE \E x \in Rows : ChangeRow(x)
    <3>1. PICK x \in Rows : ChangeRow(x)
      BY <2>2
    <3> DEFINE r == Stored(kind, Payload(kind, wish))
    <3>2. /\ x \in Live /\ ServerAccepts(kind, Payload(kind, wish), FALSE)
          /\ row' = [row EXCEPT ![x] = r]
      BY <3>1 DEF ChangeRow
    <3>3. r \in RowType(kind)
      BY <1>2, <3>2, RowStored DEF ContactsHold, WellTyped
    <3> HIDE DEF r
    <3>4. Steady /\ RowsHold' /\ Live' \subseteq Live \cup {x}
      BY <1>1, <1>2, <3>2, <3>3, RowWritten
    <3> QED
      BY <3>2, <3>4 DEF Steady
  <2> QED
    BY <2>1, <2>2
<1>5. EntriesHold' /\ CallsHold' /\ FormHolds' /\ LimitHolds' /\ ContactsHold'
  BY <1>1, <1>2, <1>3, <1>4, EntriesKept, CallsKept, FormKept, LimitKept, ContactsKept
<1> QED
  BY <1>4, <1>5 DEF DInv

LEMMA SubmitHolds ==
  ASSUME WellTyped, DInv, NEW i \in Calls, Submit(i)
  PROVE  DInv'
<1> DEFINE sent == Payload(kind, form.draft)
           c == [Unused EXCEPT !.at = "sent", !.of = form.of, !.contact = mine,
                               !.sent = sent, !.no = form.no]
<1>1. /\ ClientAccepts(kind, form.draft, form.of = New)
      /\ calls' = [calls EXCEPT ![i] = c]
      /\ form' = [form EXCEPT !.busy = TRUE]
      /\ kind' = kind /\ wish' = wish /\ row' = row /\ contact' = contact /\ mine' = mine
      /\ entry' = entry /\ latest' = latest
      /\ together' = together /\ unread' = unread
  BY DEF Submit, MaySubmit, chosen, history
<1>2. RowsHold /\ EntriesHold /\ FormHolds /\ ContactsHold /\ CallsHold /\ LimitHolds
  BY DEF DInv
<1>3. kind \in Kinds /\ IsForm(form)
  BY DEF WellTyped
<1>4. Steady /\ Live' = Live /\ RowsHold'
  BY <1>1, <1>2, SameRows
<1>5. LetThrough(sent, kind, form.of = New)
  BY <1>1, <1>2 DEF LetThrough, FormHolds
<1> HIDE DEF sent
<1>6. c.at = "sent" /\ c.of = form.of /\ c.contact = mine /\ c.sent = sent
  BY DEF Unused
<1> HIDE DEF c
<1>7. CallHolds(c, kind, Live)
  BY <1>2, <1>5, <1>6 DEF CallHolds, ContactsHold, FormHolds
<1>8. form'.draft = form.draft /\ form'.of = form.of
  BY <1>1, <1>3 DEF IsForm, FormType
<1>9. FormHolds'
  BY <1>1, <1>2, <1>4, <1>8 DEF FormHolds
<1>10. EntriesHold' /\ CallsHold' /\ LimitHolds' /\ ContactsHold'
  BY <1>1, <1>2, <1>4, <1>6, <1>7, EntriesKept, CallKept, LimitKept, NobodyLetIn, ContactsKept
     DEF ContactsHold
<1> QED
  BY <1>4, <1>9, <1>10 DEF DInv

\* A request goes on to at, for which it needs what is held of it there.
LEMMA GoingHolds ==
  ASSUME WellTyped, CallsHold, Steady, NEW i \in Calls, NEW at \in Ats, Goes(i, at),
         at \notin {"sent", "counted"},
         at = "refused" => KnownRefusal(kind, calls[i].sent)
  PROVE  /\ CallsHold'
         /\ \A j \in Calls : calls'[j].at = "counted" => calls[j].at = "counted"
<1> DEFINE c == [calls[i] EXCEPT !.at = at]
<1>1. calls' = [calls EXCEPT ![i] = c]
  BY DEF Goes, WellTyped
<1>2. /\ c.at = at /\ c.of = calls[i].of /\ c.sent = calls[i].sent
      /\ c.contact = calls[i].contact
  BY DEF WellTyped, IsCall, CallType
<1>3. CallHolds(calls[i], kind, Live)
  BY DEF CallsHold
<1> HIDE DEF c
<1>4. CallHolds(c, kind, Live)
  BY <1>2, <1>3 DEF CallHolds
<1> QED
  BY <1>1, <1>2, <1>4, CallKept, NobodyLetIn

LEMMA RefuseHolds ==
  ASSUME WellTyped, DInv, NEW i \in Calls,
         Refuse(i) \/ WriteContact(i) \/ Die(i)
  PROVE  DInv'
<1>1. /\ kind' = kind /\ wish' = wish /\ row' = row /\ mine' = mine
      /\ form' = form /\ entry' = entry /\ latest' = latest
      /\ together' = together /\ unread' = unread
  BY DEF Refuse, WriteContact, Die, chosen, page, history
<1>2. RowsHold /\ EntriesHold /\ FormHolds /\ ContactsHold /\ CallsHold /\ LimitHolds
  BY DEF DInv
<1>3. Steady /\ Live' = Live /\ RowsHold'
  BY <1>1, <1>2, SameRows
<1>4. kind \in Kinds /\ CallHolds(calls[i], kind, Live)
  BY <1>2 DEF WellTyped, CallsHold
<1>5. contact' \in Contacts
  BY <1>2, <1>4 DEF ContactsHold, CallHolds, Refuse, WriteContact, Die, SetContact
<1>6. /\ CallsHold'
      /\ \A j \in Calls : calls'[j].at = "counted" => calls[j].at = "counted"
  <2>1. CASE Refuse(i)
    <3>1. Goes(i, "refused") /\ calls[i].at = "sent" /\ ~Valid(i)
      BY <2>1 DEF Refuse
    <3>2. LetThrough(calls[i].sent, kind, calls[i].of = New)
      BY <1>4, <3>1 DEF CallHolds
    <3>3. KnownRefusal(kind, calls[i].sent)
      BY <1>4, <3>1, <3>2, SentHolds DEF Valid
    <3> QED
      BY <1>2, <1>3, <3>1, <3>3, GoingHolds DEF Ats
  <2>2. CASE WriteContact(i)
    BY <1>2, <1>3, <2>2, GoingHolds DEF WriteContact, Ats
  <2>3. CASE Die(i)
    BY <1>2, <1>3, <2>3, GoingHolds DEF Die, Ats
  <2> QED
    BY <2>1, <2>2, <2>3
<1>7. EntriesHold' /\ FormHolds' /\ LimitHolds' /\ ContactsHold'
  BY <1>1, <1>2, <1>3, <1>5, <1>6, EntriesKept, FormKept, LimitKept, ContactsKept
     DEF ContactsHold
<1> QED
  BY <1>3, <1>6, <1>7 DEF DInv

\* A creation that is counted below the limit has a place left, unless there is another.
LEMMA CountHolds ==
  ASSUME WellTyped, DInv, NEW i \in Calls, CountProfiles(i) \/ CountFails(i)
  PROVE  DInv'
<1>1. /\ kind' = kind /\ wish' = wish /\ row' = row /\ mine' = mine /\ contact' = contact
      /\ form' = form /\ entry' = entry /\ latest' = latest
      /\ calls[i].at = "sent" /\ Valid(i)
  BY DEF CountProfiles, CountFails, chosen, page
<1>2. RowsHold /\ EntriesHold /\ FormHolds /\ ContactsHold /\ CallsHold /\ LimitHolds
  BY DEF DInv
<1>3. Steady /\ Live' = Live /\ RowsHold'
  BY <1>1, <1>2, SameRows
<1>4. kind \in Kinds /\ CallHolds(calls[i], kind, Live)
  BY <1>2 DEF WellTyped, CallsHold
<1>5. ASSUME Goes(i, "failed"), together' = together, unread' = unread
      PROVE  CallsHold' /\ LimitHolds'
  <2>1. /\ CallsHold'
        /\ \A j \in Calls : calls'[j].at = "counted" => calls[j].at = "counted"
    BY <1>2, <1>3, <1>5, GoingHolds DEF Ats
  <2> QED
    BY <1>1, <1>2, <1>3, <1>5, <2>1, LimitKept
<1>6. ASSUME LetIn(i)
      PROVE  CallsHold' /\ LimitHolds'
  <2> DEFINE c == [calls[i] EXCEPT !.at = "counted"]
  <2>1. calls' = [calls EXCEPT ![i] = c]
    BY <1>6 DEF LetIn, Goes, WellTyped
  <2>2. /\ c.at = "counted" /\ c.of = calls[i].of /\ c.sent = calls[i].sent
        /\ c.contact = calls[i].contact
    BY DEF WellTyped, IsCall, CallType
  <2> HIDE DEF c
  <2>3. CallHolds(c, kind, Live)
    BY <1>1, <1>4, <2>2 DEF CallHolds, Valid
  <2>4. CallsHold'
    BY <1>2, <1>3, <2>1, <2>3, CallKept
  <2>5. \/ unread' = unread /\ Cardinality(Live) < Limit
        \/ unread' = unread + 1
    <3>1. CASE CountFails(i)
      BY <3>1 DEF CountFails
    <3>2. CASE CountProfiles(i) /\ ~TooMany(Cardinality(Live))
      BY <3>2, LiveCounted, EditorsAssumption DEF CountProfiles, TooMany
    <3>3. CASE CountProfiles(i) /\ TooMany(Cardinality(Live))
      <4>1. calls' = [calls EXCEPT ![i].at = "failed"]
        BY <3>3 DEF CountProfiles, Goes
      <4>2. calls'[i].at = "failed" /\ calls'[i].at = "counted"
        BY <2>1, <2>2, <4>1 DEF WellTyped, IsCall, CallType
      <4> QED
        BY <4>2
    <3> QED
      BY <3>1, <3>2, <3>3
  <2>6. LimitHolds'
    BY <1>1, <1>2, <1>3, <1>6, <2>5, OneLetIn
  <2> QED
    BY <2>4, <2>6
<1>7. CallsHold' /\ LimitHolds'
  BY <1>5, <1>6 DEF CountProfiles, CountFails
<1>8. EntriesHold' /\ FormHolds' /\ ContactsHold'
  BY <1>1, <1>2, <1>3, EntriesKept, FormKept, ContactsKept DEF ContactsHold
<1> QED
  BY <1>3, <1>7, <1>8 DEF DInv

\* The row a creation adds is its own, which it had a place for.
LEMMA WriteHolds ==
  ASSUME WellTyped, DInv, NEW i \in Calls, Write(i)
  PROVE  DInv'
<1> DEFINE c == calls[i]
           x == IF c.of = New THEN CHOOSE y \in Rows \ Live : \A z \in Rows \ Live : y <= z
                ELSE c.of
           r == Stored(kind, c.sent)
           at == IF kind = "listing" THEN "written" ELSE "served"
<1>1. /\ IF Creates(i) THEN c.at = "counted" ELSE c.at = "sent" /\ Valid(i)
      /\ row' = [row EXCEPT ![x] = r]
      /\ Goes(i, at)
      /\ together' = together /\ unread' = unread
      /\ contact' = contact \/ contact' = c.contact
      /\ kind' = kind /\ wish' = wish /\ mine' = mine /\ form' = form /\ entry' = entry
      /\ latest' = latest
  BY DEF Write, chosen, page, SetContact
<1>2. RowsHold /\ EntriesHold /\ FormHolds /\ ContactsHold /\ CallsHold /\ LimitHolds
  BY DEF DInv
<1>3. kind \in Kinds /\ CallHolds(c, kind, Live) /\ (c.of = New) \in BOOLEAN
  BY <1>2 DEF WellTyped, CallsHold
<1>4. LetThrough(c.sent, kind, c.of = New) /\ ServerAccepts(kind, c.sent, c.of = New)
  BY <1>1, <1>3 DEF CallHolds, Valid
<1>5. r \in RowType(kind)
  BY <1>3, <1>4, SentHolds
<1>6. c.of # New => x \in Live
  BY <1>3 DEF CallHolds
<1> HIDE DEF x, r
<1>7. Steady /\ RowsHold' /\ Live' \subseteq Live \cup {x}
  BY <1>1, <1>2, <1>5, RowWritten
<1>8. at \in Ats /\ at \notin {"sent", "counted"} /\ at # "refused"
  BY DEF Ats
<1> HIDE DEF at
<1>9. /\ CallsHold'
      /\ \A j \in Calls : calls'[j].at = "counted" => calls[j].at = "counted"
  BY <1>1, <1>2, <1>7, <1>8, GoingHolds
<1>10. LimitHolds'
  <2>1. CASE c.of # New \/ kind # "profile"
    <3>1. c.of # New => Live' = Live
      BY <1>6, <1>7 DEF Steady
    <3>2. Counted' \in SUBSET Counted
      BY <1>9 DEF Counted
    <3>3. IsFiniteSet(Counted')
      BY <1>2, <3>2, FS_Subset DEF LimitHolds
    <3> QED
      BY <1>1, <1>2, <1>9, <2>1, <3>1, <3>3, LimitKept DEF LimitHolds
  <2>2. CASE c.of = New /\ kind = "profile"
    <3>1. calls[i].at = "counted"
      BY <1>1, <2>2 DEF Creates
    <3>2. calls' = [calls EXCEPT ![i].at = at]
      BY <1>1 DEF Goes
    <3>3. i \in Counted /\ Counted' = Counted \ {i}
      BY <1>8, <3>1, <3>2 DEF Counted, WellTyped, IsCall, CallType
    <3>4. /\ IsFiniteSet(Counted') /\ Cardinality(Counted') = Cardinality(Counted) - 1
          /\ Cardinality(Counted) \in Nat
      BY <1>2, <3>3, FS_RemoveElement, FS_CardinalityType DEF LimitHolds
    <3>5. Cardinality(Live') \in Nat /\ Cardinality(Live') <= Cardinality(Live) + 1
      BY <1>7, OneMore
    <3> QED
      BY <1>1, <1>2, <3>4, <3>5, LiveCounted, EditorsAssumption DEF LimitHolds
  <2> QED
    BY <2>1, <2>2
<1>11. contact' \in Contacts
  BY <1>1, <1>2, <1>3 DEF ContactsHold, CallHolds
<1>12. EntriesHold' /\ FormHolds' /\ ContactsHold'
  BY <1>1, <1>2, <1>7, <1>11, EntriesKept, FormKept, ContactsKept DEF ContactsHold
<1> QED
  BY <1>7, <1>9, <1>10, <1>12 DEF DInv

LEMMA DoneHolds == CallHolds(Done, kind, Live)
<1>1. Done.at = "done" /\ Done.of = New /\ Done.contact = "empty"
  BY DEF Done, Unused
<1> QED
  BY <1>1 DEF CallHolds, Contacts

LEMMA HeardHolds ==
  ASSUME WellTyped, DInv, NEW i \in Calls, Served(i) \/ NotServed(i)
  PROVE  DInv'
<1>1. /\ calls' = [calls EXCEPT ![i] = Done]
      /\ kind' = kind /\ wish' = wish /\ row' = row /\ contact' = contact /\ mine' = mine
      /\ latest' = latest
      /\ together' = together /\ unread' = unread
  BY DEF Served, NotServed, chosen, history
<1>2. RowsHold /\ EntriesHold /\ FormHolds /\ ContactsHold /\ CallsHold /\ LimitHolds
  BY DEF DInv
<1>3. kind \in Kinds /\ IsForm(form) /\ calls[i].of \in Rows \cup {New}
  BY DEF WellTyped, IsCall, CallType
<1>4. Steady /\ Live' = Live /\ RowsHold'
  BY <1>1, <1>2, SameRows
<1>5. EntriesHold'
  <2> DEFINE k == Key(calls[i].of)
             e == Invalidated(entry[k], TRUE)
  <2>1. k \in Keys
    BY <1>3, KeyOfRow
  <2>2. HoldsRows(e, kind, Live)
    BY <1>2, <2>1, EntryHolds DEF EntriesHold, WellTyped
  <2>3. entry' = entry \/ entry' = [entry EXCEPT ![k] = e]
    BY DEF Served, NotServed
  <2> HIDE DEF e, k
  <2> QED
    BY <1>2, <1>4, <2>1, <2>2, <2>3, EntriesKept, EntryKept
<1>6. form'.draft \in DraftType(kind) /\ (form'.of = New \/ form'.of = form.of)
  <2>1. \/ form' = form \/ form' = [form EXCEPT !.busy = FALSE]
        \/ form' = [form EXCEPT !.at = "photos", !.busy = FALSE]
        \/ form' = [Closed EXCEPT !.no = form.no]
    BY <1>3 DEF Served, FormServed, NotServed
  <2>2. CASE form' = [Closed EXCEPT !.no = form.no]
    BY <1>3, <2>2, ClosedHolds
  <2>3. CASE form' # [Closed EXCEPT !.no = form.no]
    <3>1. form'.draft = form.draft /\ form'.of = form.of
      BY <1>3, <2>1, <2>3 DEF IsForm, FormType
    <3> QED
      BY <1>2, <3>1 DEF FormHolds
  <2> QED
    BY <2>2, <2>3
<1>7. FormHolds'
  BY <1>1, <1>2, <1>4, <1>6 DEF FormHolds
<1>8. CallsHold' /\ LimitHolds' /\ ContactsHold'
  <2>1. Done.at # "counted"
    BY DEF Done, Unused
  <2> QED
    BY <1>1, <1>2, <1>4, <2>1, DoneHolds, CallKept, LimitKept, NobodyLetIn, ContactsKept
       DEF ContactsHold
<1> QED
  BY <1>4, <1>5, <1>7, <1>8 DEF DInv

LEMMA CreateElsewhereHolds ==
  ASSUME WellTyped, DInv, NEW i \in Calls, CreateElsewhere(i)
  PROVE  DInv'
<1> DEFINE sent == Filled(kind)
           c == [Unused EXCEPT !.at = "sent", !.by = "other", !.sent = sent, !.contact = contact]
<1>1. /\ kind = "profile"
      /\ calls' = [calls EXCEPT ![i] = c]
      /\ kind' = kind /\ wish' = wish /\ row' = row /\ contact' = contact /\ mine' = mine
      /\ form' = form /\ entry' = entry /\ latest' = latest
      /\ together' = together /\ unread' = unread
  BY DEF CreateElsewhere, chosen, page, history
<1>2. RowsHold /\ EntriesHold /\ FormHolds /\ ContactsHold /\ CallsHold /\ LimitHolds
  BY DEF DInv
<1>3. Steady /\ Live' = Live /\ RowsHold'
  BY <1>1, <1>2, SameRows
<1>4. LetThrough(sent, kind, TRUE)
  <2>1. sent \in DraftType(kind) /\ ClientAccepts(kind, sent, TRUE)
    BY <1>1, FilledTyped, FilledAccepted DEF Kinds
  <2>2. sent = Payload(kind, sent)
    BY <1>1 DEF Payload
  <2> HIDE DEF sent
  <2> QED
    BY <2>1, <2>2 DEF LetThrough
<1> HIDE DEF sent
<1>5. c.at = "sent" /\ c.of = New /\ c.contact = contact /\ c.sent = sent
  BY DEF Unused
<1> HIDE DEF c
<1>6. CallHolds(c, kind, Live)
  BY <1>2, <1>4, <1>5 DEF CallHolds, ContactsHold
<1>7. EntriesHold' /\ FormHolds' /\ CallsHold' /\ LimitHolds' /\ ContactsHold'
  BY <1>1, <1>2, <1>3, <1>5, <1>6, EntriesKept, FormKept, CallKept, LimitKept, NobodyLetIn,
     ContactsKept DEF ContactsHold
<1> QED
  BY <1>3, <1>7 DEF DInv
-----------------------------------------------------------------------------
(* The second invariant, and what follows from it. *)

LEMMA InitHolds == Init => DInv
<1> SUFFICES ASSUME Init PROVE DInv
  OBVIOUS
<1> DEFINE r == Stored(kind, Payload(kind, Filled(kind)))
<1>1. /\ kind \in Kinds /\ wish \in DraftsOf(kind)
      /\ row = [x \in Rows |->
                 IF x = 1 \/ (x = 2 /\ kind \in {"listing", "availability"}) THEN r ELSE Absent]
      /\ contact = "a" /\ mine = "a" /\ latest = "a"
      /\ together = 1 /\ unread = 0
      /\ calls = [i \in Calls |-> Unused]
  BY DEF Init
<1>2. r \in RowType(kind)
  BY <1>1, FilledTyped, FilledAccepted, RowStored
<1> HIDE DEF r
<1>3. r # Absent
  BY <1>1, <1>2, AbsentAssumption DEF RowType
<1>4. 1 \in Rows /\ 1 \in Live
  BY <1>1, <1>3, EditorsAssumption DEF Rows, Live
<1>5. RowsHold
  BY <1>1, <1>2, <1>4 DEF RowsHold, Live
<1>6. IsEntry(Empty) /\ HoldsRows(Empty, kind, Live)
  BY DEF Empty, IsEntry, EntryType, HoldsRows, Loaded
<1>7. EntriesHold
  <2> SUFFICES ASSUME NEW k \in Keys PROVE HoldsRows(entry[k], kind, Live)
    BY DEF EntriesHold
  <2> DEFINE facts == Facts(New)
             e == [Empty EXCEPT !.data = facts, !.stale = FALSE]
  <2>1. entry[k] = IF kind = "profile" /\ k = New THEN e
                   ELSE IF kind = "account" /\ k = 1 THEN Asked(Empty) ELSE Empty
    BY DEF Init
  <2>2. OfRows(facts, kind, Live)
    BY <1>5, FactsOfRows
  <2> HIDE DEF facts
  <2>3. e.at = "idle" /\ e.data = facts
    BY DEF Empty
  <2> HIDE DEF e
  <2>4. HoldsRows(e, kind, Live)
    BY <2>2, <2>3 DEF HoldsRows
  <2>5. HoldsRows(Asked(Empty), kind, Live)
    BY <1>6, EntryHolds
  <2> QED
    BY <1>6, <2>1, <2>4, <2>5
<1>8. FormHolds
  <2>1. Defaults(kind) \in DraftType(kind)
    BY <1>1, DefaultsTyped
  <2>2. Closed.draft = Defaults(kind) /\ Closed.of = New
    BY DEF Closed
  <2>3. form = Closed \/ form = [Closed EXCEPT !.at = "open", !.of = 1]
    BY DEF Init
  <2>4. form.draft = Defaults(kind) /\ form.of \in {New, 1}
    BY <2>2, <2>3 DEF Closed
  <2> QED
    BY <1>4, <2>1, <2>4 DEF FormHolds
<1>9. ContactsHold
  BY <1>1, DraftsTyped DEF ContactsHold, Contacts
<1>10. CallsHold
  <2>1. Unused.at = "unused" /\ Unused.of = New /\ Unused.contact = "empty"
    BY DEF Unused
  <2>2. CallHolds(Unused, kind, Live)
    BY <2>1 DEF CallHolds, Contacts
  <2> QED
    BY <1>1, <2>2 DEF CallsHold
<1>11. LimitHolds
  <2>1. Counted = {}
    BY <1>1 DEF Counted, Unused
  <2>2. kind = "profile" => Live = {1}
    BY <1>1, <1>3, <1>4 DEF Live
  <2>3. /\ IsFiniteSet(Counted) /\ Cardinality(Counted) = 0
        /\ kind = "profile" => Cardinality(Live) = 1
    BY <2>1, <2>2, FS_EmptySet, FS_Singleton
  <2> QED
    BY <1>1, <2>3, EditorsAssumption DEF LimitHolds
<1> QED
  BY <1>5, <1>7, <1>8, <1>9, <1>10, <1>11 DEF DInv

LEMMA NextHolds == WellTyped /\ DInv /\ [Next]_vars => DInv'
<1> SUFFICES ASSUME WellTyped, DInv, [Next]_vars PROVE DInv'
  OBVIOUS
<1>1. CASE \E x \in Rows, old \in BOOLEAN : Open(x, old)
  BY <1>1, OpenHolds
<1>2. CASE OpenNew \/ Type \/ Close
  BY <1>2, FormStepHolds
<1>3. CASE \E k \in Keys : Receive(k) \/ Answer(k)
  BY <1>3, AnswerHolds
<1>4. CASE \/ RereadContact \/ (\E c \in Contacts : ChangeContact(c))
           \/ (\E x \in Rows : ChangeRow(x))
  BY <1>4, ElsewhereHolds
<1>5. CASE \E i \in Calls : CallStep(i)
  <2>1. PICK i \in Calls : CallStep(i)
    BY <1>5
  <2>2. CASE Refuse(i) \/ WriteContact(i) \/ Die(i)
    BY <2>2, RefuseHolds
  <2>4. CASE CountProfiles(i) \/ CountFails(i)
    BY <2>4, CountHolds
  <2>3. CASE Served(i) \/ NotServed(i)
    BY <2>3, HeardHolds
  <2> QED
    BY <2>1, <2>2, <2>3, <2>4, SubmitHolds, WriteHolds, CreateElsewhereHolds DEF CallStep
<1>6. CASE UNCHANGED vars
  <2>1. RowsHold /\ EntriesHold /\ FormHolds /\ ContactsHold /\ CallsHold /\ LimitHolds
    BY DEF DInv
  <2>2. Steady /\ Live' = Live /\ RowsHold'
    BY <1>6, <2>1, SameRows DEF vars
  <2>3. EntriesHold' /\ FormHolds' /\ CallsHold' /\ LimitHolds' /\ ContactsHold'
    BY <1>6, <2>1, <2>2, EntriesKept, FormKept, CallsKept, LimitKept, ContactsKept
    DEF vars, ContactsHold
  <2> QED
    BY <2>2, <2>3 DEF DInv
<1> QED
  BY <1>1, <1>2, <1>3, <1>4, <1>5, <1>6 DEF Next, CallStep

LEMMA Held == Spec => [](IInv /\ DInv)
<1>1. IInv => WellTyped
  BY DEF IInv
<1> QED
  BY Invariant, <1>1, InitHolds, NextHolds, PTL DEF Spec

LEMMA DraftFields == \A k \in Kinds : \A d \in DraftType(k) : DOMAIN d = DOMAIN Defaults(k)
<1>1. \A d \in DraftType("listing") : DOMAIN d = DOMAIN Defaults("listing")
  BY DEF DraftType, Defaults
<1>2. \A d \in DraftType("profile") : DOMAIN d = DOMAIN Defaults("profile")
  BY DEF DraftType, Defaults
<1>3. \A d \in DraftType("availability") : DOMAIN d = DOMAIN Defaults("availability")
  BY DEF DraftType, Defaults
<1>4. \A d \in DraftType("account") : DOMAIN d = DOMAIN Defaults("account")
  BY DEF DraftType, Defaults
<1> QED
  BY <1>1, <1>2, <1>3, <1>4 DEF Kinds

\* The forms, the requests, the answers and the rows have the shape the code gives them,
\* whatever is typed (TypeOK; ListingFormModal.tsx:380-724, ProfileFormModal.tsx).
THEOREM EditorTypes == Spec => []TypeOK
<1>1. IInv /\ DInv => TypeOK
  <2> SUFFICES ASSUME IInv, DInv PROVE TypeOK
    OBVIOUS
  <2>1. WellTyped /\ kind \in Kinds /\ IsForm(form)
    BY DEF IInv, WellTyped
  <2>2. RowsHold /\ EntriesHold /\ FormHolds /\ ContactsHold /\ CallsHold /\ LimitHolds
    BY DEF DInv
  <2>3. \A k \in Keys : /\ entry[k].at \in {"idle", "asked", "answered"}
                        /\ Loaded(entry[k]) => \A f \in entry[k].data : f[1] \in Rows
    BY <2>1, <2>2 DEF WellTyped, IsEntry, EntryType, EntriesHold, HoldsRows, OfRows, Live
  <2>4. /\ form.at \in {"closed", "open", "photos"}
        /\ form.of \in Rows \cup {New} /\ form.from \in Rows \cup {New}
    BY <2>1 DEF IsForm, FormType
  <2>5. DOMAIN form.draft = DOMAIN Defaults(kind)
    BY <2>1, <2>2, DraftFields DEF FormHolds
  <2>6. \A i \in Calls : calls[i].of \in Rows \cup {New} /\ calls[i].contact \in Contacts
    BY <2>1, <2>2 DEF WellTyped, IsCall, CallType, CallsHold, CallHolds
  <2> QED
    BY <2>1, <2>2, <2>3, <2>4, <2>5, <2>6
    DEF TypeOK, WellTyped, ContactsHold, RowsHold, LimitHolds
<1> QED
  BY Held, <1>1, PTL

\* A tenant passes the limit by no more profiles than creations were let in beside another
\* one, or by a count that failed (OverByOverlapOnly; tenant_profiles.go:187-225).
THEOREM LimitPassedByOverlap == Spec => []OverByOverlapOnly
<1>1. DInv => OverByOverlapOnly
  <2> SUFFICES ASSUME DInv, kind = "profile"
               PROVE  Cardinality(Live) <= Limit + together - 1 + unread
    BY DEF OverByOverlapOnly
  <2>1. /\ Cardinality(Counted) \in Nat /\ together \in Nat \ {0} /\ unread \in Nat
        /\ Cardinality(Live) + Cardinality(Counted) <= Limit + together - 1 + unread
    BY FS_CardinalityType DEF DInv, LimitHolds
  <2> QED
    BY <2>1, LiveCounted, EditorsAssumption
<1> QED
  BY Held, <1>1, PTL

\* Whichever boundary value is typed, and whichever row it is typed over, what a form lets
\* through the server accepts, but for the known cases (RefusedOnlyKnown;
\* ListingFormModal.tsx:600-724, ProfileFormModal.tsx, listings.go:134-170,
\* tenant_profiles.go).
THEOREM RefusalsAreKnown == Spec => []RefusedOnlyKnown
<1>1. DInv => RefusedOnlyKnown
  BY DEF DInv, CallsHold, CallHolds, RefusedOnlyKnown
<1> QED
  BY Held, <1>1, PTL

\* Whatever was written into a row, by whom and when, a form that shows it and is saved untouched writes the same row,
\* but for the known cases (UntouchedKept; ListingFormModal.tsx:452-512).
THEOREM UntouchedRowsAreKept == Spec => []UntouchedKept
<1>1. IInv /\ DInv => UntouchedKept
  <2> SUFFICES ASSUME IInv, DInv, NEW x \in Live, ~KnownRewrite(kind, row[x])
               PROVE  Stored(kind, Payload(kind, Hydrated(kind, row[x]))) = row[x]
    BY DEF UntouchedKept
  <2>1. kind \in Kinds /\ row[x] \in RowType(kind)
    BY DEF IInv, WellTyped, DInv, RowsHold
  <2> QED
    BY <2>1, RowUntouched
<1> QED
  BY Held, <1>1, PTL
=============================================================================
