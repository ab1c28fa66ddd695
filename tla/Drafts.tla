------------------------------- MODULE Drafts -------------------------------
(***************************************************************************)
(* What the four forms of the web client may hold, what they check before  *)
(* they send it, what they send, what the server checks and stores, and    *)
(* what the form shows of it when it is opened again.  Numbers are in      *)
(* tenths; a field keeps the values at which one of the two sides changes  *)
(* its mind, the others stand for themselves.                              *)
(***************************************************************************)
EXTENDS Integers

Kinds == {"listing", "profile", "availability", "account"}

Texts == {"empty", "blanks", "n", "a", "b"}
N(n) == 10 * n
Blank == -1000             \* an empty input, or null
Wide == N(100000000)       \* stands for a number wider than an INTEGER column
Whole(x) == x = Blank \/ (x % 10 = 0)
Fits(x) == x < Wide
Between(x, low, high) == x # Blank /\ low <= x /\ x <= high

\* whole_floor comes with the counts of its rooms: home is the type and a count.
Defaults(kind) ==
  CASE kind = "listing" ->
         [place |-> "none", rent |-> 0, fee |-> 0, area |-> 0, home |-> <<"empty", 0>>,
          date |-> TRUE, lease |-> N(12), consent |-> FALSE]
    [] kind = "profile" ->
         [name |-> "empty", budget |-> <<0, 0>>, places |-> 0, rooms |-> 0, date |-> TRUE,
          lease |-> N(12), minArea |-> Blank, age |-> Blank]
    [] kind = "availability" ->
         [enabled |-> FALSE, capacity |-> N(1), range |-> N(14), hours |-> "off"]
    [] kind = "account" -> [name |-> "empty", contact |-> "empty"]

\* What the fields can hold at all.
DraftType(kind) ==
  CASE kind = "listing" ->
         [place : {"none", "city", "mixed", "known"}, rent : Int, fee : Int, area : Int,
          home : {"empty", "suite", "whole_floor"} \X Int, date : BOOLEAN, lease : Int,
          consent : BOOLEAN]
    [] kind = "profile" ->
         [name : Texts, budget : Int \X Int, places : Int, rooms : Int, date : BOOLEAN,
          lease : Int, minArea : Int, age : Int]
    [] kind = "availability" ->
         [enabled : BOOLEAN, capacity : Int, range : Int,
          hours : {"off", "forward", "backward", "cleared"}]
    [] kind = "account" -> [name : Texts, contact : Texts]

Filled(kind) ==
  CASE kind = "listing" ->
         [place |-> "known", rent |-> N(1), fee |-> 0, area |-> N(1), home |-> <<"suite", 0>>,
          date |-> TRUE, lease |-> N(12), consent |-> TRUE]
    [] kind = "profile" ->
         [name |-> "n", budget |-> <<N(1), N(1)>>, places |-> 1, rooms |-> 1, date |-> TRUE,
          lease |-> N(12), minArea |-> Blank, age |-> Blank]
    [] kind = "availability" ->
         [enabled |-> TRUE, capacity |-> N(1), range |-> N(14), hours |-> "forward"]
    [] kind = "account" -> [name |-> "n", contact |-> "a"]

\* The district of a city stays when another city is chosen: a mixed place.
TypedListing ==
  [place |-> {"none", "city", "mixed"},
   rent |-> {Blank, 0, 15, N(999999), N(1000000)},
   fee |-> {Blank, -10, 15, N(999999), N(1000000)},
   area |-> {Blank, 0, 5, 9999, N(1000)},
   home |-> {<<"empty", 0>>} \cup {<<"whole_floor", n>> : n \in {Blank, 15, N(3), N(32768)}},
   date |-> {FALSE}, lease |-> {Blank, 0, 15, Wide}, consent |-> {FALSE}]

TypedProfile ==
  [name |-> {"empty"},
   budget |-> {<<N(2), N(1)>>, <<Blank, N(1)>>, <<0, N(1)>>, <<15, N(2)>>, <<N(1), Wide>>},
   places |-> {0}, rooms |-> {0}, date |-> {FALSE}, lease |-> {Blank, 0, 15, Wide},
   minArea |-> {-10, 0, 5, 9999, N(1000)}, age |-> {0, 285}]

TypedHours ==
  [enabled |-> {FALSE}, capacity |-> {Blank, -10, 0, 15, N(20), N(21)},
   range |-> {Blank, 0, 15, N(60), N(61)}, hours |-> {"off", "backward", "cleared"}]

TypedAccount == [name |-> {"empty", "blanks"}, contact |-> {"empty", "blanks", "b"}]

Typed(kind) ==
  CASE kind = "listing" -> TypedListing
    [] kind = "profile" -> TypedProfile
    [] kind = "availability" -> TypedHours
    [] kind = "account" -> TypedAccount

\* One field off a filled form; a schedule that is switched off as well.
OneOff(kind, d) == UNION {{[d EXCEPT ![f] = v] : v \in Typed(kind)[f]} : f \in DOMAIN d}
DraftsOf(kind) ==
  {Filled(kind)} \cup OneOff(kind, Filled(kind)) \cup
  (IF kind = "availability" THEN OneOff(kind, [Filled(kind) EXCEPT !.enabled = FALSE]) ELSE {})
-----------------------------------------------------------------------------
(* The client's checks: react-hook-form's rules, the browser's being off.  *)

ListingChecked(d, new) ==
  /\ d.place \in {"known", "mixed"}
  /\ Between(d.rent, N(1), N(999999))
  /\ d.fee = Blank \/ Between(d.fee, 0, N(999999))
  /\ Between(d.area, 1, 9999)
  /\ d.home[1] # "empty"
  /\ d.date
  /\ Between(d.lease, N(1), Wide)
  /\ new => d.consent

ProfileChecked_BudgetUnordered(d) ==
  /\ d.name # "empty" /\ d.places > 0 /\ d.rooms > 0 /\ d.date
  /\ \A i \in 1..2 : Between(d.budget[i], N(1), Wide)
  /\ Between(d.lease, N(1), Wide)
  /\ d.minArea < N(1000)

ProfileChecked(d) ==
  /\ d.name # "empty" /\ d.places > 0 /\ d.rooms > 0 /\ d.date
  /\ \A i \in 1..2 : Between(d.budget[i], N(1), Wide)
  /\ d.budget[1] <= d.budget[2]
  /\ Between(d.lease, N(1), Wide)
  /\ d.minArea < N(1000)

ClientAccepts(kind, d, new) ==
  CASE kind = "listing" -> ListingChecked(d, new)
    [] kind = "profile" -> ProfileChecked(d)
    [] kind = "availability" -> TRUE
    [] kind = "account" -> d.name # "empty" /\ d.contact # "empty"
-----------------------------------------------------------------------------
(* What is sent.  A count of rooms goes with a whole floor only. *)

OrElse(x, default) == IF x = Blank THEN default ELSE x
Trimmed(text) == IF text = "blanks" THEN "empty" ELSE text

ListingPayload(d) ==
  [d EXCEPT !.fee = OrElse(@, 0),
            !.home = IF @[1] = "whole_floor" THEN @ ELSE <<@[1], Blank>>]

Payload(kind, d) ==
  CASE kind = "listing" -> ListingPayload(d)
    [] kind = "profile" -> d
    [] kind = "availability" ->
         [d EXCEPT !.capacity = OrElse(@, N(1)), !.range = OrElse(@, N(14))]
    [] kind = "account" -> [name |-> Trimmed(d.name), contact |-> Trimmed(d.contact)]
-----------------------------------------------------------------------------
(* The server: the binding's tags and types, the handler's checks, the     *)
(* locations table and the widths of the columns.                          *)

ListingAccepted(p, new) ==
  /\ p.place = "known"
  /\ Whole(p.rent) /\ Between(p.rent, N(1), N(999999))
  /\ Whole(p.fee) /\ Between(p.fee, 0, N(999999))
  /\ N(1) <= p.area /\ p.area < N(1000)
  /\ p.home[1] # "empty" /\ (p.home[1] = "whole_floor" => p.home[2] # Blank)
  /\ Whole(p.home[2]) /\ p.home[2] < N(32768)
  /\ p.date
  /\ Whole(p.lease) /\ N(1) <= p.lease /\ Fits(p.lease)
  /\ new => p.consent

ProfileAccepted(p) ==
  /\ p.name # "empty" /\ p.places >= 1 /\ p.rooms >= 1 /\ p.date
  /\ \A i \in 1..2 : Whole(p.budget[i]) /\ N(1) <= p.budget[i] /\ Fits(p.budget[i])
  /\ p.budget[1] <= p.budget[2]
  /\ Whole(p.lease) /\ N(1) <= p.lease /\ Fits(p.lease)
  /\ p.minArea = Blank \/ (0 < p.minArea /\ p.minArea < N(1000))
  /\ Whole(p.age)

AvailabilityAccepted(p) ==
  /\ Whole(p.capacity) /\ Whole(p.range)
  /\ p.enabled => /\ Between(p.capacity, 0, N(20)) /\ Between(p.range, N(1), N(60))
                  /\ p.hours \in {"off", "forward"}

ServerAccepts(kind, p, new) ==
  CASE kind = "listing" -> ListingAccepted(p, new)
    [] kind = "profile" -> ProfileAccepted(p)
    [] kind = "availability" -> AvailabilityAccepted(p)
    [] kind = "account" -> TRUE

Stored_Undeclared(kind, p) ==
  IF kind = "listing" THEN [f \in DOMAIN p \ {"consent"} |-> p[f]] ELSE p

\* The row; when the consent was given is never read back.
Stored(kind, p) == IF kind = "listing" THEN [p EXCEPT !.consent = FALSE] ELSE p

\* 0 is falsy: an age, a capacity and a range of 0 are shown as the default.
OrZero(x, default) == IF x = 0 THEN default ELSE x

ShownCapacity_Forgotten(x) == N(1)

ShownCapacity(x) == OrZero(x, N(1))

Hydrated(kind, r) ==
  CASE kind = "listing" -> [r EXCEPT !.home = <<@[1], OrElse(@[2], 0)>>]
    [] kind = "profile" -> [r EXCEPT !.age = OrZero(@, Blank)]
    [] kind = "availability" ->
         [r EXCEPT !.capacity = ShownCapacity(@), !.range = OrZero(@, N(14))]
    [] kind = "account" -> r
-----------------------------------------------------------------------------
(* Where the two sides are known to disagree. *)

Fraction(kind, p) ==
  CASE kind = "listing" -> \E x \in {p.rent, p.fee, p.lease, p.home[2]} : ~Whole(x)
    [] kind = "profile" -> \E x \in {p.budget[1], p.budget[2], p.lease, p.age} : ~Whole(x)
    [] OTHER -> FALSE
TooWide(kind, p) ==
  CASE kind = "listing" -> ~Fits(p.lease) \/ p.home[2] >= N(32768)
    [] kind = "profile" -> \E x \in {p.budget[1], p.budget[2], p.lease} : ~Fits(x)
    [] OTHER -> FALSE
KnownRefusal(kind, p) ==
  \/ Fraction(kind, p) \/ TooWide(kind, p)
  \/ kind = "listing" /\ (p.place = "mixed" \/ p.area < N(1) \/ p.home = <<"whole_floor", Blank>>)
  \/ kind = "profile" /\ p.minArea # Blank /\ p.minArea <= 0
  \/ kind = "availability"
KnownRewrite(kind, r) ==
  \/ kind = "profile" /\ r.age = 0
  \/ kind = "availability" /\ (r.capacity = 0 \/ r.range = 0)
=============================================================================
