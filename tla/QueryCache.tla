----------------------------- MODULE QueryCache -----------------------------
(***************************************************************************)
(* One entry of the client's query cache, as the pages use it: the library *)
(* @tanstack/react-query is external, the defaults are QueryProvider's.    *)
(* Data is the set of facts a page tells apart in an answer.               *)
(***************************************************************************)

CONSTANTS NoAnswer, Error

Unloaded == {NoAnswer}      \* no answer yet
Refused == {Error}          \* an error, after the one retry

Empty == [data |-> Unloaded, stale |-> TRUE, at |-> "idle", got |-> {}]

Loaded(e) == e.data # Unloaded
Settled(e) == e.at = "idle" /\ ~e.stale

Asked(e) == [e EXCEPT !.at = "asked", !.got = {}]
Answered(e, answer) == [e EXCEPT !.at = "answered", !.got = answer]

Received_ErrorAsData(e) ==
  [e EXCEPT !.data = e.got, !.stale = (e.got = Refused), !.at = "idle", !.got = {}]

\* An error keeps the data it had and leaves the entry invalidated.
Received(e) ==
  [e EXCEPT !.data = IF e.got = Refused THEN @ ELSE e.got,
            !.stale = (e.got = Refused), !.at = "idle", !.got = {}]

\* invalidateQueries: an entry on screen is asked again, and a request under way
\* is given up; an entry off screen is marked, and a request under way goes on
\* and clears the mark with what it was answered before.
Invalidated(e, onScreen) ==
  IF onScreen THEN Asked([e EXCEPT !.stale = TRUE]) ELSE [e EXCEPT !.stale = TRUE]

\* A page that starts to show an entry asks for it when it is stale; 30 s make
\* every entry stale.
Mounted(e, old) == IF e.at = "idle" /\ (e.stale \/ old) THEN Asked(e) ELSE e

Entries(Data) == [data : Data \cup {Unloaded}, stale : BOOLEAN,
                  at : {"idle", "asked", "answered"}, got : Data \cup {Refused, {}}]
=============================================================================
