--------------------------- MODULE MCCalendarSync ---------------------------
(***************************************************************************)
(* Calendars A, with a colour, and B, without.  Temperatures "t2" leave no  *)
(* room for the colour in the request of the payload, as long ones may;    *)
(* "t4" are too long to be sent, and the name "n3" is outside the code     *)
(* page.                                                                   *)
(***************************************************************************)
EXTENDS CalendarSync

MCInitial ==
    [cal \in Calendars |->
        [f \in Fields |->
            CASE f \in Days         -> "s0"
              [] f = "name"         -> "n1"
              [] f = "temperatures" -> "t1"
              [] f = "color"        -> IF cal \in Coloured THEN "c0" ELSE None]]

MCValueLen == [v \in Names \cup Temperatures \cup Colours \cup {None} |-> 2]

MCEncodedLen ==
    [v \in Names \cup Temperatures \cup Colours \cup {None} |->
        IF v = "t2" THEN 5 ELSE IF v = "t4" THEN 20 ELSE 2]

Change(field, value) == [f \in {field} |-> value]
DayAndColour == [f \in {"d2", "color"} |-> IF f = "color" THEN "c1" ELSE "s1"]
Filled == [f \in Days \cup {"temperatures"} |-> IF f \in Days THEN "s1" ELSE "t1"]
Own(edits) == [from : {"A"}, to : {"A"}, edit : edits]
Copied(from, to) == [from : {from}, to : {to}, edit : {<<>>}]

\* e1 edits A, a day or a day and the colour, and copies B to A.  e2 edits A too,
\* fills in an empty copy, takes the name away, tries what is refused or cannot be
\* sent, and copies A to B.
MCTasks ==
    [e \in Editors |->
        IF e = "e1" THEN Own({Change("d1", "s1"), DayAndColour}) \cup Copied("B", "A")
        ELSE Own({Change("d2", "bad"), Filled, Change("name", None), Change("name", "n3")}
                    \cup {Change("temperatures", t) : t \in {"t2", "t4"}})
                \cup Copied("A", "B")]

MCMaxWrites == [e \in Editors |-> IF e = "e1" THEN 2 ELSE 1]

\* The view forgets what is never read again: the copies of an editor that has no
\* write left, the history of a call of which nothing took effect or will, and where
\* the runs of a call end that has ended.
Spent(e, n) ==
    /\ calls[e][n].outcome # "open" /\ <<e, n>> \notin adrift
    /\ \A i \in DOMAIN log : <<log[i].client, log[i].call>> # <<e, n>>

MCView ==
    <<log, adrift,
      [e \in Editors |-> [n \in DOMAIN calls[e] |->
          IF Spent(e, n) THEN <<wrote[e][n].read>>
          ELSE <<wrote[e][n], calls[e][n].outcome,
                 IF calls[e][n].outcome = "open" \/ <<e, n>> \in adrift THEN calls[e][n].ends ELSE <<>> >>]],
      [e \in Editors |-> IF Len(calls[e]) < MaxWrites[e] THEN copies[e] ELSE <<>>]>>
=============================================================================
