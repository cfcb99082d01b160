------------------------------ MODULE MCHouse -------------------------------
(***************************************************************************)
(* A small house.  SYSTEM has a variable SystemVar knows and one that only *)
(* its device has; R1 spans two structures and has a variable RoomVar does *)
(* not know; a blind; a pump whose structure has four variables, one more  *)
(* than fit a reply, so that it is read by variable when all are there;    *)
(* and a scenario, a page, an entry that is malformed and a second entry   *)
(* of a name.                                                              *)
(***************************************************************************)
EXTENDS House

Driver(id, var, structure, offset, writable) ==
    [id |-> id, var |-> var, category |-> "driver", sound |-> TRUE,
     structure |-> structure, offset |-> offset, writable |-> writable, bytes |-> 1]

Hdo == Driver("SYSTEM", "hdo", 0, 0, FALSE)
User == Driver("SYSTEM", "user", 0, 1, TRUE)
Mode == Driver("R1", "mode", 1, 0, TRUE)
Temperature == Driver("R1", "temperature", 2, 0, FALSE)
Extra == Driver("R1", "extra", 1, 1, TRUE)
Position == Driver("S1", "position", 3, 0, TRUE)
Pump(var, offset) == Driver("PUMP", var, 4, offset, offset < 2)
Scenario == [Driver("X", "name", 4, 0, TRUE) EXCEPT !.category = "sbScenario"]
Page == [Driver("X", "page", 0, 0, FALSE) EXCEPT !.category = "page"]
Malformed == [Driver("OLD", "out", 5, 0, FALSE) EXCEPT !.sound = FALSE]
Unknown == [Driver("NEW", "thing", 6, 0, FALSE) EXCEPT !.category = "other"]
Again == Driver("PUMP", "a", 7, 0, TRUE)

All == <<Hdo, User, Mode, Temperature, Extra, Position, Pump("a", 0), Pump("b", 1),
         Pump("c", 2), Pump("d", 3), Scenario, Page, Malformed, Unknown, Again>>

\* A variable too long for any reply.
Long == [Driver("LONG", "text", 8, 0, FALSE) EXCEPT !.bytes = 12]

\* Pumps whose structure fits a reply only without the entry that is malformed.
Skipped == <<Pump("a", 0), Pump("b", 1), [Pump("c", 2) EXCEPT !.sound = FALSE], Pump("d", 3)>>

\* Everything, everything but one entry that matters, nothing, a variable that is too
\* long, and the pumps.
MCDataXmls ==
    {SelectSeq(All, LAMBDA e : e # x) : x \in {Hdo, User, Temperature, Position, Pump("d", 3), Again}}
        \cup {<<>>, All, Append(All, Long), Skipped}
=============================================================================
