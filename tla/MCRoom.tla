------------------------------- MODULE MCRoom -------------------------------
(***************************************************************************)
(* Two callers and a room with the variables of a hold, one of which may   *)
(* be missing or read-only, and a switch.  Values are in halves: 2, a      *)
(* whole float, one that is not, a Decimal and a Fraction that are not, no *)
(* number, None, and a word.                                               *)
(***************************************************************************)
EXTENDS Room, FiniteSets

MCTypes ==
    [f \in Hold \cup {"switch"} |->
        CASE f = "correction_temperature" -> "float" [] f = "switch" -> "bool" [] OTHER -> "integer"]

MCRooms ==
    {r \in [DOMAIN MCTypes -> {"absent", "readonly", "writable"}] :
        r["switch"] = "writable" /\ Cardinality({f \in Hold : r[f] # "writable"}) <= 1}

MCWord == [is |-> "str", text |-> [form |-> "word", num |-> 0]]

MCManual == [is |-> "int", num |-> 4]

MCInt == [is |-> "int", num |-> 4]

\* c1 sticks to one number, c2 has everything.
MCGiven ==
    [c \in Clients |->
        IF c = "c1" THEN {MCInt}
        ELSE {MCInt, [is |-> "float", num |-> 6], [is |-> "float", num |-> 3],
              [is |-> "decimal", num |-> -3], [is |-> "fraction", num |-> 7],
              [is |-> "special", num |-> 0], [is |-> "None", num |-> 0], MCWord}]

MCMaxCalls == [c \in Clients |-> IF c = "c1" THEN 2 ELSE 1]

\* The view forgets what is never read again: what was asked for by a call of which
\* nothing took effect or will, and where the runs of a call end that has ended.
Spent(c, n) ==
    /\ calls[c][n].outcome # "open" /\ <<c, n>> \notin adrift
    /\ \A i \in DOMAIN log : <<log[i].client, log[i].call>> # <<c, n>>

MCView ==
    <<room, log, adrift,
      [c \in Clients |-> [n \in DOMAIN calls[c] |->
          IF Spent(c, n) THEN <<>>
          ELSE <<asked[c][n],
                 IF calls[c][n].outcome = "open" THEN "open"
                 ELSE IF <<c, n>> \in adrift THEN "adrift" ELSE "over">>]]>>
=============================================================================
