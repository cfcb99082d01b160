------------------------- MODULE MCCalendarPeriods -------------------------
(***************************************************************************)
(* Weeks of two days, days of four steps of two minutes.  The clock is put *)
(* forward by two steps (the minutes 2 to 5 of date 0 are skipped), or by  *)
(* one minute off the steps (minute 3 to 4 skipped), or back by two steps  *)
(* (2 to 5 come twice), or never.                                          *)
(***************************************************************************)
EXTENDS CalendarPeriods

\* Every day of two levels with no level repeated.
MCDays ==
    {day \in UNION {[1 .. n -> [time : 0 .. DayEnd - 1, level : Levels]] : n \in 1 .. DayEnd} :
        /\ day[1].time = 0
        /\ \A k \in 1 .. Len(day) - 1 :
            day[k].time < day[k + 1].time /\ day[k].level # day[k + 1].level}

MCZones ==
    { [jump |-> 2, before |-> 0, after |-> 4],
      [jump |-> 3, before |-> 0, after |-> 2],
      [jump |-> 6, before |-> 0, after |-> -4],
      [jump |-> 2, before |-> 0, after |-> 0] }

\* Windows of some minutes, of hours and of days around the jump, many turned
\* round and one by more than two weeks.  Only minute 4 has a second pass.
MCWindows ==
    LET times == [wall : {-3, 1, 4, 6, 11}, fold : {0}] \cup {[wall |-> 4, fold |-> 1]}
        ends == [wall : {-3, 4, 11}, fold : {0}]
                    \cup {[wall |-> 4, fold |-> 1], [wall |-> -30, fold |-> 0]}
        In(t, z) == [wall |-> t.wall, fold |-> t.fold, zone |-> z]
    IN  [start : times, end : {In(t, z) : t \in ends, z \in MCZones}]
=============================================================================
