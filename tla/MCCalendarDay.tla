--------------------------- MODULE MCCalendarDay ---------------------------
(***************************************************************************)
(* A day of 6 steps with 5 edges, so up to 4 transitions: a full day has   *)
(* edges one step apart, a short one several spare edges.  Times, levels   *)
(* and indices go beyond what is allowed, and one level given is 1.5.      *)
(***************************************************************************)
EXTENDS CalendarDay

CONSTANT OneAndAHalf

MCGivenTimes == 0 .. DayEnd
MCGivenLevels == (0 .. 3) \cup {OneAndAHalf}
MCWholePart == [l \in MCGivenLevels |-> IF l = OneAndAHalf THEN 1 ELSE l]
MCGivenIndices == -1 .. EdgeCount - 1

At0(l) == [time |-> 0, level |-> l]
At2(l) == [time |-> 2, level |-> l]
At4(l) == [time |-> 4, level |-> l]
AtEnd(l) == [time |-> DayEnd, level |-> l]

\* No, one and two transitions, and the cases longer lists have: any order, a
\* time twice, repeats, a repeat at the end of the day, a full day, one too many.
MCGivenLists ==
    LET some == {At0(0), At0(1), At2(1), At4(2), At4(3)}
    IN  {<<>>, <<At0(OneAndAHalf)>>} \cup {<<e>> : e \in some} \cup {<<At0(1), e>> : e \in some} \cup
        { <<At0(1), At2(2), At2(1)>>,
          <<At0(1), At2(1), At2(2)>>,
          <<At4(2), At0(1), At2(1)>>,
          <<At4(0), At2(1), At0(2)>>,
          <<At0(1), At2(2), AtEnd(2)>>,
          <<At0(1), [time |-> 1, level |-> 0], At2(1), [time |-> 3, level |-> 2]>>,
          <<At0(1), At2(0), At4(2), [time |-> 5, level |-> 1]>>,
          <<At0(1), At2(0), At4(2), [time |-> 5, level |-> 1], [time |-> 3, level |-> 1]>>,
          <<[time |-> -1, level |-> 1], At0(2)>> }
=============================================================================
