-------------------------- MODULE CalendarPeriods --------------------------
(***************************************************************************)
(* unit/calendar.py, CalendarState.periods: the weekly schedule laid over  *)
(* real dates, in a zone whose clock may be put forward or back.           *)
(*                                                                         *)
(* Instants and wall-clock times are minutes from one origin: minute 0 is  *)
(* midnight of date 0, a Monday.  A day of the calendar is its transitions *)
(* (CalendarDay), listed in the order of their times from midnight on.     *)
(***************************************************************************)
EXTENDS Integers, SequencesExt

CONSTANTS
    WeekLength,     \* days of a week
    DayEnd,         \* CALENDAR_DAY_END
    Step,           \* CALENDAR_TIME_STEP_MINUTES
    Levels,
    Days,           \* the transitions a day of the calendar may have
    Zones,          \* [jump, before, after]: the offset changes at an instant
    Windows         \* [start, end] asked for: a wall-clock time and a fold, and of
                    \* the end the zone it is given in

DayMinutes == DayEnd * Step

ASSUME CalendarAssumption ==
    /\ WeekLength \in Nat \ {0}
    /\ DayEnd \in Nat \ {0}
    /\ Step \in Nat \ {0}
    /\ Days \subseteq Seq([time : 0 .. DayEnd - 1, level : Levels])
    /\ \A day \in Days :
        /\ day # <<>> /\ day[1].time = 0
        /\ \A j, k \in DOMAIN day : j < k => day[j].time < day[k].time

ASSUME ZoneAssumption ==
    /\ Zones \subseteq [jump : Int, before : Int, after : Int]
    /\ \A z \in Zones :     \* no clock jumps by more than a week
        /\ z.after - z.before <= WeekLength * DayMinutes
        /\ z.before - z.after <= WeekLength * DayMinutes
    /\ \A y, z \in Zones :  \* nor are two of them as far apart, less a day
        \A there \in {y.before, y.after}, here \in {z.before, z.after} :
            y # z => here - there <= (WeekLength - 1) * DayMinutes
    /\ Windows \subseteq [start : [wall : Int, fold : {0, 1}],
                          end : [wall : Int, fold : {0, 1}, zone : Zones]]

VARIABLES
    days,       \* weekday -> [as_monday, transitions]; Monday is 0
    zone,       \* the zone of the start of the window
    window,     \* the window asked for
    result      \* <<>> before the call, then <<the list returned>>

vars == <<days, zone, window, result>>

-----------------------------------------------------------------------------
(***************************************************************************)
(* Clocks: datetime and zoneinfo                                           *)
(***************************************************************************)
Offset(z, instant) == IF instant < z.jump THEN z.before ELSE z.after

Local(z, instant) == instant + Offset(z, instant)

\* The instant of a wall-clock time.  Of a skipped or repeated time, fold 0
\* takes the offset from before the jump and fold 1 the one from after it.
Instant(z, wall, fold) ==
    LET offsets == {z.before, z.after}
        until == z.jump + (IF fold = 0 THEN Max(offsets) ELSE Min(offsets))
    IN  IF wall < until THEN wall - z.before ELSE wall - z.after

\* _exists
Exists(z, wall) == Local(z, Instant(z, wall, 0)) = wall

\* Mutated form of GapEnd: the skipped time is moved on by the whole jump.
GapEndShifted(z, wall) == Local(z, Instant(z, wall, 0))

\* _gap_end: halving between an instant before the jump and one after it.
GapEnd(z, wall) ==
    LET first == Instant(z, wall, 1)
        last == Instant(z, wall, 0)
        Middle(s) == s.before + (s.after - s.before) \div 2
        jump[s \in [before : first .. last, after : first .. last]] ==
            IF s.after - s.before <= 1 THEN s.after
            ELSE IF Offset(z, Middle(s)) = Offset(z, s.after)
                 THEN jump[[s EXCEPT !.after = Middle(s)]]
                 ELSE jump[[s EXCEPT !.before = Middle(s)]]
    IN  Local(z, jump[[before |-> first, after |-> last]])

\* Mutated form of At: a skipped time is left as it is.
AtUnresolved(z, date, units) == date * DayMinutes + units * Step

\* _at
At(z, date, units) ==
    LET wall == date * DayMinutes + units * Step
    IN  IF Exists(z, wall) THEN wall ELSE GapEnd(z, wall)

-----------------------------------------------------------------------------
(***************************************************************************)
(* periods                                                                 *)
(***************************************************************************)
Date(wall) == wall \div DayMinutes
Weekday(date) == date % WeekLength

\* day_for_weekday
DayFor(weekday) ==
    IF days[weekday].as_monday /\ weekday > 0
    THEN days[0].transitions
    ELSE days[weekday].transitions

\* Mutated form of Dates: only the dates of the window.
DatesOfWindow ==
    LET first == Date(window.start.wall)
        last == Date(window.end.wall)
    IN  IF last < first THEN <<>> ELSE [k \in 1 .. last - first + 1 |-> first + k - 1]

\* The dates gone through, a week more at either side.
Dates ==
    LET first == Date(window.start.wall) - WeekLength
        last == Date(window.end.wall) + WeekLength
    IN  [k \in 1 .. last - first + 1 |-> first + k - 1]

MarksOf(date) ==
    LET day == DayFor(Weekday(date))
    IN  [k \in DOMAIN day |->
            [at |-> At(zone, date, day[k].time), level |-> day[k].level]]

Marks == FlattenSeq([k \in DOMAIN Dates |-> MarksOf(Dates[k])])

\* One turn of the loop over neighbouring marks.
Joined(periods, began, next_began) ==
    IF periods # <<>> /\ Last(periods).level = began.level
    THEN Append(Front(periods), [Last(periods) EXCEPT !.end = next_began.at])
    ELSE Append(periods, [start |-> began.at, end |-> next_began.at,
                          level |-> began.level])

AllPeriods ==
    LET marks == Marks
        upto[k \in 0 .. Len(marks)] ==
            IF k <= 1 THEN <<>> ELSE Joined(upto[k - 1], marks[k - 1], marks[k])
    IN  upto[Len(marks)]

Started == Instant(zone, window.start.wall, window.start.fold)
Ended == Instant(window.end.zone, window.end.wall, window.end.fold)

\* Whether both ends of the window are of one zone.
OneZone == window.end.zone = zone

InstantOf(wall) == Instant(zone, wall, 0)

\* Whether the window ends after a time of the zone of its start.  Times of one
\* zone are compared by what the clock shows, whatever their fold, and times of
\* two zones by their instants.
EndsAfter(wall) ==
    IF OneZone THEN wall < window.end.wall ELSE InstantOf(wall) < Ended

\* Mutated form of Overlaps: a period that ends as the window starts is in it.
OverlapsTouching(p) == p.end >= window.start.wall /\ EndsAfter(p.start)

Overlaps(p) == p.end > window.start.wall /\ EndsAfter(p.start)

\* The comprehension at the end of periods.
Overlapping(periods) ==
    LET upto[k \in 0 .. Len(periods)] ==
            IF k = 0 THEN <<>>
            ELSE IF Overlaps(periods[k]) THEN Append(upto[k - 1], periods[k])
            ELSE upto[k - 1]
    IN  upto[Len(periods)]

Init ==
    /\ days \in UNION {[0 .. n - 1 -> [as_monday : BOOLEAN, transitions : Days]] :
                            n \in {WeekLength - 1, WeekLength}}
    /\ zone \in Zones
    /\ window \in {w \in Windows :
                    /\ Exists(zone, w.start.wall)
                    /\ Exists(w.end.zone, w.end.wall)}
    /\ result = <<>>

\* A calendar without all weekdays yields nothing.
YieldNothing ==
    /\ result = <<>>
    /\ DOMAIN days # 0 .. WeekLength - 1
    /\ result' = << <<>> >>
    /\ UNCHANGED <<days, zone, window>>

Project ==
    /\ result = <<>>
    /\ DOMAIN days = 0 .. WeekLength - 1
    /\ result' = <<Overlapping(AllPeriods)>>
    /\ UNCHANGED <<days, zone, window>>

Next == YieldNothing \/ Project

Spec == Init /\ [][Next]_vars

-----------------------------------------------------------------------------
Projected == result # <<>> /\ DOMAIN days = 0 .. WeekLength - 1
Periods == result[1]

\* Type invariant: a period starts and ends at times the clock shows.
TypeOK ==
    /\ DOMAIN days \in {0 .. WeekLength - 2, 0 .. WeekLength - 1}
    /\ zone \in Zones
    /\ window \in Windows
    /\ Len(result) <= 1
    /\ Projected =>
        \A k \in DOMAIN Periods :
            /\ Exists(zone, Periods[k].start)
            /\ Exists(zone, Periods[k].end)
            /\ Periods[k].level \in Levels

\* Where the clock is put forward to.
Landing(wall) == ~Exists(zone, wall - 1)

\* Periods follow on each other in absolute time without gap or overlap, none
\* runs backwards or, except where the clock jumps, is empty, and no two in a row
\* have one level: a skipped time is placed where the clock jumps and not after
\* what follows it (calendar.py:308-311, tests/test_calendar.py:371-372).
PeriodsFollowOnEachOther ==
    Projected =>
        /\ \A k \in DOMAIN Periods :
            \/ InstantOf(Periods[k].start) < InstantOf(Periods[k].end)
            \/ Periods[k].start = Periods[k].end /\ Landing(Periods[k].start)
        /\ \A k \in 1 .. Len(Periods) - 1 :
            /\ Periods[k].end = Periods[k + 1].start
            /\ Periods[k].level # Periods[k + 1].level

\* The periods cover the window, and each of them overlaps it, for a window
\* that is not turned round and does not start, or end in the zone it starts in,
\* in the second pass of a repeated hour (calendar.py:320: "every level period
\* overlapping [start, end)").
ShowsTheWindow ==
    (/\ Projected /\ Started < Ended
     /\ window.start.fold = 0 /\ (OneZone => window.end.fold = 0)) =>
        /\ Periods # <<>>
        /\ InstantOf(Periods[1].start) <= Started
        /\ InstantOf(Last(Periods).end) >= Ended
        /\ \A k \in DOMAIN Periods :
            /\ InstantOf(Periods[k].end) > Started
            /\ InstantOf(Periods[k].start) < Ended

\* The same whatever the fold, as the docstring has it.
CoversTheWindow ==
    (Projected /\ Started < Ended) =>
        /\ Periods # <<>>
        /\ InstantOf(Periods[1].start) <= Started
        /\ InstantOf(Last(Periods).end) >= Ended

\* The level of the schedule at a time the clock shows.
Scheduled(wall) ==
    LET day == DayFor(Weekday(Date(wall)))
        minute == wall % DayMinutes
    IN  day[Max({k \in DOMAIN day : day[k].time * Step <= minute})].level

\* The furthest time the clock has shown by an instant: put back, it shows again
\* what it has shown before.
Furthest(instant) ==
    IF instant < zone.jump THEN Local(zone, instant)
    ELSE Max({Local(zone, instant), zone.jump + zone.before - 1})

\* At each instant the period it falls into has the level the schedule has for
\* the furthest time the clock has shown: from midnight to midnight, over a time
\* the clock skips, and through the second pass of a repeated hour, where a
\* level once reached stays (tests/test_calendar.py:378-387).
PeriodsShowTheSchedule ==
    Projected =>
        \A k \in DOMAIN Periods :
            \A instant \in InstantOf(Periods[k].start) .. InstantOf(Periods[k].end) - 1 :
                Scheduled(Furthest(instant)) = Periods[k].level

\* The last time the clock shows before this one.
Previous(wall) ==
    Max({w \in wall - 2 * DayMinutes .. wall - 1 : Exists(zone, w)})

\* The date of the end is not a later one where the window starts.
EndsOnItsDate == OneZone \/ Date(Furthest(Ended)) <= Date(window.end.wall)

\* A period is reported from the change that begins it to the change that ends
\* it, though both may be far outside the window: "only a level in force for
\* more than a week is cut short" (calendar.py:332-334).  It is so where the
\* date of the end is the one it has in the zone of the start, or a later one:
\* the week after the window is counted from it.
PeriodsAreComplete ==
    (Projected /\ Started < Ended /\ EndsOnItsDate) =>
        \A k \in DOMAIN Periods :
            LET p == Periods[k]
            IN  p.end - p.start < WeekLength * DayMinutes =>
                    /\ Landing(p.start) \/ Scheduled(Previous(p.start)) # p.level
                    /\ Landing(p.end) \/ Scheduled(p.end) # p.level

\* No period is empty (tests/test_calendar.py:304-306 and, on a day the clock
\* is put forward, 355 and 371).
NoPeriodIsEmpty ==
    Projected =>
        \A k \in DOMAIN Periods :
            InstantOf(Periods[k].start) < InstantOf(Periods[k].end)
=============================================================================
