---------------------------- MODULE CalendarDay ----------------------------
(***************************************************************************)
(* unit/calendar.py, CalendarDay: one day of a heating calendar, stored    *)
(* as a fixed number of edges and edited through its transitions.          *)
(*                                                                         *)
(* The edges of a day are in strictly increasing order of time (a day with *)
(* two edges at one time is neither read from the controller nor made), so *)
(* a day is a function from times to levels, and the list in the code is   *)
(* that function in the order of its domain.                               *)
(***************************************************************************)
EXTENDS Integers, Sequences, FiniteSets, FiniteSetsExt, Functions

CONSTANTS
    DayEnd,         \* CALENDAR_DAY_END, in steps of CALENDAR_TIME_STEP_MINUTES
    EdgeCount,      \* CALENDAR_EDGES
    Levels,         \* CalendarLevel
    GivenTimes,     \* the times, levels and indices a caller may pass,
    GivenLevels,    \* right or wrong
    GivenIndices,
    GivenLists,     \* the lists of transitions a caller may pass
    WholePart       \* int(level), which cuts off what a level has of a fraction

Edge == [time : Int, level : GivenLevels]

\* The grid has room for a spare edge wherever one is needed, and for more than
\* the two ends.
ASSUME GridAssumption ==
    /\ EdgeCount \in Nat /\ EdgeCount >= 3
    /\ DayEnd \in Nat /\ DayEnd >= EdgeCount - 1

ASSUME GivenAssumption ==
    /\ Levels \subseteq GivenLevels
    /\ GivenTimes \subseteq Int
    /\ GivenIndices \subseteq Int
    /\ GivenLists \subseteq Seq(Edge)
    /\ \A level \in Levels : WholePart[level] = level

VARIABLES
    edges,      \* the grid: time -> level
    call,       \* the method that was called, with its arguments
    outcome     \* what the last call came to

vars == <<edges, call, outcome>>

\* What may be called; NoCall while nothing is.
Calls ==
    [method : {"set_transitions"}, list : GivenLists] \cup
    [method : {"add_transition"}, time : GivenTimes, level : GivenLevels] \cup
    [method : {"remove_transition"}, index : GivenIndices] \cup
    [method : {"move_transition"}, index : GivenIndices, time : GivenTimes] \cup
    [method : {"set_transition_level"}, index : GivenIndices, level : GivenLevels]

NoCall == [method |-> "none"]

MaxTransitions == EdgeCount - 1

\* CalendarDay(): the default of the field.
NoEdges == <<>>

-----------------------------------------------------------------------------
(***************************************************************************)
(* Reading                                                                 *)
(***************************************************************************)
Before(times, t) == Max({u \in times : u < t})

\* The first time, and the times at which the level is another than before.
Changes(day) ==
    {t \in DOMAIN day : t = Min(DOMAIN day) \/ day[t] # day[Before(DOMAIN day, t)]}

\* The property transitions: the last edge is never one.
Transitions(day) ==
    IF DOMAIN day = {} THEN NoEdges
    ELSE Restrict(day, Changes(day) \ {Max(DOMAIN day)})

\* level_at, for a time that is not before the first edge.
LevelAt(day, t) == day[Max({u \in DOMAIN day : u <= t})]

\* What CalendarState.validate requires of a day.
ValidDay(day) ==
    LET times == DOMAIN day
    IN  /\ Cardinality(times) = EdgeCount
        /\ Min(times) = 0
        /\ Max(times) = DayEnd
        /\ day[DayEnd] = day[Before(times, DayEnd)]
        /\ \A t \in times : day[t] \in Levels

-----------------------------------------------------------------------------
(***************************************************************************)
(* _park and the packing of set_transitions                                *)
(***************************************************************************)
\* The bound after t.
Following(packed, t) == Min({u \in DOMAIN packed \cup {DayEnd} : u > t})

Gap(packed, t) == Following(packed, t) - t

\* Mutated form of Widest: the narrowest gap.
Narrowest(packed) ==
    Min({t \in DOMAIN packed :
            \A u \in DOMAIN packed : Gap(packed, u) >= Gap(packed, t)})

\* max(range(...), key=...): the first of the widest gaps, by its left bound.
Widest(packed) ==
    Min({t \in DOMAIN packed :
            \A u \in DOMAIN packed : Gap(packed, u) <= Gap(packed, t)})

Middle(packed) ==
    (Widest(packed) + Following(packed, Widest(packed))) \div 2

\* The negation of the test that raises "No room left to park a spare edge".
HasGap(packed) ==
    /\ Widest(packed) < Middle(packed)
    /\ Middle(packed) < Following(packed, Widest(packed))

With(day, time, level) ==
    [t \in DOMAIN day \cup {time} |-> IF t = time THEN level ELSE day[t]]

Without(day, time) == Restrict(day, DOMAIN day \ {time})

\* Mutated form of Park: the spare edge has the level after the gap.
ParkNext(packed) ==
    With(packed, Middle(packed),
         LET following == Following(packed, Widest(packed))
         IN  IF following \in DOMAIN packed THEN packed[following]
             ELSE packed[Min(DOMAIN packed)])

\* packed.append(self._park(packed))
Park(packed) == With(packed, Middle(packed), packed[Widest(packed)])

\* The while loop, by the number of edges it has reached.
Parking(packed) ==
    LET filled[n \in Cardinality(DOMAIN packed) .. EdgeCount - 1] ==
            IF n = Cardinality(DOMAIN packed) THEN packed ELSE Park(filled[n - 1])
    IN  filled

OutOfRoom(packed) ==
    \E n \in DOMAIN Parking(packed) \ {EdgeCount - 1} : ~HasGap(Parking(packed)[n])

\* Mutated form of Terminated: the day ends on the level it opens on.
TerminatedAsOpened(packed) == With(packed, DayEnd, packed[0])

\* packed.append(CalendarEdge(CALENDAR_DAY_END, packed[-1].level))
Terminated(packed) == With(packed, DayEnd, packed[Max(DOMAIN packed)])

\* The transitions without those that repeat the level before them.
Packed(transitions) == Restrict(transitions, Changes(transitions))

Grid(transitions) == Terminated(Parking(Packed(transitions))[EdgeCount - 1])

\* Mutated form of Acceptable: levels are taken as they come.
AcceptableAnyLevel(transitions) ==
    LET times == DOMAIN transitions
    IN  /\ times # {}
        /\ Cardinality(times) <= MaxTransitions
        /\ Min(DOMAIN Packed(transitions)) = 0
        /\ Max(DOMAIN Packed(transitions)) < DayEnd

\* None of the checks of set_transitions raises; that times differ is checked
\* where a list is given.
Acceptable(transitions) ==
    LET times == DOMAIN transitions
    IN  /\ times # {}
        /\ Cardinality(times) <= MaxTransitions
        /\ \A t \in times : transitions[t] \in Levels
        /\ Min(DOMAIN Packed(transitions)) = 0
        /\ Max(DOMAIN Packed(transitions)) < DayEnd

-----------------------------------------------------------------------------
(***************************************************************************)
(* Editing                                                                 *)
(***************************************************************************)
\* A caller calls a method, with right arguments or wrong ones,
Call(edit) ==
    /\ call = NoCall
    /\ call' = edit
    /\ UNCHANGED <<edges, outcome>>

\* and the method runs and returns or raises.
Called(edit) == call = edit /\ call' = NoCall

\* InvalidValueError: nothing is stored.
Refuse ==
    /\ outcome' = "refused"
    /\ UNCHANGED edges

SetTransitions(transitions) ==
    \/ /\ Acceptable(transitions)
       /\ ~OutOfRoom(Packed(transitions))
       /\ edges' = Grid(transitions)
       /\ outcome' = "edited"
    \/ /\ Acceptable(transitions)
       /\ OutOfRoom(Packed(transitions))
       /\ outcome' = "no_room"
       /\ UNCHANGED edges
    \/ ~Acceptable(transitions) /\ Refuse

\* A list of transitions as a day: the level given for each time.
AsDay(list) ==
    [t \in {list[i].time : i \in DOMAIN list} |->
        list[CHOOSE i \in DOMAIN list : list[i].time = t].level]

TimesDiffer(list) ==
    \A i, j \in DOMAIN list : i # j => list[i].time # list[j].time

\* set_transitions
Replace(list) ==
    /\ Called([method |-> "set_transitions", list |-> list])
    /\ \/ TimesDiffer(list) /\ SetTransitions(AsDay(list))
       \/ ~TimesDiffer(list) /\ Refuse

\* transitions[index], which the code counts from 0.
At(transitions, index) ==
    CHOOSE t \in DOMAIN transitions :
        Cardinality({u \in DOMAIN transitions : u < t}) = index

\* Mutated form of HasIndex: the last transition cannot be named.
HasIndexShort(transitions, index) ==
    index \in 0 .. Cardinality(DOMAIN transitions) - 2

HasIndex(transitions, index) == index \in 0 .. Cardinality(DOMAIN transitions) - 1

\* add_transition, which takes int(level) where the other methods refuse a
\* fraction.
Add(time, level) ==
    LET transitions == Transitions(edges)
        allowed == /\ 0 < time /\ time < DayEnd
                   /\ time \notin DOMAIN transitions
                   /\ Cardinality(DOMAIN transitions) < MaxTransitions
    IN  /\ Called([method |-> "add_transition", time |-> time, level |-> level])
        /\ \/ allowed /\ SetTransitions(With(transitions, time, WholePart[level]))
           \/ ~allowed /\ Refuse

\* remove_transition
Remove(index) ==
    LET transitions == Transitions(edges)
        allowed == index # 0 /\ HasIndex(transitions, index)
    IN  /\ Called([method |-> "remove_transition", index |-> index])
        /\ \/ allowed /\ SetTransitions(Without(transitions, At(transitions, index)))
           \/ ~allowed /\ Refuse

\* low <= time <= high
Between(transitions, index, time) ==
    LET t == At(transitions, index)
    IN  /\ Before(DOMAIN transitions, t) < time
        /\ time < Following(transitions, t)

\* move_transition
Move(index, time) ==
    LET transitions == Transitions(edges)
        allowed == /\ index # 0
                   /\ HasIndex(transitions, index)
                   /\ Between(transitions, index, time)
        t == At(transitions, index)
    IN  /\ Called([method |-> "move_transition", index |-> index, time |-> time])
        /\ \/ allowed /\ SetTransitions(With(Without(transitions, t), time, transitions[t]))
           \/ ~allowed /\ Refuse

\* set_transition_level
SetLevel(index, level) ==
    LET transitions == Transitions(edges)
        allowed == HasIndex(transitions, index) /\ level \in Levels
    IN  /\ Called([method |-> "set_transition_level", index |-> index, level |-> level])
        /\ \/ allowed /\ SetTransitions(With(transitions, At(transitions, index), level))
           \/ ~allowed /\ Refuse

\* A new CalendarDay, or one read from the controller, which stores what it
\* would accept itself.
Init ==
    /\ edges \in {NoEdges} \cup
                 {day \in UNION {[times -> Levels] :
                                    times \in kSubset(EdgeCount, 0 .. DayEnd)} :
                    ValidDay(day)}
    /\ call = NoCall
    /\ outcome = "none"

Next ==
    \/ \E edit \in Calls : Call(edit)
    \/ \E list \in GivenLists : Replace(list)
    \/ \E time \in GivenTimes, level \in GivenLevels : Add(time, level)
    \/ \E index \in GivenIndices : Remove(index)
    \/ \E index \in GivenIndices, time \in GivenTimes : Move(index, time)
    \/ \E index \in GivenIndices, level \in GivenLevels : SetLevel(index, level)

Spec == Init /\ [][Next]_vars

-----------------------------------------------------------------------------
\* Type invariant.
TypeOK ==
    /\ \E times \in SUBSET (0 .. DayEnd) : edges \in [times -> Levels]
    /\ call \in Calls \cup {NoCall}
    /\ outcome \in {"none", "edited", "refused", "no_room"}

\* Whatever is edited, and in whatever order, the day stays one that validate
\* lets through: eight edges with none lost to a spare one parked on top of it,
\* both ends pinned, and a terminator that changes nothing (calendar.py:369-382).
EditedDayIsValid == edges # NoEdges => ValidDay(edges)

\* "No room left to park a spare edge" (calendar.py:151-152) is never reached:
\* an edit is refused only for what the caller asked.
NeverOutOfRoom == outcome # "no_room"

\* Writing back the transitions that were read changes none of them, wherever
\* the spare edges were: reading and writing are inverse to each other
\* (tests/test_calendar.py:119-123).
RoundTrips ==
    edges # NoEdges => Transitions(Grid(Transitions(edges))) = Transitions(edges)

\* The level in force at each moment changes exactly as the method called and its
\* arguments say, and a call is refused for what is wrong with it and for nothing
\* else, with the edges and their packing left out: DaySchedule, of which this is
\* an implementation (calendar.py:114-207).
Schedule == INSTANCE DaySchedule WITH
    level <- IF edges = NoEdges THEN NoEdges
             ELSE [t \in 0 .. DayEnd - 1 |-> LevelAt(edges, t)]

ImplementsSchedule == Schedule!Spec
=============================================================================
