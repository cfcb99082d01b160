---------------------------- MODULE DaySchedule ----------------------------
(***************************************************************************)
(* What a user of CalendarDay edits: the level in force at each moment of  *)
(* a day.  It changes at most MaxTransitions - 1 times after midnight, and *)
(* an edit touches the stretch it names and nothing else of the day, or is *)
(* refused for what is wrong with it.                                      *)
(***************************************************************************)
EXTENDS Integers, Sequences, FiniteSets, FiniteSetsExt

CONSTANTS
    DayEnd,             \* the moments of a day are 0 .. DayEnd - 1
    MaxTransitions,     \* how often the level may be set, midnight included
    Levels,
    GivenTimes, GivenLevels, GivenIndices, GivenLists,  \* what may be asked for
    WholePart,          \* level given -> level meant, where a fraction is cut off
    Calls, NoCall       \* the edits that may be asked for

VARIABLES
    level,              \* moment -> level, or empty: no schedule yet
    call,               \* the edit asked for
    outcome             \* what became of the last one

vars == <<level, call, outcome>>

Moments == 0 .. DayEnd - 1

Unset == <<>>

\* The moments the level is set: midnight, and where it changes.
Set(day) == {t \in Moments : t = 0 \/ day[t] # day[t - 1]}

\* The stretch from a moment to the next change, or to the end of the day.
Stretch(t) == t .. Min({u \in Set(level) \cup {DayEnd} : u > t}) - 1

\* The change an index names, midnight being the first.
HasIndex(index) == level # Unset /\ index \in 0 .. Cardinality(Set(level)) - 1

At(index) ==
    CHOOSE t \in Set(level) : Cardinality({u \in Set(level) : u < t}) = index

-----------------------------------------------------------------------------
\* One level for some moments, the rest of the day as it was.
Over(moments, l) ==
    /\ level' = [t \in Moments |-> IF t \in moments THEN l ELSE level[t]]
    /\ outcome' = "edited"

Refuse == outcome' = "refused" /\ UNCHANGED level

Called(edit) == call = edit /\ call' = NoCall

Call(edit) ==
    /\ call = NoCall
    /\ call' = edit
    /\ UNCHANGED <<level, outcome>>

\* Of the levels listed, the last one asked for by some time.
Latest(list, t) ==
    CHOOSE i \in DOMAIN list :
        /\ list[i].time <= t
        /\ \A j \in DOMAIN list : list[j].time <= t => list[j].time <= list[i].time

Listed(list, t) == list[Latest(list, t)].level

\* A list that says what the level is all day, and of no time twice or after the
\* day that it is another.
DescribesADay(list) ==
    /\ Len(list) <= MaxTransitions
    /\ \E i \in DOMAIN list : list[i].time = 0
    /\ \A i \in DOMAIN list : list[i].level \in Levels /\ list[i].time >= 0
    /\ \A i, j \in DOMAIN list : list[i].time = list[j].time => i = j
    /\ \A i \in DOMAIN list :
        list[i].time >= DayEnd => list[i].level = Listed(list, list[i].time - 1)

Replace(list) ==
    /\ Called([method |-> "set_transitions", list |-> list])
    /\ \/ /\ DescribesADay(list)
          /\ level' = [t \in Moments |-> Listed(list, t)]
          /\ outcome' = "edited"
       \/ ~DescribesADay(list) /\ Refuse

\* From a moment on, up to the next change, another level.
MayAdd(t, l) ==
    /\ level # Unset
    /\ t \in Moments \ Set(level)
    /\ Cardinality(Set(level)) < MaxTransitions
    /\ WholePart[l] \in Levels

Add(t, l) ==
    /\ Called([method |-> "add_transition", time |-> t, level |-> l])
    /\ \/ MayAdd(t, l) /\ Over(Stretch(t), WholePart[l])
       \/ ~MayAdd(t, l) /\ Refuse

\* The level before runs on to the next change; midnight stays.
MayRemove(index) == index # 0 /\ HasIndex(index)

Remove(index) ==
    /\ Called([method |-> "remove_transition", index |-> index])
    /\ \/ MayRemove(index) /\ Over(Stretch(At(index)), level[At(index) - 1])
       \/ ~MayRemove(index) /\ Refuse

\* A change comes sooner,
Sooner(t, u) == u < t /\ \A w \in u .. t - 1 : w \notin Set(level)

\* or later, though still between its neighbours.
MayMove(index, u) ==
    MayRemove(index) /\ (Sooner(At(index), u) \/ u \in Stretch(At(index)))

Move(index, u) ==
    LET t == At(index)
    IN  /\ Called([method |-> "move_transition", index |-> index, time |-> u])
        /\ \/ MayMove(index, u) /\ u < t /\ Over(u .. t - 1, level[t])
           \/ MayMove(index, u) /\ t <= u /\ Over(t .. u - 1, level[t - 1])
           \/ ~MayMove(index, u) /\ Refuse

\* The stretch after a change has another level.
MaySetLevel(index, l) == HasIndex(index) /\ l \in Levels

SetLevel(index, l) ==
    /\ Called([method |-> "set_transition_level", index |-> index, level |-> l])
    /\ \/ MaySetLevel(index, l) /\ Over(Stretch(At(index)), l)
       \/ ~MaySetLevel(index, l) /\ Refuse

Init ==
    /\ \/ level = Unset
       \/ level \in [Moments -> Levels] /\ Cardinality(Set(level)) <= MaxTransitions
    /\ call = NoCall
    /\ outcome = "none"

Next ==
    \/ \E edit \in Calls : Call(edit)
    \/ \E list \in GivenLists : Replace(list)
    \/ \E t \in GivenTimes, l \in GivenLevels : Add(t, l)
    \/ \E index \in GivenIndices : Remove(index)
    \/ \E index \in GivenIndices, t \in GivenTimes : Move(index, t)
    \/ \E index \in GivenIndices, l \in GivenLevels : SetLevel(index, l)

Spec == Init /\ [][Next]_vars
=============================================================================
