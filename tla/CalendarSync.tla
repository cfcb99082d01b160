---------------------------- MODULE CalendarSync ----------------------------
(***************************************************************************)
(* Calendars as several editors see them: each reads a calendar, edits its *)
(* copy and writes the whole of it back, payload and colour, over calls    *)
(* that may fail or take effect late.  What becomes of the writes is what  *)
(* ApiContract promises, which ApiCall implements; how they are cut into   *)
(* requests is the rule of Packing.  The controller keeps no version of a  *)
(* calendar that a write could be held against.                            *)
(*                                                                         *)
(* A read is one step: payload and colour of a calendar fit one request    *)
(* and one reply.  Reads that fail, payloads that cannot be read and       *)
(* writes of a calendar that is not there raise and change nothing.  Every *)
(* variable here is one the user may write.                                *)
(***************************************************************************)
EXTENDS Packing, SequencesExt

CONSTANTS
    Editors,
    Calendars,
    Coloured,       \* the calendars with a colour variable
    Days,           \* fields of a payload: its days ...
    Schedules,      \* ... with values
    Names,          \* ... its name, the empty one among them ...
    Temperatures,   \* ... and its temperatures
    Colours,        \* values of the colour
    Rejected,       \* schedules, names and temperatures that validate() refuses
    Unencodable,    \* names outside the code page
    Initial,        \* what the calendars are at first
    PathLen,        \* len of an address
    ValueLen,       \* len of a colour, or of what a name and temperatures make of a
                    \* payload ...
    EncodedLen,     \* ... and quoted for the request
    Tasks,          \* what each editor may write: its copy of a calendar, with some
                    \* fields changed, to that calendar or to another
    MaxWrites       \* bound: the writes of each editor (the code has none)

None == "none"
EmptyName == ""
PayloadFields == Days \cup {"name", "temperatures"}
Fields == PayloadFields \cup {"color"}

ValuesOf(field) ==
    CASE field \in Days         -> Schedules
      [] field = "name"         -> Names
      [] field = "temperatures" -> Temperatures
      [] field = "color"        -> Colours

\* A CalendarState; the empty one has None everywhere.
CalendarState ==
    {s \in [Fields -> Schedules \cup Names \cup Temperatures \cup Colours \cup {None}] :
        \A f \in Fields : s[f] \in ValuesOf(f) \cup {None}}

\* What passes validate: the name may be missing.
Complete(s) ==
    /\ \A f \in PayloadFields : s[f] \notin Rejected
    /\ \A f \in PayloadFields \ {"name"} : s[f] # None

ASSUME CalendarAssumption ==
    /\ Coloured \subseteq Calendars
    /\ Days \cap {"name", "temperatures", "color"} = {}
    /\ EmptyName \in Names \ Rejected
    /\ Initial \in [Calendars -> CalendarState]
    /\ \A cal \in Calendars :
          Complete(Initial[cal]) /\ (cal \in Coloured <=> Initial[cal]["color"] # None)
    /\ PathLen \in Nat
    /\ {ValueLen, EncodedLen} \subseteq [Names \cup Temperatures \cup Colours \cup {None} -> Nat]
    /\ \A e \in Editors : \A task \in Tasks[e] :
          /\ {task.from, task.to} \subseteq Calendars
          /\ \A f \in DOMAIN task.edit : f \in Fields /\ task.edit[f] \in ValuesOf(f) \cup {None}
    /\ MaxWrites \in [Editors -> Nat]

VARIABLES
    calls, log, adrift, \* the calls of the editors and the setters that took effect
    wrote,              \* editor -> what its calls set, in which calendar
    copies              \* editor -> calendar -> its CalendarState; with history:
                        \* which read it is from, how long the log was then, and
                        \* the fields edited since

vars == <<calls, log, adrift, wrote, copies>>

Api == INSTANCE ApiContract WITH Clients <- Editors, Cuts <- {<<1>>, <<2>>, <<1, 2>>}

-----------------------------------------------------------------------------
(***************************************************************************)
(* The device: what the setters that took effect have made of it           *)
(***************************************************************************)
CallOf(i) == wrote[log[i].client][log[i].call]
SetterOf(i) == CallOf(i).setters[log[i].index]

\* The fields a setter sets; the payload is replaced as a whole.
Sets(setter) == DOMAIN setter.values

\* The positions of the log, up to one of them, that set a field of a calendar.
Touching(cal, field, last) ==
    {i \in 1 .. last : CallOf(i).calendar = cal /\ field \in Sets(SetterOf(i))}

ValueAt(cal, field, last) ==
    LET touching == Touching(cal, field, last)
    IN  IF touching = {} THEN Initial[cal][field] ELSE SetterOf(Max(touching)).values[field]

Device(cal) == [f \in Fields |-> ValueAt(cal, f, Len(log))]

-----------------------------------------------------------------------------
(***************************************************************************)
(* Calendar                                                                *)
(***************************************************************************)
Unread == [f \in Fields |-> None]

\* parse_state, where the device answers with "!off" for some variables.
ParseState(stored, off) ==
    IF "payload" \in off THEN Unread
    ELSE [stored EXCEPT !["color"] = IF "color" \in off THEN None ELSE @]

\* as_json: a name that is missing is written as an empty one.
AsJson(s) == [f \in PayloadFields |-> IF f = "name" /\ s[f] = None THEN EmptyName ELSE s[f]]

PayloadSetter(payload) ==
    [values  |-> payload,
     len     |-> ValueLen[payload["name"]] + ValueLen[payload["temperatures"]],
     encoded |-> EncodedLen[payload["name"]] + EncodedLen[payload["temperatures"]]]

ColourSetter(colour) ==
    [values  |-> [f \in {"color"} |-> colour],
     len     |-> ValueLen[colour],
     encoded |-> EncodedLen[colour]]

\* Mutated form of Setters: whether the calendar has a colour is not asked.
SettersAnyColour(s, cal) ==
    <<PayloadSetter(AsJson(s))>>
        \o (IF s["color"] # None THEN <<ColourSetter(s["color"])>> ELSE <<>>)

\* The request set of write: the payload, then the colour if there is one.
Setters(s, cal) ==
    <<PayloadSetter(AsJson(s))>>
        \o (IF cal \in Coloured /\ s["color"] # None
            THEN <<ColourSetter(s["color"])>> ELSE <<>>)

Items(setters) ==
    [i \in DOMAIN setters |->
        [fragment |-> PathLen + 1 + setters[i].encoded,
         response |-> PathLen + setters[i].len + 2]]

\* Mutated form of Ends: payload and colour are written one after the other.
EndsApart(setters) == [i \in DOMAIN setters |-> i]

\* The last of the setters in each request.
Ends(setters) ==
    LET chunks == Pack(Items(setters))
    IN  [k \in DOMAIN chunks |-> Last(chunks[k])]

-----------------------------------------------------------------------------
Init ==
    /\ Api!Init
    /\ wrote = [e \in Editors |-> <<>>]
    /\ copies = [e \in Editors |-> [cal \in Calendars |->
                    [state |-> Unread, read |-> 0, read_at |-> 0, edited |-> {}]]]

Reads(e) == Max({copies[e][cal].read : cal \in Calendars})

\* A read that no write can follow, and the reading of a calendar again whose copy
\* has not been written yet, are left out: they are as if they had not been.
MayRead(e, cal) ==
    /\ ~Api!IsOpen(e)
    /\ Len(calls[e]) < MaxWrites[e]
    /\ copies[e][cal].read > 0 => \E n \in DOMAIN wrote[e] : wrote[e][n].read = copies[e][cal].read
    /\ \E task \in Tasks[e] : task.from = cal

\* Mutated form of Update: what was read before is kept.
UpdateCached(e, cal, off) ==
    /\ MayRead(e, cal)
    /\ copies' = [copies EXCEPT ![e][cal] =
                    [state |-> IF @.read > 0 THEN @.state ELSE ParseState(Device(cal), off),
                     read |-> Reads(e) + 1, read_at |-> Len(log), edited |-> {}]]
    /\ UNCHANGED <<calls, log, adrift, wrote>>

\* update of a calendar; read_calendars, for each of them.
Update(e, cal, off) ==
    /\ MayRead(e, cal)
    /\ copies' = [copies EXCEPT ![e][cal] =
                    [state |-> ParseState(Device(cal), off), read |-> Reads(e) + 1,
                     read_at |-> Len(log), edited |-> {}]]
    /\ UNCHANGED <<calls, log, adrift, wrote>>

\* The caller changes fields of its copy, and may fill in an empty one.
Edited(state, edit) == [f \in Fields |-> IF f \in DOMAIN edit THEN edit[f] ELSE state[f]]

\* Mutated form of Writable: what was read is taken to be complete.
WritableUnchecked(s) == TRUE

\* validate
Writable(s) == Complete(s)

\* Some edits of the copy of one calendar, and its write to that one or to another;
\* this goes no further than the encoding or the packing if they raise.
Write(e, from, to, edit) ==
    LET copy == copies[e][from]
        state == Edited(copy.state, edit)
        edited == copy.edited \cup DOMAIN edit
        setters == Setters(state, to)
    IN  /\ copy.read > 0
        /\ Writable(state)
        /\ Len(calls[e]) < MaxWrites[e]
        /\ Api!Begin(e, Ends(setters),
                     IF state["name"] \in Unencodable THEN "invalid"
                     ELSE IF TooLong(Items(setters)) THEN "too_long" ELSE "open")
        /\ wrote' = [wrote EXCEPT ![e] = Append(@,
                        [calendar |-> to, setters |-> setters, from |-> from,
                         read |-> copy.read, read_at |-> copy.read_at,
                         given |-> {f \in Fields : state[f] # None},
                         edited |-> IF from = to THEN edited ELSE Fields])]
        /\ copies' = [copies EXCEPT ![e][from].state = state, ![e][from].edited = edited]

\* What the calls come to.
Carry ==
    /\ \/ \E e \in Editors : Api!Write(e) \/ Api!Return(e) \/ Api!Fail(e)
       \/ \E call \in adrift : Api!Straggle(call[1], call[2])
    /\ UNCHANGED <<wrote, copies>>

Next ==
    \/ \E e \in Editors :
          \/ \E cal \in Calendars, off \in SUBSET {"payload", "color"} : Update(e, cal, off)
          \/ \E task \in Tasks[e] : Write(e, task.from, task.to, task.edit)
    \/ Carry

Spec == Init /\ [][Next]_vars

-----------------------------------------------------------------------------
(***************************************************************************)
(* Properties                                                              *)
(***************************************************************************)
TypeOK ==
    /\ \A e \in Editors : Len(wrote[e]) = Len(calls[e])
    /\ \A e \in Editors, cal \in Calendars : copies[e][cal].state \in CalendarState
    /\ \A cal \in Calendars :
          Device(cal) \in CalendarState /\ (cal \in Coloured <=> Device(cal)["color"] # None)
    /\ \A i \in DOMAIN log : log[i].index \in DOMAIN CallOf(i).setters

\* No calendar is ever wiped or left without a day, though a switched off one reads
\* as an empty state that can be edited and written like any other
\* (calendar.py:428, 442).
NeverWiped == \A cal \in Calendars : Complete(Device(cal))

\* The editor was told that this write failed.
Failed(i) == calls[log[i].client][log[i].call].outcome = "connection"

\* A write came between another one and the read that one rests on: somebody else's;
\* or one of the same editor that failed and came late after all, or that the other,
\* late itself, came after; or the copy of another calendar.
Overlaps(j, i) ==
    \/ log[j].client # log[i].client
    \/ Failed(j) /\ CallOf(j).read # CallOf(i).read
    \/ Failed(i) /\ log[i].call < log[j].call
    \/ CallOf(j).from # CallOf(j).calendar

\* A write changes a field that its editor's copy has and that the editor did not
\* touch only if another one overlaps with it: two editors lose nothing if they do
\* not overlap, and one that is alone loses nothing unless it was told that a call
\* had failed and went on.  With an overlap the whole calendar is replaced, and
\* nothing stops it (calendar.py:441, "the controller has no partial update").
\* A name that the copy lacks is written as an empty one, whatever it was.
LosesOnlyToOverlap ==
    \A i \in DOMAIN log :
        LET call == CallOf(i)
        IN  \A field \in (Sets(SetterOf(i)) \cap call.given) \ call.edited :
                ValueAt(call.calendar, field, i) # ValueAt(call.calendar, field, i - 1)
                    => \E j \in Touching(call.calendar, field, i - 1) :
                          j > call.read_at /\ Overlaps(j, i)

\* Payload and colour on the device are of one write, whatever calls failed or came
\* late or at once, unless a write was too long for one request or wrote no colour
\* (calendar.py:445-449).
OneWriteUnlessSplit ==
    \A cal \in Coloured :
        LET payloads == Touching(cal, "temperatures", Len(log))
            colours == Touching(cal, "color", Len(log))
            Split(i) == ~Under(Items(CallOf(i).setters), [k \in DOMAIN CallOf(i).setters |-> k])
        IN  (payloads # {} /\ Len(CallOf(Max(payloads)).setters) > 1) =>
                \/ \E i \in payloads : Split(i)
                \/ /\ colours # {}
                   /\ log[Max(colours)].client = log[Max(payloads)].client
                   /\ log[Max(colours)].call = log[Max(payloads)].call
=============================================================================
