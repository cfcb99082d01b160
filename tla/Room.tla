-------------------------------- MODULE Room --------------------------------
(***************************************************************************)
(* The setters of a room, called by several callers over calls that may    *)
(* fail or take effect late: what ApiContract promises, with the few short *)
(* writes of a call in one request.  The controller's own loop looks at    *)
(* the room at any time, that is, in every state.                          *)
(***************************************************************************)
EXTENDS Values, Sequences

CONSTANTS
    Clients,
    TypeOf,     \* type of each variable of a room that can be set, by its field
    Rooms,      \* what there may be of them: field -> "absent", "readonly", "writable"
    Given,      \* the values each caller hands over
    Manual,     \* RoomCorrectionMode.MANUAL
    MaxCalls    \* bound: the calls of each caller (the code has none)

Hold == {"correction_status", "correction_time", "correction_temperature"}
Fields == DOMAIN TypeOf

ASSUME RoomAssumption ==
    /\ TypeOf \in [Fields -> Types] /\ Hold \subseteq Fields
    /\ Rooms \subseteq [Fields -> {"absent", "readonly", "writable"}]
    /\ Given \in [Clients -> SUBSET PythonValues] /\ Manual \in PythonValues
    /\ MaxCalls \in [Clients -> Nat]

VARIABLES
    room,               \* which variables the room has
    calls, log, adrift, \* the calls and the setters that took effect
    asked               \* caller -> the setters of its calls

vars == <<room, calls, log, adrift, asked>>

Api == INSTANCE ApiContract WITH Cuts <- {<<1>>, <<3>>}

-----------------------------------------------------------------------------
\* Mutated form of Settable: a variable that is missing is passed over.
SettableIfThere(field) == room[field] # "readonly"

\* _require and the permission of set_request.
Settable(field) == room[field] = "writable"

Setter(field, value) ==
    [field |-> field, given |-> value, raw |-> EncodeValue(TypeOf[field], value)]

\* Mutated form of Send: every setter has a request of its own.
SendApart(c, setters) ==
    /\ \A i \in DOMAIN setters :
          Settable(setters[i].field) /\ Accepted(TypeOf[setters[i].field], setters[i].given)
    /\ Len(calls[c]) < MaxCalls[c]
    /\ Api!Begin(c, [i \in DOMAIN setters |-> i], "open")
    /\ asked' = [asked EXCEPT ![c] = Append(@, setters)]
    /\ UNCHANGED room

\* The request set is put together, unless a variable or a value makes that raise,
\* and handed to api_call.
Send(c, setters) ==
    /\ \A i \in DOMAIN setters :
          Settable(setters[i].field) /\ Accepted(TypeOf[setters[i].field], setters[i].given)
    /\ Len(calls[c]) < MaxCalls[c]
    /\ Api!Begin(c, <<Len(setters)>>, "open")
    /\ asked' = [asked EXCEPT ![c] = Append(@, setters)]
    /\ UNCHANGED room

\* set_value, and the setters of one variable.
SetValue(c, field, value) == Send(c, <<Setter(field, value)>>)

\* set_manual_temperature
SetManualTemperature(c, temperature, time) ==
    Send(c, <<Setter("correction_status", Manual),
              Setter("correction_time", time),
              Setter("correction_temperature", temperature)>>)

\* What the calls come to.
Carry ==
    /\ \/ \E c \in Clients : Api!Write(c) \/ Api!Return(c) \/ Api!Fail(c)
       \/ \E call \in adrift : Api!Straggle(call[1], call[2])
    /\ UNCHANGED <<room, asked>>

Init ==
    /\ room \in Rooms
    /\ Api!Init
    /\ asked = [c \in Clients |-> <<>>]

Next ==
    \/ \E c \in Clients : \E value \in Given[c] :
          \/ \E field \in Fields : SetValue(c, field, value)
          \/ \E time \in Given[c] : SetManualTemperature(c, value, time)
    \/ Carry

Spec == Init /\ [][Next]_vars

-----------------------------------------------------------------------------
(***************************************************************************)
(* Properties                                                              *)
(***************************************************************************)
SetterOf(i) == asked[log[i].client][log[i].call][log[i].index]
IsHold(i) == Len(asked[log[i].client][log[i].call]) = 3
SameCall(i, j) == log[i].client = log[j].client /\ log[i].call = log[j].call

Writes(i, field) == i \in DOMAIN log /\ SetterOf(i).field = field

\* The log holds setters of the calls, and of variables the room has.
TypeOK ==
    /\ room \in Rooms
    /\ asked \in [Clients -> Seq(Seq([field : Fields, given : PythonValues, raw : Texts]))]
    /\ \A c \in Clients : Len(asked[c]) = Len(calls[c])
    /\ \A i \in DOMAIN log : room[SetterOf(i).field] = "writable"

\* "the controller applies them in order and never observes a half-set state"
\* (room.py:81): as long as the mode it sees is that of a hold, the duration and the
\* setpoint are the ones of this hold, or set one by one since then: not of before,
\* and of no other hold.
NeverHalfSet ==
    \A i \in DOMAIN log :
        (/\ IsHold(i) /\ Writes(i, "correction_status")
         /\ \A j \in i + 1 .. Len(log) : ~Writes(j, "correction_status"))
            => \A field \in {"correction_time", "correction_temperature"} :
                  /\ \E j \in i + 1 .. Len(log) : Writes(j, field) /\ SameCall(i, j)
                  /\ \A j \in i + 1 .. Len(log) :
                        (Writes(j, field) /\ IsHold(j)) => SameCall(i, j)

\* A number is read back as itself, or as its truth for a bool.
ReadsAs(typ, num, read) ==
    IF typ = "bool" THEN read.is = "bool" /\ (read.num = 0 <=> num = 0)
    ELSE read.is # "None" /\ read.num = num

\* A whole number that is less than one off towards zero.
IsCutOff(num, whole) ==
    /\ IsWhole(whole)
    /\ (0 <= whole /\ whole <= num) \/ (num <= whole /\ whole <= 0)

\* An int or a float that was accepted for a variable of a numeric type can be read
\* back and is the number it was: rendering for integer types neither rounds nor
\* leaves a form that decode_value turns into None (generic.py:48-51).  Any other
\* number is cut off where a whole one is wanted, which nothing refuses
\* (generic.py:57, 60).
NumbersReadBack ==
    \A i \in DOMAIN log :
        LET setter == SetterOf(i)
            typ == TypeOf[setter.field]
            read == DecodeValue(typ, setter.raw)
        IN  typ \in {"bool", "integer", "float"} =>
                /\ setter.given.is \in {"int", "bool", "float", "special"}
                      => ReadsAs(typ, setter.given.num, read)
                /\ (setter.given.is \in {"decimal", "fraction"} /\ typ \in IntegerTypes)
                      => \E whole \in setter.given.num - 1 .. setter.given.num + 1 :
                            IsCutOff(setter.given.num, whole) /\ ReadsAs(typ, whole, read)

\* "a value the controller would not accept as InvalidValueError" (README.md:157-158):
\* what is not a str is only sent if it can be read back.
UnreadableIsRefused ==
    \A i \in DOMAIN log :
        SetterOf(i).given.is # "str" => DecodeValue(TypeOf[SetterOf(i).field], SetterOf(i).raw) # None
=============================================================================
