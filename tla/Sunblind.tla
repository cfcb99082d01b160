------------------------------ MODULE Sunblind ------------------------------
(***************************************************************************)
(* unit/sunblind.py: callers that move one blind to a position or turn its *)
(* slats to a rotation.  The controller has no command for either, so the  *)
(* blind is stopped, its state is read, and it is set going for a measured *)
(* time: three calls of api_call in a row, and between any two the blind   *)
(* moves, another caller steps in, or the connection fails.                *)
(*                                                                         *)
(* Each of the three is one request; what may become of it is what         *)
(* ApiContract says of a call: done, failed, or failed and done later.     *)
(* Values out of range are refused before anything is sent and left out.   *)
(***************************************************************************)
EXTENDS Integers, SequencesExt

CONSTANTS
    Callers,
    Nobody,
    Goals,          \* what may be asked for: [kind, value]
    Extended,       \* SUNBLIND_EXTENDED: the position of a closed blind
    TiltClosed,     \* SUNBLIND_TILT_CLOSED: the rotation of closed slats
    MoveTime,       \* move_time * MOVE_TIME_UNITS: the whole travel, in ticks
    FullTilt,       \* full_time_time: the whole tilt, in ticks
    TiltOffset,     \* TILT_TIME_OFFSET, in ticks
    MaxAdrift       \* bound: requests given up that are still to be carried out

ASSUME BlindAssumption ==
    /\ {Extended, TiltClosed, MoveTime, FullTilt, TiltOffset} \subseteq Nat \ {0}
    /\ MaxAdrift \in Nat
    /\ Nobody \notin Callers
    /\ Goals # {}
    /\ Goals \subseteq [kind : {"position"}, value : 0 .. Extended]
                  \cup [kind : {"rotation"}, value : 0 .. TiltClosed]

\* A variable that is off, or the installation lacks.
Unknown == -1

VARIABLES
    blind,      \* how far down, how far tilted, and what its motor does
    calls,      \* caller -> its call: where it stands, its goal, what it read
    adrift,     \* requests given up that may still be carried out
    master      \* history: whose commands are all that came since its first one

vars == <<blind, calls, adrift, master>>

-----------------------------------------------------------------------------
(***************************************************************************)
(* The blind                                                               *)
(***************************************************************************)
\* UP and DOWN run to the end; a step runs for step_time, of which the motor may
\* take some to get going.
Commanded(b, command, step_time, wait) ==
    CASE command = "STOP" -> [b EXCEPT !.way = "still", !.wait = 0, !.left = 0]
      [] command = "UP" -> [b EXCEPT !.way = "up", !.wait = 0, !.left = MoveTime + FullTilt]
      [] command = "DOWN" -> [b EXCEPT !.way = "down", !.wait = 0, !.left = MoveTime + FullTilt]
      [] command = "STEP_UP" -> [b EXCEPT !.way = "up", !.wait = wait, !.left = step_time]
      [] command = "STEP_DOWN" -> [b EXCEPT !.way = "down", !.wait = wait, !.left = step_time]

\* The slats turn before the blind travels.
Moved(b) ==
    IF b.wait > 0 THEN [b EXCEPT !.wait = @ - 1]
    ELSE CASE b.way = "down" /\ b.slats < FullTilt -> [b EXCEPT !.slats = @ + 1]
           [] b.way = "down" /\ b.slats = FullTilt /\ b.travel < MoveTime -> [b EXCEPT !.travel = @ + 1]
           [] b.way = "up" /\ b.slats > 0 -> [b EXCEPT !.slats = @ - 1]
           [] b.way = "up" /\ b.slats = 0 /\ b.travel > 0 -> [b EXCEPT !.travel = @ - 1]
           [] OTHER -> b

\* A tick of a motor that runs.
Tick ==
    /\ blind.way # "still"
    /\ blind' = IF blind.left > 1 THEN [Moved(blind) EXCEPT !.left = @ - 1]
                                  ELSE Commanded(Moved(blind), "STOP", 0, 0)
    /\ UNCHANGED <<calls, adrift, master>>

\* What a reader gets.
Readings ==
    [position : {(blind.travel * Extended) \div MoveTime, Unknown},
     rotation : {(blind.slats * TiltClosed) \div FullTilt, Unknown}]

NoReading == [position |-> Unknown, rotation |-> Unknown]

\* The setters of one request are carried out in order, with nothing between.
Carried(b, setters, step_time, wait) ==
    LET Carry(s, setter) ==
            IF setter.variable = "step_time"
            THEN [s EXCEPT !.step_time = setter.value]
            ELSE [s EXCEPT !.blind = Commanded(@, setter.value, s.step_time, wait)]
        after[n \in 0 .. Len(setters)] ==
            IF n = 0 THEN [blind |-> b, step_time |-> step_time]
                     ELSE Carry(after[n - 1], setters[n])
    IN  after[Len(setters)].blind

\* What step_time was before is anything: set_step_time is public.
Execute(setters) ==
    \E wait \in 0 .. TiltOffset, stale \in {0, MoveTime} :
        blind' = Carried(blind, setters, stale, wait)

-----------------------------------------------------------------------------
(***************************************************************************)
(* set_rotation and set_position, as what they compute                     *)
(***************************************************************************)
\* int(n / d), which cuts off towards zero; the float's last digit is left out.
Truncated(n, d) == IF n >= 0 THEN n \div d ELSE -((-n) \div d)

Abs(n) == IF n >= 0 THEN n ELSE -n

Command(name) == [variable |-> "command", value |-> name]

\* Mutated form of StepTime: the time keeps its sign.
StepTimeSigned(n) == n + TiltOffset

StepTime(n) == Abs(n) + TiltOffset

\* Mutated form of StepFor: the command goes before the time it is to run for.
StepForSwapped(step_time, diff) ==
    <<Command(IF diff > 0 THEN "STEP_DOWN" ELSE "STEP_UP"),
      [variable |-> "step_time", value |-> step_time]>>

\* _step
StepFor(step_time, diff) ==
    <<[variable |-> "step_time", value |-> step_time],
      Command(IF diff > 0 THEN "STEP_DOWN" ELSE "STEP_UP")>>

RotationStep(rotation, read) ==
    LET diff == rotation - read.rotation
    IN  StepFor(StepTime(Truncated(diff * FullTilt, TiltClosed)), diff)

\* Mutated form of TiltTime: the slats are forgotten.
TiltTimeNone(diff, read) == 0

\* Mutated form of TiltTime: slats that are not known are taken to be turned all
\* the other way.
TiltTimeAssumed(diff, read) ==
    LET tilt_target == IF diff > 0 THEN TiltClosed ELSE 0
        rotation == IF read.rotation = Unknown THEN TiltClosed - tilt_target
                                               ELSE read.rotation
    IN  Truncated((tilt_target - rotation) * FullTilt, TiltClosed)

TiltTime(diff, read) ==
    LET tilt_target == IF diff > 0 THEN TiltClosed ELSE 0
    IN  IF read.rotation = Unknown THEN 0
        ELSE Truncated((tilt_target - read.rotation) * FullTilt, TiltClosed)

PositionStep(position, read) ==
    LET diff == position - read.position
        move_time == Truncated(diff * MoveTime, Extended)
    IN  StepFor(StepTime(move_time + TiltTime(diff, read)), diff)

\* The endpoints have commands of their own.
Endpoint(g) == g.kind = "position" /\ g.value \in {0, Extended}

First(g) ==
    CASE ~Endpoint(g) -> <<Command("STOP")>>
      [] Endpoint(g) /\ g.value = 0 -> <<Command("UP")>>
      [] OTHER -> <<Command("DOWN")>>

\* The setters a call has out.
Setters(call) ==
    IF call.at \in {"stopping", "ending"} THEN First(call.goal)
    ELSE IF call.goal.kind = "position" THEN PositionStep(call.goal.value, call.current)
    ELSE RotationStep(call.goal.value, call.current)

\* What a call read of what it is to change.
Standing(call) ==
    IF call.goal.kind = "position" THEN call.current.position ELSE call.current.rotation

-----------------------------------------------------------------------------
(***************************************************************************)
(* The calls                                                               *)
(***************************************************************************)
Commanding == {"stopping", "ending", "stepping"}
Calling == Commanding \cup {"reading", "read", "done"}

\* No call, or one that failed: nothing of it is looked at again.
Idle == [at |-> "idle", goal |-> CHOOSE g \in Goals : TRUE, current |-> NoReading]

\* set_rotation or set_position is called: its first request goes out.
Begin(c, g) ==
    /\ calls[c].at \notin Calling
    /\ calls' = [calls EXCEPT ![c] =
           [Idle EXCEPT !.at = IF Endpoint(g) THEN "ending" ELSE "stopping", !.goal = g]]
    /\ master' = IF master = c THEN Nobody ELSE master
    /\ UNCHANGED <<blind, adrift>>

\* The controller carries out a command whose caller waits for it; after STOP the
\* caller asks for the state.
ServeCommand(c) ==
    /\ calls[c].at \in Commanding
    /\ Execute(Setters(calls[c]))
    /\ calls' = [calls EXCEPT ![c].at = IF @ = "stopping" THEN "reading" ELSE "done"]
    /\ master' = IF calls[c].at = "stepping" /\ master # c THEN Nobody ELSE c
    /\ UNCHANGED adrift

\* It answers update(), one request since a blind is one structure.
ServeRead(c) ==
    /\ calls[c].at = "reading"
    /\ \E reading \in Readings :
           calls' = [calls EXCEPT ![c].at = "read", ![c].current = reading]
    /\ UNCHANGED <<blind, adrift, master>>

\* The state was read: nothing to do, or nothing known to do it by.
Leave(c) ==
    /\ calls[c].at = "read"
    /\ Standing(calls[c]) \in {Unknown, calls[c].goal.value}
    /\ calls' = [calls EXCEPT ![c].at = "returned"]
    /\ UNCHANGED <<blind, adrift, master>>

\* _step goes out.
Step(c) ==
    /\ calls[c].at = "read"
    /\ Standing(calls[c]) \notin {Unknown, calls[c].goal.value}
    /\ calls' = [calls EXCEPT ![c].at = "stepping"]
    /\ UNCHANGED <<blind, adrift, master>>

\* The last command is answered.
Return(c) ==
    /\ calls[c].at = "done"
    /\ calls' = [calls EXCEPT ![c].at = "returned"]
    /\ UNCHANGED <<blind, adrift, master>>

\* An error out of any of the three, a missing variable's included: the caller is
\* told, and a command that was not carried out may be yet.
Fail(c) ==
    /\ calls[c].at \in Calling
    /\ calls' = [calls EXCEPT ![c] = Idle]
    /\ \/ UNCHANGED adrift
       \/ /\ calls[c].at \in Commanding
          /\ Cardinality(adrift) < MaxAdrift
          /\ adrift' = adrift \cup {Setters(calls[c])}
    /\ UNCHANGED <<blind, master>>

\* A request that was given up is carried out after all.
Straggle(setters) ==
    /\ Execute(setters)
    /\ adrift' = adrift \ {setters}
    /\ master' = Nobody
    /\ UNCHANGED calls

Init ==
    /\ blind \in [travel : 0 .. MoveTime, slats : 0 .. FullTilt, way : {"still"},
                  wait : {0}, left : {0}]
    /\ calls = [c \in Callers |-> Idle]
    /\ adrift = {}
    /\ master = Nobody

Proceed(c) ==
    \/ \E g \in Goals : Begin(c, g)
    \/ ServeCommand(c) \/ ServeRead(c)
    \/ Leave(c) \/ Step(c) \/ Return(c) \/ Fail(c)

Next ==
    \/ Tick
    \/ \E c \in Callers : Proceed(c)
    \/ \E setters \in adrift : Straggle(setters)

Spec == Init /\ [][Next]_vars

-----------------------------------------------------------------------------
(***************************************************************************)
(* Properties                                                              *)
(***************************************************************************)
\* The blind's parts stay on their ways, and the calls keep their shape.
TypeOK ==
    /\ blind.travel \in 0 .. MoveTime /\ blind.slats \in 0 .. FullTilt
    /\ blind.way \in {"still", "up", "down"}
    /\ blind.wait \in 0 .. TiltOffset
    /\ blind.left \in Nat
    /\ (blind.way = "still") <=> (blind.left = 0)
    /\ \A c \in Callers :
           /\ calls[c].at \in Calling \cup {"idle", "returned"}
           /\ calls[c].goal \in Goals
           /\ calls[c].current.position \in (0 .. Extended) \cup {Unknown}
           /\ calls[c].current.rotation \in (0 .. TiltClosed) \cup {Unknown}
    /\ Cardinality(adrift) <= MaxAdrift
    /\ master \in Callers \cup {Nobody}

\* How far a travel is from a position, and slats are from a rotation.
OffPosition(travel, position) == Abs(travel * Extended - position * MoveTime)
OffRotation(slats, rotation) == Abs(slats * TiltClosed - rotation * FullTilt)

\* The most that a division by d leaves out of a multiple of n.
Loss(n, d) == Max({(i * n) % d : i \in 0 .. d})

\* What the start of the motor may cost, and what the readings and the durations
\* are rounded by: of the slats, and of the travel, for which they turn too.
TiltLoss == Loss(TiltClosed, FullTilt) + Loss(FullTilt, TiltClosed)
RotationSlack == TiltOffset * TiltClosed + TiltLoss
PositionSlack ==
    (TiltOffset + TiltLoss \div TiltClosed) * Extended
        + Loss(Extended, MoveTime) + Loss(MoveTime, Extended)

\* A call that came back and whose motion is over, with no command of another
\* since its first.
Settled(c) == calls[c].at = "returned" /\ master = c /\ blind.way = "still"

\* set_position: the blind comes to rest where it was asked to, but for the time
\* the motor takes to get going and for rounding, and wherever it was, whatever
\* it was doing and however its slats stood when the call began, as long as they
\* were read.
PositionMet(call, travel) ==
    (/\ call.goal.kind = "position"
     /\ Endpoint(call.goal) \/ Unknown \notin {call.current.position, call.current.rotation})
        => OffPosition(travel, call.goal.value) <= PositionSlack

ArrivesAtPosition ==
    \A c \in Callers : Settled(c) => PositionMet(calls[c], blind.travel)

\* set_rotation: the slats come to rest as asked, and the blind stays at the
\* position it was stopped at.
RotationMet(call, travel, slats) ==
    (/\ call.goal.kind = "rotation"
     /\ Unknown \notin {call.current.position, call.current.rotation})
        => /\ OffRotation(slats, call.goal.value) <= RotationSlack
           /\ OffPosition(travel, call.current.position) <= PositionSlack

ArrivesAtRotation ==
    \A c \in Callers : Settled(c) => RotationMet(calls[c], blind.travel, blind.slats)

\* set_position with the slats unknown: the blind may stop short of its goal, by
\* a tilt at most, and never runs beyond it.
NotBeyond(call, travel) ==
    LET ahead == (travel * Extended - call.goal.value * MoveTime)
                     * (IF call.goal.value > call.current.position THEN 1 ELSE -1)
    IN  (/\ call.goal.kind = "position" /\ ~Endpoint(call.goal)
         /\ call.current.position # Unknown /\ call.current.rotation = Unknown)
            => /\ ahead <= PositionSlack
               /\ ahead >= -(FullTilt * Extended + PositionSlack)

NeverOvershoots ==
    \A c \in Callers : Settled(c) => NotBeyond(calls[c], blind.travel)
=============================================================================
