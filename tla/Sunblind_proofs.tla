--------------------------- MODULE Sunblind_proofs ---------------------------
(***************************************************************************)
(* A blind that nobody else commands comes to rest where it was asked to,  *)
(* for any times, scales, goals and callers.  What the proof follows is    *)
(* not where the blind is but where it will end (EndTravel, EndSlats): no  *)
(* tick of its motor changes that, and a step is chosen for it.            *)
(***************************************************************************)
EXTENDS Sunblind, Packing_proofs

Ways == {"still", "up", "down"}
Blinds == [travel : 0 .. MoveTime, slats : 0 .. FullTilt, way : Ways,
           wait : 0 .. TiltOffset, left : Nat]
Current == [position : (0 .. Extended) \cup {Unknown},
            rotation : (0 .. TiltClosed) \cup {Unknown}]
Call == [at : Calling \cup {"idle", "returned"}, goal : Goals, current : Current]

\* What a request may hold: a command without a time of its own, or a step.
Requests ==
    {<<Command(name)>> : name \in {"STOP", "UP", "DOWN"}}
        \cup {StepFor(time, diff) : time \in Nat \ {0}, diff \in Int}

-----------------------------------------------------------------------------
(***************************************************************************)
(* Where a blind will end                                                  *)
(***************************************************************************)
\* The ticks for which it still moves.
Moves(b) == IF b.wait < b.left THEN b.left - b.wait ELSE 0

\* Where n ticks down or up take it.
DownSlats(slats, n) == IF slats + n < FullTilt THEN slats + n ELSE FullTilt
DownTravel(travel, slats, n) ==
    IF slats + n < FullTilt THEN travel
    ELSE IF travel + (slats + n - FullTilt) < MoveTime THEN travel + (slats + n - FullTilt)
    ELSE MoveTime

UpSlats(slats, n) == IF n < slats THEN slats - n ELSE 0
UpTravel(travel, slats, n) ==
    IF n < slats THEN travel
    ELSE IF n - slats < travel THEN travel - (n - slats)
    ELSE 0

EndSlats(b) ==
    IF b.way = "down" THEN DownSlats(b.slats, Moves(b))
    ELSE IF b.way = "up" THEN UpSlats(b.slats, Moves(b))
    ELSE b.slats

EndTravel(b) ==
    IF b.way = "down" THEN DownTravel(b.travel, b.slats, Moves(b))
    ELSE IF b.way = "up" THEN UpTravel(b.travel, b.slats, Moves(b))
    ELSE b.travel

-----------------------------------------------------------------------------
(***************************************************************************)
(* The inductive invariant                                                 *)
(***************************************************************************)
Typed ==
    /\ blind \in Blinds
    /\ (blind.way = "still") <=> (blind.left = 0)
    /\ calls \in [Callers -> Call]
    /\ adrift \subseteq Requests /\ IsFiniteSet(adrift) /\ Cardinality(adrift) <= MaxAdrift
    /\ master \in Callers \cup {Nobody}

\* Endpoints take one command, all else is stopped, read and stepped.
InTurn(call) ==
    /\ call.at = "ending" => Endpoint(call.goal)
    /\ call.at \in {"stopping", "reading", "read", "stepping"} => ~Endpoint(call.goal)

\* What was read is where the blind is.
ReadOf(call, b) ==
    /\ call.current.position \in {(b.travel * Extended) \div MoveTime, Unknown}
    /\ call.current.rotation \in {(b.slats * TiltClosed) \div FullTilt, Unknown}

\* What the properties ask of the places the blind will come to rest at.
Met(call, travel, slats) ==
    PositionMet(call, travel) /\ RotationMet(call, travel, slats) /\ NotBeyond(call, travel)

\* The call of whose commands alone the blind knows.
Mastered(call) ==
    /\ call.at \notin {"stopping", "ending"}
    \* Stopped, it stays where it is,
    /\ call.at \in {"reading", "read", "stepping"} => blind.way = "still"
    \* so that what was read still holds when the step goes out,
    /\ call.at \in {"read", "stepping"} => ReadOf(call, blind)
    /\ call.at = "stepping" => Standing(call) \notin {Unknown, call.goal.value}
    \* and from the last command on it is on its way to the goal.
    /\ call.at \in {"done", "returned"} => Met(call, EndTravel(blind), EndSlats(blind))

BlindInv ==
    /\ Typed
    /\ \A c \in Callers : InTurn(calls[c])
    /\ \A c \in Callers : master = c => Mastered(calls[c])

-----------------------------------------------------------------------------
(***************************************************************************)
(* Rounding                                                                *)
(***************************************************************************)
\* There is a most that a division leaves out.
LEMMA LossIs ==
    ASSUME NEW n \in Nat, NEW d \in Nat \ {0}
    PROVE  /\ Loss(n, d) \in Nat
           /\ \A i \in 0 .. d : (i * n) % d \in 0 .. Loss(n, d)
<1> DEFINE Over == {(i * n) % d : i \in 0 .. d}
           Lacks == {x \in Nat : d - x \in Over}
<1>1. \A i \in 0 .. d : i * n \in Nat /\ (i * n) % d \in 0 .. d - 1
  OBVIOUS
<1>2. Over \subseteq 0 .. d - 1
  BY <1>1
<1>3. (0 * n) % d \in Over
  <2>1. 0 \in 0 .. d
    OBVIOUS
  <2> QED
    BY <2>1
<1> HIDE DEF Over
<1>4. \E x \in Over : \A y \in Over : x >= y
  <2>1. PICK o \in 0 .. d - 1 : o \in Over
    BY <1>2, <1>3
  <2>2. d - o \in Nat /\ d - (d - o) = o
    BY <2>1
  <2>3. Lacks \in SUBSET Nat /\ Lacks # {}
    BY <2>1, <2>2
  <2>4. PICK least \in Lacks : \A x \in Lacks : least <= x
    <3> HIDE DEF Lacks
    <3> QED
      BY <2>3, LeastNatural
  <2>5. ASSUME NEW y \in Over
        PROVE  d - least >= y
    <3>1. y \in 0 .. d - 1 /\ d - y \in Nat /\ d - (d - y) = y
      BY <1>2
    <3>2. d - y \in Lacks
      BY <3>1
    <3> QED
      BY <2>4, <3>1, <3>2
  <2> QED
    BY <2>4, <2>5
<1>5. Loss(n, d) \in Over /\ \A y \in Over : Loss(n, d) >= y
  BY <1>4 DEF Loss, Max, Over
<1>6. \A i \in 0 .. d : (i * n) % d \in Over
  BY DEF Over
<1>7. Loss(n, d) \in Nat
  <2>1. Loss(n, d) \in 0 .. d - 1
    BY <1>2, <1>5
  <2> QED
    BY <2>1
<1>8. ASSUME NEW i \in 0 .. d
      PROVE  (i * n) % d \in 0 .. Loss(n, d)
  <2>1. (i * n) % d \in 0 .. d - 1 /\ Loss(n, d) >= (i * n) % d
    BY <1>1, <1>5, <1>6
  <2> DEFINE x == (i * n) % d
  <2> HIDE DEF x
  <2> QED
    BY <1>7, <2>1 DEF x
<1> QED
  BY <1>7, <1>8

\* What a reading and a duration are: a quotient, with no more left out than Loss.
LEMMA Rounded ==
    ASSUME NEW n \in Nat, NEW d \in Nat \ {0}, NEW i \in 0 .. d
    PROVE  \E q \in Nat, r \in 0 .. Loss(n, d) :
              /\ i * n \in Nat /\ i * n = q * d + r
              /\ (i * n) \div d = q
              /\ Truncated(i * n, d) = q /\ Truncated(-(i * n), d) = -q
<1> DEFINE x == i * n
           q == x \div d
           r == x % d
<1>1. x \in Nat
  OBVIOUS
<1>2. r \in 0 .. Loss(n, d) /\ Loss(n, d) \in Nat
  BY LossIs
<1> HIDE DEF x
<1>3. q \in Nat /\ x = q * d + r
  BY <1>1
<1>4. Truncated(x, d) = q
  BY <1>1 DEF Truncated
<1>5. Truncated(-x, d) = -q
  <2>1. CASE x <= 0
    <3>1. 0 \in 0 .. d - 1 /\ 0 = 0 * d + 0
      OBVIOUS
    <3>2. 0 \div d = 0
      BY <3>1, Division
    <3>3. x = 0
      BY <1>1, <2>1
    <3>4. q = 0
      BY <3>2, <3>3
    <3>5. PICK m \in Int, l \in Int : m = -x /\ l = -q
      BY <1>1, <1>3
    <3> HIDE DEF q, r
    <3>6. l = 0 /\ m = x
      <4>1. q <= 0 /\ q >= 0 /\ q \in Int
        BY <3>4
      <4> QED
        BY <1>1, <2>1, <3>5, <4>1
    <3> QED
      BY <1>4, <3>4, <3>5, <3>6
  <2>2. CASE x > 0
    <3>1. ~(-x >= 0) /\ -(-x) = x
      BY <1>1, <2>2
    <3> QED
      BY <3>1 DEF Truncated
  <2> QED
    BY <1>1, <2>1, <2>2
<1> HIDE DEF q, r
<1> QED
  BY <1>1, <1>2, <1>3, <1>4, <1>5 DEF q, x

LEMMA Lengths ==
    /\ Extended \in Nat \ {0} /\ TiltClosed \in Nat \ {0}
    /\ MoveTime \in Nat \ {0} /\ FullTilt \in Nat \ {0} /\ TiltOffset \in Nat \ {0}
BY BlindAssumption

-----------------------------------------------------------------------------
(***************************************************************************)
(* A tick of the motor does not change where the blind will end            *)
(***************************************************************************)
LEMMA EndsType ==
    ASSUME NEW travel \in 0 .. MoveTime, NEW slats \in 0 .. FullTilt, NEW n \in Nat
    PROVE  /\ DownSlats(slats, n) \in 0 .. FullTilt /\ UpSlats(slats, n) \in 0 .. FullTilt
           /\ DownTravel(travel, slats, n) \in 0 .. MoveTime
           /\ UpTravel(travel, slats, n) \in 0 .. MoveTime
<1>1. MoveTime \in Nat /\ FullTilt \in Nat
  BY Lengths
<1> QED
  BY <1>1 DEF DownSlats, UpSlats, DownTravel, UpTravel

\* One tick and n more are n + 1.
LEMMA OneTickMore ==
    ASSUME NEW travel \in 0 .. MoveTime, NEW slats \in 0 .. FullTilt, NEW n \in Nat
    PROVE  /\ DownSlats(DownSlats(slats, 1), n) = DownSlats(slats, n + 1)
           /\ DownTravel(DownTravel(travel, slats, 1), DownSlats(slats, 1), n)
                 = DownTravel(travel, slats, n + 1)
           /\ UpSlats(UpSlats(slats, 1), n) = UpSlats(slats, n + 1)
           /\ UpTravel(UpTravel(travel, slats, 1), UpSlats(slats, 1), n)
                 = UpTravel(travel, slats, n + 1)
           /\ DownSlats(slats, 0) = slats /\ DownTravel(travel, slats, 0) = travel
           /\ UpSlats(slats, 0) = slats /\ UpTravel(travel, slats, 0) = travel
<1>1. MoveTime \in Nat /\ FullTilt \in Nat
  BY Lengths
<1>2. /\ DownSlats(DownSlats(slats, 1), n) = DownSlats(slats, n + 1)
      /\ UpSlats(UpSlats(slats, 1), n) = UpSlats(slats, n + 1)
  BY <1>1 DEF DownSlats, UpSlats
<1>3. DownTravel(DownTravel(travel, slats, 1), DownSlats(slats, 1), n)
         = DownTravel(travel, slats, n + 1)
  BY <1>1 DEF DownSlats, DownTravel
<1>4. UpTravel(UpTravel(travel, slats, 1), UpSlats(slats, 1), n)
         = UpTravel(travel, slats, n + 1)
  BY <1>1 DEF UpSlats, UpTravel
<1> QED
  BY <1>1, <1>2, <1>3, <1>4 DEF DownSlats, UpSlats, DownTravel, UpTravel

LEMMA MovedIs ==
    ASSUME NEW b \in Blinds, b.way # "still"
    PROVE  /\ Moved(b) \in Blinds /\ Moved(b).way = b.way /\ Moved(b).left = b.left
           /\ b.wait > 0 =>
                 /\ Moved(b).wait = b.wait - 1
                 /\ Moved(b).travel = b.travel /\ Moved(b).slats = b.slats
           /\ b.wait = 0 =>
                 /\ Moved(b).wait = 0
                 /\ b.way = "down" => /\ Moved(b).travel = DownTravel(b.travel, b.slats, 1)
                                      /\ Moved(b).slats = DownSlats(b.slats, 1)
                 /\ b.way = "up" => /\ Moved(b).travel = UpTravel(b.travel, b.slats, 1)
                                    /\ Moved(b).slats = UpSlats(b.slats, 1)
<1>1. MoveTime \in Nat /\ FullTilt \in Nat /\ TiltOffset \in Nat
  BY Lengths
<1>2. /\ b.travel \in 0 .. MoveTime /\ b.slats \in 0 .. FullTilt /\ b.way \in Ways
      /\ b.wait \in 0 .. TiltOffset /\ b.left \in Nat
  BY DEF Blinds
<1>3. CASE b.wait > 0
  <2>1. Moved(b) = [b EXCEPT !.wait = @ - 1]
    BY <1>3 DEF Moved
  <2> QED
    BY <1>1, <1>2, <1>3, <2>1 DEF Blinds
<1>4. CASE b.wait = 0 /\ b.way = "down"
  <2>1. Moved(b) = IF b.slats < FullTilt THEN [b EXCEPT !.slats = @ + 1]
                   ELSE IF b.travel < MoveTime THEN [b EXCEPT !.travel = @ + 1]
                   ELSE b
    BY <1>1, <1>2, <1>4 DEF Moved
  <2>2. /\ DownSlats(b.slats, 1) = IF b.slats < FullTilt THEN b.slats + 1 ELSE b.slats
        /\ DownTravel(b.travel, b.slats, 1) = IF b.slats < FullTilt THEN b.travel
                                              ELSE IF b.travel < MoveTime THEN b.travel + 1 ELSE b.travel
    BY <1>1, <1>2 DEF DownTravel, DownSlats
  <2>3. /\ Moved(b).slats = DownSlats(b.slats, 1)
        /\ Moved(b).travel = DownTravel(b.travel, b.slats, 1)
        /\ Moved(b).way = b.way /\ Moved(b).wait = b.wait /\ Moved(b).left = b.left
        /\ Moved(b) = [travel |-> Moved(b).travel, slats |-> Moved(b).slats, way |-> b.way,
                       wait |-> b.wait, left |-> b.left]
    BY <2>1, <2>2 DEF Blinds
  <2>4. Moved(b).slats \in 0 .. FullTilt /\ Moved(b).travel \in 0 .. MoveTime
    BY <1>1, <1>2, <2>3, EndsType
  <2>5. Moved(b) \in Blinds
    BY <1>2, <2>3, <2>4 DEF Blinds
  <2> QED
    BY <1>4, <2>3, <2>5
<1>5. CASE b.wait = 0 /\ b.way = "up"
  <2>1. Moved(b) = IF b.slats > 0 THEN [b EXCEPT !.slats = @ - 1]
                   ELSE IF b.travel > 0 THEN [b EXCEPT !.travel = @ - 1]
                   ELSE b
    BY <1>1, <1>2, <1>5 DEF Moved
  <2>2. /\ UpSlats(b.slats, 1) = IF b.slats > 0 THEN b.slats - 1 ELSE b.slats
        /\ UpTravel(b.travel, b.slats, 1) = IF b.slats > 0 THEN b.travel
                                              ELSE IF b.travel > 0 THEN b.travel - 1 ELSE b.travel
    BY <1>1, <1>2 DEF UpTravel, UpSlats
  <2>3. /\ Moved(b).slats = UpSlats(b.slats, 1)
        /\ Moved(b).travel = UpTravel(b.travel, b.slats, 1)
        /\ Moved(b).way = b.way /\ Moved(b).wait = b.wait /\ Moved(b).left = b.left
        /\ Moved(b) = [travel |-> Moved(b).travel, slats |-> Moved(b).slats, way |-> b.way,
                       wait |-> b.wait, left |-> b.left]
    BY <2>1, <2>2 DEF Blinds
  <2>4. Moved(b).slats \in 0 .. FullTilt /\ Moved(b).travel \in 0 .. MoveTime
    BY <1>1, <1>2, <2>3, EndsType
  <2>5. Moved(b) \in Blinds
    BY <1>2, <2>3, <2>4 DEF Blinds
  <2> QED
    BY <1>5, <2>3, <2>5
<1> QED
  BY <1>1, <1>2, <1>3, <1>4, <1>5 DEF Ways

LEMMA StopIs ==
    ASSUME NEW b \in Blinds, NEW time, NEW wait
    PROVE  /\ Commanded(b, "STOP", time, wait) \in Blinds
           /\ Commanded(b, "STOP", time, wait).way = "still"
           /\ Commanded(b, "STOP", time, wait).left = 0
           /\ Commanded(b, "STOP", time, wait).travel = b.travel
           /\ Commanded(b, "STOP", time, wait).slats = b.slats
<1>1. 0 \in 0 .. TiltOffset
  BY Lengths
<1>2. Commanded(b, "STOP", time, wait) = [b EXCEPT !.way = "still", !.wait = 0, !.left = 0]
  BY DEF Commanded
<1>3. 0 \in Nat /\ "still" \in Ways
  BY DEF Ways
<1> QED
  BY <1>1, <1>2, <1>3 DEF Blinds

\* The ticks that a moving blind has left, before and after one of them.
LEMMA TickEnds ==
    ASSUME blind \in Blinds, (blind.way = "still") <=> (blind.left = 0), Tick
    PROVE  /\ blind' \in Blinds /\ ((blind'.way = "still") <=> (blind'.left = 0))
           /\ EndTravel(blind') = EndTravel(blind) /\ EndSlats(blind') = EndSlats(blind)
<1> DEFINE b == blind
           moved == Moved(blind)
<1>1. /\ b.travel \in 0 .. MoveTime /\ b.slats \in 0 .. FullTilt /\ b.way \in {"up", "down"}
      /\ b.wait \in 0 .. TiltOffset /\ b.left \in Nat /\ b.left # 0 /\ TiltOffset \in Nat
  BY Lengths DEF Blinds, Ways, Tick
<1>2. /\ moved \in Blinds /\ moved.way = b.way /\ moved.left = b.left
      /\ b.wait > 0 => moved.wait = b.wait - 1 /\ moved.travel = b.travel /\ moved.slats = b.slats
      /\ b.wait = 0 =>
            /\ moved.wait = 0
            /\ b.way = "down" => /\ moved.travel = DownTravel(b.travel, b.slats, 1)
                                 /\ moved.slats = DownSlats(b.slats, 1)
            /\ b.way = "up" => /\ moved.travel = UpTravel(b.travel, b.slats, 1)
                               /\ moved.slats = UpSlats(b.slats, 1)
  <2>1. blind.way # "still"
    BY DEF Tick
  <2> QED
    BY <2>1, MovedIs
<1>3. /\ b.wait > 0 => Moves(b) = (IF b.left > 1 THEN IF b.wait - 1 < b.left - 1
                                   THEN (b.left - 1) - (b.wait - 1) ELSE 0 ELSE 0)
      /\ b.wait = 0 => Moves(b) = b.left
  BY <1>1 DEF Moves
<1> HIDE DEF moved
<1>4. CASE b.left > 1
  <2>1. blind' = [moved EXCEPT !.left = @ - 1]
    BY <1>4 DEF Tick, moved
  <2>2. /\ blind'.travel = moved.travel /\ blind'.slats = moved.slats /\ blind'.way = b.way
        /\ blind'.wait = moved.wait /\ blind'.left = b.left - 1
    BY <1>2, <2>1 DEF Blinds
  <2>3. blind' \in Blinds /\ b.left - 1 \in Nat /\ b.left - 1 # 0
    BY <1>1, <1>2, <1>4, <2>1 DEF Blinds
  <2>4. /\ b.wait > 0 => Moves(blind') = Moves(b)
        /\ b.wait = 0 => Moves(blind') \in Nat /\ Moves(b) = Moves(blind') + 1
    BY <1>1, <1>2, <1>3, <1>4, <2>2 DEF Moves
  <2>5. CASE b.wait > 0
    BY <1>1, <1>2, <2>2, <2>3, <2>4, <2>5 DEF EndTravel, EndSlats
  <2>6. CASE b.wait = 0
    <3>1. PICK n \in Nat : n = Moves(blind') /\ Moves(b) = n + 1
      BY <2>4, <2>6
    <3>2. CASE b.way = "down"
      <4>1. /\ EndSlats(blind') = DownSlats(DownSlats(b.slats, 1), n)
            /\ EndTravel(blind') = DownTravel(DownTravel(b.travel, b.slats, 1), DownSlats(b.slats, 1), n)
            /\ EndSlats(b) = DownSlats(b.slats, n + 1)
            /\ EndTravel(b) = DownTravel(b.travel, b.slats, n + 1)
        BY <1>2, <2>2, <2>6, <3>1, <3>2 DEF EndTravel, EndSlats
      <4> QED
        BY <1>1, <2>2, <2>3, <4>1, OneTickMore
    <3>3. CASE b.way = "up"
      <4>1. /\ EndSlats(blind') = UpSlats(UpSlats(b.slats, 1), n)
            /\ EndTravel(blind') = UpTravel(UpTravel(b.travel, b.slats, 1), UpSlats(b.slats, 1), n)
            /\ EndSlats(b) = UpSlats(b.slats, n + 1)
            /\ EndTravel(b) = UpTravel(b.travel, b.slats, n + 1)
        BY <1>2, <2>2, <2>6, <3>1, <3>3 DEF EndTravel, EndSlats
      <4> QED
        BY <1>1, <2>2, <2>3, <4>1, OneTickMore
    <3> QED
      BY <1>1, <3>2, <3>3
  <2> QED
    BY <1>1, <2>5, <2>6
<1>5. CASE b.left = 1
  <2>1. blind' = Commanded(moved, "STOP", 0, 0)
    BY <1>5 DEF Tick, moved
  <2>2. /\ blind' \in Blinds /\ blind'.way = "still" /\ blind'.left = 0
        /\ blind'.travel = moved.travel /\ blind'.slats = moved.slats
    BY <1>2, <2>1, StopIs
  <2>3. EndTravel(blind') = moved.travel /\ EndSlats(blind') = moved.slats
    BY <2>2 DEF EndTravel, EndSlats
  <2>4. CASE b.wait > 0
    <3>1. Moves(b) = 0
      BY <1>1, <1>3, <1>5, <2>4
    <3> QED
      BY <1>1, <1>2, <2>2, <2>3, <2>4, <3>1, OneTickMore DEF EndTravel, EndSlats
  <2>5. CASE b.wait = 0
    <3>1. Moves(b) = 1
      BY <1>3, <1>5, <2>5
    <3> QED
      BY <1>1, <1>2, <2>2, <2>3, <2>5, <3>1 DEF EndTravel, EndSlats
  <2> QED
    BY <1>1, <2>4, <2>5
<1> QED
  BY <1>1, <1>4, <1>5

-----------------------------------------------------------------------------
(***************************************************************************)
(* Where a motion that is chosen for a goal takes a blind, or its slats,   *)
(* counted on both scales at once: steps of the reading times ticks.       *)
(***************************************************************************)
\* As far down or up as y, if that is ahead, and no further than the end.
DownTo(at, y, end) == IF y < at THEN at ELSE IF y < end THEN y ELSE end
UpTo(at, y) == IF at < y THEN at ELSE IF 0 < y THEN y ELSE 0

LEMMA DownStays ==
    ASSUME NEW steps \in Nat \ {0}, NEW ticks \in Nat \ {0}, NEW at \in 0 .. ticks,
           NEW goal \in 0 .. steps, NEW y \in Int, NEW low \in Nat, NEW high \in Nat,
           y * steps - goal * ticks >= -low, y * steps - goal * ticks <= high,
           at * steps - goal * ticks <= high
    PROVE  /\ DownTo(at, y, ticks) \in 0 .. ticks
           /\ DownTo(at, y, ticks) * steps - goal * ticks >= -low
           /\ DownTo(at, y, ticks) * steps - goal * ticks <= high
<1>1. PICK to \in 0 .. ticks : to = DownTo(at, y, ticks)
  BY DEF DownTo
<1>2. /\ to \in Int /\ at \in Int /\ goal \in Int /\ steps \in Int /\ ticks \in Int
      /\ to * steps \in Int /\ at * steps \in Int /\ y * steps \in Int
      /\ ticks * steps \in Int /\ goal * ticks \in Int
  OBVIOUS
<1>3. CASE y < at
  <2>1. to = at /\ y <= at
    BY <1>1, <1>3 DEF DownTo
  <2>2. y * steps <= at * steps
    BY <1>2, <2>1, Products
  <2> QED
    BY <1>1, <1>2, <2>1, <2>2
<1>4. CASE ~(y < at) /\ y < ticks
  BY <1>1, <1>4 DEF DownTo
<1>5. CASE ~(y < at) /\ ~(y < ticks)
  <2>1. to = ticks /\ ticks <= y /\ goal <= steps
    BY <1>1, <1>2, <1>5 DEF DownTo
  <2>2. ticks * steps <= y * steps /\ goal * ticks <= steps * ticks
    BY <1>2, <2>1, Products
  <2>3. steps * ticks = ticks * steps
    OBVIOUS
  <2> QED
    BY <1>1, <1>2, <2>1, <2>2, <2>3
<1> QED
  BY <1>3, <1>4, <1>5

LEMMA UpStays ==
    ASSUME NEW steps \in Nat \ {0}, NEW ticks \in Nat \ {0}, NEW at \in 0 .. ticks,
           NEW goal \in 0 .. steps, NEW y \in Int, NEW low \in Nat, NEW high \in Nat,
           y * steps - goal * ticks >= -low, y * steps - goal * ticks <= high,
           at * steps - goal * ticks >= -low
    PROVE  /\ UpTo(at, y) \in 0 .. ticks
           /\ UpTo(at, y) * steps - goal * ticks >= -low
           /\ UpTo(at, y) * steps - goal * ticks <= high
<1>1. PICK to \in 0 .. ticks : to = UpTo(at, y)
  BY DEF UpTo
<1>2. /\ to \in Int /\ at \in Int /\ goal \in Nat /\ steps \in Int /\ ticks \in Int
      /\ to * steps \in Int /\ at * steps \in Int /\ y * steps \in Int
      /\ goal * ticks \in Nat
  OBVIOUS
<1>3. CASE at < y
  <2>1. to = at /\ at <= y
    BY <1>1, <1>3 DEF UpTo
  <2>2. at * steps <= y * steps
    BY <1>2, <2>1, Products
  <2> QED
    BY <1>1, <1>2, <2>1, <2>2
<1>4. CASE ~(at < y) /\ 0 < y
  BY <1>1, <1>4 DEF UpTo
<1>5. CASE ~(at < y) /\ ~(0 < y)
  <2>1. to = 0 /\ y <= 0
    BY <1>1, <1>2, <1>5 DEF UpTo
  <2>2. y * steps <= 0 * steps /\ 0 * steps = 0
    BY <1>2, <2>1, Products
  <2> QED
    BY <1>1, <1>2, <2>1, <2>2
<1> QED
  BY <1>3, <1>4, <1>5

\* A motion of m ticks, the duration of what is between reading and goal, and of w
\* more or fewer.
LEMMA Downward ==
    ASSUME NEW steps \in Nat \ {0}, NEW ticks \in Nat \ {0}, NEW at \in 0 .. ticks,
           NEW goal \in 0 .. steps, NEW read \in 0 .. steps, read <= goal,
           NEW over \in Nat, at * steps = read * ticks + over,
           NEW m \in Nat, NEW cut \in Nat, (goal - read) * ticks = m * steps + cut,
           NEW fewer \in Nat, NEW more \in Nat, NEW w \in -fewer .. more
    PROVE  LET to == DownTo(at, at + m + w, ticks)
           IN  /\ to \in 0 .. ticks
               /\ to * steps - goal * ticks >= -(fewer * steps + over + cut)
               /\ to * steps - goal * ticks <= more * steps + over + cut
<1>1. /\ at \in Int /\ goal \in Int /\ read \in Int /\ steps \in Nat /\ ticks \in Nat /\ w \in Int
      /\ goal * ticks \in Int /\ read * ticks \in Int /\ at * steps \in Int
      /\ m * steps \in Nat /\ w * steps \in Int /\ fewer * steps \in Nat /\ more * steps \in Nat
  OBVIOUS
<1> DEFINE y == at + m + w
<1>2. y \in Int /\ y * steps = at * steps + m * steps + w * steps
  BY <1>1
<1>3. (goal - read) * ticks = goal * ticks - read * ticks
  BY <1>1
<1>4. /\ w * steps <= more * steps
      /\ w * steps >= -(fewer * steps)
  <2>1. w <= more /\ -fewer <= w /\ -fewer \in Int
    OBVIOUS
  <2>2. w * steps <= more * steps /\ (-fewer) * steps <= w * steps
    BY <1>1, <2>1, Products
  <2>3. (-fewer) * steps = -(fewer * steps)
    BY <1>1
  <2> QED
    BY <2>2, <2>3
<1> HIDE DEF y
<1>5. y * steps - goal * ticks = over - cut + w * steps
  BY <1>1, <1>2, <1>3
<1> DEFINE low == fewer * steps + over + cut
           high == more * steps + over + cut
<1>6. low \in Nat /\ high \in Nat
  BY <1>1
<1>7. /\ y * steps - goal * ticks >= -low /\ y * steps - goal * ticks <= high
      /\ at * steps - goal * ticks <= high
  BY <1>1, <1>3, <1>4, <1>5
<1> HIDE DEF low, high
<1>8. /\ DownTo(at, y, ticks) \in 0 .. ticks
      /\ DownTo(at, y, ticks) * steps - goal * ticks >= -low
      /\ DownTo(at, y, ticks) * steps - goal * ticks <= high
  BY <1>2, <1>6, <1>7, DownStays
<1> QED
  BY <1>8 DEF y, low, high

LEMMA Upward ==
    ASSUME NEW steps \in Nat \ {0}, NEW ticks \in Nat \ {0}, NEW at \in 0 .. ticks,
           NEW goal \in 0 .. steps, NEW read \in 0 .. steps, goal <= read,
           NEW over \in Nat, at * steps = read * ticks + over,
           NEW m \in Nat, NEW cut \in Nat, (read - goal) * ticks = m * steps + cut,
           NEW fewer \in Nat, NEW more \in Nat, NEW w \in -fewer .. more
    PROVE  LET to == UpTo(at, at - m - w)
           IN  /\ to \in 0 .. ticks
               /\ to * steps - goal * ticks >= -(more * steps + over + cut)
               /\ to * steps - goal * ticks <= fewer * steps + over + cut
<1>1. /\ at \in Int /\ goal \in Int /\ read \in Int /\ steps \in Nat /\ ticks \in Nat /\ w \in Int
      /\ goal * ticks \in Int /\ read * ticks \in Int /\ at * steps \in Int
      /\ m * steps \in Nat /\ w * steps \in Int /\ fewer * steps \in Nat /\ more * steps \in Nat
  OBVIOUS
<1> DEFINE y == at - m - w
<1>2. y \in Int /\ y * steps = at * steps - m * steps - w * steps
  BY <1>1
<1>3. (read - goal) * ticks = read * ticks - goal * ticks
  BY <1>1
<1>4. /\ w * steps <= more * steps
      /\ w * steps >= -(fewer * steps)
  <2>1. w <= more /\ -fewer <= w /\ -fewer \in Int
    OBVIOUS
  <2>2. w * steps <= more * steps /\ (-fewer) * steps <= w * steps
    BY <1>1, <2>1, Products
  <2>3. (-fewer) * steps = -(fewer * steps)
    BY <1>1
  <2> QED
    BY <2>2, <2>3
<1> HIDE DEF y
<1>5. y * steps - goal * ticks = over + cut - w * steps
  BY <1>1, <1>2, <1>3
<1> DEFINE low == more * steps + over + cut
           high == fewer * steps + over + cut
<1>6. low \in Nat /\ high \in Nat
  BY <1>1
<1>7. /\ y * steps - goal * ticks >= -low /\ y * steps - goal * ticks <= high
      /\ at * steps - goal * ticks >= -low
  BY <1>1, <1>3, <1>4, <1>5
<1> HIDE DEF low, high
<1>8. /\ UpTo(at, y) \in 0 .. ticks
      /\ UpTo(at, y) * steps - goal * ticks >= -low
      /\ UpTo(at, y) * steps - goal * ticks <= high
  BY <1>2, <1>6, <1>7, UpStays
<1> QED
  BY <1>8 DEF y, low, high

LEMMA Quotient ==
    ASSUME NEW c \in Nat \ {0}, NEW loss \in Nat, NEW e \in Int
    PROVE  /\ loss \div c \in Nat
           /\ e * c <= loss => e <= loss \div c
           /\ e * c >= -loss => e >= -(loss \div c)
<1>1. PICK q \in Nat, r \in 0 .. c - 1 : q = loss \div c /\ loss = q * c + r
  <2> DEFINE q == loss \div c
             r == loss % c
  <2>1. q \in Nat /\ r \in 0 .. c - 1 /\ loss = q * c + r
    OBVIOUS
  <2> QED
    BY <2>1
<1>2. e * c \in Int /\ q * c \in Nat /\ -q \in Int /\ (-q) * c = -(q * c) /\ r < c
  OBVIOUS
<1>3. ASSUME e > q
      PROVE  e * c > loss
  <2>1. q * c + c <= e * c
    BY <1>3, Products
  <2> QED
    BY <1>1, <1>2, <2>1
<1>4. ASSUME e < -q
      PROVE  e * c < -loss
  <2>1. e * c + c <= (-q) * c
    BY <1>2, <1>4, Products
  <2> QED
    BY <1>1, <1>2, <2>1
<1> QED
  BY <1>1, <1>2, <1>3, <1>4

LEMMA Slacks ==
    /\ Loss(TiltClosed, FullTilt) \in Nat /\ Loss(FullTilt, TiltClosed) \in Nat
    /\ Loss(Extended, MoveTime) \in Nat /\ Loss(MoveTime, Extended) \in Nat
    /\ TiltLoss \in Nat /\ TiltLoss \div TiltClosed \in Nat
    /\ RotationSlack \in Nat /\ PositionSlack \in Nat
<1>1. /\ Loss(TiltClosed, FullTilt) \in Nat /\ Loss(FullTilt, TiltClosed) \in Nat
      /\ Loss(Extended, MoveTime) \in Nat /\ Loss(MoveTime, Extended) \in Nat
  BY Lengths, LossIs
<1>2. TiltLoss \in Nat
  BY <1>1 DEF TiltLoss
<1>3. TiltLoss \div TiltClosed \in Nat
  BY <1>2, Lengths, Quotient
<1>4. RotationSlack \in Nat
  BY <1>2, Lengths DEF RotationSlack
<1>5. PICK q \in Nat : q = TiltLoss \div TiltClosed
  BY <1>3
<1>6. PositionSlack = (TiltOffset + q) * Extended + Loss(Extended, MoveTime) + Loss(MoveTime, Extended)
  BY <1>5 DEF PositionSlack
<1>7. (TiltOffset + q) * Extended \in Nat
  BY Lengths
<1>8. PositionSlack \in Nat
  BY <1>1, <1>6, <1>7
<1> QED
  BY <1>1, <1>2, <1>3, <1>4, <1>8

LEMMA EndsAre ==
    ASSUME NEW travel \in 0 .. MoveTime, NEW slats \in 0 .. FullTilt, NEW n \in Nat
    PROVE  /\ DownSlats(slats, n) = DownTo(slats, slats + n, FullTilt)
           /\ DownTravel(travel, slats, n) = DownTo(travel, travel + (slats + n - FullTilt), MoveTime)
           /\ UpSlats(slats, n) = UpTo(slats, slats - n)
           /\ UpTravel(travel, slats, n) = UpTo(travel, travel - (n - slats))
<1>1. MoveTime \in Nat /\ FullTilt \in Nat
  BY Lengths
<1> QED
  BY <1>1 DEF DownSlats, DownTravel, UpSlats, UpTravel, DownTo, UpTo

-----------------------------------------------------------------------------
(***************************************************************************)
(* What is read, and how long the step is                                  *)
(***************************************************************************)
\* What a reading of at is, on a scale of so many steps for so many ticks.
Reads(read, at, steps, ticks) ==
    read \in 0 .. steps /\ \E over \in 0 .. Loss(steps, ticks) : at * steps = read * ticks + over

LEMMA Reading ==
    ASSUME NEW steps \in Nat \ {0}, NEW ticks \in Nat \ {0}, NEW at \in 0 .. ticks
    PROVE  Reads((at * steps) \div ticks, at, steps, ticks)
<1>1. PICK q \in Nat, r \in 0 .. Loss(steps, ticks) :
          at * steps = q * ticks + r /\ (at * steps) \div ticks = q
  BY Rounded
<1>2. Loss(steps, ticks) \in Nat
  BY LossIs
<1>3. at * steps <= ticks * steps /\ ticks * steps = steps * ticks
  BY Products
<1>4. q <= steps
  <2>1. q > steps => steps * ticks + ticks <= q * ticks
    BY Products
  <2>2. q * ticks \in Int /\ steps * ticks \in Int /\ r \in Nat
    BY <1>2
  <2> QED
    BY <1>1, <1>3, <2>1, <2>2
<1> QED
  BY <1>1, <1>4 DEF Reads

\* How long a way takes, up or down.
LEMMA Duration ==
    ASSUME NEW steps \in Nat \ {0}, NEW ticks \in Nat \ {0}, NEW diff \in 0 .. steps
    PROVE  \E m \in Nat, cut \in 0 .. Loss(ticks, steps) :
              /\ diff * ticks = m * steps + cut
              /\ Truncated(diff * ticks, steps) = m
              /\ Truncated((0 - diff) * ticks, steps) = -m
<1>1. PICK m \in Nat, cut \in 0 .. Loss(ticks, steps) :
          /\ diff * ticks \in Nat /\ diff * ticks = m * steps + cut
          /\ Truncated(diff * ticks, steps) = m /\ Truncated(-(diff * ticks), steps) = -m
  BY Rounded
<1>2. (0 - diff) * ticks = -(diff * ticks)
  OBVIOUS
<1> QED
  BY <1>1, <1>2

-----------------------------------------------------------------------------
(***************************************************************************)
(* Steps                                                                   *)
(***************************************************************************)
TravelLoss == Loss(Extended, MoveTime) + Loss(MoveTime, Extended)

\* The tilt that a step allows for is the one the slats make, but for rounding.
LEMMA TiltDown ==
    ASSUME NEW slats \in 0 .. FullTilt, NEW read, Reads(read, slats, TiltClosed, FullTilt),
           NEW k \in Nat, NEW cut \in 0 .. Loss(FullTilt, TiltClosed),
           (TiltClosed - read) * FullTilt = k * TiltClosed + cut
    PROVE  slats + k - FullTilt \in -(TiltLoss \div TiltClosed) .. (TiltLoss \div TiltClosed)
<1>1. /\ TiltClosed \in Nat \ {0} /\ FullTilt \in Nat \ {0} /\ TiltLoss \in Nat
      /\ Loss(TiltClosed, FullTilt) \in Nat /\ Loss(FullTilt, TiltClosed) \in Nat
      /\ TiltLoss = Loss(TiltClosed, FullTilt) + Loss(FullTilt, TiltClosed)
      /\ TiltLoss \div TiltClosed \in Nat
  BY Lengths, Slacks DEF TiltLoss
<1>2. PICK over \in 0 .. Loss(TiltClosed, FullTilt) : slats * TiltClosed = read * FullTilt + over
  BY DEF Reads
<1>3. read \in 0 .. TiltClosed
  BY DEF Reads
<1>4. slats \in Int /\ k \in Int /\ read \in Int /\ over \in Nat /\ cut \in Nat
  BY <1>1, <1>2, <1>3
<1> DEFINE e == slats + k - FullTilt
<1>5. e \in Int /\ e * TiltClosed = slats * TiltClosed + k * TiltClosed - FullTilt * TiltClosed
  BY <1>1, <1>4
<1>6. /\ (TiltClosed - read) * FullTilt = TiltClosed * FullTilt - read * FullTilt
      /\ TiltClosed * FullTilt = FullTilt * TiltClosed
  BY <1>1, <1>4
<1>7. /\ slats * TiltClosed \in Int /\ k * TiltClosed \in Int /\ FullTilt * TiltClosed \in Int
      /\ read * FullTilt \in Int
  BY <1>1, <1>4
<1> HIDE DEF e
<1>8. e * TiltClosed = over - cut
  BY <1>2, <1>4, <1>5, <1>6, <1>7
<1>9. e * TiltClosed <= TiltLoss /\ e * TiltClosed >= -TiltLoss
  BY <1>1, <1>2, <1>4, <1>8
<1>10. e <= TiltLoss \div TiltClosed /\ e >= -(TiltLoss \div TiltClosed)
  BY <1>1, <1>5, <1>9, Quotient
<1>11. e \in -(TiltLoss \div TiltClosed) .. (TiltLoss \div TiltClosed)
  BY <1>1, <1>5, <1>10
<1> QED
  BY <1>11 DEF e

LEMMA TiltUp ==
    ASSUME NEW slats \in 0 .. FullTilt, NEW read, Reads(read, slats, TiltClosed, FullTilt),
           NEW k \in Nat, NEW cut \in 0 .. Loss(FullTilt, TiltClosed),
           read * FullTilt = k * TiltClosed + cut
    PROVE  k - slats \in -(TiltLoss \div TiltClosed) .. (TiltLoss \div TiltClosed)
<1>1. /\ TiltClosed \in Nat \ {0} /\ FullTilt \in Nat \ {0} /\ TiltLoss \in Nat
      /\ Loss(TiltClosed, FullTilt) \in Nat /\ Loss(FullTilt, TiltClosed) \in Nat
      /\ TiltLoss = Loss(TiltClosed, FullTilt) + Loss(FullTilt, TiltClosed)
      /\ TiltLoss \div TiltClosed \in Nat
  BY Lengths, Slacks DEF TiltLoss
<1>2. PICK over \in 0 .. Loss(TiltClosed, FullTilt) : slats * TiltClosed = read * FullTilt + over
  BY DEF Reads
<1>3. read \in 0 .. TiltClosed
  BY DEF Reads
<1>4. slats \in Int /\ k \in Int /\ read \in Int /\ over \in Nat /\ cut \in Nat
  BY <1>1, <1>2, <1>3
<1> DEFINE e == k - slats
<1>5. e \in Int /\ e * TiltClosed = k * TiltClosed - slats * TiltClosed
  BY <1>1, <1>4
<1>6. slats * TiltClosed \in Int /\ k * TiltClosed \in Int /\ read * FullTilt \in Int
  BY <1>1, <1>4
<1> HIDE DEF e
<1>7. e * TiltClosed = -(over + cut)
  BY <1>2, <1>4, <1>5, <1>6
<1>8. e * TiltClosed <= TiltLoss /\ e * TiltClosed >= -TiltLoss
  BY <1>1, <1>2, <1>4, <1>7
<1>9. e <= TiltLoss \div TiltClosed /\ e >= -(TiltLoss \div TiltClosed)
  BY <1>1, <1>5, <1>8, Quotient
<1>10. e \in -(TiltLoss \div TiltClosed) .. (TiltLoss \div TiltClosed)
  BY <1>1, <1>5, <1>9
<1> QED
  BY <1>10 DEF e

\* A step down, or up, that runs d ticks more than it needs, and for which the slats
\* take more ticks than allowed for, or fewer.
LEMMA TravelDown ==
    ASSUME NEW travel \in 0 .. MoveTime, NEW slats \in 0 .. FullTilt, NEW goal \in 0 .. Extended,
           NEW read, Reads(read, travel, Extended, MoveTime), read <= goal,
           NEW m \in Nat, NEW cut \in 0 .. Loss(MoveTime, Extended),
           (goal - read) * MoveTime = m * Extended + cut,
           NEW k \in Nat, NEW fewer \in Nat, NEW more \in Nat, slats + k - FullTilt \in -fewer .. more,
           NEW d \in 0 .. TiltOffset, NEW to, to = DownTravel(travel, slats, m + k + d)
    PROVE  /\ to \in 0 .. MoveTime
           /\ to * Extended - goal * MoveTime >= -(fewer * Extended + TravelLoss)
           /\ to * Extended - goal * MoveTime <= (more + TiltOffset) * Extended + TravelLoss
<1>1. /\ Extended \in Nat \ {0} /\ MoveTime \in Nat \ {0} /\ TiltOffset \in Nat /\ FullTilt \in Nat
      /\ Loss(Extended, MoveTime) \in Nat /\ Loss(MoveTime, Extended) \in Nat
  BY Lengths, Slacks
<1>2. PICK over \in 0 .. Loss(Extended, MoveTime) : travel * Extended = read * MoveTime + over
  BY DEF Reads
<1>3. read \in 0 .. Extended /\ over \in Nat /\ cut \in Nat /\ d \in Nat /\ m + k + d \in Nat
  BY <1>1, <1>2 DEF Reads
<1>4. PICK w \in -fewer .. (more + TiltOffset) : w = slats + k - FullTilt + d
  BY <1>1
<1>5. to = DownTo(travel, travel + m + w, MoveTime)
  <2>1. travel + (slats + (m + k + d) - FullTilt) = travel + m + w
    BY <1>1, <1>3, <1>4
  <2> QED
    BY <1>3, <2>1, EndsAre
<1>6. more + TiltOffset \in Nat
  BY <1>1
<1>7. /\ to \in 0 .. MoveTime
      /\ to * Extended - goal * MoveTime >= -(fewer * Extended + over + cut)
      /\ to * Extended - goal * MoveTime <= (more + TiltOffset) * Extended + over + cut
  <2>1. PICK high \in Nat : high = more + TiltOffset
    BY <1>6
  <2>2. w \in -fewer .. high
    BY <1>4, <2>1
  <2> DEFINE end == DownTo(travel, travel + m + w, MoveTime)
  <2>3. /\ end \in 0 .. MoveTime
        /\ end * Extended - goal * MoveTime >= -(fewer * Extended + over + cut)
        /\ end * Extended - goal * MoveTime <= high * Extended + over + cut
    BY <1>1, <1>2, <1>3, <2>2, Downward
  <2> HIDE DEF end
  <2>4. to = end
    BY <1>5 DEF end
  <2> QED
    BY <2>1, <2>3, <2>4
<1>8. over + cut <= TravelLoss /\ TravelLoss \in Nat
  BY <1>1, <1>2, <1>3 DEF TravelLoss
<1>9. PICK x \in Int, y \in Nat, z \in Nat :
          /\ x = to * Extended - goal * MoveTime
          /\ y = fewer * Extended /\ z = (more + TiltOffset) * Extended
  BY <1>1, <1>7
<1>10. x >= -(y + over + cut) /\ x <= z + over + cut
  BY <1>7, <1>9
<1>11. x >= -(y + TravelLoss) /\ x <= z + TravelLoss
  BY <1>3, <1>8, <1>10
<1> QED
  BY <1>7, <1>9, <1>11

LEMMA TravelUp ==
    ASSUME NEW travel \in 0 .. MoveTime, NEW slats \in 0 .. FullTilt, NEW goal \in 0 .. Extended,
           NEW read, Reads(read, travel, Extended, MoveTime), goal <= read,
           NEW m \in Nat, NEW cut \in 0 .. Loss(MoveTime, Extended),
           (read - goal) * MoveTime = m * Extended + cut,
           NEW k \in Nat, NEW fewer \in Nat, NEW more \in Nat, k - slats \in -fewer .. more,
           NEW d \in 0 .. TiltOffset, NEW to, to = UpTravel(travel, slats, m + k + d)
    PROVE  /\ to \in 0 .. MoveTime
           /\ to * Extended - goal * MoveTime >= -((more + TiltOffset) * Extended + TravelLoss)
           /\ to * Extended - goal * MoveTime <= fewer * Extended + TravelLoss
<1>1. /\ Extended \in Nat \ {0} /\ MoveTime \in Nat \ {0} /\ TiltOffset \in Nat /\ FullTilt \in Nat
      /\ Loss(Extended, MoveTime) \in Nat /\ Loss(MoveTime, Extended) \in Nat
  BY Lengths, Slacks
<1>2. PICK over \in 0 .. Loss(Extended, MoveTime) : travel * Extended = read * MoveTime + over
  BY DEF Reads
<1>3. read \in 0 .. Extended /\ over \in Nat /\ cut \in Nat /\ d \in Nat /\ m + k + d \in Nat
  BY <1>1, <1>2 DEF Reads
<1>4. PICK w \in -fewer .. (more + TiltOffset) : w = k - slats + d
  BY <1>1
<1>5. to = UpTo(travel, travel - m - w)
  <2>1. travel - ((m + k + d) - slats) = travel - m - w
    BY <1>1, <1>3, <1>4
  <2> QED
    BY <1>3, <2>1, EndsAre
<1>6. more + TiltOffset \in Nat
  BY <1>1
<1>7. /\ to \in 0 .. MoveTime
      /\ to * Extended - goal * MoveTime >= -((more + TiltOffset) * Extended + over + cut)
      /\ to * Extended - goal * MoveTime <= fewer * Extended + over + cut
  <2>1. PICK high \in Nat : high = more + TiltOffset
    BY <1>6
  <2>2. w \in -fewer .. high
    BY <1>4, <2>1
  <2> DEFINE end == UpTo(travel, travel - m - w)
  <2>3. /\ end \in 0 .. MoveTime
        /\ end * Extended - goal * MoveTime >= -(high * Extended + over + cut)
        /\ end * Extended - goal * MoveTime <= fewer * Extended + over + cut
    BY <1>1, <1>2, <1>3, <2>2, Upward
  <2> HIDE DEF end
  <2>4. to = end
    BY <1>5 DEF end
  <2> QED
    BY <2>1, <2>3, <2>4
<1>8. over + cut <= TravelLoss /\ TravelLoss \in Nat
  BY <1>1, <1>2, <1>3 DEF TravelLoss
<1>9. PICK x \in Int, y \in Nat, z \in Nat :
          /\ x = to * Extended - goal * MoveTime
          /\ y = fewer * Extended /\ z = (more + TiltOffset) * Extended
  BY <1>1, <1>7
<1>10. x >= -(z + over + cut) /\ x <= y + over + cut
  BY <1>7, <1>9
<1>11. x >= -(z + TravelLoss) /\ x <= y + TravelLoss
  BY <1>3, <1>8, <1>10
<1> QED
  BY <1>7, <1>9, <1>11

-----------------------------------------------------------------------------
(***************************************************************************)
(* What a request does to a blind                                          *)
(***************************************************************************)
CarryOne(s, setter, wait) ==
    IF setter.variable = "step_time"
    THEN [s EXCEPT !.step_time = setter.value]
    ELSE [s EXCEPT !.blind = Commanded(@, setter.value, s.step_time, wait)]

LEMMA CommandIs ==
    ASSUME NEW b, NEW name, NEW step_time, NEW wait
    PROVE  Carried(b, <<Command(name)>>, step_time, wait) = Commanded(b, name, step_time, wait)
<1> DEFINE setters == <<Command(name)>>
           start == [blind |-> b, step_time |-> step_time]
           Run(f) == f = [n \in 0 .. Len(setters) |->
                            IF n = 0 THEN start ELSE CarryOne(f[n - 1], setters[n], wait)]
           end == [blind |-> Commanded(b, name, step_time, wait), step_time |-> step_time]
           witness == [n \in 0 .. 1 |-> IF n = 0 THEN start ELSE end]
           after == CHOOSE f : Run(f)
<1>1. Len(setters) = 1 /\ setters[1] = [variable |-> "command", value |-> name]
  BY DEF Command
<1>2. CarryOne(start, setters[1], wait) = end
  BY <1>1 DEF CarryOne
<1>3. Carried(b, setters, step_time, wait) = after[Len(setters)].blind
  BY DEF Carried, CarryOne
<1> HIDE DEF setters, start, end
<1>4. Run(witness)
  <2>1. ASSUME NEW n \in 0 .. 1
        PROVE  witness[n] = IF n = 0 THEN start ELSE CarryOne(witness[n - 1], setters[n], wait)
    <3>1. CASE n = 0
      BY <3>1
    <3>2. CASE n = 1
      BY <1>2, <3>2
    <3> QED
      BY <3>1, <3>2
  <2> QED
    BY <1>1, <2>1
<1>5. Run(after)
  <2> HIDE DEF Run
  <2> QED
    BY <1>4
<1> HIDE DEF after
<1>6. after[0] = start /\ after[1] = CarryOne(after[0], setters[1], wait)
  BY <1>1, <1>5
<1>7. after[1].blind = end.blind
  BY <1>2, <1>6
<1> QED
  BY <1>1, <1>3, <1>7 DEF setters, end

LEMMA StepForIs ==
    ASSUME NEW b, NEW time, NEW diff, NEW step_time, NEW wait
    PROVE  Carried(b, StepFor(time, diff), step_time, wait)
              = Commanded(b, IF diff > 0 THEN "STEP_DOWN" ELSE "STEP_UP", time, wait)
<1> DEFINE name == IF diff > 0 THEN "STEP_DOWN" ELSE "STEP_UP"
           setters == StepFor(time, diff)
           start == [blind |-> b, step_time |-> step_time]
           Run(f) == f = [n \in 0 .. Len(setters) |->
                            IF n = 0 THEN start ELSE CarryOne(f[n - 1], setters[n], wait)]
           timed == [blind |-> b, step_time |-> time]
           end == [blind |-> Commanded(b, name, time, wait), step_time |-> time]
           witness == [n \in 0 .. 2 |-> IF n = 0 THEN start ELSE IF n = 1 THEN timed ELSE end]
           after == CHOOSE f : Run(f)
<1> HIDE DEF name
<1>1. /\ Len(setters) = 2 /\ setters[1] = [variable |-> "step_time", value |-> time]
      /\ setters[2] = [variable |-> "command", value |-> name]
  BY DEF Command, StepFor, name
<1>2. CarryOne(start, setters[1], wait) = timed /\ CarryOne(timed, setters[2], wait) = end
  BY <1>1 DEF CarryOne
<1>3. Carried(b, setters, step_time, wait) = after[Len(setters)].blind
  BY DEF Carried, CarryOne
<1> HIDE DEF setters, start, timed, end
<1>4. Run(witness)
  <2>1. ASSUME NEW n \in 0 .. 2
        PROVE  witness[n] = IF n = 0 THEN start ELSE CarryOne(witness[n - 1], setters[n], wait)
    <3>1. CASE n = 0
      BY <3>1
    <3>2. CASE n = 1
      BY <1>2, <3>2
    <3>3. CASE n = 2
      BY <1>2, <3>3
    <3> QED
      BY <3>1, <3>2, <3>3
  <2> QED
    BY <1>1, <2>1
<1>5. Run(after)
  <2> HIDE DEF Run
  <2> QED
    BY <1>4
<1> HIDE DEF after
<1>6. /\ after[0] = start /\ after[1] = CarryOne(after[0], setters[1], wait)
      /\ after[2] = CarryOne(after[1], setters[2], wait)
  BY <1>1, <1>5
<1>7. after[2].blind = end.blind
  BY <1>2, <1>6
<1> QED
  BY <1>1, <1>3, <1>7 DEF setters, end, name

\* A step of q ticks and the offset runs q ticks and some of the offset.
LEMMA StepIs ==
    ASSUME NEW b \in Blinds, NEW q \in Nat, NEW wait \in 0 .. TiltOffset
    PROVE  LET down == Commanded(b, "STEP_DOWN", q + TiltOffset, wait)
               up == Commanded(b, "STEP_UP", q + TiltOffset, wait)
           IN  /\ EndTravel(down) = DownTravel(b.travel, b.slats, q + (TiltOffset - wait))
               /\ EndSlats(down) = DownSlats(b.slats, q + (TiltOffset - wait))
               /\ EndTravel(up) = UpTravel(b.travel, b.slats, q + (TiltOffset - wait))
               /\ EndSlats(up) = UpSlats(b.slats, q + (TiltOffset - wait))
<1>1. TiltOffset \in Nat /\ wait \in Nat /\ wait <= TiltOffset
  BY Lengths
<1> DEFINE down == Commanded(b, "STEP_DOWN", q + TiltOffset, wait)
           up == Commanded(b, "STEP_UP", q + TiltOffset, wait)
<1>2. /\ down = [b EXCEPT !.way = "down", !.wait = wait, !.left = q + TiltOffset]
      /\ up = [b EXCEPT !.way = "up", !.wait = wait, !.left = q + TiltOffset]
  BY DEF Commanded
<1> HIDE DEF down, up
<1>3. /\ down.travel = b.travel /\ down.slats = b.slats /\ down.way = "down"
      /\ down.wait = wait /\ down.left = q + TiltOffset
      /\ up.travel = b.travel /\ up.slats = b.slats /\ up.way = "up"
      /\ up.wait = wait /\ up.left = q + TiltOffset
  BY <1>2 DEF Blinds
<1>4. Moves(down) = q + (TiltOffset - wait) /\ Moves(up) = q + (TiltOffset - wait)
  BY <1>1, <1>3 DEF Moves
<1>5. /\ EndTravel(down) = DownTravel(b.travel, b.slats, q + (TiltOffset - wait))
      /\ EndSlats(down) = DownSlats(b.slats, q + (TiltOffset - wait))
      /\ EndTravel(up) = UpTravel(b.travel, b.slats, q + (TiltOffset - wait))
      /\ EndSlats(up) = UpSlats(b.slats, q + (TiltOffset - wait))
  BY <1>3, <1>4 DEF EndTravel, EndSlats
<1> QED
  BY <1>5 DEF down, up

LEMMA SlackIs ==
    \E q \in Nat :
        /\ q = TiltLoss \div TiltClosed
        /\ PositionSlack = (q + TiltOffset) * Extended + TravelLoss
        /\ q * Extended <= (q + TiltOffset) * Extended
        /\ q * Extended \in Nat /\ TravelLoss \in Nat /\ FullTilt * Extended \in Nat
        /\ TiltOffset * Extended <= (q + TiltOffset) * Extended
<1>1. PICK q \in Nat : q = TiltLoss \div TiltClosed
  BY Slacks
<1>2. TravelLoss \in Nat
  BY Slacks DEF TravelLoss
<1>3. PositionSlack = (TiltOffset + q) * Extended + Loss(Extended, MoveTime) + Loss(MoveTime, Extended)
  BY <1>1 DEF PositionSlack
<1>4. TiltOffset + q = q + TiltOffset
  BY Lengths
<1>5. (q + TiltOffset) * Extended \in Nat
  BY Lengths
<1>6. PositionSlack = (q + TiltOffset) * Extended + TravelLoss
  BY <1>3, <1>4, <1>5, Slacks DEF TravelLoss
<1>7. /\ q * Extended <= (q + TiltOffset) * Extended
      /\ TiltOffset * Extended <= (q + TiltOffset) * Extended
  <2>1. q \in Int /\ TiltOffset \in Int /\ q + TiltOffset \in Int /\ Extended \in Nat
        /\ q <= q + TiltOffset /\ TiltOffset <= q + TiltOffset
    BY Lengths
  <2> QED
    BY <2>1, Products
<1>8. q * Extended \in Nat /\ FullTilt * Extended \in Nat
  BY Lengths
<1> QED
  BY <1>1, <1>2, <1>6, <1>7, <1>8

\* The goal of a call and what it read.
LEMMA CallIs ==
    ASSUME NEW b \in Blinds, NEW call \in Call, ReadOf(call, b)
    PROVE  /\ call.goal \in Goals
           /\ call.goal.kind = "position" => call.goal.value \in 0 .. Extended
           /\ call.goal.kind = "rotation" => call.goal.value \in 0 .. TiltClosed
           /\ call.goal.kind \in {"position", "rotation"}
           /\ call.current.position # Unknown =>
                 Reads(call.current.position, b.travel, Extended, MoveTime)
           /\ call.current.rotation # Unknown =>
                 Reads(call.current.rotation, b.slats, TiltClosed, FullTilt)
           /\ b.travel \in 0 .. MoveTime /\ b.slats \in 0 .. FullTilt
<1>1. call.goal \in Goals
  BY DEF Call
<1>2. \/ call.goal \in [kind : {"position"}, value : 0 .. Extended]
      \/ call.goal \in [kind : {"rotation"}, value : 0 .. TiltClosed]
  BY <1>1, BlindAssumption
<1>3. b.travel \in 0 .. MoveTime /\ b.slats \in 0 .. FullTilt
  BY DEF Blinds
<1>4. ASSUME call.current.position # Unknown
      PROVE  Reads(call.current.position, b.travel, Extended, MoveTime)
  BY <1>3, <1>4, Lengths, Reading DEF ReadOf
<1>5. ASSUME call.current.rotation # Unknown
      PROVE  Reads(call.current.rotation, b.slats, TiltClosed, FullTilt)
  BY <1>3, <1>5, Lengths, Reading DEF ReadOf
<1> QED
  BY <1>1, <1>2, <1>3, <1>4, <1>5

\* x ticks beyond the goal, or short of it, are within the slack.
LEMMA PositionWithin ==
    ASSUME NEW call \in Call, call.goal.kind = "position", NEW travel, NEW slats, NEW x \in Int,
           x = travel * Extended - call.goal.value * MoveTime,
           NEW toward \in BOOLEAN, call.current.position # Unknown,
           toward <=> call.goal.value > call.current.position,
           call.current.rotation # Unknown => x >= -PositionSlack /\ x <= PositionSlack,
           toward => x <= PositionSlack /\ x >= -(FullTilt * Extended + PositionSlack),
           ~toward => x >= -PositionSlack /\ x <= FullTilt * Extended + PositionSlack,
           ~Endpoint(call.goal)
    PROVE  Met(call, travel, slats)
<1>1. PICK slack \in Nat, tilt \in Nat : slack = PositionSlack /\ tilt = FullTilt * Extended
  BY Slacks, SlackIs
<1>2. PositionMet(call, travel)
  <2>1. OffPosition(travel, call.goal.value) = Abs(x)
    BY DEF OffPosition
  <2>2. call.current.rotation # Unknown => Abs(x) <= slack
    BY <1>1 DEF Abs
  <2> QED
    BY <1>1, <2>1, <2>2 DEF PositionMet
<1>3. RotationMet(call, travel, slats)
  BY DEF RotationMet
<1>4. NotBeyond(call, travel)
  <2> DEFINE ahead == x * (IF call.goal.value > call.current.position THEN 1 ELSE -1)
  <2>1. /\ toward => ahead = x
        /\ ~toward => ahead = -x
    OBVIOUS
  <2>2. /\ toward => x <= slack /\ x >= -(tilt + slack)
        /\ ~toward => x >= -slack /\ x <= tilt + slack
    BY <1>1
  <2>3. -x <= slack <=> x >= -slack
    BY <1>1
  <2>4. -x >= -(tilt + slack) <=> x <= tilt + slack
    BY <1>1
  <2> HIDE DEF ahead
  <2>5. ahead <= slack /\ ahead >= -(tilt + slack)
    BY <2>1, <2>2, <2>3, <2>4
  <2> QED
    BY <1>1, <2>5 DEF NotBeyond, ahead
<1> QED
  BY <1>2, <1>3, <1>4 DEF Met

\* What set_position allows for the tilt still to come: k ticks, of which no more than
\* rounding is missing if the slats are known.
Allowed(slats, read, diff, q) ==
    \E k \in Nat, fewer \in Nat :
        /\ fewer = (IF read.rotation = Unknown THEN FullTilt ELSE q)
        /\ diff > 0 => TiltTime(diff, read) = k /\ slats + k - FullTilt \in -fewer .. q
        /\ ~(diff > 0) => TiltTime(diff, read) = -k /\ k - slats \in -fewer .. q

LEMMA TiltAllowed ==
    ASSUME NEW slats \in 0 .. FullTilt, NEW read, NEW diff \in Int, NEW q \in Nat,
           q = TiltLoss \div TiltClosed,
           read.rotation # Unknown => Reads(read.rotation, slats, TiltClosed, FullTilt)
    PROVE  Allowed(slats, read, diff, q)
<1>1. TiltClosed \in Nat \ {0} /\ FullTilt \in Nat \ {0} /\ 0 \in Nat /\ slats \in Int
  BY Lengths
<1>2. CASE read.rotation = Unknown
  <2>1. TiltTime(diff, read) = 0 /\ 0 \in Nat
    BY <1>2 DEF TiltTime
  <2>2. PICK z \in Nat : z = 0 /\ -z = z
    <3>1. 0 \in Nat
      OBVIOUS
    <3>2. \A z \in Nat : z <= 0 => -z = z
      OBVIOUS
    <3> QED
      BY <3>1, <3>2
  <2>3. slats + z - FullTilt \in -FullTilt .. q /\ z - slats \in -FullTilt .. q
    BY <1>1, <2>2
  <2>4. TiltTime(diff, read) = z /\ TiltTime(diff, read) = -z
    BY <2>1, <2>2
  <2> QED
    BY <1>1, <1>2, <2>3, <2>4 DEF Allowed
<1>3. CASE read.rotation # Unknown
  <2> DEFINE rotation == read.rotation
  <2>1. Reads(rotation, slats, TiltClosed, FullTilt) /\ rotation \in 0 .. TiltClosed
    BY <1>3 DEF Reads
  <2>2. CASE diff > 0
    <3>1. TiltTime(diff, read) = Truncated((TiltClosed - rotation) * FullTilt, TiltClosed)
      BY <1>3, <2>2 DEF TiltTime
    <3>2. TiltClosed - rotation \in 0 .. TiltClosed
      BY <1>1, <2>1
    <3>3. PICK k \in Nat, cut \in 0 .. Loss(FullTilt, TiltClosed) :
              /\ (TiltClosed - rotation) * FullTilt = k * TiltClosed + cut
              /\ Truncated((TiltClosed - rotation) * FullTilt, TiltClosed) = k
      BY <1>1, <3>2, Duration
    <3>4. slats + k - FullTilt \in -q .. q
      BY <2>1, <3>3, TiltDown
    <3> QED
      BY <1>3, <2>2, <3>1, <3>3, <3>4 DEF Allowed
  <2>3. CASE ~(diff > 0)
    <3>1. TiltTime(diff, read) = Truncated((0 - rotation) * FullTilt, TiltClosed)
      BY <1>3, <2>3 DEF TiltTime
    <3>2. PICK k \in Nat, cut \in 0 .. Loss(FullTilt, TiltClosed) :
              /\ rotation * FullTilt = k * TiltClosed + cut
              /\ Truncated((0 - rotation) * FullTilt, TiltClosed) = -k
      BY <1>1, <2>1, Duration
    <3>3. k - slats \in -q .. q
      BY <2>1, <3>2, TiltUp
    <3> QED
      BY <1>3, <2>3, <3>1, <3>2, <3>3 DEF Allowed
  <2> QED
    BY <2>2, <2>3
<1> QED
  BY <1>2, <1>3

LEMMA Sums ==
    ASSUME NEW m \in Nat, NEW k \in Nat
    PROVE  StepTime(m + k) = m + k + TiltOffset /\ StepTime(-m + -k) = m + k + TiltOffset
           /\ StepTime(m) = m + TiltOffset /\ StepTime(-m) = m + TiltOffset
<1>1. TiltOffset \in Nat
  BY Lengths
<1>2. Abs(m + k) = m + k /\ Abs(m) = m
  BY DEF Abs
<1>3. Abs(-m + -k) = m + k
  <2>1. PICK x \in Int : x = -m + -k
    OBVIOUS
  <2>2. x <= 0 /\ -x = m + k /\ (x >= 0 => x = m + k)
    BY <2>1
  <2> QED
    BY <2>1, <2>2 DEF Abs
<1>4. Abs(-m) = m
  <2>1. PICK x \in Int : x = -m
    OBVIOUS
  <2>2. x <= 0 /\ -x = m /\ (x >= 0 => x = m)
    BY <2>1
  <2> QED
    BY <2>1, <2>2 DEF Abs
<1> QED
  BY <1>1, <1>2, <1>3, <1>4 DEF StepTime

\* set_position's step ends where it is meant to.
LEMMA PositionStepMet ==
    ASSUME NEW b \in Blinds, NEW call \in Call, ReadOf(call, b),
           call.goal.kind = "position", ~Endpoint(call.goal),
           Standing(call) \notin {Unknown, call.goal.value},
           NEW wait \in 0 .. TiltOffset, NEW step_time, NEW next,
           next = Carried(b, PositionStep(call.goal.value, call.current), step_time, wait)
    PROVE  Met(call, EndTravel(next), EndSlats(next))
<1> DEFINE goal == call.goal.value
           read == call.current.position
           diff == goal - read
           travel == b.travel
           slats == b.slats
           d == TiltOffset - wait
           to == EndTravel(next)
           x == to * Extended - goal * MoveTime
<1>1. /\ Extended \in Nat \ {0} /\ MoveTime \in Nat \ {0} /\ TiltOffset \in Nat /\ FullTilt \in Nat
      /\ wait \in Nat /\ d \in 0 .. TiltOffset
  BY Lengths
<1>2. read # Unknown /\ read # goal
  BY DEF Standing
<1>3. /\ goal \in 0 .. Extended /\ Reads(read, travel, Extended, MoveTime)
      /\ call.current.rotation # Unknown =>
            Reads(call.current.rotation, slats, TiltClosed, FullTilt)
      /\ travel \in 0 .. MoveTime /\ slats \in 0 .. FullTilt
  BY <1>2, CallIs
<1>4. read \in 0 .. Extended /\ goal \in Int /\ read \in Int /\ diff \in Int
  BY <1>1, <1>3 DEF Reads
<1>5. PICK q \in Nat :
          /\ q = TiltLoss \div TiltClosed
          /\ PositionSlack = (q + TiltOffset) * Extended + TravelLoss
          /\ q * Extended <= (q + TiltOffset) * Extended
          /\ q * Extended \in Nat /\ TravelLoss \in Nat /\ FullTilt * Extended \in Nat
  BY SlackIs
<1>6. PICK k \in Nat, fewer \in Nat :
          /\ fewer = (IF call.current.rotation = Unknown THEN FullTilt ELSE q)
          /\ diff > 0 => /\ TiltTime(diff, call.current) = k
                         /\ slats + k - FullTilt \in -fewer .. q
          /\ ~(diff > 0) => /\ TiltTime(diff, call.current) = -k
                            /\ k - slats \in -fewer .. q
  <2>1. /\ slats \in 0 .. FullTilt /\ diff \in Int /\ q \in Nat /\ q = TiltLoss \div TiltClosed
        /\ call.current.rotation # Unknown =>
              Reads(call.current.rotation, slats, TiltClosed, FullTilt)
    BY <1>3, <1>4, <1>5
  <2> HIDE DEF slats, diff
  <2>2. Allowed(slats, call.current, diff, q)
    BY <2>1, TiltAllowed
  <2> QED
    BY <2>2 DEF Allowed
<1>7. PICK high \in Nat, low \in Nat :
          /\ high = (q + TiltOffset) * Extended /\ low = fewer * Extended
  BY <1>1
<1>8. /\ PositionSlack = high + TravelLoss
      /\ call.current.rotation # Unknown => low <= high
      /\ low <= high \/ low = FullTilt * Extended
  BY <1>5, <1>6, <1>7
<1>9. PositionStep(goal, call.current)
         = StepFor(StepTime(Truncated(diff * MoveTime, Extended) + TiltTime(diff, call.current)), diff)
  BY DEF PositionStep
<1>10. CASE diff > 0
  <2>1. diff \in 0 .. Extended /\ read <= goal
    BY <1>1, <1>3, <1>4, <1>10
  <2>2. PICK m \in Nat, cut \in 0 .. Loss(MoveTime, Extended) :
            diff * MoveTime = m * Extended + cut /\ Truncated(diff * MoveTime, Extended) = m
    BY <1>1, <2>1, Duration
  <2>3. PositionStep(goal, call.current) = StepFor(m + k + TiltOffset, diff)
    BY <1>6, <1>9, <1>10, <2>2, Sums
  <2>4. next = Commanded(b, "STEP_DOWN", m + k + TiltOffset, wait)
    BY <1>10, <2>3, StepForIs
  <2>5. m + k \in Nat
    OBVIOUS
  <2>6. to = DownTravel(travel, slats, m + k + d)
    BY <2>4, <2>5, StepIs
  <2>7. slats + k - FullTilt \in -fewer .. q
    BY <1>6, <1>10
  <2> HIDE DEF to, d, travel, slats, goal, read
  <2>8. /\ to \in 0 .. MoveTime
        /\ to * Extended - goal * MoveTime >= -(fewer * Extended + TravelLoss)
        /\ to * Extended - goal * MoveTime <= (q + TiltOffset) * Extended + TravelLoss
    BY <1>1, <1>3, <2>1, <2>2, <2>6, <2>7, TravelDown DEF diff
  <2>9. x \in Int /\ x >= -(low + TravelLoss) /\ x <= high + TravelLoss
    BY <1>1, <1>4, <1>7, <2>8
  <2> HIDE DEF x
  <2>10. PICK tilt \in Nat : tilt = FullTilt * Extended
    BY <1>5
  <2>11. /\ x <= PositionSlack /\ x >= -(tilt + PositionSlack)
         /\ call.current.rotation # Unknown => x >= -PositionSlack
    BY <1>5, <1>7, <1>8, <2>9, <2>10
  <2>12. TRUE <=> goal > read
    BY <1>4, <1>10
  <2> QED
    BY <1>2, <2>9, <2>10, <2>11, <2>12, PositionWithin DEF x, goal, read, to
<1>11. CASE ~(diff > 0)
  <2>1. read - goal \in 0 .. Extended /\ goal <= read /\ diff = 0 - (read - goal)
    BY <1>1, <1>3, <1>4, <1>11
  <2>2. PICK m \in Nat, cut \in 0 .. Loss(MoveTime, Extended) :
            /\ (read - goal) * MoveTime = m * Extended + cut
            /\ Truncated((0 - (read - goal)) * MoveTime, Extended) = -m
    BY <1>1, <2>1, Duration
  <2>3. PositionStep(goal, call.current) = StepFor(m + k + TiltOffset, diff)
    BY <1>6, <1>9, <1>11, <2>1, <2>2, Sums
  <2>4. next = Commanded(b, "STEP_UP", m + k + TiltOffset, wait)
    BY <1>11, <2>3, StepForIs
  <2>5. m + k \in Nat
    OBVIOUS
  <2>6. to = UpTravel(travel, slats, m + k + d)
    BY <2>4, <2>5, StepIs
  <2>7. k - slats \in -fewer .. q
    BY <1>6, <1>11
  <2> HIDE DEF to, d, travel, slats, goal, read
  <2>8. /\ to \in 0 .. MoveTime
        /\ to * Extended - goal * MoveTime >= -((q + TiltOffset) * Extended + TravelLoss)
        /\ to * Extended - goal * MoveTime <= fewer * Extended + TravelLoss
    BY <1>1, <1>3, <2>1, <2>2, <2>6, <2>7, TravelUp
  <2>9. x \in Int /\ x >= -(high + TravelLoss) /\ x <= low + TravelLoss
    BY <1>1, <1>4, <1>7, <2>8
  <2> HIDE DEF x
  <2>10. PICK tilt \in Nat : tilt = FullTilt * Extended
    BY <1>5
  <2>11. /\ x >= -PositionSlack /\ x <= tilt + PositionSlack
         /\ call.current.rotation # Unknown => x <= PositionSlack
    BY <1>5, <1>7, <1>8, <2>9, <2>10
  <2>12. FALSE <=> goal > read
    BY <1>4, <1>11
  <2> QED
    BY <1>2, <2>9, <2>10, <2>11, <2>12, PositionWithin DEF x, goal, read, to
<1> QED
  BY <1>10, <1>11

\* Slats that have a way down to go run out of it by no more than rounding, before the
\* blind travels; slats on their way up never do.
LEMMA NoMoreDown ==
    ASSUME NEW slats \in 0 .. FullTilt, NEW read, Reads(read, slats, TiltClosed, FullTilt),
           NEW goal \in 0 .. TiltClosed, NEW m \in Nat, NEW cut \in Nat,
           (goal - read) * FullTilt = m * TiltClosed + cut
    PROVE  slats + m - FullTilt <= TiltLoss \div TiltClosed
<1>1. /\ TiltClosed \in Nat \ {0} /\ FullTilt \in Nat \ {0} /\ TiltLoss \in Nat
      /\ Loss(TiltClosed, FullTilt) \in Nat /\ Loss(FullTilt, TiltClosed) \in Nat
      /\ TiltLoss = Loss(TiltClosed, FullTilt) + Loss(FullTilt, TiltClosed)
  BY Lengths, Slacks DEF TiltLoss
<1>2. PICK over \in 0 .. Loss(TiltClosed, FullTilt) : slats * TiltClosed = read * FullTilt + over
  BY DEF Reads
<1>3. read \in 0 .. TiltClosed
  BY DEF Reads
<1>4. slats \in Int /\ read \in Int /\ over \in Nat /\ goal \in Int /\ goal <= TiltClosed
  BY <1>1, <1>2, <1>3
<1> DEFINE e == slats + m - FullTilt
<1>5. e \in Int /\ e * TiltClosed = slats * TiltClosed + m * TiltClosed - FullTilt * TiltClosed
  BY <1>1, <1>4
<1>6. /\ (goal - read) * FullTilt = goal * FullTilt - read * FullTilt
      /\ goal * FullTilt <= TiltClosed * FullTilt
      /\ TiltClosed * FullTilt = FullTilt * TiltClosed
  <2>1. goal * FullTilt <= TiltClosed * FullTilt
    BY <1>1, <1>4, Products
  <2> QED
    BY <1>1, <1>4, <2>1
<1>7. /\ slats * TiltClosed \in Int /\ m * TiltClosed \in Int /\ FullTilt * TiltClosed \in Int
      /\ read * FullTilt \in Int /\ goal * FullTilt \in Int
  BY <1>1, <1>4
<1> HIDE DEF e
<1>8. e * TiltClosed <= over
  BY <1>2, <1>4, <1>5, <1>6, <1>7
<1>9. e * TiltClosed <= TiltLoss
  BY <1>1, <1>2, <1>4, <1>5, <1>8
<1>10. e <= TiltLoss \div TiltClosed
  BY <1>1, <1>5, <1>9, Quotient
<1> QED
  BY <1>10 DEF e

LEMMA NoMoreUp ==
    ASSUME NEW slats \in 0 .. FullTilt, NEW read, Reads(read, slats, TiltClosed, FullTilt),
           NEW goal \in 0 .. TiltClosed, NEW m \in Nat, NEW cut \in Nat,
           (read - goal) * FullTilt = m * TiltClosed + cut
    PROVE  m <= slats
<1>1. TiltClosed \in Nat \ {0} /\ FullTilt \in Nat \ {0} /\ Loss(TiltClosed, FullTilt) \in Nat
  BY Lengths, Slacks
<1>2. PICK over \in 0 .. Loss(TiltClosed, FullTilt) : slats * TiltClosed = read * FullTilt + over
  BY DEF Reads
<1>3. read \in 0 .. TiltClosed
  BY DEF Reads
<1>4. slats \in Int /\ read \in Int /\ over \in Nat /\ goal \in Nat
  BY <1>1, <1>2, <1>3
<1>5. /\ (read - goal) * FullTilt = read * FullTilt - goal * FullTilt
      /\ slats * TiltClosed \in Int /\ m * TiltClosed \in Int
      /\ read * FullTilt \in Int /\ goal * FullTilt \in Nat
  BY <1>1, <1>4
<1>6. m * TiltClosed <= slats * TiltClosed
  BY <1>2, <1>4, <1>5
<1>7. slats < m => slats * TiltClosed + TiltClosed <= m * TiltClosed
  BY <1>1, <1>4, Products
<1> QED
  BY <1>1, <1>4, <1>5, <1>6, <1>7

\* Both ends of a step for a rotation within their slacks.
LEMMA RotationWithin ==
    ASSUME NEW call \in Call, call.goal.kind = "rotation", NEW travel, NEW slats,
           NEW x \in Int, NEW y \in Int,
           x = slats * TiltClosed - call.goal.value * FullTilt,
           x >= -RotationSlack, x <= RotationSlack,
           call.current.position # Unknown => y = travel * Extended - call.current.position * MoveTime,
           y >= -PositionSlack, y <= PositionSlack
    PROVE  Met(call, travel, slats)
<1>1. PICK turned \in Nat, slack \in Nat : turned = RotationSlack /\ slack = PositionSlack
  BY Slacks
<1>2. Abs(x) <= turned /\ Abs(y) <= slack
  BY <1>1 DEF Abs
<1>3. RotationMet(call, travel, slats)
  BY <1>1, <1>2 DEF RotationMet, OffRotation, OffPosition
<1> QED
  BY <1>3 DEF Met, PositionMet, NotBeyond

\* A blind that moves by e ticks at most stays within the slack of what was read.
LEMMA StaysNear ==
    ASSUME NEW travel \in 0 .. MoveTime, NEW read, Reads(read, travel, Extended, MoveTime),
           NEW q \in Nat, q = TiltLoss \div TiltClosed, NEW to \in 0 .. MoveTime,
           to <= travel + (q + TiltOffset), travel <= to + TiltOffset
    PROVE  /\ to * Extended - read * MoveTime \in Int
           /\ to * Extended - read * MoveTime >= -PositionSlack
           /\ to * Extended - read * MoveTime <= PositionSlack
<1>1. /\ Extended \in Nat \ {0} /\ MoveTime \in Nat \ {0} /\ TiltOffset \in Nat
      /\ Loss(Extended, MoveTime) \in Nat /\ Loss(MoveTime, Extended) \in Nat
  BY Lengths, Slacks
<1>2. PICK over \in 0 .. Loss(Extended, MoveTime) : travel * Extended = read * MoveTime + over
  BY DEF Reads
<1>3. PICK p \in Nat :
          /\ p = TiltLoss \div TiltClosed
          /\ PositionSlack = (p + TiltOffset) * Extended + TravelLoss
          /\ p * Extended <= (p + TiltOffset) * Extended
          /\ p * Extended \in Nat /\ TravelLoss \in Nat
          /\ TiltOffset * Extended <= (p + TiltOffset) * Extended
  BY SlackIs
<1>4. to \in Int /\ travel \in Int /\ read \in Int /\ over \in Nat
  BY <1>1, <1>2 DEF Reads
<1>5. over <= TravelLoss
  BY <1>1, <1>2, <1>4 DEF TravelLoss
<1>6. /\ to * Extended <= (travel + (q + TiltOffset)) * Extended
      /\ travel * Extended <= (to + TiltOffset) * Extended
  <2>1. travel + (q + TiltOffset) \in Int /\ to + TiltOffset \in Int /\ Extended \in Nat
    BY <1>1, <1>4
  <2> QED
    BY <1>4, <2>1, Products
<1>7. /\ (travel + (q + TiltOffset)) * Extended = travel * Extended + (q + TiltOffset) * Extended
      /\ (to + TiltOffset) * Extended = to * Extended + TiltOffset * Extended
  BY <1>1, <1>4
<1>8. PICK a \in Int, b \in Int, c \in Int, f \in Nat, g \in Nat :
          /\ a = to * Extended /\ b = travel * Extended /\ c = read * MoveTime
          /\ f = (q + TiltOffset) * Extended /\ g = TiltOffset * Extended
  BY <1>1, <1>4
<1>9. /\ b = c + over /\ a <= b + f /\ b <= a + g /\ g <= f
      /\ PositionSlack = f + TravelLoss
  BY <1>2, <1>3, <1>6, <1>7, <1>8
<1>10. a - c \in Int /\ a - c >= -PositionSlack /\ a - c <= PositionSlack
  BY <1>3, <1>4, <1>5, <1>9
<1> QED
  BY <1>8, <1>10

\* set_rotation's step ends where it is meant to, and the blind stays.
LEMMA RotationStepMet ==
    ASSUME NEW b \in Blinds, NEW call \in Call, ReadOf(call, b),
           call.goal.kind = "rotation", Standing(call) \notin {Unknown, call.goal.value},
           NEW wait \in 0 .. TiltOffset, NEW step_time, NEW next,
           next = Carried(b, RotationStep(call.goal.value, call.current), step_time, wait)
    PROVE  Met(call, EndTravel(next), EndSlats(next))
<1> DEFINE goal == call.goal.value
           read == call.current.rotation
           place == call.current.position
           diff == goal - read
           travel == b.travel
           slats == b.slats
           d == TiltOffset - wait
           turned == EndSlats(next)
           to == EndTravel(next)
           x == turned * TiltClosed - goal * FullTilt
           y == to * Extended - place * MoveTime
<1>1. /\ Extended \in Nat \ {0} /\ MoveTime \in Nat \ {0} /\ TiltOffset \in Nat
      /\ FullTilt \in Nat \ {0} /\ TiltClosed \in Nat \ {0}
      /\ wait \in Nat /\ d \in 0 .. TiltOffset
  BY Lengths
<1>2. read # Unknown /\ read # goal
  BY DEF Standing
<1>3. /\ goal \in 0 .. TiltClosed /\ Reads(read, slats, TiltClosed, FullTilt)
      /\ place # Unknown => Reads(place, travel, Extended, MoveTime)
      /\ travel \in 0 .. MoveTime /\ slats \in 0 .. FullTilt
  BY <1>2, CallIs
<1>4. read \in 0 .. TiltClosed /\ goal \in Int /\ read \in Int /\ diff \in Int
  BY <1>1, <1>3 DEF Reads
<1>5. PICK over \in 0 .. Loss(TiltClosed, FullTilt) : slats * TiltClosed = read * FullTilt + over
  BY <1>3 DEF Reads
<1>6. PICK q \in Nat : q = TiltLoss \div TiltClosed
  BY Slacks
<1>7. PICK offset \in Nat : offset = TiltOffset * TiltClosed /\ RotationSlack = offset + TiltLoss
  BY <1>1 DEF RotationSlack
<1>8. /\ TiltLoss = Loss(TiltClosed, FullTilt) + Loss(FullTilt, TiltClosed)
      /\ Loss(TiltClosed, FullTilt) \in Nat /\ Loss(FullTilt, TiltClosed) \in Nat
      /\ over \in Nat
  BY <1>5, Slacks DEF TiltLoss
<1>9. RotationStep(goal, call.current)
         = StepFor(StepTime(Truncated(diff * FullTilt, TiltClosed)), diff)
  BY DEF RotationStep
<1>10. /\ turned \in 0 .. FullTilt
       /\ x >= -RotationSlack /\ x <= RotationSlack
       /\ to \in 0 .. MoveTime
       /\ to <= travel + (q + TiltOffset) /\ travel <= to + TiltOffset
  <2>1. CASE diff > 0
    <3>1. diff \in 0 .. TiltClosed /\ read <= goal
      BY <1>1, <1>3, <1>4, <2>1
    <3>2. PICK m \in Nat, cut \in 0 .. Loss(FullTilt, TiltClosed) :
              diff * FullTilt = m * TiltClosed + cut /\ Truncated(diff * FullTilt, TiltClosed) = m
      BY <1>1, <3>1, Duration
    <3>3. cut \in Nat /\ over + cut <= TiltLoss
      BY <1>5, <1>8, <3>2
    <3>4. RotationStep(goal, call.current) = StepFor(m + TiltOffset, diff)
      BY <1>9, <3>2, Sums
    <3>5. next = Commanded(b, "STEP_DOWN", m + TiltOffset, wait)
      BY <2>1, <3>4, StepForIs
    <3>6. turned = DownSlats(slats, m + d) /\ to = DownTravel(travel, slats, m + d)
      BY <3>5, StepIs
    <3>7. m + d \in Nat /\ 0 \in Nat
      BY <1>1
    <3>8. /\ turned = DownTo(slats, slats + (m + d), FullTilt)
          /\ to = DownTo(travel, travel + (slats + (m + d) - FullTilt), MoveTime)
      BY <1>3, <3>6, <3>7, EndsAre
    <3>9. slats + m - FullTilt <= q
      BY <1>3, <1>6, <3>2, <3>3, NoMoreDown
    <3> HIDE DEF to, turned, d, travel, slats, goal, read
    <3>10. d \in -0 .. TiltOffset /\ slats + (m + d) = slats + m + d
      <4>1. PICK z \in Int : z = -0
        OBVIOUS
      <4>2. z <= 0
        BY <4>1
      <4> QED
        BY <1>1, <1>3, <4>1, <4>2
    <3>11. /\ DownTo(slats, slats + m + d, FullTilt) \in 0 .. FullTilt
           /\ DownTo(slats, slats + m + d, FullTilt) * TiltClosed - goal * FullTilt
                 >= -(0 * TiltClosed + over + cut)
           /\ DownTo(slats, slats + m + d, FullTilt) * TiltClosed - goal * FullTilt
                 <= TiltOffset * TiltClosed + over + cut
      <4>1. (goal - read) * FullTilt = m * TiltClosed + cut
        BY <3>2 DEF diff
      <4> HIDE DEF diff
      <4> QED
        BY <1>1, <1>3, <1>4, <1>5, <1>8, <3>1, <3>3, <3>7, <3>10, <4>1, Downward
    <3>12. turned \in 0 .. FullTilt /\ x >= -(over + cut) /\ x <= offset + over + cut /\ x \in Int
      BY <1>1, <1>3, <1>7, <1>8, <3>3, <3>8, <3>10, <3>11
    <3> HIDE DEF x
    <3>13. x >= -RotationSlack /\ x <= RotationSlack
      BY <1>7, <1>8, <3>3, <3>12
    <3>14. /\ to \in 0 .. MoveTime /\ to <= travel + (q + TiltOffset)
           /\ travel <= to + TiltOffset
      BY <1>1, <1>3, <3>8, <3>9 DEF DownTo
    <3> QED
      BY <3>12, <3>13, <3>14
  <2>2. CASE ~(diff > 0)
    <3>1. read - goal \in 0 .. TiltClosed /\ goal <= read /\ diff = 0 - (read - goal)
      BY <1>1, <1>3, <1>4, <2>2
    <3>2. PICK m \in Nat, cut \in 0 .. Loss(FullTilt, TiltClosed) :
              /\ (read - goal) * FullTilt = m * TiltClosed + cut
              /\ Truncated((0 - (read - goal)) * FullTilt, TiltClosed) = -m
      BY <1>1, <3>1, Duration
    <3>3. cut \in Nat /\ over + cut <= TiltLoss
      BY <1>5, <1>8, <3>2
    <3>4. RotationStep(goal, call.current) = StepFor(m + TiltOffset, diff)
      BY <1>9, <3>1, <3>2, Sums
    <3>5. next = Commanded(b, "STEP_UP", m + TiltOffset, wait)
      BY <2>2, <3>4, StepForIs
    <3>6. turned = UpSlats(slats, m + d) /\ to = UpTravel(travel, slats, m + d)
      BY <3>5, StepIs
    <3>7. m + d \in Nat /\ 0 \in Nat
      BY <1>1
    <3>8. /\ turned = UpTo(slats, slats - (m + d))
          /\ to = UpTo(travel, travel - ((m + d) - slats))
      BY <1>3, <3>6, <3>7, EndsAre
    <3>9. m <= slats
      BY <1>3, <3>2, <3>3, NoMoreUp
    <3> HIDE DEF to, turned, d, travel, slats, goal, read
    <3>10. d \in -0 .. TiltOffset /\ slats - (m + d) = slats - m - d
      <4>1. PICK z \in Int : z = -0
        OBVIOUS
      <4>2. z <= 0
        BY <4>1
      <4> QED
        BY <1>1, <1>3, <4>1, <4>2
    <3>11. /\ UpTo(slats, slats - m - d) \in 0 .. FullTilt
           /\ UpTo(slats, slats - m - d) * TiltClosed - goal * FullTilt
                 >= -(TiltOffset * TiltClosed + over + cut)
           /\ UpTo(slats, slats - m - d) * TiltClosed - goal * FullTilt
                 <= 0 * TiltClosed + over + cut
      BY <1>1, <1>3, <1>4, <1>5, <1>8, <3>1, <3>2, <3>3, <3>7, <3>10, Upward
    <3>12. turned \in 0 .. FullTilt /\ x >= -(offset + over + cut) /\ x <= over + cut /\ x \in Int
      BY <1>1, <1>3, <1>7, <1>8, <3>3, <3>8, <3>10, <3>11
    <3> HIDE DEF x
    <3>13. x >= -RotationSlack /\ x <= RotationSlack
      BY <1>7, <1>8, <3>3, <3>12
    <3>14. /\ to \in 0 .. MoveTime /\ to <= travel + (q + TiltOffset)
           /\ travel <= to + TiltOffset
      BY <1>1, <1>3, <3>8, <3>9 DEF UpTo
    <3> QED
      BY <3>12, <3>13, <3>14
  <2> QED
    BY <2>1, <2>2
<1>11. x \in Int
  BY <1>1, <1>3, <1>10
<1>12. CASE place # Unknown
  <2>1. y \in Int /\ y >= -PositionSlack /\ y <= PositionSlack
    BY <1>3, <1>6, <1>10, <1>12, StaysNear
  <2> HIDE DEF x, y
  <2>2. x = turned * TiltClosed - goal * FullTilt /\ y = to * Extended - place * MoveTime
    BY DEF x, y
  <2> QED
    BY <1>10, <1>11, <2>1, <2>2, RotationWithin
<1>13. CASE place = Unknown
  BY <1>13 DEF Met, RotationMet, PositionMet, NotBeyond
<1> QED
  BY <1>12, <1>13

\* UP and DOWN have the time to run to the end, from anywhere.
LEMMA EndpointMet ==
    ASSUME NEW b \in Blinds, NEW call \in Call, Endpoint(call.goal),
           NEW wait, NEW step_time, NEW next,
           next = Carried(b, First(call.goal), step_time, wait)
    PROVE  Met(call, EndTravel(next), EndSlats(next))
<1>1. MoveTime \in Nat \ {0} /\ FullTilt \in Nat /\ Extended \in Nat \ {0} /\ PositionSlack \in Nat
  BY Lengths, Slacks
<1>2. b.travel \in 0 .. MoveTime /\ b.slats \in 0 .. FullTilt
  BY DEF Blinds
<1>3. MoveTime + FullTilt \in Nat /\ b.slats <= MoveTime + FullTilt
  BY <1>1, <1>2
<1>4. OffPosition(EndTravel(next), call.goal.value) <= PositionSlack
  <2>1. CASE call.goal.value = 0
    <3>1. next = Commanded(b, "UP", step_time, wait)
      BY <2>1, CommandIs DEF First
    <3>2. next = [b EXCEPT !.way = "up", !.wait = 0, !.left = MoveTime + FullTilt]
      BY <3>1 DEF Commanded
    <3>3. /\ next.travel = b.travel /\ next.slats = b.slats /\ next.way = "up"
          /\ next.wait = 0 /\ next.left = MoveTime + FullTilt
      BY <3>2 DEF Blinds
    <3>4. Moves(next) = MoveTime + FullTilt
      BY <1>1, <3>3 DEF Moves
    <3>5. EndTravel(next) = UpTravel(b.travel, b.slats, MoveTime + FullTilt)
      BY <3>3, <3>4 DEF EndTravel
    <3>6. EndTravel(next) = 0
      BY <1>1, <1>2, <3>5 DEF UpTravel
    <3>7. 0 * Extended - 0 * MoveTime = 0
      BY <1>1
    <3> QED
      BY <1>1, <2>1, <3>6, <3>7 DEF OffPosition, Abs
  <2>2. CASE call.goal.value # 0
    <3>1. call.goal.value = Extended
      BY <2>2 DEF Endpoint
    <3>2. next = Commanded(b, "DOWN", step_time, wait)
      BY <2>2, CommandIs DEF First
    <3>3. next = [b EXCEPT !.way = "down", !.wait = 0, !.left = MoveTime + FullTilt]
      BY <3>2 DEF Commanded
    <3>4. /\ next.travel = b.travel /\ next.slats = b.slats /\ next.way = "down"
          /\ next.wait = 0 /\ next.left = MoveTime + FullTilt
      BY <3>3 DEF Blinds
    <3>5. Moves(next) = MoveTime + FullTilt
      BY <1>1, <3>4 DEF Moves
    <3>6. EndTravel(next) = DownTravel(b.travel, b.slats, MoveTime + FullTilt)
      BY <3>4, <3>5 DEF EndTravel
    <3>7. EndTravel(next) = MoveTime
      BY <1>1, <1>2, <3>6 DEF DownTravel
    <3>8. MoveTime * Extended - Extended * MoveTime = 0
      BY <1>1
    <3> QED
      BY <1>1, <3>1, <3>7, <3>8 DEF OffPosition, Abs
  <2> QED
    BY <2>1, <2>2
<1>5. call.goal.kind = "position"
  BY DEF Endpoint
<1> QED
  BY <1>4, <1>5 DEF Met, PositionMet, RotationMet, NotBeyond

-----------------------------------------------------------------------------
(***************************************************************************)
(* Types                                                                   *)
(***************************************************************************)
LEMMA CarriedType ==
    ASSUME NEW b \in Blinds, NEW setters \in Requests, NEW stale, NEW wait \in 0 .. TiltOffset,
           NEW next, next = Carried(b, setters, stale, wait)
    PROVE  next \in Blinds /\ ((next.way = "still") <=> (next.left = 0))
<1>1. /\ MoveTime + FullTilt \in Nat \ {0} /\ 0 \in 0 .. TiltOffset /\ 0 \in Nat
      /\ "still" \in Ways /\ "up" \in Ways /\ "down" \in Ways
  BY Lengths DEF Ways
<1>2. CASE \E name \in {"STOP", "UP", "DOWN"} : setters = <<Command(name)>>
  <2>1. PICK name \in {"STOP", "UP", "DOWN"} : setters = <<Command(name)>>
    BY <1>2
  <2>2. next = Commanded(b, name, stale, wait)
    BY <2>1, CommandIs
  <2>3. CASE name = "STOP"
    BY <2>2, <2>3, StopIs
  <2>4. CASE name = "UP"
    <3>1. next = [b EXCEPT !.way = "up", !.wait = 0, !.left = MoveTime + FullTilt]
      BY <2>2, <2>4 DEF Commanded
    <3> QED
      BY <1>1, <3>1 DEF Blinds
  <2>5. CASE name = "DOWN"
    <3>1. next = [b EXCEPT !.way = "down", !.wait = 0, !.left = MoveTime + FullTilt]
      BY <2>2, <2>5 DEF Commanded
    <3> QED
      BY <1>1, <3>1 DEF Blinds
  <2> QED
    BY <2>1, <2>3, <2>4, <2>5
<1>3. CASE \E time \in Nat \ {0}, diff \in Int : setters = StepFor(time, diff)
  <2>1. PICK time \in Nat \ {0}, diff \in Int : setters = StepFor(time, diff)
    BY <1>3
  <2>2. next = Commanded(b, IF diff > 0 THEN "STEP_DOWN" ELSE "STEP_UP", time, wait)
    BY <2>1, StepForIs
  <2>3. CASE diff > 0
    <3>1. next = [b EXCEPT !.way = "down", !.wait = wait, !.left = time]
      BY <2>2, <2>3 DEF Commanded
    <3> QED
      BY <1>1, <3>1 DEF Blinds
  <2>4. CASE ~(diff > 0)
    <3>1. next = [b EXCEPT !.way = "up", !.wait = wait, !.left = time]
      BY <2>2, <2>4 DEF Commanded
    <3> QED
      BY <1>1, <3>1 DEF Blinds
  <2> QED
    BY <2>3, <2>4
<1> QED
  BY <1>2, <1>3 DEF Requests

LEMMA TruncatedType ==
    ASSUME NEW n \in Int, NEW d \in Nat \ {0}
    PROVE  Truncated(n, d) \in Int
<1>1. n \div d \in Int /\ (-n) \div d \in Int
  OBVIOUS
<1> QED
  BY <1>1 DEF Truncated

LEMMA StepTimeType ==
    ASSUME NEW n \in Int
    PROVE  StepTime(n) \in Nat \ {0}
<1>1. Abs(n) \in Nat
  BY DEF Abs
<1> QED
  BY <1>1, Lengths DEF StepTime

\* Whatever a call sends is a request the blind knows.
LEMMA SettersType ==
    ASSUME NEW call \in Call
    PROVE  Setters(call) \in Requests
<1>1. /\ call.goal \in Goals /\ call.current \in Current
      /\ call.current.position \in (0 .. Extended) \cup {Unknown}
      /\ call.current.rotation \in (0 .. TiltClosed) \cup {Unknown}
  BY DEF Call, Current
<1>2. call.goal.kind \in {"position", "rotation"} /\ call.goal.value \in Int
  <2>1. \/ call.goal \in [kind : {"position"}, value : 0 .. Extended]
        \/ call.goal \in [kind : {"rotation"}, value : 0 .. TiltClosed]
    BY <1>1, BlindAssumption
  <2> QED
    BY <2>1
<1>3. First(call.goal) \in Requests
  BY DEF First, Requests
<1>4. PICK position \in Int, rotation \in Int :
          position = call.current.position /\ rotation = call.current.rotation
  BY <1>1, Lengths DEF Unknown
<1> DEFINE value == call.goal.value
<1>5. PositionStep(value, call.current) \in Requests
  <2> DEFINE diff == value - position
  <2>1. diff \in Int /\ diff * MoveTime \in Int
    BY <1>2, Lengths
  <2>2. Truncated(diff * MoveTime, Extended) \in Int
    BY <2>1, Lengths, TruncatedType
  <2>3. TiltTime(diff, call.current) \in Int
    <3>1. /\ (TiltClosed - rotation) * FullTilt \in Int /\ (0 - rotation) * FullTilt \in Int
          /\ 0 \in Int
      BY Lengths
    <3>2. /\ Truncated((TiltClosed - rotation) * FullTilt, TiltClosed) \in Int
          /\ Truncated((0 - rotation) * FullTilt, TiltClosed) \in Int
      BY <3>1, Lengths, TruncatedType
    <3> QED
      BY <1>4, <3>1, <3>2 DEF TiltTime
  <2>4. StepTime(Truncated(diff * MoveTime, Extended) + TiltTime(diff, call.current)) \in Nat \ {0}
    BY <2>2, <2>3, StepTimeType
  <2>5. PositionStep(value, call.current)
           = StepFor(StepTime(Truncated(diff * MoveTime, Extended) + TiltTime(diff, call.current)), diff)
    BY <1>4 DEF PositionStep
  <2> QED
    BY <2>1, <2>4, <2>5 DEF Requests
<1>6. RotationStep(value, call.current) \in Requests
  <2> DEFINE diff == value - rotation
  <2>1. diff \in Int /\ diff * FullTilt \in Int
    BY <1>2, Lengths
  <2>2. Truncated(diff * FullTilt, TiltClosed) \in Int
    BY <2>1, Lengths, TruncatedType
  <2>3. StepTime(Truncated(diff * FullTilt, TiltClosed)) \in Nat \ {0}
    BY <2>2, StepTimeType
  <2>4. RotationStep(value, call.current)
           = StepFor(StepTime(Truncated(diff * FullTilt, TiltClosed)), diff)
    BY <1>4 DEF RotationStep
  <2> QED
    BY <2>1, <2>3, <2>4 DEF Requests
<1> QED
  BY <1>3, <1>5, <1>6 DEF Setters

-----------------------------------------------------------------------------
(***************************************************************************)
(* The invariant                                                           *)
(***************************************************************************)
LEMMA IdleType == Idle \in Call /\ Idle.at = "idle" /\ Idle.goal \in Goals
                     /\ Idle.current = NoReading
<1>1. (CHOOSE g \in Goals : TRUE) \in Goals
  BY BlindAssumption
<1>2. NoReading \in Current
  BY DEF NoReading, Current
<1> QED
  BY <1>1, <1>2 DEF Idle, Call

LEMMA BlindInit == Init => BlindInv
<1> SUFFICES ASSUME Init PROVE BlindInv
  OBVIOUS
<1>1. /\ blind \in Blinds /\ blind.way = "still" /\ blind.left = 0
  <2>1. 0 \in 0 .. TiltOffset /\ 0 \in Nat /\ "still" \in Ways
    BY Lengths DEF Ways
  <2> QED
    BY <2>1 DEF Init, Blinds
<1>2. calls = [c \in Callers |-> Idle] /\ adrift = {} /\ master = Nobody
  BY DEF Init
<1>3. IsFiniteSet(adrift) /\ Cardinality(adrift) = 0 /\ MaxAdrift \in Nat
  BY <1>2, FS_EmptySet, BlindAssumption
<1>4. Typed
  BY <1>1, <1>2, <1>3, IdleType DEF Typed
<1>5. \A c \in Callers : InTurn(calls[c])
  BY <1>2, IdleType DEF InTurn
<1>6. \A c \in Callers : master # c
  BY <1>2, BlindAssumption
<1> QED
  BY <1>4, <1>5, <1>6 DEF BlindInv

\* The requests given up stay requests, as many as may be.
LEMMA AdriftMore ==
    ASSUME Typed, NEW setters \in Requests, Cardinality(adrift) < MaxAdrift
    PROVE  /\ adrift \cup {setters} \subseteq Requests /\ IsFiniteSet(adrift \cup {setters})
           /\ Cardinality(adrift \cup {setters}) <= MaxAdrift
<1>1. /\ IsFiniteSet(adrift) /\ adrift \subseteq Requests /\ Cardinality(adrift) \in Nat
      /\ MaxAdrift \in Nat
  BY FS_CardinalityType, BlindAssumption DEF Typed
<1>2. /\ IsFiniteSet(adrift \cup {setters})
      /\ \/ Cardinality(adrift \cup {setters}) = Cardinality(adrift)
         \/ Cardinality(adrift \cup {setters}) = Cardinality(adrift) + 1
  BY <1>1, FS_AddElement
<1> QED
  BY <1>1, <1>2

LEMMA AdriftFewer ==
    ASSUME Typed, NEW setters \in adrift
    PROVE  /\ adrift \ {setters} \subseteq Requests /\ IsFiniteSet(adrift \ {setters})
           /\ Cardinality(adrift \ {setters}) <= MaxAdrift
<1>1. /\ IsFiniteSet(adrift) /\ adrift \subseteq Requests /\ Cardinality(adrift) \in Nat
      /\ Cardinality(adrift) <= MaxAdrift /\ MaxAdrift \in Nat
  BY FS_CardinalityType, BlindAssumption DEF Typed
<1>2. /\ IsFiniteSet(adrift \ {setters})
      /\ Cardinality(adrift \ {setters}) = Cardinality(adrift) - 1
  BY <1>1, FS_RemoveElement
<1> QED
  BY <1>1, <1>2

\* One call moves on, and the blind is left alone.
LEMMA CallMoves ==
    ASSUME BlindInv, NEW c \in Callers, NEW next \in Call,
           calls' = [calls EXCEPT ![c] = next], blind' = blind,
           adrift' \subseteq Requests, IsFiniteSet(adrift'), Cardinality(adrift') <= MaxAdrift,
           master' \in {master, Nobody},
           InTurn(next), master' = c => Mastered(next)
    PROVE  BlindInv'
<1> USE DEF BlindInv
<1>1. calls \in [Callers -> Call] /\ Nobody \notin Callers
  BY BlindAssumption DEF Typed
<1>2. calls' \in [Callers -> Call] /\ calls'[c] = next
      /\ \A d \in Callers : d # c => calls'[d] = calls[d]
  BY <1>1
<1>3. Typed'
  <2>1. blind' \in Blinds /\ ((blind'.way = "still") <=> (blind'.left = 0))
    BY DEF Typed
  <2>2. master' \in Callers \cup {Nobody}
    BY DEF Typed
  <2> QED
    BY <1>2, <2>1, <2>2 DEF Typed
<1>4. ASSUME NEW d \in Callers
      PROVE  InTurn(calls'[d])
  BY <1>2
<1>5. ASSUME NEW d \in Callers, master' = d
      PROVE  Mastered(calls[d])'
  <2>1. CASE d = c
    <3>1. Mastered(next)
      BY <1>5, <2>1
    <3>2. calls'[d] = next
      BY <1>2, <2>1
    <3> QED
      BY <3>1, <3>2 DEF Mastered
  <2>2. CASE d # c
    <3>1. master = d /\ Mastered(calls[d]) /\ calls'[d] = calls[d]
      BY <1>1, <1>2, <1>5, <2>2
    <3> QED
      BY <3>1 DEF Mastered
  <2> QED
    BY <2>1, <2>2
<1> QED
  BY <1>3, <1>4, <1>5 DEF InTurn

\* The read answer is of the blind as it stands.
LEMMA ReadingIs ==
    ASSUME blind \in Blinds, NEW reading \in Readings
    PROVE  /\ reading \in Current
           /\ reading.position \in {(blind.travel * Extended) \div MoveTime, Unknown}
           /\ reading.rotation \in {(blind.slats * TiltClosed) \div FullTilt, Unknown}
<1>1. blind.travel \in 0 .. MoveTime /\ blind.slats \in 0 .. FullTilt
  BY DEF Blinds
<1>2. (blind.travel * Extended) \div MoveTime \in 0 .. Extended
  BY <1>1, Lengths, Reading DEF Reads
<1>3. (blind.slats * TiltClosed) \div FullTilt \in 0 .. TiltClosed
  BY <1>1, Lengths, Reading DEF Reads
<1> QED
  BY <1>2, <1>3 DEF Readings, Current

\* A call that finds what it was asked for, or finds nothing, has nothing to do.
LEMMA NothingToDo ==
    ASSUME NEW b \in Blinds, NEW call \in Call, ReadOf(call, b), ~Endpoint(call.goal),
           Standing(call) \in {Unknown, call.goal.value}
    PROVE  Met(call, b.travel, b.slats)
<1>1. /\ call.goal.kind = "position" => call.goal.value \in 0 .. Extended
      /\ call.goal.kind = "rotation" => call.goal.value \in 0 .. TiltClosed
      /\ call.goal.kind \in {"position", "rotation"}
      /\ call.current.position # Unknown =>
            Reads(call.current.position, b.travel, Extended, MoveTime)
      /\ call.current.rotation # Unknown =>
            Reads(call.current.rotation, b.slats, TiltClosed, FullTilt)
      /\ b.travel \in 0 .. MoveTime /\ b.slats \in 0 .. FullTilt
  BY CallIs
<1>2. CASE Standing(call) = Unknown
  BY <1>1, <1>2 DEF Standing, Met, PositionMet, RotationMet, NotBeyond
<1>3. CASE Standing(call) # Unknown
  <2>1. PICK q \in Nat : q = TiltLoss \div TiltClosed
    BY Slacks
  <2>2. ASSUME call.current.position # Unknown
        PROVE  /\ b.travel * Extended - call.current.position * MoveTime \in Int
               /\ b.travel * Extended - call.current.position * MoveTime >= -PositionSlack
               /\ b.travel * Extended - call.current.position * MoveTime <= PositionSlack
    <3>1. b.travel <= b.travel + (q + TiltOffset) /\ b.travel <= b.travel + TiltOffset
      BY <1>1, <2>1, Lengths
    <3> QED
      BY <1>1, <2>1, <2>2, <3>1, StaysNear
  <2>3. CASE call.goal.kind = "position"
    <3>1. call.current.position # Unknown /\ call.goal.value = call.current.position
      BY <1>3, <2>3 DEF Standing
    <3>2. PICK x \in Int : x = b.travel * Extended - call.goal.value * MoveTime
      BY <2>2, <3>1
    <3>3. x >= -PositionSlack /\ x <= PositionSlack
      BY <2>2, <3>1, <3>2
    <3>4. ~(call.goal.value > call.current.position)
      <4>1. call.goal.value \in Int
        BY <1>1, <2>3
      <4> QED
        BY <3>1, <4>1
    <3>5. x <= FullTilt * Extended + PositionSlack
      <4>1. PICK tilt \in Nat, slack \in Nat : tilt = FullTilt * Extended /\ slack = PositionSlack
        BY Slacks, SlackIs
      <4> QED
        BY <3>3, <4>1
    <3>6. FALSE \in BOOLEAN /\ (FALSE <=> call.goal.value > call.current.position)
      BY <3>4
    <3> QED
      BY <2>3, <3>1, <3>2, <3>3, <3>5, <3>6, PositionWithin
  <2>4. CASE call.goal.kind = "rotation"
    <3>1. call.current.rotation # Unknown /\ call.goal.value = call.current.rotation
      BY <1>3, <2>4 DEF Standing
    <3>2. PICK over \in 0 .. Loss(TiltClosed, FullTilt) :
              b.slats * TiltClosed = call.goal.value * FullTilt + over
      BY <1>1, <3>1 DEF Reads
    <3>3. over \in Nat /\ over <= RotationSlack
      <4>1. PICK one \in Nat, two \in Nat, start \in Nat :
                /\ one = Loss(TiltClosed, FullTilt) /\ two = Loss(FullTilt, TiltClosed)
                /\ start = TiltOffset * TiltClosed
        BY Slacks, Lengths
      <4>2. RotationSlack = start + (one + two)
        BY <4>1 DEF RotationSlack, TiltLoss
      <4> QED
        BY <3>2, <4>1, <4>2
    <3>4. PICK x \in Int : x = b.slats * TiltClosed - call.goal.value * FullTilt
      BY <1>1, <2>4, Lengths
    <3>5. x = over
      <4>1. PICK u \in Int, v \in Int : u = b.slats * TiltClosed /\ v = call.goal.value * FullTilt
        BY <1>1, <2>4, Lengths
      <4> QED
        BY <3>2, <3>3, <3>4, <4>1
    <3>6. x >= -RotationSlack /\ x <= RotationSlack
      BY <3>3, <3>5, Slacks
    <3>7. PICK y \in Int :
              /\ call.current.position # Unknown =>
                    y = b.travel * Extended - call.current.position * MoveTime
              /\ y >= -PositionSlack /\ y <= PositionSlack
      <4>1. CASE call.current.position # Unknown
        BY <2>2, <4>1
      <4>2. CASE call.current.position = Unknown
        <5>1. 0 >= -PositionSlack /\ 0 <= PositionSlack
          BY Slacks
        <5> QED
          BY <4>2, <5>1
      <4> QED
        BY <4>1, <4>2
    <3> QED
      BY <2>4, <3>4, <3>6, <3>7, RotationWithin
  <2> QED
    BY <1>1, <2>3, <2>4
<1> QED
  BY <1>2, <1>3

\* A tick does not change where the blind will end.
LEMMA TickKeeps ==
    ASSUME BlindInv, Tick
    PROVE  BlindInv'
<1> USE DEF BlindInv
<1>1. /\ blind' \in Blinds /\ ((blind'.way = "still") <=> (blind'.left = 0))
      /\ EndTravel(blind') = EndTravel(blind) /\ EndSlats(blind') = EndSlats(blind)
  BY TickEnds DEF Typed
<1>2. calls' = calls /\ adrift' = adrift /\ master' = master /\ blind.way # "still"
  BY DEF Tick
<1>3. Typed'
  BY <1>1, <1>2 DEF Typed
<1>4. ASSUME NEW c \in Callers, master' = c
      PROVE  Mastered(calls[c])'
  <2>1. Mastered(calls[c]) /\ calls'[c] = calls[c]
    BY <1>2, <1>4
  <2>2. calls[c].at \notin {"reading", "read", "stepping"}
    BY <1>2, <2>1 DEF Mastered
  <2> QED
    BY <1>1, <2>1, <2>2 DEF Mastered
<1> QED
  BY <1>2, <1>3, <1>4 DEF InTurn

\* A request begins, is answered, is left or is given up.
LEMMA BeginKeeps ==
    ASSUME BlindInv, NEW c \in Callers, NEW g \in Goals, Begin(c, g)
    PROVE  BlindInv'
<1> DEFINE next == [Idle EXCEPT !.at = IF Endpoint(g) THEN "ending" ELSE "stopping", !.goal = g]
<1>1. /\ calls' = [calls EXCEPT ![c] = next] /\ blind' = blind /\ adrift' = adrift
      /\ master' = IF master = c THEN Nobody ELSE master
  BY DEF Begin
<1>2. next \in Call /\ next.goal = g /\ next.at = IF Endpoint(g) THEN "ending" ELSE "stopping"
  <2>1. "ending" \in Calling /\ "stopping" \in Calling
    BY DEF Calling, Commanding
  <2> QED
    BY <2>1, IdleType DEF Call
<1>3. InTurn(next)
  BY <1>2 DEF InTurn
<1>4. master' \in {master, Nobody} /\ master' # c
  BY <1>1, BlindAssumption
<1>5. adrift' \subseteq Requests /\ IsFiniteSet(adrift') /\ Cardinality(adrift') <= MaxAdrift
  BY <1>1 DEF BlindInv, Typed
<1> HIDE DEF next
<1> QED
  BY <1>1, <1>2, <1>3, <1>4, <1>5, CallMoves

LEMMA ServeReadKeeps ==
    ASSUME BlindInv, NEW c \in Callers, ServeRead(c)
    PROVE  BlindInv'
<1>1. PICK reading \in Readings :
          /\ calls[c].at = "reading"
          /\ calls' = [calls EXCEPT ![c].at = "read", ![c].current = reading]
          /\ blind' = blind /\ adrift' = adrift /\ master' = master
  BY DEF ServeRead
<1> DEFINE next == [calls[c] EXCEPT !.at = "read", !.current = reading]
<1>2. calls \in [Callers -> Call] /\ calls[c] \in Call /\ blind \in Blinds
  BY DEF BlindInv, Typed
<1>3. calls' = [calls EXCEPT ![c] = next]
  BY <1>1, <1>2
<1>4. /\ reading \in Current
      /\ reading.position \in {(blind.travel * Extended) \div MoveTime, Unknown}
      /\ reading.rotation \in {(blind.slats * TiltClosed) \div FullTilt, Unknown}
  BY <1>2, ReadingIs
<1>5. next \in Call /\ next.at = "read" /\ next.goal = calls[c].goal /\ next.current = reading
  <2>1. "read" \in Calling
    BY DEF Calling
  <2> QED
    BY <1>2, <1>4, <2>1 DEF Call
<1>6. InTurn(next)
  BY <1>1, <1>5 DEF BlindInv, InTurn
<1>7. ASSUME master' = c
      PROVE  Mastered(next)
  <2>1. blind.way = "still"
    BY <1>1, <1>7 DEF BlindInv, Mastered
  <2>2. ReadOf(next, blind)
    BY <1>4, <1>5 DEF ReadOf
  <2> QED
    BY <1>5, <2>1, <2>2 DEF Mastered
<1>8. adrift' \subseteq Requests /\ IsFiniteSet(adrift') /\ Cardinality(adrift') <= MaxAdrift
  BY <1>1 DEF BlindInv, Typed
<1> HIDE DEF next
<1> QED
  BY <1>1, <1>3, <1>5, <1>6, <1>7, <1>8, CallMoves

LEMMA LeaveKeeps ==
    ASSUME BlindInv, NEW c \in Callers, Leave(c)
    PROVE  BlindInv'
<1> DEFINE next == [calls[c] EXCEPT !.at = "returned"]
<1>1. /\ calls[c].at = "read" /\ Standing(calls[c]) \in {Unknown, calls[c].goal.value}
      /\ calls' = [calls EXCEPT ![c].at = "returned"]
      /\ blind' = blind /\ adrift' = adrift /\ master' = master
  BY DEF Leave
<1>2. calls \in [Callers -> Call] /\ calls[c] \in Call /\ blind \in Blinds
  BY DEF BlindInv, Typed
<1>3. calls' = [calls EXCEPT ![c] = next]
  BY <1>1, <1>2
<1>4. next \in Call /\ next.at = "returned" /\ next.goal = calls[c].goal
      /\ next.current = calls[c].current
  BY <1>2 DEF Call
<1>5. InTurn(next)
  BY <1>4 DEF InTurn
<1>6. ASSUME master' = c
      PROVE  Mastered(next)
  <2>1. blind.way = "still" /\ ReadOf(calls[c], blind) /\ ~Endpoint(calls[c].goal)
    BY <1>1, <1>6 DEF BlindInv, Mastered, InTurn
  <2>2. Met(calls[c], blind.travel, blind.slats)
    BY <1>1, <1>2, <2>1, NothingToDo
  <2>3. EndTravel(blind) = blind.travel /\ EndSlats(blind) = blind.slats
    BY <2>1 DEF EndTravel, EndSlats
  <2>4. Met(next, EndTravel(blind), EndSlats(blind))
    BY <1>4, <2>2, <2>3 DEF Met, PositionMet, RotationMet, NotBeyond
  <2> QED
    BY <1>4, <2>4 DEF Mastered
<1>7. adrift' \subseteq Requests /\ IsFiniteSet(adrift') /\ Cardinality(adrift') <= MaxAdrift
  BY <1>1 DEF BlindInv, Typed
<1> HIDE DEF next
<1> QED
  BY <1>1, <1>3, <1>4, <1>5, <1>6, <1>7, CallMoves

LEMMA StepKeeps ==
    ASSUME BlindInv, NEW c \in Callers, Step(c)
    PROVE  BlindInv'
<1> DEFINE next == [calls[c] EXCEPT !.at = "stepping"]
<1>1. /\ calls[c].at = "read" /\ Standing(calls[c]) \notin {Unknown, calls[c].goal.value}
      /\ calls' = [calls EXCEPT ![c].at = "stepping"]
      /\ blind' = blind /\ adrift' = adrift /\ master' = master
  BY DEF Step
<1>2. calls \in [Callers -> Call] /\ calls[c] \in Call
  BY DEF BlindInv, Typed
<1>3. calls' = [calls EXCEPT ![c] = next]
  BY <1>1, <1>2
<1>4. next \in Call /\ next.at = "stepping" /\ next.goal = calls[c].goal
      /\ next.current = calls[c].current
  <2>1. "stepping" \in Calling
    BY DEF Calling, Commanding
  <2> QED
    BY <1>2, <2>1 DEF Call
<1>5. InTurn(next)
  BY <1>1, <1>4 DEF BlindInv, InTurn
<1>6. ASSUME master' = c
      PROVE  Mastered(next)
  <2>1. blind.way = "still" /\ ReadOf(calls[c], blind)
    BY <1>1, <1>6 DEF BlindInv, Mastered
  <2>2. ReadOf(next, blind) /\ Standing(next) \notin {Unknown, next.goal.value}
    BY <1>1, <1>4, <2>1 DEF ReadOf, Standing
  <2> QED
    BY <1>4, <2>1, <2>2 DEF Mastered
<1>7. adrift' \subseteq Requests /\ IsFiniteSet(adrift') /\ Cardinality(adrift') <= MaxAdrift
  BY <1>1 DEF BlindInv, Typed
<1> HIDE DEF next
<1> QED
  BY <1>1, <1>3, <1>4, <1>5, <1>6, <1>7, CallMoves

LEMMA ReturnKeeps ==
    ASSUME BlindInv, NEW c \in Callers, Return(c)
    PROVE  BlindInv'
<1> DEFINE next == [calls[c] EXCEPT !.at = "returned"]
<1>1. /\ calls[c].at = "done"
      /\ calls' = [calls EXCEPT ![c].at = "returned"]
      /\ blind' = blind /\ adrift' = adrift /\ master' = master
  BY DEF Return
<1>2. calls \in [Callers -> Call] /\ calls[c] \in Call
  BY DEF BlindInv, Typed
<1>3. calls' = [calls EXCEPT ![c] = next]
  BY <1>1, <1>2
<1>4. next \in Call /\ next.at = "returned" /\ next.goal = calls[c].goal
      /\ next.current = calls[c].current
  BY <1>2 DEF Call
<1>5. InTurn(next)
  BY <1>4 DEF InTurn
<1>6. ASSUME master' = c
      PROVE  Mastered(next)
  <2>1. Met(calls[c], EndTravel(blind), EndSlats(blind))
    BY <1>1, <1>6 DEF BlindInv, Mastered
  <2>2. Met(next, EndTravel(blind), EndSlats(blind))
    BY <1>4, <2>1 DEF Met, PositionMet, RotationMet, NotBeyond
  <2> QED
    BY <1>4, <2>2 DEF Mastered
<1>7. adrift' \subseteq Requests /\ IsFiniteSet(adrift') /\ Cardinality(adrift') <= MaxAdrift
  BY <1>1 DEF BlindInv, Typed
<1> HIDE DEF next
<1> QED
  BY <1>1, <1>3, <1>4, <1>5, <1>6, <1>7, CallMoves

LEMMA FailKeeps ==
    ASSUME BlindInv, NEW c \in Callers, Fail(c)
    PROVE  BlindInv'
<1>1. /\ calls' = [calls EXCEPT ![c] = Idle] /\ blind' = blind /\ master' = master
      /\ \/ adrift' = adrift
         \/ Cardinality(adrift) < MaxAdrift /\ adrift' = adrift \cup {Setters(calls[c])}
  BY DEF Fail
<1>2. Typed /\ calls[c] \in Call
  BY DEF BlindInv, Typed
<1>3. InTurn(Idle) /\ Mastered(Idle)
  BY IdleType DEF InTurn, Mastered
<1>4. adrift' \subseteq Requests /\ IsFiniteSet(adrift') /\ Cardinality(adrift') <= MaxAdrift
  <2>1. CASE adrift' = adrift
    BY <1>2, <2>1 DEF Typed
  <2>2. CASE Cardinality(adrift) < MaxAdrift /\ adrift' = adrift \cup {Setters(calls[c])}
    <3>1. Setters(calls[c]) \in Requests
      BY <1>2, SettersType
    <3> QED
      BY <1>2, <2>2, <3>1, AdriftMore
  <2> QED
    BY <1>1, <2>1, <2>2
<1> QED
  BY <1>1, <1>3, <1>4, IdleType, CallMoves

\* A command is carried out: the blind stops, or is sent where its call means it to end.
LEMMA CommandEnds ==
    ASSUME BlindInv, NEW c \in Callers, calls[c].at \in Commanding,
           calls[c].at = "stepping" => master = c,
           NEW wait \in 0 .. TiltOffset, NEW stale, NEW next,
           next = Carried(blind, Setters(calls[c]), stale, wait)
    PROVE  /\ calls[c].at = "stopping" => next.way = "still"
           /\ calls[c].at # "stopping" => Met(calls[c], EndTravel(next), EndSlats(next))
<1>1. blind \in Blinds /\ calls[c] \in Call /\ InTurn(calls[c])
  BY DEF BlindInv, Typed
<1>2. CASE calls[c].at = "stopping"
  <2>1. First(calls[c].goal) = <<Command("STOP")>>
    BY <1>1, <1>2 DEF InTurn, First
  <2>2. Setters(calls[c]) = First(calls[c].goal)
    BY <1>2 DEF Setters
  <2>3. next = Commanded(blind, "STOP", stale, wait)
    BY <2>1, <2>2, CommandIs
  <2> QED
    BY <1>1, <1>2, <2>3, StopIs
<1>3. CASE calls[c].at = "ending"
  <2>1. Setters(calls[c]) = First(calls[c].goal) /\ Endpoint(calls[c].goal)
    BY <1>1, <1>3 DEF Setters, InTurn
  <2> QED
    BY <1>1, <1>3, <2>1, EndpointMet
<1>4. CASE calls[c].at = "stepping"
  <2>1. /\ ReadOf(calls[c], blind) /\ ~Endpoint(calls[c].goal)
        /\ Standing(calls[c]) \notin {Unknown, calls[c].goal.value}
    BY <1>1, <1>4 DEF BlindInv, Mastered, InTurn
  <2>2. calls[c].goal.kind \in {"position", "rotation"}
    BY <1>1, <2>1, CallIs
  <2>3. CASE calls[c].goal.kind = "position"
    <3>1. Setters(calls[c]) = PositionStep(calls[c].goal.value, calls[c].current)
      BY <1>4, <2>3 DEF Setters
    <3>2. Met(calls[c], EndTravel(next), EndSlats(next))
      BY <1>1, <2>1, <2>3, <3>1, PositionStepMet
    <3> QED
      BY <1>4, <3>2
  <2>4. CASE calls[c].goal.kind = "rotation"
    <3>1. Setters(calls[c]) = RotationStep(calls[c].goal.value, calls[c].current)
      BY <1>4, <2>4 DEF Setters
    <3>2. Met(calls[c], EndTravel(next), EndSlats(next))
      BY <1>1, <2>1, <2>4, <3>1, RotationStepMet
    <3> QED
      BY <1>4, <3>2
  <2> QED
    BY <2>2, <2>3, <2>4
<1> QED
  BY <1>2, <1>3, <1>4 DEF Commanding

LEMMA ServeCommandKeeps ==
    ASSUME BlindInv, NEW c \in Callers, ServeCommand(c)
    PROVE  BlindInv'
<1> DEFINE at == IF calls[c].at = "stopping" THEN "reading" ELSE "done"
           next == [calls[c] EXCEPT !.at = at]
<1>1. /\ calls[c].at \in Commanding
      /\ calls' = [calls EXCEPT ![c].at = IF @ = "stopping" THEN "reading" ELSE "done"]
      /\ master' = IF calls[c].at = "stepping" /\ master # c THEN Nobody ELSE c
      /\ adrift' = adrift
  BY DEF ServeCommand
<1>2. PICK wait \in 0 .. TiltOffset, stale \in {0, MoveTime} :
          blind' = Carried(blind, Setters(calls[c]), stale, wait)
  BY DEF ServeCommand, Execute
<1>3. Typed /\ calls \in [Callers -> Call] /\ calls[c] \in Call /\ Nobody \notin Callers
  BY BlindAssumption DEF BlindInv, Typed
<1>4. calls' = [calls EXCEPT ![c] = next]
  BY <1>1, <1>3
<1>5. next \in Call /\ next.at = at /\ next.goal = calls[c].goal /\ next.current = calls[c].current
  <2>1. "reading" \in Calling /\ "done" \in Calling
    BY DEF Calling
  <2> QED
    BY <1>3, <2>1 DEF Call
<1>6. InTurn(next)
  BY <1>3, <1>5 DEF BlindInv, InTurn
<1>7. blind' \in Blinds /\ ((blind'.way = "still") <=> (blind'.left = 0))
  <2>1. Setters(calls[c]) \in Requests
    BY <1>3, SettersType
  <2> QED
    BY <1>2, <1>3, <2>1, CarriedType DEF Typed
<1> HIDE DEF next
<1>8. calls' \in [Callers -> Call] /\ calls'[c] = next
      /\ \A d \in Callers : d # c => calls'[d] = calls[d]
  BY <1>3, <1>4, <1>5
<1>9. Typed'
  <2>1. master' \in Callers \cup {Nobody}
    BY <1>1
  <2> QED
    BY <1>1, <1>3, <1>7, <1>8, <2>1 DEF Typed
<1>10. ASSUME NEW d \in Callers
       PROVE  InTurn(calls'[d])
  BY <1>6, <1>8 DEF BlindInv
<1>11. ASSUME NEW d \in Callers, master' = d
       PROVE  Mastered(calls[d])'
  <2>1. d = c /\ calls'[d] = next /\ (calls[c].at = "stepping" => master = c)
    BY <1>1, <1>3, <1>8, <1>11
  <2>2. /\ calls[c].at = "stopping" => blind'.way = "still"
        /\ calls[c].at # "stopping" => Met(calls[c], EndTravel(blind'), EndSlats(blind'))
    BY <1>1, <1>2, <2>1, CommandEnds
  <2>3. calls[c].at # "stopping" => Met(next, EndTravel(blind'), EndSlats(blind'))
    BY <1>5, <2>2 DEF Met, PositionMet, RotationMet, NotBeyond
  <2> QED
    BY <1>5, <2>1, <2>2, <2>3 DEF Mastered
<1> QED
  BY <1>9, <1>10, <1>11 DEF BlindInv, InTurn

\* What was given up is carried out after all: it is nobody's blind then.
LEMMA StraggleKeeps ==
    ASSUME BlindInv, NEW setters \in adrift, Straggle(setters)
    PROVE  BlindInv'
<1>1. adrift' = adrift \ {setters} /\ master' = Nobody /\ calls' = calls
  BY DEF Straggle
<1>2. PICK wait \in 0 .. TiltOffset, stale \in {0, MoveTime} :
          blind' = Carried(blind, setters, stale, wait)
  BY DEF Straggle, Execute
<1>3. Typed /\ setters \in Requests /\ \A d \in Callers : master' # d
  BY <1>1, BlindAssumption DEF BlindInv, Typed
<1>4. blind' \in Blinds /\ ((blind'.way = "still") <=> (blind'.left = 0))
  BY <1>2, <1>3, CarriedType DEF Typed
<1>5. Typed'
  BY <1>1, <1>3, <1>4, AdriftFewer DEF Typed
<1> QED
  BY <1>1, <1>3, <1>5 DEF BlindInv, InTurn

LEMMA BlindNext == BlindInv /\ [Next]_vars => BlindInv'
<1> SUFFICES ASSUME BlindInv, [Next]_vars PROVE BlindInv'
  OBVIOUS
<1>1. CASE Tick
  BY <1>1, TickKeeps
<1>2. ASSUME NEW c \in Callers, Proceed(c)
      PROVE  BlindInv'
  <2>1. ASSUME NEW g \in Goals, Begin(c, g) PROVE BlindInv'
    BY <2>1, BeginKeeps
  <2>2. CASE ServeCommand(c)
    BY <2>2, ServeCommandKeeps
  <2>3. CASE ServeRead(c)
    BY <2>3, ServeReadKeeps
  <2>4. CASE Leave(c)
    BY <2>4, LeaveKeeps
  <2>5. CASE Step(c)
    BY <2>5, StepKeeps
  <2>6. CASE Return(c)
    BY <2>6, ReturnKeeps
  <2>7. CASE Fail(c)
    BY <2>7, FailKeeps
  <2> QED
    BY <1>2, <2>1, <2>2, <2>3, <2>4, <2>5, <2>6, <2>7 DEF Proceed
<1>3. ASSUME NEW setters \in adrift, Straggle(setters)
      PROVE  BlindInv'
  BY <1>3, StraggleKeeps
<1>4. CASE UNCHANGED vars
  <2>1. blind' = blind /\ calls' = calls /\ adrift' = adrift /\ master' = master
    BY <1>4 DEF vars
  <2>2. Typed'
    BY <2>1 DEF BlindInv, Typed
  <2>3. ASSUME NEW c \in Callers
        PROVE  InTurn(calls[c])' /\ (master' = c => Mastered(calls[c])')
    BY <2>1 DEF BlindInv, InTurn, Mastered
  <2> QED
    BY <2>2, <2>3 DEF BlindInv
<1> QED
  BY <1>1, <1>2, <1>3, <1>4 DEF Next

LEMMA BlindInvHolds == Spec => []BlindInv
<1> QED
  BY BlindInit, BlindNext, PTL DEF Spec

-----------------------------------------------------------------------------
(***************************************************************************)
(* The theorems                                                            *)
(***************************************************************************)
\* The blind's parts stay on their ways, a motor that stands has nothing left
\* to run, and the requests given up are as many as may be.
THEOREM BlindTyped == Spec => []TypeOK
<1>1. BlindInv => TypeOK
  <2> SUFFICES ASSUME BlindInv PROVE TypeOK
    OBVIOUS
  <2>1. /\ blind \in Blinds /\ ((blind.way = "still") <=> (blind.left = 0))
        /\ \A c \in Callers : calls[c] \in Call
        /\ Cardinality(adrift) <= MaxAdrift
        /\ master \in Callers \cup {Nobody}
    BY DEF BlindInv, Typed
  <2>2. /\ blind.travel \in 0 .. MoveTime /\ blind.slats \in 0 .. FullTilt
        /\ blind.way \in {"still", "up", "down"}
        /\ blind.wait \in 0 .. TiltOffset /\ blind.left \in Nat
    BY <2>1 DEF Blinds, Ways
  <2>3. ASSUME NEW c \in Callers
        PROVE  /\ calls[c].at \in Calling \cup {"idle", "returned"}
               /\ calls[c].goal \in Goals
               /\ calls[c].current.position \in (0 .. Extended) \cup {Unknown}
               /\ calls[c].current.rotation \in (0 .. TiltClosed) \cup {Unknown}
    <3>1. calls[c] \in Call
      BY <2>1
    <3> QED
      BY <3>1 DEF Call, Current
  <2> QED
    BY <2>1, <2>2, <2>3 DEF TypeOK
<1> QED
  BY <1>1, BlindInvHolds, PTL

\* A call that came back as the last to command the blind meets what was asked
\* of it once the blind stands.
LEMMA SettledMet ==
    ASSUME BlindInv, NEW c \in Callers, Settled(c)
    PROVE  Met(calls[c], blind.travel, blind.slats)
<1>1. Met(calls[c], EndTravel(blind), EndSlats(blind))
  BY DEF BlindInv, Settled, Mastered
<1>2. EndTravel(blind) = blind.travel /\ EndSlats(blind) = blind.slats
  BY DEF Settled, EndTravel, EndSlats
<1> QED
  BY <1>1, <1>2

\* set_position: the blind comes to rest where it was asked to, but for the
\* start of the motor and what the readings and the durations are rounded by.
THEOREM PositionReached == Spec => []ArrivesAtPosition
<1>1. BlindInv => ArrivesAtPosition
  BY SettledMet DEF ArrivesAtPosition, Met
<1> QED
  BY <1>1, BlindInvHolds, PTL

\* set_rotation: the slats come to rest as asked, and the blind stays where it
\* was stopped.
THEOREM RotationReached == Spec => []ArrivesAtRotation
<1>1. BlindInv => ArrivesAtRotation
  BY SettledMet DEF ArrivesAtRotation, Met
<1> QED
  BY <1>1, BlindInvHolds, PTL

\* set_position with the slats unknown: the blind stops a tilt short at most, and
\* never runs beyond its goal.
THEOREM NoOvershoot == Spec => []NeverOvershoots
<1>1. BlindInv => NeverOvershoots
  BY SettledMet DEF NeverOvershoots, Met
<1> QED
  BY <1>1, BlindInvHolds, PTL
=============================================================================
