----------------------- MODULE CalendarPeriods_proofs -----------------------
(***************************************************************************)
(* Proofs about CalendarPeriods: the periods reported show the schedule in *)
(* every zone and for every calendar and window, each from the change that *)
(* begins it to the change that ends it, and cover the window.             *)
(*                                                                         *)
(* The argument goes from the times that the schedule has (walls) to those *)
(* the clock shows.  _gap_end moves a skipped time to where the clock      *)
(* lands, so that a mark is at the first time shown from its change on     *)
(* (ResolvedIsFirst).  The marks are the changes of all dates, in order    *)
(* (Timed); the periods lie between cuts, each of one level, with another  *)
(* after it (Laid); the ones returned are a part of them without a gap     *)
(* (Part).  CalendarInv says that the answer is this part for the question *)
(* asked, and the properties follow from the three.                        *)
(***************************************************************************)
EXTENDS CalendarPeriods, Packing_proofs

(***************************************************************************)
(* Clocks                                                                  *)
(***************************************************************************)
Zone == [jump : Int, before : Int, after : Int]

\* The wall-clock times that z skips.
Skips(z, wall) == z.jump + z.before <= wall /\ wall < z.jump + z.after

LEMMA InstantIs ==
    ASSUME NEW z \in Zone, NEW wall \in Int
    PROVE  /\ Instant(z, wall, 0) = IF wall < z.jump + z.before \/ wall < z.jump + z.after
                                    THEN wall - z.before ELSE wall - z.after
           /\ Instant(z, wall, 1) = IF wall < z.jump + z.before /\ wall < z.jump + z.after
                                    THEN wall - z.before ELSE wall - z.after
<1>1. z.jump \in Int /\ z.before \in Int /\ z.after \in Int
  BY DEF Zone
<1>2. /\ Max({z.before, z.after}) = (IF z.before >= z.after THEN z.before ELSE z.after)
      /\ Min({z.before, z.after}) = (IF z.before <= z.after THEN z.before ELSE z.after)
  BY <1>1, MaxMin
<1>3. /\ Instant(z, wall, 0) = IF wall < z.jump + Max({z.before, z.after})
                               THEN wall - z.before ELSE wall - z.after
      /\ Instant(z, wall, 1) = IF wall < z.jump + Min({z.before, z.after})
                               THEN wall - z.before ELSE wall - z.after
  BY DEF Instant
<1> QED
  BY <1>1, <1>2, <1>3

LEMMA ExistsIs ==
    ASSUME NEW z \in Zone, NEW wall \in Int
    PROVE  Exists(z, wall) <=> ~Skips(z, wall)
<1>1. z.jump \in Int /\ z.before \in Int /\ z.after \in Int
  BY DEF Zone
<1> QED
  BY <1>1, InstantIs DEF Exists, Local, Offset, Skips

\* The instants of the times the clock shows are in the order of these.
LEMMA InstantsInOrder ==
    ASSUME NEW z \in Zone, NEW v \in Int, NEW w \in Int, Exists(z, v), Exists(z, w)
    PROVE  /\ v < w <=> Instant(z, v, 0) < Instant(z, w, 0)
           /\ v <= w <=> Instant(z, v, 0) <= Instant(z, w, 0)
           /\ Instant(z, v, 0) \in Int
<1>1. z.jump \in Int /\ z.before \in Int /\ z.after \in Int
  BY DEF Zone
<1> QED
  BY <1>1, InstantIs, ExistsIs DEF Skips

-----------------------------------------------------------------------------
(***************************************************************************)
(* The halving of _gap_end                                                 *)
(***************************************************************************)
\* What the halving comes to between two instants: the jump, if it is between them.
Answer(z, b, a) ==
    IF a - b <= 1 THEN a
    ELSE IF Offset(z, b) = Offset(z, a) THEN b + 1
    ELSE z.jump

Middle(b, a) == b + (a - b) \div 2

\* One turn of the loop leaves the answer as it is.
LEMMA HalvingKeeps ==
    ASSUME NEW z \in Zone, z.before # z.after, NEW b \in Int, NEW a \in Int, a - b > 1
    PROVE  /\ Middle(b, a) \in Int /\ b < Middle(b, a) /\ Middle(b, a) < a
           /\ Answer(z, b, a) = IF Offset(z, Middle(b, a)) = Offset(z, a)
                                THEN Answer(z, b, Middle(b, a))
                                ELSE Answer(z, Middle(b, a), a)
<1>1. z.jump \in Int /\ z.before \in Int /\ z.after \in Int
  BY DEF Zone
<1>2. Middle(b, a) \in Int /\ b < Middle(b, a) /\ Middle(b, a) < a
  BY DEF Middle
<1>3. PICK m \in Int : m = Middle(b, a)
  BY <1>2
<1>4. Answer(z, b, a) = IF Offset(z, m) = Offset(z, a) THEN Answer(z, b, m) ELSE Answer(z, m, a)
  BY <1>1, <1>2, <1>3 DEF Answer, Offset
<1> QED
  BY <1>2, <1>3, <1>4

Spans(first, last) == [before : first .. last, after : first .. last]

Halves(f, z, first, last) ==
    f = [s \in Spans(first, last) |->
            IF s.after - s.before <= 1 THEN s.after
            ELSE IF Offset(z, Middle(s.before, s.after)) = Offset(z, s.after)
                 THEN f[[s EXCEPT !.after = Middle(s.before, s.after)]]
                 ELSE f[[s EXCEPT !.before = Middle(s.before, s.after)]]]

LEMMA HalvingEnds ==
    ASSUME NEW z \in Zone, z.before # z.after, NEW first \in Int, NEW last \in Int,
           first <= last, NEW f, Halves(f, z, first, last)
    PROVE  f[[before |-> first, after |-> last]] = Answer(z, first, last)
<1> DEFINE Right(s) == f[s] = Answer(z, s.before, s.after)
           Good == {d \in 0 .. last - first :
                       \A s \in Spans(first, last) : s.after - s.before <= d => Right(s)}
<1>1. \A s \in Spans(first, last) :
          f[s] = IF s.after - s.before <= 1 THEN s.after
                 ELSE IF Offset(z, Middle(s.before, s.after)) = Offset(z, s.after)
                      THEN f[[s EXCEPT !.after = Middle(s.before, s.after)]]
                      ELSE f[[s EXCEPT !.before = Middle(s.before, s.after)]]
  BY DEF Halves
<1>2. \A s \in Spans(first, last) :
          s.before \in first .. last /\ s.after \in first .. last
  BY DEF Spans
<1>3. ASSUME NEW s \in Spans(first, last), s.after - s.before <= 1
      PROVE  Right(s)
  BY <1>1, <1>3 DEF Answer
<1>4. 0 \in Good
  <2>1. ASSUME NEW s \in Spans(first, last), s.after - s.before <= 0
        PROVE  s.after - s.before <= 1
    BY <1>2, <2>1
  <2> HIDE DEF Right
  <2> QED
    BY <1>3, <2>1
<1>5. ASSUME NEW d \in 1 .. last - first, d - 1 \in Good
      PROVE  d \in Good
  <2>1. ASSUME NEW s \in Spans(first, last), s.after - s.before <= d, s.after - s.before > 1
        PROVE  Right(s)
    <3>1. PICK b \in first .. last, a \in first .. last : b = s.before /\ a = s.after
      BY <1>2
    <3>2. PICK m \in Int : m = Middle(b, a) /\ b < m /\ m < a
      BY <2>1, <3>1, HalvingKeeps
    <3>3. m \in first .. last /\ m - b <= d - 1 /\ a - m <= d - 1
      BY <2>1, <3>1, <3>2
    <3>4. s = [before |-> b, after |-> a]
      BY <3>1 DEF Spans
    <3> DEFINE lower == [s EXCEPT !.after = m]
               upper == [s EXCEPT !.before = m]
    <3>5. /\ lower \in Spans(first, last) /\ lower.before = b /\ lower.after = m
          /\ upper \in Spans(first, last) /\ upper.before = m /\ upper.after = a
      BY <3>3, <3>4 DEF Spans
    <3>6. f[s] = IF Offset(z, m) = Offset(z, a) THEN f[lower] ELSE f[upper]
      BY <1>1, <2>1, <3>1, <3>2
    <3>7. Answer(z, b, a) = IF Offset(z, m) = Offset(z, a)
                            THEN Answer(z, b, m) ELSE Answer(z, m, a)
      BY <2>1, <3>1, <3>2, HalvingKeeps
    <3> HIDE DEF lower, upper
    <3>8. f[lower] = Answer(z, b, m) /\ f[upper] = Answer(z, m, a)
      BY <1>5, <3>3, <3>5
    <3> QED
      BY <3>1, <3>6, <3>7, <3>8
  <2> HIDE DEF Right
  <2>2. \A s \in Spans(first, last) : s.after - s.before <= 1 \/ s.after - s.before > 1
    BY <1>2
  <2> QED
    BY <1>3, <2>1, <2>2
<1>6. last - first \in Good
  <2>1. last - first \in Nat
    OBVIOUS
  <2> HIDE DEF Good
  <2>2. \A i \in 0 .. last - first : i \in Good
    BY <1>4, <1>5, <2>1, Upwards
  <2> QED
    BY <2>1, <2>2
<1>7. [before |-> first, after |-> last] \in Spans(first, last)
  BY DEF Spans
<1> QED
  BY <1>6, <1>7

LEMMA HalvingIs ==
    ASSUME NEW z \in Zone, z.before # z.after, NEW first \in Int, NEW last \in Int
    PROVE  \E f : Halves(f, z, first, last)
<1> DEFINE f == [s \in Spans(first, last) |-> Answer(z, s.before, s.after)]
<1>1. ASSUME NEW s \in Spans(first, last)
      PROVE  Answer(z, s.before, s.after) =
                 IF s.after - s.before <= 1 THEN s.after
                 ELSE IF Offset(z, Middle(s.before, s.after)) = Offset(z, s.after)
                      THEN f[[s EXCEPT !.after = Middle(s.before, s.after)]]
                      ELSE f[[s EXCEPT !.before = Middle(s.before, s.after)]]
  <2>1. PICK b \in first .. last, a \in first .. last : s = [before |-> b, after |-> a]
    BY DEF Spans
  <2>2. CASE a - b <= 1
    BY <2>1, <2>2 DEF Answer
  <2>3. CASE a - b > 1
    <3>1. PICK m \in Int : m = Middle(b, a) /\ b < m /\ m < a
      BY <2>3, HalvingKeeps
    <3> DEFINE lower == [s EXCEPT !.after = m]
               upper == [s EXCEPT !.before = m]
    <3>2. /\ lower \in Spans(first, last) /\ lower.before = b /\ lower.after = m
          /\ upper \in Spans(first, last) /\ upper.before = m /\ upper.after = a
      BY <2>1, <3>1 DEF Spans
    <3>3. f[lower] = Answer(z, b, m) /\ f[upper] = Answer(z, m, a)
      <4> HIDE DEF lower, upper
      <4> QED
        BY <3>2
    <3>4. Answer(z, b, a) = IF Offset(z, m) = Offset(z, a)
                            THEN Answer(z, b, m) ELSE Answer(z, m, a)
      BY <2>3, <3>1, HalvingKeeps
    <3>5. s.before = b /\ s.after = a
      BY <2>1
    <3> HIDE DEF f
    <3> QED
      BY <2>3, <3>1, <3>3, <3>4, <3>5
  <2> QED
    BY <2>2, <2>3
<1> HIDE DEF f
<1>2. Halves(f, z, first, last)
  BY <1>1 DEF Halves, f
<1> QED
  BY <1>2

\* _gap_end: of a time that the clock skips, the halving ends on the jump, however long
\* the jump and wherever in it the time is.
LEMMA GapEndIsLanding ==
    ASSUME NEW z \in Zone, NEW wall \in Int, Skips(z, wall)
    PROVE  GapEnd(z, wall) = z.jump + z.after
<1>1. z.jump \in Int /\ z.before \in Int /\ z.after \in Int /\ z.before # z.after
  BY DEF Zone, Skips
<1> DEFINE first == Instant(z, wall, 1)
           last == Instant(z, wall, 0)
           jump == CHOOSE f : Halves(f, z, first, last)
<1>2. first = wall - z.after /\ last = wall - z.before /\ first < z.jump /\ z.jump <= last
  BY <1>1, InstantIs DEF Skips
<1>3. GapEnd(z, wall) = Local(z, jump[[before |-> first, after |-> last]])
  BY DEF GapEnd, Halves, Spans, Middle
<1> HIDE DEF first, last
<1>4. first \in Int /\ last \in Int /\ first <= last
  BY <1>1, <1>2
<1>5. Halves(jump, z, first, last)
  BY <1>1, <1>4, HalvingIs
<1> HIDE DEF jump
<1>6. jump[[before |-> first, after |-> last]] = Answer(z, first, last)
  BY <1>1, <1>4, <1>5, HalvingEnds
<1>7. Answer(z, first, last) = z.jump
  <2>1. first < z.jump /\ z.jump <= last
    BY <1>2
  <2>2. Offset(z, first) = z.before /\ Offset(z, last) = z.after
    BY <1>1, <1>4, <2>1 DEF Offset
  <2>3. last - first <= 1 => last = z.jump
    BY <1>1, <1>4, <2>1
  <2> QED
    BY <1>1, <2>2, <2>3 DEF Answer
<1>8. Local(z, z.jump) = z.jump + z.after
  BY <1>1 DEF Local, Offset
<1> QED
  BY <1>3, <1>6, <1>7, <1>8

-----------------------------------------------------------------------------
(***************************************************************************)
(* Dates and times of day                                                  *)
(***************************************************************************)
LEMMA DayType == DayMinutes \in Nat \ {0} /\ Step \in Nat \ {0} /\ WeekLength \in Nat \ {0}
<1>1. DayEnd \in Nat /\ DayEnd - 1 \in Nat /\ Step \in Nat /\ Step >= 1 /\ WeekLength \in Nat \ {0}
  BY CalendarAssumption
<1>2. DayEnd * Step = (DayEnd - 1) * Step + Step /\ (DayEnd - 1) * Step \in Nat
  BY <1>1
<1> QED
  BY <1>1, <1>2 DEF DayMinutes

\* The minutes of a day's time steps.
LEMMA Minutes ==
    ASSUME NEW t \in 0 .. DayEnd - 1
    PROVE  /\ t * Step \in 0 .. DayMinutes - 1
           /\ \A u \in 0 .. DayEnd - 1 : t < u => t * Step < u * Step
<1>1. DayEnd \in Nat /\ Step \in Nat /\ Step >= 1 /\ t \in Nat /\ t < DayEnd
  BY CalendarAssumption
<1>2. t * Step \in Nat /\ t * Step + Step <= DayEnd * Step
  BY <1>1, Products
<1>3. t * Step \in 0 .. DayMinutes - 1
  BY <1>1, <1>2, DayType DEF DayMinutes
<1>4. ASSUME NEW u \in 0 .. DayEnd - 1, t < u
      PROVE  t * Step < u * Step
  <2>1. t * Step + Step <= u * Step /\ u * Step \in Int
    BY <1>1, <1>4, Products
  <2> QED
    BY <1>1, <1>2, <2>1
<1> QED
  BY <1>3, <1>4

\* The date and the minute of a wall-clock time.
LEMMA DateIs ==
    ASSUME NEW date \in Int, NEW minute \in 0 .. DayMinutes - 1,
           NEW wall, wall = date * DayMinutes + minute
    PROVE  wall \in Int /\ Date(wall) = date /\ wall % DayMinutes = minute
BY DayType, Division DEF Date

LEMMA DateOf ==
    ASSUME NEW wall \in Int
    PROVE  \E minute \in 0 .. DayMinutes - 1 :
               /\ Date(wall) \in Int /\ wall = Date(wall) * DayMinutes + minute
               /\ wall % DayMinutes = minute
<1>1. PICK date \in Int, minute \in 0 .. DayMinutes - 1 : wall = date * DayMinutes + minute
  BY DayType, Divided
<1>2. Date(wall) = date /\ wall % DayMinutes = minute
  BY <1>1, DateIs
<1> QED
  BY <1>1, <1>2

\* The schedule comes round every week.
LEMMA EveryWeek ==
    ASSUME NEW wall \in Int
    PROVE  Scheduled(wall + WeekLength * DayMinutes) = Scheduled(wall)
<1>1. PICK minute \in 0 .. DayMinutes - 1 :
          /\ Date(wall) \in Int /\ wall = Date(wall) * DayMinutes + minute
          /\ wall % DayMinutes = minute
  BY DateOf
<1>2. PICK q \in Int, r \in 0 .. WeekLength - 1 : Date(wall) = q * WeekLength + r
  BY <1>1, DayType, Divided
<1> DEFINE later == wall + WeekLength * DayMinutes
<1>3. later = (Date(wall) + WeekLength) * DayMinutes + minute
  <2>1. PICK size \in Int, length \in Int : size = DayMinutes /\ length = WeekLength
    BY DayType
  <2>2. (Date(wall) + length) * size = Date(wall) * size + length * size
    BY <1>1
  <2>3. PICK base \in Int, week \in Int : base = Date(wall) * size /\ week = length * size
    BY <1>1
  <2>4. minute \in Int /\ wall = base + minute /\ later = wall + week
    BY <1>1, <2>1, <2>3, DayType
  <2>5. later = (base + week) + minute
    BY <2>3, <2>4
  <2>6. (Date(wall) + WeekLength) * DayMinutes = base + week
    BY <2>1, <2>2, <2>3
  <2> QED
    BY <2>5, <2>6
<1>4. Date(later) = Date(wall) + WeekLength /\ later % DayMinutes = minute
  <2>1. Date(wall) + WeekLength \in Int
    BY <1>1, DayType
  <2> HIDE DEF later
  <2> QED
    BY <1>3, <2>1, DateIs
<1>5. Date(wall) + WeekLength = (q + 1) * WeekLength + r
  BY <1>1, <1>2, DayType, Products
<1>6. Weekday(Date(wall) + WeekLength) = r /\ Weekday(Date(wall)) = r
  <2>1. Date(wall) % WeekLength = r
    BY <1>2, DayType, Division
  <2>2. (Date(wall) + WeekLength) % WeekLength = r
    <3>1. PICK week \in Int : week = q + 1
      OBVIOUS
    <3>2. PICK length \in Nat \ {0} : length = WeekLength
      BY DayType
    <3>3. PICK later_date : later_date = Date(wall) + WeekLength
      OBVIOUS
    <3>4. later_date = week * length + r /\ r \in 0 .. length - 1
      BY <1>5, <3>1, <3>2, <3>3
    <3>5. later_date % length = r
      BY <3>4, Division
    <3> QED
      BY <3>2, <3>3, <3>5
  <2> QED
    BY <2>1, <2>2 DEF Weekday
<1> HIDE DEF later
<1>7. Scheduled(later) = Scheduled(wall)
  BY <1>1, <1>4, <1>6 DEF Scheduled
<1> QED
  BY <1>7 DEF later

-----------------------------------------------------------------------------
(***************************************************************************)
(* The time a mark is put at                                               *)
(***************************************************************************)
Resolved(z, wall) == IF Skips(z, wall) THEN z.jump + z.after ELSE wall

\* A skipped time is put where the clock lands, every other one is kept.
LEMMA ResolvedIs ==
    ASSUME NEW z \in Zone, NEW wall \in Int
    PROVE  /\ Resolved(z, wall) \in Int
           /\ Exists(z, Resolved(z, wall))
           /\ wall <= Resolved(z, wall)
           /\ Resolved(z, wall) # wall => ~Exists(z, Resolved(z, wall) - 1)
           /\ Exists(z, wall) => Resolved(z, wall) = wall
           /\ Resolved(z, wall) <= wall + (z.after - z.before) \/ Resolved(z, wall) = wall
<1>1. z.jump \in Int /\ z.before \in Int /\ z.after \in Int
  BY DEF Zone
<1>2. Resolved(z, wall) \in Int
  BY <1>1 DEF Resolved
<1>3. Resolved(z, wall) - 1 \in Int
  BY <1>2
<1> QED
  BY <1>1, <1>2, <1>3, ExistsIs DEF Resolved, Skips

\* It is the first time the clock shows from the time on.
LEMMA ResolvedIsFirst ==
    ASSUME NEW z \in Zone, NEW wall \in Int, NEW shown \in Int, Exists(z, shown)
    PROVE  Resolved(z, wall) <= shown <=> wall <= shown
<1>1. z.jump \in Int /\ z.before \in Int /\ z.after \in Int
  BY DEF Zone
<1> QED
  BY <1>1, ExistsIs DEF Resolved, Skips

LEMMA ResolvedInOrder ==
    ASSUME NEW z \in Zone, NEW v \in Int, NEW w \in Int, v <= w
    PROVE  Resolved(z, v) <= Resolved(z, w)
<1>1. Resolved(z, w) \in Int /\ Exists(z, Resolved(z, w)) /\ v <= Resolved(z, w)
  BY ResolvedIs
<1> QED
  BY <1>1, ResolvedIsFirst

\* _at
LEMMA AtIs ==
    ASSUME NEW z \in Zone, NEW date \in Int, NEW units \in 0 .. DayEnd - 1
    PROVE  At(z, date, units) = Resolved(z, date * DayMinutes + units * Step)
<1> DEFINE wall == date * DayMinutes + units * Step
<1>1. wall \in Int
  <2>1. units * Step \in Int /\ date * DayMinutes \in Int
    BY Minutes, DayType, Products
  <2> QED
    BY <2>1
<1>2. At(z, date, units) = IF Exists(z, wall) THEN wall ELSE GapEnd(z, wall)
  BY DEF At
<1> HIDE DEF wall
<1>3. At(z, date, units) = Resolved(z, wall)
  BY <1>1, <1>2, ExistsIs, GapEndIsLanding DEF Resolved
<1> QED
  BY <1>3 DEF wall

-----------------------------------------------------------------------------
(***************************************************************************)
(* The marks: every change of the schedule, in order                       *)
(***************************************************************************)
\* What the calls start from: a zone, and a calendar of all weekdays.
Calendar ==
    /\ zone \in Zones
    /\ days \in [0 .. WeekLength - 1 -> [as_monday : BOOLEAN, transitions : Days]]

LEMMA ZonesAre ==
    ASSUME Calendar
    PROVE  zone \in Zone
BY ZoneAssumption DEF Calendar, Zone

Change == [time : 0 .. DayEnd - 1, level : Levels]

LEMMA DaysAre ==
    ASSUME Calendar, NEW date \in Int, NEW day, day = DayFor(Weekday(date))
    PROVE  /\ day \in Seq(Change) /\ Len(day) \in Nat \ {0} /\ DOMAIN day = 1 .. Len(day)
           /\ \A k \in DOMAIN day : day[k].time \in 0 .. DayEnd - 1 /\ day[k].level \in Levels
           /\ day[1].time = 0
           /\ \A j, k \in DOMAIN day : j < k => day[j].time < day[k].time
<1>1. Weekday(date) \in 0 .. WeekLength - 1
  BY DayType DEF Weekday
<1>2. \A weekday \in 0 .. WeekLength - 1 : days[weekday].transitions \in Days
  BY DEF Calendar
<1>3. 0 \in 0 .. WeekLength - 1
  BY DayType
<1>4. day \in Days
  BY <1>1, <1>2, <1>3 DEF DayFor
<1>5. day \in Seq(Change)
  BY <1>4, CalendarAssumption DEF Change
<1>6. /\ day # <<>> /\ day[1].time = 0
      /\ \A j, k \in DOMAIN day : j < k => day[j].time < day[k].time
  BY <1>4, CalendarAssumption
<1>7. Len(day) \in Nat /\ DOMAIN day = 1 .. Len(day) /\ \A k \in DOMAIN day : day[k] \in Change
  BY <1>5, Elements
<1>8. Len(day) # 0
  BY <1>5, <1>6
<1>9. \A k \in DOMAIN day : day[k].time \in 0 .. DayEnd - 1 /\ day[k].level \in Levels
  BY <1>7 DEF Change
<1> QED
  BY <1>5, <1>6, <1>7, <1>8, <1>9

Mark == [at : Int, level : Levels]

\* The marks are at the changes at these wall-clock times, which come one after
\* the other between the two ends, the last of them within a day of the end, and
\* from a change to the next one, or to the end, its level is the scheduled one.
Timed(walls, marks, from, to) ==
    /\ walls \in Seq(Int) /\ marks \in Seq(Mark)
    /\ Len(walls) = Len(marks) /\ Len(walls) \in Nat \ {0}
    /\ walls[1] = from /\ to - DayMinutes <= walls[Len(walls)]
    /\ \A i \in 1 .. Len(walls) :
        walls[i] \in Int /\ walls[i] < to /\ marks[i].at = Resolved(zone, walls[i])
    /\ \A i, j \in 1 .. Len(walls) : i < j => walls[i] < walls[j]
    /\ \A i \in 1 .. Len(walls), wall \in Int :
        (/\ walls[i] <= wall /\ wall < to
         /\ \A j \in 1 .. Len(walls) : i < j => wall < walls[j])
            => Scheduled(wall) = marks[i].level

HasTimes(marks, from, to) == \E walls : Timed(walls, marks, from, to)

Midnight(date) == date * DayMinutes

LEMMA Midnights ==
    ASSUME NEW date \in Int
    PROVE  Midnight(date) \in Int /\ Midnight(date + 1) = Midnight(date) + DayMinutes
BY DayType, Products DEF Midnight

\* The level at a minute of a day is that of the last change until then.
LEMMA ScheduledIs ==
    ASSUME Calendar, NEW date \in Int, NEW day, day = DayFor(Weekday(date)),
           NEW i \in DOMAIN day, NEW minute \in 0 .. DayMinutes - 1,
           day[i].time * Step <= minute,
           \A j \in DOMAIN day : i < j => minute < day[j].time * Step
    PROVE  Scheduled(Midnight(date) + minute) = day[i].level
<1>1. PICK size \in Nat : size = Len(day) /\ DOMAIN day = 1 .. size
  BY DaysAre
<1>2. \A k \in DOMAIN day : day[k].time * Step \in Int
  <2>1. \A k \in DOMAIN day : day[k].time \in 0 .. DayEnd - 1
    BY DaysAre
  <2>2. \A t \in 0 .. DayEnd - 1 : t * Step \in 0 .. DayMinutes - 1
    BY Minutes
  <2>3. \A t \in 0 .. DayMinutes - 1 : t \in Int
    OBVIOUS
  <2> QED
    BY <2>1, <2>2, <2>3
<1> DEFINE past == {k \in DOMAIN day : day[k].time * Step <= minute}
<1>3. i \in past
  OBVIOUS
<1>4. \A k \in past : k <= i
  <2>1. ASSUME NEW k \in past, i < k
        PROVE  FALSE
    <3>1. minute < day[k].time * Step /\ day[k].time * Step <= minute
      BY <2>1
    <3> QED
      BY <1>2, <3>1
  <2> HIDE DEF past
  <2>2. \A k \in past : k \in Int /\ i \in Int
    BY <1>1 DEF past
  <2> QED
    BY <2>1, <2>2
<1>5. Max(past) = i
  <2>1. past \in SUBSET (0 .. size) /\ past # {}
    BY <1>1, <1>3
  <2> HIDE DEF past
  <2>2. Max(past) \in past /\ i <= Max(past)
    BY <1>3, <2>1, LastPosition
  <2>3. Max(past) \in 0 .. size /\ i \in 1 .. size
    BY <1>1, <2>1, <2>2
  <2>4. Max(past) <= i
    BY <1>4, <2>2
  <2> QED
    BY <2>2, <2>3, <2>4
<1> DEFINE wall == Midnight(date) + minute
<1>6. Date(wall) = date /\ wall % DayMinutes = minute
  <2>1. wall = date * DayMinutes + minute
    BY DEF Midnight
  <2> HIDE DEF wall
  <2> QED
    BY <2>1, DateIs
<1> HIDE DEF wall
<1>7. Scheduled(wall) = day[Max(past)].level
  BY <1>6 DEF Scheduled
<1> QED
  BY <1>5, <1>7 DEF wall

\* The changes of one date.
WallsOf(date) ==
    LET day == DayFor(Weekday(date))
    IN  [k \in DOMAIN day |-> Midnight(date) + day[k].time * Step]

LEMMA OneDay ==
    ASSUME Calendar, NEW date \in Int
    PROVE  HasTimes(MarksOf(date), Midnight(date), Midnight(date + 1))
<1> DEFINE day == DayFor(Weekday(date))
           walls == WallsOf(date)
           marks == MarksOf(date)
           from == Midnight(date)
           to == Midnight(date + 1)
           Minute(k) == day[k].time * Step
<1>1. /\ day \in Seq(Change) /\ Len(day) \in Nat \ {0} /\ DOMAIN day = 1 .. Len(day)
      /\ \A k \in DOMAIN day : day[k].time \in 0 .. DayEnd - 1 /\ day[k].level \in Levels
      /\ day[1].time = 0
      /\ \A j, k \in DOMAIN day : j < k => day[j].time < day[k].time
  BY DaysAre
<1>2. from \in Int /\ to = from + DayMinutes /\ DayMinutes \in Nat
  BY Midnights, DayType
<1>3. /\ \A k \in DOMAIN day : Minute(k) \in 0 .. DayMinutes - 1
      /\ \A j, k \in DOMAIN day : j < k => Minute(j) < Minute(k)
  <2>1. \A t \in 0 .. DayEnd - 1 : t * Step \in 0 .. DayMinutes - 1
    BY Minutes
  <2>2. \A t, u \in 0 .. DayEnd - 1 : t < u => t * Step < u * Step
    BY Minutes
  <2> HIDE DEF day
  <2> QED
    BY <1>1, <2>1, <2>2
<1>4. Minute(1) = 0
  <2>1. Step \in Nat
    BY DayType
  <2> HIDE DEF day
  <2> QED
    BY <1>1, <2>1
<1>5. \A k \in DOMAIN day : walls[k] = from + Minute(k)
  BY DEF WallsOf
<1>6. \A k \in DOMAIN day : marks[k] = [at |-> Resolved(zone, from + Minute(k)),
                                        level |-> day[k].level]
  <2>1. ASSUME NEW k \in DOMAIN day
        PROVE  At(zone, date, day[k].time) = Resolved(zone, from + Minute(k))
    <3>1. day[k].time \in 0 .. DayEnd - 1
      BY <1>1
    <3> HIDE DEF day
    <3> QED
      BY <3>1, AtIs, ZonesAre DEF Midnight
  <2> QED
    BY <2>1 DEF MarksOf
<1>7. DOMAIN walls = DOMAIN day /\ DOMAIN marks = DOMAIN day
  BY DEF WallsOf, MarksOf
<1>8. walls = [k \in DOMAIN day |-> walls[k]] /\ marks = [k \in DOMAIN day |-> marks[k]]
  BY DEF WallsOf, MarksOf
<1>9. \A i \in DOMAIN day, minute \in 0 .. DayMinutes - 1 :
          (Minute(i) <= minute /\ \A j \in DOMAIN day : i < j => minute < Minute(j))
              => Scheduled(from + minute) = day[i].level
  BY ScheduledIs
<1> HIDE DEF day, walls, marks, from, to, Minute
<1>10. PICK size \in Nat \ {0} : size = Len(day) /\ DOMAIN day = 1 .. size
  BY <1>1
<1>11. \A k \in 1 .. size : walls[k] \in Int /\ Minute(k) \in Int /\ from <= walls[k] /\ walls[k] < to
  BY <1>2, <1>3, <1>5, <1>10
<1>12. \A k \in 1 .. size : marks[k] \in Mark /\ marks[k].at = Resolved(zone, walls[k])
                            /\ marks[k].level = day[k].level
  <2>1. \A k \in 1 .. size : Resolved(zone, walls[k]) \in Int
    BY <1>11, ResolvedIs, ZonesAre
  <2>2. ASSUME NEW k \in 1 .. size
        PROVE  marks[k] \in Mark /\ marks[k].at = Resolved(zone, walls[k])
               /\ marks[k].level = day[k].level
    <3>1. k \in DOMAIN day
      BY <1>10
    <3>2. marks[k] = [at |-> Resolved(zone, walls[k]), level |-> day[k].level]
      BY <1>5, <1>6, <3>1
    <3>3. Resolved(zone, walls[k]) \in Int /\ day[k].level \in Levels
      BY <1>1, <2>1, <3>1
    <3> QED
      BY <3>2, <3>3 DEF Mark
  <2> QED
    BY <2>2
<1>13. /\ walls \in Seq(Int) /\ Len(walls) = size
       /\ marks \in Seq(Mark) /\ Len(marks) = size
  <2>1. walls \in [1 .. size -> Int]
    BY <1>8, <1>10, <1>11
  <2>2. marks \in [1 .. size -> Mark]
    BY <1>8, <1>10, <1>12
  <2> QED
    BY <1>10, <2>1, <2>2, LenOf
<1>14. \A i, j \in 1 .. size : i < j => walls[i] < walls[j]
  <2>1. ASSUME NEW i \in 1 .. size, NEW j \in 1 .. size, i < j
        PROVE  walls[i] < walls[j]
    <3>1. Minute(i) < Minute(j)
      BY <1>3, <1>10, <2>1
    <3>2. walls[i] = from + Minute(i) /\ walls[j] = from + Minute(j)
      BY <1>5, <1>10
    <3>3. Minute(i) \in Int /\ Minute(j) \in Int
      BY <1>11
    <3> QED
      BY <1>2, <3>1, <3>2, <3>3
  <2> QED
    BY <2>1
<1>15. walls[1] = from /\ to - DayMinutes <= walls[size]
  BY <1>2, <1>4, <1>5, <1>10, <1>11
<1>16. ASSUME NEW i \in 1 .. size, NEW wall \in Int,
              walls[i] <= wall, wall < to, \A j \in 1 .. size : i < j => wall < walls[j]
       PROVE  Scheduled(wall) = marks[i].level
  <2>1. PICK minute \in Int : wall = from + minute
    <3>1. wall = from + (wall - from) /\ wall - from \in Int
      BY <1>2
    <3> QED
      BY <3>1
  <2>2. minute \in 0 .. DayMinutes - 1
    BY <1>2, <1>11, <1>16, <2>1
  <2>3. Minute(i) <= minute
    BY <1>2, <1>5, <1>10, <1>11, <1>16, <2>1
  <2>4. ASSUME NEW j \in 1 .. size, i < j
        PROVE  minute < Minute(j)
    <3>1. wall < walls[j] /\ walls[j] = from + Minute(j) /\ Minute(j) \in Int
      BY <1>5, <1>10, <1>11, <1>16, <2>4
    <3> QED
      BY <1>2, <2>1, <3>1
  <2> QED
    BY <1>9, <1>10, <1>12, <2>1, <2>2, <2>3, <2>4
<1>17. Timed(walls, marks, from, to)
  BY <1>10, <1>11, <1>12, <1>13, <1>14, <1>15, <1>16 DEF Timed
<1> QED
  BY <1>17 DEF HasTimes, marks, from, to

\* The changes of some dates, and then those of some more.
LEMMA TimesJoin ==
    ASSUME NEW first, NEW second, NEW from \in Int, NEW middle \in Int, NEW to \in Int,
           HasTimes(first, from, middle), HasTimes(second, middle, to)
    PROVE  HasTimes(first \o second, from, to)
<1>1. PICK s : Timed(s, first, from, middle)
  BY DEF HasTimes
<1>2. PICK t : Timed(t, second, middle, to)
  BY DEF HasTimes
<1>3. PICK m \in Nat \ {0} : m = Len(s)
  BY <1>1 DEF Timed
<1>4. PICK n \in Nat \ {0} : n = Len(t)
  BY <1>2 DEF Timed
<1>5. /\ s \in Seq(Int) /\ t \in Seq(Int) /\ first \in Seq(Mark) /\ second \in Seq(Mark)
      /\ Len(first) = m /\ Len(second) = n
  BY <1>1, <1>2, <1>3, <1>4 DEF Timed
<1> DEFINE walls == s \o t
           marks == first \o second
<1>6. /\ walls \in Seq(Int) /\ marks \in Seq(Mark)
      /\ Len(walls) = m + n /\ Len(marks) = m + n
  <2>1. walls \in Seq(Int) /\ Len(walls) = Len(s) + Len(t)
    BY <1>5, ConcatProperties
  <2>2. marks \in Seq(Mark) /\ Len(marks) = Len(first) + Len(second)
    BY <1>5, ConcatProperties
  <2> QED
    BY <1>3, <1>4, <1>5, <2>1, <2>2
<1>20. /\ \A i \in 1 .. m + n : walls[i] = IF i <= m THEN s[i] ELSE t[i - m]
       /\ \A i \in 1 .. m + n : marks[i] = IF i <= m THEN first[i] ELSE second[i - m]
  <2>1. \A i \in 1 .. Len(s) + Len(t) :
            walls[i] = IF i <= Len(s) THEN s[i] ELSE t[i - Len(s)]
    BY <1>5, ConcatProperties
  <2>2. \A i \in 1 .. Len(first) + Len(second) :
            marks[i] = IF i <= Len(first) THEN first[i] ELSE second[i - Len(first)]
    BY <1>5, ConcatProperties
  <2> QED
    BY <1>3, <1>4, <1>5, <2>1, <2>2
<1> HIDE DEF walls, marks
<1>7. \A i \in 1 .. m : walls[i] = s[i] /\ marks[i] = first[i]
  BY <1>20
<1>8. ASSUME NEW i \in 1 .. n
      PROVE  walls[m + i] = t[i] /\ marks[m + i] = second[i]
  <2>1. m + i \in 1 .. m + n /\ ~(m + i <= m) /\ (m + i) - m = i
    OBVIOUS
  <2> QED
    BY <1>20, <2>1
<1>9. /\ s[1] = from
      /\ \A i \in 1 .. m : s[i] \in Int /\ s[i] < middle /\ first[i].at = Resolved(zone, s[i])
      /\ \A i, j \in 1 .. m : i < j => s[i] < s[j]
      /\ \A i \in 1 .. m, wall \in Int :
            (/\ s[i] <= wall /\ wall < middle
             /\ \A j \in 1 .. m : i < j => wall < s[j]) => Scheduled(wall) = first[i].level
  BY <1>1, <1>3 DEF Timed
<1>10. /\ t[1] = middle /\ to - DayMinutes <= t[n]
       /\ \A i \in 1 .. n : t[i] \in Int /\ t[i] < to /\ second[i].at = Resolved(zone, t[i])
       /\ \A i, j \in 1 .. n : i < j => t[i] < t[j]
       /\ \A i \in 1 .. n, wall \in Int :
            (/\ t[i] <= wall /\ wall < to
             /\ \A j \in 1 .. n : i < j => wall < t[j]) => Scheduled(wall) = second[i].level
  BY <1>2, <1>4 DEF Timed
<1>11. 1 \in 1 .. n /\ n \in 1 .. n /\ 1 \in 1 .. m
  OBVIOUS
<1>12. \A i \in 1 .. n : middle <= t[i]
  BY <1>10, <1>11
<1>13. middle < to
  BY <1>10, <1>11
<1>14. \A i \in 1 .. m + n : i \in 1 .. m \/ \E k \in 1 .. n : i = m + k
  <2>1. \A i \in 1 .. m + n : i \in 1 .. m \/ (i - m \in 1 .. n /\ i = m + (i - m))
    OBVIOUS
  <2> QED
    BY <2>1
<1>15. ASSUME NEW i \in 1 .. m + n
       PROVE  walls[i] \in Int /\ walls[i] < to /\ marks[i].at = Resolved(zone, walls[i])
  <2>1. CASE i \in 1 .. m
    BY <1>7, <1>9, <1>13, <2>1
  <2>2. ASSUME NEW k \in 1 .. n, i = m + k
        PROVE  walls[i] \in Int /\ walls[i] < to /\ marks[i].at = Resolved(zone, walls[i])
    BY <1>8, <1>10, <2>2
  <2> QED
    BY <1>14, <2>1, <2>2
<1>16. ASSUME NEW i \in 1 .. m + n, NEW j \in 1 .. m + n, i < j
       PROVE  walls[i] < walls[j]
  <2>1. CASE i \in 1 .. m /\ j \in 1 .. m
    BY <1>7, <1>9, <1>16, <2>1
  <2>2. ASSUME i \in 1 .. m, NEW k \in 1 .. n, j = m + k
        PROVE  walls[i] < walls[j]
    <3>1. walls[i] = s[i] /\ s[i] < middle /\ s[i] \in Int
      BY <1>7, <1>9, <2>2
    <3>2. walls[j] = t[k] /\ middle <= t[k] /\ t[k] \in Int
      BY <1>8, <1>10, <1>12, <2>2
    <3> QED
      BY <3>1, <3>2
  <2>3. ASSUME NEW h \in 1 .. n, i = m + h, NEW k \in 1 .. n, j = m + k
        PROVE  walls[i] < walls[j]
    <3>1. h < k
      BY <1>16, <2>3
    <3> QED
      BY <1>8, <1>10, <2>3, <3>1
  <2>4. ASSUME NEW h \in 1 .. n, i = m + h
        PROVE  j \notin 1 .. m
    BY <1>16, <2>4
  <2> QED
    BY <1>14, <2>1, <2>2, <2>3, <2>4
<1>17. ASSUME NEW i \in 1 .. m + n, NEW wall \in Int, walls[i] <= wall, wall < to,
              \A j \in 1 .. m + n : i < j => wall < walls[j]
       PROVE  Scheduled(wall) = marks[i].level
  <2>1. CASE i \in 1 .. m
    <3>1. m + 1 \in 1 .. m + n /\ i < m + 1
      BY <2>1
    <3>2. wall < middle
      BY <1>8, <1>10, <1>11, <1>17, <3>1
    <3>3. \A j \in 1 .. m : i < j => wall < s[j]
      <4>1. \A j \in 1 .. m : j \in 1 .. m + n
        OBVIOUS
      <4> QED
        BY <1>7, <1>17, <4>1
    <3>4. s[i] <= wall /\ marks[i] = first[i]
      BY <1>7, <1>17, <2>1
    <3> QED
      BY <1>9, <2>1, <3>2, <3>3, <3>4
  <2>2. ASSUME NEW k \in 1 .. n, i = m + k
        PROVE  Scheduled(wall) = marks[i].level
    <3>1. t[k] <= wall /\ marks[i] = second[k]
      BY <1>8, <1>17, <2>2
    <3>2. \A j \in 1 .. n : k < j => wall < t[j]
      <4>1. \A j \in 1 .. n : m + j \in 1 .. m + n /\ (k < j => i < m + j)
        BY <2>2
      <4> QED
        BY <1>8, <1>17, <4>1
    <3> QED
      BY <1>10, <1>17, <2>2, <3>1, <3>2
  <2> QED
    BY <1>14, <2>1, <2>2
<1>18. walls[1] = from /\ to - DayMinutes <= walls[m + n]
  BY <1>7, <1>8, <1>9, <1>10, <1>11
<1>19. Timed(walls, marks, from, to)
  BY <1>6, <1>15, <1>16, <1>17, <1>18 DEF Timed
<1> QED
  BY <1>19 DEF HasTimes, marks

-----------------------------------------------------------------------------
(***************************************************************************)
(* The window, and the dates gone through                                  *)
(***************************************************************************)
Week == WeekLength * DayMinutes

LEMMA Weeks ==
    ASSUME NEW date \in Int
    PROVE  /\ Week \in Nat \ {0} /\ DayMinutes <= Week
           /\ Midnight(date + WeekLength) = Midnight(date) + Week
           /\ Midnight(date - WeekLength) = Midnight(date) - Week
<1>1. PICK size \in Nat \ {0}, length \in Nat \ {0} : size = DayMinutes /\ length = WeekLength
  BY DayType
<1>2. PICK base \in Int, week \in Int : base = date * size /\ week = length * size
  OBVIOUS
<1>3. (date + length) * size = base + week /\ (date - length) * size = base - week
  BY <1>2
<1>4. size <= week
  <2>1. 0 * size + size <= length * size
    BY Products
  <2> QED
    BY <1>2, <2>1
<1> QED
  BY <1>1, <1>2, <1>3, <1>4 DEF Week, Midnight

LEMMA MidnightsInOrder ==
    ASSUME NEW d \in Int, NEW e \in Int
    PROVE  /\ d <= e => Midnight(d) <= Midnight(e)
           /\ d < e => Midnight(d) + DayMinutes <= Midnight(e)
BY DayType, Products DEF Midnight

First == Date(window.start.wall) - WeekLength
Final == Date(window.end.wall) + WeekLength

\* What periods is asked: times that the clocks show.
Asked ==
    /\ window \in Windows
    /\ Exists(zone, window.start.wall)
    /\ Exists(window.end.zone, window.end.wall)

LEMMA DateBounds ==
    ASSUME NEW wall \in Int
    PROVE  /\ Date(wall) \in Int /\ Midnight(Date(wall)) \in Int
           /\ Midnight(Date(wall)) <= wall /\ wall < Midnight(Date(wall)) + DayMinutes
<1>1. PICK minute \in 0 .. DayMinutes - 1 :
          Date(wall) \in Int /\ wall = Date(wall) * DayMinutes + minute
  BY DateOf
<1>2. Midnight(Date(wall)) \in Int /\ wall = Midnight(Date(wall)) + minute
  BY <1>1, Midnights DEF Midnight
<1>3. DayMinutes \in Nat
  BY DayType
<1> QED
  BY <1>1, <1>2, <1>3

LEMMA WindowType ==
    ASSUME Asked
    PROVE  /\ window.start.wall \in Int /\ window.start.fold \in {0, 1}
           /\ window.end.wall \in Int /\ window.end.fold \in {0, 1}
           /\ window.end.zone \in Zones /\ window.end.zone \in Zone
BY ZoneAssumption DEF Asked, Zone

LEMMA FurthestIs ==
    ASSUME Calendar, NEW instant \in Int
    PROVE  /\ Furthest(instant) =
                IF instant < zone.jump THEN instant + zone.before
                ELSE IF instant + zone.after < zone.jump + zone.before - 1
                     THEN zone.jump + zone.before - 1
                     ELSE instant + zone.after
           /\ Furthest(instant) \in Int
<1>1. zone.jump \in Int /\ zone.before \in Int /\ zone.after \in Int
  BY ZonesAre DEF Zone
<1>2. CASE instant < zone.jump
  BY <1>1, <1>2 DEF Furthest, Local, Offset
<1>3. CASE ~(instant < zone.jump)
  <2>1. PICK now \in Int, last \in Int :
            now = instant + zone.after /\ last = zone.jump + zone.before - 1
    BY <1>1
  <2>2. Furthest(instant) = Max({now, last})
    BY <1>3, <2>1 DEF Furthest, Local, Offset
  <2>3. Max({now, last}) \in {now, last} /\ \A w \in {now, last} : Max({now, last}) >= w
    <3>1. \E x \in {now, last} : \A y \in {now, last} : x >= y
      BY <2>1
    <3> QED
      BY <3>1 DEF Max
  <2> QED
    BY <1>1, <1>3, <2>1, <2>2, <2>3
<1> QED
  BY <1>2, <1>3

\* Between the instants of two times, the furthest time shown is between them.
LEMMA FurthestWithin ==
    ASSUME Calendar, NEW first \in Int, NEW last \in Int, Exists(zone, first), Exists(zone, last),
           NEW instant \in Int, InstantOf(first) <= instant, instant < InstantOf(last)
    PROVE  /\ first <= Furthest(instant) /\ Furthest(instant) < last
           /\ Exists(zone, Furthest(instant))
<1>1. /\ zone.jump \in Int /\ zone.before \in Int /\ zone.after \in Int /\ zone \in Zone
  BY ZonesAre DEF Zone
<1>2. /\ Furthest(instant) =
            IF instant < zone.jump THEN instant + zone.before
            ELSE IF instant + zone.after < zone.jump + zone.before - 1
                 THEN zone.jump + zone.before - 1
                 ELSE instant + zone.after
      /\ Furthest(instant) \in Int
  BY FurthestIs
<1>3. ~Skips(zone, first) /\ ~Skips(zone, last)
  BY <1>1, ExistsIs
<1>4. /\ InstantOf(first) = IF first < zone.jump + zone.before \/ first < zone.jump + zone.after
                            THEN first - zone.before ELSE first - zone.after
      /\ InstantOf(last) = IF last < zone.jump + zone.before \/ last < zone.jump + zone.after
                           THEN last - zone.before ELSE last - zone.after
  BY <1>1, InstantIs DEF InstantOf
<1>5. first <= Furthest(instant) /\ Furthest(instant) < last
  BY <1>1, <1>2, <1>3, <1>4 DEF Skips
<1>6. ~Skips(zone, Furthest(instant))
  BY <1>1, <1>2 DEF Skips
<1> QED
  BY <1>1, <1>2, <1>5, <1>6, ExistsIs

\* The time in the zone of the start that the window ends at: the first the clock
\* shows when it has ended.
EndMark ==
    IF OneZone THEN window.end.wall
    ELSE IF zone.jump <= Ended /\ Local(zone, Ended) < zone.jump + zone.before
         THEN zone.jump + zone.before
    ELSE Local(zone, Ended)

\* In the zone of the start the window ends less than a week off its own time.
LEMMA EndedIs ==
    ASSUME Calendar, Asked
    PROVE  /\ Ended \in Int
           /\ ~OneZone => /\ Ended + zone.before <= window.end.wall + Week - DayMinutes
                          /\ Ended + zone.after <= window.end.wall + Week - DayMinutes
<1>1. PICK z \in Zone, e \in Int :
          z = window.end.zone /\ e = window.end.wall
  BY WindowType
<1>2. z.jump \in Int /\ z.before \in Int /\ z.after \in Int
  BY DEF Zone
<1>3. zone.jump \in Int /\ zone.before \in Int /\ zone.after \in Int
  BY ZonesAre DEF Zone
<1>4. Ended = e - z.before \/ Ended = e - z.after
  <2>1. Instant(z, e, 0) = e - z.before \/ Instant(z, e, 0) = e - z.after
    BY InstantIs
  <2>2. Instant(z, e, 1) = e - z.before \/ Instant(z, e, 1) = e - z.after
    BY InstantIs
  <2>3. window.end.fold = 0 \/ window.end.fold = 1
    BY WindowType
  <2> QED
    BY <1>1, <2>1, <2>2, <2>3 DEF Ended
<1>5. ASSUME ~OneZone
      PROVE  \A there \in {z.before, z.after}, here \in {zone.before, zone.after} :
                 here - there <= Week - DayMinutes
  <2>1. z \in Zones /\ zone \in Zones /\ z # zone
    BY <1>1, <1>5, WindowType DEF Calendar, OneZone
  <2>2. \A there \in {z.before, z.after}, here \in {zone.before, zone.after} :
            here - there <= (WeekLength - 1) * DayMinutes
    BY <2>1, ZoneAssumption
  <2>3. (WeekLength - 1) * DayMinutes = Week - DayMinutes
    <3>1. PICK size \in Nat, length \in Nat : size = DayMinutes /\ length = WeekLength
      BY DayType
    <3>2. (length - 1) * size = length * size - size
      OBVIOUS
    <3> QED
      BY <3>1, <3>2 DEF Week
  <2> QED
    BY <2>2, <2>3
<1>6. Week \in Int /\ DayMinutes \in Int
  BY DayType, Weeks
<1>7. Ended \in Int
  BY <1>1, <1>2, <1>4
<1>8. ASSUME ~OneZone
      PROVE  /\ Ended + zone.before <= e + Week - DayMinutes
             /\ Ended + zone.after <= e + Week - DayMinutes
  <2>1. /\ zone.before - z.before <= Week - DayMinutes
        /\ zone.before - z.after <= Week - DayMinutes
        /\ zone.after - z.before <= Week - DayMinutes
        /\ zone.after - z.after <= Week - DayMinutes
    BY <1>5, <1>8
  <2> QED
    BY <1>2, <1>3, <1>4, <1>6, <2>1
<1> QED
  BY <1>1, <1>7, <1>8

\* The window ends after the times the clock shows before EndMark.
LEMMA EndMarkIs ==
    ASSUME Calendar, Asked
    PROVE  /\ EndMark \in Int
           /\ \A wall \in Int : Exists(zone, wall) => (EndsAfter(wall) <=> wall < EndMark)
           /\ ~OneZone => /\ EndMark <= Furthest(Ended) + 1
                          /\ EndMark <= window.end.wall + Week - DayMinutes
<1>1. PICK jump \in Int, before \in Int, after \in Int, t \in Int :
          jump = zone.jump /\ before = zone.before /\ after = zone.after /\ t = Ended
  BY ZonesAre, EndedIs DEF Zone
<1>2. CASE OneZone
  <2>1. EndMark = window.end.wall /\ window.end.wall \in Int
    BY <1>2, WindowType DEF EndMark
  <2> QED
    BY <1>2, <2>1 DEF EndsAfter
<1>3. CASE ~OneZone
  <2>1. Furthest(t) = IF t < jump THEN t + before
                      ELSE IF t + after < jump + before - 1 THEN jump + before - 1
                      ELSE t + after
    BY <1>1, FurthestIs
  <2>2. Local(zone, t) = IF t < jump THEN t + before ELSE t + after
    BY <1>1 DEF Local, Offset
  <2>3. EndMark = IF jump <= t /\ Local(zone, t) < jump + before
                  THEN jump + before ELSE Local(zone, t)
    BY <1>1, <1>3 DEF EndMark
  <2>4. EndMark = IF t < jump THEN t + before
                  ELSE IF t + after < jump + before THEN jump + before
                  ELSE t + after
    BY <2>2, <2>3
  <2>5. ASSUME NEW wall \in Int, Exists(zone, wall)
        PROVE  EndsAfter(wall) <=> wall < EndMark
    <3>1. ~(jump + before <= wall /\ wall < jump + after)
      BY <1>1, <2>5, ExistsIs, ZonesAre DEF Skips
    <3>2. InstantOf(wall) = IF wall < jump + before \/ wall < jump + after
                            THEN wall - before ELSE wall - after
      BY <1>1, InstantIs, ZonesAre DEF InstantOf
    <3>3. EndsAfter(wall) <=> InstantOf(wall) < t
      BY <1>1, <1>3 DEF EndsAfter
    <3> QED
      <4>1. CASE t < jump
        BY <2>4, <3>1, <3>2, <3>3, <4>1
      <4>2. CASE ~(t < jump) /\ t + after < jump + before
        BY <2>4, <3>1, <3>2, <3>3, <4>2
      <4>3. CASE ~(t < jump) /\ ~(t + after < jump + before)
        BY <2>4, <3>1, <3>2, <3>3, <4>3
      <4> QED
        BY <4>1, <4>2, <4>3
  <2>6. PICK last \in Int : last = window.end.wall + Week - DayMinutes
    BY DayType, Weeks, WindowType
  <2>7. t + before <= last /\ t + after <= last
    BY <1>1, <1>3, <2>6, EndedIs
  <2>8. EndMark \in Int /\ EndMark <= Furthest(t) + 1 /\ EndMark <= last
    BY <2>1, <2>4, <2>7
  <2> QED
    BY <1>1, <2>5, <2>6, <2>8
<1> QED
  BY <1>2, <1>3

LEMMA EndIsMarked ==
    ASSUME Calendar, Asked, OneZone => window.end.fold = 0
    PROVE  \A wall \in Int : Exists(zone, wall) => (InstantOf(wall) < Ended <=> wall < EndMark)
<1>1. CASE ~OneZone
  BY <1>1, EndMarkIs DEF EndsAfter
<1>2. CASE OneZone
  <2>1. PICK e \in Int : e = window.end.wall /\ EndMark = e
    BY <1>2, WindowType DEF EndMark
  <2>2. Exists(zone, e) /\ Ended = Instant(zone, e, 0)
    BY <1>2, <2>1 DEF Asked, Ended, OneZone
  <2> QED
    BY <2>1, <2>2, InstantsInOrder, ZonesAre DEF InstantOf
<1> QED
  BY <1>1, <1>2

\* Only a clock that is put back shows the end of a window before its start.
LEMMA WindowInOrder ==
    ASSUME Calendar, Asked, Started < Ended
    PROVE  /\ zone.before <= zone.after => window.start.wall < EndMark
           /\ (window.start.fold = 0 /\ (OneZone => window.end.fold = 0))
                 => window.start.wall < EndMark
           /\ ~OneZone => window.start.wall < EndMark
<1>1. PICK jump \in Int, before \in Int, after \in Int :
          jump = zone.jump /\ before = zone.before /\ after = zone.after
  BY ZonesAre DEF Zone
<1>2. PICK s \in Int : s = window.start.wall
  BY WindowType
<1>3. ~(jump + before <= s /\ s < jump + after)
  BY <1>1, <1>2, ExistsIs, ZonesAre DEF Asked, Skips
<1>4. /\ Instant(zone, s, 0) = IF s < jump + before \/ s < jump + after
                               THEN s - before ELSE s - after
      /\ Instant(zone, s, 1) = IF s < jump + before /\ s < jump + after
                               THEN s - before ELSE s - after
  BY <1>1, ZonesAre, InstantIs
<1>5. window.start.fold = 0 \/ window.start.fold = 1
  BY WindowType
<1>6. Started = Instant(zone, s, window.start.fold)
  BY <1>2 DEF Started
<1>7. CASE OneZone
  <2>1. PICK e \in Int : e = window.end.wall /\ EndMark = e
    BY <1>7, WindowType DEF EndMark
  <2>2. ~(jump + before <= e /\ e < jump + after)
    <3>1. Exists(zone, e)
      BY <1>7, <2>1 DEF Asked, OneZone
    <3> QED
      BY <1>1, <3>1, ExistsIs, ZonesAre DEF Skips
  <2>3. /\ Instant(zone, e, 0) = IF e < jump + before \/ e < jump + after
                                 THEN e - before ELSE e - after
        /\ Instant(zone, e, 1) = IF e < jump + before /\ e < jump + after
                                 THEN e - before ELSE e - after
    BY <1>1, ZonesAre, InstantIs
  <2>4. window.end.fold = 0 \/ window.end.fold = 1
    BY WindowType
  <2>5. Ended = Instant(zone, e, window.end.fold)
    BY <1>7, <2>1 DEF Ended, OneZone
  <2>6. Instant(zone, s, window.start.fold) < Instant(zone, e, window.end.fold)
    BY <1>6, <2>5
  <2>7. before <= after => s < e
    BY <1>3, <1>4, <1>5, <2>2, <2>3, <2>4, <2>6
  <2>8. (window.start.fold = 0 /\ window.end.fold = 0) => s < e
    BY <1>3, <1>4, <2>2, <2>3, <2>6
  <2> QED
    BY <1>1, <1>2, <1>7, <2>1, <2>7, <2>8
<1>8. CASE ~OneZone
  <2>1. PICK t \in Int : t = Ended
    BY EndedIs
  <2>2. EndMark = IF t < jump THEN t + before
                  ELSE IF t + after < jump + before THEN jump + before
                  ELSE t + after
    <3>1. Local(zone, t) = IF t < jump THEN t + before ELSE t + after
      BY <1>1 DEF Local, Offset
    <3>2. EndMark = IF jump <= t /\ Local(zone, t) < jump + before
                    THEN jump + before ELSE Local(zone, t)
      BY <1>1, <1>8, <2>1 DEF EndMark
    <3> QED
      BY <3>1, <3>2
  <2>3. Instant(zone, s, window.start.fold) < t
    BY <1>6, <2>1
  <2>4. s < EndMark
    <3>1. CASE t < jump
      BY <1>3, <1>4, <1>5, <2>2, <2>3, <3>1
    <3>2. CASE ~(t < jump) /\ t + after < jump + before
      BY <1>3, <1>4, <1>5, <2>2, <2>3, <3>2
    <3>3. CASE ~(t < jump) /\ ~(t + after < jump + before)
      BY <1>3, <1>4, <1>5, <2>2, <2>3, <3>3
    <3> QED
      BY <3>1, <3>2, <3>3
  <2> QED
    BY <1>2, <2>4
<1> QED
  BY <1>7, <1>8

\* The dates gone through start a week before the window and end after it, and a
\* week after it if the window ends on its date.
LEMMA DatesAround ==
    ASSUME Calendar, Asked
    PROVE  /\ First \in Int /\ Final \in Int
           /\ Midnight(First) \in Int /\ Midnight(Final) \in Int /\ EndMark \in Int
           /\ Midnight(First) + Week <= window.start.wall
           /\ EndMark < Midnight(Final)
           /\ window.start.wall < EndMark => First <= Final /\ Midnight(First) < Midnight(Final)
           /\ EndsOnItsDate => EndMark <= Midnight(Final) + DayMinutes - Week
           /\ (EndsOnItsDate /\ window.start.wall < EndMark)
                => Midnight(First) + Week + Week <= Midnight(Final)
<1>1. PICK s \in Int, e \in Int, m \in Int :
          s = window.start.wall /\ e = window.end.wall /\ m = EndMark
  BY WindowType, EndMarkIs
<1>2. /\ Date(s) \in Int /\ Midnight(Date(s)) \in Int
      /\ Midnight(Date(s)) <= s /\ s < Midnight(Date(s)) + DayMinutes
  BY DateBounds
<1>3. /\ Date(e) \in Int /\ Midnight(Date(e)) \in Int
      /\ Midnight(Date(e)) <= e /\ e < Midnight(Date(e)) + DayMinutes
  BY DateBounds
<1>4. /\ Week \in Nat \ {0} /\ DayMinutes <= Week /\ DayMinutes \in Nat \ {0}
      /\ WeekLength \in Nat
  BY DayType, Weeks
<1>5. First = Date(s) - WeekLength /\ Final = Date(e) + WeekLength
  BY <1>1 DEF First, Final
<1>6. Midnight(First) = Midnight(Date(s)) - Week /\ Midnight(Final) = Midnight(Date(e)) + Week
  BY <1>2, <1>3, <1>5, Weeks
<1>7. First \in Int /\ Final \in Int
  BY <1>2, <1>3, <1>4, <1>5
<1>8. m < Midnight(Final)
  <2>1. CASE OneZone
    BY <1>1, <1>3, <1>4, <1>6, <2>1 DEF EndMark
  <2>2. CASE ~OneZone
    <3>1. m <= e + Week - DayMinutes
      BY <1>1, <2>2, EndMarkIs
    <3> QED
      BY <1>3, <1>4, <1>6, <3>1
  <2> QED
    BY <2>1, <2>2
<1>9. s < m => First <= Final /\ Midnight(First) < Midnight(Final)
  <2>1. Final < First => Midnight(Final) + DayMinutes <= Midnight(First)
    BY <1>7, MidnightsInOrder
  <2> QED
    BY <1>2, <1>3, <1>4, <1>6, <1>7, <1>8, <2>1
<1>10. ASSUME EndsOnItsDate
       PROVE  m <= Midnight(Date(e)) + DayMinutes
  <2>1. CASE OneZone
    BY <1>1, <1>3, <1>4, <2>1 DEF EndMark
  <2>2. CASE ~OneZone
    <3>1. PICK f \in Int : f = Furthest(Ended)
      BY EndedIs, FurthestIs
    <3>2. /\ Date(f) \in Int /\ Midnight(Date(f)) \in Int
          /\ f < Midnight(Date(f)) + DayMinutes
      BY DateBounds
    <3>3. Date(f) <= Date(e)
      BY <1>1, <1>10, <2>2, <3>1 DEF EndsOnItsDate
    <3>4. Midnight(Date(f)) <= Midnight(Date(e))
      BY <1>3, <3>2, <3>3, MidnightsInOrder
    <3>5. m <= f + 1
      BY <1>1, <2>2, <3>1, EndMarkIs
    <3> QED
      BY <1>3, <1>4, <3>2, <3>4, <3>5
  <2> QED
    BY <2>1, <2>2
<1>11. ASSUME EndsOnItsDate, s < m
       PROVE  Midnight(First) + Week + Week <= Midnight(Final)
  <2>1. Date(e) < Date(s) => Midnight(Date(e)) + DayMinutes <= Midnight(Date(s))
    BY <1>2, <1>3, MidnightsInOrder
  <2>2. Date(s) <= Date(e) => Midnight(Date(s)) <= Midnight(Date(e))
    BY <1>2, <1>3, MidnightsInOrder
  <2>3. Date(s) <= Date(e)
    BY <1>2, <1>3, <1>4, <1>10, <1>11, <2>1
  <2> QED
    BY <1>2, <1>3, <1>4, <1>6, <2>2, <2>3
<1>12. /\ Midnight(First) \in Int /\ Midnight(Final) \in Int
       /\ Midnight(First) + Week <= s
       /\ EndsOnItsDate => m <= Midnight(Final) + DayMinutes - Week
  BY <1>2, <1>3, <1>4, <1>6, <1>10
<1> QED
  BY <1>1, <1>7, <1>8, <1>9, <1>11, <1>12

\* A period overlaps the window if it lies around it in the times the clock shows.
LEMMA OverlapsIs ==
    ASSUME Calendar, Asked, NEW p, p.start \in Int, Exists(zone, p.start)
    PROVE  Overlaps(p) <=> (p.end > window.start.wall /\ p.start < EndMark)
BY EndMarkIs DEF Overlaps

LEMMA AllMarks ==
    ASSUME Calendar, Asked, First <= Final
    PROVE  HasTimes(Marks, Midnight(First), Midnight(Final + 1))
<1>1. First \in Int /\ Final \in Int /\ First <= Final
  BY DatesAround
<1>2. PICK size \in Nat \ {0} : size = Final - First + 1
  <2>1. Final - First + 1 \in Nat \ {0}
    BY <1>1
  <2> QED
    BY <2>1
<1> DEFINE lists == [k \in 1 .. size |-> MarksOf(First + k - 1)]
<1>3. Marks = FlattenSeq(lists)
  <2>1. Dates = [k \in 1 .. size |-> First + k - 1]
    BY <1>2 DEF Dates, First, Final
  <2>2. DOMAIN Dates = 1 .. size /\ \A k \in 1 .. size : Dates[k] = First + k - 1
    BY <2>1
  <2> QED
    BY <2>2 DEF Marks
<1>4. \A date \in Int : HasTimes(MarksOf(date), Midnight(date), Midnight(date + 1))
  BY OneDay
<1>5. \A k \in 1 .. size : First + k - 1 \in Int /\ MarksOf(First + k - 1) \in Seq(Mark)
  BY <1>1, <1>4 DEF HasTimes, Timed
<1>6. lists \in Seq(Seq(Mark)) /\ Len(lists) = size /\ lists # <<>>
  <2>1. lists \in [1 .. size -> Seq(Mark)]
    BY <1>5
  <2> HIDE DEF lists
  <2>2. lists \in Seq(Seq(Mark)) /\ Len(lists) = size
    BY <2>1, LenOf
  <2> QED
    BY <2>2
<1>7. PICK f : FlattenRun(f, lists, size) /\ FlattenSeq(lists) = f[size]
  <2> HIDE DEF lists
  <2> QED
    BY <1>6, FlattenIsRun
<1>8. \A k \in 1 .. size :
          f[k] = IF k = 1 THEN MarksOf(First + k - 1) ELSE f[k - 1] \o MarksOf(First + k - 1)
  BY <1>7 DEF FlattenRun
<1> HIDE DEF lists
<1> DEFINE Good == {k \in 0 .. size :
                       k = 0 \/ HasTimes(f[k], Midnight(First), Midnight(First + k))}
<1>9. 0 \in Good
  OBVIOUS
<1>10. ASSUME NEW k \in 1 .. size, k - 1 \in Good
       PROVE  k \in Good
  <2>1. /\ First + k - 1 \in Int /\ (First + k - 1) + 1 = First + k /\ First + k \in Int
        /\ First + (k - 1) = First + k - 1
    BY <1>1
  <2>2. HasTimes(MarksOf(First + k - 1), Midnight(First + k - 1), Midnight(First + k))
    BY <1>4, <2>1
  <2>3. /\ Midnight(First) \in Int /\ Midnight(First + k - 1) \in Int
        /\ Midnight(First + k) \in Int
    BY <1>1, <2>1, Midnights
  <2>4. CASE k = 1
    <3>1. f[k] = MarksOf(First + k - 1) /\ First + k - 1 = First
      BY <1>1, <1>8, <2>4
    <3> QED
      BY <2>2, <3>1
  <2>5. CASE k # 1
    <3>1. HasTimes(f[k - 1], Midnight(First), Midnight(First + k - 1))
      <4>1. k - 1 # 0
        BY <2>5
      <4> QED
        BY <1>10, <2>1, <4>1
    <3>2. f[k] = f[k - 1] \o MarksOf(First + k - 1)
      BY <1>8, <2>5
    <3>3. HasTimes(f[k - 1] \o MarksOf(First + k - 1), Midnight(First), Midnight(First + k))
      BY <2>2, <2>3, <3>1, TimesJoin
    <3>4. HasTimes(f[k], Midnight(First), Midnight(First + k))
      <4> HIDE DEF Good
      <4> QED
        BY <3>2, <3>3
    <3> QED
      BY <3>4
  <2> QED
    BY <2>4, <2>5
<1>11. size \in Good
  <2> HIDE DEF Good
  <2>1. \A k \in 0 .. size : k \in Good
    BY <1>9, <1>10, Upwards
  <2> QED
    BY <2>1
<1>12. First + size = Final + 1
  BY <1>1, <1>2
<1> QED
  BY <1>3, <1>7, <1>11, <1>12

-----------------------------------------------------------------------------
(***************************************************************************)
(* The periods: neighbouring marks of one level joined                     *)
(***************************************************************************)
Period == [start : Int, end : Int, level : Levels]

LEMMA JoinedType ==
    ASSUME NEW periods \in Seq(Period), NEW began \in Mark, NEW next_began \in Mark
    PROVE  Joined(periods, began, next_began) \in Seq(Period)
<1> DEFINE opened == [start |-> began.at, end |-> next_began.at, level |-> began.level]
           longer == [Last(periods) EXCEPT !.end = next_began.at]
<1>1. opened \in Period /\ next_began.at \in Int
  BY DEF Period, Mark
<1>2. CASE periods # <<>> /\ Last(periods).level = began.level
  <2>1. Last(periods) \in Period /\ Front(periods) \in Seq(Period)
    BY <1>2 DEF Last, Front
  <2>2. longer \in Period
    BY <1>1, <2>1 DEF Period
  <2>3. Joined(periods, began, next_began) = Append(Front(periods), longer)
    BY <1>2 DEF Joined
  <2> HIDE DEF longer
  <2> QED
    BY <2>1, <2>2, <2>3
<1>3. CASE ~(periods # <<>> /\ Last(periods).level = began.level)
  <2>1. Joined(periods, began, next_began) = Append(periods, opened)
    BY <1>3 DEF Joined
  <2> HIDE DEF opened
  <2> QED
    BY <1>1, <2>1
<1> QED
  BY <1>2, <1>3

JoinedRun(f, marks) ==
    \A k \in 0 .. Len(marks) :
        f[k] = IF k <= 1 THEN <<>> ELSE Joined(f[k - 1], marks[k - 1], marks[k])

LEMMA AllPeriodsIsRun ==
    ASSUME NEW size \in Nat, Marks \in Seq(Mark), Len(Marks) = size
    PROVE  \E f : JoinedRun(f, Marks) /\ AllPeriods = f[size]
<1> DEFINE marks == Marks
           Run(f) == [k \in 0 .. Len(marks) |->
                         IF k <= 1 THEN <<>> ELSE Joined(f[k - 1], marks[k - 1], marks[k])]
           upto == CHOOSE f : f = Run(f)
<1>1. AllPeriods = upto[size]
  BY DEF AllPeriods
<1>2. \A k \in 1 .. size : marks[k] \in Mark
  BY Elements
<1> DEFINE step == [i \in 1 .. size |->
                       [s \in Seq(Period) |->
                           IF i = 1 THEN <<>> ELSE Joined(s, marks[i - 1], marks[i])]]
<1> HIDE DEF marks
<1>3. step \in [1 .. size -> [Seq(Period) -> Seq(Period)]]
  <2>1. \A i \in 1 .. size : i = 1 \/ i - 1 \in 1 .. size
    OBVIOUS
  <2>2. \A i \in 1 .. size, s \in Seq(Period) :
            i # 1 => Joined(s, marks[i - 1], marks[i]) \in Seq(Period)
    BY <1>2, <2>1, JoinedType
  <2>3. <<>> \in Seq(Period)
    OBVIOUS
  <2>4. \A i \in 1 .. size, s \in Seq(Period) :
            (IF i = 1 THEN <<>> ELSE Joined(s, marks[i - 1], marks[i])) \in Seq(Period)
    BY <2>2, <2>3
  <2> QED
    BY <2>4
<1>4. \A i \in 1 .. size, s \in Seq(Period) :
          step[i][s] = IF i = 1 THEN <<>> ELSE Joined(s, marks[i - 1], marks[i])
  OBVIOUS
<1>5. <<>> \in Seq(Period)
  OBVIOUS
<1> HIDE DEF step
<1>6. PICK f : IsRun(f, Seq(Period), <<>>, size, step)
  BY <1>3, <1>5, RunExists
<1>7. /\ f \in [0 .. size -> Seq(Period)] /\ f[0] = <<>>
      /\ \A i \in 1 .. size : f[i] = step[i][f[i - 1]]
  BY <1>6 DEF IsRun
<1>8. ASSUME NEW k \in 0 .. size
      PROVE  f[k] = IF k <= 1 THEN <<>> ELSE Joined(f[k - 1], marks[k - 1], marks[k])
  <2>1. CASE k = 0
    BY <1>7, <2>1
  <2>2. CASE k # 0
    <3>1. k \in 1 .. size /\ k - 1 \in 0 .. size /\ (k <= 1 <=> k = 1)
      BY <2>2
    <3>2. f[k] = step[k][f[k - 1]] /\ f[k - 1] \in Seq(Period)
      BY <1>7, <3>1
    <3>3. f[k] = IF k = 1 THEN <<>> ELSE Joined(f[k - 1], marks[k - 1], marks[k])
      BY <1>4, <3>1, <3>2
    <3> QED
      BY <3>1, <3>3
  <2> QED
    BY <2>1, <2>2
<1>9. Len(marks) = size
  BY DEF marks
<1>10. f = Run(f)
  <2> DEFINE h == Run(f)
  <2>1. DOMAIN f = 0 .. size /\ f = [k \in 0 .. size |-> f[k]]
    BY <1>7
  <2>2. h = [k \in 0 .. size |->
                IF k <= 1 THEN <<>> ELSE Joined(f[k - 1], marks[k - 1], marks[k])]
    BY <1>9
  <2> HIDE DEF h
  <2>3. \A k \in 0 .. size : f[k] = h[k]
    BY <1>8, <2>2
  <2>4. f = h
    BY <2>1, <2>2, <2>3
  <2> QED
    BY <2>4 DEF h
<1>11. upto = Run(upto)
  BY <1>10
<1> HIDE DEF upto
<1>12. JoinedRun(upto, marks)
  BY <1>11 DEF JoinedRun
<1> QED
  BY <1>1, <1>12 DEF marks

\* Of a window turned round by more than two weeks there are no periods.
LEMMA NoDates ==
    ASSUME Calendar, Asked, Final < First
    PROVE  AllPeriods = <<>>
<1>1. First \in Int /\ Final \in Int
  BY DatesAround
<1>2. Dates = [k \in 1 .. Final - First + 1 |-> First + k - 1]
  BY DEF Dates, First, Final
<1>3. 1 .. Final - First + 1 = {}
  BY <1>1
<1>4. Dates = <<>>
  BY <1>2, <1>3
<1>5. [k \in DOMAIN Dates |-> MarksOf(Dates[k])] = <<>>
  <2>1. DOMAIN Dates = {}
    BY <1>2, <1>3
  <2> QED
    BY <2>1
<1>6. FlattenSeq(<<>>) = <<>>
  BY DEF FlattenSeq
<1>7. Marks = <<>>
  BY <1>5, <1>6 DEF Marks
<1>8. Marks \in Seq(Mark) /\ Len(Marks) = 0
  BY <1>7
<1>9. PICK f : JoinedRun(f, Marks) /\ AllPeriods = f[0]
  BY <1>8, AllPeriodsIsRun
<1> QED
  BY <1>8, <1>9 DEF JoinedRun

\* The cuts are the wall-clock times, in order, between which each period lies:
\* it goes from the one to the next, the schedule has its level in between, and
\* the next period has another.
Laid(cuts, periods, from, to) ==
    /\ cuts \in Seq(Int) /\ periods \in Seq(Period) /\ Len(cuts) = Len(periods) + 1
    /\ cuts[1] = from /\ cuts[Len(periods) + 1] = to
    /\ \A i, j \in 1 .. Len(periods) + 1 : i < j => cuts[i] < cuts[j]
    /\ \A q \in 1 .. Len(periods) :
        /\ periods[q].start = Resolved(zone, cuts[q])
        /\ periods[q].end = Resolved(zone, cuts[q + 1])
        /\ \A wall \in Int :
            (cuts[q] <= wall /\ wall < cuts[q + 1]) => Scheduled(wall) = periods[q].level
    /\ \A q \in 1 .. Len(periods) - 1 : periods[q].level # periods[q + 1].level

HasCuts(periods, from, to) == \E cuts : Laid(cuts, periods, from, to)

LEMMA NothingLaid ==
    ASSUME NEW from \in Int
    PROVE  HasCuts(<<>>, from, from)
<1> DEFINE cuts == <<from>>
<1>1. cuts \in Seq(Int) /\ Len(cuts) = 1 /\ cuts[1] = from
  OBVIOUS
<1>2. <<>> \in Seq(Period) /\ Len(<<>>) = 0
  OBVIOUS
<1> HIDE DEF cuts
<1>3. Laid(cuts, <<>>, from, from)
  <2>1. /\ \A i, j \in 1 .. 1 : ~(i < j)
        /\ 1 .. 0 = {} /\ 1 .. -1 = {}
    OBVIOUS
  <2> QED
    BY <1>1, <1>2, <2>1 DEF Laid
<1> QED
  BY <1>3 DEF HasCuts

\* From a mark to the next one the schedule has its level.
Steady(level, from, to) ==
    \A wall \in Int : (from <= wall /\ wall < to) => Scheduled(wall) = level

LEMMA PeriodExtended ==
    ASSUME NEW cuts, NEW periods, NEW from \in Int, NEW middle \in Int, NEW to \in Int,
           Laid(cuts, periods, from, middle), middle < to,
           NEW began \in Mark, NEW next_began \in Mark,
           next_began.at = Resolved(zone, to), Steady(began.level, middle, to),
           periods # <<>>, Last(periods).level = began.level
    PROVE  HasCuts(Joined(periods, began, next_began), from, to)
<1>1. cuts \in Seq(Int) /\ periods \in Seq(Period) /\ Len(cuts) = Len(periods) + 1
  BY DEF Laid
<1>2. PICK n \in Nat \ {0} : n = Len(periods)
  BY <1>1
<1>3. /\ cuts[1] = from /\ cuts[n + 1] = middle
      /\ \A i, j \in 1 .. n + 1 : i < j => cuts[i] < cuts[j]
      /\ \A q \in 1 .. n :
          /\ periods[q].start = Resolved(zone, cuts[q])
          /\ periods[q].end = Resolved(zone, cuts[q + 1])
          /\ \A wall \in Int :
              (cuts[q] <= wall /\ wall < cuts[q + 1]) => Scheduled(wall) = periods[q].level
      /\ \A q \in 1 .. n - 1 : periods[q].level # periods[q + 1].level
  BY <1>2 DEF Laid
<1> DEFINE longer == [Last(periods) EXCEPT !.end = next_began.at]
           after == Joined(periods, began, next_began)
           moved == [i \in 1 .. n + 1 |-> IF i = n + 1 THEN to ELSE cuts[i]]
<1>4. after = Append(Front(periods), longer)
  BY DEF Joined
<1>5. after \in Seq(Period)
  BY <1>1, JoinedType
<1>6. \A q \in 1 .. n : periods[q] \in Period
  BY <1>1, <1>2, Elements
<1>7. /\ longer.start = periods[n].start /\ longer.end = Resolved(zone, to)
      /\ longer.level = periods[n].level /\ longer.level = began.level
  BY <1>2, <1>6 DEF Last, Period
<1>8. Front(periods) \in Seq(Period) /\ Len(Front(periods)) = n - 1
      /\ \A q \in 1 .. n - 1 : Front(periods)[q] = periods[q]
  BY <1>1, <1>2 DEF Front
<1>9. longer \in Period
  BY <1>2, <1>6, <1>7, <1>5 DEF Last, Period, Mark
<1> HIDE DEF longer, after
<1>10. Len(after) = n /\ after[n] = longer /\ \A q \in 1 .. n - 1 : after[q] = periods[q]
  <2> DEFINE front == Front(periods)
  <2> HIDE DEF front
  <2>1. front \in Seq(Period) /\ Len(front) = n - 1 /\ \A q \in 1 .. n - 1 : front[q] = periods[q]
    BY <1>8 DEF front
  <2>2. after = Append(front, longer)
    BY <1>4 DEF front
  <2> QED
    BY <1>9, <2>1, <2>2
<1>11. \A i \in 1 .. n + 1 : cuts[i] \in Int
  BY <1>1, <1>2, Elements
<1>12. moved \in Seq(Int) /\ Len(moved) = n + 1
  <2>1. moved \in [1 .. n + 1 -> Int]
    BY <1>11
  <2> HIDE DEF moved
  <2> QED
    BY <2>1, LenOf
<1>13. moved[n + 1] = to /\ \A i \in 1 .. n : moved[i] = cuts[i]
  OBVIOUS
<1> HIDE DEF moved
<1>14. ASSUME NEW i \in 1 .. n + 1, NEW j \in 1 .. n + 1, i < j
       PROVE  moved[i] < moved[j]
  <2>1. i \in 1 .. n /\ cuts[i] < cuts[j] /\ cuts[i] \in Int /\ cuts[j] \in Int
    BY <1>3, <1>11, <1>14
  <2>2. CASE j = n + 1
    BY <1>3, <1>13, <2>1, <2>2
  <2>3. CASE j # n + 1
    <3>1. j \in 1 .. n
      BY <2>3
    <3> QED
      BY <1>13, <2>1, <3>1
  <2> QED
    BY <2>2, <2>3
<1>15. ASSUME NEW q \in 1 .. n
       PROVE  /\ after[q].start = Resolved(zone, moved[q])
              /\ after[q].end = Resolved(zone, moved[q + 1])
              /\ \A wall \in Int :
                  (moved[q] <= wall /\ wall < moved[q + 1]) => Scheduled(wall) = after[q].level
  <2>1. CASE q = n
    <3>1. n \in 1 .. n
      OBVIOUS
    <3>2. after[q].start = Resolved(zone, moved[q]) /\ after[q].end = Resolved(zone, moved[q + 1])
      BY <1>3, <1>7, <1>10, <1>13, <2>1, <3>1
    <3>3. ASSUME NEW wall \in Int, moved[n] <= wall, wall < to
          PROVE  Scheduled(wall) = longer.level
      <4>1. cuts[n] <= wall
        BY <1>13, <3>1, <3>3
      <4>2. CASE wall < middle
        BY <1>3, <1>7, <3>1, <4>1, <4>2
      <4>3. CASE middle <= wall
        BY <1>7, <3>3, <4>3 DEF Steady
      <4> QED
        BY <4>2, <4>3
    <3> QED
      BY <1>10, <1>13, <2>1, <3>2, <3>3
  <2>2. CASE q # n
    <3>1. q \in 1 .. n - 1 /\ q + 1 \in 1 .. n
      BY <2>2
    <3>2. after[q] = periods[q] /\ moved[q] = cuts[q] /\ moved[q + 1] = cuts[q + 1]
      BY <1>10, <1>13, <3>1
    <3> QED
      BY <1>3, <3>2
  <2> QED
    BY <2>1, <2>2
<1>16. ASSUME NEW q \in 1 .. n - 1
       PROVE  after[q].level # after[q + 1].level
  <2>1. periods[q].level # periods[q + 1].level /\ after[q] = periods[q]
    BY <1>3, <1>10
  <2>2. CASE q + 1 = n
    BY <1>7, <1>10, <2>1, <2>2
  <2>3. CASE q + 1 # n
    <3>1. q + 1 \in 1 .. n - 1
      BY <2>3
    <3> QED
      BY <1>10, <2>1, <3>1
  <2> QED
    BY <2>2, <2>3
<1>17. moved[1] = from
  BY <1>3, <1>13
<1>18. Laid(moved, after, from, to)
  BY <1>5, <1>10, <1>12, <1>13, <1>14, <1>15, <1>16, <1>17 DEF Laid
<1> QED
  BY <1>18 DEF HasCuts, after

LEMMA PeriodOpened ==
    ASSUME NEW cuts, NEW periods, NEW from \in Int, NEW middle \in Int, NEW to \in Int,
           Laid(cuts, periods, from, middle), middle < to,
           NEW began \in Mark, NEW next_began \in Mark,
           began.at = Resolved(zone, middle), next_began.at = Resolved(zone, to),
           Steady(began.level, middle, to),
           ~(periods # <<>> /\ Last(periods).level = began.level)
    PROVE  HasCuts(Joined(periods, began, next_began), from, to)
<1>1. cuts \in Seq(Int) /\ periods \in Seq(Period) /\ Len(cuts) = Len(periods) + 1
  BY DEF Laid
<1>2. PICK n \in Nat : n = Len(periods)
  BY <1>1
<1>3. /\ cuts[1] = from /\ cuts[n + 1] = middle
      /\ \A i, j \in 1 .. n + 1 : i < j => cuts[i] < cuts[j]
      /\ \A q \in 1 .. n :
          /\ periods[q].start = Resolved(zone, cuts[q])
          /\ periods[q].end = Resolved(zone, cuts[q + 1])
          /\ \A wall \in Int :
              (cuts[q] <= wall /\ wall < cuts[q + 1]) => Scheduled(wall) = periods[q].level
      /\ \A q \in 1 .. n - 1 : periods[q].level # periods[q + 1].level
  BY <1>2 DEF Laid
<1> DEFINE opened == [start |-> began.at, end |-> next_began.at, level |-> began.level]
           after == Joined(periods, began, next_began)
           longer == Append(cuts, to)
<1>4. after = Append(periods, opened)
  BY DEF Joined
<1>5. after \in Seq(Period)
  BY <1>1, JoinedType
<1>6. /\ opened.start = Resolved(zone, middle) /\ opened.end = Resolved(zone, to)
      /\ opened.level = began.level /\ opened \in Period
  BY DEF Period, Mark
<1> HIDE DEF opened, after
<1>7. Len(after) = n + 1 /\ after[n + 1] = opened /\ \A q \in 1 .. n : after[q] = periods[q]
  BY <1>1, <1>2, <1>4, <1>6
<1>8. \A i \in 1 .. n + 1 : cuts[i] \in Int
  BY <1>1, <1>2, Elements
<1>9. /\ longer \in Seq(Int) /\ Len(longer) = n + 2 /\ longer[n + 2] = to
      /\ \A i \in 1 .. n + 1 : longer[i] = cuts[i]
  BY <1>1, <1>2
<1> HIDE DEF longer
<1>10. ASSUME NEW i \in 1 .. n + 2, NEW j \in 1 .. n + 2, i < j
       PROVE  longer[i] < longer[j]
  <2>1. i \in 1 .. n + 1
    BY <1>10
  <2>2. CASE j = n + 2
    <3>1. cuts[i] <= middle
      <4>1. n + 1 \in 1 .. n + 1 /\ (i < n + 1 \/ i = n + 1)
        BY <2>1
      <4>2. cuts[i] \in Int /\ cuts[n + 1] \in Int
        BY <1>8, <2>1, <4>1
      <4>3. i < n + 1 => cuts[i] < cuts[n + 1]
        BY <1>3, <2>1, <4>1
      <4>4. cuts[i] = cuts[n + 1] \/ cuts[i] < cuts[n + 1]
        BY <4>1, <4>3
      <4> QED
        BY <1>3, <4>2, <4>4
    <3> QED
      BY <1>8, <1>9, <2>1, <2>2, <3>1
  <2>3. CASE j # n + 2
    <3>1. j \in 1 .. n + 1
      BY <2>3
    <3> QED
      BY <1>3, <1>9, <1>10, <2>1, <3>1
  <2> QED
    BY <2>2, <2>3
<1>11. ASSUME NEW q \in 1 .. n + 1
       PROVE  /\ after[q].start = Resolved(zone, longer[q])
              /\ after[q].end = Resolved(zone, longer[q + 1])
              /\ \A wall \in Int :
                  (longer[q] <= wall /\ wall < longer[q + 1]) => Scheduled(wall) = after[q].level
  <2>1. CASE q = n + 1
    <3>1. n + 1 \in 1 .. n + 1 /\ (n + 1) + 1 = n + 2
      OBVIOUS
    <3>2. longer[q] = middle /\ longer[q + 1] = to /\ after[q] = opened
      BY <1>3, <1>7, <1>9, <2>1, <3>1
    <3> QED
      BY <1>6, <3>2 DEF Steady
  <2>2. CASE q # n + 1
    <3>1. q \in 1 .. n /\ q \in 1 .. n + 1 /\ q + 1 \in 1 .. n + 1
      BY <2>2
    <3>2. after[q] = periods[q] /\ longer[q] = cuts[q] /\ longer[q + 1] = cuts[q + 1]
      BY <1>7, <1>9, <3>1
    <3> QED
      BY <1>3, <3>1, <3>2
  <2> QED
    BY <2>1, <2>2
<1>12. ASSUME NEW q \in 1 .. n
       PROVE  after[q].level # after[q + 1].level
  <2>1. after[q] = periods[q]
    BY <1>7
  <2>2. CASE q = n
    <3>1. Last(periods) = periods[n] /\ periods # <<>>
      BY <1>1, <1>2, <2>2 DEF Last
    <3>2. periods[n].level # began.level
      BY <3>1
    <3> QED
      BY <1>6, <1>7, <2>1, <2>2, <3>2
  <2>3. CASE q # n
    <3>1. q \in 1 .. n - 1 /\ q + 1 \in 1 .. n
      BY <2>3
    <3> QED
      BY <1>3, <1>7, <2>1, <3>1
  <2> QED
    BY <2>2, <2>3
<1>13. longer[1] = from
  BY <1>3, <1>9
<1>14. Laid(longer, after, from, to)
  <2>1. (n + 1) + 1 = n + 2 /\ (n + 1) - 1 = n
    OBVIOUS
  <2> QED
    BY <1>5, <1>7, <1>9, <1>10, <1>11, <1>12, <1>13, <2>1 DEF Laid
<1> QED
  BY <1>14 DEF HasCuts, after

LEMMA JoinedIsLaid ==
    ASSUME NEW periods, NEW from \in Int, NEW middle \in Int, NEW to \in Int,
           HasCuts(periods, from, middle), middle < to,
           NEW began \in Mark, NEW next_began \in Mark,
           began.at = Resolved(zone, middle), next_began.at = Resolved(zone, to),
           Steady(began.level, middle, to)
    PROVE  HasCuts(Joined(periods, began, next_began), from, to)
<1>1. PICK cuts : Laid(cuts, periods, from, middle)
  BY DEF HasCuts
<1>2. CASE periods # <<>> /\ Last(periods).level = began.level
  BY <1>1, <1>2, PeriodExtended
<1>3. CASE ~(periods # <<>> /\ Last(periods).level = began.level)
  BY <1>1, <1>3, PeriodOpened
<1> QED
  BY <1>2, <1>3

\* All periods lie between the first midnight and the last mark, which is on the
\* final date: from it on the schedule has one level till the end of that date.
LEMMA AllPeriodsAreLaid ==
    ASSUME Calendar, Asked, First <= Final
    PROVE  \E to \in Int, level \in Levels :
               /\ HasCuts(AllPeriods, Midnight(First), to)
               /\ Midnight(Final) <= to /\ to < Midnight(Final) + DayMinutes
               /\ Steady(level, to, Midnight(Final) + DayMinutes)
<1> DEFINE from == Midnight(First)
           limit == Midnight(Final) + DayMinutes
<1>1. from \in Int /\ limit \in Int /\ limit = Midnight(Final + 1) /\ DayMinutes \in Nat
      /\ Midnight(Final) = limit - DayMinutes
  BY DatesAround, Midnights, DayType
<1> HIDE DEF from, limit
<1>2. PICK walls : Timed(walls, Marks, from, limit)
  BY <1>1, AllMarks DEF HasTimes, from
<1>3. PICK n \in Nat \ {0} : n = Len(walls)
  BY <1>2 DEF Timed
<1>4. /\ Marks \in Seq(Mark) /\ Len(Marks) = n
      /\ walls[1] = from /\ limit - DayMinutes <= walls[n]
      /\ \A i \in 1 .. n :
          walls[i] \in Int /\ walls[i] < limit /\ Marks[i].at = Resolved(zone, walls[i])
      /\ \A i, j \in 1 .. n : i < j => walls[i] < walls[j]
      /\ \A i \in 1 .. n, wall \in Int :
          (/\ walls[i] <= wall /\ wall < limit
           /\ \A j \in 1 .. n : i < j => wall < walls[j]) => Scheduled(wall) = Marks[i].level
  BY <1>2, <1>3 DEF Timed
<1>5. PICK f : JoinedRun(f, Marks) /\ AllPeriods = f[n]
  BY <1>4, AllPeriodsIsRun
<1>6. \A k \in 1 .. n :
          f[k] = IF k = 1 THEN <<>> ELSE Joined(f[k - 1], Marks[k - 1], Marks[k])
  <2>1. \A k \in 0 .. n :
            f[k] = IF k <= 1 THEN <<>> ELSE Joined(f[k - 1], Marks[k - 1], Marks[k])
    BY <1>4, <1>5 DEF JoinedRun
  <2>2. \A k \in 1 .. n : k \in 0 .. n /\ (k <= 1 <=> k = 1)
    OBVIOUS
  <2> QED
    BY <2>1, <2>2
<1>7. \A k \in 1 .. n : Marks[k] \in Mark
  BY <1>4, Elements
<1>8. ASSUME NEW k \in 2 .. n
      PROVE  Steady(Marks[k - 1].level, walls[k - 1], walls[k])
  <2>1. k - 1 \in 1 .. n /\ k \in 1 .. n
    OBVIOUS
  <2>2. ASSUME NEW wall \in Int, walls[k - 1] <= wall, wall < walls[k]
        PROVE  Scheduled(wall) = Marks[k - 1].level
    <3>1. wall < limit
      BY <1>1, <1>4, <2>1, <2>2
    <3>2. ASSUME NEW j \in 1 .. n, k - 1 < j
          PROVE  wall < walls[j]
      <4>1. k < j \/ k = j
        BY <3>2
      <4>2. walls[k] <= walls[j] /\ walls[k] \in Int /\ walls[j] \in Int
        BY <1>4, <2>1, <4>1
      <4> QED
        BY <2>2, <4>2
    <3> QED
      BY <1>4, <2>1, <2>2, <3>1, <3>2
  <2> QED
    BY <2>2 DEF Steady
<1> DEFINE Good == {k \in 0 .. n : k = 0 \/ HasCuts(f[k], from, walls[k])}
<1>9. 0 \in Good
  OBVIOUS
<1>10. ASSUME NEW k \in 1 .. n, k - 1 \in Good
       PROVE  k \in Good
  <2>1. HasCuts(f[k], from, walls[k])
    <3>1. CASE k = 1
      <4>1. f[k] = <<>> /\ walls[k] = from
        BY <1>4, <1>6, <3>1
      <4> QED
        BY <1>1, <4>1, NothingLaid
    <3>2. CASE k # 1
      <4>1. k \in 2 .. n /\ k - 1 \in 1 .. n /\ k - 1 < k /\ k - 1 # 0
        BY <3>2
      <4>2. HasCuts(f[k - 1], from, walls[k - 1])
        BY <1>10, <4>1
      <4> HIDE DEF Good
      <4>3. /\ walls[k - 1] \in Int /\ walls[k] \in Int /\ walls[k - 1] < walls[k]
            /\ Marks[k - 1].at = Resolved(zone, walls[k - 1])
            /\ Marks[k].at = Resolved(zone, walls[k])
        BY <1>4, <4>1
      <4>4. Marks[k - 1] \in Mark /\ Marks[k] \in Mark
        BY <1>7, <4>1
      <4>5. Steady(Marks[k - 1].level, walls[k - 1], walls[k])
        BY <1>8, <4>1
      <4>6. HasCuts(Joined(f[k - 1], Marks[k - 1], Marks[k]), from, walls[k])
        BY <1>1, <4>2, <4>3, <4>4, <4>5, JoinedIsLaid
      <4>7. f[k] = Joined(f[k - 1], Marks[k - 1], Marks[k])
        BY <1>6, <3>2
      <4> QED
        BY <4>6, <4>7
    <3> QED
      BY <3>1, <3>2
  <2> QED
    BY <2>1
<1>11. n \in Good
  <2> HIDE DEF Good
  <2>1. \A k \in 0 .. n : k \in Good
    BY <1>9, <1>10, Upwards
  <2> QED
    BY <2>1
<1>12. HasCuts(AllPeriods, from, walls[n])
  BY <1>5, <1>11
<1>13. /\ n \in 1 .. n /\ walls[n] \in Int /\ walls[n] < limit
       /\ Midnight(Final) <= walls[n] /\ Marks[n].level \in Levels
  <2>1. n \in 1 .. n
    OBVIOUS
  <2> QED
    BY <1>1, <1>4, <1>7, <2>1 DEF Mark
<1>14. Steady(Marks[n].level, walls[n], limit)
  <2>1. \A j \in 1 .. n : ~(n < j)
    OBVIOUS
  <2> QED
    BY <1>4, <1>13, <2>1 DEF Steady
<1> QED
  BY <1>12, <1>13, <1>14 DEF from, limit

-----------------------------------------------------------------------------
(***************************************************************************)
(* The periods returned: the ones that overlap the window                  *)
(***************************************************************************)
\* The list is the part of the periods from after the skipped ones on, which are
\* all that overlap among the first so many.
Part(list, periods, skipped, size) ==
    /\ skipped \in Nat /\ list \in Seq(Period) /\ skipped + Len(list) <= size
    /\ \A i \in 1 .. Len(list) : list[i] = periods[skipped + i]
    /\ \A q \in 1 .. size :
        Overlaps(periods[q]) <=> (skipped < q /\ q <= skipped + Len(list))

IsPart(list, periods, size) == \E skipped : Part(list, periods, skipped, size)

\* Periods that follow on each other start and end ever later.
InOrderOfTime(periods) ==
    /\ \A p \in 1 .. Len(periods) : Exists(zone, periods[p].start)
    /\ \A p, q \in 1 .. Len(periods) :
        p <= q => /\ periods[p].start <= periods[q].start
                  /\ periods[p].end <= periods[q].end

LEMMA OverlapsIn ==
    ASSUME Calendar, Asked, NEW periods \in Seq(Period), InOrderOfTime(periods),
           NEW q \in 1 .. Len(periods)
    PROVE  /\ periods[q].start \in Int /\ periods[q].end \in Int
           /\ Overlaps(periods[q]) <=>
                (periods[q].end > window.start.wall /\ periods[q].start < EndMark)
<1>1. periods[q] \in Period
  BY Elements
<1>2. periods[q].start \in Int /\ periods[q].end \in Int
  BY <1>1 DEF Period
<1>3. Exists(zone, periods[q].start)
  BY DEF InOrderOfTime
<1> QED
  BY <1>2, <1>3, OverlapsIs

LEMMA PartGrows ==
    ASSUME Calendar, Asked, NEW periods \in Seq(Period), InOrderOfTime(periods),
           NEW k \in 1 .. Len(periods), NEW list, IsPart(list, periods, k - 1)
    PROVE  IsPart(IF Overlaps(periods[k]) THEN Append(list, periods[k]) ELSE list, periods, k)
<1>1. PICK size \in Nat : size = Len(periods) /\ k \in 1 .. size
  OBVIOUS
<1>2. PICK skipped : Part(list, periods, skipped, k - 1)
  BY DEF IsPart
<1>3. PICK n \in Nat : n = Len(list) /\ skipped \in Nat /\ skipped + n <= k - 1 /\ k \in Nat
  BY <1>1, <1>2 DEF Part
<1>4. /\ list \in Seq(Period)
      /\ \A i \in 1 .. n : list[i] = periods[skipped + i]
      /\ \A q \in 1 .. k - 1 :
          Overlaps(periods[q]) <=> (skipped < q /\ q <= skipped + n)
  BY <1>2, <1>3 DEF Part
<1>5. \A q \in 1 .. k : q = k \/ q \in 1 .. k - 1
  BY <1>3
<1>6. CASE ~Overlaps(periods[k])
  <2>1. ASSUME NEW q \in 1 .. k
        PROVE  Overlaps(periods[q]) <=> (skipped < q /\ q <= skipped + n)
    <3>1. CASE q = k
      BY <1>3, <1>6, <3>1
    <3>2. CASE q \in 1 .. k - 1
      BY <1>4, <3>2
    <3> QED
      BY <1>5, <3>1, <3>2
  <2>2. Part(list, periods, skipped, k)
    <3>1. skipped + n <= k
      BY <1>3
    <3> QED
      BY <1>3, <1>4, <2>1, <3>1 DEF Part
  <2> QED
    BY <1>6, <2>2 DEF IsPart
<1>7. CASE Overlaps(periods[k])
  <2> DEFINE longer == Append(list, periods[k])
  <2>1. \A q \in 1 .. size : periods[q] \in Period
    BY <1>1, Elements
  <2>2. periods[k] \in Period
    BY <1>1, <2>1
  <2>3. /\ longer \in Seq(Period) /\ Len(longer) = n + 1 /\ longer[n + 1] = periods[k]
        /\ \A i \in 1 .. n : longer[i] = list[i]
    BY <1>3, <1>4, <2>2
  <2> HIDE DEF longer
  <2>4. CASE n = 0
    <3>1. \A q \in 1 .. k - 1 : ~Overlaps(periods[q])
      BY <1>3, <1>4, <2>4
    <3>2. Part(longer, periods, k - 1, k)
      <4>1. ASSUME NEW q \in 1 .. k
            PROVE  Overlaps(periods[q]) <=> (k - 1 < q /\ q <= (k - 1) + 1)
        <5>1. CASE q = k
          BY <1>3, <1>7, <5>1
        <5>2. CASE q \in 1 .. k - 1
          BY <1>3, <3>1, <5>2
        <5> QED
          BY <1>5, <5>1, <5>2
      <4>2. k - 1 \in Nat /\ (k - 1) + 1 = k
        BY <1>1
      <4>3. \A i \in 1 .. 1 : longer[i] = periods[(k - 1) + i]
        BY <2>3, <2>4, <4>2
      <4> QED
        BY <2>3, <2>4, <4>1, <4>2, <4>3 DEF Part
    <3> QED
      BY <1>7, <3>2 DEF IsPart, longer
  <2>5. CASE n # 0
    <3>1. skipped + n = k - 1
      <4> SUFFICES ASSUME skipped + n < k - 1 PROVE FALSE
        BY <1>3
      <4>1. /\ skipped + n \in 1 .. k - 1 /\ k - 1 \in 1 .. k - 1
            /\ skipped + n \in 1 .. size /\ k - 1 \in 1 .. size
        BY <1>1, <1>3, <2>5
      <4>2. Overlaps(periods[skipped + n])
        BY <1>3, <1>4, <2>5, <4>1
      <4>3. ~Overlaps(periods[k - 1])
        BY <1>3, <1>4, <4>1
      <4>4. periods[skipped + n].end <= periods[k - 1].end
        BY <1>1, <1>3, <4>1 DEF InOrderOfTime
      <4>5. periods[k - 1].start <= periods[k].start
        BY <1>1, <1>3, <4>1 DEF InOrderOfTime
      <4>6. window.start.wall \in Int /\ EndMark \in Int
        BY WindowType, EndMarkIs
      <4>7. /\ periods[skipped + n].end \in Int /\ periods[k - 1].end \in Int
            /\ periods[k - 1].start \in Int /\ periods[k].start \in Int
        BY <2>1, <2>2, <4>1 DEF Period
      <4>8. /\ periods[skipped + n].end > window.start.wall
            /\ periods[k].start < EndMark
            /\ ~(/\ periods[k - 1].end > window.start.wall
                 /\ periods[k - 1].start < EndMark)
        BY <1>1, <1>7, <4>1, <4>2, <4>3, OverlapsIn
      <4> QED
        BY <4>4, <4>5, <4>6, <4>7, <4>8
    <3>2. Part(longer, periods, skipped, k)
      <4>1. ASSUME NEW q \in 1 .. k
            PROVE  Overlaps(periods[q]) <=> (skipped < q /\ q <= skipped + (n + 1))
        <5>1. CASE q = k
          BY <1>3, <1>7, <3>1, <5>1
        <5>2. CASE q \in 1 .. k - 1
          BY <1>3, <1>4, <3>1, <5>2
        <5> QED
          BY <1>5, <5>1, <5>2
      <4>2. skipped + (n + 1) <= k /\ skipped + (n + 1) = k
        BY <1>3, <3>1
      <4>3. ASSUME NEW i \in 1 .. n + 1
            PROVE  longer[i] = periods[skipped + i]
        <5>1. CASE i = n + 1
          BY <2>3, <4>2, <5>1
        <5>2. CASE i # n + 1
          <6>1. i \in 1 .. n
            BY <5>2
          <6> QED
            BY <1>4, <2>3, <6>1
        <5> QED
          BY <5>1, <5>2
      <4> QED
        BY <1>3, <2>3, <4>1, <4>2, <4>3 DEF Part
    <3> QED
      BY <1>7, <3>2 DEF IsPart, longer
  <2> QED
    BY <2>4, <2>5
<1> QED
  BY <1>6, <1>7

Chosen(f, periods) ==
    \A k \in 0 .. Len(periods) :
        f[k] = IF k = 0 THEN <<>>
               ELSE IF Overlaps(periods[k]) THEN Append(f[k - 1], periods[k])
               ELSE f[k - 1]

LEMMA OverlappingIsRun ==
    ASSUME NEW periods \in Seq(Period)
    PROVE  \E f : Chosen(f, periods) /\ Overlapping(periods) = f[Len(periods)]
<1>1. PICK size \in Nat : size = Len(periods)
  OBVIOUS
<1> DEFINE Run(f) == [k \in 0 .. Len(periods) |->
                         IF k = 0 THEN <<>>
                         ELSE IF Overlaps(periods[k]) THEN Append(f[k - 1], periods[k])
                         ELSE f[k - 1]]
           upto == CHOOSE f : f = Run(f)
           step == [i \in 1 .. size |->
                       [s \in Seq(Period) |->
                           IF Overlaps(periods[i]) THEN Append(s, periods[i]) ELSE s]]
<1>2. Overlapping(periods) = upto[Len(periods)]
  BY DEF Overlapping
<1>3. step \in [1 .. size -> [Seq(Period) -> Seq(Period)]]
  <2>1. \A i \in 1 .. size : periods[i] \in Period
    BY <1>1, Elements
  <2>2. \A i \in 1 .. size, s \in Seq(Period) :
            (IF Overlaps(periods[i]) THEN Append(s, periods[i]) ELSE s) \in Seq(Period)
    BY <2>1
  <2> QED
    BY <2>2
<1>4. \A i \in 1 .. size, s \in Seq(Period) :
          step[i][s] = IF Overlaps(periods[i]) THEN Append(s, periods[i]) ELSE s
  OBVIOUS
<1>5. <<>> \in Seq(Period)
  OBVIOUS
<1> HIDE DEF step
<1>6. PICK f : IsRun(f, Seq(Period), <<>>, size, step)
  BY <1>3, <1>5, RunExists
<1>7. /\ f \in [0 .. size -> Seq(Period)] /\ f[0] = <<>>
      /\ \A i \in 1 .. size : f[i] = step[i][f[i - 1]]
  BY <1>6 DEF IsRun
<1>8. ASSUME NEW k \in 0 .. size
      PROVE  f[k] = IF k = 0 THEN <<>>
                    ELSE IF Overlaps(periods[k]) THEN Append(f[k - 1], periods[k])
                    ELSE f[k - 1]
  <2>1. CASE k = 0
    BY <1>7, <2>1
  <2>2. CASE k # 0
    <3>1. k \in 1 .. size /\ k - 1 \in 0 .. size
      BY <2>2
    <3>2. f[k] = step[k][f[k - 1]] /\ f[k - 1] \in Seq(Period)
      BY <1>7, <3>1
    <3> QED
      BY <1>4, <2>2, <3>1, <3>2
  <2> QED
    BY <2>1, <2>2
<1>9. f = Run(f)
  <2> DEFINE h == Run(f)
  <2>1. DOMAIN f = 0 .. size /\ f = [k \in 0 .. size |-> f[k]]
    BY <1>7
  <2>2. h = [k \in 0 .. size |->
                IF k = 0 THEN <<>>
                ELSE IF Overlaps(periods[k]) THEN Append(f[k - 1], periods[k])
                ELSE f[k - 1]]
    BY <1>1
  <2> HIDE DEF h
  <2>3. \A k \in 0 .. size : f[k] = h[k]
    BY <1>8, <2>2
  <2>4. f = h
    BY <2>1, <2>2, <2>3
  <2> QED
    BY <2>4 DEF h
<1>10. upto = Run(upto)
  BY <1>9
<1> HIDE DEF upto
<1>11. Chosen(upto, periods)
  BY <1>10 DEF Chosen
<1> QED
  BY <1>2, <1>11

LEMMA OverlappingIsPart ==
    ASSUME Calendar, Asked, NEW periods \in Seq(Period), InOrderOfTime(periods)
    PROVE  IsPart(Overlapping(periods), periods, Len(periods))
<1>1. PICK size \in Nat : size = Len(periods)
  OBVIOUS
<1>2. PICK f : Chosen(f, periods) /\ Overlapping(periods) = f[size]
  BY <1>1, OverlappingIsRun
<1>3. \A k \in 0 .. size :
          f[k] = IF k = 0 THEN <<>>
                 ELSE IF Overlaps(periods[k]) THEN Append(f[k - 1], periods[k])
                 ELSE f[k - 1]
  BY <1>1, <1>2 DEF Chosen
<1> DEFINE Good == {k \in 0 .. size : IsPart(f[k], periods, k)}
<1>4. 0 \in Good
  <2>1. f[0] = <<>>
    BY <1>3
  <2>2. <<>> \in Seq(Period) /\ Len(<<>>) = 0 /\ 1 .. 0 = {}
    OBVIOUS
  <2>3. Part(<<>>, periods, 0, 0)
    BY <2>2 DEF Part
  <2>4. IsPart(f[0], periods, 0)
    BY <2>1, <2>3 DEF IsPart
  <2> QED
    BY <2>4
<1>5. ASSUME NEW k \in 1 .. size, k - 1 \in Good
      PROVE  k \in Good
  <2>1. IsPart(f[k - 1], periods, k - 1)
    BY <1>5
  <2>2. f[k] = IF Overlaps(periods[k]) THEN Append(f[k - 1], periods[k]) ELSE f[k - 1]
    BY <1>3
  <2>3. IsPart(f[k], periods, k)
    BY <1>1, <2>1, <2>2, PartGrows
  <2> QED
    BY <2>3
<1>6. size \in Good
  <2> HIDE DEF Good
  <2>1. \A k \in 0 .. size : k \in Good
    BY <1>4, <1>5, Upwards
  <2> QED
    BY <2>1
<1> QED
  BY <1>1, <1>2, <1>6

-----------------------------------------------------------------------------
(***************************************************************************)
(* What is true of each period                                             *)
(***************************************************************************)
LEMMA CutsAre ==
    ASSUME Calendar, NEW cuts, NEW periods, NEW from, NEW to, Laid(cuts, periods, from, to),
           NEW q \in 1 .. Len(periods)
    PROVE  /\ Len(periods) \in Nat /\ periods[q] \in Period
           /\ cuts[q] \in Int /\ cuts[q + 1] \in Int /\ cuts[q] < cuts[q + 1]
           /\ cuts[q] <= periods[q].start /\ cuts[q + 1] <= periods[q].end
           /\ cuts[q] # periods[q].start => Landing(periods[q].start)
           /\ cuts[q + 1] # periods[q].end => Landing(periods[q].end)
<1>1. PICK n \in Nat : n = Len(periods)
  <2>1. periods \in Seq(Period)
    BY DEF Laid
  <2> QED
    BY <2>1, LenProperties
<1>2. /\ cuts \in Seq(Int) /\ Len(cuts) = n + 1 /\ periods \in Seq(Period)
      /\ \A i, j \in 1 .. n + 1 : i < j => cuts[i] < cuts[j]
      /\ periods[q].start = Resolved(zone, cuts[q])
      /\ periods[q].end = Resolved(zone, cuts[q + 1])
  BY <1>1 DEF Laid
<1>3. q \in 1 .. n + 1 /\ q + 1 \in 1 .. n + 1 /\ q < q + 1
  BY <1>1
<1>4. cuts[q] \in Int /\ cuts[q + 1] \in Int /\ cuts[q] < cuts[q + 1]
  <2>1. \A i \in 1 .. n + 1 : cuts[i] \in Int
    BY <1>2, Elements
  <2> QED
    BY <1>2, <1>3, <2>1
<1>5. periods[q] \in Period
  BY <1>2, Elements
<1>6. /\ cuts[q] <= periods[q].start /\ cuts[q + 1] <= periods[q].end
      /\ cuts[q] # periods[q].start => ~Exists(zone, periods[q].start - 1)
      /\ cuts[q + 1] # periods[q].end => ~Exists(zone, periods[q].end - 1)
  <2>1. zone \in Zone
    BY ZonesAre
  <2>2. ASSUME NEW wall \in Int
        PROVE  /\ wall <= Resolved(zone, wall)
               /\ wall # Resolved(zone, wall) => ~Exists(zone, Resolved(zone, wall) - 1)
    BY <2>1, ResolvedIs
  <2> QED
    BY <1>2, <1>4, <2>2
<1> QED
  BY <1>1, <1>4, <1>5, <1>6 DEF Landing

\* Each starts and ends at times the clock shows, one after the other in absolute
\* time unless it lies in what the clock skips.
LEMMA PeriodIs ==
    ASSUME Calendar, NEW cuts, NEW periods, NEW from, NEW to, Laid(cuts, periods, from, to),
           NEW q \in 1 .. Len(periods)
    PROVE  /\ Exists(zone, periods[q].start) /\ Exists(zone, periods[q].end)
           /\ periods[q].level \in Levels
           /\ \/ InstantOf(periods[q].start) < InstantOf(periods[q].end)
              \/ periods[q].start = periods[q].end /\ Landing(periods[q].start)
           /\ \A wall \in Int :
                (/\ periods[q].start <= wall /\ wall < periods[q].end
                 /\ Exists(zone, wall)) => Scheduled(wall) = periods[q].level
<1> DEFINE p == periods[q]
<1>1. /\ p \in Period /\ cuts[q] \in Int /\ cuts[q + 1] \in Int /\ cuts[q] < cuts[q + 1]
      /\ cuts[q] <= p.start /\ cuts[q + 1] <= p.end
      /\ cuts[q] # p.start => Landing(p.start)
  BY CutsAre
<1>2. /\ p.start = Resolved(zone, cuts[q]) /\ p.end = Resolved(zone, cuts[q + 1])
      /\ \A wall \in Int : (cuts[q] <= wall /\ wall < cuts[q + 1]) => Scheduled(wall) = p.level
  BY DEF Laid
<1> HIDE DEF p
<1>3. p.start \in Int /\ p.end \in Int /\ p.level \in Levels
  BY <1>1 DEF Period
<1>4. Exists(zone, p.start) /\ Exists(zone, p.end)
  BY <1>1, <1>2, ResolvedIs, ZonesAre
<1>5. p.start <= p.end
  BY <1>1, <1>2, ResolvedInOrder, ZonesAre
<1>6. InstantOf(p.start) < InstantOf(p.end) \/ (p.start = p.end /\ Landing(p.start))
  <2>1. CASE p.start < p.end
    <3>1. zone \in Zone
      BY ZonesAre
    <3>2. Instant(zone, p.start, 0) < Instant(zone, p.end, 0)
      BY <1>3, <1>4, <2>1, <3>1, InstantsInOrder
    <3>3. InstantOf(p.start) < InstantOf(p.end)
      BY <3>2 DEF InstantOf
    <3> QED
      BY <3>3
  <2>2. CASE p.start = p.end
    <3>1. cuts[q] # p.start
      BY <1>1, <1>3, <2>2
    <3> QED
      BY <1>1, <2>2, <3>1
  <2> QED
    BY <1>3, <1>5, <2>1, <2>2
<1>7. ASSUME NEW wall \in Int, p.start <= wall, wall < p.end, Exists(zone, wall)
      PROVE  Scheduled(wall) = p.level
  <2>1. cuts[q] <= wall
    BY <1>1, <1>3, <1>7
  <2>2. wall < cuts[q + 1]
    <3>1. cuts[q + 1] <= wall => p.end <= wall
      BY <1>1, <1>2, <1>7, ResolvedIsFirst, ZonesAre
    <3> QED
      BY <1>1, <1>3, <1>7, <3>1
  <2> QED
    BY <1>2, <2>1, <2>2
<1> QED
  BY <1>3, <1>4, <1>6, <1>7 DEF p

LEMMA NextPeriodIs ==
    ASSUME NEW cuts, NEW periods, NEW from, NEW to, Laid(cuts, periods, from, to),
           NEW q \in 1 .. Len(periods), q # Len(periods)
    PROVE  /\ q + 1 \in 1 .. Len(periods)
           /\ periods[q].end = periods[q + 1].start
           /\ periods[q].level # periods[q + 1].level
<1>1. PICK n \in Nat : n = Len(periods)
  <2>1. periods \in Seq(Period)
    BY DEF Laid
  <2> QED
    BY <2>1, LenProperties
<1>2. q + 1 \in 1 .. n /\ q \in 1 .. n - 1
  BY <1>1
<1> QED
  BY <1>1, <1>2 DEF Laid

LEMMA LaidInOrder ==
    ASSUME Calendar, NEW cuts, NEW periods, NEW from, NEW to, Laid(cuts, periods, from, to)
    PROVE  InOrderOfTime(periods)
<1>1. PICK n \in Nat : n = Len(periods)
  <2>1. periods \in Seq(Period)
    BY DEF Laid
  <2> QED
    BY <2>1, LenProperties
<1>2. /\ cuts \in Seq(Int) /\ Len(cuts) = n + 1
      /\ \A i, j \in 1 .. n + 1 : i < j => cuts[i] < cuts[j]
      /\ \A q \in 1 .. n : /\ periods[q].start = Resolved(zone, cuts[q])
                           /\ periods[q].end = Resolved(zone, cuts[q + 1])
  BY <1>1 DEF Laid
<1>3. \A i \in 1 .. n + 1 : cuts[i] \in Int
  BY <1>2, Elements
<1>4. ASSUME NEW i \in 1 .. n + 1, NEW j \in 1 .. n + 1, i <= j
      PROVE  Resolved(zone, cuts[i]) <= Resolved(zone, cuts[j])
  <2>1. cuts[i] \in Int /\ cuts[j] \in Int
    BY <1>3
  <2>2. i < j \/ i = j
    BY <1>4
  <2>3. cuts[i] <= cuts[j]
    <3>1. i < j => cuts[i] < cuts[j]
      BY <1>2
    <3> QED
      BY <2>1, <2>2, <3>1
  <2> QED
    BY <2>1, <2>3, ResolvedInOrder, ZonesAre
<1>5. ASSUME NEW p \in 1 .. n, NEW q \in 1 .. n, p <= q
      PROVE  periods[p].start <= periods[q].start /\ periods[p].end <= periods[q].end
  <2>1. /\ p \in 1 .. n + 1 /\ q \in 1 .. n + 1 /\ p + 1 \in 1 .. n + 1 /\ q + 1 \in 1 .. n + 1
        /\ p + 1 <= q + 1
    BY <1>5
  <2> QED
    BY <1>2, <1>4, <1>5, <2>1
<1>6. \A q \in 1 .. n : Exists(zone, periods[q].start)
  BY <1>1, PeriodIs
<1> QED
  BY <1>1, <1>5, <1>6 DEF InOrderOfTime

\* What it is of a period to overlap the window.
LEMMA LaidOverlaps ==
    ASSUME Calendar, Asked, NEW cuts, NEW periods, NEW from, NEW to,
           Laid(cuts, periods, from, to), NEW q \in 1 .. Len(periods)
    PROVE  Overlaps(periods[q]) <=>
               (periods[q].end > window.start.wall /\ periods[q].start < EndMark)
<1>1. InOrderOfTime(periods) /\ periods \in Seq(Period)
  BY LaidInOrder DEF Laid
<1> QED
  BY <1>1, OverlapsIn

LEMMA PreviousIs ==
    ASSUME NEW wall \in Int, Exists(zone, wall - 1)
    PROVE  Previous(wall) = wall - 1
<1> DEFINE before == {w \in wall - 2 * DayMinutes .. wall - 1 : Exists(zone, w)}
<1>1. wall - 1 \in before
  BY DayType
<1>2. \A w \in before : w \in Int /\ w <= wall - 1
  BY DayType
<1>3. Previous(wall) = Max(before)
  BY DEF Previous
<1> HIDE DEF before
<1>4. Max(before) \in before /\ \A w \in before : Max(before) >= w
  <2>1. \E x \in before : \A y \in before : x >= y
    BY <1>1, <1>2
  <2> QED
    BY <2>1 DEF Max
<1> QED
  BY <1>1, <1>2, <1>3, <1>4

\* A period that overlaps the window is cut short only when it is longer than a week.
LEMMA StartIsComplete ==
    ASSUME Calendar, Asked, NEW cuts, NEW periods, NEW to \in Int,
           Laid(cuts, periods, Midnight(First), to),
           NEW q \in 1 .. Len(periods), Overlaps(periods[q]),
           periods[q].end - periods[q].start < Week
    PROVE  \/ Landing(periods[q].start)
           \/ Scheduled(Previous(periods[q].start)) # periods[q].level
<1> DEFINE p == periods[q]
<1>1. /\ Len(periods) \in Nat /\ p \in Period /\ cuts[q] \in Int
      /\ cuts[q] # p.start => Landing(p.start)
  BY CutsAre
<1>2. p.start \in Int /\ p.end \in Int
  BY <1>1 DEF Period
<1> SUFFICES ASSUME ~Landing(p.start) PROVE Scheduled(Previous(p.start)) # p.level
  OBVIOUS
<1>3. cuts[q] = p.start /\ Exists(zone, p.start - 1)
  BY <1>1 DEF Landing
<1>4. Previous(p.start) = p.start - 1
  BY <1>2, <1>3, PreviousIs
<1>5. q # 1
  <2> SUFFICES ASSUME q = 1 PROVE FALSE
    OBVIOUS
  <2>1. cuts[q] = Midnight(First)
    BY DEF Laid
  <2>2. Midnight(First) \in Int /\ Midnight(First) + Week <= window.start.wall
    BY DatesAround
  <2>3. p.end > window.start.wall /\ window.start.wall \in Int
    BY WindowType DEF Overlaps
  <2>4. Week \in Nat /\ p.end - p.start < Week
    BY Weeks
  <2> HIDE DEF p
  <2> QED
    BY <1>2, <1>3, <2>1, <2>2, <2>3, <2>4
<1>6. /\ q - 1 \in 1 .. Len(periods) /\ q - 1 # Len(periods) /\ (q - 1) + 1 = q
  BY <1>1, <1>5
<1>7. cuts[q - 1] \in Int /\ cuts[q - 1] < cuts[q]
  BY <1>6, CutsAre
<1>8. periods[q - 1].level # p.level
  BY <1>6, NextPeriodIs
<1>9. \A wall \in Int :
          (cuts[q - 1] <= wall /\ wall < cuts[q]) => Scheduled(wall) = periods[q - 1].level
  BY <1>6 DEF Laid
<1> HIDE DEF p
<1>10. Scheduled(p.start - 1) = periods[q - 1].level
  BY <1>2, <1>3, <1>7, <1>9
<1> QED
  BY <1>4, <1>8, <1>10

\* The last of all periods ends at a mark where its level ends, or is longer than a week.
LEMMA LastEndIsComplete ==
    ASSUME Calendar, Asked, Started < Ended, EndsOnItsDate,
           NEW cuts, NEW periods, NEW to \in Int, NEW level,
           Laid(cuts, periods, Midnight(First), to),
           Midnight(Final) <= to, to < Midnight(Final) + DayMinutes,
           Steady(level, to, Midnight(Final) + DayMinutes),
           NEW q \in 1 .. Len(periods), q = Len(periods), Overlaps(periods[q]),
           periods[q].end - periods[q].start < Week
    PROVE  Landing(periods[q].end) \/ Scheduled(periods[q].end) # periods[q].level
<1> DEFINE p == periods[q]
           limit == Midnight(Final) + DayMinutes
<1>1. /\ Len(periods) \in Nat /\ p \in Period /\ cuts[q] \in Int /\ cuts[q + 1] \in Int
      /\ cuts[q] < cuts[q + 1] /\ cuts[q] <= p.start
      /\ cuts[q + 1] # p.end => Landing(p.end)
  BY CutsAre
<1>2. p.start \in Int /\ p.end \in Int
  BY <1>1 DEF Period
<1>3. /\ p.start = Resolved(zone, cuts[q]) /\ cuts[q + 1] = to
      /\ \A wall \in Int : (cuts[q] <= wall /\ wall < cuts[q + 1]) => Scheduled(wall) = p.level
  BY DEF Laid
<1>4. p.end > window.start.wall /\ p.start < EndMark
  BY LaidOverlaps
<1> SUFFICES ASSUME ~Landing(p.end), Scheduled(p.end) = p.level PROVE FALSE
  OBVIOUS
<1>5. p.end = to /\ p.end - p.start < Week
  BY <1>1, <1>3
<1>6. /\ Midnight(First) \in Int /\ Midnight(Final) \in Int /\ limit \in Int
      /\ Week \in Nat \ {0} /\ DayMinutes \in Nat
      /\ window.start.wall \in Int /\ EndMark \in Int
      /\ Midnight(First) + Week <= window.start.wall
      /\ EndMark <= limit - Week
      /\ window.start.wall < EndMark => Midnight(First) + Week + Week <= Midnight(Final)
  <2>1. Week \in Nat \ {0} /\ DayMinutes \in Nat /\ window.start.wall \in Int
    BY DayType, Weeks, WindowType
  <2>2. /\ Midnight(First) \in Int /\ Midnight(Final) \in Int /\ EndMark \in Int
        /\ Midnight(First) + Week <= window.start.wall
        /\ EndMark <= Midnight(Final) + DayMinutes - Week
        /\ window.start.wall < EndMark
              => Midnight(First) + Week + Week <= Midnight(Final)
    BY DatesAround
  <2> QED
    BY <2>1, <2>2
<1>7. \A wall \in Int : (to <= wall /\ wall < limit) => Scheduled(wall) = level
  BY DEF Steady
<1>8. to < limit /\ Midnight(Final) <= to
  OBVIOUS
<1> HIDE DEF p, limit
<1>9. level = p.level
  BY <1>5, <1>7, <1>8
<1>10. \A wall \in Int : (cuts[q] <= wall /\ wall < limit) => Scheduled(wall) = p.level
  <2>1. \A wall \in Int : wall < to \/ to <= wall
    OBVIOUS
  <2> QED
    BY <1>3, <1>7, <1>9, <2>1
<1>11. cuts[q] + Week < limit
  <2>1. cuts[q] < EndMark
    BY <1>1, <1>2, <1>4, <1>6
  <2>2. /\ cuts[q] \in Int /\ EndMark \in Int /\ limit \in Int /\ Week \in Int
        /\ EndMark <= limit - Week
    BY <1>1, <1>6
  <2> QED
    BY <2>1, <2>2
<1>12. CASE q # 1
  <2>1. /\ q - 1 \in 1 .. Len(periods) /\ q - 1 # Len(periods) /\ (q - 1) + 1 = q
    BY <1>1, <1>12
  <2>2. cuts[q - 1] \in Int /\ cuts[q - 1] < cuts[q]
    BY <2>1, CutsAre
  <2>3. periods[q - 1].level # p.level
    <3>1. periods[q - 1].level # periods[(q - 1) + 1].level
      BY <2>1, NextPeriodIs
    <3> QED
      BY <2>1, <3>1 DEF p
  <2>4. \A wall \in Int :
            (cuts[q - 1] <= wall /\ wall < cuts[q]) => Scheduled(wall) = periods[q - 1].level
    BY <2>1 DEF Laid
  <2> DEFINE wall == cuts[q] - 1
  <2>5. wall \in Int /\ wall + Week \in Int
    BY <1>1, <1>6
  <2>6. Scheduled(wall) = periods[q - 1].level
    BY <1>1, <2>2, <2>4
  <2>7. Scheduled(wall + Week) = p.level
    <3>1. cuts[q] <= wall + Week /\ wall + Week < limit
      BY <1>1, <1>6, <1>11
    <3> QED
      BY <1>10, <2>5, <3>1
  <2> HIDE DEF wall
  <2>8. Scheduled(wall + Week) = Scheduled(wall)
    BY <2>5, EveryWeek DEF Week
  <2> QED
    BY <2>3, <2>6, <2>7, <2>8
<1>13. CASE q = 1
  <2>1. cuts[q] = Midnight(First)
    BY <1>13 DEF Laid
  <2>2. p.start # cuts[q]
    BY <1>2, <1>4, <1>5, <1>6, <2>1
  <2>3. p.start <= cuts[q] + (zone.after - zone.before)
    BY <1>1, <1>3, <2>2, ResolvedIs, ZonesAre
  <2>4. zone.after \in Int /\ zone.before \in Int /\ zone.after - zone.before <= Week
    BY ZonesAre, ZoneAssumption DEF Zone, Calendar, Week
  <2>5. zone.before <= zone.after
    BY <1>1, <1>2, <2>2, <2>3, <2>4
  <2>6. window.start.wall < EndMark
    BY <2>5, WindowInOrder
  <2>7. p.start <= Midnight(First) + Week
    BY <1>2, <1>6, <2>1, <2>3, <2>4
  <2>8. Midnight(First) + Week + Week <= p.end
    BY <1>2, <1>5, <1>6, <1>8, <2>6
  <2>9. p.end - p.start < Week
    BY <1>5
  <2>10. /\ Midnight(First) \in Int /\ Week \in Int /\ p.start \in Int /\ p.end \in Int
    BY <1>2, <1>6
  <2> QED
    BY <2>7, <2>8, <2>9, <2>10
<1> QED
  BY <1>12, <1>13

LEMMA EndIsComplete ==
    ASSUME Calendar, Asked, Started < Ended, EndsOnItsDate,
           NEW cuts, NEW periods, NEW to \in Int, NEW level,
           Laid(cuts, periods, Midnight(First), to),
           Midnight(Final) <= to, to < Midnight(Final) + DayMinutes,
           Steady(level, to, Midnight(Final) + DayMinutes),
           NEW q \in 1 .. Len(periods), Overlaps(periods[q]),
           periods[q].end - periods[q].start < Week
    PROVE  Landing(periods[q].end) \/ Scheduled(periods[q].end) # periods[q].level
<1>1. CASE q = Len(periods)
  BY <1>1, LastEndIsComplete
<1>2. CASE q # Len(periods)
  <2>1. /\ q + 1 \in 1 .. Len(periods) /\ periods[q].level # periods[q + 1].level
    BY <1>2, NextPeriodIs
  <2>2. /\ cuts[q + 1] \in Int
        /\ cuts[q + 1] # periods[q].end => Landing(periods[q].end)
    BY CutsAre
  <2>3. cuts[q + 1] < cuts[(q + 1) + 1]
    BY <2>1, CutsAre
  <2>4. Scheduled(cuts[q + 1]) = periods[q + 1].level
    <3>1. \A wall \in Int : (cuts[q + 1] <= wall /\ wall < cuts[(q + 1) + 1])
              => Scheduled(wall) = periods[q + 1].level
      BY <2>1 DEF Laid
    <3> QED
      BY <2>2, <2>3, <3>1
  <2> QED
    BY <2>1, <2>2, <2>4
<1> QED
  BY <1>1, <1>2

\* The periods that overlap the window cover it.
LEMMA WindowIsCovered ==
    ASSUME Calendar, Asked, NEW cuts, NEW periods, NEW to \in Int,
           Laid(cuts, periods, Midnight(First), to), Midnight(Final) <= to,
           window.start.wall < EndMark,
           NEW list, NEW skipped, Part(list, periods, skipped, Len(periods))
    PROVE  /\ Len(list) \in Nat \ {0}
           /\ list[1].start <= window.start.wall
           /\ list[Len(list)].end >= EndMark
<1>1. PICK s \in Int, e \in Int : s = window.start.wall /\ e = EndMark
  BY WindowType, EndMarkIs
<1>2. /\ Midnight(First) \in Int /\ Midnight(Final) \in Int /\ Week \in Nat \ {0}
      /\ Midnight(First) <= s /\ e < Midnight(Final) /\ Midnight(First) < Midnight(Final)
  BY <1>1, DatesAround, Weeks
<1>3. PICK n \in Nat : n = Len(periods)
  <2>1. periods \in Seq(Period)
    BY DEF Laid
  <2> QED
    BY <2>1, LenProperties
<1>4. n # 0
  <2> SUFFICES ASSUME n = 0 PROVE FALSE
    OBVIOUS
  <2>1. cuts[1] = Midnight(First) /\ cuts[0 + 1] = to
    BY <1>3 DEF Laid
  <2> QED
    BY <1>2, <2>1
<1>5. 1 \in 1 .. n /\ n \in 1 .. n
  BY <1>4
<1>6. \A q \in 1 .. n : periods[q].start \in Int /\ periods[q].end \in Int
  <2>1. \A q \in 1 .. n : periods[q] \in Period
    BY <1>3, CutsAre
  <2> QED
    BY <2>1 DEF Period
<1>7. periods[1].start <= s
  <2>1. periods[1].start = Resolved(zone, Midnight(First))
    BY <1>3, <1>5 DEF Laid
  <2>2. Exists(zone, s)
    BY <1>1 DEF Asked
  <2> QED
    BY <1>2, <2>1, <2>2, ResolvedIsFirst, ZonesAre
<1>8. periods[n].end > e
  <2>1. cuts[n + 1] = to
    BY <1>3 DEF Laid
  <2>2. cuts[n + 1] <= periods[n].end
    BY <1>3, <1>5, CutsAre
  <2> QED
    BY <1>2, <1>5, <1>6, <2>1, <2>2
<1>9. PICK q \in 1 .. n : /\ periods[q].end > s
                          /\ \A k \in 1 .. n : periods[k].end > s => q <= k
  <2> DEFINE T == {k \in 1 .. n : periods[k].end > s}
  <2>1. T \in SUBSET Nat /\ n \in T
    BY <1>1, <1>5, <1>6, <1>8
  <2> HIDE DEF T
  <2>2. PICK q \in T : \A k \in T : q <= k
    BY <2>1, LeastNatural
  <2> QED
    BY <2>2 DEF T
<1>10. periods[q].start <= s
  <2>1. CASE q = 1
    BY <1>7, <2>1
  <2>2. CASE q # 1
    <3>1. q - 1 \in 1 .. n /\ q - 1 # n /\ (q - 1) + 1 = q /\ ~(q <= q - 1)
      BY <2>2
    <3>2. ~(periods[q - 1].end > s)
      BY <1>9, <3>1
    <3>3. periods[q - 1].end = periods[q].start
      BY <1>3, <3>1, NextPeriodIs
    <3> QED
      BY <1>6, <3>1, <3>2, <3>3
  <2> QED
    BY <2>1, <2>2
<1>11. Overlaps(periods[q])
  BY <1>1, <1>3, <1>6, <1>9, <1>10, LaidOverlaps
<1>12. PICK m \in Nat : m = Len(list)
  <2>1. list \in Seq(Period)
    BY DEF Part
  <2> QED
    BY <2>1, LenProperties
<1>13. /\ skipped \in Nat /\ skipped + m <= n
       /\ \A i \in 1 .. m : list[i] = periods[skipped + i]
       /\ \A k \in 1 .. n : Overlaps(periods[k]) <=> (skipped < k /\ k <= skipped + m)
  BY <1>3, <1>12 DEF Part
<1>14. skipped < q /\ q <= skipped + m
  BY <1>11, <1>13
<1>15. /\ m # 0 /\ 1 \in 1 .. m /\ m \in 1 .. m /\ skipped + 1 \in 1 .. n /\ skipped + m \in 1 .. n
       /\ skipped + 1 <= q /\ q <= skipped + m
  BY <1>13, <1>14
<1>16. list[1].start <= s
  <2>1. periods[skipped + 1].start <= periods[q].start
    BY <1>3, <1>15, LaidInOrder DEF InOrderOfTime
  <2> QED
    BY <1>6, <1>10, <1>13, <1>15, <2>1
<1>17. list[m].end >= e
  <2>1. list[m] = periods[skipped + m]
    BY <1>13, <1>15
  <2>2. CASE skipped + m = n
    BY <1>6, <1>8, <1>15, <2>1, <2>2
  <2>3. CASE skipped + m # n
    <3>1. (skipped + m) + 1 \in 1 .. n /\ periods[skipped + m].end = periods[(skipped + m) + 1].start
      <4>1. skipped + m \in 1 .. Len(periods) /\ skipped + m # Len(periods)
        BY <1>3, <1>15, <2>3
      <4>2. /\ (skipped + m) + 1 \in 1 .. Len(periods)
            /\ periods[skipped + m].end = periods[(skipped + m) + 1].start
        BY <4>1, NextPeriodIs
      <4> QED
        BY <1>3, <4>2
    <3>2. ~Overlaps(periods[(skipped + m) + 1])
      BY <1>13, <3>1
    <3>3. periods[q].end <= periods[(skipped + m) + 1].end
      <4>1. q <= (skipped + m) + 1
        BY <1>13, <1>15
      <4> QED
        BY <1>3, <3>1, <4>1, LaidInOrder DEF InOrderOfTime
    <3>4. periods[(skipped + m) + 1].end > s
      BY <1>6, <1>9, <3>1, <3>3
    <3>5. ~(periods[(skipped + m) + 1].start < e)
      BY <1>1, <1>3, <3>1, <3>2, <3>4, LaidOverlaps
    <3> QED
      BY <1>6, <2>1, <3>1, <3>5
  <2> QED
    BY <2>2, <2>3
<1> QED
  BY <1>1, <1>12, <1>15, <1>16, <1>17

-----------------------------------------------------------------------------
(***************************************************************************)
(* The list returned                                                       *)
(***************************************************************************)
Shown == Overlapping(AllPeriods)

View(cuts, to, level, skipped) ==
    /\ to \in Int /\ Laid(cuts, AllPeriods, Midnight(First), to)
    /\ Midnight(Final) <= to /\ to < Midnight(Final) + DayMinutes
    /\ Steady(level, to, Midnight(Final) + DayMinutes)
    /\ Part(Shown, AllPeriods, skipped, Len(AllPeriods))

LEMMA ViewExists ==
    ASSUME Calendar, Asked, First <= Final
    PROVE  \E cuts, to, level, skipped : View(cuts, to, level, skipped)
<1>1. PICK to \in Int, level \in Levels :
          /\ HasCuts(AllPeriods, Midnight(First), to)
          /\ Midnight(Final) <= to /\ to < Midnight(Final) + DayMinutes
          /\ Steady(level, to, Midnight(Final) + DayMinutes)
  BY AllPeriodsAreLaid
<1>2. PICK cuts : Laid(cuts, AllPeriods, Midnight(First), to)
  BY <1>1 DEF HasCuts
<1>3. AllPeriods \in Seq(Period) /\ InOrderOfTime(AllPeriods)
  BY <1>2, LaidInOrder DEF Laid
<1>4. PICK skipped : Part(Shown, AllPeriods, skipped, Len(AllPeriods))
  BY <1>3, OverlappingIsPart DEF IsPart, Shown
<1>5. View(cuts, to, level, skipped)
  BY <1>1, <1>2, <1>4 DEF View
<1> QED
  BY <1>5

LEMMA NothingShown ==
    ASSUME Calendar, Asked, ~(First <= Final)
    PROVE  Shown = <<>> /\ DOMAIN Shown = {}
<1>1. AllPeriods = <<>>
  BY DatesAround, NoDates
<1>2. <<>> \in Seq(Period) /\ Len(<<>>) = 0
  OBVIOUS
<1>3. PICK f : Chosen(f, <<>>) /\ Overlapping(<<>>) = f[0]
  BY <1>2, OverlappingIsRun
<1>4. f[0] = <<>>
  BY <1>2, <1>3 DEF Chosen
<1> QED
  BY <1>1, <1>3, <1>4 DEF Shown

LEMMA ShownAre ==
    ASSUME NEW cuts, NEW to, NEW level, NEW skipped, View(cuts, to, level, skipped),
           NEW k \in DOMAIN Shown
    PROVE  /\ skipped \in Nat /\ Len(Shown) \in Nat /\ DOMAIN Shown = 1 .. Len(Shown)
           /\ Len(AllPeriods) \in Nat /\ skipped + Len(Shown) <= Len(AllPeriods)
           /\ skipped + k \in 1 .. Len(AllPeriods)
           /\ Shown[k] = AllPeriods[skipped + k]
           /\ Overlaps(Shown[k])
<1>1. Part(Shown, AllPeriods, skipped, Len(AllPeriods)) /\ AllPeriods \in Seq(Period)
  BY DEF View, Laid
<1>2. PICK n \in Nat : n = Len(AllPeriods)
  BY <1>1, LenProperties
<1>3. Shown \in Seq(Period)
  BY <1>1 DEF Part
<1>4. PICK m \in Nat : m = Len(Shown) /\ DOMAIN Shown = 1 .. m
  BY <1>3, LenProperties
<1>5. /\ skipped \in Nat /\ skipped + m <= n
      /\ \A i \in 1 .. m : Shown[i] = AllPeriods[skipped + i]
      /\ \A q \in 1 .. n : Overlaps(AllPeriods[q]) <=> (skipped < q /\ q <= skipped + m)
  BY <1>1, <1>2, <1>4 DEF Part
<1>6. k \in 1 .. m /\ skipped + k \in 1 .. n /\ skipped < skipped + k /\ skipped + k <= skipped + m
  BY <1>4, <1>5
<1>7. Shown[k] = AllPeriods[skipped + k] /\ Overlaps(AllPeriods[skipped + k])
  BY <1>5, <1>6
<1> QED
  BY <1>2, <1>4, <1>5, <1>6, <1>7

-----------------------------------------------------------------------------
(***************************************************************************)
(* The invariant                                                           *)
(***************************************************************************)
AllWeekdays == DOMAIN days = 0 .. WeekLength - 1

\* The question stays as it was asked, and the answer, once it is there, is the
\* periods that overlap the window, or nothing without all weekdays.
CalendarInv ==
    /\ zone \in Zones
    /\ \E n \in {WeekLength - 1, WeekLength} :
        days \in [0 .. n - 1 -> [as_monday : BOOLEAN, transitions : Days]]
    /\ Asked
    /\ result = <<>> \/ result = <<IF AllWeekdays THEN Shown ELSE <<>> >>

LEMMA InitInv == Init => CalendarInv
BY DEF Init, CalendarInv, Asked

LEMMA SameShown ==
    ASSUME days' = days, zone' = zone, window' = window
    PROVE  Shown' = Shown /\ Asked' = Asked
<1>1. \A weekday : DayFor(weekday)' = DayFor(weekday)
  BY DEF DayFor
<1>2. \A date : MarksOf(date)' = MarksOf(date)
  BY <1>1 DEF MarksOf
<1>3. Dates' = Dates
  BY DEF Dates
<1>4. Marks' = Marks
  BY <1>2, <1>3 DEF Marks
<1>5. AllPeriods' = AllPeriods
  BY <1>4 DEF AllPeriods
<1>6. \A p : Overlaps(p)' = Overlaps(p)
  BY DEF Overlaps, EndsAfter, OneZone, InstantOf, Ended
<1>7. \A periods : Overlapping(periods)' = Overlapping(periods)
  BY <1>6 DEF Overlapping
<1>8. Shown' = Shown
  BY <1>5, <1>7 DEF Shown
<1>9. Asked' = Asked
  BY DEF Asked
<1> QED
  BY <1>8, <1>9

LEMMA NextInv == CalendarInv /\ [Next]_vars => CalendarInv'
<1> SUFFICES ASSUME CalendarInv, [Next]_vars PROVE CalendarInv'
  OBVIOUS
<1>1. days' = days /\ zone' = zone /\ window' = window
  BY DEF Next, YieldNothing, Project, vars
<1>2. Shown' = Shown /\ Asked' = Asked /\ AllWeekdays' = AllWeekdays
  BY <1>1, SameShown DEF AllWeekdays
<1>3. result' = <<>> \/ result' = <<IF AllWeekdays THEN Shown ELSE <<>> >>
  <2>1. CASE YieldNothing
    BY <2>1 DEF YieldNothing, AllWeekdays
  <2>2. CASE Project
    BY <2>2 DEF Project, AllWeekdays, Shown
  <2>3. CASE UNCHANGED vars
    BY <2>3 DEF CalendarInv, vars
  <2> QED
    BY <2>1, <2>2, <2>3 DEF Next
<1> QED
  BY <1>1, <1>2, <1>3 DEF CalendarInv

LEMMA Invariance == Spec => []CalendarInv
BY InitInv, NextInv, PTL DEF Spec

\* What the properties start from.
LEMMA ProjectedIs ==
    ASSUME CalendarInv, Projected
    PROVE  Calendar /\ Asked /\ Periods = Shown
<1>1. AllWeekdays /\ result # <<>>
  BY DEF Projected, AllWeekdays
<1>2. days \in [DOMAIN days -> [as_monday : BOOLEAN, transitions : Days]]
  BY DEF CalendarInv
<1> QED
  BY <1>1, <1>2 DEF CalendarInv, Calendar, AllWeekdays, Periods

-----------------------------------------------------------------------------
(***************************************************************************)
(* Theorems                                                                *)
(***************************************************************************)
\* unit/calendar.py, CalendarState.periods: whatever calendar and window it is
\* asked for, each period starts and ends at times the clock shows.
THEOREM CalendarTyped == Spec => []TypeOK
<1>1. CalendarInv => TypeOK
  <2> SUFFICES ASSUME CalendarInv PROVE TypeOK
    OBVIOUS
  <2>1. DOMAIN days \in {0 .. WeekLength - 2, 0 .. WeekLength - 1}
    <3>1. PICK n \in {WeekLength - 1, WeekLength} : DOMAIN days = 0 .. n - 1
      BY DEF CalendarInv
    <3>2. (WeekLength - 1) - 1 = WeekLength - 2
      BY DayType
    <3> QED
      BY <3>1, <3>2
  <2>2. zone \in Zones /\ window \in Windows
    BY DEF CalendarInv, Asked
  <2>3. Len(result) <= 1
    <3>1. result = <<>> \/ result = <<IF AllWeekdays THEN Shown ELSE <<>> >>
      BY DEF CalendarInv
    <3>2. CASE result = <<>>
      <4>1. Len(result) = 0
        BY <3>2
      <4> QED
        BY <4>1
    <3>3. ASSUME NEW x, result = <<x>>
          PROVE  Len(result) <= 1
      <4>1. Len(result) = 1
        BY <3>3
      <4> QED
        BY <4>1
    <3> QED
      BY <3>1, <3>2, <3>3
  <2>4. ASSUME Projected, NEW k \in DOMAIN Periods
        PROVE  /\ Exists(zone, Periods[k].start) /\ Exists(zone, Periods[k].end)
               /\ Periods[k].level \in Levels
    <3>1. Calendar /\ Asked /\ Periods = Shown
      BY <2>4, ProjectedIs
    <3>2. PICK cuts, to, level, skipped : View(cuts, to, level, skipped)
      BY <2>4, <3>1, NothingShown, ViewExists
    <3>3. skipped + k \in 1 .. Len(AllPeriods) /\ Shown[k] = AllPeriods[skipped + k]
      BY <2>4, <3>1, <3>2, ShownAre
    <3>4. Laid(cuts, AllPeriods, Midnight(First), to)
      BY <3>2 DEF View
    <3> QED
      BY <3>1, <3>3, <3>4, PeriodIs
  <2> QED
    BY <2>1, <2>2, <2>3, <2>4 DEF TypeOK
<1> QED
  BY <1>1, Invariance, PTL

\* calendar.py:308-311: the periods follow on each other in absolute time, none is
\* empty but where the clock jumps, and no two in a row have one level.
THEOREM PeriodsFollow == Spec => []PeriodsFollowOnEachOther
<1>1. CalendarInv => PeriodsFollowOnEachOther
  <2> SUFFICES ASSUME CalendarInv, Projected, Periods # <<>>
               PROVE  PeriodsFollowOnEachOther
    <3>1. Periods = <<>> => (DOMAIN Periods = {} /\ 1 .. Len(Periods) - 1 = {})
      OBVIOUS
    <3> QED
      BY <3>1 DEF PeriodsFollowOnEachOther
  <2>1. Calendar /\ Asked /\ Periods = Shown /\ First <= Final
    BY ProjectedIs, NothingShown
  <2>2. PICK cuts, to, level, skipped : View(cuts, to, level, skipped)
    BY <2>1, ViewExists
  <2>3. Laid(cuts, AllPeriods, Midnight(First), to)
    BY <2>2 DEF View
  <2>4. ASSUME NEW k \in DOMAIN Periods
        PROVE  \/ InstantOf(Periods[k].start) < InstantOf(Periods[k].end)
               \/ (Periods[k].start = Periods[k].end /\ Landing(Periods[k].start))
    <3>1. skipped + k \in 1 .. Len(AllPeriods) /\ Shown[k] = AllPeriods[skipped + k]
      BY <2>1, <2>2, ShownAre
    <3>2. \/ InstantOf(Shown[k].start) < InstantOf(Shown[k].end)
          \/ (Shown[k].start = Shown[k].end /\ Landing(Shown[k].start))
      BY <2>1, <2>3, <3>1, PeriodIs
    <3> QED
      BY <2>1, <3>2
  <2>5. ASSUME NEW k \in 1 .. Len(Periods) - 1
        PROVE  /\ Periods[k].end = Periods[k + 1].start
               /\ Periods[k].level # Periods[k + 1].level
    <3>1. Len(Shown) \in Nat /\ DOMAIN Shown = 1 .. Len(Shown)
      <4>1. Shown \in Seq(Period)
        BY <2>2 DEF View, Part
      <4> QED
        BY <4>1, LenProperties
    <3>2. k \in DOMAIN Shown /\ k + 1 \in DOMAIN Shown
      BY <2>1, <3>1
    <3>3. /\ skipped \in Nat /\ Len(AllPeriods) \in Nat
          /\ skipped + k \in 1 .. Len(AllPeriods) /\ Shown[k] = AllPeriods[skipped + k]
      BY <2>2, <3>2, ShownAre
    <3>4. /\ skipped + (k + 1) \in 1 .. Len(AllPeriods)
          /\ Shown[k + 1] = AllPeriods[skipped + (k + 1)]
      BY <2>2, <3>2, ShownAre
    <3>5. skipped + k # Len(AllPeriods) /\ skipped + (k + 1) = (skipped + k) + 1
      BY <2>1, <3>1, <3>3, <3>4
    <3>6. /\ AllPeriods[skipped + k].end = AllPeriods[(skipped + k) + 1].start
          /\ AllPeriods[skipped + k].level # AllPeriods[(skipped + k) + 1].level
      BY <2>3, <3>3, <3>5, NextPeriodIs
    <3> QED
      BY <2>1, <3>3, <3>4, <3>5, <3>6
  <2> QED
    BY <2>4, <2>5 DEF PeriodsFollowOnEachOther
<1> QED
  BY <1>1, Invariance, PTL

\* calendar.py:320: the periods cover a window that is not turned round, and each of
\* them overlaps it, unless the window starts, or ends in the zone it starts in, in the
\* second pass of a repeated hour.
THEOREM WindowIsShown == Spec => []ShowsTheWindow
<1>1. CalendarInv => ShowsTheWindow
  <2> SUFFICES ASSUME CalendarInv, Projected, Started < Ended,
                      window.start.fold = 0, OneZone => window.end.fold = 0
               PROVE  ShowsTheWindow
    BY DEF ShowsTheWindow
  <2>1. Calendar /\ Asked /\ Periods = Shown
    BY ProjectedIs
  <2>4. PICK s \in Int, e \in Int : s = window.start.wall /\ e = EndMark
    BY <2>1, WindowType, EndMarkIs
  <2>5. s < e /\ First <= Final /\ Exists(zone, s)
    BY <2>1, <2>4, WindowInOrder, DatesAround DEF Asked
  <2>6. Started = InstantOf(s)
    BY <2>4 DEF Started, InstantOf
  <2>2. PICK cuts, to, level, skipped : View(cuts, to, level, skipped)
    BY <2>1, <2>5, ViewExists
  <2>3. /\ to \in Int /\ Laid(cuts, AllPeriods, Midnight(First), to) /\ Midnight(Final) <= to
        /\ Part(Shown, AllPeriods, skipped, Len(AllPeriods))
    BY <2>2 DEF View
  <2>7. /\ Len(Shown) \in Nat \ {0} /\ Shown[1].start <= s /\ Shown[Len(Shown)].end >= e
    BY <2>1, <2>3, <2>4, <2>5, WindowIsCovered
  <2>8. Shown \in Seq(Period) /\ DOMAIN Shown = 1 .. Len(Shown)
    <3>1. Shown \in Seq(Period)
      BY <2>3 DEF Part
    <3> QED
      BY <3>1, LenProperties
  <2>9. \A k \in DOMAIN Shown :
            /\ Exists(zone, Shown[k].start) /\ Exists(zone, Shown[k].end)
            /\ Shown[k].start \in Int /\ Shown[k].end \in Int
            /\ Shown[k].end > s /\ Shown[k].start < e
    <3> SUFFICES ASSUME NEW k \in DOMAIN Shown
                 PROVE  /\ Exists(zone, Shown[k].start) /\ Exists(zone, Shown[k].end)
                        /\ Shown[k].start \in Int /\ Shown[k].end \in Int
                        /\ Shown[k].end > s /\ Shown[k].start < e
      OBVIOUS
    <3>1. /\ skipped + k \in 1 .. Len(AllPeriods) /\ Shown[k] = AllPeriods[skipped + k]
          /\ Overlaps(Shown[k])
      BY <2>2, ShownAre
    <3>2. Exists(zone, Shown[k].start) /\ Exists(zone, Shown[k].end)
      BY <2>1, <2>3, <3>1, PeriodIs
    <3>3. Shown[k].end > s /\ Shown[k].start < e
      BY <2>1, <2>3, <2>4, <3>1, LaidOverlaps
    <3>4. Shown[k] \in Period
      BY <2>8, Elements
    <3> QED
      BY <3>2, <3>3, <3>4 DEF Period
  <2>10. zone \in Zone
    BY <2>1, ZonesAre
  <2>11. 1 \in DOMAIN Shown /\ Len(Shown) \in DOMAIN Shown /\ Shown # <<>>
    BY <2>7, <2>8
  <2>12. InstantOf(Shown[1].start) <= InstantOf(s)
    BY <2>4, <2>5, <2>7, <2>9, <2>10, <2>11, InstantsInOrder DEF InstantOf
  <2>13. \A wall \in Int : Exists(zone, wall) => (InstantOf(wall) < Ended <=> wall < e)
    BY <2>1, <2>4, EndIsMarked
  <2>14. InstantOf(Last(Shown).end) >= Ended
    <3>1. ~(Shown[Len(Shown)].end < e)
      BY <2>4, <2>7, <2>9, <2>11
    <3>2. ~(InstantOf(Shown[Len(Shown)].end) < Ended)
      BY <2>9, <2>11, <2>13, <3>1
    <3>3. Instant(zone, Shown[Len(Shown)].end, 0) \in Int
      BY <2>9, <2>10, <2>11, InstantsInOrder
    <3>4. Ended \in Int
      BY <2>1, EndedIs
    <3> QED
      BY <3>2, <3>3, <3>4 DEF InstantOf, Last
  <2>15. ASSUME NEW k \in DOMAIN Shown
         PROVE  InstantOf(Shown[k].end) > InstantOf(s) /\ InstantOf(Shown[k].start) < Ended
    <3>1. /\ Exists(zone, Shown[k].start) /\ Exists(zone, Shown[k].end)
          /\ Shown[k].start \in Int /\ Shown[k].end \in Int
          /\ s < Shown[k].end /\ Shown[k].start < e
      BY <2>4, <2>9
    <3>2. Instant(zone, s, 0) < Instant(zone, Shown[k].end, 0)
      BY <2>5, <2>10, <3>1, InstantsInOrder
    <3>3. Instant(zone, s, 0) \in Int /\ Instant(zone, Shown[k].end, 0) \in Int
      BY <2>5, <2>10, <3>1, InstantsInOrder
    <3> QED
      BY <2>13, <3>1, <3>2, <3>3 DEF InstantOf
  <2> QED
    BY <2>1, <2>6, <2>11, <2>12, <2>14, <2>15 DEF ShowsTheWindow
<1> QED
  BY <1>1, Invariance, PTL

\* At each instant, the level reported is the one the schedule has for the furthest
\* time the clock has shown, also after a jump and in a repeated hour.
THEOREM ScheduleIsShown == Spec => []PeriodsShowTheSchedule
<1>1. CalendarInv => PeriodsShowTheSchedule
  <2> SUFFICES ASSUME CalendarInv, Projected, NEW k \in DOMAIN Periods,
                      NEW instant \in InstantOf(Periods[k].start) .. InstantOf(Periods[k].end) - 1
               PROVE  Scheduled(Furthest(instant)) = Periods[k].level
    BY DEF PeriodsShowTheSchedule
  <2>1. Calendar /\ Asked /\ Periods = Shown /\ First <= Final
    BY ProjectedIs, NothingShown
  <2>2. PICK cuts, to, level, skipped : View(cuts, to, level, skipped)
    BY <2>1, ViewExists
  <2>3. Laid(cuts, AllPeriods, Midnight(First), to)
    BY <2>2 DEF View
  <2>4. skipped + k \in 1 .. Len(AllPeriods) /\ Shown[k] = AllPeriods[skipped + k]
    BY <2>1, <2>2, ShownAre
  <2>5. Shown[k] \in Period
    BY <2>1, <2>3, <2>4, CutsAre
  <2>6. PICK first \in Int, last \in Int : first = Shown[k].start /\ last = Shown[k].end
    BY <2>5 DEF Period
  <2>7. Exists(zone, first) /\ Exists(zone, last)
    BY <2>1, <2>3, <2>4, <2>6, PeriodIs
  <2>8. Instant(zone, first, 0) \in Int /\ Instant(zone, last, 0) \in Int
    BY <2>1, <2>7, InstantsInOrder, ZonesAre
  <2>9. instant \in Int /\ InstantOf(first) <= instant /\ instant < InstantOf(last)
    BY <2>1, <2>6, <2>8 DEF InstantOf
  <2>10. /\ first <= Furthest(instant) /\ Furthest(instant) < last
         /\ Exists(zone, Furthest(instant)) /\ Furthest(instant) \in Int
    BY <2>1, <2>7, <2>9, FurthestWithin, FurthestIs
  <2> QED
    BY <2>1, <2>3, <2>4, <2>6, <2>10, PeriodIs
<1> QED
  BY <1>1, Invariance, PTL

\* calendar.py:332-334: a period is reported from the change that begins it to the
\* change that ends it, and only one longer than a week is cut short, unless the end of
\* the window is given in another zone, where its date is an earlier one.
THEOREM PeriodsComplete == Spec => []PeriodsAreComplete
<1>1. CalendarInv => PeriodsAreComplete
  <2> SUFFICES ASSUME CalendarInv, Projected, Started < Ended, EndsOnItsDate,
                      NEW k \in DOMAIN Periods,
                      Periods[k].end - Periods[k].start < WeekLength * DayMinutes
               PROVE  /\ \/ Landing(Periods[k].start)
                         \/ Scheduled(Previous(Periods[k].start)) # Periods[k].level
                      /\ \/ Landing(Periods[k].end)
                         \/ Scheduled(Periods[k].end) # Periods[k].level
    BY DEF PeriodsAreComplete
  <2>1. Calendar /\ Asked /\ Periods = Shown /\ First <= Final
    BY ProjectedIs, NothingShown
  <2>2. PICK cuts, to, level, skipped : View(cuts, to, level, skipped)
    BY <2>1, ViewExists
  <2>3. /\ to \in Int /\ Laid(cuts, AllPeriods, Midnight(First), to)
        /\ Midnight(Final) <= to /\ to < Midnight(Final) + DayMinutes
        /\ Steady(level, to, Midnight(Final) + DayMinutes)
    BY <2>2 DEF View
  <2>4. /\ skipped + k \in 1 .. Len(AllPeriods) /\ Shown[k] = AllPeriods[skipped + k]
        /\ Overlaps(AllPeriods[skipped + k])
    BY <2>1, <2>2, ShownAre
  <2>5. AllPeriods[skipped + k].end - AllPeriods[skipped + k].start < Week
    BY <2>1, <2>4 DEF Week
  <2>6. \/ Landing(AllPeriods[skipped + k].start)
        \/ Scheduled(Previous(AllPeriods[skipped + k].start)) # AllPeriods[skipped + k].level
    BY <2>1, <2>3, <2>4, <2>5, StartIsComplete
  <2>7. \/ Landing(AllPeriods[skipped + k].end)
        \/ Scheduled(AllPeriods[skipped + k].end) # AllPeriods[skipped + k].level
    BY <2>1, <2>3, <2>4, <2>5, EndIsComplete
  <2> QED
    BY <2>1, <2>4, <2>6, <2>7
<1> QED
  BY <1>1, Invariance, PTL
=============================================================================
