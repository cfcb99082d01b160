------------------------- MODULE CalendarDay_proofs -------------------------
(***************************************************************************)
(* Proofs about CalendarDay.  All that an edit does to a day is seen in    *)
(* its schedule, the level in force at each moment: the transitions of a   *)
(* valid day are the changes of its schedule, and neither packing nor      *)
(* parking nor the terminator alters it.                                   *)
(***************************************************************************)
EXTENDS CalendarDay, FiniteSetTheorems, TLAPS

-----------------------------------------------------------------------------
(***************************************************************************)
(* Least and greatest elements                                             *)
(***************************************************************************)
Least(S, m) == m \in S /\ \A x \in S : m <= x
Greatest(S, m) == m \in S /\ \A x \in S : x <= m

\* A finite set of integers has a least and a greatest element: a smallest set
\* without them would have them once it lost an element.
LEMMA Extremes ==
  ASSUME NEW S \in SUBSET Int, IsFiniteSet(S), S # {}
  PROVE  \E m \in S, n \in S : Least(S, m) /\ Greatest(S, n)
  <1> DEFINE Has(T) == \E m \in T, n \in T : Least(T, m) /\ Greatest(T, n)
             Bad == {T \in FiniteSubsetsOf(S) : T # {} /\ ~Has(T)}
  <1> SUFFICES ASSUME Bad # {} PROVE FALSE
    <2>1. S \in FiniteSubsetsOf(S)
      BY DEF FiniteSubsetsOf
    <2> HIDE DEF Has
    <2>2. Has(S)
      BY <2>1
    <2> QED BY <2>2 DEF Has
  <1>1. PICK T \in Bad : \A U \in Bad : ~ (<<U, T>> \in StrictSubsetOrdering(S))
    <2>1. IsWellFoundedOn(StrictSubsetOrdering(S), FiniteSubsetsOf(S))
      BY FS_StrictSubsetOrderingWellFounded
    <2>2. Bad \subseteq FiniteSubsetsOf(S)
      OBVIOUS
    <2> HIDE DEF Bad
    <2> QED BY <2>1, <2>2, WFMin
  <1>2. T \subseteq S /\ IsFiniteSet(T) /\ T # {} /\ ~Has(T)
    BY DEF FiniteSubsetsOf
  <1>3. PICK x \in T : TRUE
    BY <1>2
  <1>4. CASE T \ {x} = {}
    <2>1. Least(T, x) /\ Greatest(T, x)
      BY <1>2, <1>3, <1>4 DEF Least, Greatest
    <2> QED BY <2>1, <1>2, <1>3
  <1>5. CASE T \ {x} # {}
    <2>1. IsFiniteSet(T \ {x})
      BY <1>2, FS_RemoveElement
    <2>2. T \ {x} \in FiniteSubsetsOf(S)
      BY <2>1, <1>2 DEF FiniteSubsetsOf
    <2>3. <<T \ {x}, T>> \in StrictSubsetOrdering(S)
      BY <1>2, <1>3 DEF StrictSubsetOrdering
    <2>4. T \ {x} \notin Bad
      BY <2>3, <1>1
    <2> HIDE DEF Has
    <2>5. Has(T \ {x})
      BY <2>2, <2>4, <1>5
    <2>6. PICK m \in T \ {x}, n \in T \ {x} : Least(T \ {x}, m) /\ Greatest(T \ {x}, n)
      BY <2>5 DEF Has
    <2>7. /\ Least(T, IF x <= m THEN x ELSE m)
          /\ Greatest(T, IF x <= n THEN n ELSE x)
      BY <2>6, <1>2, <1>3 DEF Least, Greatest
    <2>8. /\ (IF x <= m THEN x ELSE m) \in T
          /\ (IF x <= n THEN n ELSE x) \in T
      BY <1>3
    <2>9. Has(T)
      BY <2>7, <2>8 DEF Has
    <2> QED BY <2>9, <1>2
  <1> QED BY <1>4, <1>5

\* What Min and Max return.
LEMMA MinFacts ==
  ASSUME NEW S \in SUBSET Int, IsFiniteSet(S), S # {}
  PROVE  Least(S, Min(S))
  BY Extremes DEF Least, Min

LEMMA MaxFacts ==
  ASSUME NEW S \in SUBSET Int, IsFiniteSet(S), S # {}
  PROVE  Greatest(S, Max(S))
  BY Extremes DEF Greatest, Max

LEMMA MinIs ==
  ASSUME NEW S \in SUBSET Int, NEW m, Least(S, m)
  PROVE  Min(S) = m
  <1>1. Min(S) \in S /\ \A x \in S : Min(S) <= x
    BY DEF Least, Min
  <1>2. m \in Int /\ Min(S) \in Int
    BY <1>1 DEF Least
  <1>3. Min(S) <= m /\ m <= Min(S)
    BY <1>1 DEF Least
  <1> QED BY <1>2, <1>3

LEMMA MaxIs ==
  ASSUME NEW S \in SUBSET Int, NEW m, Greatest(S, m)
  PROVE  Max(S) = m
  <1>1. Max(S) \in S /\ \A x \in S : x <= Max(S)
    BY DEF Greatest, Max
  <1>2. m \in Int /\ Max(S) \in Int
    BY <1>1 DEF Greatest
  <1>3. m <= Max(S) /\ Max(S) <= m
    BY <1>1 DEF Greatest
  <1> QED BY <1>2, <1>3

\* Sets of naturals up to a bound are finite.
LEMMA BoundedFinite ==
  ASSUME NEW t \in Int, NEW S \in SUBSET (0 .. t)
  PROVE  IsFiniteSet(S)
  <1>1. IsFiniteSet(0 .. t)
    BY FS_Interval
  <1> QED BY <1>1, FS_Subset

-----------------------------------------------------------------------------
(***************************************************************************)
(* The schedule of a day                                                   *)
(***************************************************************************)
\* A set of times of which midnight is the first.
Opening(times) == times \subseteq Nat /\ 0 \in times

Upto(times, t) == {u \in times : u <= t}

LEMMA LastFacts ==
  ASSUME NEW times, Opening(times), NEW t \in Nat
  PROVE  Greatest(Upto(times, t), Max(Upto(times, t)))
  <1>1. ASSUME NEW u \in Upto(times, t) PROVE u \in 0 .. t
    BY DEF Opening, Upto
  <1>4. 0 \in Upto(times, t)
    BY DEF Opening, Upto
  <1>5. Upto(times, t) \in SUBSET (0 .. t)
    BY <1>1
  <1>2. IsFiniteSet(Upto(times, t))
    BY <1>5, t \in Int, BoundedFinite
  <1>3. Upto(times, t) \in SUBSET Int /\ Upto(times, t) # {}
    BY <1>4, <1>5
  <1> QED BY <1>2, <1>3, MaxFacts

LEMMA LastIs ==
  ASSUME NEW times, Opening(times), NEW t \in Nat, NEW m, Greatest(Upto(times, t), m)
  PROVE  Max(Upto(times, t)) = m
  <1>1. ASSUME NEW u \in Upto(times, t) PROVE u \in Int
    BY DEF Opening, Upto
  <1>2. Upto(times, t) \in SUBSET Int
    BY <1>1
  <1> QED BY <1>2, MaxIs

\* LevelAt, by the name given to the times it looks at.
LEMMA LevelAtUpto ==
  ASSUME NEW day, NEW t
  PROVE  LevelAt(day, t) = day[Max(Upto(DOMAIN day, t))]
  BY DEF LevelAt, Upto

LEMMA LevelOf ==
  ASSUME NEW day, Opening(DOMAIN day), NEW t \in Nat, NEW m,
         Greatest(Upto(DOMAIN day, t), m)
  PROVE  LevelAt(day, t) = day[m]
  BY LastIs, LevelAtUpto

\* At an edge the level is that of the edge.
LEMMA LevelHere ==
  ASSUME NEW day, Opening(DOMAIN day), NEW t \in DOMAIN day
  PROVE  LevelAt(day, t) = day[t]
  <1>1. t \in Nat
    BY DEF Opening
  <1>2. Greatest(Upto(DOMAIN day, t), t)
    BY <1>1 DEF Opening, Upto, Greatest
  <1> QED BY <1>1, <1>2, LevelOf

\* The edge before is in force the moment before.
LEMMA LevelBefore ==
  ASSUME NEW day, Opening(DOMAIN day), NEW t \in Nat, t > 0
  PROVE  day[Before(DOMAIN day, t)] = LevelAt(day, t - 1)
  <1>1. {u \in DOMAIN day : u < t} = Upto(DOMAIN day, t - 1)
    BY DEF Opening, Upto
  <1> QED BY <1>1, LevelAtUpto DEF Before

\* Between edges the level runs on.
LEMMA LevelRunsOn ==
  ASSUME NEW day, Opening(DOMAIN day), NEW t \in Nat, t \notin DOMAIN day
  PROVE  LevelAt(day, t) = LevelAt(day, t - 1)
  <1>1. Upto(DOMAIN day, t) = Upto(DOMAIN day, t - 1)
    BY DEF Opening, Upto
  <1> QED BY <1>1, LevelAtUpto

\* It runs on over any number of moments.
LEMMA LevelOver ==
  ASSUME NEW day, Opening(DOMAIN day), NEW t \in Nat, NEW u \in Nat, u <= t,
         \A w \in DOMAIN day : w <= t => w <= u
  PROVE  LevelAt(day, t) = LevelAt(day, u)
  <1>1. Upto(DOMAIN day, t) = Upto(DOMAIN day, u)
    BY DEF Opening, Upto
  <1> QED BY <1>1, LevelAtUpto

Moments == 0 .. DayEnd - 1

\* The level in force at each moment of a day.
Shown(day) == [t \in Moments |-> LevelAt(day, t)]

\* The moments the level of a schedule is set, and the transitions it takes.
Starts(level) == {t \in Moments : t = 0 \/ level[t] # level[t - 1]}

Canon(level) == [t \in Starts(level) |-> level[t]]

LEMMA EndIsLater == DayEnd \in Nat /\ DayEnd >= 2 /\ 0 \in Moments
  BY GridAssumption DEF Moments

\* The changes of a day are those of its schedule.
LEMMA ChangesShown ==
  ASSUME NEW day, Opening(DOMAIN day)
  PROVE  Changes(day) \cap Moments = Starts(Shown(day))
  <1>1. Min(DOMAIN day) = 0
    <2>1. DOMAIN day \in SUBSET Int /\ Least(DOMAIN day, 0)
      BY DEF Opening, Least
    <2> QED BY <2>1, MinIs
  <1>2. ASSUME NEW t \in Moments
        PROVE  t \in Changes(day) <=> t \in Starts(Shown(day))
    <2>1. t \in Nat /\ 0 \in DOMAIN day
      BY EndIsLater DEF Opening, Moments
    <2>2. CASE t = 0
      BY <1>1, <2>1, <2>2 DEF Changes, Starts
    <2>3. CASE t # 0
      <3>1. t > 0 /\ t - 1 \in Moments
        BY <2>1, <2>3, EndIsLater DEF Moments
      <3>2. t \in Starts(Shown(day)) <=> LevelAt(day, t) # LevelAt(day, t - 1)
        BY <2>3, <3>1 DEF Starts, Shown
      <3>3. day[Before(DOMAIN day, t)] = LevelAt(day, t - 1)
        BY <2>1, <3>1, LevelBefore
      <3>4. CASE t \in DOMAIN day
        <4>1. LevelAt(day, t) = day[t]
          BY <3>4, LevelHere
        <4>2. t \in Changes(day) <=> day[t] # day[Before(DOMAIN day, t)]
          BY <1>1, <2>3, <3>4 DEF Changes
        <4> QED BY <4>1, <4>2, <3>2, <3>3
      <3>5. CASE t \notin DOMAIN day
        <4>1. LevelAt(day, t) = LevelAt(day, t - 1)
          BY <3>5, <2>1, LevelRunsOn
        <4>2. t \notin Changes(day)
          BY <3>5 DEF Changes
        <4> QED BY <4>1, <4>2, <3>2
      <3> QED BY <3>4, <3>5
    <2> QED BY <2>2, <2>3
  <1> QED BY <1>2 DEF Starts

\* The schedule of the changes of a schedule is that schedule again.
LEMMA CanonShown ==
  ASSUME NEW level, level = [t \in Moments |-> level[t]]
  PROVE  Opening(DOMAIN Canon(level)) /\ Shown(Canon(level)) = level
  <1> DEFINE day == Canon(level)
             Bad == {t \in Moments : LevelAt(day, t) # level[t]}
  <1>1. /\ DOMAIN day = Starts(level)
        /\ \A t \in Starts(level) : day[t] = level[t]
    BY DEF Canon
  <1>2. Moments \subseteq Nat
    BY EndIsLater DEF Moments
  <1>3. Opening(DOMAIN day)
    BY <1>1, <1>2, EndIsLater DEF Starts, Opening
  <1> HIDE DEF day
  <1>4. ASSUME Bad # {} PROVE FALSE
    <2>1. Bad \in SUBSET (0 .. DayEnd - 1)
      BY DEF Moments
    <2>2. IsFiniteSet(Bad)
      <3>1. DayEnd - 1 \in Int
        BY EndIsLater
      <3> QED BY <2>1, <3>1, BoundedFinite
    <2>3. PICK t \in Bad : \A u \in Bad : t <= u
      <3>1. Bad \in SUBSET Int
        BY <2>1
      <3> QED BY <3>1, <2>2, <1>4, Extremes DEF Least
    <2>4. t \in Moments /\ LevelAt(day, t) # level[t]
      OBVIOUS
    <2>5. t \in Nat
      BY <2>4, <1>2
    <2>6. CASE t \in Starts(level)
      <3>1. LevelAt(day, t) = day[t]
        BY <2>6, <1>1, <1>3, LevelHere
      <3> QED BY <3>1, <2>4, <2>6, <1>1
    <2>7. CASE t \notin Starts(level)
      <3>1. t # 0 /\ level[t] = level[t - 1]
        BY <2>4, <2>7 DEF Starts
      <3>2. t - 1 \in Moments /\ ~(t <= t - 1)
        BY <2>4, <2>5, <3>1, EndIsLater DEF Moments
      <3>3. LevelAt(day, t - 1) = level[t - 1]
        BY <2>3, <3>2
      <3>4. LevelAt(day, t) = LevelAt(day, t - 1)
        BY <2>5, <2>7, <1>1, <1>3, LevelRunsOn
      <3> QED BY <3>1, <3>3, <3>4, <2>4
    <2> QED BY <2>6, <2>7
  <1>5. Shown(day) = level
    BY <1>4 DEF Shown
  <1> QED BY <1>3, <1>5 DEF day

\* set_transitions packs into the changes of the schedule asked for.
LEMMA PackedShown ==
  ASSUME NEW day, Opening(DOMAIN day), Changes(day) \subseteq Moments
  PROVE  Packed(day) = Canon(Shown(day))
  <1>1. Changes(day) = Starts(Shown(day))
    BY ChangesShown
  <1>2. ASSUME NEW t \in Changes(day) PROVE day[t] = Shown(day)[t]
    <2>1. t \in DOMAIN day /\ t \in Moments
      BY DEF Changes
    <2> QED BY <2>1, LevelHere DEF Shown
  <1>3. Packed(day) = [t \in Changes(day) |-> day[t]]
    BY DEF Packed, Restrict
  <1> QED BY <1>1, <1>2, <1>3 DEF Canon

\* The transitions of a day that ends on an edge are the changes of its schedule.
LEMMA TransitionsShown ==
  ASSUME NEW day, Opening(DOMAIN day), Greatest(DOMAIN day, DayEnd)
  PROVE  Transitions(day) = Canon(Shown(day))
  <1>1. Max(DOMAIN day) = DayEnd
    <2>1. DOMAIN day \in SUBSET Int
      BY DEF Opening
    <2> QED BY <2>1, MaxIs
  <1>2. Changes(day) \ {DayEnd} = Starts(Shown(day))
    <2>1. Changes(day) \ {DayEnd} = Changes(day) \cap Moments
      BY EndIsLater DEF Changes, Greatest, Opening, Moments
    <2> QED BY <2>1, ChangesShown
  <1>3. ASSUME NEW t \in Starts(Shown(day)) PROVE day[t] = Shown(day)[t]
    <2>1. t \in DOMAIN day /\ t \in Moments
      BY <1>2 DEF Changes, Starts
    <2> QED BY <2>1, LevelHere DEF Shown
  <1>4. DOMAIN day # {}
    BY DEF Opening
  <1>5. Transitions(day) = [t \in Starts(Shown(day)) |-> day[t]]
    BY <1>1, <1>2, <1>4 DEF Transitions, Restrict
  <1> QED BY <1>3, <1>5 DEF Canon

-----------------------------------------------------------------------------
(***************************************************************************)
(* What one edge more or less does to the schedule                         *)
(***************************************************************************)
LEMMA WithFacts ==
  ASSUME NEW day, NEW m, NEW l
  PROVE  DOMAIN With(day, m, l) = DOMAIN day \cup {m}
  BY DEF With

LEMMA WithNew ==
  ASSUME NEW day, NEW m, NEW l
  PROVE  With(day, m, l)[m] = l
  BY DEF With

LEMMA WithOld ==
  ASSUME NEW day, NEW m, NEW l, NEW t \in DOMAIN day, t # m
  PROVE  With(day, m, l)[t] = day[t]
  BY DEF With

LEMMA WithOpening ==
  ASSUME NEW day, Opening(DOMAIN day), NEW m \in Nat, NEW l
  PROVE  Opening(DOMAIN With(day, m, l))
  <1>1. DOMAIN With(day, m, l) = DOMAIN day \cup {m}
    BY WithFacts
  <1> QED BY <1>1 DEF Opening

\* Before a new edge nothing changes.
LEMMA WithBefore ==
  ASSUME NEW day, Opening(DOMAIN day), NEW m \in Nat, NEW l, NEW t \in Nat, t < m
  PROVE  LevelAt(With(day, m, l), t) = LevelAt(day, t)
  <1> DEFINE new == With(day, m, l)
  <1>1. DOMAIN new = DOMAIN day \cup {m}
    BY WithFacts
  <1>2. Upto(DOMAIN new, t) = Upto(DOMAIN day, t)
    BY <1>1 DEF Upto, Opening
  <1>3. PICK u : u = Max(Upto(DOMAIN day, t))
    OBVIOUS
  <1>4. Greatest(Upto(DOMAIN day, t), u)
    BY <1>3, LastFacts
  <1>5. u \in DOMAIN day /\ u # m
    BY <1>4 DEF Greatest, Upto, Opening
  <1>6. new[u] = day[u]
    BY <1>5, WithOld
  <1> QED BY <1>2, <1>3, <1>6, LevelAtUpto

\* From it on its own level is in force,
LEMMA WithOver ==
  ASSUME NEW day, Opening(DOMAIN day), NEW m \in Nat, NEW l, NEW t \in Nat, m <= t,
         \A u \in DOMAIN day : u <= t => u <= m
  PROVE  LevelAt(With(day, m, l), t) = l
  <1> DEFINE new == With(day, m, l)
  <1>1. DOMAIN new = DOMAIN day \cup {m}
    BY WithFacts
  <1>5. new[m] = l
    BY WithNew
  <1>2. Opening(DOMAIN new)
    BY WithOpening
  <1> HIDE DEF new
  <1>3. Greatest(Upto(DOMAIN new, t), m)
    BY <1>1 DEF Greatest, Upto, Opening
  <1>4. LevelAt(new, t) = new[m]
    BY <1>2, <1>3, LevelOf
  <1> QED BY <1>4, <1>5 DEF new

\* up to the next edge, after which nothing changes.
LEMMA WithAfter ==
  ASSUME NEW day, Opening(DOMAIN day), NEW m \in Nat, NEW l, NEW t \in Nat,
         NEW v \in DOMAIN day, m < v, v <= t
  PROVE  LevelAt(With(day, m, l), t) = LevelAt(day, t)
  <1> DEFINE new == With(day, m, l)
  <1>1. DOMAIN new = DOMAIN day \cup {m}
    BY WithFacts
  <1>2. Opening(DOMAIN new)
    BY WithOpening
  <1>3. PICK u : u = Max(Upto(DOMAIN day, t))
    OBVIOUS
  <1>4. Greatest(Upto(DOMAIN day, t), u)
    BY <1>3, LastFacts
  <1>5. u \in DOMAIN day /\ m < u /\ u <= t
    BY <1>4 DEF Greatest, Upto, Opening
  <1>6. new[u] = day[u]
    <2>1. u # m
      BY <1>5 DEF Opening
    <2> QED BY <1>5, <2>1, WithOld
  <1> HIDE DEF new
  <1>7. Greatest(Upto(DOMAIN new, t), u)
    BY <1>1, <1>4, <1>5 DEF Greatest, Upto, Opening
  <1>8. LevelAt(new, t) = new[u]
    BY <1>2, <1>7, LevelOf
  <1>9. LevelAt(day, t) = day[u]
    BY <1>4, LevelOf
  <1> QED BY <1>6, <1>8, <1>9 DEF new

LEMMA WithoutFacts ==
  ASSUME NEW day, NEW m
  PROVE  DOMAIN Without(day, m) = DOMAIN day \ {m}
  BY DEF Without, Restrict

LEMMA WithoutOld ==
  ASSUME NEW day, NEW m, NEW t \in DOMAIN day, t # m
  PROVE  Without(day, m)[t] = day[t]
  BY DEF Without, Restrict

LEMMA WithoutOpening ==
  ASSUME NEW day, Opening(DOMAIN day), NEW m, m # 0
  PROVE  Opening(DOMAIN Without(day, m))
  BY WithoutFacts DEF Opening

\* Where the last edge is not the one removed nothing changes.
LEMMA WithoutElsewhere ==
  ASSUME NEW day, Opening(DOMAIN day), NEW m \in Nat, m # 0, NEW t \in Nat,
         t < m \/ \E v \in DOMAIN day : m < v /\ v <= t
  PROVE  LevelAt(Without(day, m), t) = LevelAt(day, t)
  <1> DEFINE new == Without(day, m)
  <1>1. DOMAIN new = DOMAIN day \ {m}
    BY WithoutFacts
  <1>2. Opening(DOMAIN new)
    BY WithoutOpening
  <1>3. PICK u : u = Max(Upto(DOMAIN day, t))
    OBVIOUS
  <1>4. Greatest(Upto(DOMAIN day, t), u)
    BY <1>3, LastFacts
  <1>5. u \in DOMAIN day /\ u # m /\ u <= t
    BY <1>4 DEF Greatest, Upto, Opening
  <1>6. new[u] = day[u]
    BY <1>5, WithoutOld
  <1> HIDE DEF new
  <1>7. Greatest(Upto(DOMAIN new, t), u)
    BY <1>1, <1>4, <1>5 DEF Greatest, Upto
  <1>8. LevelAt(new, t) = new[u]
    BY <1>2, <1>7, LevelOf
  <1>9. LevelAt(day, t) = day[u]
    BY <1>4, LevelOf
  <1> QED BY <1>6, <1>8, <1>9 DEF new

\* The level before an edge that is removed runs on to the next.
LEMMA WithoutOver ==
  ASSUME NEW day, Opening(DOMAIN day), NEW m \in Nat, m # 0, NEW t \in Nat, m <= t,
         \A u \in DOMAIN day : u <= t => u <= m
  PROVE  LevelAt(Without(day, m), t) = LevelAt(day, m - 1)
  <1> DEFINE new == Without(day, m)
  <1>1. DOMAIN new = DOMAIN day \ {m}
    BY WithoutFacts
  <1>2. Opening(DOMAIN new)
    BY WithoutOpening
  <1>3. m - 1 \in Nat /\ m - 1 < m
    OBVIOUS
  <1>4. LevelAt(new, m - 1) = LevelAt(day, m - 1)
    BY <1>3, WithoutElsewhere
  <1>5. \A w \in DOMAIN new : w <= t => w <= m - 1
    BY <1>1 DEF Opening
  <1> HIDE DEF new
  <1>6. LevelAt(new, t) = LevelAt(new, m - 1)
    <2>1. m - 1 <= t
      BY <1>3
    <2> QED BY <1>2, <1>3, <1>5, <2>1, LevelOver
  <1> QED BY <1>4, <1>6 DEF new

-----------------------------------------------------------------------------
(***************************************************************************)
(* Parking                                                                 *)
(***************************************************************************)
\* A day in the making: n edges, none of them the terminator.
Partial(packed, n) ==
    /\ packed \in [DOMAIN packed -> Levels]
    /\ DOMAIN packed \in SUBSET Moments
    /\ 0 \in DOMAIN packed
    /\ Cardinality(DOMAIN packed) = n

Bounds(packed, t) == {u \in DOMAIN packed \cup {DayEnd} : u > t}

Wide(packed) ==
    {t \in DOMAIN packed : \A u \in DOMAIN packed : Gap(packed, u) <= Gap(packed, t)}

LEMMA FollowingFacts ==
  ASSUME NEW packed, DOMAIN packed \in SUBSET Moments, NEW t \in Moments
  PROVE  Least(Bounds(packed, t), Following(packed, t))
  <1>1. Following(packed, t) = Min(Bounds(packed, t))
    BY DEF Following, Bounds
  <1>2. Bounds(packed, t) \in SUBSET (0 .. DayEnd)
    <2>1. ASSUME NEW u \in Bounds(packed, t) PROVE u \in 0 .. DayEnd
      BY EndIsLater DEF Bounds, Moments
    <2> QED BY <2>1
  <1>3. IsFiniteSet(Bounds(packed, t))
    <2>1. DayEnd \in Int
      BY EndIsLater
    <2> QED BY <2>1, <1>2, BoundedFinite
  <1>4. DayEnd \in Bounds(packed, t)
    BY EndIsLater DEF Bounds, Moments
  <1>5. Bounds(packed, t) \in SUBSET Int /\ Bounds(packed, t) # {}
    BY <1>2, <1>4
  <1> QED BY <1>1, <1>3, <1>5, MinFacts

\* The bound after t, and that no edge is in between.
LEMMA FollowingIs ==
  ASSUME NEW packed, DOMAIN packed \in SUBSET Moments, NEW t \in Moments
  PROVE  /\ Following(packed, t) \in Nat
         /\ t < Following(packed, t)
         /\ Following(packed, t) <= DayEnd
         /\ Following(packed, t) \in DOMAIN packed \/ Following(packed, t) = DayEnd
  <1>1. Least(Bounds(packed, t), Following(packed, t))
    BY FollowingFacts
  <1>2. DayEnd \in Bounds(packed, t)
    BY EndIsLater DEF Bounds, Moments
  <1> QED BY <1>1, <1>2, EndIsLater DEF Least, Bounds, Moments

LEMMA NoneBetween ==
  ASSUME NEW packed, DOMAIN packed \in SUBSET Moments, NEW t \in Moments,
         NEW u \in DOMAIN packed, u > t
  PROVE  Following(packed, t) <= u
  <1>1. Least(Bounds(packed, t), Following(packed, t))
    BY FollowingFacts
  <1> QED BY <1>1 DEF Least, Bounds

LEMMA WidestFacts ==
  ASSUME NEW packed, NEW n, Partial(packed, n)
  PROVE  Widest(packed) \in Wide(packed)
  <1> DEFINE gaps == {Gap(packed, t) : t \in DOMAIN packed}
  <1>1. ASSUME NEW g \in gaps PROVE g \in 0 .. DayEnd
    <2>1. PICK t \in DOMAIN packed : g = Gap(packed, t)
      OBVIOUS
    <2>2. t \in Moments
      BY DEF Partial
    <2>3. /\ Following(packed, t) \in Nat
          /\ t < Following(packed, t)
          /\ Following(packed, t) <= DayEnd
      BY <2>2, FollowingIs DEF Partial
    <2> QED BY <2>1, <2>2, <2>3, EndIsLater DEF Gap, Moments
  <1>2. gaps \in SUBSET (0 .. DayEnd)
    BY <1>1
  <1>3. Gap(packed, 0) \in gaps
    BY DEF Partial
  <1> HIDE DEF gaps
  <1>4. IsFiniteSet(gaps)
    <2>1. DayEnd \in Int
      BY EndIsLater
    <2> QED BY <2>1, <1>2, BoundedFinite
  <1>5. PICK g \in gaps : Greatest(gaps, g)
    <2>1. gaps \in SUBSET Int /\ gaps # {}
      BY <1>2, <1>3
    <2> QED BY <2>1, <1>4, Extremes
  <1>6. PICK t \in DOMAIN packed : g = Gap(packed, t)
    BY DEF gaps
  <1>7. t \in Wide(packed)
    BY <1>5, <1>6 DEF Greatest, Wide, gaps
  <1>8. Wide(packed) \in SUBSET (0 .. DayEnd - 1)
    BY DEF Wide, Partial, Moments
  <1>9. IsFiniteSet(Wide(packed))
    <2>1. DayEnd - 1 \in Int
      BY EndIsLater
    <2> QED BY <2>1, <1>8, BoundedFinite
  <1>10. Widest(packed) = Min(Wide(packed))
    BY DEF Widest, Wide
  <1>11. Least(Wide(packed), Min(Wide(packed)))
    <2>1. Wide(packed) \in SUBSET Int /\ Wide(packed) # {}
      BY <1>7, <1>8
    <2> QED BY <2>1, <1>9, MinFacts
  <1> QED BY <1>10, <1>11 DEF Least

\* As long as a moment is without an edge there is a gap to park one in: if each
\* edge were followed by one a step later they would fill the day.
LEMMA RoomToPark ==
  ASSUME NEW packed, NEW n \in Nat, Partial(packed, n), n < DayEnd
  PROVE  HasGap(packed)
  <1> DEFINE free == Moments \ DOMAIN packed
  <1>1. free # {}
    <2> SUFFICES ASSUME free = {} PROVE FALSE
      OBVIOUS
    <2>1. DOMAIN packed = 0 .. DayEnd - 1
      BY DEF Partial, Moments
    <2>2. Cardinality(0 .. DayEnd - 1) = DayEnd
      <3>1. /\ 0 \in Int /\ DayEnd - 1 \in Int
            /\ ~(0 > DayEnd - 1) /\ DayEnd - 1 - 0 + 1 = DayEnd
        BY EndIsLater
      <3> QED BY <3>1, FS_Interval
    <2> QED BY <2>1, <2>2, EndIsLater DEF Partial
  <1>2. PICK b \in free : \A u \in free : b <= u
    <2>1. free \in SUBSET (0 .. DayEnd - 1)
      BY DEF Moments
    <2>2. IsFiniteSet(free)
      <3>1. DayEnd - 1 \in Int
        BY EndIsLater
      <3> QED BY <2>1, <3>1, BoundedFinite
    <2>3. free \in SUBSET Int
      BY <2>1
    <2> QED BY <2>2, <2>3, <1>1, Extremes DEF Least
  <1>3. b \in Moments /\ b \notin DOMAIN packed /\ b # 0
    BY DEF Partial
  <1>4. b - 1 \in Moments /\ ~(b <= b - 1)
    BY <1>3, EndIsLater DEF Moments
  <1>5. b - 1 \in DOMAIN packed
    BY <1>2, <1>4
  <1>6. Following(packed, b - 1) # b
    <2>1. \/ Following(packed, b - 1) \in DOMAIN packed
          \/ Following(packed, b - 1) = DayEnd
      BY <1>4, FollowingIs DEF Partial
    <2> QED BY <2>1, <1>3, EndIsLater DEF Moments
  <1>7. Gap(packed, b - 1) >= 2
    <2>1. /\ Following(packed, b - 1) \in Nat
          /\ b - 1 < Following(packed, b - 1)
      BY <1>4, FollowingIs DEF Partial
    <2> QED BY <2>1, <1>3, <1>6 DEF Gap, Moments
  <1>8. Widest(packed) \in Wide(packed)
    BY WidestFacts
  <1> DEFINE w == Widest(packed)
             f == Following(packed, w)
  <1>9. w \in DOMAIN packed /\ w \in Moments /\ Gap(packed, b - 1) <= Gap(packed, w)
    BY <1>5, <1>8 DEF Wide, Partial
  <1>10. f \in Nat /\ w < f
    BY <1>9, FollowingIs DEF Partial
  <1>11. w \in Nat
    BY <1>9, EndIsLater DEF Moments
  <1>12. b - 1 \in Int /\ Following(packed, b - 1) \in Int
    BY <1>3, <1>4, FollowingIs DEF Moments, Partial
  <1>13. f - w >= 2
    BY <1>7, <1>9, <1>10, <1>11, <1>12 DEF Gap
  <1>14. Middle(packed) = (w + f) \div 2
    BY DEF Middle
  <1> HIDE DEF w, f
  <1>15. w < (w + f) \div 2 /\ (w + f) \div 2 < f
    BY <1>10, <1>11, <1>13
  <1> QED BY <1>14, <1>15 DEF HasGap, w, f

LEMMA PartialOpening ==
  ASSUME NEW packed, NEW n, Partial(packed, n)
  PROVE  Opening(DOMAIN packed)
  <1>1. Moments \subseteq Nat
    BY EndIsLater DEF Moments
  <1> QED BY <1>1 DEF Partial, Opening

\* Where the spare edge goes: between an edge and the bound after it.
LEMMA ParkPlace ==
  ASSUME NEW packed, NEW n, Partial(packed, n), HasGap(packed)
  PROVE  /\ Widest(packed) \in DOMAIN packed
         /\ Widest(packed) \in Nat /\ Middle(packed) \in Nat
         /\ Following(packed, Widest(packed)) \in Nat
         /\ Widest(packed) < Middle(packed)
         /\ Middle(packed) < Following(packed, Widest(packed))
         /\ Following(packed, Widest(packed)) <= DayEnd
  <1>1. Widest(packed) \in DOMAIN packed
    BY WidestFacts DEF Wide
  <1>2. Widest(packed) \in Moments
    BY <1>1 DEF Partial
  <1>3. /\ Following(packed, Widest(packed)) \in Nat
        /\ Following(packed, Widest(packed)) <= DayEnd
    BY <1>2, FollowingIs DEF Partial
  <1>4. Widest(packed) \in Nat
    BY <1>2, EndIsLater DEF Moments
  <1>5. Middle(packed) \in Int
    BY <1>3, <1>4 DEF Middle
  <1>6. /\ Widest(packed) < Middle(packed)
        /\ Middle(packed) < Following(packed, Widest(packed))
    BY DEF HasGap
  <1>7. Middle(packed) \in Nat
    BY <1>4, <1>5, <1>6
  <1> QED BY <1>1, <1>3, <1>4, <1>6, <1>7

LEMMA ParkNoneBetween ==
  ASSUME NEW packed, NEW n, Partial(packed, n),
         NEW u \in DOMAIN packed, u > Widest(packed)
  PROVE  Following(packed, Widest(packed)) <= u
  <1>1. Widest(packed) \in Moments
    BY WidestFacts DEF Wide, Partial
  <1> QED BY <1>1, NoneBetween DEF Partial

\* One more edge, and still a day in the making.
LEMMA ParkPartial ==
  ASSUME NEW packed, NEW n \in Nat, Partial(packed, n), HasGap(packed)
  PROVE  Partial(Park(packed), n + 1)
  <1> DEFINE m == Middle(packed)
             l == packed[Widest(packed)]
             new == Park(packed)
  <1>1. /\ Widest(packed) \in DOMAIN packed
        /\ Widest(packed) \in Nat /\ m \in Nat
        /\ Following(packed, Widest(packed)) \in Nat
        /\ Widest(packed) < m
        /\ m < Following(packed, Widest(packed))
        /\ Following(packed, Widest(packed)) <= DayEnd
    BY ParkPlace
  <1>2. m \notin DOMAIN packed
    <2> SUFFICES ASSUME m \in DOMAIN packed PROVE FALSE
      OBVIOUS
    <2>1. Following(packed, Widest(packed)) <= m
      BY <1>1, ParkNoneBetween
    <2> QED BY <2>1, <1>1
  <1>3. m \in Moments
    BY <1>1, EndIsLater DEF Moments
  <1>4. new = With(packed, m, l)
    BY DEF Park
  <1>5. l \in Levels
    BY <1>1 DEF Partial
  <1> HIDE DEF m, l, new
  <1>6. DOMAIN new = DOMAIN packed \cup {m}
    BY <1>4, WithFacts
  <1>7. new \in [DOMAIN new -> Levels]
    BY <1>4, <1>5, <1>6 DEF With, Partial
  <1>8. Cardinality(DOMAIN new) = n + 1
    <2>1. IsFiniteSet(DOMAIN packed)
      <3>1. DOMAIN packed \in SUBSET (0 .. DayEnd - 1) /\ DayEnd - 1 \in Int
        BY EndIsLater DEF Partial, Moments
      <3> QED BY <3>1, BoundedFinite
    <2> QED BY <2>1, <1>2, <1>6, FS_AddElement DEF Partial
  <1> QED BY <1>3, <1>6, <1>7, <1>8 DEF Partial, new

\* The spare edge repeats the level before it, which was in force there anyway.
LEMMA ParkShown ==
  ASSUME NEW packed, NEW n \in Nat, Partial(packed, n), HasGap(packed)
  PROVE  Shown(Park(packed)) = Shown(packed)
  <1> DEFINE m == Middle(packed)
             w == Widest(packed)
             f == Following(packed, w)
             l == packed[w]
  <1>1. /\ w \in DOMAIN packed
        /\ w \in Nat /\ m \in Nat /\ f \in Nat
        /\ w < m /\ m < f /\ f <= DayEnd
    BY ParkPlace
  <1>2. Opening(DOMAIN packed)
    BY PartialOpening
  <1>3. Park(packed) = With(packed, m, l)
    BY DEF Park
  <1>4. ASSUME NEW u \in DOMAIN packed, u > w PROVE f <= u
    BY <1>4, ParkNoneBetween
  <1>5. LevelAt(packed, w) = l
    BY <1>1, <1>2, LevelHere
  <1> HIDE DEF m, w, f, l
  <1>6. ASSUME NEW t \in Moments
        PROVE  LevelAt(With(packed, m, l), t) = LevelAt(packed, t)
    <2>1. t \in Nat /\ t < DayEnd
      BY EndIsLater DEF Moments
    <2>2. CASE t < m
      BY <1>1, <1>2, <2>1, <2>2, WithBefore
    <2>3. CASE m <= t /\ t < f
      <3>1. \A u \in DOMAIN packed : u <= t => u <= w
        BY <1>1, <1>2, <1>4, <2>1, <2>3 DEF Opening
      <3>2. \A u \in DOMAIN packed : u <= t => u <= m
        BY <3>1, <1>1, <1>2 DEF Opening
      <3>3. LevelAt(With(packed, m, l), t) = l
        BY <1>1, <1>2, <2>1, <2>3, <3>2, WithOver
      <3>4. w <= t
        BY <1>1, <2>1, <2>3
      <3>5. LevelAt(packed, t) = LevelAt(packed, w)
        BY <1>1, <1>2, <2>1, <3>1, <3>4, LevelOver
      <3> QED BY <3>3, <3>5, <1>5
    <2>4. CASE f <= t
      <3>1. f \in DOMAIN packed
        <4>1. w \in Moments
          BY <1>1 DEF Partial
        <4>2. f \in DOMAIN packed \/ f = DayEnd
          BY <4>1, FollowingIs DEF f, Partial
        <4> QED BY <4>2, <2>1, <2>4, EndIsLater
      <3> QED BY <1>1, <1>2, <2>1, <2>4, <3>1, WithAfter
    <2> QED BY <1>1, <2>1, <2>2, <2>3, <2>4
  <1> QED BY <1>3, <1>6 DEF Shown

\* The while loop of set_transitions, unrolled: the recursion of Parking has a
\* solution, built up from the first number of edges to the last.
Unrolled(f, packed, a, b) ==
    f = [n \in a .. b |-> IF n = a THEN packed ELSE Park(f[n - 1])]

LEMMA UnrolledMore ==
  ASSUME NEW packed, NEW a \in Nat, NEW b \in Nat, a <= b, NEW f,
         Unrolled(f, packed, a, b)
  PROVE  \E g : Unrolled(g, packed, a, b + 1)
  <1> DEFINE g == [n \in a .. b + 1 |-> IF n = b + 1 THEN Park(f[b]) ELSE f[n]]
  <1>1. ASSUME NEW n \in a .. b
        PROVE  f[n] = IF n = a THEN packed ELSE Park(f[n - 1])
    BY DEF Unrolled
  <1>2. ASSUME NEW n \in a .. b + 1
        PROVE  g[n] = IF n = a THEN packed ELSE Park(g[n - 1])
    <2>1. CASE n = b + 1
      <3>1. g[n] = Park(f[b]) /\ n # a /\ n - 1 = b
        BY <2>1
      <3>2. g[b] = f[b]
        OBVIOUS
      <3> QED BY <3>1, <3>2
    <2>2. CASE n # b + 1
      <3>1. n \in a .. b /\ g[n] = f[n]
        BY <2>2
      <3>2. n # a => g[n - 1] = f[n - 1]
        BY <2>2
      <3> QED BY <3>1, <3>2, <1>1
    <2> QED BY <2>1, <2>2
  <1>3. g = [n \in a .. b + 1 |-> g[n]]
    OBVIOUS
  <1> HIDE DEF g
  <1>4. Unrolled(g, packed, a, b + 1)
    BY <1>2, <1>3 DEF Unrolled
  <1> QED BY <1>4

LEMMA UnrolledExists ==
  ASSUME NEW packed, NEW a \in Nat, NEW b \in Nat, a <= b
  PROVE  \E f : Unrolled(f, packed, a, b)
  <1> DEFINE Bad == {n \in a .. b : ~ \E f : Unrolled(f, packed, a, n)}
  <1> SUFFICES ASSUME Bad # {} PROVE FALSE
    <2>1. b \in a .. b
      OBVIOUS
    <2> QED BY <2>1
  <1>1. PICK n \in Bad : \A k \in Bad : n <= k
    <2>1. Bad \in SUBSET (0 .. b)
      OBVIOUS
    <2>2. IsFiniteSet(Bad)
      BY <2>1, b \in Int, BoundedFinite
    <2>3. Bad \in SUBSET Int
      BY <2>1
    <2> HIDE DEF Bad
    <2> QED BY <2>2, <2>3, Extremes DEF Least
  <1>2. n \in a .. b /\ ~ \E f : Unrolled(f, packed, a, n)
    OBVIOUS
  <1>3. CASE n = a
    <2> DEFINE f == [k \in a .. a |-> packed]
    <2>1. f = [k \in a .. a |-> IF k = a THEN packed ELSE Park(f[k - 1])]
      OBVIOUS
    <2> HIDE DEF f
    <2>2. Unrolled(f, packed, a, n)
      BY <2>1, <1>3 DEF Unrolled
    <2> QED BY <2>2, <1>2
  <1>4. CASE n # a
    <2>1. n - 1 \in Nat /\ n - 1 \in a .. b /\ a <= n - 1 /\ ~(n <= n - 1)
      BY <1>2, <1>4
    <2>2. n - 1 \notin Bad
      BY <2>1, <1>1
    <2>3. PICK f : Unrolled(f, packed, a, n - 1)
      BY <2>1, <2>2
    <2>4. \E g : Unrolled(g, packed, a, (n - 1) + 1)
      BY <2>1, <2>3, UnrolledMore
    <2>5. (n - 1) + 1 = n
      BY <1>2
    <2> QED BY <2>4, <2>5, <1>2
  <1> QED BY <1>3, <1>4

LEMMA ParkingUnrolled ==
  ASSUME NEW packed, Cardinality(DOMAIN packed) \in Nat,
         Cardinality(DOMAIN packed) <= EdgeCount - 1
  PROVE  Unrolled(Parking(packed), packed, Cardinality(DOMAIN packed), EdgeCount - 1)
  <1> DEFINE a == Cardinality(DOMAIN packed)
             b == EdgeCount - 1
  <1>1. b \in Nat
    BY GridAssumption
  <1>2. Parking(packed) = CHOOSE f : Unrolled(f, packed, a, b)
    BY DEF Parking, Unrolled
  <1> HIDE DEF a, b
  <1>3. \E f : Unrolled(f, packed, a, b)
    BY <1>1, UnrolledExists DEF a, b
  <1>4. Unrolled(Parking(packed), packed, a, b)
    BY <1>2, <1>3
  <1> QED BY <1>4 DEF a, b

\* The loop fills the day edge by edge and leaves its schedule alone.
Filling(packed, n) ==
    /\ Partial(Parking(packed)[n], n)
    /\ Shown(Parking(packed)[n]) = Shown(packed)

LEMMA ParkingFills ==
  ASSUME NEW packed, NEW a \in Nat, Partial(packed, a), a <= EdgeCount - 1,
         NEW n \in a .. EdgeCount - 1
  PROVE  Filling(packed, n)
  <1> DEFINE b == EdgeCount - 1
             Bad == {k \in a .. b : ~Filling(packed, k)}
  <1>1. b \in Nat /\ b <= DayEnd
    BY GridAssumption
  <1>2. a = Cardinality(DOMAIN packed)
    BY DEF Partial
  <1>3. Unrolled(Parking(packed), packed, a, b)
    BY <1>2, ParkingUnrolled
  <1> HIDE DEF b
  <1>4. ASSUME NEW k \in a .. b
        PROVE  Parking(packed)[k] = IF k = a THEN packed ELSE Park(Parking(packed)[k - 1])
    BY <1>3 DEF Unrolled
  <1> SUFFICES ASSUME Bad # {} PROVE FALSE
    BY DEF b
  <1>5. PICK k \in Bad : \A j \in Bad : k <= j
    <2>1. Bad \in SUBSET (0 .. b)
      BY <1>1
    <2>2. IsFiniteSet(Bad)
      <3>1. b \in Int
        BY <1>1
      <3> QED BY <2>1, <3>1, BoundedFinite
    <2>3. Bad \in SUBSET Int
      BY <2>1
    <2> HIDE DEF Bad
    <2> QED BY <2>2, <2>3, Extremes DEF Least
  <1>6. k \in a .. b /\ ~Filling(packed, k)
    OBVIOUS
  <1>7. CASE k = a
    <2>1. Parking(packed)[k] = packed
      BY <1>4, <1>6, <1>7
    <2> QED BY <2>1, <1>6, <1>7 DEF Filling
  <1>8. CASE k # a
    <2>1. k - 1 \in a .. b /\ k - 1 \in Nat /\ ~(k <= k - 1)
      BY <1>1, <1>6, <1>8
    <2>2. Filling(packed, k - 1)
      BY <2>1, <1>5
    <2> DEFINE q == Parking(packed)[k - 1]
    <2>3. Partial(q, k - 1) /\ Shown(q) = Shown(packed)
      BY <2>2 DEF Filling
    <2>4. Parking(packed)[k] = Park(q)
      BY <1>4, <1>6, <1>8
    <2> HIDE DEF q
    <2>5. k - 1 < DayEnd
      BY <1>1, <1>6, EndIsLater
    <2>6. HasGap(q)
      BY <2>1, <2>3, <2>5, RoomToPark
    <2>7. Partial(Park(q), (k - 1) + 1)
      BY <2>1, <2>3, <2>6, ParkPartial
    <2>8. Shown(Park(q)) = Shown(q)
      BY <2>1, <2>3, <2>6, ParkShown
    <2>9. (k - 1) + 1 = k
      BY <1>6
    <2> QED BY <2>3, <2>4, <2>7, <2>8, <2>9, <1>6 DEF Filling
  <1> QED BY <1>7, <1>8

LEMMA NeverStuck ==
  ASSUME NEW packed, NEW a \in Nat, Partial(packed, a), a <= EdgeCount - 1
  PROVE  ~OutOfRoom(packed)
  <1>1. a = Cardinality(DOMAIN packed)
    BY DEF Partial
  <1>2. Unrolled(Parking(packed), packed, a, EdgeCount - 1)
    BY <1>1, ParkingUnrolled
  <1>3. DOMAIN Parking(packed) = a .. EdgeCount - 1
    BY <1>2 DEF Unrolled
  <1>4. ASSUME NEW n \in DOMAIN Parking(packed) \ {EdgeCount - 1}
        PROVE  HasGap(Parking(packed)[n])
    <2>1. n \in a .. EdgeCount - 1 /\ n \in Nat /\ n < DayEnd
      BY <1>3, GridAssumption
    <2>2. Filling(packed, n)
      BY <2>1, ParkingFills
    <2> QED BY <2>1, <2>2, RoomToPark DEF Filling
  <1> QED BY <1>4 DEF OutOfRoom

\* What validate requires, of edges that are known to be in the day.
ValidGrid(day) ==
    /\ day \in [DOMAIN day -> Levels]
    /\ DOMAIN day \in SUBSET (0 .. DayEnd)
    /\ ValidDay(day)

\* A full day and its terminator: a valid day with the same schedule.
LEMMA TerminatedValid ==
  ASSUME NEW packed, Partial(packed, EdgeCount - 1)
  PROVE  ValidGrid(Terminated(packed)) /\ Shown(Terminated(packed)) = Shown(packed)
  <1> DEFINE last == Max(DOMAIN packed)
             l == packed[last]
             new == Terminated(packed)
  <1>1. Opening(DOMAIN packed)
    BY PartialOpening
  <1>2. DOMAIN packed \in SUBSET (0 .. DayEnd - 1) /\ DayEnd - 1 \in Int /\ DayEnd \in Nat
    BY EndIsLater DEF Partial, Moments
  <1>3. IsFiniteSet(DOMAIN packed)
    BY <1>2, BoundedFinite
  <1>4. Greatest(DOMAIN packed, last)
    <2>1. DOMAIN packed \in SUBSET Int /\ DOMAIN packed # {}
      BY <1>1, <1>2 DEF Opening
    <2> QED BY <2>1, <1>3, MaxFacts
  <1>5. l \in Levels
    BY <1>4 DEF Greatest, Partial
  <1>6. new = With(packed, DayEnd, l)
    BY DEF Terminated
  <1> HIDE DEF last, l, new
  <1>7. DOMAIN new = DOMAIN packed \cup {DayEnd}
    BY <1>6, WithFacts
  <1>8. new \in [DOMAIN new -> Levels]
    BY <1>5, <1>6, <1>7 DEF With, Partial
  <1>9. new[DayEnd] = l
    BY <1>6, WithNew
  <1>10. DayEnd \notin DOMAIN packed
    BY <1>2
  <1>11. Cardinality(DOMAIN new) = EdgeCount
    <2>1. Cardinality(DOMAIN new) = Cardinality(DOMAIN packed) + 1
      BY <1>3, <1>7, <1>10, FS_AddElement
    <2> QED BY <2>1, GridAssumption DEF Partial
  <1>12. DOMAIN new \in SUBSET (0 .. DayEnd) /\ 0 \in DOMAIN new
    BY <1>1, <1>2, <1>7 DEF Opening
  <1>13. Min(DOMAIN new) = 0
    <2>1. DOMAIN new \in SUBSET Int /\ Least(DOMAIN new, 0)
      BY <1>12 DEF Least
    <2> QED BY <2>1, MinIs
  <1>14. Max(DOMAIN new) = DayEnd
    <2>1. DOMAIN new \in SUBSET Int /\ Greatest(DOMAIN new, DayEnd)
      BY <1>2, <1>7, <1>12 DEF Greatest
    <2> QED BY <2>1, MaxIs
  <1>15. new[Before(DOMAIN new, DayEnd)] = l
    <2>1. {u \in DOMAIN new : u < DayEnd} = DOMAIN packed
      <3>1. ASSUME NEW u \in DOMAIN packed PROVE u \in DOMAIN new /\ u < DayEnd
        BY <1>2, <1>7
      <3>2. ASSUME NEW u \in DOMAIN new, u < DayEnd PROVE u \in DOMAIN packed
        BY <3>2, <1>2, <1>7
      <3> QED BY <3>1, <3>2
    <2>2. Before(DOMAIN new, DayEnd) = last
      BY <2>1 DEF Before, last
    <2>3. last \in DOMAIN packed /\ last # DayEnd
      BY <1>4, <1>10 DEF Greatest
    <2> QED BY <2>2, <2>3, <1>6, WithOld DEF l
  <1>16. ValidDay(new)
    BY <1>8, <1>9, <1>11, <1>13, <1>14, <1>15 DEF ValidDay
  <1>17. ASSUME NEW t \in Moments PROVE LevelAt(new, t) = LevelAt(packed, t)
    <2>1. t \in Nat /\ t < DayEnd
      BY EndIsLater DEF Moments
    <2> QED BY <2>1, <1>1, <1>2, <1>6, WithBefore
  <1> QED BY <1>8, <1>12, <1>16, <1>17 DEF ValidGrid, Shown, new

-----------------------------------------------------------------------------
(***************************************************************************)
(* Edits                                                                   *)
(***************************************************************************)
\* The times of the transitions an edit asks for.
Asked(transitions) ==
    DOMAIN transitions \in SUBSET Int /\ IsFiniteSet(DOMAIN transitions)

LEMMA AcceptableFacts ==
  ASSUME NEW day, Asked(day), Acceptable(day)
  PROVE  /\ Opening(DOMAIN day)
         /\ Changes(day) \subseteq Moments
         /\ Cardinality(Changes(day)) \in Nat
         /\ Cardinality(Changes(day)) <= EdgeCount - 1
         /\ Partial(Packed(day), Cardinality(Changes(day)))
  <1>1. DOMAIN Packed(day) = Changes(day)
    BY DEF Packed, Restrict
  <1>2. Changes(day) \subseteq DOMAIN day
    BY DEF Changes
  <1>3. Least(DOMAIN day, Min(DOMAIN day))
    BY MinFacts DEF Asked, Acceptable
  <1>4. Min(DOMAIN day) \in Changes(day)
    BY <1>3 DEF Changes, Least
  <1>5. IsFiniteSet(Changes(day)) /\ Cardinality(Changes(day)) <= Cardinality(DOMAIN day)
    BY <1>2, FS_Subset DEF Asked
  <1>6. Changes(day) \in SUBSET Int /\ Changes(day) # {}
    BY <1>2, <1>4 DEF Asked
  <1>7. Least(Changes(day), 0)
    <2>1. Least(Changes(day), Min(Changes(day)))
      BY <1>5, <1>6, MinFacts
    <2> QED BY <2>1, <1>1 DEF Acceptable
  <1>8. Greatest(Changes(day), Max(Changes(day))) /\ Max(Changes(day)) < DayEnd
    <2>1. Greatest(Changes(day), Max(Changes(day)))
      BY <1>5, <1>6, MaxFacts
    <2> QED BY <2>1, <1>1 DEF Acceptable
  <1>9. Changes(day) \subseteq Moments
    <2>1. ASSUME NEW t \in Changes(day) PROVE t \in Moments
      <3>1. t \in Int /\ 0 <= t
        BY <1>6, <1>7 DEF Least
      <3>2. Max(Changes(day)) \in Int /\ t <= Max(Changes(day))
        BY <1>6, <1>8 DEF Greatest
      <3> QED BY <3>1, <3>2, <1>8, EndIsLater DEF Moments
    <2> QED BY <2>1
  <1>10. Opening(DOMAIN day)
    <2>1. ASSUME NEW t \in DOMAIN day PROVE t \in Nat
      <3>1. Min(DOMAIN day) \in Int /\ 0 <= Min(DOMAIN day)
        BY <1>4, <1>6, <1>7 DEF Least
      <3>2. t \in Int /\ Min(DOMAIN day) <= t
        BY <1>3 DEF Asked, Least
      <3> QED BY <3>1, <3>2
    <2>2. 0 \in DOMAIN day
      BY <1>2, <1>7 DEF Least
    <2> QED BY <2>1, <2>2 DEF Opening
  <1>11. Cardinality(Changes(day)) \in Nat /\ Cardinality(Changes(day)) <= EdgeCount - 1
    <2>1. Cardinality(DOMAIN day) \in Nat /\ Cardinality(Changes(day)) \in Nat
      BY <1>5, FS_CardinalityType DEF Asked
    <2>2. Cardinality(DOMAIN day) <= EdgeCount - 1
      BY DEF Acceptable, MaxTransitions
    <2> QED BY <2>1, <2>2, <1>5, GridAssumption
  <1>12. Partial(Packed(day), Cardinality(Changes(day)))
    <2>1. \A t \in Changes(day) : day[t] \in Levels
      BY <1>2 DEF Acceptable
    <2>2. Packed(day) \in [Changes(day) -> Levels]
      BY <2>1 DEF Packed, Restrict
    <2>3. 0 \in Changes(day)
      BY <1>7 DEF Least
    <2> QED BY <2>2, <2>3, <1>1, <1>9 DEF Partial
  <1> QED BY <1>9, <1>10, <1>11, <1>12

\* An edit that is accepted never runs out of room, and makes a valid day with
\* the schedule it asks for.
LEMMA GridFacts ==
  ASSUME NEW day, Asked(day), Acceptable(day)
  PROVE  /\ ~OutOfRoom(Packed(day))
         /\ ValidGrid(Grid(day))
         /\ Shown(Grid(day)) = Shown(day)
  <1> DEFINE packed == Packed(day)
             a == Cardinality(Changes(day))
             full == Parking(packed)[EdgeCount - 1]
  <1>1. /\ Opening(DOMAIN day) /\ Changes(day) \subseteq Moments
        /\ a \in Nat /\ a <= EdgeCount - 1 /\ Partial(packed, a)
    BY AcceptableFacts
  <1>2. packed = Canon(Shown(day))
    BY <1>1, PackedShown
  <1>3. Shown(packed) = Shown(day)
    <2>1. Shown(day) = [t \in Moments |-> Shown(day)[t]]
      BY DEF Shown
    <2> QED BY <2>1, <1>2, CanonShown
  <1> HIDE DEF packed, a
  <1>4. Filling(packed, EdgeCount - 1)
    <2>1. EdgeCount - 1 \in a .. EdgeCount - 1
      BY <1>1, GridAssumption
    <2> QED BY <2>1, <1>1, ParkingFills
  <1>5. Partial(full, EdgeCount - 1) /\ Shown(full) = Shown(packed)
    BY <1>4 DEF Filling
  <1>6. Grid(day) = Terminated(full)
    BY DEF Grid, packed
  <1> HIDE DEF full
  <1>7. ValidGrid(Terminated(full)) /\ Shown(Terminated(full)) = Shown(full)
    BY <1>5, TerminatedValid
  <1>8. ~OutOfRoom(packed)
    BY <1>1, NeverStuck
  <1> QED BY <1>3, <1>5, <1>6, <1>7, <1>8 DEF packed

\* What a valid day shows.
LEMMA ValidFacts ==
  ASSUME NEW day, ValidGrid(day)
  PROVE  /\ Transitions(day) = Canon(Shown(day))
         /\ Shown(day) \in [Moments -> Levels]
         /\ Cardinality(Starts(Shown(day))) <= MaxTransitions
  <1>1. DayEnd \in Int /\ IsFiniteSet(DOMAIN day) /\ DOMAIN day \in SUBSET Int
    <2>1. DayEnd \in Int /\ DOMAIN day \in SUBSET (0 .. DayEnd)
      BY EndIsLater DEF ValidGrid
    <2>2. IsFiniteSet(DOMAIN day)
      BY <2>1, BoundedFinite
    <2> QED BY <2>1, <2>2
  <1>2. DOMAIN day # {}
    <2>1. Cardinality(DOMAIN day) # 0
      BY GridAssumption DEF ValidGrid, ValidDay
    <2> QED BY <2>1, FS_EmptySet
  <1>3. Least(DOMAIN day, 0)
    <2>1. Least(DOMAIN day, Min(DOMAIN day))
      BY <1>1, <1>2, MinFacts
    <2> QED BY <2>1 DEF ValidGrid, ValidDay
  <1>4. Greatest(DOMAIN day, DayEnd)
    <2>1. Greatest(DOMAIN day, Max(DOMAIN day))
      BY <1>1, <1>2, MaxFacts
    <2> QED BY <2>1 DEF ValidGrid, ValidDay
  <1>5. Opening(DOMAIN day)
    BY <1>3 DEF Least, Opening, ValidGrid
  <1>6. ASSUME NEW t \in Moments PROVE LevelAt(day, t) \in Levels
    <2>1. t \in Nat
      BY EndIsLater DEF Moments
    <2>2. PICK m : m = Max(Upto(DOMAIN day, t))
      OBVIOUS
    <2>3. Greatest(Upto(DOMAIN day, t), m)
      BY <2>1, <2>2, <1>5, LastFacts
    <2>4. m \in DOMAIN day
      BY <2>3 DEF Greatest, Upto
    <2>5. LevelAt(day, t) = day[m]
      BY <2>2, LevelAtUpto
    <2> QED BY <2>4, <2>5 DEF ValidGrid
  <1>7. Cardinality(Starts(Shown(day))) <= MaxTransitions
    <2>1. Starts(Shown(day)) \subseteq DOMAIN day \ {DayEnd}
      <3>1. Starts(Shown(day)) = Changes(day) \cap Moments
        BY <1>5, ChangesShown
      <3> QED BY <3>1, EndIsLater DEF Changes, Moments
    <2>2. /\ IsFiniteSet(DOMAIN day \ {DayEnd})
          /\ Cardinality(DOMAIN day \ {DayEnd}) = Cardinality(DOMAIN day) - 1
      BY <1>1, <1>4, FS_RemoveElement DEF Greatest
    <2>3. Cardinality(Starts(Shown(day))) <= Cardinality(DOMAIN day \ {DayEnd})
      BY <2>1, <2>2, FS_Subset
    <2> QED BY <2>2, <2>3 DEF ValidGrid, ValidDay, MaxTransitions
  <1>8. Transitions(day) = Canon(Shown(day))
    BY <1>4, <1>5, TransitionsShown
  <1> QED BY <1>6, <1>7, <1>8 DEF Shown

\* The changes of a schedule are transitions set_transitions accepts.
LEMMA CanonAsked ==
  ASSUME NEW level
  PROVE  Asked(Canon(level))
  <1>1. Starts(level) \in SUBSET (0 .. DayEnd - 1) /\ DayEnd - 1 \in Int
    BY EndIsLater DEF Starts, Moments
  <1>2. IsFiniteSet(Starts(level))
    BY <1>1, BoundedFinite
  <1>3. Starts(level) \in SUBSET Int
    BY <1>1
  <1> QED BY <1>2, <1>3 DEF Asked, Canon

\* What set_transitions accepts: levels from midnight on that change within the
\* day, and not too often.
LEMMA OpeningAcceptable ==
  ASSUME NEW day, Asked(day), Opening(DOMAIN day), Changes(day) \subseteq Moments,
         \A t \in DOMAIN day : day[t] \in Levels,
         Cardinality(DOMAIN day) <= MaxTransitions
  PROVE  Acceptable(day)
  <1>1. DOMAIN Packed(day) = Changes(day)
    BY DEF Packed, Restrict, Changes
  <1>2. Min(DOMAIN day) = 0
    <2>1. DOMAIN day \in SUBSET Int /\ Least(DOMAIN day, 0)
      BY DEF Least, Opening
    <2> QED BY <2>1, MinIs
  <1>3. Least(Changes(day), 0)
    BY <1>2 DEF Changes, Least, Opening
  <1>4. Changes(day) \in SUBSET Int /\ IsFiniteSet(Changes(day)) /\ Changes(day) # {}
    <2>1. IsFiniteSet(Changes(day))
      BY FS_Subset DEF Asked, Changes
    <2> QED BY <2>1, <1>3, EndIsLater DEF Least, Moments
  <1>5. Min(Changes(day)) = 0
    BY <1>3, <1>4, MinIs
  <1>6. Max(Changes(day)) < DayEnd
    <2>1. Greatest(Changes(day), Max(Changes(day)))
      BY <1>4, MaxFacts
    <2>2. Max(Changes(day)) \in Moments
      BY <2>1 DEF Greatest
    <2> QED BY <2>2, EndIsLater DEF Moments
  <1>7. DOMAIN day # {}
    BY DEF Opening
  <1> QED BY <1>1, <1>5, <1>6, <1>7 DEF Acceptable

\* Transitions within the day are accepted if midnight is one of them.
LEMMA InsideAcceptable ==
  ASSUME NEW day, DOMAIN day \subseteq Moments, 0 \in DOMAIN day,
         \A t \in DOMAIN day : day[t] \in Levels,
         Cardinality(DOMAIN day) <= MaxTransitions
  PROVE  Asked(day) /\ Acceptable(day)
  <1>1. DOMAIN day \in SUBSET (0 .. DayEnd - 1) /\ DayEnd - 1 \in Int
    BY EndIsLater DEF Moments
  <1>2. IsFiniteSet(DOMAIN day)
    BY <1>1, BoundedFinite
  <1>3. Asked(day)
    BY <1>1, <1>2 DEF Asked
  <1>4. Opening(DOMAIN day)
    BY <1>1 DEF Opening
  <1>5. Changes(day) \subseteq Moments
    BY DEF Changes
  <1> QED BY <1>3, <1>4, <1>5, OpeningAcceptable

LEMMA CanonAcceptable ==
  ASSUME NEW level \in [Moments -> Levels], Cardinality(Starts(level)) <= MaxTransitions
  PROVE  Acceptable(Canon(level))
  <1> DEFINE day == Canon(level)
  <1>1. DOMAIN day = Starts(level) /\ Starts(level) \subseteq Moments
    BY DEF Canon, Starts
  <1>2. 0 \in DOMAIN day
    BY <1>1, EndIsLater DEF Starts
  <1>3. \A t \in DOMAIN day : day[t] \in Levels
    BY <1>1 DEF Canon
  <1> HIDE DEF day
  <1>4. Acceptable(day)
    BY <1>1, <1>2, <1>3, InsideAcceptable
  <1> QED BY <1>4 DEF day

\* The transition at an index: one with as many before it.
LEMMA IndexExists ==
  ASSUME NEW S \in SUBSET Int, IsFiniteSet(S), NEW index \in 0 .. Cardinality(S) - 1
  PROVE  \E t \in S : Cardinality({u \in S : u < t}) = index
  <1> DEFINE Below(t) == {u \in S : u < t}
             Bad == {k \in 0 .. Cardinality(S) - 1 :
                        ~ \E t \in S : Cardinality(Below(t)) = k}
  <1>1. Cardinality(S) \in Nat
    BY FS_CardinalityType
  <1> SUFFICES ASSUME Bad # {} PROVE FALSE
    OBVIOUS
  <1>2. PICK k \in Bad : \A j \in Bad : k <= j
    <2>1. Bad \in SUBSET (0 .. Cardinality(S) - 1) /\ Cardinality(S) - 1 \in Int
      BY <1>1
    <2>2. IsFiniteSet(Bad)
      BY <2>1, BoundedFinite
    <2>3. Bad \in SUBSET Int
      BY <2>1
    <2> HIDE DEF Bad
    <2> QED BY <2>2, <2>3, Extremes DEF Least
  <1>3. /\ k \in Nat /\ k < Cardinality(S)
        /\ ~ \E t \in S : Cardinality(Below(t)) = k
    <2>1. k \in 0 .. Cardinality(S) - 1 /\ ~ \E t \in S : Cardinality(Below(t)) = k
      OBVIOUS
    <2>2. k \in Nat /\ k < Cardinality(S)
      BY <2>1, <1>1
    <2> QED BY <2>1, <2>2
  <1>4. CASE k = 0
    <2>1. S # {}
      BY <1>3, <1>4, FS_EmptySet
    <2>2. PICK t : Least(S, t)
      BY <2>1, Extremes
    <2>3. t \in S /\ Below(t) = {}
      <3>1. t \in S /\ \A u \in S : t <= u
        BY <2>2 DEF Least
      <3>2. ASSUME NEW u \in S, u < t PROVE FALSE
        BY <3>1, <3>2
      <3> QED BY <3>1, <3>2
    <2>4. Cardinality(Below(t)) = 0
      BY <2>3, FS_EmptySet
    <2> QED BY <2>3, <2>4, <1>3, <1>4
  <1>5. CASE k # 0
    <2>1. k - 1 \in 0 .. Cardinality(S) - 1 /\ ~(k <= k - 1)
      BY <1>1, <1>3, <1>5
    <2>2. PICK t \in S : Cardinality(Below(t)) = k - 1
      BY <2>1, <1>2
    <2> DEFINE above == {u \in S : u > t}
    <2>3. IsFiniteSet(Below(t)) /\ t \notin Below(t)
      BY FS_Subset
    <2>4. Cardinality(Below(t) \cup {t}) = k
      <3>1. Cardinality(Below(t) \cup {t}) = Cardinality(Below(t)) + 1
        BY <2>3, FS_AddElement
      <3> QED BY <3>1, <2>2, <1>3
    <2>5. above # {}
      <3> SUFFICES ASSUME above = {} PROVE FALSE
        OBVIOUS
      <3>1. ASSUME NEW u \in S PROVE u \in Below(t) \cup {t}
        BY <2>2
      <3>2. S = Below(t) \cup {t}
        BY <3>1, <2>2
      <3>3. Cardinality(S) = k
        BY <3>2, <2>4
      <3> QED BY <3>3, <1>1, <1>3
    <2>6. IsFiniteSet(above) /\ above \in SUBSET Int
      BY FS_Subset
    <2>7. PICK n : Least(above, n)
      BY <2>5, <2>6, Extremes
    <2>8. n \in S /\ Below(n) = Below(t) \cup {t}
      <3>1. n \in S /\ n > t
        BY <2>7 DEF Least
      <3>2. ASSUME NEW u \in S, u > t PROVE n <= u
        BY <2>7, <3>2 DEF Least
      <3>3. ASSUME NEW u \in Below(n) PROVE u \in Below(t) \cup {t}
        BY <3>1, <3>2
      <3>4. ASSUME NEW u \in Below(t) \cup {t} PROVE u \in Below(n)
        BY <3>1
      <3> QED BY <3>1, <3>3, <3>4
    <2> QED BY <2>4, <2>8, <1>3
  <1> QED BY <1>4, <1>5

LEMMA AtFacts ==
  ASSUME NEW day, Asked(day), NEW index, HasIndex(day, index)
  PROVE  /\ At(day, index) \in DOMAIN day
         /\ Cardinality({u \in DOMAIN day : u < At(day, index)}) = index
  <1>1. \E t \in DOMAIN day : Cardinality({u \in DOMAIN day : u < t}) = index
    BY IndexExists DEF Asked, HasIndex
  <1> QED BY <1>1 DEF At

\* Only the first has index 0.
LEMMA AtLater ==
  ASSUME NEW day, Asked(day), Opening(DOMAIN day),
         NEW index, HasIndex(day, index), index # 0
  PROVE  At(day, index) # 0
  <1> SUFFICES ASSUME At(day, index) = 0 PROVE FALSE
    OBVIOUS
  <1>1. Cardinality({u \in DOMAIN day : u < 0}) = index
    BY AtFacts
  <1>2. {u \in DOMAIN day : u < 0} = {}
    BY DEF Opening
  <1> QED BY <1>1, <1>2, FS_EmptySet

\* The days and lists an edit starts from are ones it can look at.
LEMMA NoEdgesAsked ==
  Transitions(NoEdges) = NoEdges /\ DOMAIN NoEdges = {} /\ Asked(NoEdges)
  <1>1. DOMAIN NoEdges = {}
    BY DEF NoEdges
  <1>2. Transitions(NoEdges) = NoEdges
    BY <1>1 DEF Transitions
  <1> QED BY <1>1, <1>2, FS_EmptySet DEF Asked

LEMMA AsDayAsked ==
  ASSUME NEW list \in GivenLists
  PROVE  Asked(AsDay(list))
  <1>1. list \in Seq(Edge)
    BY GivenAssumption
  <1>2. Len(list) \in Nat /\ DOMAIN list = 1 .. Len(list)
    BY <1>1
  <1>3. ASSUME NEW i \in 1 .. Len(list) PROVE list[i].time \in Int
    <2>1. list[i] \in Edge
      BY <1>1
    <2> QED BY <2>1 DEF Edge
  <1> DEFINE times == {list[i].time : i \in DOMAIN list}
             time == [i \in 1 .. Len(list) |-> list[i].time]
  <1>4. times \in SUBSET Int
    BY <1>2, <1>3
  <1>5. time \in Surjection(1 .. Len(list), times)
    BY <1>2 DEF Surjection
  <1>6. IsFiniteSet(1 .. Len(list))
    BY <1>2, FS_Interval
  <1>7. IsFiniteSet(times)
    <2> HIDE DEF times, time
    <2> QED BY <1>5, <1>6, FS_Surjection
  <1>8. DOMAIN AsDay(list) = times
    BY DEF AsDay
  <1> QED BY <1>4, <1>7, <1>8 DEF Asked

LEMMA WithAsked ==
  ASSUME NEW day, Asked(day), NEW m \in Int, NEW l
  PROVE  Asked(With(day, m, l))
  <1>1. DOMAIN With(day, m, l) = DOMAIN day \cup {m}
    BY WithFacts
  <1>2. IsFiniteSet(DOMAIN day \cup {m})
    BY FS_AddElement DEF Asked
  <1> QED BY <1>1, <1>2 DEF Asked

LEMMA WithoutAsked ==
  ASSUME NEW day, Asked(day), NEW m
  PROVE  Asked(Without(day, m))
  <1>1. DOMAIN Without(day, m) = DOMAIN day \ {m}
    BY WithoutFacts
  <1>2. IsFiniteSet(DOMAIN day \ {m})
    BY FS_RemoveElement DEF Asked
  <1> QED BY <1>1, <1>2 DEF Asked

-----------------------------------------------------------------------------
(***************************************************************************)
(* The invariant                                                           *)
(***************************************************************************)
\* A day not set yet or one the controller takes, and no edit out of room.
Kept ==
    /\ edges = NoEdges \/ ValidGrid(edges)
    /\ call \in Calls \cup {NoCall}
    /\ outcome \in {"none", "edited", "refused"}

LEMMA KeptAsked ==
  ASSUME Kept
  PROVE  Asked(Transitions(edges))
  <1>1. CASE edges = NoEdges
    BY <1>1, NoEdgesAsked
  <1>2. CASE ValidGrid(edges)
    BY <1>2, ValidFacts, CanonAsked
  <1> QED BY <1>1, <1>2 DEF Kept

\* What comes of set_transitions: the grid of what was asked for, or nothing.
Makes(day) ==
    \/ Acceptable(day) /\ edges' = Grid(day) /\ outcome' = "edited"
    \/ ~Acceptable(day) /\ Refuse

LEMMA SetMakes ==
  ASSUME NEW day, Asked(day), SetTransitions(day)
  PROVE  Makes(day)
  <1>1. CASE Acceptable(day)
    <2>1. ~OutOfRoom(Packed(day))
      BY <1>1, GridFacts
    <2> QED BY <1>1, <2>1 DEF SetTransitions, Makes
  <1>2. CASE ~Acceptable(day)
    BY <1>2 DEF SetTransitions, Makes
  <1> QED BY <1>1, <1>2

LEMMA MakesKeeps ==
  ASSUME Kept, NEW day, Asked(day), Makes(day), call' \in Calls \cup {NoCall}
  PROVE  Kept'
  <1>1. CASE Acceptable(day) /\ edges' = Grid(day) /\ outcome' = "edited"
    <2>1. ValidGrid(Grid(day))
      BY <1>1, GridFacts
    <2> QED BY <1>1, <2>1 DEF Kept, Calls, NoCall
  <1>2. CASE Refuse
    BY <1>2 DEF Kept, Refuse, Calls, NoCall
  <1> QED BY <1>1, <1>2 DEF Makes

LEMMA RefuseKeeps ==
  ASSUME Kept, Refuse, call' \in Calls \cup {NoCall}
  PROVE  Kept'
  BY DEF Kept, Refuse, Calls, NoCall

LEMMA CalledTyped ==
  ASSUME NEW edit, Called(edit)
  PROVE  call' \in Calls \cup {NoCall}
  BY DEF Called

LEMMA KeptInit == Init => Kept
  <1> SUFFICES ASSUME Init PROVE Kept
    OBVIOUS
  <1>1. CASE edges = NoEdges
    BY <1>1 DEF Init, Kept
  <1>2. CASE edges # NoEdges
    <2>1. PICK times \in kSubset(EdgeCount, 0 .. DayEnd) : edges \in [times -> Levels]
      BY <1>2 DEF Init
    <2>2. ValidDay(edges)
      BY <1>2 DEF Init
    <2>3. times \in SUBSET (0 .. DayEnd) /\ DOMAIN edges = times
      BY <2>1 DEF kSubset
    <2> QED BY <2>1, <2>2, <2>3 DEF Init, Kept, ValidGrid
  <1> QED BY <1>1, <1>2

LEMMA KeptNext == Kept /\ [Next]_vars => Kept'
  <1> SUFFICES ASSUME Kept, [Next]_vars PROVE Kept'
    OBVIOUS
  <1> DEFINE transitions == Transitions(edges)
  <1>1. Asked(transitions)
    BY KeptAsked
  <1>2. ASSUME NEW list \in GivenLists, Replace(list) PROVE Kept'
    <2>0. call' \in Calls \cup {NoCall}
      BY <1>2, CalledTyped DEF Replace
    <2>1. CASE SetTransitions(AsDay(list))
      BY <2>0, <2>1, AsDayAsked, SetMakes, MakesKeeps
    <2>2. CASE Refuse
      BY <2>0, <2>2, RefuseKeeps
    <2> QED BY <1>2, <2>1, <2>2 DEF Replace
  <1>3. ASSUME NEW time \in GivenTimes, NEW level \in GivenLevels, Add(time, level)
        PROVE  Kept'
    <2>0. call' \in Calls \cup {NoCall}
      BY <1>3, CalledTyped DEF Add
    <2> DEFINE day == With(transitions, time, WholePart[level])
    <2>1. CASE SetTransitions(day)
      <3>1. time \in Int
        BY GivenAssumption
      <3>2. Asked(day)
        BY <1>1, <3>1, WithAsked
      <3> QED BY <2>0, <2>1, <3>2, SetMakes, MakesKeeps
    <2>2. CASE Refuse
      BY <2>0, <2>2, RefuseKeeps
    <2> QED BY <1>3, <2>1, <2>2 DEF Add
  <1>4. ASSUME NEW index \in GivenIndices, Remove(index) PROVE Kept'
    <2>0. call' \in Calls \cup {NoCall}
      BY <1>4, CalledTyped DEF Remove
    <2> DEFINE day == Without(transitions, At(transitions, index))
    <2>1. CASE SetTransitions(day)
      <3>1. Asked(day)
        BY <1>1, WithoutAsked
      <3> QED BY <2>0, <2>1, <3>1, SetMakes, MakesKeeps
    <2>2. CASE Refuse
      BY <2>0, <2>2, RefuseKeeps
    <2> QED BY <1>4, <2>1, <2>2 DEF Remove
  <1>5. ASSUME NEW index \in GivenIndices, NEW time \in GivenTimes, Move(index, time)
        PROVE  Kept'
    <2>0. call' \in Calls \cup {NoCall}
      BY <1>5, CalledTyped DEF Move
    <2> DEFINE t == At(transitions, index)
               day == With(Without(transitions, t), time, transitions[t])
    <2>1. CASE SetTransitions(day)
      <3>1. time \in Int
        BY GivenAssumption
      <3>2. Asked(Without(transitions, t))
        BY <1>1, WithoutAsked
      <3>3. Asked(day)
        BY <3>1, <3>2, WithAsked
      <3> QED BY <2>0, <2>1, <3>3, SetMakes, MakesKeeps
    <2>2. CASE Refuse
      BY <2>0, <2>2, RefuseKeeps
    <2> QED BY <1>5, <2>1, <2>2 DEF Move
  <1>6. ASSUME NEW index \in GivenIndices, NEW level \in GivenLevels, SetLevel(index, level)
        PROVE  Kept'
    <2>0. call' \in Calls \cup {NoCall}
      BY <1>6, CalledTyped DEF SetLevel
    <2> DEFINE day == With(transitions, At(transitions, index), level)
    <2>1. CASE HasIndex(transitions, index) /\ SetTransitions(day)
      <3>1. At(transitions, index) \in Int
        BY <1>1, <2>1, AtFacts DEF Asked
      <3>2. Asked(day)
        BY <1>1, <3>1, WithAsked
      <3> QED BY <2>0, <2>1, <3>2, SetMakes, MakesKeeps
    <2>2. CASE Refuse
      BY <2>0, <2>2, RefuseKeeps
    <2> QED BY <1>6, <2>1, <2>2 DEF SetLevel
  <1>7. CASE UNCHANGED vars
    BY <1>7 DEF vars, Kept, Calls, NoCall
  <1>8. ASSUME NEW edit \in Calls, Call(edit) PROVE Kept'
    BY <1>8 DEF Call, Kept, Calls, NoCall
  <1> QED BY <1>8, <1>2, <1>3, <1>4, <1>5, <1>6, <1>7 DEF Next

LEMMA AlwaysKept == Spec => []Kept
  BY KeptInit, KeptNext, PTL DEF Spec

\* A day is always a set of times within the day, each with a level
\* (CalendarDay.edges, calendar.py:87).
THEOREM TypeCorrect == Spec => []TypeOK
  <1>1. Kept => TypeOK
    <2> SUFFICES ASSUME Kept PROVE TypeOK
      OBVIOUS
    <2>1. CASE edges = NoEdges
      <3>1. edges \in [{} -> Levels] /\ {} \in SUBSET (0 .. DayEnd)
        BY <2>1 DEF NoEdges
      <3> QED BY <3>1 DEF Kept, TypeOK
    <2>2. CASE ValidGrid(edges)
      BY <2>2 DEF ValidGrid, Kept, TypeOK
    <2> QED BY <2>1, <2>2 DEF Kept
  <1> QED BY <1>1, AlwaysKept, PTL

\* However a day is edited, validate accepts it (calendar.py:369-382).
THEOREM EditedDaysAreValid == Spec => []EditedDayIsValid
  <1>1. Kept => EditedDayIsValid
    BY DEF Kept, EditedDayIsValid, ValidGrid
  <1> QED BY <1>1, AlwaysKept, PTL

\* The error for want of room to park an edge cannot be raised
\* (calendar.py:151-152): EdgeCount - 1 edges are fewer than the moments of a day.
THEOREM RoomForEverySpareEdge == Spec => []NeverOutOfRoom
  <1>1. Kept => NeverOutOfRoom
    BY DEF Kept, NeverOutOfRoom
  <1> QED BY <1>1, AlwaysKept, PTL

\* set_transitions undoes what the property transitions did: spare edges drop
\* out, and those parked in their place are in the same stretches.
THEOREM ReadingIsUndone == Spec => []RoundTrips
  <1>1. Kept => RoundTrips
    <2> SUFFICES ASSUME Kept, edges # NoEdges
                 PROVE  Transitions(Grid(Transitions(edges))) = Transitions(edges)
      BY DEF RoundTrips
    <2> DEFINE level == Shown(edges)
               day == Transitions(edges)
    <2>1. /\ day = Canon(level) /\ level \in [Moments -> Levels]
          /\ Cardinality(Starts(level)) <= MaxTransitions
      BY ValidFacts DEF Kept
    <2> HIDE DEF level, day
    <2>2. Asked(day) /\ Acceptable(day)
      BY <2>1, CanonAsked, CanonAcceptable
    <2>3. ValidGrid(Grid(day)) /\ Shown(Grid(day)) = Shown(day)
      BY <2>2, GridFacts
    <2>4. Shown(day) = level
      BY <2>1, CanonShown
    <2>5. Transitions(Grid(day)) = Canon(Shown(Grid(day)))
      BY <2>3, ValidFacts
    <2>6. Transitions(Grid(day)) = day
      BY <2>1, <2>3, <2>4, <2>5
    <2> QED BY <2>6 DEF day
  <1> QED BY <1>1, AlwaysKept, PTL

-----------------------------------------------------------------------------
(***************************************************************************)
(* The schedule that is asked for                                          *)
(***************************************************************************)
Covered(level, moments, l) ==
    [t \in Moments |-> IF t \in moments THEN l ELSE level[t]]

\* The stretch from a moment to the next change.
StretchOf(level, t) == t .. Following(Canon(level), t) - 1

LEMMA CanonFacts ==
  ASSUME NEW level \in [Moments -> Levels]
  PROVE  /\ DOMAIN Canon(level) = Starts(level)
         /\ DOMAIN Canon(level) \in SUBSET Moments
         /\ Opening(DOMAIN Canon(level))
  <1>1. level = [t \in Moments |-> level[t]]
    OBVIOUS
  <1>2. Opening(DOMAIN Canon(level))
    BY <1>1, CanonShown
  <1> QED BY <1>2 DEF Canon, Starts

LEMMA CanonLevel ==
  ASSUME NEW level \in [Moments -> Levels], NEW t \in Moments
  PROVE  LevelAt(Canon(level), t) = level[t]
  <1>1. level = [u \in Moments |-> level[u]]
    OBVIOUS
  <1>2. Shown(Canon(level)) = level
    BY <1>1, CanonShown
  <1> QED BY <1>2 DEF Shown

LEMMA CanonFollowing ==
  ASSUME NEW level \in [Moments -> Levels], NEW t \in Moments
  PROVE  /\ Following(Canon(level), t) \in Nat
         /\ t < Following(Canon(level), t)
         /\ Following(Canon(level), t) <= DayEnd
         /\ \/ Following(Canon(level), t) \in DOMAIN Canon(level)
            \/ Following(Canon(level), t) = DayEnd
  BY CanonFacts, FollowingIs

LEMMA CanonNoneBetween ==
  ASSUME NEW level \in [Moments -> Levels], NEW t \in Moments,
         NEW u \in DOMAIN Canon(level), u > t
  PROVE  Following(Canon(level), t) <= u
  BY CanonFacts, NoneBetween

\* Within a stretch the level is the one it starts on.
LEMMA CanonStretch ==
  ASSUME NEW level \in [Moments -> Levels], NEW t \in Moments,
         NEW x \in StretchOf(level, t)
  PROVE  level[x] = level[t]
  <1> DEFINE day == Canon(level)
             f == Following(day, t)
  <1>1. f \in Nat /\ t < f /\ f <= DayEnd
    BY CanonFollowing
  <1>2. Opening(DOMAIN day)
    BY CanonFacts
  <1>3. t \in Nat /\ x \in Nat /\ t <= x /\ x < f /\ x \in Moments
    BY <1>1, EndIsLater DEF StretchOf, Moments
  <1>4. ASSUME NEW w \in DOMAIN day, w <= x PROVE w <= t
    <2> SUFFICES ASSUME w > t PROVE FALSE
      BY <1>2, <1>3 DEF Opening
    <2>1. f <= w
      BY CanonNoneBetween
    <2> QED BY <2>1, <1>1, <1>2, <1>3, <1>4 DEF Opening
  <1>5. LevelAt(day, x) = level[x] /\ LevelAt(day, t) = level[t]
    BY <1>3, CanonLevel
  <1> HIDE DEF day, f
  <1>6. LevelAt(day, x) = LevelAt(day, t)
    BY <1>2, <1>3, <1>4, LevelOver
  <1> QED BY <1>5, <1>6

\* Another edge, or another level at one there is, covers its stretch.
LEMMA WithShown ==
  ASSUME NEW level \in [Moments -> Levels], NEW t \in Moments, NEW l
  PROVE  Shown(With(Canon(level), t, l)) = Covered(level, StretchOf(level, t), l)
  <1> DEFINE day == Canon(level)
             f == Following(day, t)
  <1>1. f \in Nat /\ t < f /\ f <= DayEnd /\ (f \in DOMAIN day \/ f = DayEnd)
    BY CanonFollowing
  <1>2. Opening(DOMAIN day) /\ t \in Nat
    BY CanonFacts, EndIsLater DEF Moments
  <1>3. StretchOf(level, t) = t .. f - 1
    BY DEF StretchOf
  <1>4. ASSUME NEW u \in DOMAIN day, u > t PROVE f <= u
    BY <1>4, CanonNoneBetween
  <1>5. ASSUME NEW x \in Moments PROVE LevelAt(day, x) = level[x]
    BY CanonLevel
  <1> HIDE DEF day, f
  <1>6. ASSUME NEW x \in Moments
        PROVE  LevelAt(With(day, t, l), x) = IF x \in t .. f - 1 THEN l ELSE level[x]
    <2>1. x \in Nat /\ x < DayEnd
      BY EndIsLater DEF Moments
    <2>2. CASE x < t
      <3>1. LevelAt(With(day, t, l), x) = LevelAt(day, x)
        BY <1>2, <2>1, <2>2, WithBefore
      <3> QED BY <3>1, <1>1, <1>2, <1>5, <2>1, <2>2
    <2>3. CASE t <= x /\ x < f
      <3>1. \A u \in DOMAIN day : u <= x => u <= t
        BY <1>1, <1>2, <1>4, <2>1, <2>3 DEF Opening
      <3>2. LevelAt(With(day, t, l), x) = l
        BY <1>2, <2>1, <2>3, <3>1, WithOver
      <3> QED BY <3>2, <1>1, <1>2, <2>1, <2>3
    <2>4. CASE f <= x
      <3>1. f \in DOMAIN day
        BY <1>1, <2>1, <2>4, EndIsLater
      <3>2. LevelAt(With(day, t, l), x) = LevelAt(day, x)
        BY <1>1, <1>2, <2>1, <2>4, <3>1, WithAfter
      <3> QED BY <3>2, <1>1, <1>2, <1>5, <2>1, <2>4
    <2> QED BY <1>1, <1>2, <2>1, <2>2, <2>3, <2>4
  <1>7. Shown(With(day, t, l)) = Covered(level, t .. f - 1, l)
    BY <1>6 DEF Shown, Covered
  <1> QED BY <1>3, <1>7 DEF day

\* An edge removed gives its stretch to the level before.
LEMMA WithoutLevel ==
  ASSUME NEW level \in [Moments -> Levels], NEW t \in Starts(level), t # 0,
         NEW x \in Moments
  PROVE  LevelAt(Without(Canon(level), t), x) =
            IF x \in StretchOf(level, t) THEN level[t - 1] ELSE level[x]
  <1> DEFINE day == Canon(level)
             f == Following(day, t)
  <1>1. t \in Moments
    BY DEF Starts
  <1>2. f \in Nat /\ t < f /\ f <= DayEnd /\ (f \in DOMAIN day \/ f = DayEnd)
    BY <1>1, CanonFollowing
  <1>3. Opening(DOMAIN day) /\ t \in Nat /\ t - 1 \in Moments
    BY <1>1, CanonFacts, EndIsLater DEF Moments
  <1>4. StretchOf(level, t) = t .. f - 1
    BY DEF StretchOf
  <1>5. ASSUME NEW u \in DOMAIN day, u > t PROVE f <= u
    BY <1>1, <1>5, CanonNoneBetween
  <1>6. LevelAt(day, x) = level[x] /\ LevelAt(day, t - 1) = level[t - 1]
    BY <1>3, CanonLevel
  <1> HIDE DEF day, f
  <1>7. x \in Nat /\ x < DayEnd
    BY EndIsLater DEF Moments
  <1>8. CASE x \in t .. f - 1
    <2>1. t <= x /\ x < f
      BY <1>2, <1>3, <1>7, <1>8
    <2>2. \A u \in DOMAIN day : u <= x => u <= t
      BY <1>2, <1>3, <1>5, <1>7, <2>1 DEF Opening
    <2>3. LevelAt(Without(day, t), x) = LevelAt(day, t - 1)
      BY <1>3, <1>7, <2>1, <2>2, WithoutOver
    <2> QED BY <2>3, <1>4, <1>6, <1>8 DEF day
  <1>9. CASE x \notin t .. f - 1
    <2>1. x < t \/ f <= x
      BY <1>2, <1>3, <1>7, <1>9
    <2>2. x < t \/ \E v \in DOMAIN day : t < v /\ v <= x
      BY <1>2, <1>7, <2>1, EndIsLater
    <2>3. LevelAt(Without(day, t), x) = LevelAt(day, x)
      BY <1>3, <1>7, <2>2, WithoutElsewhere
    <2> QED BY <2>3, <1>4, <1>6, <1>9 DEF day
  <1> QED BY <1>8, <1>9

LEMMA WithoutShown ==
  ASSUME NEW level \in [Moments -> Levels], NEW t \in Starts(level), t # 0
  PROVE  Shown(Without(Canon(level), t)) =
            Covered(level, StretchOf(level, t), level[t - 1])
  <1>1. ASSUME NEW x \in Moments
        PROVE  LevelAt(Without(Canon(level), t), x) =
                  IF x \in StretchOf(level, t) THEN level[t - 1] ELSE level[x]
    BY WithoutLevel
  <1> QED BY <1>1 DEF Shown, Covered

\* move_transition, as a day: the edge taken out and put back elsewhere.
Moved(day, t, u) == With(Without(day, t), u, day[t])

\* An edge that stays between its neighbours: what the level is afterwards.
LEMMA MovedLevel ==
  ASSUME NEW level \in [Moments -> Levels], NEW t \in Starts(level), t # 0,
         NEW u \in Moments,
         \A v \in Starts(level) : v < t => v < u,
         u < Following(Canon(level), t),
         NEW x \in Moments
  PROVE  LevelAt(Moved(Canon(level), t, u), x) =
            IF x < u THEN IF x \in StretchOf(level, t) THEN level[t - 1] ELSE level[x]
            ELSE IF x < Following(Canon(level), t) THEN level[t] ELSE level[x]
  <1> DEFINE day == Canon(level)
             f == Following(day, t)
             rest == Without(day, t)
             l == day[t]
             new == With(rest, u, l)
  <1>1. t \in Moments
    BY DEF Starts
  <1>2. f \in Nat /\ t < f /\ f <= DayEnd /\ (f \in DOMAIN day \/ f = DayEnd)
    BY <1>1, CanonFollowing
  <1>3. Opening(DOMAIN day) /\ DOMAIN day = Starts(level) /\ t \in Nat /\ u \in Nat
    BY <1>1, CanonFacts, EndIsLater DEF Moments
  <1>4. StretchOf(level, t) = t .. f - 1
    BY DEF StretchOf
  <1>5. l = level[t]
    BY DEF Canon
  <1>6. DOMAIN rest = DOMAIN day \ {t}
    BY WithoutFacts
  <1>7. Opening(DOMAIN rest)
    BY <1>3, WithoutOpening
  <1>8. LevelAt(rest, x) = IF x \in StretchOf(level, t) THEN level[t - 1] ELSE level[x]
    BY WithoutLevel
  <1>9. x \in Nat /\ x < DayEnd
    BY EndIsLater DEF Moments
  <1>10. ASSUME NEW v \in DOMAIN rest, v < f PROVE v < u
    <2>1. v \in Starts(level) /\ v # t /\ v \in Nat
      BY <1>3, <1>6 DEF Opening
    <2>2. CASE v < t
      BY <2>1, <2>2
    <2>3. CASE v > t
      <3>1. f <= v
        BY <1>1, <1>3, <2>1, <2>3, CanonNoneBetween
      <3> QED BY <3>1, <1>2, <1>10, <2>1
    <2> QED BY <2>1, <2>2, <2>3, <1>3
  <1>11. u < f
    OBVIOUS
  <1>12. Moved(day, t, u) = new
    BY DEF Moved
  <1> HIDE DEF day, f, rest, l, new
  <1>13. CASE x < u
    <2>1. LevelAt(With(rest, u, l), x) = LevelAt(rest, x)
      BY <1>3, <1>7, <1>9, <1>13, WithBefore
    <2> QED BY <2>1, <1>8, <1>12, <1>13 DEF new, day
  <1>14. CASE u <= x /\ x < f
    <2>1. \A v \in DOMAIN rest : v <= x => v <= u
      BY <1>2, <1>3, <1>7, <1>9, <1>10, <1>14 DEF Opening
    <2>2. LevelAt(With(rest, u, l), x) = l
      BY <1>3, <1>7, <1>9, <1>14, <2>1, WithOver
    <2>3. ~(x < u)
      BY <1>3, <1>9, <1>14
    <2> QED BY <2>2, <2>3, <1>5, <1>12, <1>14 DEF new, day, f
  <1>15. CASE f <= x
    <2>1. f \in DOMAIN rest
      BY <1>2, <1>3, <1>6, <1>9, <1>15, EndIsLater
    <2>2. LevelAt(With(rest, u, l), x) = LevelAt(rest, x)
      BY <1>2, <1>3, <1>7, <1>9, <1>11, <1>15, <2>1, WithAfter
    <2>3. x \notin t .. f - 1
      BY <1>2, <1>3, <1>9, <1>15
    <2>4. ~(x < u) /\ ~(x < f)
      BY <1>2, <1>3, <1>9, <1>11, <1>15
    <2> QED BY <2>2, <2>3, <2>4, <1>4, <1>8, <1>12 DEF new, day, f
  <1> QED BY <1>2, <1>3, <1>9, <1>13, <1>14, <1>15

\* A later start leaves the level before in force up to it, an earlier one brings
\* the level of the edge forward.
LEMMA MovedShown ==
  ASSUME NEW level \in [Moments -> Levels], NEW t \in Starts(level), t # 0,
         NEW u \in Moments,
         \A v \in Starts(level) : v < t => v < u,
         u < Following(Canon(level), t)
  PROVE  Shown(Moved(Canon(level), t, u)) =
            IF u < t THEN Covered(level, u .. t - 1, level[t])
            ELSE Covered(level, t .. u - 1, level[t - 1])
  <1> DEFINE day == Canon(level)
             f == Following(day, t)
             new == Moved(day, t, u)
  <1>1. t \in Moments /\ t \in Nat /\ u \in Nat
    BY EndIsLater DEF Starts, Moments
  <1>2. f \in Nat /\ t < f /\ f <= DayEnd
    BY <1>1, CanonFollowing
  <1>3. StretchOf(level, t) = t .. f - 1
    BY DEF StretchOf
  <1>4. ASSUME NEW x \in Moments
        PROVE  LevelAt(new, x) =
                  IF x < u THEN IF x \in t .. f - 1 THEN level[t - 1] ELSE level[x]
                  ELSE IF x < f THEN level[t] ELSE level[x]
    BY <1>3, MovedLevel
  <1>5. ASSUME NEW x \in t .. f - 1 PROVE level[x] = level[t]
    BY <1>1, <1>3, CanonStretch
  <1>6. u < f
    OBVIOUS
  <1> HIDE DEF day, f, new
  <1>7. ASSUME NEW x \in Moments, u < t
        PROVE  LevelAt(new, x) = IF x \in u .. t - 1 THEN level[t] ELSE level[x]
    <2>1. x \in Nat
      BY EndIsLater DEF Moments
    <2>2. CASE x < u
      BY <2>1, <2>2, <1>1, <1>2, <1>4, <1>7
    <2>3. CASE u <= x /\ x < t
      BY <2>1, <2>3, <1>1, <1>2, <1>4, <1>7
    <2>4. CASE t <= x /\ x < f
      <3>1. level[x] = level[t]
        BY <2>1, <2>4, <1>1, <1>2, <1>5
      <3> QED BY <2>1, <2>4, <3>1, <1>1, <1>2, <1>4, <1>7
    <2>5. CASE f <= x
      BY <2>1, <2>5, <1>1, <1>2, <1>4, <1>7
    <2> QED BY <2>1, <2>2, <2>3, <2>4, <2>5, <1>1, <1>2
  <1>8. ASSUME NEW x \in Moments, ~(u < t)
        PROVE  LevelAt(new, x) = IF x \in t .. u - 1 THEN level[t - 1] ELSE level[x]
    <2>1. x \in Nat
      BY EndIsLater DEF Moments
    <2>2. CASE x < t
      BY <2>1, <2>2, <1>1, <1>2, <1>4, <1>8
    <2>3. CASE t <= x /\ x < u
      BY <2>1, <2>3, <1>1, <1>2, <1>4, <1>6, <1>8
    <2>4. CASE u <= x /\ x < f
      <3>1. level[x] = level[t]
        BY <2>1, <2>4, <1>1, <1>2, <1>5, <1>8
      <3> QED BY <2>1, <2>4, <3>1, <1>1, <1>2, <1>4, <1>8
    <2>5. CASE f <= x
      BY <2>1, <2>5, <1>1, <1>2, <1>4, <1>6, <1>8
    <2> QED BY <2>1, <2>2, <2>3, <2>4, <2>5, <1>1, <1>2
  <1>9. CASE u < t
    <2>1. Shown(new) = Covered(level, u .. t - 1, level[t])
      BY <1>7, <1>9 DEF Shown, Covered
    <2> QED BY <2>1, <1>9 DEF new, day
  <1>10. CASE ~(u < t)
    <2>1. Shown(new) = Covered(level, t .. u - 1, level[t - 1])
      BY <1>8, <1>10 DEF Shown, Covered
    <2> QED BY <2>1, <1>10 DEF new, day
  <1> QED BY <1>9, <1>10

-----------------------------------------------------------------------------
(***************************************************************************)
(* The day implements the schedule                                         *)
(***************************************************************************)
\* What the day shows of itself to DaySchedule.
Level == IF edges = NoEdges THEN NoEdges ELSE Shown(edges)

LEMMA ScheduleSet ==
  ASSUME NEW level
  PROVE  Schedule!Set(level) = Starts(level)
  BY DEF Schedule!Set, Schedule!Moments, Starts, Moments

\* DaySchedule counts and takes the least in the same way.
LEMMA ScheduleCount ==
  ASSUME NEW S
  PROVE  Schedule!Cardinality(S) = Cardinality(S)
  BY DEF Schedule!Cardinality, Cardinality

LEMMA ScheduleMin ==
  ASSUME NEW S
  PROVE  Schedule!Min(S) = Min(S)
  BY DEF Schedule!Min, Min

LEMMA ScheduleStretch ==
  ASSUME NEW t
  PROVE  Schedule!Stretch(t) = StretchOf(Level, t)
  <1>1. DOMAIN Canon(Level) = Starts(Level)
    BY DEF Canon
  <1>2. Schedule!Stretch(t) = t .. Min({u \in Schedule!Set(Level) \cup {DayEnd} : u > t}) - 1
    BY ScheduleMin DEF Schedule!Stretch, Level, Shown, Moments
  <1>3. Schedule!Set(Level) = Starts(Level)
    BY ScheduleSet
  <1> QED BY <1>1, <1>2, <1>3 DEF StretchOf, Following

LEMMA ScheduleOver ==
  ASSUME NEW moments, NEW l, Level' = Covered(Level, moments, l), outcome' = "edited"
  PROVE  Schedule!Over(moments, l)
  BY DEF Schedule!Over, Schedule!Moments, Level, Shown, Covered, Moments

\* A call that is refused leaves the schedule as it was.
LEMMA ScheduleRefuse ==
  ASSUME Refuse
  PROVE  Schedule!Refuse
  BY DEF Schedule!Refuse, Refuse, Level, Shown

LEMMA ScheduleCalled ==
  ASSUME NEW edit, Called(edit)
  PROVE  Schedule!Called(edit)
  BY DEF Schedule!Called, Called

LEMMA ValidIsSet ==
  ASSUME NEW day, ValidGrid(day)
  PROVE  day # NoEdges
  <1> SUFFICES ASSUME day = NoEdges PROVE FALSE
    OBVIOUS
  <1>1. DOMAIN day = {}
    BY DEF NoEdges
  <1>2. Cardinality(DOMAIN day) = 0
    BY <1>1, FS_EmptySet
  <1> QED BY <1>2, GridAssumption DEF ValidGrid, ValidDay

\* A day that is edited shows the schedule asked for.
LEMMA MadeLevel ==
  ASSUME NEW day, Asked(day), Acceptable(day), edges' = Grid(day)
  PROVE  /\ Level' = Shown(day)
         /\ Shown(day) \in [Moments -> Levels]
         /\ Cardinality(Starts(Shown(day))) <= MaxTransitions
  <1>1. ValidGrid(Grid(day)) /\ Shown(Grid(day)) = Shown(day)
    BY GridFacts
  <1>2. Grid(day) # NoEdges
    BY <1>1, ValidIsSet
  <1>3. Level' = Shown(Grid(day))
    BY <1>2 DEF Level, Shown
  <1>4. /\ Shown(Grid(day)) \in [Moments -> Levels]
        /\ Cardinality(Starts(Shown(Grid(day)))) <= MaxTransitions
    BY <1>1, ValidFacts
  <1> QED BY <1>1, <1>3, <1>4

\* The day an edit starts from: the transitions are the changes of its schedule.
LEMMA StartLevel ==
  ASSUME Kept, edges # NoEdges
  PROVE  /\ Level = Shown(edges)
         /\ Transitions(edges) = Canon(Level)
         /\ Level \in [Moments -> Levels]
  BY ValidFacts DEF Level, Kept
LEMMA ScheduleUnset ==
  ASSUME Kept
  PROVE  Level # Schedule!Unset <=> edges # NoEdges
  <1>1. CASE edges = NoEdges
    BY <1>1 DEF Level, Schedule!Unset, NoEdges
  <1>2. CASE edges # NoEdges
    <2>1. 0 \in DOMAIN Level
      BY <1>2, StartLevel, EndIsLater
    <2>2. DOMAIN Schedule!Unset = {}
      BY DEF Schedule!Unset
    <2> QED BY <1>2, <2>1, <2>2
  <1> QED BY <1>1, <1>2

\* A day without edges has no transitions.
LEMMA NoIndex ==
  ASSUME NEW index, HasIndex(Transitions(edges), index)
  PROVE  edges # NoEdges
  <1> SUFFICES ASSUME edges = NoEdges PROVE FALSE
    OBVIOUS
  <1>1. Cardinality(DOMAIN Transitions(edges)) = 0
    BY NoEdgesAsked, FS_EmptySet
  <1> QED BY <1>1 DEF HasIndex

\* An index names the same change of the day and of its schedule.
LEMMA ScheduleIndex ==
  ASSUME Kept, NEW index
  PROVE  /\ Schedule!HasIndex(index) <=> HasIndex(Transitions(edges), index)
         /\ Schedule!At(index) = At(Canon(Level), index)
  <1>1. DOMAIN Canon(Level) = Starts(Level) /\ Schedule!Set(Level) = Starts(Level)
    BY ScheduleSet DEF Canon
  <1>2. Schedule!HasIndex(index) <=>
            /\ edges # NoEdges
            /\ index \in 0 .. Cardinality(Starts(Level)) - 1
    <2>1. Schedule!HasIndex(index) <=>
            /\ Level # Schedule!Unset
            /\ index \in 0 .. Schedule!Cardinality(Schedule!Set(Level)) - 1
      BY DEF Schedule!HasIndex, Level, Shown, Moments
    <2> QED BY <2>1, <1>1, ScheduleUnset, ScheduleCount
  <1>3. HasIndex(Transitions(edges), index) <=>
            /\ edges # NoEdges
            /\ index \in 0 .. Cardinality(Starts(Level)) - 1
    <2>1. HasIndex(Transitions(edges), index) => edges # NoEdges
      BY NoIndex
    <2>2. ASSUME edges # NoEdges PROVE DOMAIN Transitions(edges) = Starts(Level)
      BY <2>2, <1>1, StartLevel
    <2> QED BY <2>1, <2>2 DEF HasIndex
  <1>4. Schedule!At(index) = At(Canon(Level), index)
    <2>1. Schedule!At(index) =
            CHOOSE t \in Schedule!Set(Level) :
                Schedule!Cardinality({u \in Schedule!Set(Level) : u < t}) = index
      BY DEF Schedule!At, Level, Shown, Moments
    <2>2. Schedule!At(index) =
            CHOOSE t \in Starts(Level) :
                Schedule!Cardinality({u \in Starts(Level) : u < t}) = index
      BY <2>1, <1>1
    <2>3. Schedule!At(index) =
            CHOOSE t \in Starts(Level) : Cardinality({u \in Starts(Level) : u < t}) = index
      BY <2>2 DEF Schedule!Cardinality, Cardinality
    <2> QED BY <2>3, <1>1 DEF At
  <1> QED BY <1>2, <1>3, <1>4

\* The transitions of a day that has some, and how many they are.
LEMMA StartTransitions ==
  ASSUME Kept, edges # NoEdges
  PROVE  /\ Level \in [Moments -> Levels]
         /\ Transitions(edges) = Canon(Level)
         /\ DOMAIN Transitions(edges) = Starts(Level)
         /\ Starts(Level) \subseteq Moments
         /\ 0 \in Starts(Level)
         /\ IsFiniteSet(Starts(Level))
         /\ Cardinality(Starts(Level)) \in Nat
         /\ Cardinality(Starts(Level)) <= MaxTransitions
         /\ \A t \in Starts(Level) : Transitions(edges)[t] \in Levels
  <1>1. /\ Level = Shown(edges) /\ Transitions(edges) = Canon(Level)
        /\ Level \in [Moments -> Levels]
    BY StartLevel
  <1>2. Cardinality(Starts(Level)) <= MaxTransitions
    BY <1>1, ValidFacts DEF Kept
  <1>3. DOMAIN Canon(Level) = Starts(Level)
    BY DEF Canon
  <1>4. IsFiniteSet(Starts(Level))
    BY <1>3, CanonAsked DEF Asked
  <1>5. Cardinality(Starts(Level)) \in Nat
    BY <1>4, FS_CardinalityType
  <1>6. Starts(Level) \subseteq Moments /\ 0 \in Starts(Level)
    BY EndIsLater DEF Starts
  <1>7. \A t \in Starts(Level) : Canon(Level)[t] \in Levels
    BY <1>1, <1>6 DEF Canon
  <1> QED BY <1>1, <1>2, <1>3, <1>4, <1>5, <1>6, <1>7
LEMMA MayAddIs ==
  ASSUME Kept, NEW time, NEW l
  PROVE  Schedule!MayAdd(time, l) <=>
            /\ edges # NoEdges
            /\ time \in Moments \ Starts(Level)
            /\ Cardinality(Starts(Level)) < MaxTransitions
            /\ WholePart[l] \in Levels
  <1>1. Schedule!MayAdd(time, l) <=>
            /\ Level # Schedule!Unset
            /\ time \in Moments \ Schedule!Set(Level)
            /\ Schedule!Cardinality(Schedule!Set(Level)) < MaxTransitions
            /\ WholePart[l] \in Levels
    BY DEF Schedule!MayAdd, Schedule!Moments, Level, Shown, Moments
  <1> QED BY <1>1, ScheduleSet, ScheduleUnset, ScheduleCount

LEMMA AddMaps ==
  ASSUME Kept, NEW time \in GivenTimes, NEW l \in GivenLevels, Add(time, l)
  PROVE  Schedule!Add(time, l)
  <1> DEFINE transitions == Transitions(edges)
             day == With(transitions, time, WholePart[l])
             allowed == /\ 0 < time /\ time < DayEnd
                        /\ time \notin DOMAIN transitions
                        /\ Cardinality(DOMAIN transitions) < MaxTransitions
  <1>1. time \in Int
    BY GivenAssumption
  <1>2. Asked(day)
    BY <1>1, KeptAsked, WithAsked
  <1>3. DOMAIN day = DOMAIN transitions \cup {time} /\ day[time] = WholePart[l]
    <2>1. DOMAIN day = DOMAIN transitions \cup {time}
      BY WithFacts
    <2>2. day[time] = WholePart[l]
      BY WithNew
    <2> QED BY <2>1, <2>2
  <1>4. ASSUME Schedule!MayAdd(time, l) PROVE allowed /\ Acceptable(day)
    <2>1. /\ edges # NoEdges /\ time \in Moments \ Starts(Level)
          /\ Cardinality(Starts(Level)) < MaxTransitions /\ WholePart[l] \in Levels
      BY <1>4, MayAddIs
    <2>2. /\ DOMAIN transitions = Starts(Level) /\ Starts(Level) \subseteq Moments
          /\ 0 \in Starts(Level) /\ IsFiniteSet(Starts(Level))
          /\ Cardinality(Starts(Level)) \in Nat
          /\ \A t \in Starts(Level) : transitions[t] \in Levels
      BY <2>1, StartTransitions
    <2>3. allowed
      BY <1>1, <2>1, <2>2, EndIsLater DEF Moments
    <2>4. Cardinality(DOMAIN day) <= MaxTransitions
      <3>1. Cardinality(DOMAIN day) = Cardinality(Starts(Level)) + 1
        BY <1>3, <2>1, <2>2, FS_AddElement
      <3> QED BY <3>1, <2>1, <2>2, GridAssumption DEF MaxTransitions
    <2>5. \A t \in DOMAIN day : day[t] \in Levels
      <3>1. ASSUME NEW t \in DOMAIN day, t # time PROVE day[t] \in Levels
        <4>1. t \in DOMAIN transitions
          BY <3>1, <1>3
        <4> QED BY <3>1, <4>1, <2>2, WithOld
      <3> QED BY <3>1, <1>3, <2>1
    <2>6. DOMAIN day \subseteq Moments /\ 0 \in DOMAIN day
      BY <1>3, <2>1, <2>2
    <2> HIDE DEF day
    <2> QED BY <2>3, <2>4, <2>5, <2>6, InsideAcceptable
  <1>5. ASSUME allowed, Acceptable(day) PROVE Schedule!MayAdd(time, l)
    <2>1. edges # NoEdges
      <3> SUFFICES ASSUME edges = NoEdges PROVE FALSE
        OBVIOUS
      <3>1. DOMAIN day = {time}
        BY <1>3, NoEdgesAsked
      <3>2. 0 \in DOMAIN day
        BY <1>2, <1>5, AcceptableFacts DEF Opening
      <3> QED BY <3>1, <3>2, <1>5
    <2>2. DOMAIN transitions = Starts(Level)
      BY <2>1, StartTransitions
    <2>3. WholePart[l] \in Levels
      BY <1>3, <1>5 DEF Acceptable
    <2>4. time \in Moments
      BY <1>1, <1>5, EndIsLater DEF Moments
    <2> QED BY <1>5, <2>1, <2>2, <2>3, <2>4, MayAddIs
  <1>6. CASE Schedule!MayAdd(time, l)
    <2>1. allowed /\ Acceptable(day)
      BY <1>4, <1>6
    <2>2. SetTransitions(day)
      BY <2>1 DEF Add
    <2>3. edges' = Grid(day) /\ outcome' = "edited"
      BY <1>2, <2>1, <2>2, SetMakes DEF Makes
    <2>4. edges # NoEdges /\ time \in Moments
      BY <1>6, MayAddIs
    <2>5. Level \in [Moments -> Levels] /\ transitions = Canon(Level)
      BY <2>4, StartTransitions
    <2>6. Level' = Shown(day)
      BY <1>2, <2>1, <2>3, MadeLevel
    <2>7. Shown(day) = Covered(Level, StretchOf(Level, time), WholePart[l])
      BY <2>4, <2>5, WithShown
    <2> HIDE DEF day
    <2>8. Level' = Covered(Level, Schedule!Stretch(time), WholePart[l])
      BY <2>6, <2>7, ScheduleStretch
    <2>9. Schedule!Over(Schedule!Stretch(time), WholePart[l])
      BY <2>3, <2>8, ScheduleOver
    <2> QED BY <1>6, <2>9, ScheduleCalled DEF Add, Schedule!Add
  <1>7. CASE ~Schedule!MayAdd(time, l)
    <2>1. Refuse
      <3>1. ~allowed \/ ~Acceptable(day)
        BY <1>5, <1>7
      <3>2. (allowed /\ SetTransitions(day)) \/ (~allowed /\ Refuse)
        BY DEF Add
      <3>3. SetTransitions(day) => Makes(day)
        BY <1>2, SetMakes
      <3> HIDE DEF allowed, day
      <3> QED BY <3>1, <3>2, <3>3 DEF Makes
    <2> QED BY <1>7, <2>1, ScheduleRefuse, ScheduleCalled DEF Add, Schedule!Add
  <1> QED BY <1>6, <1>7

\* An edit by index is one of a day that has transitions.
LEMMA IndexedDay ==
  ASSUME Kept, NEW index, HasIndex(Transitions(edges), index)
  PROVE  /\ edges # NoEdges
         /\ At(Canon(Level), index) \in Starts(Level)
         /\ At(Canon(Level), index) \in Moments
         /\ (index # 0 => At(Canon(Level), index) # 0)
  <1>1. edges # NoEdges
    BY NoIndex
  <1>2. Level \in [Moments -> Levels] /\ Transitions(edges) = Canon(Level)
    BY <1>1, StartLevel
  <1>3. Asked(Canon(Level)) /\ HasIndex(Canon(Level), index)
    BY <1>2, CanonAsked
  <1>4. At(Canon(Level), index) \in DOMAIN Canon(Level)
    BY <1>3, AtFacts
  <1>5. At(Canon(Level), index) \in Starts(Level) /\ At(Canon(Level), index) \in Moments
    BY <1>4 DEF Canon, Starts
  <1>6. Opening(DOMAIN Canon(Level))
    BY <1>2, CanonFacts
  <1>7. index # 0 => At(Canon(Level), index) # 0
    BY <1>3, <1>6, AtLater
  <1> QED BY <1>1, <1>5, <1>7

\* Without one of its transitions, but midnight, a day can still be set.
LEMMA LessAcceptable ==
  ASSUME Kept, edges # NoEdges, NEW t \in Starts(Level), t # 0
  PROVE  LET day == Without(Transitions(edges), t)
         IN  /\ DOMAIN day = Starts(Level) \ {t}
             /\ \A x \in DOMAIN day : day[x] \in Levels
             /\ 0 \in DOMAIN day
             /\ IsFiniteSet(DOMAIN day)
             /\ Cardinality(DOMAIN day) \in Nat
             /\ Cardinality(DOMAIN day) < MaxTransitions
             /\ Asked(day) /\ Acceptable(day)
  <1> DEFINE day == Without(Transitions(edges), t)
  <1>1. /\ DOMAIN Transitions(edges) = Starts(Level) /\ Starts(Level) \subseteq Moments
        /\ 0 \in Starts(Level) /\ IsFiniteSet(Starts(Level))
        /\ Cardinality(Starts(Level)) \in Nat
        /\ Cardinality(Starts(Level)) <= MaxTransitions
        /\ \A x \in Starts(Level) : Transitions(edges)[x] \in Levels
    BY StartTransitions
  <1>2. DOMAIN day = Starts(Level) \ {t}
    BY <1>1, WithoutFacts
  <1>3. ASSUME NEW x \in DOMAIN day PROVE day[x] \in Levels
    <2>1. day[x] = Transitions(edges)[x]
      BY <1>1, <1>2, WithoutOld
    <2> QED BY <2>1, <1>1, <1>2
  <1>4. /\ IsFiniteSet(DOMAIN day)
        /\ Cardinality(DOMAIN day) = Cardinality(Starts(Level)) - 1
    BY <1>1, <1>2, FS_RemoveElement
  <1>5. 0 \in DOMAIN day /\ DOMAIN day \subseteq Moments
    BY <1>1, <1>2
  <1>6. Cardinality(DOMAIN day) \in Nat
    BY <1>4, FS_CardinalityType
  <1>7. Cardinality(DOMAIN day) < MaxTransitions
    BY <1>1, <1>4, GridAssumption DEF MaxTransitions
  <1>8. Cardinality(DOMAIN day) <= MaxTransitions
    BY <1>6, <1>7, GridAssumption DEF MaxTransitions
  <1> HIDE DEF day
  <1>9. Asked(day) /\ Acceptable(day)
    BY <1>3, <1>5, <1>8, InsideAcceptable
  <1> QED BY <1>2, <1>3, <1>4, <1>5, <1>6, <1>7, <1>9 DEF day

LEMMA RemoveMaps ==
  ASSUME Kept, NEW index \in GivenIndices, Remove(index)
  PROVE  Schedule!Remove(index)
  <1> DEFINE transitions == Transitions(edges)
             allowed == index # 0 /\ HasIndex(transitions, index)
             t == At(Canon(Level), index)
             day == Without(Canon(Level), t)
  <1>1. Schedule!MayRemove(index) <=> allowed
    BY ScheduleIndex DEF Schedule!MayRemove
  <1>2. CASE allowed
    <2>1. edges # NoEdges /\ t \in Starts(Level) /\ t \in Moments /\ t # 0
      BY <1>2, IndexedDay
    <2>2. Level \in [Moments -> Levels] /\ transitions = Canon(Level)
      BY <2>1, StartTransitions
    <2>3. Asked(day) /\ Acceptable(day)
      BY <2>1, <2>2, LessAcceptable
    <2>4. SetTransitions(day)
      BY <1>2, <2>2 DEF Remove
    <2>5. edges' = Grid(day) /\ outcome' = "edited"
      BY <2>3, <2>4, SetMakes DEF Makes
    <2>6. Level' = Shown(day)
      BY <2>3, <2>5, MadeLevel
    <2>7. Shown(day) = Covered(Level, StretchOf(Level, t), Level[t - 1])
      BY <2>1, <2>2, WithoutShown
    <2>8. Schedule!At(index) = t
      BY ScheduleIndex
    <2> HIDE DEF day, t
    <2>9. Level' = Covered(Level, Schedule!Stretch(t), Level[t - 1])
      BY <2>6, <2>7, ScheduleStretch
    <2>10. Schedule!Over(Schedule!Stretch(t), Level[t - 1])
      BY <2>5, <2>9, ScheduleOver
    <2>11. Schedule!Over(Schedule!Stretch(Schedule!At(index)),
                         Level[Schedule!At(index) - 1])
      BY <2>8, <2>10
    <2> HIDE DEF allowed
    <2> QED BY <1>1, <1>2, <2>11, ScheduleCalled
            DEF Remove, Schedule!Remove, Level, Shown, Moments
  <1>3. CASE ~allowed
    <2>1. Refuse
      BY <1>3 DEF Remove
    <2> HIDE DEF allowed
    <2> QED BY <1>1, <1>3, <2>1, ScheduleRefuse, ScheduleCalled DEF Remove, Schedule!Remove
  <1> QED BY <1>2, <1>3

LEMMA SetLevelMaps ==
  ASSUME Kept, NEW index \in GivenIndices, NEW l \in GivenLevels, SetLevel(index, l)
  PROVE  Schedule!SetLevel(index, l)
  <1> DEFINE transitions == Transitions(edges)
             allowed == HasIndex(transitions, index) /\ l \in Levels
             t == At(Canon(Level), index)
             day == With(Canon(Level), t, l)
  <1>1. Schedule!MaySetLevel(index, l) <=> allowed
    BY ScheduleIndex DEF Schedule!MaySetLevel
  <1>2. CASE allowed
    <2>1. edges # NoEdges /\ t \in Starts(Level) /\ t \in Moments
      BY <1>2, IndexedDay
    <2>2. /\ Level \in [Moments -> Levels] /\ transitions = Canon(Level)
          /\ DOMAIN transitions = Starts(Level) /\ Starts(Level) \subseteq Moments
          /\ 0 \in Starts(Level) /\ Cardinality(Starts(Level)) <= MaxTransitions
          /\ \A x \in Starts(Level) : transitions[x] \in Levels
      BY <2>1, StartTransitions
    <2>3. DOMAIN day = Starts(Level)
      <3>1. DOMAIN day = DOMAIN Canon(Level) \cup {t}
        BY WithFacts
      <3> QED BY <3>1, <2>1, <2>2
    <2>4. ASSUME NEW x \in DOMAIN day PROVE day[x] \in Levels
      <3>1. CASE x = t
        BY <3>1, <1>2, WithNew
      <3>2. CASE x # t
        <4>1. x \in DOMAIN Canon(Level)
          BY <2>2, <2>3
        <4>2. day[x] = Canon(Level)[x]
          BY <3>2, <4>1, WithOld
        <4> QED BY <4>2, <2>2, <2>3
      <3> QED BY <3>1, <3>2
    <2>5. SetTransitions(day)
      BY <1>2, <2>2 DEF SetLevel
    <2>6. Shown(day) = Covered(Level, StretchOf(Level, t), l)
      BY <2>1, <2>2, WithShown
    <2>7. Schedule!At(index) = t
      BY ScheduleIndex
    <2> HIDE DEF day, t
    <2>8. Asked(day) /\ Acceptable(day)
      BY <2>2, <2>3, <2>4, InsideAcceptable
    <2>9. edges' = Grid(day) /\ outcome' = "edited"
      BY <2>5, <2>8, SetMakes DEF Makes
    <2>10. Level' = Shown(day)
      BY <2>8, <2>9, MadeLevel
    <2>11. Level' = Covered(Level, Schedule!Stretch(t), l)
      BY <2>6, <2>10, ScheduleStretch
    <2>12. Schedule!Over(Schedule!Stretch(t), l)
      BY <2>9, <2>11, ScheduleOver
    <2> HIDE DEF allowed
    <2> QED BY <1>1, <1>2, <2>7, <2>12, ScheduleCalled DEF SetLevel, Schedule!SetLevel
  <1>3. CASE ~allowed
    <2>1. Refuse
      BY <1>3 DEF SetLevel
    <2> HIDE DEF allowed
    <2> QED BY <1>1, <1>3, <2>1, ScheduleRefuse, ScheduleCalled
            DEF SetLevel, Schedule!SetLevel
  <1> QED BY <1>2, <1>3
\* A change stays between its neighbours if it comes sooner and passes none, or
\* later and within its stretch.
LEMMA BetweenIs ==
  ASSUME NEW level \in [Moments -> Levels], NEW t \in Starts(level), t # 0, NEW u \in Int
  PROVE  /\ (Before(Starts(level), t) < u /\ u < Following(Canon(level), t))
            <=> \/ u < t /\ \A w \in u .. t - 1 : w \notin Starts(level)
                \/ u \in StretchOf(level, t)
         /\ Before(Starts(level), t) < u => \A v \in Starts(level) : v < t => v < u
         /\ (Before(Starts(level), t) < u /\ u < Following(Canon(level), t)) => u \in Moments
  <1> DEFINE before == Before(Starts(level), t)
             following == Following(Canon(level), t)
  <1>1. t \in Moments /\ t \in Nat /\ t > 0
    BY EndIsLater DEF Starts, Moments
  <1>2. Opening(Starts(level))
    BY CanonFacts
  <1>3. following \in Nat /\ t < following /\ following <= DayEnd
    BY <1>1, CanonFollowing
  <1>4. StretchOf(level, t) = t .. following - 1
    BY DEF StretchOf
  <1>5. Greatest(Upto(Starts(level), t - 1), before)
    <2>1. {v \in Starts(level) : v < t} = Upto(Starts(level), t - 1)
      BY <1>1, <1>2 DEF Opening, Upto
    <2>2. t - 1 \in Nat
      BY <1>1
    <2>3. Greatest(Upto(Starts(level), t - 1), Max(Upto(Starts(level), t - 1)))
      BY <1>2, <2>2, LastFacts
    <2> QED BY <2>1, <2>3 DEF Before
  <1> HIDE DEF before, following
  <1>6. before \in Nat /\ before < t /\ before \in Starts(level)
    BY <1>1, <1>2, <1>5 DEF Greatest, Upto, Opening
  <1>7. ASSUME NEW v \in Starts(level), v < t PROVE v \in Nat /\ v <= before
    BY <1>1, <1>2, <1>5, <1>7 DEF Greatest, Upto, Opening
  <1>8. before < u => \A v \in Starts(level) : v < t => v < u
    BY <1>6, <1>7
  <1>9. ASSUME before < u, u < following
        PROVE  \/ u < t /\ \A w \in u .. t - 1 : w \notin Starts(level)
               \/ u \in t .. following - 1
    <2>1. CASE u < t
      <3>1. \A w \in u .. t - 1 : w \notin Starts(level)
        BY <1>1, <1>8, <1>9
      <3> QED BY <2>1, <3>1
    <2>2. CASE ~(u < t)
      BY <2>2, <1>1, <1>3, <1>9
    <2> QED BY <2>1, <2>2
  <1>10. ASSUME u < t, \A w \in u .. t - 1 : w \notin Starts(level)
         PROVE  before < u /\ u < following
    <2>1. before \notin u .. t - 1
      BY <1>6, <1>10
    <2> QED BY <2>1, <1>1, <1>3, <1>6, <1>10
  <1>11. ASSUME u \in t .. following - 1 PROVE before < u /\ u < following
    BY <1>1, <1>3, <1>6, <1>11
  <1>12. (before < u /\ u < following) => u \in Moments
    BY <1>3, <1>6, EndIsLater DEF Moments
  <1>13. (before < u /\ u < following)
            <=> \/ u < t /\ \A w \in u .. t - 1 : w \notin Starts(level)
                \/ u \in t .. following - 1
    BY <1>9, <1>10, <1>11
  <1> QED BY <1>4, <1>8, <1>12, <1>13 DEF before, following

LEMMA MoveMaps ==
  ASSUME Kept, NEW index \in GivenIndices, NEW u \in GivenTimes, Move(index, u)
  PROVE  Schedule!Move(index, u)
  <1> DEFINE transitions == Transitions(edges)
             named == index # 0 /\ HasIndex(transitions, index)
             t == At(Canon(Level), index)
             day == Moved(Canon(Level), t, u)
  <1>1. u \in Int
    BY GivenAssumption
  <1>2. Schedule!MayRemove(index) <=> named
    BY ScheduleIndex DEF Schedule!MayRemove
  <1>3. Schedule!At(index) = t
    BY ScheduleIndex
  <1>4. CASE named
    <2>1. edges # NoEdges /\ t \in Starts(Level) /\ t \in Moments /\ t # 0
      BY <1>4, IndexedDay
    <2>2. /\ Level \in [Moments -> Levels] /\ transitions = Canon(Level)
          /\ DOMAIN transitions = Starts(Level) /\ Starts(Level) \subseteq Moments
          /\ \A x \in Starts(Level) : transitions[x] \in Levels
      BY <2>1, StartTransitions
    <2>3. Schedule!MayMove(index, u) <=> Between(transitions, index, u)
      <3>1. Schedule!Sooner(t, u) <=>
                u < t /\ \A w \in u .. t - 1 : w \notin Starts(Level)
        <4>1. Schedule!Sooner(t, u) <=>
                  u < t /\ \A w \in u .. t - 1 : w \notin Schedule!Set(Level)
          BY DEF Schedule!Sooner, Level, Shown, Moments
        <4> QED BY <4>1, ScheduleSet
      <3>2. Between(transitions, index, u) <=>
                Before(Starts(Level), t) < u /\ u < Following(Canon(Level), t)
        BY <2>2 DEF Between
      <3>3. Schedule!MayMove(index, u) <=>
                Schedule!Sooner(t, u) \/ u \in StretchOf(Level, t)
        <4> HIDE DEF t, named
        <4> QED BY <1>2, <1>3, <1>4, ScheduleStretch DEF Schedule!MayMove
      <3>4. (Before(Starts(Level), t) < u /\ u < Following(Canon(Level), t))
                <=> \/ u < t /\ \A w \in u .. t - 1 : w \notin Starts(Level)
                    \/ u \in StretchOf(Level, t)
        BY <1>1, <2>1, <2>2, BetweenIs
      <3> QED BY <3>1, <3>2, <3>3, <3>4
    <2>4. CASE Between(transitions, index, u)
      <3>1. Before(Starts(Level), t) < u /\ u < Following(Canon(Level), t)
        BY <2>2, <2>4 DEF Between
      <3>2. u \in Moments /\ \A v \in Starts(Level) : v < t => v < u
        BY <1>1, <2>1, <2>2, <3>1, BetweenIs
      <3>3. Asked(day) /\ Acceptable(day)
        <4> DEFINE less == Without(Canon(Level), t)
        <4>1. /\ DOMAIN less = Starts(Level) \ {t} /\ 0 \in DOMAIN less
              /\ \A x \in DOMAIN less : less[x] \in Levels
              /\ IsFiniteSet(DOMAIN less) /\ Cardinality(DOMAIN less) \in Nat
              /\ Cardinality(DOMAIN less) < MaxTransitions
          BY <2>1, <2>2, LessAcceptable
        <4>2. DOMAIN day = DOMAIN less \cup {u}
          BY WithFacts DEF Moved
        <4>3. Cardinality(DOMAIN day) <= MaxTransitions
          <5>1. \/ Cardinality(DOMAIN day) = Cardinality(DOMAIN less) + 1
                \/ Cardinality(DOMAIN day) = Cardinality(DOMAIN less)
            BY <4>1, <4>2, FS_AddElement
          <5> QED BY <5>1, <4>1, GridAssumption DEF MaxTransitions
        <4>4. ASSUME NEW x \in DOMAIN day PROVE day[x] \in Levels
          <5>1. CASE x = u
            <6>1. day[u] = Canon(Level)[t]
              BY WithNew DEF Moved
            <6> QED BY <6>1, <5>1, <2>1, <2>2
          <5>2. CASE x # u
            <6>1. x \in DOMAIN less
              BY <4>2, <5>2
            <6>2. day[x] = less[x]
              BY <5>2, <6>1, WithOld DEF Moved
            <6> QED BY <4>1, <6>1, <6>2
          <5> QED BY <5>1, <5>2
        <4>5. DOMAIN day \subseteq Moments /\ 0 \in DOMAIN day
          BY <2>2, <3>2, <4>1, <4>2
        <4> HIDE DEF day
        <4> QED BY <4>3, <4>4, <4>5, InsideAcceptable
      <3>4. SetTransitions(day)
        BY <1>4, <2>2, <2>4 DEF Move, Moved
      <3>5. edges' = Grid(day) /\ outcome' = "edited"
        BY <3>3, <3>4, SetMakes DEF Makes
      <3>6. Level' = Shown(day)
        BY <3>3, <3>5, MadeLevel
      <3>7. Shown(day) = IF u < t THEN Covered(Level, u .. t - 1, Level[t])
                         ELSE Covered(Level, t .. u - 1, Level[t - 1])
        BY <2>1, <2>2, <3>1, <3>2, MovedShown
      <3> HIDE DEF day, t, named
      <3>8. CASE u < t
        <4>1. Level' = Covered(Level, u .. t - 1, Level[t])
          BY <3>6, <3>7, <3>8
        <4>2. Schedule!Over(u .. t - 1, Level[t])
          BY <4>1, <3>5, ScheduleOver
        <4> QED BY <1>3, <2>3, <2>4, <3>8, <4>2, ScheduleCalled
                DEF Move, Schedule!Move, Level, Shown, Moments
      <3>9. CASE ~(u < t)
        <4>1. Level' = Covered(Level, t .. u - 1, Level[t - 1])
          BY <3>6, <3>7, <3>9
        <4>2. Schedule!Over(t .. u - 1, Level[t - 1])
          BY <4>1, <3>5, ScheduleOver
        <4>3. t <= u
          BY <1>1, <2>1, <3>9, EndIsLater DEF Moments
        <4> QED BY <1>3, <2>3, <2>4, <4>2, <4>3, ScheduleCalled
                DEF Move, Schedule!Move, Level, Shown, Moments
      <3> QED BY <3>8, <3>9
    <2>5. CASE ~Between(transitions, index, u)
      <3>1. Refuse
        BY <2>5 DEF Move
      <3> HIDE DEF t, named
      <3> QED BY <2>3, <2>5, <3>1, ScheduleRefuse, ScheduleCalled DEF Move, Schedule!Move
    <2> QED BY <2>4, <2>5
  <1>5. CASE ~named
    <2>1. Refuse
      BY <1>5 DEF Move
    <2>2. ~Schedule!MayMove(index, u)
      BY <1>2, <1>5 DEF Schedule!MayMove
    <2> QED BY <2>1, <2>2, ScheduleRefuse, ScheduleCalled DEF Move, Schedule!Move
  <1> QED BY <1>4, <1>5
\* A list whose times differ, and the day it is.
LEMMA ListFacts ==
  ASSUME NEW list \in GivenLists
  PROVE  /\ Len(list) \in Nat
         /\ DOMAIN list = 1 .. Len(list)
         /\ \A i \in DOMAIN list : list[i].time \in Int
         /\ DOMAIN AsDay(list) = {list[i].time : i \in DOMAIN list}
         /\ TimesDiffer(list) =>
                \A i \in DOMAIN list : AsDay(list)[list[i].time] = list[i].level
         /\ TimesDiffer(list) => Cardinality(DOMAIN AsDay(list)) = Len(list)
  <1>1. list \in Seq(Edge)
    BY GivenAssumption
  <1>2. Len(list) \in Nat /\ DOMAIN list = 1 .. Len(list)
    BY <1>1
  <1>3. ASSUME NEW i \in DOMAIN list PROVE list[i].time \in Int
    <2>1. list[i] \in Edge
      BY <1>1, <1>2
    <2> QED BY <2>1 DEF Edge
  <1> DEFINE times == {list[i].time : i \in DOMAIN list}
             time == [i \in 1 .. Len(list) |-> list[i].time]
  <1>4. DOMAIN AsDay(list) = times
    BY DEF AsDay
  <1>5. ASSUME TimesDiffer(list), NEW i \in DOMAIN list
        PROVE  AsDay(list)[list[i].time] = list[i].level
    <2> DEFINE j == CHOOSE k \in DOMAIN list : list[k].time = list[i].time
    <2>1. j \in DOMAIN list /\ list[j].time = list[i].time
      OBVIOUS
    <2>2. j = i
      BY <1>5, <2>1 DEF TimesDiffer
    <2>3. list[i].time \in times
      OBVIOUS
    <2>4. AsDay(list)[list[i].time] = list[j].level
      BY <2>3 DEF AsDay
    <2> QED BY <2>2, <2>4
  <1>6. ASSUME TimesDiffer(list) PROVE Cardinality(times) = Len(list)
    <2>1. time \in Surjection(1 .. Len(list), times)
      BY <1>2 DEF Surjection
    <2>2. time \in Injection(1 .. Len(list), times)
      <3>1. \A a, b \in 1 .. Len(list) : time[a] = time[b] => a = b
        BY <1>2, <1>6 DEF TimesDiffer
      <3>2. time \in [1 .. Len(list) -> times]
        BY <1>2
      <3> HIDE DEF time, times
      <3> QED BY <3>1, <3>2 DEF Injection, IsInjective
    <2>3. IsFiniteSet(1 .. Len(list)) /\ Cardinality(1 .. Len(list)) = Len(list)
      <3>1. Cardinality(1 .. Len(list)) = IF 1 > Len(list) THEN 0 ELSE Len(list) - 1 + 1
        BY <1>2, FS_Interval
      <3> QED BY <1>2, <3>1, FS_Interval
    <2> HIDE DEF time, times
    <2> QED BY <2>1, <2>2, <2>3, FS_Surjection
  <1> QED BY <1>2, <1>3, <1>4, <1>5, <1>6

\* The level a list asks for at some time is the one its day has.
LEMMA ListedLevel ==
  ASSUME NEW list \in GivenLists, TimesDiffer(list), Opening(DOMAIN AsDay(list)),
         NEW t \in Nat
  PROVE  Schedule!Listed(list, t) = LevelAt(AsDay(list), t)
  <1> DEFINE day == AsDay(list)
             Last(i) == /\ list[i].time <= t
                        /\ \A j \in DOMAIN list :
                              list[j].time <= t => list[j].time <= list[i].time
             i == CHOOSE k \in DOMAIN list : Last(k)
  <1>1. /\ \A k \in DOMAIN list : list[k].time \in Int
        /\ DOMAIN day = {list[k].time : k \in DOMAIN list}
        /\ \A k \in DOMAIN list : day[list[k].time] = list[k].level
    BY ListFacts
  <1>2. PICK m : m = Max(Upto(DOMAIN day, t))
    OBVIOUS
  <1>3. Greatest(Upto(DOMAIN day, t), m)
    BY <1>2, LastFacts
  <1> HIDE DEF day
  <1>4. PICK k \in DOMAIN list : list[k].time = m
    BY <1>1, <1>3 DEF Greatest, Upto
  <1>5. \A j \in DOMAIN list : list[j].time <= t => list[j].time <= m
    BY <1>1, <1>3 DEF Greatest, Upto
  <1>6. Last(k)
    BY <1>3, <1>4, <1>5 DEF Greatest, Upto
  <1>7. i \in DOMAIN list /\ Last(i)
    BY <1>6
  <1>8. list[i].time = m
    <2>1. list[i].time <= m
      BY <1>5, <1>7
    <2>2. m <= list[i].time
      BY <1>4, <1>6, <1>7
    <2>3. list[i].time \in Int /\ m \in Int
      BY <1>1, <1>4, <1>7
    <2> HIDE DEF i
    <2> QED BY <2>1, <2>2, <2>3
  <1>9. Schedule!Latest(list, t) = i
    BY DEF Schedule!Latest
  <1>10. LevelAt(day, t) = day[m]
    BY <1>2, LevelAtUpto
  <1>11. Schedule!Listed(list, t) = list[i].level
    BY <1>9 DEF Schedule!Listed
  <1> HIDE DEF i
  <1>12. day[m] = list[i].level
    BY <1>1, <1>7, <1>8
  <1> QED BY <1>10, <1>11, <1>12 DEF day

\* What set_transitions accepts is what describes a day.
LEMMA DescribesIs ==
  ASSUME NEW list \in GivenLists
  PROVE  Schedule!DescribesADay(list) <=> TimesDiffer(list) /\ Acceptable(AsDay(list))
  <1> DEFINE day == AsDay(list)
  <1>1. /\ Len(list) \in Nat
        /\ \A i \in DOMAIN list : list[i].time \in Int
        /\ DOMAIN day = {list[i].time : i \in DOMAIN list}
    BY ListFacts
  <1>2. Asked(day)
    BY AsDayAsked
  \* Later than the day nothing changes.
  <1>3. ASSUME TimesDiffer(list), Opening(DOMAIN day)
        PROVE  Changes(day) \subseteq Moments
                <=> \A i \in DOMAIN list : list[i].time >= DayEnd =>
                        list[i].level = Schedule!Listed(list, list[i].time - 1)
    <2>1. \A i \in DOMAIN list : day[list[i].time] = list[i].level
      BY <1>3, ListFacts
    <2>2. Min(DOMAIN day) = 0
      <3>1. DOMAIN day \in SUBSET Int /\ Least(DOMAIN day, 0)
        BY <1>3 DEF Least, Opening
      <3> HIDE DEF day
      <3> QED BY <3>1, MinIs
    <2>3. ASSUME NEW i \in DOMAIN list, list[i].time >= DayEnd
          PROVE  list[i].time \in Changes(day) <=>
                    list[i].level # Schedule!Listed(list, list[i].time - 1)
      <3> DEFINE t == list[i].time
      <3>1. t \in DOMAIN day /\ t \in Nat /\ t > 0 /\ t - 1 \in Nat
        BY <1>1, <1>3, <2>3, EndIsLater DEF Opening
      <3>2. Schedule!Listed(list, t - 1) = LevelAt(day, t - 1)
        BY <1>3, <3>1, ListedLevel
      <3> HIDE DEF t, day
      <3>3. day[Before(DOMAIN day, t)] = LevelAt(day, t - 1)
        BY <1>3, <3>1, LevelBefore
      <3>4. t \in Changes(day) <=> day[t] # day[Before(DOMAIN day, t)]
        BY <2>2, <3>1 DEF Changes
      <3>5. day[t] = list[i].level
        BY <2>1 DEF t
      <3> QED BY <3>2, <3>3, <3>4, <3>5 DEF t
    <2>4. ASSUME NEW t \in Changes(day)
          PROVE  t \in Nat /\ t \in DOMAIN day /\ (t \in Moments <=> ~(t >= DayEnd))
      BY <1>3, EndIsLater DEF Changes, Opening, Moments
    <2> HIDE DEF day
    <2>5. ASSUME Changes(day) \subseteq Moments, NEW i \in DOMAIN list, list[i].time >= DayEnd
          PROVE  list[i].level = Schedule!Listed(list, list[i].time - 1)
      BY <2>3, <2>4, <2>5
    <2>6. ASSUME \A i \in DOMAIN list : list[i].time >= DayEnd =>
                        list[i].level = Schedule!Listed(list, list[i].time - 1),
                 NEW t \in Changes(day)
          PROVE  t \in Moments
      <3>1. PICK i \in DOMAIN list : list[i].time = t
        BY <1>1, <2>4
      <3> QED BY <2>3, <2>4, <2>6, <3>1
    <2> QED BY <2>5, <2>6
  <1>4. ASSUME TimesDiffer(list), Acceptable(day) PROVE Schedule!DescribesADay(list)
    <2>1. Opening(DOMAIN day) /\ Changes(day) \subseteq Moments
      BY <1>2, <1>4, AcceptableFacts
    <2>2. Len(list) <= MaxTransitions
      BY <1>4, ListFacts DEF Acceptable
    <2>3. \E i \in DOMAIN list : list[i].time = 0
      BY <1>1, <2>1 DEF Opening
    <2>4. ASSUME NEW i \in DOMAIN list
          PROVE  list[i].level \in Levels /\ list[i].time >= 0
      <3>1. list[i].time \in DOMAIN day
        BY <1>1
      <3>2. day[list[i].time] = list[i].level
        BY <1>4, ListFacts
      <3>3. list[i].level \in Levels
        BY <1>4, <3>1, <3>2 DEF Acceptable
      <3> QED BY <3>1, <3>3, <2>1 DEF Opening
    <2>5. \A i, j \in DOMAIN list : list[i].time = list[j].time => i = j
      BY <1>4 DEF TimesDiffer
    <2>6. \A i \in DOMAIN list : list[i].time >= DayEnd =>
                list[i].level = Schedule!Listed(list, list[i].time - 1)
      BY <1>3, <1>4, <2>1
    <2> HIDE DEF day
    <2> QED BY <2>2, <2>3, <2>4, <2>5, <2>6 DEF Schedule!DescribesADay
  <1>5. ASSUME Schedule!DescribesADay(list) PROVE TimesDiffer(list) /\ Acceptable(day)
    <2>1. /\ Len(list) <= MaxTransitions
          /\ \E i \in DOMAIN list : list[i].time = 0
          /\ \A i \in DOMAIN list : list[i].level \in Levels /\ list[i].time >= 0
          /\ \A i, j \in DOMAIN list : list[i].time = list[j].time => i = j
          /\ \A i \in DOMAIN list : list[i].time >= DayEnd =>
                list[i].level = Schedule!Listed(list, list[i].time - 1)
      BY <1>5 DEF Schedule!DescribesADay
    <2>2. TimesDiffer(list)
      BY <2>1 DEF TimesDiffer
    <2>3. Opening(DOMAIN day)
      BY <1>1, <2>1 DEF Opening
    <2>4. Changes(day) \subseteq Moments
      BY <1>3, <2>1, <2>2, <2>3
    <2>5. Cardinality(DOMAIN day) <= MaxTransitions
      BY <2>1, <2>2, ListFacts
    <2>6. ASSUME NEW t \in DOMAIN day PROVE day[t] \in Levels
      <3>1. PICK i \in DOMAIN list : list[i].time = t
        BY <1>1
      <3>2. day[list[i].time] = list[i].level
        BY <2>2, ListFacts
      <3> QED BY <2>1, <3>1, <3>2
    <2> HIDE DEF day
    <2> QED BY <1>2, <2>2, <2>3, <2>4, <2>5, <2>6, OpeningAcceptable
  <1> QED BY <1>4, <1>5

LEMMA ReplaceMaps ==
  ASSUME NEW list \in GivenLists, Replace(list)
  PROVE  Schedule!Replace(list)
  <1> DEFINE day == AsDay(list)
  <1>1. CASE Schedule!DescribesADay(list)
    <2>1. TimesDiffer(list) /\ Acceptable(day) /\ Asked(day)
      BY <1>1, DescribesIs, AsDayAsked
    <2>2. SetTransitions(day)
      BY <2>1 DEF Replace
    <2>3. edges' = Grid(day) /\ outcome' = "edited"
      BY <2>1, <2>2, SetMakes DEF Makes
    <2>4. Level' = Shown(day)
      BY <2>1, <2>3, MadeLevel
    <2>5. Opening(DOMAIN day)
      BY <2>1, AcceptableFacts
    <2>6. Shown(day) = [t \in Schedule!Moments |-> Schedule!Listed(list, t)]
      <3>1. Schedule!Moments = Moments /\ Moments \subseteq Nat
        BY EndIsLater DEF Schedule!Moments, Moments
      <3>2. \A t \in Moments : Schedule!Listed(list, t) = LevelAt(day, t)
        BY <2>1, <2>5, <3>1, ListedLevel
      <3> HIDE DEF day
      <3> QED BY <3>1, <3>2 DEF Shown
    <2>7. Level' = [t \in Schedule!Moments |-> Schedule!Listed(list, t)]
      BY <2>4, <2>6
    <2> QED BY <1>1, <2>3, <2>7, ScheduleCalled
            DEF Replace, Schedule!Replace, Level, Shown, Moments
  <1>2. CASE ~Schedule!DescribesADay(list)
    <2>1. Refuse
      <3>1. ~TimesDiffer(list) \/ ~Acceptable(day)
        BY <1>2, DescribesIs
      <3>2. (TimesDiffer(list) /\ SetTransitions(day)) \/ Refuse
        BY DEF Replace
      <3>3. SetTransitions(day) => Makes(day)
        BY AsDayAsked, SetMakes
      <3> QED BY <3>1, <3>2, <3>3 DEF Makes
    <2> QED BY <1>2, <2>1, ScheduleRefuse, ScheduleCalled DEF Replace, Schedule!Replace
  <1> QED BY <1>1, <1>2

LEMMA InitMaps == Init => Schedule!Init
  <1> SUFFICES ASSUME Init PROVE Schedule!Init
    OBVIOUS
  <1>1. CASE edges = NoEdges
    BY <1>1 DEF Init, Schedule!Init, Schedule!Unset, NoEdges
  <1>2. CASE edges # NoEdges
    <2>1. ValidGrid(edges)
      BY <1>2, KeptInit DEF Kept
    <2>2. /\ Level \in [Moments -> Levels]
          /\ Cardinality(Starts(Level)) <= MaxTransitions
      BY <1>2, <2>1, ValidFacts DEF Level
    <2>3. Schedule!Set(Level) = Starts(Level)
      BY ScheduleSet
    <2>4. Schedule!Cardinality(Schedule!Set(Level)) <= MaxTransitions
      BY <2>2, <2>3, ScheduleCount
    <2> QED BY <2>2, <2>4 DEF Init, Schedule!Init, Schedule!Moments, Level, Shown, Moments
  <1> QED BY <1>1, <1>2

LEMMA NextMaps ==
  ASSUME Kept, [Next]_vars
  PROVE  Schedule!Next \/ UNCHANGED <<Level, call, outcome>>
  <1>1. ASSUME NEW edit \in Calls, Call(edit) PROVE Schedule!Call(edit)
    BY <1>1 DEF Call, Schedule!Call, Level, Shown
  <1>2. ASSUME NEW list \in GivenLists, Replace(list) PROVE Schedule!Replace(list)
    BY <1>2, ReplaceMaps
  <1>3. ASSUME NEW time \in GivenTimes, NEW l \in GivenLevels, Add(time, l)
        PROVE  Schedule!Add(time, l)
    BY <1>3, AddMaps
  <1>4. ASSUME NEW index \in GivenIndices, Remove(index) PROVE Schedule!Remove(index)
    BY <1>4, RemoveMaps
  <1>5. ASSUME NEW index \in GivenIndices, NEW time \in GivenTimes, Move(index, time)
        PROVE  Schedule!Move(index, time)
    BY <1>5, MoveMaps
  <1>6. ASSUME NEW index \in GivenIndices, NEW l \in GivenLevels, SetLevel(index, l)
        PROVE  Schedule!SetLevel(index, l)
    BY <1>6, SetLevelMaps
  <1>7. CASE UNCHANGED vars
    BY <1>7 DEF vars, Level, Shown
  <1> QED BY <1>1, <1>2, <1>3, <1>4, <1>5, <1>6, <1>7 DEF Next, Schedule!Next

\* Each method changes the level in force exactly where its arguments say, and
\* raises exactly where they are wrong: CalendarDay implements DaySchedule.
THEOREM DayImplementsSchedule == Spec => ImplementsSchedule
  <1>1. Kept /\ [Next]_vars => [Schedule!Next]_(<<Level, call, outcome>>)
    BY NextMaps
  <1>2. Kept /\ [Next]_vars => [Schedule!Next]_(Schedule!vars)
    BY <1>1 DEF Schedule!vars, Level, Shown, Moments
  <1> QED BY InitMaps, <1>2, AlwaysKept, PTL
          DEF Spec, ImplementsSchedule, Schedule!Spec
=============================================================================
