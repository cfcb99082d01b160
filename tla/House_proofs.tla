---------------------------- MODULE House_proofs ----------------------------
(***************************************************************************)
(* Proofs about House, for any data.xml, any names and any limits.         *)
(*                                                                         *)
(* What a unit shows is right because of three facts.  The tables give a   *)
(* name the address that the last of its entries in data.xml has           *)
(* (ApisWhereabouts).  The getters of a unit, and what _readable makes of  *)
(* them, reach each of its variables by its own address or by that of its  *)
(* structure (GettersHold, ExpandHolds).  And no reply is longer than was  *)
(* estimated, unless match_api skipped entries of a structure: a variable  *)
(* has one line in a reply and is counted for each entry that declares it  *)
(* (Honest), so that a chunk under the budget loses no line                *)
(* (AnsweredHolds).                                                        *)
(*                                                                         *)
(* The inductive invariant HouseInv adds to the properties where in        *)
(* data.xml match_api is, and that nothing is shown before __init__ is     *)
(* over.  The lemmas before Discovered are about Picked: what a list holds *)
(* at some positions, in its order.                                        *)
(***************************************************************************)
EXTENDS House, Packing_proofs

(***************************************************************************)
(* What a list holds at some positions                                     *)
(***************************************************************************)
\* One step of the recursion of Picked.
With(part, x, taken) == IF taken THEN Append(part, x) ELSE part

PickRun(part, list, positions) ==
    /\ part[0] = <<>>
    /\ \A i \in 1 .. Len(list) : part[i] = With(part[i - 1], list[i], i \in positions)

\* The run that Picked is the end of.
Runs(part, S, list, positions) ==
    /\ part \in [0 .. Len(list) -> Seq(S)]
    /\ PickRun(part, list, positions)
    /\ Picked(list, positions) = part[Len(list)]

LEMMA PickedIsRun ==
    ASSUME NEW S, NEW list \in Seq(S), NEW positions
    PROVE  \E part : Runs(part, S, list, positions)
<1>1. PICK size \in Nat : size = Len(list)
  BY LenProperties
<1>2. \A i \in 1 .. size : list[i] \in S
  BY <1>1, ElementOfSeq
<1> DEFINE step == [i \in 1 .. size |-> [s \in Seq(S) |-> With(s, list[i], i \in positions)]]
           Run(f) == [i \in 0 .. Len(list) |->
                         IF i = 0 THEN <<>>
                         ELSE IF i \in positions THEN Append(f[i - 1], list[i])
                         ELSE f[i - 1]]
           part == CHOOSE f : f = Run(f)
<1>3. step \in [1 .. size -> [Seq(S) -> Seq(S)]]
  <2>1. \A i \in 1 .. size, s \in Seq(S) : With(s, list[i], i \in positions) \in Seq(S)
    BY <1>2 DEF With
  <2> QED
    BY <2>1
<1>4. \A i \in 1 .. size, s \in Seq(S) : step[i][s] = With(s, list[i], i \in positions)
  OBVIOUS
<1>5. <<>> \in Seq(S)
  OBVIOUS
<1> HIDE DEF step
<1>6. PICK f \in [0 .. size -> Seq(S)] :
          f[0] = <<>> /\ \A i \in 1 .. size : f[i] = step[i][f[i - 1]]
  <2>1. \E f : IsRun(f, Seq(S), <<>>, size, step)
    BY <1>3, <1>5, RunExists
  <2> QED
    BY <2>1 DEF IsRun
<1>7. f = Run(f)
  <2>1. ASSUME NEW i \in 1 .. size
        PROVE  f[i] = With(f[i - 1], list[i], i \in positions)
    <3>1. i - 1 \in 0 .. size
      OBVIOUS
    <3> QED
      BY <1>4, <1>6, <3>1
  <2>2. ASSUME NEW i \in 0 .. size
        PROVE  f[i] = Run(f)[i]
    <3>1. CASE i = 0
      BY <1>1, <1>6, <3>1
    <3>2. CASE i # 0
      <4>1. i \in 1 .. size
        BY <3>2
      <4> QED
        BY <1>1, <2>1, <3>2, <4>1 DEF With
    <3> QED
      BY <3>1, <3>2
  <2> QED
    BY <1>1, <2>2
<1>8. part = Run(part)
  BY <1>7
<1>9. Picked(list, positions) = part[size]
  BY <1>1 DEF Picked
<1> HIDE DEF part
<1>10. PickRun(part, list, positions)
  <2>1. 0 \in 0 .. size /\ \A i \in 1 .. size : i \in 0 .. size /\ i # 0
    OBVIOUS
  <2> QED
    BY <1>1, <1>8, <2>1 DEF PickRun, With
<1>11. part \in [0 .. size -> Seq(S)]
  <2> DEFINE Good == {i \in 0 .. size : part[i] \in Seq(S)}
  <2>1. 0 \in Good
    <3>1. part[0] = <<>> /\ 0 \in 0 .. size
      BY <1>10 DEF PickRun
    <3> QED
      BY <1>5, <3>1
  <2>2. ASSUME NEW i \in 1 .. size, i - 1 \in Good
        PROVE  i \in Good
    <3> DEFINE before == part[i - 1]
               x == list[i]
    <3>1. before \in Seq(S) /\ x \in S
      BY <1>2, <2>2
    <3>2. part[i] = With(before, x, i \in positions)
      BY <1>1, <1>10 DEF PickRun
    <3> HIDE DEF before, x
    <3>3. Append(before, x) \in Seq(S)
      BY <3>1
    <3>4. part[i] \in Seq(S)
      BY <3>1, <3>2, <3>3 DEF With
    <3> QED
      BY <3>4
  <2> HIDE DEF Good
  <2>3. \A i \in 0 .. size : i \in Good
    BY <2>1, <2>2, Upwards
  <2>4. DOMAIN part = 0 .. size
    BY <1>1, <1>8
  <2>5. part = [i \in DOMAIN part |-> part[i]]
    BY <1>8
  <2> QED
    BY <2>3, <2>4, <2>5 DEF Good
<1> QED
  BY <1>1, <1>9, <1>10, <1>11 DEF Runs

\* There is only one run.
LEMMA PickedUnique ==
    ASSUME NEW S, NEW list \in Seq(S), NEW positions, NEW part, PickRun(part, list, positions)
    PROVE  Picked(list, positions) = part[Len(list)]
<1>1. PICK size \in Nat : size = Len(list)
  BY LenProperties
<1>2. PICK own \in [0 .. size -> Seq(S)] :
          PickRun(own, list, positions) /\ Picked(list, positions) = own[size]
  <2>1. PICK f : Runs(f, S, list, positions)
    BY PickedIsRun
  <2> QED
    BY <1>1, <2>1 DEF Runs
<1> DEFINE Good == {i \in 0 .. size : part[i] = own[i]}
<1>3. 0 \in Good
  BY <1>2 DEF PickRun
<1>4. ASSUME NEW i \in 1 .. size, i - 1 \in Good
      PROVE  i \in Good
  BY <1>1, <1>2, <1>4 DEF PickRun
<1> HIDE DEF Good
<1>5. \A i \in 0 .. size : i \in Good
  BY <1>3, <1>4, Upwards
<1> QED
  BY <1>1, <1>2, <1>5 DEF Good

LEMMA OneMore ==
    ASSUME NEW m \in Nat
    PROVE  \A k \in 1 .. m + 1 : k = m + 1 \/ k \in 1 .. m
OBVIOUS

\* place says where the elements of part are in the list.
Embeds(place, part, list, positions, n) ==
    /\ place \in [DOMAIN part -> 1 .. n]
    /\ \A k \in DOMAIN part : place[k] \in positions /\ part[k] = list[place[k]]
    /\ \A j, k \in DOMAIN part : j < k => place[j] < place[k]
    /\ \A i \in 1 .. n : i \in positions => \E k \in DOMAIN part : place[k] = i

\* A part of a list is in the order of the list.
LEMMA PickedEmbeds ==
    ASSUME NEW S, NEW list \in Seq(S), NEW positions
    PROVE  /\ Picked(list, positions) \in Seq(S)
           /\ \E place : Embeds(place, Picked(list, positions), list, positions, Len(list))
<1>1. PICK size \in Nat : size = Len(list)
  BY LenProperties
<1>2. PICK part \in [0 .. size -> Seq(S)] :
          PickRun(part, list, positions) /\ Picked(list, positions) = part[size]
  <2>1. PICK f : Runs(f, S, list, positions)
    BY PickedIsRun
  <2> QED
    BY <1>1, <2>1 DEF Runs
<1> DEFINE Good == {n \in 0 .. size : \E place : Embeds(place, part[n], list, positions, n)}
<1>3. 0 \in Good
  <2>1. part[0] = <<>> /\ DOMAIN <<>> = {} /\ 1 .. 0 = {}
    BY <1>2 DEF PickRun
  <2>2. Embeds(<<>>, <<>>, list, positions, 0)
    <3>1. <<>> \in [{} -> {}]
      OBVIOUS
    <3> QED
      BY <2>1, <3>1 DEF Embeds
  <2> QED
    BY <2>1, <2>2
<1>4. ASSUME NEW n \in 1 .. size, n - 1 \in Good
      PROVE  n \in Good
  <2>1. PICK f : Embeds(f, part[n - 1], list, positions, n - 1)
    BY <1>4
  <2> DEFINE before == part[n - 1]
  <2>2. part[n] = With(before, list[n], n \in positions)
    BY <1>1, <1>2 DEF PickRun
  <2>3. before \in Seq(S) /\ list[n] \in S
    BY <1>1, <1>2, ElementOfSeq
  <2>4. /\ f \in [DOMAIN before -> 1 .. n - 1]
        /\ \A k \in DOMAIN before : f[k] \in positions /\ before[k] = list[f[k]]
        /\ \A j, k \in DOMAIN before : j < k => f[j] < f[k]
        /\ \A i \in 1 .. n - 1 : i \in positions => \E k \in DOMAIN before : f[k] = i
    BY <2>1 DEF Embeds
  <2> HIDE DEF before
  <2>5. CASE n \notin positions
    <3>1. part[n] = before
      BY <2>2, <2>5 DEF With
    <3>2. 1 .. n - 1 \subseteq 1 .. n /\ \A i \in 1 .. n : i = n \/ i \in 1 .. n - 1
      OBVIOUS
    <3>3. Embeds(f, before, list, positions, n)
      BY <2>4, <2>5, <3>2 DEF Embeds
    <3> QED
      BY <3>1, <3>3
  <2>6. CASE n \in positions
    <3>1. PICK m \in Nat : m = Len(before) /\ DOMAIN before = 1 .. m
      BY <2>3, Elements
    <3> DEFINE after == Append(before, list[n])
               g == [k \in 1 .. m + 1 |-> IF k <= m THEN f[k] ELSE n]
    <3>2. /\ after \in Seq(S) /\ Len(after) = m + 1
          /\ \A k \in 1 .. m : after[k] = before[k]
          /\ after[m + 1] = list[n]
      BY <2>3, <3>1, AppendProperties
    <3>3. DOMAIN after = 1 .. m + 1
      <4> HIDE DEF after
      <4> QED
        BY <3>2, Elements
    <3>4. /\ \A k \in 1 .. m : k \in 1 .. m + 1 /\ g[k] = f[k] /\ f[k] \in 1 .. n - 1
          /\ m + 1 \in 1 .. m + 1 /\ g[m + 1] = n
          /\ \A k \in 1 .. m + 1 : k = m + 1 \/ k \in 1 .. m
          /\ \A i \in 1 .. n : i = n \/ i \in 1 .. n - 1
          /\ \A i \in 1 .. n - 1 : i \in 1 .. n /\ i < n
          /\ n \in 1 .. n
      <4>1. \A k \in 1 .. m : f[k] \in 1 .. n - 1
        BY <2>4, <3>1
      <4>2. /\ \A k \in 1 .. m : k \in 1 .. m + 1 /\ g[k] = f[k]
            /\ m + 1 \in 1 .. m + 1 /\ g[m + 1] = n
        BY <3>1
      <4>3. \A k \in 1 .. m + 1 : k = m + 1 \/ k \in 1 .. m
        BY OneMore
      <4>4. /\ \A i \in 1 .. n : i = n \/ i \in 1 .. n - 1
            /\ \A i \in 1 .. n - 1 : i \in 1 .. n /\ i < n
            /\ n \in 1 .. n
        OBVIOUS
      <4> QED
        BY <4>1, <4>2, <4>3, <4>4
    <3> HIDE DEF after
    <3>5. g \in [1 .. m + 1 -> 1 .. n]
      <4>1. \A k \in 1 .. m + 1 : g[k] \in 1 .. n
        BY <3>4
      <4> QED
        BY <4>1
    <3> HIDE DEF g
    <3>6. \A k \in 1 .. m + 1 : g[k] \in positions /\ after[k] = list[g[k]]
      BY <2>4, <2>6, <3>1, <3>2, <3>4
    <3>7. ASSUME NEW j \in 1 .. m + 1, NEW k \in 1 .. m + 1, j < k
          PROVE  g[j] < g[k]
      <4>1. j \in 1 .. m
        BY <3>1, <3>7
      <4>2. CASE k = m + 1
        BY <3>4, <4>1, <4>2
      <4>3. CASE k \in 1 .. m
        BY <2>4, <3>1, <3>4, <3>7, <4>1, <4>3
      <4> QED
        BY <3>4, <4>2, <4>3
    <3>8. ASSUME NEW i \in 1 .. n, i \in positions
          PROVE  \E k \in 1 .. m + 1 : g[k] = i
      <4>1. CASE i = n
        BY <3>4, <4>1
      <4>2. CASE i \in 1 .. n - 1
        <5>1. PICK k \in 1 .. m : f[k] = i
          BY <2>4, <3>1, <3>8, <4>2
        <5> QED
          BY <3>4, <5>1
      <4> QED
        BY <3>4, <4>1, <4>2
    <3>9. Embeds(g, after, list, positions, n)
      BY <3>3, <3>5, <3>6, <3>7, <3>8 DEF Embeds
    <3>10. part[n] = after
      BY <2>2, <2>6 DEF With, after
    <3> QED
      BY <3>9, <3>10
  <2> QED
    BY <2>5, <2>6
<1> HIDE DEF Good
<1>5. \A n \in 0 .. size : n \in Good
  BY <1>3, <1>4, Upwards
<1>6. size \in 0 .. size
  OBVIOUS
<1>7. \E place : Embeds(place, part[size], list, positions, size)
  BY <1>5, <1>6 DEF Good
<1>8. part[size] \in Seq(S)
  BY <1>2, <1>6
<1> QED
  BY <1>1, <1>2, <1>7, <1>8

LEMMA PickedHolds ==
    ASSUME NEW S, NEW list \in Seq(S), NEW positions
    PROVE  /\ Picked(list, positions) \in Seq(S)
           /\ \A x : x \in Holds(Picked(list, positions))
                     <=> \E i \in DOMAIN list : i \in positions /\ x = list[i]
<1> DEFINE part == Picked(list, positions)
<1>1. PICK size \in Nat : size = Len(list) /\ DOMAIN list = 1 .. size
  BY Elements
<1>2. part \in Seq(S)
  BY PickedEmbeds
<1>3. PICK place : Embeds(place, part, list, positions, size)
  BY <1>1, PickedEmbeds
<1> HIDE DEF part
<1>4. /\ place \in [DOMAIN part -> 1 .. size]
      /\ \A k \in DOMAIN part : place[k] \in positions /\ part[k] = list[place[k]]
      /\ \A i \in 1 .. size : i \in positions => \E k \in DOMAIN part : place[k] = i
  BY <1>3 DEF Embeds
<1>5. \A x : x \in Holds(part) <=> \E i \in 1 .. size : i \in positions /\ x = list[i]
  BY <1>4 DEF Holds
<1> QED
  BY <1>1, <1>2, <1>5 DEF part

\* The positions of a list, of some, that hold what is in K.
Marks(T, list, positions, K) ==
    \A i : i \in T <=> i \in DOMAIN list /\ i \in positions /\ list[i] \in K

\* The last element of a kind is the last one in the list as well.
LEMMA PickedLast ==
    ASSUME NEW S, NEW list \in Seq(S), NEW positions, NEW K,
           NEW part, part = Picked(list, positions),
           NEW T, Marks(T, list, positions, K), T # {},
           NEW U, Marks(U, part, DOMAIN part, K)
    PROVE  part[Max(U)] = list[Max(T)]
<1>0. /\ \A i : i \in T <=> i \in DOMAIN list /\ i \in positions /\ list[i] \in K
      /\ \A k : k \in U <=> k \in DOMAIN part /\ part[k] \in K
  BY DEF Marks
<1>1. PICK size \in Nat : size = Len(list) /\ DOMAIN list = 1 .. size
  BY Elements
<1>2. PICK place : Embeds(place, part, list, positions, size)
  BY <1>1, PickedEmbeds
<1>3. part \in Seq(S)
  BY PickedEmbeds
<1>4. PICK m \in Nat : DOMAIN part = 1 .. m
  BY <1>3, Elements
<1>5. /\ place \in [1 .. m -> 1 .. size]
      /\ \A k \in 1 .. m : place[k] \in positions /\ part[k] = list[place[k]]
      /\ \A j, k \in 1 .. m : j < k => place[j] < place[k]
      /\ \A i \in 1 .. size : i \in positions => \E k \in 1 .. m : place[k] = i
  BY <1>2, <1>4 DEF Embeds
<1>6. Max(T) \in T /\ \A t \in T : t <= Max(T)
  <2>1. T \in SUBSET (0 .. size)
    BY <1>0, <1>1
  <2> QED
    BY <2>1, LastPosition
<1> DEFINE last == Max(T)
<1>7. last \in 1 .. size /\ last \in positions /\ list[last] \in K
  BY <1>0, <1>1, <1>6
<1>8. PICK k \in 1 .. m : place[k] = last
  BY <1>5, <1>7
<1>9. k \in U
  BY <1>0, <1>4, <1>5, <1>7, <1>8
<1>10. Max(U) \in U /\ \A u \in U : u <= Max(U)
  <2>1. U \in SUBSET (0 .. m) /\ U # {}
    BY <1>0, <1>4, <1>9
  <2> QED
    BY <2>1, LastPosition
<1> DEFINE top == Max(U)
<1>11. top \in 1 .. m /\ part[top] \in K /\ k <= top
  BY <1>0, <1>4, <1>9, <1>10
<1>12. place[top] \in T
  BY <1>0, <1>1, <1>5, <1>11
<1>13. place[top] <= last
  BY <1>6, <1>12
<1> HIDE DEF last, top
<1>14. ~(k < top)
  <2> SUFFICES ASSUME k < top PROVE FALSE
    OBVIOUS
  <2>1. place[k] < place[top] /\ place[k] \in 1 .. size /\ place[top] \in 1 .. size
    BY <1>5, <1>11
  <2> QED
    BY <1>7, <1>8, <1>13, <2>1
<1>15. k = top
  BY <1>11, <1>14
<1>16. part[top] = list[last]
  BY <1>5, <1>8, <1>15
<1> QED
  BY <1>16 DEF last, top

\* Of more positions a list holds more.
LEMMA PickedTotal ==
    ASSUME NEW S, NEW list \in Seq(S), NEW size \in [S -> Nat], NEW P, NEW Q,
           \A i \in DOMAIN list : i \in P => i \in Q
    PROVE  Total(Sizes(size, Picked(list, P))) <= Total(Sizes(size, Picked(list, Q)))
<1>1. PICK n \in Nat : n = Len(list) /\ DOMAIN list = 1 .. n
  BY Elements
<1>2. PICK p \in [0 .. n -> Seq(S)] :
          PickRun(p, list, P) /\ Picked(list, P) = p[n]
  <2>1. PICK f : Runs(f, S, list, P)
    BY PickedIsRun
  <2> QED
    BY <1>1, <2>1 DEF Runs
<1>3. PICK q \in [0 .. n -> Seq(S)] :
          PickRun(q, list, Q) /\ Picked(list, Q) = q[n]
  <2>1. PICK f : Runs(f, S, list, Q)
    BY PickedIsRun
  <2> QED
    BY <1>1, <2>1 DEF Runs
<1> DEFINE Good == {i \in 0 .. n : Total(Sizes(size, p[i])) <= Total(Sizes(size, q[i]))}
<1>4. \A s \in Seq(S) : Total(Sizes(size, s)) \in Nat
  BY SizesType, TotalType
<1>5. 0 \in Good
  <2>1. p[0] = <<>> /\ q[0] = <<>> /\ <<>> \in Seq(S) /\ 0 \in 0 .. n
    BY <1>2, <1>3 DEF PickRun
  <2>2. Total(Sizes(size, <<>>)) <= Total(Sizes(size, <<>>))
    BY <1>4, <2>1
  <2> QED
    BY <2>1, <2>2
<1>6. ASSUME NEW i \in 1 .. n, i - 1 \in Good
      PROVE  i \in Good
  <2> DEFINE s == p[i - 1]
             t == q[i - 1]
             x == list[i]
  <2>1. s \in Seq(S) /\ t \in Seq(S) /\ x \in S
    <3>1. i - 1 \in 0 .. n
      OBVIOUS
    <3> QED
      BY <1>1, <1>2, <1>3, <3>1, ElementOfSeq
  <2>2. p[i] = With(s, x, i \in P) /\ q[i] = With(t, x, i \in Q)
    BY <1>1, <1>2, <1>3 DEF PickRun
  <2>3. Total(Sizes(size, s)) <= Total(Sizes(size, t))
    BY <1>6
  <2>4. i \in P => i \in Q
    BY <1>1
  <2> HIDE DEF s, t, x
  <2>5. Total(Sizes(size, s)) \in Nat /\ Total(Sizes(size, t)) \in Nat /\ size[x] \in Nat
    BY <1>4, <2>1
  <2>6. /\ Total(Sizes(size, Append(s, x))) = Total(Sizes(size, s)) + size[x]
        /\ Total(Sizes(size, Append(t, x))) = Total(Sizes(size, t)) + size[x]
    BY <2>1, SizesAppend
  <2> DEFINE a == Total(Sizes(size, s))
             b == Total(Sizes(size, t))
             c == size[x]
             d == Total(Sizes(size, p[i]))
             e == Total(Sizes(size, q[i]))
  <2>7. d = IF i \in P THEN a + c ELSE a
    BY <2>2, <2>6 DEF With
  <2>8. e = IF i \in Q THEN b + c ELSE b
    BY <2>2, <2>6 DEF With
  <2>9. a \in Nat /\ b \in Nat /\ c \in Nat /\ a <= b
    BY <2>3, <2>5
  <2> HIDE DEF a, b, c, d, e
  <2>10. d <= e
    <3>1. CASE i \in P
      BY <2>4, <2>7, <2>8, <2>9, <3>1
    <3>2. CASE i \notin P
      BY <2>7, <2>8, <2>9, <3>2
    <3> QED
      BY <3>1, <3>2
  <2> QED
    BY <2>10 DEF d, e
<1> HIDE DEF Good
<1>7. \A i \in 0 .. n : i \in Good
  BY <1>5, <1>6, Upwards
<1>8. n \in 0 .. n
  OBVIOUS
<1> QED
  BY <1>2, <1>3, <1>7, <1>8 DEF Good

\* The elements of a list that are in a set.
Those(list, B) == Picked(list, {i \in DOMAIN list : list[i] \in B})

LEMMA ThoseAppend ==
    ASSUME NEW S, NEW list \in Seq(S), NEW x \in S, NEW B
    PROVE  Those(Append(list, x), B) = With(Those(list, B), x, x \in B)
<1> DEFINE longer == Append(list, x)
           P == {i \in DOMAIN list : list[i] \in B}
           Q == {i \in DOMAIN longer : longer[i] \in B}
<1>1. PICK n \in Nat : n = Len(list) /\ DOMAIN list = 1 .. n
  BY Elements
<1>2. /\ longer \in Seq(S) /\ Len(longer) = n + 1
      /\ \A k \in 1 .. n : longer[k] = list[k]
      /\ longer[n + 1] = x
  BY <1>1, AppendProperties
<1> HIDE DEF longer
<1>3. DOMAIN longer = 1 .. n + 1
  BY <1>2, Elements
<1>4. PICK part \in [0 .. n -> Seq(S)] :
          PickRun(part, list, P) /\ Picked(list, P) = part[n]
  <2>1. PICK f : Runs(f, S, list, P)
    BY PickedIsRun
  <2> QED
    BY <1>1, <2>1 DEF Runs
<1>5. /\ \A k \in 1 .. n : k \in 1 .. n + 1 /\ k - 1 \in 0 .. n + 1 /\ k \in 0 .. n + 1 /\ k <= n /\ k - 1 <= n
      /\ \A k \in 1 .. n + 1 : k \in 1 .. n \/ k = n + 1
      /\ n + 1 \in 1 .. n + 1 /\ n + 1 \in 0 .. n + 1 /\ ~(n + 1 <= n) /\ n + 1 - 1 = n
      /\ n \in 0 .. n + 1 /\ n <= n /\ 0 \in 0 .. n + 1 /\ 0 <= n
  OBVIOUS
<1>6. (\A k \in 1 .. n : k \in Q <=> k \in P) /\ (n + 1 \in Q <=> x \in B)
  BY <1>1, <1>2, <1>3, <1>5
<1> HIDE DEF P, Q
<1> DEFINE g == [i \in 0 .. n + 1 |-> IF i <= n THEN part[i] ELSE With(part[n], x, x \in B)]
<1>7. /\ \A k \in 1 .. n : g[k] = part[k] /\ g[k - 1] = part[k - 1]
      /\ g[0] = part[0] /\ g[n] = part[n] /\ g[n + 1] = With(part[n], x, x \in B)
  BY <1>5
<1> HIDE DEF g
<1>8. \A i \in 1 .. n : part[i] = With(part[i - 1], list[i], i \in P)
  BY <1>1, <1>4 DEF PickRun
<1>9. PickRun(g, longer, Q)
  <2>1. g[0] = <<>>
    BY <1>4, <1>7 DEF PickRun
  <2>2. ASSUME NEW i \in 1 .. n + 1
        PROVE  g[i] = With(g[i - 1], longer[i], i \in Q)
    <3>1. CASE i \in 1 .. n
      BY <1>2, <1>6, <1>7, <1>8, <3>1 DEF With
    <3>2. CASE i = n + 1
      BY <1>2, <1>5, <1>6, <1>7, <3>2 DEF With
    <3> QED
      BY <1>5, <3>1, <3>2
  <2> QED
    BY <1>2, <2>1, <2>2 DEF PickRun
<1>10. Picked(longer, Q) = g[n + 1]
  BY <1>2, <1>9, PickedUnique
<1> QED
  BY <1>4, <1>7, <1>10 DEF Those, P, Q, longer

\* Picking twice is picking once.
LEMMA PickedOfPicked ==
    ASSUME NEW S, NEW list \in Seq(S), NEW P, NEW B,
           NEW Q, Q = {i \in DOMAIN list : i \in P /\ list[i] \in B}
    PROVE  Those(Picked(list, P), B) = Picked(list, Q)
<1>1. PICK n \in Nat : n = Len(list) /\ DOMAIN list = 1 .. n
  BY Elements
<1>2. PICK p \in [0 .. n -> Seq(S)] :
          PickRun(p, list, P) /\ Picked(list, P) = p[n]
  <2>1. PICK f : Runs(f, S, list, P)
    BY PickedIsRun
  <2> QED
    BY <1>1, <2>1 DEF Runs
<1>3. PICK q \in [0 .. n -> Seq(S)] :
          PickRun(q, list, Q) /\ Picked(list, Q) = q[n]
  <2>1. PICK f : Runs(f, S, list, Q)
    BY PickedIsRun
  <2> QED
    BY <1>1, <2>1 DEF Runs
<1> DEFINE Good == {i \in 0 .. n : Those(p[i], B) = q[i]}
<1>4. 0 \in Good
  <2>1. p[0] = <<>> /\ q[0] = <<>> /\ <<>> \in Seq(S) /\ Len(<<>>) = 0 /\ 1 .. 0 = {}
    BY <1>2, <1>3 DEF PickRun
  <2>2. Those(<<>>, B) = <<>>
    <3> DEFINE C == {i \in DOMAIN <<>> : <<>>[i] \in B}
               run == [i \in {0} |-> <<>>]
    <3>1. PickRun(run, <<>>, C)
      <4>1. run[0] = <<>>
        OBVIOUS
      <4> QED
        BY <2>1, <4>1 DEF PickRun
    <3>2. Picked(<<>>, C) = run[0]
      <4> HIDE DEF run, C
      <4> QED
        BY <2>1, <3>1, PickedUnique
    <3> QED
      BY <3>2 DEF Those
  <2> QED
    BY <2>1, <2>2
<1>5. ASSUME NEW i \in 1 .. n, i - 1 \in Good
      PROVE  i \in Good
  <2> DEFINE s == p[i - 1]
             t == q[i - 1]
             x == list[i]
  <2>1. s \in Seq(S) /\ t \in Seq(S) /\ x \in S
    <3>1. i - 1 \in 0 .. n
      OBVIOUS
    <3> QED
      BY <1>1, <1>2, <1>3, <3>1, ElementOfSeq
  <2>2. p[i] = With(s, x, i \in P) /\ q[i] = With(t, x, i \in Q)
    BY <1>1, <1>2, <1>3 DEF PickRun
  <2>3. Those(s, B) = t
    BY <1>5
  <2>4. i \in Q <=> i \in P /\ x \in B
    BY <1>1
  <2> HIDE DEF s, t, x
  <2>5. Those(Append(s, x), B) = With(t, x, x \in B)
    BY <2>1, <2>3, ThoseAppend
  <2>6. Those(p[i], B) = q[i]
    <3>1. CASE i \in P
      BY <2>2, <2>4, <2>5, <3>1 DEF With
    <3>2. CASE i \notin P
      BY <2>2, <2>3, <2>4, <3>2 DEF With
    <3> QED
      BY <3>1, <3>2
  <2> QED
    BY <2>6
<1> HIDE DEF Good
<1>6. \A i \in 0 .. n : i \in Good
  BY <1>4, <1>5, Upwards
<1>7. n \in 0 .. n
  OBVIOUS
<1> QED
  BY <1>2, <1>3, <1>6, <1>7 DEF Good

\* One more position, after the others.
LEMMA PickedAdd ==
    ASSUME NEW S, NEW list \in Seq(S), NEW last \in DOMAIN list,
           NEW P, P \subseteq 1 .. last - 1, NEW Q, Q = P \cup {last}
    PROVE  Picked(list, Q) = Append(Picked(list, P), list[last])
<1>1. PICK n \in Nat : n = Len(list) /\ DOMAIN list = 1 .. n
  BY Elements
<1>2. PICK p \in [0 .. n -> Seq(S)] :
          PickRun(p, list, P) /\ Picked(list, P) = p[n]
  <2>1. PICK f : Runs(f, S, list, P)
    BY PickedIsRun
  <2> QED
    BY <1>1, <2>1 DEF Runs
<1>3. PICK q \in [0 .. n -> Seq(S)] :
          PickRun(q, list, Q) /\ Picked(list, Q) = q[n]
  <2>1. PICK f : Runs(f, S, list, Q)
    BY PickedIsRun
  <2> QED
    BY <1>1, <2>1 DEF Runs
<1>4. /\ \A i \in 1 .. n : p[i] = With(p[i - 1], list[i], i \in P)
      /\ \A i \in 1 .. n : q[i] = With(q[i - 1], list[i], i \in Q)
  BY <1>1, <1>2, <1>3 DEF PickRun
<1> DEFINE x == list[last]
           Good == {i \in 0 .. n : q[i] = IF i < last THEN p[i] ELSE Append(p[i], x)}
<1>5. 0 \in Good
  <2>1. p[0] = q[0] /\ 0 < last /\ 0 \in 0 .. n
    BY <1>1, <1>2, <1>3 DEF PickRun
  <2> QED
    BY <2>1
<1>6. ASSUME NEW i \in 1 .. n, i - 1 \in Good
      PROVE  i \in Good
  <2>1. q[i - 1] = IF i - 1 < last THEN p[i - 1] ELSE Append(p[i - 1], x)
    BY <1>6
  <2>2. last \in 1 .. n /\ last \in Nat /\ i \in Nat /\ \A k \in P : k \in 1 .. last - 1
    BY <1>1
  <2>3. CASE i < last
    <3>1. i - 1 < last /\ (i \in Q <=> i \in P)
      BY <2>2, <2>3
    <3>2. q[i] = p[i]
      BY <1>4, <2>1, <3>1
    <3> QED
      BY <2>3, <3>2
  <2>4. CASE i = last
    <3>1. i - 1 < last /\ i \in Q /\ i \notin P /\ ~(i < last)
      BY <2>2, <2>4
    <3>2. q[i] = Append(p[i], x)
      BY <1>4, <2>1, <2>4, <3>1 DEF With
    <3> QED
      BY <3>1, <3>2
  <2>5. CASE i > last
    <3>1. ~(i - 1 < last) /\ i \notin Q /\ i \notin P /\ ~(i < last)
      BY <2>2, <2>5
    <3>2. q[i] = Append(p[i], x)
      BY <1>4, <2>1, <3>1 DEF With
    <3> QED
      BY <3>1, <3>2
  <2>6. i < last \/ i = last \/ i > last
    BY <2>2
  <2> HIDE DEF Good
  <2> QED
    BY <2>3, <2>4, <2>5, <2>6
<1> HIDE DEF Good
<1>7. \A i \in 0 .. n : i \in Good
  BY <1>5, <1>6, Upwards
<1>8. n \in 0 .. n /\ ~(n < last)
  BY <1>1
<1> QED
  BY <1>2, <1>3, <1>7, <1>8 DEF Good

-----------------------------------------------------------------------------
(***************************************************************************)
(* A list of what a finite set holds                                       *)
(***************************************************************************)
LEMMA SetToSeqHolds ==
    ASSUME NEW S, IsFiniteSet(S)
    PROVE  SetToSeq(S) \in Seq(S) /\ Holds(SetToSeq(S)) = S
<1> DEFINE n == Cardinality(S)
           list == SetToSeq(S)
<1>1. n \in Nat /\ ExistsBijection(1 .. n, S)
  BY FS_CardinalityType
<1> HIDE DEF n
<1>2. \E f \in [1 .. n -> S] : IsInjective(f)
  <2>1. PICK f : f \in Bijection(1 .. n, S)
    BY <1>1 DEF ExistsBijection
  <2>2. f \in [1 .. n -> S] /\ \A a, b \in 1 .. n : f[a] = f[b] => a = b
    BY <2>1 DEF Bijection, Injection, IsInjective
  <2>3. IsInjective(f)
    BY <2>2 DEF IsInjective
  <2> QED
    BY <2>2, <2>3
<1>3. list \in [1 .. n -> S] /\ IsInjective(list)
  BY <1>2 DEF SetToSeq, n
<1> HIDE DEF list
<1>4. list \in Seq(S)
  BY <1>1, <1>3, LenOf
<1>5. Holds(list) \subseteq S /\ DOMAIN list = 1 .. n
  BY <1>1, <1>3 DEF Holds
<1>6. Holds(list) = S
  <2>1. list \in Bijection(1 .. n, Holds(list))
    <3>1. list \in [1 .. n -> Holds(list)]
      BY <1>3, <1>5 DEF Holds
    <3>2. \A t \in Holds(list) : \E i \in 1 .. n : list[i] = t
      BY <1>5 DEF Holds
    <3> QED
      BY <1>3, <3>1, <3>2 DEF Bijection, Injection, Surjection
  <2>2. Cardinality(Holds(list)) = n
    <3>1. ExistsBijection(1 .. n, Holds(list))
      BY <2>1 DEF ExistsBijection
    <3> QED
      BY <1>1, <3>1, FS_CountingElements
  <2> QED
    BY <1>5, <2>2, FS_Subset DEF n
<1> QED
  BY <1>4, <1>6 DEF list

LEMMA FiniteImage ==
    ASSUME NEW S, NEW T, NEW f \in [S -> T], IsFiniteSet(S), \A t \in T : \E s \in S : f[s] = t
    PROVE  IsFiniteSet(T)
<1>1. f \in Surjection(S, T)
  BY DEF Surjection
<1> QED
  BY <1>1, FS_Surjection

LEMMA HoldsFinite ==
    ASSUME NEW S, NEW list \in Seq(S)
    PROVE  IsFiniteSet(Holds(list))
<1>1. PICK n \in Nat : DOMAIN list = 1 .. n
  BY Elements
<1>2. list \in [1 .. n -> Holds(list)]
  <2>1. \A i \in 1 .. n : list[i] \in Holds(list)
    BY <1>1 DEF Holds
  <2>2. list = [i \in DOMAIN list |-> list[i]]
    BY LenProperties
  <2> QED
    BY <1>1, <2>1, <2>2
<1>3. \A x \in Holds(list) : \E i \in 1 .. n : list[i] = x
  BY <1>1 DEF Holds
<1>4. IsFiniteSet(1 .. n)
  BY <1>1, FS_Interval
<1> QED
  BY <1>2, <1>3, <1>4, FiniteImage

-----------------------------------------------------------------------------
(***************************************************************************)
(* What is found                                                           *)
(***************************************************************************)
LEMMA HoldsIsToSet ==
    ASSUME NEW list
    PROVE  ToSet(list) = Holds(list)
BY DEF ToSet, Holds

\* All of data.xml has been through match_api.
Discovered ==
    /\ xml \in DataXmls
    /\ found = Picked(xml, {i \in DOMAIN xml : Matched(xml[i])})

LEMMA FoundHolds ==
    ASSUME Discovered
    PROVE  /\ xml \in Seq(Entry) /\ found \in Seq(Entry)
           /\ \A e : e \in Holds(found) <=> e \in Holds(xml) /\ Matched(e)
<1>1. xml \in Seq(Entry)
  BY HouseAssumption DEF Discovered
<1> DEFINE P == {i \in DOMAIN xml : Matched(xml[i])}
<1>2. found = Picked(xml, P)
  BY DEF Discovered
<1> HIDE DEF P
<1>3. /\ found \in Seq(Entry)
      /\ \A e : e \in Holds(found) <=> \E i \in DOMAIN xml : i \in P /\ e = xml[i]
  BY <1>1, <1>2, PickedHolds
<1>4. \A e : e \in Holds(found) <=> e \in Holds(xml) /\ Matched(e)
  BY <1>3 DEF P, Holds
<1> QED
  BY <1>1, <1>3, <1>4

\* A dict by name has entries of the list, each under its name.
LEMMA ByNameHolds ==
    ASSUME NEW list \in Seq(Entry)
    PROVE  /\ DOMAIN ByName(list) = {Name(e) : e \in Holds(list)}
           /\ \A n \in DOMAIN ByName(list) :
                 ByName(list)[n] \in Holds(list) /\ Name(ByName(list)[n]) = n
<1>1. PICK size \in Nat : DOMAIN list = 1 .. size
  BY Elements
<1>2. DOMAIN ByName(list) = {Name(e) : e \in Holds(list)}
  BY HoldsIsToSet DEF ByName
<1>3. ASSUME NEW n \in DOMAIN ByName(list)
      PROVE  ByName(list)[n] \in Holds(list) /\ Name(ByName(list)[n]) = n
  <2> DEFINE T == {i \in DOMAIN list : Name(list[i]) = n}
  <2>1. ByName(list)[n] = list[Max(T)]
    BY <1>3 DEF ByName
  <2>2. T # {}
    BY <1>2, <1>3 DEF Holds
  <2>3. T \in SUBSET (0 .. size)
    BY <1>1
  <2> HIDE DEF T
  <2>4. Max(T) \in T
    BY <2>2, <2>3, LastPosition
  <2> QED
    BY <2>1, <2>4 DEF Holds, T
<1> QED
  BY <1>2, <1>3

IsDriver == {e \in Entry : e.category = "driver"}

LEMMA DriversHold ==
    ASSUME Discovered
    PROVE  /\ Those(found, IsDriver) \in Seq(Entry)
           /\ DriverApis = ByName(Those(found, IsDriver))
           /\ \A e : e \in Holds(Those(found, IsDriver))
                     <=> e \in Holds(found) /\ e.category = "driver"
<1>1. found \in Seq(Entry)
  BY FoundHolds
<1> DEFINE P == {i \in DOMAIN found : found[i] \in IsDriver}
<1>2. /\ Picked(found, P) \in Seq(Entry)
      /\ \A e : e \in Holds(Picked(found, P))
                <=> \E i \in DOMAIN found : i \in P /\ e = found[i]
  <2> HIDE DEF P
  <2> QED
    BY <1>1, PickedHolds
<1>3. \A i \in DOMAIN found : found[i] \in Entry
  BY <1>1, Elements
<1>4. P = {i \in DOMAIN found : found[i].category = "driver"}
  BY <1>3 DEF IsDriver
<1>5. DriverApis = ByName(Those(found, IsDriver))
  BY <1>4 DEF DriverApis, Those
<1>6. \A e : e \in Holds(Picked(found, P)) <=> e \in Holds(found) /\ e.category = "driver"
  BY <1>2, <1>4 DEF Holds
<1> QED
  BY <1>2, <1>5, <1>6 DEF Those

\* The dicts of a house that is found, by what data.xml has.
LEMMA ApisHold ==
    ASSUME Discovered
    PROVE  /\ DOMAIN Apis = {Name(e) : e \in Holds(found)}
           /\ \A n \in DOMAIN Apis : Apis[n] \in Holds(found) /\ Name(Apis[n]) = n
           /\ DOMAIN DriverApis = {Name(e) : e \in {d \in Holds(found) : d.category = "driver"}}
           /\ \A n \in DOMAIN DriverApis :
                 /\ DriverApis[n] \in Holds(found) /\ Name(DriverApis[n]) = n
                 /\ DriverApis[n].category = "driver"
<1>1. found \in Seq(Entry)
  BY FoundHolds
<1>2. /\ DOMAIN Apis = {Name(e) : e \in Holds(found)}
      /\ \A n \in DOMAIN Apis : Apis[n] \in Holds(found) /\ Name(Apis[n]) = n
  BY <1>1, ByNameHolds DEF Apis
<1> DEFINE drivers == Those(found, IsDriver)
<1>3. /\ drivers \in Seq(Entry) /\ DriverApis = ByName(drivers)
      /\ \A e : e \in Holds(drivers) <=> e \in Holds(found) /\ e.category = "driver"
  BY DriversHold
<1> HIDE DEF drivers
<1>4. /\ DOMAIN DriverApis = {Name(e) : e \in Holds(drivers)}
      /\ \A n \in DOMAIN DriverApis : DriverApis[n] \in Holds(drivers) /\ Name(DriverApis[n]) = n
  BY <1>3, ByNameHolds
<1>5. Holds(drivers) = {d \in Holds(found) : d.category = "driver"}
  BY <1>3
<1> QED
  BY <1>2, <1>4, <1>5

\* A name stands for the last entry that has it, in the order of data.xml.
LEMMA ApisWhereabouts ==
    ASSUME Discovered
    PROVE  /\ \A n \in DOMAIN Apis : Address(Apis[n]) = Whereabouts(n, FALSE)
           /\ \A n \in DOMAIN DriverApis : Address(DriverApis[n]) = Whereabouts(n, TRUE)
<1> DEFINE P == {i \in DOMAIN xml : Matched(xml[i])}
           Q == {i \in DOMAIN xml : i \in P /\ xml[i] \in IsDriver}
           drivers == Those(found, IsDriver)
<1>1. xml \in Seq(Entry) /\ found \in Seq(Entry)
  BY FoundHolds
<1>2. \A i \in DOMAIN xml : xml[i] \in Entry
  BY <1>1, Elements
<1>3. found = Picked(xml, P)
  BY DEF Discovered
<1>4. drivers = Picked(xml, Q)
  <2> HIDE DEF P
  <2> QED
    BY <1>1, <1>3, PickedOfPicked
<1>5. /\ drivers \in Seq(Entry) /\ DriverApis = ByName(drivers)
      /\ \A e : e \in Holds(drivers) <=> e \in Holds(found) /\ e.category = "driver"
  BY DriversHold
<1>6. ASSUME NEW n \in DOMAIN Apis
      PROVE  Address(Apis[n]) = Whereabouts(n, FALSE)
  <2> DEFINE K == {e \in Entry : Name(e) = n}
             T == {i \in DOMAIN xml : i \in P /\ xml[i] \in K}
             U == {k \in DOMAIN found : found[k] \in K}
  <2>1. T # {}
    <3>1. PICK e \in Holds(found) : Name(e) = n
      BY ApisHold
    <3>2. PICK i \in DOMAIN xml : e = xml[i] /\ Matched(e)
      BY <3>1, FoundHolds DEF Holds
    <3> QED
      BY <1>2, <3>1, <3>2
  <2>2. found[Max(U)] = xml[Max(T)]
    <3>1. Marks(T, xml, P, K)
      BY DEF Marks
    <3>2. Marks(U, found, DOMAIN found, K)
      BY DEF Marks
    <3> HIDE DEF P, K, T, U
    <3> QED
      BY <1>1, <1>3, <2>1, <3>1, <3>2, PickedLast
  <2>3. U = {k \in DOMAIN found : Name(found[k]) = n}
    BY <1>1, Elements
  <2> DEFINE V == {i \in DOMAIN xml : /\ Name(xml[i]) = n /\ Matched(xml[i])
                                      /\ FALSE => xml[i].category = "driver"}
  <2>4. T = V
    <3>1. \A i \in DOMAIN xml : (i \in P /\ xml[i] \in K)
             <=> (/\ Name(xml[i]) = n /\ Matched(xml[i])
                  /\ FALSE => xml[i].category = "driver")
      BY <1>2
    <3>2. T \subseteq V
      BY <3>1
    <3>3. ASSUME NEW i \in V
          PROVE  i \in T
      BY <3>1, <3>3
    <3> QED
      BY <3>2, <3>3
  <2>5. Apis[n] = found[Max(U)]
    BY <1>6, <2>3 DEF Apis, ByName
  <2>6. Whereabouts(n, FALSE) = Address(xml[Max(T)])
    BY <2>4 DEF Whereabouts
  <2> QED
    BY <2>2, <2>5, <2>6
<1>7. ASSUME NEW n \in DOMAIN DriverApis
      PROVE  Address(DriverApis[n]) = Whereabouts(n, TRUE)
  <2> DEFINE K == {e \in Entry : Name(e) = n}
             T == {i \in DOMAIN xml : i \in Q /\ xml[i] \in K}
             U == {k \in DOMAIN drivers : drivers[k] \in K}
  <2>1. T # {}
    <3>1. PICK e \in Holds(found) : Name(e) = n /\ e.category = "driver"
      BY ApisHold
    <3>2. PICK i \in DOMAIN xml : e = xml[i] /\ Matched(e)
      BY <3>1, FoundHolds DEF Holds
    <3> QED
      BY <1>2, <3>1, <3>2 DEF IsDriver
  <2>2. drivers[Max(U)] = xml[Max(T)]
    <3>1. Marks(T, xml, Q, K)
      BY DEF Marks
    <3>2. Marks(U, drivers, DOMAIN drivers, K)
      BY DEF Marks
    <3> HIDE DEF Q, K, drivers, T, U
    <3> QED
      BY <1>1, <1>4, <2>1, <3>1, <3>2, PickedLast
  <2>3. U = {k \in DOMAIN drivers : Name(drivers[k]) = n}
    <3> HIDE DEF drivers
    <3> QED
      BY <1>5, Elements
  <2> DEFINE V == {i \in DOMAIN xml : /\ Name(xml[i]) = n /\ Matched(xml[i])
                                      /\ TRUE => xml[i].category = "driver"}
  <2>4. T = V
    <3>1. \A i \in DOMAIN xml : (i \in Q /\ xml[i] \in K)
             <=> (/\ Name(xml[i]) = n /\ Matched(xml[i])
                  /\ TRUE => xml[i].category = "driver")
      BY <1>2 DEF IsDriver
    <3>2. T \subseteq V
      BY <3>1
    <3>3. ASSUME NEW i \in V
          PROVE  i \in T
      BY <3>1, <3>3
    <3> QED
      BY <3>2, <3>3
  <2>5. DriverApis[n] = drivers[Max(U)]
    <3>1. DriverApis = ByName(drivers)
      BY <1>5
    <3> HIDE DEF drivers
    <3> QED
      BY <1>7, <2>3, <3>1 DEF ByName
  <2>6. Whereabouts(n, TRUE) = Address(xml[Max(T)])
    BY <2>4 DEF Whereabouts
  <2> QED
    BY <2>2, <2>5, <2>6
<1> QED
  BY <1>6, <1>7

-----------------------------------------------------------------------------
(***************************************************************************)
(* What the device answers                                                 *)
(***************************************************************************)
\* It answers an address with a line for e, or a structure that e is in.
Reaches(path, e) ==
    /\ e.category \notin {"other", "page"}
    /\ path \in {Address(e), StructureAddress(e)}

LEMMA SameAddress ==
    ASSUME NEW e, NEW f, Address(e) = Address(f)
    PROVE  /\ e.category = f.category /\ e.structure = f.structure /\ e.offset = f.offset
           /\ StructureAddress(e) = StructureAddress(f)
BY DEF Address, StructureAddress

\* An address is no structure's.
LEMMA AddressAlone ==
    ASSUME NEW e, NEW f, Address(e) \in {Address(f), StructureAddress(f)}
    PROVE  Address(e) = Address(f)
<1>1. Len(Address(e)) = 3 /\ Len(StructureAddress(f)) = 2
  BY DEF Address, StructureAddress
<1> QED
  BY <1>1

LEMMA LinesHold ==
    ASSUME xml \in Seq(Entry), NEW path
    PROVE  /\ Lines(path) \in Seq(Entry)
           /\ \A l \in Holds(Lines(path)) : l \in Holds(xml) /\ Reaches(path, l)
           /\ \A e \in Holds(xml) :
                 Reaches(path, e) => \E l \in Holds(Lines(path)) : Address(l) = Address(e)
<1> DEFINE P == {i \in DOMAIN xml :
                    /\ xml[i].category \notin {"other", "page"}
                    /\ path \in {Address(xml[i]), StructureAddress(xml[i])}
                    /\ \A j \in 1 .. i - 1 : Address(xml[j]) # Address(xml[i])}
<1>1. PICK size \in Nat : DOMAIN xml = 1 .. size
  BY Elements
<1>2. Lines(path) = Picked(xml, P)
  BY DEF Lines
<1>3. /\ Lines(path) \in Seq(Entry)
      /\ \A x : x \in Holds(Lines(path)) <=> \E i \in DOMAIN xml : i \in P /\ x = xml[i]
  <2> HIDE DEF P
  <2> QED
    BY <1>2, PickedHolds
<1>4. ASSUME NEW l \in Holds(Lines(path))
      PROVE  l \in Holds(xml) /\ Reaches(path, l)
  BY <1>3 DEF Holds, Reaches
<1>5. ASSUME NEW e \in Holds(xml), Reaches(path, e)
      PROVE  \E l \in Holds(Lines(path)) : Address(l) = Address(e)
  <2> DEFINE T == {j \in DOMAIN xml : Address(xml[j]) = Address(e)}
  <2>1. T \in SUBSET Nat /\ T # {}
    BY <1>1 DEF Holds
  <2> HIDE DEF T
  <2>2. PICK m \in T : \A k \in T : m <= k
    BY <2>1, LeastNatural
  <2>3. m \in 1 .. size /\ Address(xml[m]) = Address(e)
    BY <1>1, <2>2 DEF T
  <2>4. Reaches(path, xml[m])
    <3>1. e.category = xml[m].category /\ StructureAddress(e) = StructureAddress(xml[m])
      BY <2>3, SameAddress
    <3> QED
      BY <1>5, <2>3, <3>1 DEF Reaches
  <2>5. ASSUME NEW j \in 1 .. m - 1
        PROVE  Address(xml[j]) # Address(xml[m])
    <3>1. j \in 1 .. size /\ ~(m <= j)
      BY <2>3
    <3>2. j \notin T
      BY <2>2, <3>1
    <3> QED
      BY <1>1, <2>3, <3>1, <3>2 DEF T
  <2>6. m \in P
    BY <1>1, <2>3, <2>4, <2>5 DEF Reaches
  <2> QED
    BY <1>1, <1>3, <2>3, <2>6
<1> QED
  BY <1>3, <1>4, <1>5

\* The bytes of a line, as a function.
LineBytes == [e \in Entry |-> ResponseBytes(e)]

LEMMA LineBytesType ==
    /\ LineBytes \in [Entry -> Nat]
    /\ \A e \in Entry : LineBytes[e] = ResponseBytes(e) /\ ResponseBytes(e) \in Nat
<1>1. ASSUME NEW e \in Entry
      PROVE  ResponseBytes(e) \in Nat
  <2>1. e.bytes \in Nat
    BY DEF Entry
  <2>2. PathLen \in Nat
    BY HouseAssumption
  <2> QED
    BY <2>1, <2>2 DEF ResponseBytes
<1> QED
  BY <1>1 DEF LineBytes

LEMMA BytesAreSizes ==
    ASSUME NEW list \in Seq(Entry)
    PROVE  BytesOf(list) = Total(Sizes(LineBytes, list)) /\ BytesOf(list) \in Nat
<1>1. \A i \in DOMAIN list : LineBytes[list[i]] = ResponseBytes(list[i])
  BY Elements, LineBytesType
<1>2. Sizes(LineBytes, list) = [i \in DOMAIN list |-> ResponseBytes(list[i])]
  BY <1>1 DEF Sizes
<1>3. Sizes(LineBytes, list) \in Seq(Nat)
  BY SizesType, LineBytesType
<1> QED
  BY <1>2, <1>3, TotalType DEF BytesOf

\* What a getter asks for is no longer than it says.
Honest(getter) == getter.bytes \in Nat /\ BytesOf(Lines(getter.path)) <= getter.bytes

\* An address is answered with one line.
LEMMA GetHonest ==
    ASSUME xml \in DataXmls, NEW e \in Holds(xml)
    PROVE  Honest(Get(e))
<1> DEFINE path == Address(e)
           P == {i \in DOMAIN xml :
                    /\ xml[i].category \notin {"other", "page"}
                    /\ path \in {Address(xml[i]), StructureAddress(xml[i])}
                    /\ \A j \in 1 .. i - 1 : Address(xml[j]) # Address(xml[i])}
           lines == Lines(path)
<1>1. xml \in Seq(Entry)
  BY HouseAssumption
<1>2. PICK size \in Nat : DOMAIN xml = 1 .. size /\ size = Len(xml)
  BY <1>1, Elements
<1>3. e \in Entry /\ ResponseBytes(e) \in Nat
  BY <1>1, Elements, LineBytesType
<1>4. lines = Picked(xml, P)
  BY DEF Lines
<1>5. lines \in Seq(Entry) /\ \A l \in Holds(lines) : l \in Holds(xml) /\ Reaches(path, l)
  BY <1>1, LinesHold
<1> HIDE DEF lines
<1>6. PICK place : Embeds(place, lines, xml, P, size)
  <2> HIDE DEF P
  <2> QED
    BY <1>1, <1>2, <1>4, PickedEmbeds
<1>7. PICK m \in Nat : DOMAIN lines = 1 .. m /\ m = Len(lines)
  BY <1>5, Elements
<1>8. /\ place \in [1 .. m -> 1 .. size]
      /\ \A k \in 1 .. m : place[k] \in P
      /\ \A j, k \in 1 .. m : j < k => place[j] < place[k]
  <2> HIDE DEF P
  <2> QED
    BY <1>6, <1>7 DEF Embeds
<1>9. ASSUME NEW i \in P
      PROVE  Address(xml[i]) = path
  BY AddressAlone
<1>10. m <= 1
  <2> SUFFICES ASSUME ~(m <= 1) PROVE FALSE
    OBVIOUS
  <2>1. 1 \in 1 .. m /\ 2 \in 1 .. m /\ 1 < 2
    BY <1>7
  <2> DEFINE i == place[1]
             k == place[2]
  <2>2. i \in P /\ k \in P /\ i < k /\ i \in 1 .. size /\ k \in 1 .. size
    BY <1>8, <2>1
  <2>3. Address(xml[i]) = Address(xml[k])
    BY <1>9, <2>2
  <2>4. \A j \in 1 .. k - 1 : Address(xml[j]) # Address(xml[k])
    BY <2>2
  <2> HIDE DEF i, k
  <2>5. i \in 1 .. k - 1
    BY <2>2
  <2> QED
    BY <2>3, <2>4, <2>5
<1> HIDE DEF P
<1>11. BytesOf(lines) <= ResponseBytes(e)
  <2>1. BytesOf(lines) = Total(Sizes(LineBytes, lines))
    BY <1>5, BytesAreSizes
  <2>2. CASE m = 0
    <3>1. lines = <<>>
      BY <1>5, <1>7, <2>2, EmptySeq
    <3>2. Sizes(LineBytes, <<>>) = <<>>
      BY DEF Sizes
    <3>3. BytesOf(lines) = 0
      BY <2>1, <3>1, <3>2, TotalEmpty
    <3> QED
      BY <1>3, <3>3
  <2>3. CASE m = 1
    <3> DEFINE l == lines[1]
    <3>1. l \in Holds(lines) /\ l \in Entry
      BY <1>5, <1>7, <2>3, Elements DEF Holds
    <3>2. Address(l) = path /\ l \in Holds(xml)
      BY <1>5, <3>1, AddressAlone DEF Reaches
    <3>3. l.bytes = e.bytes
      <4>1. PICK i \in DOMAIN xml : xml[i] = l
        BY <3>2 DEF Holds
      <4>2. PICK j \in DOMAIN xml : xml[j] = e
        BY DEF Holds
      <4> DEFINE a == xml[i]
                 b == xml[j]
      <4>3. a.category = b.category /\ a.structure = b.structure /\ a.offset = b.offset
        BY <3>2, <4>1, <4>2, SameAddress
      <4>4. xml[i].bytes = xml[j].bytes
        BY <4>3, OneType
      <4> QED
        BY <4>1, <4>2, <4>4
    <3>4. lines = Append(<<>>, l)
      <4>1. <<>> \in Seq(Entry) /\ Len(<<>>) = 0
        OBVIOUS
      <4> DEFINE other == Append(<<>>, l)
      <4> HIDE DEF l
      <4>2. other \in Seq(Entry) /\ Len(other) = 0 + 1 /\ other[0 + 1] = l
        BY <3>1, <4>1, AppendProperties
      <4> HIDE DEF other
      <4>3. Len(other) = 1 /\ other[1] = l
        BY <4>2
      <4>4. Len(lines) = Len(other) /\ \A i \in 1 .. Len(lines) : lines[i] = other[i]
        BY <1>7, <2>3, <4>3 DEF l
      <4>5. lines = other
        BY <1>5, <4>2, <4>4, SameElements
      <4> QED
        BY <4>5 DEF other
    <3> HIDE DEF l
    <3>5. Total(Sizes(LineBytes, Append(<<>>, l))) = Total(Sizes(LineBytes, <<>>)) + LineBytes[l]
      <4>1. <<>> \in Seq(Entry)
        OBVIOUS
      <4> QED
        BY <3>1, <4>1, SizesAppend, LineBytesType
    <3>6. Sizes(LineBytes, <<>>) = <<>>
      BY DEF Sizes
    <3>7. Total(Sizes(LineBytes, <<>>)) = 0
      BY <3>6, TotalEmpty
    <3>8. LineBytes[l] = ResponseBytes(e) /\ LineBytes[l] \in Nat
      BY <3>1, <3>3, LineBytesType DEF ResponseBytes
    <3>9. BytesOf(lines) = 0 + LineBytes[l]
      BY <2>1, <3>4, <3>5, <3>7
    <3> QED
      BY <1>3, <3>8, <3>9
  <2> QED
    BY <1>7, <1>10, <2>2, <2>3
<1>12. Get(e).path = path /\ Get(e).bytes = ResponseBytes(e)
  BY DEF Get
<1> QED
  BY <1>3, <1>11, <1>12 DEF Honest, lines

\* A structure is answered with the lines that were counted, unless some were not.
LEMMA StructureHonest ==
    ASSUME Discovered, ~SkippedAmongOthers, NEW f \in Holds(found)
    PROVE  Honest(GetStructure(StructureAddress(f)))
<1> DEFINE path == StructureAddress(f)
           P == {i \in DOMAIN xml :
                    /\ xml[i].category \notin {"other", "page"}
                    /\ path \in {Address(xml[i]), StructureAddress(xml[i])}
                    /\ \A j \in 1 .. i - 1 : Address(xml[j]) # Address(xml[i])}
           B == {e \in Entry : e.category # "page" /\ StructureAddress(e) = path}
           M == {i \in DOMAIN xml : Matched(xml[i])}
           Q == {i \in DOMAIN xml : i \in M /\ xml[i] \in B}
<1>1. xml \in Seq(Entry) /\ found \in Seq(Entry)
  BY FoundHolds
<1>2. \A i \in DOMAIN xml : xml[i] \in Entry
  BY <1>1, Elements
<1>3. Structured(path) = Picked(xml, Q)
  <2>1. found = Picked(xml, M)
    BY DEF Discovered
  <2>2. Those(Picked(xml, M), B) = Picked(xml, Q)
    <3> HIDE DEF M, B
    <3> QED
      BY <1>1, PickedOfPicked
  <2> DEFINE a == {i \in DOMAIN found : found[i] \in B}
             b == {i \in DOMAIN found :
                      found[i].category # "page" /\ StructureAddress(found[i]) = path}
  <2>3. a = b
    <3>1. \A i \in DOMAIN found : found[i] \in Entry
      BY <1>1, Elements
    <3>2. a \subseteq b
      OBVIOUS
    <3>3. b \subseteq a
      BY <3>1
    <3> QED
      BY <3>2, <3>3
  <2>4. Those(found, B) = Picked(found, a)
    BY DEF Those
  <2>5. Structured(path) = Picked(found, b)
    BY DEF Structured
  <2> HIDE DEF a, b, B, M, Q
  <2> QED
    BY <2>1, <2>2, <2>3, <2>4, <2>5
<1>4. ASSUME NEW i \in DOMAIN xml, i \in P
      PROVE  i \in Q
  <2> DEFINE e == xml[i]
  <2>1. e \in Entry /\ e.category \notin {"other", "page"} /\ path \in {Address(e), StructureAddress(e)}
    BY <1>2, <1>4
  <2>2. StructureAddress(e) = StructureAddress(f)
    <3>1. Len(Address(e)) = 3 /\ Len(StructureAddress(f)) = 2
      BY DEF Address, StructureAddress
    <3> QED
      BY <2>1, <3>1
  <2>3. e \in ToSet(Addressed(xml))
    <3> DEFINE A == {k \in DOMAIN xml : xml[k].category # "page"}
    <3>1. i \in A
      BY <2>1
    <3> HIDE DEF A
    <3>2. e \in Holds(Picked(xml, A))
      BY <1>1, <1>4, <3>1, PickedHolds
    <3> QED
      BY <3>2, HoldsIsToSet DEF Addressed, A
  <2>4. f \in ToSet(found)
    BY HoldsIsToSet
  <2>5. Matched(e)
    BY <2>1, <2>2, <2>3, <2>4 DEF SkippedAmongOthers
  <2> QED
    BY <1>4, <2>1, <2>2, <2>5
<1> DEFINE lines == Lines(path)
           counted == Structured(path)
<1>5. lines = Picked(xml, P) /\ lines \in Seq(Entry)
  BY <1>1, LinesHold DEF Lines
<1>6. counted \in Seq(Entry)
  <2> HIDE DEF Q
  <2> QED
    BY <1>1, <1>3, PickedHolds
<1>7. Total(Sizes(LineBytes, lines)) <= Total(Sizes(LineBytes, counted))
  <2> HIDE DEF P, Q, lines, counted
  <2>1. Total(Sizes(LineBytes, Picked(xml, P))) <= Total(Sizes(LineBytes, Picked(xml, Q)))
    BY <1>1, <1>4, LineBytesType, PickedTotal
  <2> QED
    BY <1>3, <1>5, <2>1 DEF counted
<1>8. GetStructure(path).path = path /\ GetStructure(path).bytes = BytesOf(counted)
  BY DEF GetStructure, StructureBytes, BytesOf
<1> HIDE DEF lines, counted
<1>9. BytesOf(lines) <= BytesOf(counted) /\ BytesOf(counted) \in Nat
  BY <1>5, <1>6, <1>7, BytesAreSizes
<1> QED
  BY <1>8, <1>9 DEF Honest, lines

-----------------------------------------------------------------------------
(***************************************************************************)
(* What is asked for                                                       *)
(***************************************************************************)
Readables == {e \in Holds(found) : e.category # "page"}

\* The getters of a house.
Asks == {Get(e) : e \in Readables} \cup {GetStructure(StructureAddress(e)) : e \in Readables}

LEMMA StructuredHolds ==
    ASSUME Discovered, NEW structure
    PROVE  /\ Structured(structure) \in Seq(Entry)
           /\ \A e : e \in Holds(Structured(structure))
                     <=> e \in Readables /\ StructureAddress(e) = structure
           /\ GetStructure(structure).bytes \in Nat
<1> DEFINE P == {i \in DOMAIN found :
                    found[i].category # "page" /\ StructureAddress(found[i]) = structure}
<1>1. found \in Seq(Entry)
  BY FoundHolds
<1>2. Structured(structure) = Picked(found, P)
  BY DEF Structured
<1>3. /\ Structured(structure) \in Seq(Entry)
      /\ \A e : e \in Holds(Structured(structure)) <=> \E i \in DOMAIN found : i \in P /\ e = found[i]
  <2> HIDE DEF P
  <2> QED
    BY <1>1, <1>2, PickedHolds
<1>4. \A e : e \in Holds(Structured(structure)) <=> e \in Readables /\ StructureAddress(e) = structure
  BY <1>3 DEF Readables, Holds
<1>5. BytesOf(Structured(structure)) \in Nat
  BY <1>3, BytesAreSizes
<1>6. GetStructure(structure).bytes = BytesOf(Structured(structure))
  BY DEF GetStructure, StructureBytes, BytesOf
<1> QED
  BY <1>3, <1>4, <1>5, <1>6

LEMMA AsksType ==
    ASSUME Discovered, NEW g \in Asks
    PROVE  /\ g.bytes \in Nat
           /\ ~SkippedAmongOthers => Honest(g)
<1>1. CASE \E e \in Readables : g = Get(e)
  <2>1. PICK e \in Readables : g = Get(e)
    BY <1>1
  <2>2. e \in Holds(xml) /\ xml \in DataXmls
    BY FoundHolds DEF Readables, Discovered
  <2> QED
    BY <2>1, <2>2, GetHonest DEF Honest
<1>2. CASE \E e \in Readables : g = GetStructure(StructureAddress(e))
  <2>1. PICK e \in Readables : g = GetStructure(StructureAddress(e))
    BY <1>2
  <2>2. g.bytes \in Nat
    BY <2>1, StructuredHolds
  <2>3. ~SkippedAmongOthers => Honest(g)
    BY <2>1, StructureHonest DEF Readables
  <2> QED
    BY <2>2, <2>3
<1> QED
  BY <1>1, <1>2 DEF Asks

\* The getter's answer has a line for the entry.
Covers(getter, e) == getter.path \in {Address(e), StructureAddress(e)}

LEMMA ExpandHolds ==
    ASSUME Discovered, NEW g \in Asks
    PROVE  /\ Expand(g) \in Seq(Asks)
           /\ \A x \in Holds(Expand(g)) : x.own \/ x.bytes <= MaxResponse
           /\ \A e \in Readables :
                 Covers(g, e) => \E x \in Holds(Expand(g)) : Covers(x, e)
<1>1. g.bytes \in Nat /\ MaxResponse \in Nat
  BY AsksType, BudgetAssumption
<1>2. CASE ~(~g.own /\ g.bytes > MaxResponse)
  <2>1. Expand(g) = <<g>>
    BY <1>2 DEF Expand
  <2>2. <<g>> \in Seq(Asks) /\ Holds(<<g>>) = {g}
    <3>1. DOMAIN <<g>> = {1} /\ <<g>>[1] = g
      OBVIOUS
    <3> QED
      BY <3>1 DEF Holds
  <2>3. g.own \/ g.bytes <= MaxResponse
    <3>1. CASE g.own
      BY <3>1
    <3>2. CASE ~g.own
      BY <1>1, <1>2, <3>2
    <3> QED
      BY <3>1, <3>2
  <2> QED
    BY <2>1, <2>2, <2>3
<1>3. CASE ~g.own /\ g.bytes > MaxResponse
  <2>1. PICK f \in Readables : g = GetStructure(StructureAddress(f))
    <3>1. \A f \in Readables : Get(f).own = TRUE
      BY DEF Get
    <3> QED
      BY <1>3, <3>1 DEF Asks
  <2> DEFINE structure == StructureAddress(f)
             members == Structured(structure)
  <2>2. g.path = structure
    BY <2>1 DEF GetStructure
  <2>3. /\ members \in Seq(Entry)
        /\ \A e : e \in Holds(members) <=> e \in Readables /\ StructureAddress(e) = structure
    BY StructuredHolds
  <2>4. Expand(g) = [i \in DOMAIN members |-> Get(members[i])]
    BY <1>3, <2>2 DEF Expand
  <2> HIDE DEF members
  <2>5. \A i \in DOMAIN members : members[i] \in Readables
    BY <2>3 DEF Holds
  <2>6. \A i \in DOMAIN members : Get(members[i]) \in Asks /\ Get(members[i]).own
    BY <2>5 DEF Asks, Get
  <2>7. Expand(g) \in [DOMAIN members -> Asks]
    BY <2>4, <2>6
  <2>8. Expand(g) \in Seq(Asks) /\ DOMAIN Expand(g) = DOMAIN members
    BY <2>3, <2>7, MapType
  <2>9. \A x \in Holds(Expand(g)) : x.own
    BY <2>4, <2>6, <2>8 DEF Holds
  <2>10. ASSUME NEW e \in Readables, Covers(g, e)
         PROVE  \E x \in Holds(Expand(g)) : Covers(x, e)
    <3>1. StructureAddress(e) = structure
      <4>1. Len(Address(e)) = 3 /\ Len(structure) = 2
        BY DEF Address, StructureAddress
      <4> QED
        BY <2>2, <2>10, <4>1 DEF Covers
    <3>2. PICK i \in DOMAIN members : members[i] = e
      BY <2>3, <3>1 DEF Holds
    <3>3. Get(e) \in Holds(Expand(g))
      BY <2>4, <2>8, <3>2 DEF Holds
    <3>4. Get(e).path = Address(e)
      BY DEF Get
    <3> QED
      BY <3>3, <3>4 DEF Covers
  <2> QED
    BY <2>8, <2>9, <2>10
<1> QED
  BY <1>2, <1>3

\* The "seen" filter keeps a getter of each path.
LEMMA DistinctHolds ==
    ASSUME NEW S, NEW list \in Seq(S)
    PROVE  /\ Distinct(list) \in Seq(S) /\ Holds(Distinct(list)) \subseteq Holds(list)
           /\ \A x \in Holds(list) : \E y \in Holds(Distinct(list)) : y.path = x.path
<1> DEFINE P == {i \in DOMAIN list : \A j \in 1 .. i - 1 : list[j].path # list[i].path}
<1>1. PICK size \in Nat : DOMAIN list = 1 .. size
  BY Elements
<1>2. Distinct(list) = Picked(list, P)
  BY DEF Distinct
<1>3. /\ Distinct(list) \in Seq(S)
      /\ \A x : x \in Holds(Distinct(list)) <=> \E i \in DOMAIN list : i \in P /\ x = list[i]
  <2> HIDE DEF P
  <2> QED
    BY <1>2, PickedHolds
<1>4. Holds(Distinct(list)) \subseteq Holds(list)
  <2> HIDE DEF P
  <2> QED
    BY <1>3 DEF Holds
<1>5. ASSUME NEW x \in Holds(list)
      PROVE  \E y \in Holds(Distinct(list)) : y.path = x.path
  <2> DEFINE T == {i \in DOMAIN list : list[i].path = x.path}
  <2>1. T \in SUBSET Nat /\ T # {}
    BY <1>1 DEF Holds
  <2> HIDE DEF T
  <2>2. PICK m \in T : \A k \in T : m <= k
    BY <2>1, LeastNatural
  <2>3. m \in 1 .. size /\ list[m].path = x.path
    BY <1>1, <2>2 DEF T
  <2>4. ASSUME NEW j \in 1 .. m - 1
        PROVE  list[j].path # list[m].path
    <3>1. j \in 1 .. size /\ ~(m <= j)
      BY <2>3
    <3>2. j \notin T
      BY <2>2, <3>1
    <3> QED
      BY <1>1, <2>3, <3>1, <3>2 DEF T
  <2>5. m \in P
    BY <1>1, <2>3, <2>4
  <2> QED
    BY <1>1, <1>3, <2>3, <2>5
<1> QED
  BY <1>3, <1>4, <1>5

LEMMA ReadableHolds ==
    ASSUME Discovered, NEW getters \in Seq(Asks)
    PROVE  /\ Readable(getters) \in Seq(Asks)
           /\ \A x \in Holds(Readable(getters)) : x.own \/ x.bytes <= MaxResponse
           /\ \A g \in Holds(getters), e \in Readables :
                 Covers(g, e) => \E x \in Holds(Readable(getters)) : Covers(x, e)
<1> DEFINE lists == [i \in DOMAIN getters |-> Expand(getters[i])]
           all == FlattenSeq(lists)
<1>1. \A i \in DOMAIN getters : getters[i] \in Asks
  BY Elements
<1>2. lists \in [DOMAIN getters -> Seq(Asks)]
  BY <1>1, ExpandHolds
<1>3. lists \in Seq(Seq(Asks)) /\ DOMAIN lists = DOMAIN getters
  BY <1>2, MapType
<1>4. \A i \in DOMAIN lists : lists[i] = Expand(getters[i])
  OBVIOUS
<1>5. Readable(getters) = Distinct(all)
  BY DEF Readable
<1> HIDE DEF lists
<1>6. /\ all \in Seq(Asks)
      /\ \A x : x \in Holds(all) <=> \E k \in DOMAIN lists : x \in Holds(lists[k])
  BY <1>3, FlattenHolds
<1> HIDE DEF all
<1>7. /\ Distinct(all) \in Seq(Asks) /\ Holds(Distinct(all)) \subseteq Holds(all)
      /\ \A x \in Holds(all) : \E y \in Holds(Distinct(all)) : y.path = x.path
  BY <1>6, DistinctHolds
<1>8. ASSUME NEW x \in Holds(Distinct(all))
      PROVE  x.own \/ x.bytes <= MaxResponse
  <2>1. PICK k \in DOMAIN lists : x \in Holds(lists[k])
    BY <1>6, <1>7
  <2> QED
    BY <1>1, <1>3, <1>4, <2>1, ExpandHolds
<1>9. ASSUME NEW g \in Holds(getters), NEW e \in Readables, Covers(g, e)
      PROVE  \E x \in Holds(Distinct(all)) : Covers(x, e)
  <2>1. PICK k \in DOMAIN getters : g = getters[k]
    BY DEF Holds
  <2>2. PICK x \in Holds(lists[k]) : Covers(x, e)
    BY <1>1, <1>3, <1>4, <1>9, <2>1, ExpandHolds
  <2>3. x \in Holds(all)
    BY <1>3, <1>6, <2>2
  <2>4. PICK y \in Holds(Distinct(all)) : y.path = x.path
    BY <1>7, <2>3
  <2> QED
    BY <2>2, <2>4 DEF Covers
<1> QED
  BY <1>5, <1>7, <1>8, <1>9

-----------------------------------------------------------------------------
(***************************************************************************)
(* What is answered                                                        *)
(***************************************************************************)
LEMMA CutOffHolds ==
    ASSUME NEW lines \in Seq(Entry)
    PROVE  /\ Holds(CutOff(lines)) \subseteq Holds(lines)
           /\ BytesOf(lines) <= DeviceResponse => CutOff(lines) = lines
<1> DEFINE Fits(n) == BytesOf(SubSeq(lines, 1, n)) <= DeviceResponse
           fitting == {n \in 0 .. Len(lines) : Fits(n)}
           last == Max(fitting)
<1>1. PICK size \in Nat : size = Len(lines) /\ DOMAIN lines = 1 .. size
  BY Elements
<1>2. \A i \in 1 .. size : lines[i] \in Entry
  BY <1>1, Elements
<1>3. CutOff(lines) = SubSeq(lines, 1, last)
  BY DEF CutOff
<1>4. fitting \in SUBSET (0 .. size) /\ fitting # {}
  <2>1. SubSeq(lines, 1, 0) = <<>>
    BY SubSeqEmpty
  <2>2. BytesOf(<<>>) = 0
    <3>1. <<>> \in Seq(Entry)
      OBVIOUS
    <3>2. Sizes(LineBytes, <<>>) = <<>>
      BY DEF Sizes
    <3> QED
      BY <3>1, <3>2, BytesAreSizes, TotalEmpty
  <2>3. DeviceResponse \in Nat /\ 0 \in 0 .. size
    BY HouseAssumption
  <2>4. Fits(0)
    <3>1. BytesOf(SubSeq(lines, 1, 0)) = 0
      BY <2>1, <2>2
    <3> QED
      BY <2>3, <3>1
  <2> HIDE DEF Fits
  <2>5. 0 \in fitting
    BY <1>1, <2>3, <2>4
  <2> QED
    BY <1>1, <2>5
<1>5. last \in fitting /\ \A n \in fitting : n <= last
  <2> HIDE DEF fitting
  <2> QED
    BY <1>4, LastPosition
<1>6. last \in 0 .. size
  BY <1>4, <1>5
<1>7. BytesOf(lines) <= DeviceResponse => last = size
  <2> SUFFICES ASSUME BytesOf(lines) <= DeviceResponse PROVE last = size
    OBVIOUS
  <2>1. SubSeq(lines, 1, size) = lines
    BY <1>1, SubSeqFull
  <2>2. Fits(size)
    BY <2>1
  <2>3. size <= last
    <3> HIDE DEF Fits
    <3>1. size \in fitting
      BY <1>1, <2>2
    <3> QED
      BY <1>5, <3>1
  <2> HIDE DEF last
  <2> QED
    BY <1>6, <2>3
<1> HIDE DEF last, fitting
<1> DEFINE short == SubSeq(lines, 1, last)
<1>8. /\ short \in Seq(Entry) /\ Len(short) = last
      /\ \A i \in 1 .. last : short[i] = lines[i]
  <2>1. \A i \in 1 .. last : lines[i] \in Entry
    BY <1>2, <1>6
  <2>2. 1 \in Int /\ last \in Int
    BY <1>6
  <2>3. /\ short \in Seq(Entry)
        /\ Len(short) = IF 1 <= last THEN last - 1 + 1 ELSE 0
        /\ \A i \in 1 .. last - 1 + 1 : short[i] = lines[1 + i - 1]
    BY <2>1, <2>2, SubSeqProperties
  <2>4. last - 1 + 1 = last /\ \A i \in 1 .. last : 1 + i - 1 = i
    BY <1>6
  <2>5. Len(short) = last
    BY <1>6, <2>3, <2>4
  <2> HIDE DEF short
  <2> QED
    BY <2>3, <2>4, <2>5
<1> HIDE DEF short
<1>9. Holds(short) \subseteq Holds(lines)
  <2>1. DOMAIN short = 1 .. last /\ \A i \in 1 .. last : i \in 1 .. size
    BY <1>6, <1>8, Elements
  <2> QED
    BY <1>1, <1>8, <2>1 DEF Holds
<1>10. last = size => short = lines
  <2> SUFFICES ASSUME last = size PROVE short = lines
    OBVIOUS
  <2>1. Len(short) = Len(lines) /\ \A i \in 1 .. Len(short) : short[i] = lines[i]
    BY <1>1, <1>8
  <2> QED
    BY <1>8, <2>1, SameElements
<1> QED
  BY <1>3, <1>7, <1>9, <1>10 DEF short

LEMMA ItemsOfType ==
    ASSUME Discovered, NEW asked \in Seq(Asks)
    PROVE  /\ ItemsOf(asked) \in Seq(Item) /\ Len(ItemsOf(asked)) = Len(asked)
           /\ \A i \in DOMAIN asked :
                 /\ ItemsOf(asked)[i].response = asked[i].bytes
                 /\ ItemsOf(asked)[i] = [fragment |-> PathLen, response |-> asked[i].bytes]
<1>1. \A i \in DOMAIN asked : asked[i] \in Asks
  BY Elements
<1>2. \A i \in DOMAIN asked : asked[i].bytes \in Nat
  BY <1>1, AsksType
<1>3. PathLen \in Nat
  BY HouseAssumption
<1>4. \A i \in DOMAIN asked : [fragment |-> PathLen, response |-> asked[i].bytes] \in Item
  BY <1>2, <1>3 DEF Item
<1>5. ItemsOf(asked) \in [DOMAIN asked -> Item]
  BY <1>4 DEF ItemsOf
<1>6. ItemsOf(asked) \in Seq(Item) /\ Len(ItemsOf(asked)) = Len(asked)
  BY <1>5, MapType
<1> QED
  BY <1>6 DEF ItemsOf

\* The lines of a request are no longer than its getters said.
LEMMA ReplyHolds ==
    ASSUME Discovered, NEW asked \in Seq(Asks), NEW chunk \in Seq(1 .. Len(asked))
    PROVE  /\ Reply(asked, chunk) \in Seq(Entry)
           /\ \A l : l \in Holds(Reply(asked, chunk))
                     <=> \E i \in Holds(chunk) : l \in Holds(Lines(asked[i].path))
           /\ (\A g \in Asks : Honest(g))
                 => BytesOf(Reply(asked, chunk)) <= ReplyBytes(ItemsOf(asked), chunk)
<1> DEFINE lists == [k \in DOMAIN chunk |-> Lines(asked[chunk[k]].path)]
           reply == FlattenSeq(lists)
           items == ItemsOf(asked)
           bounds == Responses(items, chunk)
<1>1. xml \in Seq(Entry)
  BY FoundHolds
<1>2. PICK n \in Nat : DOMAIN chunk = 1 .. n /\ Len(chunk) = n
  BY Elements
<1>3. \A k \in 1 .. n : chunk[k] \in DOMAIN asked /\ asked[chunk[k]] \in Asks
  <2>1. DOMAIN asked = 1 .. Len(asked) /\ \A i \in DOMAIN asked : asked[i] \in Asks
    BY Elements
  <2>2. \A k \in 1 .. n : chunk[k] \in 1 .. Len(asked)
    BY <1>2, Elements
  <2> QED
    BY <2>1, <2>2
<1>4. lists \in [1 .. n -> Seq(Entry)]
  <2>1. \A k \in 1 .. n : Lines(asked[chunk[k]].path) \in Seq(Entry)
    BY <1>1, LinesHold
  <2> QED
    BY <1>2, <2>1
<1>5. lists \in Seq(Seq(Entry)) /\ Len(lists) = n /\ DOMAIN lists = 1 .. n
  BY <1>4, LenOf
<1>6. \A k \in 1 .. n : lists[k] = Lines(asked[chunk[k]].path)
  BY <1>2
<1>7. Reply(asked, chunk) = reply
  BY DEF Reply
<1> HIDE DEF lists
<1>8. /\ reply \in Seq(Entry)
      /\ \A l : l \in Holds(reply) <=> \E k \in DOMAIN lists : l \in Holds(lists[k])
  BY <1>5, FlattenHolds
<1> HIDE DEF reply
<1>9. \A l : l \in Holds(reply) <=> \E i \in Holds(chunk) : l \in Holds(Lines(asked[i].path))
  <2>1. \A l : l \in Holds(reply)
                <=> \E k \in 1 .. n : l \in Holds(Lines(asked[chunk[k]].path))
    BY <1>5, <1>6, <1>8
  <2>2. \A i : i \in Holds(chunk) <=> \E k \in 1 .. n : i = chunk[k]
    BY <1>2 DEF Holds
  <2> QED
    BY <2>1, <2>2
<1>10. ASSUME \A g \in Asks : Honest(g)
       PROVE  BytesOf(reply) <= ReplyBytes(items, chunk)
  <2>1. /\ items \in Seq(Item) /\ Len(items) = Len(asked)
        /\ \A i \in DOMAIN asked : items[i].response = asked[i].bytes
    BY ItemsOfType
  <2> HIDE DEF items
  <2>2. chunk \in Seq(1 .. Len(items))
    BY <2>1
  <2>3. bounds \in Seq(Nat) /\ Len(bounds) = n
    BY <1>2, <2>1, <2>2, ChunkSizesType
  <2>4. \A k \in 1 .. n : bounds[k] = asked[chunk[k]].bytes
    BY <1>2, <1>3, <2>1 DEF Responses
  <2> HIDE DEF bounds
  <2>5. ASSUME NEW k \in 1 .. Len(lists)
        PROVE  Total(Sizes(LineBytes, lists[k])) <= bounds[k]
    <3>1. k \in 1 .. n /\ lists[k] = Lines(asked[chunk[k]].path)
      BY <1>5, <1>6
    <3>2. BytesOf(lists[k]) <= bounds[k]
      BY <1>3, <1>10, <2>4, <3>1 DEF Honest
    <3>3. lists[k] \in Seq(Entry)
      BY <1>4, <3>1
    <3> QED
      BY <3>2, <3>3, BytesAreSizes
  <2>6. Total(Sizes(LineBytes, FlattenSeq(lists))) <= Total(bounds)
    BY <1>5, <2>3, <2>5, LineBytesType, FlattenSizes
  <2>7. BytesOf(reply) <= Total(bounds)
    BY <1>8, <2>6, BytesAreSizes DEF reply
  <2> QED
    BY <2>7 DEF ReplyBytes, bounds
<1> QED
  BY <1>7, <1>8, <1>9, <1>10 DEF items

\* The answers have every line of every getter, unless a structure is longer than
\* its getter says.
LEMMA AnsweredHolds ==
    ASSUME Discovered, NEW getters \in Seq(Asks), ~TooLong(ItemsOf(Readable(getters)))
    PROVE  /\ Answered(getters) \subseteq Addresses
           /\ (\A g \in Asks : Honest(g))
                 => \A x \in Holds(Readable(getters)) : \A l \in Holds(Lines(x.path)) :
                        Address(l) \in Answered(getters)
<1> DEFINE asked == Readable(getters)
           items == ItemsOf(asked)
           chunks == Pack(items)
<1>1. xml \in Seq(Entry)
  BY FoundHolds
<1>2. asked \in Seq(Asks)
  BY ReadableHolds
<1>3. Answered(getters) =
          UNION {{Address(e) : e \in Holds(CutOff(Reply(asked, chunk)))} : chunk \in Holds(chunks)}
  BY HoldsIsToSet DEF Answered
<1> HIDE DEF asked
<1>4. items \in Seq(Item) /\ Len(items) = Len(asked)
  BY <1>2, ItemsOfType
<1>5. ~TooLong(items)
  BY DEF asked
<1> HIDE DEF items
<1>6. /\ chunks \in Seq(Seq(1 .. Len(items)))
      /\ \A k \in 1 .. Len(chunks) : Under(items, chunks[k])
      /\ CutsInOrder(chunks, Len(items))
  BY <1>4, <1>5, PackContract
<1> HIDE DEF chunks
<1>7. DOMAIN chunks = 1 .. Len(chunks)
  BY <1>6, Elements
<1>8. \A chunk \in Holds(chunks) : chunk \in Seq(1 .. Len(asked)) /\ Under(items, chunk)
  <2>1. \A k \in DOMAIN chunks : chunks[k] \in Seq(1 .. Len(items))
    BY <1>6, Elements
  <2> QED
    BY <1>4, <1>6, <1>7, <2>1 DEF Holds
<1>9. ASSUME NEW a \in Answered(getters)
      PROVE  a \in Addresses
  <2>0. PICK chunk \in Holds(chunks) :
            \E e \in Holds(CutOff(Reply(asked, chunk))) : a = Address(e)
    BY <1>3
  <2>1. PICK e \in Holds(CutOff(Reply(asked, chunk))) : a = Address(e)
    BY <2>0
  <2>2. chunk \in Seq(1 .. Len(asked))
    BY <1>8
  <2>3. Reply(asked, chunk) \in Seq(Entry)
    BY <1>2, <2>2, ReplyHolds
  <2>4. e \in Holds(Reply(asked, chunk))
    BY <2>3, CutOffHolds
  <2>5. PICK i \in Holds(chunk) : e \in Holds(Lines(asked[i].path))
    BY <1>2, <2>2, <2>4, ReplyHolds
  <2>6. e \in Holds(xml) /\ e.category # "page"
    BY <1>1, <2>5, LinesHold DEF Reaches
  <2>7. e \in ToSet(Addressed(xml))
    <3> DEFINE A == {k \in DOMAIN xml : xml[k].category # "page"}
    <3>1. \E i_1 \in DOMAIN xml : i_1 \in A /\ e = xml[i_1]
      BY <2>6 DEF Holds
    <3> HIDE DEF A
    <3>2. e \in Holds(Picked(xml, A))
      BY <1>1, <3>1, PickedHolds
    <3> QED
      BY <3>2, HoldsIsToSet DEF Addressed, A
  <2> QED
    BY <2>1, <2>7 DEF Addresses
<1>10. ASSUME \A g \in Asks : Honest(g),
              NEW x \in Holds(asked), NEW l \in Holds(Lines(x.path))
       PROVE  Address(l) \in Answered(getters)
  <2>1. PICK i \in 1 .. Len(items) : asked[i] = x
    <3>1. DOMAIN asked = 1 .. Len(asked)
      BY <1>2, Elements
    <3> QED
      BY <1>4, <3>1 DEF Holds
  <2>2. PICK k \in 1 .. Len(chunks) : i \in Holds(chunks[k])
    <3>1. Len(items) \in Nat
      BY <1>4, LenProperties
    <3> QED
      BY <1>6, <3>1, AllTaken
  <2> DEFINE chunk == chunks[k]
             reply == Reply(asked, chunk)
  <2>3. chunk \in Holds(chunks) /\ i \in Holds(chunk)
    BY <1>7, <2>2 DEF Holds
  <2> HIDE DEF chunk
  <2>4. chunk \in Seq(1 .. Len(asked)) /\ Under(items, chunk)
    BY <1>8, <2>3
  <2>5. reply \in Seq(Entry)
    BY <1>2, <2>4, ReplyHolds
  <2>6. l \in Holds(reply)
    BY <1>2, <2>1, <2>3, <2>4, ReplyHolds
  <2>7. BytesOf(reply) <= ReplyBytes(items, chunk)
    BY <1>2, <1>10, <2>4, ReplyHolds DEF items
  <2> HIDE DEF reply
  <2>8. BytesOf(reply) <= DeviceResponse
    <3>1. ReplyBytes(items, chunk) <= MaxResponse
      BY <2>4 DEF Under
    <3>2. ReplyBytes(items, chunk) \in Nat
      <4>1. chunk \in Seq(1 .. Len(items))
        BY <1>4, <2>4
      <4>2. Responses(items, chunk) \in Seq(Nat)
        BY <1>4, <4>1, ChunkSizesType
      <4> QED
        BY <4>2, TotalType DEF ReplyBytes
    <3>3. BytesOf(reply) \in Nat
      BY <2>5, BytesAreSizes
    <3> QED
      BY <2>7, <3>1, <3>2, <3>3, HouseAssumption, BudgetAssumption
  <2>9. CutOff(reply) = reply
    BY <2>5, <2>8, CutOffHolds
  <2> QED
    BY <1>3, <2>3, <2>6, <2>9 DEF reply
<1> QED
  BY <1>9, <1>10 DEF asked

-----------------------------------------------------------------------------
(***************************************************************************)
(* What a read shows                                                       *)
(***************************************************************************)
\* What is asked for is shown: as the device has it, or as missing where a reply may
\* have been cut off.
LEMMA ParsedShows ==
    ASSUME Discovered, NEW getters \in Seq(Asks), ~TooLong(ItemsOf(Readable(getters))),
           NEW e \in Readables, \E g \in Holds(getters) : Covers(g, e),
           version \in [Addresses -> 0 .. MaxWrites],
           NEW value, value = Parsed(Address(e), Answered(getters))
    PROVE  /\ value \in (0 .. MaxWrites) \cup {Missing}
           /\ \/ value = IF Address(e) \in off THEN Missing ELSE version[Address(e)]
              \/ value = Missing /\ SkippedAmongOthers
<1> DEFINE place == Address(e)
           asked == Readable(getters)
<1>1. Answered(getters) \subseteq Addresses
  BY AnsweredHolds
<1>2. value \in (0 .. MaxWrites) \cup {Missing}
  BY <1>1 DEF Parsed
<1>3. ASSUME ~SkippedAmongOthers
      PROVE  place \in Answered(getters)
  <2>1. \A g \in Asks : Honest(g)
    BY <1>3, AsksType
  <2>2. PICK g \in Holds(getters) : Covers(g, e)
    OBVIOUS
  <2>3. PICK x \in Holds(asked) : Covers(x, e)
    BY <2>2, ReadableHolds
  <2>4. xml \in Seq(Entry) /\ e \in Holds(xml) /\ Matched(e)
    BY FoundHolds DEF Readables
  <2>5. Reaches(x.path, e)
    BY <2>3, <2>4 DEF Reaches, Covers, Matched, Readables
  <2>6. PICK l \in Holds(Lines(x.path)) : Address(l) = place
    BY <2>4, <2>5, LinesHold
  <2>7. Address(l) \in Answered(getters)
    BY <2>1, <2>3, <2>6, AnsweredHolds
  <2> QED
    BY <2>6, <2>7
<1>4. value = Missing \/ value = IF place \in off THEN Missing ELSE version[place]
  BY DEF Parsed
<1>5. CASE SkippedAmongOthers
  BY <1>2, <1>4, <1>5
<1>6. CASE ~SkippedAmongOthers
  <2>1. place \in Answered(getters)
    BY <1>3, <1>6
  <2>2. value = IF place \in off THEN Missing ELSE version[place]
    BY <2>1 DEF Parsed
  <2> QED
    BY <1>2, <2>2
<1> QED
  BY <1>5, <1>6

\* A call is turned down for a variable only.
LEMMA TooLongHolds ==
    ASSUME Discovered, NEW getters \in Seq(Asks), TooLong(ItemsOf(Readable(getters)))
    PROVE  \E e \in ToSet(found) :
              ~FitsAlone([fragment |-> PathLen, response |-> ResponseBytes(e)])
<1> DEFINE asked == Readable(getters)
<1>1. asked \in Seq(Asks) /\ \A x \in Holds(asked) : x.own \/ x.bytes <= MaxResponse
  BY ReadableHolds
<1>2. TooLong(ItemsOf(asked))
  OBVIOUS
<1> HIDE DEF asked
<1>3. PICK i \in 1 .. Len(ItemsOf(asked)) : ~FitsAlone(ItemsOf(asked)[i])
  BY <1>2 DEF TooLong
<1>4. i \in DOMAIN asked
  <2>1. Len(ItemsOf(asked)) = Len(asked) /\ DOMAIN asked = 1 .. Len(asked)
    BY <1>1, ItemsOfType, Elements
  <2> QED
    BY <2>1
<1> DEFINE x == asked[i]
<1>5. x \in Asks /\ x \in Holds(asked)
  BY <1>1, <1>4, Elements DEF Holds
<1>6. ~FitsAlone([fragment |-> PathLen, response |-> x.bytes])
  BY <1>1, <1>3, <1>4, ItemsOfType
<1>7. x.own \/ x.bytes <= MaxResponse
  BY <1>1, <1>5
<1> HIDE DEF x
<1>8. CASE \E e \in Readables : x = Get(e)
  <2>1. PICK e \in Readables : x = Get(e)
    BY <1>8
  <2>2. x.bytes = ResponseBytes(e) /\ e \in ToSet(found)
    BY <2>1, HoldsIsToSet DEF Get, Readables
  <2> QED
    BY <1>6, <2>2
<1>9. CASE \E e \in Readables : x = GetStructure(StructureAddress(e))
  <2>1. PICK e \in Readables : x = GetStructure(StructureAddress(e))
    BY <1>9
  <2>2. x.bytes <= MaxResponse
    BY <1>7, <2>1 DEF GetStructure
  <2>3. ~(FragmentRequest([fragment |-> PathLen, response |-> x.bytes]) + Overhead <= MaxRequest)
    BY <1>6, <2>2 DEF FitsAlone
  <2>4. ~(FragmentRequest([fragment |-> PathLen, response |-> ResponseBytes(e)]) + Overhead <= MaxRequest)
    BY <2>3 DEF FragmentRequest
  <2>5. e \in ToSet(found)
    BY HoldsIsToSet DEF Readables
  <2> QED
    BY <2>4, <2>5 DEF FitsAlone
<1> QED
  BY <1>5, <1>8, <1>9 DEF Asks

\* The getters of a unit reach everything it is made of.
AsksFor(getters, unit) ==
    \A n \in Bound(unit) : \E g \in Holds(getters) : Covers(g, DriverApis[n])

LEMMA DriversFinite ==
    ASSUME Discovered
    PROVE  /\ IsFiniteSet(DOMAIN DriverApis)
           /\ \A n \in DOMAIN DriverApis : DriverApis[n] \in Readables
<1>1. found \in Seq(Entry)
  BY FoundHolds
<1>2. /\ DOMAIN DriverApis = {Name(e) : e \in {d \in Holds(found) : d.category = "driver"}}
      /\ \A n \in DOMAIN DriverApis :
            DriverApis[n] \in Holds(found) /\ DriverApis[n].category = "driver"
  BY ApisHold
<1> DEFINE f == [e \in Holds(found) |-> Name(e)]
           names == {Name(e) : e \in Holds(found)}
<1>3. IsFiniteSet(Holds(found))
  BY <1>1, HoldsFinite
<1>4. IsFiniteSet(names)
  <2>1. f \in [Holds(found) -> names]
    OBVIOUS
  <2>2. \A n \in names : \E e \in Holds(found) : f[e] = n
    OBVIOUS
  <2> HIDE DEF f, names
  <2> QED
    BY <1>3, <2>1, <2>2, FiniteImage
<1>5. DOMAIN DriverApis \subseteq names
  BY <1>2
<1>6. IsFiniteSet(DOMAIN DriverApis)
  BY <1>4, <1>5, FS_Subset
<1> QED
  BY <1>2, <1>6 DEF Readables

LEMMA GettersHold ==
    ASSUME Discovered, NEW unit
    PROVE  Getters(unit) \in Seq(Asks) /\ AsksFor(Getters(unit), unit)
<1>1. IsFiniteSet(DOMAIN DriverApis) /\ \A n \in DOMAIN DriverApis : DriverApis[n] \in Readables
  BY DriversFinite
<1>2. IsFiniteSet(Bound(unit)) /\ \A n \in Bound(unit) : DriverApis[n] \in Readables
  <2>1. Bound(unit) \subseteq DOMAIN DriverApis
    BY DEF Bound
  <2> QED
    BY <1>1, <2>1, FS_Subset
<1>3. CASE Cardinality(StructuresOf(unit)) = 1
  <2> DEFINE f == [n \in Bound(unit) |-> StructureAddress(DriverApis[n])]
             only == CHOOSE s \in StructuresOf(unit) : TRUE
  <2>1. IsFiniteSet(StructuresOf(unit))
    <3>1. f \in [Bound(unit) -> StructuresOf(unit)]
      BY DEF StructuresOf
    <3>2. \A s \in StructuresOf(unit) : \E n \in Bound(unit) : f[n] = s
      BY DEF StructuresOf
    <3> HIDE DEF f
    <3> QED
      BY <1>2, <3>1, <3>2, FiniteImage
  <2>2. PICK s : StructuresOf(unit) = {s}
    BY <1>3, <2>1, FS_Singleton
  <2>3. only = s
    BY <2>2
  <2>4. Getters(unit) = <<GetStructure(s)>>
    BY <1>3, <2>3 DEF Getters
  <2>5. PICK m \in Bound(unit) : s = StructureAddress(DriverApis[m])
    BY <2>2 DEF StructuresOf
  <2>6. GetStructure(s) \in Asks
    BY <1>2, <2>5 DEF Asks
  <2>7. Getters(unit) \in Seq(Asks) /\ Holds(Getters(unit)) = {GetStructure(s)}
    <3>1. DOMAIN <<GetStructure(s)>> = {1} /\ <<GetStructure(s)>>[1] = GetStructure(s)
      OBVIOUS
    <3> QED
      BY <2>4, <2>6, <3>1 DEF Holds
  <2>8. ASSUME NEW n \in Bound(unit)
        PROVE  Covers(GetStructure(s), DriverApis[n])
    <3>1. StructureAddress(DriverApis[n]) = s
      BY <2>2 DEF StructuresOf
    <3> QED
      BY <3>1 DEF Covers, GetStructure
  <2> QED
    BY <2>7, <2>8 DEF AsksFor
<1>4. CASE Cardinality(StructuresOf(unit)) # 1
  <2> DEFINE all == {Get(DriverApis[n]) : n \in Bound(unit)}
             f == [n \in Bound(unit) |-> Get(DriverApis[n])]
  <2>1. Getters(unit) = SetToSeq(all)
    BY <1>4 DEF Getters
  <2>2. IsFiniteSet(all)
    <3>1. f \in [Bound(unit) -> all]
      OBVIOUS
    <3>2. \A g \in all : \E n \in Bound(unit) : f[n] = g
      OBVIOUS
    <3> HIDE DEF f, all
    <3> QED
      BY <1>2, <3>1, <3>2, FiniteImage
  <2>3. all \subseteq Asks
    BY <1>2 DEF Asks
  <2>4. \A n \in Bound(unit) : Get(DriverApis[n]) \in all
    OBVIOUS
  <2> HIDE DEF all
  <2>5. SetToSeq(all) \in Seq(all) /\ Holds(SetToSeq(all)) = all
    BY <2>2, SetToSeqHolds
  <2>6. Getters(unit) \in Seq(Asks)
    BY <2>1, <2>3, <2>5
  <2>7. \A n \in Bound(unit) : Covers(Get(DriverApis[n]), DriverApis[n])
    BY DEF Covers, Get
  <2> QED
    BY <2>1, <2>4, <2>5, <2>6, <2>7 DEF AsksFor
<1> QED
  BY <1>3, <1>4

Kinds == {"system", "room", "blind", "device"}

LEMMA UnitsFinite ==
    ASSUME Discovered
    PROVE  IsFiniteSet(Units) /\ \A u \in Units : u.kind \in Kinds
<1> DEFINE names == {n.id : n \in DOMAIN DriverApis} \cup {System}
           f == [pair \in Kinds \X names |-> [kind |-> pair[1], id |-> pair[2]]]
           all == {f[pair] : pair \in Kinds \X names}
<1>1. IsFiniteSet(names)
  <2> DEFINE g == [n \in DOMAIN DriverApis |-> n.id]
             ids == {n.id : n \in DOMAIN DriverApis}
  <2>1. IsFiniteSet(ids)
    <3>1. g \in [DOMAIN DriverApis -> ids] /\ \A t \in ids : \E n \in DOMAIN DriverApis : g[n] = t
      OBVIOUS
    <3> HIDE DEF g, ids
    <3> QED
      BY <3>1, DriversFinite, FiniteImage
  <2>2. IsFiniteSet({System})
    BY FS_Singleton
  <2> QED
    BY <2>1, <2>2, FS_Union
<1>2. IsFiniteSet(Kinds)
  <2>1. IsFiniteSet({"system"} \cup {"room"}) /\ IsFiniteSet({"blind"} \cup {"device"})
    BY FS_Singleton, FS_Union
  <2>2. IsFiniteSet(({"system"} \cup {"room"}) \cup ({"blind"} \cup {"device"}))
    BY <2>1, FS_Union
  <2>3. Kinds = ({"system"} \cup {"room"}) \cup ({"blind"} \cup {"device"})
    BY DEF Kinds
  <2> QED
    BY <2>2, <2>3
<1>3. IsFiniteSet(all)
  <2> HIDE DEF names
  <2>1. IsFiniteSet(Kinds \X names)
    BY <1>1, <1>2, FS_Product
  <2>2. f \in [Kinds \X names -> all] /\ \A t \in all : \E pair \in Kinds \X names : f[pair] = t
    OBVIOUS
  <2> HIDE DEF f, all
  <2> QED
    BY <2>1, <2>2, FiniteImage
<1>4. ASSUME NEW u \in Units
      PROVE  u \in all /\ u.kind \in Kinds
  <2>1. PICK kind \in Kinds, id \in names : u = [kind |-> kind, id |-> id]
    BY DEF Units, Ids, DeviceIds, Kinds
  <2>2. u.kind \in Kinds
    BY <2>1
  <2> HIDE DEF names
  <2>3. <<kind, id>> \in Kinds \X names /\ f[<<kind, id>>] = u
    BY <2>1
  <2> HIDE DEF f
  <2>4. u \in all
    BY <2>3
  <2> QED
    BY <2>2, <2>4
<1>5. IsFiniteSet(Units)
  <2>1. Units \subseteq all
    BY <1>4
  <2> HIDE DEF all
  <2> QED
    BY <1>3, <2>1, FS_Subset
<1> QED
  BY <1>4, <1>5

LEMMA InOrderHolds ==
    ASSUME Discovered
    PROVE  UnitsInOrder \in Seq(Units) /\ Holds(UnitsInOrder) = Units
<1>1. ASSUME NEW kind
      PROVE  OfKind(kind) \in Seq(Units) /\ Holds(OfKind(kind)) = {u \in Units : u.kind = kind}
  <2> DEFINE those == {u \in Units : u.kind = kind}
  <2>1. IsFiniteSet(those) /\ those \subseteq Units
    <3>1. those \subseteq Units
      OBVIOUS
    <3> HIDE DEF those
    <3> QED
      BY <3>1, UnitsFinite, FS_Subset
  <2>2. OfKind(kind) = SetToSeq(those)
    BY DEF OfKind
  <2> HIDE DEF those
  <2>3. OfKind(kind) \in Seq(those) /\ Holds(OfKind(kind)) = those
    BY <2>1, <2>2, SetToSeqHolds
  <2>4. OfKind(kind) \in Seq(Units)
    BY <2>1, <2>3
  <2> QED
    BY <2>3, <2>4 DEF those
<1> DEFINE a == OfKind("system") \o OfKind("room")
           b == a \o OfKind("blind")
<1>2. a \in Seq(Units) /\ Holds(a) = Holds(OfKind("system")) \cup Holds(OfKind("room"))
  BY <1>1, ConcatHolds
<1> HIDE DEF a
<1>3. b \in Seq(Units) /\ Holds(b) = Holds(a) \cup Holds(OfKind("blind"))
  BY <1>1, <1>2, ConcatHolds
<1> HIDE DEF b
<1>4. /\ b \o OfKind("device") \in Seq(Units)
      /\ Holds(b \o OfKind("device")) = Holds(b) \cup Holds(OfKind("device"))
  BY <1>1, <1>3, ConcatHolds
<1>5. UnitsInOrder = b \o OfKind("device")
  BY DEF UnitsInOrder, a, b
<1>6. Holds(UnitsInOrder) = {u \in Units : u.kind = "system"} \cup {u \in Units : u.kind = "room"}
          \cup {u \in Units : u.kind = "blind"} \cup {u \in Units : u.kind = "device"}
  BY <1>1, <1>2, <1>3, <1>4, <1>5
<1>7. Holds(UnitsInOrder) = Units
  BY <1>6, UnitsFinite DEF Kinds
<1> QED
  BY <1>4, <1>5, <1>7

\* Controller.update asks for the variables of every unit.
LEMMA AllGettersHold ==
    ASSUME Discovered
    PROVE  AllGetters \in Seq(Asks) /\ \A unit \in Units : AsksFor(AllGetters, unit)
<1> DEFINE lists == [i \in DOMAIN UnitsInOrder |-> Getters(UnitsInOrder[i])]
<1>1. AllGetters = FlattenSeq(lists)
  BY DEF AllGetters
<1>2. lists \in Seq(Seq(Asks)) /\ DOMAIN lists = DOMAIN UnitsInOrder
  <2>1. lists \in [DOMAIN UnitsInOrder -> Seq(Asks)]
    BY GettersHold
  <2> HIDE DEF lists
  <2> QED
    BY <2>1, InOrderHolds, MapType
<1>3. \A i \in DOMAIN UnitsInOrder : lists[i] = Getters(UnitsInOrder[i])
  OBVIOUS
<1> HIDE DEF lists
<1>4. /\ AllGetters \in Seq(Asks)
      /\ \A x : x \in Holds(AllGetters) <=> \E k \in DOMAIN lists : x \in Holds(lists[k])
  BY <1>1, <1>2, FlattenHolds
<1>5. ASSUME NEW unit \in Units, NEW n \in Bound(unit)
      PROVE  \E g \in Holds(AllGetters) : Covers(g, DriverApis[n])
  <2>1. PICK i \in DOMAIN UnitsInOrder : UnitsInOrder[i] = unit
    BY InOrderHolds DEF Holds
  <2>2. PICK g \in Holds(Getters(unit)) : Covers(g, DriverApis[n])
    BY GettersHold DEF AsksFor
  <2>3. g \in Holds(AllGetters)
    BY <1>2, <1>3, <1>4, <2>1, <2>2
  <2> QED
    BY <2>2, <2>3
<1> QED
  BY <1>4, <1>5 DEF AsksFor

-----------------------------------------------------------------------------
(***************************************************************************)
(* What a read gives                                                       *)
(***************************************************************************)
\* What ShowsTheDevice and the type invariant say of one value shown.
Shows(value, place) ==
    /\ value \in (0 .. MaxWrites) \cup {Missing}
    /\ \/ value = IF place \in off THEN Missing ELSE version[place]
       \/ value = Missing /\ SkippedAmongOthers

ShowsAll(fields) ==
    \A field \in DOMAIN fields :
        Shows(fields[field], Whereabouts(field.name, field.unit.kind # "apis"))

LEMMA ReadShows ==
    ASSUME Discovered, version \in [Addresses -> 0 .. MaxWrites],
           NEW units \in SUBSET Units, NEW getters \in Seq(Asks),
           \A unit \in units : AsksFor(getters, unit),
           ~TooLong(ItemsOf(Readable(getters)))
    PROVE  ShowsAll(States(units, Answered(getters)))
<1> DEFINE fields == States(units, Answered(getters))
<1>1. SUFFICES ASSUME NEW field \in DOMAIN fields
               PROVE  Shows(fields[field], Whereabouts(field.name, field.unit.kind # "apis"))
  BY DEF ShowsAll
<1>2. PICK unit \in units : field \in [unit : {unit}, name : Bound(unit)]
  BY DEF States
<1>3. field.unit = unit /\ field.name \in Bound(unit)
  BY <1>2
<1>4. unit.kind # "apis"
  BY UnitsFinite DEF Kinds
<1>5. field.name \in DOMAIN DriverApis
  BY <1>3 DEF Bound
<1>6. Whereabouts(field.name, field.unit.kind # "apis") = Address(DriverApis[field.name])
  <2>1. (field.unit.kind # "apis") = TRUE
    BY <1>3, <1>4
  <2> QED
    BY <1>5, <2>1, ApisWhereabouts
<1>7. fields[field] = Parsed(Address(DriverApis[field.name]), Answered(getters))
  BY DEF States
<1>8. DriverApis[field.name] \in Readables
  BY <1>5, DriversFinite
<1>9. \E g \in Holds(getters) : Covers(g, DriverApis[field.name])
  BY <1>3 DEF AsksFor
<1> HIDE DEF fields
<1>10. Shows(fields[field], Address(DriverApis[field.name]))
  BY <1>7, <1>8, <1>9, ParsedShows DEF Shows
<1> QED
  BY <1>6, <1>10

LEMMA FlattenOne ==
    ASSUME NEW S, NEW s \in Seq(S)
    PROVE  FlattenSeq(<<s>>) = s
<1> DEFINE lists == <<s>>
<1>1. lists \in Seq(Seq(S)) /\ lists # <<>> /\ Len(lists) = 1 /\ lists[1] = s
  OBVIOUS
<1> HIDE DEF lists
<1>2. PICK f : FlattenRun(f, lists, Len(lists)) /\ FlattenSeq(lists) = f[Len(lists)]
  BY <1>1, FlattenIsRun
<1>3. f[1] = s
  BY <1>1, <1>2 DEF FlattenRun
<1>4. FlattenSeq(lists) = s
  BY <1>1, <1>2, <1>3
<1> QED
  BY <1>4 DEF lists

LEMMA DistinctOne ==
    ASSUME NEW g
    PROVE  Distinct(<<g>>) = <<g>>
<1> DEFINE list == <<g>>
           positions == {i \in DOMAIN list : \A j \in 1 .. i - 1 : list[j].path # list[i].path}
           part == [i \in 0 .. 1 |-> IF i = 0 THEN <<>> ELSE list]
<1>1. list \in Seq({g}) /\ Len(list) = 1 /\ list[1] = g /\ DOMAIN list = {1}
  OBVIOUS
<1>2. 1 \in positions
  BY <1>1
<1>3. PickRun(part, list, positions)
  <2>1. part[0] = <<>> /\ part[1] = list
    OBVIOUS
  <2>2. Append(<<>>, g) = list
    OBVIOUS
  <2> HIDE DEF list, part, positions
  <2>3. part[1] = With(part[1 - 1], list[1], 1 \in positions)
    BY <1>1, <1>2, <2>1, <2>2 DEF With
  <2>4. ASSUME NEW i \in 1 .. Len(list)
        PROVE  i = 1
    BY <1>1
  <2> QED
    BY <2>1, <2>3, <2>4, Zenon DEF PickRun
<1>4. Distinct(list) = Picked(list, positions)
  BY DEF Distinct
<1>5. part[1] = list
  OBVIOUS
<1> HIDE DEF list, part, positions
<1>6. Picked(list, positions) = part[Len(list)]
  BY <1>1, <1>3, PickedUnique
<1>7. Distinct(list) = list
  BY <1>1, <1>4, <1>5, <1>6
<1> QED
  BY <1>7 DEF list

\* A Get of one variable is sent as it is.
LEMMA ReadOneAsks ==
    ASSUME Discovered, NEW n \in DOMAIN Apis, Apis[n].category # "page"
    PROVE  /\ <<Get(Apis[n])>> \in Seq(Asks)
           /\ Get(Apis[n]) \in Holds(<<Get(Apis[n])>>)
           /\ Readable(<<Get(Apis[n])>>) = <<Get(Apis[n])>>
<1> DEFINE getters == <<Get(Apis[n])>>
<1>1. Apis[n] \in Readables
  BY ApisHold DEF Readables
<1>2. Get(Apis[n]) \in Asks
  BY <1>1 DEF Asks
<1>3. /\ getters \in Seq(Asks) /\ Len(getters) = 1 /\ getters[1] = Get(Apis[n])
      /\ DOMAIN getters = {1} /\ Get(Apis[n]) \in Holds(getters)
  BY <1>2 DEF Holds
<1>4. Readable(getters) = getters
  <2>1. Expand(Get(Apis[n])) = getters
    BY DEF Expand, Get
  <2> DEFINE lists == [i \in DOMAIN getters |-> Expand(getters[i])]
  <2>2. lists = <<getters>>
    BY <1>3, <2>1
  <2>3. FlattenSeq(<<getters>>) = getters
    BY <1>3, FlattenOne
  <2>4. Distinct(getters) = getters
    BY <1>3, DistinctOne
  <2> QED
    BY <2>2, <2>3, <2>4 DEF Readable
<1> QED
  BY <1>3, <1>4

\* Controller.read of one variable.
LEMMA ReadOneShows ==
    ASSUME Discovered, version \in [Addresses -> 0 .. MaxWrites],
           NEW n \in DOMAIN Apis, Apis[n].category # "page",
           ~TooLong(ItemsOf(<<Get(Apis[n])>>))
    PROVE  Shows(Parsed(Address(Apis[n]), Answered(<<Get(Apis[n])>>)), Whereabouts(n, FALSE))
<1> DEFINE getters == <<Get(Apis[n])>>
<1>1. Apis[n] \in Readables
  BY ApisHold DEF Readables
<1>3. getters \in Seq(Asks) /\ Get(Apis[n]) \in Holds(getters)
  BY ReadOneAsks
<1>4. Readable(getters) = getters
  BY ReadOneAsks
<1>5. Covers(Get(Apis[n]), Apis[n])
  BY DEF Covers, Get
<1>6. \E g \in Holds(getters) : Covers(g, Apis[n])
  BY <1>3, <1>5
<1>7. Address(Apis[n]) = Whereabouts(n, FALSE)
  BY ApisWhereabouts
<1>8. ~TooLong(ItemsOf(Readable(getters)))
  BY <1>4
<1> HIDE DEF getters
<1>9. Shows(Parsed(Address(Apis[n]), Answered(getters)), Address(Apis[n]))
  BY <1>1, <1>3, <1>6, <1>8, ParsedShows DEF Shows
<1> QED
  BY <1>7, <1>9 DEF getters

-----------------------------------------------------------------------------
(***************************************************************************)
(* The inductive invariant                                                 *)
(***************************************************************************)
\* rest is what is left of xml, and found what was kept of the entries before it.
Matching ==
    /\ xml \in DataXmls
    /\ rest \in Seq(Entry) /\ Len(rest) <= Len(xml)
    /\ \A i \in 1 .. Len(rest) : rest[i] = xml[Len(xml) - Len(rest) + i]
    /\ found = Picked(xml, {i \in 1 .. Len(xml) - Len(rest) : Matched(xml[i])})
    /\ connected => rest = <<>>

\* Nothing is read or written before __init__ is over.
Quiet == ~connected => shown = <<>> /\ outcome = "none"

HouseInv ==
    /\ Matching
    /\ Quiet
    /\ version \in [Addresses -> 0 .. MaxWrites]
    /\ ShowsAll(shown)
    /\ RaisesOnlyForLongVariables

LEMMA XmlType ==
    ASSUME xml \in DataXmls
    PROVE  xml \in Seq(Entry) /\ Len(xml) \in Nat /\ DOMAIN xml = 1 .. Len(xml)
<1>1. xml \in Seq(Entry)
  BY HouseAssumption
<1> QED
  BY <1>1, Elements

LEMMA MatchingOver ==
    ASSUME Matching, connected
    PROVE  Discovered
<1>1. rest = <<>> /\ Len(rest) = 0
  BY DEF Matching
<1>2. {i \in 1 .. Len(xml) - Len(rest) : Matched(xml[i])} = {i \in DOMAIN xml : Matched(xml[i])}
  <2>1. 1 .. Len(xml) - Len(rest) = DOMAIN xml
    BY <1>1, XmlType DEF Matching
  <2> QED
    BY <2>1
<1> QED
  BY <1>2 DEF Matching, Discovered

LEMMA InitHouse ==
    ASSUME Init
    PROVE  HouseInv
<1>1. xml \in Seq(Entry) /\ Len(xml) \in Nat
  BY XmlType DEF Init
<1>2. Matching
  <2> DEFINE positions == {i \in 1 .. Len(xml) - Len(rest) : Matched(xml[i])}
  <2>1. positions = {}
    BY <1>1 DEF Init
  <2> HIDE DEF positions
  <2>2. /\ Picked(xml, positions) \in Seq(Entry)
        /\ \A x : x \in Holds(Picked(xml, positions))
                  <=> \E i \in DOMAIN xml : i \in positions /\ x = xml[i]
    BY <1>1, PickedHolds
  <2>3. Picked(xml, positions) = <<>>
    <3> DEFINE part == Picked(xml, positions)
    <3>1. Holds(part) = {}
      BY <2>1, <2>2
    <3>2. part \in Seq(Entry)
      BY <2>2
    <3> HIDE DEF part
    <3>3. Len(part) \in Nat /\ (Len(part) > 0 => part[1] \in Holds(part))
      BY <3>2 DEF Holds
    <3>4. Len(part) = 0
      BY <3>1, <3>3
    <3>5. part = <<>>
      BY <3>2, <3>4
    <3> QED
      BY <3>5 DEF part
  <2>4. \A i \in 1 .. Len(rest) : rest[i] = xml[Len(xml) - Len(rest) + i]
    BY <1>1 DEF Init
  <2> QED
    BY <1>1, <2>3, <2>4 DEF Init, Matching, positions
<1>3. version \in [Addresses -> 0 .. MaxWrites]
  <2>1. 0 \in 0 .. MaxWrites
    BY HouseAssumption
  <2> QED
    BY <2>1 DEF Init
<1>4. ShowsAll(shown)
  <2>1. DOMAIN shown = {}
    BY DEF Init
  <2> QED
    BY <2>1 DEF ShowsAll
<1> QED
  BY <1>2, <1>3, <1>4 DEF Init, HouseInv, Quiet, RaisesOnlyForLongVariables

\* What the entry at the head of rest does to found.
LEMMA NextEntry ==
    ASSUME Matching, rest # <<>>
    PROVE  LET before == {i \in 1 .. Len(xml) - Len(rest) : Matched(xml[i])}
               after == {i \in 1 .. Len(xml) - Len(Tail(rest)) : Matched(xml[i])}
           IN  /\ Tail(rest) \in Seq(Entry) /\ Len(Tail(rest)) <= Len(xml)
               /\ \A i \in 1 .. Len(Tail(rest)) :
                      Tail(rest)[i] = xml[Len(xml) - Len(Tail(rest)) + i]
               /\ Picked(xml, after) = IF Matched(Head(rest))
                                       THEN Append(Picked(xml, before), Head(rest))
                                       ELSE Picked(xml, before)
<1> DEFINE before == {i \in 1 .. Len(xml) - Len(rest) : Matched(xml[i])}
           after == {i \in 1 .. Len(xml) - Len(Tail(rest)) : Matched(xml[i])}
           last == Len(xml) - Len(rest) + 1
<1>1. xml \in Seq(Entry) /\ Len(xml) \in Nat /\ DOMAIN xml = 1 .. Len(xml)
  BY XmlType DEF Matching
<1>2. /\ rest \in Seq(Entry) /\ Len(rest) \in Nat \ {0} /\ Len(rest) <= Len(xml)
      /\ Tail(rest) \in Seq(Entry) /\ Len(Tail(rest)) = Len(rest) - 1
      /\ Head(rest) = rest[1]
      /\ \A i \in 1 .. Len(rest) - 1 : Tail(rest)[i] = rest[i + 1]
  BY DEF Matching
<1>3. \A i \in 1 .. Len(rest) : rest[i] = xml[Len(xml) - Len(rest) + i]
  BY DEF Matching
<1>4. last \in DOMAIN xml /\ xml[last] = Head(rest)
  BY <1>1, <1>2, <1>3
<1>5. \A i \in 1 .. Len(Tail(rest)) : Tail(rest)[i] = xml[Len(xml) - Len(Tail(rest)) + i]
  BY <1>1, <1>2, <1>3
<1>6. Len(xml) - Len(rest) = last - 1 /\ Len(xml) - Len(Tail(rest)) = last
  BY <1>1, <1>2
<1>7. before = {i \in 1 .. last - 1 : Matched(xml[i])} /\ after = {i \in 1 .. last : Matched(xml[i])}
  BY <1>6
<1>8. Len(Tail(rest)) <= Len(xml)
  BY <1>1, <1>2
<1>9. CASE Matched(Head(rest))
  <2>1. after = before \cup {last} /\ before \subseteq 1 .. last - 1
    <3> HIDE DEF before, after, last
    <3> QED
      BY <1>1, <1>4, <1>7, <1>9
  <2> HIDE DEF before, after, last
  <2>2. Picked(xml, after) = Append(Picked(xml, before), Head(rest))
    BY <1>1, <1>4, <2>1, PickedAdd
  <2> QED
    BY <1>2, <1>5, <1>9, <1>8, <2>2 DEF before, after
<1>10. CASE ~Matched(Head(rest))
  <2>1. after = before
    <3> HIDE DEF before, after, last
    <3> QED
      BY <1>1, <1>4, <1>7, <1>10
  <2> QED
    BY <1>2, <1>5, <1>10, <1>8, <2>1
<1> QED
  BY <1>9, <1>10

\* While data.xml, found, off and the versions are as they were, what was right to be
\* shown is right still.
LEMMA StillRight ==
    ASSUME UNCHANGED <<xml, found, off, version>>
    PROVE  /\ \A n, drivers : Whereabouts(n, drivers)' = Whereabouts(n, drivers)
           /\ SkippedAmongOthers' <=> SkippedAmongOthers
<1>1. ASSUME NEW n, NEW drivers
      PROVE  Whereabouts(n, drivers)' = Whereabouts(n, drivers)
  BY DEF Whereabouts, Address, Name, Matched
<1>2. SkippedAmongOthers' <=> SkippedAmongOthers
  BY DEF SkippedAmongOthers, Addressed, StructureAddress, Matched
<1> QED
  BY <1>1, <1>2

\* A call that goes through shows what the getters gave.
LEMMA NowShown ==
    ASSUME NEW fields, ShowsAll(fields), shown' = fields, UNCHANGED <<xml, found, off, version>>
    PROVE  ShowsAll(shown)'
<1>1. SUFFICES ASSUME NEW field \in DOMAIN fields
               PROVE  LET place == Whereabouts(field.name, field.unit.kind # "apis")'
                      IN  /\ fields[field] \in (0 .. MaxWrites) \cup {Missing}
                          /\ \/ fields[field] = IF place \in off THEN Missing ELSE version[place]
                             \/ fields[field] = Missing /\ SkippedAmongOthers'
  BY DEF ShowsAll, Shows
<1>2. Shows(fields[field], Whereabouts(field.name, field.unit.kind # "apis"))
  BY DEF ShowsAll
<1>3. Whereabouts(field.name, field.unit.kind # "apis")'
          = Whereabouts(field.name, field.unit.kind # "apis")
  BY StillRight
<1>4. SkippedAmongOthers' <=> SkippedAmongOthers
  BY StillRight
<1> QED
  BY <1>2, <1>3, <1>4 DEF Shows

LEMMA StillShown ==
    ASSUME ShowsAll(shown), UNCHANGED <<xml, found, off, version, shown>>
    PROVE  ShowsAll(shown)'
BY NowShown

LEMMA NothingShown ==
    ASSUME shown' = <<>>
    PROVE  ShowsAll(shown)'
<1>1. DOMAIN shown' = {}
  BY DEF ShowsAll
<1> QED
  BY <1>1 DEF ShowsAll

LEMMA SameAddresses ==
    ASSUME UNCHANGED xml
    PROVE  Addresses' = Addresses
BY DEF Addresses, Addressed, Address

LEMMA SameMatching ==
    ASSUME Matching, UNCHANGED <<xml, rest, found, connected>>
    PROVE  Matching'
BY DEF Matching, Matched

LEMMA ReadUnitsKeeps ==
    ASSUME HouseInv, NEW units \in SUBSET Units, NEW getters \in Seq(Asks),
           \A unit \in units : AsksFor(getters, unit),
           ReadUnits(units, getters)
    PROVE  HouseInv'
<1>1. Discovered
  BY MatchingOver DEF HouseInv, ReadUnits
<1>2. Matching'
  BY SameMatching DEF HouseInv, ReadUnits
<1>3. version \in [Addresses -> 0 .. MaxWrites] /\ (version \in [Addresses -> 0 .. MaxWrites])'
  BY SameAddresses DEF HouseInv, ReadUnits
<1>4. connected'
  BY DEF ReadUnits
<1>5. CASE TooLong(ItemsOf(Readable(getters)))
  <2>1. ShowsAll(shown)'
    BY <1>5, StillShown DEF HouseInv, ReadUnits
  <2>2. RaisesOnlyForLongVariables'
    <3>1. \E e \in ToSet(found) :
              ~FitsAlone([fragment |-> PathLen, response |-> ResponseBytes(e)])
      BY <1>1, <1>5, TooLongHolds
    <3>2. found' = found
      BY DEF ReadUnits
    <3> QED
      BY <3>1, <3>2 DEF RaisesOnlyForLongVariables
  <2> QED
    BY <1>2, <1>3, <1>4, <2>1, <2>2 DEF HouseInv, Quiet
<1>6. CASE ~TooLong(ItemsOf(Readable(getters)))
  <2>1. ShowsAll(States(units, Answered(getters)))
    BY <1>1, <1>3, <1>6, ReadShows
  <2>2. shown' = States(units, Answered(getters)) /\ outcome' = "read"
    BY <1>6 DEF ReadUnits
  <2>3. ShowsAll(shown)'
    BY <2>1, <2>2, NowShown DEF ReadUnits
  <2> QED
    BY <1>2, <1>3, <1>4, <2>2, <2>3 DEF HouseInv, Quiet, RaisesOnlyForLongVariables
<1> QED
  BY <1>5, <1>6

LEMMA ReadKeeps ==
    ASSUME HouseInv, NEW n \in DOMAIN Apis, Read(n)
    PROVE  HouseInv'
<1> DEFINE fields == [field \in {[unit |-> [kind |-> "apis", id |-> n.id], name |-> n]} |->
                          Parsed(Address(Apis[n]), Answered(<<Get(Apis[n])>>))]
<1>1. Discovered
  BY MatchingOver DEF HouseInv, Read
<1>2. Matching'
  BY SameMatching DEF HouseInv, Read
<1>3. version \in [Addresses -> 0 .. MaxWrites] /\ (version \in [Addresses -> 0 .. MaxWrites])'
  BY SameAddresses DEF HouseInv, Read
<1>4. connected'
  BY DEF Read
<1>5. CASE Apis[n].category = "page"
  <2>1. outcome' = "IQtecError" /\ UNCHANGED <<xml, found, off, version, shown>>
    BY <1>5 DEF Read
  <2>2. ShowsAll(shown)'
    BY <2>1, StillShown DEF HouseInv
  <2> QED
    BY <1>2, <1>3, <1>4, <2>1, <2>2 DEF HouseInv, Quiet, RaisesOnlyForLongVariables
<1>6. CASE Apis[n].category # "page" /\ TooLong(ItemsOf(<<Get(Apis[n])>>))
  <2>1. outcome' = "RequestTooLongError" /\ UNCHANGED <<xml, found, off, version, shown>>
    BY <1>6 DEF Read
  <2>2. ShowsAll(shown)'
    BY <2>1, StillShown DEF HouseInv
  <2>3. \E e \in ToSet(found) :
            ~FitsAlone([fragment |-> PathLen, response |-> ResponseBytes(e)])
    BY <1>1, <1>6, ReadOneAsks, TooLongHolds
  <2>4. RaisesOnlyForLongVariables'
    BY <2>1, <2>3 DEF RaisesOnlyForLongVariables
  <2> QED
    BY <1>2, <1>3, <1>4, <2>1, <2>2, <2>4 DEF HouseInv, Quiet
<1>7. CASE Apis[n].category # "page" /\ ~TooLong(ItemsOf(<<Get(Apis[n])>>))
  <2>1. /\ outcome' = "read" /\ shown' = fields
        /\ UNCHANGED <<xml, found, off, version>>
    BY <1>7 DEF Read
  <2>2. Shows(Parsed(Address(Apis[n]), Answered(<<Get(Apis[n])>>)), Whereabouts(n, FALSE))
    BY <1>1, <1>3, <1>7, ReadOneShows
  <2>3. ShowsAll(fields)
    <3>1. ASSUME NEW field \in DOMAIN fields
          PROVE  Shows(fields[field], Whereabouts(field.name, field.unit.kind # "apis"))
      <4>1. field = [unit |-> [kind |-> "apis", id |-> n.id], name |-> n]
        OBVIOUS
      <4>2. field.name = n /\ (field.unit.kind # "apis") = FALSE
        BY <4>1
      <4>3. fields[field] = Parsed(Address(Apis[n]), Answered(<<Get(Apis[n])>>))
        OBVIOUS
      <4> HIDE DEF fields
      <4> QED
        BY <2>2, <4>2, <4>3
    <3> QED
      BY <3>1 DEF ShowsAll
  <2> HIDE DEF fields
  <2>4. ShowsAll(shown)'
    BY <2>1, <2>3, NowShown
  <2> QED
    BY <1>2, <1>3, <1>4, <2>1, <2>4 DEF HouseInv, Quiet, RaisesOnlyForLongVariables
<1> QED
  BY <1>5, <1>6, <1>7

LEMMA SetValueKeeps ==
    ASSUME HouseInv, NEW unit \in Units, NEW n \in DOMAIN DriverApis, SetValue(unit, n)
    PROVE  HouseInv'
<1>1. Discovered
  BY MatchingOver DEF HouseInv, SetValue
<1>2. Matching'
  BY SameMatching DEF HouseInv, SetValue
<1>3. Addresses' = Addresses
  BY SameAddresses DEF SetValue
<1>4. version' \in [Addresses -> 0 .. MaxWrites]
  <2>1. version \in [Addresses -> 0 .. MaxWrites]
    BY DEF HouseInv
  <2>2. CASE UNCHANGED version
    BY <2>1, <2>2
  <2>3. CASE /\ \A a \in Addresses : version[a] < MaxWrites
             /\ version' = [version EXCEPT ![Address(DriverApis[n])] = @ + 1]
    <3>1. \A a \in Addresses : version[a] + 1 \in 0 .. MaxWrites
      BY <2>1, <2>3, HouseAssumption
    <3> QED
      BY <2>1, <2>3, <3>1
  <2> QED
    BY <2>2, <2>3 DEF SetValue
<1>5. shown' = <<>> /\ outcome' # "RequestTooLongError" /\ connected'
  BY DEF SetValue
<1>6. ShowsAll(shown)'
  BY <1>5, NothingShown
<1> QED
  BY <1>2, <1>3, <1>4, <1>5, <1>6 DEF HouseInv, Quiet, RaisesOnlyForLongVariables

LEMMA DiscoveryKeeps ==
    ASSUME HouseInv, Match \/ Skip \/ Connect
    PROVE  HouseInv'
<1>1. /\ ~connected /\ shown = <<>> /\ outcome = "none"
      /\ UNCHANGED <<xml, off, version, shown, outcome>>
  BY DEF HouseInv, Quiet, Matching, Match, Skip, Connect
<1>2. (version \in [Addresses -> 0 .. MaxWrites])'
  BY <1>1, SameAddresses DEF HouseInv
<1>3. ShowsAll(shown)'
  BY <1>1, NothingShown
<1>4. Quiet' /\ RaisesOnlyForLongVariables'
  BY <1>1 DEF Quiet, RaisesOnlyForLongVariables
<1>5. Matching'
  <2>1. CASE Match \/ Skip
    <3>1. /\ Matching /\ rest # <<>> /\ UNCHANGED <<xml, connected>> /\ rest' = Tail(rest)
          /\ found' = IF Matched(Head(rest)) THEN Append(found, Head(rest)) ELSE found
      BY <2>1 DEF HouseInv, Match, Skip
    <3>2. found = Picked(xml, {i \in 1 .. Len(xml) - Len(rest) : Matched(xml[i])})
      BY <3>1 DEF Matching
    <3>3. /\ rest' \in Seq(Entry) /\ Len(rest') <= Len(xml)
          /\ \A i \in 1 .. Len(rest') : rest'[i] = xml[Len(xml) - Len(rest') + i]
          /\ found' = Picked(xml, {i \in 1 .. Len(xml) - Len(rest') : Matched(xml[i])})
      BY <3>1, <3>2, NextEntry
    <3> QED
      BY <1>1, <3>1, <3>3 DEF Matching, Matched
  <2>2. CASE Connect
    BY <2>2 DEF HouseInv, Matching, Connect, Matched
  <2> QED
    BY <2>1, <2>2
<1> QED
  BY <1>2, <1>3, <1>4, <1>5 DEF HouseInv

LEMMA StepHouse ==
    ASSUME HouseInv, [Next]_vars
    PROVE  HouseInv'
<1>1. CASE Match \/ Skip \/ Connect
  BY <1>1, DiscoveryKeeps
<1>2. CASE Update
  <2>1. ReadUnits(Units, AllGetters)
    BY <1>2 DEF Update
  <2>2. Discovered
    BY <2>1, MatchingOver DEF HouseInv, ReadUnits
  <2> QED
    BY <2>1, <2>2, AllGettersHold, ReadUnitsKeeps
<1>3. ASSUME NEW unit \in Units, UpdateUnit(unit)
      PROVE  HouseInv'
  <2>1. ReadUnits({unit}, Getters(unit))
    BY <1>3 DEF UpdateUnit
  <2>2. Discovered
    BY <2>1, MatchingOver DEF HouseInv, ReadUnits
  <2>3. Getters(unit) \in Seq(Asks) /\ \A u \in {unit} : AsksFor(Getters(unit), u)
    BY <2>2, GettersHold
  <2>4. {unit} \in SUBSET Units
    OBVIOUS
  <2> QED
    BY <2>1, <2>3, <2>4, ReadUnitsKeeps
<1>4. ASSUME NEW n \in DOMAIN Apis, Read(n)
      PROVE  HouseInv'
  BY <1>4, ReadKeeps
<1>5. ASSUME NEW unit \in Units, NEW n \in {m \in DOMAIN DriverApis : m.id = unit.id},
             SetValue(unit, n)
      PROVE  HouseInv'
  <2>1. n \in DOMAIN DriverApis
    OBVIOUS
  <2> QED
    BY <1>5, <2>1, SetValueKeeps
<1>6. CASE UNCHANGED vars
  <2>1. UNCHANGED <<xml, rest, found, connected, off, version, shown, outcome>>
    BY <1>6 DEF vars
  <2>2. Matching' /\ ShowsAll(shown)' /\ Addresses' = Addresses
    BY <2>1, SameMatching, StillShown, SameAddresses DEF HouseInv
  <2> QED
    BY <2>1, <2>2 DEF HouseInv, Quiet, RaisesOnlyForLongVariables
<1> QED
  BY <1>1, <1>2, <1>3, <1>4, <1>5, <1>6 DEF Next

LEMMA HouseInvariant == Spec => []HouseInv
<1>1. Init => HouseInv
  BY InitHouse
<1>2. HouseInv /\ [Next]_vars => HouseInv'
  BY StepHouse
<1> QED
  BY <1>1, <1>2, PTL DEF Spec

-----------------------------------------------------------------------------
(***************************************************************************)
(* The theorems                                                            *)
(***************************************************************************)
\* The state stays of its type: match_api keeps the entries of data.xml it
\* understands, in their order, a write counts for an address the device has, and a
\* read shows versions or None.
THEOREM HouseTyped == Spec => []TypeOK
<1>1. HouseInv => TypeOK
  BY DEF HouseInv, Matching, ShowsAll, Shows, TypeOK
<1> QED
  BY <1>1, HouseInvariant, PTL

\* Controller.update, StatefulUnit.update and Controller.read show of every variable
\* what the device has there, be it asked for with its structure or by itself, in one
\* request or several: never the value of another, never an old one, and None only for
\* a variable that is off, or where match_api skipped entries of a structure.
THEOREM ReadsShowTheDevice == Spec => []ShowsTheDevice
<1>1. HouseInv => ShowsTheDevice
  BY DEF HouseInv, ShowsAll, Shows, ShowsTheDevice
<1> QED
  BY <1>1, HouseInvariant, PTL

\* An api_call of the units, or Controller.read of a variable, raises
\* RequestTooLongError only for a variable that is itself too long for a request.
THEOREM LongStructuresCanBeRead == Spec => []RaisesOnlyForLongVariables
<1>1. HouseInv => RaisesOnlyForLongVariables
  BY DEF HouseInv
<1> QED
  BY <1>1, HouseInvariant, PTL

\* Controller.__init__ leaves no driver variable of data.xml without a unit to reach
\* it through, but those of a room's or a blind's name that these do not know.
THEOREM VariablesHaveAPlace == Spec => []EveryVariableHasAPlace
<1>1. ASSUME HouseInv, connected, NEW e \in ToSet(xml), e.sound, e.category = "driver",
             e.id \in RoomIds => e.var \in RoomVars, e.id \in BlindIds => e.var \in BlindVars
      PROVE  \E unit \in Units : unit.kind # "system" /\ Name(e) \in Bound(unit)
  <2>1. Discovered
    BY <1>1, MatchingOver DEF HouseInv
  <2>2. e \in Holds(found)
    <3>1. e \in Holds(xml) /\ Matched(e)
      BY <1>1, HoldsIsToSet DEF Matched
    <3> QED
      BY <2>1, <3>1, FoundHolds
  <2>3. Name(e) \in DOMAIN DriverApis /\ Name(e).id = e.id /\ Name(e).var = e.var
    <3>1. e \in {d \in Holds(found) : d.category = "driver"}
      BY <1>1, <2>2
    <3>2. Name(e) \in DOMAIN DriverApis
      BY <2>1, <3>1, ApisHold
    <3> QED
      BY <3>2 DEF Name
  <2>4. e.id \in Ids
    BY <2>3 DEF Ids
  <2>5. CASE e.id \in RoomIds
    <3> DEFINE unit == [kind |-> "room", id |-> e.id]
    <3>1. unit \in Units /\ unit.kind = "room" /\ unit.id = e.id
      BY <2>4, <2>5 DEF Units
    <3>2. Name(e) \in Bound(unit)
      BY <1>1, <2>3, <2>5, <3>1 DEF Bound, Takes
    <3> HIDE DEF unit
    <3> QED
      BY <3>1, <3>2
  <2>6. CASE e.id \in BlindIds
    <3> DEFINE unit == [kind |-> "blind", id |-> e.id]
    <3>1. unit \in Units /\ unit.kind = "blind" /\ unit.id = e.id
      BY <2>4, <2>6 DEF Units
    <3>2. Name(e) \in Bound(unit)
      BY <1>1, <2>3, <2>6, <3>1 DEF Bound, Takes
    <3> HIDE DEF unit
    <3> QED
      BY <3>1, <3>2
  <2>7. CASE e.id \notin RoomIds \cup BlindIds
    <3> DEFINE unit == [kind |-> "device", id |-> e.id]
    <3>1. unit \in Units /\ unit.kind = "device" /\ unit.id = e.id
      BY <2>4, <2>7 DEF Units, DeviceIds
    <3>2. Name(e) \in Bound(unit)
      BY <2>3, <3>1 DEF Bound, Takes
    <3> HIDE DEF unit
    <3> QED
      BY <3>1, <3>2
  <2> QED
    BY <2>5, <2>6, <2>7
<1>2. HouseInv => EveryVariableHasAPlace
  BY <1>1 DEF EveryVariableHasAPlace
<1> QED
  BY <1>2, HouseInvariant, PTL
=============================================================================
