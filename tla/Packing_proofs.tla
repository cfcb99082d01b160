--------------------------- MODULE Packing_proofs ---------------------------
(***************************************************************************)
(* Facts about the operators of Packing: the sum of a sequence of sizes,   *)
(* what one iteration of the loop does to the packer, and what the loop    *)
(* makes of a list.  They are stated here once and cited by the proofs     *)
(* about the modules that pack requests, as are the facts about numbers at *)
(* the start and about sequences at the end, which others use too.         *)
(***************************************************************************)
EXTENDS Packing, Integers, SequencesExt, FiniteSets, FiniteSetTheorems, SequenceTheorems,
        WellFoundedInduction, TLAPS

\* Every non-empty set of naturals has a least element: the induction on data
\* of the lemmas below is by least counterexample.
LEMMA LeastNatural ==
  ASSUME NEW T \in SUBSET Nat, T # {}
  PROVE  \E m \in T : \A k \in T : m <= k
  <1> DEFINE U == {0 .. m : m \in T}
  <1>1. U \subseteq FiniteSubsetsOf(Nat)
    <2> SUFFICES ASSUME NEW m \in T
                 PROVE  0 .. m \in FiniteSubsetsOf(Nat)
      OBVIOUS
    <2>1. IsFiniteSet(0 .. m)
      BY FS_Interval
    <2> QED BY <2>1 DEF FiniteSubsetsOf
  <1>2. IsWellFoundedOn(StrictSubsetOrdering(Nat), FiniteSubsetsOf(Nat))
    BY FS_StrictSubsetOrderingWellFounded
  <1>3. \E x \in U : \A y \in U : ~ (<<y, x>> \in StrictSubsetOrdering(Nat))
    <2>1. U # {}
      OBVIOUS
    <2> HIDE DEF U
    <2> QED BY <1>1, <1>2, <2>1, WFMin
  <1>4. PICK m \in T :
            \A y \in U : ~ (<<y, 0 .. m>> \in StrictSubsetOrdering(Nat))
    BY <1>3
  <1>5. ASSUME NEW k \in T, k < m PROVE FALSE
    <2>1. <<0 .. k, 0 .. m>> \in StrictSubsetOrdering(Nat)
      BY <1>5, <1>1 DEF StrictSubsetOrdering
    <2> QED BY <2>1, <1>4
  <1> QED BY <1>5

\* Induction on the positions of a list.
LEMMA Upwards ==
    ASSUME NEW size \in Nat, NEW Good,
           0 \in Good, \A i \in 1 .. size : i - 1 \in Good => i \in Good
    PROVE  \A i \in 0 .. size : i \in Good
<1> DEFINE Bad == {i \in 0 .. size : i \notin Good}
<1> SUFFICES ASSUME Bad # {} PROVE FALSE
  OBVIOUS
<1>1. PICK n \in Bad : \A k \in Bad : n <= k
  <2>1. Bad \in SUBSET Nat
    OBVIOUS
  <2> HIDE DEF Bad
  <2> QED
    BY <2>1, LeastNatural
<1>2. n \in 1 .. size /\ n - 1 \in 0 .. size /\ ~(n <= n - 1)
  <2>1. n \in 0 .. size /\ n # 0
    BY <1>1
  <2> QED
    BY <2>1
<1>3. n - 1 \in Good
  BY <1>1, <1>2
<1> QED
  BY <1>1, <1>2, <1>3

-----------------------------------------------------------------------------
(***************************************************************************)
(* Numbers: maxima, products and division                                  *)
(***************************************************************************)
LEMMA MaxMin ==
    ASSUME NEW a \in Int, NEW b \in Int
    PROVE  /\ Max({a, b}) = (IF a >= b THEN a ELSE b)
           /\ Min({a, b}) = (IF a <= b THEN a ELSE b)
<1>1. Max({a, b}) = (IF a >= b THEN a ELSE b)
  <2>1. \E x \in {a, b} : \A y \in {a, b} : x >= y
    OBVIOUS
  <2> QED
    BY <2>1 DEF Max
<1>2. Min({a, b}) = (IF a <= b THEN a ELSE b)
  <2>1. \E x \in {a, b} : \A y \in {a, b} : x <= y
    OBVIOUS
  <2> QED
    BY <2>1 DEF Min
<1> QED
  BY <1>1, <1>2

LEMMA Products ==
    ASSUME NEW a \in Int, NEW b \in Int, NEW k \in Nat
    PROVE  /\ a * k \in Int
           /\ (a + 1) * k = a * k + k
           /\ a <= b => a * k <= b * k
           /\ a < b => a * k + k <= b * k
<1>1. a * k \in Int /\ b * k \in Int /\ (b - a) * k \in Int
  OBVIOUS
<1>2. (a + 1) * k = a * k + k /\ b * k = a * k + (b - a) * k
  OBVIOUS
<1>3. ASSUME NEW n \in Nat
      PROVE  n * k \in Nat /\ (n >= 1 => n * k >= k)
  <2>1. n * k \in Nat
    OBVIOUS
  <2>2. ASSUME n >= 1
        PROVE  n * k >= k
    <3>1. n - 1 \in Nat /\ (n - 1) * k \in Nat
      BY <2>2
    <3>2. n * k = (n - 1) * k + k
      OBVIOUS
    <3> QED
      BY <3>1, <3>2
  <2> QED
    BY <2>1, <2>2
<1>4. ASSUME a <= b
      PROVE  a * k <= b * k
  <2>1. b - a \in Nat
    BY <1>4
  <2>2. (b - a) * k \in Nat
    BY <1>3, <2>1
  <2> QED
    BY <1>1, <1>2, <2>2
<1>5. ASSUME a < b
      PROVE  a * k + k <= b * k
  <2>1. b - a \in Nat /\ b - a >= 1
    BY <1>5
  <2>2. (b - a) * k >= k
    BY <1>3, <2>1
  <2> QED
    BY <1>1, <1>2, <2>2
<1> QED
  BY <1>1, <1>2, <1>4, <1>5

LEMMA Division ==
    ASSUME NEW size \in Nat \ {0}, NEW q \in Int, NEW r \in 0 .. size - 1,
           NEW x, x = q * size + r
    PROVE  x \in Int /\ x \div size = q /\ x % size = r
<1>1. q * size \in Int /\ x \in Int
  BY Products
<1> DEFINE quotient == x \div size
           remainder == x % size
<1>2. /\ quotient \in Int /\ remainder \in 0 .. size - 1
      /\ x = quotient * size + remainder
  BY <1>1
<1> HIDE DEF quotient, remainder
<1>3. ~(quotient < q)
  <2>1. quotient < q => quotient * size + size <= q * size
    BY <1>2, Products
  <2> QED
    BY <1>1, <1>2, <2>1
<1>4. ~(q < quotient)
  <2>1. q < quotient => q * size + size <= quotient * size
    BY <1>2, Products
  <2> QED
    BY <1>1, <1>2, <2>1
<1>5. quotient = q
  BY <1>2, <1>3, <1>4
<1>6. remainder = r
  BY <1>1, <1>2, <1>5
<1> QED
  BY <1>1, <1>5, <1>6 DEF quotient, remainder

LEMMA Divided ==
    ASSUME NEW size \in Nat \ {0}, NEW x \in Int
    PROVE  \E q \in Int, r \in 0 .. size - 1 : x = q * size + r
<1> DEFINE quotient == x \div size
           remainder == x % size
<1>1. /\ quotient \in Int /\ remainder \in 0 .. size - 1
      /\ x = quotient * size + remainder
  OBVIOUS
<1> HIDE DEF quotient, remainder
<1> QED
  BY <1>1

-----------------------------------------------------------------------------
\* f holds the running sums of the first n elements of s.
RunningSum(f, s, n) ==
  /\ f[0] = 0
  /\ \A k \in 1 .. n : f[k] = f[k - 1] + s[k]

\* A sequence of naturals has running sums.
LEMMA RunningSumExists ==
  ASSUME NEW s \in Seq(Nat)
  PROVE  \E f \in [0 .. Len(s) -> Nat] : RunningSum(f, s, Len(s))
  <1> DEFINE Has(n) == \E f \in [0 .. n -> Nat] : RunningSum(f, s, n)
             Bad == {n \in 0 .. Len(s) : ~Has(n)}
  <1>1. Has(0)
    <2> DEFINE f == [k \in 0 .. 0 |-> 0]
    <2>1. f \in [0 .. 0 -> Nat] /\ RunningSum(f, s, 0)
      BY DEF RunningSum
    <2> QED BY <2>1
  <1>2. ASSUME NEW n \in 0 .. Len(s), n # 0, Has(n - 1) PROVE Has(n)
    <2>1. PICK f \in [0 .. n - 1 -> Nat] : RunningSum(f, s, n - 1)
      BY <1>2
    <2> DEFINE g == [k \in 0 .. n |-> IF k = n THEN f[n - 1] + s[n] ELSE f[k]]
    <2>2. s[n] \in Nat /\ n - 1 \in 0 .. n - 1
      BY <1>2
    <2>3. g \in [0 .. n -> Nat]
      BY <2>2
    <2>4. RunningSum(g, s, n)
      <3>1. g[0] = 0
        BY <1>2, <2>1 DEF RunningSum
      <3>2. ASSUME NEW k \in 1 .. n PROVE g[k] = g[k - 1] + s[k]
        <4>1. CASE k = n
          BY <4>1, <2>2
        <4>2. CASE k # n
          <5>1. k \in 1 .. n - 1 /\ k - 1 \in 0 .. n /\ k - 1 # n /\ k \in 0 .. n
            BY <4>2
          <5>2. f[k] = f[k - 1] + s[k]
            BY <5>1, <2>1 DEF RunningSum
          <5> QED BY <5>1, <5>2, <4>2
        <4> QED BY <4>1, <4>2
      <3> QED BY <3>1, <3>2 DEF RunningSum
    <2> QED BY <2>3, <2>4
  <1>3. Bad = {}
    <2> SUFFICES ASSUME Bad # {} PROVE FALSE
      OBVIOUS
    <2>1. PICK n \in Bad : \A k \in Bad : n <= k
      <3>1. Bad \in SUBSET Nat
        OBVIOUS
      <3> QED BY <3>1, LeastNatural
    <2>2. n # 0
      BY <1>1
    <2>3. n \in 0 .. Len(s) /\ ~Has(n)
      BY <2>1
    <2>4. n - 1 \in 0 .. Len(s) /\ ~(n <= n - 1)
      BY <2>2, <2>3
    <2>5. n - 1 \notin Bad
      BY <2>1, <2>4
    <2> HIDE DEF Has
    <2>6. Has(n - 1)
      BY <2>4, <2>5
    <2> QED BY <2>2, <2>3, <2>6, <1>2
  <1>4. Len(s) \in 0 .. Len(s)
    OBVIOUS
  <1> QED BY <1>3, <1>4

\* Sequences that agree on their first n elements have the same running sums.
LEMMA RunningSumUnique ==
  ASSUME NEW n \in Nat, NEW s, NEW t, NEW f, NEW g,
         RunningSum(f, s, n), RunningSum(g, t, n),
         \A k \in 1 .. n : s[k] = t[k]
  PROVE  \A k \in 0 .. n : f[k] = g[k]
  <1> DEFINE Bad == {k \in 0 .. n : f[k] # g[k]}
  <1> SUFFICES ASSUME Bad # {} PROVE FALSE
    OBVIOUS
  <1>1. PICK m \in Bad : \A k \in Bad : m <= k
    <2>1. Bad \in SUBSET Nat
      OBVIOUS
    <2> QED BY <2>1, LeastNatural
  <1>2. m # 0
    BY DEF RunningSum
  <1>3. m \in 1 .. n /\ m - 1 \in 0 .. n /\ m - 1 \notin Bad
    BY <1>1, <1>2
  <1>4. f[m - 1] = g[m - 1]
    BY <1>3
  <1>5. f[m] = g[m]
    BY <1>3, <1>4 DEF RunningSum
  <1> QED BY <1>5

\* Total is the last running sum.
LEMMA TotalIsRunningSum ==
  ASSUME NEW s \in Seq(Nat)
  PROVE  \E f \in [0 .. Len(s) -> Nat] :
            RunningSum(f, s, Len(s)) /\ Total(s) = f[Len(s)]
  <1> DEFINE Sums(f) ==
        [k \in 0 .. Len(s) |-> IF k = 0 THEN 0 ELSE f[k - 1] + s[k]]
  <1> DEFINE sum == CHOOSE f : f = Sums(f)
  <1>1. PICK f \in [0 .. Len(s) -> Nat] : RunningSum(f, s, Len(s))
    BY RunningSumExists
  <1>2. f = Sums(f)
    BY <1>1 DEF RunningSum
  <1>3. sum = Sums(sum)
    BY <1>2
  <1>4. RunningSum(sum, s, Len(s))
    <2> HIDE DEF sum
    <2>1. sum[0] = 0
      BY <1>3
    <2>2. ASSUME NEW k \in 1 .. Len(s) PROVE sum[k] = sum[k - 1] + s[k]
      <3>1. k \in 0 .. Len(s) /\ k # 0
        OBVIOUS
      <3>2. Sums(sum)[k] = sum[k - 1] + s[k]
        BY <3>1
      <3> HIDE DEF Sums
      <3> QED BY <1>3, <3>2
    <2> QED BY <2>1, <2>2 DEF RunningSum
  <1>5. \A k \in 0 .. Len(s) : sum[k] = f[k]
    <2> HIDE DEF sum
    <2> QED BY <1>1, <1>4, RunningSumUnique, Len(s) \in Nat
  <1>6. Total(s) = sum[Len(s)]
    BY DEF Total
  <1> HIDE DEF sum
  <1>7. Total(s) = f[Len(s)]
    BY <1>5, <1>6
  <1> QED BY <1>1, <1>7

\* What there is to know of the sum of a sequence of naturals.
LEMMA TotalEmpty == Total(<< >>) = 0
  <1>1. << >> \in Seq(Nat) /\ Len(<< >>) = 0
    OBVIOUS
  <1>2. PICK f \in [0 .. 0 -> Nat] :
            RunningSum(f, << >>, 0) /\ Total(<< >>) = f[0]
    BY <1>1, TotalIsRunningSum
  <1> QED BY <1>2 DEF RunningSum

LEMMA TotalType ==
  ASSUME NEW s \in Seq(Nat)
  PROVE  Total(s) \in Nat
  <1>1. PICK f \in [0 .. Len(s) -> Nat] : Total(s) = f[Len(s)]
    BY TotalIsRunningSum
  <1> QED BY <1>1

LEMMA TotalExtend ==
  ASSUME NEW s \in Seq(Nat), NEW t \in Seq(Nat), Len(t) = Len(s) + 1,
         \A k \in 1 .. Len(s) : s[k] = t[k]
  PROVE  Total(t) = Total(s) + t[Len(t)]
  <1>1. PICK f \in [0 .. Len(s) -> Nat] :
            RunningSum(f, s, Len(s)) /\ Total(s) = f[Len(s)]
    BY TotalIsRunningSum
  <1>2. PICK g \in [0 .. Len(t) -> Nat] :
            RunningSum(g, t, Len(t)) /\ Total(t) = g[Len(t)]
    BY TotalIsRunningSum
  <1>3. PICK n \in Nat : n = Len(s)
    OBVIOUS
  <1>4. RunningSum(f, s, n) /\ RunningSum(g, t, n)
    BY <1>1, <1>2, <1>3 DEF RunningSum
  <1>5. \A k \in 1 .. n : s[k] = t[k]
    BY <1>3
  <1>6. \A k \in 0 .. n : f[k] = g[k]
    BY <1>4, <1>5, RunningSumUnique
  <1>7. f[n] = g[n]
    BY <1>6
  <1>8. g[n + 1] = g[n] + t[n + 1]
    <2>1. n + 1 \in 1 .. Len(t) /\ (n + 1) - 1 = n
      BY <1>3
    <2> QED BY <1>2, <2>1 DEF RunningSum
  <1> QED BY <1>1, <1>2, <1>3, <1>7, <1>8

LEMMA TotalAppend ==
  ASSUME NEW s \in Seq(Nat), NEW x \in Nat
  PROVE  Total(Append(s, x)) = Total(s) + x
  <1>1. Append(s, x) \in Seq(Nat) /\ Len(Append(s, x)) = Len(s) + 1
    OBVIOUS
  <1>2. \A k \in 1 .. Len(s) : s[k] = Append(s, x)[k]
    OBVIOUS
  <1>3. Append(s, x)[Len(s) + 1] = x
    OBVIOUS
  <1> QED BY <1>1, <1>2, <1>3, TotalExtend
-----------------------------------------------------------------------------
\* The sizes of an item of a list are natural numbers.
LEMMA ItemType ==
  ASSUME NEW items \in Seq(Item), NEW i \in 1 .. Len(items)
  PROVE  items[i].fragment \in Nat /\ items[i].response \in Nat
  <1>1. items[i] \in Item
    OBVIOUS
  <1>2. \A item \in Item : item.fragment \in Nat /\ item.response \in Nat
    BY DEF Item
  <1> QED BY <1>1, <1>2

\* The bytes of the items of a chunk are natural numbers.
LEMMA ChunkSizesType ==
  ASSUME NEW items \in Seq(Item), NEW chunk \in Seq(1 .. Len(items))
  PROVE  /\ Fragments(items, chunk) \in Seq(Nat)
         /\ Responses(items, chunk) \in Seq(Nat)
         /\ Len(Fragments(items, chunk)) = Len(chunk)
         /\ Len(Responses(items, chunk)) = Len(chunk)
  <1>1. \A k \in 1 .. Len(chunk) : chunk[k] \in 1 .. Len(items)
    OBVIOUS
  <1>2. \A k \in 1 .. Len(chunk) :
            /\ items[chunk[k]].fragment \in Nat
            /\ items[chunk[k]].response \in Nat
    BY <1>1, ItemType
  <1>3. Len(chunk) \in Nat
    OBVIOUS
  <1> QED BY <1>2, <1>3 DEF Fragments, Responses

\* One more item adds its own bytes to those of the chunk.
LEMMA ChunkSizesAppend ==
  ASSUME NEW items \in Seq(Item), NEW chunk \in Seq(1 .. Len(items)),
         NEW i \in 1 .. Len(items)
  PROVE  /\ Total(Fragments(items, Append(chunk, i)))
                = Total(Fragments(items, chunk)) + items[i].fragment
         /\ Total(Responses(items, Append(chunk, i)))
                = Total(Responses(items, chunk)) + items[i].response
  <1> DEFINE longer == Append(chunk, i)
  <1>1. /\ longer \in Seq(1 .. Len(items))
        /\ Len(longer) = Len(chunk) + 1
        /\ longer[Len(chunk) + 1] = i
        /\ \A k \in 1 .. Len(chunk) : longer[k] = chunk[k]
    OBVIOUS
  <1> HIDE DEF longer
  <1>2. /\ Fragments(items, longer) \in Seq(Nat)
        /\ Responses(items, longer) \in Seq(Nat)
        /\ Len(Fragments(items, longer)) = Len(chunk) + 1
        /\ Len(Responses(items, longer)) = Len(chunk) + 1
    BY <1>1, ChunkSizesType
  <1>3. /\ Fragments(items, chunk) \in Seq(Nat)
        /\ Responses(items, chunk) \in Seq(Nat)
        /\ Len(Fragments(items, chunk)) = Len(chunk)
        /\ Len(Responses(items, chunk)) = Len(chunk)
    BY ChunkSizesType
  <1>4. /\ \A k \in 1 .. Len(chunk) :
              Fragments(items, chunk)[k] = Fragments(items, longer)[k]
        /\ \A k \in 1 .. Len(chunk) :
              Responses(items, chunk)[k] = Responses(items, longer)[k]
    BY <1>1 DEF Fragments, Responses
  <1>5. /\ Fragments(items, longer)[Len(chunk) + 1] = items[i].fragment
        /\ Responses(items, longer)[Len(chunk) + 1] = items[i].response
    BY <1>1 DEF Fragments, Responses
  <1>6. Total(Fragments(items, longer))
            = Total(Fragments(items, chunk)) + items[i].fragment
    BY <1>2, <1>3, <1>4, <1>5, TotalExtend
  <1>7. Total(Responses(items, longer))
            = Total(Responses(items, chunk)) + items[i].response
    BY <1>2, <1>3, <1>4, <1>5, TotalExtend
  <1> QED BY <1>6, <1>7 DEF longer

\* A chunk of nothing weighs nothing.
LEMMA ChunkSizesEmpty ==
  ASSUME NEW items
  PROVE  /\ Total(Fragments(items, << >>)) = 0
         /\ Total(Responses(items, << >>)) = 0
  <1>1. Fragments(items, << >>) = << >> /\ Responses(items, << >>) = << >>
    BY DEF Fragments, Responses
  <1> QED BY <1>1, TotalEmpty

\* An item fits alone just when the chunk that holds it alone is under both
\* limits.
LEMMA FitsAloneIsUnder ==
  ASSUME NEW items \in Seq(Item), NEW i \in 1 .. Len(items)
  PROVE  FitsAlone(items[i]) <=> Under(items, << i >>)
  <1>1. /\ Total(Fragments(items, Append(<< >>, i))) = items[i].fragment
        /\ Total(Responses(items, Append(<< >>, i))) = items[i].response
    <2>1. << >> \in Seq(1 .. Len(items))
      OBVIOUS
    <2>2. items[i].fragment \in Nat /\ items[i].response \in Nat
      BY ItemType
    <2>3. /\ Total(Fragments(items, Append(<< >>, i)))
                = Total(Fragments(items, << >>)) + items[i].fragment
          /\ Total(Responses(items, Append(<< >>, i)))
                = Total(Responses(items, << >>)) + items[i].response
      BY <2>1, ChunkSizesAppend
    <2>4. Total(Fragments(items, << >>)) = 0 /\ Total(Responses(items, << >>)) = 0
      BY ChunkSizesEmpty
    <2> QED BY <2>2, <2>3, <2>4
  <1>2. Append(<< >>, i) = << i >> /\ Len(<< i >>) = 1
    OBVIOUS
  <1>3. items[i].fragment \in Nat /\ items[i].response \in Nat
    BY ItemType
  <1> QED BY <1>1, <1>2, <1>3, BudgetAssumption
      DEF FitsAlone, Under, RequestBytes, ReplyBytes, FragmentRequest
-----------------------------------------------------------------------------
(***************************************************************************)
(* The loop invariant of pack_chunks, for a packer that has taken the      *)
(* first n items.                                                          *)
(***************************************************************************)
\* The running totals are those of the open chunk, and no chunk, open or
\* closed, is over a limit.
Accounting(items, p) ==
  /\ p.current_request
        = Overhead + Total(Fragments(items, p.current)) + Len(p.current)
  /\ p.current_response = Total(Responses(items, p.current))
  /\ p.current # << >> =>
        p.current_request <= MaxRequest /\ p.current_response <= MaxResponse
  /\ \A k \in 1 .. Len(p.chunks) : Under(items, p.chunks[k])

\* The open chunk holds the last items taken, the closed ones all before them.
InOrder(p, n) ==
  /\ Len(p.current) <= n
  /\ n # 0 => p.current # << >>
  /\ \A j \in 1 .. Len(p.current) : p.current[j] = n - Len(p.current) + j
  /\ CutsInOrder(p.chunks, n - Len(p.current))

\* No other cutting has reached the first item of the open chunk in fewer
\* chunks.
Leading(items, p, n) ==
  \A cut \in Cuttings(items) :
     n # 0 => Len(p.chunks) + 1 <= cut[p.current[1]]

PackerInv(items, p, n) ==
  /\ p \in Packer(items)
  /\ \A i \in 1 .. n : FitsAlone(items[i])
  /\ Accounting(items, p)
  /\ InOrder(p, n)
  /\ Leading(items, p, n)

LEMMA EmptyPackerInv ==
  ASSUME NEW items \in Seq(Item)
  PROVE  PackerInv(items, EmptyPacker, 0)
  <1>1. EmptyPacker \in Packer(items)
    <2>1. << >> \in Seq(Seq(1 .. Len(items))) /\ << >> \in Seq(1 .. Len(items))
      OBVIOUS
    <2> QED BY <2>1, BudgetAssumption DEF EmptyPacker, Packer
  <1>2. Accounting(items, EmptyPacker)
    BY ChunkSizesEmpty, BudgetAssumption DEF Accounting, EmptyPacker
  <1>3. InOrder(EmptyPacker, 0)
    <2>1. EmptyPacker.chunks = << >> /\ EmptyPacker.current = << >>
      BY DEF EmptyPacker
    <2>2. CutsInOrder(<< >>, 0)
      BY DEF CutsInOrder
    <2> QED BY <2>1, <2>2 DEF InOrder
  <1> QED BY <1>1, <1>2, <1>3 DEF PackerInv, Leading

\* Closing a chunk keeps the order, whatever the next chunk will hold.
LEMMA CloseInOrder ==
  ASSUME NEW S, NEW chunks \in Seq(Seq(S)), NEW current \in Seq(S), NEW n \in Nat,
         S \subseteq Nat, current # << >>, Len(current) <= n,
         \A j \in 1 .. Len(current) : current[j] = n - Len(current) + j,
         CutsInOrder(chunks, n - Len(current))
  PROVE  CutsInOrder(Append(chunks, current), n)
  <1> DEFINE more == Append(chunks, current)
  <1>1. /\ Len(more) = Len(chunks) + 1
        /\ more[Len(chunks) + 1] = current
        /\ \A k \in 1 .. Len(chunks) : more[k] = chunks[k]
        /\ Len(chunks) \in Nat /\ Len(current) \in Nat
    OBVIOUS
  <1>2. Len(current) # 0 /\ more # << >>
    <2>1. Len(current) # 0
      BY EmptySeq
    <2>2. Len(more) # Len(<< >>)
      <3> HIDE DEF more
      <3>1. Len(<< >>) = 0
        OBVIOUS
      <3> QED BY <3>1, <1>1
    <2> QED BY <2>1, <2>2
  <1> HIDE DEF more
  <1>3. ASSUME NEW k \in 1 .. Len(more)
        PROVE  /\ more[k] # << >>
               /\ \A j \in 1 .. Len(more[k]) :
                    more[k][j] =
                        IF j > 1 THEN more[k][j - 1] + 1
                        ELSE IF k > 1 THEN more[k - 1][Len(more[k - 1])] + 1
                        ELSE 1
    <2>1. CASE k \in 1 .. Len(chunks)
      <3>1. ASSUME k > 1 PROVE more[k - 1] = chunks[k - 1]
        <4>1. k - 1 \in 1 .. Len(chunks)
          BY <2>1, <3>1, <1>1
        <4> QED BY <4>1, <1>1
      <3>2. more[k] = chunks[k]
        BY <2>1, <1>1
      <3>3. /\ chunks[k] # << >>
            /\ \A j \in 1 .. Len(chunks[k]) :
                 chunks[k][j] =
                     IF j > 1 THEN chunks[k][j - 1] + 1
                     ELSE IF k > 1 THEN chunks[k - 1][Len(chunks[k - 1])] + 1
                     ELSE 1
        BY <2>1 DEF CutsInOrder
      <3> QED BY <3>1, <3>2, <3>3, SMTT(30)
    <2>2. CASE k = Len(chunks) + 1
      <3>1. more[k] = current
        BY <2>2, <1>1
      <3>2. ASSUME NEW j \in 1 .. Len(current), j > 1
            PROVE  current[j] = current[j - 1] + 1
        BY <3>2
      <3>3. ASSUME k > 1
            PROVE  current[1] = more[k - 1][Len(more[k - 1])] + 1
        <4>1. chunks # << >> /\ Len(chunks) \in 1 .. Len(chunks) /\ k - 1 = Len(chunks)
          BY <3>3, <2>2, <1>1
        <4>2. chunks[Len(chunks)][Len(chunks[Len(chunks)])] = n - Len(current)
          BY <4>1 DEF CutsInOrder
        <4>3. current[1] = n - Len(current) + 1
          BY <1>1, <1>2
        <4> QED BY <4>1, <4>2, <4>3, <1>1
      <3>4. ASSUME ~(k > 1) PROVE current[1] = 1
        <4>1. chunks = << >>
          BY <3>4, <2>2
        <4>2. n - Len(current) = 0
          BY <4>1 DEF CutsInOrder
        <4>3. current[1] = n - Len(current) + 1
          BY <1>1, <1>2
        <4> QED BY <4>2, <4>3
      <3>5. ASSUME NEW j \in 1 .. Len(current)
            PROVE  current[j] =
                        IF j > 1 THEN current[j - 1] + 1
                        ELSE IF k > 1 THEN more[k - 1][Len(more[k - 1])] + 1
                        ELSE 1
        <4>1. CASE j > 1
          BY <4>1, <3>2
        <4>2. CASE ~(j > 1)
          <5>1. j = 1
            BY <4>2
          <5> QED BY <5>1, <3>3, <3>4
        <4> QED BY <4>1, <4>2
      <3> QED BY <3>1, <3>5
    <2> QED BY <2>1, <2>2, <1>1
  <1>4. more[Len(more)][Len(more[Len(more)])] = n
    <2>1. more[Len(more)] = current
      BY <1>1
    <2>2. Len(current) \in 1 .. Len(current)
      BY <1>1, <1>2
    <2>3. current[Len(current)] = n - Len(current) + Len(current)
      BY <2>2
    <2> QED BY <2>1, <2>3, <1>1
  <1>5. CutsInOrder(more, n)
    BY <1>2, <1>3, <1>4 DEF CutsInOrder
  <1> QED BY <1>5 DEF more

\* Chunks that hold the positions up to 0 are no chunks.
LEMMA EmptyWhenNothingTaken ==
  ASSUME NEW S, S \subseteq Nat \ {0}, NEW chunks \in Seq(Seq(S)),
         CutsInOrder(chunks, 0)
  PROVE  Len(chunks) = 0
  <1> SUFFICES ASSUME chunks # << >> PROVE FALSE
    OBVIOUS
  <1>1. Len(chunks) \in 1 .. Len(chunks)
    BY EmptySeq
  <1> DEFINE last == chunks[Len(chunks)]
  <1>2. last \in Seq(S) /\ last # << >>
    BY <1>1 DEF CutsInOrder
  <1>3. Len(last) \in 1 .. Len(last)
    BY <1>2, EmptySeq
  <1>4. last[Len(last)] \in S
    BY <1>2, <1>3
  <1>5. last[Len(last)] = 0
    BY DEF CutsInOrder
  <1> QED BY <1>4, <1>5

\* An iteration that adds to the open chunk.
LEMMA JoinInv ==
  ASSUME NEW items \in Seq(Item), NEW n \in Nat, n + 1 \in 1 .. Len(items),
         NEW p, PackerInv(items, p, n), FitsAlone(items[n + 1]),
         p.current = << >> \/ HasRoom(p, items[n + 1])
  PROVE  PackerInv(items, Place(p, items[n + 1], n + 1), n + 1)
  <1> DEFINE item == items[n + 1]
             q == Place(p, item, n + 1)
  <1>1. /\ p.chunks \in Seq(Seq(1 .. Len(items)))
        /\ p.current \in Seq(1 .. Len(items))
        /\ p.current_request \in Nat
        /\ p.current_response \in Nat
        /\ p = [chunks |-> p.chunks, current |-> p.current,
                current_request |-> p.current_request,
                current_response |-> p.current_response]
    BY DEF PackerInv, Packer
  <1>2. item.fragment \in Nat /\ item.response \in Nat
    BY ItemType
  <1>3. /\ q.chunks = p.chunks
        /\ q.current = Append(p.current, n + 1)
        /\ q.current_request = p.current_request + (item.fragment + 1)
        /\ q.current_response = p.current_response + item.response
        /\ q \in Packer(items)
    <2>1. q = [p EXCEPT !.current = Append(@, n + 1),
                        !.current_request = @ + (item.fragment + 1),
                        !.current_response = @ + item.response]
      BY DEF Place, FragmentRequest
    <2>2. q = [chunks |-> p.chunks, current |-> Append(p.current, n + 1),
               current_request |-> p.current_request + (item.fragment + 1),
               current_response |-> p.current_response + item.response]
      <3> HIDE DEF q, item
      <3> QED BY <2>1, <1>1
    <2>3. Append(p.current, n + 1) \in Seq(1 .. Len(items))
      BY <1>1
    <2>4. /\ p.current_request + (item.fragment + 1) \in Nat
          /\ p.current_response + item.response \in Nat
      <3> HIDE DEF item
      <3> QED BY <1>1, <1>2
    <2> HIDE DEF q, item
    <2> QED BY <2>2, <2>3, <2>4, <1>1 DEF Packer
  <1>4. /\ Total(Fragments(items, q.current))
                = Total(Fragments(items, p.current)) + item.fragment
        /\ Total(Responses(items, q.current))
                = Total(Responses(items, p.current)) + item.response
    BY <1>1, <1>3, ChunkSizesAppend
  <1>5. Len(q.current) = Len(p.current) + 1 /\ q.current # << >>
    BY <1>1, <1>3
  <1>6. Total(Fragments(items, p.current)) \in Nat
    BY <1>1, ChunkSizesType, TotalType
  <1> HIDE DEF item, q
  <1>7. Accounting(items, q)
    <2>1. q.current_request
                = Overhead + Total(Fragments(items, q.current)) + Len(q.current)
      <3>1. p.current_request
                = Overhead + Total(Fragments(items, p.current)) + Len(p.current)
        BY DEF PackerInv, Accounting
      <3>2. PICK t \in Nat : t = Total(Fragments(items, p.current))
        BY <1>6
      <3>3. PICK l \in Nat : l = Len(p.current)
        <4>1. Len(p.current) \in Nat
          BY <1>1
        <4> QED BY <4>1
      <3>4. PICK f \in Nat : f = item.fragment
        BY <1>2
      <3>5. Total(Fragments(items, q.current)) = t + f
        BY <3>2, <3>4, <1>4
      <3>6. Len(q.current) = l + 1
        BY <3>3, <1>5
      <3>7. q.current_request = (Overhead + t + l) + (f + 1)
        BY <3>1, <3>2, <3>3, <3>4, <1>3
      <3> QED BY <3>5, <3>6, <3>7, BudgetAssumption
    <2>2. q.current_response = Total(Responses(items, q.current))
      BY <1>3, <1>4 DEF PackerInv, Accounting
    <2>3. q.current_request <= MaxRequest /\ q.current_response <= MaxResponse
      <3>1. CASE p.current = << >>
        <4>1. p.current_request = Overhead /\ p.current_response = 0
          BY <3>1, ChunkSizesEmpty, BudgetAssumption DEF PackerInv, Accounting
        <4>2. /\ item.fragment + 1 + Overhead <= MaxRequest
              /\ item.response <= MaxResponse
          BY DEF FitsAlone, FragmentRequest, item
        <4> QED BY <4>1, <4>2, <1>2, <1>3, BudgetAssumption
      <3>2. CASE HasRoom(p, item)
        BY <3>2, <1>3 DEF HasRoom, FragmentRequest
      <3> QED BY <3>1, <3>2 DEF item
    <2> QED BY <2>1, <2>2, <2>3, <1>3 DEF PackerInv, Accounting
  <1>8. InOrder(q, n + 1)
    <2>1. /\ Len(p.current) <= n
          /\ \A j \in 1 .. Len(p.current) : p.current[j] = n - Len(p.current) + j
          /\ CutsInOrder(p.chunks, n - Len(p.current))
      BY DEF PackerInv, InOrder
    <2>2. ASSUME NEW j \in 1 .. Len(q.current)
          PROVE  q.current[j] = (n + 1) - Len(q.current) + j
      <3>1. CASE j \in 1 .. Len(p.current)
        BY <3>1, <2>1, <1>1, <1>3, <1>5
      <3>2. CASE j = Len(p.current) + 1
        BY <3>2, <1>1, <1>3, <1>5
      <3> QED BY <3>1, <3>2, <1>1, <1>5
    <2>3. (n + 1) - Len(q.current) = n - Len(p.current)
      BY <1>1, <1>5
    <2>4. Len(q.current) <= n + 1
      BY <2>1, <1>1, <1>5
    <2> QED BY <2>1, <2>2, <2>3, <2>4, <1>3, <1>5 DEF InOrder
  <1>9. Leading(items, q, n + 1)
    <2> SUFFICES ASSUME NEW cut \in Cuttings(items)
                 PROVE  Len(q.chunks) + 1 <= cut[q.current[1]]
      BY DEF Leading
    <2>1. CASE n # 0
      <3>1. p.current # << >> /\ Len(p.chunks) + 1 <= cut[p.current[1]]
        BY <2>1 DEF PackerInv, Leading, InOrder
      <3>2. q.current[1] = p.current[1]
        BY <3>1, <1>1, <1>3
      <3> QED BY <3>1, <3>2, <1>3
    <2>2. CASE n = 0
      <3>1. Len(p.current) = 0
        BY <2>2, <1>1 DEF PackerInv, InOrder
      <3>2. CutsInOrder(p.chunks, 0)
        BY <3>1, <2>2 DEF PackerInv, InOrder
      <3>3. q.current[1] = 1
        BY <3>1, <2>2, <1>1, <1>3
      <3>4. Len(p.chunks) = 0
        <4>1. 1 .. Len(items) \subseteq Nat \ {0}
          OBVIOUS
        <4> QED BY <4>1, <3>2, <1>1, EmptyWhenNothingTaken
      <3>5. cut[1] \in 1 .. Len(items)
        BY <2>2 DEF Cuttings
      <3> QED BY <3>3, <3>4, <3>5, <1>3
    <2> QED BY <2>1, <2>2
  <1>10. \A i \in 1 .. n + 1 : FitsAlone(items[i])
    BY DEF PackerInv
  <1>11. PackerInv(items, q, n + 1)
    BY <1>3, <1>7, <1>8, <1>9, <1>10 DEF PackerInv
  <1> QED BY <1>11 DEF q, item

\* An iteration that closes the open chunk and starts the next one.
LEMMA FlushInv ==
  ASSUME NEW items \in Seq(Item), NEW n \in Nat, n + 1 \in 1 .. Len(items),
         NEW p, PackerInv(items, p, n), FitsAlone(items[n + 1]),
         p.current # << >>, ~HasRoom(p, items[n + 1])
  PROVE  PackerInv(items, Place(p, items[n + 1], n + 1), n + 1)
  <1> DEFINE item == items[n + 1]
             q == Place(p, item, n + 1)
  <1>1. /\ p.chunks \in Seq(Seq(1 .. Len(items)))
        /\ p.current \in Seq(1 .. Len(items))
        /\ p.current_request \in Nat
        /\ p.current_response \in Nat
    BY DEF PackerInv, Packer
  <1>2. item.fragment \in Nat /\ item.response \in Nat
    BY ItemType
  <1>3. /\ q.chunks = Append(p.chunks, p.current)
        /\ q.current = << n + 1 >>
        /\ q.current_request = Overhead + (item.fragment + 1)
        /\ q.current_response = item.response
        /\ q \in Packer(items)
    <2>1. q = [[chunks |-> Append(p.chunks, p.current), current |-> << >>,
                current_request |-> Overhead, current_response |-> 0]
                 EXCEPT !.current = Append(@, n + 1),
                        !.current_request = @ + (item.fragment + 1),
                        !.current_response = @ + item.response]
      <3>1. Flush(p) = [chunks |-> Append(p.chunks, p.current), current |-> << >>,
                        current_request |-> Overhead, current_response |-> 0]
        BY DEF Flush
      <3>2. q = [Flush(p) EXCEPT !.current = Append(@, n + 1),
                                 !.current_request = @ + (item.fragment + 1),
                                 !.current_response = @ + item.response]
        BY DEF Place, FragmentRequest
      <3> HIDE DEF q
      <3> QED BY <3>1, <3>2
    <2>2. Append(<< >>, n + 1) = << n + 1 >> /\ 0 + item.response = item.response
      <3> HIDE DEF item
      <3> QED BY <1>2
    <2>3. q = [chunks |-> Append(p.chunks, p.current), current |-> << n + 1 >>,
               current_request |-> Overhead + (item.fragment + 1),
               current_response |-> item.response]
      <3> HIDE DEF q, item
      <3> QED BY <2>1, <2>2
    <2>4. /\ << n + 1 >> \in Seq(1 .. Len(items))
          /\ Append(p.chunks, p.current) \in Seq(Seq(1 .. Len(items)))
      BY <1>1
    <2>5. Overhead + (item.fragment + 1) \in Nat
      <3> HIDE DEF item
      <3> QED BY <1>2, BudgetAssumption
    <2> HIDE DEF q, item
    <2> QED BY <2>3, <2>4, <2>5, <1>2 DEF Packer
  <1> DEFINE request == Total(Fragments(items, p.current))
             reply == Total(Responses(items, p.current))
             size == Len(p.current)
  <1>4. /\ request \in Nat /\ reply \in Nat /\ size \in Nat /\ size # 0
        /\ p.current_request = Overhead + request + size
        /\ p.current_response = reply
        /\ p.current_request <= MaxRequest
        /\ p.current_response <= MaxResponse
    <2>1. request \in Nat /\ reply \in Nat
      BY <1>1, ChunkSizesType, TotalType
    <2>2. size \in Nat /\ size # 0
      BY <1>1, EmptySeq
    <2> QED BY <2>1, <2>2 DEF PackerInv, Accounting
  <1>5. /\ size <= n
        /\ \A j \in 1 .. size : p.current[j] = n - size + j
        /\ CutsInOrder(p.chunks, n - size)
    BY DEF PackerInv, InOrder
  <1>6. /\ Total(Fragments(items, Append(p.current, n + 1))) = request + item.fragment
        /\ Total(Responses(items, Append(p.current, n + 1))) = reply + item.response
        /\ Len(Append(p.current, n + 1)) = size + 1
    BY <1>1, ChunkSizesAppend
  <1>7. Under(items, p.current)
    <2> HIDE DEF request, reply, size
    <2>1. Overhead + request + (size - 1) < MaxRequest
      BY <1>4, BudgetAssumption
    <2> QED BY <2>1, <1>4 DEF Under, RequestBytes, ReplyBytes, request, reply, size
  <1>8. ~Under(items, Append(p.current, n + 1))
    <2> HIDE DEF request, reply, size, item
    <2>1. \/ ~(p.current_request + (item.fragment + 1) <= MaxRequest)
          \/ ~(p.current_response + item.response <= MaxResponse)
      BY DEF HasRoom, FragmentRequest, item
    <2>2. \/ ~(Overhead + (request + item.fragment) + ((size + 1) - 1) < MaxRequest)
          \/ ~(reply + item.response <= MaxResponse)
      BY <2>1, <1>2, <1>4, BudgetAssumption
    <2> QED BY <2>2, <1>6 DEF Under, RequestBytes, ReplyBytes
  <1>9. Accounting(items, q)
    <2>1. /\ Total(Fragments(items, q.current)) = item.fragment
          /\ Total(Responses(items, q.current)) = item.response
      <3>1. Append(<< >>, n + 1) = << n + 1 >> /\ << >> \in Seq(1 .. Len(items))
        OBVIOUS
      <3>2. /\ Total(Fragments(items, << n + 1 >>))
                    = Total(Fragments(items, << >>)) + item.fragment
            /\ Total(Responses(items, << n + 1 >>))
                    = Total(Responses(items, << >>)) + item.response
        BY <3>1, ChunkSizesAppend
      <3> HIDE DEF item, q
      <3> QED BY <3>2, <1>2, <1>3, ChunkSizesEmpty
    <2>2. Len(q.current) = 1
      <3> HIDE DEF q
      <3> QED BY <1>3
    <2>3. /\ item.fragment + 1 + Overhead <= MaxRequest
          /\ item.response <= MaxResponse
      BY DEF FitsAlone, FragmentRequest
    <2> HIDE DEF item, q
    <2>4. \A k \in 1 .. Len(q.chunks) : Under(items, q.chunks[k])
      <3>1. \A k \in 1 .. Len(p.chunks) : Under(items, p.chunks[k])
        BY DEF PackerInv, Accounting
      <3>2. q.chunks[Len(p.chunks) + 1] = p.current /\ Len(q.chunks) = Len(p.chunks) + 1
        BY <1>1, <1>3
      <3>3. \A k \in 1 .. Len(p.chunks) : q.chunks[k] = p.chunks[k]
        BY <1>1, <1>3
      <3>4. Len(p.chunks) \in Nat
        BY <1>1
      <3>5. ASSUME NEW k \in 1 .. Len(q.chunks)
            PROVE  k \in 1 .. Len(p.chunks) \/ k = Len(p.chunks) + 1
        BY <3>2, <3>4
      <3>6. ASSUME NEW k \in 1 .. Len(q.chunks)
            PROVE  Under(items, q.chunks[k])
        <4>1. CASE k \in 1 .. Len(p.chunks)
          BY <3>1, <3>3, <4>1
        <4>2. CASE k = Len(p.chunks) + 1
          BY <3>2, <1>7, <4>2
        <4> QED BY <3>5, <4>1, <4>2
      <3> QED BY <3>6
    <2>5. q.current_request
                = Overhead + Total(Fragments(items, q.current)) + Len(q.current)
      BY <2>1, <2>2, <1>2, <1>3, BudgetAssumption
    <2>6. q.current_request <= MaxRequest /\ q.current_response <= MaxResponse
      BY <2>3, <1>2, <1>3, BudgetAssumption
    <2> QED BY <2>1, <2>4, <2>5, <2>6, <1>3 DEF Accounting
  <1>10. InOrder(q, n + 1)
    <2>1. CutsInOrder(q.chunks, n)
      <3>1. 1 .. Len(items) \subseteq Nat
        OBVIOUS
      <3> HIDE DEF q
      <3>2. q.chunks = Append(p.chunks, p.current) /\ n \in Nat
        BY <1>1, <1>3
      <3>3. CutsInOrder(Append(p.chunks, p.current), n)
        BY <3>1, <1>1, <1>5, CloseInOrder
      <3> QED BY <3>2, <3>3
    <2>2. /\ Len(q.current) = 1
          /\ q.current # << >>
          /\ q.current[1] = n + 1
      <3> HIDE DEF q
      <3> QED BY <1>3
    <2> HIDE DEF q
    <2>3. (n + 1) - Len(q.current) = n
      BY <2>2
    <2> QED BY <2>1, <2>2, <2>3 DEF InOrder
  <1>11. Leading(items, q, n + 1)
    <2> SUFFICES ASSUME NEW cut \in Cuttings(items)
                 PROVE  Len(q.chunks) + 1 <= cut[q.current[1]]
      BY DEF Leading
    <2> DEFINE first == p.current[1]
    <2> HIDE DEF q
    <2>1. first = n - size + 1 /\ first \in 1 .. n /\ n \in 1 .. Len(items)
      <3> HIDE DEF size
      <3>1. 1 \in 1 .. size
        BY <1>4
      <3>2. first = n - size + 1
        BY <3>1, <1>5
      <3> HIDE DEF first
      <3>3. n \in 1 .. Len(items)
        <4>1. Len(items) \in Nat
          BY LenProperties
        <4>2. n # 0
          BY <1>4, <1>5
        <4> QED BY <4>1, <4>2
      <3>4. first \in 1 .. n
        <4>1. size \in Nat /\ size # 0 /\ size <= n
          BY <1>4, <1>5
        <4> QED BY <4>1, <3>2
      <3> QED BY <3>2, <3>3, <3>4
    <2>2. Append(p.current, n + 1)
              = [k \in 1 .. (n + 1) - first + 1 |-> first + k - 1]
      <3> DEFINE longer == Append(p.current, n + 1)
      <3>1. (n + 1) - first + 1 = size + 1
        <4> HIDE DEF size, first
        <4> QED BY <2>1, <1>4
      <3>2. longer \in Seq(1 .. Len(items)) /\ Len(longer) = size + 1
        BY <1>1
      <3>3. ASSUME NEW k \in 1 .. size + 1 PROVE longer[k] = first + k - 1
        <4>1. CASE k = size + 1
          <5>1. longer[k] = n + 1
            BY <4>1, <1>1
          <5> HIDE DEF size, first, longer
          <5> QED BY <5>1, <4>1, <2>1, <1>4
        <4>2. CASE k \in 1 .. size
          <5>1. longer[k] = p.current[k]
            BY <4>2, <1>1
          <5>2. p.current[k] = n - size + k
            BY <4>2, <1>5
          <5> HIDE DEF size, first, longer
          <5> QED BY <5>1, <5>2, <4>2, <2>1, <1>4
        <4> HIDE DEF size, longer, first
        <4> QED BY <4>1, <4>2, <1>4
      <3> HIDE DEF longer, size, first
      <3>4. longer = [k \in 1 .. size + 1 |-> first + k - 1]
        BY <3>2, <3>3
      <3> QED BY <3>1, <3>4 DEF longer
    <2>3. Len(p.chunks) + 1 <= cut[first]
      <3>1. n # 0
        BY <2>1
      <3> QED BY <3>1 DEF PackerInv, Leading
    <2> HIDE DEF first, size
    <2>4. first \in 1 .. Len(items) /\ first < n + 1
      BY <2>1
    <2>5. cut[first] # cut[n + 1]
      <3>1. cut[first] = cut[n + 1] =>
                Under(items, [k \in 1 .. (n + 1) - first + 1 |-> first + k - 1])
        BY <2>4 DEF Cuttings
      <3> QED BY <3>1, <2>2, <1>8
    <2>6. cut[first] <= cut[n + 1]
      BY <2>4 DEF Cuttings
    <2>7. cut[first] \in Nat /\ cut[n + 1] \in Nat
      BY <2>4 DEF Cuttings
    <2>8. Len(q.chunks) = Len(p.chunks) + 1 /\ Len(p.chunks) \in Nat
      BY <1>1, <1>3
    <2>9. q.current[1] = n + 1
      BY <1>3
    <2> QED BY <2>3, <2>5, <2>6, <2>7, <2>8, <2>9
  <1>12. \A i \in 1 .. n + 1 : FitsAlone(items[i])
    BY DEF PackerInv
  <1> HIDE DEF q
  <1>13. PackerInv(items, q, n + 1)
    BY <1>3, <1>9, <1>10, <1>11, <1>12 DEF PackerInv
  <1> QED BY <1>13 DEF q

\* Both together: the loop invariant survives an iteration.
LEMMA PlaceInv ==
  ASSUME NEW items \in Seq(Item), NEW n \in Nat, n + 1 \in 1 .. Len(items),
         NEW p, PackerInv(items, p, n), FitsAlone(items[n + 1])
  PROVE  PackerInv(items, Place(p, items[n + 1], n + 1), n + 1)
  BY JoinInv, FlushInv

-----------------------------------------------------------------------------
\* What the loop invariant says of the list returned when all items are taken.
LEMMA ChunksReturned ==
  ASSUME NEW items \in Seq(Item), NEW p, PackerInv(items, p, Len(items))
  PROVE  /\ Chunks(p) \in Seq(Seq(1 .. Len(items)))
         /\ \A k \in 1 .. Len(Chunks(p)) : Under(items, Chunks(p)[k])
         /\ CutsInOrder(Chunks(p), Len(items))
         /\ \A cut \in Cuttings(items) :
              items # << >> => Len(Chunks(p)) <= cut[Len(items)]
  <1> DEFINE n == Len(items)
             size == Len(p.current)
  <1>1. /\ p.chunks \in Seq(Seq(1 .. n))
        /\ p.current \in Seq(1 .. n)
        /\ n \in Nat /\ size \in Nat
        /\ \A i \in 1 .. Len(p.chunks) : Under(items, p.chunks[i])
    BY DEF PackerInv, Packer, Accounting
  <1>2. /\ size <= n
        /\ n # 0 => p.current # << >>
        /\ \A j \in 1 .. size : p.current[j] = n - size + j
        /\ CutsInOrder(p.chunks, n - size)
    BY DEF PackerInv, InOrder
  <1>3. CASE p.current = << >>
    <2>1. size = 0 /\ n = 0
      BY <1>1, <1>2, <1>3
    <2>2. items = << >>
      BY <2>1, EmptySeq
    <2>3. Chunks(p) = p.chunks
      BY <1>3 DEF Chunks
    <2>4. n - size = n
      BY <2>1
    <2> QED BY <2>2, <2>3, <2>4, <1>1, <1>2
  <1>4. CASE p.current # << >>
    <2>1. Chunks(p) = Append(p.chunks, p.current)
      BY <1>4 DEF Chunks
    <2>2. /\ Append(p.chunks, p.current) \in Seq(Seq(1 .. n))
          /\ Len(Append(p.chunks, p.current)) = Len(p.chunks) + 1
          /\ Append(p.chunks, p.current)[Len(p.chunks) + 1] = p.current
          /\ \A k \in 1 .. Len(p.chunks) :
                Append(p.chunks, p.current)[k] = p.chunks[k]
          /\ Len(p.chunks) \in Nat
      BY <1>1
    <2>3. size # 0
      BY <1>1, <1>4, EmptySeq
    <2>4. Under(items, p.current)
      <3> DEFINE request == Total(Fragments(items, p.current))
      <3>1. request \in Nat
        BY <1>1, ChunkSizesType, TotalType
      <3>2. /\ p.current_request = Overhead + request + size
            /\ p.current_response = Total(Responses(items, p.current))
            /\ p.current_request <= MaxRequest
            /\ p.current_response <= MaxResponse
        BY <1>4 DEF PackerInv, Accounting
      <3> HIDE DEF request, size
      <3>3. Overhead + request + (size - 1) < MaxRequest
        BY <3>1, <3>2, <2>3, <1>1, BudgetAssumption
      <3> QED BY <3>2, <3>3 DEF Under, RequestBytes, ReplyBytes, request, size
    <2>5. CutsInOrder(Append(p.chunks, p.current), n)
      <3>1. 1 .. n \subseteq Nat
        OBVIOUS
      <3> HIDE DEF n
      <3> QED BY <3>1, <1>1, <1>2, <1>4, CloseInOrder
    <2>6. \A k \in 1 .. Len(Chunks(p)) : Under(items, Chunks(p)[k])
      <3> SUFFICES ASSUME NEW k \in 1 .. Len(p.chunks) + 1
                   PROVE  Under(items, Append(p.chunks, p.current)[k])
        BY <2>1, <2>2
      <3>1. CASE k = Len(p.chunks) + 1
        BY <3>1, <2>2, <2>4
      <3>2. CASE k \in 1 .. Len(p.chunks)
        BY <3>2, <2>2, <1>1
      <3>3. Len(p.chunks) \in Nat
        BY <2>2
      <3>4. k \in 1 .. Len(p.chunks) \/ k = Len(p.chunks) + 1
        BY <3>3
      <3> QED BY <3>1, <3>2, <3>4
    <2>7. ASSUME NEW cut \in Cuttings(items), items # << >>
          PROVE  Len(Chunks(p)) <= cut[n]
      <3> DEFINE first == p.current[1]
      <3>1. n # 0
        BY <2>7, EmptySeq
      <3>2. 1 \in 1 .. size
        BY <2>3, <1>1
      <3>3. first = n - size + 1
        BY <3>2, <1>2
      <3> HIDE DEF first, size
      <3>4. first \in 1 .. n /\ n \in 1 .. n
        BY <3>1, <3>3, <2>3, <1>1, <1>2
      <3>5. Len(p.chunks) + 1 <= cut[first]
        BY <3>1 DEF PackerInv, Leading, first
      <3>6. cut[first] \in Nat /\ cut[n] \in Nat
        BY <3>4, SMTT(30) DEF Cuttings
      <3>7. cut[first] <= cut[n]
        <4>1. CASE first = n
          BY <4>1, <3>6
        <4>2. CASE first < n
          BY <4>2, <3>4 DEF Cuttings
        <4> QED BY <4>1, <4>2, <3>4
      <3> QED BY <3>5, <3>6, <3>7, <2>1, <2>2
    <2> QED BY <2>1, <2>2, <2>5, <2>6, <2>7
  <1> QED BY <1>3, <1>4

\* The packer after each of the first n items.
PackerRun(f, items, n) ==
  /\ f[0] = EmptyPacker
  /\ \A i \in 1 .. n : f[i] = Place(f[i - 1], items[i], i)

\* A list of items, each of which fits alone, can be run to its end, and the
\* loop invariant holds all along.
LEMMA PackerRunExists ==
  ASSUME NEW items \in Seq(Item), ~TooLong(items)
  PROVE  \E f \in [0 .. Len(items) -> Packer(items)] :
            PackerRun(f, items, Len(items))
  <1> DEFINE Has(n) == \E f \in [0 .. n -> Packer(items)] :
                          /\ PackerRun(f, items, n)
                          /\ PackerInv(items, f[n], n)
             Bad == {n \in 0 .. Len(items) : ~Has(n)}
  <1>1. Has(0)
    <2> DEFINE f == [i \in 0 .. 0 |-> EmptyPacker]
    <2>1. PackerInv(items, EmptyPacker, 0)
      BY EmptyPackerInv
    <2>2. f \in [0 .. 0 -> Packer(items)]
      BY <2>1 DEF PackerInv
    <2>3. PackerRun(f, items, 0) /\ PackerInv(items, f[0], 0)
      BY <2>1 DEF PackerRun
    <2> QED BY <2>2, <2>3
  <1>2. ASSUME NEW n \in 0 .. Len(items), n # 0, Has(n - 1) PROVE Has(n)
    <2>1. PICK f \in [0 .. n - 1 -> Packer(items)] :
              PackerRun(f, items, n - 1) /\ PackerInv(items, f[n - 1], n - 1)
      BY <1>2
    <2> DEFINE last == Place(f[n - 1], items[n], n)
               g == [i \in 0 .. n |-> IF i = n THEN last ELSE f[i]]
    <2>2. FitsAlone(items[n])
      BY <1>2 DEF TooLong
    <2>3. PackerInv(items, last, n)
      <3>1. n - 1 \in Nat /\ (n - 1) + 1 = n /\ n \in 1 .. Len(items)
        BY <1>2
      <3> DEFINE m == n - 1
      <3>2. m \in Nat /\ m + 1 = n /\ PackerInv(items, f[m], m)
        BY <3>1, <2>1
      <3>3. last = Place(f[m], items[m + 1], m + 1)
        BY <3>2
      <3> HIDE DEF m, last
      <3> QED BY <3>1, <3>2, <3>3, <2>2, PlaceInv
    <2>4. g \in [0 .. n -> Packer(items)]
      <3>1. last \in Packer(items)
        BY <2>3 DEF PackerInv
      <3> HIDE DEF last
      <3>2. ASSUME NEW i \in 0 .. n PROVE g[i] \in Packer(items)
        <4>1. i # n => i \in 0 .. n - 1
          BY <1>2
        <4> QED BY <3>1, <4>1
      <3> QED BY <3>2
    <2>5. PackerRun(g, items, n)
      <3>1. g[0] = EmptyPacker
        BY <1>2, <2>1 DEF PackerRun
      <3>2. ASSUME NEW i \in 1 .. n PROVE g[i] = Place(g[i - 1], items[i], i)
        <4>1. i - 1 \in 0 .. n /\ i - 1 # n /\ g[i - 1] = f[i - 1]
          BY <1>2
        <4>2. CASE i = n
          BY <4>1, <4>2
        <4>3. CASE i # n
          <5>1. i \in 1 .. n - 1 /\ i \in 0 .. n
            BY <4>3
          <5>2. f[i] = Place(f[i - 1], items[i], i)
            BY <5>1, <2>1 DEF PackerRun
          <5> QED BY <5>1, <5>2, <4>1, <4>3
        <4> QED BY <4>2, <4>3
      <3> HIDE DEF g
      <3> QED BY <3>1, <3>2 DEF PackerRun
    <2>6. g[n] = last
      BY <1>2
    <2> HIDE DEF g, last
    <2> QED BY <2>3, <2>4, <2>5, <2>6
  <1> HIDE DEF Has
  <1>3. Bad = {}
    <2> SUFFICES ASSUME Bad # {} PROVE FALSE
      OBVIOUS
    <2>1. PICK n \in Bad : \A k \in Bad : n <= k
      <3>1. Bad \in SUBSET Nat
        OBVIOUS
      <3> QED BY <3>1, LeastNatural
    <2>2. n \in 0 .. Len(items) /\ ~Has(n) /\ n # 0
      BY <1>1, <2>1
    <2>3. n - 1 \in 0 .. Len(items) /\ ~(n <= n - 1)
      BY <2>2
    <2>4. Has(n - 1)
      BY <2>1, <2>3
    <2> QED BY <2>2, <2>4, <1>2
  <1>4. Has(Len(items))
    BY <1>3
  <1> QED BY <1>4 DEF Has

\* Every run of the packer keeps the loop invariant.
LEMMA PackerRunInv ==
  ASSUME NEW items \in Seq(Item), ~TooLong(items), NEW f,
         PackerRun(f, items, Len(items))
  PROVE  \A n \in 0 .. Len(items) : PackerInv(items, f[n], n)
  <1> DEFINE Bad == {n \in 0 .. Len(items) : ~PackerInv(items, f[n], n)}
  <1> SUFFICES ASSUME Bad # {} PROVE FALSE
    OBVIOUS
  <1>1. PICK n \in Bad : \A k \in Bad : n <= k
    <2>1. Bad \in SUBSET Nat
      OBVIOUS
    <2> QED BY <2>1, LeastNatural
  <1>2. n \in 0 .. Len(items) /\ ~PackerInv(items, f[n], n)
    BY <1>1
  <1>3. n # 0
    BY <1>2, EmptyPackerInv DEF PackerRun
  <1>4. PICK m \in Nat : m + 1 = n
    BY <1>2, <1>3
  <1>5. m \in 0 .. Len(items) /\ ~(n <= m) /\ n \in 1 .. Len(items) /\ n - 1 = m
    BY <1>2, <1>4
  <1>6. PackerInv(items, f[m], m)
    BY <1>1, <1>5
  <1>7. f[n] = Place(f[m], items[m + 1], m + 1)
    BY <1>4, <1>5 DEF PackerRun
  <1>8. FitsAlone(items[m + 1])
    BY <1>4, <1>5 DEF TooLong
  <1> QED BY <1>2, <1>4, <1>5, <1>6, <1>7, <1>8, PlaceInv

\* What a caller may rely on of pack_chunks as a whole (api_call does, for the
\* reads and again for the writes): for every list of items each of which fits
\* alone, the chunks are under both limits, hold the items once each and in
\* order, and are as few as that order allows.
THEOREM PackContract ==
  ASSUME NEW items \in Seq(Item), ~TooLong(items)
  PROVE  /\ Pack(items) \in Seq(Seq(1 .. Len(items)))
         /\ \A k \in 1 .. Len(Pack(items)) : Under(items, Pack(items)[k])
         /\ CutsInOrder(Pack(items), Len(items))
         /\ \A cut \in Cuttings(items) :
              items # << >> => Len(Pack(items)) <= cut[Len(items)]
  <1> DEFINE Run(f) ==
        [i \in 0 .. Len(items) |->
            IF i = 0 THEN EmptyPacker ELSE Place(f[i - 1], items[i], i)]
  <1> DEFINE packer == CHOOSE f : f = Run(f)
  <1>1. PICK f \in [0 .. Len(items) -> Packer(items)] :
            PackerRun(f, items, Len(items))
    BY PackerRunExists
  <1>2. f = Run(f)
    BY <1>1 DEF PackerRun
  <1>3. packer = Run(packer)
    BY <1>2
  <1>4. PackerRun(packer, items, Len(items))
    <2> HIDE DEF packer
    <2>1. packer[0] = EmptyPacker
      BY <1>3
    <2>2. ASSUME NEW i \in 1 .. Len(items)
          PROVE  packer[i] = Place(packer[i - 1], items[i], i)
      <3>1. i \in 0 .. Len(items) /\ i # 0
        OBVIOUS
      <3>2. Run(packer)[i] = Place(packer[i - 1], items[i], i)
        BY <3>1
      <3> HIDE DEF Run
      <3> QED BY <1>3, <3>2
    <2> QED BY <2>1, <2>2 DEF PackerRun
  <1>5. Pack(items) = Chunks(packer[Len(items)])
    BY DEF Pack
  <1> HIDE DEF packer
  <1>6. PackerInv(items, packer[Len(items)], Len(items))
    BY <1>4, PackerRunInv
  <1> QED BY <1>5, <1>6, ChunksReturned

-----------------------------------------------------------------------------
(***************************************************************************)
(* Sequences, what they hold, and recursions over them.                    *)
(***************************************************************************)
\* The elements of a list.
Holds(list) == {list[i] : i \in DOMAIN list}

\* A function on 1 .. n is a sequence of length n.
LEMMA LenOf ==
    ASSUME NEW S, NEW n \in Nat, NEW s \in [1 .. n -> S]
    PROVE  s \in Seq(S) /\ Len(s) = n
<1>1. s \in Seq(S)
  BY SeqDef
<1> QED
  BY <1>1, LenProperties

\* The elements of a sequence, by Len or by DOMAIN.
LEMMA Elements ==
    ASSUME NEW S, NEW s \in Seq(S)
    PROVE  /\ Len(s) \in Nat /\ DOMAIN s = 1 .. Len(s)
           /\ \A i \in DOMAIN s : s[i] \in S
           /\ Holds(s) \subseteq S
<1>1. Len(s) \in Nat /\ DOMAIN s = 1 .. Len(s) /\ \A i \in 1 .. Len(s) : s[i] \in S
  BY LenProperties, ElementOfSeq
<1> QED
  BY <1>1 DEF Holds

\* A sequence made of one of the same domain.
LEMMA MapType ==
    ASSUME NEW S, NEW s \in Seq(S), NEW T, NEW t \in [DOMAIN s -> T]
    PROVE  t \in Seq(T) /\ Len(t) = Len(s) /\ DOMAIN t = DOMAIN s
<1>1. PICK n \in Nat : n = Len(s) /\ DOMAIN s = 1 .. n
  BY Elements
<1>2. t \in [1 .. n -> T]
  BY <1>1
<1>3. t \in Seq(T) /\ Len(t) = n
  BY <1>2, LenOf
<1> QED
  BY <1>1, <1>3

\* Sequences of the same elements are the same.
LEMMA SameElements ==
    ASSUME NEW S, NEW s \in Seq(S), NEW t \in Seq(S), Len(s) = Len(t),
           \A i \in 1 .. Len(s) : s[i] = t[i]
    PROVE  s = t
<1>1. PICK n \in Nat : n = Len(s)
  BY LenProperties
<1>2. s \in [1 .. n -> S] /\ t \in [1 .. n -> S]
  BY <1>1, LenProperties
<1>3. \A i \in 1 .. n : s[i] = t[i]
  BY <1>1
<1> QED
  BY <1>2, <1>3

\* A non-empty set of positions has a last one.
LEMMA LastPosition ==
    ASSUME NEW n \in Nat, NEW T \in SUBSET (0 .. n), T # {}
    PROVE  Max(T) \in T /\ \A t \in T : t <= Max(T)
<1> DEFINE U == {n - t : t \in T}
<1>1. U \in SUBSET Nat /\ U # {}
  <2>1. \A t \in T : t \in 0 .. n
    OBVIOUS
  <2>2. \A t \in T : n - t \in Nat
    BY <2>1
  <2> QED
    BY <2>2
<1>2. PICK m \in U : \A u \in U : m <= u
  <2> HIDE DEF U
  <2> QED
    BY <1>1, LeastNatural
<1>3. PICK x \in T : m = n - x
  BY <1>2
<1>4. ASSUME NEW t \in T
      PROVE  x >= t
  <2>1. n - t \in U
    OBVIOUS
  <2>2. m <= n - t
    BY <1>2, <2>1
  <2>3. x \in 0 .. n /\ t \in 0 .. n
    OBVIOUS
  <2> QED
    BY <1>3, <2>2, <2>3
<1>5. \E y \in T : \A t \in T : y >= t
  BY <1>4
<1>6. Max(T) \in T /\ \A t \in T : Max(T) >= t
  BY <1>5 DEF Max
<1>7. \A t \in T : t \in Nat
  <2>1. 0 .. n \subseteq Nat
    OBVIOUS
  <2> QED
    BY <2>1
<1>8. Max(T) \in Nat
  BY <1>6, <1>7
<1> DEFINE last == Max(T)
<1>9. last \in T /\ last \in Nat /\ \A t \in T : t \in Nat /\ last >= t
  BY <1>6, <1>7, <1>8
<1> HIDE DEF last
<1>10. \A t \in T : t <= last
  BY <1>9
<1> QED
  BY <1>9, <1>10 DEF last

\* A recursion over 1 .. size, of which step[i] is the i-th step.
IsRun(f, X, start, size, step) ==
    /\ f \in [0 .. size -> X] /\ f[0] = start
    /\ \A i \in 1 .. size : f[i] = step[i][f[i - 1]]

\* A recursion over 1 .. size has a run, whatever its steps do.
LEMMA RunExists ==
    ASSUME NEW X, NEW start \in X, NEW size \in Nat, NEW step \in [1 .. size -> [X -> X]]
    PROVE  \E f : IsRun(f, X, start, size, step)
<1> DEFINE Has(n) == \E f \in [0 .. n -> X] :
                        f[0] = start /\ \A i \in 1 .. n : f[i] = step[i][f[i - 1]]
           Bad == {n \in 0 .. size : ~Has(n)}
<1>1. Has(0)
  <2> DEFINE f == [i \in 0 .. 0 |-> start]
  <2>1. f \in [0 .. 0 -> X] /\ f[0] = start /\ 1 .. 0 = {}
    OBVIOUS
  <2> HIDE DEF f
  <2> QED
    BY <2>1
<1>2. ASSUME NEW n \in 1 .. size, Has(n - 1)
      PROVE  Has(n)
  <2>1. PICK f \in [0 .. n - 1 -> X] :
            f[0] = start /\ \A i \in 1 .. n - 1 : f[i] = step[i][f[i - 1]]
    BY <1>2
  <2> DEFINE last == step[n][f[n - 1]]
             g == [i \in 0 .. n |-> IF i = n THEN last ELSE f[i]]
  <2>2. last \in X
    <3>1. n - 1 \in 0 .. n - 1
      OBVIOUS
    <3> QED
      BY <3>1
  <2>3. g \in [0 .. n -> X]
    <3>1. \A i \in 0 .. n : i # n => i \in 0 .. n - 1
      OBVIOUS
    <3> HIDE DEF last
    <3> QED
      BY <2>2, <3>1
  <2>4. g[0] = start
    <3>1. 0 \in 0 .. n /\ 0 # n
      OBVIOUS
    <3> QED
      BY <2>1, <3>1
  <2>5. ASSUME NEW i \in 1 .. n
        PROVE  g[i] = step[i][g[i - 1]]
    <3>1. i \in 0 .. n /\ i - 1 \in 0 .. n /\ i - 1 # n
      OBVIOUS
    <3>2. g[i - 1] = f[i - 1]
      BY <3>1
    <3>3. CASE i = n
      BY <3>1, <3>2, <3>3
    <3>4. CASE i # n
      <4>1. i \in 1 .. n - 1
        BY <3>4
      <4>2. f[i] = step[i][f[i - 1]] /\ g[i] = f[i]
        BY <2>1, <3>1, <3>4, <4>1
      <4> QED
        BY <3>2, <4>2
    <3> QED
      BY <3>3, <3>4
  <2> HIDE DEF g
  <2> QED
    BY <2>3, <2>4, <2>5
<1> HIDE DEF Has
<1>3. Bad = {}
  <2> SUFFICES ASSUME Bad # {} PROVE FALSE
    OBVIOUS
  <2>1. PICK n \in Bad : \A k \in Bad : n <= k
    <3>1. Bad \in SUBSET Nat
      OBVIOUS
    <3> QED
      BY <3>1, LeastNatural
  <2>2. n \in 0 .. size /\ ~Has(n) /\ n # 0
    BY <1>1, <2>1
  <2>3. n \in 1 .. size /\ n - 1 \in 0 .. size /\ ~(n <= n - 1)
    BY <2>2
  <2>4. Has(n - 1)
    BY <2>1, <2>3
  <2> QED
    BY <1>2, <2>2, <2>3, <2>4
<1>4. Has(size)
  <2>1. size \in 0 .. size
    OBVIOUS
  <2> QED
    BY <1>3, <2>1
<1> QED
  BY <1>4 DEF Has, IsRun

\* Two lists in a row hold what they held.
LEMMA ConcatHolds ==
    ASSUME NEW S, NEW s \in Seq(S), NEW t \in Seq(S)
    PROVE  s \o t \in Seq(S) /\ Holds(s \o t) = Holds(s) \cup Holds(t)
<1>1. /\ s \o t \in Seq(S) /\ Len(s \o t) = Len(s) + Len(t)
      /\ \A i \in 1 .. Len(s) : (s \o t)[i] = s[i]
      /\ \A i \in Len(s) + 1 .. Len(s) + Len(t) : (s \o t)[i] = t[i - Len(s)]
  BY ConcatProperties
<1>2. PICK m \in Nat, n \in Nat : m = Len(s) /\ n = Len(t)
  BY LenProperties
<1>3. DOMAIN s = 1 .. m /\ DOMAIN t = 1 .. n /\ DOMAIN (s \o t) = 1 .. m + n
  BY <1>1, <1>2, LenProperties
<1> DEFINE st == s \o t
<1>4. /\ \A i \in 1 .. m : st[i] = s[i]
      /\ \A i \in m + 1 .. m + n : st[i] = t[i - m]
  BY <1>1, <1>2
<1> HIDE DEF st
<1>5. ASSUME NEW x \in Holds(st)
      PROVE  x \in Holds(s) \cup Holds(t)
  <2>1. PICK i \in 1 .. m + n : x = st[i]
    BY <1>3 DEF Holds, st
  <2>2. CASE i \in 1 .. m
    BY <1>3, <1>4, <2>1, <2>2 DEF Holds
  <2>3. CASE i \notin 1 .. m
    <3>1. i \in m + 1 .. m + n /\ i - m \in 1 .. n
      BY <2>3
    <3> QED
      BY <1>3, <1>4, <2>1, <3>1 DEF Holds
  <2> QED
    BY <2>2, <2>3
<1>6. ASSUME NEW x \in Holds(s) \cup Holds(t)
      PROVE  x \in Holds(st)
  <2>1. CASE x \in Holds(s)
    <3>1. PICK i \in 1 .. m : x = s[i]
      BY <1>3, <2>1 DEF Holds
    <3>2. i \in 1 .. m + n /\ st[i] = x
      BY <1>4, <3>1
    <3> QED
      BY <1>3, <3>2 DEF Holds, st
  <2>2. CASE x \in Holds(t)
    <3>1. PICK i \in 1 .. n : x = t[i]
      BY <1>3, <2>2 DEF Holds
    <3>2. m + i \in 1 .. m + n /\ m + i \in m + 1 .. m + n /\ (m + i) - m = i
      OBVIOUS
    <3>3. st[m + i] = x
      <4>1. st[m + i] = t[(m + i) - m]
        BY <1>4, <3>2
      <4> QED
        BY <3>1, <3>2, <4>1
    <3> QED
      BY <1>3, <3>2, <3>3 DEF Holds, st
  <2> QED
    BY <2>1, <2>2
<1> QED
  BY <1>1, <1>5, <1>6 DEF st

\* FlattenSeq, one list at a time.
FlattenRun(f, lists, n) ==
    \A i \in 1 .. n : f[i] = IF i = 1 THEN lists[i] ELSE f[i - 1] \o lists[i]

\* FlattenSeq is a recursion over the lists, and has a run.
LEMMA FlattenRunExists ==
    ASSUME NEW S, NEW lists \in Seq(Seq(S)), lists # <<>>
    PROVE  \E f \in [1 .. Len(lists) -> Seq(S)] : FlattenRun(f, lists, Len(lists))
<1>1. PICK size \in Nat : size = Len(lists)
  BY LenProperties
<1>2. \A i \in 1 .. size : lists[i] \in Seq(S)
  BY <1>1, ElementOfSeq
<1> DEFINE step == [i \in 1 .. size |-> [s \in Seq(S) |-> s \o lists[i]]]
<1>3. step \in [1 .. size -> [Seq(S) -> Seq(S)]]
  <2>1. ASSUME NEW i \in 1 .. size, NEW s \in Seq(S)
        PROVE  s \o lists[i] \in Seq(S)
    BY <1>2, ConcatProperties
  <2> QED
    BY <2>1
<1>4. <<>> \in Seq(S)
  OBVIOUS
<1>5. \A i \in 1 .. size, s \in Seq(S) : step[i][s] = s \o lists[i]
  OBVIOUS
<1> HIDE DEF step
<1>6. PICK f \in [0 .. size -> Seq(S)] :
          f[0] = <<>> /\ \A i \in 1 .. size : f[i] = step[i][f[i - 1]]
  <2>1. \E f : IsRun(f, Seq(S), <<>>, size, step)
    BY <1>3, <1>4, RunExists
  <2> QED
    BY <2>1 DEF IsRun
<1>7. \A i \in 1 .. size : f[i] = f[i - 1] \o lists[i]
  <2>1. \A i \in 1 .. size : i - 1 \in 0 .. size
    OBVIOUS
  <2> QED
    BY <1>5, <1>6, <2>1
<1> DEFINE g == [i \in 1 .. size |-> f[i]]
<1>8. g \in [1 .. size -> Seq(S)]
  OBVIOUS
<1>9. ASSUME NEW i \in 1 .. size
      PROVE  g[i] = IF i = 1 THEN lists[i] ELSE g[i - 1] \o lists[i]
  <2>1. CASE i = 1
    <3>1. g[i] = <<>> \o lists[i] /\ lists[i] \in Seq(S)
      <4>1. g[i] = f[i - 1] \o lists[i]
        BY <1>7
      <4>2. f[i - 1] = <<>>
        BY <1>6, <2>1
      <4> QED
        BY <1>2, <4>1, <4>2
    <3>2. <<>> \o lists[i] = lists[i]
      BY <3>1, ConcatEmptySeq
    <3> QED
      BY <2>1, <3>1, <3>2
  <2>2. CASE i # 1
    <3>1. i - 1 \in 1 .. size
      BY <2>2
    <3> QED
      BY <1>7, <2>2, <3>1
  <2> QED
    BY <2>1, <2>2
<1> HIDE DEF g
<1>10. FlattenRun(g, lists, size)
  BY <1>9 DEF FlattenRun
<1> QED
  BY <1>1, <1>8, <1>10

\* FlattenSeq appends one list after the other.
LEMMA FlattenIsRun ==
    ASSUME NEW S, NEW lists \in Seq(Seq(S)), lists # <<>>
    PROVE  \E f : FlattenRun(f, lists, Len(lists)) /\ FlattenSeq(lists) = f[Len(lists)]
<1> DEFINE Run(f) ==
      [i \in 1 .. Len(lists) |-> IF i = 1 THEN lists[i] ELSE f[i - 1] \o lists[i]]
           flatten == CHOOSE f : f = Run(f)
<1>1. PICK f \in [1 .. Len(lists) -> Seq(S)] : FlattenRun(f, lists, Len(lists))
  BY FlattenRunExists
<1>2. f = Run(f)
  BY <1>1 DEF FlattenRun
<1>3. flatten = Run(flatten)
  BY <1>2
<1>4. Len(lists) # 0
  BY EmptySeq
<1>5. FlattenSeq(lists) = flatten[Len(lists)]
  BY <1>4 DEF FlattenSeq
<1> HIDE DEF flatten
<1>6. FlattenRun(flatten, lists, Len(lists))
  BY <1>3 DEF FlattenRun
<1> QED
  BY <1>5, <1>6

\* What a list of lists holds when flattened: what its lists hold.
LEMMA FlattenHolds ==
    ASSUME NEW S, NEW lists \in Seq(Seq(S))
    PROVE  /\ FlattenSeq(lists) \in Seq(S)
           /\ \A x : x \in Holds(FlattenSeq(lists))
                     <=> \E k \in DOMAIN lists : x \in Holds(lists[k])
<1>1. PICK size \in Nat : size = Len(lists)
  BY LenProperties
<1>2. DOMAIN lists = 1 .. size /\ \A i \in 1 .. size : lists[i] \in Seq(S)
  BY <1>1, LenProperties, ElementOfSeq
<1>3. CASE size = 0
  <2>1. lists = <<>>
    BY <1>1, <1>3, EmptySeq
  <2>2. FlattenSeq(lists) = <<>>
    BY <1>1, <1>3, <2>1 DEF FlattenSeq
  <2>3. <<>> \in Seq(S) /\ DOMAIN <<>> = {}
    OBVIOUS
  <2>4. Holds(<<>>) = {}
    BY <2>3 DEF Holds
  <2>5. DOMAIN lists = {}
    BY <2>1, <2>3
  <2> QED
    BY <2>2, <2>3, <2>4, <2>5
<1>4. CASE size # 0
  <2>1. lists # <<>>
    BY <1>1, <1>4, EmptySeq
  <2>2. PICK flatten : FlattenRun(flatten, lists, size) /\ FlattenSeq(lists) = flatten[size]
    BY <1>1, <2>1, FlattenIsRun
  <2>5. FlattenSeq(lists) = flatten[size]
    BY <2>2
  <2>6. \A i \in 1 .. size :
           flatten[i] = IF i = 1 THEN lists[i] ELSE flatten[i - 1] \o lists[i]
    BY <2>2 DEF FlattenRun
  <2> DEFINE Good(i) == /\ flatten[i] \in Seq(S)
                        /\ \A x : x \in Holds(flatten[i])
                                  <=> \E k \in 1 .. i : x \in Holds(lists[k])
             Bad == {i \in 1 .. size : ~Good(i)}
  <2>7. Good(1)
    <3>1. flatten[1] = lists[1] /\ lists[1] \in Seq(S)
      <4>1. 1 \in 1 .. size
        BY <1>4
      <4> QED
        BY <1>2, <2>6, <4>1
    <3>2. 1 \in 1 .. 1 /\ \A k \in 1 .. 1 : k = 1
      OBVIOUS
    <3> QED
      BY <3>1, <3>2
  <2>8. ASSUME NEW i \in 2 .. size, Good(i - 1)
        PROVE  Good(i)
    <3>1. flatten[i] = flatten[i - 1] \o lists[i]
      <4>1. i \in 1 .. size /\ i # 1
        OBVIOUS
      <4> QED
        BY <2>6, <4>1
    <3>2. lists[i] \in Seq(S) /\ flatten[i - 1] \in Seq(S)
      BY <1>2, <2>8
    <3>3. flatten[i] \in Seq(S) /\ Holds(flatten[i]) = Holds(flatten[i - 1]) \cup Holds(lists[i])
      BY <3>1, <3>2, ConcatHolds
    <3>4. /\ i \in 1 .. i
          /\ \A k \in 1 .. i : k \in 1 .. i - 1 \/ k = i
          /\ \A k \in 1 .. i - 1 : k \in 1 .. i
      OBVIOUS
    <3>5. \A x : x \in Holds(flatten[i - 1]) <=> \E k \in 1 .. i - 1 : x \in Holds(lists[k])
      BY <2>8
    <3>6. \A x : x \in Holds(flatten[i])
                <=> x \in Holds(lists[i]) \/ \E k \in 1 .. i - 1 : x \in Holds(lists[k])
      BY <3>3, <3>5
    <3>7. \A x : x \in Holds(flatten[i]) <=> \E k \in 1 .. i : x \in Holds(lists[k])
      BY <3>4, <3>6, Zenon
    <3> QED
      BY <3>3, <3>7
  <2> HIDE DEF Good
  <2>9. Bad = {}
    <3> SUFFICES ASSUME Bad # {} PROVE FALSE
      OBVIOUS
    <3>1. PICK n \in Bad : \A k \in Bad : n <= k
      <4>1. Bad \in SUBSET Nat
        OBVIOUS
      <4> QED
        BY <4>1, LeastNatural
    <3>2. n \in 1 .. size /\ ~Good(n) /\ n # 1
      BY <2>7, <3>1
    <3>3. n \in 2 .. size /\ n - 1 \in 1 .. size /\ ~(n <= n - 1)
      BY <3>2
    <3>4. Good(n - 1)
      BY <3>1, <3>3
    <3> QED
      BY <2>8, <3>2, <3>3, <3>4
  <2>10. Good(size)
    BY <1>4, <2>9
  <2> QED
    BY <1>2, <2>5, <2>10 DEF Good
<1> QED
  BY <1>3, <1>4

-----------------------------------------------------------------------------
(***************************************************************************)
(* Sums of parts, of sequences one after the other, and of sizes.          *)
(***************************************************************************)
\* A stretch of a sequence sums up to no more than the whole of it.
LEMMA PartTotal ==
    ASSUME NEW s \in Seq(Nat), NEW t \in Seq(Nat), NEW d \in Nat, d + Len(t) <= Len(s),
           \A k \in 1 .. Len(t) : t[k] = s[d + k]
    PROVE  Total(t) <= Total(s)
<1>1. PICK f \in [0 .. Len(s) -> Nat] : RunningSum(f, s, Len(s)) /\ Total(s) = f[Len(s)]
  BY TotalIsRunningSum
<1>2. PICK g \in [0 .. Len(t) -> Nat] : RunningSum(g, t, Len(t)) /\ Total(t) = g[Len(t)]
  BY TotalIsRunningSum
<1>3. PICK n \in Nat : n = Len(s)
  BY LenProperties
<1>4. PICK p \in Nat : p = Len(t)
  BY LenProperties
<1>5. /\ f[0] = 0 /\ \A k \in 1 .. n : f[k] = f[k - 1] + s[k]
      /\ g[0] = 0 /\ \A k \in 1 .. p : g[k] = g[k - 1] + t[k]
  BY <1>1, <1>2, <1>3, <1>4 DEF RunningSum
<1>6. /\ \A k \in 0 .. n : f[k] \in Nat
      /\ \A k \in 0 .. p : g[k] \in Nat
      /\ \A k \in 1 .. n : s[k] \in Nat
      /\ d + p <= n /\ \A k \in 1 .. p : t[k] = s[d + k]
  BY <1>1, <1>2, <1>3, <1>4, ElementOfSeq
<1>7. \A k \in 0 .. p : f[d + k] = f[d] + g[k]
  <2> DEFINE Bad == {k \in 0 .. p : f[d + k] # f[d] + g[k]}
  <2> SUFFICES ASSUME Bad # {} PROVE FALSE
    OBVIOUS
  <2>1. PICK k \in Bad : \A i \in Bad : k <= i
    <3>1. Bad \in SUBSET Nat
      OBVIOUS
    <3> QED
      BY <3>1, LeastNatural
  <2>2. k \in 0 .. p /\ f[d + k] # f[d] + g[k]
    BY <2>1
  <2>3. k # 0
    <3>1. d + 0 = d /\ d \in 0 .. n
      BY <1>6
    <3> QED
      BY <1>5, <1>6, <2>2, <3>1
  <2>4. k - 1 \in 0 .. p /\ k \in 1 .. p /\ d + k \in 1 .. n /\ (d + k) - 1 = d + (k - 1)
        /\ d \in 0 .. n /\ ~(k <= k - 1) /\ d + (k - 1) \in 0 .. n
    BY <1>6, <2>2, <2>3
  <2>5. f[d + (k - 1)] = f[d] + g[k - 1]
    BY <2>1, <2>4
  <2>6. f[d + k] = f[d + (k - 1)] + s[d + k] /\ g[k] = g[k - 1] + s[d + k]
    <3>1. f[d + k] = f[(d + k) - 1] + s[d + k]
      BY <1>5, <2>4
    <3> QED
      BY <1>5, <1>6, <2>4, <3>1
  <2> DEFINE a == f[d]
             b == g[k - 1]
             x == s[d + k]
  <2>7. a \in Nat /\ b \in Nat /\ x \in Nat
    BY <1>6, <2>4
  <2>8. f[d + k] = (a + b) + x /\ g[k] = b + x
    BY <2>5, <2>6
  <2> HIDE DEF a, b, x
  <2>9. f[d + k] = a + g[k]
    BY <2>7, <2>8
  <2> QED
    BY <2>2, <2>9 DEF a
<1>8. \A k \in 0 .. n : d + p <= k => f[d + p] <= f[k]
  <2> DEFINE Bad == {k \in 0 .. n : d + p <= k /\ ~(f[d + p] <= f[k])}
  <2> SUFFICES ASSUME Bad # {} PROVE FALSE
    OBVIOUS
  <2>1. PICK k \in Bad : \A i \in Bad : k <= i
    <3>1. Bad \in SUBSET Nat
      OBVIOUS
    <3> QED
      BY <3>1, LeastNatural
  <2>2. k \in 0 .. n /\ d + p <= k /\ ~(f[d + p] <= f[k])
    BY <2>1
  <2>3. d + p \in 0 .. n
    BY <1>6
  <2>4. k # d + p
    <3>1. f[d + p] \in Nat
      BY <1>6, <2>3
    <3>2. f[d + p] <= f[d + p]
      BY <3>1
    <3> QED
      BY <2>2, <3>2
  <2>5. k \in 1 .. n /\ k - 1 \in 0 .. n /\ d + p <= k - 1 /\ ~(k <= k - 1)
    BY <2>2, <2>3, <2>4
  <2>6. f[d + p] <= f[k - 1]
    BY <2>1, <2>5
  <2>7. f[k] = f[k - 1] + s[k]
    BY <1>5, <2>5
  <2>8. f[k] \in Nat /\ f[k - 1] \in Nat /\ s[k] \in Nat /\ f[d + p] \in Nat
    BY <1>6, <2>3, <2>5
  <2> QED
    BY <2>2, <2>6, <2>7, <2>8
<1>9. f[d] \in Nat /\ p \in 0 .. p /\ d \in 0 .. n /\ d + p <= n /\ n \in 0 .. n
  BY <1>6
<1>10. f[d + p] = f[d] + g[p] /\ g[p] \in Nat /\ f[n] \in Nat
  BY <1>6, <1>7, <1>9
<1>11. g[p] <= f[n]
  BY <1>8, <1>9, <1>10
<1> QED
  BY <1>1, <1>2, <1>3, <1>4, <1>11

\* Larger sizes have a larger total.
LEMMA TotalMonotone ==
    ASSUME NEW s \in Seq(Nat), NEW t \in Seq(Nat), Len(s) = Len(t),
           \A k \in 1 .. Len(s) : s[k] <= t[k]
    PROVE  Total(s) <= Total(t)
<1>1. PICK n \in Nat : n = Len(s)
  BY LenProperties
<1>2. PICK f \in [0 .. n -> Nat] : RunningSum(f, s, n) /\ Total(s) = f[n]
  BY <1>1, TotalIsRunningSum
<1>3. PICK g \in [0 .. n -> Nat] : RunningSum(g, t, n) /\ Total(t) = g[n]
  BY <1>1, TotalIsRunningSum
<1>4. /\ f[0] = 0 /\ \A k \in 1 .. n : f[k] = f[k - 1] + s[k]
      /\ g[0] = 0 /\ \A k \in 1 .. n : g[k] = g[k - 1] + t[k]
  BY <1>2, <1>3 DEF RunningSum
<1>5. \A k \in 1 .. n : s[k] \in Nat /\ t[k] \in Nat /\ s[k] <= t[k]
  BY <1>1, ElementOfSeq
<1> DEFINE Bad == {k \in 0 .. n : ~(f[k] <= g[k])}
<1>6. Bad = {}
  <2> SUFFICES ASSUME Bad # {} PROVE FALSE
    OBVIOUS
  <2>1. PICK k \in Bad : \A i \in Bad : k <= i
    <3>1. Bad \in SUBSET Nat
      OBVIOUS
    <3> QED
      BY <3>1, LeastNatural
  <2>2. k \in 0 .. n /\ ~(f[k] <= g[k]) /\ k # 0
    BY <1>4, <2>1
  <2>3. k \in 1 .. n /\ k - 1 \in 0 .. n /\ ~(k <= k - 1)
    BY <2>2
  <2>4. f[k - 1] <= g[k - 1] /\ f[k - 1] \in Nat /\ g[k - 1] \in Nat
    BY <2>1, <2>3
  <2>5. f[k] = f[k - 1] + s[k] /\ g[k] = g[k - 1] + t[k]
    BY <1>4, <2>3
  <2>6. s[k] \in Nat /\ t[k] \in Nat /\ s[k] <= t[k]
    BY <1>5, <2>3
  <2> DEFINE a == f[k - 1]
             b == g[k - 1]
             x == s[k]
             y == t[k]
  <2>7. a \in Nat /\ b \in Nat /\ x \in Nat /\ y \in Nat /\ a <= b /\ x <= y
        /\ f[k] = a + x /\ g[k] = b + y
    BY <2>4, <2>5, <2>6
  <2> HIDE DEF a, b, x, y
  <2>8. f[k] <= g[k]
    BY <2>7
  <2> QED
    BY <2>2, <2>8
<1>7. n \in 0 .. n
  OBVIOUS
<1> QED
  BY <1>2, <1>3, <1>6, <1>7

\* The total of one list after another.
LEMMA TotalConcat ==
    ASSUME NEW s \in Seq(Nat), NEW t \in Seq(Nat)
    PROVE  s \o t \in Seq(Nat) /\ Total(s \o t) = Total(s) + Total(t)
<1> DEFINE both == s \o t
<1>1. PICK n \in Nat : n = Len(s)
  BY LenProperties
<1>2. PICK p \in Nat : p = Len(t)
  BY LenProperties
<1>3. /\ both \in Seq(Nat) /\ Len(both) = n + p
      /\ \A k \in 1 .. n : both[k] = s[k]
      /\ \A k \in 1 .. p : both[n + k] = t[k]
  <2>1. /\ both \in Seq(Nat) /\ Len(both) = Len(s) + Len(t)
        /\ \A i \in 1 .. Len(s) + Len(t) : both[i] = IF i <= Len(s) THEN s[i] ELSE t[i - Len(s)]
    BY ConcatProperties
  <2>2. \A k \in 1 .. n : k \in 1 .. n + p /\ k <= n
    OBVIOUS
  <2>3. \A k \in 1 .. p : n + k \in 1 .. n + p /\ ~(n + k <= n) /\ (n + k) - n = k
    OBVIOUS
  <2> HIDE DEF both
  <2>4. \A i \in 1 .. n + p : both[i] = IF i <= n THEN s[i] ELSE t[i - n]
    BY <1>1, <1>2, <2>1
  <2>5. \A k \in 1 .. n : both[k] = s[k]
    BY <2>2, <2>4
  <2>6. \A k \in 1 .. p : both[n + k] = t[k]
    BY <2>3, <2>4
  <2> QED
    BY <1>1, <1>2, <2>1, <2>5, <2>6
<1> HIDE DEF both
<1>4. PICK f \in [0 .. n + p -> Nat] : RunningSum(f, both, n + p) /\ Total(both) = f[n + p]
  BY <1>3, TotalIsRunningSum
<1>5. PICK g \in [0 .. n -> Nat] : RunningSum(g, s, n) /\ Total(s) = g[n]
  BY <1>1, TotalIsRunningSum
<1>6. PICK h \in [0 .. p -> Nat] : RunningSum(h, t, p) /\ Total(t) = h[p]
  BY <1>2, TotalIsRunningSum
<1>7. f[n] = g[n]
  <2> DEFINE Bad == {k \in 0 .. n : f[k] # g[k]}
  <2>1. Bad = {}
    <3> SUFFICES ASSUME Bad # {} PROVE FALSE
      OBVIOUS
    <3>1. PICK k \in Bad : \A i \in Bad : k <= i
      <4>1. Bad \in SUBSET Nat
        OBVIOUS
      <4> QED
        BY <4>1, LeastNatural
    <3>2. k \in 0 .. n /\ f[k] # g[k] /\ k # 0
      BY <1>4, <1>5, <3>1 DEF RunningSum
    <3>3. k \in 1 .. n /\ k \in 1 .. n + p /\ k - 1 \in 0 .. n /\ ~(k <= k - 1)
      BY <3>2
    <3>4. f[k - 1] = g[k - 1]
      BY <3>1, <3>3
    <3>5. f[k] = f[k - 1] + both[k] /\ g[k] = g[k - 1] + s[k]
      BY <1>4, <1>5, <3>3 DEF RunningSum
    <3> QED
      BY <1>3, <3>2, <3>3, <3>4, <3>5
  <2>2. n \in 0 .. n
    OBVIOUS
  <2> QED
    BY <2>1, <2>2
<1> DEFINE Bad == {k \in 0 .. p : f[n + k] # f[n] + h[k]}
<1>8. Bad = {}
  <2> SUFFICES ASSUME Bad # {} PROVE FALSE
    OBVIOUS
  <2>1. PICK k \in Bad : \A i \in Bad : k <= i
    <3>1. Bad \in SUBSET Nat
      OBVIOUS
    <3> QED
      BY <3>1, LeastNatural
  <2>2. f[n] \in Nat /\ h[0] = 0 /\ n + 0 = n
    <3>1. n \in 0 .. n + p
      OBVIOUS
    <3> QED
      BY <1>6, <3>1 DEF RunningSum
  <2>3. k \in 0 .. p /\ f[n + k] # f[n] + h[k] /\ k # 0
    BY <2>1, <2>2
  <2>4. k \in 1 .. p /\ k - 1 \in 0 .. p /\ ~(k <= k - 1) /\ n + k \in 1 .. n + p
        /\ (n + k) - 1 = n + (k - 1)
    BY <2>3
  <2>5. f[n + (k - 1)] = f[n] + h[k - 1]
    BY <2>1, <2>4
  <2>6. h[k] = h[k - 1] + t[k] /\ f[n + k] = f[n + (k - 1)] + t[k]
    <3>1. f[n + k] = f[(n + k) - 1] + both[n + k]
      BY <1>4, <2>4 DEF RunningSum
    <3>2. h[k] = h[k - 1] + t[k]
      BY <1>6, <2>4 DEF RunningSum
    <3> QED
      BY <1>3, <2>4, <3>1, <3>2
  <2> DEFINE a == f[n]
             b == h[k - 1]
             x == t[k]
  <2>7. a \in Nat /\ b \in Nat /\ x \in Nat
    BY <1>2, <2>2, <2>4, ElementOfSeq
  <2>8. f[n + k] = (a + b) + x /\ h[k] = b + x
    BY <2>5, <2>6
  <2> HIDE DEF a, b, x
  <2>9. f[n + k] = a + h[k]
    BY <2>7, <2>8
  <2> QED
    BY <2>3, <2>9 DEF a
<1>9. f[n + p] = f[n] + h[p]
  <2>1. p \in 0 .. p
    OBVIOUS
  <2> QED
    BY <1>8, <2>1
<1> QED
  BY <1>3, <1>4, <1>5, <1>6, <1>7, <1>9 DEF both

\* The sizes of what a list holds.
Sizes(size, list) == [i \in DOMAIN list |-> size[list[i]]]

\* Sizes are as many as what they are sizes of; one more adds its own.
LEMMA SizesType ==
    ASSUME NEW S, NEW size \in [S -> Nat], NEW list \in Seq(S)
    PROVE  /\ Sizes(size, list) \in Seq(Nat) /\ Len(Sizes(size, list)) = Len(list)
           /\ DOMAIN Sizes(size, list) = DOMAIN list
<1>1. \A i \in DOMAIN list : size[list[i]] \in Nat
  BY Elements
<1>2. Sizes(size, list) \in [DOMAIN list -> Nat]
  BY <1>1 DEF Sizes
<1> QED
  BY <1>2, MapType

LEMMA SizesAppend ==
    ASSUME NEW S, NEW size \in [S -> Nat], NEW list \in Seq(S), NEW x \in S
    PROVE  Total(Sizes(size, Append(list, x))) = Total(Sizes(size, list)) + size[x]
<1> DEFINE longer == Append(list, x)
           a == Sizes(size, list)
           b == Sizes(size, longer)
<1>1. PICK n \in Nat : n = Len(list)
  BY LenProperties
<1>2. /\ longer \in Seq(S) /\ Len(longer) = n + 1 /\ longer[n + 1] = x
      /\ \A i \in 1 .. n : longer[i] = list[i]
  BY <1>1, AppendProperties
<1> HIDE DEF longer
<1>3. a \in Seq(Nat) /\ Len(a) = n /\ b \in Seq(Nat) /\ Len(b) = n + 1
  BY <1>1, <1>2, SizesType
<1>4. DOMAIN list = 1 .. n /\ DOMAIN longer = 1 .. n + 1
  BY <1>1, <1>2, LenProperties
<1>5. \A k \in 1 .. n : a[k] = b[k]
  <2>1. \A k \in 1 .. n : k \in 1 .. n + 1
    OBVIOUS
  <2> QED
    BY <1>2, <1>4, <2>1 DEF Sizes
<1>6. b[n + 1] = size[x]
  <2>1. n + 1 \in 1 .. n + 1
    OBVIOUS
  <2> QED
    BY <1>2, <1>4, <2>1 DEF Sizes
<1> HIDE DEF a, b
<1>7. Total(b) = Total(a) + b[n + 1]
  <2>1. Len(b) = Len(a) + 1 /\ Len(b) = n + 1 /\ \A k \in 1 .. Len(a) : a[k] = b[k]
    BY <1>3, <1>5
  <2>2. Total(b) = Total(a) + b[Len(b)]
    BY <1>3, <2>1, TotalExtend
  <2> QED
    BY <1>3, <2>2
<1> QED
  BY <1>6, <1>7 DEF a, b, longer

-----------------------------------------------------------------------------
(***************************************************************************)
(* Items that fit one request together are one chunk, and every item is in *)
(* a chunk.                                                                *)
(***************************************************************************)
\* The positions of a list, and those of a stretch of it.
AllOf(list) == [i \in DOMAIN list |-> i]

From(i, j) == [k \in 1 .. j - i + 1 |-> i + k - 1]

\* A stretch of a list that fits as a whole fits.
LEMMA PartUnder ==
    ASSUME NEW items \in Seq(Item), Under(items, AllOf(items)),
           NEW i \in 1 .. Len(items), NEW j \in i .. Len(items)
    PROVE  Under(items, From(i, j))
<1> DEFINE all == AllOf(items)
           part == From(i, j)
<1>1. PICK n \in Nat : n = Len(items)
  BY LenProperties
<1>2. DOMAIN items = 1 .. n
  BY <1>1, LenProperties
<1>3. /\ all \in [1 .. n -> 1 .. n]
      /\ part \in [1 .. j - i + 1 -> 1 .. n]
  BY <1>1, <1>2 DEF AllOf, From
<1>4. j - i + 1 \in Nat /\ i - 1 \in Nat /\ (i - 1) + (j - i + 1) <= n
  BY <1>1
<1>5. \A k \in 1 .. n : all[k] = k
  BY <1>2 DEF AllOf
<1>6. \A k \in 1 .. j - i + 1 : part[k] = (i - 1) + k /\ part[k] \in 1 .. n
  BY <1>1 DEF From
<1> HIDE DEF all, part
<1>7. all \in Seq(1 .. n) /\ Len(all) = n
  BY <1>3, LenOf
<1>8. part \in Seq(1 .. n) /\ Len(part) = j - i + 1
  <2>1. PICK p \in Nat : p = j - i + 1
    BY <1>4
  <2>2. part \in [1 .. p -> 1 .. n]
    BY <1>3, <2>1
  <2>3. part \in Seq(1 .. n) /\ Len(part) = p
    BY <2>2, LenOf
  <2> QED
    BY <2>1, <2>3
<1> DEFINE fa == Fragments(items, all)
           fp == Fragments(items, part)
           ra == Responses(items, all)
           rp == Responses(items, part)
<1>9. fa \in Seq(Nat) /\ ra \in Seq(Nat) /\ Len(fa) = n /\ Len(ra) = n
  BY <1>1, <1>7, <1>8, ChunkSizesType
<1>10. fp \in Seq(Nat) /\ rp \in Seq(Nat) /\ Len(fp) = j - i + 1 /\ Len(rp) = j - i + 1
  BY <1>1, <1>7, <1>8, ChunkSizesType
<1>11. \A k \in 1 .. j - i + 1 :
          /\ fp[k] = items[(i - 1) + k].fragment /\ fa[(i - 1) + k] = items[(i - 1) + k].fragment
          /\ rp[k] = items[(i - 1) + k].response /\ ra[(i - 1) + k] = items[(i - 1) + k].response
  <2> SUFFICES ASSUME NEW k \in 1 .. j - i + 1
               PROVE  /\ fp[k] = items[(i - 1) + k].fragment
                      /\ fa[(i - 1) + k] = items[(i - 1) + k].fragment
                      /\ rp[k] = items[(i - 1) + k].response
                      /\ ra[(i - 1) + k] = items[(i - 1) + k].response
    OBVIOUS
  <2>1. (i - 1) + k \in 1 .. n
    BY <1>1
  <2> QED
    BY <1>5, <1>6, <1>7, <1>8, <2>1 DEF Fragments, Responses
<1>12. RequestBytes(items, all) = Overhead + Total(fa) + (n - 1)
       /\ RequestBytes(items, part) = Overhead + Total(fp) + (j - i + 1 - 1)
       /\ ReplyBytes(items, all) = Total(ra) /\ ReplyBytes(items, part) = Total(rp)
  BY <1>7, <1>8 DEF RequestBytes, ReplyBytes
<1> HIDE DEF fa, fp, ra, rp
<1>13. Total(fp) <= Total(fa)
  BY <1>4, <1>9, <1>10, <1>11, PartTotal
<1>14. Total(rp) <= Total(ra)
  BY <1>4, <1>9, <1>10, <1>11, PartTotal
<1>15. Total(fp) \in Nat /\ Total(fa) \in Nat /\ Total(rp) \in Nat /\ Total(ra) \in Nat
  BY <1>9, <1>10, TotalType
<1>16. RequestBytes(items, all) < MaxRequest /\ ReplyBytes(items, all) <= MaxResponse
  BY DEF Under, all
<1>17. MaxRequest \in Nat /\ MaxResponse \in Nat /\ Overhead \in Nat
  BY BudgetAssumption
<1>18. RequestBytes(items, part) < MaxRequest
  BY <1>1, <1>12, <1>13, <1>15, <1>16, <1>17
<1>19. ReplyBytes(items, part) <= MaxResponse
  BY <1>12, <1>14, <1>15, <1>16, <1>17
<1> QED
  BY <1>18, <1>19 DEF Under, part

\* Items that fit one request together are sent in one: none is too long, and there
\* is one chunk (pack_chunks).
LEMMA OneChunk ==
    ASSUME NEW items \in Seq(Item), items # <<>>, Under(items, AllOf(items))
    PROVE  ~TooLong(items) /\ Len(Pack(items)) = 1
<1>1. PICK n \in Nat : n = Len(items)
  BY LenProperties
<1>2. n # 0
  BY <1>1, EmptySeq
<1>3. ASSUME NEW i \in 1 .. n
      PROVE  FitsAlone(items[i])
  <2>1. Under(items, From(i, i))
    BY <1>1, <1>3, PartUnder
  <2>2. From(i, i) = <<i>>
    BY <1>3 DEF From
  <2> QED
    BY <1>1, <2>1, <2>2, FitsAloneIsUnder
<1>4. ~TooLong(items)
  BY <1>1, <1>3 DEF TooLong
<1> DEFINE cut == [i \in 1 .. n |-> 1]
<1>5. cut \in Cuttings(items)
  <2>1. cut \in [1 .. Len(items) -> 1 .. Len(items)]
    BY <1>1
  <2>2. \A i, j \in 1 .. Len(items) : i < j => cut[i] <= cut[j]
    BY <1>1
  <2>3. ASSUME NEW i \in 1 .. Len(items), NEW j \in 1 .. Len(items), i <= j
        PROVE  Under(items, [k \in 1 .. j - i + 1 |-> i + k - 1])
    <3>1. j \in i .. Len(items)
      BY <1>1, <2>3
    <3> QED
      BY <3>1, PartUnder DEF From
  <2> QED
    BY <2>1, <2>2, <2>3 DEF Cuttings
<1>6. Len(Pack(items)) <= cut[Len(items)]
  BY <1>4, <1>5, PackContract
<1>7. cut[Len(items)] = 1
  BY <1>1, <1>2
<1>8. Pack(items) \in Seq(Seq(1 .. Len(items))) /\ CutsInOrder(Pack(items), n)
  BY <1>1, <1>4, PackContract
<1>9. Pack(items) # <<>>
  BY <1>2, <1>8 DEF CutsInOrder
<1>10. Len(Pack(items)) \in Nat /\ Len(Pack(items)) # 0
  BY <1>8, <1>9, LenProperties, EmptySeq
<1> HIDE DEF cut
<1>11. Len(Pack(items)) <= 1
  BY <1>6, <1>7
<1>12. Len(Pack(items)) = 1
  <2> DEFINE size == Len(Pack(items))
  <2>1. size \in Nat /\ size # 0 /\ size <= 1
    BY <1>10, <1>11
  <2> HIDE DEF size
  <2>2. size = 1
    BY <2>1
  <2> QED
    BY <2>2 DEF size
<1> QED
  BY <1>4, <1>12

\* Every position is in a chunk.
LEMMA AllTaken ==
    ASSUME NEW n \in Nat, NEW chunks \in Seq(Seq(1 .. n)), CutsInOrder(chunks, n),
           NEW i \in 1 .. n
    PROVE  \E k \in 1 .. Len(chunks) : i \in Holds(chunks[k])
<1> DEFINE all == Len(chunks)
           Taken(p) == \E k \in 1 .. all : p \in Holds(chunks[k])
           Bad == {p \in 1 .. n : ~Taken(p)}
<1>1. all \in Nat
  BY LenProperties
<1>2. ASSUME NEW k \in 1 .. all
      PROVE  /\ Len(chunks[k]) \in Nat \ {0} /\ DOMAIN chunks[k] = 1 .. Len(chunks[k])
             /\ \A j \in 1 .. Len(chunks[k]) : chunks[k][j] \in 1 .. n
  <2>1. chunks[k] \in Seq(1 .. n)
    BY ElementOfSeq
  <2>2. chunks[k] # <<>>
    BY DEF CutsInOrder
  <2> QED
    BY <2>1, <2>2, LenProperties, EmptySeq, ElementOfSeq
<1>3. ASSUME NEW k \in 1 .. all, NEW j \in 1 .. Len(chunks[k])
      PROVE  chunks[k][j] = IF j > 1 THEN chunks[k][j - 1] + 1
                            ELSE IF k > 1 THEN chunks[k - 1][Len(chunks[k - 1])] + 1
                            ELSE 1
  BY DEF CutsInOrder
<1>4. all # 0 /\ chunks[all][Len(chunks[all])] = n
  <2>1. CASE chunks = <<>>
    BY <2>1 DEF CutsInOrder
  <2>2. CASE chunks # <<>>
    BY <2>2, EmptySeq DEF CutsInOrder
  <2> QED
    BY <2>1, <2>2
<1>5. Bad = {}
  <2> SUFFICES ASSUME Bad # {} PROVE FALSE
    OBVIOUS
  <2>1. PICK p \in Bad : \A q \in Bad : p <= q
    <3>1. Bad \in SUBSET Nat
      OBVIOUS
    <3> QED
      BY <3>1, LeastNatural
  <2>2. p \in 1 .. n /\ ~Taken(p)
    BY <2>1
  <2>3. CASE p = 1
    <3>1. 1 \in 1 .. all /\ 1 \in 1 .. Len(chunks[1]) /\ 1 \in DOMAIN chunks[1]
      BY <1>1, <1>2, <1>4
    <3>2. chunks[1][1] = 1
      BY <1>3, <3>1
    <3> QED
      BY <2>2, <2>3, <3>1, <3>2 DEF Holds
  <2>4. CASE p # 1
    <3>1. p - 1 \in 1 .. n /\ ~(p <= p - 1) /\ (p - 1) + 1 = p
      BY <2>2, <2>4
    <3>2. PICK k \in 1 .. all : p - 1 \in Holds(chunks[k])
      BY <2>1, <3>1
    <3>3. PICK j \in 1 .. Len(chunks[k]) : p - 1 = chunks[k][j]
      BY <1>2, <3>2 DEF Holds
    <3>4. Len(chunks[k]) \in Nat
      BY <1>2
    <3>5. CASE j # Len(chunks[k])
      <4>1. j + 1 \in 1 .. Len(chunks[k]) /\ j + 1 > 1 /\ (j + 1) - 1 = j
        BY <3>4, <3>5
      <4>2. chunks[k][j + 1] = p
        BY <1>3, <3>1, <3>3, <4>1
      <4> QED
        BY <1>2, <2>2, <4>1, <4>2 DEF Holds
    <3>6. CASE j = Len(chunks[k]) /\ k # all
      <4>1. k + 1 \in 1 .. all /\ k + 1 > 1 /\ (k + 1) - 1 = k
        BY <1>1, <3>6
      <4>2. 1 \in 1 .. Len(chunks[k + 1]) /\ 1 \in DOMAIN chunks[k + 1] /\ ~(1 > 1)
        BY <1>2, <4>1
      <4>3. chunks[k + 1][1] = p
        BY <1>3, <3>1, <3>3, <3>6, <4>1, <4>2
      <4> QED
        BY <2>2, <4>1, <4>2, <4>3 DEF Holds
    <3>7. CASE j = Len(chunks[k]) /\ k = all
      BY <1>4, <2>2, <3>1, <3>3, <3>7
    <3> QED
      BY <3>5, <3>6, <3>7
  <2> QED
    BY <2>3, <2>4
<1> QED
  BY <1>5

-----------------------------------------------------------------------------
(***************************************************************************)
(* Sizes of lists that are joined                                          *)
(***************************************************************************)
LEMMA SizesConcat ==
    ASSUME NEW S, NEW size \in [S -> Nat], NEW s \in Seq(S), NEW t \in Seq(S)
    PROVE  /\ s \o t \in Seq(S)
           /\ Total(Sizes(size, s \o t)) = Total(Sizes(size, s)) + Total(Sizes(size, t))
<1> DEFINE both == s \o t
           a == Sizes(size, s)
           b == Sizes(size, t)
           c == Sizes(size, both)
           d == a \o b
<1>1. PICK n \in Nat : n = Len(s) /\ DOMAIN s = 1 .. n
  BY Elements
<1>2. PICK p \in Nat : p = Len(t) /\ DOMAIN t = 1 .. p
  BY Elements
<1>3. /\ both \in Seq(S) /\ Len(both) = n + p
      /\ \A i \in 1 .. n + p : both[i] = IF i <= n THEN s[i] ELSE t[i - n]
  BY <1>1, <1>2, ConcatProperties
<1> HIDE DEF both
<1>4. /\ a \in Seq(Nat) /\ Len(a) = n /\ b \in Seq(Nat) /\ Len(b) = p
      /\ c \in Seq(Nat) /\ Len(c) = n + p
  BY <1>1, <1>2, <1>3, SizesType
<1>5. /\ d \in Seq(Nat) /\ Len(d) = n + p
      /\ \A i \in 1 .. n + p : d[i] = IF i <= n THEN a[i] ELSE b[i - n]
  <2> HIDE DEF a, b
  <2> QED
    BY <1>4, ConcatProperties
<1>6. DOMAIN both = 1 .. n + p
  BY <1>3, Elements
<1>7. ASSUME NEW i \in 1 .. n + p
      PROVE  c[i] = d[i]
  <2>1. c[i] = size[both[i]]
    BY <1>6 DEF Sizes
  <2>2. CASE i <= n
    <3>1. i \in 1 .. n
      BY <2>2
    <3>2. a[i] = size[s[i]]
      BY <1>1, <3>1 DEF Sizes
    <3> QED
      BY <1>3, <1>5, <2>1, <2>2, <3>2
  <2>3. CASE ~(i <= n)
    <3>1. i - n \in 1 .. p
      BY <2>3
    <3>2. b[i - n] = size[t[i - n]]
      BY <1>2, <3>1 DEF Sizes
    <3> QED
      BY <1>3, <1>5, <2>1, <2>3, <3>2
  <2> QED
    BY <2>2, <2>3
<1>8. c = d
  <2> HIDE DEF c, d
  <2>1. Len(c) = Len(d) /\ \A i \in 1 .. Len(c) : c[i] = d[i]
    BY <1>4, <1>5, <1>7
  <2> QED
    BY <1>4, <1>5, <2>1, SameElements
<1>9. Total(d) = Total(a) + Total(b)
  <2> HIDE DEF a, b
  <2> QED
    BY <1>4, TotalConcat
<1> QED
  BY <1>3, <1>8, <1>9 DEF both

\* Lists that are bounded one by one are bounded when they are joined.
LEMMA FlattenSizes ==
    ASSUME NEW S, NEW size \in [S -> Nat], NEW lists \in Seq(Seq(S)),
           NEW bounds \in Seq(Nat), Len(bounds) = Len(lists),
           \A k \in 1 .. Len(lists) : Total(Sizes(size, lists[k])) <= bounds[k]
    PROVE  Total(Sizes(size, FlattenSeq(lists))) <= Total(bounds)
<1>1. PICK n \in Nat : n = Len(lists)
  BY LenProperties
<1>2. \A i \in 1 .. n : lists[i] \in Seq(S)
  BY <1>1, ElementOfSeq
<1>3. PICK g \in [0 .. n -> Nat] : RunningSum(g, bounds, n) /\ Total(bounds) = g[n]
  BY <1>1, TotalIsRunningSum
<1>4. g[0] = 0 /\ \A k \in 1 .. n : g[k] = g[k - 1] + bounds[k]
  BY <1>3 DEF RunningSum
<1>5. CASE n = 0
  <2>1. lists = <<>>
    BY <1>1, <1>5, EmptySeq
  <2>2. FlattenSeq(lists) = <<>>
    BY <1>1, <1>5, <2>1 DEF FlattenSeq
  <2>3. Sizes(size, <<>>) = <<>>
    BY DEF Sizes
  <2>4. Total(Sizes(size, FlattenSeq(lists))) = 0
    BY <2>2, <2>3, TotalEmpty
  <2>5. Total(bounds) = 0
    BY <1>3, <1>4, <1>5
  <2> QED
    BY <2>4, <2>5
<1>6. CASE n # 0
  <2>1. lists # <<>>
    BY <1>1, <1>6, EmptySeq
  <2>2. PICK flat : FlattenRun(flat, lists, n) /\ FlattenSeq(lists) = flat[n]
    BY <1>1, <2>1, FlattenIsRun
  <2>3. \A i \in 1 .. n :
           flat[i] = IF i = 1 THEN lists[i] ELSE flat[i - 1] \o lists[i]
    BY <2>2 DEF FlattenRun
  <2> DEFINE Good(i) == flat[i] \in Seq(S) /\ Total(Sizes(size, flat[i])) <= g[i]
             Bad == {i \in 1 .. n : ~Good(i)}
  <2>4. Good(1)
    <3>1. 1 \in 1 .. n
      BY <1>6
    <3>2. flat[1] = lists[1]
      BY <2>3, <3>1
    <3>3. lists[1] \in Seq(S) /\ Total(Sizes(size, lists[1])) <= bounds[1] /\ bounds[1] \in Nat
      BY <1>1, <1>2, <3>1, ElementOfSeq
    <3>4. g[1] = bounds[1]
      BY <1>4, <3>1, <3>3
    <3> QED
      BY <3>2, <3>3, <3>4
  <2>5. ASSUME NEW i \in 2 .. n, Good(i - 1)
        PROVE  Good(i)
    <3>1. i \in 1 .. n /\ i # 1 /\ i - 1 \in 0 .. n /\ i \in 0 .. n
      OBVIOUS
    <3> DEFINE before == flat[i - 1]
               list == lists[i]
    <3>2. flat[i] = before \o list
      BY <2>3, <3>1
    <3>3. /\ list \in Seq(S) /\ before \in Seq(S)
          /\ Total(Sizes(size, list)) <= bounds[i] /\ Total(Sizes(size, before)) <= g[i - 1]
          /\ bounds[i] \in Nat /\ g[i - 1] \in Nat /\ g[i] = g[i - 1] + bounds[i]
      BY <1>1, <1>2, <1>4, <2>5, <3>1, ElementOfSeq
    <3> HIDE DEF before, list
    <3>4. /\ flat[i] \in Seq(S)
          /\ Total(Sizes(size, flat[i])) = Total(Sizes(size, before)) + Total(Sizes(size, list))
      <4>1. before \in Seq(S) /\ list \in Seq(S)
        BY <3>3
      <4>2. /\ before \o list \in Seq(S)
            /\ Total(Sizes(size, before \o list))
                  = Total(Sizes(size, before)) + Total(Sizes(size, list))
        BY <4>1, SizesConcat
      <4> QED
        BY <3>2, <4>2
    <3>5. Total(Sizes(size, before)) \in Nat /\ Total(Sizes(size, list)) \in Nat
      <4>1. Sizes(size, before) \in Seq(Nat) /\ Sizes(size, list) \in Seq(Nat)
        BY <3>3, SizesType
      <4> QED
        BY <4>1, TotalType
    <3> DEFINE x == Total(Sizes(size, before))
               y == Total(Sizes(size, list))
               z == Total(Sizes(size, flat[i]))
    <3>6. /\ x \in Nat /\ y \in Nat /\ z = x + y /\ y <= bounds[i] /\ x <= g[i - 1]
          /\ bounds[i] \in Nat /\ g[i - 1] \in Nat /\ g[i] = g[i - 1] + bounds[i]
      BY <3>3, <3>4, <3>5
    <3> HIDE DEF x, y, z
    <3>7. z <= g[i]
      BY <3>6, SMTT(30)
    <3> QED
      BY <3>4, <3>7 DEF z
  <2> HIDE DEF Good
  <2>6. Bad = {}
    <3> SUFFICES ASSUME Bad # {} PROVE FALSE
      OBVIOUS
    <3>1. PICK m \in Bad : \A k \in Bad : m <= k
      <4>1. Bad \in SUBSET Nat
        OBVIOUS
      <4> QED
        BY <4>1, LeastNatural
    <3>2. m \in 1 .. n /\ ~Good(m) /\ m # 1
      BY <2>4, <3>1
    <3>3. m \in 2 .. n /\ m - 1 \in 1 .. n /\ ~(m <= m - 1)
      BY <3>2
    <3>4. Good(m - 1)
      BY <3>1, <3>3
    <3> QED
      BY <2>5, <3>2, <3>3, <3>4
  <2>7. Good(n)
    <3>1. n \in 1 .. n
      BY <1>6
    <3> QED
      BY <2>6, <3>1
  <2> QED
    BY <1>3, <2>2, <2>7 DEF Good
<1> QED
  BY <1>5, <1>6
=============================================================================
