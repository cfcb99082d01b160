--------------------------- MODULE ApiCall_proofs ---------------------------
(***************************************************************************)
(* api_call implements ApiContract, for any callers, requests and limits.  *)
(* The invariant Inv follows the request a caller has out: the chunks left *)
(* in its queue are the last ones of its plan; what the log holds of the   *)
(* call ends where they begin, or one chunk later if the device has dealt  *)
(* with the first of them; and of a call there is never more than one      *)
(* write on its way.                                                       *)
(*                                                                         *)
(* Four more invariants carry the promises to a caller: Sound, that        *)
(* nothing is sent of a set that is turned down; CutAtEnds, that the log   *)
(* of a call ends where one of its requests does; Typed, that chunks hold  *)
(* positions in what they were cut from; and Truthful, that the answer a   *)
(* call builds up has all that its requests so far asked for, as it was or *)
(* as it was set.                                                          *)
(*                                                                         *)
(* The loop that cuts a list into requests, PackChunks, is proved last.    *)
(***************************************************************************)
EXTENDS ApiCall, PackChunks, Packing_proofs

\* Where the k-th request of the writes ends; the first begins after 0.
EndAt(request, k) == IF k = 0 THEN 0 ELSE Ends(request)[k]

\* What pack_chunks makes of the setters of a request set: each request takes the
\* setters that follow those of the one before.
InRuns(request) ==
    LET chunks == Plan[request].write_chunks
    IN  /\ chunks \in Seq(Seq(Nat)) /\ Len(chunks) \in Nat
        /\ DOMAIN Ends(request) = 1 .. Len(chunks) /\ Len(Ends(request)) = Len(chunks)
        /\ \A k \in 0 .. Len(chunks) : EndAt(request, k) \in Nat
        /\ \A k \in 1 .. Len(chunks) :
              /\ DOMAIN chunks[k] = 1 .. EndAt(request, k) - EndAt(request, k - 1)
              /\ EndAt(request, k - 1) < EndAt(request, k)
              /\ \A j \in DOMAIN chunks[k] : chunks[k][j] = EndAt(request, k - 1) + j

(***************************************************************************)
(* What is known of one caller, by its calls, phase, queue, whether it     *)
(* waits, its reply, the requests it has in the network, and the setters   *)
(* that took effect by call.                                               *)
(***************************************************************************)
CallRecord == [request : AllRequests, outcome : Outcomes]

IsOpen(list) == list # <<>> /\ list[Len(list)].outcome = "open"

Writes(sent, n) == {m \in sent : m.phase = "writing" /\ m.call = n}

\* The setters a write carries, by their index.
Carried(m) == {m.chunk[i] : i \in DOMAIN m.chunk}

\* What is done, by call, before and after a write.
CarriedOut(m, done, after) ==
    /\ \A n \in Nat : n # m.call => after[n] = done[n]
    /\ after[m.call] = done[m.call] \cup Carried(m)

\* A write on its way is the next of its call, and the only one.
NextWrite(list, sent, done, m) ==
    LET request == list[m.call].request
        chunks == Plan[request].write_chunks
    IN  /\ m.request = request
        /\ ~Plan[request].writes_too_long
        /\ \E k \in 1 .. Len(chunks) :
              m.chunk = chunks[k] /\ done[m.call] = 1 .. EndAt(request, k - 1)
        /\ Writes(sent, m.call) = {m}

\* k requests have been answered; the next one may be out.
Progress(list, left, waits, answer, sent, done, k) ==
    LET n == Len(list)
        request == list[n].request
        chunks == Plan[request].write_chunks
    IN  /\ left = SubSeq(chunks, k + 1, Len(chunks))
        /\ ~waits => done[n] = 1 .. EndAt(request, k) /\ Writes(sent, n) = {}
        /\ waits =>
              /\ k < Len(chunks)
              /\ \A m \in Writes(sent, n) :
                    m.chunk = chunks[k + 1] /\ done[n] = 1 .. EndAt(request, k)
              /\ answer # NoReply =>
                    done[n] = 1 .. EndAt(request, k + 1) /\ Writes(sent, n) = {}

Fine(list, ph, left, waits, answer, sent, done) ==
    /\ list \in Seq(CallRecord) /\ ph \in {"idle", "reading", "writing"} /\ waits \in BOOLEAN
    /\ ph # "idle" <=> IsOpen(list)
    /\ \A n \in 1 .. Len(list) : list[n].outcome = "open" => n = Len(list)
    /\ ph = "idle" => ~waits
    /\ waits => left # <<>>
    /\ ~waits => answer = NoReply
    /\ \A n \in Nat : n > Len(list) => done[n] = {}
    /\ \A m \in sent : m.call \in 1 .. Len(list)
    /\ \A m \in sent : m.phase = "writing" => NextWrite(list, sent, done, m)
    /\ ph = "reading" => done[Len(list)] = {} /\ Writes(sent, Len(list)) = {}
    /\ ph = "writing" =>
          /\ ~Plan[list[Len(list)].request].writes_too_long
          /\ \E k \in 0 .. Len(Plan[list[Len(list)].request].write_chunks) :
                Progress(list, left, waits, answer, sent, done, k)

-----------------------------------------------------------------------------
\* A sequence of successive numbers is an interval.
LEMMA SuccessiveNumbers ==
    ASSUME NEW s \in Seq(Nat), \A j \in 1 .. Len(s) : j > 1 => s[j] = s[j - 1] + 1
    PROVE  \A j \in 1 .. Len(s) : s[j] = s[1] + j - 1
<1> DEFINE Bad == {j \in 1 .. Len(s) : s[j] # s[1] + j - 1}
<1> SUFFICES ASSUME Bad # {} PROVE FALSE
  OBVIOUS
<1>1. Len(s) \in Nat /\ \A j \in 1 .. Len(s) : s[j] \in Nat
  BY LenProperties, ElementOfSeq
<1>2. Bad \in SUBSET Nat
  BY <1>1
<1>3. PICK j \in Bad : \A k \in Bad : j <= k
  BY <1>2, LeastNatural
<1>4. j \in 1 .. Len(s) /\ s[j] # s[1] + j - 1
  BY <1>3
<1>5. CASE j = 1
  BY <1>1, <1>4, <1>5
<1>6. CASE j # 1
  <2>1. j - 1 \in 1 .. Len(s) /\ j > 1 /\ ~(j <= j - 1)
    BY <1>1, <1>4, <1>6
  <2> DEFINE first == s[1]
             before == s[j - 1]
  <2>2. before = first + (j - 1) - 1
    BY <1>3, <2>1
  <2>3. s[j] = before + 1
    BY <1>4, <2>1
  <2>4. first \in Nat /\ j \in Nat
    BY <1>1, <1>4
  <2> HIDE DEF first, before
  <2>5. s[j] = first + j - 1
    BY <2>2, <2>3, <2>4
  <2> QED
    BY <1>4, <2>5 DEF first
<1> QED
  BY <1>5, <1>6

\* Writes that can be sent are sent in runs (pack_chunks, PackContract).
LEMMA WritesInRuns ==
    ASSUME NEW request \in AllRequests, ~Plan[request].writes_too_long
    PROVE  InRuns(request)
<1> DEFINE all_items == WriteItems(request)
           chunks == Plan[request].write_chunks
           size == Len(request.setters)
<1>1. request.setters \in Seq(Setter)
  BY ControllerAssumption DEF AllRequests, RequestSet
<1>2. size \in Nat /\ DOMAIN request.setters = 1 .. size
  BY <1>1, LenProperties
<1>3. chunks = Pack(all_items) /\ ~TooLong(all_items)
  BY DEF Plan
<1>4. ASSUME NEW i \in 1 .. size
      PROVE  all_items[i] \in Item
  <2> DEFINE setter == request.setters[i]
  <2>1. setter \in Setter
    BY <1>1, ElementOfSeq
  <2>2. setter.path \in Paths /\ setter.path \in Variables /\ setter.value \in Values
    BY <2>1 DEF Setter, Paths
  <2> DEFINE path_len == PathLen[setter.path]
             encoded_len == EncodedLen[setter.value]
             value_len == ValueLen[setter.value]
             fragment == path_len + 1 + encoded_len
             response == path_len + value_len + 2
  <2>3. path_len \in Nat /\ encoded_len \in Nat /\ value_len \in Nat
    BY <2>2, ControllerAssumption
  <2>4. all_items[i] = [fragment |-> fragment, response |-> response]
    BY <1>2 DEF WriteItems
  <2> HIDE DEF path_len, encoded_len, value_len
  <2>5. fragment \in Nat /\ response \in Nat
    BY <2>3
  <2> HIDE DEF all_items, fragment, response
  <2> QED
    BY <2>4, <2>5 DEF Item
<1>5. all_items \in Seq(Item) /\ Len(all_items) = size
  <2>1. all_items \in [1 .. size -> Item]
    BY <1>2, <1>4 DEF WriteItems
  <2> HIDE DEF all_items
  <2>2. all_items \in Seq(Item)
    BY <1>2, <2>1, SeqDef
  <2> QED
    BY <1>2, <2>1, <2>2, LenProperties
<1> HIDE DEF all_items
<1>6. chunks \in Seq(Seq(1 .. size)) /\ CutsInOrder(chunks, size)
  BY <1>3, <1>5, PackContract
<1>7. Ends(request) = [k \in DOMAIN chunks |-> Last(chunks[k])]
  BY DEF Ends
<1> HIDE DEF chunks
<1>8. Len(chunks) \in Nat /\ DOMAIN chunks = 1 .. Len(chunks)
  BY <1>6, LenProperties
<1>9. Seq(1 .. size) \subseteq Seq(Nat)
  <2> SUFFICES ASSUME NEW s \in Seq(1 .. size) PROVE s \in Seq(Nat)
    OBVIOUS
  <2>1. 1 .. size \subseteq Nat
    OBVIOUS
  <2> QED
    BY <2>1, SeqMonotonic
<1>10. chunks \in Seq(Seq(Nat))
  BY <1>6, <1>9, SeqMonotonic
<1>11. ASSUME NEW k \in 1 .. Len(chunks)
       PROVE  /\ chunks[k] \in Seq(Nat) /\ Len(chunks[k]) \in Nat \ {0}
              /\ DOMAIN chunks[k] = 1 .. Len(chunks[k])
              /\ \A j \in 1 .. Len(chunks[k]) : chunks[k][j] \in Nat
              /\ EndAt(request, k) = chunks[k][Len(chunks[k])] /\ EndAt(request, k) \in Nat
              /\ \A j \in 1 .. Len(chunks[k]) : j > 1 => chunks[k][j] = chunks[k][j - 1] + 1
              /\ chunks[k][1] = IF k > 1 THEN chunks[k - 1][Len(chunks[k - 1])] + 1 ELSE 1
  <2>1. chunks[k] \in Seq(Nat)
    BY <1>10, ElementOfSeq
  <2>2. /\ chunks[k] # <<>>
        /\ \A j \in 1 .. Len(chunks[k]) :
              chunks[k][j] =
                  IF j > 1 THEN chunks[k][j - 1] + 1
                  ELSE IF k > 1 THEN chunks[k - 1][Len(chunks[k - 1])] + 1
                  ELSE 1
    BY <1>6 DEF CutsInOrder
  <2>3. Len(chunks[k]) \in Nat \ {0} /\ DOMAIN chunks[k] = 1 .. Len(chunks[k])
    BY <2>1, <2>2, EmptySeq, LenProperties
  <2>4. \A j \in 1 .. Len(chunks[k]) : chunks[k][j] \in Nat
    BY <2>1, ElementOfSeq
  <2>5. EndAt(request, k) = chunks[k][Len(chunks[k])]
    BY <1>7, <1>8 DEF EndAt, Last
  <2>6. EndAt(request, k) \in Nat
    BY <2>3, <2>4, <2>5
  <2>7. chunks[k][1] = IF k > 1 THEN chunks[k - 1][Len(chunks[k - 1])] + 1 ELSE 1
    <3>1. 1 \in 1 .. Len(chunks[k]) /\ ~(1 > 1)
      BY <2>3
    <3> QED
      BY <2>2, <3>1
  <2>8. \A j \in 1 .. Len(chunks[k]) : j > 1 => chunks[k][j] = chunks[k][j - 1] + 1
    BY <2>2
  <2> QED
    BY <2>1, <2>3, <2>4, <2>5, <2>6, <2>7, <2>8
<1>12. ASSUME NEW k \in 1 .. Len(chunks)
       PROVE  /\ chunks[k][1] = EndAt(request, k - 1) + 1
              /\ EndAt(request, k) = EndAt(request, k - 1) + Len(chunks[k])
              /\ \A j \in 1 .. Len(chunks[k]) : chunks[k][j] = EndAt(request, k - 1) + j
  <2>1. chunks[k][1] = EndAt(request, k - 1) + 1
    <3>1. CASE k = 1
      BY <1>11, <3>1 DEF EndAt
    <3>2. CASE k # 1
      <4>1. k - 1 \in 1 .. Len(chunks) /\ k > 1
        BY <1>8, <3>2
      <4> QED
        BY <1>11, <4>1
    <3> QED
      BY <3>1, <3>2
  <2>2. \A j \in 1 .. Len(chunks[k]) : chunks[k][j] = chunks[k][1] + j - 1
    BY <1>11, SuccessiveNumbers
  <2>3. EndAt(request, k - 1) \in Nat
    <3>1. CASE k = 1
      BY <3>1 DEF EndAt
    <3>2. CASE k # 1
      <4>1. k - 1 \in 1 .. Len(chunks)
        BY <1>8, <3>2
      <4> QED
        BY <1>11, <4>1
    <3> QED
      BY <3>1, <3>2
  <2>4. \A j \in 1 .. Len(chunks[k]) : chunks[k][j] = EndAt(request, k - 1) + j
    BY <2>1, <2>2, <2>3
  <2>5. Len(chunks[k]) \in 1 .. Len(chunks[k])
    BY <1>11
  <2> QED
    BY <1>11, <2>1, <2>4, <2>5
<1>13. \A k \in 0 .. Len(chunks) : EndAt(request, k) \in Nat
  <2> SUFFICES ASSUME NEW k \in 0 .. Len(chunks) PROVE EndAt(request, k) \in Nat
    OBVIOUS
  <2>1. CASE k = 0
    BY <2>1 DEF EndAt
  <2>2. CASE k # 0
    <3>1. k \in 1 .. Len(chunks)
      BY <1>8, <2>2
    <3> QED
      BY <1>11, <3>1
  <2> QED
    BY <2>1, <2>2
<1>14. ASSUME NEW k \in 1 .. Len(chunks)
       PROVE  /\ DOMAIN chunks[k] = 1 .. EndAt(request, k) - EndAt(request, k - 1)
              /\ EndAt(request, k - 1) < EndAt(request, k)
              /\ \A j \in DOMAIN chunks[k] : chunks[k][j] = EndAt(request, k - 1) + j
  <2>1. k \in 0 .. Len(chunks) /\ k - 1 \in 0 .. Len(chunks)
    BY <1>8
  <2>2. EndAt(request, k) \in Nat /\ EndAt(request, k - 1) \in Nat
    BY <1>13, <2>1
  <2>3. Len(chunks[k]) \in Nat \ {0} /\ DOMAIN chunks[k] = 1 .. Len(chunks[k])
    BY <1>11
  <2>4. Len(chunks[k]) = EndAt(request, k) - EndAt(request, k - 1)
    BY <1>12, <2>2, <2>3
  <2>5. EndAt(request, k - 1) < EndAt(request, k)
    BY <2>2, <2>3, <2>4
  <2>6. \A j \in DOMAIN chunks[k] : chunks[k][j] = EndAt(request, k - 1) + j
    BY <1>12, <2>3
  <2> QED
    BY <2>3, <2>4, <2>5, <2>6
<1>15. DOMAIN Ends(request) = 1 .. Len(chunks) /\ Len(Ends(request)) = Len(chunks)
  <2>1. Ends(request) \in [1 .. Len(chunks) -> Nat]
    <3>1. \A k \in 1 .. Len(chunks) : EndAt(request, k) = Last(chunks[k]) /\ EndAt(request, k) \in Nat
      BY <1>7, <1>8, <1>13 DEF EndAt
    <3> QED
      BY <1>7, <1>8, <3>1
  <2>2. Ends(request) \in Seq(Nat)
    BY <1>8, <2>1, SeqDef
  <2> QED
    BY <1>8, <2>1, <2>2, LenProperties
<1> QED
  BY <1>8, <1>10, <1>13, <1>14, <1>15 DEF InRuns, chunks

-----------------------------------------------------------------------------
\* What is left of a list after its first k elements.
LEMMA WhatIsLeft ==
    ASSUME NEW S, NEW s \in Seq(S), NEW k \in 0 .. Len(s)
    PROVE  /\ SubSeq(s, 1, Len(s)) = s
           /\ SubSeq(s, k + 1, Len(s)) = <<>> <=> k = Len(s)
           /\ k < Len(s) => /\ Head(SubSeq(s, k + 1, Len(s))) = s[k + 1]
                            /\ Tail(SubSeq(s, k + 1, Len(s))) = SubSeq(s, k + 2, Len(s))
<1>1. Len(s) \in Nat /\ \A i \in 1 .. Len(s) : s[i] \in S
  BY LenProperties, ElementOfSeq
<1>2. SubSeq(s, 1, Len(s)) = s
  BY SubSeqFull
<1>3. ASSUME k < Len(s)
      PROVE  /\ Head(SubSeq(s, k + 1, Len(s))) = s[k + 1]
             /\ Tail(SubSeq(s, k + 1, Len(s))) = SubSeq(s, k + 2, Len(s))
  <2>1. k + 1 \in 1 .. Len(s) /\ Len(s) \in k + 1 .. Len(s) /\ (k + 1) + 1 = k + 2
    BY <1>1, <1>3
  <2>2. /\ Head(SubSeq(s, k + 1, Len(s))) = s[k + 1]
        /\ Tail(SubSeq(s, k + 1, Len(s))) = SubSeq(s, (k + 1) + 1, Len(s))
    BY <2>1, HeadTailOfSubSeq
  <2> QED
    BY <2>1, <2>2
<1>4. SubSeq(s, k + 1, Len(s)) = <<>> <=> k = Len(s)
  <2> DEFINE rest == SubSeq(s, k + 1, Len(s))
  <2>1. k + 1 \in Int /\ Len(s) \in Int /\ \A i \in k + 1 .. Len(s) : s[i] \in S
    BY <1>1
  <2>2. rest \in Seq(S) /\ Len(rest) = IF k + 1 <= Len(s) THEN Len(s) - (k + 1) + 1 ELSE 0
    BY <2>1, SubSeqProperties
  <2> HIDE DEF rest
  <2>3. rest = <<>> <=> Len(rest) = 0
    BY <2>2, EmptySeq
  <2> QED
    BY <1>1, <2>2, <2>3 DEF rest
<1> QED
  BY <1>2, <1>3, <1>4

-----------------------------------------------------------------------------
\* A call begins, or is turned down on the spot.
LEMMA FineBegin ==
    ASSUME NEW list, NEW left, NEW waits, NEW answer, NEW sent, NEW done,
           Fine(list, "idle", left, waits, answer, sent, done),
           NEW request \in AllRequests, NEW outcome \in Outcomes, NEW next
    PROVE  LET longer == Append(list, [request |-> request, outcome |-> outcome])
           IN  IF outcome = "open"
               THEN Fine(longer, "reading", next, waits, answer, sent, done)
               ELSE Fine(longer, "idle", left, waits, answer, sent, done)
<1> DEFINE call == [request |-> request, outcome |-> outcome]
           longer == Append(list, call)
<1>1. /\ list \in Seq(CallRecord) /\ waits \in BOOLEAN /\ ~IsOpen(list) /\ ~waits
      /\ \A n \in 1 .. Len(list) : list[n].outcome = "open" => n = Len(list)
      /\ answer = NoReply
      /\ \A n \in Nat : n > Len(list) => done[n] = {}
      /\ \A m \in sent : m.call \in 1 .. Len(list)
      /\ \A m \in sent : m.phase = "writing" => NextWrite(list, sent, done, m)
  BY DEF Fine
<1>2. call \in CallRecord /\ call.outcome = outcome
  BY DEF CallRecord
<1> HIDE DEF call
<1>3. Len(list) \in Nat
  BY <1>1, LenProperties
<1>4. /\ longer \in Seq(CallRecord) /\ Len(longer) = Len(list) + 1
      /\ \A n \in 1 .. Len(list) : longer[n] = list[n]
      /\ longer[Len(list) + 1] = call
  BY <1>1, <1>2, AppendProperties
<1> HIDE DEF longer
<1>5. IsOpen(longer) <=> outcome = "open"
  <2>1. longer # <<>>
    BY <1>3, <1>4, EmptySeq
  <2> QED
    BY <1>2, <1>4, <2>1 DEF IsOpen
<1>6. ASSUME NEW n \in 1 .. Len(longer), longer[n].outcome = "open"
      PROVE  n = Len(longer)
  <2>1. SUFFICES ASSUME n # Len(longer) PROVE FALSE
    OBVIOUS
  <2>2. n \in 1 .. Len(list)
    BY <1>3, <1>4, <2>1
  <2>3. list[n].outcome = "open" /\ n = Len(list)
    BY <1>1, <1>4, <1>6, <2>2
  <2>4. list # <<>>
    BY <1>1, <2>2, <1>3, EmptySeq
  <2> QED
    BY <1>1, <2>3, <2>4 DEF IsOpen
<1>7. \A n \in Nat : n > Len(longer) => done[n] = {}
  BY <1>1, <1>3, <1>4
<1>8. \A m \in sent : m.call \in 1 .. Len(longer)
  BY <1>1, <1>3, <1>4
<1>9. ASSUME NEW m \in sent, m.phase = "writing"
      PROVE  NextWrite(longer, sent, done, m)
  <2>1. m.call \in 1 .. Len(list) /\ NextWrite(list, sent, done, m)
    BY <1>1, <1>9
  <2>2. longer[m.call] = list[m.call]
    BY <1>4, <2>1
  <2> QED
    BY <2>1, <2>2 DEF NextWrite
<1>10. done[Len(longer)] = {} /\ Writes(sent, Len(longer)) = {}
  <2>1. \A m \in sent : m.call # Len(longer)
    BY <1>1, <1>3, <1>4
  <2> QED
    BY <1>1, <1>3, <1>4, <2>1 DEF Writes
<1>11. outcome = "open" => Fine(longer, "reading", next, waits, answer, sent, done)
  BY <1>1, <1>4, <1>5, <1>6, <1>7, <1>8, <1>9, <1>10 DEF Fine
<1>12. outcome # "open" => Fine(longer, "idle", left, waits, answer, sent, done)
  BY <1>1, <1>4, <1>5, <1>6, <1>7, <1>8, <1>9 DEF Fine
<1> QED
  BY <1>11, <1>12 DEF longer, call

\* The next request goes out.
LEMMA FineSend ==
    ASSUME NEW list, NEW ph, NEW left, NEW answer, NEW sent, NEW done,
           Fine(list, ph, left, FALSE, answer, sent, done), ph # "idle", left # <<>>,
           NEW m, m.call = Len(list), m.phase = ph,
           m.request = list[Len(list)].request, m.chunk = Head(left)
    PROVE  Fine(list, ph, left, TRUE, answer, sent \cup {m}, done)
<1> DEFINE more == sent \cup {m}
           last == Len(list)
           request == list[last].request
           chunks == Plan[request].write_chunks
<1>1. /\ list \in Seq(CallRecord) /\ ph \in {"idle", "reading", "writing"} /\ IsOpen(list)
      /\ \A n \in 1 .. last : list[n].outcome = "open" => n = last
      /\ answer = NoReply
      /\ \A n \in Nat : n > last => done[n] = {}
      /\ \A w \in sent : w.call \in 1 .. last
      /\ \A w \in sent : w.phase = "writing" => NextWrite(list, sent, done, w)
      /\ ph = "reading" => done[last] = {} /\ Writes(sent, last) = {}
      /\ ph = "writing" =>
            /\ ~Plan[request].writes_too_long
            /\ \E k \in 0 .. Len(chunks) : Progress(list, left, FALSE, answer, sent, done, k)
  BY DEF Fine
<1>2. last \in 1 .. last
  <2>1. list # <<>> /\ last \in Nat
    BY <1>1, LenProperties DEF IsOpen
  <2>2. last # 0
    BY <1>1, <2>1, EmptySeq
  <2> QED
    BY <2>1, <2>2
<1>3. request \in AllRequests
  <2>1. list[last] \in CallRecord
    BY <1>1, <1>2, ElementOfSeq
  <2> QED
    BY <2>1 DEF CallRecord
<1> HIDE DEF last
<1>4. \A n : n # last => Writes(more, n) = Writes(sent, n)
  BY DEF Writes, last
<1>5. ph = "reading" => \A n : Writes(more, n) = Writes(sent, n)
  BY DEF Writes
<1>6. CASE ph = "reading"
  <2>1. \A w \in more : w.phase = "writing" => NextWrite(list, more, done, w)
    BY <1>1, <1>5, <1>6 DEF NextWrite
  <2>2. \A w \in more : w.call \in 1 .. last
    BY <1>1, <1>2 DEF last
  <2> QED
    BY <1>1, <1>5, <1>6, <2>1, <2>2 DEF Fine, last
<1>7. CASE ph = "writing"
  <2>1. PICK k \in 0 .. Len(chunks) : Progress(list, left, FALSE, answer, sent, done, k)
    BY <1>1, <1>7
  <2>2. /\ left = SubSeq(chunks, k + 1, Len(chunks))
        /\ done[last] = 1 .. EndAt(request, k) /\ Writes(sent, last) = {}
    BY <2>1 DEF Progress, last
  <2>3. InRuns(request) /\ ~Plan[request].writes_too_long
    BY <1>1, <1>3, <1>7, WritesInRuns
  <2>4. chunks \in Seq(Seq(Nat)) /\ Len(chunks) \in Nat
    BY <2>3 DEF InRuns
  <2>5. k < Len(chunks) /\ Head(left) = chunks[k + 1]
    <3>1. k # Len(chunks)
      BY <2>2, <2>4, WhatIsLeft
    <3>2. k < Len(chunks)
      BY <2>4, <3>1
    <3> QED
      BY <2>2, <2>4, <3>2, WhatIsLeft
  <2>6. Writes(more, last) = {m}
    BY <1>7, <2>2 DEF Writes, last
  <2>7. Progress(list, left, TRUE, answer, more, done, k)
    BY <1>1, <2>2, <2>5, <2>6 DEF Progress, last
  <2>8. NextWrite(list, more, done, m)
    <3>1. k + 1 \in 1 .. Len(chunks) /\ (k + 1) - 1 = k
      BY <2>4, <2>5
    <3>2. m.call = last /\ m.request = request /\ m.chunk = chunks[k + 1]
      BY <2>5 DEF last
    <3> QED
      BY <2>2, <2>3, <2>6, <3>1, <3>2 DEF NextWrite
  <2>9. ASSUME NEW w \in sent, w.phase = "writing"
        PROVE  NextWrite(list, more, done, w)
    <3>1. w.call # last
      BY <2>2, <2>9 DEF Writes
    <3> QED
      BY <1>1, <1>4, <2>9, <3>1 DEF NextWrite
  <2>10. \A w \in more : w.call \in 1 .. last
    BY <1>1, <1>2 DEF last
  <2>11. \A w \in more : w.phase = "writing" => NextWrite(list, more, done, w)
    BY <2>8, <2>9
  <2> QED
    BY <1>1, <1>7, <2>3, <2>7, <2>10, <2>11 DEF Fine, last
<1> QED
  BY <1>1, <1>6, <1>7

\* A read is dealt with; if it is awaited its answer is on its way.
LEMMA FineReadDone ==
    ASSUME NEW list, NEW ph, NEW left, NEW waits, NEW answer, NEW sent, NEW done,
           Fine(list, ph, left, waits, answer, sent, done),
           NEW m \in sent, m.phase # "writing",
           NEW answered, answered = answer \/ (waits /\ ph = m.phase)
    PROVE  Fine(list, ph, left, waits, answered, sent \ {m}, done)
<1> DEFINE fewer == sent \ {m}
<1>1. \A n : Writes(fewer, n) = Writes(sent, n)
  BY DEF Writes
<1>2. \A w \in fewer : w.phase = "writing" => NextWrite(list, fewer, done, w)
  BY <1>1 DEF Fine, NextWrite
<1>3. /\ list \in Seq(CallRecord) /\ ph \in {"idle", "reading", "writing"} /\ waits \in BOOLEAN
      /\ ph # "idle" <=> IsOpen(list)
      /\ \A n \in 1 .. Len(list) : list[n].outcome = "open" => n = Len(list)
      /\ ph = "idle" => ~waits
      /\ waits => left # <<>>
      /\ ~waits => answered = NoReply
      /\ \A n \in Nat : n > Len(list) => done[n] = {}
      /\ \A w \in fewer : w.call \in 1 .. Len(list)
      /\ ph = "reading" => done[Len(list)] = {} /\ Writes(fewer, Len(list)) = {}
  BY <1>1 DEF Fine
<1>4. ASSUME ph = "writing"
      PROVE  /\ ~Plan[list[Len(list)].request].writes_too_long
             /\ \E k \in 0 .. Len(Plan[list[Len(list)].request].write_chunks) :
                   Progress(list, left, waits, answered, fewer, done, k)
  BY <1>1, <1>4 DEF Fine, Progress
<1> HIDE DEF fewer
<1>5. Fine(list, ph, left, waits, answered, fewer, done)
  BY <1>2, <1>3, <1>4 DEF Fine
<1> QED
  BY <1>5 DEF fewer

\* A write is lost.
LEMMA FineWriteLost ==
    ASSUME NEW list, NEW ph, NEW left, NEW waits, NEW answer, NEW sent, NEW done,
           Fine(list, ph, left, waits, answer, sent, done),
           NEW m \in sent, m.phase = "writing"
    PROVE  Fine(list, ph, left, waits, answer, sent \ {m}, done)
<1> DEFINE fewer == sent \ {m}
<1>1. \A n : Writes(fewer, n) = Writes(sent, n) \ {m}
  BY DEF Writes
<1>2. ASSUME NEW w \in fewer, w.phase = "writing"
      PROVE  NextWrite(list, fewer, done, w)
  <2>1. NextWrite(list, sent, done, w) /\ w # m
    BY <1>2 DEF Fine
  <2>2. Writes(fewer, w.call) = {w}
    BY <1>1, <2>1 DEF NextWrite
  <2> QED
    BY <2>1, <2>2 DEF NextWrite
<1>3. /\ list \in Seq(CallRecord) /\ ph \in {"idle", "reading", "writing"} /\ waits \in BOOLEAN
      /\ ph # "idle" <=> IsOpen(list)
      /\ \A n \in 1 .. Len(list) : list[n].outcome = "open" => n = Len(list)
      /\ ph = "idle" => ~waits
      /\ waits => left # <<>>
      /\ ~waits => answer = NoReply
      /\ \A n \in Nat : n > Len(list) => done[n] = {}
      /\ \A w \in fewer : w.call \in 1 .. Len(list)
      /\ ph = "reading" => done[Len(list)] = {} /\ Writes(fewer, Len(list)) = {}
  BY <1>1 DEF Fine
<1>4. ASSUME ph = "writing"
      PROVE  /\ ~Plan[list[Len(list)].request].writes_too_long
             /\ \E k \in 0 .. Len(Plan[list[Len(list)].request].write_chunks) :
                   Progress(list, left, waits, answer, fewer, done, k)
  <2>1. \A n : Writes(fewer, n) \subseteq Writes(sent, n)
    BY <1>1
  <2> HIDE DEF fewer
  <2> QED
    BY <1>4, <2>1 DEF Fine, Progress
<1> HIDE DEF fewer
<1>5. Fine(list, ph, left, waits, answer, fewer, done)
  BY <1>2, <1>3, <1>4 DEF Fine
<1> QED
  BY <1>5 DEF fewer

\* A write on its way is the next of a call whose writes can be sent.
LEMMA WriteIsNext ==
    ASSUME NEW list, NEW ph, NEW left, NEW waits, NEW answer, NEW sent, NEW done,
           Fine(list, ph, left, waits, answer, sent, done),
           NEW m \in sent, m.phase = "writing"
    PROVE  LET request == list[m.call].request
               chunks == Plan[request].write_chunks
           IN  /\ m.call \in 1 .. Len(list) /\ m.request = request
               /\ InRuns(request) /\ Writes(sent, m.call) = {m}
               /\ \E k \in 1 .. Len(chunks) :
                     m.chunk = chunks[k] /\ done[m.call] = 1 .. EndAt(request, k - 1)
<1> DEFINE request == list[m.call].request
           chunks == Plan[request].write_chunks
<1>1. m.call \in 1 .. Len(list) /\ NextWrite(list, sent, done, m) /\ list \in Seq(CallRecord)
  BY DEF Fine
<1>2. list[m.call] \in CallRecord
  BY <1>1, ElementOfSeq
<1>3. request \in AllRequests
  BY <1>2 DEF CallRecord
<1>4. ~Plan[request].writes_too_long /\ m.request = request /\ Writes(sent, m.call) = {m}
  BY <1>1 DEF NextWrite
<1>5. \E k \in 1 .. Len(chunks) : m.chunk = chunks[k] /\ done[m.call] = 1 .. EndAt(request, k - 1)
  BY <1>1 DEF NextWrite
<1>6. InRuns(request)
  BY <1>3, <1>4, WritesInRuns
<1> QED
  BY <1>1, <1>4, <1>5, <1>6

\* What it does: the setters done of its call reach up to where the write ends.
LEMMA WriteContinues ==
    ASSUME NEW request, InRuns(request), NEW k \in 1 .. Len(Plan[request].write_chunks),
           NEW m, m.chunk = Plan[request].write_chunks[k]
    PROVE  (1 .. EndAt(request, k - 1)) \cup Carried(m) = 1 .. EndAt(request, k)
<1> DEFINE chunks == Plan[request].write_chunks
           from == EndAt(request, k - 1)
           to == EndAt(request, k)
           chunk == m.chunk
<1>1. Len(chunks) \in Nat
  BY DEF InRuns
<1>2. k - 1 \in 0 .. Len(chunks) /\ k \in 0 .. Len(chunks)
  BY <1>1
<1>3. /\ from \in Nat /\ to \in Nat /\ from < to
      /\ DOMAIN chunk = 1 .. to - from
      /\ \A j \in DOMAIN chunk : chunk[j] = from + j
  BY <1>2 DEF InRuns
<1> HIDE DEF from, to, chunk
<1>4. \A j \in 1 .. to - from : chunk[j] = from + j
  BY <1>3
<1>5. {chunk[i] : i \in DOMAIN chunk} = from + 1 .. to
  <2>1. ASSUME NEW i \in from + 1 .. to
        PROVE  i - from \in DOMAIN chunk /\ chunk[i - from] = i
    <3>1. i - from \in 1 .. to - from
      BY <1>3
    <3>2. chunk[i - from] = from + (i - from)
      BY <1>4, <3>1
    <3> QED
      BY <1>3, <3>1, <3>2
  <2>2. ASSUME NEW j \in DOMAIN chunk
        PROVE  chunk[j] \in from + 1 .. to
    <3>1. j \in 1 .. to - from
      BY <1>3
    <3>2. chunk[j] = from + j
      BY <1>4, <3>1
    <3> QED
      BY <1>3, <3>1, <3>2
  <2>3. \A i \in from + 1 .. to : \E j \in DOMAIN chunk : i = chunk[j]
    BY <2>1
  <2> QED
    BY <2>2, <2>3
<1>6. (1 .. from) \cup (from + 1 .. to) = 1 .. to
  BY <1>3
<1> QED
  BY <1>5, <1>6 DEF Carried, chunk, from, to

\* A caller with a write of its open call on its way is in the second loop and waits,
\* without an answer: the write is the request its queue begins with.
LEMMA OwnWrite ==
    ASSUME NEW list, NEW ph, NEW left, NEW waits, NEW answer, NEW sent, NEW done,
           Fine(list, ph, left, waits, answer, sent, done),
           NEW m \in sent, m.phase = "writing", list[m.call].outcome = "open"
    PROVE  LET request == list[Len(list)].request
               chunks == Plan[request].write_chunks
           IN  /\ m.call = Len(list) /\ ph = "writing" /\ waits /\ answer = NoReply
               /\ IsOpen(list)
               /\ \E k \in 0 .. Len(chunks) :
                     /\ Progress(list, left, waits, answer, sent, done, k)
                     /\ k < Len(chunks) /\ m.chunk = chunks[k + 1]
                     /\ done[Len(list)] = 1 .. EndAt(request, k)
<1> DEFINE request == list[Len(list)].request
           chunks == Plan[request].write_chunks
<1>1. m.call \in 1 .. Len(list) /\ list \in Seq(CallRecord)
  BY DEF Fine
<1>2. m.call = Len(list)
  BY <1>1 DEF Fine
<1>3. list # <<>>
  BY <1>1, <1>2, EmptySeq
<1>4. IsOpen(list)
  BY <1>2, <1>3 DEF IsOpen
<1>5. m \in Writes(sent, Len(list))
  BY <1>2 DEF Writes
<1>6. ph = "writing"
  BY <1>4, <1>5 DEF Fine
<1>7. PICK k \in 0 .. Len(chunks) : Progress(list, left, waits, answer, sent, done, k)
  BY <1>6 DEF Fine
<1>8. waits
  BY <1>5, <1>7 DEF Progress, Fine
<1>9. /\ k < Len(chunks) /\ answer = NoReply
      /\ m.chunk = chunks[k + 1] /\ done[Len(list)] = 1 .. EndAt(request, k)
  BY <1>5, <1>7, <1>8 DEF Progress
<1> QED
  BY <1>2, <1>4, <1>6, <1>7, <1>8, <1>9

\* A write is carried out; if it is awaited its answer is on its way.
LEMMA FineWriteDone ==
    ASSUME NEW list, NEW ph, NEW left, NEW waits, NEW answer, NEW sent, NEW done,
           Fine(list, ph, left, waits, answer, sent, done),
           NEW m \in sent, m.phase = "writing",
           NEW answered, answered = answer \/ (waits /\ m.call = Len(list) /\ ph = m.phase),
           NEW after,
           CarriedOut(m, done, after)
    PROVE  Fine(list, ph, left, waits, answered, sent \ {m}, after)
<1> DEFINE fewer == sent \ {m}
<1>1. \A n : Writes(fewer, n) = Writes(sent, n) \ {m}
  BY DEF Writes
<1>2. /\ m.call \in 1 .. Len(list) /\ InRuns(list[m.call].request)
      /\ Writes(sent, m.call) = {m} /\ Len(list) \in Nat
  <2>1. list \in Seq(CallRecord)
    BY DEF Fine
  <2>2. Len(list) \in Nat
    BY <2>1, LenProperties
  <2>3. m.call \in 1 .. Len(list) /\ InRuns(list[m.call].request) /\ Writes(sent, m.call) = {m}
    BY WriteIsNext
  <2> QED
    BY <2>2, <2>3
<1>3. ASSUME NEW w \in fewer, w.phase = "writing"
      PROVE  NextWrite(list, fewer, after, w)
  <2>1. NextWrite(list, sent, done, w) /\ w # m /\ w.call \in 1 .. Len(list)
    BY <1>3 DEF Fine
  <2>2. Writes(sent, w.call) = {w}
    BY <2>1 DEF NextWrite
  <2>3. Writes(fewer, w.call) = {w} /\ w.call # m.call
    BY <1>1, <1>2, <2>1, <2>2
  <2>4. after[w.call] = done[w.call]
    BY <1>2, <2>1, <2>3 DEF CarriedOut
  <2> QED
    BY <2>1, <2>3, <2>4 DEF NextWrite
<1>4. ASSUME IsOpen(list), m.call = Len(list)
      PROVE  list[m.call].outcome = "open"
  BY <1>4 DEF IsOpen
<1>5. IsOpen(list) /\ m.call = Len(list) => ph = "writing"
  BY <1>4, OwnWrite
<1>6. /\ list \in Seq(CallRecord) /\ ph \in {"idle", "reading", "writing"} /\ waits \in BOOLEAN
      /\ ph # "idle" <=> IsOpen(list)
      /\ \A n \in 1 .. Len(list) : list[n].outcome = "open" => n = Len(list)
      /\ ph = "idle" => ~waits
      /\ waits => left # <<>>
      /\ ~waits => answered = NoReply
      /\ \A w \in fewer : w.call \in 1 .. Len(list)
  BY DEF Fine
<1>7. \A n \in Nat : n > Len(list) => after[n] = {}
  BY <1>2 DEF Fine, CarriedOut
<1>8. ph = "reading" => after[Len(list)] = {} /\ Writes(fewer, Len(list)) = {}
  <2> SUFFICES ASSUME ph = "reading" PROVE after[Len(list)] = {} /\ Writes(fewer, Len(list)) = {}
    OBVIOUS
  <2>1. m.call # Len(list)
    BY <1>5, <1>6
  <2>2. done[Len(list)] = {} /\ Writes(sent, Len(list)) = {}
    BY DEF Fine
  <2> QED
    BY <1>1, <1>2, <2>1, <2>2 DEF CarriedOut
<1>9. ASSUME ph = "writing"
      PROVE  /\ ~Plan[list[Len(list)].request].writes_too_long
             /\ \E k \in 0 .. Len(Plan[list[Len(list)].request].write_chunks) :
                   Progress(list, left, waits, answered, fewer, after, k)
  <2> DEFINE request == list[Len(list)].request
             chunks == Plan[request].write_chunks
  <2>1. ~Plan[request].writes_too_long
    BY <1>9 DEF Fine
  <2>2. CASE m.call # Len(list)
    <3>1. PICK k \in 0 .. Len(chunks) : Progress(list, left, waits, answer, sent, done, k)
      BY <1>9 DEF Fine
    <3>2. after[Len(list)] = done[Len(list)] /\ answered = answer
      BY <1>2, <2>2 DEF CarriedOut
    <3>3. Writes(fewer, Len(list)) = Writes(sent, Len(list))
      BY <1>1, <2>2 DEF Writes
    <3>4. Progress(list, left, waits, answered, fewer, after, k)
      BY <3>1, <3>2, <3>3 DEF Progress
    <3> QED
      BY <2>1, <3>4
  <2>3. CASE m.call = Len(list)
    <3>1. list[m.call].outcome = "open"
      BY <1>4, <1>6, <1>9, <2>3
    <3>2. PICK k \in 0 .. Len(chunks) :
             /\ Progress(list, left, waits, answer, sent, done, k)
             /\ k < Len(chunks) /\ m.chunk = chunks[k + 1] /\ waits
             /\ done[Len(list)] = 1 .. EndAt(request, k)
      BY <3>1, OwnWrite
    <3>3. InRuns(request)
      BY <2>3, WriteIsNext
    <3>4. k + 1 \in 1 .. Len(chunks) /\ (k + 1) - 1 = k
      BY <3>2, <3>3 DEF InRuns
    <3>5. after[Len(list)] = 1 .. EndAt(request, k + 1)
      <4>1. m.chunk = chunks[k + 1] /\ done[m.call] = 1 .. EndAt(request, k)
        BY <2>3, <3>2
      <4>2. (1 .. EndAt(request, (k + 1) - 1)) \cup Carried(m) = 1 .. EndAt(request, k + 1)
        BY <3>3, <3>4, <4>1, WriteContinues
      <4> QED
        BY <2>3, <3>4, <4>1, <4>2 DEF CarriedOut
    <3>6. Writes(fewer, Len(list)) = {}
      BY <1>1, <1>2, <2>3
    <3>7. left = SubSeq(chunks, k + 1, Len(chunks))
      BY <3>2 DEF Progress
    <3>8. Progress(list, left, waits, answered, fewer, after, k)
      BY <3>2, <3>5, <3>6, <3>7 DEF Progress
    <3> QED
      BY <2>1, <3>8
  <2> QED
    BY <2>2, <2>3
<1> HIDE DEF fewer
<1>10. Fine(list, ph, left, waits, answered, fewer, after)
  BY <1>3, <1>6, <1>7, <1>8, <1>9 DEF Fine
<1> QED
  BY <1>10 DEF fewer

\* In the second loop, k requests have been answered and the others are left.
LEMMA InSecondLoop ==
    ASSUME NEW list, NEW left, NEW waits, NEW answer, NEW sent, NEW done,
           Fine(list, "writing", left, waits, answer, sent, done)
    PROVE  LET request == list[Len(list)].request
               chunks == Plan[request].write_chunks
           IN  /\ InRuns(request) /\ ~Plan[request].writes_too_long
               /\ \E k \in 0 .. Len(chunks) :
                     Progress(list, left, waits, answer, sent, done, k)
<1> DEFINE request == list[Len(list)].request
           chunks == Plan[request].write_chunks
<1>1. list \in Seq(CallRecord) /\ IsOpen(list)
  BY DEF Fine
<1>2. Len(list) \in 1 .. Len(list)
  <2>1. Len(list) \in Nat /\ Len(list) # 0
    BY <1>1, LenProperties, EmptySeq DEF IsOpen
  <2> QED
    BY <2>1
<1>3. list[Len(list)] \in CallRecord
  BY <1>1, <1>2, ElementOfSeq
<1>4. request \in AllRequests
  BY <1>3 DEF CallRecord
<1>5. /\ ~Plan[request].writes_too_long
      /\ \E k \in 0 .. Len(chunks) : Progress(list, left, waits, answer, sent, done, k)
  BY DEF Fine
<1> QED
  BY <1>4, <1>5, WritesInRuns

\* The answer arrives and the loop goes on.
LEMMA FineReceive ==
    ASSUME NEW list, NEW ph, NEW left, NEW answer, NEW sent, NEW done,
           Fine(list, ph, left, TRUE, answer, sent, done), answer # NoReply
    PROVE  Fine(list, ph, Tail(left), FALSE, NoReply, sent, done)
<1> DEFINE request == list[Len(list)].request
           chunks == Plan[request].write_chunks
<1>1. /\ list \in Seq(CallRecord) /\ ph \in {"reading", "writing"}
      /\ ph # "idle" <=> IsOpen(list)
      /\ \A n \in 1 .. Len(list) : list[n].outcome = "open" => n = Len(list)
      /\ \A n \in Nat : n > Len(list) => done[n] = {}
      /\ \A m \in sent : m.call \in 1 .. Len(list)
      /\ \A m \in sent : m.phase = "writing" => NextWrite(list, sent, done, m)
      /\ ph = "reading" => done[Len(list)] = {} /\ Writes(sent, Len(list)) = {}
  BY DEF Fine
<1>2. ASSUME ph = "writing"
      PROVE  /\ ~Plan[request].writes_too_long
             /\ \E k \in 0 .. Len(chunks) :
                   Progress(list, Tail(left), FALSE, NoReply, sent, done, k)
  <2>1. InRuns(request) /\ ~Plan[request].writes_too_long
    BY <1>2, InSecondLoop
  <2>2. PICK k \in 0 .. Len(chunks) : Progress(list, left, TRUE, answer, sent, done, k)
    BY <1>2, InSecondLoop
  <2>3. chunks \in Seq(Seq(Nat)) /\ Len(chunks) \in Nat
    BY <2>1 DEF InRuns
  <2>4. /\ left = SubSeq(chunks, k + 1, Len(chunks)) /\ k < Len(chunks)
        /\ done[Len(list)] = 1 .. EndAt(request, k + 1) /\ Writes(sent, Len(list)) = {}
    BY <2>2 DEF Progress
  <2>5. Tail(left) = SubSeq(chunks, k + 2, Len(chunks))
    BY <2>3, <2>4, WhatIsLeft
  <2>6. k + 1 \in 0 .. Len(chunks) /\ (k + 1) + 1 = k + 2
    BY <2>3, <2>4
  <2>7. Progress(list, Tail(left), FALSE, NoReply, sent, done, k + 1)
    BY <2>4, <2>5, <2>6 DEF Progress
  <2> QED
    BY <2>1, <2>6, <2>7
<1> QED
  BY <1>1, <1>2 DEF Fine

\* The call ends.
LEMMA FineEnd ==
    ASSUME NEW list, NEW ph, NEW left, NEW waits, NEW answer, NEW sent, NEW done,
           Fine(list, ph, left, waits, answer, sent, done), ph # "idle",
           NEW outcome \in Outcomes \ {"open"}
    PROVE  Fine([list EXCEPT ![Len(list)].outcome = outcome], "idle", <<>>, FALSE, NoReply,
                sent, done)
<1> DEFINE last == Len(list)
           ended == [list EXCEPT ![last].outcome = outcome]
<1>1. /\ list \in Seq(CallRecord) /\ IsOpen(list)
      /\ \A n \in 1 .. last : list[n].outcome = "open" => n = last
      /\ \A n \in Nat : n > last => done[n] = {}
      /\ \A m \in sent : m.call \in 1 .. last
      /\ \A m \in sent : m.phase = "writing" => NextWrite(list, sent, done, m)
  BY DEF Fine
<1>2. last \in 1 .. last /\ DOMAIN list = 1 .. last /\ last \in Nat
  <2>1. last \in Nat /\ last # 0 /\ DOMAIN list = 1 .. last
    BY <1>1, LenProperties, EmptySeq DEF IsOpen
  <2> QED
    BY <2>1
<1>3. list[last] \in CallRecord
  BY <1>1, <1>2, ElementOfSeq
<1> HIDE DEF last
<1>4. [list[last] EXCEPT !.outcome = outcome] \in CallRecord
  BY <1>3 DEF CallRecord
<1>5. /\ ended \in Seq(CallRecord) /\ Len(ended) = last
      /\ ended[last] = [list[last] EXCEPT !.outcome = outcome]
      /\ \A n \in 1 .. last : n # last => ended[n] = list[n]
  <2>1. ended = [list EXCEPT ![last] = [list[last] EXCEPT !.outcome = outcome]]
    OBVIOUS
  <2> DEFINE call == [list[last] EXCEPT !.outcome = outcome]
  <2> HIDE DEF ended, call
  <2>2. ended = [list EXCEPT ![last] = call] /\ call \in CallRecord
    BY <1>4, <2>1 DEF call
  <2>3. last \in 1 .. Len(list) /\ Len(list) = last
    BY <1>2 DEF last
  <2>4. /\ [list EXCEPT ![last] = call] \in Seq(CallRecord)
        /\ Len([list EXCEPT ![last] = call]) = Len(list)
    BY <1>1, <2>2, <2>3, ExceptSeq
  <2> QED
    BY <1>2, <2>2, <2>3, <2>4 DEF call
<1>6. ended[last].outcome = outcome /\ ended[last].request = list[last].request
  BY <1>3, <1>5 DEF CallRecord
<1> HIDE DEF ended
<1>7. \A n \in 1 .. last : ended[n].request = list[n].request /\ ended[n].outcome # "open"
  BY <1>1, <1>5, <1>6
<1>8. ~IsOpen(ended)
  BY <1>2, <1>5, <1>7 DEF IsOpen
<1>9. ASSUME NEW m \in sent, m.phase = "writing"
      PROVE  NextWrite(ended, sent, done, m)
  <2>1. m.call \in 1 .. last /\ NextWrite(list, sent, done, m)
    BY <1>1, <1>9
  <2>2. ended[m.call].request = list[m.call].request
    BY <1>7, <2>1
  <2> QED
    BY <2>1, <2>2 DEF NextWrite
<1>10. Fine(ended, "idle", <<>>, FALSE, NoReply, sent, done)
  BY <1>1, <1>5, <1>7, <1>8, <1>9 DEF Fine
<1> QED
  BY <1>10 DEF ended, last

\* The first loop is done and the second begins.
LEMMA FineStartWrites ==
    ASSUME NEW list, NEW waits, NEW answer, NEW sent, NEW done,
           Fine(list, "reading", <<>>, waits, answer, sent, done),
           ~Plan[list[Len(list)].request].writes_too_long
    PROVE  Fine(list, "writing", Plan[list[Len(list)].request].write_chunks, waits, answer,
                sent, done)
<1> DEFINE request == list[Len(list)].request
           chunks == Plan[request].write_chunks
<1>1. /\ list \in Seq(CallRecord) /\ waits \in BOOLEAN /\ IsOpen(list) /\ ~waits /\ answer = NoReply
      /\ \A n \in 1 .. Len(list) : list[n].outcome = "open" => n = Len(list)
      /\ \A n \in Nat : n > Len(list) => done[n] = {}
      /\ \A m \in sent : m.call \in 1 .. Len(list)
      /\ \A m \in sent : m.phase = "writing" => NextWrite(list, sent, done, m)
      /\ done[Len(list)] = {} /\ Writes(sent, Len(list)) = {}
  BY DEF Fine
<1>2. Len(list) \in 1 .. Len(list)
  <2>1. Len(list) \in Nat /\ Len(list) # 0
    BY <1>1, LenProperties, EmptySeq DEF IsOpen
  <2> QED
    BY <2>1
<1>3. list[Len(list)] \in CallRecord
  BY <1>1, <1>2, ElementOfSeq
<1>4. request \in AllRequests
  BY <1>3 DEF CallRecord
<1>5. chunks \in Seq(Seq(Nat)) /\ Len(chunks) \in Nat
  BY <1>4, WritesInRuns DEF InRuns
<1>6. chunks = SubSeq(chunks, 0 + 1, Len(chunks)) /\ 0 \in 0 .. Len(chunks)
  BY <1>5, WhatIsLeft
<1>7. done[Len(list)] = 1 .. EndAt(request, 0)
  BY <1>1 DEF EndAt
<1>8. Progress(list, chunks, waits, answer, sent, done, 0)
  BY <1>1, <1>6, <1>7 DEF Progress
<1> QED
  BY <1>1, <1>6, <1>8 DEF Fine

\* When nothing is left of the second loop, every setter is done.
LEMMA AllDone ==
    ASSUME NEW list, NEW waits, NEW answer, NEW sent, NEW done,
           Fine(list, "writing", <<>>, waits, answer, sent, done)
    PROVE  LET request == list[Len(list)].request
           IN  done[Len(list)] = 1 .. EndAt(request, Len(Ends(request)))
<1> DEFINE request == list[Len(list)].request
           chunks == Plan[request].write_chunks
<1>1. InRuns(request)
  BY InSecondLoop
<1>2. PICK k \in 0 .. Len(chunks) : Progress(list, <<>>, waits, answer, sent, done, k)
  BY InSecondLoop
<1>3. ~waits
  BY DEF Fine
<1>4. SubSeq(chunks, k + 1, Len(chunks)) = <<>> /\ done[Len(list)] = 1 .. EndAt(request, k)
  BY <1>2, <1>3 DEF Progress
<1>5. chunks \in Seq(Seq(Nat)) /\ Len(chunks) = Len(Ends(request))
  BY <1>1 DEF InRuns
<1>6. k = Len(chunks)
  BY <1>4, <1>5, WhatIsLeft
<1> QED
  BY <1>4, <1>5, <1>6

-----------------------------------------------------------------------------
(***************************************************************************)
(* The invariant.                                                          *)
(***************************************************************************)
Entry == [client : Clients, call : Nat, index : Nat]

DoneIn(entries, c, n) ==
    {entries[i].index :
        i \in {k \in DOMAIN entries : entries[k].client = c /\ entries[k].call = n}}

DoneBy(entries, c) == [n \in Nat |-> DoneIn(entries, c, n)]

\* What a write adds to the log.
Effects(m) ==
    [k \in DOMAIN m.chunk |->
        [client |-> m.client, call |-> m.call, index |-> m.chunk[k]]]

Sent(c) == {m \in network : m.client = c}

FineFor(c) ==
    Fine(calls[c], phase[c], queue[c], waiting[c], reply[c], Sent(c), DoneBy(log, c))

PerClient ==
    /\ DOMAIN calls = Clients /\ DOMAIN phase = Clients /\ DOMAIN queue = Clients
    /\ DOMAIN waiting = Clients /\ DOMAIN reply = Clients

Inv ==
    /\ PerClient
    /\ log \in Seq(Entry)
    /\ \A m \in network : m.client \in Clients
    /\ \A c \in Clients : FineFor(c)

\* What a step leaves alone of a caller.
Kept(c) ==
    /\ calls'[c] = calls[c] /\ phase'[c] = phase[c] /\ queue'[c] = queue[c]
    /\ waiting'[c] = waiting[c] /\ reply'[c] = reply[c]
    /\ Sent(c)' = Sent(c) /\ DoneBy(log', c) = DoneBy(log, c)

LEMMA KeptFine ==
    ASSUME NEW c, FineFor(c), Kept(c)
    PROVE  FineFor(c)'
BY DEF FineFor, Kept

\* The setters of a write that is carried out join the log.
LEMMA LogExtends ==
    ASSUME NEW entries \in Seq(Entry), NEW m,
           m.client \in Clients, m.call \in Nat, m.chunk \in Seq(Nat)
    PROVE  /\ entries \o Effects(m) \in Seq(Entry)
           /\ \A c, n : DoneIn(entries \o Effects(m), c, n) =
                  IF c = m.client /\ n = m.call THEN DoneIn(entries, c, n) \cup Carried(m)
                                                ELSE DoneIn(entries, c, n)
<1> DEFINE chunk == m.chunk
           owner == m.client
           call == m.call
           added == Effects(m)
           more == entries \o added
           old == Len(entries)
<1>1. /\ Len(chunk) \in Nat /\ DOMAIN chunk = 1 .. Len(chunk)
      /\ old \in Nat /\ DOMAIN entries = 1 .. old
  BY LenProperties
<1>2. \A k \in 1 .. Len(chunk) : chunk[k] \in Nat
  BY ElementOfSeq
<1>3. added \in Seq(Entry) /\ Len(added) = Len(chunk)
  <2> DEFINE size == Len(chunk)
  <2>1. added \in [1 .. size -> Entry] /\ size \in Nat
    BY <1>1, <1>2 DEF Entry, Effects
  <2> HIDE DEF added, size
  <2>2. added \in Seq(Entry)
    BY <2>1, SeqDef
  <2>3. Len(added) = size
    BY <2>1, <2>2, LenProperties
  <2> QED
    BY <2>2, <2>3 DEF size
<1>4. \A k \in 1 .. Len(chunk) :
         added[k].client = owner /\ added[k].call = call /\ added[k].index = chunk[k]
  BY <1>1 DEF Effects
<1>5. more = entries \o added
  OBVIOUS
<1> HIDE DEF added, chunk, owner, call, more
<1>6. /\ more \in Seq(Entry) /\ Len(more) = old + Len(chunk)
      /\ \A i \in 1 .. old : more[i] = entries[i]
      /\ \A k \in 1 .. Len(chunk) : more[old + k] = added[k]
  <2>1. /\ entries \o added \in Seq(Entry) /\ Len(entries \o added) = Len(entries) + Len(added)
        /\ \A i \in 1 .. Len(entries) + Len(added) :
              (entries \o added)[i] = IF i <= Len(entries) THEN entries[i]
                                                           ELSE added[i - Len(entries)]
    BY <1>3, ConcatProperties
  <2>2. \A i \in 1 .. old : i \in 1 .. Len(entries) + Len(added) /\ i <= Len(entries)
    BY <1>1, <1>3
  <2>3. \A k \in 1 .. Len(chunk) :
           /\ old + k \in 1 .. Len(entries) + Len(added) /\ ~(old + k <= Len(entries))
           /\ (old + k) - Len(entries) = k
    BY <1>1, <1>3
  <2> QED
    BY <1>3, <1>5, <2>1, <2>2, <2>3
<1>7. DOMAIN more = 1 .. old + Len(chunk)
  BY <1>6, LenProperties
<1> HIDE DEF old
<1>8. ASSUME NEW c, NEW n, NEW index
      PROVE  index \in DoneIn(more, c, n) <=>
                \/ index \in DoneIn(entries, c, n)
                \/ c = owner /\ n = call /\ \E k \in 1 .. Len(chunk) : index = chunk[k]
  <2>1. index \in DoneIn(more, c, n) <=>
           \E i \in 1 .. old + Len(chunk) :
              more[i].client = c /\ more[i].call = n /\ more[i].index = index
    BY <1>7 DEF DoneIn
  <2>2. index \in DoneIn(entries, c, n) <=>
           \E i \in 1 .. old :
              entries[i].client = c /\ entries[i].call = n /\ entries[i].index = index
    BY <1>1 DEF DoneIn
  <2>3. ASSUME NEW i \in 1 .. old + Len(chunk),
               more[i].client = c, more[i].call = n, more[i].index = index
        PROVE  \/ index \in DoneIn(entries, c, n)
               \/ c = owner /\ n = call /\ \E k \in 1 .. Len(chunk) : index = chunk[k]
    <3>1. CASE i <= old
      <4>1. i \in 1 .. old
        BY <1>1, <3>1
      <4> QED
        BY <1>6, <2>2, <2>3, <4>1
    <3>2. CASE i > old
      <4>1. i - old \in 1 .. Len(chunk) /\ old + (i - old) = i
        BY <1>1, <3>2
      <4>2. more[i] = added[i - old]
        BY <1>6, <4>1
      <4> QED
        BY <1>4, <2>3, <4>1, <4>2
    <3> QED
      BY <1>1, <3>1, <3>2
  <2>4. ASSUME index \in DoneIn(entries, c, n)
        PROVE  index \in DoneIn(more, c, n)
    <3>1. PICK i \in 1 .. old :
             entries[i].client = c /\ entries[i].call = n /\ entries[i].index = index
      BY <2>2, <2>4
    <3>2. i \in 1 .. old + Len(chunk) /\ more[i] = entries[i]
      BY <1>1, <1>6
    <3>3. more[i].client = c /\ more[i].call = n /\ more[i].index = index
      BY <3>1, <3>2
    <3> QED
      BY <2>1, <3>2, <3>3
  <2>5. ASSUME c = owner, n = call, NEW k \in 1 .. Len(chunk), index = chunk[k]
        PROVE  index \in DoneIn(more, c, n)
    <3>1. old + k \in 1 .. old + Len(chunk)
      BY <1>1
    <3>2. more[old + k] = added[k]
      BY <1>6
    <3>3. added[k].client = c /\ added[k].call = n /\ added[k].index = index
      BY <1>4, <2>5
    <3> QED
      BY <2>1, <3>1, <3>2, <3>3
  <2> QED
    BY <2>1, <2>3, <2>4, <2>5
<1>9. \A index : index \in Carried(m) <=> \E k \in 1 .. Len(chunk) : index = chunk[k]
  BY <1>1 DEF Carried, chunk
<1>10. ASSUME NEW c, NEW n
       PROVE  DoneIn(more, c, n) = IF c = owner /\ n = call THEN DoneIn(entries, c, n) \cup Carried(m)
                                                          ELSE DoneIn(entries, c, n)
  <2>1. CASE c = owner /\ n = call
    <3>1. \A index : index \in DoneIn(more, c, n) <=> index \in DoneIn(entries, c, n) \cup Carried(m)
      BY <1>8, <1>9, <2>1
    <3> QED
      BY <2>1, <3>1
  <2>2. CASE ~(c = owner /\ n = call)
    <3>1. \A index : index \in DoneIn(more, c, n) <=> index \in DoneIn(entries, c, n)
      BY <1>8, <2>2
    <3>2. DoneIn(more, c, n) = DoneIn(entries, c, n)
      BY <3>1
    <3> QED
      BY <2>2, <3>2
  <2> QED
    BY <2>1, <2>2
<1> QED
  BY <1>6, <1>10 DEF added, owner, call, more

-----------------------------------------------------------------------------
(***************************************************************************)
(* Each action preserves the invariant.                                    *)
(***************************************************************************)
LEMMA InitInv == Init => Inv
<1> SUFFICES ASSUME Init PROVE Inv
  OBVIOUS
<1>1. PerClient
  BY DEF Init, PerClient
<1>2. log \in Seq(Entry) /\ \A m \in network : m.client \in Clients
  BY EmptySeq DEF Init
<1>3. ASSUME NEW c \in Clients
      PROVE  FineFor(c)
  <2>1. /\ calls[c] = <<>> /\ phase[c] = "idle" /\ queue[c] = <<>> /\ waiting[c] = FALSE
        /\ reply[c] = NoReply /\ network = {} /\ log = <<>>
    BY DEF Init
  <2>2. Sent(c) = {}
    BY <2>1 DEF Sent
  <2>3. \A n \in Nat : DoneBy(log, c)[n] = {}
    BY <2>1 DEF DoneBy, DoneIn
  <2>4. <<>> \in Seq(CallRecord) /\ Len(<<>>) = 0
    BY EmptySeq
  <2>5. ~IsOpen(<<>>)
    BY DEF IsOpen
  <2>6. \A n \in Nat : n \notin 1 .. Len(<<>>)
    BY <2>4
  <2> DEFINE done == DoneBy(log, c)
  <2> HIDE DEF done
  <2>7. Fine(<<>>, "idle", <<>>, FALSE, NoReply, {}, done)
    BY <2>3, <2>4, <2>5, <2>6 DEF Fine, done
  <2> QED
    BY <2>1, <2>2, <2>7 DEF FineFor, done
<1> QED
  BY <1>1, <1>2, <1>3 DEF Inv

\* All three ways to begin.
LEMMA BeginInv ==
    ASSUME Inv, NEW c \in Clients, NEW r \in Requests[c],
           Begin(c, r) \/ BeginInvalid(c, r) \/ BeginTooLong(c, r)
    PROVE  Inv'
<1>1. r \in AllRequests
  BY DEF AllRequests
<1>2. PICK outcome \in Outcomes :
         /\ Opened(c, r, outcome)
         /\ IF outcome = "open"
            THEN /\ phase' = [phase EXCEPT ![c] = "reading"]
                 /\ queue' = [queue EXCEPT ![c] = Plan[r].read_chunks]
            ELSE UNCHANGED <<phase, queue>>
  BY DEF Begin, BeginInvalid, BeginTooLong, Outcomes
<1> DEFINE call == [request |-> r, outcome |-> outcome]
<1>3. /\ phase[c] = "idle" /\ calls' = [calls EXCEPT ![c] = Append(calls[c], call)]
      /\ UNCHANGED <<waiting, reply, network, log>>
  BY <1>2 DEF Opened
<1>4. PerClient'
  BY <1>2, <1>3 DEF Inv, PerClient
<1>5. log' \in Seq(Entry) /\ \A m \in network' : m.client \in Clients
  BY <1>3 DEF Inv
<1>6. \A d : Sent(d)' = Sent(d) /\ DoneBy(log', d) = DoneBy(log, d)
  BY <1>3 DEF Sent
<1>7. ASSUME NEW d \in Clients
      PROVE  FineFor(d)'
  <2>1. CASE d # c
    <3>1. Kept(d)
      BY <1>2, <1>3, <1>6, <2>1 DEF Kept, Inv, PerClient
    <3> QED
      BY <3>1, KeptFine DEF Inv
  <2>2. CASE d = c
    <3>1. Fine(calls[c], "idle", queue[c], waiting[c], reply[c], Sent(c), DoneBy(log, c))
      BY <1>3 DEF Inv, FineFor
    <3>2. calls'[c] = Append(calls[c], call) /\ waiting'[c] = waiting[c] /\ reply'[c] = reply[c]
      BY <1>3 DEF Inv, PerClient
    <3>3. CASE outcome = "open"
      <4>1. phase'[c] = "reading"
        BY <1>2, <3>3 DEF Inv, PerClient
      <4>2. Fine(Append(calls[c], call), "reading", queue'[c], waiting[c], reply[c],
                 Sent(c), DoneBy(log, c))
        BY <1>1, <3>1, <3>3, FineBegin
      <4> QED
        BY <1>6, <2>2, <3>2, <4>1, <4>2 DEF FineFor
    <3>4. CASE outcome # "open"
      <4>1. phase'[c] = "idle" /\ queue'[c] = queue[c]
        BY <1>2, <1>3, <3>4
      <4>2. Fine(Append(calls[c], call), "idle", queue[c], waiting[c], reply[c],
                 Sent(c), DoneBy(log, c))
        BY <1>1, <3>1, <3>4, FineBegin
      <4> QED
        BY <1>6, <2>2, <3>2, <4>1, <4>2 DEF FineFor
    <3> QED
      BY <3>3, <3>4
  <2> QED
    BY <2>1, <2>2
<1> QED
  BY <1>4, <1>5, <1>7 DEF Inv

LEMMA SendInv ==
    ASSUME Inv, NEW c \in Clients, Send(c)
    PROVE  Inv'
<1> DEFINE m == Message(c)
<1>1. /\ phase[c] # "idle" /\ ~waiting[c] /\ queue[c] # <<>>
      /\ network' = network \cup {m}
      /\ waiting' = [waiting EXCEPT ![c] = TRUE]
      /\ UNCHANGED <<calls, phase, queue, reply, log>>
  BY DEF Send
<1>2. /\ m.client = c /\ m.call = Len(calls[c]) /\ m.phase = phase[c]
      /\ m.request = calls[c][Len(calls[c])].request /\ m.chunk = Head(queue[c])
  BY DEF Message
<1> HIDE DEF m
<1>3. PerClient'
  BY <1>1 DEF Inv, PerClient
<1>4. log' \in Seq(Entry) /\ \A w \in network' : w.client \in Clients
  BY <1>1, <1>2 DEF Inv
<1>5. ASSUME NEW d \in Clients
      PROVE  FineFor(d)'
  <2>1. CASE d # c
    <3>1. Sent(d)' = Sent(d)
      BY <1>1, <1>2, <2>1 DEF Sent
    <3>2. Kept(d)
      BY <1>1, <2>1, <3>1 DEF Kept, Inv, PerClient
    <3> QED
      BY <3>2, KeptFine DEF Inv
  <2>2. CASE d = c
    <3>1. Sent(c)' = Sent(c) \cup {m}
      BY <1>1, <1>2 DEF Sent
    <3>2. waiting'[c] = TRUE
      BY <1>1 DEF Inv, PerClient
    <3>3. Fine(calls[c], phase[c], queue[c], waiting[c], reply[c], Sent(c), DoneBy(log, c))
      BY DEF Inv, FineFor
    <3>4. waiting[c] = FALSE
      BY <1>1, <3>3 DEF Fine
    <3>5. Fine(calls[c], phase[c], queue[c], TRUE, reply[c], Sent(c) \cup {m}, DoneBy(log, c))
      BY <1>1, <1>2, <3>3, <3>4, FineSend
    <3> QED
      BY <1>1, <2>2, <3>1, <3>2, <3>5 DEF FineFor
  <2> QED
    BY <2>1, <2>2
<1> QED
  BY <1>3, <1>4, <1>5 DEF Inv

LEMMA ReceiveInv ==
    ASSUME Inv, NEW c \in Clients, Receive(c)
    PROVE  Inv'
<1>1. /\ waiting[c] /\ reply[c] # NoReply
      /\ queue' = [queue EXCEPT ![c] = Tail(queue[c])]
      /\ waiting' = [waiting EXCEPT ![c] = FALSE]
      /\ reply' = [reply EXCEPT ![c] = NoReply]
      /\ UNCHANGED <<calls, phase, network, log>>
  BY DEF Receive
<1>2. PerClient'
  BY <1>1 DEF Inv, PerClient
<1>3. log' \in Seq(Entry) /\ \A w \in network' : w.client \in Clients
  BY <1>1 DEF Inv
<1>4. \A d : Sent(d)' = Sent(d)
  BY <1>1 DEF Sent
<1>5. ASSUME NEW d \in Clients
      PROVE  FineFor(d)'
  <2>1. CASE d # c
    <3>1. Kept(d)
      BY <1>1, <1>4, <2>1 DEF Kept, Inv, PerClient
    <3> QED
      BY <3>1, KeptFine DEF Inv
  <2>2. CASE d = c
    <3>1. queue'[c] = Tail(queue[c]) /\ waiting'[c] = FALSE /\ reply'[c] = NoReply
      BY <1>1 DEF Inv, PerClient
    <3>2. Fine(calls[c], phase[c], queue[c], waiting[c], reply[c], Sent(c), DoneBy(log, c))
      BY DEF Inv, FineFor
    <3>3. waiting[c] = TRUE
      BY <1>1, <3>2 DEF Fine
    <3>4. Fine(calls[c], phase[c], Tail(queue[c]), FALSE, NoReply, Sent(c), DoneBy(log, c))
      BY <1>1, <3>2, <3>3, FineReceive
    <3> QED
      BY <1>1, <1>4, <2>2, <3>1, <3>4 DEF FineFor
  <2> QED
    BY <2>1, <2>2
<1> QED
  BY <1>2, <1>3, <1>5 DEF Inv

\* A call ends: the caller no longer waits and no answer is on its way to it.
LEMMA EndedInv ==
    ASSUME Inv, NEW c \in Clients, NEW outcome \in Outcomes \ {"open"},
           phase[c] # "idle", Ended(c, outcome),
           DOMAIN waiting' = Clients, DOMAIN reply' = Clients,
           \A d \in Clients : d # c => waiting'[d] = waiting[d] /\ reply'[d] = reply[d],
           waiting'[c] = FALSE, reply'[c] = NoReply,
           UNCHANGED <<network, log>>
    PROVE  Inv'
<1> DEFINE list == calls[c]
           ended == [list EXCEPT ![Len(list)].outcome = outcome]
<1>1. /\ calls' = [calls EXCEPT ![c] = ended]
      /\ phase' = [phase EXCEPT ![c] = "idle"]
      /\ queue' = [queue EXCEPT ![c] = <<>>]
  BY DEF Ended
<1>2. PerClient'
  BY <1>1 DEF Inv, PerClient
<1>3. log' \in Seq(Entry) /\ \A w \in network' : w.client \in Clients
  BY DEF Inv
<1>4. \A d : Sent(d)' = Sent(d)
  BY DEF Sent
<1>5. Fine(list, phase[c], queue[c], waiting[c], reply[c], Sent(c), DoneBy(log, c))
  BY DEF Inv, FineFor
<1>6. Fine(ended, "idle", <<>>, FALSE, NoReply, Sent(c), DoneBy(log, c))
  BY <1>5, FineEnd
<1> HIDE DEF ended
<1>7. ASSUME NEW d \in Clients
      PROVE  FineFor(d)'
  <2>1. CASE d # c
    <3>1. Kept(d)
      BY <1>1, <1>4, <2>1 DEF Kept, Inv, PerClient
    <3> QED
      BY <3>1, KeptFine DEF Inv
  <2>2. CASE d = c
    <3>1. calls'[c] = ended /\ phase'[c] = "idle" /\ queue'[c] = <<>>
      BY <1>1 DEF Inv, PerClient
    <3> QED
      BY <1>4, <1>6, <2>2, <3>1 DEF FineFor
  <2> QED
    BY <2>1, <2>2
<1> QED
  BY <1>2, <1>3, <1>7 DEF Inv

\* A caller with nothing left to send does not wait.
LEMMA NotWaiting ==
    ASSUME Inv, NEW c \in Clients, queue[c] = <<>>
    PROVE  waiting[c] = FALSE /\ reply[c] = NoReply
<1>1. Fine(calls[c], phase[c], queue[c], waiting[c], reply[c], Sent(c), DoneBy(log, c))
  BY DEF Inv, FineFor
<1> QED
  BY <1>1 DEF Fine

LEMMA EndInv ==
    ASSUME Inv, NEW c \in Clients, GiveUp(c) \/ RejectWrites(c) \/ Return(c)
    PROVE  Inv'
<1>1. CASE GiveUp(c)
  <2>1. /\ waiting[c] /\ Ended(c, "connection") /\ UNCHANGED <<network, log>>
        /\ waiting' = [waiting EXCEPT ![c] = FALSE] /\ reply' = [reply EXCEPT ![c] = NoReply]
    BY <1>1 DEF GiveUp
  <2>2. Fine(calls[c], phase[c], queue[c], waiting[c], reply[c], Sent(c), DoneBy(log, c))
    BY DEF Inv, FineFor
  <2>3. phase[c] # "idle"
    BY <2>1, <2>2 DEF Fine
  <2>4. /\ DOMAIN waiting' = Clients /\ DOMAIN reply' = Clients
        /\ \A d \in Clients : d # c => waiting'[d] = waiting[d] /\ reply'[d] = reply[d]
        /\ waiting'[c] = FALSE /\ reply'[c] = NoReply
    BY <2>1 DEF Inv, PerClient
  <2>5. "connection" \in Outcomes \ {"open"}
    BY DEF Outcomes
  <2> QED
    BY <2>1, <2>3, <2>4, <2>5, EndedInv
<1>2. CASE RejectWrites(c) \/ Return(c)
  <2>1. PICK outcome \in Outcomes \ {"open"} :
           /\ phase[c] # "idle" /\ queue[c] = <<>> /\ Ended(c, outcome)
           /\ UNCHANGED <<waiting, reply, network, log>>
    BY <1>2 DEF RejectWrites, Return, Outcomes
  <2>2. waiting[c] = FALSE /\ reply[c] = NoReply
    BY <2>1, NotWaiting
  <2>3. /\ DOMAIN waiting' = Clients /\ DOMAIN reply' = Clients
        /\ \A d \in Clients : d # c => waiting'[d] = waiting[d] /\ reply'[d] = reply[d]
        /\ waiting'[c] = FALSE /\ reply'[c] = NoReply
    BY <2>1, <2>2 DEF Inv, PerClient
  <2> QED
    BY <2>1, <2>3, EndedInv
<1> QED
  BY <1>1, <1>2

LEMMA StartWritesInv ==
    ASSUME Inv, NEW c \in Clients, StartWrites(c)
    PROVE  Inv'
<1> DEFINE request == calls[c][Len(calls[c])].request
<1>1. /\ phase[c] = "reading" /\ queue[c] = <<>> /\ ~Plan[request].writes_too_long
      /\ queue' = [queue EXCEPT ![c] = Plan[request].write_chunks]
      /\ phase' = [phase EXCEPT ![c] = "writing"]
      /\ UNCHANGED <<calls, waiting, reply, network, log>>
  BY DEF StartWrites
<1>2. PerClient'
  BY <1>1 DEF Inv, PerClient
<1>3. log' \in Seq(Entry) /\ \A w \in network' : w.client \in Clients
  BY <1>1 DEF Inv
<1>4. \A d : Sent(d)' = Sent(d)
  BY <1>1 DEF Sent
<1>5. ASSUME NEW d \in Clients
      PROVE  FineFor(d)'
  <2>1. CASE d # c
    <3>1. Kept(d)
      BY <1>1, <1>4, <2>1 DEF Kept, Inv, PerClient
    <3> QED
      BY <3>1, KeptFine DEF Inv
  <2>2. CASE d = c
    <3>1. queue'[c] = Plan[request].write_chunks /\ phase'[c] = "writing"
      BY <1>1 DEF Inv, PerClient
    <3>2. Fine(calls[c], "reading", <<>>, waiting[c], reply[c], Sent(c), DoneBy(log, c))
      BY <1>1 DEF Inv, FineFor
    <3>3. Fine(calls[c], "writing", Plan[request].write_chunks, waiting[c], reply[c],
               Sent(c), DoneBy(log, c))
      BY <1>1, <3>2, FineStartWrites
    <3> QED
      BY <1>1, <1>4, <2>2, <3>1, <3>3 DEF FineFor
  <2> QED
    BY <2>1, <2>2
<1> QED
  BY <1>2, <1>3, <1>5 DEF Inv

\* The requests of one caller in the network are its own affair.
LEMMA SentLeaves ==
    ASSUME NEW message, network' = network \ {message}
    PROVE  /\ Sent(message.client)' = Sent(message.client) \ {message}
           /\ \A d : d # message.client => Sent(d)' = Sent(d)
BY DEF Sent

LEMMA LoseInv ==
    ASSUME Inv, NEW message \in network, Lose(message)
    PROVE  Inv'
<1> DEFINE c == message.client
<1>1. network' = network \ {message} /\ UNCHANGED <<calls, phase, queue, waiting, reply, log>>
  BY DEF Lose, client
<1>2. PerClient'
  BY <1>1 DEF Inv, PerClient
<1>3. log' \in Seq(Entry) /\ \A w \in network' : w.client \in Clients
  BY <1>1 DEF Inv
<1>4. Sent(c)' = Sent(c) \ {message} /\ \A d : d # c => Sent(d)' = Sent(d)
  BY <1>1, SentLeaves
<1>5. message \in Sent(c) /\ c \in Clients
  BY DEF Sent, Inv
<1> HIDE DEF c
<1>6. ASSUME NEW d \in Clients
      PROVE  FineFor(d)'
  <2>1. CASE d # c
    <3>1. Kept(d)
      BY <1>1, <1>4, <2>1 DEF Kept
    <3> QED
      BY <3>1, KeptFine DEF Inv
  <2>2. CASE d = c
    <3>1. Fine(calls[c], phase[c], queue[c], waiting[c], reply[c], Sent(c), DoneBy(log, c))
      BY <1>5 DEF Inv, FineFor
    <3>2. Fine(calls[c], phase[c], queue[c], waiting[c], reply[c], Sent(c) \ {message}, DoneBy(log, c))
      BY <1>5, <3>1, FineReadDone, FineWriteLost
    <3> QED
      BY <1>1, <1>4, <2>2, <3>2 DEF FineFor
  <2> QED
    BY <2>1, <2>2
<1> QED
  BY <1>2, <1>3, <1>6 DEF Inv

\* What a served write does to the log.
LEMMA ServedWrite ==
    ASSUME Inv, NEW message \in network, Serve(message), message.phase = "writing"
    PROVE  /\ log' \in Seq(Entry) /\ message.client \in Clients /\ message.call \in Nat
           /\ \A c, n : DoneIn(log', c, n) =
                  IF c = message.client /\ n = message.call
                  THEN DoneIn(log, c, n) \cup Carried(message)
                  ELSE DoneIn(log, c, n)
<1> DEFINE c == message.client
           list == calls[c]
           request == list[message.call].request
           chunks == Plan[request].write_chunks
<1>1. message \in Sent(c) /\ c \in Clients
  BY DEF Sent, Inv
<1>2. Fine(list, phase[c], queue[c], waiting[c], reply[c], Sent(c), DoneBy(log, c))
  BY <1>1 DEF Inv, FineFor
<1>3. list \in Seq(CallRecord)
  BY <1>2 DEF Fine
<1>4. message.call \in 1 .. Len(list) /\ InRuns(request) /\ \E k \in 1 .. Len(chunks) : message.chunk = chunks[k]
  BY <1>1, <1>2, WriteIsNext
<1>5. message.call \in Nat
  BY <1>3, <1>4, LenProperties
<1>6. message.chunk \in Seq(Nat)
  <2>1. chunks \in Seq(Seq(Nat))
    BY <1>4 DEF InRuns
  <2> QED
    BY <1>4, <2>1, ElementOfSeq
<1>7. log' = log \o Effects(message)
  BY DEF Serve, Effects
<1>8. log \in Seq(Entry)
  BY DEF Inv
<1> QED
  BY <1>1, <1>5, <1>6, <1>7, <1>8, LogExtends

LEMMA ServeInv ==
    ASSUME Inv, NEW message \in network, Serve(message)
    PROVE  Inv'
<1> DEFINE c == message.client
<1>1. /\ network' = network \ {message} /\ UNCHANGED <<calls, phase, queue, waiting>>
      /\ message.phase # "writing" => log' = log
  BY DEF Serve, client
<1>2. Sent(c)' = Sent(c) \ {message} /\ \A d : d # c => Sent(d)' = Sent(d)
  BY <1>1, SentLeaves
<1>3. message \in Sent(c) /\ c \in Clients
  BY DEF Sent, Inv
<1>4. /\ DOMAIN reply' = Clients
      /\ \A d \in Clients : d # c => reply'[d] = reply[d]
      /\ \/ reply'[c] = reply[c]
         \/ /\ waiting[c] /\ message.call = Len(calls[c]) /\ phase[c] = message.phase
  <2>1. CASE Awaited(message)
    <3>1. message.call = Len(calls[c]) /\ message.phase = phase[c] /\ waiting[c]
      BY <2>1 DEF Awaited, Message
    <3>2. \E lines : reply' = [reply EXCEPT ![c] = lines]
      BY <2>1 DEF Serve
    <3> QED
      BY <3>1, <3>2 DEF Inv, PerClient
  <2>2. CASE ~Awaited(message)
    BY <2>2 DEF Serve, Inv, PerClient
  <2> QED
    BY <2>1, <2>2
<1>5. PerClient'
  BY <1>1, <1>4 DEF Inv, PerClient
<1>6. log' \in Seq(Entry) /\ \A w \in network' : w.client \in Clients
  <2>1. CASE message.phase = "writing"
    BY <1>1, <2>1, ServedWrite DEF Inv
  <2>2. CASE message.phase # "writing"
    BY <1>1, <2>2 DEF Inv
  <2> QED
    BY <2>1, <2>2
<1>7. \A d, n : d # c => DoneIn(log', d, n) = DoneIn(log, d, n)
  <2>1. CASE message.phase = "writing"
    BY <2>1, ServedWrite
  <2>2. CASE message.phase # "writing"
    BY <1>1, <2>2
  <2> QED
    BY <2>1, <2>2
<1> HIDE DEF c
<1>8. ASSUME NEW d \in Clients
      PROVE  FineFor(d)'
  <2>1. CASE d # c
    <3>1. DoneBy(log', d) = DoneBy(log, d)
      BY <1>7, <2>1 DEF DoneBy
    <3>2. Kept(d)
      BY <1>1, <1>2, <1>4, <2>1, <3>1 DEF Kept
    <3> QED
      BY <3>2, KeptFine DEF Inv
  <2>2. CASE d = c
    <3>1. Fine(calls[c], phase[c], queue[c], waiting[c], reply[c], Sent(c), DoneBy(log, c))
      BY <1>3 DEF Inv, FineFor
    <3>2. CASE message.phase # "writing"
      <4>1. Fine(calls[c], phase[c], queue[c], waiting[c], reply'[c], Sent(c) \ {message}, DoneBy(log, c))
        BY <1>3, <1>4, <3>1, <3>2, FineReadDone
      <4> QED
        BY <1>1, <1>2, <2>2, <3>2, <4>1 DEF FineFor
    <3>3. CASE message.phase = "writing"
      <4>1. /\ message.call \in Nat
            /\ \A n : DoneIn(log', c, n) =
                  IF n = message.call THEN DoneIn(log, c, n) \cup Carried(message)
                                      ELSE DoneIn(log, c, n)
        BY <3>3, ServedWrite DEF c
      <4>2. /\ \A n \in Nat : n # message.call => DoneBy(log', c)[n] = DoneBy(log, c)[n]
            /\ DoneBy(log', c)[message.call] = DoneBy(log, c)[message.call] \cup Carried(message)
        BY <4>1 DEF DoneBy
      <4> DEFINE done == DoneBy(log, c)
                 after == DoneBy(log', c)
      <4> HIDE DEF done, after
      <4>3. Fine(calls[c], phase[c], queue[c], waiting[c], reply'[c], Sent(c) \ {message}, after)
        <5>1. CarriedOut(message, done, after)
          BY <4>2 DEF CarriedOut, done, after
        <5>2. Fine(calls[c], phase[c], queue[c], waiting[c], reply[c], Sent(c), done)
          BY <3>1 DEF done
        <5> QED
          BY <1>3, <1>4, <3>3, <5>1, <5>2, FineWriteDone
      <4> QED
        BY <1>1, <1>2, <2>2, <4>3 DEF FineFor, after
    <3> QED
      BY <3>2, <3>3
  <2> QED
    BY <2>1, <2>2
<1> QED
  BY <1>5, <1>6, <1>8 DEF Inv

LEMMA NextInv == Inv /\ [Next]_vars => Inv'
<1> SUFFICES ASSUME Inv, [Next]_vars PROVE Inv'
  OBVIOUS
<1>1. CASE \E c \in Clients : \E r \in Requests[c] :
              Begin(c, r) \/ BeginInvalid(c, r) \/ BeginTooLong(c, r)
  BY <1>1, BeginInv
<1>2. CASE \E c \in Clients : Proceed(c)
  BY <1>2, SendInv, ReceiveInv, StartWritesInv, EndInv DEF Proceed
<1>3. CASE \E message \in network : Serve(message) \/ Lose(message)
  BY <1>3, ServeInv, LoseInv
<1>4. CASE UNCHANGED vars
  <2>1. \A c : Kept(c)
    BY <1>4 DEF vars, Kept, Sent
  <2>2. \A c \in Clients : FineFor(c)'
    BY <2>1, KeptFine DEF Inv
  <2> QED
    BY <1>4, <2>2 DEF vars, Inv, PerClient
<1> QED
  BY <1>1, <1>2, <1>3, <1>4 DEF Next

-----------------------------------------------------------------------------
(***************************************************************************)
(* The calls as the contract has them.                                     *)
(***************************************************************************)
ShownCall(call) == [ends |-> Ends(call.request), outcome |-> call.outcome]

ShownRecord == [ends : {Ends(request) : request \in AllRequests}, outcome : Outcomes]

LEMMA ShownType ==
    ASSUME NEW list \in Seq(CallRecord)
    PROVE  /\ Shown(list) \in Seq(ShownRecord) /\ Len(Shown(list)) = Len(list)
           /\ \A n \in 1 .. Len(list) : Shown(list)[n] = ShownCall(list[n])
<1>1. Len(list) \in Nat /\ DOMAIN list = 1 .. Len(list)
  BY LenProperties
<1>2. ASSUME NEW n \in 1 .. Len(list)
      PROVE  ShownCall(list[n]) \in ShownRecord
  <2>1. list[n] \in CallRecord
    BY ElementOfSeq
  <2> QED
    BY <2>1 DEF CallRecord, ShownCall, ShownRecord
<1> DEFINE size == Len(list)
           shown == Shown(list)
<1>3. shown \in [1 .. size -> ShownRecord] /\ \A n \in 1 .. size : shown[n] = ShownCall(list[n])
  BY <1>1, <1>2 DEF Shown, ShownCall
<1>4. size \in Nat
  BY <1>1
<1> HIDE DEF size, shown
<1>5. shown \in Seq(ShownRecord)
  BY <1>3, <1>4, SeqDef
<1>6. Len(shown) = size
  BY <1>3, <1>4, <1>5, LenProperties
<1> QED
  BY <1>3, <1>5, <1>6 DEF size, shown

LEMMA ShownAppend ==
    ASSUME NEW list \in Seq(CallRecord), NEW call \in CallRecord
    PROVE  Shown(Append(list, call)) = Append(Shown(list), ShownCall(call))
<1> DEFINE longer == Append(list, call)
           shown == Shown(list)
           left == Shown(longer)
           right == Append(shown, ShownCall(call))
<1>1. Len(list) \in Nat
  BY LenProperties
<1>2. /\ longer \in Seq(CallRecord) /\ Len(longer) = Len(list) + 1
      /\ \A n \in 1 .. Len(list) : longer[n] = list[n]
      /\ longer[Len(list) + 1] = call
  BY AppendProperties
<1> HIDE DEF longer
<1>3. /\ shown \in Seq(ShownRecord) /\ Len(shown) = Len(list)
      /\ \A n \in 1 .. Len(list) : shown[n] = ShownCall(list[n])
  BY ShownType
<1>4. /\ left \in Seq(ShownRecord) /\ Len(left) = Len(longer)
      /\ \A n \in 1 .. Len(longer) : left[n] = ShownCall(longer[n])
  BY <1>2, ShownType
<1>5. ShownCall(call) \in ShownRecord
  BY DEF CallRecord, ShownCall, ShownRecord
<1> HIDE DEF shown, left
<1>6. /\ right \in Seq(ShownRecord) /\ Len(right) = Len(shown) + 1
      /\ \A n \in 1 .. Len(shown) : right[n] = shown[n]
      /\ right[Len(shown) + 1] = ShownCall(call)
  BY <1>3, <1>5, AppendProperties
<1> HIDE DEF right
<1>7. Len(left) = Len(right)
  BY <1>2, <1>3, <1>4, <1>6
<1>8. ASSUME NEW n \in 1 .. Len(left)
      PROVE  left[n] = right[n]
  <2>1. CASE n \in 1 .. Len(list)
    BY <1>1, <1>2, <1>3, <1>4, <1>6, <2>1
  <2>2. CASE n = Len(list) + 1
    BY <1>1, <1>2, <1>3, <1>4, <1>6, <2>2
  <2> QED
    BY <1>1, <1>2, <1>4, <2>1, <2>2
<1>9. left = right
  BY <1>4, <1>6, <1>7, <1>8, SeqEqual
<1> QED
  BY <1>9 DEF left, right, longer, shown

LEMMA ShownEnded ==
    ASSUME NEW list \in Seq(CallRecord), list # <<>>, NEW outcome \in Outcomes
    PROVE  Shown([list EXCEPT ![Len(list)].outcome = outcome])
             = [Shown(list) EXCEPT ![Len(Shown(list))].outcome = outcome]
<1> DEFINE last == Len(list)
           ended == [list EXCEPT ![last].outcome = outcome]
           shown == Shown(list)
<1>1. last \in 1 .. last /\ DOMAIN list = 1 .. last
  <2>1. last \in Nat /\ last # 0 /\ DOMAIN list = 1 .. last
    BY LenProperties, EmptySeq
  <2> QED
    BY <2>1
<1>2. list[last] \in CallRecord
  BY <1>1, ElementOfSeq
<1>3. /\ shown \in Seq(ShownRecord) /\ Len(shown) = last
      /\ \A n \in 1 .. last : shown[n] = ShownCall(list[n])
  BY ShownType
<1>4. DOMAIN shown = 1 .. last
  BY <1>1 DEF Shown
<1> HIDE DEF last
<1>5. /\ DOMAIN ended = 1 .. last
      /\ ended[last] = [list[last] EXCEPT !.outcome = outcome]
      /\ \A n \in 1 .. last : n # last => ended[n] = list[n]
  BY <1>1
<1>6. ended[last].outcome = outcome /\ ended[last].request = list[last].request
  BY <1>2, <1>5 DEF CallRecord
<1> HIDE DEF ended
<1>7. Shown(ended) = [n \in 1 .. last |-> ShownCall(ended[n])]
  BY <1>5 DEF Shown, ShownCall
<1>8. [shown EXCEPT ![last].outcome = outcome]
        = [n \in 1 .. last |-> IF n = last THEN [shown[n] EXCEPT !.outcome = outcome] ELSE shown[n]]
  BY <1>1, <1>4
<1>9. ASSUME NEW n \in 1 .. last
      PROVE  ShownCall(ended[n]) = IF n = last THEN [shown[n] EXCEPT !.outcome = outcome] ELSE shown[n]
  <2>1. CASE n = last
    <3>1. shown[n] = [ends |-> Ends(list[last].request), outcome |-> list[last].outcome]
      BY <1>3, <2>1 DEF ShownCall
    <3>2. [shown[n] EXCEPT !.outcome = outcome] = [ends |-> Ends(list[last].request), outcome |-> outcome]
      BY <3>1
    <3> QED
      BY <1>6, <2>1, <3>2 DEF ShownCall
  <2>2. CASE n # last
    BY <1>3, <1>5, <2>2
  <2> QED
    BY <2>1, <2>2
<1> HIDE DEF shown
<1>10. Shown(ended) = [shown EXCEPT ![last].outcome = outcome]
  BY <1>7, <1>8, <1>9
<1> QED
  BY <1>3, <1>10 DEF last, ended, shown

\* A call is open for the contract when it is for api_call.
LEMMA OpenAlike ==
    ASSUME Inv, NEW c \in Clients
    PROVE  /\ calls[c] \in Seq(CallRecord) /\ (phase[c] # "idle" <=> IsOpen(calls[c]))
           /\ (Contract!IsOpen(c) <=> IsOpen(calls[c]))
           /\ ShownCalls[c] = Shown(calls[c]) /\ Len(Shown(calls[c])) = Len(calls[c])
<1> DEFINE list == calls[c]
           shown == Shown(list)
<1>1. Fine(list, phase[c], queue[c], waiting[c], reply[c], Sent(c), DoneBy(log, c))
  BY DEF Inv, FineFor
<1>2. list \in Seq(CallRecord) /\ (phase[c] # "idle" <=> IsOpen(list))
  BY <1>1 DEF Fine
<1>3. /\ shown \in Seq(ShownRecord) /\ Len(shown) = Len(list)
      /\ \A n \in 1 .. Len(list) : shown[n] = ShownCall(list[n])
  BY <1>2, ShownType
<1>4. ShownCalls[c] = shown
  BY DEF ShownCalls
<1> HIDE DEF list, shown
<1>5. (list = <<>> <=> Len(list) = 0) /\ (shown = <<>> <=> Len(shown) = 0)
  BY <1>2, <1>3, EmptySeq
<1>6. list # <<>> => Len(list) \in 1 .. Len(list)
  BY <1>2, <1>5, LenProperties
<1>7. list # <<>> => shown[Len(shown)].outcome = list[Len(list)].outcome
  <2>1. \A call : ShownCall(call).outcome = call.outcome
    BY DEF ShownCall
  <2> QED
    BY <1>3, <1>6, <2>1
<1>8. Contract!IsOpen(c) <=> IsOpen(list)
  BY <1>3, <1>4, <1>5, <1>7 DEF Contract!IsOpen, IsOpen
<1> QED
  BY <1>2, <1>3, <1>4, <1>8 DEF list, shown

-----------------------------------------------------------------------------
(***************************************************************************)
(* Each action is a step of the contract, or changes nothing of it.        *)
(***************************************************************************)
Step == Contract!Next \/ UNCHANGED Contract!vars

\* A message in the network is of a call its client has begun.
LEMMA InNetwork ==
    ASSUME Inv, NEW m \in network
    PROVE  /\ m.client \in Clients /\ m.call \in 1 .. Len(calls[m.client])
           /\ Len(calls[m.client]) \in Nat
           /\ m.phase = "writing" => Writes(Sent(m.client), m.call) = {m}
<1> DEFINE c == m.client
<1>1. c \in Clients /\ m \in Sent(c)
  BY DEF Inv, Sent
<1> HIDE DEF c
<1>2. Fine(calls[c], phase[c], queue[c], waiting[c], reply[c], Sent(c), DoneBy(log, c))
  BY <1>1 DEF Inv, FineFor
<1>3. calls[c] \in Seq(CallRecord) /\ m.call \in 1 .. Len(calls[c])
  BY <1>1, <1>2 DEF Fine
<1>4. Len(calls[c]) \in Nat
  BY <1>3, LenProperties
<1>5. m.phase = "writing" => Writes(Sent(c), m.call) = {m}
  BY <1>1, <1>2 DEF Fine, NextWrite
<1> QED
  BY <1>1, <1>3, <1>4, <1>5 DEF c

LEMMA BeginStep ==
    ASSUME Inv, NEW c \in Clients, NEW r \in Requests[c],
           Begin(c, r) \/ BeginInvalid(c, r) \/ BeginTooLong(c, r)
    PROVE  Contract!Next
<1>1. r \in AllRequests
  BY DEF AllRequests
<1>2. PICK outcome \in {"open", "invalid", "too_long"} : Opened(c, r, outcome)
  BY DEF Begin, BeginInvalid, BeginTooLong
<1> DEFINE call == [request |-> r, outcome |-> outcome]
           list == calls[c]
<1>3. /\ phase[c] = "idle" /\ calls' = [calls EXCEPT ![c] = Append(list, call)]
      /\ UNCHANGED <<network, log>>
  BY <1>2 DEF Opened
<1>4. call \in CallRecord /\ ShownCall(call) = [ends |-> Ends(r), outcome |-> outcome]
  BY <1>1 DEF CallRecord, Outcomes, ShownCall
<1> HIDE DEF call
<1>5. list \in Seq(CallRecord) /\ ~Contract!IsOpen(c) /\ ShownCalls[c] = Shown(list)
  BY <1>3, OpenAlike
<1>6. Shown(Append(list, call)) = Append(ShownCalls[c], ShownCall(call))
  BY <1>4, <1>5, ShownAppend
<1>7. DOMAIN calls = Clients
  BY DEF Inv, PerClient
<1>8. ShownCalls' = [ShownCalls EXCEPT ![c] = Append(ShownCalls[c], ShownCall(call))]
  <2>1. ShownCalls' = [d \in Clients |-> Shown(calls'[d])]
    BY DEF ShownCalls
  <2>2. \A d \in Clients : calls'[d] = IF d = c THEN Append(list, call) ELSE calls[d]
    BY <1>3, <1>7
  <2>3. \A d \in Clients : Shown(calls'[d]) =
           IF d = c THEN Append(ShownCalls[c], ShownCall(call)) ELSE Shown(calls[d])
    BY <1>6, <2>2
  <2>4. ShownCalls = [d \in Clients |-> Shown(calls[d])]
    BY DEF ShownCalls
  <2> QED
    BY <2>1, <2>3, <2>4
<1>9. UNCHANGED Adrift
  <2>1. ASSUME NEW m \in network
        PROVE  calls'[m.client][m.call] = calls[m.client][m.call]
    <3>1. m.client \in Clients /\ m.call \in 1 .. Len(calls[m.client])
      BY InNetwork
    <3>2. CASE m.client # c
      BY <1>3, <3>1, <3>2
    <3>3. CASE m.client = c
      <4>1. calls'[c] = Append(list, call) /\ m.call \in 1 .. Len(list)
        BY <1>3, <1>7, <3>1, <3>3
      <4>2. Append(list, call)[m.call] = list[m.call]
        BY <1>4, <1>5, <4>1, AppendProperties
      <4> QED
        BY <3>3, <4>1, <4>2
    <3> QED
      BY <3>2, <3>3
  <2>2. Stragglers' = Stragglers
    BY <1>3, <2>1 DEF Stragglers
  <2> QED
    BY <2>2 DEF Adrift
<1>10. Contract!Begin(c, Ends(r), outcome)
  BY <1>3, <1>4, <1>5, <1>8, <1>9 DEF Contract!Begin
<1> QED
  BY <1>1, <1>2, <1>10 DEF Contract!Next

\* Where the runs of a call end, and what is done of it, for the contract.
LEMMA RunsAlike ==
    ASSUME Inv, NEW c \in Clients, NEW n \in 1 .. Len(calls[c])
    PROVE  LET request == calls[c][n].request
           IN  /\ ShownCalls[c][n].ends = Ends(request)
               /\ \A k : Contract!EndOf(c, n, k) = EndAt(request, k)
               /\ Contract!Done(c, n) = DoneIn(log, c, n)
<1> DEFINE request == calls[c][n].request
<1>1. calls[c] \in Seq(CallRecord) /\ ShownCalls[c] = Shown(calls[c])
  BY OpenAlike
<1>2. ShownCalls[c][n] = ShownCall(calls[c][n])
  BY <1>1, ShownType
<1>3. ShownCalls[c][n].ends = Ends(request)
  BY <1>2 DEF ShownCall
<1> HIDE DEF request
<1>4. \A k : Contract!EndOf(c, n, k) = EndAt(request, k)
  BY <1>3 DEF Contract!EndOf, EndAt
<1>5. Contract!Done(c, n) = DoneIn(log, c, n)
  BY DEF Contract!Done, DoneIn
<1> QED
  BY <1>3, <1>4, <1>5 DEF request

\* A served write is the next run of its call.
LEMMA ServedRun ==
    ASSUME Inv, NEW m \in network, Serve(m), m.phase = "writing"
    PROVE  Contract!Run(m.client, m.call)
<1> DEFINE c == m.client
           n == m.call
           list == calls[c]
           request == list[n].request
           chunks == Plan[request].write_chunks
<1>1. c \in Clients /\ m \in Sent(c) /\ n \in 1 .. Len(list) /\ Len(list) \in Nat
  BY InNetwork DEF Sent
<1>2. Fine(list, phase[c], queue[c], waiting[c], reply[c], Sent(c), DoneBy(log, c))
  BY <1>1 DEF Inv, FineFor
<1>3. /\ InRuns(request)
      /\ \E k \in 1 .. Len(chunks) :
            m.chunk = chunks[k] /\ DoneBy(log, c)[n] = 1 .. EndAt(request, k - 1)
  BY <1>1, <1>2, WriteIsNext
<1>4. PICK k \in 1 .. Len(chunks) :
         m.chunk = chunks[k] /\ DoneBy(log, c)[n] = 1 .. EndAt(request, k - 1)
  BY <1>3
<1>5. /\ ShownCalls[c][n].ends = Ends(request)
      /\ \A j : Contract!EndOf(c, n, j) = EndAt(request, j)
      /\ Contract!Done(c, n) = DoneIn(log, c, n)
  BY <1>1, RunsAlike
<1>6. DoneBy(log, c)[n] = DoneIn(log, c, n)
  BY <1>1 DEF DoneBy
<1>7. k \in DOMAIN Ends(request)
  BY <1>3 DEF InRuns
<1>8. /\ DOMAIN m.chunk = 1 .. EndAt(request, k) - EndAt(request, k - 1)
      /\ \A j \in DOMAIN m.chunk : m.chunk[j] = EndAt(request, k - 1) + j
  BY <1>3, <1>4 DEF InRuns
<1>9. Effects(m) = [i \in 1 .. EndAt(request, k) - EndAt(request, k - 1) |->
                      [client |-> c, call |-> n, index |-> EndAt(request, k - 1) + i]]
  BY <1>8 DEF Effects
<1>10. log' = log \o Effects(m)
  BY DEF Serve, Effects
<1> HIDE DEF c, n, request
<1>11. Contract!Run(c, n)
  <2>1. k \in DOMAIN ShownCalls[c][n].ends
    BY <1>5, <1>7
  <2>2. Contract!EndOf(c, n, k) = EndAt(request, k) /\ Contract!EndOf(c, n, k - 1) = EndAt(request, k - 1)
    BY <1>5
  <2>3. Contract!Done(c, n) = 1 .. Contract!EndOf(c, n, k - 1)
    BY <1>4, <1>5, <1>6, <2>2
  <2>4. log' = log \o [i \in 1 .. Contract!EndOf(c, n, k) - Contract!EndOf(c, n, k - 1) |->
                         [client |-> c, call |-> n, index |-> Contract!EndOf(c, n, k - 1) + i]]
    BY <1>9, <1>10, <2>2
  <2> QED
    BY <2>1, <2>3, <2>4 DEF Contract!Run
<1> QED
  BY <1>11 DEF c, n

\* A request of a call under way, an answer and the end of the reads are not seen.
LEMMA HiddenStep ==
    ASSUME Inv, NEW c \in Clients, Send(c) \/ Receive(c) \/ StartWrites(c)
    PROVE  UNCHANGED Contract!vars
<1>1. UNCHANGED <<calls, log>>
  BY DEF Send, Receive, StartWrites
<1>2. UNCHANGED ShownCalls
  BY <1>1 DEF ShownCalls
<1>3. UNCHANGED Stragglers
  <2>1. CASE Receive(c) \/ StartWrites(c)
    BY <2>1 DEF Receive, StartWrites, Stragglers
  <2>2. CASE Send(c)
    <3>1. /\ phase[c] # "idle" /\ network' = network \cup {Message(c)}
          /\ Message(c).client = c /\ Message(c).call = Len(calls[c])
      BY <2>2 DEF Send, Message
    <3>2. calls[c][Len(calls[c])].outcome = "open"
      BY <3>1, OpenAlike DEF IsOpen
    <3> QED
      BY <1>1, <3>1, <3>2 DEF Stragglers
  <2> QED
    BY <2>1, <2>2
<1> QED
  BY <1>1, <1>2, <1>3 DEF Contract!vars, Adrift

\* A request that is dealt with leaves the stragglers if it was one of them.
LEMMA StragglersLeave ==
    ASSUME Inv, NEW m \in network, network' = network \ {m}, UNCHANGED calls
    PROVE  Adrift' = IF m \in Stragglers THEN Adrift \ {<<m.client, m.call>>} ELSE Adrift
<1>1. Stragglers' = Stragglers \ {m}
  BY DEF Stragglers
<1>2. CASE m \notin Stragglers
  <2>1. Stragglers' = Stragglers
    BY <1>1, <1>2
  <2> QED
    BY <1>2, <2>1 DEF Adrift
<1>3. CASE m \in Stragglers
  <2>1. ASSUME NEW w \in Stragglers, w.client = m.client, w.call = m.call
        PROVE  w = m
    <3>1. w \in network /\ w.phase = "writing" /\ m.phase = "writing"
      BY <1>3 DEF Stragglers
    <3>2. w \in Writes(Sent(m.client), m.call)
      BY <2>1, <3>1 DEF Writes, Sent
    <3> QED
      BY <3>1, <3>2, InNetwork
  <2>2. ASSUME NEW w \in Stragglers, <<w.client, w.call>> = <<m.client, m.call>>
        PROVE  w = m
    BY <2>1, <2>2
  <2>3. Adrift' = {<<w.client, w.call>> : w \in Stragglers \ {m}}
    BY <1>1 DEF Adrift
  <2>4. Adrift' = Adrift \ {<<m.client, m.call>>}
    BY <1>3, <2>2, <2>3 DEF Adrift
  <2> QED
    BY <1>3, <2>4
<1> QED
  BY <1>2, <1>3

LEMMA DealtStep ==
    ASSUME Inv, NEW m \in network, Serve(m) \/ Lose(m)
    PROVE  Step
<1> DEFINE c == m.client
           n == m.call
<1>1. network' = network \ {m} /\ UNCHANGED calls
  BY DEF Serve, Lose, client
<1>2. UNCHANGED ShownCalls
  BY <1>1 DEF ShownCalls
<1>3. UNCHANGED log \/ (m.phase = "writing" /\ Contract!Run(c, n))
  BY ServedRun DEF Serve, Lose
<1>4. Adrift' = IF m \in Stragglers THEN Adrift \ {<<c, n>>} ELSE Adrift
  BY <1>1, StragglersLeave
<1>5. c \in Clients
  BY InNetwork
<1>6. CASE m \in Stragglers
  <2>1. <<c, n>> \in Adrift
    BY <1>6 DEF Adrift
  <2>2. Contract!Straggle(c, n)
    BY <1>2, <1>3, <1>4, <1>6, <2>1 DEF Contract!Straggle
  <2>3. <<c, n>>[1] = c /\ <<c, n>>[2] = n
    OBVIOUS
  <2> QED
    BY <2>1, <2>2, <2>3 DEF Step, Contract!Next
<1>7. CASE m \notin Stragglers /\ UNCHANGED log
  BY <1>2, <1>4, <1>7 DEF Step, Contract!vars
<1>8. CASE m \notin Stragglers /\ m.phase = "writing" /\ Contract!Run(c, n)
  <2>1. calls[c][n].outcome = "open"
    BY <1>8 DEF Stragglers
  <2>2. Fine(calls[c], phase[c], queue[c], waiting[c], reply[c], Sent(c), DoneBy(log, c))
    BY <1>5 DEF Inv, FineFor
  <2>3. m \in Sent(c)
    BY DEF Sent
  <2>4. n = Len(calls[c]) /\ IsOpen(calls[c])
    BY <1>8, <2>1, <2>2, <2>3, OwnWrite
  <2>5. Contract!IsOpen(c) /\ Len(ShownCalls[c]) = n
    BY <1>5, <2>4, OpenAlike
  <2>6. Contract!Write(c)
    BY <1>2, <1>4, <1>8, <2>5 DEF Contract!Write
  <2> QED
    BY <1>5, <2>6 DEF Step, Contract!Next
<1> QED
  BY <1>3, <1>6, <1>7, <1>8

\* A call that ends, ends for the contract; a write it has out becomes a straggler.
LEMMA EndedAlike ==
    ASSUME Inv, NEW c \in Clients, NEW outcome \in Outcomes \ {"open"},
           phase[c] # "idle", Ended(c, outcome), UNCHANGED <<network, log>>
    PROVE  /\ Contract!Ended(c, outcome)
           /\ Adrift' = IF Writes(Sent(c), Len(calls[c])) = {} THEN Adrift
                        ELSE Adrift \cup {<<c, Len(calls[c])>>}
<1> DEFINE list == calls[c]
           last == Len(list)
           ended == [list EXCEPT ![last].outcome = outcome]
<1>1. calls' = [calls EXCEPT ![c] = ended]
  BY DEF Ended
<1>2. /\ list \in Seq(CallRecord) /\ IsOpen(list) /\ Contract!IsOpen(c)
      /\ ShownCalls[c] = Shown(list)
  BY OpenAlike
<1>3. Shown(ended) = [ShownCalls[c] EXCEPT ![Len(ShownCalls[c])].outcome = outcome]
  BY <1>2, ShownEnded DEF IsOpen
<1>4. DOMAIN calls = Clients
  BY DEF Inv, PerClient
<1>5. last \in 1 .. last /\ DOMAIN list = 1 .. last
  <2>1. last \in Nat /\ last # 0 /\ DOMAIN list = 1 .. last
    BY <1>2, LenProperties, EmptySeq DEF IsOpen
  <2> QED
    BY <2>1
<1>6. list[last] \in CallRecord
  BY <1>2, <1>5, ElementOfSeq
<1> HIDE DEF last
<1>7. ended[last].outcome = outcome /\ \A n \in 1 .. last : n # last => ended[n] = list[n]
  BY <1>5, <1>6 DEF CallRecord
<1> HIDE DEF ended
<1>8. \A d \in Clients : calls'[d] = IF d = c THEN ended ELSE calls[d]
  BY <1>1, <1>4
<1>9. ShownCalls' = [ShownCalls EXCEPT ![c] = Shown(ended)]
  <2>1. ShownCalls' = [d \in Clients |-> Shown(calls'[d])]
    BY DEF ShownCalls
  <2>2. \A d \in Clients : Shown(calls'[d]) = IF d = c THEN Shown(ended) ELSE Shown(calls[d])
    BY <1>8
  <2>3. ShownCalls = [d \in Clients |-> Shown(calls[d])]
    BY DEF ShownCalls
  <2> QED
    BY <2>1, <2>2, <2>3
<1>10. Contract!Ended(c, outcome)
  BY <1>2, <1>3, <1>9 DEF Contract!Ended
<1>11. Stragglers' = Stragglers \cup Writes(Sent(c), last)
  <2>1. ASSUME NEW m \in network, m.phase = "writing"
        PROVE  calls'[m.client][m.call].outcome # "open" <=>
                  \/ calls[m.client][m.call].outcome # "open"
                  \/ m.client = c /\ m.call = last
    <3>1. m.client \in Clients /\ m.call \in 1 .. Len(calls[m.client])
      BY InNetwork
    <3>2. CASE m.client # c
      BY <1>8, <3>1, <3>2
    <3>3. CASE m.client = c
      BY <1>7, <1>8, <3>1, <3>3 DEF last
    <3> QED
      BY <3>2, <3>3
  <2> QED
    BY <2>1 DEF Stragglers, Writes, Sent
<1>12. \A m \in Writes(Sent(c), last) : m.client = c /\ m.call = last
  BY DEF Writes, Sent
<1>13. Adrift' = IF Writes(Sent(c), last) = {} THEN Adrift ELSE Adrift \cup {<<c, last>>}
  <2>1. Adrift' = {<<m.client, m.call>> : m \in Stragglers \cup Writes(Sent(c), last)}
    BY <1>11 DEF Adrift
  <2>2. CASE Writes(Sent(c), last) = {}
    BY <2>1, <2>2 DEF Adrift
  <2>3. CASE Writes(Sent(c), last) # {}
    <3>1. {<<m.client, m.call>> : m \in Writes(Sent(c), last)} = {<<c, last>>}
      BY <1>12, <2>3
    <3> QED
      BY <2>1, <2>3, <3>1 DEF Adrift
  <2> QED
    BY <2>2, <2>3
<1> QED
  BY <1>10, <1>13 DEF last

LEMMA GiveUpStep ==
    ASSUME Inv, NEW c \in Clients, GiveUp(c)
    PROVE  Contract!Next
<1>1. waiting[c] /\ Ended(c, "connection") /\ UNCHANGED <<network, log>>
  BY DEF GiveUp
<1>2. Fine(calls[c], phase[c], queue[c], waiting[c], reply[c], Sent(c), DoneBy(log, c))
  BY DEF Inv, FineFor
<1>3. phase[c] # "idle"
  BY <1>1, <1>2 DEF Fine
<1>4. "connection" \in Outcomes \ {"open"}
  BY DEF Outcomes
<1>5. /\ Contract!Ended(c, "connection")
      /\ Adrift' = Adrift \/ Adrift' = Adrift \cup {<<c, Len(calls[c])>>}
  BY <1>1, <1>3, <1>4, EndedAlike
<1>6. Len(ShownCalls[c]) = Len(calls[c])
  BY OpenAlike
<1>7. Contract!Fail(c)
  BY <1>5, <1>6 DEF Contract!Fail
<1> QED
  BY <1>7 DEF Contract!Next

LEMMA RejectWritesStep ==
    ASSUME Inv, NEW c \in Clients, RejectWrites(c)
    PROVE  Contract!Next
<1> DEFINE last == Len(calls[c])
<1>1. phase[c] = "reading" /\ Ended(c, "too_long") /\ UNCHANGED <<network, log>>
  BY DEF RejectWrites
<1>2. "too_long" \in Outcomes \ {"open"}
  BY DEF Outcomes
<1>3. last \in 1 .. last /\ last \in Nat
  <2>1. calls[c] \in Seq(CallRecord) /\ calls[c] # <<>>
    BY <1>1, OpenAlike DEF IsOpen
  <2>2. last \in Nat /\ last # 0
    BY <2>1, LenProperties, EmptySeq
  <2> QED
    BY <2>2
<1>4. DoneBy(log, c)[last] = {} /\ Writes(Sent(c), last) = {}
  <2>1. Fine(calls[c], phase[c], queue[c], waiting[c], reply[c], Sent(c), DoneBy(log, c))
    BY DEF Inv, FineFor
  <2> QED
    BY <1>1, <2>1 DEF Fine
<1>5. Contract!Ended(c, "too_long") /\ Adrift' = Adrift
  BY <1>1, <1>2, <1>4, EndedAlike
<1>6. Contract!Done(c, last) = {}
  BY <1>3, <1>4, RunsAlike DEF DoneBy
<1>7. Len(ShownCalls[c]) = last
  BY OpenAlike
<1>8. Contract!Reject(c)
  BY <1>5, <1>6, <1>7 DEF Contract!Reject
<1> QED
  BY <1>8 DEF Contract!Next

LEMMA ReturnStep ==
    ASSUME Inv, NEW c \in Clients, Return(c)
    PROVE  Contract!Next
<1> DEFINE last == Len(calls[c])
           request == calls[c][last].request
<1>1. /\ phase[c] = "writing" /\ queue[c] = <<>> /\ Ended(c, "ok")
      /\ UNCHANGED <<network, log>>
  BY DEF Return
<1>2. "ok" \in Outcomes \ {"open"}
  BY DEF Outcomes
<1>3. last \in 1 .. last /\ last \in Nat
  <2>1. calls[c] \in Seq(CallRecord) /\ calls[c] # <<>>
    BY <1>1, OpenAlike DEF IsOpen
  <2>2. last \in Nat /\ last # 0
    BY <2>1, LenProperties, EmptySeq
  <2> QED
    BY <2>2
<1>4. Fine(calls[c], "writing", <<>>, waiting[c], reply[c], Sent(c), DoneBy(log, c))
  BY <1>1 DEF Inv, FineFor
<1>5. DoneBy(log, c)[last] = 1 .. EndAt(request, Len(Ends(request)))
  BY <1>4, AllDone
<1>6. Writes(Sent(c), last) = {}
  BY <1>4 DEF Fine, Progress
<1>7. Contract!Ended(c, "ok") /\ Adrift' = Adrift
  BY <1>1, <1>2, <1>6, EndedAlike
<1>8. /\ ShownCalls[c][last].ends = Ends(request)
      /\ \A k : Contract!EndOf(c, last, k) = EndAt(request, k)
      /\ Contract!Done(c, last) = DoneIn(log, c, last)
  BY <1>3, RunsAlike
<1>9. Contract!Size(c, last) = EndAt(request, Len(Ends(request)))
  BY <1>8 DEF Contract!Size
<1>10. Contract!Done(c, last) = 1 .. Contract!Size(c, last)
  BY <1>3, <1>5, <1>8, <1>9 DEF DoneBy
<1>11. Len(ShownCalls[c]) = last
  BY OpenAlike
<1>12. Contract!Return(c)
  BY <1>7, <1>10, <1>11 DEF Contract!Return
<1> QED
  BY <1>12 DEF Contract!Next

LEMMA NextStep == Inv /\ [Next]_vars => [Contract!Next]_(Contract!vars)
<1> SUFFICES ASSUME Inv, [Next]_vars PROVE Step
  BY DEF Step
<1>1. CASE \E c \in Clients : \E r \in Requests[c] :
              Begin(c, r) \/ BeginInvalid(c, r) \/ BeginTooLong(c, r)
  BY <1>1, BeginStep DEF Step
<1>2. CASE \E c \in Clients : Proceed(c)
  BY <1>2, HiddenStep, GiveUpStep, RejectWritesStep, ReturnStep DEF Step, Proceed
<1>3. CASE \E message \in network : Serve(message) \/ Lose(message)
  BY <1>3, DealtStep
<1>4. CASE UNCHANGED vars
  BY <1>4 DEF vars, Step, Contract!vars, ShownCalls, Adrift, Stragglers
<1> QED
  BY <1>1, <1>2, <1>3, <1>4 DEF Next

LEMMA InitShown == Init => Contract!Init
<1> SUFFICES ASSUME Init PROVE Contract!Init
  OBVIOUS
<1>1. \A c \in Clients : Shown(calls[c]) = <<>>
  BY DEF Init, Shown
<1>2. ShownCalls = [c \in Clients |-> <<>>]
  BY <1>1 DEF ShownCalls
<1>3. Adrift = {} /\ log = <<>>
  BY DEF Init, Adrift, Stragglers
<1> QED
  BY <1>2, <1>3 DEF Contract!Init

\* Whatever is lost, late or overtaken, each setter of a set is carried out once, in
\* its order and with its run; all of them when the call returns, none when it is
\* turned down, and after the end of a call only of one that was reported as failed
\* (controller.py:236-241).
THEOREM Refines == Spec => ImplementsContract
<1>1. Init => Inv
  BY InitInv
<1>2. Inv /\ [Next]_vars => Inv'
  BY NextInv
<1>3. Init => Contract!Init
  BY InitShown
<1>4. Inv /\ [Next]_vars => [Contract!Next]_(Contract!vars)
  BY NextStep
<1> QED
  BY <1>1, <1>2, <1>3, <1>4, PTL DEF Spec, ImplementsContract, Contract!Spec

-----------------------------------------------------------------------------
(***************************************************************************)
(* What is written is of requests that could be sent as a whole.           *)
(***************************************************************************)
Begun(request) == Plan[request].encodable /\ ~Plan[request].reads_too_long
Sendable(request) == Begun(request) /\ ~Plan[request].writes_too_long

RequestOf(c, n) == calls[c][n].request

Sound ==
    /\ \A c \in Clients : phase[c] # "idle" => Begun(RequestOf(c, Len(calls[c])))
    /\ \A m \in network : m.phase = "writing" => Sendable(RequestOf(m.client, m.call))
    /\ \A i \in DOMAIN log :
          /\ log[i].client \in Clients /\ log[i].call \in 1 .. Len(calls[log[i].client])
          /\ Sendable(RequestOf(log[i].client, log[i].call))

\* A call keeps its request.
RequestsKept ==
    \A c \in Clients : \A n \in 1 .. Len(calls[c]) :
        n \in 1 .. Len(calls'[c]) /\ RequestOf(c, n)' = RequestOf(c, n)

LEMMA RequestsStay ==
    ASSUME Inv, NEW c \in Clients, NEW list,
           calls' = [calls EXCEPT ![c] = list],
           \A n \in 1 .. Len(calls[c]) :
              n \in 1 .. Len(list) /\ list[n].request = calls[c][n].request
    PROVE  RequestsKept
<1>1. \A d \in Clients : calls'[d] = IF d = c THEN list ELSE calls[d]
  BY DEF Inv, PerClient
<1> QED
  BY <1>1 DEF RequestsKept, RequestOf

\* What is known of the network and the log stays known.
LEMMA SoundStays ==
    ASSUME Inv, Sound, RequestsKept, network' \subseteq network, UNCHANGED log,
           \A c \in Clients : phase'[c] # "idle" => Begun(RequestOf(c, Len(calls[c])))'
    PROVE  Sound'
<1>1. ASSUME NEW m \in network', m.phase = "writing"
      PROVE  Sendable(RequestOf(m.client, m.call))'
  <2>1. m \in network /\ m.client \in Clients /\ m.call \in 1 .. Len(calls[m.client])
    BY InNetwork
  <2>2. Sendable(RequestOf(m.client, m.call))
    BY <1>1, <2>1 DEF Sound
  <2>3. RequestOf(m.client, m.call)' = RequestOf(m.client, m.call)
    BY <2>1 DEF RequestsKept
  <2> QED
    BY <2>2, <2>3 DEF Sendable, Begun
<1>2. ASSUME NEW i \in DOMAIN log'
      PROVE  /\ log'[i].client \in Clients /\ log'[i].call \in 1 .. Len(calls'[log'[i].client])
             /\ Sendable(RequestOf(log[i].client, log[i].call))'
  <2> DEFINE c == log[i].client
             n == log[i].call
  <2>1. c \in Clients /\ n \in 1 .. Len(calls[c]) /\ Sendable(RequestOf(c, n)) /\ log'[i] = log[i]
    BY DEF Sound
  <2>2. n \in 1 .. Len(calls'[c]) /\ RequestOf(c, n)' = RequestOf(c, n)
    BY <2>1 DEF RequestsKept
  <2>3. Sendable(RequestOf(c, n))'
    BY <2>1, <2>2 DEF Sendable, Begun
  <2> QED
    BY <2>1, <2>2, <2>3
<1> QED
  BY <1>1, <1>2 DEF Sound

\* A call that begins, or is turned down on the spot, is one more.
LEMMA OneMoreCall ==
    ASSUME Inv, NEW c \in Clients, NEW r \in Requests[c], NEW outcome \in Outcomes,
           Opened(c, r, outcome)
    PROVE  /\ RequestsKept
           /\ RequestOf(c, Len(calls[c]))' = r
<1> DEFINE list == calls[c]
           call == [request |-> r, outcome |-> outcome]
           longer == Append(list, call)
<1>1. calls' = [calls EXCEPT ![c] = longer]
  BY DEF Opened
<1>2. r \in AllRequests /\ call \in CallRecord /\ call.request = r
  BY DEF AllRequests, CallRecord
<1>3. list \in Seq(CallRecord)
  BY OpenAlike
<1>4. Len(list) \in Nat
  BY <1>3, LenProperties
<1> HIDE DEF call
<1>5. /\ Len(longer) = Len(list) + 1 /\ longer[Len(list) + 1] = call
      /\ \A n \in 1 .. Len(list) : longer[n] = list[n]
  BY <1>2, <1>3, AppendProperties
<1> HIDE DEF longer
<1>6. \A n \in 1 .. Len(list) : n \in 1 .. Len(longer) /\ longer[n].request = list[n].request
  BY <1>4, <1>5
<1>7. RequestsKept
  BY <1>1, <1>6, RequestsStay
<1>8. calls'[c] = longer
  BY <1>1 DEF Inv, PerClient
<1>9. RequestOf(c, Len(calls[c]))' = r
  BY <1>2, <1>5, <1>8 DEF RequestOf
<1> QED
  BY <1>7, <1>9

\* The end of a call leaves its request alone.
LEMMA EndedKeeps ==
    ASSUME Inv, NEW c \in Clients, NEW outcome, Ended(c, outcome)
    PROVE  RequestsKept
<1> DEFINE list == calls[c]
           last == Len(list)
           ended == [list EXCEPT ![last].outcome = outcome]
<1>1. calls' = [calls EXCEPT ![c] = ended]
  BY DEF Ended
<1>2. list \in Seq(CallRecord)
  BY OpenAlike
<1>3. DOMAIN list = 1 .. last /\ \A n \in 1 .. last : list[n] \in CallRecord
  BY <1>2, LenProperties, ElementOfSeq
<1>4. Len(ended) = last /\ \A n \in 1 .. last : ended[n].request = list[n].request
  <2>1. Len(ended) = last
    BY <1>2
  <2> HIDE DEF last
  <2>2. \A n \in 1 .. last :
           ended[n] = IF n = last THEN [list[n] EXCEPT !.outcome = outcome] ELSE list[n]
    BY <1>3
  <2>3. \A n \in 1 .. last : [list[n] EXCEPT !.outcome = outcome].request = list[n].request
    BY <1>3 DEF CallRecord
  <2> QED
    BY <2>1, <2>2, <2>3
<1> HIDE DEF ended
<1> QED
  BY <1>1, <1>4, RequestsStay

LEMMA BeginSound ==
    ASSUME Inv, Sound, NEW c \in Clients, NEW r \in Requests[c],
           Begin(c, r) \/ BeginInvalid(c, r) \/ BeginTooLong(c, r)
    PROVE  Sound'
<1>1. PICK outcome \in Outcomes :
         /\ Opened(c, r, outcome)
         /\ \/ /\ Begun(r) /\ phase' = [phase EXCEPT ![c] = "reading"]
            \/ UNCHANGED phase
  BY DEF Begin, BeginInvalid, BeginTooLong, Outcomes, Begun
<1>2. /\ phase[c] = "idle" /\ UNCHANGED <<network, log>>
      /\ \A d \in Clients : d # c => calls'[d] = calls[d]
  BY <1>1 DEF Opened, Inv, PerClient
<1>3. RequestsKept /\ RequestOf(c, Len(calls[c]))' = r
  BY <1>1, OneMoreCall
<1>4. ASSUME NEW d \in Clients, phase'[d] # "idle"
      PROVE  Begun(RequestOf(d, Len(calls[d])))'
  <2>1. CASE d # c
    <3>1. calls'[d] = calls[d] /\ phase'[d] = phase[d]
      BY <1>1, <1>2, <2>1 DEF Inv, PerClient
    <3>2. RequestOf(d, Len(calls[d]))' = RequestOf(d, Len(calls[d]))
      BY <3>1 DEF RequestOf
    <3>3. Begun(RequestOf(d, Len(calls[d])))
      BY <1>4, <3>1 DEF Sound
    <3> QED
      BY <3>2, <3>3 DEF Begun
  <2>2. CASE d = c
    <3>1. Begun(r)
      BY <1>1, <1>2, <1>4, <2>2
    <3> QED
      BY <1>3, <2>2, <3>1 DEF Begun
  <2> QED
    BY <2>1, <2>2
<1> QED
  BY <1>2, <1>3, <1>4, SoundStays

\* The other steps of a caller.
LEMMA ProceedSound ==
    ASSUME Inv, Sound, NEW c \in Clients, Proceed(c)
    PROVE  Sound'
<1> DEFINE list == calls[c]
           last == Len(list)
<1>1. CASE Receive(c) \/ StartWrites(c)
  <2>1. /\ UNCHANGED <<calls, network, log>>
        /\ \A d \in Clients : phase'[d] # "idle" => phase[d] # "idle"
    BY <1>1 DEF Receive, StartWrites, Inv, PerClient
  <2>2. \A d, n : RequestOf(d, n)' = RequestOf(d, n)
    BY <2>1 DEF RequestOf
  <2>3. RequestsKept
    BY <2>1, <2>2 DEF RequestsKept
  <2>4. \A d \in Clients : phase'[d] # "idle" => Begun(RequestOf(d, Len(calls[d])))'
    BY <2>1, <2>2 DEF Sound, Begun
  <2> QED
    BY <2>1, <2>3, <2>4, SoundStays
<1>2. CASE Send(c)
  <2> DEFINE m == Message(c)
  <2>1. /\ network' = network \cup {m} /\ UNCHANGED <<calls, phase, log>> /\ phase[c] # "idle"
        /\ m.client = c /\ m.call = last /\ m.phase = phase[c]
    BY <1>2 DEF Send, Message
  <2> HIDE DEF m
  <2>2. \A d, n : RequestOf(d, n)' = RequestOf(d, n)
    BY <2>1 DEF RequestOf
  <2>3. Begun(RequestOf(c, last))
    BY <2>1 DEF Sound
  <2>4. phase[c] = "writing" => Sendable(RequestOf(c, last))
    <3>1. Fine(calls[c], phase[c], queue[c], waiting[c], reply[c], Sent(c), DoneBy(log, c))
      BY DEF Inv, FineFor
    <3>2. phase[c] = "writing" => ~Plan[list[last].request].writes_too_long
      BY <3>1 DEF Fine
    <3> QED
      BY <2>3, <3>2 DEF Sendable, RequestOf
  <2>5. \A w \in network' : w.phase = "writing" => Sendable(RequestOf(w.client, w.call))
    BY <2>1, <2>4 DEF Sound
  <2> QED
    BY <2>1, <2>2, <2>5 DEF Sound, Sendable, Begun
<1>3. CASE GiveUp(c) \/ RejectWrites(c) \/ Return(c)
  <2>1. PICK outcome : Ended(c, outcome) /\ UNCHANGED <<network, log>>
    BY <1>3 DEF GiveUp, RejectWrites, Return
  <2>2. /\ \A d \in Clients : d # c => calls'[d] = calls[d]
        /\ phase' = [phase EXCEPT ![c] = "idle"]
    BY <2>1 DEF Ended, Inv, PerClient
  <2>3. RequestsKept
    BY <2>1, EndedKeeps
  <2>4. ASSUME NEW d \in Clients, phase'[d] # "idle"
        PROVE  Begun(RequestOf(d, Len(calls[d])))'
    <3>1. d # c /\ phase'[d] = phase[d] /\ calls'[d] = calls[d]
      BY <2>2, <2>4 DEF Inv, PerClient
    <3>2. RequestOf(d, Len(calls[d]))' = RequestOf(d, Len(calls[d]))
      BY <3>1 DEF RequestOf
    <3>3. Begun(RequestOf(d, Len(calls[d])))
      BY <2>4, <3>1 DEF Sound
    <3> QED
      BY <3>2, <3>3 DEF Begun
  <2> QED
    BY <2>1, <2>3, <2>4, SoundStays
<1> QED
  BY <1>1, <1>2, <1>3 DEF Proceed

LEMMA DealtSound ==
    ASSUME Inv, Sound, NEW m \in network, Serve(m) \/ Lose(m)
    PROVE  Sound'
<1>1. network' = network \ {m} /\ UNCHANGED <<calls, phase>>
  BY DEF Serve, Lose, client
<1>2. \A d, n : RequestOf(d, n)' = RequestOf(d, n)
  BY <1>1 DEF RequestOf
<1>3. \A d \in Clients : phase'[d] # "idle" => Begun(RequestOf(d, Len(calls[d])))'
  BY <1>1, <1>2 DEF Sound, Begun
<1>4. CASE UNCHANGED log
  <2>1. RequestsKept
    BY <1>1, <1>2 DEF RequestsKept
  <2> QED
    BY <1>1, <1>3, <1>4, <2>1, SoundStays
<1>5. CASE Serve(m) /\ m.phase = "writing"
  <2>1. /\ log' = log \o Effects(m)
    BY <1>5 DEF Serve, Effects
  <2>2. /\ log' \in Seq(Entry)
        /\ \A c, n : DoneIn(log', c, n) =
              IF c = m.client /\ n = m.call THEN DoneIn(log, c, n) \cup Carried(m)
                                            ELSE DoneIn(log, c, n)
    BY <1>5, ServedWrite
  <2>3. /\ m.client \in Clients /\ m.call \in 1 .. Len(calls[m.client])
        /\ Sendable(RequestOf(m.client, m.call))
    BY <1>5, InNetwork DEF Sound
  <2>4. ASSUME NEW i \in DOMAIN log'
        PROVE  /\ log'[i].client \in Clients /\ log'[i].call \in 1 .. Len(calls[log'[i].client])
               /\ Sendable(RequestOf(log'[i].client, log'[i].call))
    <3> DEFINE c == log'[i].client
               n == log'[i].call
    <3>1. CASE c = m.client /\ n = m.call
      BY <2>3, <3>1
    <3>2. CASE ~(c = m.client /\ n = m.call)
      <4>1. log'[i].index \in DoneIn(log', c, n)
        BY DEF DoneIn
      <4>2. DoneIn(log, c, n) # {}
        BY <2>2, <3>2, <4>1
      <4>3. PICK k \in DOMAIN log : log[k].client = c /\ log[k].call = n
        BY <4>2 DEF DoneIn
      <4> QED
        BY <4>3 DEF Sound
    <3> QED
      BY <3>1, <3>2
  <2>5. \A i \in DOMAIN log' : Sendable(RequestOf(log[i].client, log[i].call))'
    BY <1>2, <2>4 DEF Sendable, Begun
  <2>6. \A w \in network' : w.phase = "writing" => Sendable(RequestOf(w.client, w.call))'
    BY <1>1, <1>2 DEF Sound, Sendable, Begun
  <2> QED
    BY <1>1, <1>3, <2>4, <2>5, <2>6 DEF Sound
<1> QED
  BY <1>4, <1>5 DEF Serve, Lose

LEMMA InitSound == Init => Sound
<1> SUFFICES ASSUME Init PROVE Sound
  OBVIOUS
<1>1. DOMAIN log = {}
  BY DEF Init
<1> QED
  BY <1>1 DEF Init, Sound

LEMMA NextSound == Inv /\ Sound /\ [Next]_vars => Sound'
<1> SUFFICES ASSUME Inv, Sound, [Next]_vars PROVE Sound'
  OBVIOUS
<1>1. CASE Next
  BY <1>1, BeginSound, ProceedSound, DealtSound DEF Next
<1>2. CASE UNCHANGED vars
  BY <1>2 DEF vars, Sound, Sendable, Begun, RequestOf
<1> QED
  BY <1>1, <1>2

\* Of a request set that is turned down for a value that cannot be encoded, or for a
\* read or a write that cannot be sent, nothing is written (controller.py:229-240).
THEOREM Unsendable == Spec => []UnsendableWritesNothing
<1>1. Sound => UnsendableWritesNothing
  BY DEF Sound, Sendable, Begun, RequestOf, UnsendableWritesNothing
<1> QED
  BY <1>1, InitInv, NextInv, InitSound, NextSound, PTL DEF Spec

-----------------------------------------------------------------------------
(***************************************************************************)
(* Setters that fit one request take effect together.                      *)
(***************************************************************************)
\* What the log holds of a call ends where one of its requests does.
CutAtEnds ==
    \A c \in Clients : \A n \in 1 .. Len(calls[c]) :
        \/ DoneIn(log, c, n) = {}
        \/ \E k \in 1 .. Len(Plan[RequestOf(c, n)].write_chunks) :
              DoneIn(log, c, n) = 1 .. EndAt(RequestOf(c, n), k)

\* A call keeps its request through every step.
LEMMA NextKeepsRequests == Inv /\ [Next]_vars => RequestsKept
<1> SUFFICES ASSUME Inv, [Next]_vars PROVE RequestsKept
  OBVIOUS
<1>1. CASE UNCHANGED calls
  BY <1>1 DEF RequestsKept, RequestOf
<1>2. ASSUME NEW c \in Clients, NEW r \in Requests[c],
             Begin(c, r) \/ BeginInvalid(c, r) \/ BeginTooLong(c, r)
      PROVE  RequestsKept
  <2>1. PICK outcome \in Outcomes : Opened(c, r, outcome)
    BY <1>2 DEF Begin, BeginInvalid, BeginTooLong, Outcomes
  <2> QED
    BY <2>1, OneMoreCall
<1>3. ASSUME NEW c \in Clients, Proceed(c), ~UNCHANGED calls
      PROVE  RequestsKept
  <2>1. PICK outcome : Ended(c, outcome)
    BY <1>3 DEF Proceed, Send, Receive, GiveUp, StartWrites, RejectWrites, Return
  <2> QED
    BY <2>1, EndedKeeps
<1>4. ASSUME NEW m \in network, Serve(m) \/ Lose(m)
      PROVE  UNCHANGED calls
  BY <1>4 DEF Serve, Lose, client
<1> QED
  BY <1>1, <1>2, <1>3, <1>4 DEF Next, vars

\* Nothing is in the log of a call that has yet to begin.
LEMMA NothingAhead ==
    ASSUME Inv, NEW c \in Clients, NEW n \in Nat, n > Len(calls[c])
    PROVE  DoneIn(log, c, n) = {}
<1>1. Fine(calls[c], phase[c], queue[c], waiting[c], reply[c], Sent(c), DoneBy(log, c))
  BY DEF Inv, FineFor
<1>2. DoneBy(log, c)[n] = {}
  BY <1>1 DEF Fine
<1> QED
  BY <1>2 DEF DoneBy

LEMMA CutAtEndsStays ==
    ASSUME Inv, CutAtEnds, [Next]_vars, UNCHANGED log
    PROVE  CutAtEnds'
<1> DEFINE Cut(done, r) ==
              \/ done = {}
              \/ \E k \in 1 .. Len(Plan[r].write_chunks) : done = 1 .. EndAt(r, k)
<1>1. SUFFICES ASSUME NEW c \in Clients, NEW n \in 1 .. Len(calls'[c])
               PROVE  Cut(DoneIn(log', c, n), RequestOf(c, n)')
  BY DEF CutAtEnds
<1>2. CASE n \in 1 .. Len(calls[c])
  <2>1. RequestOf(c, n)' = RequestOf(c, n)
    BY <1>2, NextKeepsRequests DEF RequestsKept
  <2>2. Cut(DoneIn(log, c, n), RequestOf(c, n))
    BY <1>2 DEF CutAtEnds
  <2> HIDE DEF Cut
  <2> QED
    BY <2>1, <2>2
<1>3. CASE n \notin 1 .. Len(calls[c])
  <2>1. Len(calls[c]) \in Nat
    BY OpenAlike, LenProperties
  <2>2. n \in Nat /\ n > Len(calls[c])
    BY <1>3, <2>1
  <2> QED
    BY <2>2, NothingAhead
<1> QED
  BY <1>2, <1>3

LEMMA ServedCutAtEnds ==
    ASSUME Inv, CutAtEnds, NEW m \in network, Serve(m), m.phase = "writing"
    PROVE  CutAtEnds'
<1>1. UNCHANGED calls
  BY DEF Serve, client
<1>2. \A d, n : RequestOf(d, n)' = RequestOf(d, n)
  BY <1>1 DEF RequestOf
<1>3. /\ m.client \in Clients /\ m.call \in Nat
      /\ \A c, n : DoneIn(log', c, n) =
            IF c = m.client /\ n = m.call THEN DoneIn(log, c, n) \cup Carried(m)
                                          ELSE DoneIn(log, c, n)
  BY ServedWrite
<1> DEFINE request == RequestOf(m.client, m.call)
           chunks == Plan[request].write_chunks
<1>4. Fine(calls[m.client], phase[m.client], queue[m.client], waiting[m.client],
           reply[m.client], Sent(m.client), DoneBy(log, m.client))
  BY <1>3 DEF Inv, FineFor
<1>5. m \in Sent(m.client)
  BY DEF Sent
<1>6. /\ InRuns(request)
      /\ \E k \in 1 .. Len(chunks) :
            m.chunk = chunks[k] /\ DoneBy(log, m.client)[m.call] = 1 .. EndAt(request, k - 1)
  BY <1>4, <1>5, WriteIsNext DEF RequestOf
<1>7. PICK k \in 1 .. Len(chunks) :
          m.chunk = chunks[k] /\ DoneIn(log, m.client, m.call) = 1 .. EndAt(request, k - 1)
  BY <1>3, <1>6 DEF DoneBy
<1>8. (1 .. EndAt(request, k - 1)) \cup Carried(m) = 1 .. EndAt(request, k)
  BY <1>6, <1>7, WriteContinues
<1>9. DoneIn(log', m.client, m.call) = 1 .. EndAt(request, k)
  BY <1>3, <1>7, <1>8
<1> HIDE DEF chunks
<1>10. ASSUME NEW c \in Clients, NEW n \in 1 .. Len(calls[c])
       PROVE  \/ DoneIn(log', c, n) = {}
              \/ \E j \in 1 .. Len(Plan[RequestOf(c, n)].write_chunks) :
                    DoneIn(log', c, n) = 1 .. EndAt(RequestOf(c, n), j)
  <2>1. CASE c = m.client /\ n = m.call
    BY <1>9, <2>1 DEF chunks
  <2>2. CASE ~(c = m.client /\ n = m.call)
    <3>1. DoneIn(log', c, n) = DoneIn(log, c, n)
      BY <1>3, <2>2
    <3> QED
      BY <3>1 DEF CutAtEnds
  <2> QED
    BY <2>1, <2>2
<1> QED
  BY <1>1, <1>2, <1>10 DEF CutAtEnds

\* The setters of a request set have sizes.
LEMMA WriteItemsType ==
    ASSUME NEW request \in AllRequests
    PROVE  WriteItems(request) \in Seq(Item) /\ Len(WriteItems(request)) = Len(request.setters)
<1> DEFINE all_items == WriteItems(request)
           size == Len(request.setters)
<1>1. request.setters \in Seq(Setter)
  BY ControllerAssumption DEF AllRequests, RequestSet
<1>2. size \in Nat /\ DOMAIN request.setters = 1 .. size
  BY <1>1, LenProperties
<1>3. ASSUME NEW i \in 1 .. size
      PROVE  all_items[i] \in Item
  <2> DEFINE setter == request.setters[i]
  <2>1. setter \in Setter
    BY <1>1, ElementOfSeq
  <2>2. setter.path \in Paths /\ setter.path \in Variables /\ setter.value \in Values
    BY <2>1 DEF Setter, Paths
  <2> DEFINE path_len == PathLen[setter.path]
             encoded_len == EncodedLen[setter.value]
             value_len == ValueLen[setter.value]
             fragment == path_len + 1 + encoded_len
             response == path_len + value_len + 2
  <2>3. path_len \in Nat /\ encoded_len \in Nat /\ value_len \in Nat
    BY <2>2, ControllerAssumption
  <2>4. all_items[i] = [fragment |-> fragment, response |-> response]
    BY <1>2 DEF WriteItems
  <2> HIDE DEF path_len, encoded_len, value_len
  <2>5. fragment \in Nat /\ response \in Nat
    BY <2>3
  <2> HIDE DEF all_items, fragment, response
  <2> QED
    BY <2>4, <2>5 DEF Item
<1>4. all_items \in [1 .. size -> Item]
  BY <1>2, <1>3 DEF WriteItems
<1> HIDE DEF all_items, size
<1>5. all_items \in Seq(Item) /\ Len(all_items) = size
  BY <1>2, <1>4, LenOf
<1> QED
  BY <1>5 DEF all_items, size

\* Setters that fit one request are sent in one.
LEMMA SentTogether ==
    ASSUME NEW request \in AllRequests, request.setters # <<>>,
           Under(WriteItems(request), AllOf(request.setters))
    PROVE  /\ ~Plan[request].writes_too_long
           /\ Len(Plan[request].write_chunks) = 1
           /\ EndAt(request, 1) = Len(request.setters)
<1> DEFINE all_items == WriteItems(request)
           chunks == Plan[request].write_chunks
           size == Len(request.setters)
<1>1. all_items \in Seq(Item) /\ Len(all_items) = size
  BY WriteItemsType
<1>2. request.setters \in Seq(Setter)
  BY ControllerAssumption DEF AllRequests, RequestSet
<1>3. size \in Nat /\ size # 0 /\ DOMAIN request.setters = 1 .. size
  BY <1>2, LenProperties, EmptySeq
<1>4. chunks = Pack(all_items) /\ (Plan[request].writes_too_long <=> TooLong(all_items))
  BY DEF Plan
<1>5. AllOf(request.setters) = AllOf(all_items)
  <2>1. DOMAIN all_items = 1 .. size
    BY <1>1, LenProperties
  <2> QED
    BY <1>3, <2>1 DEF AllOf
<1>6. Ends(request) = [k \in DOMAIN chunks |-> Last(chunks[k])]
  BY DEF Ends
<1>7. all_items # <<>> /\ Under(all_items, AllOf(all_items))
  <2>1. all_items # <<>>
    BY <1>1, <1>3, EmptySeq
  <2> QED
    BY <1>5, <2>1
<1> HIDE DEF all_items, chunks, size
<1>8. ~TooLong(all_items) /\ Len(chunks) = 1
  BY <1>1, <1>4, <1>7, OneChunk
<1>9. chunks \in Seq(Seq(1 .. size)) /\ CutsInOrder(chunks, size)
  BY <1>1, <1>4, <1>8, PackContract
<1>10. chunks[1][Len(chunks[1])] = size
  <2>1. chunks # <<>>
    <3>1. Len(<<>>) = 0
      OBVIOUS
    <3> QED
      BY <1>8, <3>1
  <2> QED
    BY <1>8, <1>9, <2>1 DEF CutsInOrder
<1>11. 1 \in DOMAIN chunks
  BY <1>8, <1>9, LenProperties
<1>12. EndAt(request, 1) = size
  BY <1>6, <1>10, <1>11 DEF EndAt, Last
<1> QED
  BY <1>4, <1>8, <1>12 DEF size, chunks

\* With one request for all its writes, a call has done none or all of them.
LEMMA CutAtEndsIsAtomic ==
    ASSUME Inv, CutAtEnds
    PROVE  WritesOfOneRequestAreAtomic
<1> SUFFICES ASSUME NEW c \in Clients, NEW n \in DOMAIN calls[c],
                    calls[c][n].request.setters # <<>>,
                    Under(Plan[calls[c][n].request].write_items,
                          AllOf(calls[c][n].request.setters))
             PROVE  Applied(c, n) \in {{}, DOMAIN calls[c][n].request.setters}
  BY DEF WritesOfOneRequestAreAtomic, AllOf
<1> DEFINE request == calls[c][n].request
<1>1. calls[c] \in Seq(CallRecord)
  BY OpenAlike
<1>2. n \in 1 .. Len(calls[c]) /\ calls[c][n] \in CallRecord
  BY <1>1, LenProperties, ElementOfSeq
<1>3. request \in AllRequests /\ request = RequestOf(c, n)
  BY <1>2 DEF CallRecord, RequestOf
<1>4. Plan[request].write_items = WriteItems(request)
  BY <1>3 DEF Plan
<1>5. request.setters \in Seq(Setter)
  BY <1>3, ControllerAssumption DEF AllRequests, RequestSet
<1>6. DOMAIN request.setters = 1 .. Len(request.setters)
  BY <1>5, LenProperties
<1>7. Len(Plan[request].write_chunks) = 1 /\ EndAt(request, 1) = Len(request.setters)
  BY <1>3, <1>4, SentTogether
<1>8. \/ DoneIn(log, c, n) = {}
      \/ \E k \in 1 .. Len(Plan[request].write_chunks) :
            DoneIn(log, c, n) = 1 .. EndAt(request, k)
  BY <1>2, <1>3 DEF CutAtEnds
<1>9. Applied(c, n) = DoneIn(log, c, n)
  BY DEF Applied, DoneIn
<1> HIDE DEF request
<1>10. DoneIn(log, c, n) = {} \/ DoneIn(log, c, n) = 1 .. Len(request.setters)
  <2>1. \A k \in 1 .. 1 : k = 1
    OBVIOUS
  <2> QED
    BY <1>7, <1>8, <2>1
<1> QED
  BY <1>6, <1>9, <1>10 DEF request

\* Setters that fit one request together take effect together, for any limits:
\* "a single request, so the controller never observes a half-set state" (room.py).
THEOREM Atomic == Spec => []WritesOfOneRequestAreAtomic
<1>1. Init => Inv
  BY InitInv
<1>2. Inv /\ [Next]_vars => Inv'
  BY NextInv
<1>3. Init => CutAtEnds
  <2> SUFFICES ASSUME Init, NEW c \in Clients PROVE 1 .. Len(calls[c]) = {}
    BY DEF CutAtEnds
  <2>1. calls[c] = <<>>
    BY DEF Init
  <2> QED
    BY <2>1
<1>4. Inv /\ CutAtEnds /\ [Next]_vars => CutAtEnds'
  <2> SUFFICES ASSUME Inv, CutAtEnds, [Next]_vars PROVE CutAtEnds'
    OBVIOUS
  <2>1. CASE UNCHANGED log
    BY <2>1, CutAtEndsStays
  <2>2. CASE ~UNCHANGED log
    <3>1. PICK m \in network : Serve(m) /\ m.phase = "writing"
      BY <2>2 DEF Next, vars, Begin, BeginInvalid, BeginTooLong, Opened, Proceed, Send,
                  Receive, GiveUp, StartWrites, RejectWrites, Return, Serve, Lose
    <3> QED
      BY <3>1, ServedCutAtEnds
  <2> QED
    BY <2>1, <2>2
<1>5. Inv /\ CutAtEnds => WritesOfOneRequestAreAtomic
  BY CutAtEndsIsAtomic
<1> QED
  BY <1>1, <1>2, <1>3, <1>4, <1>5, PTL DEF Spec

-----------------------------------------------------------------------------
(***************************************************************************)
(* The lists of a request set, its replies and the answer.                 *)
(***************************************************************************)
\* One step of the "seen" filter, and what it has kept after each getter.
Keep(kept, getter) ==
    IF \E other \in ToSet(kept) : other.path = getter.path THEN kept ELSE Append(kept, getter)

KeptRun(kept, getters, n) ==
    kept[0] = <<>> /\ \A i \in 1 .. n : kept[i] = Keep(kept[i - 1], getters[i])

\* One more element of a list.
LEMMA AppendHolds ==
    ASSUME NEW S, NEW s \in Seq(S), NEW x \in S
    PROVE  Append(s, x) \in Seq(S) /\ Holds(Append(s, x)) = Holds(s) \cup {x}
<1>1. /\ Append(s, x) \in Seq(S) /\ Len(Append(s, x)) = Len(s) + 1
      /\ \A j \in 1 .. Len(s) : Append(s, x)[j] = s[j]
      /\ Append(s, x)[Len(s) + 1] = x
  BY AppendProperties
<1>2. PICK n \in Nat : n = Len(s)
  BY LenProperties
<1> DEFINE longer == Append(s, x)
<1>3. DOMAIN s = 1 .. n /\ DOMAIN longer = 1 .. n + 1 /\ longer[n + 1] = x
      /\ \A j \in 1 .. n : longer[j] = s[j]
  BY <1>1, <1>2, LenProperties
<1>4. longer \in Seq(S)
  BY <1>1
<1> HIDE DEF longer
<1>5. Holds(longer) \subseteq Holds(s) \cup {x}
  <2>1. \A j \in 1 .. n + 1 : j \in 1 .. n \/ j = n + 1
    OBVIOUS
  <2> QED
    BY <1>3, <2>1 DEF Holds
<1>6. Holds(s) \cup {x} \subseteq Holds(longer)
  <2>1. \A j \in 1 .. n : j \in 1 .. n + 1
    OBVIOUS
  <2>2. n + 1 \in 1 .. n + 1
    OBVIOUS
  <2> QED
    BY <1>3, <2>1, <2>2 DEF Holds
<1>7. Holds(longer) = Holds(s) \cup {x}
  BY <1>5, <1>6
<1> QED
  BY <1>4, <1>7 DEF longer

\* The filter keeps what it has, and of a getter the path at least.
LEMMA KeepHolds ==
    ASSUME NEW S, NEW s \in Seq(S), NEW getter \in S
    PROVE  /\ Keep(s, getter) \in Seq(S)
           /\ Holds(Keep(s, getter)) \subseteq Holds(s) \cup {getter}
           /\ Holds(s) \subseteq Holds(Keep(s, getter))
           /\ \E other \in Holds(Keep(s, getter)) : other.path = getter.path
<1>1. CASE \E other \in ToSet(s) : other.path = getter.path
  BY <1>1 DEF Keep, Holds, ToSet
<1>2. CASE ~ \E other \in ToSet(s) : other.path = getter.path
  <2>1. Keep(s, getter) = Append(s, getter)
    BY <1>2 DEF Keep
  <2>2. Append(s, getter) \in Seq(S) /\ Holds(Append(s, getter)) = Holds(s) \cup {getter}
    BY AppendHolds
  <2> QED
    BY <2>1, <2>2
<1> QED
  BY <1>1, <1>2

LEMMA DistinctIsRun ==
    ASSUME NEW S, NEW getters \in Seq(S)
    PROVE  \E kept : KeptRun(kept, getters, Len(getters)) /\ Distinct(getters) = kept[Len(getters)]
<1>1. PICK size \in Nat : size = Len(getters)
  BY LenProperties
<1>2. DOMAIN getters = 1 .. size /\ \A i \in 1 .. size : getters[i] \in S
  BY <1>1, LenProperties, ElementOfSeq
<1> DEFINE step == [i \in 1 .. size |-> [s \in Seq(S) |-> Keep(s, getters[i])]]
           Run(f) == [i \in 0 .. Len(getters) |->
                         IF i = 0 THEN <<>>
                         ELSE IF \E getter \in ToSet(f[i - 1]) : getter.path = getters[i].path
                         THEN f[i - 1]
                         ELSE Append(f[i - 1], getters[i])]
           kept == CHOOSE f : f = Run(f)
<1>3. step \in [1 .. size -> [Seq(S) -> Seq(S)]]
  BY <1>2, KeepHolds
<1>4. \A i \in 1 .. size, s \in Seq(S) : step[i][s] = Keep(s, getters[i])
  OBVIOUS
<1>5. <<>> \in Seq(S)
  OBVIOUS
<1> HIDE DEF step
<1>6. PICK f \in [0 .. size -> Seq(S)] :
          f[0] = <<>> /\ \A i \in 1 .. size : f[i] = step[i][f[i - 1]]
  <2>1. \E f : IsRun(f, Seq(S), <<>>, size, step)
    BY <1>3, <1>5, RunExists
  <2> QED
    BY <2>1 DEF IsRun
<1>7. f = Run(f)
  <2>1. ASSUME NEW i \in 1 .. size
        PROVE  f[i] = Keep(f[i - 1], getters[i])
    <3>1. i - 1 \in 0 .. size
      OBVIOUS
    <3> QED
      BY <1>4, <1>6, <3>1
  <2>2. ASSUME NEW i \in 0 .. size
        PROVE  f[i] = Run(f)[i]
    <3>1. CASE i = 0
      BY <1>1, <1>6, <3>1
    <3>2. CASE i # 0
      <4>1. i \in 1 .. size
        BY <3>2
      <4> QED
        BY <1>1, <2>1, <3>2, <4>1 DEF Keep
    <3> QED
      BY <3>1, <3>2
  <2> QED
    BY <1>1, <2>2
<1>8. kept = Run(kept)
  BY <1>7
<1>9. Distinct(getters) = kept[size]
  BY <1>1 DEF Distinct
<1> HIDE DEF kept
<1>10. KeptRun(kept, getters, size)
  <2>1. 0 \in 0 .. size /\ \A i \in 1 .. size : i \in 0 .. size /\ i # 0
    OBVIOUS
  <2> QED
    BY <1>1, <1>8, <2>1 DEF KeptRun, Keep
<1> QED
  BY <1>1, <1>9, <1>10

\* The "seen" filter keeps getters of the list, and one of each path in it.
LEMMA DistinctHolds ==
    ASSUME NEW S, NEW getters \in Seq(S)
    PROVE  /\ Distinct(getters) \in Seq(S)
           /\ Holds(Distinct(getters)) \subseteq Holds(getters)
           /\ \A getter \in Holds(getters) :
                 \E other \in Holds(Distinct(getters)) : other.path = getter.path
<1>1. PICK size \in Nat : size = Len(getters)
  BY LenProperties
<1>2. DOMAIN getters = 1 .. size /\ \A i \in 1 .. size : getters[i] \in S
  BY <1>1, LenProperties, ElementOfSeq
<1>3. PICK kept : KeptRun(kept, getters, size) /\ Distinct(getters) = kept[size]
  BY <1>1, DistinctIsRun
<1>4. kept[0] = <<>> /\ \A i \in 1 .. size : kept[i] = Keep(kept[i - 1], getters[i])
  BY <1>3 DEF KeptRun
<1> DEFINE Good(i) == /\ kept[i] \in Seq(S)
                      /\ Holds(kept[i]) \subseteq {getters[j] : j \in 1 .. i}
                      /\ \A j \in 1 .. i : \E other \in Holds(kept[i]) : other.path = getters[j].path
           Bad == {i \in 0 .. size : ~Good(i)}
<1>5. Good(0)
  <2>1. DOMAIN <<>> = {} /\ 1 .. 0 = {}
    OBVIOUS
  <2>2. Holds(<<>>) = {}
    BY <2>1 DEF Holds
  <2> QED
    BY <1>4, <2>1, <2>2
<1>6. ASSUME NEW i \in 1 .. size, Good(i - 1)
       PROVE  Good(i)
  <2> DEFINE getter == getters[i]
             before == kept[i - 1]
             after == kept[i]
  <2>1. getter \in S /\ before \in Seq(S) /\ after = Keep(before, getter)
    BY <1>2, <1>4, <1>6
  <2> HIDE DEF getter, before, after
  <2>2. /\ Keep(before, getter) \in Seq(S)
        /\ Holds(Keep(before, getter)) \subseteq Holds(before) \cup {getter}
        /\ Holds(before) \subseteq Holds(Keep(before, getter))
        /\ \E other \in Holds(Keep(before, getter)) : other.path = getter.path
    BY <2>1, KeepHolds
  <2>3. /\ after \in Seq(S) /\ Holds(after) \subseteq Holds(before) \cup {getter}
        /\ Holds(before) \subseteq Holds(after)
        /\ \E other \in Holds(after) : other.path = getter.path
    BY <2>1, <2>2
  <2>4. /\ i \in 1 .. i
        /\ \A k \in 1 .. i : k \in 1 .. i - 1 \/ k = i
        /\ \A k \in 1 .. i - 1 : k \in 1 .. i
    OBVIOUS
  <2>5. /\ Holds(before) \subseteq {getters[j] : j \in 1 .. i - 1}
        /\ \A j \in 1 .. i - 1 : \E other \in Holds(before) : other.path = getters[j].path
    BY <1>6 DEF before
  <2>6. Holds(after) \subseteq {getters[j] : j \in 1 .. i}
    <3>1. {getters[j] : j \in 1 .. i - 1} \cup {getter} \subseteq {getters[j] : j \in 1 .. i}
      BY <2>4, Zenon DEF getter
    <3> QED
      BY <2>3, <2>5, <3>1
  <2>7. \A j \in 1 .. i : \E other \in Holds(after) : other.path = getters[j].path
    <3> SUFFICES ASSUME NEW j \in 1 .. i
                 PROVE  \E other \in Holds(after) : other.path = getters[j].path
      OBVIOUS
    <3>1. CASE j = i
      BY <2>3, <3>1 DEF getter
    <3>2. CASE j \in 1 .. i - 1
      BY <2>3, <2>5, <3>2
    <3> QED
      BY <2>4, <3>1, <3>2
  <2> QED
    BY <2>3, <2>6, <2>7 DEF after
<1> HIDE DEF Good
<1>7. Bad = {}
  <2> SUFFICES ASSUME Bad # {} PROVE FALSE
    OBVIOUS
  <2>1. PICK n \in Bad : \A k \in Bad : n <= k
    <3>1. Bad \in SUBSET Nat
      OBVIOUS
    <3> QED
      BY <3>1, LeastNatural
  <2>2. n \in 0 .. size /\ ~Good(n) /\ n # 0
    BY <1>5, <2>1
  <2>3. n \in 1 .. size /\ n - 1 \in 0 .. size /\ ~(n <= n - 1)
    BY <2>2
  <2>4. Good(n - 1)
    BY <2>1, <2>3
  <2> QED
    BY <1>6, <2>2, <2>3, <2>4
<1>8. Good(size)
  <2>1. size \in 0 .. size
    OBVIOUS
  <2> QED
    BY <1>7, <2>1
<1>9. Holds(getters) = {getters[j] : j \in 1 .. size}
  BY <1>2 DEF Holds
<1>10. /\ kept[size] \in Seq(S) /\ Holds(kept[size]) \subseteq Holds(getters)
       /\ \A j \in 1 .. size : \E other \in Holds(kept[size]) : other.path = getters[j].path
  BY <1>8, <1>9 DEF Good
<1>11. \A getter \in Holds(getters) : \E other \in Holds(kept[size]) : other.path = getter.path
  BY <1>9, <1>10
<1> QED
  BY <1>3, <1>10, <1>11

\* What a getter is turned into: getters of some of its variables, with a size each.
LEMMA ResponseBytesType ==
    ASSUME NEW v \in Variables
    PROVE  ResponseBytes(v) \in Nat /\ Get(v) \in Getter /\ Get(v).path = v
           /\ Get(v).expected_bytes = ResponseBytes(v)
<1> DEFINE len == PathLen[v]
           bytes == ValueBytes[v]
<1>1. len \in Nat /\ bytes \in Nat
  BY ControllerAssumption DEF Paths
<1>2. ResponseBytes(v) = len + bytes + 2
  BY DEF ResponseBytes
<1> HIDE DEF len, bytes
<1>3. ResponseBytes(v) \in Nat
  BY <1>1, <1>2
<1> QED
  BY <1>3 DEF Get, Getter, Paths

LEMMA StructureBytesType ==
    ASSUME NEW structure \in Structures
    PROVE  StructureBytes(structure) \in Nat
<1> DEFINE members == Members[structure]
           bytes == [i \in DOMAIN members |-> ResponseBytes(members[i])]
<1>1. members \in Seq(Variables)
  BY ControllerAssumption
<1>2. \A i \in DOMAIN members : members[i] \in Variables
  BY <1>1, Elements
<1> HIDE DEF members
<1>3. bytes \in [DOMAIN members -> Nat]
  BY <1>2, ResponseBytesType
<1>4. bytes \in Seq(Nat)
  BY <1>1, <1>3, MapType
<1>5. Total(bytes) \in Nat
  BY <1>4, TotalType
<1> QED
  BY <1>5, BudgetAssumption DEF StructureBytes, members

LEMMA ExpectedBytesType ==
    ASSUME NEW getter \in Getter
    PROVE  ExpectedBytes(getter) \in Nat
<1>1. getter.path \in Paths /\ getter.expected_bytes \in Nat \cup {Unstated}
  BY DEF Getter
<1> QED
  BY <1>1, ResponseBytesType, StructureBytesType DEF ExpectedBytes, Paths

\* A structure is read whole, or as its variables.
LEMMA ExpandCases ==
    ASSUME NEW getter \in Getter
    PROVE  /\ Expand(getter) \in Seq(Getter)
           /\ \/ Holds(Expand(getter)) = {getter}
              \/ /\ getter.path \in Structures /\ getter.expected_bytes = Unstated
                 /\ Holds(Expand(getter)) = {Get(v) : v \in Holds(Members[getter.path])}
                 /\ Holds(Members[getter.path]) \subseteq Variables
<1> DEFINE Split == /\ getter.path \in Structures
                    /\ getter.expected_bytes = Unstated
                    /\ ExpectedBytes(getter) > MaxResponse
<1>1. CASE ~Split
  <2>1. Expand(getter) = <<getter>>
    BY <1>1 DEF Expand
  <2>2. Holds(<<getter>>) = {getter} /\ <<getter>> \in Seq(Getter)
    BY DEF Holds
  <2> QED
    BY <2>1, <2>2
<1>2. CASE Split
  <2> DEFINE members == Members[getter.path]
             list == [i \in DOMAIN members |-> Get(members[i])]
  <2>1. members \in Seq(Variables) /\ Expand(getter) = list
    BY <1>2, ControllerAssumption DEF Expand
  <2> HIDE DEF members
  <2>2. \A i \in DOMAIN members : members[i] \in Variables
    BY <2>1, Elements
  <2>3. list \in [DOMAIN members -> Getter]
    BY <2>2, ResponseBytesType
  <2>4. list \in Seq(Getter) /\ DOMAIN list = DOMAIN members
    BY <2>1, <2>3, MapType
  <2>5. \A i \in DOMAIN members : list[i] = Get(members[i])
    OBVIOUS
  <2> HIDE DEF list
  <2>6. Holds(list) = {Get(v) : v \in Holds(members)} /\ Holds(members) \subseteq Variables
    BY <2>2, <2>4, <2>5 DEF Holds
  <2> QED
    BY <1>2, <2>1, <2>4, <2>6 DEF members
<1> QED
  BY <1>1, <1>2

\* Where a size is stated, or data.xml lists all of a structure, no variable is left
\* out.
Listed(getter) ==
    \/ getter.expected_bytes # Unstated
    \/ getter.path \in Structures => ToSet(Answered[getter.path]) \subseteq ToSet(Members[getter.path])

LEMMA ExpandCovers ==
    ASSUME NEW getter \in Getter, Listed(getter), NEW v \in VariablesOf(getter.path)
    PROVE  \E x \in Holds(Expand(getter)) : v \in VariablesOf(x.path)
<1>1. CASE Holds(Expand(getter)) = {getter}
  BY <1>1
<1>2. CASE /\ getter.path \in Structures /\ getter.expected_bytes = Unstated
           /\ Holds(Expand(getter)) = {Get(u) : u \in Holds(Members[getter.path])}
           /\ Holds(Members[getter.path]) \subseteq Variables
  <2>1. v \in ToSet(Answered[getter.path])
    BY <1>2 DEF VariablesOf
  <2>2. v \in ToSet(Members[getter.path])
    BY <1>2, <2>1 DEF Listed
  <2>3. v \in Holds(Members[getter.path]) /\ v \in Variables
    BY <1>2, <2>2 DEF Holds, ToSet
  <2>4. Get(v) \in Holds(Expand(getter)) /\ Get(v).path = v
    BY <1>2, <2>3, ResponseBytesType
  <2>5. VariablesOf(v) = {v}
    BY <2>3, ControllerAssumption DEF VariablesOf
  <2> QED
    BY <2>4, <2>5
<1> QED
  BY <1>1, <1>2, ExpandCases

LEMMA ReadsType ==
    ASSUME NEW request \in AllRequests
    PROVE  /\ Reads(request) \in Seq(Getter)
           /\ \A x \in Holds(Reads(request)) :
                 \E k \in DOMAIN request.getters : x \in Holds(Expand(request.getters[k]))
           /\ \A k \in DOMAIN request.getters : \A y \in Holds(Expand(request.getters[k])) :
                 \E x \in Holds(Reads(request)) : x.path = y.path
           /\ request.getters \in Seq(Getter)
<1> DEFINE getters == request.getters
           lists == [i \in DOMAIN getters |-> Expand(getters[i])]
<1>1. getters \in Seq(Getter)
  BY ControllerAssumption DEF AllRequests, RequestSet
<1> HIDE DEF getters
<1>2. \A i \in DOMAIN getters : getters[i] \in Getter
  BY <1>1, Elements
<1>3. lists \in [DOMAIN getters -> Seq(Getter)]
  BY <1>2, ExpandCases
<1>4. lists \in Seq(Seq(Getter)) /\ DOMAIN lists = DOMAIN getters
  BY <1>1, <1>3, MapType
<1>5. \A k \in DOMAIN getters : lists[k] = Expand(getters[k])
  OBVIOUS
<1>6. Reads(request) = Distinct(FlattenSeq(lists))
  BY DEF Reads, Readable, getters
<1> HIDE DEF lists
<1> DEFINE flat == FlattenSeq(lists)
<1>7. flat \in Seq(Getter)
  BY <1>4, FlattenHolds
<1>8. \A x : x \in Holds(flat) <=> \E k \in DOMAIN lists : x \in Holds(lists[k])
  BY <1>4, FlattenHolds
<1> HIDE DEF flat
<1>9. /\ Distinct(flat) \in Seq(Getter) /\ Holds(Distinct(flat)) \subseteq Holds(flat)
      /\ \A y \in Holds(flat) : \E x \in Holds(Distinct(flat)) : x.path = y.path
  BY <1>7, DistinctHolds
<1>10. Reads(request) = Distinct(flat)
  BY <1>6 DEF flat
<1> QED
  BY <1>1, <1>4, <1>5, <1>8, <1>9, <1>10 DEF getters

\* Reads have an item each.
LEMMA ReadItemsType ==
    ASSUME NEW request \in AllRequests
    PROVE  ReadItems(request) \in Seq(Item) /\ Len(ReadItems(request)) = Len(Reads(request))
<1> DEFINE reads == Reads(request)
           all_items == [i \in DOMAIN reads |->
                        [fragment |-> PathLen[reads[i].path], response |-> ExpectedBytes(reads[i])]]
<1>1. reads \in Seq(Getter)
  BY ReadsType
<1>2. ReadItems(request) = all_items
  BY DEF ReadItems
<1> HIDE DEF reads
<1>3. \A i \in DOMAIN reads : reads[i] \in Getter
  BY <1>1, Elements
<1>4. all_items \in [DOMAIN reads -> Item]
  <2>1. \A i \in DOMAIN reads : PathLen[reads[i].path] \in Nat /\ ExpectedBytes(reads[i]) \in Nat
    BY <1>3, ExpectedBytesType, ControllerAssumption DEF Getter
  <2> QED
    BY <2>1 DEF Item
<1> HIDE DEF all_items
<1>5. all_items \in Seq(Item) /\ Len(all_items) = Len(reads)
  BY <1>1, <1>4, MapType
<1> QED
  BY <1>2, <1>5 DEF reads

\* A chunk picks elements of its list.
LEMMA PickType ==
    ASSUME NEW S, NEW list \in Seq(S), NEW chunk \in Seq(1 .. Len(list))
    PROVE  /\ Pick(list, chunk) \in Seq(S) /\ DOMAIN Pick(list, chunk) = DOMAIN chunk
           /\ Len(Pick(list, chunk)) = Len(chunk)
           /\ \A k \in DOMAIN chunk : Pick(list, chunk)[k] = list[chunk[k]]
                                      /\ chunk[k] \in DOMAIN list
<1>1. \A k \in DOMAIN chunk : chunk[k] \in 1 .. Len(list)
  BY Elements
<1>2. DOMAIN list = 1 .. Len(list) /\ \A i \in DOMAIN list : list[i] \in S
  BY Elements
<1>3. Pick(list, chunk) \in [DOMAIN chunk -> S]
  BY <1>1, <1>2 DEF Pick
<1>4. \A k \in DOMAIN chunk : Pick(list, chunk)[k] = list[chunk[k]]
  BY DEF Pick
<1>5. /\ Pick(list, chunk) \in Seq(S) /\ DOMAIN Pick(list, chunk) = DOMAIN chunk
      /\ Len(Pick(list, chunk)) = Len(chunk)
  BY <1>3, MapType
<1> QED
  BY <1>1, <1>2, <1>4, <1>5

\* The variables a path is answered with.
LEMMA AnsweredVariables ==
    ASSUME NEW path \in Paths
    PROVE  LET variables == IF path \in Structures THEN Answered[path] ELSE <<path>>
           IN  variables \in Seq(Variables) /\ Holds(variables) = VariablesOf(path)
<1>1. CASE path \in Structures
  BY <1>1, AnsweredAssumption DEF VariablesOf, Holds, ToSet
<1>2. CASE path \notin Structures
  <2>1. path \in Variables
    BY <1>2 DEF Paths
  <2>2. Holds(<<path>>) = {path} /\ <<path>> \in Seq(Variables)
    BY <2>1 DEF Holds
  <2> QED
    BY <1>2, <2>2 DEF VariablesOf
<1> QED
  BY <1>1, <1>2

\* The lines of a path: one per variable of it, with the value the variable has.
LEMMA LinesType ==
    ASSUME NEW path \in Paths, NEW values \in [Variables -> Values]
    PROVE  /\ Lines(path, values) \in Seq(Line)
           /\ \A line \in Holds(Lines(path, values)) : line.value = values[line.path]
           /\ \A v \in VariablesOf(path) :
                 \E line \in Holds(Lines(path, values)) : line.path = v
<1> DEFINE variables == IF path \in Structures THEN Answered[path] ELSE <<path>>
           lines == [i \in DOMAIN variables |->
                        [path |-> variables[i], value |-> values[variables[i]]]]
<1>1. variables \in Seq(Variables) /\ Holds(variables) = VariablesOf(path)
  BY AnsweredVariables
<1>2. Lines(path, values) = lines
  BY DEF Lines
<1> HIDE DEF variables
<1>3. \A i \in DOMAIN variables : variables[i] \in Variables
  BY <1>1, Elements
<1>4. lines \in [DOMAIN variables -> Line]
  BY <1>3 DEF Line
<1>5. lines \in Seq(Line) /\ DOMAIN lines = DOMAIN variables
  BY <1>1, <1>4, MapType
<1>6. \A i \in DOMAIN variables :
         lines[i].path = variables[i] /\ lines[i].value = values[variables[i]]
  OBVIOUS
<1> HIDE DEF lines
<1>7. \A line \in Holds(lines) : line.value = values[line.path]
  BY <1>5, <1>6 DEF Holds
<1>8. \A v \in Holds(variables) : \E line \in Holds(lines) : line.path = v
  BY <1>5, <1>6 DEF Holds
<1> QED
  BY <1>1, <1>2, <1>5, <1>7, <1>8

\* What is left of a reply when it is cut off is a part of it.
LEMMA CutOffType ==
    ASSUME NEW lines \in Seq(Line)
    PROVE  /\ CutOff(lines) \in Seq(Line)
           /\ Holds(CutOff(lines)) \subseteq Holds(lines)
           /\ Total([i \in DOMAIN lines |-> LineBytes(lines[i])]) <= DeviceResponse
                 => CutOff(lines) = lines
<1> DEFINE bytes == [i \in DOMAIN lines |-> LineBytes(lines[i])]
           Fits(n) == Total(SubSeq(bytes, 1, n)) <= DeviceResponse
           fitting == {n \in 0 .. Len(lines) : Fits(n)}
<1>1. PICK size \in Nat : size = Len(lines) /\ DOMAIN lines = 1 .. size
  BY Elements
<1>2. \A i \in 1 .. size : lines[i] \in Line
  BY <1>1, Elements
<1>3. bytes \in Seq(Nat) /\ Len(bytes) = size
  <2>1. ASSUME NEW i \in 1 .. size
        PROVE  LineBytes(lines[i]) \in Nat
    <3> DEFINE len == PathLen[lines[i].path]
               value_len == ValueLen[lines[i].value]
    <3>1. lines[i].path \in Paths /\ lines[i].value \in Values
      BY <1>2 DEF Line, Paths
    <3>2. len \in Nat /\ value_len \in Nat
      BY <3>1, ControllerAssumption
    <3>3. LineBytes(lines[i]) = len + value_len + 2
      BY DEF LineBytes
    <3> HIDE DEF len, value_len
    <3> QED
      BY <3>2, <3>3
  <2>2. bytes \in [1 .. size -> Nat]
    BY <1>1, <2>1
  <2> HIDE DEF bytes
  <2> QED
    BY <2>2, LenOf
<1>4. CutOff(lines) = SubSeq(lines, 1, Max(fitting))
  BY DEF CutOff
<1> HIDE DEF bytes
<1>5. Fits(0)
  <2>1. SubSeq(bytes, 1, 0) = <<>>
    BY <1>3, SubSeqEmpty
  <2>2. Total(SubSeq(bytes, 1, 0)) = 0
    BY <2>1, TotalEmpty
  <2>3. DeviceResponse \in Nat
    BY MarginAssumption
  <2> QED
    BY <2>2, <2>3
<1>6. fitting \in SUBSET (0 .. size) /\ fitting # {}
  <2>1. 0 \in 0 .. Len(lines)
    BY <1>1
  <2> QED
    BY <1>1, <1>5, <2>1
<1> HIDE DEF fitting
<1>7. Max(fitting) \in 0 .. size /\ \A n \in fitting : n <= Max(fitting)
  BY <1>6, LastPosition
<1> DEFINE last == Max(fitting)
           short == SubSeq(lines, 1, last)
<1>8. last \in 0 .. size
  BY <1>7
<1> HIDE DEF last
<1>9. /\ short \in Seq(Line) /\ Len(short) = last
      /\ \A i \in 1 .. last : short[i] = lines[i]
  <2>1. \A i \in 1 .. last : lines[i] \in Line
    BY <1>2, <1>8
  <2>2. 1 \in Int /\ last \in Int
    BY <1>8
  <2>3. /\ short \in Seq(Line)
        /\ Len(short) = IF 1 <= last THEN last - 1 + 1 ELSE 0
        /\ \A i \in 1 .. last - 1 + 1 : short[i] = lines[1 + i - 1]
    BY <2>1, <2>2, SubSeqProperties
  <2>4. last - 1 + 1 = last /\ \A i \in 1 .. last : 1 + i - 1 = i
    BY <1>8
  <2>5. Len(short) = last
    BY <1>8, <2>3, <2>4
  <2> HIDE DEF short
  <2> QED
    BY <2>3, <2>4, <2>5
<1>10. DOMAIN short = 1 .. last
  BY <1>9, Elements
<1>11. Holds(short) \subseteq Holds(lines)
  <2>1. \A i \in 1 .. last : i \in 1 .. size
    BY <1>8
  <2> HIDE DEF short
  <2> QED
    BY <1>1, <1>9, <1>10, <2>1 DEF Holds
<1>12. ASSUME Total(bytes) <= DeviceResponse
       PROVE  short = lines
  <2>1. SubSeq(bytes, 1, size) = bytes
    BY <1>3, SubSeqFull
  <2>2. size \in fitting
    <3>1. Fits(size)
      BY <1>12, <2>1
    <3>2. size \in 0 .. Len(lines)
      BY <1>1
    <3> HIDE DEF Fits
    <3> QED
      BY <3>1, <3>2 DEF fitting
  <2>3. last = size
    BY <1>7, <1>8, <2>2 DEF last
  <2> QED
    BY <1>1, <2>3, SubSeqFull
<1> QED
  BY <1>4, <1>9, <1>11, <1>12 DEF last, bytes

\* The last place a list has for a variable.
LEMMA LastAt ==
    ASSUME NEW S, NEW list \in Seq(S), NEW v, At(list, v) # {}
    PROVE  /\ Max(At(list, v)) \in DOMAIN list /\ list[Max(At(list, v))].path = v
           /\ \A j \in DOMAIN list : list[j].path = v => j <= Max(At(list, v))
<1>1. PICK size \in Nat : size = Len(list) /\ DOMAIN list = 1 .. size
  BY Elements
<1>2. At(list, v) \in SUBSET (0 .. size)
  <2>1. \A i \in 1 .. size : i \in 0 .. size
    OBVIOUS
  <2> QED
    BY <1>1, <2>1 DEF At
<1>3. Max(At(list, v)) \in At(list, v) /\ \A j \in At(list, v) : j <= Max(At(list, v))
  BY <1>2, LastPosition
<1> QED
  BY <1>3 DEF At

\* The answer has what it had and what the lines are for.
LEMMA MergeDomain ==
    ASSUME NEW dict, NEW lines
    PROVE  DOMAIN Merge(dict, lines) = DOMAIN dict \cup {line.path : line \in Holds(lines)}
<1>1. Holds(lines) = ToSet(lines)
  BY DEF Holds, ToSet
<1> QED
  BY <1>1 DEF Merge

\* A variable of the answer is of the last line for it, or was there before.
LEMMA MergeValue ==
    ASSUME NEW dict, NEW lines \in Seq(Line), NEW v \in DOMAIN Merge(dict, lines)
    PROVE  IF At(lines, v) = {}
           THEN v \in DOMAIN dict /\ Merge(dict, lines)[v] = dict[v]
           ELSE \E i \in DOMAIN lines :
                   /\ lines[i].path = v /\ Merge(dict, lines)[v] = lines[i].value
                   /\ \A j \in DOMAIN lines : lines[j].path = v => j <= i
<1>1. Holds(lines) = ToSet(lines)
  BY DEF Holds, ToSet
<1>2. v \in DOMAIN dict \cup {line.path : line \in Holds(lines)}
  BY MergeDomain
<1>3. CASE At(lines, v) = {}
  <2>1. v \notin {line.path : line \in Holds(lines)}
    BY <1>3 DEF Holds, At
  <2>2. v \in DOMAIN dict
    BY <1>2, <2>1
  <2> QED
    BY <1>1, <1>2, <1>3, <2>2 DEF Merge
<1>4. CASE At(lines, v) # {}
  <2>1. /\ Max(At(lines, v)) \in DOMAIN lines /\ lines[Max(At(lines, v))].path = v
        /\ \A j \in DOMAIN lines : lines[j].path = v => j <= Max(At(lines, v))
    BY <1>4, LastAt
  <2>2. Merge(dict, lines)[v] = lines[Max(At(lines, v))].value
    BY <1>1, <1>2, <1>4 DEF Merge
  <2> QED
    BY <1>4, <2>1, <2>2
<1> QED
  BY <1>3, <1>4

\* What is written are values.
LEMMA WrittenType ==
    ASSUME NEW values \in [Variables -> Values], NEW setters \in Seq(Setter)
    PROVE  Written(values, setters) \in [Variables -> Values]
<1>1. ASSUME NEW v \in Variables, At(setters, v) # {}
      PROVE  setters[Max(At(setters, v))].value \in Values
  <2>1. Max(At(setters, v)) \in DOMAIN setters
    BY <1>1, LastAt
  <2>2. setters[Max(At(setters, v))] \in Setter
    BY <2>1, Elements
  <2> QED
    BY <2>2 DEF Setter
<1> QED
  BY <1>1 DEF Written

-----------------------------------------------------------------------------
(***************************************************************************)
(* Types.  The chunks of a queue and of a message are positions in the list *)
(* they are to be taken from.                                              *)
(***************************************************************************)
\* What the requests of a loop are made of, and such requests.
ListOf(request, ph) == IF ph = "reading" THEN Plan[request].reads ELSE request.setters

ChunksOf(request, ph) == Seq(1 .. Len(ListOf(request, ph)))

\* What a plan consists of.
LEMMA PlanType ==
    ASSUME NEW request \in AllRequests
    PROVE  /\ Plan[request].reads = Reads(request)
           /\ Plan[request].reads \in Seq(Getter) /\ request.setters \in Seq(Setter)
           /\ ~Plan[request].reads_too_long =>
                 Plan[request].read_chunks \in Seq(ChunksOf(request, "reading"))
           /\ ~Plan[request].writes_too_long =>
                 Plan[request].write_chunks \in Seq(ChunksOf(request, "writing"))
<1>1. /\ Plan[request].reads = Reads(request)
      /\ Plan[request].read_chunks = Pack(ReadItems(request))
      /\ Plan[request].write_chunks = Pack(WriteItems(request))
      /\ Plan[request].reads_too_long = TooLong(ReadItems(request))
      /\ Plan[request].writes_too_long = TooLong(WriteItems(request))
  BY DEF Plan
<1>2. Plan[request].reads \in Seq(Getter) /\ request.setters \in Seq(Setter)
  BY <1>1, ReadsType, ControllerAssumption DEF AllRequests, RequestSet
<1>3. ASSUME ~Plan[request].reads_too_long
      PROVE  Plan[request].read_chunks \in Seq(ChunksOf(request, "reading"))
  <2>1. ReadItems(request) \in Seq(Item) /\ Len(ReadItems(request)) = Len(Reads(request))
    BY ReadItemsType
  <2>2. Pack(ReadItems(request)) \in Seq(Seq(1 .. Len(ReadItems(request))))
    BY <1>1, <1>3, <2>1, PackContract
  <2> QED
    BY <1>1, <2>1, <2>2 DEF ChunksOf, ListOf
<1>4. ASSUME ~Plan[request].writes_too_long
      PROVE  Plan[request].write_chunks \in Seq(ChunksOf(request, "writing"))
  <2>1. WriteItems(request) \in Seq(Item) /\ Len(WriteItems(request)) = Len(request.setters)
    BY WriteItemsType
  <2>2. Pack(WriteItems(request)) \in Seq(Seq(1 .. Len(WriteItems(request))))
    BY <1>1, <1>4, <2>1, PackContract
  <2> QED
    BY <1>1, <2>1, <2>2 DEF ChunksOf, ListOf
<1> QED
  BY <1>1, <1>2, <1>3, <1>4

\* Positions count from 1.
LEMMA ChunksAreChunks ==
    ASSUME NEW request, NEW ph
    PROVE  /\ \A chunk \in ChunksOf(request, ph) : chunk \in Chunk
           /\ \A chunks \in Seq(ChunksOf(request, ph)) : chunks \in Seq(Chunk)
<1> DEFINE n == Len(ListOf(request, ph))
<1>1. ASSUME NEW chunk \in Seq(1 .. n)
      PROVE  chunk \in Seq(Nat \ {0})
  <2>1. \A i \in 1 .. n : i \in Nat \ {0}
    OBVIOUS
  <2>2. 1 .. n \subseteq Nat \ {0}
    BY <2>1
  <2> HIDE DEF n
  <2> QED
    BY <2>2, SeqMonotonic
<1> HIDE DEF n
<1>2. Seq(1 .. n) \subseteq Seq(Nat \ {0})
  BY <1>1
<1>3. \A chunks \in Seq(Seq(1 .. n)) : chunks \in Seq(Seq(Nat \ {0}))
  BY <1>2, SeqMonotonic
<1> QED
  BY <1>1, <1>3 DEF ChunksOf, Chunk, n

\* TypeOK does not say whose positions the chunks hold, and so would not be kept: a
\* chunk of reads is one of positions in the reads, one of writes in the setters.
Typed ==
    /\ TypeOK
    /\ DOMAIN responses = Clients
    /\ \A c \in Clients : Len(calls[c]) <= MaxCalls[c]
    /\ \A c \in Clients :
          phase[c] # "idle" => queue[c] \in Seq(ChunksOf(LastCall(c).request, phase[c]))
    /\ \A m \in network : m.chunk \in ChunksOf(m.request, m.phase)

LEMMA InitTyped == Init => Typed
<1> SUFFICES ASSUME Init PROVE Typed
  OBVIOUS
<1>1. /\ store \in [Variables -> Values]
      /\ calls \in [Clients -> Seq([request : AllRequests, outcome : Outcomes])]
      /\ queue \in [Clients -> Seq(Chunk)]
      /\ reply \in [Clients -> Seq(Seq(Line))]
      /\ seen \in [Clients -> SUBSET [Variables -> Values]]
  BY ControllerAssumption DEF Init, NoReply
<1>2. /\ phase \in [Clients -> {"idle", "reading", "writing"}]
      /\ waiting \in [Clients -> BOOLEAN] /\ \A c \in Clients : waiting[c] = FALSE
      /\ DOMAIN responses = Clients /\ \A c \in Clients : DOMAIN responses[c] = {}
      /\ network = {} /\ \A c \in Clients : phase[c] = "idle"
      /\ log \in Seq([client : Clients, call : CallNumbers, index : Nat \ {0}])
  BY DEF Init
<1>3. \A c \in Clients : Len(calls[c]) <= MaxCalls[c]
  <2>1. \A c \in Clients : MaxCalls[c] \in Nat
    BY ControllerAssumption
  <2>2. \A c \in Clients : Len(calls[c]) = 0
    BY DEF Init
  <2> QED
    BY <2>1, <2>2
<1> QED
  BY <1>1, <1>2, <1>3 DEF TypeOK, Typed

\* What TypeOK says of the state of a step, by Inv and by the step.
LEMMA TypedAfter ==
    ASSUME Inv', store' \in [Variables -> Values],
           DOMAIN calls' = Clients /\ calls' = [c \in Clients |-> calls'[c]],
           DOMAIN phase' = Clients /\ phase' = [c \in Clients |-> phase'[c]],
           DOMAIN waiting' = Clients /\ waiting' = [c \in Clients |-> waiting'[c]],
           queue' \in [Clients -> Seq(Chunk)],
           reply' \in [Clients -> Seq(Seq(Line))],
           DOMAIN responses' = Clients,
           \A c \in Clients : \A v \in DOMAIN responses'[c] :
              v \in Variables /\ responses'[c][v] \in Values,
           \A m \in network' : m \in Messages,
           log' \in Seq([client : Clients, call : CallNumbers, index : Nat \ {0}]),
           seen' \in [Clients -> SUBSET [Variables -> Values]],
           \A c \in Clients : Len(calls'[c]) <= MaxCalls[c],
           \A c \in Clients :
              phase'[c] # "idle" => queue'[c] \in Seq(ChunksOf(LastCall(c)'.request, phase'[c])),
           \A m \in network' : m.chunk \in ChunksOf(m.request, m.phase)
    PROVE  Typed'
<1>1. ASSUME NEW c \in Clients
      PROVE  /\ calls'[c] \in Seq(CallRecord) /\ phase'[c] \in {"idle", "reading", "writing"}
             /\ waiting'[c] \in BOOLEAN /\ (waiting'[c] => queue'[c] # <<>>)
  BY DEF Inv, FineFor, Fine
<1>2. /\ calls' \in [Clients -> Seq([request : AllRequests, outcome : Outcomes])]
      /\ phase' \in [Clients -> {"idle", "reading", "writing"}]
      /\ waiting' \in [Clients -> BOOLEAN]
  <2>1. calls' \in [Clients -> Seq(CallRecord)]
    BY <1>1
  <2>2. phase' \in [Clients -> {"idle", "reading", "writing"}]
    BY <1>1
  <2>3. waiting' \in [Clients -> BOOLEAN]
    BY <1>1
  <2> QED
    BY <2>1, <2>2, <2>3 DEF CallRecord
<1>3. TypeOK'
  BY <1>1, <1>2 DEF TypeOK
<1>4. \A m : ChunksOf(m.request, m.phase)' = ChunksOf(m.request, m.phase)
  BY DEF ChunksOf, ListOf
<1>5. \A c \in Clients :
         phase'[c] # "idle" => queue'[c] \in Seq(ChunksOf(LastCall(c).request, phase[c]))'
  BY DEF ChunksOf, ListOf
<1> QED
  BY <1>3, <1>4, <1>5 DEF Typed

\* The call a caller is in.
LEMMA PresentCall ==
    ASSUME Inv, NEW c \in Clients, phase[c] # "idle"
    PROVE  /\ Len(calls[c]) \in Nat \ {0} /\ Len(calls[c]) \in DOMAIN calls[c]
           /\ LastCall(c) \in CallRecord /\ LastCall(c).request \in AllRequests
           /\ phase[c] \in {"reading", "writing"}
<1>1. calls[c] \in Seq(CallRecord) /\ calls[c] # <<>>
  BY OpenAlike DEF IsOpen
<1>2. Len(calls[c]) \in Nat /\ Len(calls[c]) # 0
  BY <1>1, LenProperties, EmptySeq
<1>3. Len(calls[c]) \in DOMAIN calls[c] /\ LastCall(c) \in CallRecord
  BY <1>1, <1>2, Elements DEF LastCall
<1>4. phase[c] \in {"idle", "reading", "writing"}
  BY DEF Inv, FineFor, Fine
<1> QED
  BY <1>2, <1>3, <1>4 DEF CallRecord

\* The types after a call began or was turned down.
LEMMA BeginTyped ==
    ASSUME Inv, Inv', Typed, NEW c \in Clients, NEW r \in Requests[c],
           Begin(c, r) \/ BeginInvalid(c, r) \/ BeginTooLong(c, r)
    PROVE  Typed'
<1>1. PICK outcome \in Outcomes : Opened(c, r, outcome)
  BY DEF Begin, BeginInvalid, BeginTooLong, Outcomes
<1> DEFINE call == [request |-> r, outcome |-> outcome]
<1>2. /\ Len(calls[c]) < MaxCalls[c]
      /\ calls' = [calls EXCEPT ![c] = Append(calls[c], call)]
      /\ responses' = [responses EXCEPT ![c] = <<>>]
      /\ seen' = [seen EXCEPT ![c] = {store}]
      /\ UNCHANGED <<store, waiting, reply, network, log>>
  BY <1>1 DEF Opened
<1>3. r \in AllRequests
  BY DEF AllRequests
<1>4. \/ UNCHANGED <<phase, queue>>
      \/ /\ ~Plan[r].reads_too_long
         /\ phase' = [phase EXCEPT ![c] = "reading"]
         /\ queue' = [queue EXCEPT ![c] = Plan[r].read_chunks]
  BY DEF Begin, BeginInvalid, BeginTooLong
<1>5. phase[c] = "idle"
  BY <1>1 DEF Opened
<1>6. LastCall(c)'.request = r
  BY <1>1, OneMoreCall DEF RequestOf, LastCall
<1>7. calls[c] \in Seq(CallRecord) /\ call \in CallRecord
  BY <1>3, OpenAlike DEF CallRecord
<1> HIDE DEF call
<1>8. Len(calls'[c]) = Len(calls[c]) + 1
  <2>1. calls'[c] = Append(calls[c], call)
    BY <1>2 DEF Inv, PerClient
  <2> QED
    BY <1>7, <2>1, AppendProperties
<1>9. \A d \in Clients : Len(calls'[d]) <= MaxCalls[d]
  <2>1. Len(calls[c]) \in Nat /\ MaxCalls[c] \in Nat
    BY <1>7, LenProperties, ControllerAssumption
  <2>2. Len(calls'[c]) <= MaxCalls[c]
    BY <1>2, <1>8, <2>1
  <2>3. \A d \in Clients : d # c => calls'[d] = calls[d]
    BY <1>2 DEF Inv, PerClient
  <2> QED
    BY <2>2, <2>3 DEF Typed
<1>10. queue' \in [Clients -> Seq(Chunk)]
  <2>1. ~Plan[r].reads_too_long => Plan[r].read_chunks \in Seq(Chunk)
    BY <1>3, PlanType, ChunksAreChunks
  <2> QED
    BY <1>4, <2>1 DEF Typed, TypeOK
<1>11. ASSUME NEW d \in Clients, phase'[d] # "idle"
       PROVE  queue'[d] \in Seq(ChunksOf(LastCall(d)'.request, phase'[d]))
  <2>1. CASE d = c
    <3>1. /\ ~Plan[r].reads_too_long /\ phase'[c] = "reading"
          /\ queue'[c] = Plan[r].read_chunks
      BY <1>4, <1>5, <1>11, <2>1 DEF Typed, TypeOK
    <3> QED
      BY <1>3, <1>6, <2>1, <3>1, PlanType
  <2>2. CASE d # c
    <3>1. calls'[d] = calls[d] /\ phase'[d] = phase[d] /\ queue'[d] = queue[d]
      BY <1>2, <1>4, <2>2 DEF Typed, TypeOK
    <3>2. LastCall(d)' = LastCall(d)
      BY <3>1 DEF LastCall
    <3> QED
      BY <1>11, <3>1, <3>2 DEF Typed
  <2> QED
    BY <2>1, <2>2
<1>12. /\ DOMAIN calls' = Clients /\ calls' = [d \in Clients |-> calls'[d]]
       /\ DOMAIN phase' = Clients /\ phase' = [d \in Clients |-> phase'[d]]
       /\ DOMAIN waiting' = Clients /\ waiting' = [d \in Clients |-> waiting'[d]]
  BY <1>2, <1>4 DEF Typed, TypeOK
<1>13. /\ DOMAIN responses' = Clients
       /\ \A d \in Clients : \A v \in DOMAIN responses'[d] :
             v \in Variables /\ responses'[d][v] \in Values
  BY <1>2 DEF Typed, TypeOK
<1>14. /\ store' \in [Variables -> Values] /\ reply' \in [Clients -> Seq(Seq(Line))]
       /\ \A m \in network' : m \in Messages
       /\ log' \in Seq([client : Clients, call : CallNumbers, index : Nat \ {0}])
       /\ seen' \in [Clients -> SUBSET [Variables -> Values]]
       /\ \A m \in network' : m.chunk \in ChunksOf(m.request, m.phase)
  BY <1>2 DEF Typed, TypeOK
<1> QED
  BY <1>9, <1>10, <1>11, <1>12, <1>13, <1>14, TypedAfter

\* Of the end of a call, ...
LEMMA EndedTyped ==
    ASSUME Inv, Inv', Typed, NEW c \in Clients, NEW outcome, Ended(c, outcome),
           UNCHANGED <<store, responses, network, log, seen>>,
           waiting' = waiting \/ waiting' = [waiting EXCEPT ![c] = FALSE],
           reply' = reply \/ reply' = [reply EXCEPT ![c] = NoReply]
    PROVE  Typed'
<1>1. /\ calls' = [calls EXCEPT ![c][Len(calls[c])].outcome = outcome]
      /\ phase' = [phase EXCEPT ![c] = "idle"] /\ queue' = [queue EXCEPT ![c] = <<>>]
  BY DEF Ended
<1>2. ASSUME NEW d \in Clients, d # c
      PROVE  /\ calls'[d] = calls[d] /\ phase'[d] = phase[d] /\ queue'[d] = queue[d]
             /\ LastCall(d)' = LastCall(d)
  <2>1. calls'[d] = calls[d] /\ phase'[d] = phase[d] /\ queue'[d] = queue[d]
    BY <1>1, <1>2 DEF Typed, TypeOK
  <2> QED
    BY <2>1 DEF LastCall
<1>3. phase'[c] = "idle"
  BY <1>1 DEF Typed, TypeOK
<1>4. Len(calls'[c]) = Len(calls[c])
  <2>1. calls'[c] = [calls[c] EXCEPT ![Len(calls[c])].outcome = outcome]
    BY <1>1 DEF Typed, TypeOK
  <2>2. calls[c] \in Seq(CallRecord)
    BY OpenAlike
  <2> QED
    BY <2>1, <2>2
<1>5. \A d \in Clients : Len(calls'[d]) <= MaxCalls[d]
  BY <1>2, <1>4 DEF Typed
<1>6. /\ queue' \in [Clients -> Seq(Chunk)] /\ reply' \in [Clients -> Seq(Seq(Line))]
  <2>1. reply \in [Clients -> Seq(Seq(Line))] /\ queue \in [Clients -> Seq(Chunk)]
    BY DEF Typed, TypeOK
  <2>2. NoReply \in Seq(Seq(Line)) /\ <<>> \in Seq(Chunk)
    BY DEF NoReply
  <2> QED
    BY <1>1, <2>1, <2>2
<1>7. \A d \in Clients :
         phase'[d] # "idle" => queue'[d] \in Seq(ChunksOf(LastCall(d)'.request, phase'[d]))
  BY <1>2, <1>3 DEF Typed
<1>8. /\ DOMAIN calls' = Clients /\ calls' = [d \in Clients |-> calls'[d]]
      /\ DOMAIN phase' = Clients /\ phase' = [d \in Clients |-> phase'[d]]
      /\ DOMAIN waiting' = Clients /\ waiting' = [d \in Clients |-> waiting'[d]]
  BY <1>1 DEF Typed, TypeOK
<1>9. /\ store' \in [Variables -> Values] /\ DOMAIN responses' = Clients
      /\ \A d \in Clients : \A v \in DOMAIN responses'[d] :
            v \in Variables /\ responses'[d][v] \in Values
      /\ \A m \in network' : m \in Messages
      /\ log' \in Seq([client : Clients, call : CallNumbers, index : Nat \ {0}])
      /\ seen' \in [Clients -> SUBSET [Variables -> Values]]
      /\ \A m \in network' : m.chunk \in ChunksOf(m.request, m.phase)
  BY DEF Typed, TypeOK
<1> QED
  BY <1>5, <1>6, <1>7, <1>8, <1>9, TypedAfter

\* The same of the steps within a call, ...
LEMMA LoopTyped ==
    ASSUME Inv, Inv', Typed, NEW c \in Clients, Send(c) \/ Receive(c) \/ StartWrites(c)
    PROVE  Typed'
<1> DEFINE request == LastCall(c).request
<1>1. phase[c] # "idle"
  BY DEF Send, Receive, StartWrites, Inv, FineFor, Fine
<1>2. /\ Len(calls[c]) \in Nat \ {0} /\ request \in AllRequests
      /\ phase[c] \in {"reading", "writing"}
  BY <1>1, PresentCall
<1>3. queue[c] \in Seq(ChunksOf(request, phase[c]))
  BY <1>1 DEF Typed
<1>4. UNCHANGED <<store, calls, log, seen>>
  BY DEF Send, Receive, StartWrites
<1>5. \A d : LastCall(d)' = LastCall(d)
  BY <1>4 DEF LastCall
<1>6. /\ store' \in [Variables -> Values]
      /\ DOMAIN calls' = Clients /\ calls' = [d \in Clients |-> calls'[d]]
      /\ \A d \in Clients : Len(calls'[d]) <= MaxCalls[d]
      /\ log' \in Seq([client : Clients, call : CallNumbers, index : Nat \ {0}])
      /\ seen' \in [Clients -> SUBSET [Variables -> Values]]
  BY <1>4 DEF Typed, TypeOK
<1>7. \A d \in Clients :
         phase[d] # "idle" => queue[d] \in Seq(ChunksOf(LastCall(d)'.request, phase[d]))
  BY <1>5 DEF Typed
<1>8. /\ DOMAIN phase' = Clients /\ phase' = [d \in Clients |-> phase'[d]]
      /\ DOMAIN waiting' = Clients /\ waiting' = [d \in Clients |-> waiting'[d]]
  BY DEF Send, Receive, StartWrites, Typed, TypeOK
<1>9. CASE Send(c)
  <2> DEFINE m == Message(c)
  <2>1. /\ network' = network \cup {m} /\ UNCHANGED <<phase, queue, reply, responses>>
        /\ queue[c] # <<>>
    BY <1>9 DEF Send
  <2>2. /\ m.client = c /\ m.call = Len(calls[c]) /\ m.phase = phase[c]
        /\ m.request = request /\ m.chunk = Head(queue[c])
        /\ m = [client |-> c, call |-> Len(calls[c]), phase |-> phase[c],
                request |-> request, chunk |-> Head(queue[c])]
    BY DEF Message, LastCall
  <2>3. Head(queue[c]) \in ChunksOf(request, phase[c])
    BY <1>3, <2>1, HeadTailProperties
  <2>4. m.chunk \in ChunksOf(m.request, m.phase)
    BY <2>2, <2>3
  <2>5. m \in Messages
    <3>1. Head(queue[c]) \in Chunk
      BY <2>3, ChunksAreChunks
    <3>2. Len(calls[c]) \in CallNumbers
      <4>1. Len(calls[c]) <= MaxCalls[c] /\ MaxCalls[c] \in Nat
        BY ControllerAssumption DEF Typed
      <4>2. Len(calls[c]) \in 1 .. MaxCalls[c]
        BY <1>2, <4>1
      <4> QED
        BY <4>2 DEF CallNumbers
    <3> QED
      BY <1>2, <2>2, <3>1, <3>2 DEF Messages
  <2> HIDE DEF m
  <2>6. /\ queue' \in [Clients -> Seq(Chunk)] /\ reply' \in [Clients -> Seq(Seq(Line))]
        /\ DOMAIN responses' = Clients
        /\ \A d \in Clients : \A v \in DOMAIN responses'[d] :
              v \in Variables /\ responses'[d][v] \in Values
        /\ \A w \in network' : w \in Messages
        /\ \A w \in network' : w.chunk \in ChunksOf(w.request, w.phase)
    BY <2>1, <2>4, <2>5 DEF Typed, TypeOK
  <2>7. \A d \in Clients :
           phase'[d] # "idle" => queue'[d] \in Seq(ChunksOf(LastCall(d)'.request, phase'[d]))
    BY <1>7, <2>1
  <2> QED
    BY <1>6, <1>8, <2>6, <2>7, TypedAfter
<1>10. CASE StartWrites(c)
  <2>1. /\ UNCHANGED <<reply, responses, network>> /\ ~Plan[request].writes_too_long
        /\ queue' = [queue EXCEPT ![c] = Plan[request].write_chunks]
        /\ phase' = [phase EXCEPT ![c] = "writing"]
    BY <1>10 DEF StartWrites, LastCall
  <2>2. /\ Plan[request].write_chunks \in Seq(ChunksOf(request, "writing"))
        /\ Plan[request].write_chunks \in Seq(Chunk)
    BY <1>2, <2>1, PlanType, ChunksAreChunks
  <2> HIDE DEF request
  <2>3. /\ queue' \in [Clients -> Seq(Chunk)] /\ reply' \in [Clients -> Seq(Seq(Line))]
        /\ DOMAIN responses' = Clients
        /\ \A d \in Clients : \A v \in DOMAIN responses'[d] :
              v \in Variables /\ responses'[d][v] \in Values
        /\ \A w \in network' : w \in Messages
        /\ \A w \in network' : w.chunk \in ChunksOf(w.request, w.phase)
    BY <2>1, <2>2 DEF Typed, TypeOK
  <2>4. ASSUME NEW d \in Clients, phase'[d] # "idle"
        PROVE  queue'[d] \in Seq(ChunksOf(LastCall(d)'.request, phase'[d]))
    <3>1. CASE d = c
      <4>1. queue'[c] = Plan[request].write_chunks /\ phase'[c] = "writing"
        BY <2>1 DEF Typed, TypeOK
      <4>2. LastCall(c)'.request = request
        BY <1>5 DEF request
      <4> QED
        BY <2>2, <3>1, <4>1, <4>2
    <3>2. CASE d # c
      <4>1. queue'[d] = queue[d] /\ phase'[d] = phase[d]
        BY <2>1, <3>2 DEF Typed, TypeOK
      <4> QED
        BY <1>7, <2>4, <4>1
    <3> QED
      BY <3>1, <3>2
  <2> QED
    BY <1>6, <1>8, <2>3, <2>4, TypedAfter
<1>11. CASE Receive(c)
  <2> DEFINE lines == reply[c][1]
             dict == responses[c]
  <2>1. /\ UNCHANGED <<phase, network>> /\ reply[c] # NoReply /\ waiting[c]
        /\ responses' = [responses EXCEPT ![c] = Merge(dict, lines)]
        /\ queue' = [queue EXCEPT ![c] = Tail(queue[c])]
        /\ reply' = [reply EXCEPT ![c] = NoReply]
    BY <1>11 DEF Receive
  <2>2. lines \in Seq(Line)
    <3>1. reply[c] \in Seq(Seq(Line)) /\ reply[c] # <<>>
      BY <2>1 DEF Typed, TypeOK, NoReply
    <3>2. Len(reply[c]) \in Nat /\ Len(reply[c]) # 0
      BY <3>1, LenProperties, EmptySeq
    <3>3. 1 \in 1 .. Len(reply[c])
      BY <3>2
    <3> QED
      BY <3>1, <3>3, ElementOfSeq
  <2>3. \A v \in DOMAIN dict : v \in Variables /\ dict[v] \in Values
    BY DEF Typed, TypeOK
  <2> HIDE DEF lines, dict
  <2>4. ASSUME NEW v \in DOMAIN Merge(dict, lines)
        PROVE  v \in Variables /\ Merge(dict, lines)[v] \in Values
    <3>1. \/ v \in DOMAIN dict /\ Merge(dict, lines)[v] = dict[v]
          \/ \E i \in DOMAIN lines :
                lines[i].path = v /\ Merge(dict, lines)[v] = lines[i].value
      BY <2>2, MergeValue
    <3>2. \A i \in DOMAIN lines : lines[i].path \in Variables /\ lines[i].value \in Values
      <4>1. \A i \in DOMAIN lines : lines[i] \in Line
        BY <2>2, Elements
      <4> QED
        BY <4>1 DEF Line
    <3> QED
      BY <2>3, <3>1, <3>2
  <2>5. Tail(queue[c]) \in Seq(ChunksOf(request, phase[c])) /\ Tail(queue[c]) \in Seq(Chunk)
    <3>1. queue[c] # <<>>
      BY <2>1 DEF Typed, TypeOK
    <3>2. Tail(queue[c]) \in Seq(ChunksOf(request, phase[c]))
      BY <1>3, <3>1, HeadTailProperties
    <3> QED
      BY <3>2, ChunksAreChunks
  <2>6. /\ queue' \in [Clients -> Seq(Chunk)] /\ reply' \in [Clients -> Seq(Seq(Line))]
        /\ DOMAIN responses' = Clients
        /\ \A w \in network' : w \in Messages
        /\ \A w \in network' : w.chunk \in ChunksOf(w.request, w.phase)
    BY <2>1, <2>5 DEF Typed, TypeOK, NoReply
  <2>7. ASSUME NEW d \in Clients, NEW v \in DOMAIN responses'[d]
        PROVE  v \in Variables /\ responses'[d][v] \in Values
    <3>1. CASE d = c
      <4>1. responses'[c] = Merge(dict, lines)
        BY <2>1 DEF Typed
      <4> QED
        BY <2>4, <2>7, <3>1, <4>1
    <3>2. CASE d # c
      <4>1. responses'[d] = responses[d]
        BY <2>1, <3>2 DEF Typed
      <4> QED
        BY <2>7, <4>1 DEF Typed, TypeOK
    <3> QED
      BY <3>1, <3>2
  <2>8. ASSUME NEW d \in Clients, phase'[d] # "idle"
        PROVE  queue'[d] \in Seq(ChunksOf(LastCall(d)'.request, phase'[d]))
    <3>1. CASE d = c
      <4>1. queue'[c] = Tail(queue[c]) /\ phase'[c] = phase[c]
        BY <2>1 DEF Typed, TypeOK
      <4>2. LastCall(c)'.request = request
        BY <1>5
      <4> QED
        BY <2>5, <3>1, <4>1, <4>2
    <3>2. CASE d # c
      <4>1. queue'[d] = queue[d] /\ phase'[d] = phase[d]
        BY <2>1, <3>2 DEF Typed, TypeOK
      <4> QED
        BY <1>7, <2>8, <4>1
    <3> QED
      BY <3>1, <3>2
  <2> QED
    BY <1>6, <1>8, <2>6, <2>7, <2>8, TypedAfter
<1> QED
  BY <1>9, <1>10, <1>11

\* The lines a request is answered with: what the variables are, or what it writes.
LEMMA ReplyLinesType ==
    ASSUME Typed, NEW m \in network
    PROVE  /\ ReplyLines(m) \in Seq(Line)
           /\ m.phase = "reading" =>
                 \A line \in Holds(ReplyLines(m)) : line.value = store[line.path]
           /\ m.phase = "writing" =>
                 \A line \in Holds(ReplyLines(m)) : line \in Holds(m.request.setters)
<1>1. m \in Messages /\ m.chunk \in ChunksOf(m.request, m.phase)
  BY DEF Typed, TypeOK
<1>2. m.request \in AllRequests /\ m.phase \in {"reading", "writing"}
  BY <1>1 DEF Messages
<1>3. store \in [Variables -> Values]
  BY DEF Typed, TypeOK
<1>4. CASE m.phase = "reading"
  <2> DEFINE reads == Plan[m.request].reads
             picked == Pick(reads, m.chunk)
             lists == [k \in DOMAIN picked |-> Lines(picked[k].path, store)]
  <2>1. reads \in Seq(Getter) /\ m.chunk \in Seq(1 .. Len(reads))
    BY <1>1, <1>2, <1>4, PlanType DEF ChunksOf, ListOf
  <2> HIDE DEF reads
  <2>2. picked \in Seq(Getter)
    BY <2>1, PickType
  <2>3. ReplyLines(m) = FlattenSeq(lists)
    BY <1>4 DEF ReplyLines, reads
  <2> HIDE DEF picked
  <2>4. \A k \in DOMAIN picked : picked[k].path \in Paths
    <3>1. \A k \in DOMAIN picked : picked[k] \in Getter
      BY <2>2, Elements
    <3> QED
      BY <3>1 DEF Getter
  <2>5. lists \in [DOMAIN picked -> Seq(Line)]
    BY <1>3, <2>4, LinesType
  <2>6. lists \in Seq(Seq(Line)) /\ DOMAIN lists = DOMAIN picked
    BY <2>2, <2>5, MapType
  <2>7. \A k \in DOMAIN picked : \A line \in Holds(lists[k]) : line.value = store[line.path]
    BY <1>3, <2>4, LinesType
  <2> HIDE DEF lists
  <2>8. FlattenSeq(lists) \in Seq(Line)
    BY <2>6, FlattenHolds
  <2>9. \A x : x \in Holds(FlattenSeq(lists)) <=> \E k \in DOMAIN lists : x \in Holds(lists[k])
    BY <2>6, FlattenHolds
  <2> QED
    BY <1>4, <2>3, <2>6, <2>7, <2>8, <2>9
<1>5. CASE m.phase = "writing"
  <2> DEFINE setters == m.request.setters
  <2>1. setters \in Seq(Setter) /\ m.chunk \in Seq(1 .. Len(setters))
    BY <1>1, <1>2, <1>5, PlanType DEF ChunksOf, ListOf
  <2>2. ReplyLines(m) = Pick(setters, m.chunk)
    BY <1>5 DEF ReplyLines
  <2> HIDE DEF setters
  <2>3. /\ Pick(setters, m.chunk) \in Seq(Setter) /\ DOMAIN Pick(setters, m.chunk) = DOMAIN m.chunk
        /\ \A k \in DOMAIN m.chunk : Pick(setters, m.chunk)[k] = setters[m.chunk[k]]
                                     /\ m.chunk[k] \in DOMAIN setters
    BY <2>1, PickType
  <2>4. \A line \in Holds(Pick(setters, m.chunk)) : line \in Holds(setters)
    BY <2>3 DEF Holds
  <2>5. Setter = Line
    BY DEF Setter, Line
  <2> QED
    BY <1>5, <2>2, <2>3, <2>4, <2>5 DEF setters
<1> QED
  BY <1>2, <1>4, <1>5

\* ... and of what becomes of a request.
LEMMA DealtTyped ==
    ASSUME Inv, Inv', Typed, NEW m \in network, Serve(m) \/ Lose(m)
    PROVE  Typed'
<1> DEFINE LogEntry == [client : Clients, call : CallNumbers, index : Nat \ {0}]
<1>1. /\ network' = network \ {m}
      /\ UNCHANGED <<calls, phase, queue, waiting, responses>>
  BY DEF Serve, Lose, client
<1>2. /\ m \in Messages /\ m.chunk \in ChunksOf(m.request, m.phase) /\ m.chunk \in Chunk
      /\ store \in [Variables -> Values] /\ log \in Seq(LogEntry)
      /\ reply \in [Clients -> Seq(Seq(Line))] /\ seen \in [Clients -> SUBSET [Variables -> Values]]
  BY ChunksAreChunks DEF Typed, TypeOK
<1>3. m.client \in Clients /\ m.call \in CallNumbers /\ m.request \in AllRequests
  BY <1>2 DEF Messages
<1>4. store' \in [Variables -> Values]
  <2>1. CASE UNCHANGED store
    BY <1>2, <2>1
  <2>2. CASE Serve(m) /\ m.phase = "writing"
    <3>1. m.request.setters \in Seq(Setter) /\ m.chunk \in Seq(1 .. Len(m.request.setters))
      BY <1>2, <1>3, <2>2, PlanType DEF ChunksOf, ListOf
    <3>2. Pick(m.request.setters, m.chunk) \in Seq(Setter)
      BY <3>1, PickType
    <3>3. store' = Written(store, Pick(m.request.setters, m.chunk))
      BY <2>2 DEF Serve
    <3> QED
      BY <1>2, <3>2, <3>3, WrittenType
  <2> QED
    BY <2>1, <2>2 DEF Serve, Lose
<1>5. log' \in Seq(LogEntry)
  <2>1. CASE UNCHANGED log
    BY <1>2, <2>1
  <2>2. CASE Serve(m) /\ m.phase = "writing"
    <3> DEFINE effects == [k \in DOMAIN m.chunk |->
                             [client |-> m.client, call |-> m.call, index |-> m.chunk[k]]]
    <3>1. log' = log \o effects
      BY <2>2 DEF Serve
    <3>2. m.chunk \in Seq(Nat \ {0})
      BY <1>2 DEF Chunk
    <3>3. \A k \in DOMAIN m.chunk : m.chunk[k] \in Nat \ {0}
      BY <3>2, Elements
    <3>4. effects \in [DOMAIN m.chunk -> LogEntry]
      BY <1>3, <3>3
    <3> HIDE DEF effects, LogEntry
    <3>5. effects \in Seq(LogEntry)
      BY <3>2, <3>4, MapType
    <3> QED
      BY <1>2, <3>1, <3>5, ConcatProperties
  <2> QED
    BY <2>1, <2>2 DEF Serve, Lose
<1>6. reply' \in [Clients -> Seq(Seq(Line))]
  <2>1. CutOff(ReplyLines(m)) \in Seq(Line)
    BY ReplyLinesType, CutOffType
  <2>2. <<CutOff(ReplyLines(m))>> \in Seq(Seq(Line))
    BY <2>1
  <2>3. \/ reply' = reply
        \/ reply' = [reply EXCEPT ![m.client] = <<CutOff(ReplyLines(m))>>]
    BY DEF Serve, Lose
  <2> QED
    BY <1>2, <2>2, <2>3
<1>7. seen' \in [Clients -> SUBSET [Variables -> Values]]
  BY <1>2, <1>4 DEF Serve, Lose, Observe
<1>8. \A d : LastCall(d)' = LastCall(d)
  BY <1>1 DEF LastCall
<1>9. /\ DOMAIN calls' = Clients /\ calls' = [d \in Clients |-> calls'[d]]
      /\ DOMAIN phase' = Clients /\ phase' = [d \in Clients |-> phase'[d]]
      /\ DOMAIN waiting' = Clients /\ waiting' = [d \in Clients |-> waiting'[d]]
      /\ queue' \in [Clients -> Seq(Chunk)] /\ DOMAIN responses' = Clients
      /\ \A d \in Clients : \A v \in DOMAIN responses'[d] :
            v \in Variables /\ responses'[d][v] \in Values
      /\ \A d \in Clients : Len(calls'[d]) <= MaxCalls[d]
      /\ \A w \in network' : w \in Messages
      /\ \A w \in network' : w.chunk \in ChunksOf(w.request, w.phase)
  BY <1>1 DEF Typed, TypeOK
<1>10. \A d \in Clients :
          phase'[d] # "idle" => queue'[d] \in Seq(ChunksOf(LastCall(d)'.request, phase'[d]))
  BY <1>1, <1>8 DEF Typed
<1> QED
  BY <1>4, <1>5, <1>6, <1>7, <1>9, <1>10, TypedAfter

LEMMA NextTyped == Inv /\ Inv' /\ Typed /\ [Next]_vars => Typed'
<1> SUFFICES ASSUME Inv, Inv', Typed, [Next]_vars PROVE Typed'
  OBVIOUS
<1>1. CASE UNCHANGED vars
  BY <1>1 DEF vars, Typed, TypeOK, LastCall, ChunksOf, ListOf
<1>2. ASSUME NEW c \in Clients, GiveUp(c) \/ RejectWrites(c) \/ Return(c)
      PROVE  Typed'
  <2>1. PICK outcome : Ended(c, outcome)
    BY <1>2 DEF GiveUp, RejectWrites, Return
  <2>2. /\ UNCHANGED <<store, responses, network, log, seen>>
        /\ waiting' = waiting \/ waiting' = [waiting EXCEPT ![c] = FALSE]
        /\ reply' = reply \/ reply' = [reply EXCEPT ![c] = NoReply]
    BY <1>2 DEF GiveUp, RejectWrites, Return
  <2> QED
    BY <2>1, <2>2, EndedTyped
<1> QED
  BY <1>1, <1>2, BeginTyped, LoopTyped, DealtTyped DEF Next, Proceed

LEMMA Invariants == Spec => [](Inv /\ Typed)
<1>1. Init => Inv /\ Typed
  BY InitInv, InitTyped
<1>2. Inv /\ Typed /\ [Next]_vars => (Inv /\ Typed)'
  BY NextInv, NextTyped
<1> QED
  BY <1>1, <1>2, PTL DEF Spec

\* The state of the callers, of the device and of what is between them keeps its
\* types, and a caller that waits has a chunk to wait for, for any callers and
\* request sets.
THEOREM TypeCorrect == Spec => []TypeOK
<1>1. Typed => TypeOK
  BY DEF Typed
<1> QED
  BY <1>1, Invariants, PTL

-----------------------------------------------------------------------------
(***************************************************************************)
(* The bytes of a reply, against what the package reckoned with.           *)
(***************************************************************************)
\* The bytes of the lines of a reply.
Bytes(lines) == [i \in DOMAIN lines |-> LineBytes(lines[i])]

\* Lines have a length.
LEMMA LineBytesType ==
    ASSUME NEW line \in Line
    PROVE  LineBytes(line) \in Nat
<1> DEFINE len == PathLen[line.path]
           value_len == ValueLen[line.value]
<1>1. line.path \in Paths /\ line.value \in Values
  BY DEF Line, Paths
<1>2. len \in Nat /\ value_len \in Nat
  BY <1>1, ControllerAssumption
<1>3. LineBytes(line) = len + value_len + 2
  BY DEF LineBytes
<1> HIDE DEF len, value_len
<1> QED
  BY <1>2, <1>3

LEMMA BytesType ==
    ASSUME NEW lines \in Seq(Line)
    PROVE  /\ Bytes(lines) \in Seq(Nat) /\ Len(Bytes(lines)) = Len(lines)
           /\ DOMAIN Bytes(lines) = DOMAIN lines
<1>1. \A i \in DOMAIN lines : LineBytes(lines[i]) \in Nat
  BY Elements, LineBytesType
<1>2. Bytes(lines) \in [DOMAIN lines -> Nat]
  BY <1>1 DEF Bytes
<1> QED
  BY <1>2, MapType

LEMMA AnswerBytesType ==
    ASSUME NEW path \in Paths, NEW values \in [Variables -> Values]
    PROVE  /\ AnswerBytes(path, values) \in Nat
           /\ AnswerBytes(path, values) = Total(Bytes(Lines(path, values)))
<1>1. Lines(path, values) \in Seq(Line)
  BY LinesType
<1>2. Bytes(Lines(path, values)) \in Seq(Nat)
  BY <1>1, BytesType
<1>3. Total(Bytes(Lines(path, values))) \in Nat
  BY <1>2, TotalType
<1> QED
  BY <1>3 DEF AnswerBytes, Bytes

LEMMA BytesConcat ==
    ASSUME NEW s \in Seq(Line), NEW t \in Seq(Line)
    PROVE  s \o t \in Seq(Line) /\ Total(Bytes(s \o t)) = Total(Bytes(s)) + Total(Bytes(t))
<1> DEFINE both == s \o t
           a == Bytes(s)
           b == Bytes(t)
<1>1. PICK n \in Nat : n = Len(s)
  BY LenProperties
<1>2. PICK p \in Nat : p = Len(t)
  BY LenProperties
<1>3. /\ both \in Seq(Line) /\ Len(both) = n + p
      /\ \A i \in 1 .. n + p : both[i] = IF i <= n THEN s[i] ELSE t[i - n]
  BY <1>1, <1>2, ConcatProperties
<1>4. a \in Seq(Nat) /\ Len(a) = n /\ b \in Seq(Nat) /\ Len(b) = p
  BY <1>1, <1>2, BytesType
<1>5. /\ a \o b \in Seq(Nat) /\ Len(a \o b) = n + p
      /\ \A i \in 1 .. n + p : (a \o b)[i] = IF i <= n THEN a[i] ELSE b[i - n]
  <2> HIDE DEF a, b
  <2> QED
    BY <1>4, ConcatProperties
<1>6. /\ Bytes(both) \in Seq(Nat) /\ Len(Bytes(both)) = n + p
      /\ DOMAIN Bytes(both) = 1 .. n + p
  <2> HIDE DEF both
  <2>1. Bytes(both) \in Seq(Nat) /\ Len(Bytes(both)) = n + p
    BY <1>3, BytesType
  <2> QED
    BY <2>1, LenProperties
<1>7. DOMAIN (a \o b) = 1 .. n + p
  <2> HIDE DEF a, b
  <2> QED
    BY <1>5, LenProperties
<1>8. DOMAIN s = 1 .. n /\ DOMAIN t = 1 .. p /\ DOMAIN both = 1 .. n + p
  <2> HIDE DEF both
  <2> QED
    BY <1>1, <1>2, <1>3, LenProperties
<1>9. ASSUME NEW i \in 1 .. n + p
      PROVE  Bytes(both)[i] = (a \o b)[i]
  <2> HIDE DEF both
  <2>1. Bytes(both)[i] = LineBytes(both[i])
    BY <1>8 DEF Bytes
  <2>2. CASE i <= n
    <3>1. i \in 1 .. n
      BY <2>2
    <3>2. a[i] = LineBytes(s[i])
      BY <1>8, <3>1 DEF Bytes
    <3> QED
      BY <1>3, <1>5, <2>1, <2>2, <3>2
  <2>3. CASE ~(i <= n)
    <3>1. i - n \in 1 .. p
      BY <2>3
    <3>2. b[i - n] = LineBytes(t[i - n])
      BY <1>8, <3>1 DEF Bytes
    <3> QED
      BY <1>3, <1>5, <2>1, <2>3, <3>2
  <2> QED
    BY <2>2, <2>3
<1>10. Bytes(both) = a \o b
  <2> DEFINE x == Bytes(both)
             y == a \o b
  <2>1. x \in Seq(Nat) /\ Len(x) = n + p /\ y \in Seq(Nat) /\ Len(y) = n + p
    BY <1>5, <1>6
  <2>2. \A i \in 1 .. n + p : x[i] = y[i]
    BY <1>9
  <2> HIDE DEF x, y
  <2>3. x = y
    BY <2>1, <2>2, SameElements
  <2> QED
    BY <2>3 DEF x, y
<1>11. Total(a \o b) = Total(a) + Total(b)
  <2> HIDE DEF a, b
  <2> QED
    BY <1>4, TotalConcat
<1> QED
  BY <1>3, <1>10, <1>11

\* Lists that are bounded one by one are bounded when they are joined.
LEMMA FlattenBytes ==
    ASSUME NEW lists \in Seq(Seq(Line)), NEW bounds \in Seq(Nat), Len(bounds) = Len(lists),
           \A k \in 1 .. Len(lists) : Total(Bytes(lists[k])) <= bounds[k]
    PROVE  Total(Bytes(FlattenSeq(lists))) <= Total(bounds)
<1>1. PICK size \in Nat : size = Len(lists)
  BY LenProperties
<1>2. \A i \in 1 .. size : lists[i] \in Seq(Line)
  BY <1>1, ElementOfSeq
<1>3. PICK g \in [0 .. size -> Nat] : RunningSum(g, bounds, size) /\ Total(bounds) = g[size]
  BY <1>1, TotalIsRunningSum
<1>4. g[0] = 0 /\ \A k \in 1 .. size : g[k] = g[k - 1] + bounds[k]
  BY <1>3 DEF RunningSum
<1>5. CASE size = 0
  <2>1. lists = <<>>
    BY <1>1, <1>5, EmptySeq
  <2>2. FlattenSeq(lists) = <<>>
    BY <1>1, <1>5, <2>1 DEF FlattenSeq
  <2>3. Bytes(<<>>) = <<>>
    BY DEF Bytes
  <2>4. Total(Bytes(FlattenSeq(lists))) = 0
    BY <2>2, <2>3, TotalEmpty
  <2>5. Total(bounds) = 0
    BY <1>3, <1>4, <1>5
  <2> QED
    BY <2>4, <2>5
<1>6. CASE size # 0
  <2>1. lists # <<>>
    BY <1>1, <1>6, EmptySeq
  <2>2. PICK flat : FlattenRun(flat, lists, size) /\ FlattenSeq(lists) = flat[size]
    BY <1>1, <2>1, FlattenIsRun
  <2>3. \A i \in 1 .. size :
           flat[i] = IF i = 1 THEN lists[i] ELSE flat[i - 1] \o lists[i]
    BY <2>2 DEF FlattenRun
  <2> DEFINE Good(i) == flat[i] \in Seq(Line) /\ Total(Bytes(flat[i])) <= g[i]
             Bad == {i \in 1 .. size : ~Good(i)}
  <2>4. Good(1)
    <3>1. 1 \in 1 .. size
      BY <1>6
    <3>2. flat[1] = lists[1]
      BY <2>3, <3>1
    <3>3. lists[1] \in Seq(Line) /\ Total(Bytes(lists[1])) <= bounds[1] /\ bounds[1] \in Nat
      BY <1>1, <1>2, <3>1, ElementOfSeq
    <3>4. g[1] = bounds[1]
      BY <1>4, <3>1, <3>3
    <3> QED
      BY <3>2, <3>3, <3>4
  <2>5. ASSUME NEW i \in 2 .. size, Good(i - 1)
        PROVE  Good(i)
    <3>1. i \in 1 .. size /\ i # 1 /\ i - 1 \in 0 .. size /\ i \in 0 .. size
      OBVIOUS
    <3> DEFINE before == flat[i - 1]
               list == lists[i]
    <3>2. flat[i] = before \o list
      BY <2>3, <3>1
    <3>3. /\ list \in Seq(Line) /\ before \in Seq(Line)
          /\ Total(Bytes(list)) <= bounds[i] /\ Total(Bytes(before)) <= g[i - 1]
          /\ bounds[i] \in Nat /\ g[i - 1] \in Nat /\ g[i] = g[i - 1] + bounds[i]
      BY <1>1, <1>2, <1>4, <2>5, <3>1, ElementOfSeq
    <3> HIDE DEF before, list
    <3>4. flat[i] \in Seq(Line) /\ Total(Bytes(flat[i])) = Total(Bytes(before)) + Total(Bytes(list))
      BY <3>2, <3>3, BytesConcat
    <3>5. Bytes(before) \in Seq(Nat) /\ Bytes(list) \in Seq(Nat)
      BY <3>3, BytesType
    <3>6. Total(Bytes(before)) \in Nat /\ Total(Bytes(list)) \in Nat
      BY <3>5, TotalType
    <3> DEFINE x == Total(Bytes(before))
               y == Total(Bytes(list))
               z == Total(Bytes(flat[i]))
    <3>7. /\ x \in Nat /\ y \in Nat /\ z = x + y /\ y <= bounds[i] /\ x <= g[i - 1]
          /\ bounds[i] \in Nat /\ g[i - 1] \in Nat /\ g[i] = g[i - 1] + bounds[i]
      BY <3>3, <3>4, <3>6
    <3> HIDE DEF x, y, z
    <3>8. z <= g[i]
      BY <3>7, SMTT(30)
    <3> QED
      BY <3>4, <3>8 DEF z
  <2> HIDE DEF Good
  <2>6. Bad = {}
    <3> SUFFICES ASSUME Bad # {} PROVE FALSE
      OBVIOUS
    <3>1. PICK n \in Bad : \A k \in Bad : n <= k
      <4>1. Bad \in SUBSET Nat
        OBVIOUS
      <4> QED
        BY <4>1, LeastNatural
    <3>2. n \in 1 .. size /\ ~Good(n) /\ n # 1
      BY <2>4, <3>1
    <3>3. n \in 2 .. size /\ n - 1 \in 1 .. size /\ ~(n <= n - 1)
      BY <3>2
    <3>4. Good(n - 1)
      BY <3>1, <3>3
    <3> QED
      BY <2>5, <3>2, <3>3, <3>4
  <2>7. Good(size)
    <3>1. size \in 1 .. size
      BY <1>6
    <3> QED
      BY <2>6, <3>1
  <2> QED
    BY <1>3, <2>2, <2>7 DEF Good
<1> QED
  BY <1>5, <1>6

\* Sums are in the order of their parts.
LEMMA SumsInOrder ==
    ASSUME NEW a \in Nat, NEW b \in Nat, NEW x \in Nat, NEW y \in Nat, NEW m \in Nat,
           a + m <= b, x <= y
    PROVE  (a + x) + m <= b + y
  OBVIOUS

\* A list with one element larger by an amount, and none smaller.
LEMMA OneMore ==
    ASSUME NEW s \in Seq(Nat), NEW t \in Seq(Nat), Len(s) = Len(t),
           \A k \in 1 .. Len(s) : s[k] <= t[k],
           NEW j \in 1 .. Len(s), NEW d \in Nat, s[j] + d <= t[j]
    PROVE  Total(s) + d <= Total(t)
<1>1. PICK n \in Nat : n = Len(s)
  BY LenProperties
<1>2. PICK f \in [0 .. n -> Nat] : RunningSum(f, s, n) /\ Total(s) = f[n]
  BY <1>1, TotalIsRunningSum
<1>3. PICK g \in [0 .. n -> Nat] : RunningSum(g, t, n) /\ Total(t) = g[n]
  BY <1>1, TotalIsRunningSum
<1>4. /\ f[0] = 0 /\ \A k \in 1 .. n : f[k] = f[k - 1] + s[k]
      /\ g[0] = 0 /\ \A k \in 1 .. n : g[k] = g[k - 1] + t[k]
  BY <1>2, <1>3 DEF RunningSum
<1>5. \A k \in 1 .. n : s[k] \in Nat /\ t[k] \in Nat /\ s[k] <= t[k]
  BY <1>1, ElementOfSeq
<1> DEFINE more(k) == IF j <= k THEN d ELSE 0
           Bad == {k \in 0 .. n : ~(f[k] + more(k) <= g[k])}
<1>6. Bad = {}
  <2> SUFFICES ASSUME Bad # {} PROVE FALSE
    OBVIOUS
  <2>1. PICK k \in Bad : \A i \in Bad : k <= i
    <3>1. Bad \in SUBSET Nat
      OBVIOUS
    <3> QED
      BY <3>1, LeastNatural
  <2>2. k \in 0 .. n /\ ~(f[k] + more(k) <= g[k]) /\ k # 0
    BY <1>1, <1>4, <2>1
  <2>3. k \in 1 .. n /\ k - 1 \in 0 .. n /\ ~(k <= k - 1)
    BY <2>2
  <2>4. f[k - 1] + more(k - 1) <= g[k - 1] /\ f[k - 1] \in Nat /\ g[k - 1] \in Nat
    BY <2>1, <2>3
  <2>5. f[k] = f[k - 1] + s[k] /\ g[k] = g[k - 1] + t[k]
    BY <1>4, <2>3
  <2>6. s[k] \in Nat /\ t[k] \in Nat /\ s[k] <= t[k]
    BY <1>5, <2>3
  <2> DEFINE a == f[k - 1]
             b == g[k - 1]
             x == s[k]
             y == t[k]
  <2>7. /\ a \in Nat /\ b \in Nat /\ x \in Nat /\ y \in Nat
        /\ a + more(k - 1) <= b /\ x <= y /\ f[k] = a + x /\ g[k] = b + y
        /\ k = j => x + d <= y
    BY <2>4, <2>5, <2>6
  <2> HIDE DEF a, b, x, y
  <2>8. f[k] + more(k) <= g[k]
    <3>1. CASE k = j
      BY <1>1, <2>3, <2>7, <3>1
    <3>2. CASE k # j
      <4>1. more(k) = more(k - 1)
        BY <1>1, <2>3, <3>2
      <4>2. PICK m \in Nat : m = more(k)
        OBVIOUS
      <4>3. a + m <= b
        BY <2>7, <4>1, <4>2
      <4>4. (a + x) + m <= b + y
        <5>1. a \in Nat /\ b \in Nat /\ x \in Nat /\ y \in Nat /\ x <= y
          BY <2>7
        <5> QED
          BY <4>2, <4>3, <5>1, SumsInOrder
      <4>5. f[k] = a + x /\ g[k] = b + y
        BY <2>7
      <4> QED
        BY <4>2, <4>4, <4>5
    <3> QED
      BY <3>1, <3>2
  <2> QED
    BY <2>2, <2>8
<1>7. n \in 0 .. n /\ more(n) = d
  BY <1>1
<1> HIDE DEF more
<1> QED
  BY <1>2, <1>3, <1>6, <1>7

\* Elements of a list that are taken once each come to no more than all of it.
LEMMA NoRepeatTotal ==
    ASSUME NEW S, NEW size \in [S -> Nat], NEW list \in Seq(S), NEW all \in Seq(S)
    PROVE  (/\ \A i, j \in DOMAIN list : list[i] = list[j] => i = j
            /\ Holds(list) \subseteq Holds(all))
              => Total(Sizes(size, list)) <= Total(Sizes(size, all))
<1>0. /\ Sizes(size, all) \in Seq(Nat) /\ Len(Sizes(size, all)) = Len(all)
      /\ DOMAIN Sizes(size, all) = DOMAIN all
  <2>1. Sizes(size, all) \in Seq(Nat)
    BY SizesType
  <2>2. Len(Sizes(size, all)) = Len(all)
    BY SizesType
  <2>3. DOMAIN Sizes(size, all) = DOMAIN all
    BY SizesType
  <2> QED
    BY <2>1, <2>2, <2>3
<1>a. SUFFICES ASSUME \A i, j \in DOMAIN list : list[i] = list[j] => i = j,
                      Holds(list) \subseteq Holds(all)
               PROVE  Total(Sizes(size, list)) <= Total(Sizes(size, all))
  OBVIOUS
<1>1. PICK n \in Nat : n = Len(list)
  BY LenProperties
<1>2. DOMAIN list = 1 .. n /\ \A i \in 1 .. n : list[i] \in S
  BY <1>1, LenProperties, ElementOfSeq
<1>3. PICK f \in [0 .. n -> Nat] :
         RunningSum(f, Sizes(size, list), n) /\ Total(Sizes(size, list)) = f[n]
  <2>1. Sizes(size, list) \in Seq(Nat) /\ Len(Sizes(size, list)) = n
    BY <1>1, SizesType
  <2> QED
    BY <2>1, TotalIsRunningSum
<1>4. f[0] = 0 /\ \A i \in 1 .. n : f[i] = f[i - 1] + size[list[i]]
  BY <1>2, <1>3 DEF RunningSum, Sizes
<1> DEFINE Taken(i) == {list[j] : j \in 1 .. i}
           upto == [i \in 0 .. n |-> [x \in S |-> IF x \in Taken(i) THEN size[x] ELSE 0]]
<1>5. \A i \in 0 .. n : upto[i] \in [S -> Nat]
  OBVIOUS
<1>6. \A i \in 0 .. n : \A x \in S : upto[i][x] = IF x \in Taken(i) THEN size[x] ELSE 0
  OBVIOUS
<1> HIDE DEF upto
<1> DEFINE Good(i) == f[i] <= Total(Sizes(upto[i], all))
           Bad == {i \in 0 .. n : ~Good(i)}
<1>7. ASSUME NEW i \in 0 .. n
      PROVE  /\ Sizes(upto[i], all) \in Seq(Nat) /\ Len(Sizes(upto[i], all)) = Len(all)
             /\ DOMAIN Sizes(upto[i], all) = DOMAIN all
             /\ Total(Sizes(upto[i], all)) \in Nat
  <2> DEFINE size_i == upto[i]
  <2>1. size_i \in [S -> Nat]
    BY <1>5
  <2> HIDE DEF size_i
  <2>2. /\ Sizes(size_i, all) \in Seq(Nat) /\ Len(Sizes(size_i, all)) = Len(all)
        /\ DOMAIN Sizes(size_i, all) = DOMAIN all
    BY <2>1, SizesType
  <2>3. Total(Sizes(size_i, all)) \in Nat
    BY <2>2, TotalType
  <2> QED
    BY <2>2, <2>3 DEF size_i
<1>8. Good(0)
  <2>1. 0 \in 0 .. n
    OBVIOUS
  <2>2. Total(Sizes(upto[0], all)) \in Nat
    BY <1>7, <2>1
  <2> QED
    BY <1>4, <2>2
<1>9. ASSUME NEW i \in 1 .. n, Good(i - 1)
      PROVE  Good(i)
  <2> DEFINE before == Sizes(upto[i - 1], all)
             after == Sizes(upto[i], all)
             x == list[i]
             d == size[x]
             a == f[i - 1]
  <2>1. i - 1 \in 0 .. n /\ i \in 0 .. n /\ i \in 1 .. i /\ i \in DOMAIN list
    BY <1>2
  <2>2. x \in S /\ d \in Nat /\ a \in Nat /\ f[i] = a + d
    BY <1>2, <1>3, <1>4, <2>1
  <2>3. PICK j \in DOMAIN all : all[j] = x
    <3>1. x \in Holds(list)
      BY <2>1 DEF Holds
    <3> QED
      BY <1>a, <3>1 DEF Holds
  <2>4. DOMAIN all = 1 .. Len(all) /\ \A k \in DOMAIN all : all[k] \in S
    BY Elements
  <2>5. /\ before \in Seq(Nat) /\ after \in Seq(Nat)
        /\ Len(before) = Len(all) /\ Len(after) = Len(all)
        /\ Total(before) \in Nat /\ Total(after) \in Nat
    BY <1>7, <2>1
  <2>6. x \notin Taken(i - 1)
    <3> SUFFICES ASSUME NEW k \in 1 .. i - 1, list[k] = x PROVE FALSE
      OBVIOUS
    <3>1. k \in 1 .. n /\ k # i
      BY <2>1
    <3> QED
      BY <1>2, <1>a, <2>1, <3>1
  <2>7. Taken(i - 1) \subseteq Taken(i) /\ x \in Taken(i)
    <3>1. \A k \in 1 .. i - 1 : k \in 1 .. i
      OBVIOUS
    <3> QED
      BY <2>1, <3>1, Zenon
  <2>8. \A k \in DOMAIN all : before[k] = upto[i - 1][all[k]] /\ after[k] = upto[i][all[k]]
    BY DEF Sizes
  <2>9. \A k \in 1 .. Len(all) : before[k] <= after[k]
    <3>1. \A y \in S :
             /\ upto[i - 1][y] = IF y \in Taken(i - 1) THEN size[y] ELSE 0
             /\ upto[i][y] = IF y \in Taken(i) THEN size[y] ELSE 0
      BY <1>6, <2>1
    <3>2. ASSUME NEW y \in S PROVE upto[i - 1][y] <= upto[i][y]
      <4> HIDE DEF Taken
      <4>1. size[y] \in Nat
        OBVIOUS
      <4>2. CASE y \in Taken(i - 1)
        <5>1. y \in Taken(i)
          BY <2>7, <4>2
        <5>2. upto[i - 1][y] = size[y] /\ upto[i][y] = size[y]
          BY <3>1, <4>2, <5>1
        <5> QED
          BY <4>1, <5>2
      <4>3. CASE y \notin Taken(i - 1)
        <5>1. upto[i - 1][y] = 0 /\ (upto[i][y] = size[y] \/ upto[i][y] = 0)
          BY <3>1, <4>3
        <5> QED
          BY <4>1, <5>1
      <4> QED
        BY <4>2, <4>3
    <3> QED
      BY <2>4, <2>8, <3>2
  <2>10. before[j] + d <= after[j]
    <3>1. upto[i - 1][x] = 0 /\ upto[i][x] = d
      BY <1>6, <2>1, <2>2, <2>6, <2>7
    <3>2. before[j] = 0 /\ after[j] = d
      BY <2>3, <2>8, <3>1
    <3> QED
      BY <2>2, <3>2
  <2>11. j \in 1 .. Len(all)
    BY <2>4
  <2> HIDE DEF before, after, d, a, x
  <2>12. Total(before) + d <= Total(after)
    BY <2>2, <2>5, <2>9, <2>10, <2>11, OneMore
  <2>13. a <= Total(before)
    BY <1>9 DEF a, before
  <2>14. f[i] <= Total(after)
    BY <2>2, <2>5, <2>12, <2>13
  <2> QED
    BY <2>14 DEF after
<1> HIDE DEF Good
<1>10. Bad = {}
  <2> SUFFICES ASSUME Bad # {} PROVE FALSE
    OBVIOUS
  <2>1. PICK i \in Bad : \A k \in Bad : i <= k
    <3>1. Bad \in SUBSET Nat
      OBVIOUS
    <3> QED
      BY <3>1, LeastNatural
  <2>2. i \in 0 .. n /\ ~Good(i) /\ i # 0
    BY <1>8, <2>1
  <2>3. i \in 1 .. n /\ i - 1 \in 0 .. n /\ ~(i <= i - 1)
    BY <2>2
  <2>4. Good(i - 1)
    BY <2>1, <2>3
  <2> QED
    BY <1>9, <2>2, <2>3, <2>4
<1>11. n \in 0 .. n /\ Good(n)
  <2>1. n \in 0 .. n
    OBVIOUS
  <2> QED
    BY <1>10, <2>1
<1>12. Total(Sizes(upto[n], all)) <= Total(Sizes(size, all))
  <2>1. /\ Sizes(size, all) \in Seq(Nat) /\ Len(Sizes(size, all)) = Len(all)
        /\ DOMAIN Sizes(size, all) = DOMAIN all
    BY <1>0
  <2>2. DOMAIN all = 1 .. Len(all) /\ \A k \in DOMAIN all : all[k] \in S
    BY Elements
  <2>3. \A k \in 1 .. Len(all) : Sizes(upto[n], all)[k] <= Sizes(size, all)[k]
    <3> SUFFICES ASSUME NEW k \in DOMAIN all
                 PROVE  Sizes(upto[n], all)[k] <= Sizes(size, all)[k]
      BY <2>2
    <3>1. all[k] \in S /\ size[all[k]] \in Nat
      BY <2>2
    <3>2. upto[n][all[k]] <= size[all[k]]
      <4>1. PICK x \in S : x = all[k]
        BY <3>1
      <4>2. upto[n][x] = IF x \in Taken(n) THEN size[x] ELSE 0
        BY <1>6, <1>11
      <4> HIDE DEF Taken
      <4>3. upto[n][x] = size[x] \/ upto[n][x] = 0
        BY <4>2
      <4>4. size[x] \in Nat
        OBVIOUS
      <4>5. upto[n][x] <= size[x]
        BY <4>3, <4>4
      <4> QED
        BY <4>1, <4>5
    <3> QED
      BY <3>2 DEF Sizes
  <2>4. Sizes(upto[n], all) \in Seq(Nat) /\ Len(Sizes(upto[n], all)) = Len(all)
    BY <1>7, <1>11
  <2> QED
    BY <2>1, <2>3, <2>4, TotalMonotone
<1>13. f[n] <= Total(Sizes(upto[n], all))
  BY <1>11 DEF Good
<1>14. f[n] \in Nat /\ Total(Sizes(upto[n], all)) \in Nat /\ Total(Sizes(size, all)) \in Nat
  <2>1. Total(Sizes(size, all)) \in Nat
    BY <1>0, TotalType
  <2> QED
    BY <1>3, <1>7, <1>11, <2>1
<1> QED
  BY <1>3, <1>12, <1>13, <1>14

\* The lines of these variables, and what they come to if no value is longer than its
\* type allows.
LEMMA FittingLines ==
    ASSUME NEW path \in Paths, NEW values \in [Variables -> Values],
           \A v \in VariablesOf(path) : ValueLen[values[v]] <= ValueBytes[v]
    PROVE  /\ path \in Variables => AnswerBytes(path, values) <= ResponseBytes(path)
           /\ path \in Structures =>
                 AnswerBytes(path, values) <= Total(Sizes([v \in Variables |-> ResponseBytes(v)], Answered[path]))
<1> DEFINE size == [v \in Variables |-> ResponseBytes(v)]
           variables == IF path \in Structures THEN Answered[path] ELSE <<path>>
           lines == Lines(path, values)
<1>1. ASSUME NEW v \in VariablesOf(path), v \in Variables
      PROVE  LineBytes([path |-> v, value |-> values[v]]) <= ResponseBytes(v)
  <2> DEFINE len == PathLen[v]
             bytes == ValueBytes[v]
             value_len == ValueLen[values[v]]
  <2>1. len \in Nat /\ bytes \in Nat /\ value_len \in Nat /\ value_len <= bytes
    BY <1>1, ControllerAssumption DEF Paths
  <2>2. ResponseBytes(v) = len + bytes + 2
        /\ LineBytes([path |-> v, value |-> values[v]]) = len + value_len + 2
    BY DEF ResponseBytes, LineBytes
  <2> HIDE DEF len, bytes, value_len
  <2> QED
    BY <2>1, <2>2
<1>2. size \in [Variables -> Nat]
  BY ResponseBytesType
<1>3. variables \in Seq(Variables) /\ Holds(variables) = VariablesOf(path)
  BY AnsweredVariables
<1>4. lines = [i \in DOMAIN variables |->
                  [path |-> variables[i], value |-> values[variables[i]]]]
  BY DEF Lines
<1>5. lines \in Seq(Line)
  BY LinesType
<1>6. AnswerBytes(path, values) = Total(Bytes(lines))
  BY DEF AnswerBytes, Bytes
<1> HIDE DEF variables, lines
<1>7. Bytes(lines) \in Seq(Nat) /\ Len(Bytes(lines)) = Len(lines) /\ DOMAIN Bytes(lines) = DOMAIN lines
  BY <1>5, BytesType
<1>8. /\ Sizes(size, variables) \in Seq(Nat) /\ Len(Sizes(size, variables)) = Len(variables)
      /\ DOMAIN Sizes(size, variables) = DOMAIN variables
  <2> HIDE DEF size
  <2> QED
    BY <1>2, <1>3, SizesType
<1>9. Len(lines) = Len(variables)
  <2>1. lines \in [DOMAIN variables -> Line]
    <3>1. \A i \in DOMAIN lines : lines[i] \in Line
      BY <1>5, Elements
    <3> QED
      BY <1>4, <3>1
  <2> QED
    BY <1>3, <2>1, MapType
<1>10. ASSUME NEW i \in DOMAIN variables
       PROVE  Bytes(lines)[i] <= Sizes(size, variables)[i]
  <2>1. variables[i] \in Variables /\ variables[i] \in VariablesOf(path)
    BY <1>3, Elements DEF Holds
  <2>2. Bytes(lines)[i] = LineBytes([path |-> variables[i], value |-> values[variables[i]]])
    BY <1>4 DEF Bytes
  <2>3. Sizes(size, variables)[i] = ResponseBytes(variables[i])
    BY <2>1 DEF Sizes
  <2> QED
    BY <1>1, <2>1, <2>2, <2>3
<1>11. Total(Bytes(lines)) <= Total(Sizes(size, variables))
  <2>1. DOMAIN variables = 1 .. Len(Bytes(lines))
    BY <1>3, <1>7, <1>9, Elements
  <2>2. \A k \in 1 .. Len(Bytes(lines)) : Bytes(lines)[k] <= Sizes(size, variables)[k]
    BY <1>10, <2>1
  <2> HIDE DEF size
  <2> QED
    BY <1>7, <1>8, <1>9, <2>2, TotalMonotone
<1>12. CASE path \in Structures
  BY <1>6, <1>11, <1>12, ControllerAssumption DEF variables
<1>13. CASE path \notin Structures
  <2>1. path \in Variables /\ variables = <<path>>
    BY <1>13 DEF Paths, variables
  <2>2. Total(Sizes(size, <<path>>)) = ResponseBytes(path)
    <3>1. <<>> \in Seq(Variables) /\ Append(<<>>, path) = <<path>> /\ Sizes(size, <<>>) = <<>>
      BY DEF Sizes
    <3>2. size[path] = ResponseBytes(path) /\ ResponseBytes(path) \in Nat
      BY <2>1, ResponseBytesType
    <3> HIDE DEF size
    <3>3. Total(Sizes(size, Append(<<>>, path))) = Total(Sizes(size, <<>>)) + size[path]
      BY <1>2, <2>1, <3>1, SizesAppend
    <3>4. Total(Sizes(size, <<>>)) = 0
      BY <3>1, TotalEmpty
    <3> QED
      BY <3>1, <3>2, <3>3, <3>4
  <2> HIDE DEF size
  <2> QED
    BY <1>6, <1>11, <1>13, <2>1, <2>2
<1> QED
  BY <1>12, <1>13

\* What a foreseen getter is turned into is answered with no more than expected.
LEMMA ForeseenBytes ==
    ASSUME NEW getter \in Getter, NEW values \in [Variables -> Values], Foreseen(getter, values),
           NEW x \in Holds(Expand(getter))
    PROVE  AnswerBytes(x.path, values) <= ExpectedBytes(x)
<1> DEFINE size == [v \in Variables |-> ResponseBytes(v)]
           path == getter.path
<1>1. path \in Paths /\ getter.expected_bytes \in Nat \cup {Unstated}
  BY DEF Getter
<1>2. CASE x = getter /\ getter.expected_bytes # Unstated
  BY <1>2 DEF Foreseen, ExpectedBytes
<1>3. CASE x = getter /\ getter.expected_bytes = Unstated /\ path \notin Structures
  <2>1. path \in Variables /\ \A v \in VariablesOf(path) : ValueLen[values[v]] <= ValueBytes[v]
    BY <1>1, <1>3 DEF Foreseen, Paths
  <2>2. AnswerBytes(path, values) <= ResponseBytes(path)
    BY <1>1, <2>1, FittingLines
  <2> QED
    BY <1>3, <2>2 DEF ExpectedBytes
<1>4. CASE x = getter /\ getter.expected_bytes = Unstated /\ path \in Structures
  <2> DEFINE answered == Answered[path]
             members == Members[path]
  <2>1. /\ \A v \in VariablesOf(path) : ValueLen[values[v]] <= ValueBytes[v]
        /\ ToSet(answered) \subseteq ToSet(members)
    BY <1>4 DEF Foreseen
  <2>2. answered \in Seq(Variables) /\ members \in Seq(Variables)
        /\ \A i, j \in DOMAIN answered : answered[i] = answered[j] => i = j
    BY <1>4, AnsweredAssumption, ControllerAssumption
  <2>3. Holds(answered) \subseteq Holds(members)
    BY <2>1 DEF Holds, ToSet
  <2>4. AnswerBytes(path, values) <= Total(Sizes(size, answered))
    BY <1>1, <1>4, <2>1, FittingLines
  <2>5. size \in [Variables -> Nat]
    BY ResponseBytesType
  <2> HIDE DEF answered, members
  <2>6. Sizes(size, members) = [i \in DOMAIN members |-> ResponseBytes(members[i])]
    <3>1. \A i \in DOMAIN members : members[i] \in Variables
      BY <2>2, Elements
    <3> QED
      BY <3>1 DEF Sizes
  <2>7. ExpectedBytes(getter) = StructureBytes(path)
    BY <1>4 DEF ExpectedBytes
  <2> HIDE DEF size
  <2>8. Total(Sizes(size, answered)) <= Total(Sizes(size, members))
    BY <2>2, <2>3, <2>5, NoRepeatTotal
  <2>9. Total(Sizes(size, answered)) \in Nat /\ Total(Sizes(size, members)) \in Nat
    <3>1. Sizes(size, answered) \in Seq(Nat) /\ Sizes(size, members) \in Seq(Nat)
      BY <2>2, <2>5, SizesType
    <3> QED
      BY <3>1, TotalType
  <2>10. AnswerBytes(path, values) \in Nat
    BY <1>1, AnswerBytesType
  <2>11. AnswerBytes(path, values) <= Total(Sizes(size, members))
    BY <2>4, <2>8, <2>9, <2>10
  <2>12. CASE members # <<>>
    BY <1>4, <2>6, <2>7, <2>11, <2>12 DEF StructureBytes, members
  <2>13. CASE members = <<>>
    <3>1. StructureBytes(path) = MaxResponse
      BY <2>13 DEF StructureBytes, members
    <3>2. Total(Sizes(size, members)) = 0
      <4>1. Sizes(size, members) = <<>>
        BY <2>13 DEF Sizes
      <4> QED
        BY <4>1, TotalEmpty
    <3> QED
      BY <1>4, <2>7, <2>10, <2>11, <3>1, <3>2, BudgetAssumption
  <2> QED
    BY <2>12, <2>13
<1>5. CASE /\ path \in Structures /\ getter.expected_bytes = Unstated
           /\ Holds(Expand(getter)) = {Get(v) : v \in Holds(Members[path])}
           /\ Holds(Members[path]) \subseteq Variables
  <2>1. PICK v \in Holds(Members[path]) : x = Get(v)
    BY <1>5
  <2>2. v \in Variables /\ x.path = v /\ ExpectedBytes(x) = ResponseBytes(v)
    <3>1. v \in Variables
      BY <1>5
    <3>2. ResponseBytes(v) \in Nat /\ Get(v).path = v /\ Get(v).expected_bytes = ResponseBytes(v)
      BY <3>1, ResponseBytesType
    <3> QED
      BY <2>1, <3>1, <3>2, ControllerAssumption DEF ExpectedBytes
  <2>3. v \in VariablesOf(path)
    <3>1. v \in ToSet(Members[path])
      BY DEF Holds, ToSet
    <3> QED
      BY <1>5, <3>1, AnsweredAssumption DEF VariablesOf
  <2>4. VariablesOf(v) = {v} /\ v \in Paths
    BY <2>2, ControllerAssumption DEF VariablesOf, Paths
  <2>5. ValueLen[values[v]] <= ValueBytes[v]
    BY <1>5, <2>3 DEF Foreseen
  <2>6. AnswerBytes(v, values) <= ResponseBytes(v)
    BY <2>2, <2>4, <2>5, FittingLines
  <2> QED
    BY <2>2, <2>6
<1>6. Holds(Expand(getter)) = {getter} => x = getter
  OBVIOUS
<1> QED
  BY <1>2, <1>3, <1>4, <1>5, <1>6, ExpandCases

\* So is each of the reads of a set all of which is foreseen.
LEMMA ReadsForeseen ==
    ASSUME NEW request \in AllRequests, NEW values \in [Variables -> Values],
           AllForeseen(request, {values}), NEW i \in DOMAIN Reads(request)
    PROVE  AnswerBytes(Reads(request)[i].path, values) <= ExpectedBytes(Reads(request)[i])
<1> DEFINE x == Reads(request)[i]
<1>1. x \in Holds(Reads(request))
  BY DEF Holds
<1>2. PICK k \in DOMAIN request.getters : x \in Holds(Expand(request.getters[k]))
  BY <1>1, ReadsType
<1>3. request.getters[k] \in Getter
  BY ReadsType, Elements
<1>4. Foreseen(request.getters[k], values)
  BY DEF AllForeseen, ToSet
<1> HIDE DEF x
<1>5. AnswerBytes(x.path, values) <= ExpectedBytes(x)
  BY <1>2, <1>3, <1>4, ForeseenBytes
<1> QED
  BY <1>5 DEF x

\* A reply to a request of a plan is not cut off: to its reads, ...
LEMMA ReadsUncut ==
    ASSUME NEW request \in AllRequests, ~Plan[request].reads_too_long,
           store \in [Variables -> Values], AllForeseen(request, {store}),
           NEW k \in 1 .. Len(Plan[request].read_chunks),
           NEW m, m.phase = "reading", m.request = request,
           m.chunk = Plan[request].read_chunks[k]
    PROVE  /\ CutOff(ReplyLines(m)) = ReplyLines(m)
           /\ \A i \in Holds(m.chunk) : \A v \in VariablesOf(Plan[request].reads[i].path) :
                 \E line \in Holds(ReplyLines(m)) : line.path = v
<1> DEFINE reads == Plan[request].reads
           all_items == ReadItems(request)
           chunk == m.chunk
           picked == Pick(reads, chunk)
           lists == [i \in DOMAIN picked |-> Lines(picked[i].path, store)]
           bounds == Responses(all_items, chunk)
<1>1. reads = Reads(request) /\ reads \in Seq(Getter)
  BY PlanType
<1>2. all_items \in Seq(Item) /\ Len(all_items) = Len(reads)
  BY <1>1, ReadItemsType
<1>3. Plan[request].read_chunks = Pack(all_items) /\ ~TooLong(all_items)
  BY DEF Plan
<1>4. all_items = [i \in DOMAIN reads |->
                  [fragment |-> PathLen[reads[i].path], response |-> ExpectedBytes(reads[i])]]
  BY <1>1 DEF ReadItems
<1> HIDE DEF all_items, reads
<1>5. chunk \in Seq(1 .. Len(reads)) /\ Under(all_items, chunk)
  <2>1. Pack(all_items) \in Seq(Seq(1 .. Len(all_items)))
    BY <1>2, <1>3, PackContract
  <2>2. \A n \in 1 .. Len(Pack(all_items)) : Under(all_items, Pack(all_items)[n])
    BY <1>2, <1>3, PackContract
  <2>3. Pack(all_items)[k] \in Seq(1 .. Len(all_items))
    BY <1>3, <2>1, ElementOfSeq
  <2> QED
    BY <1>2, <1>3, <2>2, <2>3
<1> HIDE DEF chunk
<1>6. /\ picked \in Seq(Getter) /\ DOMAIN picked = DOMAIN chunk /\ Len(picked) = Len(chunk)
      /\ \A i \in DOMAIN chunk : picked[i] = reads[chunk[i]] /\ chunk[i] \in DOMAIN reads
  BY <1>1, <1>5, PickType
<1> HIDE DEF picked
<1>7. \A i \in DOMAIN picked : picked[i].path \in Paths
  <2>1. \A i \in DOMAIN picked : picked[i] \in Getter
    BY <1>6, Elements
  <2> QED
    BY <2>1 DEF Getter
<1>8. lists \in [DOMAIN picked -> Seq(Line)]
  BY <1>7, LinesType
<1>9. lists \in Seq(Seq(Line)) /\ DOMAIN lists = DOMAIN picked /\ Len(lists) = Len(picked)
  BY <1>6, <1>8, MapType
<1>10. ReplyLines(m) = FlattenSeq(lists)
  BY DEF ReplyLines, reads, picked, chunk
<1>11. bounds \in Seq(Nat) /\ Len(bounds) = Len(chunk)
  BY <1>2, <1>5, ChunkSizesType
<1>12. DOMAIN chunk = 1 .. Len(chunk)
  BY <1>5, Elements
<1>13. ASSUME NEW i \in 1 .. Len(lists)
       PROVE  Total(Bytes(lists[i])) <= bounds[i]
  <2>1. i \in DOMAIN chunk /\ i \in 1 .. Len(chunk) /\ i \in DOMAIN picked
    BY <1>6, <1>9, <1>12
  <2>2. bounds[i] = ExpectedBytes(picked[i])
    BY <1>4, <1>6, <2>1 DEF Responses
  <2>3. lists[i] = Lines(picked[i].path, store)
    BY <2>1
  <2>4. picked[i] = Reads(request)[chunk[i]] /\ chunk[i] \in DOMAIN Reads(request)
    BY <1>1, <1>6, <2>1
  <2>5. AnswerBytes(picked[i].path, store) <= ExpectedBytes(picked[i])
    BY <2>4, ReadsForeseen
  <2>6. Total(Bytes(lists[i])) = AnswerBytes(picked[i].path, store)
    <3>1. AnswerBytes(picked[i].path, store) = Total(Bytes(Lines(picked[i].path, store)))
      BY <1>7, <2>1, AnswerBytesType
    <3> QED
      BY <2>3, <3>1
  <2> HIDE DEF lists, bounds
  <2> QED
    BY <2>2, <2>5, <2>6
<1> HIDE DEF lists, bounds
<1>14. Total(Bytes(FlattenSeq(lists))) <= Total(bounds)
  BY <1>6, <1>9, <1>11, <1>13, FlattenBytes
<1>15. FlattenSeq(lists) \in Seq(Line)
  BY <1>9, FlattenHolds
<1>16. Total(Bytes(FlattenSeq(lists))) <= DeviceResponse
  <2>1. Total(bounds) <= MaxResponse
    BY <1>5 DEF Under, ReplyBytes, bounds
  <2>2. Total(Bytes(FlattenSeq(lists))) \in Nat /\ Total(bounds) \in Nat
    BY <1>11, <1>15, BytesType, TotalType
  <2> QED
    BY <1>14, <2>1, <2>2, MarginAssumption, BudgetAssumption
<1>17. CutOff(FlattenSeq(lists)) = FlattenSeq(lists)
  BY <1>15, <1>16, CutOffType DEF Bytes
<1>18. ASSUME NEW i \in Holds(chunk), NEW v \in VariablesOf(reads[i].path)
       PROVE  \E line \in Holds(FlattenSeq(lists)) : line.path = v
  <2>1. PICK j \in DOMAIN chunk : i = chunk[j]
    BY DEF Holds
  <2>2. picked[j] = reads[i] /\ picked[j].path \in Paths /\ j \in DOMAIN picked
    BY <1>6, <1>7, <2>1
  <2>3. \E line \in Holds(Lines(picked[j].path, store)) : line.path = v
    BY <2>2, LinesType
  <2>4. lists[j] = Lines(picked[j].path, store) /\ j \in DOMAIN lists
    BY <1>9, <2>2 DEF lists
  <2>5. \A x : x \in Holds(FlattenSeq(lists)) <=> \E n \in DOMAIN lists : x \in Holds(lists[n])
    BY <1>9, FlattenHolds
  <2> QED
    BY <2>3, <2>4, <2>5
<1> QED
  BY <1>10, <1>17, <1>18 DEF chunk, reads

\* ... and to its writes, which is the setters it carries.
LEMMA WritesUncut ==
    ASSUME NEW request \in AllRequests, ~Plan[request].writes_too_long,
           NEW k \in 1 .. Len(Plan[request].write_chunks),
           NEW m, m.phase = "writing", m.request = request,
           m.chunk = Plan[request].write_chunks[k]
    PROVE  /\ CutOff(ReplyLines(m)) = ReplyLines(m)
           /\ ReplyLines(m) = Pick(request.setters, m.chunk)
<1> DEFINE setters == request.setters
           all_items == WriteItems(request)
           chunk == m.chunk
           lines == Pick(setters, chunk)
           bounds == Responses(all_items, chunk)
<1>1. setters \in Seq(Setter) /\ Setter = Line
  BY PlanType DEF Setter, Line
<1>2. all_items \in Seq(Item) /\ Len(all_items) = Len(setters)
  BY WriteItemsType
<1>3. Plan[request].write_chunks = Pack(all_items) /\ ~TooLong(all_items)
  BY DEF Plan
<1>4. \A i \in DOMAIN setters :
         all_items[i].response = PathLen[setters[i].path] + ValueLen[setters[i].value] + 2
  BY DEF WriteItems
<1> HIDE DEF all_items, setters
<1>5. chunk \in Seq(1 .. Len(setters)) /\ Under(all_items, chunk)
  <2>1. Pack(all_items) \in Seq(Seq(1 .. Len(all_items)))
    BY <1>2, <1>3, PackContract
  <2>2. \A n \in 1 .. Len(Pack(all_items)) : Under(all_items, Pack(all_items)[n])
    BY <1>2, <1>3, PackContract
  <2>3. Pack(all_items)[k] \in Seq(1 .. Len(all_items))
    BY <1>3, <2>1, ElementOfSeq
  <2> QED
    BY <1>2, <1>3, <2>2, <2>3
<1> HIDE DEF chunk
<1>6. /\ lines \in Seq(Setter) /\ DOMAIN lines = DOMAIN chunk /\ Len(lines) = Len(chunk)
      /\ \A i \in DOMAIN chunk : lines[i] = setters[chunk[i]] /\ chunk[i] \in DOMAIN setters
  BY <1>1, <1>5, PickType
<1>7. ReplyLines(m) = lines
  BY DEF ReplyLines, setters, chunk
<1> HIDE DEF lines
<1>8. bounds \in Seq(Nat) /\ Len(bounds) = Len(chunk)
  BY <1>2, <1>5, ChunkSizesType
<1>9. Bytes(lines) \in Seq(Nat) /\ Len(Bytes(lines)) = Len(lines) /\ DOMAIN Bytes(lines) = DOMAIN lines
  BY <1>1, <1>6, BytesType
<1>10. ASSUME NEW i \in 1 .. Len(bounds)
       PROVE  Bytes(lines)[i] = bounds[i]
  <2>1. i \in DOMAIN chunk /\ i \in 1 .. Len(chunk)
    BY <1>5, <1>8, Elements
  <2>2. bounds[i] = all_items[chunk[i]].response
    BY <2>1 DEF Responses
  <2>3. Bytes(lines)[i] = LineBytes(setters[chunk[i]])
    BY <1>6, <2>1 DEF Bytes
  <2> QED
    BY <1>4, <1>6, <2>1, <2>2, <2>3 DEF LineBytes
<1> HIDE DEF bounds
<1>11. Bytes(lines) = bounds
  <2>1. Len(Bytes(lines)) = Len(bounds) /\ \A i \in 1 .. Len(bounds) : Bytes(lines)[i] = bounds[i]
    BY <1>6, <1>8, <1>9, <1>10
  <2> QED
    BY <1>8, <1>9, <2>1, SameElements
<1>12. Total(Bytes(lines)) <= DeviceResponse
  <2>1. Total(bounds) <= MaxResponse
    BY <1>5 DEF Under, ReplyBytes, bounds
  <2>2. Total(bounds) \in Nat
    BY <1>8, TotalType
  <2> QED
    BY <1>11, <2>1, <2>2, MarginAssumption, BudgetAssumption
<1>13. CutOff(lines) = lines
  BY <1>1, <1>6, <1>12, CutOffType DEF Bytes
<1> QED
  BY <1>7, <1>13 DEF lines, setters, chunk

-----------------------------------------------------------------------------
(***************************************************************************)
(* What the dict a call builds up holds, as far as the call has come.      *)
(***************************************************************************)
Planned(request, ph) ==
    IF ph = "reading" THEN Plan[request].read_chunks ELSE Plan[request].write_chunks

\* How many of its requests a call has the answers to, first reads and then writes.
ReadsDone(request, ph, left) ==
    IF ph = "reading" THEN Len(Plan[request].read_chunks) - Len(left)
    ELSE Len(Plan[request].read_chunks)

WritesDone(request, ph, left) ==
    IF ph = "reading" THEN 0
    ELSE IF ph = "writing" THEN Len(Plan[request].write_chunks) - Len(left)
    ELSE Len(Plan[request].write_chunks)

\* The dict has the variables of the first n requests of the reads.
HasRead(request, dict, n) ==
    \A k \in 1 .. n : \A i \in Holds(Plan[request].read_chunks[k]) :
        \A v \in VariablesOf(Plan[request].reads[i].path) : v \in DOMAIN dict

LastFor(setters, i) == \A j \in DOMAIN setters : j > i => setters[j].path # setters[i].path

\* It has what the first n requests of the writes set last.
HasWritten(request, dict, n) ==
    \A i \in DOMAIN request.setters :
        (i <= EndAt(request, n) /\ LastFor(request.setters, i)) =>
            LET setter == request.setters[i]
            IN  setter.path \in DOMAIN dict /\ dict[setter.path] = setter.value

\* A value that the variable had at a look the call had at the store, or that the
\* call wrote to it.
Had(request, looks, v, value) ==
    v \in WrittenBy(request) \/ \E s \in looks : value = s[v]

OneMoment(dict, looks) == \E s \in looks : \A v \in DOMAIN dict : dict[v] = s[v]

\* A set of reads that go out as one request.
OneRead(request) ==
    LET all_items == Plan[request].read_items
    IN  request.setters = <<>> /\ all_items # <<>> /\ Under(all_items, AllOf(all_items))

\* The call is under way, or has returned: what it was to read and to write so far
\* is in the dict.
Gathered(request, ph, left, dict, looks) ==
    /\ ~Plan[request].reads_too_long
    /\ ph # "reading" => ~Plan[request].writes_too_long
    /\ AllForeseen(request, looks) => HasRead(request, dict, ReadsDone(request, ph, left))
    /\ HasWritten(request, dict, WritesDone(request, ph, left))
    /\ OneRead(request) =>
          IF ReadsDone(request, ph, left) = 0 THEN DOMAIN dict = {} ELSE OneMoment(dict, looks)

\* The queue is what is left of the requests of the loop.
InLoop(request, ph, left) ==
    LET chunks == Planned(request, ph)
    IN  /\ Len(left) \in 0 .. Len(chunks)
        /\ left = SubSeq(chunks, Len(chunks) - Len(left) + 1, Len(chunks))

\* A whole answer to the first request of the queue.
Answers(request, ph, left, lines, looks) ==
    /\ ph = "reading" =>
          /\ \E s \in looks : \A line \in Holds(lines) : line.value = s[line.path]
          /\ AllForeseen(request, looks) =>
                \A i \in Holds(Head(left)) : \A v \in VariablesOf(Plan[request].reads[i].path) :
                   \E line \in Holds(lines) : line.path = v
    /\ ph = "writing" => lines = Pick(request.setters, Head(left))

\* Of the answer of a call: where its values are from, what it must have by now, and
\* that an answer on its way is a whole one to what was asked.
Answering(call, ph, left, answer, dict, looks) ==
    /\ looks # {}
    /\ \A v \in DOMAIN dict : Had(call.request, looks, v, dict[v])
    /\ ph # "idle" => InLoop(call.request, ph, left)
    /\ ph # "idle" \/ call.outcome = "ok" => Gathered(call.request, ph, left, dict, looks)
    /\ answer # NoReply => Answers(call.request, ph, left, answer[1], looks)

AnsweringFor(c) ==
    calls[c] # <<>> =>
        Answering(LastCall(c), phase[c], queue[c], reply[c], responses[c], seen[c])

\* A caller that reads has looked at the store as it is, and the answers are in order.
Truthful ==
    /\ \A c \in Clients : phase[c] = "reading" => store \in seen[c]
    /\ \A c \in Clients : AnsweringFor(c)

\* The requests of a plan, as Pack has them.
LEMMA PlannedType ==
    ASSUME NEW request \in AllRequests, NEW ph \in {"reading", "writing"},
           ~Plan[request].reads_too_long, ph # "reading" => ~Plan[request].writes_too_long
    PROVE  /\ Planned(request, ph) \in Seq(ChunksOf(request, ph))
           /\ Len(Planned(request, ph)) \in Nat
<1>1. Planned(request, ph) \in Seq(ChunksOf(request, ph))
  BY PlanType DEF Planned
<1> QED
  BY <1>1, LenProperties

\* The first request of a queue, and the queue after it.
LEMMA QueueStep ==
    ASSUME NEW request \in AllRequests, NEW ph \in {"reading", "writing"},
           ~Plan[request].reads_too_long, ph # "reading" => ~Plan[request].writes_too_long,
           NEW left, left # <<>>, InLoop(request, ph, left)
    PROVE  LET chunks == Planned(request, ph)
               n == Len(chunks) - Len(left)
           IN  /\ n \in Nat /\ n + 1 \in 1 .. Len(chunks) /\ Len(chunks) \in Nat
               /\ Head(left) = chunks[n + 1]
               /\ InLoop(request, ph, Tail(left))
               /\ Len(chunks) - Len(Tail(left)) = n + 1
<1> DEFINE chunks == Planned(request, ph)
           all == Len(chunks)
           size == Len(left)
           n == all - size
           after == Tail(left)
<1>1. chunks \in Seq(ChunksOf(request, ph)) /\ all \in Nat
  BY PlannedType
<1>2. size \in 0 .. all /\ left = SubSeq(chunks, n + 1, all)
  BY DEF InLoop
<1>3. InLoop(request, ph, after)
         <=> Len(after) \in 0 .. all /\ after = SubSeq(chunks, all - Len(after) + 1, all)
  BY DEF InLoop
<1> HIDE DEF chunks
<1>4. n \in 0 .. Len(chunks)
  <2> HIDE DEF size
  <2> QED
    BY <1>1, <1>2
<1>5. /\ SubSeq(chunks, n + 1, Len(chunks)) = <<>> <=> n = Len(chunks)
      /\ n < Len(chunks) => /\ Head(SubSeq(chunks, n + 1, Len(chunks))) = chunks[n + 1]
                            /\ Tail(SubSeq(chunks, n + 1, Len(chunks)))
                                  = SubSeq(chunks, n + 2, Len(chunks))
  <2> HIDE DEF n
  <2> QED
    BY <1>1, <1>4, WhatIsLeft
<1>6. n < Len(chunks)
  <2> HIDE DEF size
  <2> QED
    BY <1>1, <1>2, <1>4, <1>5
<1>7. Head(left) = chunks[n + 1] /\ after = SubSeq(chunks, n + 2, all)
  BY <1>2, <1>5, <1>6
<1>8. left \in Seq(ChunksOf(request, ph))
  <2> DEFINE from == n + 1
             to == all
             part == SubSeq(chunks, from, to)
  <2>1. from \in Int /\ to \in Int
    BY <1>1, <1>4
  <2>2. \A i \in from .. to : chunks[i] \in ChunksOf(request, ph)
    <3>1. \A i \in from .. to : i \in 1 .. Len(chunks)
      <4> HIDE DEF size
      <4> QED
        BY <1>1, <1>2
    <3> QED
      BY <1>1, <3>1, ElementOfSeq
  <2> HIDE DEF from, to
  <2>3. part \in Seq(ChunksOf(request, ph))
    BY <2>1, <2>2, SubSeqProperties
  <2> QED
    BY <1>2, <2>3 DEF from, to
<1>9. Len(after) = size - 1
  BY <1>8, HeadTailProperties
<1> HIDE DEF after, size
<1>10. all - Len(after) = n + 1 /\ Len(after) \in 0 .. all /\ (n + 1) + 1 = n + 2
  BY <1>1, <1>2, <1>4, <1>6, <1>9
<1>11. InLoop(request, ph, after)
  BY <1>3, <1>7, <1>10
<1>12. n \in Nat /\ n + 1 \in 1 .. all
  BY <1>1, <1>2, <1>4, <1>6
<1> QED
  BY <1>1, <1>7, <1>10, <1>11, <1>12 DEF chunks, size, after

\* A set of reads that fit one request is one request.
LEMMA OneReadIsOneChunk ==
    ASSUME NEW request \in AllRequests, OneRead(request)
    PROVE  /\ Len(Plan[request].read_chunks) = 1
           /\ Len(Plan[request].write_chunks) = 0
<1> DEFINE all_items == ReadItems(request)
           writes == WriteItems(request)
<1>1. /\ Plan[request].read_items = all_items /\ Plan[request].read_chunks = Pack(all_items)
      /\ Plan[request].write_chunks = Pack(writes)
      /\ TooLong(writes) <=> \E i \in 1 .. Len(writes) : ~FitsAlone(writes[i])
  BY DEF Plan, TooLong
<1>2. all_items \in Seq(Item) /\ all_items # <<>> /\ Under(all_items, AllOf(all_items)) /\ request.setters = <<>>
  <2>1. all_items \in Seq(Item)
    BY ReadItemsType
  <2> QED
    BY <1>1, <2>1 DEF OneRead
<1>3. Len(Pack(all_items)) = 1
  <2> HIDE DEF all_items
  <2> QED
    BY <1>2, OneChunk
<1>4. writes \in Seq(Item) /\ Len(writes) = 0
  BY <1>2, WriteItemsType
<1> HIDE DEF writes, all_items
<1>5. ~TooLong(writes)
  BY <1>1, <1>4
<1>6. Pack(writes) \in Seq(Seq(1 .. Len(writes))) /\ CutsInOrder(Pack(writes), Len(writes))
  BY <1>4, <1>5, PackContract
<1>7. Len(Pack(writes)) = 0
  <2> DEFINE S == 1 .. Len(writes)
  <2>1. S \subseteq Nat \ {0}
    BY <1>4
  <2>2. Pack(writes) \in Seq(Seq(S)) /\ CutsInOrder(Pack(writes), 0)
    BY <1>4, <1>6
  <2> HIDE DEF S
  <2> QED
    BY <2>1, <2>2, EmptyWhenNothingTaken
<1> QED
  BY <1>1, <1>3, <1>7

\* A call begins with nothing read and nothing written.
LEMMA BeginAnswering ==
    ASSUME NEW call, call.request \in AllRequests, ~Plan[call.request].reads_too_long,
           NEW looks, looks # {}
    PROVE  Answering(call, "reading", Plan[call.request].read_chunks, NoReply, <<>>, looks)
<1> DEFINE request == call.request
           chunks == Plan[request].read_chunks
<1>1. Planned(request, "reading") = chunks
  BY DEF Planned
<1>2. chunks \in Seq(ChunksOf(request, "reading")) /\ Len(chunks) \in Nat
  BY <1>1, PlannedType
<1>3. InLoop(request, "reading", chunks)
  <2> DEFINE all == Len(chunks)
             rest == SubSeq(chunks, 1, all)
  <2>1. rest = chunks
    BY <1>2, SubSeqFull
  <2>2. all - all + 1 = 1 /\ all \in 0 .. all
    BY <1>2
  <2> QED
    BY <1>1, <2>1, <2>2 DEF InLoop
<1>4. ReadsDone(request, "reading", chunks) = 0 /\ WritesDone(request, "reading", chunks) = 0
  BY <1>2 DEF ReadsDone, WritesDone
<1>5. HasRead(request, <<>>, 0)
  BY DEF HasRead
<1>6. HasWritten(request, <<>>, 0)
  <2>1. EndAt(request, 0) = 0
    BY DEF EndAt
  <2>2. request.setters \in Seq(Setter)
    BY PlanType
  <2>3. \A i \in DOMAIN request.setters : ~(i <= 0)
    BY <2>2, Elements
  <2> QED
    BY <2>1, <2>3 DEF HasWritten
<1>7. Gathered(request, "reading", chunks, <<>>, looks)
  BY <1>4, <1>5, <1>6 DEF Gathered
<1> HIDE DEF chunks
<1>8. Answering(call, "reading", chunks, NoReply, <<>>, looks)
  BY <1>3, <1>7 DEF Answering
<1> QED
  BY <1>8 DEF chunks

\* A call that is turned down has nothing to answer.
LEMMA RefusedAnswering ==
    ASSUME NEW call, call.outcome # "ok", NEW left, NEW looks, looks # {}
    PROVE  Answering(call, "idle", left, NoReply, <<>>, looks)
BY DEF Answering

\* Another look at the store, and an answer to the first request of the queue.
LEMMA LookAnswering ==
    ASSUME NEW call, NEW ph, NEW left, NEW answer, NEW dict, NEW looks, NEW more,
           Answering(call, ph, left, answer, dict, looks), looks \subseteq more,
           NEW later, later = answer \/ Answers(call.request, ph, left, later[1], more)
    PROVE  Answering(call, ph, left, later, dict, more)
<1> DEFINE request == call.request
<1>1. \A v \in DOMAIN dict : Had(request, more, v, dict[v])
  BY DEF Answering, Had
<1>2. AllForeseen(request, more) => AllForeseen(request, looks)
  BY DEF AllForeseen
<1>3. Gathered(request, ph, left, dict, looks) => Gathered(request, ph, left, dict, more)
  BY <1>2 DEF Gathered, OneMoment
<1>4. \A lines : Answers(request, ph, left, lines, looks) => Answers(request, ph, left, lines, more)
  BY <1>2 DEF Answers
<1> QED
  BY <1>1, <1>3, <1>4 DEF Answering

\* The reads are done, and the writes are to follow.
LEMMA StartAnswering ==
    ASSUME NEW call, call.request \in AllRequests, ~Plan[call.request].writes_too_long,
           call.outcome = "open", NEW dict, NEW looks,
           Answering(call, "reading", <<>>, NoReply, dict, looks)
    PROVE  Answering(call, "writing", Plan[call.request].write_chunks, NoReply, dict, looks)
<1> DEFINE request == call.request
           reads == Plan[request].read_chunks
           chunks == Plan[request].write_chunks
<1>1. Gathered(request, "reading", <<>>, dict, looks)
  BY DEF Answering
<1>2. ~Plan[request].reads_too_long
  BY <1>1 DEF Gathered
<1>3. Planned(request, "reading") = reads /\ Planned(request, "writing") = chunks
  BY DEF Planned
<1>4. /\ reads \in Seq(ChunksOf(request, "reading")) /\ Len(reads) \in Nat
      /\ chunks \in Seq(ChunksOf(request, "writing")) /\ Len(chunks) \in Nat
  BY <1>2, <1>3, PlannedType
<1>5. InLoop(request, "writing", chunks)
  <2> DEFINE all == Len(chunks)
             rest == SubSeq(chunks, 1, all)
  <2>1. rest = chunks
    BY <1>4, SubSeqFull
  <2>2. all - all + 1 = 1 /\ all \in 0 .. all
    BY <1>4
  <2> QED
    BY <1>3, <2>1, <2>2 DEF InLoop
<1>6. /\ ReadsDone(request, "reading", <<>>) = Len(reads)
      /\ ReadsDone(request, "writing", chunks) = Len(reads)
      /\ WritesDone(request, "reading", <<>>) = 0 /\ WritesDone(request, "writing", chunks) = 0
  BY <1>4 DEF ReadsDone, WritesDone
<1>7. Gathered(request, "writing", chunks, dict, looks)
  BY <1>1, <1>2, <1>6 DEF Gathered
<1> HIDE DEF chunks
<1>8. Answering(call, "writing", chunks, NoReply, dict, looks)
  BY <1>5, <1>7 DEF Answering
<1> QED
  BY <1>8 DEF chunks

\* A call ends: well if its writes are done, else with no more to answer.
LEMMA EndAnswering ==
    ASSUME NEW call, call.request \in AllRequests, NEW ph, NEW left, NEW answer, NEW dict, NEW looks,
           Answering(call, ph, left, answer, dict, looks),
           NEW ended, ended.request = call.request,
           ended.outcome = "ok" => ph = "writing" /\ left = <<>>
    PROVE  Answering(ended, "idle", <<>>, NoReply, dict, looks)
<1> DEFINE request == call.request
<1>1. \A v \in DOMAIN dict : Had(request, looks, v, dict[v])
  BY DEF Answering
<1>2. ASSUME ended.outcome = "ok"
      PROVE  Gathered(request, "idle", <<>>, dict, looks)
  <2>1. ph = "writing" /\ left = <<>>
    BY <1>2
  <2>2. Gathered(request, "writing", <<>>, dict, looks)
    BY <2>1 DEF Answering
  <2>3. ~Plan[request].reads_too_long /\ ~Plan[request].writes_too_long
    BY <2>2 DEF Gathered
  <2>4. Len(Planned(request, "writing")) \in Nat
    BY <2>3, PlannedType
  <2>5. Len(Plan[request].write_chunks) \in Nat
    BY <2>4 DEF Planned
  <2>6. /\ ReadsDone(request, "writing", <<>>) = ReadsDone(request, "idle", <<>>)
        /\ WritesDone(request, "writing", <<>>) = WritesDone(request, "idle", <<>>)
    BY <2>5 DEF ReadsDone, WritesDone
  <2> QED
    BY <2>2, <2>6 DEF Gathered
<1> QED
  BY <1>1, <1>2 DEF Answering

\* The setters of the next request are in the dict, and those before them still are.
LEMMA MergeWrites ==
    ASSUME NEW request \in AllRequests, ~Plan[request].writes_too_long,
           NEW n \in Nat, n + 1 \in 1 .. Len(Plan[request].write_chunks),
           NEW dict, HasWritten(request, dict, n)
    PROVE  HasWritten(request,
                      Merge(dict, Pick(request.setters, Plan[request].write_chunks[n + 1])),
                      n + 1)
<1> DEFINE setters == request.setters
           chunks == Plan[request].write_chunks
           chunk == chunks[n + 1]
           lines == Pick(setters, chunk)
           after == Merge(dict, lines)
           from == EndAt(request, n)
           to == EndAt(request, n + 1)
<1>1. setters \in Seq(Setter) /\ Setter = Line /\ chunks \in Seq(Seq(1 .. Len(setters)))
  BY PlanType DEF Setter, Line, ChunksOf, ListOf
<1>2. InRuns(request)
  BY WritesInRuns
<1>3. /\ from \in Nat /\ to \in Nat /\ from < to
      /\ DOMAIN chunk = 1 .. to - from
      /\ \A j \in DOMAIN chunk : chunk[j] = from + j
  <2>1. Len(chunks) \in Nat /\ \A k \in 0 .. Len(chunks) : EndAt(request, k) \in Nat
    BY <1>2 DEF InRuns
  <2>2. n + 1 \in 0 .. Len(chunks) /\ n \in 0 .. Len(chunks) /\ (n + 1) - 1 = n
    BY <2>1
  <2>3. /\ DOMAIN chunk = 1 .. to - EndAt(request, (n + 1) - 1)
        /\ EndAt(request, (n + 1) - 1) < to
        /\ \A j \in DOMAIN chunk : chunk[j] = EndAt(request, (n + 1) - 1) + j
    BY <1>2 DEF InRuns
  <2> QED
    BY <2>1, <2>2, <2>3
<1>4. chunk \in Seq(1 .. Len(setters))
  BY <1>1, ElementOfSeq
<1> HIDE DEF setters, chunk, from, to
<1>5. /\ lines \in Seq(Setter) /\ DOMAIN lines = DOMAIN chunk
      /\ \A k \in DOMAIN chunk : lines[k] = setters[chunk[k]] /\ chunk[k] \in DOMAIN setters
  BY <1>1, <1>4, PickType
<1>6. lines \in Seq(Line)
  BY <1>1, <1>5
<1>7. DOMAIN setters = 1 .. Len(setters) /\ Len(setters) \in Nat
  BY <1>1, Elements
<1> HIDE DEF lines
<1>8. DOMAIN after = DOMAIN dict \cup {line.path : line \in Holds(lines)}
  BY MergeDomain
<1>9. ASSUME NEW i \in DOMAIN setters, i <= to, LastFor(setters, i)
      PROVE  setters[i].path \in DOMAIN after /\ after[setters[i].path] = setters[i].value
  <2> DEFINE v == setters[i].path
  <2>1. i \in Nat /\ i \in 1 .. Len(setters)
    BY <1>7
  <2>2. CASE i <= from
    <3>1. v \in DOMAIN dict /\ dict[v] = setters[i].value
      BY <1>9, <2>2 DEF HasWritten, setters, from
    <3>2. v \in DOMAIN after
      BY <1>8, <3>1
    <3>3. ASSUME NEW j \in DOMAIN lines
          PROVE  lines[j].path # v
      <4>1. j \in DOMAIN chunk /\ lines[j] = setters[chunk[j]] /\ chunk[j] \in DOMAIN setters
        BY <1>5
      <4>2. chunk[j] > i
        BY <1>3, <2>1, <2>2, <4>1
      <4> QED
        BY <1>9, <4>1, <4>2 DEF LastFor
    <3>4. At(lines, v) = {}
      BY <3>3 DEF At
    <3>5. after[v] = dict[v]
      BY <1>6, <3>2, <3>4, MergeValue
    <3> QED
      BY <3>1, <3>2, <3>5
  <2>3. CASE ~(i <= from)
    <3> DEFINE p == i - from
    <3>1. p \in DOMAIN chunk /\ chunk[p] = i
      BY <1>3, <1>9, <2>1, <2>3
    <3>2. p \in DOMAIN lines /\ lines[p] = setters[i] /\ lines[p].path = v
      BY <1>5, <3>1
    <3>3. v \in DOMAIN after
      BY <1>8, <3>2 DEF Holds
    <3>4. At(lines, v) # {}
      BY <3>2 DEF At
    <3>5. PICK q \in DOMAIN lines :
             /\ lines[q].path = v /\ after[v] = lines[q].value
             /\ \A j \in DOMAIN lines : lines[j].path = v => j <= q
      BY <1>6, <3>3, <3>4, MergeValue
    <3>6. p <= q
      BY <3>2, <3>5
    <3>7. q \in DOMAIN chunk /\ lines[q] = setters[chunk[q]] /\ chunk[q] \in DOMAIN setters
          /\ chunk[q] = from + q
      BY <1>3, <1>5
    <3>8. ~(chunk[q] > i)
      BY <1>9, <3>5, <3>7 DEF LastFor
    <3>9. q = p
      BY <1>3, <2>1, <3>6, <3>7, <3>8
    <3> QED
      BY <3>2, <3>3, <3>5, <3>9
  <2> QED
    BY <2>2, <2>3
<1> QED
  BY <1>9 DEF HasWritten, setters, lines, chunk, to

\* The answer to the first request of the queue goes into the dict.
LEMMA ReceiveAnswering ==
    ASSUME NEW call, call.request \in AllRequests, NEW ph \in {"reading", "writing"},
           NEW left, left # <<>>, NEW answer, answer # NoReply, answer[1] \in Seq(Line),
           NEW dict, NEW looks, Answering(call, ph, left, answer, dict, looks)
    PROVE  Answering(call, ph, Tail(left), NoReply, Merge(dict, answer[1]), looks)
<1> DEFINE request == call.request
           lines == answer[1]
           chunks == Planned(request, ph)
           n == Len(chunks) - Len(left)
           rest == Tail(left)
           after == Merge(dict, lines)
<1>1. /\ \A v \in DOMAIN dict : Had(request, looks, v, dict[v])
      /\ InLoop(request, ph, left) /\ Gathered(request, ph, left, dict, looks)
      /\ Answers(request, ph, left, lines, looks)
  BY DEF Answering
<1>2. ~Plan[request].reads_too_long /\ (ph # "reading" => ~Plan[request].writes_too_long)
  BY <1>1 DEF Gathered
<1>3. /\ n \in Nat /\ n + 1 \in 1 .. Len(chunks) /\ Len(chunks) \in Nat
      /\ Head(left) = chunks[n + 1]
      /\ InLoop(request, ph, rest)
      /\ Len(chunks) - Len(rest) = n + 1
  BY <1>1, <1>2, QueueStep
<1>4. DOMAIN after = DOMAIN dict \cup {line.path : line \in Holds(lines)}
  BY MergeDomain
<1>5. ASSUME NEW line \in Holds(lines)
      PROVE  Had(request, looks, line.path, line.value)
  <2>1. CASE ph = "reading"
    BY <1>1, <2>1 DEF Answers, Had
  <2>2. CASE ph = "writing"
    <3>1. lines = Pick(request.setters, Head(left))
      BY <1>1, <2>2 DEF Answers
    <3>2. chunks \in Seq(ChunksOf(request, ph))
      BY <1>2, PlannedType
    <3>3. chunks[n + 1] \in Seq(1 .. Len(request.setters))
      BY <1>3, <2>2, <3>2, ElementOfSeq DEF ChunksOf, ListOf
    <3>4. request.setters \in Seq(Setter)
      BY PlanType
    <3> DEFINE chunk == chunks[n + 1]
    <3>5. lines = Pick(request.setters, chunk) /\ chunk \in Seq(1 .. Len(request.setters))
      BY <1>3, <3>1, <3>3
    <3> HIDE DEF chunk
    <3>6. /\ DOMAIN lines = DOMAIN chunk
          /\ \A k \in DOMAIN chunk :
                lines[k] = request.setters[chunk[k]] /\ chunk[k] \in DOMAIN request.setters
      BY <3>4, <3>5, PickType
    <3>7. line.path \in {setter.path : setter \in Holds(request.setters)}
      BY <3>6 DEF Holds
    <3>8. Holds(request.setters) = ToSet(request.setters)
      BY DEF Holds, ToSet
    <3> QED
      BY <3>7, <3>8 DEF Had, WrittenBy
  <2> QED
    BY <2>1, <2>2
<1>6. ASSUME NEW v \in DOMAIN after
      PROVE  Had(request, looks, v, after[v])
  <2>1. CASE At(lines, v) = {}
    <3>1. v \in DOMAIN dict /\ after[v] = dict[v]
      BY <2>1, MergeValue
    <3> QED
      BY <1>1, <3>1
  <2>2. CASE At(lines, v) # {}
    <3>1. PICK i \in DOMAIN lines : lines[i].path = v /\ after[v] = lines[i].value
      BY <2>2, MergeValue
    <3>2. lines[i] \in Holds(lines)
      BY DEF Holds
    <3> QED
      BY <1>5, <3>1, <3>2
  <2> QED
    BY <2>1, <2>2
<1>7. ph = "reading" => ReadsDone(request, ph, left) = n /\ ReadsDone(request, ph, rest) = n + 1
  BY <1>3 DEF ReadsDone, Planned
<1>8. ph = "writing" =>
         /\ WritesDone(request, ph, left) = n /\ WritesDone(request, ph, rest) = n + 1
         /\ ReadsDone(request, ph, left) = ReadsDone(request, ph, rest)
  BY <1>3 DEF ReadsDone, WritesDone, Planned
<1>9. ASSUME AllForeseen(request, looks)
      PROVE  HasRead(request, after, ReadsDone(request, ph, rest))
  <2>1. HasRead(request, dict, ReadsDone(request, ph, left))
    BY <1>1, <1>9 DEF Gathered
  <2>2. CASE ph = "writing"
    BY <1>4, <1>8, <2>1, <2>2 DEF HasRead
  <2>3. CASE ph = "reading"
    <3>1. ASSUME NEW i \in Holds(chunks[n + 1]), NEW v \in VariablesOf(Plan[request].reads[i].path)
          PROVE  v \in DOMAIN after
      <4>1. \E line \in Holds(lines) : line.path = v
        BY <1>1, <1>3, <1>9, <2>3 DEF Answers
      <4> QED
        BY <1>4, <4>1
    <3>2. \A k \in 1 .. n + 1 : k \in 1 .. n \/ k = n + 1
      BY <1>3
    <3>3. chunks = Plan[request].read_chunks
      BY <2>3 DEF Planned
    <3>4. \A k \in 1 .. n : \A i \in Holds(Plan[request].read_chunks[k]) :
             \A v \in VariablesOf(Plan[request].reads[i].path) : v \in DOMAIN after
      BY <1>4, <1>7, <2>1, <2>3 DEF HasRead
    <3>5. \A k \in 1 .. n + 1 : \A i \in Holds(Plan[request].read_chunks[k]) :
             \A v \in VariablesOf(Plan[request].reads[i].path) : v \in DOMAIN after
      BY <3>1, <3>2, <3>3, <3>4, Zenon
    <3> QED
      BY <1>7, <2>3, <3>5 DEF HasRead
  <2> QED
    BY <2>2, <2>3
<1>10. HasWritten(request, after, WritesDone(request, ph, rest))
  <2>1. HasWritten(request, dict, WritesDone(request, ph, left))
    BY <1>1 DEF Gathered
  <2>2. CASE ph = "writing"
    <3>1. HasWritten(request, dict, n) /\ chunks = Plan[request].write_chunks
      BY <1>8, <2>1, <2>2 DEF Planned
    <3>2. lines = Pick(request.setters, chunks[n + 1])
      BY <1>1, <1>3, <2>2 DEF Answers
    <3>3. ~Plan[request].writes_too_long
      BY <1>2, <2>2
    <3>4. n + 1 \in 1 .. Len(Plan[request].write_chunks) /\ n \in Nat
      BY <1>3, <3>1
    <3> HIDE DEF n
    <3>5. HasWritten(request,
             Merge(dict, Pick(request.setters, Plan[request].write_chunks[n + 1])), n + 1)
      BY <3>1, <3>3, <3>4, MergeWrites
    <3> QED
      BY <1>8, <2>2, <3>1, <3>2, <3>5
  <2>3. CASE ph = "reading"
    <3>1. WritesDone(request, ph, rest) = 0 /\ EndAt(request, 0) = 0
      BY <2>3 DEF WritesDone, EndAt
    <3>2. request.setters \in Seq(Setter)
      BY PlanType
    <3>3. \A i \in DOMAIN request.setters : ~(i <= 0)
      BY <3>2, Elements
    <3> QED
      BY <3>1, <3>3 DEF HasWritten
  <2> QED
    BY <2>2, <2>3
<1>11. ASSUME OneRead(request)
       PROVE  ReadsDone(request, ph, rest) # 0 /\ OneMoment(after, looks)
  <2>1. Len(Plan[request].read_chunks) = 1 /\ Len(Plan[request].write_chunks) = 0
    BY <1>11, OneReadIsOneChunk
  <2>2. ph = "reading"
    <3>1. ph = "writing" => Len(chunks) = 0
      BY <2>1 DEF Planned
    <3> QED
      BY <1>3, <3>1
  <2>3. Len(chunks) = 1 /\ n = 0
    <3>1. Len(chunks) = 1
      BY <2>1, <2>2 DEF Planned
    <3> HIDE DEF n
    <3> QED
      BY <1>3, <3>1
  <2>4. ReadsDone(request, ph, left) = 0 /\ ReadsDone(request, ph, rest) = 1
    BY <1>7, <2>2, <2>3
  <2>5. DOMAIN dict = {}
    BY <1>1, <1>11, <2>4 DEF Gathered
  <2>6. PICK s \in looks : \A line \in Holds(lines) : line.value = s[line.path]
    BY <1>1, <2>2 DEF Answers
  <2>7. ASSUME NEW v \in DOMAIN after
        PROVE  after[v] = s[v]
    <3>1. At(lines, v) # {}
      BY <2>5, MergeValue
    <3>2. PICK i \in DOMAIN lines : lines[i].path = v /\ after[v] = lines[i].value
      BY <3>1, MergeValue
    <3>3. lines[i] \in Holds(lines)
      BY DEF Holds
    <3> QED
      BY <2>6, <3>2, <3>3
  <2> QED
    BY <2>4, <2>7 DEF OneMoment
<1>12. Gathered(request, ph, rest, after, looks)
  BY <1>2, <1>9, <1>10, <1>11 DEF Gathered
<1> HIDE DEF rest, after
<1>13. Answering(call, ph, rest, NoReply, after, looks)
  BY <1>3, <1>6, <1>12 DEF Answering
<1> QED
  BY <1>13 DEF rest, after

\* What a step leaves alone of a caller and its answer; it may look at the store.
Untouched(c) ==
    /\ calls'[c] = calls[c] /\ phase'[c] = phase[c] /\ queue'[c] = queue[c]
    /\ reply'[c] = reply[c] /\ responses'[c] = responses[c]
    /\ seen[c] \subseteq seen'[c]

\* Such a step keeps what the answer is known to hold.
LEMMA UntouchedAnswering ==
    ASSUME NEW c \in Clients, Untouched(c), AnsweringFor(c)
    PROVE  AnsweringFor(c)'
<1>1. LastCall(c)' = LastCall(c)
  BY DEF Untouched, LastCall
<1>2. CASE calls[c] = <<>>
  BY <1>2 DEF Untouched, AnsweringFor
<1>3. CASE calls[c] # <<>>
  <2>1. Answering(LastCall(c), phase[c], queue[c], reply[c], responses[c], seen[c])
    BY <1>3 DEF AnsweringFor
  <2>2. seen[c] \subseteq seen'[c]
    BY DEF Untouched
  <2>3. Answering(LastCall(c), phase[c], queue[c], reply[c], responses[c], seen'[c])
    BY <2>1, <2>2, LookAnswering
  <2>4. Answering(LastCall(c)', phase'[c], queue'[c], reply'[c], responses'[c], seen'[c])
    BY <1>1, <2>3 DEF Untouched
  <2> QED
    BY <2>4 DEF AnsweringFor, Answering, InLoop, Gathered, Answers, Planned, ReadsDone, WritesDone
<1> QED
  BY <1>2, <1>3

\* A caller that waits for nothing has no reply, and one that is idle waits for nothing.
LEMMA NoReplyYet ==
    ASSUME Inv, NEW c \in Clients, phase[c] = "idle" \/ queue[c] = <<>> \/ ~waiting[c]
    PROVE  reply[c] = NoReply
BY DEF Inv, FineFor, Fine

\* Truthful is kept by the steps: by the beginning of a call, its end, its loops, and
\* by what becomes of a request.
LEMMA BeginTruthful ==
    ASSUME Inv, Typed, Truthful, NEW c \in Clients, NEW r \in Requests[c],
           Begin(c, r) \/ BeginInvalid(c, r) \/ BeginTooLong(c, r)
    PROVE  Truthful'
<1>1. PICK outcome \in Outcomes \ {"ok"} :
         /\ Opened(c, r, outcome)
         /\ \/ outcome # "open" /\ UNCHANGED <<phase, queue>>
            \/ /\ outcome = "open" /\ ~Plan[r].reads_too_long
               /\ phase' = [phase EXCEPT ![c] = "reading"]
               /\ queue' = [queue EXCEPT ![c] = Plan[r].read_chunks]
  BY DEF Begin, BeginInvalid, BeginTooLong, Outcomes
<1> DEFINE call == [request |-> r, outcome |-> outcome]
<1>2. /\ calls' = [calls EXCEPT ![c] = Append(calls[c], call)]
      /\ responses' = [responses EXCEPT ![c] = <<>>]
      /\ seen' = [seen EXCEPT ![c] = {store}]
      /\ UNCHANGED <<store, reply>> /\ phase[c] = "idle"
  BY <1>1 DEF Opened
<1>3. r \in AllRequests /\ calls[c] \in Seq(CallRecord) /\ call \in CallRecord
      /\ call.request = r /\ call.outcome = outcome
  BY <1>1, OpenAlike DEF AllRequests, CallRecord
<1> HIDE DEF call
<1>4. calls'[c] # <<>> /\ LastCall(c)' = call
  <2> DEFINE list == calls[c]
             longer == Append(list, call)
  <2>1. list \in Seq(CallRecord) /\ calls'[c] = longer
    BY <1>2, <1>3 DEF Typed, TypeOK
  <2> HIDE DEF list
  <2>2. longer \in Seq(CallRecord) /\ Len(longer) = Len(list) + 1 /\ longer[Len(list) + 1] = call
        /\ Len(list) \in Nat
    BY <1>3, <2>1, AppendProperties, LenProperties
  <2> HIDE DEF longer
  <2>3. longer # <<>>
    BY <2>2, EmptySeq
  <2> QED
    BY <2>1, <2>2, <2>3 DEF LastCall
<1>5. ASSUME NEW d \in Clients, d # c
      PROVE  Untouched(d)
  BY <1>1, <1>2, <1>5 DEF Untouched, Typed, TypeOK
<1>6. reply'[c] = NoReply /\ responses'[c] = <<>> /\ seen'[c] = {store} /\ seen'[c] # {}
  BY <1>2, NoReplyYet DEF Typed, TypeOK
<1>7. Answering(call, phase'[c], queue'[c], NoReply, <<>>, seen'[c])
  <2>1. CASE outcome # "open"
    <3>1. phase'[c] = "idle"
      BY <1>1, <1>2, <2>1
    <3> QED
      <4> DEFINE looks == seen'[c]
      <4>1. looks # {} /\ call.outcome # "ok"
        BY <1>1, <1>3, <1>6
      <4> HIDE DEF looks
      <4>2. \A left : Answering(call, "idle", left, NoReply, <<>>, looks)
        BY <4>1, RefusedAnswering
      <4> QED
        BY <3>1, <4>2 DEF looks
  <2>2. CASE outcome = "open"
    <3>1. phase'[c] = "reading" /\ queue'[c] = Plan[r].read_chunks /\ ~Plan[r].reads_too_long
      BY <1>1, <2>2 DEF Typed, TypeOK
    <3> QED
      BY <1>3, <1>6, <3>1, BeginAnswering
  <2> QED
    BY <2>1, <2>2
<1>8. AnsweringFor(c)'
  <2>1. Answering(LastCall(c)', phase'[c], queue'[c], reply'[c], responses'[c], seen'[c])
    BY <1>4, <1>6, <1>7
  <2> QED
    BY <2>1 DEF AnsweringFor, Answering, InLoop, Gathered, Answers, Planned, ReadsDone, WritesDone
<1>9. \A d \in Clients : AnsweringFor(d)'
  <2> SUFFICES ASSUME NEW d \in Clients PROVE AnsweringFor(d)'
    OBVIOUS
  <2>1. CASE d = c
    BY <1>8, <2>1
  <2>2. CASE d # c
    <3>1. Untouched(d) /\ AnsweringFor(d)
      BY <1>5, <2>2 DEF Truthful
    <3> QED
      BY <3>1, UntouchedAnswering
  <2> QED
    BY <2>1, <2>2
<1>11. \A d \in Clients : phase'[d] = "reading" => store' \in seen'[d]
  <2> SUFFICES ASSUME NEW d \in Clients, phase'[d] = "reading" PROVE store' \in seen'[d]
    OBVIOUS
  <2>1. CASE d = c
    BY <1>2, <1>6, <2>1
  <2>2. CASE d # c
    BY <1>2, <1>5, <2>2 DEF Untouched, Truthful
  <2> QED
    BY <2>1, <2>2
<1> QED
  BY <1>9, <1>11 DEF Truthful

LEMMA EndTruthful ==
    ASSUME Inv, Typed, Truthful, NEW c \in Clients, GiveUp(c) \/ RejectWrites(c) \/ Return(c)
    PROVE  Truthful'
<1>1. PICK outcome \in Outcomes \ {"open"} :
         /\ Ended(c, outcome) /\ UNCHANGED <<store, responses, seen>>
         /\ \/ reply' = [reply EXCEPT ![c] = NoReply]
            \/ reply' = reply /\ queue[c] = <<>>
         /\ outcome = "ok" => phase[c] = "writing" /\ queue[c] = <<>>
         /\ waiting[c] \/ phase[c] # "idle"
  BY DEF GiveUp, RejectWrites, Return, Outcomes
<1>2. /\ calls' = [calls EXCEPT ![c][Len(calls[c])].outcome = outcome]
      /\ phase' = [phase EXCEPT ![c] = "idle"] /\ queue' = [queue EXCEPT ![c] = <<>>]
  BY <1>1 DEF Ended
<1>3. phase[c] # "idle"
  BY <1>1 DEF Inv, FineFor, Fine
<1>4. /\ phase'[c] = "idle" /\ queue'[c] = <<>> /\ reply'[c] = NoReply
      /\ responses'[c] = responses[c] /\ seen'[c] = seen[c]
  BY <1>1, <1>2, NoReplyYet DEF Typed, TypeOK
<1>5. /\ Len(calls[c]) \in Nat \ {0} /\ LastCall(c) \in CallRecord
      /\ LastCall(c).request \in AllRequests /\ calls[c] \in Seq(CallRecord)
  BY <1>3, PresentCall, OpenAlike
<1>6. /\ LastCall(c)'.request = LastCall(c).request /\ LastCall(c)'.outcome = outcome
  <2> DEFINE list == calls[c]
             last == Len(list)
             after == [list EXCEPT ![last].outcome = outcome]
  <2>1. calls'[c] = after
    BY <1>2 DEF Typed, TypeOK
  <2>2. last \in 1 .. last /\ list[last] \in CallRecord /\ DOMAIN list = 1 .. last
    BY <1>5, LenProperties DEF LastCall
  <2>3. after[last] = [list[last] EXCEPT !.outcome = outcome]
    BY <2>2
  <2>4. Len(after) = last
    BY <1>5
  <2>5. LastCall(c)' = after[last]
    BY <2>1, <2>4 DEF LastCall
  <2>6. list[last] = LastCall(c)
    BY DEF LastCall
  <2> HIDE DEF list, last, after
  <2>7. LastCall(c)' = [LastCall(c) EXCEPT !.outcome = outcome]
    BY <2>3, <2>5, <2>6
  <2> QED
    BY <1>5, <2>7 DEF CallRecord
<1>7. Answering(LastCall(c), phase[c], queue[c], reply[c], responses[c], seen[c])
  <2>1. calls[c] # <<>>
    BY <1>5, EmptySeq
  <2> QED
    BY <2>1 DEF Truthful, AnsweringFor
<1>8. Answering(LastCall(c)', "idle", <<>>, NoReply, responses[c], seen[c])
  BY <1>1, <1>5, <1>6, <1>7, EndAnswering
<1>9. AnsweringFor(c)'
  <2>1. Answering(LastCall(c)', phase'[c], queue'[c], reply'[c], responses'[c], seen'[c])
    BY <1>4, <1>8
  <2> QED
    BY <2>1 DEF AnsweringFor, Answering, InLoop, Gathered, Answers, Planned, ReadsDone, WritesDone
<1>10. ASSUME NEW d \in Clients, d # c
       PROVE  Untouched(d)
  BY <1>1, <1>2, <1>10 DEF Untouched, Typed, TypeOK
<1>11. \A d \in Clients : AnsweringFor(d)'
  <2> SUFFICES ASSUME NEW d \in Clients PROVE AnsweringFor(d)'
    OBVIOUS
  <2>1. CASE d = c
    BY <1>9, <2>1
  <2>2. CASE d # c
    <3>1. Untouched(d) /\ AnsweringFor(d)
      BY <1>10, <2>2 DEF Truthful
    <3> QED
      BY <3>1, UntouchedAnswering
  <2> QED
    BY <2>1, <2>2
<1>13. \A d \in Clients : phase'[d] = "reading" => store' \in seen'[d]
  BY <1>1, <1>2 DEF Truthful, Typed, TypeOK
<1> QED
  BY <1>11, <1>13 DEF Truthful

\* A step of one caller leaves the others alone.
LEMMA OthersAnswering ==
    ASSUME Truthful, NEW c \in Clients, AnsweringFor(c)',
           \A d \in Clients : d # c => Untouched(d)
    PROVE  \A d \in Clients : AnsweringFor(d)'
<1> SUFFICES ASSUME NEW d \in Clients PROVE AnsweringFor(d)'
  OBVIOUS
<1>1. CASE d = c
  BY <1>1
<1>2. CASE d # c
  <2>1. Untouched(d) /\ AnsweringFor(d)
    BY <1>2 DEF Truthful
  <2> QED
    BY <2>1, UntouchedAnswering
<1> QED
  BY <1>1, <1>2

LEMMA LoopTruthful ==
    ASSUME Inv, Typed, Truthful, NEW c \in Clients, Send(c) \/ Receive(c) \/ StartWrites(c)
    PROVE  Truthful'
<1> DEFINE call == LastCall(c)
<1>1. UNCHANGED <<store, calls, seen>> /\ phase[c] # "idle"
  BY DEF Send, Receive, StartWrites, Inv, FineFor, Fine
<1>3. \A d \in Clients : phase'[d] = "reading" => store' \in seen'[d]
  BY <1>1 DEF Send, Receive, StartWrites, Truthful, Typed, TypeOK
<1>4. /\ Len(calls[c]) \in Nat \ {0} /\ call.request \in AllRequests
      /\ phase[c] \in {"reading", "writing"} /\ call.outcome = "open" /\ calls[c] # <<>>
  <2>1. IsOpen(calls[c])
    BY <1>1, OpenAlike
  <2> QED
    BY <1>1, <2>1, PresentCall DEF IsOpen, LastCall
<1>5. Answering(call, phase[c], queue[c], reply[c], responses[c], seen[c])
  BY <1>4 DEF Truthful, AnsweringFor
<1>6. LastCall(c)' = call
  BY <1>1 DEF LastCall
<1> HIDE DEF call
<1>7. CASE Send(c)
  <2>1. \A d \in Clients : Untouched(d)
    BY <1>7 DEF Send, Untouched
  <2>2. \A d \in Clients : AnsweringFor(d)'
    BY <2>1, UntouchedAnswering DEF Truthful
  <2> QED
    BY <1>3, <2>2 DEF Truthful
<1>8. CASE Receive(c)
  <2>1. /\ waiting[c] /\ reply[c] # NoReply /\ UNCHANGED phase
        /\ responses' = [responses EXCEPT ![c] = Merge(responses[c], reply[c][1])]
        /\ queue' = [queue EXCEPT ![c] = Tail(queue[c])]
        /\ reply' = [reply EXCEPT ![c] = NoReply]
    BY <1>8 DEF Receive
  <2>2. queue[c] # <<>> /\ reply[c] \in Seq(Seq(Line))
    BY <2>1 DEF Typed, TypeOK
  <2>3. reply[c][1] \in Seq(Line)
    <3>1. Len(reply[c]) \in Nat /\ Len(reply[c]) # 0
      BY <2>1, <2>2, LenProperties, EmptySeq DEF NoReply
    <3>2. 1 \in 1 .. Len(reply[c])
      BY <3>1
    <3> QED
      BY <2>2, <3>2, ElementOfSeq
  <2>4. Answering(call, phase[c], Tail(queue[c]), NoReply,
                  Merge(responses[c], reply[c][1]), seen[c])
    BY <1>4, <1>5, <2>1, <2>2, <2>3, ReceiveAnswering
  <2>5. /\ queue'[c] = Tail(queue[c]) /\ reply'[c] = NoReply /\ phase'[c] = phase[c]
        /\ responses'[c] = Merge(responses[c], reply[c][1]) /\ seen'[c] = seen[c]
    BY <1>1, <2>1 DEF Typed, TypeOK
  <2>6. Answering(LastCall(c)', phase'[c], queue'[c], reply'[c], responses'[c], seen'[c])
    BY <1>6, <2>4, <2>5
  <2>7. AnsweringFor(c)'
    BY <2>6 DEF AnsweringFor, Answering, InLoop, Gathered, Answers, Planned, ReadsDone, WritesDone
  <2>8. \A d \in Clients : d # c => Untouched(d)
    BY <1>1, <2>1 DEF Untouched, Typed, TypeOK
  <2>9. \A d \in Clients : AnsweringFor(d)'
    BY <2>7, <2>8, OthersAnswering
  <2> QED
    BY <1>3, <2>9 DEF Truthful
<1>9. CASE StartWrites(c)
  <2>1. /\ phase[c] = "reading" /\ queue[c] = <<>> /\ ~Plan[call.request].writes_too_long
        /\ queue' = [queue EXCEPT ![c] = Plan[call.request].write_chunks]
        /\ phase' = [phase EXCEPT ![c] = "writing"]
        /\ UNCHANGED <<reply, responses>>
    BY <1>9 DEF StartWrites, call, LastCall
  <2>2. reply[c] = NoReply
    BY <2>1, NoReplyYet
  <2>3. Answering(call, "writing", Plan[call.request].write_chunks, NoReply,
                  responses[c], seen[c])
    BY <1>4, <1>5, <2>1, <2>2, StartAnswering
  <2>4. /\ queue'[c] = Plan[call.request].write_chunks /\ phase'[c] = "writing"
        /\ reply'[c] = NoReply /\ responses'[c] = responses[c] /\ seen'[c] = seen[c]
    BY <1>1, <2>1, <2>2 DEF Typed, TypeOK
  <2>5. Answering(LastCall(c)', phase'[c], queue'[c], reply'[c], responses'[c], seen'[c])
    BY <1>6, <2>3, <2>4
  <2>6. AnsweringFor(c)'
    BY <2>5 DEF AnsweringFor, Answering, InLoop, Gathered, Answers, Planned, ReadsDone, WritesDone
  <2>7. \A d \in Clients : d # c => Untouched(d)
    BY <1>1, <2>1 DEF Untouched, Typed, TypeOK
  <2>8. \A d \in Clients : AnsweringFor(d)'
    BY <2>6, <2>7, OthersAnswering
  <2> QED
    BY <1>3, <2>8 DEF Truthful
<1> QED
  BY <1>7, <1>8, <1>9

\* The answer to the request a caller waits for is whole.
LEMMA AwaitedAnswer ==
    ASSUME Inv, Typed, Truthful, NEW m \in network, Awaited(m),
           NEW looks, m.phase = "reading" => store \in looks
    PROVE  LET c == m.client
           IN  /\ c \in Clients /\ calls[c] # <<>>
               /\ Answers(LastCall(c).request, phase[c], queue[c], CutOff(ReplyLines(m)), looks)
<1> DEFINE c == m.client
           request == LastCall(c).request
           chunks == Planned(request, phase[c])
           n == Len(chunks) - Len(queue[c])
           lines == ReplyLines(m)
<1>1. m \in Messages /\ c \in Clients
  BY DEF Typed, TypeOK, Messages
<1>2. /\ waiting[c] /\ m.phase = phase[c] /\ m.request = request /\ m.chunk = Head(queue[c])
  BY DEF Awaited, Message, LastCall
<1>3. queue[c] # <<>> /\ phase[c] # "idle"
  BY <1>1, <1>2 DEF Inv, FineFor, Fine
<1>4. /\ Len(calls[c]) \in Nat \ {0} /\ request \in AllRequests
      /\ phase[c] \in {"reading", "writing"}
  BY <1>1, <1>3, PresentCall
<1>5. calls[c] # <<>>
  BY <1>4, EmptySeq
<1>6. InLoop(request, phase[c], queue[c]) /\ Gathered(request, phase[c], queue[c], responses[c], seen[c])
  BY <1>1, <1>3, <1>5 DEF Truthful, AnsweringFor, Answering
<1>7. ~Plan[request].reads_too_long /\ (phase[c] # "reading" => ~Plan[request].writes_too_long)
  BY <1>6 DEF Gathered
<1>8. n + 1 \in 1 .. Len(chunks) /\ Head(queue[c]) = chunks[n + 1]
  BY <1>3, <1>4, <1>6, <1>7, QueueStep
<1> HIDE DEF n
<1>9. Answers(request, phase[c], queue[c], CutOff(lines), looks)
  <2>1. CASE phase[c] = "reading"
    <3>1. chunks = Plan[request].read_chunks
      BY <2>1 DEF Planned
    <3>2. store \in [Variables -> Values] /\ store \in looks
      BY <1>2, <2>1 DEF Typed, TypeOK
    <3>3. ASSUME AllForeseen(request, looks)
          PROVE  /\ CutOff(lines) = lines
                 /\ \A i \in Holds(m.chunk) : \A v \in VariablesOf(Plan[request].reads[i].path) :
                       \E line \in Holds(lines) : line.path = v
      <4>2. AllForeseen(request, {store})
        BY <3>2, <3>3 DEF AllForeseen
      <4>1. n + 1 \in 1 .. Len(Plan[request].read_chunks)
            /\ m.chunk = Plan[request].read_chunks[n + 1] /\ m.phase = "reading"
        BY <1>2, <1>8, <2>1, <3>1
      <4> QED
        BY <1>2, <1>4, <1>7, <3>2, <4>1, <4>2, ReadsUncut
    <3>4. \A line \in Holds(lines) : line.value = store[line.path]
      BY <1>2, <2>1, ReplyLinesType
    <3>5. Holds(CutOff(lines)) \subseteq Holds(lines)
      BY ReplyLinesType, CutOffType
    <3> HIDE DEF lines
    <3> QED
      BY <1>2, <2>1, <3>2, <3>3, <3>4, <3>5 DEF Answers
  <2>2. CASE phase[c] = "writing"
    <3>1. chunks = Plan[request].write_chunks
      BY <2>2 DEF Planned
    <3>2. CutOff(lines) = lines /\ lines = Pick(request.setters, m.chunk)
      <4>1. n + 1 \in 1 .. Len(Plan[request].write_chunks)
            /\ m.chunk = Plan[request].write_chunks[n + 1] /\ m.phase = "writing"
        BY <1>2, <1>8, <2>2, <3>1
      <4> QED
        BY <1>2, <1>4, <1>7, <2>2, <4>1, WritesUncut
    <3> HIDE DEF lines
    <3> QED
      BY <1>2, <2>2, <3>2 DEF Answers
  <2> QED
    BY <1>4, <2>1, <2>2
<1> QED
  BY <1>1, <1>5, <1>9

LEMMA DealtTruthful ==
    ASSUME Inv, Typed, Sound, Truthful, NEW m \in network, Serve(m) \/ Lose(m)
    PROVE  Truthful'
<1>1. UNCHANGED <<calls, phase, queue, waiting, responses>>
  BY DEF Serve, Lose, client
<1>2. \A d : LastCall(d)' = LastCall(d)
  BY <1>1 DEF LastCall
<1>3. CASE Lose(m)
  <2>1. UNCHANGED <<store, reply, seen>>
    BY <1>3 DEF Lose
  <2>2. \A d \in Clients : Untouched(d)
    BY <1>1, <2>1 DEF Untouched
  <2>3. \A d \in Clients : AnsweringFor(d)'
    BY <2>2, UntouchedAnswering DEF Truthful
  <2>4. \A d \in Clients : phase'[d] = "reading" => store' \in seen'[d]
    BY <1>1, <2>1 DEF Truthful
  <2> QED
    BY <2>3, <2>4 DEF Truthful
<1>4. CASE Serve(m)
  <2> DEFINE c == m.client
             answer == <<CutOff(ReplyLines(m))>>
  <2>1. m \in Messages /\ m.phase \in {"reading", "writing"} /\ c \in Clients
    BY DEF Typed, TypeOK, Messages
  <2>2. ASSUME NEW d \in Clients
        PROVE  /\ seen[d] \subseteq seen'[d]
               /\ phase[d] = "reading" => store' \in seen'[d]
    BY <1>4 DEF Serve, Observe
  <2>4. \A d \in Clients : phase'[d] = "reading" => store' \in seen'[d]
    BY <1>1, <2>2
  <2>5. CASE ~Awaited(m)
    <3>1. reply' = reply
      BY <1>4, <2>5 DEF Serve
    <3>2. \A d \in Clients : Untouched(d)
      BY <1>1, <2>2, <3>1 DEF Untouched
    <3>3. \A d \in Clients : AnsweringFor(d)'
      BY <3>2, UntouchedAnswering DEF Truthful
    <3> QED
      BY <2>4, <3>3 DEF Truthful
  <2>6. CASE Awaited(m)
    <3>1. reply' = [reply EXCEPT ![c] = answer]
      BY <1>4, <2>6 DEF Serve
    <3>2. \A d \in Clients : d # c => Untouched(d)
      BY <1>1, <2>2, <3>1 DEF Untouched, Typed, TypeOK
    <3>3. m.phase = "reading" => store \in seen'[c]
      <4>1. m.phase = phase[c]
        BY <2>6 DEF Awaited, Message
      <4> QED
        BY <2>1, <2>2, <4>1 DEF Truthful
    <3>4. /\ calls[c] # <<>>
          /\ Answers(LastCall(c).request, phase[c], queue[c], CutOff(ReplyLines(m)), seen'[c])
      BY <2>6, <3>3, AwaitedAnswer
    <3>5. Answering(LastCall(c), phase[c], queue[c], reply[c], responses[c], seen[c])
      BY <2>1, <3>4 DEF Truthful, AnsweringFor
    <3>6. seen[c] \subseteq seen'[c] /\ reply'[c] = answer /\ answer[1] = CutOff(ReplyLines(m))
      BY <2>1, <2>2, <3>1 DEF Typed, TypeOK
    <3> HIDE DEF answer
    <3>7. Answering(LastCall(c), phase[c], queue[c], answer, responses[c], seen'[c])
      BY <3>4, <3>5, <3>6, LookAnswering
    <3>8. Answering(LastCall(c)', phase'[c], queue'[c], reply'[c], responses'[c], seen'[c])
      BY <1>1, <1>2, <3>6, <3>7
    <3>9. AnsweringFor(c)'
      BY <3>8 DEF AnsweringFor, Answering, InLoop, Gathered, Answers, Planned, ReadsDone, WritesDone
    <3>10. \A d \in Clients : AnsweringFor(d)'
      BY <2>1, <3>2, <3>9, OthersAnswering
    <3> QED
      BY <2>4, <3>10 DEF Truthful
  <2> QED
    BY <2>5, <2>6
<1> QED
  BY <1>3, <1>4

LEMMA InitTruthful == Init => Truthful
<1> SUFFICES ASSUME Init PROVE Truthful
  OBVIOUS
<1>2. \A c \in Clients : phase[c] # "reading" /\ calls[c] = <<>>
  BY DEF Init
<1> QED
  BY <1>2 DEF Truthful, AnsweringFor

LEMMA NextTruthful == Inv /\ Typed /\ Sound /\ Truthful /\ [Next]_vars => Truthful'
<1> SUFFICES ASSUME Inv, Typed, Sound, Truthful, [Next]_vars PROVE Truthful'
  OBVIOUS
<1>1. CASE UNCHANGED vars
  <2>1. \A c \in Clients : Untouched(c)
    BY <1>1 DEF vars, Untouched
  <2>2. \A c \in Clients : AnsweringFor(c)'
    BY <2>1, UntouchedAnswering DEF Truthful
  <2> QED
    BY <1>1, <2>2 DEF vars, Truthful
<1>2. CASE Next
  BY <1>2, BeginTruthful, LoopTruthful, EndTruthful, DealtTruthful DEF Next, Proceed
<1> QED
  BY <1>1, <1>2

LEMMA AlwaysTruthful == Spec => [](Inv /\ Typed /\ Truthful)
<1>1. Init => Inv /\ Typed /\ Sound /\ Truthful
  BY InitInv, InitTyped, InitSound, InitTruthful
<1>2. Inv /\ Typed /\ Sound /\ Truthful /\ [Next]_vars => (Inv /\ Typed /\ Sound /\ Truthful)'
  BY NextInv, NextTyped, NextSound, NextTruthful
<1> QED
  BY <1>1, <1>2, PTL DEF Spec

-----------------------------------------------------------------------------
(***************************************************************************)
(* What a call that has returned was answered.                             *)
(***************************************************************************)
\* What a call that has returned knows: every request of its reads and of its writes
\* has been answered.
LEMMA Returned ==
    ASSUME Inv, Truthful, NEW c \in Clients, HasReturned(c)
    PROVE  LET request == LastCall(c).request
           IN  /\ request \in AllRequests
               /\ ~Plan[request].reads_too_long /\ ~Plan[request].writes_too_long
               /\ AllForeseen(request, seen[c]) =>
                     HasRead(request, responses[c], Len(Plan[request].read_chunks))
               /\ HasWritten(request, responses[c], Len(Plan[request].write_chunks))
               /\ \A v \in DOMAIN responses[c] : Had(request, seen[c], v, responses[c][v])
               /\ seen[c] # {}
               /\ (OneRead(request) => OneMoment(responses[c], seen[c]))
<1> DEFINE request == LastCall(c).request
<1>1. calls[c] # <<>> /\ LastCall(c).outcome = "ok"
  BY DEF HasReturned
<1>2. calls[c] \in Seq(CallRecord) /\ (phase[c] # "idle" <=> IsOpen(calls[c]))
  BY OpenAlike
<1>3. phase[c] = "idle"
  BY <1>1, <1>2 DEF IsOpen, LastCall
<1>4. Len(calls[c]) \in DOMAIN calls[c]
  <2>1. Len(calls[c]) \in Nat /\ Len(calls[c]) # 0 /\ DOMAIN calls[c] = 1 .. Len(calls[c])
    BY <1>1, <1>2, LenProperties, EmptySeq
  <2> QED
    BY <2>1
<1>5. request \in AllRequests
  <2>1. LastCall(c) \in CallRecord
    BY <1>2, <1>4, Elements DEF LastCall
  <2> QED
    BY <2>1 DEF CallRecord
<1>6. Answering(LastCall(c), "idle", queue[c], reply[c], responses[c], seen[c])
  BY <1>1, <1>3 DEF Truthful, AnsweringFor
<1>7. /\ \A v \in DOMAIN responses[c] : Had(request, seen[c], v, responses[c][v])
      /\ Gathered(request, "idle", queue[c], responses[c], seen[c]) /\ seen[c] # {}
  BY <1>1, <1>6 DEF Answering
<1>8. /\ ReadsDone(request, "idle", queue[c]) = Len(Plan[request].read_chunks)
      /\ WritesDone(request, "idle", queue[c]) = Len(Plan[request].write_chunks)
  BY DEF ReadsDone, WritesDone
<1> HIDE DEF request
<1>9. OneRead(request) => OneMoment(responses[c], seen[c])
  <2> SUFFICES ASSUME OneRead(request) PROVE OneMoment(responses[c], seen[c])
    OBVIOUS
  <2>1. Len(Plan[request].read_chunks) = 1
    BY <1>5, OneReadIsOneChunk
  <2> QED
    BY <1>7, <1>8, <2>1 DEF Gathered
<1>10. /\ ~Plan[request].reads_too_long /\ ~Plan[request].writes_too_long
       /\ AllForeseen(request, seen[c]) =>
             HasRead(request, responses[c], Len(Plan[request].read_chunks))
       /\ HasWritten(request, responses[c], Len(Plan[request].write_chunks))
  BY <1>7, <1>8 DEF Gathered
<1> QED
  BY <1>5, <1>7, <1>9, <1>10 DEF request

\* The last request of the writes ends with the last of the setters.
LEMMA EndOfWrites ==
    ASSUME NEW request \in AllRequests, ~Plan[request].writes_too_long
    PROVE  EndAt(request, Len(Plan[request].write_chunks)) = Len(request.setters)
<1> DEFINE all_items == WriteItems(request)
           chunks == Plan[request].write_chunks
           all == Len(chunks)
           size == Len(request.setters)
<1>1. chunks = Pack(all_items) /\ ~TooLong(all_items)
  BY DEF Plan
<1>2. all_items \in Seq(Item) /\ Len(all_items) = size
  BY WriteItemsType
<1>3. Ends(request) = [k \in DOMAIN chunks |-> Last(chunks[k])]
  BY DEF Ends
<1> HIDE DEF all_items, size
<1>4. chunks \in Seq(Seq(1 .. size)) /\ CutsInOrder(chunks, size)
  BY <1>1, <1>2, PackContract
<1> HIDE DEF chunks
<1>5. all \in Nat /\ DOMAIN chunks = 1 .. all
  BY <1>4, LenProperties
<1>6. CASE all = 0
  <2>1. chunks = <<>>
    BY <1>4, <1>6, EmptySeq
  <2> QED
    BY <1>4, <1>6, <2>1 DEF CutsInOrder, EndAt, chunks, size
<1>7. CASE all # 0
  <2>1. chunks # <<>> /\ all \in DOMAIN chunks
    BY <1>4, <1>5, <1>7, EmptySeq
  <2>2. EndAt(request, all) = chunks[all][Len(chunks[all])]
    BY <1>3, <1>7, <2>1 DEF EndAt, Last
  <2>3. chunks[all][Len(chunks[all])] = size
    BY <1>4, <2>1 DEF CutsInOrder
  <2> QED
    BY <2>2, <2>3 DEF chunks, size
<1> QED
  BY <1>6, <1>7

\* A variable a request set asks for is one of those its reads are made of.
LEMMA AskedIsRead ==
    ASSUME NEW request \in AllRequests, ~Plan[request].reads_too_long,
           NEW looks, looks # {}, AllForeseen(request, looks), NEW v \in ReadBy(request)
    PROVE  \E k \in 1 .. Len(Plan[request].read_chunks) :
              \E i \in Holds(Plan[request].read_chunks[k]) :
                 v \in VariablesOf(Plan[request].reads[i].path)
<1> DEFINE reads == Reads(request)
           all_items == ReadItems(request)
           getters == request.getters
<1>1. /\ Plan[request].reads = reads /\ Plan[request].read_chunks = Pack(all_items)
      /\ ~TooLong(all_items)
  BY DEF Plan
<1>2. getters \in Seq(Getter)
  BY ReadsType
<1>3. PICK j \in DOMAIN getters : v \in VariablesOf(getters[j].path)
  BY DEF ReadBy, ToSet
<1>4. getters[j] \in Getter /\ Listed(getters[j])
  <2>1. getters[j] \in Getter
    BY <1>2, Elements
  <2>2. PICK values \in looks : Foreseen(getters[j], values)
    BY DEF AllForeseen, ToSet
  <2> QED
    BY <2>1, <2>2 DEF Foreseen, Listed
<1>5. PICK one \in Holds(Expand(getters[j])) : v \in VariablesOf(one.path)
  BY <1>3, <1>4, ExpandCovers
<1>6. PICK read \in Holds(reads) : read.path = one.path
  BY <1>5, ReadsType
<1>7. all_items \in Seq(Item) /\ Len(all_items) = Len(reads) /\ reads \in Seq(Getter)
  BY ReadItemsType, ReadsType
<1> HIDE DEF reads, all_items
<1>8. PICK i \in 1 .. Len(reads) : read = reads[i]
  BY <1>6, <1>7, Elements DEF Holds
<1>9. Pack(all_items) \in Seq(Seq(1 .. Len(reads))) /\ CutsInOrder(Pack(all_items), Len(reads))
  BY <1>1, <1>7, PackContract
<1>10. Len(reads) \in Nat
  BY <1>7, LenProperties
<1>11. \E k \in 1 .. Len(Pack(all_items)) : i \in Holds(Pack(all_items)[k])
  BY <1>8, <1>9, <1>10, AllTaken
<1> QED
  BY <1>1, <1>5, <1>6, <1>8, <1>11

\* Of a variable that is written there is a last setter.
LEMMA LastSetter ==
    ASSUME NEW request \in AllRequests, NEW v \in WrittenBy(request)
    PROVE  \E i \in DOMAIN request.setters :
              request.setters[i].path = v /\ LastFor(request.setters, i)
<1> DEFINE setters == request.setters
<1>1. setters \in Seq(Setter)
  BY PlanType
<1>2. At(setters, v) # {}
  BY DEF WrittenBy, ToSet, At
<1> DEFINE last == Max(At(setters, v))
<1>3. /\ last \in DOMAIN setters /\ setters[last].path = v
      /\ \A j \in DOMAIN setters : setters[j].path = v => j <= last
  BY <1>1, <1>2, LastAt
<1>4. DOMAIN setters \subseteq Nat
  BY <1>1, Elements
<1> HIDE DEF last
<1>5. LastFor(setters, last)
  <2> SUFFICES ASSUME NEW j \in DOMAIN setters, j > last PROVE setters[j].path # setters[last].path
    BY DEF LastFor
  <2>1. ~(j <= last)
    BY <1>3, <1>4
  <2> QED
    BY <1>3, <2>1
<1> QED
  BY <1>3, <1>5

\* What was written last is what the answer of a returned call holds.
LEMMA WrittenHeld ==
    ASSUME Inv, Truthful, NEW c \in Clients, HasReturned(c),
           NEW i \in DOMAIN LastCall(c).request.setters,
           LastFor(LastCall(c).request.setters, i)
    PROVE  LET setter == LastCall(c).request.setters[i]
           IN  setter.path \in DOMAIN responses[c] /\ responses[c][setter.path] = setter.value
<1> DEFINE request == LastCall(c).request
           n == Len(Plan[request].write_chunks)
<1>1. /\ request \in AllRequests /\ ~Plan[request].writes_too_long
      /\ HasWritten(request, responses[c], n)
  BY Returned
<1> HIDE DEF request
<1>2. EndAt(request, n) = Len(request.setters)
  BY <1>1, EndOfWrites
<1>3. request.setters \in Seq(Setter)
  BY <1>1, PlanType
<1>4. i <= Len(request.setters)
  BY <1>3, Elements DEF request
<1> HIDE DEF n
<1> QED
  BY <1>1, <1>2, <1>4 DEF HasWritten, request

\* The answer of a call that returns has every variable the call wrote and, unless an
\* answer is longer than could be foreseen, every one it asked for, for any data.xml
\* and any limits of the firmware: no reply is cut off (controller.py:189-243).
THEOREM NothingIsMissing == Spec => []AnswersComplete
<1>1. ASSUME Inv, Truthful PROVE AnswersComplete
  <2> SUFFICES ASSUME NEW c \in Clients, HasReturned(c)
               PROVE  /\ WrittenBy(LastCall(c).request) \subseteq DOMAIN responses[c]
                      /\ AllForeseen(LastCall(c).request, seen[c]) =>
                            ReadBy(LastCall(c).request) \subseteq DOMAIN responses[c]
    BY <1>1 DEF AnswersComplete
  <2> DEFINE request == LastCall(c).request
  <2>1. /\ request \in AllRequests /\ ~Plan[request].reads_too_long /\ seen[c] # {}
        /\ AllForeseen(request, seen[c]) =>
              HasRead(request, responses[c], Len(Plan[request].read_chunks))
    BY <1>1, Returned
  <2>2. ASSUME AllForeseen(request, seen[c]), NEW v \in ReadBy(request)
        PROVE  v \in DOMAIN responses[c]
    <3> HIDE DEF request
    <3>1. PICK k \in 1 .. Len(Plan[request].read_chunks) :
             \E i \in Holds(Plan[request].read_chunks[k]) :
                v \in VariablesOf(Plan[request].reads[i].path)
      BY <2>1, <2>2, AskedIsRead
    <3> QED
      BY <2>1, <2>2, <3>1 DEF HasRead
  <2>3. ASSUME NEW v \in WrittenBy(request)
        PROVE  v \in DOMAIN responses[c]
    <3>1. PICK i \in DOMAIN request.setters :
             request.setters[i].path = v /\ LastFor(request.setters, i)
      <4> HIDE DEF request
      <4> QED
        BY <2>1, <2>3, LastSetter
    <3> QED
      BY <1>1, <3>1, WrittenHeld
  <2> QED
    BY <2>2, <2>3
<1> QED
  BY <1>1, AlwaysTruthful, PTL

\* A value a call read is one the variable had while the call was reading, whoever
\* else was writing and whatever was late (controller.py:236-241).
THEOREM ReadsAreCurrent == Spec => []ReadsAreFromTheCall
<1>1. ASSUME Inv, Truthful PROVE ReadsAreFromTheCall
  <2> SUFFICES ASSUME NEW c \in Clients, HasReturned(c),
                      NEW v \in (ReadBy(LastCall(c).request) \ WrittenBy(LastCall(c).request))
                                   \cap DOMAIN responses[c]
               PROVE  responses[c][v] \in {s[v] : s \in seen[c]}
    BY <1>1 DEF ReadsAreFromTheCall
  <2>1. Had(LastCall(c).request, seen[c], v, responses[c][v])
    BY <1>1, Returned
  <2> QED
    BY <2>1 DEF Had
<1> QED
  BY <1>1, AlwaysTruthful, PTL

\* Reads that fit one request show the variables at one moment of the call
\* (unit/base.py:51).
THEOREM OneRequestIsASnapshot == Spec => []ReadsOfOneRequestAreASnapshot
<1>1. ASSUME Inv, Truthful PROVE ReadsOfOneRequestAreASnapshot
  <2> SUFFICES ASSUME NEW c \in Clients, HasReturned(c), OneRead(LastCall(c).request)
               PROVE  OneMoment(responses[c], seen[c])
    BY <1>1 DEF ReadsOfOneRequestAreASnapshot, OneRead, OneMoment, AllOf
  <2> QED
    BY <1>1, Returned
<1> QED
  BY <1>1, AlwaysTruthful, PTL

\* Of a variable written twice, or read and written, the answer holds what was
\* written last (controller.py:236-241).
THEOREM LastWriteIsAnswered == Spec => []AnswerHoldsLastWrite
<1>1. ASSUME Inv, Truthful PROVE AnswerHoldsLastWrite
  <2> SUFFICES ASSUME NEW c \in Clients, HasReturned(c),
                      NEW i \in DOMAIN LastCall(c).request.setters,
                      LastFor(LastCall(c).request.setters, i)
               PROVE  responses[c][LastCall(c).request.setters[i].path]
                         = LastCall(c).request.setters[i].value
    BY <1>1 DEF AnswerHoldsLastWrite, LastFor
  <2> QED
    BY <1>1, WrittenHeld
<1> QED
  BY <1>1, AlwaysTruthful, PTL

-----------------------------------------------------------------------------
(***************************************************************************)
(* pack_chunks run one iteration at a time (PackChunks), for every list of *)
(* items and all limits.  LoopInv is the loop invariant PackerInv of       *)
(* Packing_proofs, with what the loop leaves behind when it ends.          *)
(***************************************************************************)
LoopInv ==
  /\ PackTypeOK
  /\ PackerInv(items, packer, position - 1)
  /\ loop # "returned" => result = << >>
  /\ loop = "raised" =>
        position <= Len(items) /\ ~FitsAlone(items[position])
  /\ loop = "returned" =>
        position = Len(items) + 1 /\ result = Chunks(packer)

LEMMA LoopInitial == PackInit => LoopInv
  <1> SUFFICES ASSUME PackInit PROVE LoopInv
    OBVIOUS
  <1>1. PICK n \in 0 .. MaxItems : items \in [1 .. n -> ItemSizes]
    BY DEF PackInit
  <1>2. n \in Nat
    BY ItemsAssumption
  <1>3. items \in Seq(ItemSizes) /\ Len(items) \in Nat
    BY <1>1, <1>2
  <1>4. items \in Seq(Item)
    BY <1>1, <1>2, ItemsAssumption
  <1>5. PackerInv(items, EmptyPacker, 0)
    BY <1>4, EmptyPackerInv
  <1>6. packer \in Packer(items)
    BY <1>5 DEF PackInit, PackerInv
  <1>7. PackTypeOK
    BY <1>3, <1>6 DEF PackInit, PackTypeOK, Positions
  <1> QED BY <1>5, <1>7 DEF PackInit, LoopInv

LEMMA LoopStep == LoopInv /\ [PackNext]_packVars => LoopInv'
  <1> SUFFICES ASSUME LoopInv, [PackNext]_packVars PROVE LoopInv'
    OBVIOUS
  <1> USE DEF LoopInv
  <1>1. items \in Seq(Item) /\ Len(items) \in Nat /\ position \in Nat
    BY ItemsAssumption DEF PackTypeOK
  <1>2. CASE RaiseTooLong
    BY <1>2 DEF RaiseTooLong, Looping, PackTypeOK, Positions
  <1>3. CASE PlaceItem
    <2>1. PICK n \in Nat : position = n + 1 /\ n + 1 \in 1 .. Len(items)
      BY <1>1, <1>3 DEF PlaceItem, Looping, PackTypeOK
    <2>2. PackerInv(items, packer, n)
      BY <2>1
    <2>3. PackerInv(items, Place(packer, items[n + 1], n + 1), n + 1)
      BY <1>1, <1>3, <2>1, <2>2, PlaceInv DEF PlaceItem
    <2>4. PackerInv(items, packer, position - 1)'
      <3>1. packer' = Place(packer, items[n + 1], n + 1)
        BY <1>3, <2>1 DEF PlaceItem
      <3>2. position' - 1 = n + 1 /\ items' = items
        BY <1>3, <2>1 DEF PlaceItem
      <3> QED BY <2>3, <3>1, <3>2
    <2>5. PackTypeOK'
      <3>1. packer' \in Packer(items')
        BY <2>4 DEF PackerInv
      <3> QED BY <1>3, <3>1 DEF PlaceItem, Looping, PackTypeOK, Positions
    <2> QED BY <1>3, <2>4, <2>5 DEF PlaceItem, Looping
  <1>4. CASE ReturnChunks
    <2>1. position = Len(items) + 1
      BY <1>4 DEF ReturnChunks, PackTypeOK
    <2>2. PackerInv(items, packer, Len(items))
      BY <1>1, <2>1
    <2>3. Chunks(packer) \in Seq(Seq(1 .. Len(items)))
      BY <1>1, <2>2, ChunksReturned
    <2> QED BY <1>4, <2>1, <2>3 DEF ReturnChunks, PackTypeOK, Positions
  <1>5. CASE UNCHANGED packVars
    BY <1>5 DEF packVars, PackTypeOK, Positions
  <1> QED BY <1>2, <1>3, <1>4, <1>5 DEF PackNext

LEMMA LoopInvHolds == PackSpec => []LoopInv
  <1> QED BY LoopInitial, LoopStep, PTL DEF PackSpec

\* The locals of pack_chunks keep their types.
THEOREM PackTypeCorrect == PackSpec => []PackTypeOK
  <1>1. LoopInv => PackTypeOK
    BY DEF LoopInv
  <1> QED BY <1>1, LoopInvHolds, PTL

\* The facts of ChunksReturned, for the list the function has returned.
LEMMA ChunksFacts ==
  ASSUME LoopInv, loop = "returned"
  PROVE  /\ \A k \in 1 .. Len(result) : Under(items, result[k])
         /\ CutsInOrder(result, Len(items))
         /\ \A cut \in Cuttings(items) :
              items # << >> => Len(result) <= cut[Len(items)]
  <1>1. items \in Seq(Item) /\ Len(items) \in Nat
    BY ItemsAssumption DEF LoopInv, PackTypeOK
  <1>2. PackerInv(items, packer, Len(items)) /\ result = Chunks(packer)
    BY <1>1 DEF LoopInv
  <1> QED BY <1>1, <1>2, ChunksReturned

\* No chunk handed out is over one of the two limits whose excess the firmware
\* does not report, whatever the limits, the overhead and the list.
THEOREM BudgetsKept == PackSpec => []ChunksUnderBudgets
  <1>1. LoopInv => ChunksUnderBudgets
    <2>1. ASSUME LoopInv, loop = "returned" PROVE ChunksUnderBudgets
      BY <2>1, ChunksFacts DEF ChunksUnderBudgets
    <2>2. ASSUME LoopInv, loop # "returned" PROVE ChunksUnderBudgets
      BY <2>2 DEF LoopInv, ChunksUnderBudgets
    <2> QED BY <2>1, <2>2
  <1> QED BY <1>1, LoopInvHolds, PTL

\* What is asked for is what is sent, once each and in the order asked.
THEOREM Lossless == PackSpec => []NothingLostOrMoved
  <1>1. LoopInv => NothingLostOrMoved
    BY ChunksFacts DEF NothingLostOrMoved
  <1> QED BY <1>1, LoopInvHolds, PTL

\* Next-fit is optimal among the cuttings that keep the order.
THEOREM Fewest == PackSpec => []FewestInOrder
  <1>1. LoopInv => FewestInOrder
    BY ChunksFacts DEF FewestInOrder
  <1> QED BY <1>1, LoopInvHolds, PTL

\* RequestTooLongError is raised for the lists that cannot be sent, and for
\* those only.
THEOREM RaisesRightly == PackSpec => []RaisesExactlyForUnsendable
  <1>1. ASSUME LoopInv PROVE RaisesExactlyForUnsendable
    <2>1. items \in Seq(Item) /\ Len(items) \in Nat
      BY <1>1, ItemsAssumption DEF LoopInv, PackTypeOK
    <2>2. \A i \in Positions : FitsAlone(items[i]) <=> Under(items, << i >>)
      BY <2>1, FitsAloneIsUnder DEF Positions
    <2>3. ASSUME loop = "raised"
          PROVE  result = << >> /\ \E i \in Positions : ~Under(items, << i >>)
      <3>1. position \in Positions
        BY <1>1, <2>3, <2>1 DEF LoopInv, PackTypeOK, Positions
      <3> QED BY <1>1, <2>2, <2>3, <3>1 DEF LoopInv
    <2>4. ASSUME loop = "returned", NEW i \in Positions
          PROVE  Under(items, << i >>)
      <3>1. i \in 1 .. position - 1
        BY <1>1, <2>1, <2>4 DEF LoopInv, Positions
      <3> QED BY <1>1, <2>2, <3>1 DEF LoopInv, PackerInv
    <2> QED BY <2>3, <2>4 DEF RaisesExactlyForUnsendable
  <1> QED BY <1>1, LoopInvHolds, PTL
=============================================================================
