---------------------------- MODULE Room_proofs -----------------------------
(***************************************************************************)
(* A room is never seen half-set, and ints and floats read back as they    *)
(* were written, for any callers, rooms and values.  The invariant Inv is  *)
(* that the log is made of whole calls, the setters of each side by side.  *)
(* Of the status a hold wrote and a duration or setpoint a hold wrote      *)
(* after it, the second hold's own status is no later than the first: so   *)
(* the first lies inside the second hold, and they are one.                *)
(***************************************************************************)
EXTENDS Room, SequenceTheorems, TLAPS

Setters == [field : Fields, given : PythonValues, raw : Texts]
CallRecord == [ends : Seq(Nat), outcome : {"open", "ok", "connection"}]
Entry == [client : Clients, call : Nat, index : Nat]

\* What _require and set_request let through, as they encode it.
Sound(setter) ==
    /\ room[setter.field] = "writable"
    /\ Accepted(TypeOf[setter.field], setter.given)
    /\ setter.raw = EncodeValue(TypeOf[setter.field], setter.given)

\* A call sets one variable, or the three of a hold in their order.
OneOrHold(setters) ==
    \/ Len(setters) = 1
    \/ /\ Len(setters) = 3
       /\ setters[1].field = "correction_status"
       /\ setters[2].field = "correction_time"
       /\ setters[3].field = "correction_temperature"

Types1 ==
    /\ room \in Rooms
    /\ asked \in [Clients -> Seq(Seq(Setters))]
    /\ calls \in [Clients -> Seq(CallRecord)]
    /\ log \in Seq(Entry)

\* The calls and what was asked of them go together.
Matching ==
    \A c \in Clients :
        /\ Len(calls[c]) = Len(asked[c])
        /\ \A n \in 1 .. Len(asked[c]) :
              /\ calls[c][n].ends = <<Len(asked[c][n])>>
              /\ OneOrHold(asked[c][n])
              /\ \A k \in 1 .. Len(asked[c][n]) : Sound(asked[c][n][k])

Adrift == \A call \in adrift : call[1] \in Clients /\ call[2] \in 1 .. Len(asked[call[1]])

\* An entry of the log is a setter of a call ...
Known(i) == log[i].call \in 1 .. Len(asked[log[i].client])

\* ... and has the other setters of it beside it.
Whole(i) ==
    LET size == Len(asked[log[i].client][log[i].call])
        first == i - log[i].index
    IN  /\ log[i].index \in 1 .. size
        /\ first \in 0 .. Len(log)
        /\ first + size <= Len(log)
        /\ \A k \in 1 .. size :
              log[first + k] = [client |-> log[i].client, call |-> log[i].call, index |-> k]

Inv ==
    /\ Types1
    /\ Matching
    /\ Adrift
    /\ \A i \in 1 .. Len(log) : Known(i) /\ Whole(i)

\* int() cuts a number off towards zero.
LEMMA TruncatedIsCutOff ==
    ASSUME NEW n \in Int
    PROVE  /\ Truncated(n) \in Int /\ Truncated(n) \in n - 1 .. n + 1
           /\ IsCutOff(n, Truncated(n))
           /\ IsWhole(n) => Truncated(n) = n
BY DEF Truncated, IsCutOff, IsWhole

\* What is accepted is encoded as some text.
LEMMA EncodedIsText ==
    ASSUME NEW typ \in Types, NEW value \in PythonValues, Accepted(typ, value)
    PROVE  EncodeValue(typ, value) \in Texts
<1>1. CASE value.is = "str"
  BY <1>1 DEF PythonValues, EncodeValue
<1>2. CASE value.is # "str"
  <2>1. value.num \in Int /\ (value.is = "special" \/ value.is = "None" => value.num = 0)
        /\ value.is \in {"int", "bool", "float", "decimal", "fraction", "special", "None"}
    BY <1>2 DEF PythonValues
  <2>2. Truncated(value.num) \in Int
    BY <2>1, TruncatedIsCutOff
  <2>3. Str(value) \in Texts
    BY <2>1 DEF Str, FormOf, Texts
  <2>4. Digits(Truncated(value.num)) \in Texts
    BY <2>2 DEF Digits, Texts
  <2> QED
    BY <1>2, <2>3, <2>4 DEF EncodeValue, Accepted
<1> QED
  BY <1>1, <1>2

\* What a number that is accepted for a variable of a numeric type reads back as
\* (encode_value, decode_value).
LEMMA EncodedReadsBack ==
    ASSUME NEW typ \in {"bool", "integer", "float"}, NEW value \in PythonValues, Accepted(typ, value)
    PROVE  LET read == DecodeValue(typ, EncodeValue(typ, value))
           IN  /\ value.is \in {"int", "bool", "float", "special"} => ReadsAs(typ, value.num, read)
               /\ (value.is \in {"decimal", "fraction"} /\ typ \in IntegerTypes)
                     => \E whole \in value.num - 1 .. value.num + 1 :
                            IsCutOff(value.num, whole) /\ ReadsAs(typ, whole, read)
<1> DEFINE encoded == EncodeValue(typ, value)
           read == DecodeValue(typ, encoded)
<1>1. CASE value.is \in {"int", "bool", "float", "special", "decimal", "fraction"} /\ typ \in IntegerTypes
  <2>1. /\ value.num \in Int
        /\ value.is = "int" \/ value.is = "bool" => IsWhole(value.num)
    BY <1>1 DEF PythonValues
  <2>2. /\ encoded = Digits(Truncated(value.num))
        /\ value.is \in {"int", "bool", "float", "decimal", "fraction"}
        /\ value.is = "float" => IsWhole(value.num)
    BY <1>1 DEF EncodeValue, Accepted
  <2>3. ReadsAs(typ, Truncated(value.num), read)
    <3>1. encoded.form = "digits" /\ encoded.num = Truncated(value.num) /\ Truncated(value.num) \in Int
      BY <2>1, <2>2, TruncatedIsCutOff DEF Digits
    <3>2. CASE typ = "bool"
      BY <3>1, <3>2 DEF DecodeValue, Readable, Number, ReadsAs
    <3>3. CASE typ = "integer"
      BY <3>1, <3>3 DEF DecodeValue, Readable, Number, ReadsAs
    <3> QED
      BY <1>1, <3>2, <3>3 DEF IntegerTypes
  <2>4. /\ Truncated(value.num) \in value.num - 1 .. value.num + 1
        /\ IsCutOff(value.num, Truncated(value.num))
        /\ IsWhole(value.num) => Truncated(value.num) = value.num
    BY <2>1, TruncatedIsCutOff
  <2> HIDE DEF read
  <2>5. value.is \in {"int", "bool", "float", "special"} => ReadsAs(typ, value.num, read)
    BY <2>1, <2>2, <2>3, <2>4
  <2> QED
    BY <2>3, <2>4, <2>5 DEF read
<1>2. CASE value.is \in {"int", "bool", "float", "special"} /\ typ \notin IntegerTypes
  <2>1. typ = "float" /\ encoded = [form |-> FormOf[value.is], num |-> value.num]
    BY <1>2 DEF IntegerTypes, EncodeValue, Str
  <2>2. encoded.form \in {"digits", "point", "special"} /\ encoded.num = value.num
    BY <1>2, <2>1 DEF FormOf
  <2>3. ReadsAs(typ, value.num, read)
    BY <2>1, <2>2 DEF DecodeValue, Readable, Number, ReadsAs
  <2> QED
    BY <1>2, <2>3
<1>3. CASE value.is \notin {"int", "bool", "float", "special"} /\ ~(value.is \in {"decimal", "fraction"} /\ typ \in IntegerTypes)
  BY <1>3
<1> QED
  BY <1>1, <1>2, <1>3

-----------------------------------------------------------------------------
\* The device carries out a call: its setters are put at the end of the log.
LEMMA RunKeepsLogWhole ==
    ASSUME Inv, NEW c \in Clients, NEW n \in 1 .. Len(asked[c]), Api!Run(c, n), UNCHANGED asked
    PROVE  log' \in Seq(Entry) /\ (\A i \in 1 .. Len(log) : Known(i) /\ Whole(i))'
<1> DEFINE size == Len(asked[c][n])
           tail == [i \in 1 .. size |-> [client |-> c, call |-> n, index |-> i]]
<1>1. /\ calls[c][n].ends = <<size>>
      /\ size \in Nat
      /\ n \in Nat
  <2>1. asked[c] \in Seq(Seq(Setters))
    BY DEF Inv, Types1
  <2>2. asked[c][n] \in Seq(Setters)
    BY <2>1, ElementOfSeq
  <2>3. size \in Nat
    BY <2>2, LenProperties
  <2>4. Len(asked[c]) \in Nat
    BY <2>1, LenProperties
  <2> QED
    BY <2>3, <2>4 DEF Inv, Matching
<1>2. log' = log \o tail
  <2>1. PICK k \in DOMAIN calls[c][n].ends :
          log' = log \o [i \in 1 .. Api!EndOf(c, n, k) - Api!EndOf(c, n, k - 1) |->
                           [client |-> c, call |-> n, index |-> Api!EndOf(c, n, k - 1) + i]]
    BY DEF Api!Run
  <2>2. k = 1 /\ Api!EndOf(c, n, k) = size /\ Api!EndOf(c, n, k - 1) = 0
    BY <1>1, <2>1 DEF Api!EndOf
  <2> QED
    BY <1>1, <2>1, <2>2
<1>3. tail \in Seq(Entry) /\ Len(tail) = size
  <2>1. \A i \in 1 .. size : tail[i] \in Entry
    BY <1>1 DEF Entry
  <2>2. tail \in [1 .. size -> Entry]
    BY <2>1
  <2> HIDE DEF tail
  <2> QED
    BY <1>1, <2>2, IsASeq, LenProperties
<1> HIDE DEF tail
<1>4. log \in Seq(Entry) /\ Len(log) \in Nat
  BY LenProperties DEF Inv, Types1
<1>5. /\ log' \in Seq(Entry) /\ Len(log') = Len(log) + size
      /\ \A i \in 1 .. Len(log) : log'[i] = log[i]
      /\ \A k \in 1 .. size : log'[Len(log) + k] = [client |-> c, call |-> n, index |-> k]
  <2>1. /\ log' \in Seq(Entry) /\ Len(log') = Len(log) + size
        /\ \A i \in 1 .. Len(log) + size :
              log'[i] = IF i <= Len(log) THEN log[i] ELSE tail[i - Len(log)]
    BY <1>2, <1>3, <1>4, ConcatProperties
  <2>2. ASSUME NEW i \in 1 .. Len(log)
        PROVE  log'[i] = log[i]
    <3>1. i \in 1 .. Len(log) + size /\ i <= Len(log)
      BY <1>1, <1>4
    <3> QED
      BY <2>1, <3>1
  <2>3. ASSUME NEW k \in 1 .. size
        PROVE  log'[Len(log) + k] = [client |-> c, call |-> n, index |-> k]
    <3>1. Len(log) + k \in 1 .. Len(log) + size /\ ~(Len(log) + k <= Len(log)) /\ (Len(log) + k) - Len(log) = k
      BY <1>1, <1>4
    <3>2. log'[Len(log) + k] = tail[k]
      BY <2>1, <3>1
    <3> QED
      BY <3>2 DEF tail
  <2> QED
    BY <2>1, <2>2, <2>3
<1> HIDE DEF size
<1>6. ASSUME NEW i \in 1 .. Len(log)
      PROVE  (Known(i) /\ Whole(i))'
  <2> DEFINE own == Len(asked[log[i].client][log[i].call])
             first == i - log[i].index
  <2>1. Known(i) /\ Whole(i)
    BY DEF Inv
  <2>2. log[i] \in Entry /\ log'[i] = log[i]
    BY <1>4, <1>5, ElementOfSeq
  <2>3. asked' = asked
    OBVIOUS
  <2>4. Known(i)'
    BY <2>1, <2>2, <2>3 DEF Known
  <2>5. own \in Nat
    <3>1. asked[log[i].client] \in Seq(Seq(Setters))
      BY <2>2 DEF Inv, Types1, Entry
    <3>2. asked[log[i].client][log[i].call] \in Seq(Setters)
      BY <2>1, <3>1, ElementOfSeq DEF Known
    <3> QED
      BY <3>2, LenProperties
  <2>6. /\ log[i].index \in 1 .. own
        /\ first \in 0 .. Len(log)
        /\ first + own <= Len(log)
        /\ \A k \in 1 .. own :
              log[first + k] = [client |-> log[i].client, call |-> log[i].call, index |-> k]
    BY <2>1 DEF Whole
  <2>7. ASSUME NEW k \in 1 .. own
        PROVE  log'[first + k] = [client |-> log[i].client, call |-> log[i].call, index |-> k]
    <3> HIDE DEF own, first
    <3>1. first + k \in 1 .. Len(log)
      BY <1>4, <2>5, <2>6
    <3> QED
      BY <1>5, <2>6, <3>1
  <2>8. first + own <= Len(log') /\ first \in 0 .. Len(log')
    <3> HIDE DEF own, first
    <3> QED
      BY <1>1, <1>4, <1>5, <2>5, <2>6
  <2>9. Whole(i)'
    BY <2>2, <2>3, <2>6, <2>7, <2>8 DEF Whole
  <2> QED
    BY <2>4, <2>9
<1>7. ASSUME NEW i \in 1 .. Len(log'), i > Len(log)
      PROVE  (Known(i) /\ Whole(i))'
  <2>1. i - Len(log) \in 1 .. size /\ Len(log) + (i - Len(log)) = i
    BY <1>1, <1>4, <1>5, <1>7
  <2>2. log'[i] = [client |-> c, call |-> n, index |-> i - Len(log)]
    BY <1>5, <2>1
  <2>3. log'[i].index = i - Len(log) /\ log'[i].client = c /\ log'[i].call = n /\ asked' = asked
    BY <2>2
  <2>4. i - log'[i].index = Len(log) /\ Len(asked'[log'[i].client][log'[i].call]) = size
    BY <1>4, <2>3 DEF size
  <2>5. Known(i)'
    BY <2>3 DEF Known
  <2>6. Len(log) \in 0 .. Len(log') /\ Len(log) + size <= Len(log')
    BY <1>1, <1>4, <1>5
  <2>7. log'[i].index \in 1 .. size
    BY <2>1, <2>3
  <2>8. \A k \in 1 .. size :
          log'[Len(log) + k] = [client |-> log'[i].client, call |-> log'[i].call, index |-> k]
    BY <1>5, <2>3
  <2>9. Whole(i)'
    BY <2>4, <2>6, <2>7, <2>8 DEF Whole
  <2> QED
    BY <2>5, <2>9
<1>8. ASSUME NEW i \in 1 .. Len(log')
      PROVE  (Known(i) /\ Whole(i))'
  BY <1>4, <1>5, <1>6, <1>7
<1> QED
  BY <1>5, <1>8

-----------------------------------------------------------------------------
\* Inv holds of a room, whatever variables it has, before any call.
LEMMA InitInv == Init => Inv
<1> SUFFICES ASSUME Init PROVE Inv
  OBVIOUS
<1>1. log = <<>> /\ adrift = {} /\ (\A c \in Clients : calls[c] = <<>> /\ asked[c] = <<>>)
  BY DEF Init, Api!Init
<1>2. Types1
  BY <1>1 DEF Types1, Init, Api!Init
<1>3. Matching
  BY <1>1 DEF Matching
<1>4. Adrift /\ Len(log) = 0
  BY <1>1 DEF Adrift
<1> QED
  BY <1>2, <1>3, <1>4 DEF Inv

\* A call adds its setters to those asked for and changes nothing of the earlier ones.
LEMMA SendKeepsInv ==
    ASSUME Inv, NEW c \in Clients, NEW setters \in Seq(Setters), OneOrHold(setters),
           \A k \in 1 .. Len(setters) : Sound(setters[k]), Send(c, setters)
    PROVE  Inv'
<1> DEFINE call == [ends |-> <<Len(setters)>>, outcome |-> "open"]
<1>1. /\ asked' = [asked EXCEPT ![c] = Append(asked[c], setters)]
      /\ calls' = [calls EXCEPT ![c] = Append(calls[c], call)]
      /\ log' = log /\ adrift' = adrift /\ room' = room
  BY DEF Send, Api!Begin
<1>2. /\ asked \in [Clients -> Seq(Seq(Setters))]
      /\ calls \in [Clients -> Seq(CallRecord)]
      /\ log \in Seq(Entry)
      /\ room \in Rooms
  BY DEF Inv, Types1
<1>3. call \in CallRecord
  <2>1. Len(setters) \in Nat
    BY LenProperties
  <2>2. <<Len(setters)>> \in Seq(Nat)
    BY <2>1
  <2> QED
    BY <2>2 DEF CallRecord
<1> HIDE DEF call
<1>4. /\ Append(asked[c], setters) \in Seq(Seq(Setters))
      /\ Len(Append(asked[c], setters)) = Len(asked[c]) + 1
      /\ \A n \in 1 .. Len(asked[c]) : Append(asked[c], setters)[n] = asked[c][n]
      /\ Append(asked[c], setters)[Len(asked[c]) + 1] = setters
  BY <1>2, AppendProperties
<1>5. /\ Append(calls[c], call) \in Seq(CallRecord)
      /\ Len(Append(calls[c], call)) = Len(calls[c]) + 1
      /\ \A n \in 1 .. Len(calls[c]) : Append(calls[c], call)[n] = calls[c][n]
      /\ Append(calls[c], call)[Len(calls[c]) + 1] = call
  BY <1>2, <1>3, AppendProperties
<1>6. \A d \in Clients : Len(asked[d]) \in Nat /\ Len(calls[d]) = Len(asked[d])
  BY <1>2, LenProperties DEF Inv, Matching
<1>7. Types1'
  BY <1>1, <1>2, <1>4, <1>5 DEF Types1
<1>8. ASSUME NEW d \in Clients, NEW n \in 1 .. Len(asked[d])
      PROVE  n \in 1 .. Len(asked'[d]) /\ asked'[d][n] = asked[d][n] /\ calls'[d][n] = calls[d][n]
  BY <1>1, <1>2, <1>4, <1>5, <1>6
<1>9. /\ Len(asked'[c]) = Len(asked[c]) + 1 /\ Len(calls'[c]) = Len(asked[c]) + 1
      /\ asked'[c][Len(asked[c]) + 1] = setters /\ calls'[c][Len(asked[c]) + 1] = call
      /\ \A d \in Clients \ {c} : asked'[d] = asked[d] /\ calls'[d] = calls[d]
  BY <1>1, <1>2, <1>4, <1>5, <1>6
<1>10. \A setter \in Setters : Sound(setter) => Sound(setter)'
  BY <1>1 DEF Sound
<1>11. Matching'
  <2>1. ASSUME NEW d \in Clients
        PROVE  Len(calls'[d]) = Len(asked'[d])
    BY <1>6, <1>9
  <2>2. ASSUME NEW d \in Clients, NEW n \in 1 .. Len(asked[d])
        PROVE  /\ calls'[d][n].ends = <<Len(asked'[d][n])>>
               /\ OneOrHold(asked'[d][n])
               /\ (\A k \in 1 .. Len(asked[d][n]) : Sound(asked[d][n][k]))'
    <3>1. asked'[d][n] = asked[d][n] /\ calls'[d][n] = calls[d][n]
      BY <1>8
    <3>2. /\ calls[d][n].ends = <<Len(asked[d][n])>>
          /\ OneOrHold(asked[d][n])
          /\ \A k \in 1 .. Len(asked[d][n]) : Sound(asked[d][n][k])
      BY DEF Inv, Matching
    <3>3. (\A k \in 1 .. Len(asked[d][n]) : Sound(asked[d][n][k]))'
      BY <1>1, <3>1, <3>2 DEF Sound
    <3> QED
      BY <3>1, <3>2, <3>3
  <2>3. /\ call.ends = <<Len(setters)>>
        /\ \A k \in 1 .. Len(setters) : room'[setters[k].field] = "writable"
        /\ \A k \in 1 .. Len(setters) :
              /\ Accepted(TypeOf[setters[k].field], setters[k].given)
              /\ setters[k].raw = EncodeValue(TypeOf[setters[k].field], setters[k].given)
    BY <1>1 DEF Sound, call
  <2>4. ASSUME NEW d \in Clients, NEW n \in 1 .. Len(asked'[d])
        PROVE  /\ calls'[d][n].ends = <<Len(asked'[d][n])>>
               /\ OneOrHold(asked'[d][n])
               /\ (\A k \in 1 .. Len(asked[d][n]) : Sound(asked[d][n][k]))'
    <3>1. CASE n \in 1 .. Len(asked[d])
      BY <2>2, <3>1
    <3>2. CASE n \notin 1 .. Len(asked[d])
      <4>1. d = c /\ n = Len(asked[c]) + 1
        BY <1>6, <1>9, <3>2
      <4>2. asked'[d][n] = setters /\ calls'[d][n] = call
        BY <1>9, <4>1
      <4> QED
        BY <2>3, <4>2 DEF Sound
    <3> QED
      BY <3>1, <3>2
  <2> QED
    BY <2>1, <2>4 DEF Matching, OneOrHold
<1>12. Adrift'
  <2>1. ASSUME NEW other \in adrift
        PROVE  other[1] \in Clients /\ other[2] \in 1 .. Len(asked'[other[1]])
    <3>1. other[1] \in Clients /\ other[2] \in 1 .. Len(asked[other[1]])
      BY DEF Inv, Adrift
    <3> QED
      BY <1>8, <3>1
  <2> QED
    BY <1>1, <2>1 DEF Adrift
<1>13. ASSUME NEW i \in 1 .. Len(log)
       PROVE  (Known(i) /\ Whole(i))'
  <2>1. Known(i) /\ Whole(i) /\ log[i] \in Entry
    BY <1>2, ElementOfSeq DEF Inv
  <2>2. log[i].client \in Clients /\ log[i].call \in 1 .. Len(asked[log[i].client])
    BY <2>1 DEF Known, Entry
  <2>3. /\ log[i].call \in 1 .. Len(asked'[log[i].client])
        /\ asked'[log[i].client][log[i].call] = asked[log[i].client][log[i].call]
    BY <1>8, <2>2
  <2> QED
    BY <1>1, <2>1, <2>3 DEF Known, Whole
<1> QED
  BY <1>1, <1>7, <1>11, <1>12, <1>13 DEF Inv

\* A call that is open is the last one of its caller.
LEMMA OpenIsKnown ==
    ASSUME Inv, NEW c \in Clients, Api!IsOpen(c)
    PROVE  Len(calls[c]) \in 1 .. Len(asked[c])
<1>1. calls[c] \in Seq(CallRecord) /\ calls[c] # <<>> /\ Len(asked[c]) = Len(calls[c])
  BY DEF Inv, Types1, Matching, Api!IsOpen
<1>2. Len(calls[c]) \in Nat /\ Len(calls[c]) # 0
  BY <1>1, LenProperties, EmptySeq
<1> QED
  BY <1>1, <1>2

\* What a request carries out, in its call or after it, keeps Inv.
LEMMA RunKeepsInv ==
    ASSUME Inv, NEW c \in Clients, NEW n \in 1 .. Len(asked[c]), Api!Run(c, n) \/ UNCHANGED log,
           UNCHANGED <<room, calls, asked>>, adrift' \subseteq adrift
    PROVE  Inv'
<1>1. log' \in Seq(Entry) /\ (\A i \in 1 .. Len(log) : Known(i) /\ Whole(i))'
  <2>1. CASE Api!Run(c, n)
    BY <2>1, RunKeepsLogWhole
  <2>2. CASE UNCHANGED log
    BY <2>2 DEF Inv, Types1, Known, Whole
  <2> QED
    BY <2>1, <2>2
<1>2. Types1'
  BY <1>1 DEF Inv, Types1
<1>3. Matching'
  BY DEF Inv, Matching, Sound
<1>4. Adrift'
  BY DEF Inv, Adrift
<1> QED
  BY <1>1, <1>2, <1>3, <1>4 DEF Inv

\* A call that ends keeps Inv.
LEMMA EndKeepsInv ==
    ASSUME Inv, NEW c \in Clients, NEW outcome \in {"ok", "connection"}, Api!Ended(c, outcome),
           UNCHANGED <<room, asked>>, adrift' \subseteq adrift \cup {<<c, Len(calls[c])>>}
    PROVE  Inv'
<1> DEFINE last == Len(calls[c])
           ended == [calls[c] EXCEPT ![last].outcome = outcome]
<1>1. calls' = [calls EXCEPT ![c] = ended] /\ log' = log
  BY DEF Api!Ended
<1>2. last \in 1 .. Len(asked[c]) /\ last \in 1 .. Len(calls[c])
  BY OpenIsKnown DEF Api!Ended, Inv, Matching
<1>3. calls \in [Clients -> Seq(CallRecord)] /\ calls[c] \in Seq(CallRecord)
  BY DEF Inv, Types1
<1>4. calls[c][last] \in CallRecord
  BY <1>2, <1>3, ElementOfSeq
<1>5. [calls[c][last] EXCEPT !.outcome = outcome] \in CallRecord
  BY <1>4 DEF CallRecord
<1>6. ended = [calls[c] EXCEPT ![last] = [calls[c][last] EXCEPT !.outcome = outcome]]
  OBVIOUS
<1>7. /\ ended \in Seq(CallRecord)
      /\ Len(ended) = Len(calls[c])
      /\ \A n \in 1 .. Len(calls[c]) :
            ended[n] = IF n = last THEN [calls[c][last] EXCEPT !.outcome = outcome] ELSE calls[c][n]
  BY <1>2, <1>3, <1>5, <1>6, ExceptSeq
<1> HIDE DEF ended
<1>8. \A n \in 1 .. Len(calls[c]) : ended[n].ends = calls[c][n].ends
  BY <1>4, <1>7 DEF CallRecord
<1>9. Types1'
  BY <1>1, <1>3, <1>7 DEF Inv, Types1
<1>10. \A d \in Clients :
         /\ Len(calls'[d]) = Len(calls[d])
         /\ \A n \in 1 .. Len(calls[d]) : calls'[d][n].ends = calls[d][n].ends
  BY <1>1, <1>3, <1>7, <1>8
<1>11. Matching'
  <2>1. ASSUME NEW d \in Clients
        PROVE  /\ Len(calls'[d]) = Len(asked[d])
               /\ \A n \in 1 .. Len(asked[d]) :
                     /\ calls'[d][n].ends = <<Len(asked[d][n])>>
                     /\ OneOrHold(asked[d][n])
                     /\ \A k \in 1 .. Len(asked[d][n]) : Sound(asked[d][n][k])
    BY <1>10 DEF Inv, Matching
  <2> QED
    BY <2>1 DEF Matching, Sound, OneOrHold
<1>12. Adrift'
  BY <1>2 DEF Inv, Adrift
<1>13. (\A i \in 1 .. Len(log) : Known(i) /\ Whole(i))'
  BY <1>1 DEF Inv, Known, Whole
<1> QED
  BY <1>9, <1>11, <1>12, <1>13 DEF Inv

\* Whatever becomes of the calls keeps Inv.
LEMMA CarryKeepsInv == ASSUME Inv, Carry PROVE Inv'
<1>1. ASSUME NEW c \in Clients, Api!Write(c)
      PROVE  Inv'
  BY <1>1, OpenIsKnown, RunKeepsInv DEF Carry, Api!Write
<1>2. ASSUME NEW c \in Clients, Api!Return(c)
      PROVE  Inv'
  BY <1>2, EndKeepsInv DEF Carry, Api!Return
<1>3. ASSUME NEW c \in Clients, Api!Fail(c)
      PROVE  Inv'
  BY <1>3, EndKeepsInv DEF Carry, Api!Fail
<1>4. ASSUME NEW call \in adrift, Api!Straggle(call[1], call[2])
      PROVE  Inv'
  <2>1. call[1] \in Clients /\ call[2] \in 1 .. Len(asked[call[1]])
    BY DEF Inv, Adrift
  <2> QED
    BY <1>4, <2>1, RunKeepsInv DEF Carry, Api!Straggle
<1> QED
  BY <1>1, <1>2, <1>3, <1>4 DEF Carry

\* What a setter of the room puts into a request set.
LEMMA SetterIsSound ==
    ASSUME NEW field \in Fields, NEW value \in PythonValues,
           Settable(field), Accepted(TypeOf[field], value)
    PROVE  Setter(field, value) \in Setters /\ Sound(Setter(field, value))
<1>1. TypeOf[field] \in Types
  BY RoomAssumption
<1>2. EncodeValue(TypeOf[field], value) \in Texts
  BY <1>1, EncodedIsText
<1> QED
  BY <1>2 DEF Setter, Setters, Sound, Settable

\* set_value keeps Inv.
LEMMA SetValueKeepsInv ==
    ASSUME Inv, NEW c \in Clients, NEW field \in Fields, NEW value \in PythonValues, SetValue(c, field, value)
    PROVE  Inv'
<1> DEFINE setters == <<Setter(field, value)>>
<1>1. Send(c, setters)
  BY DEF SetValue
<1>2. Settable(setters[1].field) /\ Accepted(TypeOf[setters[1].field], setters[1].given)
  BY <1>1 DEF Send
<1>3. Setter(field, value) \in Setters /\ Sound(Setter(field, value))
  BY <1>2, SetterIsSound DEF Setter
<1>4. setters \in Seq(Setters) /\ Len(setters) = 1 /\ setters[1] = Setter(field, value)
  BY <1>3
<1> HIDE DEF setters
<1>5. OneOrHold(setters) /\ \A k \in 1 .. Len(setters) : Sound(setters[k])
  BY <1>3, <1>4 DEF OneOrHold
<1> QED
  BY <1>1, <1>4, <1>5, SendKeepsInv

\* set_manual_temperature keeps Inv.
LEMMA SetManualKeepsInv ==
    ASSUME Inv, NEW c \in Clients, NEW temperature \in PythonValues, NEW time \in PythonValues,
           SetManualTemperature(c, temperature, time)
    PROVE  Inv'
<1> DEFINE status == Setter("correction_status", Manual)
           duration == Setter("correction_time", time)
           setpoint == Setter("correction_temperature", temperature)
           setters == <<status, duration, setpoint>>
<1>1. Send(c, setters)
  BY DEF SetManualTemperature
<1>2. \A k \in 1 .. 3 :
        Settable(setters[k].field) /\ Accepted(TypeOf[setters[k].field], setters[k].given)
  BY <1>1 DEF Send
<1>3. \A k \in 1 .. 3 : setters[k] = IF k = 1 THEN status ELSE IF k = 2 THEN duration ELSE setpoint
  OBVIOUS
<1>4. /\ status.field = "correction_status" /\ status.given = Manual
      /\ duration.field = "correction_time" /\ duration.given = time
      /\ setpoint.field = "correction_temperature" /\ setpoint.given = temperature
  BY DEF Setter
<1>5. Hold \subseteq Fields /\ Manual \in PythonValues
  BY RoomAssumption
<1>6. status \in Setters /\ Sound(status)
  BY <1>2, <1>4, <1>5, SetterIsSound DEF Hold
<1>7. duration \in Setters /\ Sound(duration)
  BY <1>2, <1>4, <1>5, SetterIsSound DEF Hold
<1>8. setpoint \in Setters /\ Sound(setpoint)
  BY <1>2, <1>4, <1>5, SetterIsSound DEF Hold
<1> HIDE DEF status, duration, setpoint
<1>9. setters \in Seq(Setters) /\ Len(setters) = 3
  BY <1>6, <1>7, <1>8
<1> HIDE DEF setters
<1>10. OneOrHold(setters)
  BY <1>3, <1>4, <1>9 DEF OneOrHold
<1>11. \A k \in 1 .. 3 : setters[k] = status \/ setters[k] = duration \/ setters[k] = setpoint
  BY <1>3
<1>12. ASSUME NEW k \in 1 .. Len(setters)
       PROVE  Sound(setters[k])
  <2>1. setters[k] = status \/ setters[k] = duration \/ setters[k] = setpoint
    BY <1>9, <1>11
  <2> QED
    BY <1>6, <1>7, <1>8, <2>1
<1> QED
  BY <1>1, <1>9, <1>10, <1>12, SendKeepsInv

\* Inv holds in every state.
LEMMA InvHolds == Spec => []Inv
<1>1. Init => Inv
  BY InitInv
<1>2. Inv /\ [Next]_vars => Inv'
  <2> SUFFICES ASSUME Inv, [Next]_vars PROVE Inv'
    OBVIOUS
  <2>1. CASE UNCHANGED vars
    <3>1. Types1' /\ Adrift'
      BY <2>1 DEF vars, Inv, Types1, Adrift
    <3>2. Matching'
      BY <2>1 DEF vars, Inv, Matching, Sound
    <3>3. (\A i \in 1 .. Len(log) : Known(i) /\ Whole(i))'
      BY <2>1 DEF vars, Inv, Known, Whole
    <3> QED
      BY <3>1, <3>2, <3>3 DEF Inv
  <2>2. ASSUME NEW c \in Clients, NEW value \in Given[c], NEW field \in Fields, SetValue(c, field, value)
        PROVE  Inv'
    BY <2>2, RoomAssumption, SetValueKeepsInv
  <2>3. ASSUME NEW c \in Clients, NEW value \in Given[c], NEW time \in Given[c],
               SetManualTemperature(c, value, time)
        PROVE  Inv'
    BY <2>3, RoomAssumption, SetManualKeepsInv
  <2>4. CASE Carry
    BY <2>4, CarryKeepsInv
  <2> QED
    BY <2>1, <2>2, <2>3, <2>4 DEF Next
<1> QED
  BY <1>1, <1>2, PTL DEF Spec

-----------------------------------------------------------------------------
\* An entry of the log is a setter as the room let it through.
LEMMA LoggedIsSound ==
    ASSUME Inv, NEW i \in DOMAIN log
    PROVE  /\ i \in 1 .. Len(log) /\ log[i] \in Entry /\ Len(log) \in Nat
           /\ SetterOf(i) \in Setters /\ Sound(SetterOf(i))
<1> DEFINE c == log[i].client
           n == log[i].call
<1>1. /\ i \in 1 .. Len(log) /\ log[i] \in Entry /\ Len(log) \in Nat
  BY LenProperties, ElementOfSeq DEF Inv, Types1
<1>2. c \in Clients /\ n \in 1 .. Len(asked[c]) /\ log[i].index \in 1 .. Len(asked[c][n])
  BY <1>1 DEF Inv, Known, Whole, Entry
<1>3. asked[c] \in Seq(Seq(Setters))
  BY <1>2 DEF Inv, Types1
<1>4. asked[c][n] \in Seq(Setters)
  BY <1>2, <1>3, ElementOfSeq
<1>5. asked[c][n][log[i].index] \in Setters
  BY <1>2, <1>4, ElementOfSeq
<1>6. Sound(asked[c][n][log[i].index])
  BY <1>2 DEF Inv, Matching
<1> QED
  BY <1>1, <1>5, <1>6 DEF SetterOf

\* Calls and log keep their types, and only variables the room has and may write are
\* ever written, for any rooms and any values.
THEOREM TypeCorrect == Spec => []TypeOK
<1>1. Inv => TypeOK
  <2> SUFFICES ASSUME Inv PROVE TypeOK
    OBVIOUS
  <2>1. /\ room \in Rooms
        /\ asked \in [Clients -> Seq(Seq([field : Fields, given : PythonValues, raw : Texts]))]
        /\ \A c \in Clients : Len(asked[c]) = Len(calls[c])
    BY DEF Inv, Types1, Matching, Setters
  <2>2. \A i \in DOMAIN log : room[SetterOf(i).field] = "writable"
    BY LoggedIsSound DEF Sound
  <2> QED
    BY <2>1, <2>2 DEF TypeOK
<1> QED
  BY <1>1, InvHolds, PTL

\* An int or a float that reached a numeric variable reads back as the number it was,
\* and any other number as what int() made of it where a whole one is wanted, for any
\* values and any rooms (encode_value, decode_value).
THEOREM NumbersKept == Spec => []NumbersReadBack
<1>1. Inv => NumbersReadBack
  <2> SUFFICES ASSUME Inv, NEW i \in DOMAIN log,
                      TypeOf[SetterOf(i).field] \in {"bool", "integer", "float"}
               PROVE  LET given == SetterOf(i).given
                          typ == TypeOf[SetterOf(i).field]
                          read == DecodeValue(typ, SetterOf(i).raw)
                      IN  /\ given.is \in {"int", "bool", "float", "special"} => ReadsAs(typ, given.num, read)
                          /\ (given.is \in {"decimal", "fraction"} /\ typ \in IntegerTypes)
                                => \E whole \in given.num - 1 .. given.num + 1 :
                                      IsCutOff(given.num, whole) /\ ReadsAs(typ, whole, read)
    BY DEF NumbersReadBack
  <2>1. SetterOf(i) \in Setters /\ Sound(SetterOf(i))
    BY LoggedIsSound
  <2>2. SetterOf(i).given \in PythonValues /\ Accepted(TypeOf[SetterOf(i).field], SetterOf(i).given)
        /\ SetterOf(i).raw = EncodeValue(TypeOf[SetterOf(i).field], SetterOf(i).given)
    BY <2>1, RoomAssumption DEF Setters, Sound
  <2> QED
    BY <2>2, EncodedReadsBack
<1> QED
  BY <1>1, InvHolds, PTL

\* The setters of a hold are in the log in their order and side by side.
LEMMA HoldIsWhole ==
    ASSUME Inv, NEW i \in DOMAIN log, IsHold(i)
    PROVE  /\ log[i].index \in 1 .. 3
           /\ i - log[i].index \in Nat /\ i - log[i].index + 3 <= Len(log)
           /\ \A k \in 1 .. 3 :
                 log[i - log[i].index + k] =
                    [client |-> log[i].client, call |-> log[i].call, index |-> k]
           /\ SetterOf(i).field =
                 IF log[i].index = 1 THEN "correction_status"
                 ELSE IF log[i].index = 2 THEN "correction_time" ELSE "correction_temperature"
<1>1. i \in 1 .. Len(log) /\ log[i] \in Entry /\ Len(log) \in Nat
  BY LoggedIsSound
<1>2. Known(i) /\ Whole(i)
  BY <1>1 DEF Inv
<1>3. Len(asked[log[i].client][log[i].call]) = 3
  BY DEF IsHold
<1>4. OneOrHold(asked[log[i].client][log[i].call])
  BY <1>1, <1>2 DEF Inv, Matching, Known, Entry
<1>5. log[i].index \in 1 .. 3
  BY <1>2, <1>3 DEF Whole
<1> QED
  BY <1>1, <1>2, <1>3, <1>4, <1>5 DEF Whole, OneOrHold, SetterOf

\* As long as a hold's mode is in force, its duration and setpoint are its own: no
\* other hold comes between its setters (set_manual_temperature, one request).
THEOREM HoldsWhole == Spec => []NeverHalfSet
<1>1. Inv => NeverHalfSet
  <2> SUFFICES ASSUME Inv, NEW i \in DOMAIN log, IsHold(i), Writes(i, "correction_status"),
                      \A j \in i + 1 .. Len(log) : ~Writes(j, "correction_status"),
                      NEW field \in {"correction_time", "correction_temperature"}
               PROVE  /\ \E j \in i + 1 .. Len(log) : Writes(j, field) /\ SameCall(i, j)
                      /\ \A j \in i + 1 .. Len(log) :
                            (Writes(j, field) /\ IsHold(j)) => SameCall(i, j)
    BY DEF NeverHalfSet
  <2>1. i \in 1 .. Len(log) /\ Len(log) \in Nat /\ DOMAIN log = 1 .. Len(log)
    BY LoggedIsSound DEF Inv, Types1
  <2>2. log[i].index = 1
    BY HoldIsWhole DEF Writes
  <2>3. \E j \in i + 1 .. Len(log) : Writes(j, field) /\ SameCall(i, j)
    <3>1. /\ (i - 1) + 3 <= Len(log)
          /\ \A k \in 1 .. 3 :
                log[(i - 1) + k] = [client |-> log[i].client, call |-> log[i].call, index |-> k]
      BY <2>2, HoldIsWhole
    <3>2. PICK k \in 2 .. 3 : field = IF k = 2 THEN "correction_time" ELSE "correction_temperature"
      <4>1. CASE field = "correction_time"
        BY <4>1
      <4>2. CASE field = "correction_temperature"
        BY <4>2
      <4> QED
        BY <4>1, <4>2
    <3>3. PICK j \in i + 1 .. Len(log) : j = (i - 1) + k
      BY <2>1, <3>1, <3>2
    <3>4. log[j] = [client |-> log[i].client, call |-> log[i].call, index |-> k]
      BY <3>1, <3>2, <3>3
    <3>5. j \in DOMAIN log /\ SameCall(i, j) /\ IsHold(j) /\ log[j].index = k
      BY <2>1, <3>3, <3>4 DEF SameCall, IsHold
    <3>6. SetterOf(j).field = field
      <4>1. SetterOf(j).field = IF log[j].index = 1 THEN "correction_status"
                                ELSE IF log[j].index = 2 THEN "correction_time"
                                ELSE "correction_temperature"
        BY <3>5, HoldIsWhole
      <4>2. k = 2 \/ k = 3
        BY <3>2
      <4> QED
        BY <3>2, <3>5, <4>1, <4>2
    <3> QED
      BY <3>5, <3>6 DEF Writes
  <2>4. ASSUME NEW j \in i + 1 .. Len(log), Writes(j, field), IsHold(j)
        PROVE  SameCall(i, j)
    <3> DEFINE first == j - log[j].index
               m == i - first
    <3>1. /\ j \in DOMAIN log /\ log[j].index \in 1 .. 3 /\ first \in Nat /\ first + 3 <= Len(log)
          /\ \A k \in 1 .. 3 :
                log[first + k] = [client |-> log[j].client, call |-> log[j].call, index |-> k]
      BY <2>1, <2>4, HoldIsWhole
    <3>2. j = first + log[j].index /\ j >= i + 1
      BY <2>1, <3>1
    <3> HIDE DEF first
    <3>3. log[first + 1] = [client |-> log[j].client, call |-> log[j].call, index |-> 1]
      BY <3>1
    <3>4. first + 1 \in DOMAIN log
      BY <2>1, <3>1
    <3>5. log[first + 1].index = 1 /\ IsHold(first + 1)
      BY <2>4, <3>3 DEF IsHold
    <3>6. Writes(first + 1, "correction_status")
      BY <3>4, <3>5, HoldIsWhole DEF Writes
    <3>7. first + 1 <= i
      BY <2>1, <2>4, <3>1, <3>4, <3>6
    <3>8. m \in 1 .. 3 /\ first + m = i
      BY <2>1, <3>1, <3>2, <3>7
    <3>9. log[i] = [client |-> log[j].client, call |-> log[j].call, index |-> m]
      BY <3>1, <3>8
    <3> QED
      BY <3>9 DEF SameCall
  <2> QED
    BY <2>3, <2>4
<1> QED
  BY <1>1, InvHolds, PTL
=============================================================================
