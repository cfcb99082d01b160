------------------------ MODULE CalendarSync_proofs ------------------------
(***************************************************************************)
(* No calendar is wiped, whoever edits it and whatever becomes of the      *)
(* calls, for any editors, calendars and limits.  The invariant Inv is     *)
(* that every call, sent or adrift, sets complete payloads and colours of  *)
(* a calendar that has one, that its runs end within its setters, and that *)
(* the log holds setters of the calls.  That runs end there is what        *)
(* PackContract says of pack_chunks.                                       *)
(*                                                                         *)
(* Then what the device holds is traced to who wrote it: Traced says where *)
(* the values of a copy and of a write come from, and Paired that the      *)
(* setters of one write lie side by side in the log.                       *)
(***************************************************************************)
EXTENDS CalendarSync, Packing_proofs

\* The values the setters of a calendar may have.
Payloads ==
    {v \in [PayloadFields -> Schedules \cup Names \cup Temperatures] :
        \A f \in PayloadFields : v[f] \in ValuesOf(f) \ (Rejected \cup {None})}

ColoursFor(cal) == IF cal \in Coloured THEN [{"color"} -> Colours \ {None}] ELSE {}

SettersFor(cal) == [values : Payloads \cup ColoursFor(cal), len : Nat, encoded : Nat]

IsSequence(s) == \E S : s \in Seq(S)

Entry == [client : Editors, call : Nat, index : Nat]

Shapes ==
    /\ DOMAIN calls = Editors /\ DOMAIN wrote = Editors
    /\ \A e \in Editors :
          IsSequence(calls[e]) /\ IsSequence(wrote[e]) /\ Len(calls[e]) = Len(wrote[e])
    /\ log \in Seq(Entry)

Copies ==
    /\ DOMAIN copies = Editors
    /\ \A e \in Editors :
          /\ DOMAIN copies[e] = Calendars
          /\ \A cal \in Calendars :
                /\ DOMAIN copies[e][cal] = {"state", "read", "read_at", "edited"}
                /\ copies[e][cal].state \in CalendarState

\* The runs of a call end within its setters.
Cut(call, write) == call.ends \in Seq(1 .. Len(write.setters))

\* A call and what it sets; one that was turned down may not be cut at all.
Proper(call, write) ==
    /\ DOMAIN call = {"ends", "outcome"}
    /\ write.calendar \in Calendars
    /\ write.setters \in Seq(SettersFor(write.calendar))
    /\ call.outcome = "open" => Cut(call, write)

Sent == \A e \in Editors : \A n \in 1 .. Len(wrote[e]) : Proper(calls[e][n], wrote[e][n])

Adrift ==
    \A call \in adrift :
        /\ call[1] \in Editors /\ call[2] \in 1 .. Len(wrote[call[1]])
        /\ Cut(calls[call[1]][call[2]], wrote[call[1]][call[2]])

Known(entry) ==
    /\ entry.call \in 1 .. Len(wrote[entry.client])
    /\ entry.index \in 1 .. Len(wrote[entry.client][entry.call].setters)

Logged == \A i \in 1 .. Len(log) : Known(log[i])

Inv == Shapes /\ Copies /\ Sent /\ Adrift /\ Logged

-----------------------------------------------------------------------------
\* A call appended to the calls, or a write to the writes, leaves the others.
LEMMA AppendedToSequence ==
    ASSUME NEW s, IsSequence(s), NEW x
    PROVE  /\ IsSequence(Append(s, x))
           /\ Len(s) \in Nat
           /\ Len(Append(s, x)) = Len(s) + 1
           /\ \A n \in 1 .. Len(s) : Append(s, x)[n] = s[n]
           /\ Append(s, x)[Len(s) + 1] = x
<1>1. PICK S : s \in Seq(S)
  BY DEF IsSequence
<1>2. s \in Seq(S \cup {x})
  BY <1>1, SeqMonotonic
<1> QED
  BY <1>2, AppendProperties, LenProperties DEF IsSequence

\* So does one put in the place of another.
LEMMA ReplacedInSequence ==
    ASSUME NEW s, IsSequence(s), NEW n \in 1 .. Len(s), NEW x
    PROVE  /\ IsSequence([s EXCEPT ![n] = x])
           /\ Len([s EXCEPT ![n] = x]) = Len(s)
           /\ \A m \in 1 .. Len(s) : [s EXCEPT ![n] = x][m] = IF m = n THEN x ELSE s[m]
<1>1. PICK S : s \in Seq(S)
  BY DEF IsSequence
<1>2. s \in Seq(S \cup {x})
  BY <1>1, SeqMonotonic
<1> QED
  BY <1>2, ExceptSeq DEF IsSequence

\* Of some positions in a list, Max is one.
LEMMA MaxIsLatest ==
    ASSUME NEW n \in Nat, NEW S \in SUBSET (0 .. n), S # {}
    PROVE  Max(S) \in S /\ \A y \in S : y <= Max(S)
<1> DEFINE back == {n - i : i \in S}
<1>1. back \in SUBSET Nat /\ back # {}
  <2>1. \A i \in S : n - i \in Nat
    OBVIOUS
  <2> QED
    BY <2>1
<1>2. PICK m \in back : \A k \in back : m <= k
  BY <1>1, LeastNatural
<1>3. PICK x \in S : m = n - x
  BY <1>2
<1>4. \A y \in S : x >= y
  <2> SUFFICES ASSUME NEW y \in S PROVE x >= y
    OBVIOUS
  <2>1. n - y \in back
    OBVIOUS
  <2>2. n - x <= n - y
    BY <1>2, <1>3, <2>1
  <2> QED
    BY <2>2
<1>5. Max(S) \in S /\ \A y \in S : Max(S) >= y
  BY <1>3, <1>4 DEF Max
<1> QED
  BY <1>5

-----------------------------------------------------------------------------
\* The fields of a calendar are distinct, and the values of each.
LEMMA ValuesOfFields ==
    /\ \A f \in Days : ValuesOf(f) = Schedules
    /\ ValuesOf("name") = Names /\ ValuesOf("temperatures") = Temperatures
    /\ ValuesOf("color") = Colours
    /\ "name" \notin Days /\ "temperatures" \notin Days /\ "color" \notin PayloadFields
  BY CalendarAssumption DEF ValuesOf, PayloadFields

\* What as_json makes of a state that passes validate is a payload.
LEMMA AsJsonIsPayload ==
    ASSUME NEW s \in CalendarState, Complete(s)
    PROVE  AsJson(s) \in Payloads
<1> SUFFICES ASSUME NEW f \in PayloadFields
             PROVE  /\ AsJson(s)[f] \in ValuesOf(f) \ (Rejected \cup {None})
                    /\ AsJson(s)[f] \in Schedules \cup Names \cup Temperatures
  BY DEF AsJson, Payloads
<1>1. s[f] \in ValuesOf(f) \cup {None} /\ s[f] \notin Rejected
  BY DEF CalendarState, Fields, Complete
<1>2. ValuesOf(f) \subseteq Schedules \cup Names \cup Temperatures
  BY ValuesOfFields DEF PayloadFields
<1>3. CASE f = "name" /\ s[f] = None
  <2>1. EmptyName \in Names \ Rejected /\ EmptyName # None
    BY CalendarAssumption DEF EmptyName, None
  <2>2. AsJson(s)[f] = EmptyName
    BY <1>3 DEF AsJson
  <2> QED
    BY <1>3, <2>1, <2>2, ValuesOfFields
<1>4. CASE ~(f = "name" /\ s[f] = None)
  <2>1. AsJson(s)[f] = s[f] /\ s[f] # None
    BY <1>4 DEF AsJson, Complete
  <2> QED
    BY <1>1, <1>2, <2>1
<1> QED
  BY <1>3, <1>4

\* What write makes of a complete state are setters of the calendar (write, validate).
LEMMA SettersAreProper ==
    ASSUME NEW s \in CalendarState, Complete(s), NEW cal \in Calendars
    PROVE  Setters(s, cal) \in Seq(SettersFor(cal))
<1> DEFINE payload == PayloadSetter(AsJson(s))
           colour == ColourSetter(s["color"])
<1>1. \A f \in Fields : s[f] \in ValuesOf(f) \cup {None}
  BY DEF CalendarState
<1>2. AsJson(s) \in Payloads
  BY AsJsonIsPayload
<1>3. "name" \in PayloadFields /\ "temperatures" \in PayloadFields /\ "color" \in Fields
  BY DEF PayloadFields, Fields
<1>4. AsJson(s)["name"] \in Names /\ AsJson(s)["temperatures"] \in Temperatures
  BY <1>2, <1>3, ValuesOfFields DEF Payloads
<1>5. /\ ValueLen \in [Names \cup Temperatures \cup Colours \cup {None} -> Nat]
      /\ EncodedLen \in [Names \cup Temperatures \cup Colours \cup {None} -> Nat]
  BY CalendarAssumption
<1>6. /\ ValueLen[AsJson(s)["name"]] + ValueLen[AsJson(s)["temperatures"]] \in Nat
      /\ EncodedLen[AsJson(s)["name"]] + EncodedLen[AsJson(s)["temperatures"]] \in Nat
  BY <1>4, <1>5
<1>7. payload \in SettersFor(cal)
  BY <1>2, <1>6 DEF SettersFor, PayloadSetter
<1>8. CASE cal \in Coloured /\ s["color"] # None
  <2>1. s["color"] \in Colours \ {None}
    BY <1>1, <1>3, <1>8, ValuesOfFields
  <2>2. [f \in {"color"} |-> s["color"]] \in ColoursFor(cal)
    BY <1>8, <2>1 DEF ColoursFor
  <2>3. colour \in SettersFor(cal)
    BY <1>5, <2>1, <2>2 DEF SettersFor, ColourSetter
  <2>4. Setters(s, cal) = <<payload>> \o <<colour>>
    BY <1>8 DEF Setters
  <2> HIDE DEF payload, colour
  <2>5. <<payload>> \in Seq(SettersFor(cal)) /\ <<colour>> \in Seq(SettersFor(cal))
    BY <1>7, <2>3
  <2> QED
    BY <2>4, <2>5, ConcatProperties
<1>9. CASE ~(cal \in Coloured /\ s["color"] # None)
  <2>1. Setters(s, cal) = <<payload>> \o <<>>
    BY <1>9 DEF Setters
  <2> HIDE DEF payload
  <2>2. <<payload>> \in Seq(SettersFor(cal))
    BY <1>7
  <2> QED
    BY <2>1, <2>2, ConcatEmptySeq
<1> QED
  BY <1>8, <1>9

\* What the packing sees of the setters (write).
LEMMA ItemsOfSetters ==
    ASSUME NEW cal \in Calendars, NEW setters \in Seq(SettersFor(cal))
    PROVE  Items(setters) \in Seq(Item) /\ Len(Items(setters)) = Len(setters)
<1>1. Len(setters) \in Nat /\ DOMAIN setters = 1 .. Len(setters)
  BY LenProperties
<1>2. ASSUME NEW i \in 1 .. Len(setters)
      PROVE  [fragment |-> PathLen + 1 + setters[i].encoded,
              response |-> PathLen + setters[i].len + 2] \in Item
  <2>1. setters[i] \in SettersFor(cal)
    BY ElementOfSeq
  <2>2. setters[i].encoded \in Nat /\ setters[i].len \in Nat /\ PathLen \in Nat
    BY <2>1, CalendarAssumption DEF SettersFor
  <2> QED
    BY <2>2 DEF Item
<1>3. Items(setters) \in [1 .. Len(setters) -> Item]
  BY <1>1, <1>2 DEF Items
<1> QED
  BY <1>1, <1>3, IsASeq, LenProperties

\* The requests of a write end within its setters (pack_chunks).
LEMMA EndsAreWithin ==
    ASSUME NEW cal \in Calendars, NEW setters \in Seq(SettersFor(cal)), ~TooLong(Items(setters))
    PROVE  Ends(setters) \in Seq(1 .. Len(setters))
<1> DEFINE items == Items(setters)
           chunks == Pack(items)
<1>1. items \in Seq(Item) /\ Len(items) = Len(setters)
  BY ItemsOfSetters
<1>2. /\ chunks \in Seq(Seq(1 .. Len(items)))
      /\ CutsInOrder(chunks, Len(items))
  BY <1>1, PackContract
<1> HIDE DEF items, chunks
<1>3. Len(chunks) \in Nat /\ DOMAIN chunks = 1 .. Len(chunks)
  BY <1>2, LenProperties
<1>4. ASSUME NEW k \in 1 .. Len(chunks)
      PROVE  Last(chunks[k]) \in 1 .. Len(setters)
  <2>1. chunks[k] \in Seq(1 .. Len(setters)) /\ chunks[k] # <<>>
    BY <1>1, <1>2, ElementOfSeq DEF CutsInOrder
  <2>2. Len(chunks[k]) \in 1 .. Len(chunks[k])
    BY <2>1, EmptySeq
  <2> QED
    BY <2>1, <2>2, ElementOfSeq DEF Last
<1>5. Ends(setters) = [k \in 1 .. Len(chunks) |-> Last(chunks[k])]
  BY <1>3 DEF Ends, chunks, items
<1>6. Ends(setters) \in [1 .. Len(chunks) -> 1 .. Len(setters)]
  BY <1>4, <1>5
<1> QED
  BY <1>3, <1>6, SeqDef

-----------------------------------------------------------------------------
\* What a setter of a calendar sets a field to.
LEMMA ValueOfSetter ==
    ASSUME NEW cal \in Calendars, NEW setter \in SettersFor(cal), NEW f \in Fields, f \in Sets(setter)
    PROVE  /\ setter.values[f] \in ValuesOf(f) \ {None}
           /\ f \in PayloadFields => setter.values[f] \notin Rejected
           /\ f = "color" => cal \in Coloured
<1>1. "color" \notin Days /\ "color" \notin PayloadFields
  BY CalendarAssumption DEF PayloadFields
<1>2. setter.values \in Payloads \/ setter.values \in ColoursFor(cal)
  BY DEF SettersFor
<1>3. CASE setter.values \in Payloads
  <2>1. DOMAIN setter.values = PayloadFields
    BY <1>3 DEF Payloads
  <2>2. f \in PayloadFields
    BY <2>1 DEF Sets
  <2> QED
    BY <1>1, <1>3, <2>2 DEF Payloads
<1>4. CASE setter.values \in ColoursFor(cal)
  <2>1. cal \in Coloured /\ setter.values \in [{"color"} -> Colours \ {None}]
    BY <1>4 DEF ColoursFor
  <2>2. f = "color"
    BY <2>1 DEF Sets
  <2> QED
    BY <1>1, <2>1, <2>2, ValuesOfFields
<1> QED
  BY <1>2, <1>3, <1>4

\* An entry of the log is of some editor.
LEMMA LoggedOfEditor ==
    ASSUME Shapes, NEW i \in 1 .. Len(log)
    PROVE  log[i].client \in Editors
<1>1. log \in Seq(Entry)
  BY DEF Shapes
<1>2. log[i] \in Entry
  BY <1>1, ElementOfSeq
<1> QED
  BY <1>2 DEF Entry

\* An entry of the log is a setter of the calendar its call writes.
LEMMA LoggedIsProper ==
    ASSUME Inv, NEW i \in 1 .. Len(log)
    PROVE  /\ CallOf(i).calendar \in Calendars
           /\ SetterOf(i) \in SettersFor(CallOf(i).calendar)
<1> DEFINE e == log[i].client
           n == log[i].call
<1>1. e \in Editors
  BY LoggedOfEditor DEF Inv
<1>2. n \in 1 .. Len(wrote[e]) /\ log[i].index \in 1 .. Len(wrote[e][n].setters)
  BY DEF Inv, Logged, Known
<1>3. Proper(calls[e][n], wrote[e][n])
  BY <1>1, <1>2 DEF Inv, Sent
<1>4. wrote[e][n].calendar \in Calendars /\ wrote[e][n].setters \in Seq(SettersFor(wrote[e][n].calendar))
  BY <1>3 DEF Proper
<1>5. wrote[e][n].setters[log[i].index] \in SettersFor(wrote[e][n].calendar)
  BY <1>2, <1>4, ElementOfSeq
<1> QED
  BY <1>4, <1>5 DEF CallOf, SetterOf

\* Whatever the log holds, the calendars on the device are complete.
LEMMA DeviceIsProper ==
    ASSUME Inv, NEW cal \in Calendars
    PROVE  /\ Device(cal) \in CalendarState
           /\ Complete(Device(cal))
           /\ cal \in Coloured <=> Device(cal)["color"] # None
<1>1. Len(log) \in Nat
  BY LenProperties DEF Inv, Shapes
<1>2. /\ Initial[cal] \in CalendarState /\ Complete(Initial[cal])
      /\ cal \in Coloured <=> Initial[cal]["color"] # None
  BY CalendarAssumption
<1>3. ASSUME NEW f \in Fields
      PROVE  /\ Device(cal)[f] \in ValuesOf(f) \cup {None}
             /\ f \in PayloadFields => Device(cal)[f] \notin Rejected
             /\ f \in PayloadFields \ {"name"} => Device(cal)[f] # None
             /\ f = "color" => (cal \in Coloured <=> Device(cal)[f] # None)
  <2> DEFINE touching == Touching(cal, f, Len(log))
  <2>1. Device(cal)[f] = IF touching = {} THEN Initial[cal][f] ELSE SetterOf(Max(touching)).values[f]
    BY DEF Device, ValueAt
  <2>2. CASE touching = {}
    <3>1. Device(cal)[f] = Initial[cal][f]
      BY <2>1, <2>2
    <3> QED
      BY <1>2, <3>1 DEF CalendarState, Complete
  <2>3. CASE touching # {}
    <3>1. touching \in SUBSET (0 .. Len(log))
      BY <1>1 DEF Touching
    <3> DEFINE last == Max(touching)
    <3>2. last \in touching
      <4> HIDE DEF touching
      <4> QED
        BY <1>1, <2>3, <3>1, MaxIsLatest
    <3>3. last \in 1 .. Len(log) /\ CallOf(last).calendar = cal /\ f \in Sets(SetterOf(last))
      BY <3>2 DEF Touching
    <3>4. Device(cal)[f] = SetterOf(last).values[f]
      BY <2>1, <2>3
    <3> HIDE DEF last, touching
    <3>5. SetterOf(last) \in SettersFor(cal)
      BY <3>3, LoggedIsProper
    <3> QED
      BY <3>3, <3>4, <3>5, ValueOfSetter
  <2> QED
    BY <2>2, <2>3
<1>4. Device(cal) = [f \in Fields |-> Device(cal)[f]]
  BY DEF Device
<1>5. \A f \in Fields : ValuesOf(f) \subseteq Schedules \cup Names \cup Temperatures \cup Colours
  BY ValuesOfFields DEF Fields, PayloadFields
<1>6. Device(cal) \in CalendarState
  BY <1>3, <1>4, <1>5 DEF CalendarState
<1>7. PayloadFields \subseteq Fields /\ "color" \in Fields
  BY DEF Fields
<1> QED
  BY <1>3, <1>6, <1>7 DEF Complete

-----------------------------------------------------------------------------
\* Inv holds before any read or write.
LEMMA InitInv == Init => Inv
<1> SUFFICES ASSUME Init PROVE Inv
  OBVIOUS
<1>1. /\ log = <<>> /\ adrift = {}
      /\ calls = [e \in Editors |-> <<>>] /\ wrote = [e \in Editors |-> <<>>]
  BY DEF Init, Api!Init
<1>2. IsSequence(<<>>) /\ Len(<<>>) = 0
  BY EmptySeq DEF IsSequence
<1>3. Shapes
  BY <1>1, <1>2 DEF Shapes
<1>4. Unread \in CalendarState
  BY DEF Unread, CalendarState
<1>5. Copies
  BY <1>4 DEF Copies, Init
<1>6. Sent /\ Adrift /\ Logged
  BY <1>1, <1>2 DEF Sent, Adrift, Logged
<1> QED
  BY <1>3, <1>5, <1>6 DEF Inv

\* A read gives a copy that is a state of a calendar (update, parse_state).
LEMMA UpdateKeepsInv ==
    ASSUME Inv, NEW e \in Editors, NEW cal \in Calendars, NEW off, Update(e, cal, off)
    PROVE  Inv'
<1> DEFINE read == [state |-> ParseState(Device(cal), off), read |-> Reads(e) + 1,
                    read_at |-> Len(log), edited |-> {}]
<1>1. /\ copies' = [copies EXCEPT ![e][cal] = read]
      /\ UNCHANGED <<calls, log, adrift, wrote>>
  BY DEF Update
<1>2. ParseState(Device(cal), off) \in CalendarState
  <2>1. Device(cal) \in CalendarState
    BY DeviceIsProper
  <2>2. Unread \in CalendarState
    BY DEF Unread, CalendarState
  <2>3. ASSUME NEW s \in CalendarState
        PROVE  [s EXCEPT !["color"] = None] \in CalendarState /\ [s EXCEPT !["color"] = s["color"]] = s
    BY DEF CalendarState
  <2> QED
    BY <2>1, <2>2, <2>3 DEF ParseState
<1>3. DOMAIN read = {"state", "read", "read_at", "edited"} /\ read.state \in CalendarState
  BY <1>2
<1> HIDE DEF read
<1>4. Copies'
  BY <1>1, <1>3 DEF Inv, Copies
<1>5. Shapes' /\ Sent' /\ Adrift' /\ Logged'
  BY <1>1 DEF Inv, Shapes, Sent, Adrift, Logged, Known
<1> QED
  BY <1>4, <1>5 DEF Inv

\* What a write makes of a copy, and what it sends.
NewState(e, task) == Edited(copies[e][task.from].state, task.edit)

NewEdited(e, task) == copies[e][task.from].edited \cup DOMAIN task.edit

NewSetters(e, task) == Setters(NewState(e, task), task.to)

NewWrite(e, task) ==
    [calendar |-> task.to, setters |-> NewSetters(e, task), from |-> task.from,
     read |-> copies[e][task.from].read, read_at |-> copies[e][task.from].read_at,
     given |-> {f \in Fields : NewState(e, task)[f] # None},
     edited |-> IF task.from = task.to THEN NewEdited(e, task) ELSE Fields]

NewOutcome(e, task) ==
    IF NewState(e, task)["name"] \in Unencodable THEN "invalid"
    ELSE IF TooLong(Items(NewSetters(e, task))) THEN "too_long" ELSE "open"

NewCall(e, task) == [ends |-> Ends(NewSetters(e, task)), outcome |-> NewOutcome(e, task)]

\* It starts from a copy that was read, and what it writes is complete.
LEMMA WriteFacts ==
    ASSUME Inv, NEW e \in Editors, NEW task \in Tasks[e], Write(e, task.from, task.to, task.edit)
    PROVE  /\ task.from \in Calendars /\ task.to \in Calendars
           /\ NewState(e, task) \in CalendarState /\ Complete(NewState(e, task))
           /\ copies[e][task.from].read > 0
           /\ calls' = [calls EXCEPT ![e] = Append(calls[e], NewCall(e, task))]
           /\ wrote' = [wrote EXCEPT ![e] = Append(wrote[e], NewWrite(e, task))]
           /\ copies' = [copies EXCEPT ![e][task.from].state = NewState(e, task),
                                       ![e][task.from].edited = NewEdited(e, task)]
           /\ log' = log /\ adrift' = adrift
<1>1. /\ calls' = [calls EXCEPT ![e] = Append(calls[e], NewCall(e, task))]
      /\ wrote' = [wrote EXCEPT ![e] = Append(wrote[e], NewWrite(e, task))]
      /\ copies' = [copies EXCEPT ![e][task.from].state = NewState(e, task),
                                  ![e][task.from].edited = NewEdited(e, task)]
      /\ log' = log /\ adrift' = adrift
      /\ copies[e][task.from].read > 0
      /\ Complete(NewState(e, task))
  BY DEF Write, Api!Begin, Writable, NewCall, NewWrite, NewOutcome, NewSetters, NewState, NewEdited
<1>2. /\ task.from \in Calendars /\ task.to \in Calendars
      /\ \A f \in DOMAIN task.edit : f \in Fields /\ task.edit[f] \in ValuesOf(f) \cup {None}
  BY CalendarAssumption
<1>3. NewState(e, task) \in CalendarState
  <2>1. copies[e][task.from].state \in CalendarState
    BY <1>2 DEF Inv, Copies
  <2>2. \A f \in Fields : NewState(e, task)[f] \in ValuesOf(f) \cup {None}
    BY <1>2, <2>1 DEF NewState, Edited, CalendarState
  <2>3. \A f \in Fields : ValuesOf(f) \subseteq Schedules \cup Names \cup Temperatures \cup Colours
    BY ValuesOfFields DEF Fields, PayloadFields
  <2> QED
    BY <2>2, <2>3 DEF CalendarState, NewState, Edited
<1> QED
  BY <1>1, <1>2, <1>3

\* It adds a call and what the call sets, and changes nothing of the earlier ones.
LEMMA WriteAddsCall ==
    ASSUME Inv, NEW e \in Editors, NEW task \in Tasks[e], Write(e, task.from, task.to, task.edit)
    PROVE  /\ \A d \in Editors : \A n \in 1 .. Len(wrote[d]) :
                 /\ n \in 1 .. Len(wrote'[d])
                 /\ wrote'[d][n] = wrote[d][n] /\ calls'[d][n] = calls[d][n]
           /\ \A d \in Editors : \A n \in 1 .. Len(wrote'[d]) :
                 n \in 1 .. Len(wrote[d]) \/ (d = e /\ n = Len(wrote[e]) + 1)
           /\ Len(wrote[e]) \in Nat
           /\ wrote'[e][Len(wrote[e]) + 1] = NewWrite(e, task)
           /\ calls'[e][Len(wrote[e]) + 1] = NewCall(e, task)
           /\ Shapes'
<1>1. /\ calls' = [calls EXCEPT ![e] = Append(calls[e], NewCall(e, task))]
      /\ wrote' = [wrote EXCEPT ![e] = Append(wrote[e], NewWrite(e, task))]
      /\ log' = log
  BY WriteFacts
<1>2. \A d \in Editors :
        /\ IsSequence(calls[d]) /\ IsSequence(wrote[d]) /\ Len(calls[d]) = Len(wrote[d])
        /\ Len(wrote[d]) \in Nat
  BY AppendedToSequence DEF Inv, Shapes
<1>3. /\ IsSequence(calls'[e]) /\ IsSequence(wrote'[e])
      /\ Len(calls'[e]) = Len(wrote[e]) + 1 /\ Len(wrote'[e]) = Len(wrote[e]) + 1
      /\ \A n \in 1 .. Len(wrote[e]) : calls'[e][n] = calls[e][n] /\ wrote'[e][n] = wrote[e][n]
      /\ calls'[e][Len(wrote[e]) + 1] = NewCall(e, task)
      /\ wrote'[e][Len(wrote[e]) + 1] = NewWrite(e, task)
  <2>1. /\ calls'[e] = Append(calls[e], NewCall(e, task))
        /\ wrote'[e] = Append(wrote[e], NewWrite(e, task))
    BY <1>1 DEF Inv, Shapes
  <2> QED
    BY <1>2, <2>1, AppendedToSequence
<1>4. \A d \in Editors \ {e} : calls'[d] = calls[d] /\ wrote'[d] = wrote[d]
  BY <1>1 DEF Inv, Shapes
<1>5. Shapes'
  <2>1. DOMAIN calls' = Editors /\ DOMAIN wrote' = Editors /\ log' = log
    BY <1>1 DEF Inv, Shapes
  <2>2. \A d \in Editors :
          IsSequence(calls'[d]) /\ IsSequence(wrote'[d]) /\ Len(calls'[d]) = Len(wrote'[d])
    BY <1>2, <1>3, <1>4
  <2> QED
    BY <2>1, <2>2 DEF Inv, Shapes
<1>6. ASSUME NEW d \in Editors, NEW n \in 1 .. Len(wrote[d])
      PROVE  n \in 1 .. Len(wrote'[d]) /\ calls'[d][n] = calls[d][n] /\ wrote'[d][n] = wrote[d][n]
  BY <1>2, <1>3, <1>4
<1>7. ASSUME NEW d \in Editors, NEW n \in 1 .. Len(wrote'[d])
      PROVE  n \in 1 .. Len(wrote[d]) \/ (d = e /\ n = Len(wrote[e]) + 1)
  BY <1>2, <1>3, <1>4
<1> QED
  BY <1>2, <1>3, <1>5, <1>6, <1>7

\* The copy it was made of is changed, in its state and what is edited of it.
LEMMA WriteChangesCopy ==
    ASSUME Inv, NEW e \in Editors, NEW task \in Tasks[e], Write(e, task.from, task.to, task.edit)
    PROVE  /\ DOMAIN copies' = Editors
           /\ \A d \in Editors : DOMAIN copies'[d] = Calendars
           /\ \A d \in Editors, cal \in Calendars :
                 d # e \/ cal # task.from => copies'[d][cal] = copies[d][cal]
           /\ DOMAIN copies'[e][task.from] = {"state", "read", "read_at", "edited"}
           /\ copies'[e][task.from].state = NewState(e, task)
           /\ copies'[e][task.from].edited = NewEdited(e, task)
           /\ copies'[e][task.from].read = copies[e][task.from].read
           /\ copies'[e][task.from].read_at = copies[e][task.from].read_at
<1>1. /\ task.from \in Calendars
      /\ copies' = [copies EXCEPT ![e][task.from].state = NewState(e, task),
                                  ![e][task.from].edited = NewEdited(e, task)]
  BY WriteFacts
<1>2. DOMAIN copies' = Editors /\ \A d \in Editors : DOMAIN copies'[d] = Calendars
  BY <1>1 DEF Inv, Copies
<1>3. \A d \in Editors, cal \in Calendars :
        d # e \/ cal # task.from => copies'[d][cal] = copies[d][cal]
  BY <1>1 DEF Inv, Copies
<1>4. copies'[e][task.from] = [copies[e][task.from] EXCEPT !.state = NewState(e, task),
                                                           !.edited = NewEdited(e, task)]
  BY <1>1 DEF Inv, Copies
<1>5. DOMAIN copies[e][task.from] = {"state", "read", "read_at", "edited"}
  BY <1>1 DEF Inv, Copies
<1> QED
  BY <1>2, <1>3, <1>4, <1>5

\* A write adds a call with proper setters and changes nothing of the earlier ones.
LEMMA WriteKeepsInv ==
    ASSUME Inv, NEW e \in Editors, NEW task \in Tasks[e], Write(e, task.from, task.to, task.edit)
    PROVE  Inv'
<1>1. NewSetters(e, task) \in Seq(SettersFor(task.to))
  BY WriteFacts, SettersAreProper DEF NewSetters
<1>2. Proper(NewCall(e, task), NewWrite(e, task))
  <2>1. NewOutcome(e, task) = "open" => ~TooLong(Items(NewSetters(e, task)))
    BY DEF NewOutcome
  <2>2. task.to \in Calendars
    BY WriteFacts
  <2>3. NewOutcome(e, task) = "open" =>
            Ends(NewSetters(e, task)) \in Seq(1 .. Len(NewSetters(e, task)))
    BY <1>1, <2>1, <2>2, EndsAreWithin
  <2> QED
    BY <1>1, <2>2, <2>3 DEF Proper, Cut, NewCall, NewWrite
<1>3. Shapes'
  BY WriteAddsCall
<1>4. Copies'
  <2>1. ASSUME NEW d \in Editors, NEW cal \in Calendars
        PROVE  /\ DOMAIN copies'[d][cal] = {"state", "read", "read_at", "edited"}
               /\ copies'[d][cal].state \in CalendarState
    <3>1. CASE d # e \/ cal # task.from
      BY <3>1, WriteChangesCopy DEF Inv, Copies
    <3>2. CASE d = e /\ cal = task.from
      <4>1. /\ DOMAIN copies'[e][task.from] = {"state", "read", "read_at", "edited"}
            /\ copies'[e][task.from].state = NewState(e, task)
        BY WriteChangesCopy
      <4>2. NewState(e, task) \in CalendarState
        BY WriteFacts
      <4> QED
        BY <3>2, <4>1, <4>2
    <3> QED
      BY <3>1, <3>2
  <2>2. DOMAIN copies' = Editors /\ \A d \in Editors : DOMAIN copies'[d] = Calendars
    BY WriteChangesCopy
  <2> QED
    BY <2>1, <2>2 DEF Copies
<1>5. log' = log /\ adrift' = adrift
  BY WriteFacts
<1>6. ASSUME NEW d \in Editors, NEW n \in 1 .. Len(wrote[d])
      PROVE  n \in 1 .. Len(wrote'[d]) /\ calls'[d][n] = calls[d][n] /\ wrote'[d][n] = wrote[d][n]
  BY WriteAddsCall
<1>7. Sent'
  <2>1. ASSUME NEW d \in Editors, NEW n \in 1 .. Len(wrote'[d])
        PROVE  Proper(calls'[d][n], wrote'[d][n])
    <3>1. CASE n \in 1 .. Len(wrote[d])
      BY <1>6, <3>1 DEF Inv, Sent
    <3>2. CASE n \notin 1 .. Len(wrote[d])
      <4>1. d = e /\ n = Len(wrote[e]) + 1
        BY <3>2, WriteAddsCall
      <4>2. calls'[d][n] = NewCall(e, task) /\ wrote'[d][n] = NewWrite(e, task)
        BY <4>1, WriteAddsCall
      <4> QED
        BY <1>2, <4>2
    <3> QED
      BY <3>1, <3>2
  <2> QED
    BY <2>1 DEF Sent, Proper, Cut
<1>8. Adrift'
  <2>1. ASSUME NEW late \in adrift
        PROVE  /\ late[1] \in Editors /\ late[2] \in 1 .. Len(wrote'[late[1]])
               /\ Cut(calls'[late[1]][late[2]], wrote'[late[1]][late[2]])
    <3>1. /\ late[1] \in Editors /\ late[2] \in 1 .. Len(wrote[late[1]])
          /\ Cut(calls[late[1]][late[2]], wrote[late[1]][late[2]])
      BY DEF Inv, Adrift
    <3> QED
      BY <1>6, <3>1
  <2> QED
    BY <1>5, <2>1 DEF Adrift, Cut
<1>9. Logged'
  <2>1. ASSUME NEW i \in 1 .. Len(log)
        PROVE  Known(log[i])'
    <3>1. log[i].client \in Editors
      BY LoggedOfEditor DEF Inv
    <3>2. Known(log[i])
      BY DEF Inv, Logged
    <3> QED
      BY <1>5, <1>6, <3>1, <3>2 DEF Known
  <2> QED
    BY <1>5, <2>1 DEF Logged
<1> QED
  BY <1>3, <1>4, <1>7, <1>8, <1>9 DEF Inv

\* What a request that is carried out adds to the log: the setters between two ends
\* of its call, of which those before have been carried out.
Adds(e, n, k, from, to) ==
    /\ k \in 1 .. Len(calls[e][n].ends)
    /\ from = Api!EndOf(e, n, k - 1) /\ to = Api!EndOf(e, n, k)
    /\ from \in 0 .. Len(wrote[e][n].setters) /\ to \in 0 .. Len(wrote[e][n].setters)
    /\ Api!Done(e, n) = 1 .. from
    /\ log' \in Seq(Entry)
    /\ Len(log') = Len(log) + (IF to < from THEN 0 ELSE to - from)
    /\ \A i \in 1 .. Len(log) : log'[i] = log[i]
    /\ \A i \in 1 .. to - from :
          log'[Len(log) + i] = [client |-> e, call |-> n, index |-> from + i]

LEMMA RunAdds ==
    ASSUME Inv, NEW e \in Editors, NEW n \in 1 .. Len(wrote[e]), Cut(calls[e][n], wrote[e][n]),
           Api!Run(e, n)
    PROVE  \E k, from, to : Adds(e, n, k, from, to)
<1>1. log \in Seq(Entry) /\ Len(log) \in Nat
  BY LenProperties DEF Inv, Shapes
<1> DEFINE ends == calls[e][n].ends
           size == Len(wrote[e][n].setters)
<1>2. PICK k \in DOMAIN ends :
        /\ Api!Done(e, n) = 1 .. Api!EndOf(e, n, k - 1)
        /\ log' = log \o [i \in 1 .. Api!EndOf(e, n, k) - Api!EndOf(e, n, k - 1) |->
                         [client |-> e, call |-> n, index |-> Api!EndOf(e, n, k - 1) + i]]
  BY DEF Api!Run
<1> DEFINE from == Api!EndOf(e, n, k - 1)
           to == Api!EndOf(e, n, k)
           tail == [i \in 1 .. to - from |-> [client |-> e, call |-> n, index |-> from + i]]
<1>3. n \in Nat /\ size \in Nat
  <2>1. IsSequence(wrote[e])
    BY DEF Inv, Shapes
  <2>2. Len(wrote[e]) \in Nat
    BY <2>1, AppendedToSequence
  <2>3. Proper(calls[e][n], wrote[e][n])
    BY DEF Inv, Sent
  <2>4. wrote[e][n].setters \in Seq(SettersFor(wrote[e][n].calendar))
    BY <2>3 DEF Proper
  <2> QED
    BY <2>2, <2>4, LenProperties
<1>4. k \in 1 .. Len(ends) /\ Len(ends) \in Nat
  <2>1. ends \in Seq(1 .. size)
    BY DEF Cut
  <2> HIDE DEF ends
  <2> QED
    BY <2>1, LenProperties
<1>5. from \in 0 .. size /\ to \in 0 .. size
  <2>1. ends \in Seq(1 .. size)
    BY DEF Cut
  <2>2. \A j \in 1 .. Len(ends) : ends[j] \in 1 .. size
    BY <2>1, ElementOfSeq
  <2>3. ASSUME NEW j \in 0 .. Len(ends)
        PROVE  Api!EndOf(e, n, j) \in 0 .. size
    <3>1. CASE j = 0
      BY <1>3, <3>1 DEF Api!EndOf
    <3>2. CASE j # 0
      BY <1>3, <1>4, <2>2, <3>2 DEF Api!EndOf
    <3> QED
      BY <3>1, <3>2
  <2> QED
    BY <1>4, <2>3
<1>6. log' = log \o tail
  BY <1>2
<1>7. Api!Done(e, n) = 1 .. from
  BY <1>2
<1>8. from = Api!EndOf(e, n, k - 1) /\ to = Api!EndOf(e, n, k)
  OBVIOUS
<1> HIDE DEF from, to
<1>9. ASSUME NEW i \in 1 .. to - from
      PROVE  tail[i] \in Entry /\ tail[i] = [client |-> e, call |-> n, index |-> from + i]
  <2>1. tail[i] = [client |-> e, call |-> n, index |-> from + i]
    OBVIOUS
  <2>2. from + i \in Nat
    BY <1>3, <1>5
  <2> HIDE DEF tail
  <2> QED
    BY <1>3, <2>1, <2>2 DEF Entry
<1>10. tail \in Seq(Entry) /\ Len(tail) = (IF to < from THEN 0 ELSE to - from)
  <2>1. CASE ~(to < from)
    <3>1. to - from \in Nat
      BY <1>3, <1>5, <2>1
    <3>2. tail \in [1 .. to - from -> Entry]
      BY <1>9
    <3> HIDE DEF tail
    <3>3. tail \in Seq(Entry)
      BY <3>1, <3>2, SeqDef
    <3> QED
      BY <2>1, <3>1, <3>2, <3>3, LenProperties
  <2>2. CASE to < from
    <3>1. 1 .. to - from = {}
      BY <1>3, <1>5, <2>2
    <3>2. tail = <<>>
      BY <3>1
    <3> HIDE DEF tail
    <3> QED
      BY <2>2, <3>2, EmptySeq
  <2> QED
    BY <2>1, <2>2
<1> HIDE DEF tail
<1>11. Len(tail) \in Nat
  BY <1>10, LenProperties
<1>12. /\ log' \in Seq(Entry) /\ Len(log') = Len(log) + Len(tail)
       /\ \A i \in 1 .. Len(log) + Len(tail) :
             log'[i] = IF i <= Len(log) THEN log[i] ELSE tail[i - Len(log)]
  BY <1>1, <1>6, <1>10, ConcatProperties
<1>13. \A i \in 1 .. Len(log) : log'[i] = log[i]
  BY <1>1, <1>11, <1>12
<1>14. ASSUME NEW i \in 1 .. to - from
       PROVE  log'[Len(log) + i] = [client |-> e, call |-> n, index |-> from + i]
  <2>1. i \in 1 .. Len(tail) /\ i \in Nat
    BY <1>3, <1>5, <1>10
  <2>2. Len(log) + i \in 1 .. Len(log) + Len(tail) /\ ~(Len(log) + i <= Len(log))
        /\ Len(log) + i - Len(log) = i
    BY <1>1, <1>11, <2>1
  <2>3. log'[Len(log) + i] = tail[i]
    BY <1>12, <2>2
  <2> QED
    BY <1>9, <2>3
<1>15. Len(log') = Len(log) + (IF to < from THEN 0 ELSE to - from)
  BY <1>10, <1>12
<1>16. Adds(e, n, k, from, to)
  <2> HIDE DEF ends, size
  <2>1. k \in 1 .. Len(calls[e][n].ends)
    BY <1>4 DEF ends
  <2>2. from \in 0 .. Len(wrote[e][n].setters) /\ to \in 0 .. Len(wrote[e][n].setters)
    BY <1>5 DEF size
  <2> QED
    BY <1>7, <1>8, <1>12, <1>13, <1>14, <1>15, <2>1, <2>2 DEF Adds
<1> QED
  BY <1>16

\* Where a position of the longer log lies.
Added(i, e, n, from, to) ==
    \/ i \in 1 .. Len(log) /\ log'[i] = log[i]
    \/ \E j \in 1 .. to - from :
          i = Len(log) + j /\ log'[i] = [client |-> e, call |-> n, index |-> from + j]

LEMMA AddedOrOld ==
    ASSUME Inv, NEW e \in Editors, NEW n \in 1 .. Len(wrote[e]), NEW k, NEW from, NEW to,
           Adds(e, n, k, from, to), NEW i \in 1 .. Len(log')
    PROVE  Added(i, e, n, from, to)
<1>1. Len(log) \in Nat
  BY LenProperties DEF Inv, Shapes
<1>2. wrote[e][n].setters \in Seq(SettersFor(wrote[e][n].calendar))
  BY DEF Inv, Sent, Proper
<1>3. Len(wrote[e][n].setters) \in Nat
  BY <1>2, LenProperties
<1>4. from \in Nat /\ to \in Nat
  BY <1>3 DEF Adds
<1>5. CASE i <= Len(log)
  <2>1. i \in 1 .. Len(log)
    BY <1>1, <1>5
  <2>2. log'[i] = log[i]
    BY <2>1 DEF Adds
  <2> QED
    BY <2>1, <2>2 DEF Added
<1>6. CASE ~(i <= Len(log))
  <2>1. Len(log') = Len(log) + (IF to < from THEN 0 ELSE to - from)
    BY DEF Adds
  <2>2. i \in Int
    OBVIOUS
  <2>3. i - Len(log) \in 1 .. to - from /\ i = Len(log) + (i - Len(log))
    BY <1>1, <1>4, <1>6, <2>1, <2>2
  <2> QED
    BY <2>3 DEF Adds, Added
<1> QED
  BY <1>5, <1>6

\* A request carried out, in its call or after it, adds setters of that call to the log.
LEMMA RunKeepsInv ==
    ASSUME Inv, NEW e \in Editors, NEW n \in 1 .. Len(wrote[e]), Cut(calls[e][n], wrote[e][n]),
           Api!Run(e, n) \/ UNCHANGED log, UNCHANGED <<calls, wrote, copies>>, adrift' \subseteq adrift
    PROVE  Inv'
<1>1. log \in Seq(Entry) /\ Len(log) \in Nat
  BY LenProperties DEF Inv, Shapes
<1>2. log' \in Seq(Entry) /\ (\A i \in 1 .. Len(log') : Known(log'[i]))
  <2>1. CASE UNCHANGED log
    BY <1>1, <2>1 DEF Inv, Logged
  <2>2. CASE Api!Run(e, n)
    <3>1. PICK k, from, to : Adds(e, n, k, from, to)
      BY <2>2, RunAdds
    <3>2. ASSUME NEW i \in 1 .. Len(log')
          PROVE  Known(log'[i])
      <4>1. CASE i \in 1 .. Len(log) /\ log'[i] = log[i]
        BY <4>1 DEF Inv, Logged
      <4>2. ASSUME NEW j \in 1 .. to - from,
                   log'[i] = [client |-> e, call |-> n, index |-> from + j]
            PROVE  Known(log'[i])
        <5>1. wrote[e][n].setters \in Seq(SettersFor(wrote[e][n].calendar))
          BY DEF Inv, Sent, Proper
        <5>2. Len(wrote[e][n].setters) \in Nat
          BY <5>1, LenProperties
        <5>3. from \in 0 .. Len(wrote[e][n].setters) /\ to \in 0 .. Len(wrote[e][n].setters)
          BY <3>1 DEF Adds
        <5>4. from + j \in 1 .. Len(wrote[e][n].setters)
          BY <5>2, <5>3
        <5> QED
          BY <4>2, <5>4 DEF Known
      <4>3. Added(i, e, n, from, to)
        BY <3>1, AddedOrOld
      <4> QED
        BY <4>1, <4>2, <4>3 DEF Added
    <3> QED
      BY <3>1, <3>2 DEF Adds
  <2> QED
    BY <2>1, <2>2
<1>3. Shapes'
  BY <1>2 DEF Inv, Shapes
<1>4. Copies' /\ Sent' /\ Adrift'
  BY DEF Inv, Copies, Sent, Adrift
<1>5. Logged'
  BY <1>2 DEF Logged, Known
<1> QED
  BY <1>3, <1>4, <1>5 DEF Inv

\* A call that is open is the last of its editor, and one that can be carried out.
LEMMA OpenIsCut ==
    ASSUME Inv, NEW e \in Editors, Api!IsOpen(e)
    PROVE  /\ Len(calls[e]) \in 1 .. Len(wrote[e])
           /\ Cut(calls[e][Len(calls[e])], wrote[e][Len(calls[e])])
<1>1. IsSequence(calls[e]) /\ calls[e] # <<>> /\ Len(wrote[e]) = Len(calls[e])
  BY DEF Inv, Shapes, Api!IsOpen
<1>2. Len(calls[e]) \in 1 .. Len(wrote[e])
  BY <1>1, EmptySeq DEF IsSequence
<1>3. Proper(calls[e][Len(calls[e])], wrote[e][Len(calls[e])])
  BY <1>2 DEF Inv, Sent
<1> QED
  BY <1>2, <1>3 DEF Proper, Api!IsOpen

\* A call that ends keeps Inv.
LEMMA EndKeepsInv ==
    ASSUME Inv, NEW e \in Editors, NEW outcome, Api!Ended(e, outcome), outcome # "open",
           UNCHANGED <<wrote, copies>>, adrift' \subseteq adrift \cup {<<e, Len(calls[e])>>}
    PROVE  Inv'
<1> DEFINE last == Len(calls[e])
           ended == [calls[e][last] EXCEPT !.outcome = outcome]
<1>1. Api!IsOpen(e) /\ log' = log /\ calls' = [calls EXCEPT ![e][last].outcome = outcome]
  BY DEF Api!Ended
<1>2. last \in 1 .. Len(wrote[e]) /\ Cut(calls[e][last], wrote[e][last])
  BY <1>1, OpenIsCut
<1>3. Len(calls[e]) = Len(wrote[e]) /\ IsSequence(calls[e])
  BY DEF Inv, Shapes
<1>4. Proper(calls[e][last], wrote[e][last])
  BY <1>2 DEF Inv, Sent
<1>5. DOMAIN ended = {"ends", "outcome"} /\ ended.ends = calls[e][last].ends /\ ended.outcome = outcome
  BY <1>4 DEF Proper
<1>6. calls'[e] = [calls[e] EXCEPT ![last] = ended] /\ DOMAIN calls' = Editors
  BY <1>1 DEF Inv, Shapes
<1> HIDE DEF ended
<1>7. /\ IsSequence(calls'[e]) /\ Len(calls'[e]) = Len(calls[e])
      /\ \A n \in 1 .. Len(calls[e]) : calls'[e][n] = IF n = last THEN ended ELSE calls[e][n]
  <2>1. last \in 1 .. Len(calls[e])
    BY <1>2, <1>3
  <2> HIDE DEF last
  <2>2. /\ IsSequence([calls[e] EXCEPT ![last] = ended])
        /\ Len([calls[e] EXCEPT ![last] = ended]) = Len(calls[e])
        /\ \A n \in 1 .. Len(calls[e]) :
              [calls[e] EXCEPT ![last] = ended][n] = IF n = last THEN ended ELSE calls[e][n]
    BY <1>3, <2>1, ReplacedInSequence
  <2> QED
    BY <1>6, <2>2
<1>8. \A d \in Editors \ {e} : calls'[d] = calls[d]
  BY <1>1 DEF Inv, Shapes
<1>9. Shapes'
  BY <1>1, <1>6, <1>7, <1>8 DEF Inv, Shapes
<1>10. Copies' /\ Logged'
  BY <1>1 DEF Inv, Copies, Logged, Known
<1>11. ASSUME NEW d \in Editors, NEW n \in 1 .. Len(wrote[d])
       PROVE  calls'[d][n] = IF d = e /\ n = last THEN ended ELSE calls[d][n]
  BY <1>3, <1>7, <1>8
<1>12. ASSUME NEW d \in Editors, NEW n \in 1 .. Len(wrote[d]), Cut(calls[d][n], wrote[d][n])
       PROVE  Cut(calls'[d][n], wrote[d][n])
  BY <1>5, <1>11, <1>12 DEF Cut
<1>13. Sent'
  <2>1. ASSUME NEW d \in Editors, NEW n \in 1 .. Len(wrote[d])
        PROVE  Proper(calls'[d][n], wrote[d][n])
    <3>1. Proper(calls[d][n], wrote[d][n])
      BY DEF Inv, Sent
    <3>2. CASE d = e /\ n = last
      BY <1>5, <1>11, <3>1, <3>2 DEF Proper
    <3>3. CASE ~(d = e /\ n = last)
      BY <1>11, <3>1, <3>3
    <3> QED
      BY <3>2, <3>3
  <2> QED
    BY <2>1 DEF Sent, Proper, Cut
<1>14. Adrift'
  <2>1. ASSUME NEW late \in adrift'
        PROVE  /\ late[1] \in Editors /\ late[2] \in 1 .. Len(wrote[late[1]])
               /\ Cut(calls'[late[1]][late[2]], wrote[late[1]][late[2]])
    <3>1. /\ late[1] \in Editors /\ late[2] \in 1 .. Len(wrote[late[1]])
          /\ Cut(calls[late[1]][late[2]], wrote[late[1]][late[2]])
      <4>1. CASE late \in adrift
        BY <4>1 DEF Inv, Adrift
      <4>2. CASE late = <<e, last>>
        BY <1>2, <4>2
      <4> QED
        BY <4>1, <4>2
    <3> QED
      BY <1>12, <3>1
  <2> QED
    BY <2>1 DEF Adrift, Cut
<1> QED
  BY <1>9, <1>10, <1>13, <1>14 DEF Inv

\* Whatever becomes of the calls keeps Inv.
LEMMA CarryKeepsInv == ASSUME Inv, Carry PROVE Inv'
<1>1. ASSUME NEW e \in Editors, Api!Write(e)
      PROVE  Inv'
  BY <1>1, OpenIsCut, RunKeepsInv DEF Carry, Api!Write
<1>2. ASSUME NEW e \in Editors, Api!Return(e)
      PROVE  Inv'
  BY <1>2, EndKeepsInv DEF Carry, Api!Return
<1>3. ASSUME NEW e \in Editors, Api!Fail(e)
      PROVE  Inv'
  BY <1>3, EndKeepsInv DEF Carry, Api!Fail
<1>4. ASSUME NEW late \in adrift, Api!Straggle(late[1], late[2])
      PROVE  Inv'
  <2>1. /\ late[1] \in Editors /\ late[2] \in 1 .. Len(wrote[late[1]])
        /\ Cut(calls[late[1]][late[2]], wrote[late[1]][late[2]])
    BY DEF Inv, Adrift
  <2> QED
    BY <1>4, <2>1, RunKeepsInv DEF Carry, Api!Straggle
<1> QED
  BY <1>1, <1>2, <1>3, <1>4 DEF Carry

\* Inv holds in every state.
LEMMA InvHolds == Spec => []Inv
<1>1. Init => Inv
  BY InitInv
<1>2. Inv /\ [Next]_vars => Inv'
  <2> SUFFICES ASSUME Inv, [Next]_vars PROVE Inv'
    OBVIOUS
  <2>1. CASE UNCHANGED vars
    <3>1. Shapes' /\ Copies' /\ Sent' /\ Adrift' /\ Logged'
      BY <2>1 DEF vars, Inv, Shapes, Copies, Sent, Adrift, Logged, Known
    <3> QED
      BY <3>1 DEF Inv
  <2>2. ASSUME NEW e \in Editors, NEW cal \in Calendars, NEW off \in SUBSET {"payload", "color"},
               Update(e, cal, off)
        PROVE  Inv'
    BY <2>2, UpdateKeepsInv
  <2>3. ASSUME NEW e \in Editors, NEW task \in Tasks[e], Write(e, task.from, task.to, task.edit)
        PROVE  Inv'
    BY <2>3, WriteKeepsInv
  <2>4. CASE Carry
    BY <2>4, CarryKeepsInv
  <2> QED
    BY <2>1, <2>2, <2>3, <2>4 DEF Next
<1> QED
  BY <1>1, <1>2, PTL DEF Spec

-----------------------------------------------------------------------------
(***************************************************************************)
(* What a step adds and what it leaves alone.                              *)
(***************************************************************************)
\* Calls and writes are only added, and so are entries of the log, of calls there are.
Grown ==
    /\ \A e \in Editors : \A n \in 1 .. Len(wrote[e]) :
          /\ n \in 1 .. Len(wrote'[e])
          /\ wrote'[e][n] = wrote[e][n] /\ calls'[e][n].ends = calls[e][n].ends
    /\ Len(log) \in Nat /\ Len(log') \in Nat /\ Len(log) <= Len(log')
    /\ \A i \in 1 .. Len(log) : log'[i] = log[i]
    /\ \A i \in 1 .. Len(log') :
          i \in 1 .. Len(log) \/ log'[i].call \in 1 .. Len(wrote[log'[i].client])

\* A call that ends keeps its runs.
LEMMA EndKeepsRuns ==
    ASSUME Inv, NEW e \in Editors, NEW outcome, Api!Ended(e, outcome),
           NEW d \in Editors, NEW n \in 1 .. Len(wrote[d])
    PROVE  calls'[d][n].ends = calls[d][n].ends
<1> DEFINE last == Len(calls[e])
           ended == [calls[e][last] EXCEPT !.outcome = outcome]
<1>1. Api!IsOpen(e) /\ calls' = [calls EXCEPT ![e][last].outcome = outcome]
  BY DEF Api!Ended
<1>2. last \in 1 .. Len(calls[e]) /\ last \in 1 .. Len(wrote[e])
  BY <1>1, OpenIsCut DEF Inv, Shapes
<1>3. Proper(calls[e][last], wrote[e][last])
  BY <1>2 DEF Inv, Sent
<1>4. ended.ends = calls[e][last].ends
  BY <1>3 DEF Proper
<1>5. d # e => calls'[d] = calls[d]
  BY <1>1 DEF Inv, Shapes
<1>6. calls'[e] = [calls[e] EXCEPT ![last] = ended] /\ IsSequence(calls[e])
  BY <1>1 DEF Inv, Shapes
<1> HIDE DEF ended
<1>7. CASE d = e
  <2>1. n \in 1 .. Len(calls[e])
    BY <1>7 DEF Inv, Shapes
  <2> HIDE DEF last
  <2>2. calls'[e][n] = IF n = last THEN ended ELSE calls[e][n]
    BY <1>2, <1>6, <2>1, ReplacedInSequence
  <2> QED
    BY <1>4, <1>7, <2>2
<1> QED
  BY <1>5, <1>7

\* A call that may have a run carried out.
OpenOrAdrift(e, n) ==
    \/ Api!IsOpen(e) /\ n = Len(wrote[e])
    \/ \E call \in adrift : call[1] = e /\ call[2] = n

\* What becomes of the calls: a run is carried out, or one of them ends.
LEMMA CarrySteps ==
    ASSUME Inv, Carry
    PROVE  /\ UNCHANGED <<wrote, copies>>
           /\ \/ \E e \in Editors : \E n \in 1 .. Len(wrote[e]) :
                    /\ Cut(calls[e][n], wrote[e][n]) /\ OpenOrAdrift(e, n)
                    /\ Api!Run(e, n) \/ UNCHANGED log
                    /\ UNCHANGED calls /\ adrift' \subseteq adrift
              \/ \E e \in Editors, outcome \in {"ok", "connection"} :
                    /\ Api!Ended(e, outcome)
                    /\ adrift' \subseteq adrift
                          \cup (IF outcome = "connection" THEN {<<e, Len(calls[e])>>} ELSE {})
<1> DEFINE Ran == \E e \in Editors : \E n \in 1 .. Len(wrote[e]) :
                    /\ Cut(calls[e][n], wrote[e][n]) /\ OpenOrAdrift(e, n)
                    /\ Api!Run(e, n) \/ UNCHANGED log
                    /\ UNCHANGED calls /\ adrift' \subseteq adrift
           Over == \E e \in Editors, outcome \in {"ok", "connection"} :
                    /\ Api!Ended(e, outcome)
                    /\ adrift' \subseteq adrift
                          \cup (IF outcome = "connection" THEN {<<e, Len(calls[e])>>} ELSE {})
<1>1. ASSUME NEW e \in Editors, Api!Write(e)
      PROVE  Ran
  <2>1. Len(calls[e]) \in 1 .. Len(wrote[e]) /\ Cut(calls[e][Len(calls[e])], wrote[e][Len(calls[e])])
    BY <1>1, OpenIsCut DEF Api!Write
  <2>2. Len(calls[e]) = Len(wrote[e])
    BY DEF Inv, Shapes
  <2> QED
    BY <1>1, <2>1, <2>2 DEF Api!Write, OpenOrAdrift
<1>2. ASSUME NEW e \in Editors, Api!Return(e) \/ Api!Fail(e)
      PROVE  Over
  BY <1>2 DEF Api!Return, Api!Fail
<1>3. ASSUME NEW late \in adrift, Api!Straggle(late[1], late[2])
      PROVE  Ran
  <2>1. /\ late[1] \in Editors /\ late[2] \in 1 .. Len(wrote[late[1]])
        /\ Cut(calls[late[1]][late[2]], wrote[late[1]][late[2]])
    BY DEF Inv, Adrift
  <2>2. Api!Run(late[1], late[2]) \/ UNCHANGED log
    BY <1>3 DEF Api!Straggle
  <2>3. UNCHANGED calls /\ adrift' \subseteq adrift
    BY <1>3 DEF Api!Straggle
  <2>4. OpenOrAdrift(late[1], late[2])
    BY DEF OpenOrAdrift
  <2> QED
    BY <2>1, <2>2, <2>3, <2>4
<1> HIDE DEF Ran, Over
<1>4. Ran \/ Over
  BY <1>1, <1>2, <1>3 DEF Carry
<1>5. UNCHANGED <<wrote, copies>>
  BY DEF Carry
<1> QED
  BY <1>4, <1>5 DEF Ran, Over

\* Every step of the system leaves what was called, written and logged.
LEMMA StepGrows ==
    ASSUME Inv, [Next]_vars
    PROVE  Grown
<1>1. Len(log) \in Nat
  BY LenProperties DEF Inv, Shapes
<1>2. ASSUME UNCHANGED <<calls, wrote>>, UNCHANGED log
      PROVE  Grown
  BY <1>1, <1>2 DEF Grown
<1>3. CASE UNCHANGED vars
  BY <1>2, <1>3 DEF vars
<1>4. ASSUME NEW e \in Editors, NEW cal, NEW off, Update(e, cal, off)
      PROVE  Grown
  BY <1>2, <1>4 DEF Update
<1>5. ASSUME NEW e \in Editors, NEW task \in Tasks[e], Write(e, task.from, task.to, task.edit)
      PROVE  Grown
  <2>1. ASSUME NEW d \in Editors, NEW n \in 1 .. Len(wrote[d])
        PROVE  n \in 1 .. Len(wrote'[d]) /\ wrote'[d][n] = wrote[d][n]
               /\ calls'[d][n] = calls[d][n]
    BY <1>5, <2>1, WriteAddsCall
  <2>2. log' = log
    BY <1>5, WriteFacts
  <2> QED
    BY <1>1, <2>1, <2>2 DEF Grown
<1>6. CASE Carry
  <2>1. ASSUME NEW e \in Editors, NEW n \in 1 .. Len(wrote[e]), Cut(calls[e][n], wrote[e][n]),
               Api!Run(e, n), UNCHANGED <<calls, wrote>>
        PROVE  Grown
    <3>1. PICK k, from, to : Adds(e, n, k, from, to)
      BY <2>1, RunAdds
    <3>2. Len(log') \in Nat
      BY <3>1, LenProperties DEF Adds
    <3>3. Len(log) <= Len(log')
      <4>1. wrote[e][n].setters \in Seq(SettersFor(wrote[e][n].calendar))
        BY DEF Inv, Sent, Proper
      <4>2. Len(wrote[e][n].setters) \in Nat
        BY <4>1, LenProperties
      <4>3. from \in 0 .. Len(wrote[e][n].setters) /\ to \in 0 .. Len(wrote[e][n].setters)
            /\ Len(log') = Len(log) + (IF to < from THEN 0 ELSE to - from)
        BY <3>1 DEF Adds
      <4> QED
        BY <1>1, <4>2, <4>3
    <3>4. \A i \in 1 .. Len(log) : log'[i] = log[i]
      BY <3>1 DEF Adds
    <3>5. ASSUME NEW i \in 1 .. Len(log')
          PROVE  i \in 1 .. Len(log) \/ log'[i].call \in 1 .. Len(wrote[log'[i].client])
      <4>1. Added(i, e, n, from, to)
        BY <3>1, AddedOrOld
      <4>2. ASSUME NEW j, log'[i] = [client |-> e, call |-> n, index |-> from + j]
            PROVE  log'[i].call = n /\ log'[i].client = e
        BY <4>2
      <4> QED
        BY <4>1, <4>2 DEF Added
    <3> QED
      BY <1>1, <2>1, <3>2, <3>3, <3>4, <3>5 DEF Grown
  <2>2. ASSUME NEW e \in Editors, NEW outcome, Api!Ended(e, outcome), UNCHANGED wrote
        PROVE  Grown
    <3>1. \A d \in Editors : \A n \in 1 .. Len(wrote[d]) : calls'[d][n].ends = calls[d][n].ends
      BY <2>2, EndKeepsRuns
    <3>2. log' = log
      BY <2>2 DEF Api!Ended
    <3> QED
      BY <1>1, <2>2, <3>1, <3>2 DEF Grown
  <2> QED
    BY <1>2, <1>6, <2>1, <2>2, CarrySteps
<1> QED
  BY <1>3, <1>4, <1>5, <1>6 DEF Next

-----------------------------------------------------------------------------
(***************************************************************************)
(* Where what is written comes from.  The values of the log are stated for *)
(* a given log and given writes, so that what they were can be compared    *)
(* with what they are after a step.                                        *)
(***************************************************************************)
WriteIn(l, w, i) == w[l[i].client][l[i].call]

SetterIn(l, w, i) == WriteIn(l, w, i).setters[l[i].index]

TouchingIn(l, w, cal, f, last) ==
    {i \in 1 .. last : WriteIn(l, w, i).calendar = cal /\ f \in Sets(SetterIn(l, w, i))}

ValueIn(l, w, cal, f, last) ==
    IF TouchingIn(l, w, cal, f, last) = {} THEN Initial[cal][f]
    ELSE SetterIn(l, w, Max(TouchingIn(l, w, cal, f, last))).values[f]

\* They are those of the model.
LEMMA ValueAtIs ==
    ASSUME NEW cal, NEW f, NEW last
    PROVE  /\ Touching(cal, f, last) = TouchingIn(log, wrote, cal, f, last)
           /\ ValueAt(cal, f, last) = ValueIn(log, wrote, cal, f, last)
  BY DEF Touching, TouchingIn, ValueAt, ValueIn, CallOf, SetterOf, WriteIn, SetterIn

\* What the log held is what it holds of then, after a step.
LEMMA PastStays ==
    ASSUME Inv, Grown, NEW i \in 1 .. Len(log)
    PROVE  WriteIn(log', wrote', i) = WriteIn(log, wrote, i)
           /\ SetterIn(log', wrote', i) = SetterIn(log, wrote, i)
<1>1. log'[i] = log[i]
  BY DEF Grown
<1>2. log[i].client \in Editors
  BY LoggedOfEditor DEF Inv
<1>3. log[i].call \in 1 .. Len(wrote[log[i].client])
  BY DEF Inv, Logged, Known
<1>4. wrote'[log[i].client][log[i].call] = wrote[log[i].client][log[i].call]
  BY <1>2, <1>3 DEF Grown
<1> QED
  BY <1>1, <1>4 DEF WriteIn, SetterIn

LEMMA ValueStays ==
    ASSUME Inv, Grown, NEW last \in 0 .. Len(log), NEW cal, NEW f
    PROVE  ValueIn(log', wrote', cal, f, last) = ValueIn(log, wrote, cal, f, last)
<1>1. Len(log) \in Nat
  BY DEF Grown
<1>2. 1 .. last \subseteq 1 .. Len(log)
  BY <1>1
<1>3. ASSUME NEW i \in 1 .. last
      PROVE  WriteIn(log', wrote', i) = WriteIn(log, wrote, i)
             /\ SetterIn(log', wrote', i) = SetterIn(log, wrote, i)
  BY <1>2, PastStays
<1>4. TouchingIn(log', wrote', cal, f, last) = TouchingIn(log, wrote, cal, f, last)
  BY <1>3 DEF TouchingIn
<1>5. CASE TouchingIn(log, wrote, cal, f, last) = {}
  BY <1>4, <1>5 DEF ValueIn
<1>6. CASE TouchingIn(log, wrote, cal, f, last) # {}
  <2>1. TouchingIn(log, wrote, cal, f, last) \in SUBSET (0 .. Len(log))
    BY <1>1, <1>2 DEF TouchingIn
  <2>2. Max(TouchingIn(log, wrote, cal, f, last)) \in TouchingIn(log, wrote, cal, f, last)
    BY <1>1, <1>6, <2>1, MaxIsLatest
  <2>3. Max(TouchingIn(log, wrote, cal, f, last)) \in 1 .. last
    BY <2>2 DEF TouchingIn
  <2> QED
    BY <1>3, <1>4, <1>6, <2>3 DEF ValueIn
<1> QED
  BY <1>5, <1>6

-----------------------------------------------------------------------------
\* Every field of it was edited: it is not from the calendar it goes to.
Rewrites(write) ==
    \A s \in 1 .. Len(write.setters) : Sets(write.setters[s]) \subseteq write.edited

\* The copies of an editor are of reads of their own, the latest ones: their numbers
\* are bounded, and no write is of a later read than every copy.
Numbered(c, ws) ==
    /\ \A cal \in Calendars : c[cal].read \in Nat
    /\ \E b \in Nat : \A cal \in Calendars : c[cal].read <= b
    /\ \A cal, other \in Calendars :
          c[cal].read = c[other].read /\ c[cal].read > 0 => cal = other
    /\ \A n \in 1 .. Len(ws) :
          /\ ws[n].read \in Nat /\ ws[n].read > 0
          /\ \E cal \in Calendars : ws[n].read <= c[cal].read

\* The fields that a state has a value for.
Given(state) == {f \in Fields : state[f] # None}

\* What was edited and is there now, next to an earlier write: the same was edited, or
\* more, and what was not edited was there.
Extends(edited, given, write) ==
    write.edited \subseteq edited /\ given \ edited \subseteq write.given

\* A write and the copy it was made of, while that is kept: what was edited then is.
Kin(c, ws) ==
    \A n \in 1 .. Len(ws) : \A cal \in Calendars :
        c[cal].read = ws[n].read =>
            /\ ws[n].from = cal
            /\ c[cal].read_at = ws[n].read_at
            /\ ws[n].calendar = cal => Extends(c[cal].edited, Given(c[cal].state), ws[n])

\* Two writes of one copy.
Heirs(ws) ==
    \A n, m \in 1 .. Len(ws) :
        (n < m /\ ws[n].read = ws[m].read) =>
            /\ ws[n].read_at = ws[m].read_at
            /\ ws[n].calendar = ws[m].calendar =>
                  Rewrites(ws[m]) \/ Extends(ws[m].edited, ws[m].given, ws[n])

\* What was not edited of a copy, or of a write, is what was read.
Copied(l, w, copy, cal) ==
    /\ copy.read_at \in 0 .. Len(l)
    /\ copy.read > 0 =>
          \A f \in Fields \ copy.edited :
              copy.state[f] = None \/ copy.state[f] = ValueIn(l, w, cal, f, copy.read_at)

Origin(l, w, write) ==
    /\ write.read_at \in 0 .. Len(l)
    /\ write.from # write.calendar => Rewrites(write)
    /\ \A s \in 1 .. Len(write.setters) :
          \A f \in (Sets(write.setters[s]) \cap write.given) \ write.edited :
              write.setters[s].values[f] = ValueIn(l, w, write.calendar, f, write.read_at)

\* Writes take effect after the read they are of.
Later(l, w) == \A i \in 1 .. Len(l) : WriteIn(l, w, i).read_at < i

TracedOf(e, l, w, c) ==
    /\ Numbered(c[e], w[e]) /\ Kin(c[e], w[e]) /\ Heirs(w[e])
    /\ \A cal \in Calendars : Copied(l, w, c[e][cal], cal)
    /\ \A n \in 1 .. Len(w[e]) : Origin(l, w, w[e][n])

Traced == (\A e \in Editors : TracedOf(e, log, wrote, copies)) /\ Later(log, wrote)

\* What is read of a log is there to be read of the longer one.
LEMMA CopiedStays ==
    ASSUME Inv, Grown, NEW copy, NEW cal, Copied(log, wrote, copy, cal)
    PROVE  Copied(log', wrote', copy, cal)
<1>1. copy.read_at \in 0 .. Len(log) /\ copy.read_at \in 0 .. Len(log')
  BY DEF Copied, Grown
<1>2. \A f \in Fields :
        ValueIn(log', wrote', cal, f, copy.read_at) = ValueIn(log, wrote, cal, f, copy.read_at)
  BY <1>1, ValueStays
<1> QED
  BY <1>1, <1>2 DEF Copied

LEMMA OriginStays ==
    ASSUME Inv, Grown, NEW write, Origin(log, wrote, write)
    PROVE  Origin(log', wrote', write)
<1>1. write.read_at \in 0 .. Len(log) /\ write.read_at \in 0 .. Len(log')
  BY DEF Origin, Grown
<1>2. \A f : ValueIn(log', wrote', write.calendar, f, write.read_at)
                = ValueIn(log, wrote, write.calendar, f, write.read_at)
  BY <1>1, ValueStays
<1> QED
  BY <1>1, <1>2 DEF Origin

LEMMA LaterStays ==
    ASSUME Inv, Traced, Grown, log' \in Seq(Entry)
    PROVE  Later(log', wrote')
<1>1. ASSUME NEW i \in 1 .. Len(log')
      PROVE  WriteIn(log', wrote', i).read_at < i
  <2>1. CASE i \in 1 .. Len(log)
    BY <2>1, PastStays DEF Traced, Later
  <2>2. CASE i \notin 1 .. Len(log)
    <3> DEFINE e == log'[i].client
               n == log'[i].call
    <3>1. n \in 1 .. Len(wrote[e])
      BY <2>2 DEF Grown
    <3>2. e \in Editors
      <4>1. log'[i] \in Entry
        BY ElementOfSeq
      <4> QED
        BY <4>1 DEF Entry
    <3>3. wrote'[e][n] = wrote[e][n]
      BY <3>1, <3>2 DEF Grown
    <3>4. wrote[e][n].read_at \in 0 .. Len(log)
      BY <3>1, <3>2 DEF Traced, TracedOf, Origin
    <3>5. Len(log) < i /\ Len(log) \in Nat
      BY <2>2 DEF Grown
    <3> QED
      BY <3>3, <3>4, <3>5 DEF WriteIn
  <2> QED
    BY <2>1, <2>2
<1> QED
  BY <1>1 DEF Later

LEMMA TracedStays ==
    ASSUME Inv, Traced, Grown, NEW e \in Editors, wrote'[e] = wrote[e], copies'[e] = copies[e]
    PROVE  TracedOf(e, log', wrote', copies')
<1>1. TracedOf(e, log, wrote, copies)
  BY DEF Traced
<1>2. Numbered(copies'[e], wrote'[e]) /\ Kin(copies'[e], wrote'[e]) /\ Heirs(wrote'[e])
  BY <1>1 DEF TracedOf
<1>3. \A cal \in Calendars : Copied(log', wrote', copies'[e][cal], cal)
  BY <1>1, CopiedStays DEF TracedOf
<1>4. \A n \in 1 .. Len(wrote'[e]) : Origin(log', wrote', wrote'[e][n])
  BY <1>1, OriginStays DEF TracedOf
<1> QED
  BY <1>2, <1>3, <1>4 DEF TracedOf

LEMMA TracedInit == ASSUME Init PROVE Traced
<1>1. log = <<>> /\ Len(log) = 0
  BY EmptySeq DEF Init, Api!Init
<1>2. ASSUME NEW e \in Editors
      PROVE  TracedOf(e, log, wrote, copies)
  <2>1. wrote[e] = <<>> /\ Len(wrote[e]) = 0
    BY EmptySeq DEF Init
  <2>2. \A cal \in Calendars :
          copies[e][cal] = [state |-> Unread, read |-> 0, read_at |-> 0, edited |-> {}]
    BY DEF Init
  <2>3. Numbered(copies[e], wrote[e])
    <3>1. 0 \in Nat /\ \A cal \in Calendars : copies[e][cal].read <= 0
      BY <2>2
    <3> QED
      BY <2>1, <2>2, <3>1 DEF Numbered
  <2>4. Kin(copies[e], wrote[e]) /\ Heirs(wrote[e])
    BY <2>1 DEF Kin, Heirs
  <2>5. \A cal \in Calendars : Copied(log, wrote, copies[e][cal], cal)
    BY <1>1, <2>2 DEF Copied
  <2>6. \A n \in 1 .. Len(wrote[e]) : Origin(log, wrote, wrote[e][n])
    BY <2>1
  <2> QED
    BY <2>3, <2>4, <2>5, <2>6 DEF TracedOf
<1> QED
  BY <1>1, <1>2 DEF Traced, Later

\* A read has a number no earlier read of the editor has.
LEMMA ReadsIsLatest ==
    ASSUME NEW e \in Editors, Numbered(copies[e], wrote[e]), NEW cal \in Calendars
    PROVE  Reads(e) \in Nat /\ \A other \in Calendars : copies[e][other].read <= Reads(e)
<1> DEFINE reads == {copies[e][other].read : other \in Calendars}
<1>1. PICK b \in Nat : \A other \in Calendars : copies[e][other].read <= b
  BY DEF Numbered
<1>2. reads \in SUBSET (0 .. b) /\ reads # {}
  BY <1>1 DEF Numbered
<1>3. Max(reads) \in reads /\ \A y \in reads : y <= Max(reads)
  <2> HIDE DEF reads
  <2> QED
    BY <1>2, MaxIsLatest
<1> QED
  BY <1>2, <1>3 DEF Reads

\* A copy that was read has what the device had, or nothing where it was off (update).
LEMMA TracedUpdate ==
    ASSUME Inv, Traced, Grown, NEW e \in Editors, NEW cal \in Calendars, NEW off, Update(e, cal, off)
    PROVE  \A d \in Editors : TracedOf(d, log', wrote', copies')
<1>1. /\ copies' = [copies EXCEPT ![e][cal] =
                       [state |-> ParseState(Device(cal), off), read |-> Reads(e) + 1,
                        read_at |-> Len(log), edited |-> {}]]
      /\ UNCHANGED <<log, wrote>>
  BY DEF Update
<1>2. \A d \in Editors \ {e} : copies'[d] = copies[d]
  BY <1>1 DEF Inv, Copies
<1>3. \A other \in Calendars \ {cal} : copies'[e][other] = copies[e][other]
  BY <1>1 DEF Inv, Copies
<1>4. /\ copies'[e][cal].state = ParseState(Device(cal), off)
      /\ copies'[e][cal].read = Reads(e) + 1
      /\ copies'[e][cal].read_at = Len(log)
      /\ copies'[e][cal].edited = {}
  BY <1>1 DEF Inv, Copies
<1>5. TracedOf(e, log, wrote, copies)
  BY DEF Traced
<1>6. Reads(e) \in Nat /\ \A other \in Calendars : copies[e][other].read <= Reads(e)
  BY <1>5, ReadsIsLatest DEF TracedOf
<1>7. ASSUME NEW n \in 1 .. Len(wrote[e])
      PROVE  wrote[e][n].read \in Nat /\ wrote[e][n].read > 0 /\ wrote[e][n].read <= Reads(e)
  <2>1. /\ wrote[e][n].read \in Nat /\ wrote[e][n].read > 0
        /\ \E other \in Calendars : wrote[e][n].read <= copies[e][other].read
    BY <1>5 DEF TracedOf, Numbered
  <2>2. PICK other \in Calendars : wrote[e][n].read <= copies[e][other].read
    BY <2>1
  <2>3. copies[e][other].read \in Nat /\ copies[e][other].read <= Reads(e)
    BY <1>5, <1>6 DEF TracedOf, Numbered
  <2> QED
    BY <1>6, <2>1, <2>2, <2>3
<1>8. \A other \in Calendars : copies[e][other].read \in Nat
  BY <1>5 DEF TracedOf, Numbered
<1>9. Numbered(copies'[e], wrote'[e])
  <2>1. \A other \in Calendars : copies'[e][other].read \in Nat /\ copies'[e][other].read <= Reads(e) + 1
    BY <1>3, <1>4, <1>6, <1>8
  <2>2. Reads(e) + 1 \in Nat
    BY <1>6
  <2>3. ASSUME NEW this \in Calendars, NEW other \in Calendars,
               copies'[e][this].read = copies'[e][other].read, copies'[e][this].read > 0
        PROVE  this = other
    <3>1. CASE this # cal /\ other # cal
      BY <1>3, <1>5, <2>3, <3>1 DEF TracedOf, Numbered
    <3>2. CASE this = cal /\ other # cal
      BY <1>3, <1>4, <1>6, <1>8, <2>3, <3>2
    <3>3. CASE this # cal /\ other = cal
      BY <1>3, <1>4, <1>6, <1>8, <2>3, <3>3
    <3> QED
      BY <3>1, <3>2, <3>3
  <2>4. ASSUME NEW n \in 1 .. Len(wrote'[e])
        PROVE  /\ wrote'[e][n].read \in Nat /\ wrote'[e][n].read > 0
               /\ wrote'[e][n].read <= copies'[e][cal].read
    BY <1>1, <1>4, <1>6, <1>7
  <2> QED
    BY <2>1, <2>2, <2>3, <2>4 DEF Numbered
<1>10. Kin(copies'[e], wrote'[e])
  <2>1. ASSUME NEW n \in 1 .. Len(wrote[e]), NEW other \in Calendars,
               copies'[e][other].read = wrote[e][n].read
        PROVE  /\ wrote[e][n].from = other
               /\ copies'[e][other].read_at = wrote[e][n].read_at
               /\ wrote[e][n].calendar = other =>
                     Extends(copies'[e][other].edited, Given(copies'[e][other].state), wrote[e][n])
    <3>1. other # cal
      BY <1>4, <1>6, <1>7, <2>1
    <3> QED
      BY <1>3, <1>5, <2>1, <3>1 DEF TracedOf, Kin
  <2> QED
    BY <1>1, <2>1 DEF Kin
<1>11. Heirs(wrote'[e])
  BY <1>1, <1>5 DEF TracedOf
<1>12. ASSUME NEW other \in Calendars
       PROVE  Copied(log', wrote', copies'[e][other], other)
  <2>1. CASE other # cal
    BY <1>3, <1>5, <2>1, CopiedStays DEF TracedOf
  <2>2. CASE other = cal
    <3>1. Len(log) \in 0 .. Len(log)
      BY DEF Grown
    <3>2. ASSUME NEW f \in Fields
          PROVE  \/ ParseState(Device(cal), off)[f] = None
                 \/ ParseState(Device(cal), off)[f] = ValueIn(log, wrote, cal, f, Len(log))
      <4>1. Device(cal)[f] = ValueIn(log, wrote, cal, f, Len(log))
        BY ValueAtIs DEF Device
      <4>2. Unread[f] = None
        BY DEF Unread
      <4>3. Device(cal) = [g \in Fields |-> Device(cal)[g]]
        BY DEF Device
      <4> QED
        BY <4>1, <4>2, <4>3 DEF ParseState
    <3> QED
      BY <1>1, <1>4, <2>2, <3>1, <3>2 DEF Copied
  <2> QED
    BY <2>1, <2>2
<1>13. \A n \in 1 .. Len(wrote'[e]) : Origin(log', wrote', wrote'[e][n])
  BY <1>1, <1>5 DEF TracedOf
<1>14. TracedOf(e, log', wrote', copies')
  BY <1>9, <1>10, <1>11, <1>12, <1>13 DEF TracedOf
<1>15. \A d \in Editors \ {e} : TracedOf(d, log', wrote', copies')
  BY <1>1, <1>2, TracedStays
<1> QED
  BY <1>14, <1>15

\* A payload, and a colour if there is one: the setters of a write are of its copy.
LEMMA SettersShow ==
    ASSUME NEW s \in CalendarState, Complete(s), NEW cal \in Calendars
    PROVE  /\ Len(Setters(s, cal)) \in {1, 2}
           /\ Setters(s, cal)[1].values = AsJson(s)
           /\ Len(Setters(s, cal)) = 2 =>
                 /\ Setters(s, cal)[2].values = [f \in {"color"} |-> s["color"]]
                 /\ s["color"] # None
<1> DEFINE payload == PayloadSetter(AsJson(s))
           colour == ColourSetter(s["color"])
<1>1. payload.values = AsJson(s) /\ colour.values = [f \in {"color"} |-> s["color"]]
  BY DEF PayloadSetter, ColourSetter
<1>2. \/ /\ Len(Setters(s, cal)) = 2 /\ s["color"] # None
         /\ Setters(s, cal)[1] = payload /\ Setters(s, cal)[2] = colour
      \/ Len(Setters(s, cal)) = 1 /\ Setters(s, cal)[1] = payload
  <2>1. CASE cal \in Coloured /\ s["color"] # None
    <3>1. Setters(s, cal) = <<payload>> \o <<colour>>
      BY <2>1 DEF Setters
    <3> HIDE DEF payload, colour
    <3>2. <<payload>> \in Seq({payload, colour}) /\ <<colour>> \in Seq({payload, colour})
      OBVIOUS
    <3>3. Len(<<payload>>) = 1 /\ Len(<<colour>>) = 1
          /\ <<payload>>[1] = payload /\ <<colour>>[1] = colour
      OBVIOUS
    <3>4. /\ Len(<<payload>> \o <<colour>>) = 2
          /\ (<<payload>> \o <<colour>>)[1] = payload
          /\ (<<payload>> \o <<colour>>)[2] = colour
      BY <3>2, <3>3, ConcatProperties
    <3> QED
      BY <2>1, <3>1, <3>4
  <2>2. CASE ~(cal \in Coloured /\ s["color"] # None)
    <3>1. Setters(s, cal) = <<payload>> \o <<>>
      BY <2>2 DEF Setters
    <3> HIDE DEF payload
    <3>2. <<payload>> \o <<>> = <<payload>>
      OBVIOUS
    <3> QED
      BY <3>1, <3>2
  <2> QED
    BY <2>1, <2>2
<1> HIDE DEF payload, colour
<1> QED
  BY <1>1, <1>2

LEMMA SettersAreOfCopy ==
    ASSUME NEW s \in CalendarState, Complete(s), NEW cal \in Calendars,
           NEW i \in 1 .. Len(Setters(s, cal)), NEW f \in Sets(Setters(s, cal)[i])
    PROVE  f \in Fields /\ (s[f] # None => Setters(s, cal)[i].values[f] = s[f])
<1>1. /\ Len(Setters(s, cal)) \in {1, 2}
      /\ Setters(s, cal)[1].values = AsJson(s)
      /\ Len(Setters(s, cal)) = 2 =>
            Setters(s, cal)[2].values = [g \in {"color"} |-> s["color"]]
  BY SettersShow
<1>2. CASE i = 1
  <2>1. f \in PayloadFields
    BY <1>1, <1>2 DEF Sets, AsJson
  <2>2. s[f] # None => AsJson(s)[f] = s[f]
    BY <2>1 DEF AsJson
  <2> QED
    BY <1>1, <1>2, <2>1, <2>2 DEF Fields
<1>3. CASE i = 2 /\ Len(Setters(s, cal)) = 2
  <2>1. f = "color"
    BY <1>1, <1>3 DEF Sets
  <2> QED
    BY <1>1, <1>3, <2>1 DEF Fields
<1>4. i = 1 \/ (i = 2 /\ Len(Setters(s, cal)) = 2)
  BY <1>1
<1> QED
  BY <1>2, <1>3, <1>4

\* A write carries on what its copy had, but for what is edited; into another calendar
\* than it was read from it carries nothing on.
LEMMA TracedWrite ==
    ASSUME Inv, Traced, Grown, NEW e \in Editors, NEW task \in Tasks[e],
           Write(e, task.from, task.to, task.edit)
    PROVE  \A d \in Editors : TracedOf(d, log', wrote', copies')
<1> DEFINE from == task.from
           new == Len(wrote[e]) + 1
           write == NewWrite(e, task)
           state == NewState(e, task)
           c == copies[e]
           cc == copies'[e]
           ws == wrote'[e]
<1>1. /\ from \in Calendars /\ task.to \in Calendars
      /\ state \in CalendarState /\ Complete(state)
      /\ c[from].read > 0
      /\ log' = log
  BY WriteFacts
<1>2. \A d \in Editors \ {e} : copies'[d] = copies[d] /\ wrote'[d] = wrote[d]
  <2>1. /\ wrote' = [wrote EXCEPT ![e] = Append(wrote[e], NewWrite(e, task))]
        /\ copies' = [copies EXCEPT ![e][task.from].state = NewState(e, task),
                                    ![e][task.from].edited = NewEdited(e, task)]
    BY WriteFacts
  <2> QED
    BY <2>1 DEF Inv, Copies, Shapes
<1>3. \A cal \in Calendars : cal # from => cc[cal] = c[cal]
  BY WriteChangesCopy
<1>4. /\ cc[from].state = state /\ cc[from].edited = NewEdited(e, task)
      /\ cc[from].read = c[from].read /\ cc[from].read_at = c[from].read_at
  BY WriteChangesCopy
<1>5. Len(wrote[e]) \in Nat /\ ws[new] = write
  BY WriteAddsCall
<1>6. \A n \in 1 .. Len(wrote[e]) : n \in 1 .. Len(ws) /\ ws[n] = wrote[e][n]
  BY WriteAddsCall
<1>7. \A n \in 1 .. Len(ws) : n \in 1 .. Len(wrote[e]) \/ n = new
  BY WriteAddsCall
<1>8. TracedOf(e, log, wrote, copies)
  BY DEF Traced
<1>9. /\ write.calendar = task.to
      /\ write.setters = Setters(state, task.to)
      /\ write.read = c[from].read /\ write.read_at = c[from].read_at
      /\ from = task.to => write.edited = NewEdited(e, task)
      /\ from # task.to => write.edited = Fields
      /\ write.from = from /\ write.given = Given(state)
  BY DEF NewWrite, NewSetters, Given
<1>10. c[from].edited \subseteq NewEdited(e, task)
  BY DEF NewEdited
<1>11. from # task.to => Rewrites(write)
  <2>1. ASSUME from # task.to, NEW i \in 1 .. Len(write.setters), NEW f \in Sets(write.setters[i])
        PROVE  f \in write.edited
    <3>1. f \in Fields
      BY <1>1, <1>9, <2>1, SettersAreOfCopy
    <3> QED
      BY <1>9, <2>1, <3>1
  <2> QED
    BY <2>1 DEF Rewrites
<1>12. \A cal \in Calendars : cc[cal].read = c[cal].read /\ cc[cal].read_at = c[cal].read_at
                              /\ c[cal].edited \subseteq cc[cal].edited
                              /\ Given(cc[cal].state) \ cc[cal].edited
                                    \subseteq Given(c[cal].state) \ c[cal].edited
  <2>1. Given(state) \ NewEdited(e, task) \subseteq Given(c[from].state) \ c[from].edited
    BY DEF Given, NewState, NewEdited, Edited
  <2> QED
    BY <1>3, <1>4, <1>10, <2>1
<1> HIDE DEF write, state, from, new, c, cc, ws
<1>13. /\ \A cal \in Calendars : c[cal].read \in Nat
       /\ \A cal, other \in Calendars : c[cal].read = c[other].read /\ c[cal].read > 0 => cal = other
       /\ \A n \in 1 .. Len(wrote[e]) :
             /\ wrote[e][n].read \in Nat /\ wrote[e][n].read > 0
             /\ \E cal \in Calendars : wrote[e][n].read <= c[cal].read
  BY <1>8 DEF TracedOf, Numbered, c
<1>14. Numbered(cc, ws)
  <2>1. PICK b \in Nat : \A cal \in Calendars : c[cal].read <= b
    BY <1>8 DEF TracedOf, Numbered, c
  <2>2. \A cal \in Calendars : cc[cal].read \in Nat /\ cc[cal].read <= b
    BY <1>12, <1>13, <2>1
  <2>3. \A cal, other \in Calendars :
            cc[cal].read = cc[other].read /\ cc[cal].read > 0 => cal = other
    BY <1>12, <1>13
  <2>4. ASSUME NEW n \in 1 .. Len(ws)
        PROVE  /\ ws[n].read \in Nat /\ ws[n].read > 0
               /\ \E cal \in Calendars : ws[n].read <= cc[cal].read
    <3>1. CASE n \in 1 .. Len(wrote[e])
      BY <1>6, <1>12, <1>13, <3>1
    <3>2. CASE n = new
      <4>1. ws[n].read = c[from].read /\ c[from].read \in Nat /\ c[from].read > 0
        BY <1>1, <1>5, <1>9, <1>13, <3>2
      <4>2. cc[from].read = c[from].read
        BY <1>1, <1>12
      <4>3. ws[n].read <= cc[from].read
        BY <4>1, <4>2
      <4> QED
        BY <1>1, <4>1, <4>3
    <3> QED
      BY <1>7, <3>1, <3>2
  <2> QED
    BY <2>1, <2>2, <2>3, <2>4 DEF Numbered
<1>15. ASSUME NEW n \in 1 .. Len(wrote[e]), NEW cal \in Calendars, c[cal].read = wrote[e][n].read
       PROVE  /\ wrote[e][n].from = cal
              /\ c[cal].read_at = wrote[e][n].read_at
              /\ wrote[e][n].calendar = cal =>
                    Extends(c[cal].edited, Given(c[cal].state), wrote[e][n])
  BY <1>8, <1>15 DEF TracedOf, Kin, c
<1>16. Kin(cc, ws)
  <2>1. ASSUME NEW n \in 1 .. Len(ws), NEW cal \in Calendars, cc[cal].read = ws[n].read
        PROVE  /\ ws[n].from = cal
               /\ cc[cal].read_at = ws[n].read_at
               /\ ws[n].calendar = cal => Extends(cc[cal].edited, Given(cc[cal].state), ws[n])
    <3>1. CASE n \in 1 .. Len(wrote[e])
      <4>1. ws[n] = wrote[e][n] /\ c[cal].read = wrote[e][n].read
        BY <1>6, <1>12, <2>1, <3>1
      <4>2. /\ ws[n].from = cal /\ c[cal].read_at = ws[n].read_at
            /\ ws[n].calendar = cal => Extends(c[cal].edited, Given(c[cal].state), ws[n])
        BY <1>15, <3>1, <4>1
      <4> QED
        BY <1>12, <4>2 DEF Extends
    <3>2. CASE n = new
      <4>1. c[cal].read = c[from].read
        BY <1>5, <1>9, <1>12, <2>1, <3>2
      <4>2. cal = from
        BY <1>1, <1>13, <4>1
      <4> QED
        BY <1>4, <1>5, <1>9, <3>2, <4>2 DEF Extends
    <3> QED
      BY <1>7, <3>1, <3>2
  <2> QED
    BY <2>1 DEF Kin
<1>17. Heirs(ws)
  <2>1. ASSUME NEW n \in 1 .. Len(ws), NEW m \in 1 .. Len(ws), n < m, ws[n].read = ws[m].read
        PROVE  /\ ws[n].read_at = ws[m].read_at
               /\ ws[n].calendar = ws[m].calendar =>
                     Rewrites(ws[m]) \/ Extends(ws[m].edited, ws[m].given, ws[n])
    <3>1. n \in 1 .. Len(wrote[e])
      BY <1>5, <1>7, <2>1
    <3>2. CASE m \in 1 .. Len(wrote[e])
      BY <1>6, <1>8, <2>1, <3>1, <3>2 DEF TracedOf, Heirs
    <3>3. CASE m = new
      <4>1. ws[n] = wrote[e][n] /\ ws[m] = write
        BY <1>5, <1>6, <3>1, <3>3
      <4>2. c[from].read = wrote[e][n].read
        BY <1>9, <2>1, <4>1
      <4>3. /\ c[from].read_at = wrote[e][n].read_at
            /\ wrote[e][n].calendar = from =>
                  Extends(c[from].edited, Given(c[from].state), wrote[e][n])
        BY <1>1, <1>15, <3>1, <4>2
      <4>4. CASE from = task.to
        <5>1. Given(state) \ NewEdited(e, task) \subseteq Given(c[from].state) \ c[from].edited
          BY <1>1, <1>4, <1>12
        <5> QED
          BY <1>9, <1>10, <4>1, <4>3, <4>4, <5>1 DEF Extends
      <4>5. CASE from # task.to
        BY <1>9, <1>11, <4>1, <4>3, <4>5
      <4> QED
        BY <4>4, <4>5
    <3> QED
      BY <1>7, <3>2, <3>3
  <2> QED
    BY <2>1 DEF Heirs
<1>18. ASSUME NEW cal \in Calendars
       PROVE  Copied(log', wrote', cc[cal], cal)
  <2>1. Copied(log', wrote', c[cal], cal)
    BY <1>8, CopiedStays DEF TracedOf, c
  <2>2. CASE cal # from
    BY <1>3, <2>1, <2>2
  <2>3. CASE cal = from
    <3>1. ASSUME NEW f \in Fields \ NewEdited(e, task)
          PROVE  f \notin c[from].edited /\ state[f] = c[from].state[f]
      BY DEF NewEdited, NewState, Edited, state, c, from
    <3> QED
      BY <1>4, <2>1, <2>3, <3>1 DEF Copied
  <2> QED
    BY <2>2, <2>3
<1>19. ASSUME NEW n \in 1 .. Len(ws)
       PROVE  Origin(log', wrote', ws[n])
  <2>1. CASE n \in 1 .. Len(wrote[e])
    <3>1. Origin(log, wrote, wrote[e][n])
      BY <1>8, <2>1 DEF TracedOf
    <3> QED
      BY <1>6, <2>1, <3>1, OriginStays
  <2>2. CASE n = new
    <3>1. Copied(log', wrote', cc[from], from)
      BY <1>1, <1>18
    <3>2. write.read_at \in 0 .. Len(log')
      BY <1>4, <1>9, <3>1 DEF Copied
    <3>3. ASSUME NEW i \in 1 .. Len(write.setters),
                 NEW f \in (Sets(write.setters[i]) \cap write.given) \ write.edited
          PROVE  write.setters[i].values[f]
                    = ValueIn(log', wrote', write.calendar, f, write.read_at)
      <4>1. from = task.to
        BY <1>11, <3>3 DEF Rewrites
      <4>2. f \in Fields /\ write.setters[i].values[f] = state[f] /\ state[f] # None
        <5>1. f \in Fields /\ (state[f] # None => write.setters[i].values[f] = state[f])
          BY <1>1, <1>9, SettersAreOfCopy
        <5> QED
          BY <1>9, <5>1 DEF Given
      <4>3. f \notin cc[from].edited
        BY <1>4, <1>9, <4>1
      <4>4. state[f] = ValueIn(log', wrote', from, f, cc[from].read_at)
        BY <1>1, <1>4, <3>1, <4>2, <4>3 DEF Copied
      <4> QED
        BY <1>4, <1>9, <4>1, <4>2, <4>4
    <3> QED
      BY <1>5, <1>9, <1>11, <2>2, <3>2, <3>3 DEF Origin
  <2> QED
    BY <1>7, <2>1, <2>2
<1>20. TracedOf(e, log', wrote', copies')
  BY <1>14, <1>16, <1>17, <1>18, <1>19 DEF TracedOf, cc, ws
<1>21. \A d \in Editors \ {e} : TracedOf(d, log', wrote', copies')
  BY <1>2, TracedStays
<1> QED
  BY <1>20, <1>21

\* What becomes of the calls leaves the copies and the writes.
LEMMA TracedCarry ==
    ASSUME Inv, Traced, Grown, UNCHANGED <<wrote, copies>>
    PROVE  \A e \in Editors : TracedOf(e, log', wrote', copies')
  BY TracedStays

LEMMA TracedHolds == Spec => [](Inv /\ Traced)
<1>1. Init => Inv /\ Traced
  BY InitInv, TracedInit
<1>2. Inv /\ Traced /\ Inv' /\ [Next]_vars => Traced'
  <2> SUFFICES ASSUME Inv, Traced, Inv', [Next]_vars PROVE Traced'
    OBVIOUS
  <2>1. Grown
    BY StepGrows
  <2>2. Later(log', wrote')
    BY <2>1, LaterStays DEF Inv, Shapes
  <2>3. \A e \in Editors : TracedOf(e, log', wrote', copies')
    <3>1. CASE UNCHANGED vars
      BY <2>1, <3>1, TracedCarry DEF vars
    <3>2. ASSUME NEW e \in Editors, NEW cal \in Calendars, NEW off \in SUBSET {"payload", "color"},
                 Update(e, cal, off)
          PROVE  \A d \in Editors : TracedOf(d, log', wrote', copies')
      BY <2>1, <3>2, TracedUpdate
    <3>3. ASSUME NEW e \in Editors, NEW task \in Tasks[e], Write(e, task.from, task.to, task.edit)
          PROVE  \A d \in Editors : TracedOf(d, log', wrote', copies')
      BY <2>1, <3>3, TracedWrite
    <3>4. CASE Carry
      BY <2>1, <3>4, TracedCarry DEF Carry
    <3> QED
      BY <3>1, <3>2, <3>3, <3>4 DEF Next
  <2> QED
    BY <2>2, <2>3 DEF Traced
<1> QED
  BY <1>1, <1>2, InvHolds, PTL DEF Spec

\* The field of a setter of the log, not edited by its call, is what was read.
LEMMA LoggedIsRead ==
    ASSUME Inv, Traced, NEW i \in 1 .. Len(log),
           NEW f \in (Sets(SetterOf(i)) \cap CallOf(i).given) \ CallOf(i).edited
    PROVE  /\ CallOf(i).read_at \in 0 .. Len(log)
           /\ SetterOf(i).values[f] = ValueAt(CallOf(i).calendar, f, CallOf(i).read_at)
<1> DEFINE e == log[i].client
           n == log[i].call
<1>1. e \in Editors
  BY LoggedOfEditor DEF Inv
<1>2. n \in 1 .. Len(wrote[e]) /\ log[i].index \in 1 .. Len(CallOf(i).setters)
  BY DEF Inv, Logged, Known, CallOf
<1>3. Origin(log, wrote, CallOf(i))
  BY <1>1, <1>2 DEF Traced, TracedOf, CallOf
<1>4. SetterOf(i).values[f] = ValueIn(log, wrote, CallOf(i).calendar, f, CallOf(i).read_at)
  BY <1>2, <1>3 DEF Origin, SetterOf
<1> QED
  BY <1>3, <1>4, ValueAtIs DEF Origin

\* What a field is after an entry that sets it.
LEMMA ValueAfterEntry ==
    ASSUME Inv, NEW i \in 1 .. Len(log), NEW f \in Sets(SetterOf(i))
    PROVE  ValueAt(CallOf(i).calendar, f, i) = SetterOf(i).values[f]
<1> DEFINE touching == Touching(CallOf(i).calendar, f, i)
<1>1. i \in Nat /\ i \in touching /\ touching \in SUBSET (0 .. i)
  BY DEF Touching
<1> HIDE DEF touching
<1>2. Max(touching) \in touching /\ \A y \in touching : y <= Max(touching)
  BY <1>1, MaxIsLatest
<1>3. Max(touching) = i
  <2>1. Max(touching) \in 0 .. i
    BY <1>1, <1>2
  <2>2. i <= Max(touching)
    BY <1>1, <1>2
  <2> QED
    BY <1>1, <2>1, <2>2
<1> QED
  BY <1>1, <1>3 DEF ValueAt, touching

\* A value that is not what it was was set in between, and it is what the last setter
\* in between made it.
LEMMA ValueChanged ==
    ASSUME NEW cal, NEW f, NEW k \in Nat, NEW m \in Nat, k <= m,
           ValueAt(cal, f, m) # ValueAt(cal, f, k)
    PROVE  \E j \in Touching(cal, f, m) : j > k /\ ValueAt(cal, f, m) = SetterOf(j).values[f]
<1> DEFINE before == Touching(cal, f, k)
           after == Touching(cal, f, m)
<1>1. before = {i \in after : i <= k} /\ after \in SUBSET (0 .. m) /\ before \in SUBSET (0 .. k)
  BY DEF Touching
<1>2. ValueAt(cal, f, m) = IF after = {} THEN Initial[cal][f] ELSE SetterOf(Max(after)).values[f]
  BY DEF ValueAt
<1>3. ValueAt(cal, f, k) = IF before = {} THEN Initial[cal][f] ELSE SetterOf(Max(before)).values[f]
  BY DEF ValueAt
<1> HIDE DEF before, after
<1>4. after # {}
  BY <1>1, <1>2, <1>3
<1>5. Max(after) \in after /\ \A y \in after : y <= Max(after)
  BY <1>1, <1>4, MaxIsLatest
<1>6. CASE Max(after) > k
  BY <1>2, <1>4, <1>5, <1>6 DEF after
<1>7. CASE ~(Max(after) > k)
  <2>1. Max(after) \in before
    <3>1. Max(after) \in 0 .. m
      BY <1>1, <1>5
    <3>2. Max(after) <= k
      BY <1>7, <3>1
    <3> QED
      BY <1>1, <1>5, <3>2
  <2>2. Max(before) \in before /\ \A y \in before : y <= Max(before)
    BY <1>1, <2>1, MaxIsLatest
  <2>3. Max(before) = Max(after)
    BY <1>1, <1>5, <2>1, <2>2
  <2> QED
    BY <1>2, <1>3, <1>4, <2>1, <2>3
<1> QED
  BY <1>6, <1>7

-----------------------------------------------------------------------------
(***************************************************************************)
(* Payload and colour.                                                     *)
(***************************************************************************)
\* The setters of a write fit one request, which is then the only one.
Fits(write) == Under(Items(write.setters), AllOf(write.setters))

OneRun(call, write) == Fits(write) => call.ends = <<Len(write.setters)>>

\* The payload comes first, then the colour if there is one.
Ordered(write) ==
    /\ Len(write.setters) \in {1, 2}
    /\ Sets(write.setters[1]) = PayloadFields
    /\ Len(write.setters) = 2 => Sets(write.setters[2]) = {"color"}

PartOf(l, i, index) == [client |-> l[i].client, call |-> l[i].call, index |-> index]

\* Where a colour took effect its payload did before it, and if both fit one request
\* they stand side by side.
Linked(l, w, i) ==
    /\ l[i].index = 2 => \E j \in 1 .. i - 1 : l[j] = PartOf(l, i, 1)
    /\ Fits(WriteIn(l, w, i)) =>
          /\ l[i].index = 2 => i - 1 \in 1 .. Len(l) /\ l[i - 1] = PartOf(l, i, 1)
          /\ (l[i].index = 1 /\ Len(WriteIn(l, w, i).setters) = 2) =>
                i + 1 \in 1 .. Len(l) /\ l[i + 1] = PartOf(l, i, 2)

Paired ==
    /\ \A e \in Editors : \A n \in 1 .. Len(wrote[e]) :
          Ordered(wrote[e][n]) /\ OneRun(calls[e][n], wrote[e][n])
    /\ \A i \in 1 .. Len(log) : Linked(log, wrote, i)

\* Setters that fit one request are one run (pack_chunks).
LEMMA FittingIsOneRun ==
    ASSUME NEW cal \in Calendars, NEW setters \in Seq(SettersFor(cal)), setters # <<>>,
           Under(Items(setters), AllOf(setters))
    PROVE  Ends(setters) = <<Len(setters)>>
<1> DEFINE items == Items(setters)
           chunks == Pack(items)
<1>1. items \in Seq(Item) /\ Len(items) = Len(setters)
  BY ItemsOfSetters
<1>2. AllOf(items) = AllOf(setters)
  <2>1. DOMAIN items = DOMAIN setters
    BY DEF Items
  <2> QED
    BY <2>1 DEF AllOf
<1>3. items # <<>>
  BY <1>1, EmptySeq
<1>4. Ends(setters) = [k \in DOMAIN chunks |-> Last(chunks[k])]
  BY DEF Ends
<1> HIDE DEF items
<1>5. ~TooLong(items) /\ Len(chunks) = 1
  BY <1>1, <1>2, <1>3, OneChunk DEF items
<1>6. chunks \in Seq(Seq(1 .. Len(items))) /\ CutsInOrder(chunks, Len(items))
  BY <1>1, <1>5, PackContract
<1> HIDE DEF chunks
<1>7. Last(chunks[1]) = Len(items)
  <2>1. Len(<<>>) = 0
    OBVIOUS
  <2>2. chunks # <<>>
    BY <1>5, <2>1, SMTT(30)
  <2> QED
    BY <1>5, <1>6, <2>2 DEF CutsInOrder, Last
<1>8. DOMAIN chunks = {1}
  BY <1>5, <1>6, LenProperties
<1>9. Ends(setters) = [k \in {1} |-> Len(setters)]
  BY <1>1, <1>4, <1>7, <1>8
<1>10. [k \in {1} |-> Len(setters)] = <<Len(setters)>>
  OBVIOUS
<1> QED
  BY <1>9, <1>10

LEMMA PairedInit == ASSUME Init PROVE Paired
<1>1. Len(log) = 0 /\ \A e \in Editors : Len(wrote[e]) = 0
  BY EmptySeq DEF Init, Api!Init
<1> QED
  BY <1>1 DEF Paired

\* What a write sends is in order, and one run if it fits.
LEMMA PairedWrites ==
    ASSUME Inv, Paired, NEW e \in Editors, NEW task \in Tasks[e],
           Write(e, task.from, task.to, task.edit),
           NEW d \in Editors, NEW n \in 1 .. Len(wrote'[d])
    PROVE  Ordered(wrote'[d][n]) /\ OneRun(calls'[d][n], wrote'[d][n])
<1>1. CASE n \in 1 .. Len(wrote[d])
  <2>1. wrote'[d][n] = wrote[d][n] /\ calls'[d][n] = calls[d][n]
    BY <1>1, WriteAddsCall
  <2> QED
    BY <1>1, <2>1 DEF Paired
<1>2. CASE n \notin 1 .. Len(wrote[d])
  <2> DEFINE setters == NewSetters(e, task)
             state == NewState(e, task)
  <2>1. d = e /\ n = Len(wrote[e]) + 1
    BY <1>2, WriteAddsCall
  <2>2. wrote'[d][n] = NewWrite(e, task) /\ calls'[d][n] = NewCall(e, task)
    BY <2>1, WriteAddsCall
  <2>3. task.to \in Calendars /\ state \in CalendarState /\ Complete(state)
    BY WriteFacts
  <2>4. setters = Setters(state, task.to)
    BY DEF NewSetters
  <2> HIDE DEF state
  <2>5. /\ Len(setters) \in {1, 2}
        /\ setters[1].values = AsJson(state)
        /\ Len(setters) = 2 => setters[2].values = [f \in {"color"} |-> state["color"]]
    BY <2>3, <2>4, SettersShow
  <2>6. setters \in Seq(SettersFor(task.to))
    BY <2>3, <2>4, SettersAreProper
  <2> HIDE DEF setters
  <2>7. setters # <<>>
    BY <2>5, EmptySeq
  <2>8. Under(Items(setters), AllOf(setters)) => Ends(setters) = <<Len(setters)>>
    BY <2>3, <2>6, <2>7, FittingIsOneRun
  <2>9. NewWrite(e, task).setters = setters /\ NewCall(e, task).ends = Ends(setters)
    BY DEF NewWrite, NewCall, setters
  <2> QED
    BY <2>2, <2>5, <2>8, <2>9 DEF Ordered, OneRun, Fits, Sets, AsJson
<1> QED
  BY <1>1, <1>2

\* What stands in the log stays as it is.
LEMMA LinkedStays ==
    ASSUME Inv, Paired, Grown, NEW i \in 1 .. Len(log)
    PROVE  Linked(log', wrote', i)
<1>1. Len(log) \in Nat /\ Len(log') \in Nat /\ Len(log) <= Len(log')
  BY DEF Grown
<1>2. \A j \in 1 .. Len(log) : log'[j] = log[j] /\ j \in 1 .. Len(log')
  BY <1>1 DEF Grown
<1>3. WriteIn(log', wrote', i) = WriteIn(log, wrote, i)
  BY PastStays
<1>4. Linked(log, wrote, i)
  BY DEF Paired
<1>5. log'[i] = log[i] /\ \A index : PartOf(log', i, index) = PartOf(log, i, index)
  BY <1>2 DEF PartOf
<1>6. ASSUME log'[i].index = 2
      PROVE  \E j \in 1 .. i - 1 : log'[j] = PartOf(log', i, 1)
  <2>1. PICK j \in 1 .. i - 1 : log[j] = PartOf(log, i, 1)
    BY <1>4, <1>5, <1>6 DEF Linked
  <2>2. j \in 1 .. Len(log)
    BY <1>1
  <2>3. log'[j] = PartOf(log', i, 1)
    BY <1>2, <1>5, <2>1, <2>2
  <2> QED
    BY <2>3
<1>7. ASSUME Fits(WriteIn(log', wrote', i)), log'[i].index = 2
      PROVE  i - 1 \in 1 .. Len(log') /\ log'[i - 1] = PartOf(log', i, 1)
  <2>1. i - 1 \in 1 .. Len(log) /\ log[i - 1] = PartOf(log, i, 1)
    BY <1>3, <1>4, <1>5, <1>7 DEF Linked
  <2> QED
    BY <1>2, <1>5, <2>1
<1>8. ASSUME Fits(WriteIn(log', wrote', i)), log'[i].index = 1, Len(WriteIn(log', wrote', i).setters) = 2
      PROVE  i + 1 \in 1 .. Len(log') /\ log'[i + 1] = PartOf(log', i, 2)
  <2>1. i + 1 \in 1 .. Len(log) /\ log[i + 1] = PartOf(log, i, 2)
    BY <1>3, <1>4, <1>5, <1>8 DEF Linked
  <2> QED
    BY <1>2, <1>5, <2>1
<1> QED
  BY <1>6, <1>7, <1>8 DEF Linked

\* So do the entries of a run that is carried out.
LEMMA LinkedRun ==
    ASSUME Inv, Paired, Grown, UNCHANGED <<calls, wrote>>,
           NEW e \in Editors, NEW n \in 1 .. Len(wrote[e]), NEW k, NEW from, NEW to,
           Adds(e, n, k, from, to), NEW j \in 1 .. to - from
    PROVE  Linked(log', wrote', Len(log) + j)
<1> DEFINE i == Len(log) + j
           write == wrote[e][n]
<1>1. Len(log) \in Nat /\ Len(log') \in Nat
  BY DEF Grown
<1>2. /\ Len(write.setters) \in {1, 2}
      /\ Fits(write) => calls[e][n].ends = <<Len(write.setters)>>
  BY DEF Paired, Ordered, OneRun
<1>3. from \in 0 .. Len(write.setters) /\ to \in 0 .. Len(write.setters)
  BY DEF Adds
<1>4. from \in {0, 1, 2} /\ to \in {0, 1, 2} /\ from < to /\ j \in {1, 2}
  <2>1. \A size \in {1, 2} : 0 .. size \subseteq {0, 1, 2}
    OBVIOUS
  <2>2. 0 .. Len(write.setters) \subseteq {0, 1, 2}
    BY <1>2, <2>1
  <2> HIDE DEF write
  <2>3. from \in {0, 1, 2} /\ to \in {0, 1, 2}
    BY <1>3, <2>2
  <2>4. j \in 1 .. to - from
    OBVIOUS
  <2>5. from < to /\ j \in {1, 2}
    BY <2>3, <2>4
  <2> QED
    BY <2>3, <2>5
<1>5. Len(log') = Len(log) + (to - from)
  <2>1. Len(log') = Len(log) + (IF to < from THEN 0 ELSE to - from)
    BY DEF Adds
  <2> QED
    BY <1>4, <2>1
<1>6. \A h \in 1 .. to - from : log'[Len(log) + h] = [client |-> e, call |-> n, index |-> from + h]
  BY DEF Adds
<1>7. /\ log'[i].client = e /\ log'[i].call = n /\ log'[i].index = from + j
      /\ WriteIn(log', wrote', i) = write
  <2>1. log'[i] = [client |-> e, call |-> n, index |-> from + j]
    BY <1>6
  <2> HIDE DEF i
  <2> QED
    BY <2>1 DEF WriteIn
<1>8. \A index : PartOf(log', i, index) = [client |-> e, call |-> n, index |-> index]
  BY <1>7 DEF PartOf
<1>9. i - 1 = Len(log) + (j - 1) /\ i + 1 = Len(log) + (j + 1) /\ i \in Nat
  BY <1>1, <1>4
<1> HIDE DEF i, write
<1>10. ASSUME from + j = 2
       PROVE  \E h \in 1 .. i - 1 : log'[h] = PartOf(log', i, 1)
  <2>1. CASE j = 2
    <3>1. from = 0 /\ to = 2
      BY <1>4, <1>10, <2>1
    <3>2. log'[Len(log) + 1] = [client |-> e, call |-> n, index |-> 1]
      <4>1. 1 \in 1 .. to - from /\ from + 1 = 1
        BY <3>1
      <4> QED
        BY <1>6, <4>1
    <3>3. Len(log) + 1 \in 1 .. i - 1
      BY <1>1, <1>9, <2>1
    <3> QED
      BY <1>8, <3>2, <3>3
  <2>2. CASE j # 2
    <3>1. j = 1 /\ from = 1
      BY <1>4, <1>10, <2>2
    <3>2. 1 \in Api!Done(e, n)
      BY <3>1 DEF Adds
    <3>3. PICK h \in DOMAIN log : log[h].client = e /\ log[h].call = n /\ log[h].index = 1
      BY <3>2 DEF Api!Done
    <3>4. h \in 1 .. Len(log) /\ log[h] \in Entry
      BY LenProperties, ElementOfSeq DEF Inv, Shapes
    <3>5. log[h] = [client |-> e, call |-> n, index |-> 1]
      BY <3>3, <3>4 DEF Entry
    <3>6. log'[h] = log[h] /\ h \in 1 .. i - 1
      BY <1>1, <1>9, <3>1, <3>4 DEF Adds
    <3> QED
      BY <1>8, <3>5, <3>6
  <2> QED
    BY <2>1, <2>2
<1>11. ASSUME Fits(write)
       PROVE  from = 0 /\ to = Len(write.setters)
  <2>1. calls[e][n].ends = <<Len(write.setters)>>
    BY <1>2, <1>11
  <2>2. k = 1
    BY <2>1 DEF Adds
  <2>3. from = Api!EndOf(e, n, k - 1) /\ to = Api!EndOf(e, n, k)
    BY DEF Adds
  <2> QED
    BY <2>1, <2>2, <2>3 DEF Api!EndOf
<1>12. ASSUME Fits(write), from + j = 2
       PROVE  i - 1 \in 1 .. Len(log') /\ log'[i - 1] = PartOf(log', i, 1)
  <2>1. from = 0 /\ j = 2 /\ to = 2
    BY <1>4, <1>11, <1>12
  <2>2. 1 \in 1 .. to - from /\ from + 1 = 1 /\ i - 1 = Len(log) + 1
    BY <1>1, <1>9, <2>1
  <2>3. log'[Len(log) + 1] = [client |-> e, call |-> n, index |-> 1]
    BY <1>6, <2>2
  <2>4. i - 1 \in 1 .. Len(log')
    BY <1>1, <1>5, <2>1, <2>2
  <2> QED
    BY <1>8, <2>2, <2>3, <2>4
<1>13. ASSUME Fits(write), from + j = 1, Len(write.setters) = 2
       PROVE  i + 1 \in 1 .. Len(log') /\ log'[i + 1] = PartOf(log', i, 2)
  <2>1. from = 0 /\ j = 1 /\ to = 2
    BY <1>4, <1>11, <1>13
  <2>2. 2 \in 1 .. to - from /\ from + 2 = 2 /\ i + 1 = Len(log) + 2
    BY <1>1, <1>9, <2>1
  <2>3. log'[Len(log) + 2] = [client |-> e, call |-> n, index |-> 2]
    BY <1>6, <2>2
  <2>4. i + 1 \in 1 .. Len(log')
    BY <1>1, <1>5, <2>1, <2>2
  <2> QED
    BY <1>8, <2>2, <2>3, <2>4
<1>14. Linked(log', wrote', i)
  BY <1>7, <1>10, <1>12, <1>13 DEF Linked
<1> QED
  BY <1>14 DEF i

LEMMA PairedHolds == Spec => [](Inv /\ Paired)
<1>1. Init => Inv /\ Paired
  BY InitInv, PairedInit
<1>2. Inv /\ Paired /\ [Next]_vars => Paired'
  <2> SUFFICES ASSUME Inv, Paired, [Next]_vars PROVE Paired'
    OBVIOUS
  <2>1. Grown
    BY StepGrows
  <2> DEFINE Sending == \A e \in Editors : \A n \in 1 .. Len(wrote'[e]) :
                           Ordered(wrote'[e][n]) /\ OneRun(calls'[e][n], wrote'[e][n])
             Logging == \A i \in 1 .. Len(log') : Linked(log', wrote', i)
  <2>2. ASSUME UNCHANGED wrote
        PROVE  Sending
    <3> SUFFICES ASSUME NEW e \in Editors, NEW n \in 1 .. Len(wrote[e])
                 PROVE  Ordered(wrote[e][n]) /\ OneRun(calls'[e][n], wrote[e][n])
      BY <2>2
    <3>1. calls'[e][n].ends = calls[e][n].ends
      BY <2>1 DEF Grown
    <3> QED
      BY <3>1 DEF Paired, OneRun
  <2>3. ASSUME UNCHANGED log
        PROVE  Logging
    BY <2>1, <2>3, LinkedStays
  <2> HIDE DEF Sending, Logging
  <2>4. Sending /\ Logging
    <3>1. CASE UNCHANGED vars
      BY <2>2, <2>3, <3>1 DEF vars
    <3>2. ASSUME NEW e \in Editors, NEW cal, NEW off, Update(e, cal, off)
          PROVE  Sending /\ Logging
      BY <2>2, <2>3, <3>2 DEF Update
    <3>3. ASSUME NEW e \in Editors, NEW task \in Tasks[e], Write(e, task.from, task.to, task.edit)
          PROVE  Sending /\ Logging
      <4>1. Sending
        BY <3>3, PairedWrites DEF Sending
      <4>2. log' = log
        BY <3>3, WriteFacts
      <4> QED
        BY <2>3, <4>1, <4>2
    <3>4. CASE Carry
      <4>1. UNCHANGED wrote
        BY <3>4 DEF Carry
      <4>2. ASSUME NEW e \in Editors, NEW n \in 1 .. Len(wrote[e]), Cut(calls[e][n], wrote[e][n]),
                   Api!Run(e, n), UNCHANGED calls
            PROVE  Logging
        <5>1. PICK k, from, to : Adds(e, n, k, from, to)
          BY <4>2, RunAdds
        <5>2. ASSUME NEW i \in 1 .. Len(log')
              PROVE  Linked(log', wrote', i)
          <6>1. Added(i, e, n, from, to)
            BY <5>1, AddedOrOld
          <6>2. CASE i \in 1 .. Len(log)
            BY <2>1, <6>2, LinkedStays
          <6>3. ASSUME NEW j \in 1 .. to - from, i = Len(log) + j
                PROVE  Linked(log', wrote', i)
            BY <2>1, <4>1, <4>2, <5>1, <6>3, LinkedRun
          <6> QED
            BY <6>1, <6>2, <6>3 DEF Added
        <5> QED
          BY <5>2 DEF Logging
      <4>3. ASSUME NEW e \in Editors, NEW outcome, Api!Ended(e, outcome)
            PROVE  Logging
        BY <2>3, <4>3 DEF Api!Ended
      <4>4. Logging
        BY <2>3, <3>4, <4>2, <4>3, CarrySteps
      <4> QED
        BY <2>2, <4>1, <4>4
    <3> QED
      BY <3>1, <3>2, <3>3, <3>4 DEF Next
  <2> QED
    BY <2>4 DEF Sending, Logging, Paired
<1> QED
  BY <1>1, <1>2, InvHolds, PTL DEF Spec

-----------------------------------------------------------------------------
(***************************************************************************)
(* What comes late, after a later call or after a read that followed its   *)
(* own: only writes of calls that failed.                                  *)
(***************************************************************************)
FailedIn(cs, l, i) == cs[l[i].client][l[i].call].outcome = "connection"

\* Entries after one of a later call of their editor.
LateEntries(cs, l) ==
    \A i \in 1 .. Len(l) : \A j \in 1 .. i - 1 :
        (l[j].client = l[i].client /\ l[i].call < l[j].call) => FailedIn(cs, l, i)

\* Entries of the first calls of an editor, after a read of the calendar they copy that
\* was not their own.
LateAfter(cs, l, w, e, from, read, read_at, last) ==
    \A j \in 1 .. Len(l) :
        (/\ l[j].client = e /\ l[j].call <= last /\ j > read_at
         /\ WriteIn(l, w, j).from = from /\ WriteIn(l, w, j).read # read)
            => FailedIn(cs, l, j)

LateCopies(cs, l, w, c) ==
    \A e \in Editors, cal \in Calendars :
        LateAfter(cs, l, w, e, cal, c[e][cal].read, c[e][cal].read_at, Len(w[e]))

LateWrites(cs, l, w) ==
    \A e \in Editors : \A n \in 1 .. Len(w[e]) :
        LateAfter(cs, l, w, e, w[e][n].from, w[e][n].read, w[e][n].read_at, n - 1)

\* The call under way is of a copy that its editor still has.
OpenIsOfCopy ==
    \A e \in Editors :
        Api!IsOpen(e) =>
            /\ wrote[e][Len(wrote[e])].from \in Calendars
            /\ copies[e][wrote[e][Len(wrote[e])].from].read = wrote[e][Len(wrote[e])].read

AdriftFailed == \A call \in adrift : calls[call[1]][call[2]].outcome = "connection"

Late(cs, l, w, c) == LateEntries(cs, l) /\ LateCopies(cs, l, w, c) /\ LateWrites(cs, l, w)

Told == AdriftFailed /\ OpenIsOfCopy /\ Late(calls, log, wrote, copies)

\* A call that failed stays failed.
FailuresStay ==
    \A e \in Editors : \A n \in 1 .. Len(wrote[e]) :
        calls[e][n].outcome = "connection" => calls'[e][n].outcome = "connection"

\* An entry that was there failed or not as before.
LEMMA FailedStays ==
    ASSUME Inv, Grown, FailuresStay, NEW i \in 1 .. Len(log), FailedIn(calls, log, i)
    PROVE  FailedIn(calls', log', i)
<1>1. log[i].client \in Editors /\ log[i].call \in 1 .. Len(wrote[log[i].client])
  BY LoggedOfEditor DEF Inv, Logged, Known
<1>2. log'[i] = log[i]
  BY DEF Grown
<1> QED
  BY <1>1, <1>2 DEF FailedIn, FailuresStay

\* Nothing new in the log: what came late before is all that did, after a read or a
\* call too.
LEMMA LateEntriesStay ==
    ASSUME Inv, Grown, FailuresStay, Told, log' = log
    PROVE  LateEntries(calls', log')
  BY FailedStays DEF LateEntries, Told, Late

LEMMA LateAfterStays ==
    ASSUME Inv, Grown, FailuresStay, log' = log, NEW e, NEW from, NEW read, NEW read_at, NEW last,
           LateAfter(calls, log, wrote, e, from, read, read_at, last)
    PROVE  LateAfter(calls', log', wrote', e, from, read, read_at, last)
<1> SUFFICES ASSUME NEW j \in 1 .. Len(log), log[j].client = e, log[j].call <= last, j > read_at,
                    WriteIn(log', wrote', j).from = from, WriteIn(log', wrote', j).read # read
             PROVE  FailedIn(calls', log', j)
  BY DEF LateAfter
<1>1. WriteIn(log', wrote', j) = WriteIn(log, wrote, j)
  BY PastStays
<1>2. FailedIn(calls, log, j)
  BY <1>1 DEF LateAfter
<1> QED
  BY <1>2, FailedStays

LEMMA ToldUpdate ==
    ASSUME Inv, Told, Grown, NEW e \in Editors, NEW cal \in Calendars, NEW off, Update(e, cal, off)
    PROVE  Told'
<1>1. /\ UNCHANGED <<calls, log, wrote, adrift>> /\ ~Api!IsOpen(e)
      /\ copies' = [copies EXCEPT ![e][cal] =
                       [state |-> ParseState(Device(cal), off), read |-> Reads(e) + 1,
                        read_at |-> Len(log), edited |-> {}]]
  BY DEF Update, MayRead
<1>2. FailuresStay
  BY <1>1 DEF FailuresStay
<1>3. \A d \in Editors : d # e => copies'[d] = copies[d]
  BY <1>1 DEF Inv, Copies
<1>4. \A other \in Calendars : other # cal => copies'[e][other] = copies[e][other]
  BY <1>1 DEF Inv, Copies
<1>5. copies'[e][cal].read_at = Len(log)
  BY <1>1 DEF Inv, Copies
<1>6. AdriftFailed'
  BY <1>1 DEF Told, AdriftFailed
<1>7. OpenIsOfCopy'
  BY <1>1, <1>3 DEF Told, OpenIsOfCopy, Api!IsOpen
<1>8. LateEntries(calls', log') /\ LateWrites(calls', log', wrote')
  BY <1>1 DEF Told, Late
<1>9. ASSUME NEW d \in Editors, NEW other \in Calendars
      PROVE  LateAfter(calls', log', wrote', d, other, copies'[d][other].read,
                       copies'[d][other].read_at, Len(wrote'[d]))
  <2>1. CASE d = e /\ other = cal
    <3>1. \A j \in 1 .. Len(log') : ~(j > copies'[d][other].read_at)
      BY <1>1, <1>5, <2>1 DEF Grown
    <3> QED
      BY <3>1 DEF LateAfter
  <2>2. CASE ~(d = e /\ other = cal)
    <3>1. copies'[d][other] = copies[d][other]
      BY <1>3, <1>4, <2>2
    <3> QED
      BY <1>1, <3>1 DEF Told, Late, LateCopies
  <2> QED
    BY <2>1, <2>2
<1> QED
  BY <1>6, <1>7, <1>8, <1>9 DEF Told, Late, LateCopies

LEMMA ToldWrite ==
    ASSUME Inv, Told, Grown, NEW e \in Editors, NEW task \in Tasks[e],
           Write(e, task.from, task.to, task.edit)
    PROVE  Told'
<1> DEFINE from == task.from
           new == Len(wrote[e]) + 1
<1>1. /\ log' = log /\ adrift' = adrift /\ from \in Calendars
      /\ wrote' = [wrote EXCEPT ![e] = Append(wrote[e], NewWrite(e, task))]
      /\ calls' = [calls EXCEPT ![e] = Append(calls[e], NewCall(e, task))]
  BY WriteFacts
<1>2. /\ \A d \in Editors : \A n \in 1 .. Len(wrote[d]) :
             /\ n \in 1 .. Len(wrote'[d])
             /\ wrote'[d][n] = wrote[d][n] /\ calls'[d][n] = calls[d][n]
      /\ \A d \in Editors : \A n \in 1 .. Len(wrote'[d]) :
             n \in 1 .. Len(wrote[d]) \/ (d = e /\ n = new)
      /\ Len(wrote[e]) \in Nat
      /\ wrote'[e][new] = NewWrite(e, task)
  BY WriteAddsCall
<1>3. FailuresStay
  BY <1>2 DEF FailuresStay
<1>4. \A d \in Editors, cal \in Calendars :
          copies'[d][cal].read = copies[d][cal].read /\ copies'[d][cal].read_at = copies[d][cal].read_at
  <2>1. \A d \in Editors, cal \in Calendars :
            d # e \/ cal # from => copies'[d][cal] = copies[d][cal]
    BY WriteChangesCopy
  <2>2. copies'[e][from].read = copies[e][from].read /\ copies'[e][from].read_at = copies[e][from].read_at
    BY WriteChangesCopy
  <2> QED
    BY <2>1, <2>2
<1>5. \A d \in Editors : d # e => wrote'[d] = wrote[d] /\ calls'[d] = calls[d]
  BY <1>1 DEF Inv, Shapes
<1>6. Len(wrote'[e]) = new
  BY <1>1, AppendedToSequence DEF Inv, Shapes
<1>7. NewWrite(e, task).from = from /\ NewWrite(e, task).read = copies[e][from].read
      /\ NewWrite(e, task).read_at = copies[e][from].read_at
  BY DEF NewWrite
<1> HIDE DEF from, new
<1>8. AdriftFailed'
  <2> SUFFICES ASSUME NEW call \in adrift
               PROVE  calls'[call[1]][call[2]].outcome = "connection"
    BY <1>1 DEF AdriftFailed
  <2>1. call[1] \in Editors /\ call[2] \in 1 .. Len(wrote[call[1]])
    BY DEF Inv, Adrift
  <2>2. calls[call[1]][call[2]].outcome = "connection"
    BY DEF Told, AdriftFailed
  <2> QED
    BY <1>2, <2>1, <2>2
<1>9. OpenIsOfCopy'
  <2> SUFFICES ASSUME NEW d \in Editors, Api!IsOpen(d)'
               PROVE  /\ wrote'[d][Len(wrote'[d])].from \in Calendars
                      /\ copies'[d][wrote'[d][Len(wrote'[d])].from].read = wrote'[d][Len(wrote'[d])].read
    BY DEF OpenIsOfCopy
  <2>1. CASE d = e
    <3>1. wrote'[d][Len(wrote'[d])] = NewWrite(e, task)
      BY <1>2, <1>6, <2>1
    <3> QED
      BY <1>1, <1>4, <1>7, <2>1, <3>1
  <2>2. CASE d # e
    <3>1. Api!IsOpen(d)
      BY <1>5, <2>2 DEF Api!IsOpen
    <3>2. /\ wrote[d][Len(wrote[d])].from \in Calendars
          /\ copies[d][wrote[d][Len(wrote[d])].from].read = wrote[d][Len(wrote[d])].read
      BY <3>1 DEF Told, OpenIsOfCopy
    <3> QED
      BY <1>4, <1>5, <2>2, <3>2
  <2> QED
    BY <2>1, <2>2
<1>10. LateEntries(calls', log')
  BY <1>1, <1>3, LateEntriesStay
<1>11. ASSUME NEW d \in Editors, NEW cal \in Calendars, NEW last, last = Len(wrote'[d]) \/ last = Len(wrote[d])
       PROVE  LateAfter(calls', log', wrote', d, cal, copies[d][cal].read, copies[d][cal].read_at, last)
  <2>1. LateAfter(calls', log', wrote', d, cal, copies[d][cal].read, copies[d][cal].read_at, Len(wrote[d]))
    <3>1. LateAfter(calls, log, wrote, d, cal, copies[d][cal].read, copies[d][cal].read_at, Len(wrote[d]))
      BY DEF Told, Late, LateCopies
    <3> QED
      BY <1>1, <1>3, <3>1, LateAfterStays
  <2>2. ASSUME NEW j \in 1 .. Len(log'), log'[j].client = d
        PROVE  log'[j].call <= Len(wrote[d])
    <3>1. log[j].call \in 1 .. Len(wrote[d])
      BY <1>1, <2>2 DEF Inv, Logged, Known
    <3>2. Len(wrote[d]) \in Nat
      BY <1>2, <3>1 DEF Inv, Shapes, IsSequence
    <3> QED
      BY <1>1, <3>1, <3>2
  <2> QED
    BY <2>1, <2>2 DEF LateAfter
<1>12. LateCopies(calls', log', wrote', copies')
  BY <1>4, <1>11 DEF LateCopies
<1>13. ASSUME NEW d \in Editors, NEW n \in 1 .. Len(wrote'[d])
       PROVE  LateAfter(calls', log', wrote', d, wrote'[d][n].from, wrote'[d][n].read,
                        wrote'[d][n].read_at, n - 1)
  <2>1. CASE n \in 1 .. Len(wrote[d])
    <3>1. LateAfter(calls, log, wrote, d, wrote[d][n].from, wrote[d][n].read, wrote[d][n].read_at, n - 1)
      BY <2>1 DEF Told, Late, LateWrites
    <3>2. LateAfter(calls', log', wrote', d, wrote[d][n].from, wrote[d][n].read, wrote[d][n].read_at, n - 1)
      BY <1>1, <1>3, <3>1, LateAfterStays
    <3> QED
      BY <1>2, <2>1, <3>2
  <2>2. CASE d = e /\ n = new
    <3>1. n - 1 = Len(wrote[d])
      BY <1>2, <2>2 DEF new
    <3>2. LateAfter(calls', log', wrote', d, from, copies[d][from].read, copies[d][from].read_at, n - 1)
      BY <1>1, <1>11, <3>1
    <3> QED
      BY <1>2, <1>7, <2>2, <3>2
  <2> QED
    BY <1>2, <2>1, <2>2
<1> QED
  BY <1>8, <1>9, <1>10, <1>12, <1>13 DEF Told, Late, LateWrites

\* What is new in the log is of the call under way, or of one that failed.
NewOrFailed ==
    \A i \in 1 .. Len(log') :
        \/ i \in 1 .. Len(log)
        \/ FailedIn(calls', log', i)
        \/ Api!IsOpen(log'[i].client) /\ log'[i].call = Len(wrote[log'[i].client])

LEMMA LateAfterCarry ==
    ASSUME Inv, Inv', Told, Grown, FailuresStay, NewOrFailed, UNCHANGED <<wrote, copies>>
    PROVE  Late(calls', log', wrote', copies')
<1>1. \A i \in 1 .. Len(log') :
          /\ log'[i].client \in Editors
          /\ log'[i].call \in 1 .. Len(wrote[log'[i].client])
          /\ Len(wrote[log'[i].client]) \in Nat
  <2> SUFFICES ASSUME NEW i \in 1 .. Len(log')
               PROVE  /\ log'[i].client \in Editors
                      /\ log'[i].call \in 1 .. Len(wrote[log'[i].client])
                      /\ Len(wrote[log'[i].client]) \in Nat
    OBVIOUS
  <2>1. log'[i] \in Entry
    BY ElementOfSeq DEF Inv, Shapes
  <2>2. log'[i].call \in 1 .. Len(wrote'[log'[i].client])
    BY DEF Inv, Logged, Known
  <2>3. IsSequence(wrote[log'[i].client])
    BY <2>1 DEF Inv, Shapes, Entry
  <2> QED
    BY <2>1, <2>2, <2>3, AppendedToSequence DEF Entry
<1>2. Len(log) \in Nat /\ Len(log') \in Nat /\ \A i \in 1 .. Len(log) : log'[i] = log[i]
  BY DEF Grown
<1>3. LateEntries(calls', log')
  <2> SUFFICES ASSUME NEW i \in 1 .. Len(log'), NEW j \in 1 .. i - 1,
                      log'[j].client = log'[i].client, log'[i].call < log'[j].call
               PROVE  FailedIn(calls', log', i)
    BY DEF LateEntries
  <2>1. CASE i \in 1 .. Len(log)
    <3>1. j \in 1 .. Len(log)
      BY <1>2, <2>1
    <3>2. FailedIn(calls, log, i)
      BY <1>2, <2>1, <3>1 DEF Told, Late, LateEntries
    <3> QED
      BY <2>1, <3>2, FailedStays
  <2>2. CASE log'[i].call = Len(wrote[log'[i].client])
    <3>1. j \in 1 .. Len(log')
      BY <1>2
    <3>2. log'[j].call \in 1 .. Len(wrote[log'[i].client]) /\ Len(wrote[log'[i].client]) \in Nat
      BY <1>1, <3>1
    <3> QED
      BY <2>2, <3>2
  <2> QED
    BY <2>1, <2>2 DEF NewOrFailed
<1>4. ASSUME NEW e \in Editors, NEW from, NEW read, NEW read_at, NEW last,
             LateAfter(calls, log, wrote, e, from, read, read_at, last),
             Api!IsOpen(e) =>
                 \/ ~(Len(wrote[e]) <= last)
                 \/ wrote[e][Len(wrote[e])].from # from
                 \/ wrote[e][Len(wrote[e])].read = read
      PROVE  LateAfter(calls', log', wrote', e, from, read, read_at, last)
  <2> SUFFICES ASSUME NEW j \in 1 .. Len(log'), log'[j].client = e, log'[j].call <= last, j > read_at,
                      WriteIn(log', wrote', j).from = from, WriteIn(log', wrote', j).read # read
               PROVE  FailedIn(calls', log', j)
    BY DEF LateAfter
  <2>1. CASE j \in 1 .. Len(log)
    <3>1. WriteIn(log', wrote', j) = WriteIn(log, wrote, j) /\ log'[j] = log[j]
      BY <1>2, <2>1, PastStays
    <3>2. FailedIn(calls, log, j)
      BY <1>4, <2>1, <3>1 DEF LateAfter
    <3> QED
      BY <2>1, <3>2, FailedStays
  <2>2. CASE Api!IsOpen(log'[j].client) /\ log'[j].call = Len(wrote[log'[j].client])
    <3>1. WriteIn(log', wrote', j) = wrote[e][Len(wrote[e])]
      BY <2>2 DEF WriteIn
    <3> QED
      BY <1>4, <2>2, <3>1
  <2> QED
    BY <2>1, <2>2 DEF NewOrFailed
<1>5. LateCopies(calls', log', wrote', copies')
  <2> SUFFICES ASSUME NEW e \in Editors, NEW cal \in Calendars
               PROVE  LateAfter(calls', log', wrote', e, cal, copies[e][cal].read,
                                copies[e][cal].read_at, Len(wrote[e]))
    BY DEF LateCopies
  <2>1. LateAfter(calls, log, wrote, e, cal, copies[e][cal].read, copies[e][cal].read_at, Len(wrote[e]))
    BY DEF Told, Late, LateCopies
  <2>2. Api!IsOpen(e) => \/ wrote[e][Len(wrote[e])].from # cal
                         \/ wrote[e][Len(wrote[e])].read = copies[e][cal].read
    BY DEF Told, OpenIsOfCopy
  <2> QED
    BY <1>4, <2>1, <2>2
<1>6. LateWrites(calls', log', wrote')
  <2> SUFFICES ASSUME NEW e \in Editors, NEW n \in 1 .. Len(wrote[e])
               PROVE  LateAfter(calls', log', wrote', e, wrote[e][n].from, wrote[e][n].read,
                                wrote[e][n].read_at, n - 1)
    BY DEF LateWrites
  <2>1. LateAfter(calls, log, wrote, e, wrote[e][n].from, wrote[e][n].read, wrote[e][n].read_at, n - 1)
    BY DEF Told, Late, LateWrites
  <2>2. ~(Len(wrote[e]) <= n - 1)
    <3>1. Len(wrote[e]) \in Nat
      BY AppendedToSequence DEF Inv, Shapes
    <3> QED
      BY <3>1
  <2> QED
    BY <1>4, <2>1, <2>2
<1> QED
  BY <1>3, <1>5, <1>6 DEF Late

LEMMA ToldCarry ==
    ASSUME Inv, Inv', Told, Grown, Carry
    PROVE  Told'
<1>1. UNCHANGED <<wrote, copies>>
  BY DEF Carry
<1>2. ASSUME NEW e \in Editors, NEW n \in 1 .. Len(wrote[e]), Cut(calls[e][n], wrote[e][n]),
             OpenOrAdrift(e, n), Api!Run(e, n) \/ UNCHANGED log,
             UNCHANGED calls, adrift' \subseteq adrift
      PROVE  Told'
  <2>1. FailuresStay
    BY <1>2 DEF FailuresStay
  <2>2. AdriftFailed' /\ OpenIsOfCopy'
    <3>1. AdriftFailed'
      BY <1>2 DEF Told, AdriftFailed
    <3>2. OpenIsOfCopy'
      BY <1>1, <1>2 DEF Told, OpenIsOfCopy, Api!IsOpen
    <3> QED
      BY <3>1, <3>2
  <2>3. CASE UNCHANGED log
    <3>1. NewOrFailed
      BY <2>3 DEF NewOrFailed
    <3>2. Late(calls', log', wrote', copies')
      BY <1>1, <2>1, <3>1, LateAfterCarry
    <3> QED
      BY <2>2, <3>2 DEF Told
  <2>4. CASE Api!Run(e, n)
    <3>1. PICK k, from, to : Adds(e, n, k, from, to)
      BY <1>2, <2>4, RunAdds
    <3>2. ASSUME NEW i \in 1 .. Len(log'), i \notin 1 .. Len(log)
          PROVE  \/ FailedIn(calls', log', i)
                 \/ Api!IsOpen(log'[i].client) /\ log'[i].call = Len(wrote[log'[i].client])
      <4>1. Added(i, e, n, from, to)
        BY <3>1, AddedOrOld
      <4>2. log'[i].client = e /\ log'[i].call = n
        <5>1. ASSUME NEW j, log'[i] = [client |-> e, call |-> n, index |-> from + j]
              PROVE  log'[i].client = e /\ log'[i].call = n
          BY <5>1
        <5> QED
          BY <3>2, <4>1, <5>1 DEF Added
      <4>3. CASE Api!IsOpen(e) /\ n = Len(wrote[e])
        BY <4>2, <4>3
      <4>4. ASSUME NEW call \in adrift, call[1] = e, call[2] = n
            PROVE  FailedIn(calls', log', i)
        BY <1>2, <4>2, <4>4 DEF Told, AdriftFailed, FailedIn
      <4> QED
        BY <1>2, <4>3, <4>4 DEF OpenOrAdrift
    <3>3. NewOrFailed
      BY <3>2 DEF NewOrFailed
    <3>4. Late(calls', log', wrote', copies')
      BY <1>1, <2>1, <3>3, LateAfterCarry
    <3> QED
      BY <2>2, <3>4 DEF Told
  <2> QED
    BY <1>2, <2>3, <2>4
<1>3. ASSUME NEW e \in Editors, NEW outcome \in {"ok", "connection"}, Api!Ended(e, outcome),
             adrift' \subseteq adrift \cup (IF outcome = "connection" THEN {<<e, Len(calls[e])>>} ELSE {})
      PROVE  Told'
  <2> DEFINE last == Len(calls[e])
             ended == [calls[e][last] EXCEPT !.outcome = outcome]
  <2>1. /\ Api!IsOpen(e) /\ log' = log
        /\ calls' = [calls EXCEPT ![e][last].outcome = outcome]
    BY <1>3 DEF Api!Ended
  <2>2. last \in 1 .. Len(calls[e]) /\ last \in 1 .. Len(wrote[e]) /\ Len(calls[e]) = Len(wrote[e])
    BY <2>1, OpenIsCut DEF Inv, Shapes
  <2>3. Proper(calls[e][last], wrote[e][last])
    BY <2>2 DEF Inv, Sent
  <2>4. ended.outcome = outcome
    BY <2>3 DEF Proper
  <2>5. calls[e][last].outcome = "open"
    BY <2>1 DEF Api!IsOpen
  <2>6. \A d \in Editors : d # e => calls'[d] = calls[d]
    BY <2>1 DEF Inv, Shapes
  <2>7. calls'[e] = [calls[e] EXCEPT ![last] = ended] /\ IsSequence(calls[e])
    BY <2>1 DEF Inv, Shapes
  <2> HIDE DEF ended, last
  <2>8. Len(calls'[e]) = Len(calls[e])
        /\ \A n \in 1 .. Len(calls[e]) : calls'[e][n] = IF n = last THEN ended ELSE calls[e][n]
    BY <2>2, <2>7, ReplacedInSequence
  <2>9. FailuresStay
    <3> SUFFICES ASSUME NEW d \in Editors, NEW n \in 1 .. Len(wrote[d]), calls[d][n].outcome = "connection"
                 PROVE  calls'[d][n].outcome = "connection"
      BY DEF FailuresStay
    <3>1. CASE d # e
      BY <2>6, <3>1
    <3>2. CASE d = e
      <4>1. n \in 1 .. Len(calls[e]) /\ n # last
        BY <2>2, <2>5, <3>2
      <4> QED
        BY <2>8, <3>2, <4>1
    <3> QED
      BY <3>1, <3>2
  <2>10. AdriftFailed'
    <3> SUFFICES ASSUME NEW call \in adrift'
                 PROVE  calls'[call[1]][call[2]].outcome = "connection"
      BY DEF AdriftFailed
    <3>1. CASE call \in adrift
      <4>1. call[1] \in Editors /\ call[2] \in 1 .. Len(wrote[call[1]])
        BY <3>1 DEF Inv, Adrift
      <4>2. calls[call[1]][call[2]].outcome = "connection"
        BY <3>1 DEF Told, AdriftFailed
      <4> QED
        BY <2>9, <4>1, <4>2 DEF FailuresStay
    <3>2. CASE outcome = "connection" /\ call = <<e, last>>
      <4>1. calls'[e][last] = ended
        BY <2>2, <2>8
      <4> QED
        BY <2>4, <3>2, <4>1
    <3> QED
      BY <1>3, <3>1, <3>2 DEF last
  <2>11. OpenIsOfCopy'
    <3> SUFFICES ASSUME NEW d \in Editors, Api!IsOpen(d)'
                 PROVE  /\ wrote[d][Len(wrote[d])].from \in Calendars
                        /\ copies[d][wrote[d][Len(wrote[d])].from].read = wrote[d][Len(wrote[d])].read
      BY <1>1 DEF OpenIsOfCopy
    <3>1. CASE d = e
      <4>1. calls'[e][Len(calls'[e])] = ended
        BY <2>2, <2>8 DEF last
      <4>2. ended.outcome = "open"
        BY <3>1, <4>1 DEF Api!IsOpen
      <4> QED
        BY <1>3, <2>4, <4>2
    <3>2. CASE d # e
      <4>1. Api!IsOpen(d)
        BY <2>6, <3>2 DEF Api!IsOpen
      <4> QED
        BY <4>1 DEF Told, OpenIsOfCopy
    <3> QED
      BY <3>1, <3>2
  <2>12. NewOrFailed
    BY <2>1 DEF NewOrFailed
  <2>13. Late(calls', log', wrote', copies')
    BY <1>1, <2>9, <2>12, LateAfterCarry
  <2> QED
    BY <2>10, <2>11, <2>13 DEF Told
<1> QED
  BY <1>2, <1>3, CarrySteps

LEMMA ToldHolds == Spec => [](Inv /\ Told)
<1>1. Init => Inv /\ Told
  <2> SUFFICES ASSUME Init PROVE Told
    BY InitInv
  <2>1. log = <<>> /\ adrift = {} /\ Len(log) = 0 /\ \A e \in Editors : calls[e] = <<>> /\ Len(wrote[e]) = 0
    BY EmptySeq DEF Init, Api!Init
  <2>2. AdriftFailed /\ OpenIsOfCopy
    BY <2>1 DEF AdriftFailed, OpenIsOfCopy, Api!IsOpen
  <2>3. LateEntries(calls, log) /\ LateCopies(calls, log, wrote, copies) /\ LateWrites(calls, log, wrote)
    BY <2>1 DEF LateEntries, LateCopies, LateWrites, LateAfter
  <2> QED
    BY <2>2, <2>3 DEF Told, Late
<1>2. Inv /\ Told /\ Inv' /\ [Next]_vars => Told'
  <2> SUFFICES ASSUME Inv, Told, Inv', [Next]_vars PROVE Told'
    OBVIOUS
  <2>1. Grown
    BY StepGrows
  <2>2. CASE UNCHANGED vars
    BY <2>2 DEF vars, Told, AdriftFailed, OpenIsOfCopy, Api!IsOpen
  <2>3. ASSUME NEW e \in Editors, NEW cal \in Calendars, NEW off, Update(e, cal, off)
        PROVE  Told'
    BY <2>1, <2>3, ToldUpdate
  <2>4. ASSUME NEW e \in Editors, NEW task \in Tasks[e], Write(e, task.from, task.to, task.edit)
        PROVE  Told'
    BY <2>1, <2>4, ToldWrite
  <2>5. CASE Carry
    BY <2>1, <2>5, ToldCarry
  <2> QED
    BY <2>2, <2>3, <2>4, <2>5 DEF Next
<1> QED
  BY <1>1, <1>2, InvHolds, PTL DEF Spec

-----------------------------------------------------------------------------
\* Copies and calendars are states of calendars, a colour is on the device exactly
\* where there is a variable for it, and the log holds setters of the calls, for any
\* editors and calendars (write, parse_state).
THEOREM TypeCorrect == Spec => []TypeOK
<1>1. Inv => TypeOK
  <2> SUFFICES ASSUME Inv PROVE TypeOK
    OBVIOUS
  <2>1. \A e \in Editors : Len(wrote[e]) = Len(calls[e])
    BY DEF Inv, Shapes
  <2>2. \A e \in Editors, cal \in Calendars : copies[e][cal].state \in CalendarState
    BY DEF Inv, Copies
  <2>3. ASSUME NEW i \in DOMAIN log
        PROVE  log[i].index \in DOMAIN CallOf(i).setters
    <3>1. i \in 1 .. Len(log)
      BY LenProperties DEF Inv, Shapes
    <3>2. /\ log[i].call \in 1 .. Len(wrote[log[i].client])
          /\ log[i].index \in 1 .. Len(CallOf(i).setters)
      BY <3>1 DEF Inv, Logged, Known, CallOf
    <3>3. Proper(calls[log[i].client][log[i].call], CallOf(i))
      BY <3>1, <3>2, LoggedOfEditor DEF Inv, Sent, CallOf
    <3>4. CallOf(i).setters \in Seq(SettersFor(CallOf(i).calendar))
      BY <3>3 DEF Proper
    <3> QED
      BY <3>2, <3>4, LenProperties
  <2> QED
    BY <2>1, <2>2, <2>3, DeviceIsProper DEF TypeOK
<1> QED
  BY <1>1, InvHolds, PTL

\* No calendar on the device ever lacks a day or its temperatures or has a value that
\* validate refuses, for any editors, whatever was switched off when it was read and
\* whatever calls fail or come late
\* (validate before every write, payload written as a whole).
THEOREM Unwiped == Spec => []NeverWiped
<1>1. Inv => NeverWiped
  BY DeviceIsProper DEF NeverWiped
<1> QED
  BY <1>1, InvHolds, PTL

\* A write changes a field that its editor's copy has and that the editor did not touch
\* only if another one overlaps with it: somebody else's, one of another calendar's copy,
\* or one of a call of its own that failed and came late; for any editors, calendars and
\* limits (Calendar.write replaces the whole calendar).
THEOREM OnlyOverlapsLose == Spec => []LosesOnlyToOverlap
<1>1. Inv /\ Traced /\ Paired /\ Told => LosesOnlyToOverlap
  <2> SUFFICES ASSUME Inv, Traced, Paired, Told, NEW i \in DOMAIN log,
                      NEW f \in (Sets(SetterOf(i)) \cap CallOf(i).given) \ CallOf(i).edited,
                      ValueAt(CallOf(i).calendar, f, i) # ValueAt(CallOf(i).calendar, f, i - 1)
               PROVE  \E j \in Touching(CallOf(i).calendar, f, i - 1) :
                          j > CallOf(i).read_at /\ Overlaps(j, i)
    BY DEF LosesOnlyToOverlap
  <2> DEFINE call == CallOf(i)
             cal == call.calendar
  <2>1. i \in 1 .. Len(log)
    BY LenProperties DEF Inv, Shapes
  <2>2. call.read_at \in 0 .. Len(log) /\ SetterOf(i).values[f] = ValueAt(cal, f, call.read_at)
    BY <2>1, LoggedIsRead
  <2>3. ValueAt(cal, f, i) = SetterOf(i).values[f]
    BY <2>1, ValueAfterEntry
  <2>4. call.read_at < i
    BY <2>1 DEF Traced, Later, WriteIn, CallOf
  <2>5. PICK j \in Touching(cal, f, i - 1) :
          j > call.read_at /\ ValueAt(cal, f, i - 1) = SetterOf(j).values[f]
    <3>1. call.read_at \in Nat /\ i - 1 \in Nat /\ call.read_at <= i - 1
      BY <2>1, <2>2, <2>4
    <3>2. ValueAt(cal, f, i - 1) # ValueAt(cal, f, call.read_at)
      BY <2>2, <2>3
    <3> HIDE DEF cal, call
    <3> QED
      BY <3>1, <3>2, ValueChanged
  <2>6. /\ j \in 1 .. Len(log) /\ j \in 1 .. i - 1
        /\ CallOf(j).calendar = cal /\ f \in Sets(SetterOf(j))
    BY <2>1, <2>5 DEF Touching
  <2> DEFINE e == log[i].client
             n == log[j].call
             m == log[i].call
  <2>7. SUFFICES ASSUME log[j].client = e, CallOf(j).from = CallOf(j).calendar
                 PROVE  Overlaps(j, i)
    BY <2>5 DEF Overlaps
  <2>8. /\ e \in Editors
        /\ n \in 1 .. Len(wrote[e]) /\ m \in 1 .. Len(wrote[e])
        /\ log[i].index \in 1 .. Len(wrote[e][m].setters)
        /\ log[j].index \in 1 .. Len(wrote[e][n].setters)
    BY <2>1, <2>6, <2>7, LoggedOfEditor DEF Inv, Logged, Known
  <2>9. CallOf(j) = wrote[e][n] /\ call = wrote[e][m]
    BY <2>7 DEF CallOf
  <2>10. ~Rewrites(call)
    BY <2>8, <2>9 DEF Rewrites, SetterOf
  <2>11. call.from = cal
    <3>1. Origin(log, wrote, call)
      BY <2>8, <2>9 DEF Traced, TracedOf
    <3> QED
      BY <2>10, <3>1 DEF Origin
  \* A setter of the same call sets other fields.
  <2>12. n # m
    <3> SUFFICES ASSUME n = m PROVE FALSE
      OBVIOUS
    <3>1. Ordered(call)
      BY <2>8, <2>9 DEF Paired
    <3>2. "color" \notin PayloadFields
      BY ValuesOfFields
    <3>3. log[i].index \in {1, 2} /\ log[j].index \in {1, 2}
          /\ (log[i].index = 2 \/ log[j].index = 2 => Len(call.setters) = 2)
      <4>1. Len(call.setters) \in {1, 2}
        BY <3>1 DEF Ordered
      <4>2. log[i].index \in 1 .. Len(call.setters) /\ log[j].index \in 1 .. Len(call.setters)
        BY <2>8, <2>9
      <4>3. CASE Len(call.setters) = 1
        BY <4>2, <4>3
      <4>4. CASE Len(call.setters) = 2
        BY <4>2, <4>4
      <4> QED
        BY <4>1, <4>3, <4>4
    <3>4. log[i].index = log[j].index
      BY <2>6, <2>9, <3>1, <3>2, <3>3 DEF Ordered, SetterOf
    <3>5. SetterOf(i) = SetterOf(j)
      BY <2>9, <3>4 DEF SetterOf
    <3> QED
      BY <2>3, <2>5, <3>5
  <2>13. n \in Nat /\ m \in Nat
    BY <2>8
  \* It came late itself.
  <2>14. CASE m < n
    <3>1. Failed(i)
      BY <2>1, <2>6, <2>7, <2>14 DEF Told, Late, LateEntries, FailedIn, Failed
    <3> QED
      BY <2>14, <3>1 DEF Overlaps
  \* The other came late.
  <2>15. CASE n < m /\ CallOf(j).read # call.read
    <3>1. LateAfter(calls, log, wrote, e, wrote[e][m].from, wrote[e][m].read, wrote[e][m].read_at, m - 1)
      BY <2>8 DEF Told, Late, LateWrites
    <3>2. n <= m - 1
      BY <2>13, <2>15
    <3>3. WriteIn(log, wrote, j) = CallOf(j)
      BY DEF WriteIn, CallOf
    <3>4. CallOf(j).from = wrote[e][m].from /\ CallOf(j).read # wrote[e][m].read /\ j > wrote[e][m].read_at
      BY <2>5, <2>6, <2>7, <2>9, <2>11, <2>15
    <3>5. FailedIn(calls, log, j)
      BY <2>6, <2>7, <3>1, <3>2, <3>3, <3>4 DEF LateAfter
    <3> QED
      BY <2>15, <3>5 DEF Overlaps, Failed, FailedIn
  \* Two writes of one copy, in order, do not change it.
  <2>16. ASSUME n < m, CallOf(j).read = call.read
         PROVE  FALSE
    <3>1. Heirs(wrote[e])
      BY <2>8 DEF Traced, TracedOf
    <3>2. /\ wrote[e][n].read = wrote[e][m].read /\ wrote[e][n].calendar = wrote[e][m].calendar
      BY <2>6, <2>9, <2>16
    <3>3. /\ wrote[e][n].read_at = wrote[e][m].read_at
          /\ Rewrites(wrote[e][m]) \/ Extends(wrote[e][m].edited, wrote[e][m].given, wrote[e][n])
      <4> HIDE DEF e, n, m
      <4> QED
        BY <2>8, <2>16, <3>1, <3>2 DEF Heirs
    <3>4. f \in (Sets(SetterOf(j)) \cap CallOf(j).given) \ CallOf(j).edited
      BY <2>6, <2>9, <2>10, <3>3 DEF Extends
    <3>5. SetterOf(j).values[f] = ValueAt(CallOf(j).calendar, f, CallOf(j).read_at)
      BY <2>6, <3>4, LoggedIsRead
    <3>6. CallOf(j).read_at = call.read_at
      BY <2>9, <3>3
    <3> QED
      BY <2>2, <2>3, <2>5, <2>6, <3>5, <3>6
  <2>17. n < m \/ m < n
    BY <2>12, <2>13
  <2> QED
    BY <2>14, <2>15, <2>16, <2>17
<1> QED
  BY <1>1, TracedHolds, PairedHolds, ToldHolds, PTL

\* Payload and colour on the device are of one write, for any editors, calendars and
\* limits and whatever calls fail or come late, unless a write was too long for one
\* request or wrote no colour (Calendar.write sends both in one api_call).
THEOREM OneWriteAtATime == Spec => []OneWriteUnlessSplit
<1>1. Inv /\ Paired => OneWriteUnlessSplit
  <2> DEFINE payloads(cal) == Touching(cal, "temperatures", Len(log))
             colours(cal) == Touching(cal, "color", Len(log))
             Split(i) == ~Under(Items(CallOf(i).setters), [k \in DOMAIN CallOf(i).setters |-> k])
  <2> SUFFICES ASSUME Inv, Paired, NEW cal \in Coloured, payloads(cal) # {},
                      Len(CallOf(Max(payloads(cal))).setters) > 1,
                      \A i \in payloads(cal) : ~Split(i)
               PROVE  /\ colours(cal) # {}
                      /\ log[Max(colours(cal))].client = log[Max(payloads(cal))].client
                      /\ log[Max(colours(cal))].call = log[Max(payloads(cal))].call
    BY DEF OneWriteUnlessSplit
  <2> DEFINE p == Max(payloads(cal))
             c == Max(colours(cal))
  <2>1. Len(log) \in Nat
    BY LenProperties DEF Inv, Shapes
  <2>2. \A i \in payloads(cal) : Fits(CallOf(i))
    BY DEF Fits, AllOf
  <2>3. ASSUME NEW i \in 1 .. Len(log)
        PROVE  /\ Len(CallOf(i).setters) \in {1, 2}
               /\ log[i].index = 1 \/ (log[i].index = 2 /\ Len(CallOf(i).setters) = 2)
               /\ log[i].index = 1 => "temperatures" \in Sets(SetterOf(i)) /\ "color" \notin Sets(SetterOf(i))
               /\ log[i].index = 2 => "color" \in Sets(SetterOf(i)) /\ "temperatures" \notin Sets(SetterOf(i))
    <3>1. /\ log[i].client \in Editors
          /\ log[i].call \in 1 .. Len(wrote[log[i].client])
          /\ log[i].index \in 1 .. Len(CallOf(i).setters)
      BY LoggedOfEditor DEF Inv, Logged, Known, CallOf
    <3>2. Ordered(CallOf(i))
      BY <3>1 DEF Paired, CallOf
    <3>3. "temperatures" \in PayloadFields /\ "color" \notin PayloadFields /\ "temperatures" # "color"
      BY CalendarAssumption DEF PayloadFields
    <3>4. Len(CallOf(i).setters) \in {1, 2}
      BY <3>2 DEF Ordered
    <3>5. log[i].index = 1 \/ (log[i].index = 2 /\ Len(CallOf(i).setters) = 2)
      <4>1. CASE Len(CallOf(i).setters) = 1
        BY <3>1, <4>1
      <4>2. CASE Len(CallOf(i).setters) = 2
        BY <3>1, <4>2
      <4> QED
        BY <3>4, <4>1, <4>2
    <3> QED
      BY <3>2, <3>3, <3>4, <3>5 DEF Ordered, SetterOf
  <2>4. ASSUME NEW i \in 1 .. Len(log), NEW j \in 1 .. Len(log), NEW index, log[j] = PartOf(log, i, index)
        PROVE  /\ CallOf(j) = CallOf(i) /\ log[j].index = index
               /\ log[j].client = log[i].client /\ log[j].call = log[i].call
    BY <2>4 DEF PartOf, CallOf
  <2>5. \A i \in 1 .. Len(log) :
          /\ i \in payloads(cal) <=> CallOf(i).calendar = cal /\ log[i].index = 1
          /\ i \in colours(cal) <=> CallOf(i).calendar = cal /\ log[i].index = 2
    BY <2>3 DEF Touching
  <2>6. payloads(cal) \in SUBSET (0 .. Len(log)) /\ colours(cal) \in SUBSET (0 .. Len(log))
        /\ payloads(cal) \subseteq 1 .. Len(log) /\ colours(cal) \subseteq 1 .. Len(log)
    BY <2>1 DEF Touching
  <2>7. p \in payloads(cal) /\ \A i \in payloads(cal) : i <= p
    <3> HIDE DEF payloads
    <3> QED
      BY <2>1, <2>6, MaxIsLatest
  <2> HIDE DEF payloads, colours, p, c
  <2>8. p \in 1 .. Len(log) /\ log[p].index = 1 /\ CallOf(p).calendar = cal
    BY <2>5, <2>6, <2>7
  <2>9. Len(CallOf(p).setters) = 2
    <3>1. Len(CallOf(p).setters) > 1
      BY DEF p
    <3>2. Len(CallOf(p).setters) \in {1, 2}
      BY <2>3, <2>8
    <3>3. \A size \in {1, 2} : size > 1 => size = 2
      OBVIOUS
    <3> QED
      BY <3>1, <3>2, <3>3
  <2>10. \A i \in 1 .. Len(log) : Linked(log, wrote, i) /\ WriteIn(log, wrote, i) = CallOf(i)
    BY DEF Paired, WriteIn, CallOf
  <2>11. p + 1 \in 1 .. Len(log) /\ log[p + 1] = PartOf(log, p, 2)
    BY <2>2, <2>7, <2>8, <2>9, <2>10 DEF Linked
  <2>12. p + 1 \in colours(cal)
    BY <2>4, <2>5, <2>8, <2>11
  <2>13. c \in colours(cal) /\ \A i \in colours(cal) : i <= c
    BY <2>1, <2>6, <2>12, MaxIsLatest DEF c
  <2>14. c \in 1 .. Len(log) /\ log[c].index = 2 /\ CallOf(c).calendar = cal
    BY <2>5, <2>6, <2>13
  <2>15. PICK j \in 1 .. c - 1 : log[j] = PartOf(log, c, 1)
    BY <2>10, <2>14 DEF Linked
  <2>16. j \in payloads(cal) /\ CallOf(j) = CallOf(c)
    <3>1. j \in 1 .. Len(log)
      BY <2>1, <2>14
    <3> QED
      BY <2>4, <2>5, <2>14, <2>15, <3>1
  <2>17. c - 1 \in 1 .. Len(log) /\ log[c - 1] = PartOf(log, c, 1)
    <3>1. Fits(CallOf(c))
      BY <2>2, <2>16
    <3> QED
      BY <2>10, <2>14, <3>1 DEF Linked
  <2>18. c - 1 \in payloads(cal)
    BY <2>4, <2>5, <2>14, <2>17
  <2>19. c = p + 1
    <3>1. c - 1 <= p /\ p + 1 <= c
      BY <2>7, <2>12, <2>13, <2>18
    <3> QED
      BY <2>8, <2>14, <3>1
  <2>20. log[c].client = log[p].client /\ log[c].call = log[p].call
    BY <2>4, <2>8, <2>11, <2>19
  <2> QED
    BY <2>12, <2>20 DEF c, p
<1> QED
  BY <1>1, PairedHolds, PTL
=============================================================================
