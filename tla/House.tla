------------------------------- MODULE House --------------------------------
(***************************************************************************)
(* How a Controller finds the house and reads it: data.xml is matched      *)
(* entry by entry (utils.match_api), the variables found are handed to the *)
(* units whose names they carry (Controller.__init__, StatefulUnit,        *)
(* Device), and from then on units are read, one or all of them, and       *)
(* written through.  A unit asks for its structure if it has just one, and *)
(* api_call asks for the structure's variables if its reply would be too   *)
(* long: what a unit shows must not depend on either.                      *)
(*                                                                         *)
(* Here api_call is one step, for a call that does not fail; ApiCall has   *)
(* the rest of it.                                                         *)
(***************************************************************************)
EXTENDS Packing, SequencesExt

CONSTANTS
    DataXmls,       \* what data.xml may be: sequences of entries
    RoomIds,        \* the unit names REGEXP.ROOM matches
    BlindIds,       \* and REGEXP.SUNBLIND
    System,         \* "SYSTEM"
    RoomVars,       \* the variables of RoomVar, SunblindVar and SystemVar
    BlindVars,
    SystemVars,
    PathLen,        \* len of an address or a structure address
    DeviceResponse, \* the firmware's limit on the reply
    MaxWrites       \* bound: how often an address is written; the first to get
                    \* there ends the writing (the code has none)

Categories == {"driver", "calendar", "sbScenario", "device", "page", "other"}

\* An entry of data.xml; sound says that its numbers can be read as such, and
\* bytes is VALUE_MAX_BYTES of its type.
Entry ==
    [id : STRING, var : STRING, category : Categories, sound : BOOLEAN,
     structure : Nat, offset : Nat, writable : BOOLEAN, bytes : Nat]

ASSUME HouseAssumption ==
    /\ DataXmls \subseteq Seq(Entry)
    /\ PathLen \in Nat /\ MaxWrites \in Nat
    /\ DeviceResponse \in Nat /\ MaxResponse <= DeviceResponse

\* An address is that of one variable, however often it is declared.
ASSUME OneType ==
    \A data \in DataXmls : \A i, j \in DOMAIN data :
        (/\ data[i].category = data[j].category
         /\ data[i].structure = data[j].structure
         /\ data[i].offset = data[j].offset) => data[i].bytes = data[j].bytes

VARIABLES
    xml,        \* data.xml, as the device has it
    rest,       \* the entries not yet matched
    found,      \* the descriptors, in the order of data.xml
    connected,  \* is __init__ over
    off,        \* the addresses the device answers with "!off"
    version,    \* the device: address -> how often it was written
    shown,      \* what the last read gave: [unit, name] -> version or Missing;
                \* dropped by a write
    outcome     \* how the last call ended

vars == <<xml, rest, found, connected, off, version, shown, outcome>>

Missing == -1   \* None

-----------------------------------------------------------------------------
(***************************************************************************)
(* Descriptors                                                             *)
(***************************************************************************)
Name(entry) == [id |-> entry.id, var |-> entry.var]
Address(entry) == <<entry.category, entry.structure, entry.offset>>
StructureAddress(entry) == <<entry.category, entry.structure>>
ResponseBytes(entry) == PathLen + entry.bytes + 2

Matched(entry) == entry.sound /\ entry.category # "other"

\* What a list holds at some positions, in its order.
Picked(list, positions) ==
    LET part[i \in 0 .. Len(list)] ==
            IF i = 0 THEN <<>>
            ELSE IF i \in positions THEN Append(part[i - 1], list[i])
            ELSE part[i - 1]
    IN  part[Len(list)]

Addressed(entries) ==
    Picked(entries, {i \in DOMAIN entries : entries[i].category # "page"})

\* A dict of descriptors by name, where a later one replaces an earlier one.
ByName(entries) ==
    [n \in {Name(e) : e \in ToSet(entries)} |->
        entries[Max({i \in DOMAIN entries : Name(entries[i]) = n})]]

Apis == ByName(found)
DriverApis == ByName(Picked(found, {i \in DOMAIN found : found[i].category = "driver"}))

\* _index_addresses
Structured(structure) ==
    Picked(found, {i \in DOMAIN found :
        found[i].category # "page" /\ StructureAddress(found[i]) = structure})

StructureBytes(structure) ==
    LET entries == Structured(structure)
    IN  Total([i \in DOMAIN entries |-> ResponseBytes(entries[i])])

-----------------------------------------------------------------------------
(***************************************************************************)
(* Units                                                                   *)
(***************************************************************************)
Ids == {n.id : n \in DOMAIN DriverApis}

\* Mutated form of DeviceIds: SYSTEM has a unit and is not exposed again.
DeviceIdsWithoutSystem == Ids \ (RoomIds \cup BlindIds \cup {System})

\* Whatever is left over, with SYSTEM.
DeviceIds == Ids \ (RoomIds \cup BlindIds)

Units ==
    {[kind |-> "system", id |-> System]}
        \cup [kind : {"room"}, id : Ids \cap RoomIds]
        \cup [kind : {"blind"}, id : Ids \cap BlindIds]
        \cup [kind : {"device"}, id : DeviceIds]

\* _var_map; a device has every variable of its name.
Takes(unit, var) ==
    \/ unit.kind = "device"
    \/ unit.kind = "room" /\ var \in RoomVars
    \/ unit.kind = "blind" /\ var \in BlindVars
    \/ unit.kind = "system" /\ var \in SystemVars

Bound(unit) == {n \in DOMAIN DriverApis : n.id = unit.id /\ Takes(unit, n.var)}

StructuresOf(unit) == {StructureAddress(DriverApis[n]) : n \in Bound(unit)}

GetStructure(structure) ==
    [path |-> structure, own |-> FALSE, bytes |-> StructureBytes(structure)]

\* API.get_request: a Get that brings its own estimate.
Get(entry) == [path |-> Address(entry), own |-> TRUE, bytes |-> ResponseBytes(entry)]

\* Mutated form of Getters: the unit asks for one of its structures.
GettersOfOne(unit) ==
    IF Bound(unit) = {} THEN <<>>
    ELSE <<GetStructure(CHOOSE s \in StructuresOf(unit) : TRUE)>>

\* A unit that spans several structures reads its variables one by one.
Getters(unit) ==
    IF Cardinality(StructuresOf(unit)) = 1
    THEN <<GetStructure(CHOOSE s \in StructuresOf(unit) : TRUE)>>
    ELSE SetToSeq({Get(DriverApis[n]) : n \in Bound(unit)})

-----------------------------------------------------------------------------
(***************************************************************************)
(* api_call, for a set of getters                                          *)
(***************************************************************************)
\* Mutated form of Expand: a structure is asked for whatever its size.
ExpandNever(getter) == <<getter>>

\* _readable
Expand(getter) ==
    IF ~getter.own /\ getter.bytes > MaxResponse
    THEN LET members == Structured(getter.path)
         IN  [i \in DOMAIN members |-> Get(members[i])]
    ELSE <<getter>>

\* The "seen" filter, by path.
Distinct(getters) ==
    Picked(getters, {i \in DOMAIN getters :
        \A j \in 1 .. i - 1 : getters[j].path # getters[i].path})

Readable(getters) == Distinct(FlattenSeq([i \in DOMAIN getters |-> Expand(getters[i])]))

ItemsOf(getters) ==
    [i \in DOMAIN getters |-> [fragment |-> PathLen, response |-> getters[i].bytes]]

\* The device answers with a line for each address, of a structure for each that
\* it has, whether or not the package could make sense of its entry.
Lines(path) ==
    Picked(xml, {i \in DOMAIN xml :
        /\ xml[i].category \notin {"other", "page"}
        /\ path \in {Address(xml[i]), StructureAddress(xml[i])}
        /\ \A j \in 1 .. i - 1 : Address(xml[j]) # Address(xml[i])})

Reply(getters, chunk) == FlattenSeq([k \in DOMAIN chunk |-> Lines(getters[chunk[k]].path)])

BytesOf(entries) == Total([i \in DOMAIN entries |-> ResponseBytes(entries[i])])

\* A reply is cut off at a line boundary.
CutOff(entries) ==
    SubSeq(entries, 1, Max({n \in 0 .. Len(entries) : BytesOf(SubSeq(entries, 1, n)) <= DeviceResponse}))

\* The addresses the answers of a call have lines for.
Answered(getters) ==
    LET asked == Readable(getters)
    IN  UNION {{Address(e) : e \in ToSet(CutOff(Reply(asked, chunk)))} :
                   chunk \in ToSet(Pack(ItemsOf(asked)))}

\* parse: None for what is off or has not come.
Parsed(address, answered) ==
    IF address \in answered /\ address \notin off THEN version[address] ELSE Missing

\* parse_state of some units, from the answers to one call.
States(units, answered) ==
    [field \in UNION {[unit : {u}, name : Bound(u)] : u \in units} |->
        Parsed(Address(DriverApis[field.name]), answered)]

-----------------------------------------------------------------------------
Addresses == {Address(e) : e \in ToSet(Addressed(xml))}

Init ==
    /\ xml \in DataXmls
    /\ rest = xml
    /\ found = <<>>
    /\ connected = FALSE
    /\ off \in {s \in SUBSET Addresses : Cardinality(s) <= 1}
    /\ version = [a \in Addresses |-> 0]
    /\ shown = <<>>
    /\ outcome = "none"

\* match_api makes a descriptor of the entry.
Match ==
    /\ rest # <<>> /\ Matched(Head(rest))
    /\ found' = Append(found, Head(rest))
    /\ rest' = Tail(rest)
    /\ UNCHANGED <<xml, connected, off, version, shown, outcome>>

\* Mutated form of Skip: the descriptor is made of what there is.
SkipKept ==
    /\ rest # <<>> /\ ~Matched(Head(rest))
    /\ found' = Append(found, Head(rest))
    /\ rest' = Tail(rest)
    /\ UNCHANGED <<xml, connected, off, version, shown, outcome>>

\* match_api returns None: a malformed number, or a category it does not know.
Skip ==
    /\ rest # <<>> /\ ~Matched(Head(rest))
    /\ rest' = Tail(rest)
    /\ UNCHANGED <<xml, found, connected, off, version, shown, outcome>>

\* __init__ is over, and the units are there.
Connect ==
    /\ rest = <<>> /\ ~connected
    /\ connected' = TRUE
    /\ UNCHANGED <<xml, rest, found, off, version, shown, outcome>>

\* An api_call with these getters for these units.
ReadUnits(units, getters) ==
    /\ connected
    /\ IF TooLong(ItemsOf(Readable(getters)))
       THEN /\ outcome' = "RequestTooLongError"
            /\ UNCHANGED shown
       ELSE /\ outcome' = "read"
            /\ shown' = States(units, Answered(getters))
    /\ UNCHANGED <<xml, rest, found, connected, off, version>>

\* The update of one unit.
UpdateUnit(unit) == ReadUnits({unit}, Getters(unit))

\* Controller.update: the system, the rooms, the blinds and the devices.
OfKind(kind) == SetToSeq({u \in Units : u.kind = kind})
UnitsInOrder == OfKind("system") \o OfKind("room") \o OfKind("blind") \o OfKind("device")
AllGetters == FlattenSeq([i \in DOMAIN UnitsInOrder |-> Getters(UnitsInOrder[i])])

Update == ReadUnits(Units, AllGetters)

\* Controller.read of a variable by its name in apis, where a page has no address.
Read(n) ==
    /\ connected
    /\ LET entry == Apis[n]
       IN  IF entry.category = "page"
           THEN /\ outcome' = "IQtecError"
                /\ UNCHANGED shown
           ELSE IF TooLong(ItemsOf(<<Get(entry)>>))
           THEN /\ outcome' = "RequestTooLongError"
                /\ UNCHANGED shown
           ELSE /\ outcome' = "read"
                /\ shown' = [field \in {[unit |-> [kind |-> "apis", id |-> n.id], name |-> n]} |->
                                Parsed(Address(entry), Answered(<<Get(entry)>>))]
    /\ UNCHANGED <<xml, rest, found, connected, off, version>>

\* set_value of a unit, or of a device, whose switches are the writable ones.
SetValue(unit, n) ==
    /\ connected
    /\ \/ /\ n \notin Bound(unit) \/ (unit.kind = "device" /\ ~DriverApis[n].writable)
          /\ outcome' = "MissingVariableError"
          /\ UNCHANGED version
       \/ /\ n \in Bound(unit) /\ unit.kind # "device" /\ ~DriverApis[n].writable
          /\ outcome' = "ReadOnlyVariableError"
          /\ UNCHANGED version
       \/ /\ n \in Bound(unit) /\ DriverApis[n].writable
          /\ \A a \in Addresses : version[a] < MaxWrites
          /\ outcome' = "written"
          /\ version' = [version EXCEPT ![Address(DriverApis[n])] = @ + 1]
    /\ shown' = <<>>
    /\ UNCHANGED <<xml, rest, found, connected, off>>

Next ==
    \/ Match \/ Skip \/ Connect
    \/ Update
    \/ \E unit \in Units : UpdateUnit(unit)
    \/ \E n \in DOMAIN Apis : Read(n)
    \/ \E unit \in Units : \E n \in {m \in DOMAIN DriverApis : m.id = unit.id} : SetValue(unit, n)

Spec == Init /\ [][Next]_vars

-----------------------------------------------------------------------------
(***************************************************************************)
(* Properties                                                              *)
(***************************************************************************)
\* The entries of data.xml that are told apart and kept are the ones before
\* rest, and nothing is shown but versions.
TypeOK ==
    /\ xml \in DataXmls
    /\ found = Picked(xml, {i \in 1 .. Len(xml) - Len(rest) : Matched(xml[i])})
    /\ connected => rest = <<>>
    /\ version \in [Addresses -> 0 .. MaxWrites]
    /\ \A field \in DOMAIN shown : shown[field] \in (0 .. MaxWrites) \cup {Missing}

\* Where the variable of a name is, going by data.xml alone: the last entry counts.
Whereabouts(n, drivers) ==
    Address(xml[Max({i \in DOMAIN xml :
        /\ Name(xml[i]) = n /\ Matched(xml[i])
        /\ drivers => xml[i].category = "driver"})])

\* An entry that match_api skipped lies in a structure with others.
SkippedAmongOthers ==
    \E e \in ToSet(Addressed(xml)), f \in ToSet(found) :
        ~Matched(e) /\ e.category # "other" /\ StructureAddress(e) = StructureAddress(f)

\* Whatever a read gives, for one unit, for all of them or for one variable, is
\* what the device has at that variable: no field of another, none missing that
\* the device supplies, and none that was there before the last write, through
\* whichever of the overlapping units that went.  Only where a structure has entries
\* that match_api skipped, which _index_addresses does not count, may a reply be cut
\* off and variables be missing.
ShowsTheDevice ==
    \A field \in DOMAIN shown :
        LET place == Whereabouts(field.name, field.unit.kind # "apis")
        IN  \/ shown[field] = IF place \in off THEN Missing ELSE version[place]
            \/ shown[field] = Missing /\ SkippedAmongOthers

\* Every driver variable of data.xml can be reached through a unit: through the
\* device of its name, SYSTEM's too, unless the name is a room's or a blind's, which
\* take the variables they know.
EveryVariableHasAPlace ==
    connected =>
        \A e \in ToSet(xml) :
            (/\ e.sound /\ e.category = "driver"
             /\ e.id \in RoomIds => e.var \in RoomVars
             /\ e.id \in BlindIds => e.var \in BlindVars)
                => \E unit \in Units : unit.kind # "system" /\ Name(e) \in Bound(unit)

\* A house with a structure too long for one reply can still be read: the call
\* raises only where a single variable is too long.
RaisesOnlyForLongVariables ==
    outcome = "RequestTooLongError" =>
        \E e \in ToSet(found) : ~FitsAlone([fragment |-> PathLen, response |-> ResponseBytes(e)])
=============================================================================
