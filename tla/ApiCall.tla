------------------------------ MODULE ApiCall ------------------------------
(***************************************************************************)
(* Controller.api_call against the controller's HTTP interface.            *)
(*                                                                         *)
(* Several callers (threads of one process, or processes; nothing in the   *)
(* code excludes either) run request sets against one device.  A request   *)
(* set becomes chunks, reads first and writes after, one HTTP GET at a     *)
(* time.  A request may get lost, be answered, or outlive the timeout of   *)
(* the call that sent it and be carried out later.                         *)
(***************************************************************************)
EXTENDS Packing, SequencesExt

CONSTANTS
    Clients,        \* the callers
    Variables,      \* single variables: <prefix>/<structure>/<offset>
    Structures,     \* structure addresses: <prefix>/<structure>/
    Members,        \* _structure_members: the variables data.xml lists, in order
    Answered,       \* structure -> the variables it is answered with, in order
    Unstated,       \* a Get's expected_bytes when the caller states none
    Values,         \* values a variable may have
    Unencodable,    \* those the controller's encoding cannot represent
    PathLen,        \* len(path)
    ValueBytes,     \* VALUE_MAX_BYTES of a variable's one type, or the default
    ValueLen,       \* len(value)
    EncodedLen,     \* len of the value after quote()
    InitialStore,   \* what the variables hold at first
    DeviceRequest,  \* the firmware's own limit on path and query
    DeviceResponse, \* and on the reply
    Requests,       \* caller -> the request sets it makes
    MaxCalls        \* caller -> bound on its calls (the code has none)

Paths == Variables \cup Structures
Setter == [path : Variables, value : Values]
Getter == [path : Paths, expected_bytes : Nat \cup {Unstated}]
RequestSet == [getters : Seq(Getter), setters : Seq(Setter)]

AllRequests == UNION {Requests[c] : c \in Clients}

ASSUME ControllerAssumption ==
    /\ Variables \cap Structures = {}
    /\ Members \in [Structures -> Seq(Variables)]
    /\ Unstated \notin Nat
    /\ Unencodable \subseteq Values
    /\ PathLen \in [Paths -> Nat]
    /\ ValueBytes \in [Variables -> Nat]
    /\ ValueLen \in [Values -> Nat]
    /\ EncodedLen \in [Values -> Nat]
    /\ InitialStore \in [Variables -> Values]
    /\ Requests \in [Clients -> SUBSET RequestSet]
    /\ MaxCalls \in [Clients -> Nat]

\* The package's budgets keep clear of the firmware's limits.
ASSUME MarginAssumption ==
    /\ DeviceRequest \in Nat /\ MaxRequest <= DeviceRequest
    /\ DeviceResponse \in Nat /\ MaxResponse <= DeviceResponse

\* A structure is answered with a line for each of its variables: what data.xml
\* lists of it, however often, and what match_api skipped there.
ASSUME AnsweredAssumption ==
    /\ Answered \in [Structures -> Seq(Variables)]
    /\ \A s \in Structures :
          /\ ToSet(Members[s]) \subseteq ToSet(Answered[s])
          /\ \A i, j \in DOMAIN Answered[s] : Answered[s][i] = Answered[s][j] => i = j

VARIABLES
    store,      \* the device: variable -> value
    calls,      \* caller -> its calls so far, with the request set and the outcome
    phase,      \* caller -> "idle", "reading" or "writing"
    queue,      \* caller -> chunks of the present loop not yet answered
    waiting,    \* caller -> is it blocked in session.get
    reply,      \* caller -> <<lines>> of the answer on its way, or NoReply
    responses,  \* caller -> the dict api_call builds up
    network,    \* HTTP requests sent and not yet dealt with by the device
    log,        \* history: the writes applied, in order
    seen        \* history: caller -> what the store was while it was reading

client == <<calls, phase, queue, waiting, responses>>
vars == <<store, calls, phase, queue, waiting, reply, responses, network, log, seen>>

NoReply == <<>>

-----------------------------------------------------------------------------
(***************************************************************************)
(* The requests                                                            *)
(***************************************************************************)
\* API.response_bytes: a line "<address>=<value>\n" at its longest.
ResponseBytes(variable) == PathLen[variable] + ValueBytes[variable] + 2

\* API.get_request: a variable on its own, with the size of its line.
Get(variable) == [path |-> variable, expected_bytes |-> ResponseBytes(variable)]

\* Mutated form of StructureBytes: each entry's bytes replace those before.
StructureBytesLast(structure) ==
    IF Members[structure] = <<>>
    THEN MaxResponse
    ELSE ResponseBytes(Last(Members[structure]))

\* _structure_bytes; a structure data.xml does not list is taken to fill a reply.
StructureBytes(structure) ==
    IF Members[structure] = <<>>
    THEN MaxResponse
    ELSE Total([i \in DOMAIN Members[structure] |-> ResponseBytes(Members[structure][i])])

\* _expected_bytes: what the caller states goes before what data.xml says.
ExpectedBytes(getter) ==
    IF getter.expected_bytes # Unstated THEN getter.expected_bytes
    ELSE IF getter.path \in Structures THEN StructureBytes(getter.path)
    ELSE ResponseBytes(getter.path)

\* A structure that would overflow the reply is read variable by variable, unless
\* the caller states its size.
Expand(getter) ==
    IF /\ getter.path \in Structures
       /\ getter.expected_bytes = Unstated
       /\ ExpectedBytes(getter) > MaxResponse
    THEN [i \in DOMAIN Members[getter.path] |-> Get(Members[getter.path][i])]
    ELSE <<getter>>

Readable(getters) == FlattenSeq([i \in DOMAIN getters |-> Expand(getters[i])])

\* The "seen" filter: the first of the getters of a path stays.
Distinct(getters) ==
    LET kept[i \in 0 .. Len(getters)] ==
            IF i = 0 THEN <<>>
            ELSE IF \E getter \in ToSet(kept[i - 1]) : getter.path = getters[i].path
            THEN kept[i - 1]
            ELSE Append(kept[i - 1], getters[i])
    IN  kept[Len(getters)]

Reads(request) == Distinct(Readable(request.getters))

ReadItems(request) ==
    LET reads == Reads(request)
    IN  [i \in DOMAIN reads |->
            [fragment |-> PathLen[reads[i].path], response |-> ExpectedBytes(reads[i])]]

\* _setter_fragment: "path=value" encoded, and the echo of the decoded value.
WriteItems(request) ==
    [i \in DOMAIN request.setters |->
        LET setter == request.setters[i]
        IN  [fragment |-> PathLen[setter.path] + 1 + EncodedLen[setter.value],
             response |-> PathLen[setter.path] + ValueLen[setter.value] + 2]]

Encodable(request) ==
    \A i \in DOMAIN request.setters : request.setters[i].value \notin Unencodable

\* What api_call makes of each request set: the requests of its two loops, as
\* positions in the list of reads or of setters, and whether there are any.
Plan ==
    [request \in AllRequests |->
        [reads |-> Reads(request),
         read_items |-> ReadItems(request),
         write_items |-> WriteItems(request),
         read_chunks |-> Pack(ReadItems(request)),
         write_chunks |-> Pack(WriteItems(request)),
         encodable |-> Encodable(request),
         reads_too_long |-> TooLong(ReadItems(request)),
         writes_too_long |-> TooLong(WriteItems(request))]]

-----------------------------------------------------------------------------
(***************************************************************************)
(* The device                                                              *)
(***************************************************************************)
\* A reply line per variable: a structure is answered with all its variables,
\* those this package knows nothing of too.
Lines(path, values) ==
    LET variables == IF path \in Structures THEN Answered[path] ELSE <<path>>
    IN  [i \in DOMAIN variables |->
            [path |-> variables[i], value |-> values[variables[i]]]]

LineBytes(line) == PathLen[line.path] + ValueLen[line.value] + 2

\* The reply is cut off at a line boundary, and nothing says so.
CutOff(lines) ==
    LET bytes == [i \in DOMAIN lines |-> LineBytes(lines[i])]
        Fits(n) == Total(SubSeq(bytes, 1, n)) <= DeviceResponse
    IN  SubSeq(lines, 1, Max({n \in 0 .. Len(lines) : Fits(n)}))

\* Where a list of setters or lines has a variable.
At(list, variable) == {i \in DOMAIN list : list[i].path = variable}

\* The setters of a chunk, carried out in the order they stand in: the last one
\* for a variable is what it keeps.
Written(values, setters) ==
    [v \in DOMAIN values |->
        IF At(setters, v) = {} THEN values[v] ELSE setters[Max(At(setters, v))].value]

Items(message) ==
    IF message.phase = "reading" THEN Plan[message.request].read_items
                                 ELSE Plan[message.request].write_items

\* A request line over the limit is dropped by the firmware.
Accepted(message) == RequestBytes(Items(message), message.chunk) <= DeviceRequest

Pick(list, chunk) == [k \in DOMAIN chunk |-> list[chunk[k]]]

ReplyLines(message) ==
    IF message.phase = "reading"
    THEN LET reads == Pick(Plan[message.request].reads, message.chunk)
         IN  FlattenSeq([k \in DOMAIN reads |-> Lines(reads[k].path, store)])
    ELSE Pick(message.request.setters, message.chunk)

-----------------------------------------------------------------------------
Init ==
    /\ store = InitialStore
    /\ calls = [c \in Clients |-> <<>>]
    /\ phase = [c \in Clients |-> "idle"]
    /\ queue = [c \in Clients |-> <<>>]
    /\ waiting = [c \in Clients |-> FALSE]
    /\ reply = [c \in Clients |-> NoReply]
    /\ responses = [c \in Clients |-> <<>>]
    /\ network = {}
    /\ log = <<>>
    /\ seen = [c \in Clients |-> {}]

\* The present call of a caller is the last of its calls.
Ended(c, outcome) ==
    /\ calls' = [calls EXCEPT ![c][Len(calls[c])].outcome = outcome]
    /\ phase' = [phase EXCEPT ![c] = "idle"]
    /\ queue' = [queue EXCEPT ![c] = <<>>]

Opened(c, r, outcome) ==
    /\ phase[c] = "idle"
    /\ Len(calls[c]) < MaxCalls[c]
    /\ calls' = [calls EXCEPT ![c] = Append(@, [request |-> r, outcome |-> outcome])]
    /\ responses' = [responses EXCEPT ![c] = <<>>]
    /\ seen' = [seen EXCEPT ![c] = {store}]
    /\ UNCHANGED <<store, waiting, reply, network, log>>

\* api_call up to the first request: every setter is encoded and the reads are
\* packed before anything is sent.
Begin(c, r) ==
    /\ Plan[r].encodable
    /\ ~Plan[r].reads_too_long
    /\ Opened(c, r, "open")
    /\ phase' = [phase EXCEPT ![c] = "reading"]
    /\ queue' = [queue EXCEPT ![c] = Plan[r].read_chunks]

\* InvalidValueError from _encode.
BeginInvalid(c, r) ==
    /\ ~Plan[r].encodable
    /\ Opened(c, r, "invalid")
    /\ UNCHANGED <<phase, queue>>

\* RequestTooLongError from the reads.
BeginTooLong(c, r) ==
    /\ Plan[r].encodable
    /\ Plan[r].reads_too_long
    /\ Opened(c, r, "too_long")
    /\ UNCHANGED <<phase, queue>>

\* The HTTP request a caller has out, or would have out.
Message(c) ==
    [client |-> c, call |-> Len(calls[c]), phase |-> phase[c],
     request |-> calls[c][Len(calls[c])].request, chunk |-> Head(queue[c])]

\* _call_chunk -> session.get
Send(c) ==
    /\ phase[c] # "idle"
    /\ ~waiting[c]
    /\ queue[c] # <<>>
    /\ network' = network \cup {Message(c)}
    /\ waiting' = [waiting EXCEPT ![c] = TRUE]
    /\ UNCHANGED <<store, calls, phase, queue, reply, responses, log, seen>>

\* The caller that sent the request still waits for the answer to it.
Awaited(message) ==
    /\ waiting[message.client]
    /\ message = Message(message.client)

\* What the callers that are reading may have seen.
Observe ==
    seen' = [c \in Clients |->
                IF phase[c] = "reading" THEN seen[c] \cup {store'} ELSE seen[c]]

\* The device carries a request out, in one go and at any time after it was
\* sent; the answer goes to a caller that waits for it, or nowhere.
Serve(message) ==
    /\ Accepted(message)
    /\ network' = network \ {message}
    /\ IF message.phase = "writing"
       THEN /\ store' = Written(store, Pick(message.request.setters, message.chunk))
            /\ log' = log \o [k \in DOMAIN message.chunk |->
                                [client |-> message.client, call |-> message.call,
                                 index |-> message.chunk[k]]]
       ELSE UNCHANGED <<store, log>>
    /\ reply' = IF Awaited(message)
                THEN [reply EXCEPT ![message.client] = <<CutOff(ReplyLines(message))>>]
                ELSE reply
    /\ Observe
    /\ UNCHANGED client

\* A request that never reaches the device, or that the firmware drops.
Lose(message) ==
    /\ network' = network \ {message}
    /\ UNCHANGED <<store, reply, log, seen>>
    /\ UNCHANGED client

\* Mutated form of Merge: the first line for a path stays.
MergeFirst(dict, lines) ==
    [v \in DOMAIN dict \cup {line.path : line \in ToSet(lines)} |->
        IF v \in DOMAIN dict THEN dict[v] ELSE lines[Min(At(lines, v))].value]

\* responses.update(parse_responses(...)): a later line replaces an earlier one.
Merge(dict, lines) ==
    [v \in DOMAIN dict \cup {line.path : line \in ToSet(lines)} |->
        IF At(lines, v) = {} THEN dict[v] ELSE lines[Max(At(lines, v))].value]

\* session.get returns and the loop goes on to the next chunk.
Receive(c) ==
    /\ waiting[c]
    /\ reply[c] # NoReply
    /\ responses' = [responses EXCEPT ![c] = Merge(@, reply[c][1])]
    /\ queue' = [queue EXCEPT ![c] = Tail(@)]
    /\ waiting' = [waiting EXCEPT ![c] = FALSE]
    /\ reply' = [reply EXCEPT ![c] = NoReply]
    /\ UNCHANGED <<store, calls, phase, network, log, seen>>

\* Mutated form of GiveUp: the chunk is sent again.
GiveUpRetries(c) ==
    /\ waiting[c]
    /\ waiting' = [waiting EXCEPT ![c] = FALSE]
    /\ reply' = [reply EXCEPT ![c] = NoReply]
    /\ UNCHANGED <<store, calls, phase, queue, responses, network, log, seen>>

\* Mutated form of GiveUp: the connection is used again with the answer unread.
GiveUpKeepsConnection(c) ==
    /\ waiting[c]
    /\ Ended(c, "connection")
    /\ waiting' = [waiting EXCEPT ![c] = FALSE]
    /\ UNCHANGED <<store, reply, responses, network, log, seen>>

\* Mutated form of GiveUp: the caller stays blocked.
GiveUpStillWaiting(c) ==
    /\ waiting[c]
    /\ Ended(c, "connection")
    /\ UNCHANGED <<store, waiting, reply, responses, network, log, seen>>

\* Mutated form of GiveUp: no timeout, only an answer other than 200 ends it.
GiveUpOnAnswer(c) ==
    /\ waiting[c]
    /\ reply[c] # NoReply
    /\ Ended(c, "connection")
    /\ waiting' = [waiting EXCEPT ![c] = FALSE]
    /\ reply' = [reply EXCEPT ![c] = NoReply]
    /\ UNCHANGED <<store, responses, network, log, seen>>

\* session.get raises, or the status is not 200: IQtecConnectionError ends the
\* call.  The request may still be on its way.
GiveUp(c) ==
    /\ waiting[c]
    /\ Ended(c, "connection")
    /\ waiting' = [waiting EXCEPT ![c] = FALSE]
    /\ reply' = [reply EXCEPT ![c] = NoReply]
    /\ UNCHANGED <<store, responses, network, log, seen>>

\* Mutated form of StartWrites: the writes are sent as far as they go.
StartWritesUnchecked(c) ==
    /\ phase[c] = "reading"
    /\ queue[c] = <<>>
    /\ queue' = [queue EXCEPT ![c] =
                    Plan[calls[c][Len(calls[c])].request].write_chunks]
    /\ phase' = [phase EXCEPT ![c] = "writing"]
    /\ UNCHANGED <<store, calls, waiting, reply, responses, network, log, seen>>

\* The first loop is done: the writes are packed, all of them before one is sent.
StartWrites(c) ==
    /\ phase[c] = "reading"
    /\ queue[c] = <<>>
    /\ LET request == calls[c][Len(calls[c])].request
       IN  /\ ~Plan[request].writes_too_long
           /\ queue' = [queue EXCEPT ![c] = Plan[request].write_chunks]
    /\ phase' = [phase EXCEPT ![c] = "writing"]
    /\ UNCHANGED <<store, calls, waiting, reply, responses, network, log, seen>>

\* RequestTooLongError from the writes, after the reads went out.
RejectWrites(c) ==
    /\ phase[c] = "reading"
    /\ queue[c] = <<>>
    /\ Plan[calls[c][Len(calls[c])].request].writes_too_long
    /\ Ended(c, "too_long")
    /\ UNCHANGED <<store, waiting, reply, responses, network, log, seen>>

\* return responses
Return(c) ==
    /\ phase[c] = "writing"
    /\ queue[c] = <<>>
    /\ Ended(c, "ok")
    /\ UNCHANGED <<store, waiting, reply, responses, network, log, seen>>

\* What a caller does without being told to once it has begun a call.
Proceed(c) ==
    \/ Send(c)
    \/ Receive(c)
    \/ GiveUp(c)
    \/ StartWrites(c)
    \/ RejectWrites(c)
    \/ Return(c)

Next ==
    \/ \E c \in Clients : \E r \in Requests[c] :
          Begin(c, r) \/ BeginInvalid(c, r) \/ BeginTooLong(c, r)
    \/ \E c \in Clients : Proceed(c)
    \/ \E message \in network : Serve(message) \/ Lose(message)

\* A caller in api_call keeps executing, and session.get does not block beyond
\* its timeout: it returns or raises.  Nothing is assumed of the device.
Fairness == \A c \in Clients : WF_vars(Proceed(c))

Spec == Init /\ [][Next]_vars /\ Fairness

-----------------------------------------------------------------------------
Outcomes == {"open", "ok", "connection", "invalid", "too_long"}
Line == [path : Variables, value : Values]
CallNumbers == UNION {1 .. MaxCalls[c] : c \in Clients}
Chunk == Seq(Nat \ {0})
Messages == [client : Clients, call : CallNumbers, phase : {"reading", "writing"},
             request : AllRequests, chunk : Chunk]

\* Type invariant.  A caller that waits is in a call with a chunk to wait for.
TypeOK ==
    /\ store \in [Variables -> Values]
    /\ calls \in [Clients -> Seq([request : AllRequests, outcome : Outcomes])]
    /\ phase \in [Clients -> {"idle", "reading", "writing"}]
    /\ queue \in [Clients -> Seq(Chunk)]
    /\ waiting \in [Clients -> BOOLEAN]
    /\ \A c \in Clients : waiting[c] => queue[c] # <<>>
    /\ reply \in [Clients -> Seq(Seq(Line))]
    /\ \A c \in Clients : \A v \in DOMAIN responses[c] :
          v \in Variables /\ responses[c][v] \in Values
    /\ \A message \in network : message \in Messages
    /\ log \in Seq([client : Clients, call : CallNumbers, index : Nat \ {0}])
    /\ seen \in [Clients -> SUBSET [Variables -> Values]]

\* The writes of call n of caller c that the device has carried out.
Applied(c, n) ==
    {log[i].index : i \in {k \in DOMAIN log : log[k].client = c /\ log[k].call = n}}

\* Of a request set with a value that cannot be encoded, or with a read or a
\* write that cannot be sent on its own, nothing is ever written: it is turned
\* down as a whole, not half-way (controller.py:229-240).
UnsendableWritesNothing ==
    \A i \in DOMAIN log :
        LET request == calls[log[i].client][log[i].call].request
        IN  /\ Plan[request].encodable
            /\ ~Plan[request].reads_too_long
            /\ ~Plan[request].writes_too_long

\* Setters that fit one request together take effect together: no reader and no
\* failure finds some of them done ("a single request, so the controller never
\* observes a half-set state", unit/room.py).
WritesOfOneRequestAreAtomic ==
    \A c \in Clients : \A n \in DOMAIN calls[c] :
        LET request == calls[c][n].request
            all == [i \in DOMAIN request.setters |-> i]
        IN  (request.setters # <<>> /\ Under(Plan[request].write_items, all)) =>
                Applied(c, n) \in {{}, DOMAIN request.setters}

LastCall(c) == calls[c][Len(calls[c])]
HasReturned(c) == calls[c] # <<>> /\ LastCall(c).outcome = "ok"

VariablesOf(path) ==
    IF path \in Structures THEN ToSet(Answered[path]) ELSE {path}

ReadBy(request) ==
    UNION {VariablesOf(getter.path) : getter \in ToSet(request.getters)}

WrittenBy(request) == {setter.path : setter \in ToSet(request.setters)}

AnswerBytes(path, values) ==
    LET lines == Lines(path, values)
    IN  Total([i \in DOMAIN lines |-> LineBytes(lines[i])])

\* The answer to a getter is no longer than the controller or its caller can have
\* reckoned with, if the variables have these values: the size the caller states
\* holds; or no value is longer than its type allows and, of a structure, data.xml
\* has no entry that match_api skips.
Foreseen(getter, values) ==
    IF getter.expected_bytes # Unstated
    THEN AnswerBytes(getter.path, values) <= getter.expected_bytes
    ELSE /\ getter.path \in Structures =>
                ToSet(Answered[getter.path]) \subseteq ToSet(Members[getter.path])
         /\ \A v \in VariablesOf(getter.path) : ValueLen[values[v]] <= ValueBytes[v]

AllForeseen(request, looks) ==
    \A getter \in ToSet(request.getters) : \A values \in looks : Foreseen(getter, values)

\* Every variable a returned call wrote is in its answer, and every variable it
\* asked for too, unless one of its answers was longer than could be foreseen: no
\* reply is cut off, which the firmware would not say (README.md:126,
\* utils.py:22-24), by what is packed into one request with it.
AnswersComplete ==
    \A c \in Clients :
        HasReturned(c) =>
            /\ WrittenBy(LastCall(c).request) \subseteq DOMAIN responses[c]
            /\ AllForeseen(LastCall(c).request, seen[c]) =>
                ReadBy(LastCall(c).request) \subseteq DOMAIN responses[c]

\* A value a call answers for a variable it read and did not write is one the
\* variable had while that call was reading, and not one of a late answer to an
\* earlier call (controller.py:235-236, 171-173).
ReadsAreFromTheCall ==
    \A c \in Clients :
        HasReturned(c) =>
            \A v \in (ReadBy(LastCall(c).request) \ WrittenBy(LastCall(c).request))
                        \cap DOMAIN responses[c] :
                responses[c][v] \in {s[v] : s \in seen[c]}

\* Variables that fit one request are read together: the answer is what they
\* were at one moment of the call, whoever else was writing ("a unit maps onto a
\* single structure, which can be read in one go", unit/base.py:51).
ReadsOfOneRequestAreASnapshot ==
    \A c \in Clients :
        (HasReturned(c) /\ LastCall(c).request.setters = <<>>) =>
            LET items == Plan[LastCall(c).request].read_items
                all == [i \in DOMAIN items |-> i]
            IN  (items # <<>> /\ Under(items, all)) =>
                    \E s \in seen[c] :
                        \A v \in DOMAIN responses[c] : responses[c][v] = s[v]

\* Of a variable read and written in one set, or written twice, the answer holds
\* what was written last.
AnswerHoldsLastWrite ==
    \A c \in Clients :
        HasReturned(c) =>
            LET setters == LastCall(c).request.setters
            IN  \A i \in DOMAIN setters :
                    (\A j \in DOMAIN setters : j > i => setters[j].path # setters[i].path)
                        => responses[c][setters[i].path] = setters[i].value

\* A call comes back, whatever becomes of its requests.
CallReturns == \A c \in Clients : phase[c] # "idle" ~> phase[c] = "idle"

-----------------------------------------------------------------------------
Ends(request) ==
    [k \in DOMAIN Plan[request].write_chunks |-> Last(Plan[request].write_chunks[k])]

\* The calls of a caller as the contract has them: the requests are left out.
Shown(list) ==
    [n \in DOMAIN list |-> [ends |-> Ends(list[n].request), outcome |-> list[n].outcome]]

ShownCalls == [c \in Clients |-> Shown(calls[c])]

\* The writes on their way whose call has ended.
Stragglers ==
    {m \in network : m.phase = "writing" /\ calls[m.client][m.call].outcome # "open"}

Adrift == {<<m.client, m.call>> : m \in Stragglers}

\* What a caller is promised: ApiContract, of which this is an implementation.
Contract == INSTANCE ApiContract WITH
    Cuts <- {Ends(request) : request \in AllRequests},
    calls <- ShownCalls,
    adrift <- Adrift

\* Each setter of a set is carried out once and in its order, whatever is lost, late
\* or overtaken (controller.py:236-241: one chunk after the other, the next only
\* after an answer, no retry); all of them if the call returns; and a write that
\* takes effect after its call has ended is of a call reported as failed, so that
\* nothing a caller was told is done undoes what it did afterwards.
ImplementsContract == Contract!Spec
=============================================================================
