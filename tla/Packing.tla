------------------------------ MODULE Packing ------------------------------
(***************************************************************************)
(* The packing rule of utils.pack_chunks: request fragments are grouped    *)
(* into chunks, each of which becomes one HTTP GET.  The firmware drops a  *)
(* request line that is too long and cuts off a reply that is too long,    *)
(* both without an error, so every chunk is kept under two budgets.        *)
(*                                                                         *)
(* This module has no variables.  PackChunks runs the rule one iteration   *)
(* at a time, ApiCall uses the whole of it as the operator Pack.           *)
(***************************************************************************)
EXTENDS Naturals, Sequences

CONSTANTS
    MaxRequest,     \* max_request_bytes: bytes of the path and query
    MaxResponse,    \* max_response_bytes: bytes of the reply body
    Overhead        \* overhead: bytes of the path before the first fragment

ASSUME BudgetAssumption ==
    /\ MaxRequest \in Nat
    /\ MaxResponse \in Nat
    /\ Overhead \in Nat

\* One (fragment, expected_response_bytes) pair: only the lengths matter here.
Item == [fragment : Nat, response : Nat]

(***************************************************************************)
(* The locals of the loop.  A chunk is the sequence of the positions of    *)
(* its items, so that a lost, repeated or reordered item can be told.      *)
(***************************************************************************)
Packer(items) ==
    [chunks : Seq(Seq(1 .. Len(items))), current : Seq(1 .. Len(items)),
     current_request : Nat, current_response : Nat]

EmptyPacker ==
    [chunks |-> <<>>, current |-> <<>>,
     current_request |-> Overhead, current_response |-> 0]

\* fragment_request: the fragment and the ";" that joins it.
FragmentRequest(item) == item.fragment + 1

\* Mutated form of FitsAlone: the overhead is forgotten.
FitsAloneNoOverhead(item) ==
    /\ FragmentRequest(item) <= MaxRequest
    /\ item.response <= MaxResponse

\* The negation of the test that raises RequestTooLongError.
FitsAlone(item) ==
    /\ FragmentRequest(item) + Overhead <= MaxRequest
    /\ item.response <= MaxResponse

\* Mutated form of HasRoom: the reply is not budgeted.
HasRoomByRequest(packer, item) ==
    packer.current_request + FragmentRequest(item) <= MaxRequest

\* Mutated form of HasRoom: off by one at both limits.
HasRoomStrict(packer, item) ==
    /\ packer.current_request + FragmentRequest(item) < MaxRequest
    /\ packer.current_response + item.response < MaxResponse

\* ~(too_long \/ too_big)
HasRoom(packer, item) ==
    /\ packer.current_request + FragmentRequest(item) <= MaxRequest
    /\ packer.current_response + item.response <= MaxResponse

\* chunks.append(";".join(current)) and the three resets.
Flush(packer) ==
    [chunks |-> Append(packer.chunks, packer.current), current |-> <<>>,
     current_request |-> Overhead, current_response |-> 0]

\* Mutated form of Place: positions counted from 0.
PlaceFromZero(packer, item, position) ==
    LET open == IF packer.current # <<>> /\ ~HasRoom(packer, item)
                THEN Flush(packer)
                ELSE packer
    IN  [open EXCEPT !.current = Append(@, position - 1),
                     !.current_request = @ + FragmentRequest(item),
                     !.current_response = @ + item.response]

\* What one iteration leaves behind once the item is known to fit alone.
Place(packer, item, position) ==
    LET open == IF packer.current # <<>> /\ ~HasRoom(packer, item)
                THEN Flush(packer)
                ELSE packer
    IN  [open EXCEPT !.current = Append(@, position),
                     !.current_request = @ + FragmentRequest(item),
                     !.current_response = @ + item.response]

\* Mutated form of Chunks: the open chunk is not closed at the end.
ChunksClosedOnly(packer) == packer.chunks

\* The list the function returns when the items run out.
Chunks(packer) ==
    IF packer.current # <<>>
    THEN Append(packer.chunks, packer.current)
    ELSE packer.chunks

\* RequestTooLongError is raised for the first item that does not fit alone.
TooLong(items) == \E i \in 1 .. Len(items) : ~FitsAlone(items[i])

\* The whole call, for items of which none is too long.
Pack(items) ==
    LET packer[i \in 0 .. Len(items)] ==
            IF i = 0 THEN EmptyPacker ELSE Place(packer[i - 1], items[i], i)
    IN  Chunks(packer[Len(items)])

-----------------------------------------------------------------------------
(***************************************************************************)
(* What goes over the wire for a chunk, computed from the items and not    *)
(* from the packer's own running totals.                                   *)
(***************************************************************************)
Total(sizes) ==
    LET sum[k \in 0 .. Len(sizes)] ==
            IF k = 0 THEN 0 ELSE sum[k - 1] + sizes[k]
    IN  sum[Len(sizes)]

Fragments(items, chunk) == [k \in 1 .. Len(chunk) |-> items[chunk[k]].fragment]
Responses(items, chunk) == [k \in 1 .. Len(chunk) |-> items[chunk[k]].response]

\* Path and query of the request: the fragments and the ";" between them.
RequestBytes(items, chunk) ==
    Overhead + Total(Fragments(items, chunk)) + (Len(chunk) - 1)

ReplyBytes(items, chunk) == Total(Responses(items, chunk))

\* "Every chunk is kept under both": strictly under the request limit, since
\* the ";" of the last fragment is charged as well.
Under(items, chunk) ==
    /\ RequestBytes(items, chunk) < MaxRequest
    /\ ReplyBytes(items, chunk) <= MaxResponse

\* chunks holds the positions from 1 to last, each once and in order, and no
\* chunk is empty (an empty chunk would be a request for nothing).
CutsInOrder(chunks, last) ==
    /\ \A k \in 1 .. Len(chunks) :
        /\ chunks[k] # <<>>
        /\ \A j \in 1 .. Len(chunks[k]) :
            chunks[k][j] =
                IF j > 1 THEN chunks[k][j - 1] + 1
                ELSE IF k > 1 THEN chunks[k - 1][Len(chunks[k - 1])] + 1
                ELSE 1
    /\ IF chunks = <<>>
       THEN last = 0
       ELSE chunks[Len(chunks)][Len(chunks[Len(chunks)])] = last

\* A way to cut the list into consecutive chunks: the chunk each item is in.
\* Two items in the same chunk have everything between them in it too.
Cuttings(items) ==
    {cut \in [1 .. Len(items) -> 1 .. Len(items)] :
        /\ \A i, j \in 1 .. Len(items) : i < j => cut[i] <= cut[j]
        /\ \A i, j \in 1 .. Len(items) :
            (i <= j /\ cut[i] = cut[j]) =>
                Under(items, [k \in 1 .. j - i + 1 |-> i + k - 1])}
=============================================================================
