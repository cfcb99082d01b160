----------------------------- MODULE PackChunks -----------------------------
(***************************************************************************)
(* utils.pack_chunks run one loop iteration at a time, for any list of at  *)
(* most MaxItems items with sizes from ItemSizes.  Its names begin with    *)
(* Pack where ApiCall has the same one: the proofs of both are together.   *)
(***************************************************************************)
EXTENDS Packing, FiniteSets

CONSTANTS
    ItemSizes,      \* the items a list is made of
    MaxItems        \* bound on the length of a list (the code has none)

ASSUME ItemsAssumption ==
    /\ ItemSizes \subseteq Item
    /\ MaxItems \in Nat

VARIABLES
    items,      \* the argument
    position,   \* the item the next iteration takes
    packer,     \* chunks, current, current_request, current_response
    loop,       \* "looping", "returned" or "raised"
    result      \* the list of chunks returned

packVars == <<items, position, packer, loop, result>>

PackInit ==
    /\ items \in UNION {[1 .. n -> ItemSizes] : n \in 0 .. MaxItems}
    /\ position = 1
    /\ packer = EmptyPacker
    /\ loop = "looping"
    /\ result = <<>>

\* The iterator has another item.
Looping == loop = "looping" /\ position <= Len(items)

\* An iteration whose item cannot be requested on its own.
RaiseTooLong ==
    /\ Looping
    /\ ~FitsAlone(items[position])
    /\ loop' = "raised"
    /\ UNCHANGED <<items, position, packer, result>>

\* An iteration that goes through.
PlaceItem ==
    /\ Looping
    /\ FitsAlone(items[position])
    /\ packer' = Place(packer, items[position], position)
    /\ position' = position + 1
    /\ UNCHANGED <<items, loop, result>>

\* The iterator is exhausted: the last chunk is closed and the list returned.
ReturnChunks ==
    /\ loop = "looping"
    /\ position > Len(items)
    /\ loop' = "returned"
    /\ result' = Chunks(packer)
    /\ UNCHANGED <<items, position, packer>>

PackNext == RaiseTooLong \/ PlaceItem \/ ReturnChunks

PackSpec == PackInit /\ [][PackNext]_packVars

-----------------------------------------------------------------------------
Positions == 1 .. Len(items)

\* Type invariant: the locals of pack_chunks have the types they are declared with.
PackTypeOK ==
    /\ items \in Seq(ItemSizes)
    /\ position \in 1 .. Len(items) + 1
    /\ packer \in Packer(items)
    /\ loop \in {"looping", "returned", "raised"}
    /\ result \in Seq(Seq(Positions))

\* Every chunk returned keeps the request line under the one limit and the
\* reply within the other, counted on the wire: the limits whose excess the
\* firmware does not report (utils.py:22-24, constants MAX_REQUEST_BYTES and
\* MAX_RESPONSE_BYTES).
ChunksUnderBudgets ==
    \A k \in 1 .. Len(result) : Under(items, result[k])

\* No item is dropped, repeated or moved by the cutting into chunks: what was
\* asked for is what is sent, in the order asked (api_call relies on it for the
\* order of the writes of one request set).
NothingLostOrMoved ==
    loop = "returned" => CutsInOrder(result, Len(items))

\* RequestTooLongError is raised for a list with an item that cannot be asked
\* for alone, for no other list, and then not one chunk is handed out: the
\* caller never sends a part of a list that cannot be sent whole.
RaisesExactlyForUnsendable ==
    /\ loop = "raised" =>
        /\ result = <<>>
        /\ \E i \in Positions : ~Under(items, <<i>>)
    /\ loop = "returned" =>
        \A i \in Positions : Under(items, <<i>>)

\* No way to cut the list in its own order needs fewer requests: "as few
\* chunks as possible" (utils.py:20), for the order the caller gave.
FewestInOrder ==
    loop = "returned" =>
        \A cut \in Cuttings(items) :
            items # <<>> => Len(result) <= cut[Len(items)]
=============================================================================
