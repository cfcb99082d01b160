----------------------------- MODULE MCApiCall -----------------------------
(***************************************************************************)
(* Two callers, three structures.  Structure S has the variables a and b   *)
(* and data.xml lists a twice, so its reply is over the budget and it is   *)
(* read variable by variable, unless a size is stated; T has d alone and   *)
(* is read as a whole; U has d and, before it, an entry that is skipped.   *)
(* The reply to big alone is over the budget.  v1 is a short value, v2 as  *)
(* long as the type allows, so that two of them pass the reply limit.      *)
(***************************************************************************)
EXTENDS ApiCall

MCMembers == [s \in Structures |-> IF s = "S" THEN <<"a", "b", "a">> ELSE <<"d">>]
MCAnswered ==
    [s \in Structures |->
        CASE s = "S" -> <<"a", "b">>
          [] s = "T" -> <<"d">>
          [] s = "U" -> <<"skipped", "d">>]
MCPathLen == [p \in Paths |-> IF p \in Structures THEN 1 ELSE 2]
MCValueBytes == [v \in Variables |-> IF v = "big" THEN 12 ELSE 3]
MCValueLen == [v \in Values |-> IF v = "v2" THEN 3 ELSE 1]
MCEncodedLen == [v \in Values |-> IF v = "v2" THEN 3 ELSE IF v = "long" THEN 9 ELSE 1]
MCInitialStore == [v \in Variables |-> IF v = "b" THEN "v2" ELSE "v0"]

\* c1 may call again while a request of its first call is still on its way.
MCMaxCalls == [c \in Clients |-> IF c = "c1" THEN 2 ELSE 1]
MCOneCall == [c \in Clients |-> 1]

Set(path, value) == [path |-> path, value |-> value]
Read(path) == [path |-> path, expected_bytes |-> Unstated]
ReadAs(path, bytes) == [path |-> path, expected_bytes |-> bytes]

\* The state of the house: a structure to be split, one read whole, and a
\* variable asked for twice.
ReadAll == [getters |-> <<Read("S"), Read("T"), Read("a")>>, setters |-> <<>>]
\* Two requests' worth of writes, with one variable written twice.
WriteMany == [getters |-> <<>>,
              setters |-> <<Set("a", "v2"), Set("b", "v1"), Set("a", "v1")>>]
\* Reads, and two writes that fit one request.
ReadWrite == [getters |-> <<Read("T"), Read("a")>>,
              setters |-> <<Set("a", "v1"), Set("d", "v1")>>]
\* A value outside the code page, after one that is fine.
WriteInvalid == [getters |-> <<>>, setters |-> <<Set("a", "v1"), Set("d", "bad")>>]
\* A value too long to be sent, after one that is fine, and a read before both.
WriteLong == [getters |-> <<Read("d")>>, setters |-> <<Set("b", "v1"), Set("d", "long")>>]
\* A variable too long to be read.
ReadLong == [getters |-> <<Read("d"), Read("big")>>, setters |-> <<Set("a", "v1")>>]

\* Two variables whose replies fit one request.
ReadTwo == [getters |-> <<Read("b"), Read("a")>>, setters |-> <<>>]

\* A structure with a size of the caller's own that holds, and one with a size
\* that does not; a structure with an entry its size leaves out.
ReadSized == [getters |-> <<ReadAs("S", 14), Read("d")>>, setters |-> <<>>]
ReadShort == [getters |-> <<ReadAs("S", 5), Read("d")>>, setters |-> <<>>]
ReadSkipped == [getters |-> <<Read("U"), Read("b")>>, setters |-> <<>>]

MCRequests ==
    [c \in Clients |->
        IF c = "c1"
        THEN {ReadAll, WriteMany, ReadWrite, WriteInvalid, WriteLong, ReadLong,
              ReadSized, ReadShort, ReadSkipped}
        ELSE {ReadTwo, WriteMany}]
=============================================================================
