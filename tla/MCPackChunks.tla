---------------------------- MODULE MCPackChunks ----------------------------
(***************************************************************************)
(* Lists of at most MaxItems items.  The limits are small (8 bytes of      *)
(* request, 2 of them overhead, 6 of reply), the items straddle them: the  *)
(* longest fragment that still fits alone and the first that does not, the *)
(* largest reply that fits alone and the first that does not, and smaller  *)
(* ones that fill a budget exactly or pass it by one.                      *)
(***************************************************************************)
EXTENDS PackChunks

MCItemSizes ==
    { [fragment |-> 1, response |-> 1],
      [fragment |-> 2, response |-> 0],
      [fragment |-> 1, response |-> 3],
      [fragment |-> 2, response |-> 4],
      [fragment |-> 5, response |-> 2],
      [fragment |-> 1, response |-> 6],
      [fragment |-> 6, response |-> 1],
      [fragment |-> 1, response |-> 7] }
=============================================================================
