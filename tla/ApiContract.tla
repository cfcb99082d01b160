---------------------------- MODULE ApiContract ----------------------------
(***************************************************************************)
(* What a caller of Controller.api_call may rely on for its writes, with   *)
(* the requests and the answers left out.  The setters of a call are cut   *)
(* into runs when it begins, and the runs take effect in order and whole:  *)
(* all of them if the call returns, some first ones if the connection      *)
(* failed, none if the set was turned down.  When the connection failed,   *)
(* the next run may still follow after the call has ended.                 *)
(***************************************************************************)
EXTENDS Naturals, Sequences

CONSTANTS
    Clients,    \* the callers
    Cuts        \* how setters may be cut: the positions where a run ends, in order

VARIABLES
    calls,      \* caller -> its calls: where its runs end, and the outcome
    log,        \* the setters that took effect, by caller, call and index
    adrift      \* calls that ended with a run of writes still to come, or not

vars == <<calls, log, adrift>>

Init ==
    /\ calls = [c \in Clients |-> <<>>]
    /\ log = <<>>
    /\ adrift = {}

IsOpen(c) == calls[c] # <<>> /\ calls[c][Len(calls[c])].outcome = "open"

\* The setters of a call that have taken effect, and where its runs begin and end.
Done(c, n) ==
    {log[i].index : i \in {k \in DOMAIN log : log[k].client = c /\ log[k].call = n}}

EndOf(c, n, k) == IF k = 0 THEN 0 ELSE calls[c][n].ends[k]

Size(c, n) == EndOf(c, n, Len(calls[c][n].ends))

\* The next run of a call takes effect, with nothing in between.
Run(c, n) ==
    \E k \in DOMAIN calls[c][n].ends :
        /\ Done(c, n) = 1 .. EndOf(c, n, k - 1)
        /\ log' = log \o [i \in 1 .. EndOf(c, n, k) - EndOf(c, n, k - 1) |->
                            [client |-> c, call |-> n, index |-> EndOf(c, n, k - 1) + i]]

\* A call begins, or is turned down on the spot.
Begin(c, ends, outcome) ==
    /\ ~IsOpen(c)
    /\ calls' = [calls EXCEPT ![c] = Append(@, [ends |-> ends, outcome |-> outcome])]
    /\ UNCHANGED <<log, adrift>>

\* Writes take effect while the call is open.
Write(c) ==
    /\ IsOpen(c)
    /\ Run(c, Len(calls[c]))
    /\ UNCHANGED <<calls, adrift>>

Ended(c, outcome) ==
    /\ IsOpen(c)
    /\ calls' = [calls EXCEPT ![c][Len(calls[c])].outcome = outcome]
    /\ UNCHANGED log

\* The call returns: all its writes have taken effect.
Return(c) ==
    /\ Ended(c, "ok")
    /\ Done(c, Len(calls[c])) = 1 .. Size(c, Len(calls[c]))
    /\ UNCHANGED adrift

\* The call is turned down before any of its writes has taken effect.
Reject(c) ==
    /\ Ended(c, "too_long")
    /\ Done(c, Len(calls[c])) = {}
    /\ UNCHANGED adrift

\* The call fails; one run of its writes may still be on its way.
Fail(c) ==
    /\ Ended(c, "connection")
    /\ adrift' \in {adrift, adrift \cup {<<c, Len(calls[c])>>}}

\* That run takes effect, or never does.
Straggle(c, n) ==
    /\ <<c, n>> \in adrift
    /\ adrift' = adrift \ {<<c, n>>}
    /\ Run(c, n) \/ UNCHANGED log
    /\ UNCHANGED calls

Next ==
    \/ \E c \in Clients :
          \/ \E ends \in Cuts, outcome \in {"open", "invalid", "too_long"} : Begin(c, ends, outcome)
          \/ Write(c) \/ Return(c) \/ Reject(c) \/ Fail(c)
    \/ \E call \in adrift : Straggle(call[1], call[2])

Spec == Init /\ [][Next]_vars
=============================================================================
