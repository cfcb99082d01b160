----------------------------- MODULE MCSunblind -----------------------------
(***************************************************************************)
(* A blind of five ticks of travel and two of tilt, asked for an endpoint, *)
(* a place between two ticks near the other one, and closed slats.  So far *)
(* can the blind, and the slats, be off their goals that the slack which   *)
(* the properties leave covers at most half of it.                         *)
(***************************************************************************)
EXTENDS Sunblind

MCGoals ==
    [kind : {"position"}, value : {0, 9}] \cup [kind : {"rotation"}, value : {2}]

MCSymmetry == Permutations(Callers)

\* A call that returned and was overtaken is as one that never was: nothing, a
\* property neither, looks at it again.
MCView ==
    <<blind, adrift, master,
      [c \in Callers |->
          IF calls[c].at = "returned" /\ master # c THEN Idle ELSE calls[c]]>>
=============================================================================
