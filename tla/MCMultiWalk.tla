----------------------------- MODULE MCMultiWalk -----------------------------
(***************************************************************************)
(* An instance of MultiWalk with two threads: more candidates than threads *)
(* as well as fewer, searches that lead back to where they began, two ways *)
(* to goals, and a candidate that is a goal.                               *)
(***************************************************************************)
EXTENDS MultiWalk, TLC

CONSTANTS c1, c2, c3, a, b, g1, g2

MCStates == {c1, c2, c3, a, b, g1, g2}
MCGoals == {g1, g2}
MCInitials == {{}, {c1}, {c1, c2, c3}, {c1, c2, g1}}

MCH == c1 :> 3 @@ c2 :> 2 @@ c3 :> 2 @@ a :> 1 @@ b :> 2 @@ g1 :> 0 @@ g2 :> 0

MCWalks ==
    c1 :> {c1, a, g1} @@ c2 :> {a, g2} @@ c3 :> {b} @@ a :> {b} @@ b :> {a, g1}
    @@ g1 :> {g1} @@ g2 :> {g2}
=============================================================================
