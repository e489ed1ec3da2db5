------------------------------ MODULE MCBaseEHC ------------------------------
(***************************************************************************)
(* Instances of BaseEHC: a slope (s0 .. s3), a plateau on which two states *)
(* of one hash code lead to each other (s4, s5), a way to the goal that    *)
(* passes an already closed state, and one past a state that cannot be     *)
(* evaluated; and a dead end of two states (s7, s8).                       *)
(***************************************************************************)
EXTENDS BaseEHC, TLC

CONSTANTS s0, s1, s2, s3, s4, s5, s6, s7, s8, bad, goal

MCStates == {s0, s1, s2, s3, s4, s5, s6, s7, s8, bad, goal}
MCGoals == {goal}
MCFailing == {bad}

MCH == s0 :> 3 @@ s1 :> 3 @@ s2 :> 4 @@ s3 :> 2 @@ s4 :> 2 @@ s5 :> 2 @@ s6 :> 2
       @@ s7 :> 3 @@ s8 :> 3 @@ bad :> 1 @@ goal :> 0

MCSuccessors ==
    s0 :> {s1, s2} @@ s1 :> {s0, s3} @@ s2 :> {s0, s6} @@ s3 :> {s4, s5}
    @@ s4 :> {s5} @@ s5 :> {s4} @@ s6 :> {s2, bad, goal}
    @@ s7 :> {s8} @@ s8 :> {s7, s8} @@ bad :> {s6} @@ goal :> {}

MCBounds == {2, 4, Unbounded}

\* s4 and s5 collide, and so do s2 and s6.
MCHash == s0 :> 0 @@ s1 :> 1 @@ s2 :> 2 @@ s3 :> 3 @@ s4 :> 4 @@ s5 :> 4 @@ s6 :> 2
          @@ bad :> 5 @@ goal :> 6 @@ s7 :> 7 @@ s8 :> 8
=============================================================================
