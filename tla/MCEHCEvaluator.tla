--------------------------- MODULE MCEHCEvaluator ---------------------------
(***************************************************************************)
(* Neighbours of every kind: as bad as the present state or worse (one of  *)
(* them known from an earlier search, one under the hash of another), one  *)
(* better, one goal, one whose evaluation throws.  Every choice of three   *)
(* of them as the first of the iteration is an initial state.              *)
(***************************************************************************)
EXTENDS EHCEvaluator

CONSTANTS known, colliding, worse, better, goal, throwing

MCStates == {known, colliding, worse, better, goal, throwing}
MCH == [s \in MCStates |->
          CASE s = goal -> 0
            [] s = better -> 1
            [] s \in {colliding, worse, throwing} -> 3
            [] OTHER -> 2]
MCHistoryEntry == [s \in MCStates |->
                     IF s \in {known, colliding} THEN known ELSE NoState]
MCHistoryValue == [s \in MCStates |-> MCH[known]]
PlainStates == {known, colliding, worse, better}
PlainH == [s \in PlainStates |-> MCH[s]]
PlainHistoryEntry == [s \in PlainStates |-> NoState]
=============================================================================
