--------------------------- MODULE MCBestPerforming ---------------------------
(***************************************************************************)
(* State 1 is the goal; 2 is a local minimum whose walk stays, 3 and 4 a   *)
(* plateau above it, 5 the worst, from which 1 is a neighbour.  The        *)
(* helpful actions lead only uphill from 2.                                *)
(***************************************************************************)
EXTENDS BestPerforming

MCStates == 1 .. 6
MCH == <<0, 2, 4, 4, 6, 3>>
MCSuccessors ==
    [f \in {"null", "helpful"} |->
        IF f = "null"
        THEN <<{}, {3, 6}, {2, 4, 6}, {3, 5}, {1, 3, 4}, {2, 4}>>
        ELSE <<{}, {6}, {4}, {3}, {4}, {4}>>]
MCLookAhead == <<1, 3, 4, 3, 4, 6>>
MCWalk == <<{1}, {2}, {2, 3, 6}, {4, 6}, {1, 5, 4}, {2, 6}>>
=============================================================================
