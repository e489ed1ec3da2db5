----------------------------- MODULE MCEHCSearch -----------------------------
(***************************************************************************)
(* A family of search spaces over six nodes side by side, of which the     *)
(* start chooses one.  Node 1 is the goal, 3 and 4 are a plateau, and the  *)
(* evaluation of 6 throws; a relaxed plan leads nowhere, to a near node or *)
(* to 6, for each node independently.  In the first kind of space every    *)
(* node has a better neighbour, among those evaluated first or not; in the *)
(* second only the look-ahead makes progress, and 2 and 4 are dead ends.   *)
(* Node 3 exchanges the subgoal of 4 for another.  Node 5 has none, so it  *)
(* is filtered from the neighbours of 3 and 4, while none of its own are:  *)
(* evaluated among them, 6 interrupts the evaluator, and all are opened.   *)
(***************************************************************************)
EXTENDS EHCSearch

CONSTANTS a, b

Nodes == 1 .. 6
Near == <<{1}, {1, 2, 6}, {2, 3, 4, 6}, {3, 4, 6}, {4, 5, 6}, {5, 6}>>
LookAheads == {f \in [Nodes -> Nodes] : \A n \in Nodes : f[n] \in Near[n]}
NeighbourKinds ==
    {<<{}, {1, 3}, {2, 4}, {3, 5}, {2, 3, 4, 6}, {2, 5}>>,
     <<{}, {}, {4, 5}, {}, {4, 5, 6}, {6}>>}
Values == <<0, 1, 2, 2, 3, 3>>
Subgoals == <<{a, b}, {b}, {b}, {a}, {}, {a}>>

MCStates == [node : Nodes, ahead : LookAheads, around : NeighbourKinds]
MCGoals == {s \in MCStates : s.node = 1}
MCFailing == {s \in MCStates : s.node = 6}
MCH == [s \in MCStates |-> Values[s.node]]
MCNeighbours ==
    [s \in MCStates |-> {[s EXCEPT !.node = n] : n \in s.around[s.node]}]
MCLookAhead == [s \in MCStates |-> [s EXCEPT !.node = s.ahead[s.node]]]
MCReached == [s \in MCStates |-> Subgoals[s.node]]
=============================================================================
