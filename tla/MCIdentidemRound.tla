-------------------------- MODULE MCIdentidemRound --------------------------
(***************************************************************************)
(* Neighbours of every kind, sampled three at a time; the look-ahead state *)
(* is an ordinary one, a goal, or one whose evaluation throws.  The known  *)
(* neighbour was evaluated otherwise by the search that left it in the     *)
(* history, and another one has the same hash.                             *)
(***************************************************************************)
EXTENDS IdentidemRound

CONSTANTS known, colliding, plain, goal, throwing,
          ahead, goalAhead, throwingAhead

MCStates == {known, colliding, plain, goal, throwing}
MCLookAheads == {ahead, goalAhead, throwingAhead}
MCH == [s \in MCStates \cup MCLookAheads |->
          CASE s \in {goal, goalAhead} -> 0
            [] s \in {colliding, ahead} -> 1
            [] OTHER -> 2]
MCHistoryEntry == [s \in MCStates |->
                     IF s \in {known, colliding} THEN known ELSE NoState]
MCHistoryValue == [s \in MCStates |-> 3]
=============================================================================
