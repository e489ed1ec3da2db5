SPECIFICATION FairSpec
CONSTANTS
    a = a
    b = b
    NoState = NoState
    States <- MCStates
    Starts <- MCStates
    Goals <- MCGoals
    Failing <- MCFailing
    H <- MCH
    Neighbours <- MCNeighbours
    LookAhead <- MCLookAhead
    Reached <- MCReached
    EvaluationSize = 3
    MaxLimit = 7
INVARIANTS
    ResultImproves
    LimitLeftAtZero
PROPERTIES
    BreadthOnlyAfterException
    SearchEnds
\* The search ends.
CHECK_DEADLOCK FALSE
