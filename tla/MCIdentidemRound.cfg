SPECIFICATION FairRoundSpec
CONSTANTS
    known = known
    colliding = colliding
    plain = plain
    goal = goal
    throwing = throwing
    ahead = ahead
    goalAhead = goalAhead
    throwingAhead = throwingAhead
    NoState = NoState
    Null = Null
    States <- MCStates
    LookAheads <- MCLookAheads
    Goals = {goal, goalAhead}
    Failing = {throwing, throwingAhead}
    H <- MCH
    HistoryEntry <- MCHistoryEntry
    HistoryValue <- MCHistoryValue
    NeighbourSize = 3
INVARIANTS
    ChosenIsReady
    ChoosesWell
PROPERTY
    RoundEnds
\* The step of the probe ends.
CHECK_DEADLOCK FALSE
