SPECIFICATION Spec
CONSTANTS
    known = known
    colliding = colliding
    worse = worse
    better = better
    goal = goal
    throwing = throwing
    NoState = NoState
    Null = Null
    States <- PlainStates
    LookAheads = {}
    Goals = {}
    Failing = {}
    H <- PlainH
    HistoryEntry <- PlainHistoryEntry
    HistoryValue <- PlainH
    InitialH = 2
    EvaluationSize = 3
    MaxLimit = 7
INVARIANT
    AllNeighboursEvaluated
CHECK_DEADLOCK FALSE
