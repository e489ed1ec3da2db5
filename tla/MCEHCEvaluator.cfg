SPECIFICATION FairSpec
CONSTANTS
    known = known
    colliding = colliding
    worse = worse
    better = better
    goal = goal
    throwing = throwing
    NoState = NoState
    Null = Null
    States <- MCStates
    LookAheads = {}
    Goals = {goal}
    Failing = {throwing}
    H <- MCH
    HistoryEntry <- MCHistoryEntry
    HistoryValue <- MCHistoryValue
    InitialH = 2
    EvaluationSize = 3
    MaxLimit = 7
INVARIANTS
    ExclusiveGraphs
    SettledWhenJoined
    ReportIsRight
PROPERTIES
    ImplementsEvaluation
\* The evaluator ends.
CHECK_DEADLOCK FALSE
