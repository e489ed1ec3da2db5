SPECIFICATION FairSpec
CONSTANTS
    NoState = NoState
    States <- MCStates
    Goals = {1}
    H <- MCH
    Successors <- MCSuccessors
    LookAhead <- MCLookAhead
    NeighbourSize = 2
    Iterations = 2
    Probes = 2
    InitialDepthBound = 1
    InitialMaxFailCount = 2
    Initials = {1, 3, 4, 5}
    Walk <- MCWalk
    MaxRestarts = 7
INVARIANTS
    FailCountsAgree
    GoalNeverLost
    NeverWorseThanInitial
PROPERTIES
    DriverOnlyImproves
    DriverReturns
\* The driver returns.
CHECK_DEADLOCK FALSE
