SPECIFICATION FairSpec
CONSTANTS
    s0 = s0  s1 = s1  s2 = s2  s3 = s3  s4 = s4  s5 = s5  s6 = s6  s7 = s7  s8 = s8
    bad = bad  goal = goal
    States <- MCStates
    Goals <- MCGoals
    Starts <- MCStates
    H <- MCH
    Successors <- MCSuccessors
    Failing <- MCFailing
    Hash <- MCHash
    NoState = NoState
    Bounds <- MCBounds
INVARIANTS OpenSinceBest OpenOnce NullMeansDeadEnd
PROPERTY SearchEnds
CHECK_DEADLOCK FALSE
