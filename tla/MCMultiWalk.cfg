SPECIFICATION FairSpec
CONSTANTS
    c1 = c1  c2 = c2  c3 = c3  a = a  b = b  g1 = g1  g2 = g2
    States <- MCStates
    Goals <- MCGoals
    Initials <- MCInitials
    H <- MCH
    Walks <- MCWalks
    Lengths = {1, 2}
    MaxSearchThreads = 2
    NoState = NoState
INVARIANTS ShortestGoalReturned GivesUpExhausted
PROPERTY ManagerReturns
CHECK_DEADLOCK FALSE
