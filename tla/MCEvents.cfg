SPECIFICATION Spec
CONSTANTS
    a = a  b = b 
    NoOne = NoOne
    Level = Level
    Props <- MCProps
    Fluents <- MCFluents
    Shared = NoOne
    Domains <- MCDomains
    Happenings <- MCHappenings
    LastTime = 3
INVARIANTS EventsAreQuiet ProcessesFollowState
PROPERTY NothingPassed CascadeEnds
