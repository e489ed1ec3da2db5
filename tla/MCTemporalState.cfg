SPECIFICATION Spec
CONSTANTS
    unused = unused
    light = light
    warm = warm
    dry = dry
    mended = mended
    Props <- MCProps
    Instants <- MCInstants
    Duratives <- MCDuratives
    InstantDef <- MCInstantDef
    StartDef <- MCStartDef
    EndDef <- MCEndDef
    Invariant <- MCInvariant
    InitialFacts <- MCInitialFacts
    GoalProps <- MCGoalProps
    Guides = {"null", "helpful", "lookahead"}
    MaxPlanLength = 7
INVARIANTS
    FactsTellWhatRuns
    InvariantsHold
    NoStaleProtection
    StartsAndEndsAlternate
\* A path ends at the bound on its length.
CHECK_DEADLOCK FALSE
