SPECIFICATION Spec
CONSTANTS
    p = p  q = q  r = r  f = f
    drive = drive  load = load  tick = tick  burn = burn
    consuming = consuming  setting = setting  spending = spending
    NoOne = NoOne
    Domains <- MCDomains
    Props <- MCProps
    Fluents <- MCFluents
    Shared = NoOne
    Problems <- MCProblems
    ContinueAnyway = FALSE
INVARIANTS StatesFollowThePlan NoInterference AcceptedIsValid RejectedForAReason PreferencesCounted
