SPECIFICATION Spec
CONSTANTS
    p = p  q = q  r = r  g = g
    join = join
    done = done
    Problems <- MCProblems
    MaxEvaluations = 2
    Depth = 9
INVARIANTS DeadEndsAreDead PlanReachesGoal NonGoalsAreHelped
