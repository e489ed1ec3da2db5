SPECIFICATION Spec
CONSTANTS
    a = a  b = b  p = p  q = q  r = r
    Atoms <- MCAtoms
    Derived <- MCDerived
    RuleSets <- MCRuleSets
INVARIANT AnswersAreRight
