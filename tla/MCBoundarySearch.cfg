SPECIFICATION FairSpec
CONSTANTS
    MAX = 31
    GAP = 2
    Predicates <- Shapes
INVARIANTS
    TypeOK
    EndsAreValid
    NeverCollapses
    WithinGap
PROPERTIES
    Narrows
    Terminates
CHECK_DEADLOCK FALSE
