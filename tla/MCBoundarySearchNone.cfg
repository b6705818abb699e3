SPECIFICATION Spec
CONSTANTS
    MAX = 31
    GAP = 2
    Predicates <- Intervals
INVARIANTS
    NoneMeansNone
CHECK_DEADLOCK FALSE
