SPECIFICATION Spec
CONSTANTS
    Callers = {c1}
    Total = 3
    PageSize = 2
    MaxEmpty = 1
INVARIANT NilMarkerMeansAll
CHECK_DEADLOCK FALSE
