SPECIFICATION FairSpec
CONSTANTS
    Callers = {c1, c2}
    Total = 3
    PageSize = 2
    MaxEmpty = 1
INVARIANTS CountComplete ListComplete
PROPERTIES ListingEnds
CHECK_DEADLOCK FALSE
