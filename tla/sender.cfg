SPECIFICATION FairSpec
CONSTANTS
    Procs = {p1, p2}
    None = none
    QueueLimit = 1
    Sizes <- AtTheLimit
    MaxLinks = 2
INVARIANTS WithinLimit RefusedOnlyTooLarge OneLink NoPanicInTurn
PROPERTIES CallsReturn
CHECK_DEADLOCK FALSE
