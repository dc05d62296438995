SPECIFICATION FairSpec
CONSTANTS
    Msgs = {m1, m2}
    None = none
    Closers = {}
    N = 2
    Renew = FALSE
    Results <- GoodResults
    MaxDeliveries = 2
    MaxListens = 2
    MaxRestarts = 0
INVARIANTS TypeOK WaitGroupBalance Barrier HandlerOpen
    NoDuplicateInFlight SettledAsDecided
PROPERTIES WaitGroupResets
CHECK_DEADLOCK FALSE
