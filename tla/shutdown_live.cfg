SPECIFICATION FairSpec
CONSTANTS
    Msgs = {m1}
    None = none
    Closers = {c1, c2}
    N = 1
    Renew = TRUE
    Results <- RoughResults
    MaxDeliveries = 2
    MaxListens = 1
    MaxRestarts = 1
INVARIANTS NoPanic RoundMoves
PROPERTIES WorkersEnd ShutdownReturns ImplementsDelivery
CHECK_DEADLOCK FALSE
