SPECIFICATION FairSpec
CONSTANTS
    Msgs = {m1}
    None = none
    Closers = {c1}
    N = 1
    Renew = FALSE
    Results <- OneResult
    MaxDeliveries = 1
    MaxListens = 1
    MaxRestarts = 0
PROPERTY WaitGroupResets
CHECK_DEADLOCK FALSE
