SPECIFICATION Spec
CONSTANTS
    Clients = {k1, k2}
    None = none
    MaxAttempts = 1
INVARIANT AcquireKeepsUpdates
CHECK_DEADLOCK FALSE
