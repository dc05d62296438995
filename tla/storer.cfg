SPECIFICATION Spec
CONSTANTS
    Clients = {k1, k2}
    None = none
    MaxAttempts = 2
SYMMETRY Symmetry
INVARIANTS SingleWinner NoLostUpdate NoLeaseLeft
PROPERTIES ImplementsCounter
CHECK_DEADLOCK FALSE
