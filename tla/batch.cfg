SPECIFICATION FairSpec
CONSTANTS
    Closers = {c1, c2}
    None = none
    BatchSizes = {0, 2}
    WithHandler = TRUE
    MaxListens = 3
INVARIANTS HandlerOpened HandlerClosedOnce PanicsOnlyInShutdown
PROPERTIES ListenReturns ShutdownReturns
CHECK_DEADLOCK FALSE
