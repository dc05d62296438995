SPECIFICATION FairSpec
CONSTANTS
    Lock = 8
    Wait = 1
    Gap = 2
    Rtt = 1
    Configs <- AllConfigs
    MaxTime = 10
INVARIANTS HandledUnderLock SettledUnderLock LossIsWarned
PROPERTY RenewalEnds
CHECK_DEADLOCK FALSE
