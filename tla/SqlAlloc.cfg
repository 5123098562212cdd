CONSTANTS
    p1 = p1
    p2 = p2
    p3 = p3
    Procs <- MCProcs
    W <- MCW
    MaxClock <- MCMaxClock
    MaxAttempts <- MCMaxAttempts
    Count <- MCCount
SPECIFICATION Spec
INVARIANTS TypeOK UniqueIds
PROPERTY ClockSpec
CHECK_DEADLOCK FALSE
