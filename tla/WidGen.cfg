CONSTANTS
    W <- MCW
    MaxClock <- MCMaxClock
SPECIFICATION Spec
INVARIANT TypeOK
PROPERTY ClockSpec
CHECK_DEADLOCK FALSE
