CONSTANTS
    Counts <- MCCounts
    IntervalNs <- MCIntervalNs
    MaxMono <- MCMaxMono
    W <- MCW
    MaxClock <- MCMaxClock
SPECIFICATION Spec
INVARIANTS CountExact PacedByInterval
PROPERTIES EmittedIdsIncrease Finishes
CHECK_DEADLOCK FALSE
