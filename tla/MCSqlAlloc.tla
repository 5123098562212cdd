---------------------------- MODULE MCSqlAlloc ----------------------------
EXTENDS SqlAlloc, TLC

CONSTANTS p1, p2, p3

MCProcs == {p1, p2, p3}
MCW == 1
MCMaxClock == 1
MCMaxAttempts == 2
MCCount == 2
=============================================================================
