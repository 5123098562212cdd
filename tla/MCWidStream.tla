---------------------------- MODULE MCWidStream ----------------------------
EXTENDS WidStream

MCCounts == {0, 2, 3}
MCIntervalNs == 2
MCMaxMono == 6
MCW == 2
MCMaxClock == 2
=============================================================================
