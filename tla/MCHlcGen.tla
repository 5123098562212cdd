------------------------------ MODULE MCHlcGen ------------------------------
(* HlcGen with W = 2 (lc 0..99), a clock of four ticks and a 64-bit int     *)
(* scaled to 8 bits.  Remote stamps range over negative (rejected), equal, *)
(* older and newer times, and over counters below, at and above max_lc.   *)
EXTENDS HlcGen

MCW == 2
MCMaxClock == 3
MCIntBits == 8
MCRemotePT == {-1, 0, 1, 3}
MCRemoteLC == {-1, 0, 40, 99, 120}

\* Overflow models: int64_t scaled to 5 bits (INT64_MAX = 15), W = 1 and a
\* remote peer whose counter is INT64_MAX, or whose physical time is
\* INT64_MAX with a counter at max_lc.
MCOvfW == 1
MCOvfIntBits == 5
MCOvfRemoteLC == {0, 15}
MCOvfRemotePT == {0, 1, 15}
MCOvfPtRemoteLC == {0, 9}

=============================================================================
