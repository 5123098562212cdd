------------------------------ MODULE MCWidGen ------------------------------
(* WidGen with W = 2 (sequences 00..99) over a clock of four ticks: a burst  *)
(* of 100 calls in one tick borrows the next one, and the clock may stall   *)
(* or go back by up to three ticks.                                          *)
EXTENDS WidGen

MCW == 2
MCMaxClock == 3

=============================================================================
