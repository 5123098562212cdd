--------------------------- MODULE IdFormatProofs ---------------------------
(***************************************************************************)
(* What wid_fmt_tick's split of an ms tick into a second and a millisecond *)
(* computes, for every int64 tick: C's truncating / and % followed by the  *)
(* "if (ms < 0) ms += 1000" correction.                                   *)
(***************************************************************************)
EXTENDS IdFormat, TLAPS

\* C's / and % by 1000 against TLA+'s floored \div and %: they agree on a
\* non-negative dividend; on a negative one the quotient is one above the
\* floor and the remainder 1000 below it, unless the division is exact.
LEMMA CDivMod ==
  ASSUME NEW a \in Int
  PROVE  /\ a >= 0 => CDiv(a, 1000) = a \div 1000 /\ CMod(a, 1000) = a % 1000
         /\ a < 0 /\ a % 1000 = 0 => CDiv(a, 1000) = a \div 1000 /\ CMod(a, 1000) = 0
         /\ a < 0 /\ a % 1000 # 0 =>
               CDiv(a, 1000) = a \div 1000 + 1 /\ CMod(a, 1000) = (a % 1000) - 1000
  <1>1. CASE a >= 0
    BY <1>1 DEF CDiv, CMod
  <1>2. CASE a < 0
    <2> DEFINE n == -a
    <2>1. n \in Nat \ {0} /\ a = -n
      BY <1>2
    <2>2. CDiv(a, 1000) = -(n \div 1000) /\ CMod(a, 1000) = a + 1000 * (n \div 1000)
      BY <1>2, <2>1 DEF CDiv, CMod
    <2>3. n = 1000 * (n \div 1000) + (n % 1000) /\ n % 1000 \in 0..999
      BY <2>1
    <2>4. a % 1000 = 0 <=> n % 1000 = 0
      BY <2>1, <2>3
    <2>5. a % 1000 = 0 => a \div 1000 = -(n \div 1000)
      BY <2>1, <2>3
    <2>6. a % 1000 # 0 => /\ a \div 1000 = -(n \div 1000) - 1
                          /\ a % 1000 = 1000 - (n % 1000)
      BY <2>1, <2>3, <2>4
    <2>7. QED
      BY <1>2, <2>1, <2>2, <2>3, <2>4, <2>5, <2>6
  <1>3. QED
    BY <1>1, <1>2

\* wid_fmt_tick in ms unit, for every tick: the millisecond it prints is
\* always the tick's (floored) millisecond of its second, but the second it
\* hands gmtime_r is one too late exactly when the tick is negative and not
\* a whole second, because "ms += 1000" corrects the remainder without
\* taking one from the truncated quotient (wid.h, wid_fmt_tick).  Tick -1
\* renders as 1970-01-01T00:00:00.999 rather than 1969-12-31T23:59:59.999.
THEOREM TickSplit ==
  ASSUME NEW tick \in Int
  PROVE  /\ TickMs("ms", tick) = tick % 1000
         /\ TickSec("ms", tick) = IF tick < 0 /\ tick % 1000 # 0
                                     THEN tick \div 1000 + 1
                                     ELSE tick \div 1000
  <1>1. CASE tick >= 0
    <2>1. CMod(tick, 1000) = tick % 1000 /\ tick % 1000 >= 0
          /\ CDiv(tick, 1000) = tick \div 1000
      BY <1>1, CDivMod
    <2>2. QED
      BY <1>1, <2>1 DEF TickMs, TickSec
  <1>2. CASE tick < 0 /\ tick % 1000 = 0
    <2>1. CMod(tick, 1000) = 0 /\ CDiv(tick, 1000) = tick \div 1000
      BY <1>2, CDivMod
    <2>2. QED
      BY <1>2, <2>1 DEF TickMs, TickSec
  <1>3. CASE tick < 0 /\ tick % 1000 # 0
    <2>1. /\ CDiv(tick, 1000) = tick \div 1000 + 1
          /\ CMod(tick, 1000) = (tick % 1000) - 1000
          /\ (tick % 1000) - 1000 < 0
      BY <1>3, CDivMod
    <2>2. QED
      BY <1>3, <2>1 DEF TickMs, TickSec
  <1>4. QED
    BY <1>1, <1>2, <1>3
=============================================================================
