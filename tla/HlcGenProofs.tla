---------------------------- MODULE HlcGenProofs ----------------------------
(***************************************************************************)
(* Proofs about the HLC generator for every W, clock bound and int width, *)
(* under the hypothesis NoOverflow: remote stamps passed to observe stay  *)
(* below INT64_MAX, and so does the wall clock.  The runs on              *)
(* HlcGenOverflowLC.cfg and HlcGenOverflowPT.cfg show that without it     *)
(* both the type and the order are lost.                                  *)
(***************************************************************************)
EXTENDS HlcGen, TLAPS

\* No int64_t addition of next/observe/rollover can overflow.
NoOverflow ==
    /\ MaxClock < IntMax
    /\ \A r \in RemotePT : r < IntMax
    /\ \A l \in RemoteLC : l < IntMax

\* An addition whose exact result is representable stores that result.
LEMMA WrapIdentity ==
  ASSUME NEW x \in IntRange
  PROVE  Wrap(x) = x
  <1>1. Half \in Nat \ {0}
    BY IntBitsAssumption
  <1>2. x \in Int /\ x >= -Half /\ x <= Half - 1
    BY DEF IntRange, IntMin, IntMax
  <1>3. QED
    BY <1>1, <1>2 DEF Wrap

\* The facts every step needs: the constants' ranges and the type.
LEMMA StepFacts ==
  ASSUME NoOverflow, TypeOK, PtCap
  PROVE  /\ pt \in 0..(IntMax - 1)
         /\ lc + 1 \in IntRange
         /\ Wrap(lc + 1) = lc + 1
         /\ Wrap(pt + 1) = pt + 1
  <1>1. pt \in 0..(IntMax - 1) /\ lc \in 0..(IntMax - 1)
    BY MaxLcAssumption, ClockAssumption, IntBitsAssumption
       DEF NoOverflow, TypeOK, PtCap, IntMax
  <1>2. lc + 1 \in IntRange /\ pt + 1 \in IntRange
    BY <1>1, IntBitsAssumption DEF IntRange, IntMin, IntMax
  <1>3. QED
    BY <1>1, <1>2, WrapIdentity

\* The effect of SetWithRollover on a representable (p, l) with l >= 0 and
\* p < INT64_MAX: either (p, l) itself or (p + 1, 0).
LEMMA RolloverEffect ==
  ASSUME NEW p \in 0..(IntMax - 1), NEW l \in 0..IntMax, SetWithRollover(p, l)
  PROVE  \/ l > MaxLc /\ pt' = p + 1 /\ lc' = 0
         \/ l <= MaxLc /\ pt' = p /\ lc' = l
  <1>1. p + 1 \in IntRange
    BY IntBitsAssumption DEF IntRange, IntMin, IntMax
  <1>2. Wrap(p + 1) = p + 1
    BY <1>1, WrapIdentity
  <1>3. QED
    BY <1>2, MaxLcAssumption, IntBitsAssumption DEF SetWithRollover, IntMax

\* A call of hlc_wid_gen_next keeps the type and moves (pt, lc) strictly up.
LEMMA NextStep ==
  ASSUME NoOverflow, TypeOK, NEW now \in 0..MaxClock, HlcGenNext(now)
  PROVE  TypeOK' /\ Clock!Advance
  <1>1. PtCap /\ pt \in 0..(IntMax - 1) /\ Wrap(lc + 1) = lc + 1
    BY StepFacts DEF HlcGenNext
  <1>2. now \in 0..(IntMax - 1) /\ MaxLc \in Nat /\ IntMax \in Nat
    BY MaxLcAssumption, IntBitsAssumption, ClockAssumption DEF NoOverflow, IntMax
  <1>3. CASE now > pt
    <2>1. SetWithRollover(now, 0)
      BY <1>3 DEF HlcGenNext
    <2>2. pt' = now /\ lc' = 0
      BY <2>1, <1>2, RolloverEffect
    <2>3. QED
      BY <2>2, <1>2, <1>3 DEF TypeOK, Clock!Advance, Clock!Stamps, Clock!StampLess
  <1>4. CASE ~(now > pt)
    <2>1. SetWithRollover(pt, lc + 1)
      BY <1>1, <1>4 DEF HlcGenNext
    <2>2. lc + 1 \in 0..IntMax
      BY <1>2, MaxLcAssumption DEF TypeOK
    <2>3. \/ lc + 1 > MaxLc /\ pt' = pt + 1 /\ lc' = 0
          \/ lc + 1 <= MaxLc /\ pt' = pt /\ lc' = lc + 1
      BY <2>1, <2>2, <1>1, RolloverEffect
    <2>4. QED
      BY <2>3, <1>1, <1>2 DEF TypeOK, Clock!Advance, Clock!Stamps, Clock!StampLess
  <1>5. QED
    BY <1>3, <1>4

\* A successful hlc_wid_observe keeps the type, moves (pt, lc) strictly up
\* and leaves it strictly above the remote stamp.
LEMMA ObserveStep ==
  ASSUME NoOverflow, TypeOK,
         NEW now \in 0..MaxClock, NEW rpt \in RemotePT, NEW rlc \in RemoteLC,
         HlcObserve(now, rpt, rlc)
  PROVE  TypeOK' /\ Clock!Advance /\ HlcLess(rpt, rlc, pt', lc')
  <1> DEFINE np == ObservedPt(now, rpt)
             v  == ObservedLc(np, rpt, rlc)
  <1>1. /\ pt \in 0..(IntMax - 1) /\ Wrap(lc + 1) = lc + 1
        /\ rpt \in 0..(IntMax - 1) /\ rlc \in 0..(IntMax - 1)
        /\ now \in 0..(IntMax - 1) /\ MaxLc \in Nat /\ IntMax \in Nat
    BY StepFacts, RemoteAssumption, MaxLcAssumption, IntBitsAssumption, ClockAssumption
       DEF HlcObserve, NoOverflow, IntMax, IntRange
  <1>2. np \in 0..(IntMax - 1) /\ np >= pt /\ np >= rpt
    BY <1>1 DEF ObservedPt
  <1> DEFINE m == IF lc > rlc THEN lc ELSE rlc
  <1>3. rlc + 1 \in IntRange /\ m + 1 \in IntRange
    BY <1>1, MaxLcAssumption, IntBitsAssumption DEF IntRange, IntMin, IntMax, TypeOK
  <1>4. Wrap(rlc + 1) = rlc + 1 /\ Wrap(m + 1) = m + 1
    BY <1>3, WrapIdentity
  <1>5. /\ v \in 0..IntMax
        /\ np = pt => v > lc
        /\ np = rpt => v > rlc
    <2> USE <1>1, <1>3, <1>4, MaxLcAssumption DEF TypeOK, IntRange
    <2>1. CASE np = pt /\ np = rpt
      <3>1. v = Wrap(m + 1)
        BY <2>1 DEF ObservedLc
      <3>2. QED
        BY <3>1, <2>1
    <2>2. CASE np = pt /\ np # rpt
      <3>1. v = Wrap(lc + 1)
        BY <2>2 DEF ObservedLc
      <3>2. QED
        BY <3>1, <2>2
    <2>3. CASE np # pt /\ np = rpt
      <3>1. v = Wrap(rlc + 1)
        BY <2>3 DEF ObservedLc
      <3>2. QED
        BY <3>1, <2>3
    <2>4. CASE np # pt /\ np # rpt
      <3>1. v = 0
        BY <2>4 DEF ObservedLc
      <3>2. QED
        BY <3>1, <2>4
    <2>5. QED
      BY <2>1, <2>2, <2>3, <2>4
  <1>6. SetWithRollover(np, v)
    BY DEF HlcObserve
  <1>7. \/ v > MaxLc /\ pt' = np + 1 /\ lc' = 0
        \/ v <= MaxLc /\ pt' = np /\ lc' = v
    BY <1>2, <1>5, <1>6, RolloverEffect
  <1>8. QED
    BY <1>1, <1>2, <1>5, <1>7
       DEF TypeOK, HlcLess, Clock!Advance, Clock!Stamps, Clock!StampLess

\* Every step of the specification keeps TypeOK and is a step, or a
\* stutter, of the abstract generator.
LEMMA StepCorrect ==
  ASSUME NoOverflow, TypeOK, [Next]_vars
  PROVE  TypeOK' /\ [Clock!Advance]_<<pt, lc>>
  <1>1. ASSUME NEW now \in 0..MaxClock, HlcGenNext(now)
        PROVE  TypeOK' /\ [Clock!Advance]_<<pt, lc>>
    BY <1>1, NextStep
  <1>2. ASSUME NEW now \in 0..MaxClock, NEW rpt \in RemotePT, NEW rlc \in RemoteLC,
               HlcObserve(now, rpt, rlc)
        PROVE  TypeOK' /\ [Clock!Advance]_<<pt, lc>>
    BY <1>2, ObserveStep
  <1>3. CASE UNCHANGED vars
    BY <1>3 DEF vars, TypeOK
  <1>4. QED
    BY <1>1, <1>2, <1>3 DEF Next

\* Without overflow, pt stays a non-negative int64_t and lc fits W digits
\* after any sequence of next and observe calls.
THEOREM TypeCorrect ==
  ASSUME NoOverflow
  PROVE  Spec => []TypeOK
  <1>1. Init => TypeOK
    BY MaxLcAssumption, IntBitsAssumption DEF Init, TypeOK, IntMax
  <1>2. TypeOK /\ [Next]_vars => TypeOK'
    BY StepCorrect
  <1>3. QED
    BY <1>1, <1>2, PTL DEF Spec

\* Without overflow, hlc_wid_gen_t implements LogicalClock: (pt, lc)
\* strictly increases on every successful next and observe.
THEOREM Refinement ==
  ASSUME NoOverflow
  PROVE  Spec => ClockSpec
  <1>1. Init => Clock!Init
    BY DEF Init, Clock!Init
  <1>2. TypeOK /\ [Next]_vars => [Clock!Advance]_<<pt, lc>>
    BY StepCorrect
  <1>3. QED
    BY <1>1, <1>2, TypeCorrect, PTL DEF Spec, ClockSpec, Clock!Spec

\* Without overflow, every successful observe leaves (pt, lc) strictly
\* above the remote stamp it was given (spec.md 4.5 and 8).
THEOREM ObserveDominates ==
  ASSUME NoOverflow
  PROVE  Spec => ObserveDominatesRemote
  <1>1. TypeOK /\ [Next]_vars =>
          \A now \in 0..MaxClock, rpt \in RemotePT, rlc \in RemoteLC :
             HlcObserve(now, rpt, rlc) => HlcLess(rpt, rlc, pt', lc')
    BY ObserveStep
  <1>2. QED
    BY <1>1, TypeCorrect, PTL DEF Spec, ObserveDominatesRemote

\* spec.md 3's "pt never decreases": without overflow, no call of
\* hlc_wid_gen_next or hlc_wid_observe moves the physical time back.  The
\* hlc_pt_overflow run shows the wrap that breaks it once a remote pt or
\* the wall clock reaches INT64_MAX.
THEOREM PtMonotone ==
  ASSUME NoOverflow
  PROVE  Spec => PtNeverDecreases
  <1>1. TypeOK /\ [Next]_vars => [pt' >= pt]_vars
    <2> SUFFICES ASSUME TypeOK, [Next]_vars PROVE [pt' >= pt]_vars
      OBVIOUS
    <2>1. [Clock!Advance]_<<pt, lc>>
      BY StepCorrect
    <2>2. QED
      BY <2>1 DEF Clock!Advance, Clock!StampLess, Clock!Stamps, TypeOK, vars
  <1>2. QED
    BY <1>1, TypeCorrect, PTL DEF Spec, PtNeverDecreases

=============================================================================
