--------------------------- MODULE HlcStreamProofs ---------------------------
(***************************************************************************)
(* Proofs about the HLC poll stream for every count, interval, width and  *)
(* remote input: the stream's control fields keep their types and it      *)
(* counts exactly, which does not depend on what hlc_wid_gen_next does to *)
(* pt and lc; and, with the wall clock below INT64_MAX, the embedded      *)
(* clock keeps its type and implements LogicalClock.                      *)
(***************************************************************************)
EXTENDS HlcStream, TLAPS

\* CountExact with the facts a poll needs to keep it.
IInv ==
    /\ CtlTypeOK
    /\ CountExact
    /\ initialized
    /\ count > 0 => remaining \in 0..count

LEMMA InitIInv == Init => IInv
  BY StreamAssumption DEF Init, CtlInit, IInv, CtlTypeOK, CountExact, Done, Exhausted

LEMMA StepIInv == IInv /\ [Next]_vars => IInv'
  <1> SUFFICES ASSUME IInv, [Next]_vars PROVE IInv'
    OBVIOUS
  <1> USE StreamAssumption DEF IInv, CtlTypeOK, CountExact, Done, Exhausted
  <1>1. ASSUME NEW now \in 0..MaxClock, PollHlc(now) PROVE IInv'
    BY <1>1 DEF PollHlc, Poll, Decrement
  <1>2. CASE Tick /\ UNCHANGED <<pt, lc>>
    BY <1>2 DEF Tick
  <1>3. CASE UNCHANGED vars
    BY <1>3 DEF vars, ctl
  <1>4. QED
    BY <1>1, <1>2, <1>3 DEF Next

\* wid_async_hlc_stream_poll keeps the same count contract as the WID
\* stream: a finite stream is done exactly when it has written count IDs,
\* and an infinite one is never done.
THEOREM HlcStreamCountExact == Spec => []CountExact
  BY InitIInv, StepIInv, PTL DEF Spec, IInv

\* The HLC stream's control fields keep their types.
THEOREM HlcStreamCtlTyped == Spec => []CtlTypeOK
  BY InitIInv, StepIInv, PTL DEF Spec, IInv

-----------------------------------------------------------------------------
\* HlcGen's assumptions on its constants (IntBitsAssumption, ClockAssumption
\* and MaxLcAssumption, which TLC evaluates on the hlc_gen run) and the part
\* of its NoOverflow a stream needs: the wall clock stays below INT64_MAX.
\* The stream never calls observe, so the remote inputs play no part.
GenConstants ==
    /\ Gen!Half \in Nat \ {0}
    /\ MaxClock \in Nat
    /\ Gen!MaxLc \in 0..(Gen!IntMax - 1)
    /\ MaxClock < Gen!IntMax

\* An int64_t addition whose exact result is representable stores it.
LEMMA WrapExact ==
  ASSUME GenConstants, NEW x \in Int, x >= -Gen!Half, x <= Gen!Half - 1
  PROVE  Gen!Wrap(x) = x
  BY DEF GenConstants, Gen!Wrap

\* One hlc_wid_gen_next from a well-typed clock: the clock stays well typed
\* and (pt, lc) moves strictly up, through the rollover or not.
LEMMA GenNextStep ==
  ASSUME GenConstants, Gen!TypeOK, NEW now \in 0..MaxClock, Gen!HlcGenNext(now)
  PROVE  Gen!TypeOK' /\ Gen!Clock!Advance
  <1>1. /\ pt \in 0..MaxClock /\ lc \in 0..Gen!MaxLc /\ now \in Nat
        /\ MaxClock \in Nat /\ Gen!MaxLc \in Nat /\ Gen!Half \in Nat \ {0}
        /\ Gen!IntMax = Gen!Half - 1 /\ MaxClock < Gen!IntMax
        /\ Gen!MaxLc < Gen!IntMax
    BY DEF GenConstants, Gen!TypeOK, Gen!HlcGenNext, Gen!PtCap, Gen!IntMax
  <1>2. Gen!Wrap(pt + 1) = pt + 1 /\ Gen!Wrap(lc + 1) = lc + 1
    <2>1. pt + 1 \in Int /\ pt + 1 >= -Gen!Half /\ pt + 1 <= Gen!Half - 1
      BY <1>1
    <2>2. lc + 1 \in Int /\ lc + 1 >= -Gen!Half /\ lc + 1 <= Gen!Half - 1
      BY <1>1
    <2>3. QED
      BY <2>1, <2>2, WrapExact
  <1>3. CASE now > pt
    <2>1. pt' = now /\ lc' = 0
      BY <1>1, <1>3 DEF Gen!HlcGenNext, Gen!SetWithRollover
    <2>2. QED
      BY <1>1, <1>3, <2>1 DEF Gen!TypeOK, Gen!Clock!Advance, Gen!Clock!Stamps,
                             Gen!Clock!StampLess, Gen!IntMax, Gen!MaxLc
  <1>4. CASE ~(now > pt) /\ lc + 1 > Gen!MaxLc
    <2>1. pt' = pt + 1 /\ lc' = 0
      BY <1>1, <1>2, <1>4 DEF Gen!HlcGenNext, Gen!SetWithRollover
    <2>2. QED
      BY <1>1, <2>1 DEF Gen!TypeOK, Gen!Clock!Advance, Gen!Clock!Stamps,
                        Gen!Clock!StampLess, Gen!IntMax, Gen!MaxLc
  <1>5. CASE ~(now > pt) /\ lc + 1 <= Gen!MaxLc
    <2>1. pt' = pt /\ lc' = lc + 1
      BY <1>1, <1>2, <1>5 DEF Gen!HlcGenNext, Gen!SetWithRollover
    <2>2. QED
      BY <1>1, <1>5, <2>1 DEF Gen!TypeOK, Gen!Clock!Advance, Gen!Clock!Stamps,
                             Gen!Clock!StampLess, Gen!IntMax, Gen!MaxLc
  <1>6. QED
    BY <1>1, <1>3, <1>4, <1>5

\* Every step of the stream keeps the embedded clock's type, and is a step
\* of the abstract generator or leaves (pt, lc) alone.
LEMMA StreamClockStep ==
  ASSUME GenConstants, Gen!TypeOK, [Next]_vars
  PROVE  Gen!TypeOK' /\ [Gen!Clock!Advance]_<<pt, lc>>
  <1>1. ASSUME NEW now \in 0..MaxClock, PollHlc(now)
        PROVE  Gen!TypeOK' /\ Gen!Clock!Advance
    BY <1>1, GenNextStep DEF PollHlc, Poll
  <1>2. CASE Tick /\ UNCHANGED <<pt, lc>>
    BY <1>2 DEF Gen!TypeOK
  <1>3. CASE UNCHANGED vars
    BY <1>3 DEF vars, Gen!TypeOK
  <1>4. QED
    BY <1>1, <1>2, <1>3 DEF Next

\* With the wall clock below INT64_MAX, the HLC stream's fields and its
\* embedded (pt, lc) keep their types: pt a non-negative int64_t and lc a
\* W-digit counter, however many IDs wid_async_hlc_stream_poll writes.
THEOREM HlcStreamTypeCorrect ==
  ASSUME GenConstants
  PROVE  Spec => []TypeOK
  <1>1. Init => Gen!TypeOK
    BY DEF GenConstants, Init, Gen!Init, Gen!TypeOK, Gen!IntMax
  <1>2. Gen!TypeOK /\ [Next]_vars => Gen!TypeOK'
    BY StreamClockStep
  <1>3. QED
    BY <1>1, <1>2, InitIInv, StepIInv, PTL DEF Spec, IInv, TypeOK

\* With the wall clock below INT64_MAX, the IDs wid_async_hlc_stream_poll
\* writes come from a clock that implements LogicalClock: the stream's
\* control never moves (pt, lc) backwards or past W digits.
THEOREM HlcStreamClock ==
  ASSUME GenConstants
  PROVE  Spec => Gen!ClockSpec
  <1>1. Init => Gen!Clock!Init /\ Gen!TypeOK
    BY DEF GenConstants, Init, Gen!Init, Gen!Clock!Init, Gen!TypeOK, Gen!IntMax
  <1>2. Gen!TypeOK /\ [Next]_vars => Gen!TypeOK' /\ [Gen!Clock!Advance]_<<pt, lc>>
    BY StreamClockStep
  <1>3. QED
    BY <1>1, <1>2, PTL DEF Spec, Gen!ClockSpec, Gen!Clock!Spec
========================================================================
