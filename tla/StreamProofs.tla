---------------------------- MODULE StreamProofs ----------------------------
(***************************************************************************)
(* Proofs about the WID poll stream for every count, interval and clock   *)
(* bound: its fields keep their types, it counts exactly, and the pair of *)
(* its embedded generator implements LogicalClock.                        *)
(***************************************************************************)
EXTENDS WidStream, TLAPS

\* The strengthening of CountExact that a poll preserves: the stream stays
\* initialised, and a finite stream's remaining stays within 0..count.
IInv ==
    /\ TypeOK
    /\ CountExact
    /\ initialized
    /\ count > 0 => remaining \in 0..count

\* The embedded generator's pair keeps its type through wid_gen_next.
LEMMA GenStepTyped ==
  ASSUME Gen!TypeOK, NEW now \in 0..MaxClock, Gen!WidGenNext(now)
  PROVE  Gen!TypeOK'
  BY GenAssumption DEF Gen!TypeOK, Gen!WidGenNext, Gen!NextStamp

LEMMA InitIInv == Init => IInv
  BY StreamAssumption, GenAssumption DEF Init, CtlInit, Gen!Init, IInv, TypeOK, CtlTypeOK,
                          Gen!TypeOK, CountExact, Done, Exhausted

LEMMA StepIInv == IInv /\ [Next]_vars => IInv'
  <1> SUFFICES ASSUME IInv, [Next]_vars PROVE IInv'
    OBVIOUS
  <1> USE StreamAssumption DEF IInv, CountExact, Done, Exhausted
  <1>1. ASSUME NEW now \in 0..MaxClock, PollWid(now) PROVE IInv'
    <2>1. Gen!TypeOK'
      BY <1>1, GenStepTyped DEF PollWid, Poll, TypeOK
    <2>2. CtlTypeOK'
      BY <1>1 DEF PollWid, Poll, Decrement, TypeOK, CtlTypeOK
    <2>3. QED
      BY <1>1, <2>1, <2>2 DEF PollWid, Poll, Decrement, TypeOK, CtlTypeOK
  <1>2. CASE Tick /\ UNCHANGED <<last_tick, last_seq>>
    BY <1>2 DEF Tick, TypeOK, CtlTypeOK, Gen!TypeOK
  <1>3. CASE UNCHANGED vars
    BY <1>3 DEF vars, ctl, TypeOK, CtlTypeOK, Gen!TypeOK
  <1>4. QED
    BY <1>1, <1>2, <1>3 DEF Next

\* wid_async_wid_stream_poll's decrement and the done test agree for every
\* count: a finite stream is done exactly when it has written count IDs,
\* and an infinite one (count 0, remaining -1) is never done.
THEOREM StreamCountExact == Spec => []CountExact
  BY InitIInv, StepIInv, PTL DEF Spec, IInv

\* The stream's fields and the embedded generator keep their types.
THEOREM StreamTypeCorrect == Spec => []TypeOK
  BY InitIInv, StepIInv, PTL DEF Spec, IInv

-----------------------------------------------------------------------------
\* A poll that writes an ID moves the embedded pair strictly up, to a pair
\* whose sequence fits W digits.
LEMMA PollAdvances ==
  ASSUME Gen!TypeOK, NEW now \in 0..MaxClock, Gen!WidGenNext(now)
  PROVE  Gen!Clock!Advance
  <1> USE GenAssumption DEF Gen!TypeOK, Gen!WidGenNext, Gen!NextStamp,
                            Gen!Clock!Advance, Gen!Clock!Stamps, Gen!Clock!StampLess
  <1>1. CASE now > last_tick
    BY <1>1
  <1>2. CASE now <= last_tick
    BY <1>2
  <1>3. QED
    BY <1>1, <1>2

\* The IDs wid_async_wid_stream_poll writes come from a pair that only ever
\* moves strictly up: the stream's control (the due test, the remaining
\* count, the monotonic clock) never steps the embedded wid_gen_t backwards
\* or past W digits, and a poll that writes nothing leaves it alone.  This is
\* the numeric half of EmittedIdsIncrease; the other half, that snprintf's
\* fixed-width rendering orders like the numbers, stays with TLC.
THEOREM StreamClock == Spec => Gen!ClockSpec
  <1>1. Init => Gen!Clock!Init
    BY DEF Init, Gen!Init, Gen!Clock!Init
  <1>2. IInv /\ [Next]_vars => [Gen!Clock!Advance]_<<last_tick, last_seq>>
    <2> SUFFICES ASSUME IInv, [Next]_vars
                 PROVE  [Gen!Clock!Advance]_<<last_tick, last_seq>>
      OBVIOUS
    <2>1. ASSUME NEW now \in 0..MaxClock, PollWid(now)
          PROVE  Gen!Clock!Advance
      BY <2>1, PollAdvances DEF PollWid, Poll, IInv, TypeOK
    <2>2. CASE Tick /\ UNCHANGED <<last_tick, last_seq>>
      BY <2>2
    <2>3. CASE UNCHANGED vars
      BY <2>3 DEF vars
    <2>4. QED
      BY <2>1, <2>2, <2>3 DEF Next
  <1>3. QED
    BY <1>1, <1>2, InitIInv, StepIInv, PTL DEF Spec, Gen!ClockSpec, Gen!Clock!Spec

-----------------------------------------------------------------------------
(***************************************************************************)
(* Pacing.  PacedByInterval is not inductive alone: a poll at time mono   *)
(* is allowed by the due test against next_due_ns, so the strengthening   *)
(* says where next_due_ns stands: the k-th write happened at or after     *)
(* (k - 1) * interval, and set next_due_ns one interval later.             *)
(***************************************************************************)
DueAfterWrites == emitted > 0 => next_due >= emitted * IntervalNs

PInv == CtlTypeOK /\ DueAfterWrites /\ PacedByInterval

LEMMA PInvInit == Init => PInv
  BY StreamAssumption DEF Init, CtlInit, PInv, CtlTypeOK, DueAfterWrites,
                          PacedByInterval

LEMMA PInvStep == PInv /\ [Next]_vars => PInv'
  <1> SUFFICES ASSUME PInv, [Next]_vars PROVE PInv'
    OBVIOUS
  <1> USE StreamAssumption DEF PInv, CtlTypeOK
  <1>1. ASSUME NEW now \in 0..MaxClock, PollWid(now) PROVE PInv'
    <2>1. /\ ~NotDue
          /\ emitted' = emitted + 1 /\ next_due' = mono + IntervalNs
          /\ mono' = mono /\ count' = count /\ initialized' = initialized
          /\ remaining' = Decrement(remaining)
      BY <1>1 DEF PollWid, Poll
    <2>2. CtlTypeOK'
      BY <2>1 DEF Decrement
    \* The write is due: either it is the first, or next_due_ns has passed.
    <2>3. mono >= emitted * IntervalNs
      <3>1. CASE emitted = 0
        BY <3>1
      <3>2. CASE emitted > 0 /\ IntervalNs = 0
        BY <3>2
      <3>3. CASE emitted > 0 /\ IntervalNs > 0
        <4>1. emitted * IntervalNs >= IntervalNs
          BY <3>3
        <4>2. next_due >= emitted * IntervalNs
          BY <3>3 DEF DueAfterWrites
        <4>3. next_due > 0 /\ mono >= next_due
          BY <3>3, <2>1, <4>1, <4>2 DEF NotDue
        <4>4. QED
          BY <4>2, <4>3
      <3>4. QED
        BY <3>1, <3>2, <3>3
    <2>4. (emitted + 1) * IntervalNs = emitted * IntervalNs + IntervalNs
      OBVIOUS
    <2>5. DueAfterWrites'
      BY <2>1, <2>3, <2>4 DEF DueAfterWrites
    <2>6. PacedByInterval'
      BY <2>1, <2>3 DEF PacedByInterval
    <2>7. QED
      BY <2>2, <2>5, <2>6
  <1>2. CASE Tick /\ UNCHANGED <<last_tick, last_seq>>
    <2>1. mono' = mono + 1 /\ UNCHANGED <<remaining, next_due, initialized, count, emitted>>
      BY <1>2 DEF Tick
    <2>2. QED
      BY <2>1 DEF DueAfterWrites, PacedByInterval
  <1>3. CASE UNCHANGED vars
    BY <1>3 DEF vars, ctl, DueAfterWrites, PacedByInterval
  <1>4. QED
    BY <1>1, <1>2, <1>3 DEF Next

\* For every count, interval and clock bound, however often the caller
\* polls, wid_async_wid_stream_poll writes the k-th ID no earlier than
\* (k - 1) intervals after the stream's first poll: the not-due test and
\* next_due_ns = now_ns + interval pace the stream (the run wid_stream
\* checks PacedByInterval on W = 2 with interval 2).
THEOREM StreamPaced == Spec => []PacedByInterval
  BY PInvInit, PInvStep, PTL DEF Spec, PInv
========================================================================
