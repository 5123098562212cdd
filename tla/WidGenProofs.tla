---------------------------- MODULE WidGenProofs ----------------------------
(***************************************************************************)
(* Proofs about the WID generator for every W and every clock bound:      *)
(* TypeOK is inductive, and wid_gen_t implements LogicalClock (its pair   *)
(* moves strictly up and its sequence fits W digits).                     *)
(***************************************************************************)
EXTENDS WidGen, TLAPS

\* TypeOK holds initially and is kept by every call of wid_gen_next: the
\* sequence never leaves -1..max_seq, whatever the clock reads.
THEOREM TypeCorrect == Spec => []TypeOK
  <1>1. Init => TypeOK
    BY MaxSeqAssumption DEF Init, TypeOK
  <1>2. TypeOK /\ [Next]_vars => TypeOK'
    <2> SUFFICES ASSUME TypeOK, [Next]_vars PROVE TypeOK'
      OBVIOUS
    <2>1. ASSUME NEW now \in 0..MaxClock, WidGenNext(now) PROVE TypeOK'
      BY <2>1, MaxSeqAssumption, ClockAssumption DEF WidGenNext, NextStamp, TypeOK
    <2>2. CASE UNCHANGED vars
      BY <2>2 DEF vars, TypeOK
    <2>3. QED
      BY <2>1, <2>2 DEF Next
  <1>3. QED
    BY <1>1, <1>2, PTL DEF Spec

\* Every step of wid_gen_next is a step of the abstract generator: the new
\* pair is a stamp and lies strictly above the old one.
LEMMA NextAdvances ==
  ASSUME TypeOK, NEW now \in 0..MaxClock, WidGenNext(now)
  PROVE  Clock!Advance
  <1> USE MaxSeqAssumption, ClockAssumption DEF TypeOK, WidGenNext, NextStamp
  <1>1. CASE now > last_tick
    BY <1>1 DEF Clock!Advance, Clock!Stamps, Clock!StampLess
  <1>2. CASE now <= last_tick
    BY <1>2 DEF Clock!Advance, Clock!Stamps, Clock!StampLess
  <1>3. QED
    BY <1>1, <1>2

\* wid_gen_t implements LogicalClock under the mapping
\* stamp <- <<last_tick, last_seq>>.
THEOREM Refinement == Spec => ClockSpec
  <1>1. Init => Clock!Init
    BY DEF Init, Clock!Init
  <1>2. TypeOK /\ [Next]_vars => [Clock!Advance]_<<last_tick, last_seq>>
    <2> SUFFICES ASSUME TypeOK, [Next]_vars
                 PROVE  [Clock!Advance]_<<last_tick, last_seq>>
      OBVIOUS
    <2>1. ASSUME NEW now \in 0..MaxClock, WidGenNext(now)
          PROVE  Clock!Advance
      BY <2>1, NextAdvances
    <2>2. CASE UNCHANGED vars
      BY <2>2 DEF vars
    <2>3. QED
      BY <2>1, <2>2 DEF Next
  <1>3. QED
    BY <1>1, <1>2, TypeCorrect, PTL DEF Spec, ClockSpec, Clock!Spec

=============================================================================
