------------------------------- MODULE WidGen -------------------------------
(***************************************************************************)
(* The single-node WID generator of wid.h: wid_gen_t, wid_gen_init_ex and *)
(* wid_gen_next.  The state is the pair (last_tick, last_seq); an ID is   *)
(* emitted from the new pair at the end of every wid_gen_next.           *)
(*                                                                         *)
(* The wall clock (wid_now_tick) is an input read once per call; it may   *)
(* take any value of 0..MaxClock on every call, so it can stall, jump     *)
(* forward or be set back between two calls.  The random padding is not   *)
(* part of the state and does not take part in the order of IDs.          *)
(***************************************************************************)
EXTENDS Integers, IdText

CONSTANTS W,         \* the W passed to wid_gen_init_ex
          MaxClock   \* the largest wall-clock tick the model reads

WidDefaultW == 4     \* WID_DEFAULT_W
WidMaxW == 18        \* WID_MAX_W

\* gen->W: wid_gen_init_ex replaces W <= 0 by the default and clamps to 18.
GenW == IF W > 0 THEN (IF W > WidMaxW THEN WidMaxW ELSE W) ELSE WidDefaultW

\* gen->max_seq = wid_pow10_i64(W) - 1; the loop's saturation at INT64_MAX
\* needs 19 digits and is unreachable with W <= 18.
MaxSeq == 10^GenW - 1

ASSUME WidthAssumption == W \in Int
ASSUME ClockAssumption == MaxClock \in Nat
\* 10^W - 1 is a natural number: a fact of arithmetic the provers cannot
\* derive without induction, evaluated by TLC.
ASSUME MaxSeqAssumption == MaxSeq \in Nat

VARIABLES last_tick, last_seq

vars == <<last_tick, last_seq>>

\* wid_gen_init_ex: no ID emitted yet.
Init ==
    /\ last_tick = 0
    /\ last_seq = -1

\* Mutant: the tick taken from the clock without the max against last_tick.
NextStampNoMax(lt, ls, now) ==
    LET seq == IF now = lt THEN ls + 1 ELSE 0
    IN  IF seq > MaxSeq THEN <<now + 1, 0>> ELSE <<now, seq>>

\* Mutant: the borrow tested one past max_seq.
NextStampLateBorrow(lt, ls, now) ==
    LET tick == IF now > lt THEN now ELSE lt
        seq  == IF tick = lt THEN ls + 1 ELSE 0
    IN  IF seq > MaxSeq + 1 THEN <<tick + 1, 0>> ELSE <<tick, seq>>

\* The pair wid_gen_next computes from (lt, ls) with the wall clock reading
\* now: the tick is the larger of now and lt; the sequence restarts on a new
\* tick; a sequence that does not fit W digits borrows the next tick.
NextStamp(lt, ls, now) ==
    LET tick == IF now > lt THEN now ELSE lt
        seq  == IF tick = lt THEN ls + 1 ELSE 0
    IN  IF seq > MaxSeq THEN <<tick + 1, 0>> ELSE <<tick, seq>>

\* wid_gen_next with the wall clock reading now.  The model stops calling
\* once last_tick passes MaxClock (TickCap).
TickCap == last_tick <= MaxClock

WidGenNext(now) ==
    /\ TickCap
    /\ last_tick' = NextStamp(last_tick, last_seq, now)[1]
    /\ last_seq'  = NextStamp(last_tick, last_seq, now)[2]

Next == \E now \in 0..MaxClock : WidGenNext(now)

Spec == Init /\ [][Next]_vars

-----------------------------------------------------------------------------
(* Properties *)

\* The generator's pair: tick a natural number, and the sequence either the
\* -1 of a fresh generator (only at tick 0) or a value that fits W digits.
TypeOK ==
    /\ last_tick \in Nat
    /\ last_seq \in -1..MaxSeq
    /\ last_seq = -1 => last_tick = 0

\* wid_gen_t implements the abstract generator: (last_tick, last_seq) moves
\* strictly up on every call and its sequence always fits W digits.
Clock == INSTANCE LogicalClock WITH Start <- <<0, -1>>, MaxCounter <- MaxSeq,
                                    stamp <- <<last_tick, last_seq>>
ClockSpec == Clock!Spec

=============================================================================
