------------------------------- MODULE HlcGen -------------------------------
(***************************************************************************)
(* The HLC-WID generator of wid.h: hlc_wid_gen_t, hlc_wid_gen_init_ex,    *)
(* hlc_wid_gen_next, hlc_wid_observe and hlc_wid_rollover_if_needed.      *)
(* The state is the hybrid logical clock (pt, lc) in int64_t.             *)
(*                                                                         *)
(* Inputs: the wall clock, any tick of 0..MaxClock on every call; and the *)
(* (remote_pt, remote_lc) a caller passes to hlc_wid_observe, taken from  *)
(* RemotePT and RemoteLC.  The node name and the padding do not take part *)
(* in the clock and are left out.                                          *)
(***************************************************************************)
EXTENDS Integers, CInt

CONSTANTS W,          \* gen->W after hlc_wid_gen_init_ex's clamping
          MaxClock,   \* the largest wall-clock tick the model reads
          RemotePT,   \* remote_pt values a caller may pass to observe
          RemoteLC    \* remote_lc values a caller may pass to observe

\* gen->max_lc = wid_pow10_i64(W) - 1 (no saturation for W <= 18).
MaxLc == 10^W - 1

ASSUME WidthAssumption == W \in 1..18
ASSUME ClockAssumption == MaxClock \in Nat
ASSUME RemoteAssumption == RemotePT \subseteq IntRange /\ RemoteLC \subseteq IntRange
\* max_lc is a natural number below INT64_MAX: with W <= 18, 10^18 - 1 fits
\* int64_t (the "load-bearing" limit of spec.md 9); evaluated by TLC.
ASSUME MaxLcAssumption == MaxLc \in 0..(IntMax - 1)

VARIABLES pt, lc

vars == <<pt, lc>>

\* hlc_wid_gen_init_ex after a valid node name.
Init ==
    /\ pt = 0
    /\ lc = 0

\* Mutant: rollover tested one past max_lc.
SetWithRolloverLate(p, l) ==
    IF l > MaxLc + 1
       THEN /\ pt' = Wrap(p + 1)
            /\ lc' = 0
       ELSE /\ pt' = p
            /\ lc' = l

\* hlc_wid_rollover_if_needed applied to the clock (p, l) the caller just
\* computed: a counter past max_lc bumps the physical time.
SetWithRollover(p, l) ==
    IF l > MaxLc
       THEN /\ pt' = Wrap(p + 1)
            /\ lc' = 0
       ELSE /\ pt' = p
            /\ lc' = l

\* The model stops calling once pt passes MaxClock (PtCap).
PtCap == pt <= MaxClock

\* Mutant: a clock reading equal to pt restarts the counter.
HlcGenNextReset(now) ==
    /\ PtCap
    /\ IF now >= pt
          THEN SetWithRollover(now, 0)
          ELSE SetWithRollover(pt, Wrap(lc + 1))

\* hlc_wid_gen_next with the wall clock reading now.
HlcGenNext(now) ==
    /\ PtCap
    /\ IF now > pt
          THEN SetWithRollover(now, 0)
          ELSE SetWithRollover(pt, Wrap(lc + 1))

\* new_pt of hlc_wid_observe: the largest of now, pt and remote_pt.
ObservedPt(now, rpt) ==
    LET a == IF pt > now THEN pt ELSE now
    IN  IF rpt > a THEN rpt ELSE a

\* Mutant: equal physical times ignore the remote counter.
ObservedLcLocal(np, rpt, rlc) ==
    IF np = pt THEN Wrap(lc + 1)
    ELSE IF np = rpt THEN Wrap(rlc + 1)
    ELSE 0

\* The logical counter hlc_wid_observe computes for new_pt np.
ObservedLc(np, rpt, rlc) ==
    IF np = pt /\ np = rpt THEN Wrap((IF lc > rlc THEN lc ELSE rlc) + 1)
    ELSE IF np = pt THEN Wrap(lc + 1)
    ELSE IF np = rpt THEN Wrap(rlc + 1)
    ELSE 0

\* hlc_wid_observe(gen, rpt, rlc) with the wall clock reading now.  A call
\* with a negative argument returns false and changes nothing: a stuttering
\* step, which every specification allows, so the action has that guard.
HlcObserve(now, rpt, rlc) ==
    /\ PtCap
    /\ rpt >= 0
    /\ rlc >= 0
    /\ LET np == ObservedPt(now, rpt)
       IN  SetWithRollover(np, ObservedLc(np, rpt, rlc))

Next ==
    \/ \E now \in 0..MaxClock : HlcGenNext(now)
    \/ \E now \in 0..MaxClock, rpt \in RemotePT, rlc \in RemoteLC :
          HlcObserve(now, rpt, rlc)

Spec == Init /\ [][Next]_vars

-----------------------------------------------------------------------------
(* Properties *)

\* The clock's type: pt a non-negative int64_t, lc a W-digit counter.
TypeOK ==
    /\ pt \in 0..IntMax
    /\ lc \in 0..MaxLc

\* Lexicographic order on (pt, lc).
HlcLess(p1, l1, p2, l2) == p1 < p2 \/ (p1 = p2 /\ l1 < l2)

\* spec.md 4.5 and 8: after observe(rpt, rlc) the clock is strictly above
\* the remote event, (pt, lc) > (rpt, rlc), so an ID this node emits next
\* is ordered after the remote ID it has seen.
ObserveDominatesRemote ==
    [][\A now \in 0..MaxClock, rpt \in RemotePT, rlc \in RemoteLC :
          HlcObserve(now, rpt, rlc) => HlcLess(rpt, rlc, pt', lc')]_vars

\* spec.md 3: pt never decreases, whatever next and observe are given.
PtNeverDecreases == [][pt' >= pt]_vars

\* hlc_wid_gen_t implements the abstract generator: (pt, lc) moves strictly
\* up on every successful next/observe and lc always fits W digits.
Clock == INSTANCE LogicalClock WITH Start <- <<0, 0>>, MaxCounter <- MaxLc,
                                    stamp <- <<pt, lc>>
ClockSpec == Clock!Spec

=============================================================================
