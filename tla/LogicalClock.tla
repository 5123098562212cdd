---------------------------- MODULE LogicalClock ----------------------------
(***************************************************************************)
(* What a WID or HLC-WID generator promises its caller (spec.md 3 and 5):  *)
(* its state is a stamp <<time, counter>>, the counter fits the W decimal  *)
(* digits of the ID, and every successful next/observe moves the stamp     *)
(* strictly up in lexicographic order.  Both generators of wid.h, and the  *)
(* shared SQL-backed allocator of main.c, are shown to implement it.       *)
(***************************************************************************)
EXTENDS Integers

CONSTANTS Start,       \* the stamp of a freshly initialised generator
          MaxCounter   \* 10^W - 1, the largest counter W digits can show

VARIABLE stamp

\* The stamps an ID can carry: a non-negative time and a W-digit counter.
Stamps == Nat \X (0..MaxCounter)

\* Lexicographic order on stamps: by time, then by counter.
StampLess(a, b) == a[1] < b[1] \/ (a[1] = b[1] /\ a[2] < b[2])

Init == stamp = Start

\* One emission: a new stamp, strictly above the previous one.
Advance == stamp' \in Stamps /\ StampLess(stamp, stamp')

Spec == Init /\ [][Advance]_stamp

=============================================================================
