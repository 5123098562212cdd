-------------------------------- MODULE CInt --------------------------------
(***************************************************************************)
(* Two's-complement signed integers of a fixed width, as the int64_t      *)
(* arithmetic of wid.h is compiled.  The code's width is 64 bits; a model *)
(* scales it down with a small IntBits so that TLC reaches the limits.    *)
(*                                                                         *)
(* Signed overflow is undefined behaviour in C.  The additions of wid.h   *)
(* that can overflow (hlc_wid_observe, hlc_wid_rollover_if_needed) are    *)
(* single ADD instructions on every target gcc and clang emit code for,   *)
(* so the only outcome the build produces is the wrapped value, Wrap(x).  *)
(***************************************************************************)
EXTENDS Integers

CONSTANT IntBits   \* the width of int64_t (64 in the code)

\* Half of the number of representable values: 2^(IntBits - 1).
Half == 2^(IntBits - 1)

IntMax == Half - 1          \* INT64_MAX
IntMin == -Half             \* INT64_MIN
IntRange == IntMin..IntMax

ASSUME IntBitsAssumption == IntBits \in Nat \ {0} /\ Half \in Nat \ {0}

\* The value an int64_t addition stores when the exact result is x.
Wrap(x) == ((x + Half) % (2 * Half)) - Half

=============================================================================
