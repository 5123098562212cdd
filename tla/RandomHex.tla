---------------------------- MODULE RandomHex ----------------------------
(***************************************************************************)
(* The padding of wid_gen_next and hlc_wid_gen_next: the Z the generator   *)
(* was initialised with, after wid_gen_init_ex's defaulting and clamping,  *)
(* and the bytes wid_random_hex writes into its local raw buffer (fread    *)
(* from /dev/urandom, or rand() when it cannot be opened) before turning   *)
(* each into one lowercase hex digit.  The byte values are left out.       *)
(***************************************************************************)
EXTENDS Integers

CONSTANT ZArgs   \* the Z arguments a caller passes to wid_gen_init_ex


WidDefaultZ == 6
WidMaxZ == 64
RawSize == (WidMaxZ \div 2) + 1   \* unsigned char raw[(WID_MAX_Z / 2) + 1]

\* gen->Z: a negative Z takes the default, a large one is clamped to 64.
GenZ(Z) == IF Z >= 0 THEN (IF Z > WidMaxZ THEN WidMaxZ ELSE Z) ELSE WidDefaultZ

VARIABLES gz,       \* gen->Z
          written   \* bytes the last wid_random_hex call wrote into raw

vars == <<gz, written>>

\* wid_gen_init_ex(&g, W, Z, unit) for some Z of the caller's.
Init ==
    /\ \E Z \in ZArgs : gz = GenZ(Z)
    /\ written = 0

\* The padding step of wid_gen_next: with Z > 0, wid_random_hex(pad, Z)
\* reads Z bytes into raw, whichever source it uses.
RandomHexCall ==
    /\ gz > 0
    /\ written' = gz
    /\ UNCHANGED gz

Spec == Init /\ [][RandomHexCall]_vars

\* Every byte wid_random_hex stores lands inside its raw buffer.
RawInBounds == written <= RawSize
=============================================================================
