------------------------------- MODULE IdText -------------------------------
(***************************************************************************)
(* The characters of an ID and the conversions wid.h applies to its       *)
(* counter field.  A string is a sequence of byte values; strcmp order on  *)
(* strings of printable ASCII is the lexicographic order on those bytes.  *)
(***************************************************************************)
EXTENDS Integers, Sequences

Dot   == 46     \* '.'
Minus == 45     \* '-'
ZChr  == 90     \* 'Z'
Digit(d) == 48 + d      \* '0' + d

\* The decimal digits of n >= 0, most significant first, as printf makes them.
DigitsOf[n \in Nat] ==
    IF n < 10 THEN <<n>> ELSE Append(DigitsOf[n \div 10], n % 10)

\* Mutant: "%lld" without the zero fill.
Fmt0Unpadded(w, n) ==
    LET mag == DigitsOf[IF n < 0 THEN -n ELSE n]
    IN  (IF n < 0 THEN <<Minus>> ELSE << >>) \o [i \in 1..Len(mag) |-> Digit(mag[i])]

\* snprintf(buf, sz, "%0*lld", w, n): at least w characters, zero-filled
\* after the sign.
Fmt0(w, n) ==
    LET mag  == DigitsOf[IF n < 0 THEN -n ELSE n]
        sign == IF n < 0 THEN <<Minus>> ELSE << >>
        fill == w - Len(sign) - Len(mag)
    IN  sign \o [i \in 1..fill |-> Digit(0)] \o [i \in 1..Len(mag) |-> Digit(mag[i])]

\* strcmp(a, b) < 0.
StrLess(a, b) ==
    \E k \in 0..Len(a) :
        /\ k <= Len(b)
        /\ SubSeq(a, 1, k) = SubSeq(b, 1, k)
        /\ \/ k = Len(a) /\ k < Len(b)
           \/ k < Len(a) /\ k < Len(b) /\ a[k + 1] < b[k + 1]

\* The part of an ID after the timestamp and before the padding:
\* "." <counter in W digits> "Z".
CounterField(w, n) == <<Dot>> \o Fmt0(w, n) \o <<ZChr>>

=============================================================================
