---------------------------- MODULE IdGrammar ----------------------------
(***************************************************************************)
(* The identifier grammar of spec.md section 3, as a reference the        *)
(* validator is checked against.  It is written from the grammar, not     *)
(* from the code: each ID is split at the fixed offsets the grammar gives *)
(* and each part is tested against its production.                        *)
(***************************************************************************)
EXTENDS Integers, Sequences

GDigits == {"0", "1", "2", "3", "4", "5", "6", "7", "8", "9"}
GHex == GDigits \cup {"a", "b", "c", "d", "e", "f"}
GNodeChars == GDigits \cup {"_",
    "a", "b", "c", "d", "e", "f", "g", "h", "i", "j", "k", "l", "m",
    "n", "o", "p", "q", "r", "s", "t", "u", "v", "w", "x", "y", "z",
    "A", "B", "C", "D", "E", "F", "G", "H", "I", "J", "K", "L", "M",
    "N", "O", "P", "Q", "R", "S", "T", "U", "V", "W", "X", "Y", "Z"}

\* Every character of x is in the set cs.
AllIn(x, cs) == \A i \in 1..Len(x) : x[i] \in cs

\* The number a string of digits denotes.
GNum(x) ==
    LET v[k \in 0..Len(x)] ==
            IF k = 0 THEN 0
            ELSE v[k - 1] * 10 + CHOOSE d \in 0..9 :
                     x[k] = <<"0", "1", "2", "3", "4", "5", "6", "7", "8", "9">>[d + 1]
    IN  v[Len(x)]

\* The Gregorian month lengths.
GLeap(y) == (y % 4 = 0 /\ y % 100 /= 0) \/ y % 400 = 0
GMonthDays(y, m) ==
    IF m \in {4, 6, 9, 11} THEN 30
    ELSE IF m = 2 THEN (IF GLeap(y) THEN 29 ELSE 28)
    ELSE 31

GTsLen(u) == IF u = "sec" THEN 15 ELSE 18

\* The fields of TS(u): YYYYMMDD "T" HHMMSS [mmm].
GFields(t) ==
    [year |-> GNum(SubSeq(t, 1, 4)), month |-> GNum(SubSeq(t, 5, 6)),
     day |-> GNum(SubSeq(t, 7, 8)), hour |-> GNum(SubSeq(t, 10, 11)),
     minute |-> GNum(SubSeq(t, 12, 13)), second |-> GNum(SubSeq(t, 14, 15)),
     millisecond |-> IF Len(t) = 18 THEN GNum(SubSeq(t, 16, 18)) ELSE 0]

\* TS(u) with the calendar constraints.
GTs(t, u) ==
    /\ Len(t) = GTsLen(u)
    /\ t[9] = "T"
    /\ AllIn(SubSeq(t, 1, 8), GDigits)
    /\ AllIn(SubSeq(t, 10, Len(t)), GDigits)
    /\ LET f == GFields(t)
       IN  /\ f.month \in 1..12
           /\ f.day \in 1..GMonthDays(f.year, f.month)
           /\ f.hour \in 0..23 /\ f.minute \in 0..59 /\ f.second \in 0..59

\* "-" PAD(Z): padding exists only for Z > 0 (spec.md 9: Z = 0 means no
\* padding and no trailing dash).
GPad(p, Z) == Z > 0 /\ Len(p) = Z + 1 /\ p[1] = "-" /\ AllIn(Tail(p), GHex)

\* The head TS(u) "." SEQ(W) "Z" of both grammars, of length GHead.
GHead(W, u) == GTsLen(u) + 1 + W + 1
GHeadOk(s, W, u) ==
    /\ Len(s) >= GHead(W, u)
    /\ GTs(SubSeq(s, 1, GTsLen(u)), u)
    /\ s[GTsLen(u) + 1] = "."
    /\ AllIn(SubSeq(s, GTsLen(u) + 2, GTsLen(u) + 1 + W), GDigits)
    /\ s[GHead(W, u)] = "Z"

GParams(W, Z) == W \in 1..18 /\ Z \in 0..64

\* WID = TS(u) "." SEQ(W) "Z" [ "-" PAD(Z) ], the padding optional as the
\* brackets of the grammar make it.
GWid(s, W, Z, u) ==
    /\ GParams(W, Z)
    /\ GHeadOk(s, W, u)
    /\ LET rest == SubSeq(s, GHead(W, u) + 1, Len(s))
       IN  rest = << >> \/ GPad(rest, Z)

\* The same with the parenthetical of the grammar: padding present iff Z > 0.
GWidStrict(s, W, Z, u) ==
    /\ GWid(s, W, Z, u)
    /\ (Len(s) > GHead(W, u)) <=> Z > 0

\* HLC-WID = TS(u) "." SEQ(W) "Z" "-" NODE [ "-" PAD(Z) ].  NODE has no '-',
\* so it ends at the first '-' after "Z-".
GNodeEnd(s, W, u) ==
    LET after == {i \in (GHead(W, u) + 2)..Len(s) : s[i] = "-"}
    IN  IF after = {} THEN Len(s) + 1
        ELSE CHOOSE i \in after : \A j \in after : i <= j
GHlc(s, W, Z, u) ==
    /\ GParams(W, Z)
    /\ GHeadOk(s, W, u)
    /\ Len(s) >= GHead(W, u) + 2
    /\ s[GHead(W, u) + 1] = "-"
    /\ LET e == GNodeEnd(s, W, u)
           node == SubSeq(s, GHead(W, u) + 2, e - 1)
           rest == SubSeq(s, e, Len(s))
       IN  /\ node /= << >> /\ AllIn(node, GNodeChars)
           /\ rest = << >> \/ GPad(rest, Z)
=============================================================================
