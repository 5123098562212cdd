---------------------------- MODULE Validator ----------------------------
(***************************************************************************)
(* The grammar validator and parser of wid.h: wid_parse_timestamp,        *)
(* wid_validate_ex, hlc_wid_validate_ex, wid_parse_ex and hlc_wid_parse_ex *)
(* with their character classes.  A string is a sequence of one-character *)
(* strings; C's s[i] is s[i + 1] here.  The unit is "sec" or "ms".        *)
(***************************************************************************)
EXTENDS Integers, Sequences

DigitChars == <<"0", "1", "2", "3", "4", "5", "6", "7", "8", "9">>
Lower == {"a", "b", "c", "d", "e", "f", "g", "h", "i", "j", "k", "l", "m",
          "n", "o", "p", "q", "r", "s", "t", "u", "v", "w", "x", "y", "z"}
Upper == {"A", "B", "C", "D", "E", "F", "G", "H", "I", "J", "K", "L", "M",
          "N", "O", "P", "Q", "R", "S", "T", "U", "V", "W", "X", "Y", "Z"}

\* wid_is_digit, wid_is_alpha, wid_is_alnum, wid_is_lower_hex,
\* wid_is_node_char.
IsDigit(c) == \E d \in 1..10 : DigitChars[d] = c
IsAlpha(c) == c \in Lower \cup Upper
IsAlnum(c) == IsDigit(c) \/ IsAlpha(c)
IsLowerHex(c) == IsDigit(c) \/ c \in {"a", "b", "c", "d", "e", "f"}
IsNodeChar(c) == IsAlnum(c) \/ c = "_"

\* c - '0' for a digit.
DigitVal(c) == CHOOSE d \in 0..9 : DigitChars[d + 1] = c

WidMaxW == 18
WidMaxZ == 64
NodeCap == 64   \* sizeof(parsed_hlc_wid_t.node)

\* Mutant: the leap rule without its century exceptions.
IsLeapYearDiv4(y) == y % 4 = 0

\* wid_is_leap_year.
IsLeapYear(y) ==
    IF y % 400 = 0 THEN TRUE ELSE IF y % 100 = 0 THEN FALSE ELSE y % 4 = 0

\* wid_valid_ymdhms, with its days_in_month table.
DaysInMonthTable == <<31, 28, 31, 30, 31, 30, 31, 31, 30, 31, 30, 31>>
ValidYmdhms(y, mo, d, h, mi, se) ==
    /\ mo \in 1..12
    /\ h \in 0..23
    /\ mi \in 0..59
    /\ se \in 0..59
    /\ LET dim == IF mo = 2 /\ IsLeapYear(y) THEN 29 ELSE DaysInMonthTable[mo]
       IN  d \in 1..dim

\* wid_timestamp_len.
TsLen(u) == IF u = "ms" THEN 18 ELSE 15

\* wid_parse_digits_i64(s + off, n): the value of n digits from C offset
\* off, or -1 at the first non-digit.
ParseDigits(s, off, n) ==
    LET val[k \in 0..n] == IF k = 0 THEN 0
                           ELSE IF val[k - 1] < 0 \/ ~IsDigit(s[off + k]) THEN -1
                           ELSE val[k - 1] * 10 + DigitVal(s[off + k])
    IN  val[n]

\* All characters at C offsets lo..hi-1 are digits.
DigitsAt(s, lo, hi) == \A i \in (lo + 1)..hi : IsDigit(s[i])

\* wid_parse_timestamp: the calendar fields, or ok = FALSE.  Its callers
\* have checked the string is long enough for every offset it reads.
ParseTimestamp(s, u) ==
    LET y  == ParseDigits(s, 0, 4)
        mo == ParseDigits(s, 4, 2)
        d  == ParseDigits(s, 6, 2)
        h  == ParseDigits(s, 9, 2)
        mi == ParseDigits(s, 11, 2)
        se == ParseDigits(s, 13, 2)
        ms == IF u = "ms" THEN ParseDigits(s, 15, 3) ELSE 0
        ok == /\ s[9] = "T"
              /\ DigitsAt(s, 0, 8)
              /\ DigitsAt(s, 9, 15)
              /\ ValidYmdhms(y, mo, d, h, mi, se)
              /\ u = "ms" => DigitsAt(s, 15, 18) /\ ms \in 0..999
              /\ s[TsLen(u) + 1] = "."
    IN  [ok |-> ok, year |-> y, month |-> mo, day |-> d, hour |-> h,
         minute |-> mi, second |-> se, millisecond |-> ms]

\* The tail of s from C offset off.
From(s, off) == SubSeq(s, off + 1, Len(s))

\* wid_valid_suffix(suffix, Z).
ValidSuffix(x, Z) ==
    \/ x = << >>
    \/ /\ x[1] = "-"
       /\ Z > 0
       /\ Len(x) - 1 = Z
       /\ \A i \in 2..Len(x) : IsLowerHex(x[i])

\* The parameter checks common to both validators.
ParamsOk(W, Z) == W \in 1..WidMaxW /\ Z \in 0..WidMaxZ

\* wid_validate_ex(s, W, Z, u).
WidValidate(s, W, Z, u) ==
    LET ts == TsLen(u)
        base == ts + 1 + W + 1
    IN  /\ ParamsOk(W, Z)
        /\ Len(s) >= base
        /\ ParseTimestamp(s, u).ok
        /\ s[ts + 1 + W + 1] = "Z"
        /\ DigitsAt(s, ts + 1, ts + 1 + W)
        /\ ValidSuffix(From(s, base), Z)

\* The C offset of the first '-' at or after C offset off, or 0 when the
\* rest of the string has none (strchr, and the scan of hlc_wid_validate_ex).
DashFrom(s, off) ==
    IF \E i \in (off + 1)..Len(s) : s[i] = "-"
       THEN (CHOOSE i \in (off + 1)..Len(s) :
                s[i] = "-" /\ \A j \in (off + 1)..(i - 1) : s[j] /= "-") - 1
       ELSE 0

\* The node of an HLC-WID: from after "Z-" up to the next '-' or the end.
NodeStart(W, u) == TsLen(u) + 1 + W + 1 + 1
NodeLen(s, W, u) ==
    LET dash == DashFrom(s, NodeStart(W, u))
    IN  IF dash = 0 THEN Len(s) - NodeStart(W, u) ELSE dash - NodeStart(W, u)

\* hlc_wid_validate_ex(s, W, Z, u).
HlcValidate(s, W, Z, u) ==
    LET ts == TsLen(u)
        prefix == ts + 1 + W + 1
        start == NodeStart(W, u)
        dash == DashFrom(s, start)
    IN  /\ ParamsOk(W, Z)
        /\ Len(s) >= prefix + 2
        /\ ParseTimestamp(s, u).ok
        /\ s[ts + 1 + W + 1] = "Z"
        /\ s[ts + 1 + W + 1 + 1] = "-"
        /\ DigitsAt(s, ts + 1, ts + 1 + W)
        /\ \A i \in (start + 1)..(IF dash = 0 THEN Len(s) ELSE dash) : IsNodeChar(s[i])
        /\ NodeLen(s, W, u) > 0
        /\ dash /= 0 => ValidSuffix(From(s, dash), Z)

\* The result of a failed parse.
Fail == [ok |-> FALSE]

\* Mutant: the counter read one character early, from the '.'.
CounterAtDot(s, W, u) == ParseDigits(s, TsLen(u), W)

\* wid_parse_digits_i64(wid + ts_len + 1, W): the sequence or logical counter.
CounterAt(s, W, u) == ParseDigits(s, TsLen(u) + 1, W)

\* The calendar part of parsed_wid_t / parsed_hlc_wid_t.
Calendar(t) ==
    [year |-> t.year, month |-> t.month, day |-> t.day, hour |-> t.hour,
     minute |-> t.minute, second |-> t.second, millisecond |-> t.millisecond]

\* wid_parse_ex(s, W, Z, u, &out): validation, then the fields.
WidParse(s, W, Z, u) ==
    LET ts == TsLen(u)
        suffix == From(s, ts + 1 + W + 1)
        seq == CounterAt(s, W, u)
    IN  IF ~WidValidate(s, W, Z, u) \/ seq < 0
           \/ (suffix /= << >> /\ Len(suffix) - 1 > WidMaxZ)
           THEN Fail
           ELSE [ok |-> TRUE, cal |-> Calendar(ParseTimestamp(s, u)),
                 sequence |-> seq, has_padding |-> suffix /= << >>,
                 padding |-> IF suffix = << >> THEN << >> ELSE Tail(suffix)]

\* hlc_wid_parse_ex(s, W, Z, u, &out): validation, then the fields; a node
\* that does not fit the 64-byte node buffer fails.
HlcParse(s, W, Z, u) ==
    LET ts == TsLen(u)
        start == NodeStart(W, u)
        dash == DashFrom(s, start)
        nlen == NodeLen(s, W, u)
        lcv == CounterAt(s, W, u)
    IN  IF ~HlcValidate(s, W, Z, u) \/ lcv < 0 \/ nlen = 0 \/ nlen >= NodeCap
           \/ (dash /= 0 /\ Len(s) - dash - 1 > WidMaxZ)
           THEN Fail
           ELSE [ok |-> TRUE, cal |-> Calendar(ParseTimestamp(s, u)),
                 logical_counter |-> lcv,
                 node |-> SubSeq(s, start + 1, start + nlen),
                 has_padding |-> dash /= 0,
                 padding |-> IF dash = 0 THEN << >> ELSE From(s, dash + 1)]
=============================================================================
