------------------------------- MODULE IdFormat -------------------------------
(***************************************************************************)
(* How wid.h renders an ID from a generator's state: wid_fmt_tick (the     *)
(* timestamp, through gmtime_r and strftime), the node copy of             *)
(* hlc_wid_gen_init_ex, and the final snprintf of wid_gen_next and         *)
(* hlc_wid_gen_next.  Strings are sequences of byte values, as in IdText. *)
(*                                                                         *)
(* gmtime_r is the C library's; it is modelled by what POSIX defines it to *)
(* compute: the broken-down UTC time whose "seconds since the Epoch"       *)
(* expression equals its argument.                                         *)
(***************************************************************************)
EXTENDS Integers, Sequences, IdText

TChr == 84   \* 'T'

\* C's int64 / and % with a positive divisor: the quotient is truncated
\* toward zero, and the remainder takes the sign of the dividend.
CDiv(a, b) == IF a >= 0 THEN a \div b ELSE -((-a) \div b)
CMod(a, b) == a - b * CDiv(a, b)

\* The proleptic Gregorian calendar gmtime_r works in.
IsLeap(y) == y % 4 = 0 /\ (y % 100 /= 0 \/ y % 400 = 0)

\* Days from 1970-01-01 to 1 January of year y: the POSIX seconds-since-
\* the-Epoch expression (tm_year = y - 1900) divided by 86400.
YearStart(y) == 365 * (y - 1970) + (y - 1969) \div 4 - (y - 1901) \div 100
                + (y - 1601) \div 400

\* Days of year y before the first of month m (m = 13: the whole year).
MonthStart(y, m) ==
    <<0, 31, 59, 90, 120, 151, 181, 212, 243, 273, 304, 334, 365>>[m]
    + (IF m > 2 /\ IsLeap(y) THEN 1 ELSE 0)

\* gmtime_r(&t): the year is the one whose days contain t's day; the
\* candidates lie between t's day / 366 and / 365 years after 1970.
GmTime(t) ==
    LET days == t \div 86400
        sod  == t % 86400
        y    == CHOOSE y \in (1970 + days \div 366 - 1)..(1970 + days \div 365 + 1) :
                    YearStart(y) <= days /\ days < YearStart(y + 1)
        yday == days - YearStart(y)
        m    == CHOOSE m \in 1..12 : MonthStart(y, m) <= yday /\ yday < MonthStart(y, m + 1)
    IN  [year |-> y, month |-> m, day |-> yday - MonthStart(y, m) + 1,
         hour |-> sod \div 3600, minute |-> (sod % 3600) \div 60, second |-> sod % 60]

\* gmtime_r returns NULL when the year does not fit tm_year's int.
GmTimeFails(t) ==
    LET tmYear == GmTime(t).year - 1900
    IN  tmYear > 2147483647 \/ tmYear < -2147483647 - 1

\* The seconds and the millisecond wid_fmt_tick splits a tick into.
TickSec(unit, tick) == IF unit = "ms" THEN CDiv(tick, 1000) ELSE tick
TickMs(unit, tick) ==
    IF unit = "ms"
       THEN IF CMod(tick, 1000) < 0 THEN CMod(tick, 1000) + 1000 ELSE CMod(tick, 1000)
       ELSE 0

\* Mutant: the millisecond printed with "%02d".
FmtTickMs2(unit, tick) ==
    LET tm == GmTime(TickSec(unit, tick))
        base == Fmt0(1, tm.year) \o Fmt0(2, tm.month) \o Fmt0(2, tm.day) \o <<TChr>>
                \o Fmt0(2, tm.hour) \o Fmt0(2, tm.minute) \o Fmt0(2, tm.second)
    IN  IF GmTimeFails(TickSec(unit, tick)) THEN << >>
        ELSE IF unit = "ms" THEN base \o Fmt0(2, TickMs(unit, tick)) ELSE base

\* wid_fmt_tick(unit, tick, out): strftime "%Y%m%dT%H%M%S" of the UTC time
\* (%Y unpadded, the rest two digits), then "%03d" of the millisecond in
\* ms unit; the empty string when gmtime_r fails.
FmtTick(unit, tick) ==
    LET tm == GmTime(TickSec(unit, tick))
        base == Fmt0(1, tm.year) \o Fmt0(2, tm.month) \o Fmt0(2, tm.day) \o <<TChr>>
                \o Fmt0(2, tm.hour) \o Fmt0(2, tm.minute) \o Fmt0(2, tm.second)
    IN  IF GmTimeFails(TickSec(unit, tick)) THEN << >>
        ELSE IF unit = "ms" THEN base \o Fmt0(3, TickMs(unit, tick)) ELSE base

NodeBuf == 64   \* sizeof(hlc_wid_gen_t.node)

\* gen->node after strncpy(gen->node, node, sizeof - 1) and the terminator:
\* at most 63 bytes of the node argument.
GenNode(node) == SubSeq(node, 1, IF Len(node) > NodeBuf - 1 THEN NodeBuf - 1 ELSE Len(node))

\* The suffix "-<pad>" both generators append when Z > 0.
PadPart(z, pad) == IF z > 0 THEN <<Minus>> \o pad ELSE << >>

\* wid_gen_next's snprintf: "%s.%sZ-%s" or "%s.%sZ".
RenderWid(unit, tick, w, seq, z, pad) ==
    FmtTick(unit, tick) \o CounterField(w, seq) \o PadPart(z, pad)

\* hlc_wid_gen_next's snprintf: "%s.%sZ-%s-%s" or "%s.%sZ-%s".
RenderHlc(unit, pt, w, lc, node, z, pad) ==
    FmtTick(unit, pt) \o CounterField(w, lc) \o <<Minus>> \o node \o PadPart(z, pad)
=============================================================================
