------------------------- MODULE MCValidatorCheck -------------------------
EXTENDS ValidatorCheck

\* n as k zero-filled decimal characters.
Num(n, k) == [i \in 1..k |-> DigitChars[((n \div 10^(k - i)) % 10) + 1]]

\* A sec-unit timestamp YYYYMMDDTHHMMSS.
Ts(y, mo, d, h, mi, se) ==
    Num(y, 4) \o Num(mo, 2) \o Num(d, 2) \o <<"T">> \o Num(h, 2) \o Num(mi, 2) \o Num(se, 2)

\* Timestamps: valid and invalid dates and times, a missing T, a letter,
\* and an ms-unit one.
MCTimestamps ==
    { Ts(2024, 2, 29, 23, 59, 59), Ts(2023, 2, 29, 12, 0, 0),
      Ts(2100, 2, 29, 0, 0, 0), Ts(2000, 2, 29, 0, 0, 0),
      Ts(2024, 13, 1, 0, 0, 0), Ts(2024, 11, 31, 0, 0, 0),
      Ts(2024, 1, 1, 24, 0, 0),
      Num(20240101, 8) \o <<"X">> \o Num(0, 6),
      <<"2", "0", "2", "a">> \o Num(101, 4) \o <<"T">> \o Num(0, 6),
      Ts(2024, 1, 1, 0, 0, 0) \o Num(999, 3) }

\* Counter fields of one and two characters, one with a letter.
MCCounters == { Num(7, 2), <<"7">>, <<"0", "a">> }

MCZChars == { <<"Z">>, <<"z">> }

\* What follows "Z": nothing, padding of several lengths and cases, nodes,
\* nodes with padding, an empty node, a node with a bad character.
MCTails ==
    { << >>, <<"-">>, <<"-", "a", "b">>, <<"-", "a", "B">>, <<"-", "a">>,
      <<"-", "a", "b", "c">>, <<"-", "n">>, <<"-", "n", "-", "a", "b">>,
      <<"-", "n", "_", "1">>, <<"-", "n", "-">>, <<"-", "-", "a", "b">>,
      <<"-", "N", "-", "a", "B">>, <<"-", "n", "T", "-", "a", "b">> }

MCCandidates ==
    { t \o <<".">> \o c \o zc \o x :
        t \in MCTimestamps, c \in MCCounters, zc \in MCZChars, x \in MCTails }

\* A valid HLC-WID whose node is 64 characters long.
MCLongNode ==
    MCCandidates \cup
    { Ts(2024, 2, 29, 23, 59, 59) \o <<".">> \o Num(7, 2) \o <<"Z", "-">>
        \o [i \in 1..NodeCap |-> "n"] }

\* Ticks in sec unit: the epoch, the ends of the first day, both ends of
\* 2000-02-29 (a leap day of a century year), the last second of 2000 and
\* of 2024, 2024-02-29, and the largest tick TLC's integers hold
\* (2038-01-19T03:14:07).
MCSecTicks == {0, 59, 86399, 86400, 951782400, 951868799, 978307199,
               1709164800, 1735689599, 2147483647}

\* Ticks in ms unit: both ends of a second and of a day, and the largest.
MCMsTicks == {0, 999, 1000, 86399999, 86400000, 2147483647}

\* Node arguments: one byte, an underscore, and 64 bytes (one more than
\* the node buffer keeps).
MCNodeArgs == {<<110>>, <<110, 95, 49>>, [i \in 1..64 |-> 110]}

MCWs == {1, 2}
MCZs == {0, 2}
=============================================================================
