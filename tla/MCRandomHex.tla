---------------------------- MODULE MCRandomHex ----------------------------
EXTENDS RandomHex

\* The default, the bounds, values on both sides of the buffer size, and
\* arguments clamped from above and defaulted from below.
MCZArgs == {-1, 0, 6, 33, 34, 64, 100}
=============================================================================
