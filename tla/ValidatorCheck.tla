--------------------------- MODULE ValidatorCheck ---------------------------
(***************************************************************************)
(* A caller of the pure API of wid.h, one call after another.  It either  *)
(* validates and parses a candidate string with each W, Z and unit, or it *)
(* renders the ID a generator emits from one of its reachable states and  *)
(* validates and parses that.  The candidates are built in the MC module  *)
(* from the edge cases of the grammar; the properties compare the code's  *)
(* validators and parsers with the reference grammar, and with the state  *)
(* the ID was rendered from.                                               *)
(***************************************************************************)
EXTENDS Validator, IdGrammar, IdFormat

CONSTANTS Candidates,  \* the strings the caller passes
          Ws, Zs,      \* the W and Z arguments
          SecTicks,    \* reachable generator ticks in sec unit
          MsTicks,     \* reachable generator ticks in ms unit
          NodeArgs     \* node arguments hlc_wid_gen_init_ex accepts

VARIABLES call,  \* "validate", "emit_wid" or "emit_hlc"
          str, w, z, unit,
          tick, seq, node, pad   \* the generator state an emit renders

vars == <<call, str, w, z, unit, tick, seq, node, pad>>

Units == {"sec", "ms"}

\* The characters of the byte values an ID can contain.
LowerSeq == <<"a", "b", "c", "d", "e", "f", "g", "h", "i", "j", "k", "l", "m",
              "n", "o", "p", "q", "r", "s", "t", "u", "v", "w", "x", "y", "z">>
ByteChar(b) ==
    CASE b \in 48..57  -> DigitChars[b - 47]
      [] b \in 97..122 -> LowerSeq[b - 96]
      [] b = 45 -> "-"  [] b = 46 -> "."  [] b = 84 -> "T"
      [] b = 90 -> "Z"  [] b = 95 -> "_"
AsText(s) == [i \in 1..Len(s) |-> ByteChar(s[i])]

\* The lowercase hex digits wid_random_hex can write: two paddings of each
\* length, one of digits and one of letters.
Pads(n) == {[i \in 1..n |-> b] : b \in {48, 102}}

TicksOf(u) == IF u = "ms" THEN MsTicks ELSE SecTicks

\* The calls: any candidate string with any arguments, or any reachable
\* generator state (a tick of the unit, a counter at either end of its W
\* digits, any node argument and padding) with the generator's arguments.
Calls ==
    [call : {"validate"}, str : Candidates, w : Ws, z : Zs, unit : Units,
     tick : {0}, seq : {0}, node : {<< >>}, pad : {<< >>}]
    \cup
    UNION { [call : {"emit_wid"}, str : {<< >>}, w : {ww}, z : {zz}, unit : {u},
             tick : TicksOf(u), seq : {0, 10^ww - 1}, node : {<< >>}, pad : Pads(zz)]
            \cup
            [call : {"emit_hlc"}, str : {<< >>}, w : {ww}, z : {zz}, unit : {u},
             tick : TicksOf(u), seq : {0, 10^ww - 1}, node : NodeArgs, pad : Pads(zz)]
            : ww \in Ws, zz \in Zs, u \in Units }

Init ==
    \E r \in Calls :
        /\ call = r.call /\ str = r.str /\ w = r.w /\ z = r.z /\ unit = r.unit
        /\ tick = r.tick /\ seq = r.seq /\ node = r.node /\ pad = r.pad

\* The next call, with any input.
Next ==
    \E r \in Calls :
        /\ call' = r.call /\ str' = r.str /\ w' = r.w /\ z' = r.z /\ unit' = r.unit
        /\ tick' = r.tick /\ seq' = r.seq /\ node' = r.node /\ pad' = r.pad

Spec == Init /\ [][Next]_vars

-----------------------------------------------------------------------------
\* spec.md 4.2: wid_validate_ex and hlc_wid_validate_ex accept exactly the
\* strings of the WID and HLC-WID grammars of spec.md 3 (the WID padding
\* taken as optional, as the grammar's brackets say).
ValidatorMatchesGrammar ==
    /\ WidValidate(str, w, z, unit) <=> GWid(str, w, z, unit)
    /\ HlcValidate(str, w, z, unit) <=> GHlc(str, w, z, unit)

\* spec.md 4.3: wid_parse_ex and hlc_wid_parse_ex succeed iff the validator
\* accepts, and then return the fields the grammar splits the string into:
\* the calendar fields, the counter's value, the node and the padding.
ParseMatchesGrammar ==
    LET ts == GTsLen(unit)
        head == GHead(w, unit)
        cal == GFields(SubSeq(str, 1, ts))
        ctr == GNum(SubSeq(str, ts + 2, ts + 1 + w))
        wp == WidParse(str, w, z, unit)
        hp == HlcParse(str, w, z, unit)
        e == GNodeEnd(str, w, unit)
    IN  /\ wp.ok <=> WidValidate(str, w, z, unit)
        /\ hp.ok <=> HlcValidate(str, w, z, unit)
        /\ wp.ok => /\ wp.cal = cal
                    /\ wp.sequence = ctr
                    /\ wp.has_padding <=> Len(str) > head
                    /\ wp.padding = SubSeq(str, head + 2, Len(str))
        /\ hp.ok => /\ hp.cal = cal
                    /\ hp.logical_counter = ctr
                    /\ hp.node = SubSeq(str, head + 2, e - 1)
                    /\ hp.has_padding <=> e <= Len(str)
                    /\ hp.padding = SubSeq(str, e + 1, Len(str))

\* spec.md 3: WID padding is present iff Z > 0, so wid_validate_ex should
\* refuse a WID without padding when Z > 0.
WidPaddingIffZ ==
    WidValidate(str, w, z, unit) <=> GWidStrict(str, w, z, unit)

\* spec.md 4.3: hlc_wid_parse_ex succeeds iff hlc_wid_validate_ex accepts.
HlcParseIffValid ==
    HlcParse(str, w, z, unit).ok <=> HlcValidate(str, w, z, unit)

\* The fields an emitted ID must carry: the UTC time of its tick and the
\* millisecond in ms unit.
TickFields(u, t) ==
    LET tm == GmTime(TickSec(u, t))
    IN  [year |-> tm.year, month |-> tm.month, day |-> tm.day, hour |-> tm.hour,
         minute |-> tm.minute, second |-> tm.second, millisecond |-> TickMs(u, t)]

\* spec.md 6 ("MUST emit only IDs matching the grammar") and the round trip
\* of spec.md 8: the ID wid_gen_next or hlc_wid_gen_next renders from any
\* reachable state (wid_fmt_tick, the counter's "%0*lld", the node copied by
\* hlc_wid_gen_init_ex, the padding) is accepted by wid_parse_ex or
\* hlc_wid_parse_ex, which give back that state: the time of the tick, the
\* counter, the node and the padding.
EmittedIdsValid ==
    /\ call = "emit_wid" =>
          LET p == WidParse(AsText(RenderWid(unit, tick, w, seq, z, pad)), w, z, unit)
          IN  /\ p.ok
              /\ p.cal = TickFields(unit, tick)
              /\ p.sequence = seq
              /\ p.padding = AsText(pad)
    /\ call = "emit_hlc" =>
          LET p == HlcParse(AsText(RenderHlc(unit, tick, w, seq, GenNode(node), z, pad)),
                            w, z, unit)
          IN  /\ p.ok
              /\ p.cal = TickFields(unit, tick)
              /\ p.logical_counter = seq
              /\ p.node = AsText(GenNode(node))
              /\ p.padding = AsText(pad)
=============================================================================
