---------------------------- MODULE HlcStream ----------------------------
(***************************************************************************)
(* wid_async_hlc_stream_t: the stream control of StreamCtl driving the    *)
(* HLC generator of HlcGen.  The stream only calls hlc_wid_gen_next; no   *)
(* remote clock is observed through it.                                    *)
(***************************************************************************)
EXTENDS StreamCtl

CONSTANTS W, MaxClock, IntBits, RemotePT, RemoteLC

VARIABLES pt, lc

Gen == INSTANCE HlcGen

vars == <<ctl, pt, lc>>

\* wid_async_hlc_stream_init with a valid node: the embedded generator is
\* hlc_wid_gen_init_ex's.  An invalid node makes init return false and the
\* stream is never polled.
Init == CtlInit /\ Gen!Init

\* wid_async_hlc_stream_poll with the wall clock reading now.
PollHlc(now) == Poll(Gen!HlcGenNext(now))

Next ==
    \/ \E now \in 0..MaxClock : PollHlc(now)
    \/ Tick /\ UNCHANGED <<pt, lc>>

Spec == Init /\ [][Next]_vars

-----------------------------------------------------------------------------
\* The stream's fields and the embedded clock keep their types.
TypeOK == CtlTypeOK /\ Gen!TypeOK
=============================================================================
