---------------------------- MODULE WidStream ----------------------------
(***************************************************************************)
(* wid_async_wid_stream_t: the stream control of StreamCtl driving the    *)
(* WID generator of WidGen, whose pair lives inside the stream struct.    *)
(* A caller polls the stream in a loop until stream_done; the monotonic   *)
(* clock advances between polls.                                          *)
(***************************************************************************)
EXTENDS StreamCtl

CONSTANTS W, MaxClock

VARIABLES last_tick, last_seq

Gen == INSTANCE WidGen

\* WidGen's assumptions on its constants, restated for the proofs here.
ASSUME GenAssumption ==
    /\ W \in Int
    /\ MaxClock \in Nat
    /\ Gen!MaxSeq \in Nat

vars == <<ctl, last_tick, last_seq>>

\* wid_async_wid_stream_init: the embedded generator is wid_gen_init_ex's.
Init == CtlInit /\ Gen!Init

\* wid_async_wid_stream_poll with the wall clock reading now.
PollWid(now) == Poll(Gen!WidGenNext(now))

Next ==
    \/ \E now \in 0..MaxClock : PollWid(now)
    \/ Tick /\ UNCHANGED <<last_tick, last_seq>>

\* The caller keeps polling while the stream is not done (the loop of the
\* stream's documented use), and the monotonic clock keeps advancing.
Fairness ==
    /\ WF_vars(\E now \in 0..MaxClock : PollWid(now))
    /\ WF_vars(Tick /\ UNCHANGED <<last_tick, last_seq>>)

Spec == Init /\ [][Next]_vars /\ Fairness

-----------------------------------------------------------------------------
\* The stream's fields and the embedded generator keep their types.
TypeOK == CtlTypeOK /\ Gen!TypeOK

\* A finite stream that is polled while the clock advances eventually writes
\* all count IDs, however the interval and the wall clock fall.
Finishes == count > 0 => <>(emitted = count)

\* spec.md 5 (ordering guarantee) and the test "generated wid sequence should
\* be monotonic when Z=0": every ID the stream's wid_gen_next writes after
\* the first is strictly greater, as a string, than the one before.  The
\* timestamps are fixed-width and ordered like ticks (EmittedIdsValid of
\* ValidatorCheck checks wid_fmt_tick's part of that), so the string order
\* is the tick order and, on equal ticks, strcmp of ".<seq>Z" as snprintf
\* renders it.
EmittedIdsIncrease ==
    [][ last_seq # -1 =>
          \/ last_tick < last_tick'
          \/ /\ last_tick = last_tick'
             /\ Gen!StrLess(Gen!CounterField(Gen!GenW, last_seq),
                             Gen!CounterField(Gen!GenW, last_seq'))
      ]_<<last_tick, last_seq>>
=============================================================================
