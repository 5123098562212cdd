---------------------------- MODULE StreamCtl ----------------------------
(***************************************************************************)
(* The control of the poll-based async streams of wid.h                   *)
(* (the wid_async_wid_stream and wid_async_hlc_stream functions), which  *)
(* differ only in the generator they call.  The state is the remaining,  *)
(* next_due_ns and initialized fields and the monotonic clock the poll  *)
(* reads; the generator step is an argument of Poll.  Time is counted in  *)
(* units of the monotonic clock, so interval_ms * 1000000 is IntervalNs.  *)
(* A poll that is not due returns false and changes nothing: a stutter.   *)
(***************************************************************************)
EXTENDS Integers

CONSTANTS Counts,      \* the count arguments stream_init accepts here
          IntervalNs,  \* interval_ms * 1000000
          MaxMono      \* the largest monotonic clock reading in the model

ASSUME StreamAssumption ==
    /\ Counts \subseteq Nat
    /\ IntervalNs \in Nat
    /\ MaxMono \in Nat

VARIABLES remaining,    \* s->remaining: -1 for an infinite stream
          next_due,     \* s->next_due_ns
          initialized,  \* s->initialized
          mono,         \* wid_now_monotonic_ns()
          count,        \* the count the stream was created with
          emitted       \* IDs poll has written to out so far

ctl == <<remaining, next_due, initialized, mono, count, emitted>>

\* wid_async_*_stream_init(s, ..., c, interval_ms) after its argument checks
\* have passed: count 0 means an infinite stream.
CtlInit ==
    /\ count \in Counts
    /\ remaining = IF count = 0 THEN -1 ELSE count
    /\ next_due = 0
    /\ initialized = TRUE
    /\ mono = 0
    /\ emitted = 0

\* Mutant: the stream treated as exhausted with one ID still to go.
ExhaustedEarly(r) == r <= 1

\* remaining == 0: the early return of poll and the test of stream_done.
Exhausted(r) == r = 0

\* wid_async_*_stream_done.
Done == ~initialized \/ Exhausted(remaining)

\* Mutant: the decrement applied to the -1 of an infinite stream too.
DecrementAll(r) == r - 1

\* if (s->remaining > 0) s->remaining--.
Decrement(r) == IF r > 0 THEN r - 1 ELSE r

\* Mutant: the clock comparison dropped, so only the first poll is due.
NotDueStuck == next_due > 0

\* Mutant: the poll made due one unit early (now + 1 >= next_due_ns).
NotDueEarly == next_due > 0 /\ mono + 1 < next_due

\* The not-due test: a poll before next_due_ns returns false.  A zero
\* next_due_ns (never polled) is always due.
NotDue == next_due > 0 /\ mono < next_due

\* wid_async_*_stream_poll when it emits: GenStep is the generator's next.
Poll(GenStep) ==
    /\ initialized
    /\ ~Exhausted(remaining)
    /\ ~NotDue
    /\ GenStep
    /\ remaining' = Decrement(remaining)
    /\ next_due' = mono + IntervalNs
    /\ emitted' = emitted + 1
    /\ UNCHANGED <<initialized, mono, count>>

\* The monotonic clock advances by one unit.  Past MaxMono the model lets
\* it advance only up to the stream's next due time.
Tick ==
    /\ mono < MaxMono \/ mono < next_due
    /\ mono' = mono + 1
    /\ UNCHANGED <<remaining, next_due, initialized, count, emitted>>

-----------------------------------------------------------------------------
\* The stream's fields keep their types.
CtlTypeOK ==
    /\ count \in Counts
    /\ remaining \in Nat \cup {-1}
    /\ next_due \in Nat
    /\ initialized \in BOOLEAN
    /\ mono \in Nat
    /\ emitted \in Nat

\* wid.h's poll paces a stream from the time of its last write: after
\* writing an ID it is not due again until interval_ms later
\* (next_due_ns = now_ns + interval), and only the first poll is always
\* due.  So however tightly a caller polls, by monotonic time mono the
\* stream has written at most 1 + mono / interval IDs.
PacedByInterval == emitted > 0 => mono >= (emitted - 1) * IntervalNs

\* A finite stream has written exactly count - remaining IDs, so it is done
\* exactly when it has written count of them; an infinite stream keeps its
\* -1 and is never done, however many IDs it writes.
CountExact ==
    IF count = 0
       THEN remaining = -1 /\ ~Done
       ELSE emitted + remaining = count /\ (Done <=> emitted = count)
=============================================================================
