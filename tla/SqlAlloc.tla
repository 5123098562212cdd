---------------------------- MODULE SqlAlloc ----------------------------
(***************************************************************************)
(* The SQL-backed WID allocator of the CLI (main.c, sql_allocate_next_wid  *)
(* and its callers run_canonical_sql_next / run_canonical_sql_stream).     *)
(* Several CLI processes share one sqlite row (last_tick, last_seq) per    *)
(* key.  Each allocation ensures the row exists, then loops: load the row, *)
(* run wid_gen_next on a fresh generator seeded with it, and write the new *)
(* pair back with UPDATE ... WHERE last_tick = old AND last_seq = old,     *)
(* retrying on a lost race up to 64 times.  Every sqlite3 invocation is    *)
(* one atomic step of the database; the processes interleave between them. *)
(* A process killed by a signal simply takes no further step.              *)
(***************************************************************************)
EXTENDS Integers, FiniteSets

CONSTANTS Procs,        \* the CLI processes allocating from the same key
          W,            \* the WID width shared through the key
          MaxClock,     \* the largest wall-clock tick a process reads
          MaxAttempts,  \* the retry bound of the CAS loop (64 in the code)
          Count         \* allocations per process (1 for `next`, N for `stream`)

ASSUME AllocAssumption ==
    /\ MaxAttempts \in Nat \ {0}
    /\ Count \in Nat \ {0}

\* The stamp computation of wid_gen_next on a generator seeded from the row.
Gen == INSTANCE WidGen WITH last_tick <- 0, last_seq <- -1

\* The assumptions of WidGen on the shared constants, restated here so that
\* proofs about the allocator can cite them.
ASSUME GenAssumption == Gen!MaxSeq \in Nat /\ MaxClock \in Nat

\* The row before sql_ensure_state has inserted it.
Absent == <<>>

\* INSERT OR IGNORE ... VALUES(key, 0, -1).
Ensured(r) == IF r = Absent THEN <<0, -1>> ELSE r

VARIABLES row,      \* the wid_state row of the key
          pc,       \* where each process is
          snap,     \* the pair a process loaded (last_tick, last_seq locals)
          attempt,  \* the loop counter of sql_allocate_next_wid
          made,     \* IDs a process has printed (the loop index i)
          printed   \* every ID printed by puts, with who printed it

vars == <<row, pc, snap, attempt, made, printed>>

PC == {"ensure", "load", "cas", "done", "failed"}

Init ==
    /\ row = Absent
    /\ pc = [p \in Procs |-> "ensure"]
    /\ snap = [p \in Procs |-> <<0, -1>>]
    /\ attempt = [p \in Procs |-> 0]
    /\ made = [p \in Procs |-> 0]
    /\ printed = {}

\* sql_ensure_state succeeding: the row exists afterwards; the loop starts.
Ensure(p) ==
    /\ pc[p] = "ensure"
    /\ row' = Ensured(row)
    /\ pc' = [pc EXCEPT ![p] = "load"]
    /\ attempt' = [attempt EXCEPT ![p] = 0]
    /\ UNCHANGED <<snap, made, printed>>

\* sql_ensure_state failing (sqlite busy past its timeout, or any error):
\* the statements before the failure may have committed; the process exits
\* with "failed to allocate".
EnsureFail(p) ==
    /\ pc[p] = "ensure"
    /\ row' \in {row, Ensured(row)}
    /\ pc' = [pc EXCEPT ![p] = "failed"]
    /\ UNCHANGED <<snap, attempt, made, printed>>

\* sql_load_state: SELECT the row into the locals.
Load(p) ==
    /\ pc[p] = "load"
    /\ snap' = [snap EXCEPT ![p] = row]
    /\ pc' = [pc EXCEPT ![p] = "cas"]
    /\ UNCHANGED <<row, attempt, made, printed>>

\* sql_load_state failing: the process exits.
LoadFail(p) ==
    /\ pc[p] = "load"
    /\ pc' = [pc EXCEPT ![p] = "failed"]
    /\ UNCHANGED <<row, snap, attempt, made, printed>>

\* Mutant: the WHERE clause compares last_tick only.
CasMatchesTickOnly(r, old) == r[1] = old[1]

\* Mutant: an UPDATE without the WHERE guard on the old pair.
CasMatchesBlind(r, old) == TRUE

\* The WHERE clause of the UPDATE: the row still holds the loaded pair.
CasMatches(r, old) == r = old

\* Mutant: the loop bound tested with <=, one attempt too many.
RetryAfterLoose(a) == IF a + 1 <= MaxAttempts THEN "load" ELSE "failed"

\* The for loop after a lost race: attempt + 1 < 64 tries again.
RetryAfter(a) == IF a + 1 < MaxAttempts THEN "load" ELSE "failed"

\* wid_gen_next on the loaded pair with clock now, then the UPDATE ... WHERE
\* and SELECT changes().  On a change the ID is printed and the stream loop
\* either allocates again (from sql_ensure_state) or ends; on no change the
\* loop retries until its bound.
Cas(p, now) ==
    LET new == Gen!NextStamp(snap[p][1], snap[p][2], now)
    IN  /\ pc[p] = "cas"
        /\ IF CasMatches(row, snap[p])
             THEN /\ row' = new
                  /\ printed' = printed \cup {[by |-> p, n |-> made[p], id |-> new]}
                  /\ made' = [made EXCEPT ![p] = @ + 1]
                  /\ pc' = [pc EXCEPT ![p] = IF made[p] + 1 < Count
                                                THEN "ensure" ELSE "done"]
                  /\ UNCHANGED attempt
             ELSE /\ attempt' = [attempt EXCEPT ![p] = @ + 1]
                  /\ pc' = [pc EXCEPT ![p] = RetryAfter(attempt[p])]
                  /\ UNCHANGED <<row, made, printed>>
        /\ UNCHANGED snap

\* The sqlite3 invocation of the CAS exiting non-zero: the UPDATE may or
\* may not have committed; either way nothing is printed and the process
\* exits, so a committed pair is lost but never handed out.
CasFail(p, now) ==
    LET new == Gen!NextStamp(snap[p][1], snap[p][2], now)
    IN  /\ pc[p] = "cas"
        /\ row' \in {row, IF CasMatches(row, snap[p]) THEN new ELSE row}
        /\ pc' = [pc EXCEPT ![p] = "failed"]
        /\ UNCHANGED <<snap, attempt, made, printed>>

Next ==
    \E p \in Procs :
        \/ Ensure(p) \/ EnsureFail(p)
        \/ Load(p) \/ LoadFail(p)
        \/ \E now \in 0..MaxClock : Cas(p, now) \/ CasFail(p, now)

Spec == Init /\ [][Next]_vars

-----------------------------------------------------------------------------
Stamp == Nat \X (-1..Gen!MaxSeq)

\* Type invariant.
TypeOK ==
    /\ row \in {Absent} \cup Stamp
    /\ pc \in [Procs -> PC]
    /\ snap \in [Procs -> Stamp]
    /\ attempt \in [Procs -> 0..MaxAttempts]
    /\ made \in [Procs -> 0..Count]
    /\ printed \subseteq [by : Procs, n : 0..Count, id : Stamp]

\* Two CLI processes never print the same (tick, seq) prefix, whatever the
\* interleaving of their loads and CASes: with Z = 0 that prefix is the whole
\* ID, so this is the uniqueness the shared row is there to give.
UniqueIds ==
    \A a, b \in printed : a /= b => a.id /= b.id

\* Seen from the database, the row only moves forward: every committed UPDATE
\* is a step of the abstract logical clock, whose stamps strictly increase.
\* A row not yet inserted reads as the generator's initial (0, -1).
RowStamp == IF row = Absent THEN <<0, -1>> ELSE row

Clock == INSTANCE LogicalClock WITH Start <- <<0, -1>>,
                                    MaxCounter <- Gen!MaxSeq,
                                    stamp <- RowStamp
ClockSpec == Clock!Spec
=============================================================================
