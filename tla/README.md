# TLA+ verification of wid (C implementation)

This directory holds TLA+ models of the C implementation of wid
(`src/c/src/wid.h`, `src/c/src/main.c`), the TLC configurations that check
them, and the TLAPS proofs about them. `PROJECT.json` lists the components,
runs, mutants, the map from every definition to the source lines it models,
the findings, the hazards and the theorems.

## 1. The system

wid generates, validates and parses two families of time-ordered IDs:

- WID: `TS "." SEQ(W) "Z" ["-" PAD(Z)]`
- HLC-WID: `TS "." LC(W) "Z-" NODE ["-" PAD(Z)]`

### Parts and how they interact

| Part | Code | State | Operations |
|---|---|---|---|
| Clock sources | `wid_now_tick`, `wid_now_monotonic_ns` | OS clocks | read |
| Random source | `wid_random_hex` | local `raw[33]` | fill Z hex digits |
| Timestamp codec | `wid_fmt_tick`, `wid_parse_timestamp` | none | format, parse |
| Validator / parser | `wid_validate_ex`, `hlc_wid_validate_ex`, `wid_parse_ex`, `hlc_wid_parse_ex` | none | validate, parse |
| WID generator | `wid_gen_init_ex`, `wid_gen_next` | `(last_tick, last_seq)` | init, next |
| HLC generator | `hlc_wid_gen_init_ex`, `hlc_wid_gen_next`, `hlc_wid_observe`, `hlc_wid_rollover_if_needed` | `(pt, lc)`, node | init, next, observe |
| Streams | `wid_async_*_stream_init/done/poll`, `*_next_n` | `remaining`, `next_due_ns`, an embedded generator | init, poll, done |
| SQL allocator (CLI) | `sql_ensure_state`, `sql_load_state`, `sql_compare_and_swap_state`, `sql_allocate_next_wid` | one sqlite row `(last_tick, last_seq)` per key, shared by processes | ensure, load, CAS, retry |
| Service lifecycle (CLI) | `run_start`, `run_stop`, `run_status`, `read_pid_file`, `pid_alive`, `run_service_loop` | `.local/wid/c/service.pid`, the OS process table | start, stop, status |
| CLI | `main.c` | files, processes | dispatch, print, sign/verify |

The interactions:

- Both generators read the wall clock on every call. They format their state
  with the timestamp codec and append random padding.
- The streams embed a generator and pace it with the monotonic clock.
- The SQL allocator runs `wid_gen_next` on a fresh generator seeded from the
  shared row. It publishes the result only if the row is unchanged.
- The validator and parser are pure. The generators' output is meant to be
  in their language.
- `A=start` forks a daemon that runs `run_service_loop` and writes its pid to
  the pid file. `A=stop` and `A=status` read that file. These commands are
  separate processes that a user or a supervisor may run at the same time.

### The hard behaviours

- **Clock behaviour.** The wall clock stalls, jumps and goes backwards
  between calls. The generators must still emit strictly increasing IDs.
  They borrow a future tick when W digits are full.
- **Integer width.** `hlc_wid_observe` adopts remote `pt` and `lc` values
  from the network and adds 1 to them in `int64_t`.
- **Concurrent CLI processes.** Several processes allocate from one sqlite
  row through separate `sqlite3` invocations: load, then compute, then CAS.
  Any invocation may fail, including after its UPDATE committed. A process
  may be killed at any point. The loop retries at most 64 times.
- **Polling.** A stream is polled by a caller loop. A poll may be early, and
  the stream must count exactly and finish.
- **Validation offsets.** The validator works on fixed offsets with
  calendar rules, an optional node and optional padding.
- **Rendering.** `gmtime_r`, `strftime`, `%03d` and `%0*lld` must give the
  fixed-width text the validator expects, for every tick a generator holds.
- **Pid files.** Check, fork and write are separate system calls of separate
  processes. Daemons exit on their own, pids are reused, and `fopen` can
  fail after the fork.

## 2. Modules

| Module | Models | State / key operators |
|---|---|---|
| `CInt` | `int64_t` as W-bit two's complement | `Wrap(x)`, `IntMax`, `IntMin` |
| `IdText` | `%0*lld` and `strcmp` on the counter field | `Fmt0`, `StrLess`, `CounterField` |
| `IdFormat` | `wid_fmt_tick` (`gmtime_r`, `strftime`, `%03d`), the node copy, the final `snprintf` of both generators | `GmTime`, `FmtTick`, `RenderWid`, `RenderHlc` |
| `LogicalClock` | abstract spec: a stamp that strictly increases, counter within W digits | `stamp` |
| `WidGen` | `wid_gen_init_ex`, `wid_gen_next` | `last_tick`, `last_seq`; `NextStamp`, `WidGenNext` |
| `HlcGen` | `hlc_wid_gen_init_ex`, `hlc_wid_gen_next`, `hlc_wid_observe`, rollover | `pt`, `lc`; `HlcGenNext`, `HlcObserve` |
| `SqlAlloc` | the SQL allocator and its callers in `main.c` | `row`, `pc`, `snap`, `attempt`, `made`, `printed` |
| `StreamCtl` | the control shared by both async streams | `remaining`, `next_due`, `initialized`, `mono`, `count`, `emitted` |
| `WidStream`, `HlcStream` | `StreamCtl` composed with `WidGen` / `HlcGen` | |
| `Validator` | character classes, calendar, `wid_parse_timestamp`, validators and parsers | pure operators |
| `IdGrammar` | the grammar of spec.md 3, written independently as the reference | pure operators |
| `ValidatorCheck` | a caller passing candidate strings, W, Z and unit to the validators, or rendering an ID from a generator state | `call`, `str`, `w`, `z`, `unit`, `tick`, `seq`, `node`, `pad` |
| `RandomHex` | the Z clamp and the bytes `wid_random_hex` writes | `gz`, `written` |
| `Service` | `A=start`/`A=stop`/`A=status` as concurrent processes, one step per system call; daemons; unrelated processes | `proc`, `pidfile`, `pc`, `seen`, `child`, `linked`, `orphans` |

`MC*.tla` modules give the constants for TLC. `*Proofs.tla` modules hold the
TLAPS proofs.

### How the models correspond to the code

**Inputs.** Each action is one call of the C function. Its inputs are
chosen with `\E` from small sets:

- the wall clock `now` in `0..MaxClock`;
- remote `(pt, lc)` from `RemotePT` / `RemoteLC`, including negative values;
- the clock reading for each CAS.

**Whole handlers.** The guards come from the early returns. An action
models the whole handler:

- `WidGenNext` includes the borrow.
- `HlcObserve` includes the trailing `hlc_wid_rollover_if_needed`.
- `Cas` includes the `wid_gen_next` on the snapshot, the UPDATE, the
  `changes()` test, the printing and the stream loop's continuation.

**Calls that change nothing.** A call that returns false without changing
state is a stutter. This applies to `observe` with a negative argument and
to a poll that is not due.

**Integer width.** `hlc_wid_observe`'s `+ 1` and the rollover's `pt + 1`
go through `Wrap`, with `int64_t` scaled to `IntBits` bits. C leaves signed
overflow undefined; wrapping is what the compiled code does.

**Abstracted data.**

- Random padding bytes, node names and the timestamp text are left out of
  the generator models. The text order of two IDs is the order of their
  ticks, then `strcmp` of the rendered counter field; `IdText` models that
  rendering. `IdFormat` renders the whole ID, and `EmittedIdsValid` checks
  that the timestamp text is fixed-width and ordered like the ticks, by
  parsing it back.
- `gmtime_r` is the C library's. `IdFormat` defines it by what POSIX says it
  computes: the broken-down UTC time whose "seconds since the Epoch"
  expression equals its argument (`YearStart`, `MonthStart`). `tick / 1000`
  and `tick % 1000` truncate toward zero as C's do (`CDiv`, `CMod`).
- Padding in the rendered IDs is all `0` or all `f`. That is the hex
  alphabet `wid_random_hex` maps bytes to; which bytes `/dev/urandom` gives
  is left out.
- Padding contents in `RandomHex`: only the number of bytes written is kept.
- Strings in `Validator`: sequences of one-character strings, checked on a
  set of 780 candidates built from edge-case pieces. The pieces are:
  - leap and non-leap 29 February, including 2000 and 2100;
  - month 13, day 31 in November, hour 24;
  - a missing `T` and a letter in the date;
  - an ms timestamp;
  - 1- and 2-character counters, including one with a letter;
  - `Z` and `z`;
  - 13 tails: padding of several lengths and cases, nodes, an empty node,
    a trailing dash, and an uppercase or bad node character.

**Model bounds.** Two guards that are not in the code bound the models:

- `TickCap` / `PtCap`: the caller stops calling once the state passes
  `MaxClock`.
- The monotonic clock of the streams passes `MaxMono` only up to the
  stream's next due time.

The library runs use `CHECK_DEADLOCK FALSE` because a library caller, or a
finished CLI process, may stop calling at any time. `service` checks
deadlock: a user can always run another command.

**Service.** Each system call of a command is a step, so two CLI processes
interleave between them:

- `StartRead`, `StartAlive`: the `read_pid_file` and `pid_alive` test;
- `StartFork`: fork may fail at any time;
- `StartOpen`: `fopen("w")` truncates, or it fails and the daemon is left
  running (it is then recorded in the history variable `orphans`, since
  start reported it);
- `StartWrite`: the `fclose` that writes the pid, into a file that may have
  been unlinked since it was opened (`linked`);
- `StopRead`, `StopAlive`, `StopKill`, `RemovePidFile`;
- `StatusRead`, `StatusAlive`, then `RemovePidFile`.

`kill(pid, 0)` is true for any live process, as in the code. Daemons exit
on their own: their N iterations end, their log cannot be opened, or they
crash. Unrelated processes take free pids and give them back. The body of
`run_service_loop` only prints, so it is abstracted to the daemon being
alive.

## 3. Runs

| Run | cfg | Checks | Bounds |
|---|---|---|---|
| wid_gen | WidGen.cfg | `TypeOK`, `ClockSpec` (refines LogicalClock) | W=2 (99 seqs), clock 0..3: borrows, stalls, backward jumps |
| hlc_gen | HlcGen.cfg | `TypeOK`, `ObserveDominatesRemote`, `ClockSpec` | W=2, 8-bit ints, remote pt {-1,0,1,3}, lc {-1,0,40,99,120}: all four observe branches, rollover |
| hlc_lc_overflow | HlcGenOverflowLC.cfg | `ObserveDominatesRemote`, expected violated | 5-bit ints, remote lc 15 = IntMax |
| hlc_pt_overflow | HlcGenOverflowPT.cfg | `PtNeverDecreases`, expected violated | remote pt 15 = IntMax with lc = max_lc |
| sql_alloc | SqlAlloc.cfg | `TypeOK`, `UniqueIds`, `ClockSpec` (the row refines LogicalClock) | 3 processes × 2 allocations, W=1, clock 0..1, 2 attempts (452,908 states) |
| wid_stream | WidStream.cfg | `CountExact`, `PacedByInterval`, `EmittedIdsIncrease`, `Finishes` under fairness | counts {0,2,3}, interval 2, W=2, clock 0..2 (641,160 states) |
| validator | ValidatorCheck.cfg | `ValidatorMatchesGrammar`, `ParseMatchesGrammar`, `EmittedIdsValid` | 780 strings × W {1,2} × Z {0,2} × {sec, ms}; rendered IDs at 10 sec and 6 ms ticks (7,008 states) |
| wid_padding_iff_z | ValidatorWidPadding.cfg | `WidPaddingIffZ`, expected violated | same |
| hlc_long_node | ValidatorLongNode.cfg | `HlcParseIffValid`, expected violated | plus one ID with a 64-character node |
| random_hex_overflow | RandomHexOverflow.cfg | `RawInBounds`, expected violated | Z arguments {-1,0,6,33,34,64,100} |
| service | Service.cfg | `TypeOK`, `AtMostOneDaemon` | one CLI, pids {1,2,3} (26,928 states) |
| service_concurrent | ServiceConcurrent.cfg | `AtMostOneDaemon`, expected violated | two CLIs, pids {1,2,3} |

`EmittedIdsIncrease` (each ID a stream writes is strictly greater as a
string than the one before) is checked in `wid_stream`, where the generator
is driven by the stream. `PacedByInterval` says the stream is paced:
however tightly a caller polls, by monotonic time `mono` it has written at
most `1 + mono / interval` IDs. The poll is only due once `next_due_ns`
has passed, and `next_due_ns` is set from the time of the last write
(`wid.h:699-706`). The stream's type invariant is not checked in this run.
Its generator half repeats `wid_gen`. `StreamTypeCorrect` proves it for
every value of the constants. `EmittedIdsValid` closes the loop: every ID the
generators render validates and parses back to the time, counter, node and
padding it came from.

The HLC stream has no run. Its count contract, its type and the
refinement of its embedded clock are proved for every value of the
constants (`HlcStreamProofs`), and its generator is checked in `hlc_gen`.

### Why these bounds are enough

- **WID generator.** W=2 with four clock values reaches a full sequence,
  the borrow, a clock behind `last_tick` and a clock ahead.
- **HLC generator.** The remote sets contain a negative value (rejected),
  values equal to, below and above the local clock, and a counter past
  `max_lc` (rollover).
- **SQL allocator.**
  - Three processes are the fewest in which one process's snapshot can go
    stale twice.
  - Two attempts reach both the retry and the give-up branch.
  - Two allocations per process reach the stream loop's re-ensure.
  - W=1 with clock 0..1 makes processes land on the same tick.
- **WID stream.** Counts 0, 2 and 3 give an infinite stream and two
  finite ones. With interval 2 and the monotonic clock up to 6, a
  three-ID stream needs the clock at 4 or later. So `PacedByInterval` is
  tight, and a due test one unit early breaks it. W=2 with the wall clock
  0..2 crosses `.9` to `.10` within one tick.
- **Rendering.** The seconds ticks are 0, 59, the last second of day 0, the
  first of day 1, 2000-02-29 and the second after it, the last second of
  2000, 2024-02-29, the last second of 2024, and 2^31 - 1 (2038-01-19). The
  ms ticks are 0, 999, 1000, the last and first ms of a day, and 2^31 - 1.
  TLC's integers stop at 2^31 - 1, so later years, and the five-digit years
  of a far-future remote pt, are out of its reach. The counters are 0 and
  `10^W - 1`; the nodes have 1, 3 and 64 characters (the last is truncated
  to 63).
- **Service.** Three pids are enough for a daemon, an unrelated process
  holding a pid the file still names, and a second daemon. One CLI is
  sequential use; two are the fewest for a race.
- **Mutants.** Each property has a mutant of the code it is about, listed
  in `PROJECT.json`, that TLC finds. Examples:
  - a CAS that compares only `last_tick`;
  - a retry bound tested with `<=`;
  - a borrow one past `max_seq`;
  - `%lld` without zero fill;
  - a leap rule without its century exceptions;
  - a counter read one character early;
  - the millisecond printed with `%02d`;
  - a poll whose due test ignores the clock;
  - a poll due one unit before `next_due_ns`;
  - a start that forks without `pid_alive`;
  - fork's `-1` not checked.

### Fairness

Only `Finishes` in `wid_stream` uses fairness. It uses weak fairness on the
poll (the caller's `while (!done) poll` loop) and on the monotonic clock's
advance. Nothing else assumes progress, because library callers and CLI
processes may stop at any time.

## 4. Findings

1. **Observe counter overflow** (`wid.h:608`). With `remote_lc = INT64_MAX`,
   `hlc_wid_observe` computes `max(lc, remote_lc) + 1`, which wraps to a
   negative counter. The clock is then below the remote event
   (hlc_lc_overflow).
2. **Rollover overflow** (`wid.h:594`). With `remote_pt = INT64_MAX` and a
   full counter, the rollover wraps `pt` to `INT64_MIN`, so pt decreases
   (hlc_pt_overflow).
3. **Stack buffer overflow** (`wid.h:436-439`). `wid_random_hex` writes Z
   bytes into `raw[33]`, and Z may be up to 64 (random_hex_overflow).
4. **Missing padding accepted** (`wid.h:173`). `wid_validate_ex` accepts a
   WID without padding when Z > 0. The spec says padding is present iff
   Z > 0 (wid_padding_iff_z). The code's side is deliberate:
   `wid_tests.c:180` asserts that `wid_valid_suffix("", 6)` accepts the
   empty suffix. So this is a divergence between spec and code, not a slip
   in one of them.
5. **Long nodes** (`wid.h:407`). `hlc_wid_parse_ex` rejects nodes of 64 or
   more characters that the validator accepts, against "parse succeeds iff
   the validator accepts" (hlc_long_node). `hlc_wid_gen_init_ex` truncates
   such nodes silently.
6. **Concurrent starts** (`main.c:651`). `run_start` checks the pid file and
   forks in separate steps, with no lock and no `O_EXCL`. Two concurrent
   `A=start` invocations both fork a daemon. The later pid-file write wins,
   and `A=stop` never reaches the other daemon (service_concurrent). The
   same property is broken by `A=status` running while a start is between
   `fopen("w")` and `fclose`: status finds the file empty and unlinks it.

## 5. Proofs

TLAPS proves the following for every value of the constants.

### `WidGenProofs`

- `TypeCorrect: Spec => []TypeOK`
- `Refinement: Spec => ClockSpec`

Assumptions:

- `W` is an integer and `MaxClock` a natural number.
- `MaxSeqAssumption`: `10^GenW - 1` is a natural number. The provers cannot
  derive this without induction; TLC evaluates it.

`TypeOK` is inductive as it stands. It includes "`last_seq = -1` only at
tick 0". The lemma `NextAdvances` shows that each step is a `LogicalClock`
`Advance`.

### `HlcGenProofs`

- `TypeCorrect`
- `Refinement`
- `ObserveDominates: Spec => ObserveDominatesRemote`
- `PtMonotone: Spec => PtNeverDecreases`, the action property that the
  `hlc_pt_overflow` run shows violated once overflow is allowed

All four are proved under `NoOverflow`: `MaxClock`, every remote pt and
every remote lc are below `INT64_MAX`, and `MaxLc < INT64_MAX`. Under it,
every `Wrap` in the model is the identity (lemma `WrapIdentity`). The two
overflow runs show that the assumption is necessary. `PtMonotone`
follows from the step lemma `StepCorrect`: a `LogicalClock` `Advance` never
lowers the time component.

### `SqlAllocProofs`

- `TypeCorrect`
- `IdsUnique: Spec => []UniqueIds`
- `RowRefinement: Spec => ClockSpec`: the row, read as `(0, -1)` while it
  is absent, implements `LogicalClock`
- `AllocationsOrdered: Spec => IssuedInOrder`: every ID a committed CAS
  hands out is strictly above every ID handed out before it, by any
  process. So the lines of one `wid next --count N` increase, and all
  processes' lines merged in commit order are sorted. TLC confirmed this
  property on the `sql_alloc` instance before it was proved. No run
  carries it, because `UniqueIds` and `ClockSpec` already spend that run's
  mutants on the same code.

`UniqueIds` is not inductive. The strengthening `IInv` adds four facts:

- every printed ID is at or below the row;
- a process that is still allocating has `made < Count` and
  `attempt < MaxAttempts`;
- the row exists once any process is past `sql_ensure_state`;
- the row only moves up (lemma `RowOnlyRises`).

A successful CAS writes `NextStamp(snap)`, which is strictly above `snap`
(lemma `NextStampAbove`). Since the row equals `snap` at that point, the new
ID is above every printed ID and so is new.

The refinement rests on the lemma `RowStampStep`. Under `IInv`, a step
either leaves `RowStamp` as it is or moves it strictly up to a W-digit
pair:

- `sql_ensure_state`'s INSERT OR IGNORE turns an absent row into `(0, -1)`,
  which `RowStamp` already showed, so it is a stutter;
- a committed CAS (in `Cas` or `CasFail`) replaces a row equal to `snap`
  with `NextStamp(snap)`;
- every other step leaves the row alone.

`AllocationsOrdered` rests on the lemma `IssuedStep`. Only a committed CAS
adds to `printed`. What it adds is `NextStamp(snap)`, which is above `snap`.
The row still equals `snap`, and by `IInv` the row is at or above every
printed ID.

### `StreamProofs` and `HlcStreamProofs`

- `StreamCountExact: Spec => []CountExact` and
  `StreamTypeCorrect: Spec => []TypeOK` for the WID stream. `remaining` is
  a count or the `-1` of an infinite stream;
- `StreamPaced: Spec => []PacedByInterval` for the WID stream;
- `StreamClock: Spec => Gen!ClockSpec` for the WID stream: the embedded
  `(last_tick, last_seq)` implements `LogicalClock`;
- `HlcStreamCountExact` and `HlcStreamCtlTyped` for the HLC stream;
- `HlcStreamTypeCorrect` and `HlcStreamClock: Spec => Gen!ClockSpec` for
  the HLC stream, under `GenConstants`.

`CountExact` is strengthened with `initialized` and `remaining \in 0..count`
for a finite stream. For the HLC stream, the proof does not look at what
the generator does to `pt` and `lc`, because `Poll` alone sets the stream's
fields. `WidStream` restates the generator's assumptions
(`GenAssumption`), since the provers cannot use an assumption through
`INSTANCE`.

`PacedByInterval` is strengthened with `DueAfterWrites`: once k IDs are
written, `next_due_ns >= k * interval`. The k-th write was due at or after
`(k - 1) * interval`, and it set `next_due_ns` one interval later. A poll
with `interval > 0` after the first is due only if `mono >= next_due_ns`,
which gives the bound for the next write. The argument is the same for
the HLC stream, whose poll has the same control. It is not restated there.

`StreamClock` is the numeric half of `EmittedIdsIncrease`. A poll is a
`WidGenNext`, which advances the pair (lemma `PollAdvances`). A not-due
poll and a clock tick leave the pair alone. The other half, that
`snprintf`'s zero-filled counter orders like the numbers, stays with TLC.

`HlcStream` has no run, so it cannot carry an `ASSUME`. The two clock
theorems instead take `GenConstants` as their hypothesis. It holds
HlcGen's own assumptions, which TLC evaluates on `hlc_gen`:

- `Half > 0`;
- `MaxClock \in Nat`;
- `MaxLc < INT64_MAX`.

It also holds the wall-clock half of `NoOverflow`: `MaxClock < INT64_MAX`.
The stream never calls observe, so the remote inputs play no part. The
lemma `GenNextStep` covers the three outcomes of `hlc_wid_gen_next`:

- a newer wall clock;
- a counter increment;
- a rollover into `pt + 1`.

### `ServiceProofs`

- `SequentialAtMostOneDaemon`: with one CLI (`Cli = {c0}`),
  `Spec => []AtMostOneDaemon`, for any set of pids.
- `ServiceTypeCorrect: Spec => []TypeOK`, for any number of CLIs and any
  set of pids.
- `EmptyPidFileIsBeingWritten: Spec => []EmptyFileBeingWritten`, for any
  number of CLIs and any set of pids. Whenever the pid file exists but
  holds no pid, some `run_start` is between its `fopen(pid_file, "w")` and
  its `fprintf`, and its `FILE*` is still the linked file. So the empty
  file that `run_status` unlinks in the `service_concurrent` trace is
  always a start's half-written file, never a stale one. TLC confirmed it
  on 12.9 million states of the two-CLI instance before it was proved.
  It has no run: the run cap is reached, and `service_concurrent` already
  exhibits the race it describes.

`TypeOK` is inductive as it stands. Besides the types, it says that a pid
a command goes on to probe, signal or write is a real pid:

- `read_pid_file` accepts only a positive pid;
- the pid file is only written with the child pid fork returned;
- fork's `-1` sends the start back to idle.

`AtMostOneDaemon` is not inductive. `IInv(c0)` says which daemon may be
managed at each point of the command:

- between fork and the pid-file write, only the child;
- at fork and before an unlink, none;
- everywhere else, the one the pid file names;
- a pid read from the file is still the file's pid, and a start at its
  write still has the linked file open.

Each step keeps this. With two CLIs, the second and the third facts fail,
and `service_concurrent` shows the result.

`EmptyFileBeingWritten` is not inductive alone. The strengthening adds
`LinkedWriting`: a start's `FILE*` is linked only at `st_write`, and only
while the file exists. With it:

- `fopen` makes the opener the witness;
- a linked write leaves a positive pid;
- an unlinked write, or any other step, leaves the witness in place;
- `unlink` removes the file.

### `IdFormatProofs`

- `TickSplit`: for every integer tick, in ms unit, `wid_fmt_tick`
  computes its split as follows:
  - the millisecond is the floored `tick % 1000`;
  - the second passed to `gmtime_r` is `tick \div 1000`;
  - the exception: for a negative tick that is not a whole second, the
    second is `tick \div 1000 + 1`, one second late. Tick -1 renders as
    1970-01-01T00:00:00.999.

The proof is pure arithmetic on C's truncating `/` and `%` (lemma
`CDivMod`). This pins down the hazard at `wid.h:483` for every tick. No
run checks it, since no generator state reaches a negative tick. TLC
evaluated the statement over -5001..5001 before it was proved.

### What stays with TLC

- The liveness property `Finishes`, and anything stated with `ENABLED`.
- The validator's agreement with the grammar. It is a statement about
  recursive digit parsing over all strings, which needs induction over data.
- `EmittedIdsIncrease` and `EmittedIdsValid`: both need what `Fmt0` and
  `GmTime` compute for every input, which is induction over data.

## 6. Not modelled, and the plan

- **Negative and far-future ticks.** `IdFormat` models both (`TickMs`'s
  late second for a negative ms tick, whose extent `TickSplit` proves, and
  `GmTimeFails`). No generator reaches
  a negative tick (`last_tick` is proved natural, and `pt` non-negative
  without overflow). A year past 9999 needs ticks beyond TLC's integers.
- **Pid reuse.** `Service` lets an unrelated process take a pid the file
  still names, and `A=stop` then sends it SIGTERM, as `kill` does. No run
  states "stop only signals daemons": pid reuse alone breaks it, even with
  one user. For the same reason, `AtMostOneDaemon` only catches one
  direction of a stale pid file (`main.c:628`). It catches a live daemon
  taken for dead, which lets a second one start. It does not catch a dead
  daemon's pid, reused by another process, answered "already-running".
- **Multi-node HLC.** Nodes exchanging IDs, with lost, duplicated and
  reordered messages. Property: causality (an ID emitted after observing
  another sorts after it).
- **Left out:**
  - the bulk helpers (loops of the modelled step);
  - the CLI's argument parsing, printing and bench/healthcheck timing;
  - `A=run`, `A=logs`, `A=scaffold`, `A=discover` and the other service
    loops (they print or read files);
  - `sign`/`verify`/`w-otp` (shell-outs to external tools);
  - shell completions.

  These are I/O plumbing that spec.md 1 places out of scope. The fresh
  generator per `wid next` process is listed as a hazard: duplicate prefixes
  in one tick are expected by spec.md 5.
