------------------------------- MODULE Service -------------------------------
(***************************************************************************)
(* The native service lifecycle of main.c: A=start, A=stop and A=status,  *)
(* run as separate CLI processes that share one pid file                   *)
(* (.local/wid/c/service.pid) and the OS process table.  Every system call *)
(* of a command (read the pid file, kill(pid, 0), fork, fopen, the write   *)
(* at fclose, kill(pid, SIGTERM), unlink) is one step, so two CLI          *)
(* processes can interleave between them.  The daemon a start forks runs   *)
(* run_service_loop until its N iterations end, its log cannot be opened,  *)
(* or it is signalled.  Unrelated processes come and go and may be given   *)
(* a pid the pid file still names.                                         *)
(***************************************************************************)
EXTENDS Integers

CONSTANTS
    Cli,          \* the CLI invocations that may run at the same time
    Pids          \* the pids the OS hands out

ASSUME PidsAssumption == Pids \subseteq Nat \ {0}

VARIABLES
    proc,     \* the OS process table: pid -> "free", "daemon" or "other"
    pidfile,  \* the pid file: whether it exists, and the pid fscanf reads (0: none)
    pc,       \* each CLI's place in its command
    seen,     \* the pid each CLI read from the pid file
    child,    \* the pid fork returned to each start
    linked,   \* whether the FILE* a start opened is still the linked pid file
    orphans   \* history: daemons whose start reported "failed to write pid file"

vars == <<proc, pidfile, pc, seen, child, linked, orphans>>

NoFile == [exists |-> FALSE, pid |-> 0]

PCs == {"idle", "st_read", "st_alive", "st_fork", "st_open", "st_write",
        "sp_read", "sp_alive", "sp_kill", "sp_unlink",
        "su_read", "su_alive", "su_unlink"}

Init ==
    /\ proc \in [Pids -> {"free", "other"}]
    /\ pidfile = NoFile
    /\ pc = [c \in Cli |-> "idle"]
    /\ seen = [c \in Cli |-> 0]
    /\ child = [c \in Cli |-> 0]
    /\ linked = [c \in Cli |-> FALSE]
    /\ orphans = {}

\* read_pid_file: the file exists and holds a positive pid.
ReadPidFile == pidfile.exists /\ pidfile.pid > 0

\* pid_alive: kill(pid, 0) succeeds for any live process, daemon or not.
PidAlive(p) == p \in Pids /\ proc[p] # "free"

Goto(c, l) == pc' = [pc EXCEPT ![c] = l]

\* unlink(pid_file): a FILE* still open on the old file no longer names it.
Unlink == /\ pidfile' = NoFile
          /\ linked' = [x \in Cli |-> FALSE]

\* run_native_orchestration dispatches A=start, A=stop or A=status.
Begin(c) ==
    /\ pc[c] = "idle"
    /\ \E l \in {"st_read", "sp_read", "su_read"} : Goto(c, l)
    /\ UNCHANGED <<proc, pidfile, seen, child, linked, orphans>>

\* Mutant: the start forks whenever the pid file reads, alive or not.
StartReadNoCheck(c) ==
    /\ pc[c] = "st_read"
    /\ IF ReadPidFile
          THEN seen' = [seen EXCEPT ![c] = pidfile.pid] /\ Goto(c, "st_fork")
          ELSE UNCHANGED seen /\ Goto(c, "st_fork")
    /\ UNCHANGED <<proc, pidfile, child, linked, orphans>>

\* run_start: read_pid_file(pid_file, &existing).
StartRead(c) ==
    /\ pc[c] = "st_read"
    /\ IF ReadPidFile
          THEN seen' = [seen EXCEPT ![c] = pidfile.pid] /\ Goto(c, "st_alive")
          ELSE UNCHANGED seen /\ Goto(c, "st_fork")
    /\ UNCHANGED <<proc, pidfile, child, linked, orphans>>

\* run_start: pid_alive(existing), "already-running" when it is.
StartAlive(c) ==
    /\ pc[c] = "st_alive"
    /\ Goto(c, IF PidAlive(seen[c]) THEN "idle" ELSE "st_fork")
    /\ UNCHANGED <<proc, pidfile, seen, child, linked, orphans>>

\* Mutant: fork's -1 is not checked, and -1 is the child's pid.
StartForkUnchecked(c) ==
    /\ pc[c] = "st_fork"
    /\ \/ \E p \in Pids :
            /\ proc[p] = "free"
            /\ proc' = [proc EXCEPT ![p] = "daemon"]
            /\ child' = [child EXCEPT ![c] = p]
            /\ Goto(c, "st_open")
       \/ /\ child' = [child EXCEPT ![c] = -1]
          /\ Goto(c, "st_open")
          /\ UNCHANGED proc
    /\ UNCHANGED <<pidfile, seen, linked, orphans>>

\* run_start: fork(); the child is a daemon under a free pid, or fork
\* fails (always possible, forced when no pid is free) and start returns 1.
StartFork(c) ==
    /\ pc[c] = "st_fork"
    /\ \/ \E p \in Pids :
            /\ proc[p] = "free"
            /\ proc' = [proc EXCEPT ![p] = "daemon"]
            /\ child' = [child EXCEPT ![c] = p]
            /\ Goto(c, "st_open")
       \/ /\ Goto(c, "idle")
          /\ UNCHANGED <<proc, child>>
    /\ UNCHANGED <<pidfile, seen, linked, orphans>>

\* run_start: fopen(pid_file, "w") creates or truncates the file; when it
\* fails (disk full, EACCES), start reports the error and returns 1, and
\* the daemon it forked keeps running.
StartOpen(c) ==
    /\ pc[c] = "st_open"
    /\ \/ /\ pidfile' = [exists |-> TRUE, pid |-> 0]
          /\ linked' = [linked EXCEPT ![c] = TRUE]
          /\ Goto(c, "st_write")
          /\ UNCHANGED orphans
       \/ /\ Goto(c, "idle")
          /\ orphans' = orphans \cup {child[c]}
          /\ UNCHANGED <<pidfile, linked>>
    /\ UNCHANGED <<proc, seen, child>>

\* run_start: fprintf and fclose write the child's pid, into the pid file
\* only when the file opened is still the one linked at that path.
StartWrite(c) ==
    /\ pc[c] = "st_write"
    /\ pidfile' = IF linked[c] THEN [exists |-> TRUE, pid |-> child[c]] ELSE pidfile
    /\ linked' = [linked EXCEPT ![c] = FALSE]
    /\ Goto(c, "idle")
    /\ UNCHANGED <<proc, seen, child, orphans>>

\* run_stop: read_pid_file, "not running" when it fails.
StopRead(c) ==
    /\ pc[c] = "sp_read"
    /\ IF ReadPidFile
          THEN seen' = [seen EXCEPT ![c] = pidfile.pid] /\ Goto(c, "sp_alive")
          ELSE UNCHANGED seen /\ Goto(c, "idle")
    /\ UNCHANGED <<proc, pidfile, child, linked, orphans>>

\* run_stop: pid_alive; a dead pid's file is unlinked.
StopAlive(c) ==
    /\ pc[c] = "sp_alive"
    /\ Goto(c, IF PidAlive(seen[c]) THEN "sp_kill" ELSE "sp_unlink")
    /\ UNCHANGED <<proc, pidfile, seen, child, linked, orphans>>

\* run_stop: kill(pid, SIGTERM) ends whatever process has the pid now (no
\* handler is installed); it fails, and stop returns 1, when none has.
StopKill(c) ==
    /\ pc[c] = "sp_kill"
    /\ IF proc[seen[c]] = "free"
          THEN Goto(c, "idle") /\ UNCHANGED proc
          ELSE proc' = [proc EXCEPT ![seen[c]] = "free"] /\ Goto(c, "sp_unlink")
    /\ orphans' = orphans \ {seen[c]}
    /\ UNCHANGED <<pidfile, seen, child, linked>>

\* run_stop and run_status: unlink(pid_file).
RemovePidFile(c) ==
    /\ pc[c] \in {"sp_unlink", "su_unlink"}
    /\ Unlink
    /\ Goto(c, "idle")
    /\ UNCHANGED <<proc, seen, child, orphans>>

\* run_status: read_pid_file; when it fails the file is unlinked.
StatusRead(c) ==
    /\ pc[c] = "su_read"
    /\ IF ReadPidFile
          THEN seen' = [seen EXCEPT ![c] = pidfile.pid] /\ Goto(c, "su_alive")
          ELSE UNCHANGED seen /\ Goto(c, "su_unlink")
    /\ UNCHANGED <<proc, pidfile, child, linked, orphans>>

\* run_status: "running" when the pid is alive, otherwise unlink.
StatusAlive(c) ==
    /\ pc[c] = "su_alive"
    /\ Goto(c, IF PidAlive(seen[c]) THEN "idle" ELSE "su_unlink")
    /\ UNCHANGED <<proc, pidfile, seen, child, linked, orphans>>

\* The daemon's run_service_loop returns after N iterations, or its log
\* cannot be opened, and it _exits; its pid is free again.
DaemonExit(p) ==
    /\ proc[p] = "daemon"
    /\ proc' = [proc EXCEPT ![p] = "free"]
    /\ orphans' = orphans \ {p}
    /\ UNCHANGED <<pidfile, pc, seen, child, linked>>

\* Unrelated processes start under a free pid and end.
OtherSpawn(p) ==
    /\ proc[p] = "free"
    /\ proc' = [proc EXCEPT ![p] = "other"]
    /\ UNCHANGED <<pidfile, pc, seen, child, linked, orphans>>

OtherExit(p) ==
    /\ proc[p] = "other"
    /\ proc' = [proc EXCEPT ![p] = "free"]
    /\ UNCHANGED <<pidfile, pc, seen, child, linked, orphans>>

Next ==
    \/ \E c \in Cli :
          \/ Begin(c) \/ StartRead(c) \/ StartAlive(c) \/ StartFork(c)
          \/ StartOpen(c) \/ StartWrite(c) \/ StopRead(c) \/ StopAlive(c)
          \/ StopKill(c) \/ RemovePidFile(c) \/ StatusRead(c) \/ StatusAlive(c)
    \/ \E p \in Pids : DaemonExit(p) \/ OtherSpawn(p) \/ OtherExit(p)

Spec == Init /\ [][Next]_vars

-----------------------------------------------------------------------------

\* The variables keep their types; a pid read or forked is a real pid at
\* every step that uses it (fork's -1 never reaches kill or the pid file).
TypeOK ==
    /\ proc \in [Pids -> {"free", "daemon", "other"}]
    /\ pidfile \in [exists : BOOLEAN, pid : Pids \cup {0}]
    /\ pc \in [Cli -> PCs]
    /\ seen \in [Cli -> Pids \cup {0}]
    /\ child \in [Cli -> Pids \cup {0}]
    /\ linked \in [Cli -> BOOLEAN]
    /\ orphans \subseteq Pids
    /\ \A c \in Cli : pc[c] \in {"st_alive", "sp_alive", "sp_kill", "su_alive"} => seen[c] \in Pids
    /\ \A c \in Cli : pc[c] \in {"st_open", "st_write"} => child[c] \in Pids

\* run_start answers "already-running" rather than fork a second service:
\* apart from the daemons whose start reported that the pid file could not
\* be written, at most one daemon is alive at any time.
Managed(p) == proc[p] = "daemon" /\ p \notin orphans

AtMostOneDaemon ==
    \A p, q \in Pids : Managed(p) /\ Managed(q) => p = q
=============================================================================
