---------------------------- MODULE ServiceProofs ----------------------------
(***************************************************************************)
(* A proof, for any set of pids, that one user running A=start, A=stop and *)
(* A=status one after another never has two managed daemons alive, and    *)
(* that the type invariant holds for any number of CLIs at once.          *)
(***************************************************************************)
EXTENDS Service, TLAPS

\* The pid file names p.
Named(p) == pidfile.exists /\ pidfile.pid = p

\* With one CLI c: where c is in its command decides which daemon may be
\* managed.  Between fork and the pid file write it is the child; at fork
\* and before an unlink there is none; everywhere else it is the one the
\* pid file names, and a pid read from the file is still the file's.
IInv(c) ==
    /\ TypeOK
    /\ \A p \in Pids : Managed(p) =>
          /\ pc[c] \in {"st_open", "st_write"} => p = child[c]
          /\ pc[c] \notin {"st_fork", "sp_unlink", "su_unlink"}
          /\ pc[c] \notin {"st_open", "st_write"} => Named(p)
    /\ pc[c] \in {"st_alive", "sp_alive", "sp_kill", "su_alive"} => Named(seen[c])
    /\ pc[c] = "st_write" => linked[c]

\* IInv makes AtMostOneDaemon a matter of every managed pid being equal to
\* one and the same value.
LEMMA IInvOne == ASSUME NEW c \in Cli, IInv(c) PROVE AtMostOneDaemon
  <1> SUFFICES ASSUME NEW p \in Pids, NEW q \in Pids, Managed(p), Managed(q)
               PROVE  p = q
    BY DEF AtMostOneDaemon
  <1>1. CASE pc[c] \in {"st_open", "st_write"}
    BY <1>1 DEF IInv
  <1>2. CASE pc[c] \notin {"st_open", "st_write"}
    BY <1>2 DEF IInv, Named
  <1>3. QED
    BY <1>1, <1>2

LEMMA InitIInv == ASSUME NEW c0, Cli = {c0}, Init PROVE IInv(c0)
  BY PidsAssumption DEF Init, IInv, TypeOK, PCs, Managed, NoFile

LEMMA StepIInv ==
  ASSUME NEW c0, Cli = {c0}, IInv(c0), [Next]_vars
  PROVE  IInv(c0)'
  <1> USE PidsAssumption DEF IInv, TypeOK, PCs, Managed, Named, Goto
  <1>1. CASE Begin(c0)
    BY <1>1 DEF Begin
  <1>2. CASE StartRead(c0)
    BY <1>2 DEF StartRead, ReadPidFile
  <1>3. CASE StartAlive(c0)
    BY <1>3 DEF StartAlive, PidAlive
  <1>4. CASE StartFork(c0)
    BY <1>4 DEF StartFork
  <1>5. CASE StartOpen(c0)
    <2>1. CASE /\ pidfile' = [exists |-> TRUE, pid |-> 0]
               /\ linked' = [linked EXCEPT ![c0] = TRUE]
               /\ Goto(c0, "st_write")
               /\ UNCHANGED orphans
      BY <1>5, <2>1 DEF StartOpen
    <2>2. CASE /\ Goto(c0, "idle")
               /\ orphans' = orphans \cup {child[c0]}
               /\ UNCHANGED <<pidfile, linked>>
      BY <1>5, <2>2 DEF StartOpen
    <2>3. QED
      BY <1>5, <2>1, <2>2 DEF StartOpen
  <1>6. CASE StartWrite(c0)
    BY <1>6 DEF StartWrite
  <1>7. CASE StopRead(c0)
    BY <1>7 DEF StopRead, ReadPidFile
  <1>8. CASE StopAlive(c0)
    BY <1>8 DEF StopAlive, PidAlive
  <1>9. CASE StopKill(c0)
    BY <1>9 DEF StopKill
  <1>10. CASE RemovePidFile(c0)
    BY <1>10 DEF RemovePidFile, Unlink, NoFile
  <1>11. CASE StatusRead(c0)
    BY <1>11 DEF StatusRead, ReadPidFile
  <1>12. CASE StatusAlive(c0)
    BY <1>12 DEF StatusAlive, PidAlive
  <1>13. ASSUME NEW p \in Pids, DaemonExit(p) PROVE IInv(c0)'
    BY <1>13 DEF DaemonExit
  <1>14. ASSUME NEW p \in Pids, OtherSpawn(p) PROVE IInv(c0)'
    BY <1>14 DEF OtherSpawn
  <1>15. ASSUME NEW p \in Pids, OtherExit(p) PROVE IInv(c0)'
    BY <1>15 DEF OtherExit
  <1>16. CASE UNCHANGED vars
    BY <1>16 DEF vars
  <1>17. QED
    BY <1>1, <1>2, <1>3, <1>4, <1>5, <1>6, <1>7, <1>8, <1>9, <1>10, <1>11,
       <1>12, <1>13, <1>14, <1>15, <1>16 DEF Next

\* One user running start, stop and status one after another never has two
\* daemons of run_start's alive, apart from those whose start reported the
\* pid file unwritable: for every set of pids, with pid reuse by unrelated
\* processes and daemons exiting at any time.
THEOREM SequentialAtMostOneDaemon ==
  ASSUME NEW c0, Cli = {c0}
  PROVE  Spec => []AtMostOneDaemon
  <1>1. Init => IInv(c0)
    BY InitIInv
  <1>2. IInv(c0) /\ [Next]_vars => IInv(c0)'
    BY StepIInv
  <1>3. IInv(c0) => AtMostOneDaemon
    BY IInvOne
  <1>4. QED
    BY <1>1, <1>2, <1>3, PTL DEF Spec

-----------------------------------------------------------------------------
\* The type invariant holds for any number of CLIs running at once.  It
\* says more than the types: a pid a command goes on to probe or signal is
\* a real pid, because read_pid_file only accepts a positive pid and the pid
\* file is only ever written with a pid fork returned.
LEMMA TypeInit == Init => TypeOK
  BY PidsAssumption DEF Init, TypeOK, PCs, NoFile

LEMMA TypeStep == TypeOK /\ [Next]_vars => TypeOK'
  <1> SUFFICES ASSUME TypeOK, [Next]_vars PROVE TypeOK'
    OBVIOUS
  <1> USE PidsAssumption DEF TypeOK, PCs, Goto
  <1>1. ASSUME NEW c \in Cli,
               \/ Begin(c) \/ StartAlive(c) \/ StopAlive(c) \/ StatusAlive(c)
        PROVE  TypeOK'
    <2>1. CASE Begin(c)
      BY <2>1 DEF Begin
    <2>2. CASE StartAlive(c)
      BY <2>2 DEF StartAlive
    <2>3. CASE StopAlive(c)
      BY <2>3 DEF StopAlive
    <2>4. CASE StatusAlive(c)
      BY <2>4 DEF StatusAlive
    <2>5. QED
      BY <1>1, <2>1, <2>2, <2>3, <2>4
  \* A pid read from the file is positive, so a pid of Pids.
  <1>2. ASSUME NEW c \in Cli, StartRead(c) \/ StopRead(c) \/ StatusRead(c)
        PROVE  TypeOK'
    <2>1. ReadPidFile => pidfile.pid \in Pids
      BY DEF ReadPidFile
    <2>2. CASE StartRead(c)
      BY <2>1, <2>2 DEF StartRead
    <2>3. CASE StopRead(c)
      BY <2>1, <2>3 DEF StopRead
    <2>4. CASE StatusRead(c)
      BY <2>1, <2>4 DEF StatusRead
    <2>5. QED
      BY <1>2, <2>2, <2>3, <2>4
  \* fork hands out a free pid, or fails without a child.
  <1>3. ASSUME NEW c \in Cli, StartFork(c) PROVE TypeOK'
    BY <1>3 DEF StartFork
  <1>4. ASSUME NEW c \in Cli, StartOpen(c) PROVE TypeOK'
    <2>1. CASE /\ pidfile' = [exists |-> TRUE, pid |-> 0]
               /\ linked' = [linked EXCEPT ![c] = TRUE]
               /\ Goto(c, "st_write")
               /\ UNCHANGED orphans
      BY <1>4, <2>1 DEF StartOpen
    <2>2. CASE /\ Goto(c, "idle")
               /\ orphans' = orphans \cup {child[c]}
               /\ UNCHANGED <<pidfile, linked>>
      BY <1>4, <2>2 DEF StartOpen
    <2>3. QED
      BY <1>4, <2>1, <2>2 DEF StartOpen
  \* The pid written is the child fork returned.
  <1>5. ASSUME NEW c \in Cli, StartWrite(c) PROVE TypeOK'
    BY <1>5 DEF StartWrite
  <1>6. ASSUME NEW c \in Cli, StopKill(c) PROVE TypeOK'
    BY <1>6 DEF StopKill
  <1>7. ASSUME NEW c \in Cli, RemovePidFile(c) PROVE TypeOK'
    BY <1>7 DEF RemovePidFile, Unlink, NoFile
  <1>8. ASSUME NEW p \in Pids, DaemonExit(p) \/ OtherSpawn(p) \/ OtherExit(p)
        PROVE  TypeOK'
    BY <1>8 DEF DaemonExit, OtherSpawn, OtherExit
  <1>9. CASE UNCHANGED vars
    BY <1>9 DEF vars
  <1>10. QED
    BY <1>1, <1>2, <1>3, <1>4, <1>5, <1>6, <1>7, <1>8, <1>9 DEF Next

\* For any number of CLI processes interleaving their system calls, the
\* service state keeps its type, and neither kill(pid, 0), kill(pid,
\* SIGTERM) nor the pid file is ever given a pid that fork did not return
\* or that read_pid_file would reject (the TypeOK the service run checks).
THEOREM ServiceTypeCorrect == Spec => []TypeOK
  BY TypeInit, TypeStep, PTL DEF Spec

-----------------------------------------------------------------------------
(***************************************************************************)
(* The empty pid file.  fopen(pid_file, "w") in run_start creates or      *)
(* truncates the file before fprintf writes the pid, so between the two   *)
(* the file exists and read_pid_file fails on it: run_status and run_stop *)
(* take it for a stale file, and status unlinks it.  The invariant below  *)
(* says that this is the only way the file can be empty.                  *)
(***************************************************************************)

\* Whenever the pid file exists but holds no pid, some start has opened it
\* and is about to write its child's pid into it through a FILE* that is
\* still the linked file (run_start, between fopen and fprintf): an empty
\* pid file that status unlinks is always one a start is still writing.
EmptyFileBeingWritten ==
    pidfile.exists /\ pidfile.pid = 0 => \E c \in Cli : pc[c] = "st_write" /\ linked[c]

\* A FILE* is linked only while its start is between fopen and fclose, and
\* only while the file exists (unlink detaches every open FILE*).
LinkedWriting ==
    \A c \in Cli : linked[c] => pc[c] = "st_write" /\ pidfile.exists

EInv == TypeOK /\ LinkedWriting /\ EmptyFileBeingWritten

LEMMA EInvInit == Init => EInv
  BY TypeInit DEF Init, EInv, LinkedWriting, EmptyFileBeingWritten, NoFile

LEMMA EInvStep == EInv /\ [Next]_vars => EInv'
  <1> SUFFICES ASSUME EInv, [Next]_vars PROVE EInv'
    OBVIOUS
  <1>0. TypeOK'
    BY TypeStep DEF EInv
  <1> USE DEF EInv, LinkedWriting, EmptyFileBeingWritten
  \* Steps that touch neither the file, the FILE*s nor a writing start.
  <1>1. ASSUME NEW c \in Cli,
               \/ Begin(c) \/ StartRead(c) \/ StartAlive(c) \/ StartFork(c)
               \/ StopRead(c) \/ StopAlive(c) \/ StopKill(c)
               \/ StatusRead(c) \/ StatusAlive(c)
        PROVE  EInv'
    <2>1. pc[c] # "st_write" /\ pc'[c] # "st_write"
          /\ pidfile' = pidfile /\ linked' = linked
          /\ \A d \in Cli \ {c} : pc'[d] = pc[d]
      BY <1>1 DEF TypeOK, Goto, Begin, StartRead, StartAlive, StartFork,
                  StopRead, StopAlive, StopKill, StatusRead, StatusAlive
    <2>2. ~linked[c]
      BY <2>1
    <2>3. LinkedWriting'
      <3> SUFFICES ASSUME NEW d \in Cli, linked'[d]
                   PROVE  pc'[d] = "st_write" /\ pidfile'.exists
        OBVIOUS
      <3>1. linked[d]
        BY <2>1, Zenon
      <3>2. d # c
        BY <3>1, <2>2, Zenon
      <3>3. pc[d] = "st_write" /\ pidfile.exists
        BY <3>1, Zenon
      <3>4. QED
        BY <2>1, <3>2, <3>3, Zenon
    <2>4. EmptyFileBeingWritten'
      <3>1. CASE pidfile.exists /\ pidfile.pid = 0
        <4>1. PICK d \in Cli : pc[d] = "st_write" /\ linked[d]
          BY <3>1
        <4>2. d # c
          BY <4>1, <2>1
        <4>3. pc'[d] = "st_write" /\ linked'[d]
          BY <4>1, <4>2, <2>1, Zenon
        <4>4. QED
          BY <4>3, Zenon
      <3>2. CASE ~(pidfile.exists /\ pidfile.pid = 0)
        BY <3>2, <2>1
      <3>3. QED
        BY <3>1, <3>2
    <2>5. QED
      BY <1>0, <2>3, <2>4
  \* fopen truncates the file: the opener is the writer the file waits for.
  <1>2. ASSUME NEW c \in Cli, StartOpen(c) PROVE EInv'
    <2>1. ~linked[c]
      BY <1>2 DEF StartOpen
    <2>2. CASE /\ pidfile' = [exists |-> TRUE, pid |-> 0]
               /\ linked' = [linked EXCEPT ![c] = TRUE]
               /\ Goto(c, "st_write")
      <3>1. pc'[c] = "st_write" /\ linked'[c] /\ pidfile'.exists
        BY <2>2 DEF TypeOK, Goto
      <3>2. \A d \in Cli \ {c} : pc'[d] = pc[d] /\ linked'[d] = linked[d]
        BY <2>2 DEF TypeOK, Goto
      <3>3. QED
        BY <1>0, <3>1, <3>2
    <2>3. CASE /\ Goto(c, "idle")
               /\ UNCHANGED <<pidfile, linked>>
      <3>1. \A d \in Cli \ {c} : pc'[d] = pc[d]
        BY <2>3 DEF TypeOK, Goto
      <3>2. QED
        BY <1>0, <2>1, <2>3, <3>1
    <2>4. QED
      BY <1>2, <2>2, <2>3 DEF StartOpen
  \* fprintf through a linked FILE* fills the file with a real pid; through
  \* an unlinked one it changes nothing another start depends on.
  <1>3. ASSUME NEW c \in Cli, StartWrite(c) PROVE EInv'
    <2>1. /\ pc'[c] = "idle" /\ ~linked'[c]
          /\ \A d \in Cli \ {c} : pc'[d] = pc[d] /\ linked'[d] = linked[d]
      BY <1>3 DEF StartWrite, TypeOK, Goto
    <2>2. CASE linked[c]
      <3>1. pidfile' = [exists |-> TRUE, pid |-> child[c]] /\ child[c] \in Pids
        BY <1>3, <2>2 DEF StartWrite, TypeOK
      <3>2. pidfile'.pid # 0
        BY <3>1, PidsAssumption
      <3>3. QED
        BY <1>0, <2>1, <3>1, <3>2
    <2>3. CASE ~linked[c]
      <3>1. pidfile' = pidfile
        BY <1>3, <2>3 DEF StartWrite
      <3>2. QED
        BY <1>0, <2>1, <2>3, <3>1
    <2>4. QED
      BY <2>2, <2>3
  \* unlink removes the file and detaches every FILE*.
  <1>4. ASSUME NEW c \in Cli, RemovePidFile(c) PROVE EInv'
    BY <1>0, <1>4 DEF RemovePidFile, Unlink, NoFile
  <1>5. ASSUME NEW p \in Pids, DaemonExit(p) \/ OtherSpawn(p) \/ OtherExit(p)
        PROVE  EInv'
    BY <1>0, <1>5 DEF DaemonExit, OtherSpawn, OtherExit
  <1>6. CASE UNCHANGED vars
    BY <1>6 DEF vars, TypeOK
  <1>7. QED
    BY <1>1, <1>2, <1>3, <1>4, <1>5, <1>6 DEF Next

\* For any number of CLI processes and any set of pids, an existing pid
\* file with no pid in it is always one that a run_start has just created
\* or truncated with fopen and is still to write its child's pid into.
THEOREM EmptyPidFileIsBeingWritten == Spec => []EmptyFileBeingWritten
  BY EInvInit, EInvStep, PTL DEF Spec, EInv
========================================================================
