----------------------------- MODULE MCService -----------------------------
EXTENDS Service

CONSTANTS c1, c2

\* One user running start, stop and status one after another.
MCCliSeq == {c1}

\* Two invocations at once, e.g. two shells or a supervisor and a user.
MCCliPar == {c1, c2}

\* Three pids: enough for a daemon, an unrelated process that takes a
\* pid the file still names, and a second daemon.
MCPids == {1, 2, 3}
=============================================================================
