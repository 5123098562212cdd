CONSTANTS
    c1 = c1
    c2 = c2
    Cli <- MCCliSeq
    Pids <- MCPids
SPECIFICATION Spec
INVARIANTS TypeOK AtMostOneDaemon
