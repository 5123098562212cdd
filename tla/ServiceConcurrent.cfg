CONSTANTS
    c1 = c1
    c2 = c2
    Cli <- MCCliPar
    Pids <- MCPids
SPECIFICATION Spec
INVARIANT AtMostOneDaemon
