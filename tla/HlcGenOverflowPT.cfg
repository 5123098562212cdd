CONSTANTS
    W <- MCOvfW
    MaxClock <- MCMaxClock
    IntBits <- MCOvfIntBits
    RemotePT <- MCOvfRemotePT
    RemoteLC <- MCOvfPtRemoteLC
SPECIFICATION Spec
PROPERTY PtNeverDecreases
CHECK_DEADLOCK FALSE
