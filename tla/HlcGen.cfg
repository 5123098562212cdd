CONSTANTS
    W <- MCW
    MaxClock <- MCMaxClock
    IntBits <- MCIntBits
    RemotePT <- MCRemotePT
    RemoteLC <- MCRemoteLC
SPECIFICATION Spec
INVARIANT TypeOK
PROPERTIES ObserveDominatesRemote ClockSpec
CHECK_DEADLOCK FALSE
