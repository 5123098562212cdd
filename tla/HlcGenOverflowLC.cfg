CONSTANTS
    W <- MCOvfW
    MaxClock <- MCMaxClock
    IntBits <- MCOvfIntBits
    RemotePT <- MCRemotePT
    RemoteLC <- MCOvfRemoteLC
SPECIFICATION Spec
PROPERTY ObserveDominatesRemote
CHECK_DEADLOCK FALSE
