CONSTANTS
    Candidates <- MCCandidates
    Ws <- MCWs
    Zs <- MCZs
    SecTicks <- MCSecTicks
    MsTicks <- MCMsTicks
    NodeArgs <- MCNodeArgs
SPECIFICATION Spec
INVARIANT WidPaddingIffZ
