CONSTANTS
    Candidates <- MCLongNode
    Ws <- MCWs
    Zs <- MCZs
    SecTicks <- MCSecTicks
    MsTicks <- MCMsTicks
    NodeArgs <- MCNodeArgs
SPECIFICATION Spec
INVARIANT HlcParseIffValid
