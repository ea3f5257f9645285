CONSTANTS
    MaxFds = 3
    MaxCalls = 4
    MTUs <- MCMTUs
    PrefixLens <- MCPrefixLens
    SendLens <- MCSendLens
    ReadLens <- MCReadLens
SPECIFICATION Spec
INVARIANT RequestSocketsReleased
