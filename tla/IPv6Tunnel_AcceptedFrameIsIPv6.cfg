CONSTANTS
    MaxFds = 3
    MaxCalls = 4
    MTUs <- MCMTUs
    PrefixLens <- MCPrefixLens
    SendLens <- MCSendLens
    ReadLens <- MCShortReadLens
SPECIFICATION Spec
INVARIANT AcceptedFrameIsIPv6
