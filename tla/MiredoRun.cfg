\* The worker returns and its process exits, so the model may stop.
CONSTANTS
    MaxFds = 3
    MaxCalls = 2
    MaxSignals = 1
SPECIFICATION Spec
CHECK_DEADLOCK FALSE
INVARIANT TypeOK
INVARIANT ServeOnlyWhenReady
INVARIANT TeardownReleases
PROPERTY WorkerReturns
PROPERTY HelperExits
