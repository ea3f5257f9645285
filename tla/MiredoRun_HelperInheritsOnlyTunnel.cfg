\* The worker returns and its process exits, so the model may stop.
CONSTANTS
    MaxFds = 3
    MaxCalls = 2
    MaxSignals = 1
SPECIFICATION Spec
CHECK_DEADLOCK FALSE
INVARIANT HelperInheritsOnlyTunnel
