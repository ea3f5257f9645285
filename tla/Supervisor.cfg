\* The supervisor, its handlers and the worker's loop: safety and liveness.
CONSTANTS
    SIGINT = SIGINT
    SIGTERM = SIGTERM
    SIGHUP = SIGHUP
    ExitSigs <- MCExitSigs
    ReloadSigs <- MCReloadSigs
    MaxSignals = 3
    MaxCrashes = 1

SPECIFICATION Spec

INVARIANT TypeOK
INVARIANT HandlerWritesOpenPipe
INVARIANT WorkerReaped

PROPERTY ExitIsFinal
PROPERTY RequestEndsGeneration
