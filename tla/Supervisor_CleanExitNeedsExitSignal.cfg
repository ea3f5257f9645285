\* Violation run: CleanExitNeedsExitSignal, a statement of spec.md the code does not keep.
CONSTANTS
    SIGINT = SIGINT
    SIGTERM = SIGTERM
    SIGHUP = SIGHUP
    ExitSigs <- MCExitSigs
    ReloadSigs <- MCReloadSigs
    MaxSignals = 3
    MaxCrashes = 1

SPECIFICATION Spec

INVARIANT CleanExitNeedsExitSignal
