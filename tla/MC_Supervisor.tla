--------------------------- MODULE MC_Supervisor ---------------------------
(***************************************************************************)
(* Model-checking instance of Supervisor: two terminal signals, so that    *)
(* exit_handler can preempt itself, and SIGHUP.                            *)
(***************************************************************************)
EXTENDS Supervisor

CONSTANTS SIGINT, SIGTERM, SIGHUP

MCExitSigs == {SIGINT, SIGTERM}

MCReloadSigs == {SIGHUP}

=============================================================================
