---------------------------- MODULE MC_MiredoRun ----------------------------
(* miredo_run() for TLC: every mode, with and without a server address,   *)
(* every outcome of every setup step, and one signal during the teardown.  *)
EXTENDS MiredoRun
=============================================================================
