--------------------------- MODULE MCRunnerCleanup ---------------------------
(***************************************************************************)
(* RunnerCleanup for TLC: one registration delete at a time.               *)
(***************************************************************************)
EXTENDS RunnerCleanup, TLC

CONSTANT c1
=============================================================================
