-------------------------- MODULE MCUpdateAttempts ---------------------------
(***************************************************************************)
(* An instance of UpdateAttempts for TLC.                                  *)
(***************************************************************************)
EXTENDS UpdateAttempts
=============================================================================
