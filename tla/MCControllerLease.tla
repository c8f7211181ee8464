-------------------------- MODULE MCControllerLease --------------------------
(***************************************************************************)
(* Three process starts on two machines: two on one machine, so that the   *)
(* lock and the same-host rule are met, and one across.                    *)
(***************************************************************************)
EXTENDS ControllerLease, TLC

CONSTANTS c1, c2, c3, m1, m2

MCMachineOf == [c \in Controllers |-> IF c = c3 THEN m2 ELSE m1]
=============================================================================
