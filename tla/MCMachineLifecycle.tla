------------------------- MODULE MCMachineLifecycle -------------------------
(* One machine, two identities, two steps at once. *)
EXTENDS MachineLifecycle, TLC

Symmetry == Permutations(Slots) \cup Permutations(Ids)
=============================================================================
