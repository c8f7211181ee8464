------------------------ MODULE MCRunnerLifecycle ------------------------
(* RunnerLifecycle for TLC: one runner, with the jobs and the kind of      *)
(* registration each configuration names.                                  *)
EXTENDS RunnerLifecycle, TLC

\* Jobs differ in nothing but their identity, and no liveness is checked.
JobSymmetry == Permutations(Jobs)
=============================================================================
