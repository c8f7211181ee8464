----------------------------- MODULE MCAgentTasks -----------------------------
(***************************************************************************)
(* An instance of AgentTasks for TLC: the create, the stop and the remove  *)
(* of one runner in whatever order they come, another runner's create in   *)
(* the same lane, and a prewarm behind both.                               *)
(***************************************************************************)
EXTENDS AgentTasks, TLC

CONSTANTS create, stop, remove, other, warm, r1, r2

MCKindOf == [d \in Deliveries |->
  CASE d \in {create, other} -> "create_runner"
    [] d = stop -> "stop_runner"
    [] d = remove -> "remove_runner"
    [] OTHER -> "prewarm_image"]
MCRunnerOf == [d \in Deliveries |->
  CASE d = warm -> NoRunner
    [] d = other -> r2
    [] OTHER -> r1]
MCLaneOf == [d \in Deliveries |-> "startup"]
=============================================================================
