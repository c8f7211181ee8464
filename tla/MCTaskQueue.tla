----------------------------- MODULE MCTaskQueue -----------------------------
(***************************************************************************)
(* An instance of TaskQueue for TLC.  Two tasks share a key and can be     *)
(* withdrawn, one kind has no second attempt and one has no lease, so that *)
(* every rule of the queue that depends on the kind is met.                *)
(***************************************************************************)
EXTENDS TaskQueue, TLC

CONSTANTS updateA, updateB, check, logs

MCKinds == updateA :> "update_agent" @@ updateB :> "update_agent"
           @@ check :> "check_host" @@ logs :> "stream_logs"

MCKindOf == [t \in Tasks |-> MCKinds[t]]
MCSubjectOf == [t \in Tasks |-> kindOf[t]]
MCSubjects == TaskKinds
=============================================================================
