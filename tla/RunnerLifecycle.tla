--------------------------- MODULE RunnerLifecycle ---------------------------
(***************************************************************************)
(* One runner from its row to its last trace, and everybody who moves it:  *)
(* the scheduling pass (which decides against a snapshot and applies       *)
(* against the live row), the detached credential mint, the webhook        *)
(* handlers (which hold no lock the pass holds), the enrichment worker,    *)
(* the agent's results and reports, the operator, the reaper, GitHub.      *)
(*                                                                         *)
(* Rows do not read each other, so one runner with every actor is the      *)
(* whole of the concurrency there is over a row.  Jobs are the jobs GitHub *)
(* may give it.  Delivery of the host's tasks is specified in TaskQueue;   *)
(* here a task is outstanding until a result settles it, may be executed   *)
(* more than once, in any order, and may be lost with the controller.      *)
(***************************************************************************)
EXTENDS Naturals, FiniteSets

CONSTANTS
    Jobs,           \* the jobs GitHub may hand this runner
    NoJob,          \* current_job_id = ""
    Ephemeral,      \* pool.Ephemeral: a JIT registration and a single job
    MaxHandlers,    \* bound: deliveries being handled at one moment
    MaxRemovals,    \* bound: removals under way at one moment
    MaxResults      \* bound: results the agent has not yet reported

ASSUME NoJobAssumption == NoJob \notin Jobs
ASSUME EphemeralAssumption == Ephemeral \in BOOLEAN
ASSUME BoundsAssumption ==
    MaxHandlers \in Nat /\ MaxRemovals \in Nat /\ MaxResults \in Nat

VARIABLES
    state,      \* runners.state, or "none" before the row, "deleted" after it
    job,        \* runners.current_job_id
    used,       \* runners.jobs_handled # 0
    hostGone,   \* runners.host_removed_at is set
    jobRow,     \* jobs.state of each job, with its link to this runner
    tasks,      \* kinds of the runner's tasks outstanding in its host's queue
    mint,       \* the detached create: where finishCreateRunner stands
    pass,       \* what the pass holding reconcileMu has decided for the runner
    removing,   \* removals under way, by who asked and how far they are
    ready,      \* the enrichment worker holds a row it read as registering
    handlers,   \* deliveries between ApplyJob and the runner's own write
    drainedBy,  \* history: who took the row to draining
    reg,        \* GitHub holds a registration of the runner's name
    assigned,   \* the job GitHub has running on that registration
    ghJob,      \* GitHub's own state of each job
    work,       \* the workload on the host
    results,    \* results of outstanding tasks, not yet reported
    late        \* results of tasks the controller no longer has on record

rowVars  == <<state, job, used>>
hubVars  == <<reg, assigned, ghJob>>
hostVars == <<work, results, late>>
ctlVars  == <<mint, pass, removing, ready, handlers>>
vars == <<state, job, used, hostGone, jobRow, tasks, mint, pass, removing,
          ready, handlers, drainedBy, reg, assigned, ghJob, work, results, late>>

LiveStates == {"provisioning", "registering", "idle", "busy", "draining"}

\* RunnerState.Terminal
Terminal == {"removed", "failed"}

RowStates == LiveStates \cup Terminal \cup {"none", "deleted"}

JobStates == {"queued", "in_progress", "completed"}

Outcomes == {"created", "superseded", "createFailed",
             "stopGone", "stopped", "stopFailed",
             "removed", "removePending", "removeFailed"}

\* The kind of task each outcome answers.
KindOf == [x \in Outcomes |->
              CASE x \in {"created", "superseded", "createFailed"} -> "create"
                [] x \in {"stopGone", "stopped", "stopFailed"} -> "stop"
                [] OTHER -> "remove"]

Removals == [by : {"scheduler", "caller", "mint"}, at : {"registration", "row"}]

Handlers == [job : Jobs, saved : {"in_progress", "completed"}]

\* A removal is taken up: its registration first, its row after that.
Removing(who) ==
    /\ removing' = removing \cup {[by |-> who, at |-> "registration"]}
    /\ Cardinality(removing') <= MaxRemovals

-----------------------------------------------------------------------------
(***************************************************************************)
(* The store's writes to the row, each one a transaction.                  *)
(***************************************************************************)

\* validRunnerTransitions
validRunnerTransitions ==
    [s \in RowStates |->
        CASE s = "provisioning" -> {"registering", "draining", "failed", "removed"}
          [] s = "registering"  -> {"idle", "busy", "draining", "failed", "removed"}
          [] s = "idle"         -> {"busy", "draining", "failed", "removed"}
          [] s = "busy"         -> {"idle", "draining", "failed", "removed"}
          [] s = "draining"     -> {"removed", "failed"}
          [] s = "failed"       -> {"removed"}
          [] OTHER              -> {}]

RowExists == state \in LiveStates \cup Terminal

CanTransition(from, to) == from = to \/ to \in validRunnerTransitions[from]

\* Faulty variant: the job link outlives the runner's work.
TransitionKeepsLink(to) ==
    /\ RowExists
    /\ CanTransition(state, to)
    /\ state' = to
    /\ used' = (used \/ (to = "idle" /\ state = "busy"))
    /\ UNCHANGED job

\* transitionRunner without unlessBusy: idle, removed and failed drop the job
\* link, and leaving busy for idle counts a job as handled.
TransitionRunner(to) ==
    /\ RowExists
    /\ CanTransition(state, to)
    /\ state' = to
    /\ job' = IF to \in {"idle"} \cup Terminal THEN NoJob ELSE job
    /\ used' = (used \/ (to = "idle" /\ state = "busy"))

\* TransitionRunnerUnlessBusy, FailRunnerUnlessBusy
TransitionRunnerUnlessBusy(to) ==
    /\ state # "busy" /\ job = NoJob
    /\ TransitionRunner(to)

\* A transition the store refuses changes nothing.
TryTransition(to) ==
    IF RowExists /\ CanTransition(state, to)
    THEN TransitionRunner(to)
    ELSE UNCHANGED rowVars

\* Faulty variants of StartRunnerJob: it revives a failed row; it lets a second
\* job displace the first.
StartRevives(j) ==
    IF state \in {"provisioning", "registering", "idle", "failed"}
    THEN state' = "busy" /\ job' = j /\ UNCHANGED used
    ELSE IF state \in {"busy", "draining"} /\ job = NoJob
    THEN job' = j /\ UNCHANGED <<state, used>>
    ELSE UNCHANGED rowVars

StartDisplaces(j) ==
    IF state \in LiveStates \ {"draining"}
    THEN state' = "busy" /\ job' = j /\ UNCHANGED used
    ELSE IF state = "draining" /\ job = NoJob
    THEN job' = j /\ UNCHANGED <<state, used>>
    ELSE UNCHANGED rowVars

\* StartRunnerJob: GitHub's in_progress brings a row that is behind forward to
\* busy; a terminal row is left alone, and a working one keeps the job it has.
StartRunnerJob(j) ==
    IF state \in {"provisioning", "registering", "idle"}
    THEN state' = "busy" /\ job' = j /\ UNCHANGED used
    ELSE IF state \in {"busy", "draining"} /\ job = NoJob
    THEN job' = j /\ UNCHANGED <<state, used>>
    ELSE UNCHANGED rowVars

\* CompleteRunnerJob's two cases: the job the runner holds, or, for an unused
\* ephemeral runner, a completion that overtook its own in_progress.
Completes(j) ==
    \/ job = j /\ state \in {"busy", "draining"}
    \/ /\ Ephemeral /\ job = NoJob /\ ~used
       /\ state \in {"provisioning", "registering", "idle"}
       /\ jobRow[j] = "completed"

CompleteRunnerJob(j) ==
    IF Completes(j)
    THEN /\ job' = NoJob
         /\ used' = TRUE
         /\ state' = IF Ephemeral THEN "removed"
                     ELSE IF state = "draining" THEN state ELSE "idle"
    ELSE UNCHANGED rowVars

\* ListRunningJobsForRunner, and the snapshot's stillRunning
StillRunning == \E j \in Jobs : jobRow[j] = "in_progress"

\* reconcileMu, held by a pass and by finishCreateRunner's last look.
LockFree == pass = "none" /\ mint # "publishing"

-----------------------------------------------------------------------------
Init ==
    /\ state = "none" /\ job = NoJob /\ used = FALSE /\ hostGone = FALSE
    /\ jobRow = [j \in Jobs |-> "queued"]
    /\ tasks = {} /\ mint = "none" /\ pass = "none" /\ removing = {}
    /\ ready = FALSE /\ handlers = {} /\ drainedBy = "nobody"
    /\ reg = FALSE /\ assigned = NoJob /\ ghJob = [j \in Jobs |-> "queued"]
    /\ work = "none" /\ results = {} /\ late = {}

-----------------------------------------------------------------------------
(***************************************************************************)
(* Creating: the row under the lock, the credential outside it, and one    *)
(* last look at the row, under the lock again, before the task goes out.   *)
(***************************************************************************)

\* createRunner: the row, and the detached call.
CreateRunner ==
    /\ LockFree
    /\ state = "none"
    /\ state' = "provisioning"
    /\ mint' = "minting"
    /\ UNCHANGED <<job, used, hostGone, jobRow, tasks, pass, removing, ready,
                   handlers, drainedBy, hubVars, hostVars>>

\* mintCredentials answers: a JIT configuration registers the runner there and
\* then, a registration token registers nothing yet.
MintCredentials ==
    /\ mint = "minting"
    /\ mint' = "minted"
    /\ reg' = (reg \/ Ephemeral)
    /\ UNCHANGED <<rowVars, hostGone, jobRow, tasks, pass, removing, ready,
                   handlers, drainedBy, assigned, ghJob, hostVars>>

\* mintCredentials fails, or its answer is lost after GitHub acted on it:
\* FailRunner.
MintFails ==
    /\ mint = "minting"
    /\ mint' = "none"
    /\ reg' \in {reg, reg \/ Ephemeral}
    /\ TryTransition("failed")
    /\ UNCHANGED <<hostGone, jobRow, tasks, pass, removing, ready, handlers,
                   drainedBy, assigned, ghJob, hostVars>>

\* Faulty variant: the task is published without a second look at the row.
FinishCreateUnchecked ==
    /\ mint = "minted"
    /\ LockFree
    /\ mint' = "publishing"
    /\ UNCHANGED <<rowVars, hostGone, jobRow, tasks, pass, removing, ready,
                   handlers, drainedBy, hubVars, hostVars>>

\* finishCreateRunner re-reads the row under reconcileMu and finds it still
\* provisioning.
FinishCreateRereads ==
    /\ mint = "minted"
    /\ LockFree
    /\ state = "provisioning"
    /\ mint' = "publishing"
    /\ UNCHANGED <<rowVars, hostGone, jobRow, tasks, pass, removing, ready,
                   handlers, drainedBy, hubVars, hostVars>>

\* ... and, holding the lock, enqueues the create.
FinishCreatePublishes ==
    /\ mint = "publishing"
    /\ mint' = "none"
    /\ tasks' = tasks \cup {"create"}
    /\ UNCHANGED <<rowVars, hostGone, jobRow, pass, removing, ready, handlers,
                   drainedBy, hubVars, hostVars>>

\* ... or it finds the row elsewhere and discards what it minted: a draining
\* runner is removed, a failed, removed or vanished one loses its registration.
FinishCreateDiscards ==
    /\ mint = "minted"
    /\ LockFree
    /\ state # "provisioning"
    /\ mint' = "none"
    /\ tasks' = IF state \in {"draining", "removed"} THEN tasks \cup {"remove"} ELSE tasks
    /\ IF state = "draining" THEN Removing("caller")
       ELSE IF state \in Terminal \cup {"deleted"} THEN Removing("mint")
       ELSE UNCHANGED removing
    /\ UNCHANGED <<rowVars, hostGone, jobRow, pass, ready, handlers, drainedBy,
                   hubVars, hostVars>>

-----------------------------------------------------------------------------
(***************************************************************************)
(* The scheduling pass.  Decide reads a snapshot, apply writes the live    *)
(* row; whatever holds no reconcileMu moves the runner in between.         *)
(***************************************************************************)

\* Decide, under reconcileMu: idle or starting capacity it can do without, a
\* starting or draining runner past its timeout, a failure kept long enough.
Decide ==
    /\ LockFree
    /\ \/ /\ state \in {"provisioning", "registering", "idle"}
          /\ ~StillRunning
          /\ pass' = "drain"
       \/ /\ \/ state \in {"provisioning", "registering"}
             \/ state = "draining" /\ job = NoJob
          /\ pass' = "fail"
       \/ /\ state = "failed"
          /\ ~StillRunning
          /\ pass' = "remove"
    /\ UNCHANGED <<rowVars, hostGone, jobRow, tasks, mint, removing, ready,
                   handlers, drainedBy, hubVars, hostVars>>

\* Faulty variant: the drain goes ahead without asking GitHub.
WithdrawNothing ==
    /\ pass = "drain"
    /\ pass' = "withdrawn"
    /\ UNCHANGED <<rowVars, hostGone, jobRow, tasks, mint, removing, ready,
                   handlers, drainedBy, hubVars, hostVars>>

\* withdrawRegistration: GitHub deletes a registration that runs no job and
\* refuses one that does; finding none by that name counts as withdrawn.
WithdrawRegistration ==
    /\ pass = "drain"
    /\ IF assigned = NoJob /\ RowExists
       THEN pass' = "withdrawn" /\ reg' = FALSE
       ELSE pass' = "none" /\ UNCHANGED reg
    /\ UNCHANGED <<rowVars, hostGone, jobRow, tasks, mint, removing, ready,
                   handlers, drainedBy, assigned, ghJob, hostVars>>

\* GitHub does not answer, or is rate-limiting: the runner stays as it was.
WithdrawFails ==
    /\ pass = "drain"
    /\ pass' = "none"
    /\ UNCHANGED <<rowVars, hostGone, jobRow, tasks, mint, removing, ready,
                   handlers, drainedBy, hubVars, hostVars>>

\* drainRunner with unlessBusy: the transition and the stop, or neither.
DrainUnlessBusy ==
    /\ pass = "withdrawn"
    /\ pass' = "none"
    /\ IF state \in LiveStates \ {"busy"} /\ job = NoJob
       THEN /\ TransitionRunnerUnlessBusy("draining")
            /\ tasks' = tasks \cup {"stop"}
            /\ drainedBy' = IF state = "draining" THEN drainedBy ELSE "scheduler"
       ELSE UNCHANGED <<rowVars, tasks, drainedBy>>
    /\ UNCHANGED <<hostGone, jobRow, mint, removing, ready, handlers, hubVars, hostVars>>

\* failRunner with unlessBusy
FailUnlessBusy ==
    /\ pass = "fail"
    /\ pass' = "none"
    /\ IF state \in (LiveStates \ {"busy"}) \cup {"failed"} /\ job = NoJob
       THEN TransitionRunnerUnlessBusy("failed")
       ELSE UNCHANGED rowVars
    /\ UNCHANGED <<hostGone, jobRow, tasks, mint, removing, ready, handlers,
                   drainedBy, hubVars, hostVars>>

\* removeRunnerID: claimed once, the task out at once, the rest detached.
removeRunnerID ==
    IF \A x \in removing : x.by # "scheduler"
    THEN tasks' = tasks \cup {"remove"} /\ Removing("scheduler")
    ELSE UNCHANGED <<tasks, removing>>

\* apply's ActionRemove
ApplyRemove ==
    /\ pass = "remove"
    /\ pass' = "none"
    /\ IF RowExists THEN removeRunnerID ELSE UNCHANGED <<tasks, removing>>
    /\ UNCHANGED <<rowVars, hostGone, jobRow, mint, ready, handlers, drainedBy,
                   hubVars, hostVars>>

\* deleteRegistration: deleted, or refused for a running job, or failed.  A
\* mint's discard ends here; a removal goes on to the row.
DeleteRegistration(x) ==
    /\ x \in removing /\ x.at = "registration"
    /\ \/ assigned = NoJob /\ reg' = FALSE
       \/ UNCHANGED reg
    /\ removing' = (removing \ {x}) \cup
            (IF x.by = "mint" THEN {} ELSE {[x EXCEPT !.at = "row"]})
    /\ UNCHANGED <<rowVars, hostGone, jobRow, tasks, mint, pass, ready, handlers,
                   drainedBy, assigned, ghJob, hostVars>>

\* finishRemoveRunner marks the row removed.
FinishRemove(x) ==
    /\ x \in removing /\ x.at = "row"
    /\ removing' = removing \ {x}
    /\ TryTransition("removed")
    /\ UNCHANGED <<hostGone, jobRow, tasks, mint, pass, ready, handlers,
                   drainedBy, hubVars, hostVars>>

\* removeRunner, for the callers that wait for its answer.
removeRunner ==
    /\ tasks' = tasks \cup {"remove"}
    /\ Removing("caller")

\* DrainRunner, with the operator's confirmation where a job is running.
OperatorDrains ==
    /\ state \in LiveStates
    /\ TransitionRunner("draining")
    /\ tasks' = tasks \cup {"stop"}
    /\ drainedBy' = IF state = "draining" THEN drainedBy ELSE "operator"
    /\ UNCHANGED <<hostGone, jobRow, ctlVars, hubVars, hostVars>>

\* RemoveRunner, forced or of a runner that is not busy.
OperatorRemoves ==
    /\ RowExists /\ state # "removed"
    /\ removeRunner
    /\ UNCHANGED <<rowVars, hostGone, jobRow, mint, pass, ready, handlers,
                   drainedBy, hubVars, hostVars>>

\* DeletePool or DeleteHost takes the row with it.
DeleteRow ==
    /\ RowExists
    /\ state' = "deleted" /\ job' = NoJob
    /\ UNCHANGED <<used, hostGone, jobRow, tasks, ctlVars, drainedBy, hubVars, hostVars>>

\* recoverHostCleanup, under reconcileMu.
RecoverHostCleanup ==
    /\ LockFree
    /\ state \in Terminal /\ ~hostGone /\ ~StillRunning
    /\ tasks' = tasks \cup {"remove"}
    /\ UNCHANGED <<rowVars, hostGone, jobRow, ctlVars, drainedBy, hubVars, hostVars>>

\* reap: a registration whose runner is finished, or has no row and is offline.
Reap ==
    /\ reg /\ assigned = NoJob
    /\ state \in Terminal \/ (state = "deleted" /\ work # "up")
    /\ reg' = FALSE
    /\ UNCHANGED <<rowVars, hostGone, jobRow, tasks, ctlVars, drainedBy,
                   assigned, ghJob, hostVars>>

-----------------------------------------------------------------------------
(***************************************************************************)
(* GitHub's deliveries: any order, any number of times, from the webhook   *)
(* or from the pollers, which go through the same handler.                 *)
(***************************************************************************)

jobRank == [s \in JobStates |->
                CASE s = "queued" -> 2 [] s = "in_progress" -> 3 [] OTHER -> 4]

\* applyWorkflowJob up to ApplyJob: the row is found by name, the job merged
\* and never moved backwards, and the merged job kept for the second half.
ApplyJob(j, s) ==
    LET saved == IF jobRank[s] >= jobRank[jobRow[j]] THEN s ELSE jobRow[j]
    IN  /\ RowExists
        /\ ghJob[j] = "completed" \/ ghJob[j] = s
        /\ Cardinality(handlers) < MaxHandlers
        /\ jobRow' = [jobRow EXCEPT ![j] = saved]
        /\ handlers' = handlers \cup {[job |-> j, saved |-> saved]}
        /\ UNCHANGED <<rowVars, hostGone, tasks, mint, pass, removing, ready,
                       drainedBy, hubVars, hostVars>>

\* ... and its second half: the start or the completion written to the runner.
ApplyToRunner(h) ==
    /\ h \in handlers
    /\ handlers' = handlers \ {h}
    /\ IF h.saved = "in_progress"
       THEN StartRunnerJob(h.job) /\ UNCHANGED tasks
       ELSE /\ CompleteRunnerJob(h.job)
            /\ tasks' = IF Ephemeral /\ Completes(h.job) THEN tasks \cup {"remove"} ELSE tasks
    /\ UNCHANGED <<hostGone, jobRow, mint, pass, removing, ready, drainedBy,
                   hubVars, hostVars>>

\* stopCancelledJobRunner: an operator cancels the run of a job in progress, or
\* GitHub confirms that it was cancelled.  The job is taken off the row first.
StopCancelledJobRunner(j) ==
    /\ RowExists /\ job = j /\ jobRow[j] = "in_progress"
    /\ \/ UNCHANGED jobRow
       \/ ghJob[j] = "completed" /\ jobRow' = [jobRow EXCEPT ![j] = "completed"]
    /\ CompleteRunnerJob(j)
    /\ IF Ephemeral THEN tasks' = tasks \cup {"remove"} /\ UNCHANGED removing
       ELSE removeRunnerID
    /\ UNCHANGED <<hostGone, mint, pass, ready, handlers, drainedBy, hubVars, hostVars>>

\* enrich "ready": the row reads registering and GitHub lists it online ...
EnrichReadyAsks ==
    /\ ~ready
    /\ state = "registering" /\ work = "up" /\ reg
    /\ ready' = TRUE
    /\ UNCHANGED <<rowVars, hostGone, jobRow, tasks, mint, pass, removing,
                   handlers, drainedBy, hubVars, hostVars>>

\* ... so it is written idle, on the strength of the copy read before asking.
EnrichReadyWrites ==
    /\ ready
    /\ ready' = FALSE
    /\ TryTransition("idle")
    /\ UNCHANGED <<hostGone, jobRow, tasks, mint, pass, removing, handlers,
                   drainedBy, hubVars, hostVars>>

-----------------------------------------------------------------------------
(***************************************************************************)
(* GitHub and the workload, as the code relies on them (external).         *)
(***************************************************************************)

\* The workload connects: with a JIT configuration if its registration still
\* exists, with a token by registering itself.
WorkloadRegisters ==
    /\ work = "starting"
    /\ IF Ephemeral
       THEN work' = (IF reg THEN "up" ELSE "exited") /\ UNCHANGED reg
       ELSE work' = "up" /\ reg' = TRUE
    /\ UNCHANGED <<rowVars, hostGone, jobRow, tasks, ctlVars, drainedBy,
                   assigned, ghJob, results, late>>

AssignJob(j) ==
    /\ reg /\ work = "up" /\ assigned = NoJob
    /\ ghJob[j] = "queued"
    /\ Ephemeral => \A k \in Jobs : ghJob[k] = "queued"
    /\ assigned' = j
    /\ ghJob' = [ghJob EXCEPT ![j] = "in_progress"]
    /\ UNCHANGED <<rowVars, hostGone, jobRow, tasks, ctlVars, drainedBy, reg, hostVars>>

\* The job ends.  GitHub drops an ephemeral registration with its one job, and
\* the workload exits; a workload that died ends its job as well.
JobEnds ==
    /\ assigned # NoJob
    /\ ghJob' = [ghJob EXCEPT ![assigned] = "completed"]
    /\ assigned' = NoJob
    /\ reg' = (reg /\ ~Ephemeral)
    /\ work' = IF Ephemeral /\ work = "up" THEN "exited" ELSE work
    /\ UNCHANGED <<rowVars, hostGone, jobRow, tasks, ctlVars, drainedBy, results, late>>

WorkloadDies ==
    /\ work \in {"starting", "up"}
    /\ work' = "exited"
    /\ UNCHANGED <<rowVars, hostGone, jobRow, tasks, ctlVars, drainedBy, hubVars,
                   results, late>>

-----------------------------------------------------------------------------
(***************************************************************************)
(* The agent: tasks at least once, results and reports on requests of      *)
(* their own.                                                              *)
(***************************************************************************)

\* A task is answered; the answer still has to reach the controller.
Answer(x) ==
    /\ Cardinality(results \cup late) < MaxResults
    /\ results' = results \cup {x}

\* start and handleCreate: a workload the host has answers the task, a stop or
\* remove waiting behind it supersedes it, and otherwise one is created.  A task
\* given back unstarted once too often counts as failed, whatever is there.
AgentCreates ==
    /\ "create" \in tasks
    /\ \/ work = "none" /\ work' = "starting" /\ Answer("created")
       \/ work # "none" /\ UNCHANGED work /\ Answer("created")
       \/ tasks \cap {"stop", "remove"} # {} /\ UNCHANGED work /\ Answer("superseded")
       \/ UNCHANGED work /\ Answer("createFailed")
    /\ UNCHANGED <<rowVars, hostGone, jobRow, tasks, ctlVars, drainedBy, hubVars, late>>

\* handleStop: nothing to stop is reported removed; a stop claims no state.
AgentStops ==
    /\ "stop" \in tasks
    /\ \/ work = "none" /\ UNCHANGED work /\ Answer("stopGone")
       \/ work # "none" /\ work' = "exited" /\ Answer("stopped")
       \/ UNCHANGED work /\ Answer("stopFailed")
    /\ UNCHANGED <<rowVars, hostGone, jobRow, tasks, ctlVars, drainedBy, hubVars, late>>

\* handleRemove
AgentRemoves ==
    /\ "remove" \in tasks
    /\ work' = "none" /\ Answer("removed")
    /\ UNCHANGED <<rowVars, hostGone, jobRow, tasks, ctlVars, drainedBy, hubVars, late>>

\* reportRemoveFailure: failed, or still under way in the daemon.
AgentRemoveFails ==
    /\ "remove" \in tasks
    /\ \E x \in {"removePending", "removeFailed"} : Answer(x)
    /\ UNCHANGED <<rowVars, hostGone, jobRow, tasks, ctlVars, drainedBy, hubVars,
                   work, late>>

\* What ReportResult makes of an outcome: the state it applies, if any.
Applies(x) ==
    CASE x = "created" /\ state = "provisioning" -> TransitionRunner("registering")
      [] x \in {"stopGone", "removed"} -> TryTransition("removed")
      [] x \in {"createFailed", "stopFailed", "removeFailed"} /\ state \in LiveStates
            -> TransitionRunner("failed")
      [] OTHER -> UNCHANGED rowVars

\* ReportResult, and the complete() it defers.  A confirmed removal stamps
\* host_removed_at.
ReportResult(x) ==
    /\ \/ x \in results /\ results' = results \ {x} /\ UNCHANGED late
          /\ tasks' = tasks \ {KindOf[x]}
       \/ x \in late /\ late' = late \ {x} /\ UNCHANGED <<results, tasks>>
    /\ Applies(x)
    /\ hostGone' = (hostGone \/ (x = "removed" /\ RowExists))
    /\ UNCHANGED <<jobRow, ctlVars, drainedBy, hubVars, work>>

\* sweepTasks gives up on a task that was delivered too often: only a dropped
\* stop moves the row.
SweepDrops(k) ==
    LET answered == {x \in results : KindOf[x] = k}
    IN  /\ k \in tasks
        /\ tasks' = tasks \ {k}
        /\ results' = results \ answered
        /\ late' = late \cup answered
        /\ IF k = "stop" THEN TryTransition("failed") ELSE UNCHANGED rowVars
        /\ UNCHANGED <<hostGone, jobRow, ctlVars, drainedBy, hubVars, work>>

\* A report of a workload that has ended: the row goes to the reported state.
ReportsExit ==
    /\ work = "exited"
    /\ state \in LiveStates
    /\ \E to \in Terminal : TryTransition(to)
    /\ UNCHANGED <<hostGone, jobRow, tasks, ctlVars, drainedBy, hubVars, hostVars>>

\* cleanUp: once its end has been reported the workload is removed, and the
\* removal confirmed unless that report is lost.
AgentCleansUp ==
    /\ work = "exited"
    /\ state \in Terminal \cup {"deleted"}
    /\ work' = "none"
    /\ hostGone' \in {hostGone, hostGone \/ state \in Terminal}
    /\ UNCHANGED <<rowVars, jobRow, tasks, ctlVars, drainedBy, hubVars, results, late>>

\* reclaimLostRunners: a silent host's live runners are failed.
ReclaimLost ==
    /\ state \in LiveStates
    /\ TransitionRunner("failed")
    /\ UNCHANGED <<hostGone, jobRow, tasks, ctlVars, drainedBy, hubVars, hostVars>>

\* reconcileLateReport: a failed runner reported alive is removed unless a job
\* the controller knows of still runs on it.
LateReport ==
    /\ state = "failed" /\ work \in {"starting", "up"}
    /\ ~StillRunning
    /\ removeRunner
    /\ UNCHANGED <<rowVars, hostGone, jobRow, mint, pass, ready, handlers,
                   drainedBy, hubVars, hostVars>>

\* unknownRunners, releaseUnknown, reapOrphan: a live workload whose row is
\* removed or gone is given back to the agent to collect.
ReleaseUnknown ==
    /\ state \in {"removed", "deleted"} /\ work \in {"starting", "up"}
    /\ work' = "none"
    /\ hostGone' \in {hostGone, hostGone \/ state = "removed"}
    /\ UNCHANGED <<rowVars, jobRow, tasks, ctlVars, drainedBy, hubVars, results, late>>

\* The agent stops with results unsent; its tasks are delivered again.
AgentRestarts ==
    /\ results \cup late # {}
    /\ results' = {} /\ late' = {}
    /\ UNCHANGED <<rowVars, hostGone, jobRow, tasks, ctlVars, drainedBy, hubVars, work>>

\* The controller stops: queues, detached calls and handlers go with it, and a
\* credential being minted may be minted with nobody to hear of it.
ControllerRestarts ==
    /\ tasks' = {} /\ pass' = "none" /\ removing' = {} /\ ready' = FALSE
    /\ handlers' = {} /\ mint' = "none"
    /\ late' = late \cup results /\ results' = {}
    /\ reg' \in {reg, reg \/ (mint = "minting" /\ Ephemeral)}
    /\ UNCHANGED <<rowVars, hostGone, jobRow, drainedBy, assigned, ghJob, work>>

-----------------------------------------------------------------------------
Controller ==
    \/ CreateRunner \/ MintCredentials \/ MintFails
    \/ FinishCreateRereads \/ FinishCreatePublishes \/ FinishCreateDiscards
    \/ Decide \/ WithdrawRegistration \/ WithdrawFails
    \/ DrainUnlessBusy \/ FailUnlessBusy \/ ApplyRemove
    \/ \E x \in Removals : DeleteRegistration(x) \/ FinishRemove(x)
    \/ OperatorDrains \/ OperatorRemoves \/ DeleteRow
    \/ RecoverHostCleanup \/ Reap
    \/ \E j \in Jobs, s \in {"in_progress", "completed"} : ApplyJob(j, s)
    \/ \E h \in Handlers : ApplyToRunner(h)
    \/ \E j \in Jobs : StopCancelledJobRunner(j)
    \/ EnrichReadyAsks \/ EnrichReadyWrites
    \/ \E k \in {"create", "stop", "remove"} : SweepDrops(k)
    \/ ReclaimLost \/ ControllerRestarts

Environment ==
    \/ WorkloadRegisters \/ (\E j \in Jobs : AssignJob(j)) \/ JobEnds \/ WorkloadDies
    \/ AgentCreates \/ AgentStops \/ AgentRemoves \/ AgentRemoveFails
    \/ \E x \in Outcomes : ReportResult(x)
    \/ ReportsExit \/ AgentCleansUp \/ LateReport \/ ReleaseUnknown
    \/ AgentRestarts

Next == Controller \/ Environment

Spec == Init /\ [][Next]_vars

-----------------------------------------------------------------------------
(***************************************************************************)
(* Properties.                                                             *)
(***************************************************************************)

\* Every variable holds a value the code can put there.
TypeOK ==
    /\ state \in RowStates /\ job \in Jobs \cup {NoJob}
    /\ used \in BOOLEAN /\ hostGone \in BOOLEAN
    /\ jobRow \in [Jobs -> JobStates] /\ ghJob \in [Jobs -> JobStates]
    /\ tasks \subseteq {"create", "stop", "remove"}
    /\ mint \in {"none", "minting", "minted", "publishing"}
    /\ pass \in {"none", "drain", "withdrawn", "fail", "remove"}
    /\ removing \subseteq Removals /\ ready \in BOOLEAN
    /\ handlers \subseteq Handlers
    /\ drainedBy \in {"nobody", "scheduler", "operator"}
    /\ reg \in BOOLEAN /\ assigned \in Jobs \cup {NoJob}
    /\ work \in {"none", "starting", "up", "exited"}
    /\ results \subseteq Outcomes /\ late \subseteq Outcomes

\* A row names a job only while it is busy or draining.  The link and the state
\* are written by seven statements on four request paths, and a link left on an
\* idle row would make it undrainable (TransitionRunnerUnlessBusy), one left on
\* a finished row would point the Jobs page at nothing.
LinkOnlyWhileWorking == job # NoJob => state \in {"busy", "draining"}

\* Whoever writes the row, it moves only along validRunnerTransitions, and the
\* one move StartRunnerJob makes beside them; a finished row is never revived.
RowMovesLegal ==
    [][/\ state \in LiveStates \cup Terminal /\ state' # state
       => \/ state' \in validRunnerTransitions[state]
          \/ state = "provisioning" /\ state' = "busy"
          \/ state' = "deleted"]_vars

\* The scheduler's own drain never stops a job: while a row the scheduler
\* drained is draining, and its stop is on the way, GitHub has no job on it --
\* although the row can be a whole sweep behind GitHub (withdrawRegistration).
SchedulerSparesJobs ==
    state = "draining" /\ drainedBy = "scheduler" => assigned = NoJob

\* A create is never published for a runner the scheduler has already drained,
\* however late its credential arrives (finishCreateRunner's second look).
CancelledStaysCancelled ==
    [][drainedBy = "scheduler" /\ "create" \notin tasks => "create" \notin tasks']_vars

\* A runner keeps the job it is on until that job is over for it: no delivery,
\* duplicate or late, puts another job in its place (StartRunnerJob).
JobNeverDisplaced ==
    [][job # NoJob => job' \in {job, NoJob}]_vars

\* transitionRunner counts a job as handled whenever a row goes from busy to
\* idle: "Leaving busy means a job just finished on this runner."  The code does
\* not keep this: EnrichReadyWrites (README, section 6).
LeavingBusyMeansFinished ==
    [][/\ state = "busy" /\ job # NoJob /\ state' = "idle"
       => ghJob[job] = "completed"]_vars

\* A job whose completion is already recorded is never put on a runner: "The job
\* ID guard makes duplicate and out-of-order deliveries harmless."  The code does
\* not keep this for a persistent runner (README, section 6).
StartsOnlyUnfinishedJobs ==
    [][job' \in {job, NoJob} \/ jobRow[job'] # "completed"]_vars

=============================================================================
