---------------------------- MODULE RunnerCleanup ----------------------------
(***************************************************************************)
(* What is left of a runner, and the columns that say so.  A runner is     *)
(* gone when its host has confirmed the workload removed and GitHub the    *)
(* registration; each side keeps a stamp and a complaint of its own, the   *)
(* two close cleaned_up_at together, and the session of the usage ledger   *)
(* is written with them or, at the latest, with the row's deletion.        *)
(*                                                                         *)
(* The row's own states are RunnerLifecycle's; here a row is live,         *)
(* finished or gone.  Several paths ask GitHub about one registration at   *)
(* once (the reap, the enrichment worker, a removal, a discarded mint),    *)
(* each reading, asking and writing in separate steps.                     *)
(***************************************************************************)
EXTENDS Naturals, FiniteSets

CONSTANT Calls      \* registration deletes that may be under way at once

VARIABLES
    row,        \* "live", "failed", "removed", or "gone" when it is deleted
    hostRemoved,    \* host_removed_at is set
    regDeleted,     \* registration_deleted_at is set
    hostErr,        \* host_cleanup_error # ""
    regErr,         \* registration_cleanup_error # ""
    cleaned,        \* cleaned_up_at is set
    session,        \* the usage ledger has this runner's session
    counted,        \* history: confirmations that reported the cleanup complete
    running,        \* the jobs table has a job in progress on the runner
    removeTask,     \* a remove task is outstanding in the host's queue
    answers,        \* the host's answers that have not reached the controller
    call,           \* each registration delete, and what GitHub told it
    minting,        \* a JIT configuration is being minted for the runner
    createTask,     \* its create is in the host's queue, or in the agent's hands
    reg,            \* GitHub holds the registration
    busy,           \* GitHub has a job running on it
    work            \* the workload on the host

ledgerVars == <<hostRemoved, regDeleted, hostErr, regErr, cleaned, session, counted>>
ctlVars    == <<running, removeTask, call, minting, createTask>>
hubVars    == <<reg, busy>>
hostVars   == <<answers, work>>
vars == <<row, hostRemoved, regDeleted, hostErr, regErr, cleaned, session, counted,
          running, removeTask, answers, call, minting, createTask, reg, busy, work>>

Finished == {"failed", "removed"}

\* What a host sends: the result of a remove task, or a report of its own.
Answers == {"removed", "failed", "reported", "complaint"}

-----------------------------------------------------------------------------
(***************************************************************************)
(* The store's writes, each one statement or one transaction.              *)
(***************************************************************************)

\* Faulty variant: the host's confirmation closes the cleanup by itself.
ConfirmHostAlone ==
    /\ IF row # "gone" /\ ~hostRemoved
       THEN /\ hostRemoved' = TRUE /\ hostErr' = FALSE
            /\ cleaned' = TRUE
            /\ session' = TRUE
            /\ counted' = IF counted < 2 THEN counted + 1 ELSE counted
       ELSE UNCHANGED <<hostRemoved, hostErr, cleaned, session, counted>>
    /\ UNCHANGED <<regDeleted, regErr>>

\* ConfirmRunnerCleanup(host): the stamp, once; the write that finds the other
\* side settled closes the cleanup and records the session with it.
ConfirmHost ==
    /\ IF row # "gone" /\ ~hostRemoved
       THEN /\ hostRemoved' = TRUE /\ hostErr' = FALSE
            /\ cleaned' = (regDeleted /\ ~regErr)
            /\ session' = (session \/ (regDeleted /\ ~regErr))
            /\ counted' = IF regDeleted /\ ~regErr /\ counted < 2 THEN counted + 1 ELSE counted
       ELSE UNCHANGED <<hostRemoved, hostErr, cleaned, session, counted>>
    /\ UNCHANGED <<regDeleted, regErr>>

\* ConfirmRunnerCleanup(registration)
ConfirmRegistration ==
    /\ IF row # "gone" /\ ~regDeleted
       THEN /\ regDeleted' = TRUE /\ regErr' = FALSE
            /\ cleaned' = (hostRemoved /\ ~hostErr)
            /\ session' = (session \/ (hostRemoved /\ ~hostErr))
            /\ counted' = IF hostRemoved /\ ~hostErr /\ counted < 2 THEN counted + 1 ELSE counted
       ELSE UNCHANGED <<regDeleted, regErr, cleaned, session, counted>>
    /\ UNCHANGED <<hostRemoved, hostErr>>

\* Faulty variant: a late complaint is recorded over the confirmation.
RecordFailureAnyway ==
    /\ IF row # "gone"
       THEN hostErr' = TRUE /\ cleaned' = FALSE
       ELSE UNCHANGED <<hostErr, cleaned>>
    /\ UNCHANGED <<hostRemoved, regDeleted, regErr, session, counted>>

\* noteCleanupFailure and RecordCleanupFailure: refused once the host has
\* confirmed, in the same statement that would write it.
RecordCleanupFailure ==
    /\ IF row # "gone" /\ ~hostRemoved
       THEN hostErr' = TRUE /\ cleaned' = FALSE
       ELSE UNCHANGED <<hostErr, cleaned>>
    /\ UNCHANGED <<hostRemoved, regDeleted, regErr, session, counted>>

\* The complaint is recorded and the stamp taken back, whatever the row says.
RecordRegistrationCleanupFailure ==
    /\ IF row # "gone"
       THEN regErr' = TRUE /\ regDeleted' = FALSE /\ cleaned' = FALSE
       ELSE UNCHANGED <<regErr, regDeleted, cleaned>>
    /\ UNCHANGED <<hostRemoved, hostErr, session, counted>>

\* The same columns for a registration that is busy; only the count of attempts
\* and the age of the complaint differ.
DeferRegistrationCleanup == RecordRegistrationCleanupFailure

\* ClearCleanupFailure, for a stop that worked, unless all was clean already.
ClearCleanupFailure ==
    /\ hostErr' = FALSE
    /\ cleaned' = (cleaned /\ ~regErr)
    /\ UNCHANGED <<hostRemoved, regDeleted, regErr, session, counted>>

-----------------------------------------------------------------------------
\* A runner whose credential is being minted.
Init ==
    /\ row = "live" /\ hostRemoved = FALSE /\ regDeleted = FALSE
    /\ hostErr = FALSE /\ regErr = FALSE /\ cleaned = FALSE /\ session = FALSE
    /\ counted = 0 /\ running = FALSE /\ removeTask = FALSE /\ answers = {}
    /\ call = [c \in Calls |-> "none"]
    /\ minting = TRUE /\ createTask = FALSE /\ reg = FALSE /\ busy = FALSE /\ work = "none"

\* The row is finished, by whichever of the paths RunnerLifecycle has.
FinishRow(s) ==
    /\ row = "live" \/ (row = "failed" /\ s = "removed")
    /\ row' = s
    /\ UNCHANGED <<ledgerVars, ctlVars, hubVars, hostVars>>

\* The scheduler's reap of a failed row, once it has been shown for long enough
\* and no job is known to be running on it.
ReapFailed == row = "failed" /\ ~running /\ FinishRow("removed")

\* removeRunner and removeRunnerID: the task goes out first; the registration
\* and the row follow in steps of their own.
EnqueueRemove ==
    /\ row \in {"live", "failed"}
    /\ removeTask' = TRUE
    /\ UNCHANGED <<row, ledgerVars, running, call, minting, createTask, hubVars, hostVars>>

\* Faulty variant: the row goes and leaves no session behind.
DropRow ==
    /\ row # "gone"
    /\ row' = "gone"
    /\ UNCHANGED <<ledgerVars, ctlVars, hubVars, hostVars>>

\* recordSessionsWhere, then the row, in one transaction.
DeleteRow ==
    /\ row # "gone"
    /\ row' = "gone"
    /\ session' = TRUE
    /\ UNCHANGED <<hostRemoved, regDeleted, hostErr, regErr, cleaned, counted,
                   ctlVars, hubVars, hostVars>>

\* The retention takes finished rows; a pool or a host that is deleted takes all
\* of its own.
PruneRunners == row \in Finished /\ DeleteRow

DeletePool == DeleteRow

-----------------------------------------------------------------------------
(***************************************************************************)
(* GitHub's side: deleteRegistration, from whichever path.                 *)
(***************************************************************************)

Asks(c) ==
    /\ call[c] = "none"
    /\ call' = [call EXCEPT ![c] = "asking"]
    /\ UNCHANGED <<row, ledgerVars, running, removeTask, minting, createTask, hubVars, hostVars>>

\* A removal, or the discarding of a mint that came too late.
RemovalAsks(c) == row \in {"live", "failed"} /\ Asks(c)

\* The enrichment worker, for the item that a host's confirmation queued.
EnrichmentAsks(c) == row = "removed" /\ hostRemoved /\ ~regDeleted /\ Asks(c)

\* Faulty variant: only rows whose registration is unconfirmed are looked at.
ReapPending(c) == row \in Finished /\ ~regDeleted /\ Asks(c)

\* The reap goes by GitHub's list: an unconfirmed registration that is not on it,
\* one that is although the row is finished, and one without a row whose runner
\* is offline.
ReapAsks(c) ==
    /\ \/ row \in Finished /\ (reg \/ ~regDeleted)
       \/ row = "gone" /\ reg /\ work # "up"
    /\ Asks(c)

\* GitHub deletes a registration that runs no job, and one that is not there
\* counts as deleted ...
AnswerDeleted(c) ==
    /\ call[c] = "asking" /\ ~(reg /\ busy)
    /\ reg' = FALSE
    /\ call' = [call EXCEPT ![c] = "deleted"]
    /\ UNCHANGED <<row, ledgerVars, running, removeTask, minting, createTask, busy, hostVars>>

\* ... refuses one that does ...
AnswerBusy(c) ==
    /\ call[c] = "asking" /\ reg /\ busy
    /\ call' = [call EXCEPT ![c] = "refused"]
    /\ UNCHANGED <<row, ledgerVars, running, removeTask, minting, createTask, hubVars, hostVars>>

\* ... or the answer is an error, whatever GitHub did.
AnswerFails(c) ==
    /\ call[c] = "asking"
    /\ reg' \in IF busy THEN {reg} ELSE {reg, FALSE}
    /\ call' = [call EXCEPT ![c] = "failed"]
    /\ UNCHANGED <<row, ledgerVars, running, removeTask, minting, createTask, busy, hostVars>>

\* GitHub is held for quota, or the registration could not be looked up: nothing
\* is recorded.
CallGivesUp(c) ==
    /\ call[c] = "asking"
    /\ call' = [call EXCEPT ![c] = "none"]
    /\ UNCHANGED <<row, ledgerVars, running, removeTask, minting, createTask, hubVars, hostVars>>

\* The write the answer calls for, made to the row as it is by then.
CallWrites(c) ==
    /\ call[c] \in {"deleted", "refused", "failed"}
    /\ call' = [call EXCEPT ![c] = "none"]
    /\ CASE call[c] = "deleted" -> ConfirmRegistration
         [] call[c] = "refused" -> DeferRegistrationCleanup
         [] call[c] = "failed" -> RecordRegistrationCleanupFailure
    /\ UNCHANGED <<row, running, removeTask, minting, createTask, hubVars, hostVars>>

\* The detached mint answers. For a row still provisioning the create goes out;
\* for any other the registration is discarded by a call.
MintEnds ==
    /\ minting
    /\ minting' = FALSE
    /\ reg' \in BOOLEAN
    /\ createTask' \in IF row = "live" /\ reg' THEN BOOLEAN ELSE {FALSE}
    /\ UNCHANGED <<row, ledgerVars, running, removeTask, call, busy, hostVars>>

JobStarts ==
    /\ reg /\ work = "up" /\ ~busy
    /\ busy' = TRUE
    /\ UNCHANGED <<row, ledgerVars, ctlVars, reg, hostVars>>

\* The runner is ephemeral: it leaves with its job, and GitHub usually drops it.
JobEnds ==
    /\ busy
    /\ busy' = FALSE
    /\ work' = IF work = "up" THEN "exited" ELSE work
    /\ reg' \in {FALSE, reg}
    /\ UNCHANGED <<row, ledgerVars, ctlVars, answers>>

\* The controller learns of the job's start or end, by delivery or by asking.
JobLearnt ==
    /\ running # busy
    /\ running' = busy
    /\ UNCHANGED <<row, ledgerVars, removeTask, call, minting, createTask, hubVars, hostVars>>

-----------------------------------------------------------------------------
(***************************************************************************)
(* The host's side.                                                        *)
(***************************************************************************)

\* Faulty variant: only a recorded complaint brings a removal back.
RecoverComplaints ==
    /\ row \in Finished /\ ~hostRemoved /\ hostErr /\ ~running
    /\ removeTask' = TRUE
    /\ UNCHANGED <<row, ledgerVars, running, call, minting, createTask, hubVars, hostVars>>

\* recoverHostCleanup over PendingHostCleanup: a complaint, a completed job, or
\* the grace gone by, and no job in progress.
RecoverHostCleanup ==
    /\ row \in Finished /\ ~hostRemoved /\ ~running
    /\ removeTask' = TRUE
    /\ UNCHANGED <<row, ledgerVars, running, call, minting, createTask, hubVars, hostVars>>

\* handleCreate, on any delivery of the task: a workload the host has answers it,
\* and where there is none one is started, whatever became of the row since.
AgentCreates ==
    /\ createTask /\ work = "none"
    /\ work' = "up"
    /\ UNCHANGED <<row, ledgerVars, ctlVars, hubVars, answers>>

\* The last of the create: answered as done, or never heard of again ...
CreateEnds ==
    /\ createTask
    /\ createTask' = FALSE
    /\ UNCHANGED <<row, ledgerVars, running, removeTask, call, minting, hubVars, hostVars>>

\* ... or failed: a live row fails, a finished one complains.
CreateFails ==
    /\ createTask
    /\ createTask' = FALSE
    /\ IF row = "live" THEN row' = "failed" /\ UNCHANGED ledgerVars
       ELSE UNCHANGED row /\ RecordCleanupFailure
    /\ UNCHANGED <<running, removeTask, call, minting, hubVars, hostVars>>

WorkloadExits ==
    /\ work = "up"
    /\ work' = "exited"
    /\ UNCHANGED <<row, ledgerVars, ctlVars, hubVars, answers>>

\* handleRemove answers removed, the workload being gone or never there ...
AgentRemoves ==
    /\ removeTask
    /\ work' = "none"
    /\ answers' = answers \cup {"removed"}
    /\ UNCHANGED <<row, ledgerVars, ctlVars, hubVars>>

\* ... or failed ...
AgentRemoveFails ==
    /\ removeTask
    /\ answers' = answers \cup {"failed"}
    /\ UNCHANGED <<row, ledgerVars, ctlVars, hubVars, work>>

\* ... or still removing, which settles the task and nothing else.
AgentRemovePending ==
    /\ removeTask /\ work # "none"
    /\ removeTask' = FALSE
    /\ UNCHANGED <<row, ledgerVars, running, call, minting, createTask, hubVars, hostVars>>

\* A confirmation arrives: the row is removed if it was not, and the host's stamp
\* is set. A result settles its task, unless a later one is outstanding.
RemovalArrives(a) ==
    /\ a \in answers \cap {"removed", "reported"}
    /\ answers' = answers \ {a}
    /\ removeTask' \in IF a = "removed" THEN {FALSE, removeTask} ELSE {removeTask}
    /\ row' \in IF row = "gone" THEN {row}
                ELSE IF a = "removed" THEN {"removed"} ELSE {row, "removed"}
    /\ ConfirmHost
    /\ UNCHANGED <<running, call, minting, createTask, hubVars, work>>

\* A failure arrives: a live row fails, a finished one complains.
FailureArrives(a) ==
    /\ a \in answers \cap {"failed", "complaint"}
    /\ answers' = answers \ {a}
    /\ removeTask' \in IF a = "failed" THEN {FALSE, removeTask} ELSE {removeTask}
    /\ IF row = "live" THEN row' = "failed" /\ UNCHANGED ledgerVars
       ELSE UNCHANGED row /\ RecordCleanupFailure
    /\ UNCHANGED <<running, call, minting, createTask, hubVars, work>>

\* sweepTasks gives up on the task: the complaint is the row's.
SweepDrops ==
    /\ removeTask
    /\ removeTask' = FALSE
    /\ RecordCleanupFailure
    /\ UNCHANGED <<row, running, call, minting, createTask, hubVars, hostVars>>

\* A stop that worked: removed when there was nothing to stop, and
\* noteCleanupSucceeded unless all was clean already.
StopArrives ==
    /\ row # "gone" /\ work # "up"
    /\ row' \in IF work = "none" THEN {"removed"} ELSE {row}
    /\ IF hostErr \/ regErr \/ ~cleaned THEN ClearCleanupFailure ELSE UNCHANGED ledgerVars
    /\ UNCHANGED <<ctlVars, hubVars, hostVars>>

\* A stop that failed.
StopFails ==
    /\ row # "gone"
    /\ IF row = "live" THEN row' = "failed" /\ UNCHANGED ledgerVars
       ELSE UNCHANGED row /\ RecordCleanupFailure
    /\ UNCHANGED <<ctlVars, hubVars, hostVars>>

\* The agent's cleanUp of a workload whose end the controller has accepted:
\* removed and reported, or a complaint.
AgentCleansUp ==
    /\ work = "exited" /\ row # "live"
    /\ work' = "none"
    /\ answers' = answers \cup {"reported"}
    /\ UNCHANGED <<row, ledgerVars, ctlVars, hubVars>>

AgentCleanUpFails ==
    /\ work = "exited" /\ row # "live"
    /\ answers' = answers \cup {"complaint"}
    /\ UNCHANGED <<row, ledgerVars, ctlVars, hubVars, work>>

\* unknownRunners names a live workload without a live row; the agent lets go of
\* it and removes it as litter, with nobody told.
ReleaseUnknown ==
    /\ work = "up" /\ row \in {"removed", "gone"}
    /\ work' = "none"
    /\ UNCHANGED <<row, ledgerVars, ctlVars, hubVars, answers>>

\* Answers are lost with the agent, or with the request that carried them.
AnswersLost ==
    /\ answers # {}
    /\ answers' = {}
    /\ UNCHANGED <<row, ledgerVars, ctlVars, hubVars, work>>

\* The controller stops: the queue and the calls under way go with it, and a
\* credential being minted may be minted with nobody to hear of it. A create that
\* the agent has taken is the agent's still.
ControllerRestarts ==
    /\ removeTask' = FALSE /\ call' = [c \in Calls |-> "none"]
    /\ minting' = FALSE /\ reg' \in {reg, reg \/ minting}
    /\ createTask' \in {createTask, FALSE}
    /\ UNCHANGED <<row, ledgerVars, running, busy, hostVars>>

-----------------------------------------------------------------------------
Registration ==
    \/ \E c \in Calls : \/ RemovalAsks(c) \/ EnrichmentAsks(c) \/ ReapAsks(c)
                        \/ AnswerDeleted(c) \/ AnswerBusy(c) \/ AnswerFails(c)
                        \/ CallGivesUp(c) \/ CallWrites(c)
    \/ MintEnds \/ JobStarts \/ JobEnds \/ JobLearnt

Host ==
    \/ RecoverHostCleanup \/ WorkloadExits
    \/ AgentCreates \/ CreateEnds \/ CreateFails
    \/ AgentRemoves \/ AgentRemoveFails \/ AgentRemovePending
    \/ \E a \in Answers : RemovalArrives(a) \/ FailureArrives(a)
    \/ SweepDrops \/ StopArrives \/ StopFails
    \/ AgentCleansUp \/ AgentCleanUpFails \/ ReleaseUnknown \/ AnswersLost

Next ==
    \/ \E s \in Finished : FinishRow(s)
    \/ ReapFailed \/ EnqueueRemove \/ PruneRunners \/ DeletePool \/ ControllerRestarts
    \/ Registration \/ Host

Spec == Init /\ [][Next]_vars

\* The loops keep running: a pass asks for the removal of what is pending and takes
\* failed rows away, the reap asks GitHub, and a task is delivered so many times and
\* then dropped. A host that is asked again and again removes and is heard in
\* the end, GitHub answers in the end, and a job and a mint end.
Fairness ==
    /\ WF_vars(RecoverHostCleanup) /\ WF_vars(JobEnds) /\ WF_vars(JobLearnt)
    /\ WF_vars(ReapFailed) /\ WF_vars(CreateEnds)
    /\ WF_vars(MintEnds) /\ WF_vars(AgentCleansUp) /\ WF_vars(ReleaseUnknown)
    /\ SF_vars(AgentRemoves) /\ SF_vars(RemovalArrives("removed"))
    /\ WF_vars(\E c \in Calls : ReapAsks(c))
    /\ \A c \in Calls : /\ SF_vars(AnswerDeleted(c))
                        /\ SF_vars(call[c] = "deleted" /\ CallWrites(c))
                        /\ WF_vars(CallWrites(c))

FairSpec == Spec /\ Fairness

-----------------------------------------------------------------------------
(***************************************************************************)
(* Properties.                                                             *)
(***************************************************************************)

\* Every variable holds a value the code can put there.
TypeOK ==
    /\ row \in {"live", "failed", "removed", "gone"}
    /\ hostRemoved \in BOOLEAN /\ regDeleted \in BOOLEAN
    /\ hostErr \in BOOLEAN /\ regErr \in BOOLEAN
    /\ cleaned \in BOOLEAN /\ session \in BOOLEAN /\ counted \in 0..2
    /\ running \in BOOLEAN /\ removeTask \in BOOLEAN
    /\ answers \in SUBSET Answers
    /\ call \in [Calls -> {"none", "asking", "deleted", "refused", "failed"}]
    /\ minting \in BOOLEAN /\ createTask \in BOOLEAN
    /\ reg \in BOOLEAN /\ busy \in BOOLEAN
    /\ work \in {"none", "up", "exited"}

\* Neither side settles the other: cleaned_up_at is set exactly while both stamps
\* are, and no stamp stands beside a complaint of its own side, whatever order
\* results, reports, retries and GitHub's answers arrive in.
CleanedMeansClean ==
    /\ cleaned <=> (hostRemoved /\ regDeleted)
    /\ ~(hostErr /\ hostRemoved)
    /\ ~(regErr /\ regDeleted)

\* The usage ledger is never short of a runner: one that is confirmed clean, or
\* whose row has gone, has its session, even when the cleanup was reopened since.
NoRunnerUnbilled == (cleaned \/ row = "gone" \/ counted > 0) => session

\* A host's confirmation is final: no late failure, sweep or stop takes it back or
\* complains over it.
HostConfirmationFinal ==
    [][hostRemoved /\ row # "gone" => hostRemoved' /\ ~hostErr']_vars

\* A finished runner's cleanup is closed in the end, although reports are lost,
\* removals fail, calls are dropped and either side restarts (or its row goes).
CleanupCloses == row \in Finished ~> (cleaned \/ row = "gone")

\* Nothing of a finished runner stays behind for ever, neither its workload nor
\* its registration, even one minted after the row was closed or deleted, and not
\* the workload that a create delivered again starts after its removal.
NothingLeftBehind == row # "live" ~> (~reg /\ work = "none")

\* "concurrent reports and retries cannot count the same cleanup twice"
\* (ConfirmRunnerCleanup): one runner's cleanup is reported complete once.  The
\* code does not keep this when two deletes overlap (README, section 6).
CountedOnce == counted <= 1
=============================================================================
