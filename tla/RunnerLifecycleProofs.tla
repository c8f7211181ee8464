------------------------ MODULE RunnerLifecycleProofs ------------------------
(***************************************************************************)
(* Proofs about RunnerLifecycle, for any set of jobs, either kind of       *)
(* registration and any bounds.  The row's properties follow from what a   *)
(* step may do to the row (RowStep); the drain's need an argument about    *)
(* the credential, the lock and the registration (IInv).                   *)
(***************************************************************************)
EXTENDS RunnerLifecycle, TLAPS

-----------------------------------------------------------------------------
(***************************************************************************)
(* What a step may do to the row.                                          *)
(***************************************************************************)

\* The row is left alone, appears, is deleted, makes a checked transition, or
\* is written by a job's start or its completion.
RowStep ==
    \/ UNCHANGED rowVars
    \/ state = "none" /\ state' = "provisioning" /\ UNCHANGED <<job, used>>
    \/ RowExists /\ state' = "deleted" /\ job' = NoJob /\ UNCHANGED used
    \/ \E to \in {"registering", "idle", "draining", "failed", "removed"} :
           TransitionRunner(to)
    \/ \E j \in Jobs : StartRunnerJob(j) \/ CompleteRunnerJob(j)

\* The row's part of the type invariant, and its consistency.
RowOK ==
    /\ state \in RowStates
    /\ job \in Jobs \cup {NoJob}
    /\ used \in BOOLEAN
    /\ LinkOnlyWhileWorking

\* Every action of the specification touches the row as RowStep says.
LEMMA EveryStepIsRowStep == Next => RowStep
  <1> SUFFICES ASSUME Next PROVE RowStep
    OBVIOUS
  <1>1. CASE CreateRunner
    BY <1>1 DEF CreateRunner, RowStep, rowVars
  <1>2. CASE MintCredentials
    BY <1>2 DEF MintCredentials, RowStep, rowVars
  <1>3. CASE MintFails
    BY <1>3 DEF MintFails, TryTransition, RowStep, rowVars
  <1>4. CASE FinishCreateRereads
    BY <1>4 DEF FinishCreateRereads, RowStep, rowVars
  <1>5. CASE FinishCreatePublishes
    BY <1>5 DEF FinishCreatePublishes, RowStep, rowVars
  <1>6. CASE FinishCreateDiscards
    BY <1>6 DEF FinishCreateDiscards, RowStep, rowVars
  <1>7. CASE Decide
    BY <1>7 DEF Decide, RowStep, rowVars
  <1>8. CASE WithdrawRegistration
    BY <1>8 DEF WithdrawRegistration, RowStep, rowVars
  <1>9. CASE WithdrawFails
    BY <1>9 DEF WithdrawFails, RowStep, rowVars
  <1>10. CASE DrainUnlessBusy
    BY <1>10 DEF DrainUnlessBusy, TransitionRunnerUnlessBusy, RowStep, rowVars
  <1>11. CASE FailUnlessBusy
    BY <1>11 DEF FailUnlessBusy, TransitionRunnerUnlessBusy, RowStep, rowVars
  <1>12. CASE ApplyRemove
    BY <1>12 DEF ApplyRemove, RowStep, rowVars
  <1>13. ASSUME NEW x \in Removals, DeleteRegistration(x)
         PROVE  RowStep
    BY <1>13 DEF DeleteRegistration, RowStep, rowVars
  <1>14. ASSUME NEW x \in Removals, FinishRemove(x)
         PROVE  RowStep
    BY <1>14 DEF FinishRemove, TryTransition, RowStep, rowVars
  <1>15. CASE OperatorDrains
    BY <1>15 DEF OperatorDrains, RowStep, rowVars
  <1>16. CASE OperatorRemoves
    BY <1>16 DEF OperatorRemoves, RowStep, rowVars
  <1>17. CASE DeleteRow
    BY <1>17 DEF DeleteRow, RowStep, rowVars
  <1>18. CASE RecoverHostCleanup
    BY <1>18 DEF RecoverHostCleanup, RowStep, rowVars
  <1>19. CASE Reap
    BY <1>19 DEF Reap, RowStep, rowVars
  <1>20. ASSUME NEW j \in Jobs, NEW s \in {"in_progress", "completed"}, ApplyJob(j, s)
         PROVE  RowStep
    BY <1>20 DEF ApplyJob, RowStep, rowVars
  <1>21. ASSUME NEW h \in Handlers, ApplyToRunner(h)
         PROVE  RowStep
    BY <1>21 DEF ApplyToRunner, Handlers, RowStep, rowVars
  <1>22. ASSUME NEW j \in Jobs, StopCancelledJobRunner(j)
         PROVE  RowStep
    BY <1>22 DEF StopCancelledJobRunner, RowStep, rowVars
  <1>23. CASE EnrichReadyAsks
    BY <1>23 DEF EnrichReadyAsks, RowStep, rowVars
  <1>24. CASE EnrichReadyWrites
    BY <1>24 DEF EnrichReadyWrites, TryTransition, RowStep, rowVars
  <1>25. ASSUME NEW k \in {"create", "stop", "remove"}, SweepDrops(k)
         PROVE  RowStep
    BY <1>25 DEF SweepDrops, TryTransition, RowStep, rowVars
  <1>26. CASE ReclaimLost
    BY <1>26 DEF ReclaimLost, RowStep, rowVars
  <1>27. CASE ControllerRestarts
    BY <1>27 DEF ControllerRestarts, RowStep, rowVars
  <1>28. CASE WorkloadRegisters
    BY <1>28 DEF WorkloadRegisters, RowStep, rowVars
  <1>29. ASSUME NEW j \in Jobs, AssignJob(j)
         PROVE  RowStep
    BY <1>29 DEF AssignJob, RowStep, rowVars
  <1>30. CASE JobEnds
    BY <1>30 DEF JobEnds, RowStep, rowVars
  <1>31. CASE WorkloadDies
    BY <1>31 DEF WorkloadDies, RowStep, rowVars
  <1>32. CASE AgentCreates
    BY <1>32 DEF AgentCreates, RowStep, rowVars
  <1>33. CASE AgentStops
    BY <1>33 DEF AgentStops, RowStep, rowVars
  <1>34. CASE AgentRemoves
    BY <1>34 DEF AgentRemoves, RowStep, rowVars
  <1>35. CASE AgentRemoveFails
    BY <1>35 DEF AgentRemoveFails, RowStep, rowVars
  <1>36. ASSUME NEW x \in Outcomes, ReportResult(x)
         PROVE  RowStep
    BY <1>36 DEF ReportResult, Applies, TryTransition, RowStep, rowVars
  <1>37. CASE ReportsExit
    BY <1>37 DEF ReportsExit, TryTransition, Terminal, RowStep, rowVars
  <1>38. CASE AgentCleansUp
    BY <1>38 DEF AgentCleansUp, RowStep, rowVars
  <1>39. CASE LateReport
    BY <1>39 DEF LateReport, RowStep, rowVars
  <1>40. CASE ReleaseUnknown
    BY <1>40 DEF ReleaseUnknown, RowStep, rowVars
  <1>41. CASE AgentRestarts
    BY <1>41 DEF AgentRestarts, RowStep, rowVars
  <1> QED
    BY <1>1, <1>2, <1>3, <1>4, <1>5, <1>6, <1>7, <1>8, <1>9, <1>10,
       <1>11, <1>12, <1>13, <1>14, <1>15, <1>16, <1>17, <1>18, <1>19,
       <1>20, <1>21, <1>22, <1>23, <1>24, <1>25, <1>26, <1>27, <1>28,
       <1>29, <1>30, <1>31, <1>32, <1>33, <1>34, <1>35, <1>36, <1>37,
       <1>38, <1>39, <1>40, <1>41
       DEF Next, Controller, Environment

\* A checked transition keeps the row consistent.
LEMMA TransitionKeepsRow ==
    ASSUME RowOK,
           NEW to \in {"registering", "idle", "draining", "failed", "removed"},
           TransitionRunner(to)
    PROVE  RowOK'
  <1>1. state' = to /\ to \in RowStates
    BY DEF TransitionRunner, RowStates, LiveStates, Terminal
  <1>2. job' \in {job, NoJob}
    BY DEF TransitionRunner
  <1>3. used' \in BOOLEAN
    BY DEF TransitionRunner
  <1>4. job # NoJob => to # "registering"
    BY DEF TransitionRunner, RowOK, LinkOnlyWhileWorking, CanTransition,
           validRunnerTransitions, RowStates, LiveStates, Terminal
  <1>5. to \in {"idle", "failed", "removed"} => job' = NoJob
    BY DEF TransitionRunner, Terminal
  <1> QED
    BY <1>1, <1>2, <1>3, <1>4, <1>5 DEF RowOK, LinkOnlyWhileWorking

\* Every step keeps the row consistent.
LEMMA RowStepKeepsRow == RowOK /\ RowStep => RowOK'
  <1> SUFFICES ASSUME RowOK, RowStep PROVE RowOK'
    OBVIOUS
  <1>1. CASE UNCHANGED rowVars
    BY <1>1 DEF RowOK, rowVars, LinkOnlyWhileWorking
  <1>2. CASE state = "none" /\ state' = "provisioning" /\ UNCHANGED <<job, used>>
    BY <1>2 DEF RowOK, LinkOnlyWhileWorking, RowStates, LiveStates
  <1>3. CASE RowExists /\ state' = "deleted" /\ job' = NoJob /\ UNCHANGED used
    BY <1>3 DEF RowOK, LinkOnlyWhileWorking, RowStates
  <1>4. ASSUME NEW to \in {"registering", "idle", "draining", "failed", "removed"},
               TransitionRunner(to)
        PROVE  RowOK'
    BY <1>4, TransitionKeepsRow
  <1>5. ASSUME NEW j \in Jobs, StartRunnerJob(j)
        PROVE  RowOK'
    BY <1>5 DEF StartRunnerJob, RowOK, LinkOnlyWhileWorking, rowVars, RowStates,
                LiveStates
  <1>6. ASSUME NEW j \in Jobs, CompleteRunnerJob(j)
        PROVE  RowOK'
    BY <1>6 DEF CompleteRunnerJob, RowOK, LinkOnlyWhileWorking, rowVars, RowStates,
                LiveStates, Terminal
  <1> QED
    BY <1>1, <1>2, <1>3, <1>4, <1>5, <1>6 DEF RowStep

-----------------------------------------------------------------------------
(***************************************************************************)
(* The rest of the type invariant.                                         *)
(***************************************************************************)

RestOK ==
    /\ hostGone \in BOOLEAN /\ ready \in BOOLEAN /\ reg \in BOOLEAN
    /\ jobRow \in [Jobs -> JobStates] /\ ghJob \in [Jobs -> JobStates]
    /\ tasks \subseteq {"create", "stop", "remove"}
    /\ mint \in {"none", "minting", "minted", "publishing"}
    /\ pass \in {"none", "drain", "withdrawn", "fail", "remove"}
    /\ removing \subseteq Removals
    /\ handlers \subseteq Handlers
    /\ drainedBy \in {"nobody", "scheduler", "operator"}
    /\ assigned \in Jobs \cup {NoJob}
    /\ work \in {"none", "starting", "up", "exited"}
    /\ results \subseteq Outcomes /\ late \subseteq Outcomes

\* A removal taken up is one of the removals there are.
LEMMA RemovingTypes ==
    ASSUME removing \subseteq Removals, NEW who \in {"scheduler", "caller", "mint"},
           Removing(who)
    PROVE  removing' \subseteq Removals
  BY DEF Removing, Removals

LEMMA AnswerTypes ==
    ASSUME results \subseteq Outcomes, NEW x \in Outcomes, Answer(x)
    PROVE  results' \subseteq Outcomes
  BY DEF Answer

\* Every action keeps the variables beside the row in their types.
LEMMA RestStep == RestOK /\ [Next]_vars => RestOK'
  <1> SUFFICES ASSUME RestOK, [Next]_vars PROVE RestOK'
    OBVIOUS
  <1> USE DEF RestOK
  <1>1. CASE CreateRunner
    BY <1>1
    DEF CreateRunner, hubVars, hostVars
  <1>2. CASE MintCredentials
    BY <1>2
    DEF MintCredentials, rowVars, hostVars
  <1>3. CASE MintFails
    BY <1>3
    DEF MintFails, hostVars
  <1>4. CASE FinishCreateRereads
    BY <1>4
    DEF FinishCreateRereads, rowVars, hubVars, hostVars
  <1>5. CASE FinishCreatePublishes
    BY <1>5
    DEF FinishCreatePublishes, rowVars, hubVars, hostVars
  <1>6. CASE FinishCreateDiscards
    BY <1>6
    DEF FinishCreateDiscards, rowVars, hubVars, hostVars, Removing, Removals
  <1>7. CASE Decide
    BY <1>7
    DEF Decide, rowVars, hubVars, hostVars
  <1>8. CASE WithdrawRegistration
    BY <1>8
    DEF WithdrawRegistration, rowVars, hostVars
  <1>9. CASE WithdrawFails
    BY <1>9
    DEF WithdrawFails, rowVars, hubVars, hostVars
  <1>10. CASE DrainUnlessBusy
    BY <1>10
    DEF DrainUnlessBusy, rowVars, hubVars, hostVars
  <1>11. CASE FailUnlessBusy
    BY <1>11
    DEF FailUnlessBusy, rowVars, hubVars, hostVars
  <1>12. CASE ApplyRemove
    <2>1. removing' \subseteq Removals
      BY <1>12, RemovingTypes DEF ApplyRemove, removeRunnerID
    <2>2. tasks' \subseteq {"create", "stop", "remove"} /\ pass' = "none"
      BY <1>12 DEF ApplyRemove, removeRunnerID
    <2> QED
      BY <1>12, <2>1, <2>2 DEF ApplyRemove, rowVars, hubVars, hostVars
  <1>13. ASSUME NEW x \in Removals, DeleteRegistration(x)
         PROVE  RestOK'
    <2>1. removing' \subseteq Removals
      BY <1>13 DEF DeleteRegistration, Removals
    <2>2. reg' \in BOOLEAN
      BY <1>13 DEF DeleteRegistration
    <2> QED
      BY <1>13, <2>1, <2>2 DEF DeleteRegistration, rowVars, hostVars
  <1>14. ASSUME NEW x \in Removals, FinishRemove(x)
         PROVE  RestOK'
    BY <1>14
    DEF FinishRemove, hubVars, hostVars
  <1>15. CASE OperatorDrains
    BY <1>15
    DEF OperatorDrains, hubVars, hostVars, ctlVars
  <1>16. CASE OperatorRemoves
    BY <1>16
    DEF OperatorRemoves, rowVars, hubVars, hostVars, removeRunner, Removing,
        Removals
  <1>17. CASE DeleteRow
    BY <1>17
    DEF DeleteRow, hubVars, hostVars, ctlVars
  <1>18. CASE RecoverHostCleanup
    BY <1>18
    DEF RecoverHostCleanup, rowVars, hubVars, hostVars, ctlVars
  <1>19. CASE Reap
    BY <1>19
    DEF Reap, rowVars, hostVars, ctlVars
  <1>20. ASSUME NEW j \in Jobs, NEW s \in {"in_progress", "completed"}, ApplyJob(j, s)
         PROVE  RestOK'
    BY <1>20
    DEF ApplyJob, rowVars, hubVars, hostVars, Handlers, JobStates, jobRank
  <1>21. ASSUME NEW h \in Handlers, ApplyToRunner(h)
         PROVE  RestOK'
    BY <1>21
    DEF ApplyToRunner, hubVars, hostVars
  <1>22. ASSUME NEW j \in Jobs, StopCancelledJobRunner(j)
         PROVE  RestOK'
    <2>1. removing' \subseteq Removals
      BY <1>22, RemovingTypes DEF StopCancelledJobRunner, removeRunnerID
    <2>2. tasks' \subseteq {"create", "stop", "remove"}
      BY <1>22 DEF StopCancelledJobRunner, removeRunnerID
    <2>3. jobRow' \in [Jobs -> JobStates]
      BY <1>22 DEF StopCancelledJobRunner, JobStates
    <2> QED
      BY <1>22, <2>1, <2>2, <2>3 DEF StopCancelledJobRunner, hubVars, hostVars
  <1>23. CASE EnrichReadyAsks
    BY <1>23
    DEF EnrichReadyAsks, rowVars, hubVars, hostVars
  <1>24. CASE EnrichReadyWrites
    BY <1>24
    DEF EnrichReadyWrites, hubVars, hostVars
  <1>25. ASSUME NEW k \in {"create", "stop", "remove"}, SweepDrops(k)
         PROVE  RestOK'
    BY <1>25
    DEF SweepDrops, rowVars, hubVars, ctlVars
  <1>26. CASE ReclaimLost
    BY <1>26
    DEF ReclaimLost, hubVars, hostVars, ctlVars
  <1>27. CASE ControllerRestarts
    BY <1>27
    DEF ControllerRestarts, rowVars
  <1>28. CASE WorkloadRegisters
    BY <1>28
    DEF WorkloadRegisters, rowVars, ctlVars
  <1>29. ASSUME NEW j \in Jobs, AssignJob(j)
         PROVE  RestOK'
    BY <1>29
    DEF AssignJob, rowVars, hostVars, ctlVars, JobStates
  <1>30. CASE JobEnds
    BY <1>30
    DEF JobEnds, rowVars, ctlVars, JobStates
  <1>31. CASE WorkloadDies
    BY <1>31
    DEF WorkloadDies, rowVars, hubVars, ctlVars
  <1>32. CASE AgentCreates
    <2>1. results' \subseteq Outcomes
      BY <1>32, AnswerTypes DEF AgentCreates, Outcomes
    <2>2. work' \in {"none", "starting", "up", "exited"}
      BY <1>32 DEF AgentCreates
    <2> QED
      BY <1>32, <2>1, <2>2 DEF AgentCreates, rowVars, hubVars, ctlVars
  <1>33. CASE AgentStops
    <2>1. results' \subseteq Outcomes
      BY <1>33, AnswerTypes DEF AgentStops, Outcomes
    <2>2. work' \in {"none", "starting", "up", "exited"}
      BY <1>33 DEF AgentStops
    <2> QED
      BY <1>33, <2>1, <2>2 DEF AgentStops, rowVars, hubVars, ctlVars
  <1>34. CASE AgentRemoves
    BY <1>34
    DEF AgentRemoves, rowVars, hubVars, ctlVars, Answer, Outcomes
  <1>35. CASE AgentRemoveFails
    BY <1>35
    DEF AgentRemoveFails, rowVars, hubVars, ctlVars, Answer, Outcomes
  <1>36. ASSUME NEW x \in Outcomes, ReportResult(x)
         PROVE  RestOK'
    BY <1>36
    DEF ReportResult, hubVars, ctlVars
  <1>37. CASE ReportsExit
    BY <1>37
    DEF ReportsExit, hubVars, hostVars, ctlVars
  <1>38. CASE AgentCleansUp
    BY <1>38
    DEF AgentCleansUp, rowVars, hubVars, ctlVars
  <1>39. CASE LateReport
    BY <1>39
    DEF LateReport, rowVars, hubVars, hostVars, removeRunner, Removing,
        Removals
  <1>40. CASE ReleaseUnknown
    BY <1>40
    DEF ReleaseUnknown, rowVars, hubVars, ctlVars
  <1>41. CASE AgentRestarts
    BY <1>41
    DEF AgentRestarts, rowVars, hubVars, ctlVars
  <1>42. CASE UNCHANGED vars
    BY <1>42 DEF vars
  <1> QED
    BY <1>1, <1>2, <1>3, <1>4, <1>5, <1>6, <1>7, <1>8, <1>9, <1>10,
       <1>11, <1>12, <1>13, <1>14, <1>15, <1>16, <1>17, <1>18, <1>19,
       <1>20, <1>21, <1>22, <1>23, <1>24, <1>25, <1>26, <1>27, <1>28,
       <1>29, <1>30, <1>31, <1>32, <1>33, <1>34, <1>35, <1>36, <1>37,
       <1>38, <1>39, <1>40, <1>41, <1>42
       DEF Next, Controller, Environment

-----------------------------------------------------------------------------
(***************************************************************************)
(* Why the scheduler's drain is safe.                                      *)
(***************************************************************************)

\* The states from which a row only goes on to its end.
Over == {"draining", "deleted"} \cup Terminal

\* reconcileMu: a pass does not run while a create is being published.
LockHeldOnce == mint = "publishing" => pass = "none"

\* Until the create is published there is neither a task nor a workload.
CreateComesLast ==
    /\ mint # "none" => "create" \notin tasks /\ work = "none"
    /\ state = "none" => mint = "none" /\ "create" \notin tasks /\ work = "none"

\* What the scheduler drained is over, and its create is not being published.
DrainIsFinal == drainedBy = "scheduler" => state \in Over /\ mint # "publishing"

\* GitHub has nothing to assign to, and nothing can give it something: the
\* registration is gone for good, or no workload will ever use it.
Quiet ==
    /\ assigned = NoJob
    /\ \/ ~reg /\ mint # "minting"
       \/ work = "none" /\ "create" \notin tasks /\ mint # "publishing"

\* With JIT registrations, withdrawing one leaves GitHub quiet until the row,
\* and after it the drain it led to, is over.
WithdrawnIsQuiet ==
    Ephemeral /\ (pass = "withdrawn" \/ (state = "draining" /\ drainedBy = "scheduler"))
        => Quiet

DrainInv ==
    /\ LockHeldOnce
    /\ CreateComesLast
    /\ DrainIsFinal
    /\ WithdrawnIsQuiet

\* The inductive invariant.
IInv == RowOK /\ RestOK /\ DrainInv

\* A row that is over stays over, and one that appeared does not disappear.
LEMMA OverStaysOver ==
    ASSUME RowOK, RowStep
    PROVE  /\ state \in Over => state' \in Over
           /\ state # "none" => state' # "none"
  <1> USE DEF RowOK, Over, Terminal
  <1>1. CASE UNCHANGED rowVars
    BY <1>1 DEF rowVars
  <1>2. CASE state = "none" /\ state' = "provisioning"
    BY <1>2
  <1>3. CASE state' = "deleted"
    BY <1>3
  <1>4. ASSUME NEW to \in {"registering", "idle", "draining", "failed", "removed"},
               TransitionRunner(to)
        PROVE  /\ state \in Over => state' \in Over
               /\ state # "none" => state' # "none"
    BY <1>4 DEF TransitionRunner, CanTransition, validRunnerTransitions, RowStates,
                LiveStates
  <1>5. ASSUME NEW j \in Jobs, StartRunnerJob(j) \/ CompleteRunnerJob(j)
        PROVE  /\ state \in Over => state' \in Over
               /\ state # "none" => state' # "none"
    BY <1>5, NoJobAssumption
       DEF StartRunnerJob, CompleteRunnerJob, Completes, rowVars
  <1> QED
    BY <1>1, <1>2, <1>3, <1>4, <1>5 DEF RowStep

\* The scheduler drains nothing it has not withdrawn first.
LEMMA DrainedAfterWithdrawal ==
    ASSUME Next, state' = "draining", drainedBy' = "scheduler"
    PROVE  (state = "draining" /\ drainedBy = "scheduler") \/ pass = "withdrawn"
  <1> USE DEF TransitionRunner
  <1>1. CASE CreateRunner
    BY <1>1 DEF CreateRunner, rowVars
  <1>2. CASE MintCredentials
    BY <1>2 DEF MintCredentials, rowVars
  <1>3. CASE MintFails
    BY <1>3 DEF MintFails, TryTransition, rowVars
  <1>4. CASE FinishCreateRereads
    BY <1>4 DEF FinishCreateRereads, rowVars
  <1>5. CASE FinishCreatePublishes
    BY <1>5 DEF FinishCreatePublishes, rowVars
  <1>6. CASE FinishCreateDiscards
    BY <1>6 DEF FinishCreateDiscards, rowVars
  <1>7. CASE Decide
    BY <1>7 DEF Decide, rowVars
  <1>8. CASE WithdrawRegistration
    BY <1>8 DEF WithdrawRegistration, rowVars
  <1>9. CASE WithdrawFails
    BY <1>9 DEF WithdrawFails, rowVars
  <1>10. CASE DrainUnlessBusy
    BY <1>10 DEF DrainUnlessBusy, rowVars
  <1>11. CASE FailUnlessBusy
    BY <1>11 DEF FailUnlessBusy, TransitionRunnerUnlessBusy, rowVars
  <1>12. CASE ApplyRemove
    BY <1>12 DEF ApplyRemove, rowVars
  <1>13. ASSUME NEW x \in Removals, DeleteRegistration(x)
         PROVE  (state = "draining" /\ drainedBy = "scheduler") \/ pass = "withdrawn"
    BY <1>13 DEF DeleteRegistration, rowVars
  <1>14. ASSUME NEW x \in Removals, FinishRemove(x)
         PROVE  (state = "draining" /\ drainedBy = "scheduler") \/ pass = "withdrawn"
    BY <1>14 DEF FinishRemove, TryTransition, rowVars
  <1>15. CASE OperatorDrains
    BY <1>15 DEF OperatorDrains, ctlVars
  <1>16. CASE OperatorRemoves
    BY <1>16 DEF OperatorRemoves, rowVars
  <1>17. CASE DeleteRow
    BY <1>17 DEF DeleteRow, rowVars
  <1>18. CASE RecoverHostCleanup
    BY <1>18 DEF RecoverHostCleanup, rowVars
  <1>19. CASE Reap
    BY <1>19 DEF Reap, rowVars
  <1>20. ASSUME NEW j \in Jobs, NEW s \in {"in_progress", "completed"}, ApplyJob(j, s)
         PROVE  (state = "draining" /\ drainedBy = "scheduler") \/ pass = "withdrawn"
    BY <1>20 DEF ApplyJob, rowVars
  <1>21. ASSUME NEW h \in Handlers, ApplyToRunner(h)
         PROVE  (state = "draining" /\ drainedBy = "scheduler") \/ pass = "withdrawn"
    BY <1>21 DEF ApplyToRunner, StartRunnerJob, CompleteRunnerJob, Handlers, rowVars
  <1>22. ASSUME NEW j \in Jobs, StopCancelledJobRunner(j)
         PROVE  (state = "draining" /\ drainedBy = "scheduler") \/ pass = "withdrawn"
    BY <1>22 DEF StopCancelledJobRunner, CompleteRunnerJob, rowVars
  <1>23. CASE EnrichReadyAsks
    BY <1>23 DEF EnrichReadyAsks, rowVars
  <1>24. CASE EnrichReadyWrites
    BY <1>24 DEF EnrichReadyWrites, TryTransition, rowVars
  <1>25. ASSUME NEW k \in {"create", "stop", "remove"}, SweepDrops(k)
         PROVE  (state = "draining" /\ drainedBy = "scheduler") \/ pass = "withdrawn"
    BY <1>25 DEF SweepDrops, TryTransition, rowVars
  <1>26. CASE ReclaimLost
    BY <1>26 DEF ReclaimLost, rowVars
  <1>27. CASE ControllerRestarts
    BY <1>27 DEF ControllerRestarts, rowVars
  <1>28. CASE WorkloadRegisters
    BY <1>28 DEF WorkloadRegisters, rowVars
  <1>29. ASSUME NEW j \in Jobs, AssignJob(j)
         PROVE  (state = "draining" /\ drainedBy = "scheduler") \/ pass = "withdrawn"
    BY <1>29 DEF AssignJob, rowVars
  <1>30. CASE JobEnds
    BY <1>30 DEF JobEnds, rowVars
  <1>31. CASE WorkloadDies
    BY <1>31 DEF WorkloadDies, rowVars
  <1>32. CASE AgentCreates
    BY <1>32 DEF AgentCreates, rowVars
  <1>33. CASE AgentStops
    BY <1>33 DEF AgentStops, rowVars
  <1>34. CASE AgentRemoves
    BY <1>34 DEF AgentRemoves, rowVars
  <1>35. CASE AgentRemoveFails
    BY <1>35 DEF AgentRemoveFails, rowVars
  <1>36. ASSUME NEW x \in Outcomes, ReportResult(x)
         PROVE  (state = "draining" /\ drainedBy = "scheduler") \/ pass = "withdrawn"
    BY <1>36 DEF ReportResult, Applies, TryTransition, rowVars
  <1>37. CASE ReportsExit
    BY <1>37 DEF ReportsExit, TryTransition, Terminal, rowVars
  <1>38. CASE AgentCleansUp
    BY <1>38 DEF AgentCleansUp, rowVars
  <1>39. CASE LateReport
    BY <1>39 DEF LateReport, rowVars
  <1>40. CASE ReleaseUnknown
    BY <1>40 DEF ReleaseUnknown, rowVars
  <1>41. CASE AgentRestarts
    BY <1>41 DEF AgentRestarts, rowVars
  <1> QED
    BY <1>1, <1>2, <1>3, <1>4, <1>5, <1>6, <1>7, <1>8, <1>9, <1>10,
       <1>11, <1>12, <1>13, <1>14, <1>15, <1>16, <1>17, <1>18, <1>19,
       <1>20, <1>21, <1>22, <1>23, <1>24, <1>25, <1>26, <1>27, <1>28,
       <1>29, <1>30, <1>31, <1>32, <1>33, <1>34, <1>35, <1>36, <1>37,
       <1>38, <1>39, <1>40, <1>41
       DEF Next, Controller, Environment

\* The drain's argument survives every step.
LEMMA DrainStep == IInv /\ [Next]_vars => DrainInv'
  <1> SUFFICES ASSUME IInv, [Next]_vars PROVE DrainInv'
    OBVIOUS
  <1>0. CASE UNCHANGED vars
    BY <1>0 DEF vars, IInv, DrainInv, LockHeldOnce, CreateComesLast, DrainIsFinal,
                WithdrawnIsQuiet, Quiet
  <1> SUFFICES ASSUME Next PROVE DrainInv'
    BY <1>0
  <1>a. /\ state \in Over => state' \in Over
        /\ state # "none" => state' # "none"
    BY EveryStepIsRowStep, OverStaysOver DEF IInv
  <1>b. state' = "draining" /\ drainedBy' = "scheduler"
           => (state = "draining" /\ drainedBy = "scheduler") \/ pass = "withdrawn"
    BY DrainedAfterWithdrawal
  <1> USE DEF IInv, DrainInv, LockHeldOnce, CreateComesLast, DrainIsFinal,
              WithdrawnIsQuiet, Quiet
  <1>1. CASE CreateRunner
    BY <1>1, <1>a, <1>b
    DEF CreateRunner, hubVars, hostVars, LockFree
  <1>2. CASE MintCredentials
    BY <1>2, <1>a, <1>b
    DEF MintCredentials, rowVars, hostVars
  <1>3. CASE MintFails
    BY <1>3, <1>a, <1>b
    DEF MintFails, hostVars
  <1>4. CASE FinishCreateRereads
    BY <1>4, <1>a, <1>b
    DEF FinishCreateRereads, rowVars, hubVars, hostVars, Over, Terminal,
        LockFree
  <1>5. CASE FinishCreatePublishes
    BY <1>5, <1>a, <1>b
    DEF FinishCreatePublishes, rowVars, hubVars, hostVars
  <1>6. CASE FinishCreateDiscards
    BY <1>6, <1>a, <1>b
    DEF FinishCreateDiscards, rowVars, hubVars, hostVars, LockFree
  <1>7. CASE Decide
    BY <1>7, <1>a, <1>b
    DEF Decide, rowVars, hubVars, hostVars, LockFree
  <1>8. CASE WithdrawRegistration
    BY <1>8, <1>a, <1>b
    DEF WithdrawRegistration, rowVars, hostVars
  <1>9. CASE WithdrawFails
    BY <1>9, <1>a, <1>b
    DEF WithdrawFails, rowVars, hubVars, hostVars
  <1>10. CASE DrainUnlessBusy
    BY <1>10, <1>a, <1>b
    DEF DrainUnlessBusy, rowVars, hubVars, hostVars,
        TransitionRunnerUnlessBusy, TransitionRunner, Over
  <1>11. CASE FailUnlessBusy
    BY <1>11, <1>a, <1>b
    DEF FailUnlessBusy, rowVars, hubVars, hostVars
  <1>12. CASE ApplyRemove
    BY <1>12, <1>a, <1>b
    DEF ApplyRemove, rowVars, hubVars, hostVars, removeRunnerID
  <1>13. ASSUME NEW x \in Removals, DeleteRegistration(x)
         PROVE  DrainInv'
    BY <1>13, <1>a, <1>b
    DEF DeleteRegistration, rowVars, hostVars
  <1>14. ASSUME NEW x \in Removals, FinishRemove(x)
         PROVE  DrainInv'
    BY <1>14, <1>a, <1>b
    DEF FinishRemove, hubVars, hostVars
  <1>15. CASE OperatorDrains
    BY <1>15, <1>a, <1>b
    DEF OperatorDrains, hubVars, hostVars, ctlVars, TransitionRunner,
        LiveStates
  <1>16. CASE OperatorRemoves
    BY <1>16, <1>a, <1>b
    DEF OperatorRemoves, rowVars, hubVars, hostVars, removeRunner
  <1>17. CASE DeleteRow
    BY <1>17, <1>a, <1>b
    DEF DeleteRow, hubVars, hostVars, ctlVars
  <1>18. CASE RecoverHostCleanup
    BY <1>18, <1>a, <1>b
    DEF RecoverHostCleanup, rowVars, hubVars, hostVars, ctlVars, LockFree
  <1>19. CASE Reap
    BY <1>19, <1>a, <1>b
    DEF Reap, rowVars, hostVars, ctlVars
  <1>20. ASSUME NEW j \in Jobs, NEW s \in {"in_progress", "completed"}, ApplyJob(j, s)
         PROVE  DrainInv'
    BY <1>20, <1>a, <1>b
    DEF ApplyJob, rowVars, hubVars, hostVars
  <1>21. ASSUME NEW h \in Handlers, ApplyToRunner(h)
         PROVE  DrainInv'
    BY <1>21, <1>a, <1>b
    DEF ApplyToRunner, hubVars, hostVars
  <1>22. ASSUME NEW j \in Jobs, StopCancelledJobRunner(j)
         PROVE  DrainInv'
    BY <1>22, <1>a, <1>b
    DEF StopCancelledJobRunner, hubVars, hostVars, removeRunnerID
  <1>23. CASE EnrichReadyAsks
    BY <1>23, <1>a, <1>b
    DEF EnrichReadyAsks, rowVars, hubVars, hostVars
  <1>24. CASE EnrichReadyWrites
    BY <1>24, <1>a, <1>b
    DEF EnrichReadyWrites, hubVars, hostVars
  <1>25. ASSUME NEW k \in {"create", "stop", "remove"}, SweepDrops(k)
         PROVE  DrainInv'
    BY <1>25, <1>a, <1>b
    DEF SweepDrops, rowVars, hubVars, ctlVars
  <1>26. CASE ReclaimLost
    BY <1>26, <1>a, <1>b
    DEF ReclaimLost, hubVars, hostVars, ctlVars
  <1>27. CASE ControllerRestarts
    BY <1>27, <1>a, <1>b
    DEF ControllerRestarts, rowVars
  <1>28. CASE WorkloadRegisters
    BY <1>28, <1>a, <1>b
    DEF WorkloadRegisters, rowVars, ctlVars
  <1>29. ASSUME NEW j \in Jobs, AssignJob(j)
         PROVE  DrainInv'
    BY <1>29, <1>a, <1>b
    DEF AssignJob, rowVars, hostVars, ctlVars
  <1>30. CASE JobEnds
    BY <1>30, <1>a, <1>b
    DEF JobEnds, rowVars, ctlVars
  <1>31. CASE WorkloadDies
    BY <1>31, <1>a, <1>b
    DEF WorkloadDies, rowVars, hubVars, ctlVars
  <1>32. CASE AgentCreates
    BY <1>32, <1>a, <1>b
    DEF AgentCreates, rowVars, hubVars, ctlVars
  <1>33. CASE AgentStops
    BY <1>33, <1>a, <1>b
    DEF AgentStops, rowVars, hubVars, ctlVars
  <1>34. CASE AgentRemoves
    BY <1>34, <1>a, <1>b
    DEF AgentRemoves, rowVars, hubVars, ctlVars
  <1>35. CASE AgentRemoveFails
    BY <1>35, <1>a, <1>b
    DEF AgentRemoveFails, rowVars, hubVars, ctlVars
  <1>36. ASSUME NEW x \in Outcomes, ReportResult(x)
         PROVE  DrainInv'
    BY <1>36, <1>a, <1>b
    DEF ReportResult, hubVars, ctlVars
  <1>37. CASE ReportsExit
    BY <1>37, <1>a, <1>b
    DEF ReportsExit, hubVars, hostVars, ctlVars
  <1>38. CASE AgentCleansUp
    BY <1>38, <1>a, <1>b
    DEF AgentCleansUp, rowVars, hubVars, ctlVars
  <1>39. CASE LateReport
    BY <1>39, <1>a, <1>b
    DEF LateReport, rowVars, hubVars, hostVars, removeRunner
  <1>40. CASE ReleaseUnknown
    BY <1>40, <1>a, <1>b
    DEF ReleaseUnknown, rowVars, hubVars, ctlVars
  <1>41. CASE AgentRestarts
    BY <1>41, <1>a, <1>b
    DEF AgentRestarts, rowVars, hubVars, ctlVars
  <1> QED
    BY <1>1, <1>2, <1>3, <1>4, <1>5, <1>6, <1>7, <1>8, <1>9, <1>10,
       <1>11, <1>12, <1>13, <1>14, <1>15, <1>16, <1>17, <1>18, <1>19,
       <1>20, <1>21, <1>22, <1>23, <1>24, <1>25, <1>26, <1>27, <1>28,
       <1>29, <1>30, <1>31, <1>32, <1>33, <1>34, <1>35, <1>36, <1>37,
       <1>38, <1>39, <1>40, <1>41
       DEF Next, Controller, Environment

-----------------------------------------------------------------------------
(***************************************************************************)
(* The theorems.                                                           *)
(***************************************************************************)

LEMMA IInvInit == Init => IInv
  <1> SUFFICES ASSUME Init PROVE IInv
    OBVIOUS
  <1>1. RowOK
    BY NoJobAssumption DEF Init, RowOK, RowStates, LinkOnlyWhileWorking
  <1>2. RestOK
    BY DEF Init, RestOK, JobStates
  <1>3. DrainInv
    BY DEF Init, DrainInv, LockHeldOnce, CreateComesLast, DrainIsFinal, WithdrawnIsQuiet
  <1> QED
    BY <1>1, <1>2, <1>3 DEF IInv

LEMMA IInvNext == IInv /\ [Next]_vars => IInv'
  <1> SUFFICES ASSUME IInv, [Next]_vars PROVE IInv'
    OBVIOUS
  <1>1. RowStep
    BY EveryStepIsRowStep DEF vars, rowVars, RowStep
  <1>2. RowOK'
    BY <1>1, RowStepKeepsRow DEF IInv
  <1> QED
    BY <1>2, RestStep, DrainStep DEF IInv

\* The inductive invariant holds of every behaviour: the row is consistent, and
\* the lock, the late credential and the withdrawal work together as the drain
\* needs them to.
THEOREM RunnerInvariant == Spec => []IInv
  BY IInvInit, IInvNext, PTL DEF Spec

\* Every variable keeps its type, whatever the actors do.
THEOREM RunnerTypeCorrect == Spec => []TypeOK
  <1>1. IInv => TypeOK
    BY DEF IInv, RowOK, RestOK, TypeOK
  <1> QED
    BY <1>1, RunnerInvariant, PTL

\* A row names a job only while it is busy or draining, although seven
\* statements on four request paths write the link and the state.
THEOREM RunnerLinkConsistent == Spec => []LinkOnlyWhileWorking
  <1>1. IInv => LinkOnlyWhileWorking
    BY DEF IInv, RowOK
  <1> QED
    BY <1>1, RunnerInvariant, PTL

\* With JIT registrations the scheduler's drain never meets a job, however far
\* the row is behind GitHub: withdrawRegistration, finishCreateRunner's second
\* look and reconcileMu together leave GitHub nothing to assign.
THEOREM RunnerDrainSparesJobs ==
    ASSUME Ephemeral
    PROVE  Spec => []SchedulerSparesJobs
  <1>1. IInv => SchedulerSparesJobs
    BY DEF IInv, DrainInv, WithdrawnIsQuiet, Quiet, SchedulerSparesJobs
  <1> QED
    BY <1>1, RunnerInvariant, PTL

\* The row moves along validRunnerTransitions and StartRunnerJob's one shortcut:
\* StartRunnerJob and CompleteRunnerJob, which do not ask CanTransition, add no
\* other move and revive nothing.
THEOREM RunnerMovesLegal == Spec => RowMovesLegal
  <1> DEFINE Legal ==
        state \in LiveStates \cup Terminal /\ state' # state
            => \/ state' \in validRunnerTransitions[state]
               \/ state = "provisioning" /\ state' = "busy"
               \/ state' = "deleted"
  <1>1. ASSUME IInv, [Next]_vars PROVE Legal
    <2>1. RowStep
      BY <1>1, EveryStepIsRowStep DEF vars, rowVars, RowStep
    <2>2. CASE UNCHANGED rowVars
      BY <2>2 DEF rowVars
    <2>3. CASE state = "none"
      BY <2>3 DEF LiveStates, Terminal
    <2>4. CASE state' = "deleted"
      BY <2>4
    <2>5. ASSUME NEW to \in {"registering", "idle", "draining", "failed", "removed"},
                 TransitionRunner(to)
          PROVE  Legal
      BY <2>5 DEF TransitionRunner, CanTransition
    <2>6. ASSUME NEW j \in Jobs, StartRunnerJob(j) \/ CompleteRunnerJob(j)
          PROVE  Legal
      BY <2>6, <1>1 DEF StartRunnerJob, CompleteRunnerJob, Completes, rowVars,
             validRunnerTransitions, IInv, RowOK, RowStates, LiveStates, Terminal
    <2> QED
      BY <2>1, <2>2, <2>3, <2>4, <2>5, <2>6 DEF RowStep
  <1> QED
    BY <1>1, RunnerInvariant, PTL DEF Spec, RowMovesLegal

\* No delivery takes a runner off the job it is on to put another in its place.
THEOREM RunnerJobNeverDisplaced == Spec => JobNeverDisplaced
  <1>1. ASSUME IInv, [Next]_vars PROVE job # NoJob => job' \in {job, NoJob}
    <2>1. RowStep
      BY <1>1, EveryStepIsRowStep DEF vars, rowVars, RowStep
    <2> QED
      BY <2>1, <1>1 DEF RowStep, rowVars, TransitionRunner, StartRunnerJob,
             CompleteRunnerJob, IInv, RowOK, LinkOnlyWhileWorking
  <1> QED
    BY <1>1, RunnerInvariant, PTL DEF Spec, JobNeverDisplaced

\* Only finishCreateRunner, holding the lock, puts a create in the queue.
LEMMA OnlyPublishingCreates ==
    ASSUME Next, mint # "publishing", "create" \notin tasks
    PROVE  "create" \notin tasks'
  <1>1. CASE CreateRunner
    BY <1>1 DEF CreateRunner
  <1>2. CASE MintCredentials
    BY <1>2 DEF MintCredentials
  <1>3. CASE MintFails
    BY <1>3 DEF MintFails
  <1>4. CASE FinishCreateRereads
    BY <1>4 DEF FinishCreateRereads
  <1>5. CASE FinishCreatePublishes
    BY <1>5 DEF FinishCreatePublishes
  <1>6. CASE FinishCreateDiscards
    BY <1>6 DEF FinishCreateDiscards
  <1>7. CASE Decide
    BY <1>7 DEF Decide
  <1>8. CASE WithdrawRegistration
    BY <1>8 DEF WithdrawRegistration
  <1>9. CASE WithdrawFails
    BY <1>9 DEF WithdrawFails
  <1>10. CASE DrainUnlessBusy
    BY <1>10 DEF DrainUnlessBusy
  <1>11. CASE FailUnlessBusy
    BY <1>11 DEF FailUnlessBusy
  <1>12. CASE ApplyRemove
    BY <1>12 DEF ApplyRemove, removeRunnerID
  <1>13. ASSUME NEW x \in Removals, DeleteRegistration(x)
         PROVE  "create" \notin tasks'
    BY <1>13 DEF DeleteRegistration
  <1>14. ASSUME NEW x \in Removals, FinishRemove(x)
         PROVE  "create" \notin tasks'
    BY <1>14 DEF FinishRemove
  <1>15. CASE OperatorDrains
    BY <1>15 DEF OperatorDrains
  <1>16. CASE OperatorRemoves
    BY <1>16 DEF OperatorRemoves, removeRunner
  <1>17. CASE DeleteRow
    BY <1>17 DEF DeleteRow
  <1>18. CASE RecoverHostCleanup
    BY <1>18 DEF RecoverHostCleanup
  <1>19. CASE Reap
    BY <1>19 DEF Reap
  <1>20. ASSUME NEW j \in Jobs, NEW s \in {"in_progress", "completed"}, ApplyJob(j, s)
         PROVE  "create" \notin tasks'
    BY <1>20 DEF ApplyJob
  <1>21. ASSUME NEW h \in Handlers, ApplyToRunner(h)
         PROVE  "create" \notin tasks'
    BY <1>21 DEF ApplyToRunner
  <1>22. ASSUME NEW j \in Jobs, StopCancelledJobRunner(j)
         PROVE  "create" \notin tasks'
    BY <1>22 DEF StopCancelledJobRunner, removeRunnerID
  <1>23. CASE EnrichReadyAsks
    BY <1>23 DEF EnrichReadyAsks
  <1>24. CASE EnrichReadyWrites
    BY <1>24 DEF EnrichReadyWrites
  <1>25. ASSUME NEW k \in {"create", "stop", "remove"}, SweepDrops(k)
         PROVE  "create" \notin tasks'
    BY <1>25 DEF SweepDrops
  <1>26. CASE ReclaimLost
    BY <1>26 DEF ReclaimLost
  <1>27. CASE ControllerRestarts
    BY <1>27 DEF ControllerRestarts
  <1>28. CASE WorkloadRegisters
    BY <1>28 DEF WorkloadRegisters
  <1>29. ASSUME NEW j \in Jobs, AssignJob(j)
         PROVE  "create" \notin tasks'
    BY <1>29 DEF AssignJob
  <1>30. CASE JobEnds
    BY <1>30 DEF JobEnds
  <1>31. CASE WorkloadDies
    BY <1>31 DEF WorkloadDies
  <1>32. CASE AgentCreates
    BY <1>32 DEF AgentCreates
  <1>33. CASE AgentStops
    BY <1>33 DEF AgentStops
  <1>34. CASE AgentRemoves
    BY <1>34 DEF AgentRemoves
  <1>35. CASE AgentRemoveFails
    BY <1>35 DEF AgentRemoveFails
  <1>36. ASSUME NEW x \in Outcomes, ReportResult(x)
         PROVE  "create" \notin tasks'
    BY <1>36 DEF ReportResult
  <1>37. CASE ReportsExit
    BY <1>37 DEF ReportsExit
  <1>38. CASE AgentCleansUp
    BY <1>38 DEF AgentCleansUp
  <1>39. CASE LateReport
    BY <1>39 DEF LateReport, removeRunner
  <1>40. CASE ReleaseUnknown
    BY <1>40 DEF ReleaseUnknown
  <1>41. CASE AgentRestarts
    BY <1>41 DEF AgentRestarts
  <1> QED
    BY <1>1, <1>2, <1>3, <1>4, <1>5, <1>6, <1>7, <1>8, <1>9, <1>10,
       <1>11, <1>12, <1>13, <1>14, <1>15, <1>16, <1>17, <1>18, <1>19,
       <1>20, <1>21, <1>22, <1>23, <1>24, <1>25, <1>26, <1>27, <1>28,
       <1>29, <1>30, <1>31, <1>32, <1>33, <1>34, <1>35, <1>36, <1>37,
       <1>38, <1>39, <1>40, <1>41
       DEF Next, Controller, Environment

\* A runner the scheduler drained is never created afterwards.
THEOREM RunnerCancelledStaysCancelled == Spec => CancelledStaysCancelled
  <1>1. ASSUME IInv, [Next]_vars, drainedBy = "scheduler", "create" \notin tasks
        PROVE  "create" \notin tasks'
    <2>1. mint # "publishing"
      BY <1>1 DEF IInv, DrainInv, DrainIsFinal
    <2>2. CASE UNCHANGED vars
      BY <1>1, <2>2 DEF vars
    <2>3. CASE Next
      BY <1>1, <2>1, <2>3, OnlyPublishingCreates
    <2> QED
      BY <1>1, <2>2, <2>3
  <1> QED
    BY <1>1, RunnerInvariant, PTL DEF Spec, CancelledStaysCancelled
=============================================================================
