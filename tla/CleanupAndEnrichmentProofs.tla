--------------------- MODULE CleanupAndEnrichmentProofs ---------------------
(***************************************************************************)
(* Proofs about what happens once a runner's work is over: its cleanup     *)
(* (RunnerCleanup), for any number of concurrent registration deletes, and *)
(* the queue of lookups that starts one of them (EnrichmentQueue), for     *)
(* every set of items, every size of a batch and every number of requests, *)
(* restarts and pauses.  The two specifications share no state.            *)
(*                                                                         *)
(* The ledger's columns are touched by seven writes only, so each write is *)
(* taken once (LedgerWrites) and every action of the cleanup is one of     *)
(* them beside a step that leaves the ledger alone.                        *)
(***************************************************************************)
EXTENDS RunnerCleanup, EnrichmentQueue, TLAPS

-----------------------------------------------------------------------------
(* The cleanup of a runner. *)

\* The columns have their types.
LedgerType ==
    /\ hostRemoved \in BOOLEAN /\ regDeleted \in BOOLEAN
    /\ hostErr \in BOOLEAN /\ regErr \in BOOLEAN
    /\ cleaned \in BOOLEAN /\ session \in BOOLEAN /\ counted \in 0..2

\* What the ledger says of itself; the clause on a deleted row is apart, since it
\* relates the ledger to the row.
LedgerInv ==
    /\ LedgerType /\ CleanedMeansClean
    /\ cleaned \/ counted > 0 => session

IInv == TypeOK /\ LedgerInv /\ (row = "gone" => session)

\* The writes of the ledger.
LedgerWrite ==
    \/ ConfirmHost \/ ConfirmRegistration \/ RecordCleanupFailure
    \/ RecordRegistrationCleanupFailure \/ ClearCleanupFailure
    \/ UNCHANGED ledgerVars

-----------------------------------------------------------------------------
\* Each of the store's writes keeps the ledger's own invariant and forgets no
\* session.
LEMMA LedgerWrites ==
    ASSUME LedgerInv, LedgerWrite
    PROVE  LedgerInv' /\ (session => session')
<1> USE DEF LedgerInv, LedgerType, CleanedMeansClean
<1>1. CASE ConfirmHost
  <2>1. counted' \in 0..2 /\ (counted > 0 => counted' > 0)
    BY <1>1 DEF ConfirmHost
  <2>2. LedgerType' /\ CleanedMeansClean'
    BY <1>1, <2>1, Zenon DEF ConfirmHost
  <2>3. (session => session') /\ (cleaned' \/ counted' > 0 => session')
    <3>1. CASE counted' = counted
      BY <1>1, <3>1, Zenon DEF ConfirmHost
    <3>2. CASE counted' # counted
      BY <1>1, <3>2, Zenon DEF ConfirmHost
    <3> QED  BY <3>1, <3>2
  <2> QED  BY <2>2, <2>3
<1>2. CASE ConfirmRegistration
  <2>1. counted' \in 0..2 /\ (counted > 0 => counted' > 0)
    BY <1>2 DEF ConfirmRegistration
  <2>2. LedgerType' /\ CleanedMeansClean'
    BY <1>2, <2>1, Zenon DEF ConfirmRegistration
  <2>3. (session => session') /\ (cleaned' \/ counted' > 0 => session')
    <3>1. CASE counted' = counted
      BY <1>2, <3>1, Zenon DEF ConfirmRegistration
    <3>2. CASE counted' # counted
      BY <1>2, <3>2, Zenon DEF ConfirmRegistration
    <3> QED  BY <3>1, <3>2
  <2> QED  BY <2>2, <2>3
<1>3. CASE RecordCleanupFailure
  BY <1>3 DEF RecordCleanupFailure
<1>4. CASE RecordRegistrationCleanupFailure
  BY <1>4 DEF RecordRegistrationCleanupFailure
<1>5. CASE ClearCleanupFailure
  BY <1>5 DEF ClearCleanupFailure
<1>6. CASE UNCHANGED ledgerVars
  BY <1>6 DEF ledgerVars
<1> QED  BY <1>1, <1>2, <1>3, <1>4, <1>5, <1>6 DEF LedgerWrite

\* A host's confirmation survives each of the writes.
LEMMA HostWrites ==
    ASSUME LedgerInv, LedgerWrite, hostRemoved
    PROVE  hostRemoved' /\ ~hostErr'
<1>1. hostErr = FALSE
  BY Zenon DEF LedgerInv, LedgerType, CleanedMeansClean
<1>2. CASE ConfirmHost
  BY <1>1, <1>2 DEF ConfirmHost
<1>3. CASE ConfirmRegistration
  BY <1>1, <1>3 DEF ConfirmRegistration
<1>4. CASE RecordCleanupFailure
  BY <1>1, <1>4 DEF RecordCleanupFailure
<1>5. CASE RecordRegistrationCleanupFailure
  BY <1>1, <1>5 DEF RecordRegistrationCleanupFailure
<1>6. CASE ClearCleanupFailure
  BY <1>1, <1>6 DEF ClearCleanupFailure
<1>7. CASE UNCHANGED ledgerVars
  BY <1>1, <1>7 DEF ledgerVars
<1> QED  BY <1>2, <1>3, <1>4, <1>5, <1>6, <1>7 DEF LedgerWrite

\* What a step does beside the ledger.
RestType ==
    /\ row \in {"live", "failed", "removed", "gone"}
    /\ running \in BOOLEAN /\ removeTask \in BOOLEAN
    /\ answers \in SUBSET Answers
    /\ call \in [Calls -> {"none", "asking", "deleted", "refused", "failed"}]
    /\ minting \in BOOLEAN /\ createTask \in BOOLEAN
    /\ reg \in BOOLEAN /\ busy \in BOOLEAN
    /\ work \in {"none", "up", "exited"}

LEMMA TypeSplits == TypeOK <=> (LedgerType /\ RestType)
BY DEF TypeOK, LedgerType, RestType

\* Every step is a write of the ledger, or a deletion of the row with its session,
\* keeps the other variables in their types, and never brings a row back.
LEMMA StepShape ==
    ASSUME RestType, Next
    PROVE  /\ RestType'
           /\ \/ LedgerWrite /\ (row' = "gone" => row = "gone")
              \/ DeleteRow
<1> USE DEF RestType, Finished, Answers, ledgerVars, ctlVars, hubVars, hostVars
<1>1. ASSUME NEW s \in Finished, FinishRow(s)
      PROVE  RestType' /\ LedgerWrite /\ row' # "gone"
  BY <1>1 DEF FinishRow, LedgerWrite
<1>2. ASSUME EnqueueRemove PROVE RestType' /\ LedgerWrite /\ row' = row
  BY <1>2 DEF EnqueueRemove, LedgerWrite
<1>3. CASE PruneRunners \/ DeletePool
  BY <1>3 DEF PruneRunners, DeletePool, DeleteRow
<1>4. ASSUME ControllerRestarts PROVE RestType' /\ LedgerWrite /\ row' = row
  BY <1>4 DEF ControllerRestarts, LedgerWrite
<1>5. ASSUME NEW c \in Calls,
             \/ RemovalAsks(c) \/ EnrichmentAsks(c) \/ ReapAsks(c)
             \/ AnswerDeleted(c) \/ AnswerBusy(c) \/ AnswerFails(c) \/ CallGivesUp(c)
      PROVE  RestType' /\ LedgerWrite /\ row' = row
  <2>1. CASE RemovalAsks(c) \/ EnrichmentAsks(c) \/ ReapAsks(c)
    <3>1. Asks(c)
      BY <2>1 DEF RemovalAsks, EnrichmentAsks, ReapAsks
    <3>2. LedgerWrite /\ row' = row
      BY <3>1 DEF Asks, LedgerWrite
    <3>3. RestType'
      BY <3>1 DEF Asks
    <3> QED  BY <3>2, <3>3
  <2>2. CASE AnswerDeleted(c)
    BY <2>2 DEF AnswerDeleted, LedgerWrite
  <2>3. CASE AnswerBusy(c)
    BY <2>3 DEF AnswerBusy, LedgerWrite
  <2>4. CASE AnswerFails(c)
    BY <2>4 DEF AnswerFails, LedgerWrite
  <2>5. CASE CallGivesUp(c)
    BY <2>5 DEF CallGivesUp, LedgerWrite
  <2> QED  BY <1>5, <2>1, <2>2, <2>3, <2>4, <2>5
<1>6. ASSUME NEW c \in Calls, CallWrites(c)
      PROVE  RestType' /\ LedgerWrite /\ row' = row
  <2>1. RestType' /\ row' = row
    BY <1>6 DEF CallWrites
  <2>2. LedgerWrite
    BY <1>6 DEF CallWrites, DeferRegistrationCleanup, LedgerWrite
  <2> QED  BY <2>1, <2>2
<1>7. ASSUME MintEnds \/ JobStarts \/ JobEnds \/ JobLearnt
      PROVE  RestType' /\ LedgerWrite /\ row' = row
  <2>1. LedgerWrite /\ row' = row
    BY <1>7 DEF MintEnds, JobStarts, JobEnds, JobLearnt, LedgerWrite
  <2>2. CASE MintEnds
    <3>1. RestType'
      BY <2>2 DEF MintEnds
    <3> QED  BY <2>1, <3>1
  <2>3. CASE JobStarts \/ JobEnds \/ JobLearnt
    <3>1. /\ UNCHANGED <<row, removeTask, call, minting, createTask, answers>>
          /\ work' \in {"none", "up", "exited"}
          /\ running' \in BOOLEAN /\ reg' \in BOOLEAN /\ busy' \in BOOLEAN
      BY <2>3 DEF JobStarts, JobEnds, JobLearnt
    <3>2. RestType'
      BY <3>1
    <3> QED  BY <2>1, <3>2
  <2> QED  BY <1>7, <2>2, <2>3
<1>8. ASSUME \/ RecoverHostCleanup \/ WorkloadExits \/ AgentRemoves \/ AgentRemoveFails
             \/ AgentRemovePending \/ AgentCreates \/ CreateEnds
      PROVE  RestType' /\ LedgerWrite /\ row' = row
  <2>1. LedgerWrite /\ row' = row
    BY <1>8 DEF RecoverHostCleanup, WorkloadExits, AgentRemoves, AgentRemoveFails,
                AgentRemovePending, AgentCreates, CreateEnds, LedgerWrite
  <2>2. CASE RecoverHostCleanup \/ WorkloadExits \/ AgentCreates \/ CreateEnds
    <3>1. /\ UNCHANGED <<row, running, call, minting, hubVars, answers>>
          /\ work' \in {"none", "up", "exited"}
          /\ removeTask' \in BOOLEAN /\ createTask' \in BOOLEAN
      BY <2>2 DEF RecoverHostCleanup, WorkloadExits, AgentCreates, CreateEnds
    <3>2. RestType'
      BY <3>1
    <3> QED  BY <2>1, <3>2
  <2>3. CASE AgentRemoves \/ AgentRemoveFails \/ AgentRemovePending
    <3>1. answers' \in SUBSET Answers
      BY <2>3 DEF AgentRemoves, AgentRemoveFails, AgentRemovePending
    <3>2. /\ UNCHANGED <<row, running, call, minting, createTask, hubVars>>
          /\ removeTask' \in BOOLEAN /\ work' \in {"none", "up", "exited"}
      BY <2>3 DEF AgentRemoves, AgentRemoveFails, AgentRemovePending
    <3>3. RestType'
      BY <3>1, <3>2
    <3> QED  BY <2>1, <3>3
  <2> QED  BY <1>8, <2>2, <2>3
<1>9. ASSUME NEW a \in Answers, RemovalArrives(a)
      PROVE  RestType' /\ LedgerWrite /\ (row' = "gone" => row = "gone")
  <2>1. LedgerWrite
    BY <1>9 DEF RemovalArrives, LedgerWrite
  <2>2. RestType' /\ (row' = "gone" => row = "gone")
    BY <1>9 DEF RemovalArrives
  <2> QED  BY <2>1, <2>2
<1>10. ASSUME NEW a \in Answers, FailureArrives(a)
       PROVE  RestType' /\ LedgerWrite /\ (row' = "gone" => row = "gone")
  <2>1. LedgerWrite
    BY <1>10 DEF FailureArrives, LedgerWrite
  <2>2. RestType' /\ (row' = "gone" => row = "gone")
    BY <1>10 DEF FailureArrives
  <2> QED  BY <2>1, <2>2
<1>11. CASE SweepDrops
  BY <1>11 DEF SweepDrops, LedgerWrite
<1>12. CASE StopArrives \/ StopFails
  <2>1. LedgerWrite
    BY <1>12 DEF StopArrives, StopFails, LedgerWrite
  <2>2. RestType' /\ (row' = "gone" => row = "gone")
    BY <1>12 DEF StopArrives, StopFails
  <2> QED  BY <2>1, <2>2
<1>13. CASE CreateFails
  <2>1. LedgerWrite
    BY <1>13 DEF CreateFails, LedgerWrite
  <2>2. RestType' /\ (row' = "gone" => row = "gone")
    BY <1>13 DEF CreateFails
  <2> QED  BY <2>1, <2>2
<1>14. CASE ReapFailed
  BY <1>1, <1>14 DEF ReapFailed
<1>15. ASSUME AgentCleansUp \/ AgentCleanUpFails \/ ReleaseUnknown \/ AnswersLost
       PROVE  RestType' /\ LedgerWrite /\ row' = row
  <2>1. LedgerWrite /\ row' = row
    BY <1>15 DEF AgentCleansUp, AgentCleanUpFails, ReleaseUnknown, AnswersLost, LedgerWrite
  <2>2. answers' \in SUBSET Answers
    BY <1>15 DEF AgentCleansUp, AgentCleanUpFails, ReleaseUnknown, AnswersLost
  <2>3. UNCHANGED <<row, ctlVars, hubVars>> /\ work' \in {"none", "up", "exited"}
    BY <1>15 DEF AgentCleansUp, AgentCleanUpFails, ReleaseUnknown, AnswersLost
  <2>4. RestType'
    BY <2>2, <2>3
  <2> QED  BY <2>1, <2>4
<1> QED
  BY <1>1, <1>2, <1>3, <1>4, <1>5, <1>6, <1>7, <1>8, <1>9, <1>10, <1>11, <1>12, <1>13, <1>14,
     <1>15 DEF Next, Registration, Host

-----------------------------------------------------------------------------
LEMMA InitInductive == Init => IInv
<1> SUFFICES ASSUME Init PROVE IInv
  OBVIOUS
<1>1. LedgerType /\ RestType
  <2>1. counted \in 0..2
    BY DEF Init
  <2>2. call \in [Calls -> {"none", "asking", "deleted", "refused", "failed"}]
    BY DEF Init
  <2> QED  BY <2>1, <2>2, Zenon DEF Init, LedgerType, RestType
<1>2. CleanedMeansClean /\ ~cleaned /\ ~(counted > 0) /\ row # "gone"
  <2>1. ~(counted > 0) /\ row # "gone"
    BY DEF Init
  <2> QED  BY <2>1, Zenon DEF Init, CleanedMeansClean
<1> QED  BY <1>1, <1>2, TypeSplits, Zenon DEF IInv, LedgerInv

LEMMA NextInductive == IInv /\ [Next]_vars => IInv'
<1> SUFFICES ASSUME IInv, [Next]_vars PROVE IInv'
  OBVIOUS
<1>1. CASE UNCHANGED vars
  BY <1>1 DEF IInv, TypeOK, LedgerInv, LedgerType, CleanedMeansClean, vars
<1>2. CASE Next
  <2>1. /\ RestType'
        /\ \/ LedgerWrite /\ (row' = "gone" => row = "gone")
           \/ DeleteRow
    BY <1>2, StepShape, TypeSplits DEF IInv
  <2>2. CASE LedgerWrite /\ (row' = "gone" => row = "gone")
    <3>1. LedgerInv' /\ (session => session')
      BY <2>2, LedgerWrites DEF IInv
    <3>2. TypeOK'
      BY <2>1, <3>1 DEF LedgerInv, TypeOK, LedgerType, RestType
    <3> QED  BY <2>2, <3>1, <3>2 DEF IInv
  <2>3. CASE DeleteRow
    <3>1. LedgerInv' /\ session'
      BY <2>3 DEF DeleteRow, IInv, LedgerInv, LedgerType, CleanedMeansClean
    <3>2. TypeOK'
      BY <2>1, <3>1 DEF LedgerInv, TypeOK, LedgerType, RestType
    <3> QED  BY <3>1, <3>2 DEF IInv
  <2> QED  BY <2>1, <2>2, <2>3
<1> QED  BY <1>1, <1>2

\* The inductive invariant holds throughout.
THEOREM CleanupInvariant == Spec => []IInv
BY InitInductive, NextInductive, PTL DEF Spec

\* Type correctness of the cleanup columns, the calls under way and what is left
\* on the host and at GitHub.
THEOREM CleanupTypeCorrect == Spec => []TypeOK
<1>1. IInv => TypeOK
  BY DEF IInv
<1> QED  BY <1>1, CleanupInvariant, PTL

\* However many paths delete one registration at once, and however results, reports
\* and complaints cross, cleaned_up_at is set exactly while both stamps are.
THEOREM CleanedIsClean == Spec => []CleanedMeansClean
<1>1. IInv => CleanedMeansClean
  BY DEF IInv, LedgerInv
<1> QED  BY <1>1, CleanupInvariant, PTL

\* No runner is confirmed clean, or loses its row, without a session in the ledger.
THEOREM LedgerComplete == Spec => []NoRunnerUnbilled
<1>1. IInv => NoRunnerUnbilled
  BY DEF IInv, LedgerInv, NoRunnerUnbilled
<1> QED  BY <1>1, CleanupInvariant, PTL

\* A host's confirmation of a removal is never taken back or complained over.
THEOREM ConfirmationFinal == Spec => HostConfirmationFinal
<1>1. IInv /\ [Next]_vars => [hostRemoved /\ row # "gone" => hostRemoved' /\ ~hostErr']_vars
  <2> SUFFICES ASSUME IInv, Next, hostRemoved, row # "gone"
               PROVE  hostRemoved' /\ ~hostErr'
    OBVIOUS
  <2>1. LedgerWrite \/ DeleteRow
    BY StepShape, TypeSplits DEF IInv
  <2>2. CASE LedgerWrite
    BY <2>2, HostWrites DEF IInv
  <2>3. CASE DeleteRow
    BY <2>3 DEF DeleteRow, IInv, LedgerInv, LedgerType, CleanedMeansClean
  <2> QED  BY <2>1, <2>2, <2>3
<1> QED  BY <1>1, CleanupInvariant, PTL DEF Spec, HostConfirmationFinal

-----------------------------------------------------------------------------
(* The queue of lookups. *)

\* A worker's claimed generation is that of a row that is still there, and as
\* long as the row is at that generation nothing was asked after the worker
\* looked: that is why the acknowledgement may delete it.
WorkerInv(i) ==
  worker[i].pc # "idle" =>
    /\ worker[i].gen # 0
    /\ worker[i].gen <= generation[i]
    /\ worker[i].pc # "claimed" =>
         /\ worker[i].saw <= asked[i]
         /\ generation[i] = worker[i].gen => worker[i].saw = asked[i]
    /\ worker[i].pc = "looked" => covered[i] = worker[i].saw

\* The inductive invariant: a row's generation counts at most the requests that
\* were made, and what is due is a row.
EnrichInv ==
  /\ EnrichTypeOK
  /\ \A i \in Items : generation[i] <= asked[i]
  /\ due \subseteq Queued
  /\ \A i \in Items : WorkerInv(i)
  /\ NothingForgotten

LEMMA EnrichInvInit == EnrichInit => EnrichInv
  BY EnrichmentAssumption
     DEF EnrichInit, EnrichInv, EnrichTypeOK, WorkerInv, NothingForgotten, Queued, NoWorker

\* A new request.
LEMMA QueueKeeps ==
  ASSUME EnrichInv, NEW i \in Items, QueueEnrichment(i)
  PROVE  EnrichInv'
  <1>1. /\ asked' = [asked EXCEPT ![i] = @ + 1]
        /\ generation' = [generation EXCEPT ![i] = @ + 1]
        /\ asked[i] < MaxRequests
        /\ UNCHANGED <<tried, worker, acting, covered, stops>>
    BY DEF QueueEnrichment, NextGeneration
  <1>2. /\ asked \in [Items -> 0..MaxRequests]
        /\ generation \in [Items -> 0..MaxRequests]
        /\ \A j \in Items : generation[j] <= asked[j]
        /\ MaxRequests \in Nat
    BY EnrichmentAssumption DEF EnrichInv, EnrichTypeOK
  <1>3. /\ asked' \in [Items -> 0..MaxRequests]
        /\ generation' \in [Items -> 0..MaxRequests]
        /\ \A j \in Items : generation'[j] <= asked'[j]
    BY <1>1, <1>2
  <1>4. /\ earlier' \in [Items -> SUBSET Items]
        /\ due' \subseteq due \cup {i}
    BY DEF QueueEnrichment, EnrichInv, EnrichTypeOK
  <1>5. EnrichTypeOK'
    BY <1>1, <1>3, <1>4 DEF EnrichInv, EnrichTypeOK
  <1>6. due' \subseteq Queued'
    BY <1>1, <1>2, <1>4 DEF EnrichInv, Queued
  <1>7. ASSUME NEW j \in Items PROVE WorkerInv(j)'
    <2>1. WorkerInv(j)
      BY DEF EnrichInv
    <2>2. CASE j # i
      BY <1>1, <1>2, <2>1, <2>2 DEF WorkerInv
    <2>3. CASE j = i
      <3>1. /\ worker[i].gen \in Nat /\ worker[i].saw \in Nat
            /\ generation[i] \in Nat /\ asked[i] \in Nat
        BY <1>2 DEF EnrichInv, EnrichTypeOK
      <3>2. /\ generation'[i] = generation[i] + 1 /\ asked'[i] = asked[i] + 1
            /\ worker' = worker /\ covered' = covered
        BY <1>1, <1>2
      <3> QED
        BY <2>1, <2>3, <3>1, <3>2 DEF WorkerInv
    <2> QED
      BY <2>2, <2>3
  <1>8. NothingForgotten'
    BY <1>1, <1>2 DEF EnrichInv, NothingForgotten, Queued
  <1> QED
    BY <1>3, <1>5, <1>6, <1>7, <1>8 DEF EnrichInv

\* A claimed batch: every row of it was due, and so is there.
LEMMA ClaimKeeps ==
  ASSUME EnrichInv, ClaimEnrichment
  PROVE  EnrichInv'
  <1>1. PICK batch \in SUBSET due :
          /\ worker' = [i \in Items |-> IF i \in batch
               THEN [pc |-> "claimed", gen |-> generation[i], saw |-> 0] ELSE worker[i]]
          /\ earlier' = [i \in Items |->
               IF i \in batch THEN Queued \ batch ELSE earlier[i] \ batch]
          /\ tried' = tried \cup batch
          /\ due' = due \ batch
    BY DEF ClaimEnrichment
  <1>2. UNCHANGED <<generation, acting, asked, covered, stops>>
    BY DEF ClaimEnrichment
  <1>3. EnrichTypeOK'
    <2>1. worker' \in [Items -> [pc : {"idle", "claimed", "looking", "looked"},
                                 gen : 0..MaxRequests, saw : 0..MaxRequests]]
      BY <1>1, EnrichmentAssumption DEF EnrichInv, EnrichTypeOK
    <2>2. earlier' \in [Items -> SUBSET Items] /\ tried' \subseteq Items /\ due' \subseteq Items
      BY <1>1 DEF EnrichInv, EnrichTypeOK, Queued
    <2> QED
      BY <1>2, <2>1, <2>2 DEF EnrichInv, EnrichTypeOK
  <1>4. ASSUME NEW j \in Items PROVE WorkerInv(j)'
    <2>1. CASE j \in batch
      <3>1. worker'[j] = [pc |-> "claimed", gen |-> generation[j], saw |-> 0]
        BY <1>1, <2>1
      <3>2. generation[j] # 0 /\ generation[j] \in Nat
        BY <2>1 DEF EnrichInv, Queued, EnrichTypeOK
      <3> QED
        BY <1>2, <3>1, <3>2 DEF WorkerInv
    <2>2. CASE j \notin batch
      BY <1>1, <1>2, <2>2 DEF EnrichInv, WorkerInv
    <2> QED
      BY <2>1, <2>2
  <1>5. due' \subseteq Queued' /\ NothingForgotten'
    BY <1>1, <1>2 DEF EnrichInv, Queued, NothingForgotten
  <1> QED
    BY <1>2, <1>3, <1>4, <1>5 DEF EnrichInv

\* What a worker does before it acknowledges: the rows stay as they are.
LEMMA LookKeeps ==
  ASSUME EnrichInv, NEW i \in Items, Look(i) \/ Succeed(i) \/ Fail(i) \/ FinishFails(i)
  PROVE  EnrichInv'
  <1>0. /\ UNCHANGED <<generation, earlier, tried, due, acting, asked, stops>>
        /\ worker \in [Items -> [pc : {"idle", "claimed", "looking", "looked"},
                                 gen : 0..MaxRequests, saw : 0..MaxRequests]]
        /\ asked \in [Items -> 0..MaxRequests]
        /\ generation \in [Items -> 0..MaxRequests]
        /\ covered \in [Items -> 0..MaxRequests]
        /\ WorkerInv(i)
    BY DEF Look, Succeed, Fail, FinishFails, rows, EnrichInv, EnrichTypeOK
  <1>1. /\ \A j \in Items \ {i} : worker'[j] = worker[j] /\ covered'[j] = covered[j]
        /\ worker' \in [Items -> [pc : {"idle", "claimed", "looking", "looked"},
                                  gen : 0..MaxRequests, saw : 0..MaxRequests]]
        /\ covered' \in [Items -> 0..MaxRequests]
    <2>1. CASE Look(i)
      BY <1>0, <2>1 DEF Look
    <2>2. CASE Succeed(i)
      BY <1>0, <2>2 DEF Succeed
    <2>3. CASE Fail(i) \/ FinishFails(i)
      BY <1>0, <2>3, EnrichmentAssumption DEF Fail, FinishFails, NoWorker
    <2> QED
      BY <2>1, <2>2, <2>3
  <1>2. EnrichTypeOK'
    BY <1>0, <1>1 DEF EnrichInv, EnrichTypeOK
  <1>3. WorkerInv(i)'
    <2>1. CASE Look(i)
      <3>1. /\ worker[i].pc = "claimed"
            /\ worker'[i].pc = "looking" /\ worker'[i].saw = asked[i]
            /\ worker'[i].gen = worker[i].gen
        BY <1>0, <2>1 DEF Look
      <3>2. asked[i] \in Nat
        BY <1>0
      <3> QED
        BY <1>0, <3>1, <3>2 DEF WorkerInv
    <2>2. CASE Succeed(i)
      <3>1. /\ worker[i].pc = "looking"
            /\ worker'[i].pc = "looked" /\ worker'[i].saw = worker[i].saw
            /\ worker'[i].gen = worker[i].gen
            /\ covered'[i] = worker[i].saw
        BY <1>0, <2>2 DEF Succeed
      <3> QED
        BY <1>0, <3>1 DEF WorkerInv
    <2>3. CASE Fail(i) \/ FinishFails(i)
      <3>1. worker'[i].pc = "idle"
        BY <1>0, <2>3 DEF Fail, FinishFails, NoWorker
      <3> QED
        BY <3>1 DEF WorkerInv
    <2> QED
      BY <2>1, <2>2, <2>3
  <1>4. \A j \in Items \ {i} : WorkerInv(j)'
    BY <1>0, <1>1 DEF EnrichInv, WorkerInv
  <1>5. NothingForgotten'
    <2>1. CASE Succeed(i)
      <3>1. generation[i] # 0
        BY <1>0, <2>1 DEF Succeed, WorkerInv
      <3> QED
        BY <1>0, <1>1, <3>1 DEF EnrichInv, NothingForgotten, Queued
    <2>2. CASE ~Succeed(i)
      <3>1. covered' = covered
        BY <2>2 DEF Look, Fail, FinishFails
      <3> QED
        BY <1>0, <3>1 DEF EnrichInv, NothingForgotten, Queued
    <2> QED
      BY <2>1, <2>2
  <1> QED
    BY <1>0, <1>2, <1>3, <1>4, <1>5 DEF EnrichInv, Queued

\* The acknowledgement: the row goes only if the look saw every request.
LEMMA FinishKeeps ==
  ASSUME EnrichInv, NEW i \in Items, FinishEnrichment(i)
  PROVE  EnrichInv'
  <1>0. /\ UNCHANGED <<acting, asked, covered, stops>>
        /\ worker' = [worker EXCEPT ![i] = NoWorker]
        /\ worker[i].pc = "looked"
        /\ WorkerInv(i)
    BY DEF FinishEnrichment, EnrichInv
  <1>1. /\ worker \in [Items -> [pc : {"idle", "claimed", "looking", "looked"},
                                 gen : 0..MaxRequests, saw : 0..MaxRequests]]
        /\ generation \in [Items -> 0..MaxRequests]
        /\ asked \in [Items -> 0..MaxRequests]
        /\ covered \in [Items -> 0..MaxRequests]
    BY DEF EnrichInv, EnrichTypeOK
  <1>2. /\ worker' \in [Items -> [pc : {"idle", "claimed", "looking", "looked"},
                                  gen : 0..MaxRequests, saw : 0..MaxRequests]]
        /\ worker'[i].pc = "idle"
        /\ \A j \in Items \ {i} : worker'[j] = worker[j]
    BY <1>0, <1>1, EnrichmentAssumption DEF NoWorker
  <1>3. CASE Acknowledged(i)
    <2>1. /\ generation' = [generation EXCEPT ![i] = 0]
          /\ earlier' = [j \in Items |-> IF j = i THEN {} ELSE earlier[j] \ {i}]
          /\ tried' = tried \ {i}
          /\ due' = due \ {i}
      BY <1>3 DEF FinishEnrichment
    <2>2. covered[i] = asked[i]
      BY <1>0, <1>3 DEF WorkerInv, Acknowledged
    <2>3. /\ generation' \in [Items -> 0..MaxRequests]
          /\ generation'[i] = 0
          /\ \A j \in Items \ {i} : generation'[j] = generation[j]
      BY <1>1, <2>1, EnrichmentAssumption
    <2>4. EnrichTypeOK'
      BY <1>0, <1>2, <2>1, <2>3 DEF EnrichInv, EnrichTypeOK
    <2>5. \A j \in Items : generation'[j] <= asked'[j]
      <3>1. generation'[i] <= asked'[i]
        BY <1>0, <1>1, <2>3
      <3> QED
        BY <1>0, <2>3, <3>1 DEF EnrichInv
    <2>6. due' \subseteq Queued'
      BY <2>1, <2>3 DEF EnrichInv, Queued
    <2>7. \A j \in Items : WorkerInv(j)'
      BY <1>0, <1>2, <2>3 DEF EnrichInv, WorkerInv
    <2>8. NothingForgotten'
      <3>1. ~(covered'[i] < asked'[i])
        BY <1>0, <1>1, <2>2
      <3> QED
        BY <1>0, <2>3, <3>1 DEF EnrichInv, NothingForgotten, Queued
    <2> QED
      BY <2>4, <2>5, <2>6, <2>7, <2>8 DEF EnrichInv
  <1>4. CASE ~Acknowledged(i)
    <2>1. UNCHANGED <<generation, earlier, tried, due>>
      BY <1>4 DEF FinishEnrichment, rows
    <2>2. EnrichTypeOK'
      BY <1>0, <1>2, <2>1 DEF EnrichInv, EnrichTypeOK
    <2>3. \A j \in Items : WorkerInv(j)'
      BY <1>0, <1>2, <2>1 DEF EnrichInv, WorkerInv
    <2> QED
      BY <1>0, <2>1, <2>2, <2>3 DEF EnrichInv, Queued, NothingForgotten
  <1> QED
    BY <1>3, <1>4

\* Every step keeps the invariant.
LEMMA EnrichInvNext == EnrichInv /\ [EnrichNext]_enrichVars => EnrichInv'
  <1> SUFFICES ASSUME EnrichInv, [EnrichNext]_enrichVars PROVE EnrichInv'
    OBVIOUS
  <1>1. ASSUME NEW i \in Items, FallsDue(i) PROVE EnrichInv'
    <2>1. /\ due' = due \cup {i} /\ i \in Queued
          /\ UNCHANGED <<generation, earlier, tried, worker, acting, asked, covered, stops>>
      BY <1>1 DEF FallsDue
    <2>2. EnrichTypeOK'
      BY <2>1 DEF EnrichInv, EnrichTypeOK
    <2> QED
      BY <2>1, <2>2 DEF EnrichInv, Queued, WorkerInv, NothingForgotten
  <1>2. ASSUME UNCHANGED <<generation, earlier, tried, due, asked, covered>>,
               EnrichTypeOK', worker' = worker \/ \A i \in Items : worker'[i].pc = "idle"
        PROVE  EnrichInv'
    BY <1>2 DEF EnrichInv, Queued, WorkerInv, NothingForgotten
  <1>3. CASE Pause \/ Resume
    <2>1. EnrichTypeOK'
      <3>1. stops' \in 0..MaxStops
        BY <1>3, EnrichmentAssumption DEF Pause, Resume, EnrichInv, EnrichTypeOK
      <3>2. acting' \in BOOLEAN
        BY <1>3, Zenon DEF Pause, Resume
      <3> QED
        BY <1>3, <3>1, <3>2 DEF Pause, Resume, rows, EnrichInv, EnrichTypeOK
    <2> QED
      BY <1>2, <1>3, <2>1 DEF Pause, Resume, rows
  <1>4. CASE Crash
    <2>1. worker' \in [Items -> [pc : {"idle", "claimed", "looking", "looked"},
                                 gen : 0..MaxRequests, saw : 0..MaxRequests]]
      BY <1>4, EnrichmentAssumption DEF Crash, NoWorker
    <2>2. stops' \in 0..MaxStops /\ acting' = TRUE
      BY <1>4, EnrichmentAssumption DEF Crash, EnrichInv, EnrichTypeOK
    <2>3. EnrichTypeOK'
      BY <1>4, <2>1, <2>2 DEF Crash, rows, EnrichInv, EnrichTypeOK
    <2>4. \A i \in Items : worker'[i].pc = "idle"
      BY <1>4 DEF Crash, NoWorker
    <2> QED
      BY <1>2, <1>4, <2>3, <2>4 DEF Crash, rows
  <1>5. CASE UNCHANGED enrichVars
    <2>1. EnrichTypeOK'
      BY <1>5 DEF enrichVars, rows, EnrichInv, EnrichTypeOK
    <2> QED
      BY <1>2, <1>5, <2>1 DEF enrichVars, rows
  <1> QED
    BY <1>1, <1>3, <1>4, <1>5, QueueKeeps, ClaimKeeps, LookKeeps, FinishKeeps
       DEF EnrichNext, Work

\* The inductive invariant holds of every behaviour.
THEOREM EnrichmentInvariant == EnrichSpec => []EnrichInv
  BY EnrichInvInit, EnrichInvNext, PTL DEF EnrichSpec

\* The rows, the workers and the history keep their types; in particular a row's
\* generation never passes the number of requests made for it.
THEOREM EnrichmentTypes == EnrichSpec => []EnrichTypeOK
  <1>1. EnrichInv => EnrichTypeOK
    BY DEF EnrichInv
  <1> QED
    BY <1>1, EnrichmentInvariant, PTL

\* QueueEnrichment, ClaimEnrichment and FinishEnrichment between them forget no
\* request, whatever fails, restarts or arrives while a worker is looking.
THEOREM EnrichmentForgetsNothing == EnrichSpec => []NothingForgotten
  <1>1. EnrichInv => NothingForgotten
    BY DEF EnrichInv
  <1> QED
    BY <1>1, EnrichmentInvariant, PTL
=============================================================================
