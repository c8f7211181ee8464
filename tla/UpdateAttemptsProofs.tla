------------------------ MODULE UpdateAttemptsProofs ------------------------
(***************************************************************************)
(* Proofs about UpdateAttempts, for any number of attempts and of fences,  *)
(* restarts, deletions and failures of the store.                          *)
(*                                                                         *)
(* Every step does one of three things to the rows: it leaves them alone,  *)
(* it ends whatever was open, or it opens the next attempt (RowMoves).     *)
(* What is remembered anywhere, on either side, is about an attempt that   *)
(* was asked for (Referred), so it cannot be taken for one that is opened  *)
(* later; and nothing is asked of an attempt once it has ended.            *)
(***************************************************************************)
EXTENDS UpdateAttempts, FiniteSetTheorems, TLAPS

\* The attempts are numbered as they were asked for, and only the latest is open.
Numbered ==
  /\ Latest \in 0..MaxAttempts
  /\ \A a \in Ids : attempts[a] # "none" <=> a <= Latest
  /\ \A a \in Ids : attempts[a] = "requested" => a = Latest

\* What the threads, the queue and the host hold is about attempts that were asked
\* for, and what is under way names one.
Referred ==
  /\ asking.id <= Latest /\ hostLast.id <= Latest /\ pass.id <= Latest
  /\ beat.id <= Latest /\ answer.id <= Latest
  /\ request <= Latest /\ helper <= Latest
  /\ result.id <= Latest /\ result.since <= Latest
  /\ \A a \in Ids : task[a] # "no" => a <= Latest

UnderWay ==
  /\ asking.pc = "allowed" => Latest < MaxAttempts
  /\ asking.pc = "made" => asking.id # 0
  /\ hostLast.open => hostLast.id # 0
  /\ pass.pc # "idle" => pass.id # 0
  /\ pass.pc = "close" => pass.outcome \in {"cancelled", "succeeded", "timed_out"}
  /\ beat # NoBeat => beat.id # 0 /\ beat.outcome \in {"succeeded", "failed"}
  /\ answer # NoAnswer => answer.id # 0

\* The result ends the latest attempt of a host that does not run the release.
Answers ==
  /\ result # NoResult
  /\ result.id = Latest \/ (result.id = 0 /\ result.since >= Latest)

\* Whoever is about to record a failure of an open attempt has it from that attempt,
\* or, a beat, from a refusal that names none and came while the attempt was open.
Caused ==
  /\ caused => Open(Latest)
  /\ unnamed => Open(Latest)
  /\ answer.said \in {"failed", "closing"} /\ Open(answer.id) => caused
  /\ beat.outcome = "failed" /\ Open(beat.id) => caused \/ unnamed
  /\ Open(Latest) /\ Answers => caused \/ unnamed

\* A result that was delivered, or that a beat is about to take for another attempt,
\* is none of the open attempt's.
Delivered ==
  Open(Latest) /\ Answers => /\ ~delivered
                             /\ beat.report => beat.id = Latest

\* A held report is still to be sent, and until a beat has taken it the fence that
\* held it is remembered, or the grace that followed it runs.
Held ==
  /\ heldBack => /\ Open(Latest) /\ registered /\ ~delivered /\ result # NoResult
                 /\ fenceSeen \/ grace = "due"
                 /\ beat # NoBeat => beat.id = Latest
  /\ pass.pc = "close" /\ pass.outcome = "timed_out" /\ pass.clean => ~heldBack

IInv == TypeOK /\ Numbered /\ Referred /\ UnderWay /\ Caused /\ Delivered /\ Held

-----------------------------------------------------------------------------
(* The operators. *)

\* Rows that are numbered up to n have n as their latest: what Latest counts.
LEMMA CountOfNumbered ==
  ASSUME NEW rows, NEW n \in 0..MaxAttempts, \A a \in Ids : rows[a] # "none" <=> a <= n
  PROVE  Cardinality({a \in Ids : rows[a] # "none"}) = n
  <1>1. {a \in Ids : rows[a] # "none"} = 1..n
    BY UpdateAssumption DEF Ids
  <1>2. Cardinality(1..n) = n
    BY UpdateAssumption, FS_Interval
  <1> QED
    BY <1>1, <1>2

\* What hostReportOutcome says for a host that does not run the release.
LEMMA OutcomeOfReport ==
  ASSUME NEW a \in Nat, NEW rep \in Results
  PROVE  HostReportOutcome(a, FALSE, rep) =
           IF rep # NoResult /\ (rep.id = a \/ (rep.id = 0 /\ rep.since >= a))
           THEN "failed" ELSE "none"
  BY DEF HostReportOutcome, Results, NoResult

\* And for any host.
LEMMA OutcomeOfBeat ==
  ASSUME NEW a \in Nat, NEW new \in BOOLEAN, NEW rep \in Results
  PROVE  /\ HostReportOutcome(a, new, rep) \in {"succeeded", "failed", "none"}
         /\ new => HostReportOutcome(a, new, rep) = "succeeded"
         /\ ~new => HostReportOutcome(a, new, rep) = HostReportOutcome(a, FALSE, rep)
  <1>1. CASE new = TRUE
    BY <1>1 DEF HostReportOutcome
  <1>2. CASE new = FALSE
    BY <1>2, OutcomeOfReport
  <1> QED
    BY <1>1, <1>2

\* The pass ends an attempt in one of three ways, and by the clock only when no fence
\* was seen and no grace runs.
LEMMA OutcomeOfPass ==
  ASSUME NEW a
  PROVE  /\ HostAttemptOutcome(a) \in {"cancelled", "succeeded", "timed_out", "none"}
         /\ HostAttemptOutcome(a) = "timed_out" => ~fenceSeen /\ grace = "none"
  BY DEF HostAttemptOutcome, Grace

LEMMA NothingIsTyped ==
  /\ NoResult \in Results
  /\ NoAsk \in [pc : {"idle", "allowed", "made"}, id : 0..MaxAttempts]
  /\ NoBeat \in [id : 0..MaxAttempts, outcome : Ends \cup {"none"}, report : BOOLEAN,
                 graced : BOOLEAN]
  /\ NoAnswer \in [id : 0..MaxAttempts, said : {"none", "ok", "failed", "not_started", "closing"},
                   known : BOOLEAN]
  /\ NoPass \in [pc : {"idle", "keep", "close"}, id : 0..MaxAttempts,
                 outcome : Ends \cup {"none"}, clean : BOOLEAN]
  /\ Nothing \in [id : 0..MaxAttempts, open : BOOLEAN]
  BY UpdateAssumption DEF NoResult, NoAsk, NoBeat, NoAnswer, NoPass, Nothing, Results

-----------------------------------------------------------------------------
(* What a step does to the rows. *)

\* The row types and the numbering, apart from the rest of the state.
Rows ==
  /\ attempts \in [Ids -> Ends \cup {"none", "requested"}]
  /\ Numbered

\* The step leaves the rows alone.
RowsStay == attempts' = attempts /\ Latest' = Latest

\* The step ends what was open, and what is only asked of an open attempt is gone.
RowsEnd ==
  /\ attempts' \in [Ids -> Ends \cup {"none", "requested"}]
  /\ \A a \in Ids : attempts[a] # "requested" => attempts'[a] = attempts[a]
  /\ \A a \in Ids : /\ attempts'[a] # "requested"
                    /\ attempts'[a] = "none" <=> attempts[a] = "none"
  /\ Latest' = Latest
  /\ Settled

\* The step opens the next attempt.
RowsOpen ==
  /\ attempts' = [attempts EXCEPT ![Latest + 1] = "requested"]
  /\ Latest + 1 \in Ids /\ attempts[Latest + 1] = "none"
  /\ \A a \in Ids : attempts[a] # "requested"
  /\ Latest' = Latest + 1

\* An ending by any of the closers.
LEMMA EndingOfOne ==
  ASSUME Rows, NEW a \in Ids, NEW end \in Ends, Open(a), Settled,
         attempts' = [attempts EXCEPT ![a] = end]
  PROVE  RowsEnd
  <1>1. end # "requested" /\ end # "none"
    BY DEF Ends
  <1>2. /\ attempts' \in [Ids -> Ends \cup {"none", "requested"}]
        /\ \A b \in Ids : b # a => attempts'[b] = attempts[b]
        /\ attempts'[a] = end
    BY DEF Rows
  <1>3. a = Latest /\ \A b \in Ids : b # a => attempts[b] # "requested"
    BY DEF Rows, Numbered, Open
  <1>4. \A b \in Ids : attempts'[b] = "none" <=> attempts[b] = "none"
    BY <1>1, <1>2 DEF Open
  <1>5. {b \in Ids : attempts'[b] # "none"} = {b \in Ids : attempts[b] # "none"}
    BY <1>4
  <1>6. Latest' = Latest
    BY <1>5 DEF Latest
  <1> QED
    BY <1>1, <1>2, <1>3, <1>4, <1>6 DEF RowsEnd, Open

\* closeHostAttempt ends the attempt, or finds that another closer has.
LEMMA ClosingRows ==
  ASSUME Rows, NEW a, NEW end \in Ends, CloseHostAttempt(a, end)
  PROVE  \/ RowsEnd
         \/ RowsStay /\ ~Open(a) /\ UNCHANGED <<task, hostLast, handed, history>>
  <1>1. CASE Open(a)
    BY <1>1, EndingOfOne DEF CloseHostAttempt, Finishes, Open
  <1>2. CASE ~Open(a)
    BY <1>2 DEF CloseHostAttempt, Finishes, RowsStay, Latest
  <1> QED
    BY <1>1, <1>2

\* The insert of the next attempt.
LEMMA OpeningRows ==
  ASSUME Rows, Latest < MaxAttempts, \A a \in Ids : ~Open(a),
         attempts' = [attempts EXCEPT ![Latest + 1] = "requested"]
  PROVE  RowsOpen
  <1>1. Latest \in Nat /\ Latest + 1 \in Ids /\ ~(Latest + 1 <= Latest)
    BY UpdateAssumption DEF Rows, Numbered, Ids
  <1>2. attempts[Latest + 1] = "none"
    BY <1>1 DEF Rows, Numbered
  <1>3. \A a \in Ids : attempts[a] # "requested"
    BY DEF Open
  <1>4. Latest' = Latest + 1
    <2>1. \A a \in Ids : attempts'[a] # "none" <=> a <= Latest + 1
      <3> SUFFICES ASSUME NEW a \in Ids PROVE attempts'[a] # "none" <=> a <= Latest + 1
        OBVIOUS
      <3>1. a \in Nat /\ (attempts[a] # "none" <=> a <= Latest)
        BY DEF Rows, Numbered, Ids
      <3>2. attempts'[a] = IF a = Latest + 1 THEN "requested" ELSE attempts[a]
        BY DEF Rows
      <3> QED
        BY <1>1, <3>1, <3>2
    <2>2. Latest + 1 \in 0..MaxAttempts
      BY <1>1, UpdateAssumption DEF Ids
    <2> QED
      BY <2>1, <2>2, CountOfNumbered DEF Latest
  <1> QED
    BY <1>1, <1>2, <1>3, <1>4 DEF RowsOpen

\* DeleteHost's transaction.
LEMMA DeletingRows ==
  ASSUME Rows, DeleteHost
  PROVE  RowsEnd
  <1>1. /\ attempts' = [a \in Ids |-> IF Open(a) THEN "cancelled" ELSE attempts[a]]
        /\ Settled
    BY DEF DeleteHost
  <1>2. /\ attempts' \in [Ids -> Ends \cup {"none", "requested"}]
        /\ \A a \in Ids :
             attempts'[a] = IF attempts[a] = "requested" THEN "cancelled" ELSE attempts[a]
    BY <1>1 DEF Rows, Open, Ends
  <1>3. \A a \in Ids : attempts'[a] # "none" <=> attempts[a] # "none"
    BY <1>2
  <1>4. {a \in Ids : attempts'[a] # "none"} = {a \in Ids : attempts[a] # "none"}
    BY <1>3
  <1>5. Latest' = Latest
    BY <1>4 DEF Latest
  <1> QED
    BY <1>1, <1>2, <1>3, <1>5 DEF RowsEnd

\* What the closers carry is an ending.
LEMMA CarriedEndings ==
  ASSUME UnderWay
  PROVE  /\ pass.pc = "close" => pass.outcome \in Ends
         /\ beat # NoBeat => beat.outcome \in Ends
         /\ "failed" \in Ends
  BY DEF UnderWay, Ends

\* Only four actions end an attempt, and only one opens one.
RowWriters ==
  PassCloses \/ BeatCloses \/ AnswerCloses \/ DeleteHost \/ CreateUpdateAttempt

LEMMA OthersLeaveRows ==
  ASSUME Next, ~RowWriters
  PROVE  RowsStay
  <1>1. attempts' = attempts
    BY DEF Next, RowWriters, database, RequestHostUpdate, SendRequested, PassReads, PassKeeps,
           PassFenced, PassFails, BeatFenced, BeatJudges, BeatFails, LeaseExpires, HandleUpdate,
           AnswerLost, AnswerReads, AnswerFails, AnswerNoted, HelperTakes, HelperInstalls,
           HelperFinishes, HelperRefuses, Writes, AgentRestarts, ForgetHost, JoinHost, SwitchMode,
           FenceFalls, FenceLifts, TimePasses, GraceEnds, ControllerRestarts
  <1> QED
    BY <1>1 DEF RowsStay, Latest

\* Every step leaves the rows alone, ends what was open or opens the next attempt.
LEMMA RowMoves ==
  ASSUME TypeOK, Numbered, UnderWay, Next
  PROVE  \/ RowsStay
         \/ RowsEnd
         \/ RowsOpen /\ CreateUpdateAttempt
  <1>0. Rows
    BY DEF Rows, TypeOK
  <1>1. CASE PassCloses
    BY <1>0, <1>1, ClosingRows, CarriedEndings DEF PassCloses
  <1>2. CASE BeatCloses
    BY <1>0, <1>2, ClosingRows, CarriedEndings DEF BeatCloses
  <1>3. CASE AnswerCloses
    BY <1>0, <1>3, ClosingRows, CarriedEndings DEF AnswerCloses
  <1>4. CASE DeleteHost
    BY <1>0, <1>4, DeletingRows
  <1>5. CASE CreateUpdateAttempt
    <2>1. CASE \E a \in Ids : Open(a)
      BY <1>5, <2>1 DEF CreateUpdateAttempt, RowsStay, Latest
    <2>2. CASE ~\E a \in Ids : Open(a)
      <3>1. attempts' = [attempts EXCEPT ![Latest + 1] = "requested"] /\ Latest < MaxAttempts
        BY <1>5, <2>2 DEF CreateUpdateAttempt, UnderWay
      <3> QED
        BY <1>0, <1>5, <2>2, <3>1, OpeningRows
    <2> QED
      BY <2>1, <2>2
  <1> QED
    BY <1>1, <1>2, <1>3, <1>4, <1>5, OthersLeaveRows DEF RowWriters

\* The numbering survives, and the latest attempt only ever moves on.
LEMMA NumberedStep ==
  ASSUME TypeOK, Numbered, UnderWay, Next
  PROVE  /\ Numbered' /\ attempts' \in [Ids -> Ends \cup {"none", "requested"}]
         /\ Latest' \in Nat /\ Latest \in Nat /\ Latest <= Latest'
  <1>0. /\ Latest \in 0..MaxAttempts /\ Latest \in Nat
        /\ attempts \in [Ids -> Ends \cup {"none", "requested"}]
    BY UpdateAssumption DEF Numbered, TypeOK
  <1>1. CASE RowsStay
    BY <1>0, <1>1 DEF RowsStay, Numbered
  <1>2. CASE RowsEnd
    BY <1>0, <1>2 DEF RowsEnd, Numbered
  <1>3. CASE RowsOpen
    <2>1. /\ Latest' = Latest + 1 /\ Latest + 1 \in Ids
          /\ attempts' \in [Ids -> Ends \cup {"none", "requested"}]
          /\ \A a \in Ids : attempts'[a] = IF a = Latest + 1 THEN "requested" ELSE attempts[a]
      BY <1>0, <1>3 DEF RowsOpen
    <2>2. ASSUME NEW a \in Ids
          PROVE  /\ attempts'[a] # "none" <=> a <= Latest'
                 /\ attempts'[a] = "requested" => a = Latest'
      <3>1. a \in Nat /\ (attempts[a] # "none" <=> a <= Latest) /\ attempts[a] # "requested"
        BY <1>3 DEF Numbered, RowsOpen, Ids
      <3> QED
        BY <1>0, <2>1, <3>1
    <2>3. Latest' \in 0..MaxAttempts
      BY <1>0, <2>1, UpdateAssumption DEF Ids
    <2> QED
      BY <1>0, <2>1, <2>2, <2>3 DEF Numbered
  <1> QED
    BY <1>1, <1>2, <1>3, RowMoves

\* A look keeps the latest attempt, and of what was remembered only what is open.
Looked(n) ==
  /\ hostLast' \in [id : 0..MaxAttempts, open : BOOLEAN]
  /\ hostLast'.id = n /\ (hostLast'.open => n # 0)
  /\ handed' \subseteq handed

LEMMA PictureTaken ==
  ASSUME Numbered, Picture(attempts)
  PROVE  Looked(Latest)
  <1>1. hostLast' = [id |-> Latest, open |-> Latest > 0 /\ attempts[Latest] = "requested"]
    BY DEF Picture, Latest
  <1>2. handed' \subseteq handed
    BY DEF Picture
  <1>3. (Latest > 0 /\ attempts[Latest] = "requested") \in BOOLEAN /\ (Latest > 0 => Latest # 0)
    BY UpdateAssumption DEF Numbered
  <1> QED
    BY <1>1, <1>2, <1>3 DEF Looked, Numbered

\* The same of a look at the rows as the step leaves them.
LEMMA PictureAfter ==
  ASSUME Numbered', Picture(attempts')
  PROVE  Looked(Latest')
  <1>1. hostLast' = [id |-> Latest', open |-> Latest' > 0 /\ attempts'[Latest'] = "requested"]
    BY DEF Picture, Latest
  <1>2. handed' \subseteq handed
    BY DEF Picture
  <1>3. /\ (Latest' > 0 /\ attempts'[Latest'] = "requested") \in BOOLEAN
        /\ Latest' > 0 => Latest' # 0
    BY UpdateAssumption DEF Numbered
  <1> QED
    BY <1>1, <1>2, <1>3 DEF Looked, Numbered

-----------------------------------------------------------------------------
(* Types.  The flags are apart from the rest. *)

Flags ==
  /\ overdue \in BOOLEAN /\ registered \in BOOLEAN /\ rowNew \in BOOLEAN
  /\ acting \in BOOLEAN /\ fenceSeen \in BOOLEAN /\ updating \in BOOLEAN
  /\ removing \in BOOLEAN /\ running \in BOOLEAN /\ delivered \in BOOLEAN
  /\ caused \in BOOLEAN /\ unnamed \in BOOLEAN /\ heldBack \in BOOLEAN

LEMMA FlagStep ==
  ASSUME Flags, Next
  PROVE  Flags'
  <1> USE DEF Flags, database, memory, threads, agent, history
  <1>0. ASSUME NEW a, NEW end, CloseHostAttempt(a, end)
        PROVE  /\ overdue' \in BOOLEAN /\ caused' \in BOOLEAN
               /\ unnamed' \in BOOLEAN /\ heldBack' \in BOOLEAN
    <2>1. CASE Open(a)
      BY <1>0, <2>1 DEF CloseHostAttempt, Finishes, Settled
    <2>2. CASE ~Open(a)
      BY <1>0, <2>2 DEF CloseHostAttempt, Finishes
    <2> QED
      BY <2>1, <2>2
  <1>1. CASE RequestHostUpdate
    BY <1>1 DEF RequestHostUpdate
  <1>2. CASE CreateUpdateAttempt
    BY <1>2 DEF CreateUpdateAttempt
  <1>3. CASE SendRequested
    BY <1>3 DEF SendRequested
  <1>4. CASE PassReads
    BY <1>4 DEF PassReads
  <1>5. CASE PassKeeps
    BY <1>5 DEF PassKeeps
  <1>6. CASE PassCloses
    <2>1. UNCHANGED <<registered, rowNew, acting, fenceSeen, updating, removing, running,
                      delivered>>
      BY <1>6 DEF PassCloses
    <2>2. CloseHostAttempt(pass.id, pass.outcome)
      BY <1>6 DEF PassCloses
    <2> QED
      BY <1>0, <2>1, <2>2
  <1>7. CASE PassFenced
    BY <1>7 DEF PassFenced
  <1>8. CASE PassFails
    <2>1. UNCHANGED <<database, agent, history, acting, updating, removing>>
      BY <1>8 DEF PassFails
    <2>2. fenceSeen' = FALSE \/ fenceSeen' = fenceSeen
      BY <1>8 DEF PassFails
    <2>3. fenceSeen' \in BOOLEAN
      BY <2>2
    <2> QED
      BY <2>1, <2>3
  <1>9. CASE BeatFenced
    BY <1>9 DEF BeatFenced
  <1>10. CASE BeatJudges
    BY <1>10 DEF BeatJudges, BeatEnds
  <1>11. CASE BeatCloses
    <2>1. UNCHANGED <<registered, rowNew, acting, fenceSeen, updating, removing, running>>
      BY <1>11 DEF BeatCloses, BeatEnds
    <2>2. delivered' \in BOOLEAN
      BY <1>11 DEF BeatCloses, BeatEnds
    <2>3. CloseHostAttempt(beat.id, beat.outcome)
      BY <1>11 DEF BeatCloses
    <2> QED
      BY <1>0, <2>1, <2>2, <2>3
  <1>12. CASE BeatFails
    <2>1. UNCHANGED <<overdue, registered, acting, fenceSeen, updating, removing, running, caused,
                      unnamed>>
      BY <1>12 DEF BeatFails, BeatEnds
    <2>2. heldBack' = FALSE /\ (rowNew' = running \/ rowNew' = rowNew)
      BY <1>12 DEF BeatFails
    <2>3. delivered' \in BOOLEAN
      BY <1>12 DEF BeatFails, BeatEnds
    <2>4. rowNew' \in BOOLEAN
      BY <2>2
    <2> QED
      BY <2>1, <2>2, <2>3, <2>4
  <1>13. ASSUME NEW a \in Ids, LeaseExpires(a) PROVE Flags'
    BY <1>13 DEF LeaseExpires
  <1>14. ASSUME NEW a \in Ids, HandleUpdate(a) PROVE Flags'
    BY <1>14 DEF HandleUpdate
  <1>15. CASE AnswerLost
    BY <1>15 DEF AnswerLost
  <1>16. CASE AnswerReads
    BY <1>16 DEF AnswerReads
  <1>17. CASE AnswerCloses
    <2>1. UNCHANGED <<registered, rowNew, acting, fenceSeen, updating, removing, running,
                      delivered>>
      BY <1>17 DEF AnswerCloses
    <2>2. CloseHostAttempt(answer.id, "failed")
      BY <1>17 DEF AnswerCloses
    <2> QED
      BY <1>0, <2>1, <2>2
  <1>18. CASE AnswerFails
    BY <1>18 DEF AnswerFails
  <1>19. CASE AnswerNoted
    BY <1>19 DEF AnswerNoted
  <1>20. CASE HelperTakes
    BY <1>20 DEF HelperTakes
  <1>21. CASE HelperInstalls
    BY <1>21 DEF HelperInstalls, NewProcess
  <1>22. CASE HelperFinishes
    BY <1>22 DEF HelperFinishes, Writes
  <1>23. CASE HelperRefuses
    BY <1>23 DEF HelperRefuses, Writes
  <1>24. CASE AgentRestarts
    BY <1>24 DEF AgentRestarts, NewProcess
  <1>25. CASE DeleteHost
    BY <1>25 DEF DeleteHost, Settled
  <1>26. CASE ForgetHost
    BY <1>26 DEF ForgetHost
  <1>27. CASE JoinHost
    BY <1>27 DEF JoinHost, NewProcess
  <1>28. CASE SwitchMode
    BY <1>28 DEF SwitchMode
  <1>29. CASE FenceFalls
    BY <1>29 DEF FenceFalls
  <1>30. CASE FenceLifts
    BY <1>30 DEF FenceLifts
  <1>31. CASE TimePasses
    BY <1>31 DEF TimePasses
  <1>32. CASE GraceEnds
    BY <1>32 DEF GraceEnds
  <1>33. CASE ControllerRestarts
    BY <1>33 DEF ControllerRestarts
  <1> QED
    BY <1>1, <1>2, <1>3, <1>4, <1>5, <1>6, <1>7, <1>8, <1>9, <1>10, <1>11, <1>12, <1>13, <1>14,
       <1>15, <1>16, <1>17, <1>18, <1>19, <1>20, <1>21, <1>22, <1>23, <1>24, <1>25, <1>26,
       <1>27, <1>28, <1>29, <1>30, <1>31, <1>32, <1>33 DEF Next

\* The task queue and what the loop remembers.
QueueType ==
  /\ task \in [Ids -> {"no", "pending", "held"}]
  /\ handed \subseteq Ids
  /\ hostLast \in [id : 0..MaxAttempts, open : BOOLEAN]

\* closeHostAttempt keeps the queue and the loop's memory in their types.
LEMMA ClosingQueue ==
  ASSUME QueueType, Numbered, Numbered', NEW a, NEW end, CloseHostAttempt(a, end)
  PROVE  QueueType'
  <1>1. CASE Open(a)
    <2>1. task' = [task EXCEPT ![a] = "no"] /\ Picture(attempts')
      BY <1>1 DEF CloseHostAttempt, Finishes
    <2> QED
      BY <2>1, PictureAfter DEF QueueType, Looked
  <1>2. CASE ~Open(a)
    BY <1>2 DEF CloseHostAttempt, Finishes, QueueType
  <1> QED
    BY <1>1, <1>2

LEMMA QueueStep ==
  ASSUME TypeOK, Numbered, UnderWay, Next
  PROVE  QueueType'
  <1>0. QueueType /\ Numbered'
    BY NumberedStep DEF TypeOK, QueueType
  <1>1. ASSUME Picture(attempts), task' \in [Ids -> {"no", "pending", "held"}] PROVE QueueType'
    BY <1>0, <1>1, PictureTaken DEF QueueType, Looked
  <1>2. ASSUME NEW a \in Ids, Send(a) PROVE task' \in [Ids -> {"no", "pending", "held"}]
    BY <1>0, <1>2 DEF Send, QueueType
  <1>3. CASE SendRequested
    <2>1. asking.id \in Ids
      BY <1>3, UpdateAssumption DEF SendRequested, UnderWay, TypeOK, Ids
    <2> QED
      BY <1>1, <1>2, <1>3, <2>1 DEF SendRequested
  <1>4. CASE PassReads
    <2>1. task' = task
      BY <1>4 DEF PassReads
    <2>2. Picture(attempts) \/ UNCHANGED <<handed, hostLast>>
      BY <1>4 DEF PassReads
    <2> QED
      BY <1>0, <1>1, <2>1, <2>2 DEF QueueType
  <1>5. CASE PassKeeps
    <2>1. pass.id \in Ids
      BY <1>5, UpdateAssumption DEF PassKeeps, UnderWay, TypeOK, Ids
    <2>2. task' \in [Ids -> {"no", "pending", "held"}]
      BY <1>0, <1>2, <1>5, <2>1 DEF PassKeeps, QueueType
    <2> QED
      BY <1>1, <1>5, <2>2 DEF PassKeeps
  <1>6. CASE PassCloses \/ BeatCloses \/ AnswerCloses
    BY <1>0, <1>6, ClosingQueue DEF PassCloses, BeatCloses, AnswerCloses
  <1>7. CASE PassFenced
    BY <1>0, <1>1, <1>7 DEF PassFenced, QueueType
  <1>8. ASSUME NEW a \in Ids, LeaseExpires(a) \/ HandleUpdate(a) PROVE QueueType'
    BY <1>0, <1>8 DEF LeaseExpires, HandleUpdate, QueueType
  <1>9. ASSUME UNCHANGED <<handed, hostLast>>,
               task' = task \/ task' = [task EXCEPT ![answer.id] = "no"]
        PROVE  QueueType'
    BY <1>0, <1>9 DEF QueueType
  <1>15. CASE AnswerReads \/ AnswerFails
    BY <1>9, <1>15 DEF AnswerReads, AnswerFails
  <1>10. CASE AnswerNoted
    <2>1. answer.id \in Ids
      BY <1>10, UpdateAssumption DEF AnswerNoted, UnderWay, TypeOK, Ids
    <2> QED
      BY <1>0, <1>10, <2>1 DEF AnswerNoted, QueueType
  <1>11. CASE ForgetHost
    BY <1>0, <1>11, NothingIsTyped DEF ForgetHost, QueueType
  <1>12. CASE ControllerRestarts
    BY <1>0, <1>12, NothingIsTyped DEF ControllerRestarts, QueueType
  <1>13. CASE UNCHANGED <<task, handed, hostLast>>
    BY <1>0, <1>13 DEF QueueType
  <1>14. ASSUME ~SendRequested, ~PassReads, ~PassKeeps, ~PassCloses, ~BeatCloses, ~PassFenced,
                \A a \in Ids : ~LeaseExpires(a) /\ ~HandleUpdate(a),
                ~AnswerReads, ~AnswerCloses, ~AnswerFails, ~AnswerNoted, ~ForgetHost,
                ~ControllerRestarts
         PROVE  UNCHANGED <<task, handed, hostLast>>
    BY <1>14
       DEF Next, memory, RequestHostUpdate, CreateUpdateAttempt, PassFails, BeatFenced, BeatJudges,
           BeatFails, AnswerLost, HelperTakes, HelperInstalls, HelperFinishes, HelperRefuses,
           Writes, AgentRestarts, DeleteHost, JoinHost, SwitchMode, FenceFalls, FenceLifts,
           TimePasses, GraceEnds
  <1> QED
    BY <1>3, <1>4, <1>5, <1>6, <1>7, <1>8, <1>10, <1>11, <1>12, <1>13, <1>14, <1>15

-----------------------------------------------------------------------------
(* What is under way, thread by thread: its type, that it names an attempt *)
(* that was asked for, and what it carries.                                *)

\* The latest attempt is a number, and only the insert moves it.
LEMMA LatestStep ==
  ASSUME TypeOK, Numbered, UnderWay, Next
  PROVE  /\ Latest \in 0..MaxAttempts /\ Latest' \in 0..MaxAttempts
         /\ Latest \in Nat /\ Latest' \in Nat /\ Latest <= Latest'
         /\ ~CreateUpdateAttempt => Latest' = Latest
  BY NumberedStep, RowMoves DEF Numbered, RowsStay, RowsEnd, RowsOpen

AskPart ==
  /\ asking \in [pc : {"idle", "allowed", "made"}, id : 0..MaxAttempts]
  /\ asking.id <= Latest
  /\ asking.pc = "allowed" => Latest < MaxAttempts
  /\ asking.pc = "made" => asking.id # 0

LEMMA AskStep ==
  ASSUME TypeOK, Numbered, Referred, UnderWay, Next
  PROVE  AskPart'
  <1>0. /\ AskPart
        /\ Latest \in 0..MaxAttempts /\ Latest' \in 0..MaxAttempts
        /\ Latest \in Nat /\ Latest' \in Nat /\ Latest <= Latest'
        /\ ~CreateUpdateAttempt => Latest' = Latest
    BY LatestStep DEF TypeOK, Referred, UnderWay, AskPart
  <1>1. ASSUME asking' = NoAsk PROVE AskPart'
    BY <1>0, <1>1, NothingIsTyped DEF AskPart, NoAsk
  <1>2. CASE RequestHostUpdate
    <2>1. asking' = [pc |-> "allowed", id |-> 0] /\ Latest < MaxAttempts /\ Latest' = Latest
      BY <1>2 DEF RequestHostUpdate, NoAsk, Latest, database
    <2> QED
      BY <1>0, <2>1, UpdateAssumption DEF AskPart
  <1>3. CASE CreateUpdateAttempt
    <2>1. CASE \E a \in Ids : Open(a)
      BY <1>1, <1>3, <2>1 DEF CreateUpdateAttempt
    <2>2. CASE ~\E a \in Ids : Open(a)
      <3>1. asking' = [pc |-> "made", id |-> Latest + 1] /\ Latest < MaxAttempts
        BY <1>3, <2>2 DEF CreateUpdateAttempt, UnderWay
      <3>2. Latest' = Latest + 1
        <4>1. attempts' = [attempts EXCEPT ![Latest + 1] = "requested"]
          BY <1>3, <2>2 DEF CreateUpdateAttempt
        <4>2. RowsOpen
          BY <2>2, <3>1, <4>1, OpeningRows DEF Rows, TypeOK
        <4> QED
          BY <4>2 DEF RowsOpen
      <3> QED
        BY <1>0, <3>1, <3>2, UpdateAssumption DEF AskPart
    <2> QED
      BY <2>1, <2>2
  <1>4. CASE SendRequested \/ ControllerRestarts
    BY <1>1, <1>4 DEF SendRequested, ControllerRestarts
  <1>5. CASE asking' = asking /\ ~CreateUpdateAttempt
    BY <1>0, <1>5 DEF AskPart
  <1>6. ASSUME ~RequestHostUpdate, ~CreateUpdateAttempt, ~SendRequested, ~ControllerRestarts
        PROVE  asking' = asking
    BY <1>6
       DEF Next, threads, PassReads, PassKeeps, PassCloses, PassFenced, PassFails, BeatFenced,
           BeatJudges, BeatCloses, BeatFails, LeaseExpires, HandleUpdate, AnswerLost, AnswerReads,
           AnswerCloses, AnswerFails, AnswerNoted, HelperTakes, HelperInstalls, HelperFinishes,
           HelperRefuses, Writes, AgentRestarts, DeleteHost, ForgetHost, JoinHost, SwitchMode,
           FenceFalls, FenceLifts, TimePasses, GraceEnds
  <1> QED
    BY <1>2, <1>3, <1>4, <1>5, <1>6

PassPart ==
  /\ pass \in [pc : {"idle", "keep", "close"}, id : 0..MaxAttempts,
               outcome : Ends \cup {"none"}, clean : BOOLEAN]
  /\ pass.id <= Latest
  /\ pass.pc # "idle" => pass.id # 0
  /\ pass.pc = "close" => pass.outcome \in {"cancelled", "succeeded", "timed_out"}

LEMMA PassStep ==
  ASSUME TypeOK, Numbered, Referred, UnderWay, Next
  PROVE  PassPart'
  <1>0. /\ PassPart
        /\ Latest \in 0..MaxAttempts /\ Latest' \in 0..MaxAttempts
        /\ Latest \in Nat /\ Latest' \in Nat /\ Latest <= Latest'
    BY LatestStep DEF TypeOK, Referred, UnderWay, PassPart
  <1>1. ASSUME pass' = NoPass PROVE PassPart'
    BY <1>0, <1>1, NothingIsTyped DEF PassPart, NoPass
  <1>2. ASSUME pass' = pass PROVE PassPart'
    <2>1. pass.id \in Nat
      BY <1>0, UpdateAssumption DEF PassPart
    <2> QED
      BY <1>0, <1>2, <2>1 DEF PassPart
  <1>3. CASE PassReads
    <2>1. CASE \E a \in Ids : Open(a) /\ \E outcome \in {HostAttemptOutcome(a)} :
                pass' = [pc |-> IF outcome = "none" THEN "keep" ELSE "close",
                         id |-> a, outcome |-> outcome, clean |-> TRUE]
      <3>1. PICK a \in Ids : Open(a) /\ \E outcome \in {HostAttemptOutcome(a)} :
                pass' = [pc |-> IF outcome = "none" THEN "keep" ELSE "close",
                         id |-> a, outcome |-> outcome, clean |-> TRUE]
        BY <2>1
      <3>2. PICK outcome \in {"cancelled", "succeeded", "timed_out", "none"} :
                pass' = [pc |-> IF outcome = "none" THEN "keep" ELSE "close",
                         id |-> a, outcome |-> outcome, clean |-> TRUE]
        BY <3>1, OutcomeOfPass
      <3>3. a = Latest /\ a # 0
        BY <3>1, UpdateAssumption DEF Open, Numbered, Ids
      <3> QED
        BY <1>0, <3>2, <3>3 DEF PassPart, Ends
    <2> QED
      BY <1>2, <1>3, <2>1 DEF PassReads
  <1>4. CASE PassKeeps \/ PassCloses \/ PassFails \/ ControllerRestarts
    BY <1>1, <1>4 DEF PassKeeps, PassCloses, PassFails, ControllerRestarts
  <1>5. CASE BeatFenced
    <2>1. PICK clean \in BOOLEAN : pass' = [pass EXCEPT !.clean = clean]
      <3>1. pass' = [pass EXCEPT !.clean = @ /\ (pass.pc = "close" => Report = NoResult)]
        BY <1>5 DEF BeatFenced
      <3>2. (pass.clean /\ (pass.pc = "close" => Report = NoResult)) \in BOOLEAN
        OBVIOUS
      <3> QED
        BY <3>1, <3>2, Zenon
    <2>2. pass.id \in Nat
      BY <1>0, UpdateAssumption DEF PassPart
    <2> QED
      BY <1>0, <2>1, <2>2 DEF PassPart
  <1>6. ASSUME ~PassReads, ~PassKeeps, ~PassCloses, ~PassFails, ~ControllerRestarts, ~BeatFenced
        PROVE  pass' = pass
    BY <1>6
       DEF Next, threads, RequestHostUpdate, CreateUpdateAttempt, SendRequested, PassFenced,
           BeatJudges, BeatCloses, BeatFails, LeaseExpires, HandleUpdate, AnswerLost, AnswerReads,
           AnswerCloses, AnswerFails, AnswerNoted, HelperTakes, HelperInstalls, HelperFinishes,
           HelperRefuses, Writes, AgentRestarts, DeleteHost, ForgetHost, JoinHost, SwitchMode,
           FenceFalls, FenceLifts, TimePasses, GraceEnds
  <1> QED
    BY <1>2, <1>3, <1>4, <1>5, <1>6

\* The attempt a beat is matched with was asked for, and an open one has a number.
LEMMA MatchedIsAsked ==
  ASSUME TypeOK, Numbered, Referred, UnderWay
  PROVE  /\ Report \in Results
         /\ Matched.id \in 0..MaxAttempts /\ Matched.id \in Nat /\ Matched.id <= Latest
         /\ Matched.open => Matched.id # 0
  <1>1. Report \in Results
    BY NothingIsTyped DEF Report, TypeOK
  <1>2. Latest \in 0..MaxAttempts /\ Latest \in Nat
    BY UpdateAssumption DEF Numbered
  <1>3. CASE Report = NoResult
    <2>1. Matched = hostLast
      BY <1>3 DEF Matched
    <2> QED
      BY <1>1, <2>1, UpdateAssumption DEF TypeOK, Referred, UnderWay
  <1>4. CASE Report # NoResult
    <2>1. Matched.id = Latest /\ Matched.open = Open(Latest)
      BY <1>4 DEF Matched
    <2>2. Open(Latest) => Latest # 0
      BY UpdateAssumption DEF Open, Ids
    <2> QED
      BY <1>1, <1>2, <2>1, <2>2
  <1> QED
    BY <1>3, <1>4

BeatPart ==
  /\ beat \in [id : 0..MaxAttempts, outcome : Ends \cup {"none"}, report : BOOLEAN,
               graced : BOOLEAN]
  /\ beat.id <= Latest
  /\ beat # NoBeat => beat.id # 0 /\ beat.outcome \in {"succeeded", "failed"}

\* Everything that replaces the result or the agent's process.
Replaced == beat' = [beat EXCEPT !.report = FALSE]

LEMMA BeatStep ==
  ASSUME TypeOK, Numbered, Referred, UnderWay, Next
  PROVE  BeatPart'
  <1>0. /\ BeatPart
        /\ Latest \in 0..MaxAttempts /\ Latest' \in 0..MaxAttempts
        /\ Latest \in Nat /\ Latest' \in Nat /\ Latest <= Latest'
        /\ beat.id \in Nat
    BY LatestStep, UpdateAssumption DEF TypeOK, Referred, UnderWay, BeatPart
  <1>1. ASSUME beat' = NoBeat PROVE BeatPart'
    BY <1>0, <1>1, NothingIsTyped DEF BeatPart, NoBeat
  <1>2. ASSUME beat' = beat PROVE BeatPart'
    BY <1>0, <1>2 DEF BeatPart
  <1>3. ASSUME Replaced PROVE BeatPart'
    <2>1. beat = NoBeat => beat' = NoBeat
      <3> SUFFICES ASSUME beat = NoBeat PROVE beat' = NoBeat
        OBVIOUS
      <3>1. beat' \in [id : 0..MaxAttempts, outcome : Ends \cup {"none"}, report : BOOLEAN,
                       graced : BOOLEAN]
        BY <1>0, <1>3 DEF BeatPart, Replaced
      <3>2. /\ beat'.id = NoBeat.id /\ beat'.outcome = NoBeat.outcome
            /\ beat'.report = NoBeat.report /\ beat'.graced = NoBeat.graced
        BY <1>3 DEF Replaced, NoBeat
      <3> QED
        BY <3>1, <3>2, NothingIsTyped
    <2>2. /\ beat' \in [id : 0..MaxAttempts, outcome : Ends \cup {"none"}, report : BOOLEAN,
                        graced : BOOLEAN]
          /\ beat'.id = beat.id /\ beat'.outcome = beat.outcome
      BY <1>0, <1>3 DEF BeatPart, Replaced
    <2> QED
      BY <1>0, <2>1, <2>2 DEF BeatPart
  <1>4. CASE BeatJudges
    <2> DEFINE outcome == HostReportOutcome(Matched.id, running, Report)
    <2>1. CASE Matched.open /\ outcome # "none"
      <3>0. Matched.id \in Nat /\ running \in BOOLEAN /\ Report \in Results
        BY MatchedIsAsked DEF TypeOK
      <3>1. outcome \in {"succeeded", "failed", "none"}
        BY <3>0, OutcomeOfBeat, Zenon
      <3>2. beat' = [id |-> Matched.id, outcome |-> outcome, report |-> Report # NoResult,
                     graced |-> grace = "due"]
        BY <1>4, <2>1 DEF BeatJudges
      <3>3. (Report # NoResult) \in BOOLEAN /\ (grace = "due") \in BOOLEAN
        OBVIOUS
      <3> HIDE DEF outcome
      <3> QED
        BY <1>0, <2>1, <3>1, <3>2, <3>3, MatchedIsAsked DEF BeatPart, Ends
    <2>2. CASE ~(Matched.open /\ outcome # "none")
      BY <1>2, <1>4, <2>2 DEF BeatJudges
    <2> QED
      BY <2>1, <2>2
  <1>5. CASE BeatCloses \/ BeatFails \/ ControllerRestarts
    BY <1>1, <1>5 DEF BeatCloses, BeatFails, ControllerRestarts
  <1>6. CASE HelperInstalls \/ HelperFinishes \/ HelperRefuses \/ AgentRestarts \/ JoinHost
    BY <1>3, <1>6
       DEF HelperInstalls, HelperFinishes, HelperRefuses, Writes, AgentRestarts, JoinHost,
           NewProcess, Replaced
  <1>7. ASSUME ~BeatJudges, ~BeatCloses, ~BeatFails, ~ControllerRestarts, ~HelperInstalls,
               ~HelperFinishes, ~HelperRefuses, ~AgentRestarts, ~JoinHost
        PROVE  beat' = beat
    BY <1>7
       DEF Next, threads, RequestHostUpdate, CreateUpdateAttempt, SendRequested, PassReads,
           PassKeeps, PassCloses, PassFenced, PassFails, BeatFenced, LeaseExpires, HandleUpdate,
           AnswerLost, AnswerReads, AnswerCloses, AnswerFails, AnswerNoted, HelperTakes,
           DeleteHost, ForgetHost, SwitchMode, FenceFalls, FenceLifts, TimePasses, GraceEnds
  <1> QED
    BY <1>2, <1>4, <1>5, <1>6, <1>7

AnswerPart ==
  /\ answer \in [id : 0..MaxAttempts, said : {"none", "ok", "failed", "not_started", "closing"},
                 known : BOOLEAN]
  /\ answer.id <= Latest
  /\ answer # NoAnswer => answer.id # 0

\* The answer's task has left the queue, or not.
Doubted == \E known \in BOOLEAN : answer' = [answer EXCEPT !.known = known]
                                  /\ (answer = NoAnswer => known = FALSE)

LEMMA ClosingAnswer ==
  ASSUME NEW a, Withdraws(a)
  PROVE  answer' = answer \/ Doubted
  <1>1. CASE Open(a)
    <2>1. answer' = [answer EXCEPT !.known = @ /\ answer.id # a]
      BY <1>1 DEF Withdraws, Finishes
    <2>2. (answer.known /\ answer.id # a) \in BOOLEAN
      OBVIOUS
    <2>3. answer = NoAnswer => (answer.known /\ answer.id # a) = FALSE
      BY DEF NoAnswer
    <2> QED
      BY <2>1, <2>2, <2>3, Zenon DEF Doubted
  <1>2. CASE ~Open(a)
    BY <1>2 DEF Withdraws, Finishes
  <1> QED
    BY <1>1, <1>2

LEMMA AnswerStep ==
  ASSUME TypeOK, Numbered, Referred, UnderWay, Next
  PROVE  AnswerPart'
  <1>0. /\ AnswerPart
        /\ Latest \in 0..MaxAttempts /\ Latest' \in 0..MaxAttempts
        /\ Latest \in Nat /\ Latest' \in Nat /\ Latest <= Latest'
        /\ answer.id \in Nat
    BY LatestStep, UpdateAssumption DEF TypeOK, Referred, UnderWay, AnswerPart
  <1>1. ASSUME answer' = NoAnswer PROVE AnswerPart'
    BY <1>0, <1>1, NothingIsTyped DEF AnswerPart, NoAnswer
  <1>2. ASSUME answer' = answer PROVE AnswerPart'
    BY <1>0, <1>2 DEF AnswerPart
  <1>3. ASSUME Doubted PROVE AnswerPart'
    <2>1. PICK known \in BOOLEAN : answer' = [answer EXCEPT !.known = known]
                                   /\ (answer = NoAnswer => known = FALSE)
      BY <1>3 DEF Doubted
    <2>2. answer = NoAnswer => answer' = NoAnswer
      <3> SUFFICES ASSUME answer = NoAnswer PROVE answer' = NoAnswer
        OBVIOUS
      <3>1. answer' \in [id : 0..MaxAttempts, said : {"none", "ok", "failed",
                                                      "not_started", "closing"},
                         known : BOOLEAN]
        BY <1>0, <2>1 DEF AnswerPart
      <3>2. /\ answer'.id = NoAnswer.id /\ answer'.said = NoAnswer.said
            /\ answer'.known = NoAnswer.known
        BY <2>1 DEF NoAnswer
      <3> QED
        BY <3>1, <3>2, NothingIsTyped
    <2>3. /\ answer' \in [id : 0..MaxAttempts, said : {"none", "ok", "failed",
                                                       "not_started", "closing"},
                          known : BOOLEAN]
          /\ answer'.id = answer.id
      BY <1>0, <2>1 DEF AnswerPart
    <2> QED
      BY <1>0, <2>2, <2>3 DEF AnswerPart
  <1>4. CASE PassCloses \/ BeatCloses
    BY <1>0, <1>2, <1>3, <1>4, ClosingAnswer DEF PassCloses, BeatCloses
  <1>5. ASSUME NEW a \in Ids, HandleUpdate(a) PROVE AnswerPart'
    <2>1. PICK said \in {"ok", "failed", "not_started"} :
               answer' = [id |-> a, said |-> said, known |-> TRUE]
      BY <1>5 DEF HandleUpdate
    <2>2. task[a] # "no" /\ a <= Latest /\ a \in 0..MaxAttempts /\ a \in Nat /\ a # 0
      BY <1>5, UpdateAssumption DEF HandleUpdate, Referred, Ids
    <2> QED
      BY <1>0, <2>1, <2>2 DEF AnswerPart
  <1>6. CASE AnswerLost \/ AnswerCloses \/ AnswerFails \/ AnswerNoted \/ ControllerRestarts
    BY <1>1, <1>6 DEF AnswerLost, AnswerCloses, AnswerFails, AnswerNoted, ControllerRestarts
  <1>9. CASE AnswerReads
    <2>1. answer' = [id |-> Latest, said |-> "closing", known |-> FALSE]
      BY <1>9 DEF AnswerReads
    <2>2. Latest # 0
      BY <1>9, UpdateAssumption DEF AnswerReads, Open, Ids
    <2> QED
      BY <1>0, <2>1, <2>2 DEF AnswerPart
  <1>7. CASE ForgetHost
    <2>1. answer' = [answer EXCEPT !.known = FALSE]
      BY <1>7 DEF ForgetHost
    <2> QED
      BY <1>3, <2>1, Zenon DEF Doubted
  <1>8. ASSUME ~PassCloses, ~BeatCloses, \A a \in Ids : ~HandleUpdate(a), ~AnswerLost,
               ~AnswerReads, ~AnswerCloses, ~AnswerFails, ~AnswerNoted, ~ControllerRestarts,
               ~ForgetHost
        PROVE  answer' = answer
    BY <1>8
       DEF Next, threads, RequestHostUpdate, CreateUpdateAttempt, SendRequested, PassReads,
           PassKeeps, PassFenced, PassFails, BeatFenced, BeatJudges, BeatFails, LeaseExpires,
           HelperTakes, HelperInstalls, HelperFinishes, HelperRefuses, Writes, AgentRestarts,
           DeleteHost, JoinHost, SwitchMode, FenceFalls, FenceLifts, TimePasses, GraceEnds
  <1> QED
    BY <1>2, <1>4, <1>5, <1>6, <1>7, <1>8, <1>9

HostPart ==
  /\ written \subseteq Ids
  /\ request \in 0..MaxAttempts /\ helper \in 0..MaxAttempts /\ result \in Results
  /\ request <= Latest /\ helper <= Latest /\ result.id <= Latest /\ result.since <= Latest

\* The files on the host are for attempts that were asked for.
LEMMA HostStep ==
  ASSUME TypeOK, Numbered, Referred, UnderWay, Next
  PROVE  HostPart'
  <1>0. /\ HostPart
        /\ Latest \in 0..MaxAttempts /\ Latest' \in 0..MaxAttempts
        /\ Latest \in Nat /\ Latest' \in Nat /\ Latest <= Latest'
        /\ request \in Nat /\ helper \in Nat /\ result.id \in Nat /\ result.since \in Nat
    BY LatestStep, UpdateAssumption DEF TypeOK, Referred, HostPart, Results
  <1>1. ASSUME NEW a \in Ids, HandleUpdate(a) PROVE HostPart'
    <2>1. /\ \/ request' = a /\ written' = written \cup {a}
             \/ UNCHANGED <<request, written>>
          /\ UNCHANGED <<helper, result>>
      BY <1>1 DEF HandleUpdate
    <2>2. task[a] # "no" /\ a <= Latest /\ a \in 0..MaxAttempts /\ a \in Nat
      BY <1>1, UpdateAssumption DEF HandleUpdate, Referred, Ids
    <2>3. written' \subseteq Ids
      BY <1>0, <2>1 DEF HostPart
    <2>4. request' \in 0..MaxAttempts /\ request' <= Latest'
      BY <1>0, <2>1, <2>2 DEF HostPart
    <2> QED
      BY <1>0, <2>1, <2>3, <2>4 DEF HostPart
  <1>2. CASE HelperTakes
    <2>1. helper' = request /\ request' = 0 /\ UNCHANGED <<written, result>>
      BY <1>2 DEF HelperTakes
    <2> QED
      BY <1>0, <2>1, UpdateAssumption DEF HostPart
  <1>3. CASE HelperFinishes
    <2>1. /\ helper' = 0 /\ result' = [id |-> helper, since |-> 0]
          /\ UNCHANGED <<request, written>>
      BY <1>3 DEF HelperFinishes, Writes
    <2> QED
      BY <1>0, <2>1, UpdateAssumption DEF HostPart, Results
  <1>4. CASE HelperRefuses
    <2>1. /\ request' = 0 /\ result' = [id |-> 0, since |-> Latest]
          /\ UNCHANGED <<helper, written>>
      BY <1>4 DEF HelperRefuses, Writes
    <2> QED
      BY <1>0, <2>1, UpdateAssumption DEF HostPart, Results
  <1>5. ASSUME UNCHANGED <<request, helper, result>>, written' = written \/ written' = {}
        PROVE  HostPart'
    BY <1>0, <1>5 DEF HostPart
  <1>6. ASSUME \A a \in Ids : ~HandleUpdate(a), ~HelperTakes, ~HelperFinishes, ~HelperRefuses
        PROVE  UNCHANGED <<request, helper, result>> /\ (written' = written \/ written' = {})
    BY <1>6
       DEF Next, agent, RequestHostUpdate, CreateUpdateAttempt, SendRequested, PassReads,
           PassKeeps, PassCloses, PassFenced, PassFails, BeatFenced, BeatJudges, BeatCloses,
           BeatFails, BeatEnds, LeaseExpires, AnswerLost, AnswerReads, AnswerCloses, AnswerFails,
           AnswerNoted, HelperInstalls, NewProcess, AgentRestarts, DeleteHost, ForgetHost,
           JoinHost, SwitchMode, FenceFalls, FenceLifts, TimePasses, GraceEnds, ControllerRestarts
  <1> QED
    BY <1>1, <1>2, <1>3, <1>4, <1>5, <1>6

QueuePart ==
  /\ hostLast.id <= Latest
  /\ hostLast.open => hostLast.id # 0
  /\ \A a \in Ids : task[a] # "no" => a <= Latest

\* Tasks are queued for attempts that were asked for, and a look sees the latest.
LEMMA QueueReferredStep ==
  ASSUME TypeOK, Numbered, Referred, UnderWay, Next
  PROVE  QueuePart'
  <1>0. /\ QueuePart /\ QueueType /\ Numbered'
        /\ Latest \in 0..MaxAttempts /\ Latest' \in 0..MaxAttempts
        /\ Latest \in Nat /\ Latest' \in Nat /\ Latest <= Latest'
        /\ hostLast.id \in Nat
        /\ ~CreateUpdateAttempt => Latest' = Latest
        /\ \A a \in Ids : a \in Nat
    BY LatestStep, NumberedStep, UpdateAssumption
       DEF TypeOK, Referred, UnderWay, QueuePart, QueueType, Ids
  <1>1. /\ \A a \in Ids : task'[a] # "no" => a <= Latest'
    <2>1. ASSUME NEW b \in Ids, task'[b] # "no", task[b] = "no"
          PROVE  b <= Latest
      <3>1. CASE SendRequested
        <4>1. b = asking.id
          BY <1>0, <2>1, <3>1 DEF SendRequested, Send, QueueType
        <4> QED
          BY <4>1 DEF Referred
      <3>2. CASE PassKeeps
        <4>1. b = pass.id
          BY <1>0, <2>1, <3>2 DEF PassKeeps, Send, QueueType
        <4> QED
          BY <4>1 DEF Referred
      <3>3. CASE PassCloses \/ BeatCloses \/ AnswerCloses
        BY <1>0, <2>1, <3>3 DEF PassCloses, BeatCloses, AnswerCloses, CloseHostAttempt, QueueType
      <3>4. ASSUME NEW a \in Ids, LeaseExpires(a) \/ HandleUpdate(a) PROVE FALSE
        BY <1>0, <2>1, <3>4 DEF LeaseExpires, HandleUpdate, QueueType
      <3>5. CASE AnswerReads \/ AnswerFails \/ AnswerNoted
        BY <1>0, <2>1, <3>5 DEF AnswerReads, AnswerFails, AnswerNoted, QueueType
      <3>6. CASE ForgetHost \/ ControllerRestarts
        BY <2>1, <3>6 DEF ForgetHost, ControllerRestarts
      <3>7. ASSUME ~SendRequested, ~PassKeeps, ~PassCloses, ~BeatCloses,
                   \A a \in Ids : ~LeaseExpires(a) /\ ~HandleUpdate(a),
                   ~AnswerReads, ~AnswerCloses, ~AnswerFails, ~AnswerNoted, ~ForgetHost,
                   ~ControllerRestarts
            PROVE  task' = task
        BY <3>7
           DEF Next, memory, RequestHostUpdate, CreateUpdateAttempt, PassReads, PassFenced,
               PassFails, BeatFenced, BeatJudges, BeatFails, AnswerLost, HelperTakes,
               HelperInstalls, HelperFinishes, HelperRefuses, Writes, AgentRestarts, DeleteHost,
               JoinHost, SwitchMode, FenceFalls, FenceLifts, TimePasses, GraceEnds
      <3> QED
        BY <2>1, <3>1, <3>2, <3>3, <3>4, <3>5, <3>6, <3>7
    <2> QED
      BY <1>0, <2>1 DEF QueuePart
  <1>2. hostLast'.id <= Latest' /\ (hostLast'.open => hostLast'.id # 0)
    <2>1. ASSUME hostLast' = hostLast \/ hostLast' = Nothing \/ Looked(Latest) \/ Looked(Latest')
          PROVE  hostLast'.id <= Latest' /\ (hostLast'.open => hostLast'.id # 0)
      BY <1>0, <2>1 DEF QueuePart, Looked, Nothing
    <2>2. CASE SendRequested \/ PassReads \/ PassKeeps \/ PassFenced
      <3>1. Picture(attempts) \/ hostLast' = hostLast
        BY <2>2 DEF SendRequested, PassReads, PassKeeps, PassFenced
      <3> QED
        BY <2>1, <3>1, PictureTaken
    <2>3. CASE PassCloses \/ BeatCloses \/ AnswerCloses
      <3>1. Picture(attempts') \/ hostLast' = hostLast
        BY <2>3 DEF PassCloses, BeatCloses, AnswerCloses, CloseHostAttempt
      <3> QED
        BY <1>0, <2>1, <3>1, PictureAfter
    <2>4. CASE ForgetHost \/ ControllerRestarts
      BY <2>1, <2>4 DEF ForgetHost, ControllerRestarts
    <2>5. ASSUME ~SendRequested, ~PassReads, ~PassKeeps, ~PassFenced, ~PassCloses, ~BeatCloses,
                 ~AnswerCloses, ~ForgetHost, ~ControllerRestarts
          PROVE  hostLast' = hostLast
      BY <2>5
         DEF Next, memory, RequestHostUpdate, CreateUpdateAttempt, PassFails, BeatFenced,
             BeatJudges, BeatFails, LeaseExpires, HandleUpdate, AnswerLost, AnswerReads,
             AnswerFails, AnswerNoted, HelperTakes, HelperInstalls, HelperFinishes, HelperRefuses,
             Writes, AgentRestarts, DeleteHost, JoinHost, SwitchMode, FenceFalls, FenceLifts,
             TimePasses, GraceEnds
    <2> QED
      BY <2>1, <2>2, <2>3, <2>4, <2>5
  <1> QED
    BY <1>1, <1>2 DEF QueuePart

\* The grace and the count of events.
LEMMA GraceStep ==
  ASSUME TypeOK, Next
  PROVE  grace' \in {"none", "due", "beaten"} /\ events' \in 0..MaxEvents
  <1>1. grace' \in {"none", "due", "beaten"}
    BY DEF TypeOK, Next, memory, RequestHostUpdate, CreateUpdateAttempt, SendRequested, PassReads,
           PassKeeps, PassCloses, PassFenced, PassFails, Grace, BeatFenced, BeatJudges,
           BeatCloses, BeatFails, BeatEnds, LeaseExpires, HandleUpdate, AnswerLost, AnswerReads,
           AnswerCloses, AnswerFails, AnswerNoted, HelperTakes, HelperInstalls, HelperFinishes,
           HelperRefuses, Writes, AgentRestarts, DeleteHost, ForgetHost, JoinHost, SwitchMode,
           FenceFalls, FenceLifts, TimePasses, GraceEnds, ControllerRestarts
  <1>2. events' = events \/ Spend
    BY DEF Next, RequestHostUpdate, CreateUpdateAttempt, SendRequested, PassReads,
           PassKeeps, PassCloses, PassFenced, PassFails, BeatFenced, BeatJudges,
           BeatCloses, BeatFails, LeaseExpires, HandleUpdate, AnswerLost, AnswerReads,
           AnswerCloses, AnswerFails, AnswerNoted, HelperTakes, HelperInstalls, HelperFinishes,
           HelperRefuses, Writes, AgentRestarts, DeleteHost, ForgetHost, JoinHost, SwitchMode,
           FenceFalls, FenceLifts, TimePasses, GraceEnds, ControllerRestarts
  <1>3. events' \in 0..MaxEvents
    BY <1>2, UpdateAssumption DEF TypeOK, Spend
  <1> QED
    BY <1>1, <1>3

\* Types, and what is under way, after any step.
LEMMA PartsStep ==
  ASSUME TypeOK, Numbered, Referred, UnderWay, Next
  PROVE  TypeOK' /\ Numbered' /\ Referred' /\ UnderWay'
  <1>1. Flags'
    BY FlagStep DEF TypeOK, Flags
  <1>2. /\ QueueType' /\ AskPart' /\ PassPart' /\ BeatPart' /\ AnswerPart' /\ HostPart'
        /\ QueuePart'
        /\ grace' \in {"none", "due", "beaten"} /\ events' \in 0..MaxEvents
        /\ Numbered' /\ attempts' \in [Ids -> Ends \cup {"none", "requested"}]
    BY QueueStep, AskStep, PassStep, BeatStep, AnswerStep, HostStep, QueueReferredStep,
       GraceStep, NumberedStep
  <1>3. TypeOK'
    BY <1>1, <1>2
       DEF TypeOK, Flags, QueueType, AskPart, PassPart, BeatPart, AnswerPart, HostPart
  <1>4. Referred' /\ UnderWay'
    BY <1>2 DEF Referred, UnderWay, AskPart, PassPart, BeatPart, AnswerPart, HostPart, QueuePart
  <1> QED
    BY <1>2, <1>3, <1>4

-----------------------------------------------------------------------------
(* What is asked of the open attempt: its failures, its report and the     *)
(* fence.                                                                  *)

\* Nothing is asked of an attempt that has ended.
LEMMA AfterEnding ==
  ASSUME RowsEnd
  PROVE  Caused' /\ Delivered' /\ Held'
  <1>1. \A a \in Ids : attempts'[a] # "requested"
    BY DEF RowsEnd
  <1>2. caused' = FALSE /\ unnamed' = FALSE /\ heldBack' = FALSE
    BY DEF RowsEnd, Settled
  <1> QED
    BY <1>1, <1>2 DEF Caused, Delivered, Held, Open

\* What anyone holds is about older attempts than the one that is opened.
LEMMA AfterOpening ==
  ASSUME TypeOK, Numbered, Referred, Caused, Held, RowsOpen, CreateUpdateAttempt
  PROVE  Caused' /\ Delivered' /\ Held'
  <1>1. /\ Latest \in Nat /\ Latest' = Latest + 1
        /\ UNCHANGED <<answer, beat, result, caused, unnamed, heldBack>>
    BY UpdateAssumption
       DEF Numbered, RowsOpen, CreateUpdateAttempt, history, agent
  <1>2. ~caused /\ ~unnamed /\ ~heldBack
    BY DEF Caused, Held, Open, RowsOpen
  <1>3. ~Answers'
    BY <1>1 DEF Answers, Referred, TypeOK, Results
  <1>4. ASSUME NEW i \in 0..MaxAttempts, i <= Latest, i \in Ids PROVE attempts'[i] # "requested"
    <2>1. i # Latest + 1
      BY <1>1, <1>4, UpdateAssumption
    <2> QED
      BY <1>4, <2>1 DEF RowsOpen, TypeOK
  <1>5. ~Open(answer.id)' /\ ~Open(beat.id)'
    BY <1>1, <1>4 DEF Open, Referred, TypeOK
  <1> QED
    BY <1>1, <1>2, <1>3, <1>5 DEF Caused, Delivered, Held

\* How the answer and the beat move in a step that judges nothing.
AnswerMoves == answer' = answer \/ answer' = NoAnswer \/ Doubted
BeatMoves == beat' = beat \/ beat' = NoBeat \/ Replaced

LEMMA MovesKeep ==
  ASSUME TypeOK
  PROVE  /\ AnswerMoves => /\ answer'.said = answer.said \/ answer'.said = "none"
                           /\ answer'.said # "none" => answer'.id = answer.id
         /\ BeatMoves => /\ beat'.outcome = beat.outcome \/ beat' = NoBeat
                         /\ beat'.outcome # "none" => beat'.id = beat.id
                         /\ beat' # NoBeat => beat'.id = beat.id /\ beat # NoBeat
                         /\ beat'.report => beat'.id = beat.id /\ beat.report
  <1>1. ASSUME AnswerMoves
        PROVE  /\ answer'.said = answer.said \/ answer'.said = "none"
               /\ answer'.said # "none" => answer'.id = answer.id
    <2>1. CASE Doubted
      <3>1. PICK known \in BOOLEAN : answer' = [answer EXCEPT !.known = known]
        BY <2>1 DEF Doubted
      <3> QED
        BY <3>1 DEF TypeOK
    <2> QED
      BY <1>1, <2>1 DEF AnswerMoves, NoAnswer
  <1>2. ASSUME BeatMoves
        PROVE  /\ beat'.outcome = beat.outcome \/ beat' = NoBeat
               /\ beat'.outcome # "none" => beat'.id = beat.id
               /\ beat' # NoBeat => beat'.id = beat.id /\ beat # NoBeat
               /\ beat'.report => beat'.id = beat.id /\ beat.report
    <2>1. CASE Replaced
      <3>1. /\ beat'.id = beat.id /\ beat'.outcome = beat.outcome /\ beat'.report = FALSE
            /\ beat'.graced = beat.graced
            /\ beat' \in [id : 0..MaxAttempts, outcome : Ends \cup {"none"}, report : BOOLEAN,
                          graced : BOOLEAN]
        BY <2>1 DEF Replaced, TypeOK
      <3>2. beat = NoBeat => beat' = NoBeat
        <4> SUFFICES ASSUME beat = NoBeat PROVE beat' = NoBeat
          OBVIOUS
        <4>1. /\ beat'.id = NoBeat.id /\ beat'.outcome = NoBeat.outcome
              /\ beat'.report = NoBeat.report /\ beat'.graced = NoBeat.graced
          BY <3>1 DEF NoBeat
        <4> QED
          BY <3>1, <4>1, NothingIsTyped
      <3> QED
        BY <3>1, <3>2
    <2>2. CASE beat' = NoBeat
      BY <2>2 DEF NoBeat
    <2>3. CASE beat' = beat
      BY <2>3 DEF NoBeat
    <2> QED
      BY <1>2, <2>1, <2>2, <2>3 DEF BeatMoves
  <1> QED
    BY <1>1, <1>2

\* A step that leaves the rows, the result and the history alone.
LEMMA CausedKept ==
  ASSUME TypeOK, Caused, RowsStay, AnswerMoves, BeatMoves,
         UNCHANGED <<caused, unnamed, result>>
  PROVE  Caused'
  <1>1. /\ attempts' = attempts /\ Latest' = Latest
        /\ caused' = caused /\ unnamed' = unnamed /\ result' = result
    BY DEF RowsStay
  <1>2. caused' \/ unnamed' => Open(Latest)'
    BY <1>1 DEF Caused, Open
  <1>3. answer'.said \in {"failed", "closing"} /\ Open(answer.id)' => caused'
    BY <1>1, MovesKeep DEF Caused, Open
  <1>4. beat'.outcome = "failed" /\ Open(beat.id)' => caused' \/ unnamed'
    BY <1>1, MovesKeep DEF Caused, Open, NoBeat
  <1>5. Open(Latest)' /\ Answers' => caused' \/ unnamed'
    BY <1>1 DEF Caused, Open, Answers
  <1> QED
    BY <1>2, <1>3, <1>4, <1>5 DEF Caused

LEMMA DeliveredKept ==
  ASSUME TypeOK, Delivered, RowsStay, BeatMoves, result' = result, delivered' => delivered
  PROVE  Delivered'
  BY MovesKeep DEF Delivered, RowsStay, Open, Answers

\* Who records a failure has it from the attempt.
LEMMA CausedStep ==
  ASSUME IInv, Next
  PROVE  Caused'
  <1>0. TypeOK /\ Numbered /\ Referred /\ UnderWay /\ Caused /\ Delivered /\ Held /\ Rows
    BY DEF IInv, Rows, TypeOK
  <1>1. CASE RowsEnd
    BY <1>1, AfterEnding
  <1>2. CASE DeleteHost
    BY <1>0, <1>1, <1>2, DeletingRows
  <1>7. CASE AnswerCloses
    <2>1. CASE RowsStay /\ UNCHANGED history
      BY <1>0, <1>7, <2>1, CausedKept
         DEF AnswerCloses, AnswerMoves, BeatMoves, agent, history
    <2> QED
      BY <1>0, <1>1, <1>7, <2>1, ClosingRows, CarriedEndings DEF AnswerCloses
  <1>3. CASE PassCloses
    <2>1. CASE RowsStay /\ UNCHANGED history
      BY <1>0, <1>3, <2>1, CausedKept, ClosingAnswer
         DEF PassCloses, AnswerMoves, BeatMoves, agent, history
    <2> QED
      BY <1>0, <1>1, <1>3, <2>1, ClosingRows, CarriedEndings DEF PassCloses
  <1>4. CASE BeatCloses
    <2>1. CASE RowsStay /\ UNCHANGED history
      BY <1>0, <1>4, <2>1, CausedKept, ClosingAnswer
         DEF BeatCloses, BeatEnds, AnswerMoves, BeatMoves, history
    <2> QED
      BY <1>0, <1>1, <1>4, <2>1, ClosingRows, CarriedEndings DEF BeatCloses
  <1>5. CASE CreateUpdateAttempt
    <2>1. CASE RowsStay
      BY <1>0, <1>5, <2>1, CausedKept
         DEF CreateUpdateAttempt, AnswerMoves, BeatMoves, agent, history
    <2> QED
      BY <1>0, <1>1, <1>5, <2>1, RowMoves, AfterOpening
  <1>6. CASE ~RowWriters
    <2>0. RowsStay /\ attempts' = attempts /\ Latest' = Latest /\ Latest \in Nat
      BY <1>0, <1>6, OthersLeaveRows, UpdateAssumption DEF RowsStay, Numbered
    <2>1. ASSUME NEW a \in Ids, HandleUpdate(a) PROVE Caused'
      <3>1. PICK said \in {"ok", "failed", "not_started"} :
              /\ answer' = [id |-> a, said |-> said, known |-> TRUE]
              /\ caused' = (caused \/ (said = "failed" /\ Open(a)))
        BY <2>1 DEF HandleUpdate
      <3>2. beat' = beat /\ result' = result /\ unnamed' = unnamed
        BY <2>1 DEF HandleUpdate
      <3>3. Open(a) => a = Latest
        BY <1>0 DEF Open, Numbered
      <3> QED
        BY <1>0, <2>0, <3>1, <3>2, <3>3 DEF Caused, Open, Answers
    <2>2. CASE BeatJudges
      <3>1. UNCHANGED <<answer, caused, unnamed, result>>
        BY <2>2 DEF BeatJudges, BeatEnds, agent, history
      <3>2. CASE beat' = beat
        BY <1>0, <2>0, <3>1, <3>2, CausedKept DEF AnswerMoves, BeatMoves
      <3>3. CASE beat' # beat
        <4>1. /\ beat'.id = Matched.id
              /\ beat'.outcome = HostReportOutcome(Matched.id, running, Report)
          <5> DEFINE outcome == HostReportOutcome(Matched.id, running, Report)
          <5>1. beat' = [id |-> Matched.id, outcome |-> outcome, report |-> Report # NoResult,
                         graced |-> grace = "due"]
            BY <2>2, <3>3 DEF BeatJudges
          <5> HIDE DEF outcome
          <5>2. beat'.id = Matched.id /\ beat'.outcome = outcome
            BY <5>1
          <5> QED
            BY <5>2 DEF outcome
        <4>2. beat'.outcome = "failed" /\ Open(beat.id)' => caused' \/ unnamed'
          <5> SUFFICES ASSUME beat'.outcome = "failed", Open(beat.id)' PROVE caused \/ unnamed
            BY <3>1
          <5>1. Matched.id \in Nat /\ Report \in Results /\ running \in BOOLEAN
            BY <1>0, MatchedIsAsked DEF TypeOK
          <5>2. HostReportOutcome(Matched.id, FALSE, Report) = "failed"
            BY <4>1, <5>1, OutcomeOfBeat, Zenon
          <5>3. /\ Report # NoResult
                /\ Report.id = Matched.id \/ (Report.id = 0 /\ Report.since >= Matched.id)
            BY <5>1, <5>2, OutcomeOfReport
          <5>4. Report = result /\ Matched.id = Latest
            BY <5>3 DEF Report, Matched
          <5>5. Answers /\ Open(Latest)
            BY <2>0, <4>1, <5>3, <5>4 DEF Answers, Open
          <5> QED
            BY <1>0, <5>5 DEF Caused
        <4> QED
          BY <1>0, <2>0, <3>1, <4>2 DEF Caused, Open, Answers
      <3> QED
        BY <3>2, <3>3
    <2>3. CASE HelperFinishes
      <3>1. /\ result' = [id |-> helper, since |-> 0] /\ helper # 0
            /\ caused' = (caused \/ Open(helper)) /\ unnamed' = unnamed /\ answer' = answer
            /\ Replaced
        BY <2>3 DEF HelperFinishes, Writes, Replaced
      <3>2. Open(helper) => helper = Latest
        BY <1>0 DEF Open, Numbered
      <3>3. Answers' => helper = Latest
        BY <2>0, <3>1 DEF Answers
      <3>4. beat'.outcome = beat.outcome /\ beat'.id = beat.id
        BY <1>0, <3>1 DEF Replaced, TypeOK
      <3> QED
        BY <1>0, <2>0, <3>1, <3>2, <3>3, <3>4 DEF Caused, Open
    <2>4. CASE HelperRefuses
      <3>1. /\ caused' = (caused \/ Open(request)) /\ unnamed' = (unnamed \/ Open(Latest))
            /\ answer' = answer /\ Replaced
        BY <2>4 DEF HelperRefuses, Writes, Replaced
      <3>2. beat'.outcome = beat.outcome /\ beat'.id = beat.id
        BY <1>0, <3>1 DEF Replaced, TypeOK
      <3>3. Open(request) => request = Latest
        BY <1>0 DEF Open, Numbered
      <3> QED
        BY <1>0, <2>0, <3>1, <3>2, <3>3 DEF Caused, Open
    <2>6. CASE AnswerReads
      <3>1. /\ answer.said = "failed" /\ answer.id = Latest /\ Open(Latest)
            /\ answer' = [id |-> Latest, said |-> "closing", known |-> FALSE]
            /\ UNCHANGED <<beat, result, caused, unnamed>>
        BY <2>6 DEF AnswerReads, Refused, AnswersLatest, agent, history
      <3> QED
        BY <1>0, <2>0, <3>1 DEF Caused, Open, Answers
    <2>5. ASSUME \A a \in Ids : ~HandleUpdate(a), ~BeatJudges, ~HelperFinishes, ~HelperRefuses,
                 ~AnswerReads
          PROVE  UNCHANGED <<caused, unnamed, result>> /\ AnswerMoves /\ BeatMoves
      <3>1. UNCHANGED <<caused, unnamed, result>>
        BY <1>6, <2>5
           DEF Next, RowWriters, history, agent, RequestHostUpdate, SendRequested, PassReads,
               PassKeeps, PassFenced, PassFails, BeatFenced, BeatFails, BeatEnds, LeaseExpires,
               AnswerLost, AnswerFails, AnswerNoted, HelperTakes, HelperInstalls, NewProcess,
               AgentRestarts, ForgetHost, JoinHost, SwitchMode, FenceFalls, FenceLifts,
               TimePasses, GraceEnds, ControllerRestarts
      <3>2. BeatMoves
        BY <1>6, <2>5
           DEF BeatMoves, Replaced, Next, RowWriters, threads, RequestHostUpdate, SendRequested,
               PassReads, PassKeeps, PassFenced, PassFails, BeatFenced, BeatFails, LeaseExpires,
               AnswerLost, AnswerFails, AnswerNoted, HelperTakes, HelperInstalls, NewProcess,
               AgentRestarts, ForgetHost, JoinHost, SwitchMode, FenceFalls, FenceLifts,
               TimePasses, GraceEnds, ControllerRestarts
      <3>3. AnswerMoves
        <4>1. CASE ForgetHost
          <5>1. answer' = [answer EXCEPT !.known = FALSE]
            BY <4>1 DEF ForgetHost
          <5> QED
            BY <5>1, Zenon DEF AnswerMoves, Doubted
        <4>2. CASE ~ForgetHost
          BY <1>6, <2>5, <4>2
             DEF AnswerMoves, Next, RowWriters, threads, RequestHostUpdate, SendRequested,
                 PassReads, PassKeeps, PassFenced, PassFails, BeatFenced, BeatFails,
                 LeaseExpires, AnswerLost, AnswerFails, AnswerNoted, HelperTakes, HelperInstalls,
                 NewProcess, AgentRestarts, JoinHost, SwitchMode, FenceFalls, FenceLifts,
                 TimePasses, GraceEnds, ControllerRestarts
        <4> QED
          BY <4>1, <4>2
      <3> QED
        BY <3>1, <3>2, <3>3
    <2> QED
      BY <1>0, <2>0, <2>1, <2>2, <2>3, <2>4, <2>5, <2>6, CausedKept
  <1> QED
    BY <1>2, <1>3, <1>4, <1>5, <1>6, <1>7 DEF RowWriters

\* A result counts as delivered only once it has been matched with the open attempt.
LEMMA DeliveredStep ==
  ASSUME IInv, Next
  PROVE  Delivered'
  <1>0. TypeOK /\ Numbered /\ Referred /\ UnderWay /\ Caused /\ Delivered /\ Held /\ Rows
    BY DEF IInv, Rows, TypeOK
  <1>1. CASE RowsEnd
    BY <1>1, AfterEnding
  <1>2. CASE DeleteHost
    BY <1>0, <1>1, <1>2, DeletingRows
  <1>7. CASE AnswerCloses
    <2>1. CASE RowsStay
      BY <1>0, <1>7, <2>1, DeliveredKept DEF AnswerCloses, BeatMoves, agent
    <2> QED
      BY <1>0, <1>1, <1>7, <2>1, ClosingRows, CarriedEndings DEF AnswerCloses
  <1>3. CASE PassCloses
    <2>1. CASE RowsStay
      BY <1>0, <1>3, <2>1, DeliveredKept DEF PassCloses, BeatMoves, agent
    <2> QED
      BY <1>0, <1>1, <1>3, <2>1, ClosingRows, CarriedEndings DEF PassCloses
  <1>4. CASE BeatCloses
    <2>1. CASE RowsStay /\ ~Open(beat.id)
      <3>1. /\ beat' = NoBeat /\ result' = result
            /\ delivered' => delivered \/ beat.report
        BY <1>4 DEF BeatCloses, BeatEnds
      <3>2. Open(Latest) /\ Answers => ~delivered /\ ~beat.report
        BY <1>0, <2>1 DEF Delivered
      <3>3. attempts' = attempts /\ Latest' = Latest
        BY <2>1 DEF RowsStay
      <3>4. ~beat'.report
        BY <3>1 DEF NoBeat
      <3> QED
        BY <3>1, <3>2, <3>3, <3>4 DEF Delivered, Open, Answers
    <2> QED
      BY <1>0, <1>1, <1>4, <2>1, ClosingRows, CarriedEndings DEF BeatCloses
  <1>5. CASE CreateUpdateAttempt
    <2>1. CASE RowsStay
      BY <1>0, <1>5, <2>1, DeliveredKept DEF CreateUpdateAttempt, BeatMoves, agent
    <2> QED
      BY <1>0, <1>1, <1>5, <2>1, RowMoves, AfterOpening
  <1>6. CASE ~RowWriters
    <2>0. RowsStay /\ attempts' = attempts /\ Latest' = Latest /\ Latest \in Nat
      BY <1>0, <1>6, OthersLeaveRows, UpdateAssumption DEF RowsStay, Numbered
    <2>1. CASE BeatJudges
      <3> DEFINE outcome == HostReportOutcome(Matched.id, running, Report)
      <3>1. CASE Matched.open /\ outcome # "none"
        <4>1. /\ beat' = [id |-> Matched.id, outcome |-> outcome, report |-> Report # NoResult,
                          graced |-> grace = "due"]
              /\ UNCHANGED <<result, delivered>>
          BY <2>1, <3>1 DEF BeatJudges, agent
        <4> HIDE DEF outcome
        <4>2. beat'.id = Matched.id /\ beat'.report = (Report # NoResult)
          BY <4>1
        <4>3. Report # NoResult => Matched.id = Latest
          BY DEF Matched
        <4> QED
          BY <1>0, <2>0, <4>1, <4>2, <4>3 DEF Delivered, Open, Answers
      <3>2. CASE ~(Matched.open /\ outcome # "none")
        <4>1. /\ beat' = beat /\ result' = result
              /\ delivered' => delivered \/ Report # NoResult
          BY <2>1, <3>2 DEF BeatJudges, BeatEnds
        <4>2. CASE Report = NoResult
          BY <1>0, <2>0, <4>1, <4>2, DeliveredKept DEF BeatMoves
        <4>3. CASE Report # NoResult
          <5>1. Report = result /\ Matched.id = Latest /\ Matched.open = Open(Latest)
            BY <4>3 DEF Report, Matched
          <5>2. running \in BOOLEAN /\ result \in Results
            BY <1>0 DEF TypeOK
          <5>3. Open(Latest) => ~Answers
            <6> SUFFICES ASSUME Open(Latest) PROVE ~Answers
              OBVIOUS
            <6>1. HostReportOutcome(Latest, running, result) = "none"
              BY <3>2, <5>1
            <6>2. HostReportOutcome(Latest, FALSE, result) = "none"
              BY <2>0, <5>2, <6>1, OutcomeOfBeat
            <6> QED
              BY <2>0, <5>2, <6>2, OutcomeOfReport DEF Answers
          <5> QED
            BY <2>0, <4>1, <5>3 DEF Delivered, Open, Answers
        <4> QED
          BY <4>2, <4>3
      <3> QED
        BY <3>1, <3>2
    <2>2. CASE HelperFinishes \/ HelperRefuses
      <3>1. ~delivered' /\ Replaced
        BY <2>2 DEF HelperFinishes, HelperRefuses, Writes, Replaced
      <3>2. ~beat'.report
        BY <1>0, <3>1 DEF Replaced, TypeOK
      <3> QED
        BY <3>1, <3>2 DEF Delivered
    <2>3. ASSUME ~BeatJudges, ~HelperFinishes, ~HelperRefuses
          PROVE  result' = result /\ (delivered' => delivered) /\ BeatMoves
      <3>1. result' = result /\ (delivered' => delivered)
        <4>1. CASE BeatFails
          <5>1. delivered' \in {delivered, delivered \/ FALSE} /\ result' = result
            BY <4>1, Zenon DEF BeatFails, BeatEnds
          <5> QED
            BY <5>1, Zenon
        <4>2. CASE ~BeatFails
          <5>1. result' = result /\ (delivered' = delivered \/ delivered' = FALSE)
            BY <1>6, <2>3, <4>2
               DEF Next, RowWriters, agent, RequestHostUpdate, SendRequested, PassReads,
                   PassKeeps, PassFenced, PassFails, BeatFenced, LeaseExpires, HandleUpdate,
                   AnswerLost, AnswerReads, AnswerFails, AnswerNoted, HelperTakes, HelperInstalls,
                   NewProcess, AgentRestarts, ForgetHost, JoinHost, SwitchMode, FenceFalls,
                   FenceLifts, TimePasses, GraceEnds, ControllerRestarts
          <5> QED
            BY <5>1
        <4> QED
          BY <4>1, <4>2
      <3>2. BeatMoves
        BY <1>6, <2>3
           DEF BeatMoves, Replaced, Next, RowWriters, threads, RequestHostUpdate, SendRequested,
               PassReads, PassKeeps, PassFenced, PassFails, BeatFenced, BeatFails, LeaseExpires,
               HandleUpdate, AnswerLost, AnswerReads, AnswerFails, AnswerNoted, HelperTakes,
               HelperInstalls, NewProcess, AgentRestarts, ForgetHost, JoinHost, SwitchMode,
               FenceFalls, FenceLifts, TimePasses, GraceEnds, ControllerRestarts
      <3> QED
        BY <3>1, <3>2
    <2> QED
      BY <1>0, <2>0, <2>1, <2>2, <2>3, DeliveredKept
  <1> QED
    BY <1>2, <1>3, <1>4, <1>5, <1>6, <1>7 DEF RowWriters

\* What keeps the memory of a held report.
LEMMA HeldKept ==
  ASSUME TypeOK, Held, RowsStay, BeatMoves, UNCHANGED <<heldBack, result>>,
         registered => registered', delivered' => delivered,
         fenceSeen \/ grace = "due" => fenceSeen' \/ grace' = "due",
         pass' = pass \/ pass' = NoPass
  PROVE  Held'
  <1>1. /\ attempts' = attempts /\ Latest' = Latest
        /\ heldBack' = heldBack /\ result' = result
    BY DEF RowsStay
  <1>2. heldBack' => /\ Open(Latest)' /\ registered' /\ ~delivered' /\ result' # NoResult
                     /\ fenceSeen' \/ grace' = "due"
    BY <1>1 DEF Held, Open
  <1>3. heldBack' => (beat' # NoBeat => beat'.id = Latest')
    BY <1>1, MovesKeep DEF Held
  <1>4. pass'.pc = "close" /\ pass'.outcome = "timed_out" /\ pass'.clean => ~heldBack'
    BY <1>1 DEF Held, NoPass
  <1> QED
    BY <1>2, <1>3, <1>4 DEF Held

LEMMA HeldStep ==
  ASSUME IInv, Next
  PROVE  Held'
  <1>0. TypeOK /\ Numbered /\ Referred /\ UnderWay /\ Caused /\ Delivered /\ Held /\ Rows
    BY DEF IInv, Rows, TypeOK
  <1>1. CASE RowsEnd
    BY <1>1, AfterEnding
  <1>2. CASE DeleteHost
    BY <1>0, <1>1, <1>2, DeletingRows
  <1>7. CASE AnswerCloses
    <2>1. CASE RowsStay /\ UNCHANGED history
      BY <1>0, <1>7, <2>1, HeldKept DEF AnswerCloses, BeatMoves, agent, history
    <2> QED
      BY <1>0, <1>1, <1>7, <2>1, ClosingRows, CarriedEndings DEF AnswerCloses
  <1>3. CASE PassCloses
    <2>1. CASE RowsStay /\ UNCHANGED history
      BY <1>0, <1>3, <2>1, HeldKept DEF PassCloses, BeatMoves, agent, history
    <2> QED
      BY <1>0, <1>1, <1>3, <2>1, ClosingRows, CarriedEndings DEF PassCloses
  <1>4. CASE BeatCloses
    <2>1. CASE RowsStay /\ ~Open(beat.id) /\ UNCHANGED history
      <3>1. ~heldBack
        BY <1>0, <1>4, <2>1 DEF Held, BeatCloses
      <3>2. ~heldBack'
        BY <2>1, <3>1 DEF history
      <3> QED
        BY <3>2 DEF Held
    <2> QED
      BY <1>0, <1>1, <1>4, <2>1, ClosingRows, CarriedEndings DEF BeatCloses
  <1>5. CASE CreateUpdateAttempt
    <2>1. CASE RowsStay
      BY <1>0, <1>5, <2>1, HeldKept DEF CreateUpdateAttempt, BeatMoves, agent, history, memory
    <2> QED
      BY <1>0, <1>1, <1>5, <2>1, RowMoves, AfterOpening
  <1>6. CASE ~RowWriters
    <2>0. RowsStay /\ attempts' = attempts /\ Latest' = Latest /\ Latest \in Nat
      BY <1>0, <1>6, OthersLeaveRows, UpdateAssumption DEF RowsStay, Numbered
    <2>1. CASE BeatFenced
      <3>1. /\ UNCHANGED <<registered, beat, grace>>
            /\ fenceSeen' = (fenceSeen \/ Report # NoResult)
            /\ heldBack' = (heldBack \/ (Open(Latest)
                              /\ HostReportOutcome(Latest, FALSE, Report) = "failed"))
            /\ pass' = [pass EXCEPT !.clean = @ /\ (pass.pc = "close" => Report = NoResult)]
            /\ UNCHANGED <<delivered, result>>
            /\ registered /\ beat = NoBeat
        BY <2>1 DEF BeatFenced, agent
      <3>2. pass'.pc = pass.pc /\ pass'.outcome = pass.outcome
            /\ (pass'.clean => pass.clean /\ (pass.pc = "close" => Report = NoResult))
        BY <1>0, <3>1 DEF TypeOK
      <3>3. Report \in Results
        BY <1>0, MatchedIsAsked
      <3>4. HostReportOutcome(Latest, FALSE, Report) = "failed" => Report # NoResult
        BY <2>0, <3>3, OutcomeOfReport
      <3>5. Report # NoResult => ~delivered /\ result # NoResult
        BY DEF Report
      <3>6. CASE heldBack
        BY <1>0, <2>0, <3>1, <3>2, <3>6 DEF Held, Open
      <3>7. CASE ~heldBack /\ heldBack'
        BY <1>0, <2>0, <3>1, <3>2, <3>4, <3>5, <3>7 DEF Held, Open
      <3>8. CASE ~heldBack'
        BY <3>8 DEF Held
      <3> QED
        BY <3>6, <3>7, <3>8
    <2>2. CASE BeatJudges
      <3> DEFINE outcome == HostReportOutcome(Matched.id, running, Report)
      <3>1. CASE Matched.open /\ outcome # "none"
        <4>1. /\ beat' = [id |-> Matched.id, outcome |-> outcome, report |-> Report # NoResult,
                          graced |-> grace = "due"]
              /\ UNCHANGED <<registered, delivered, result, fenceSeen, grace, heldBack, pass>>
          BY <2>2, <3>1 DEF BeatJudges, agent, history
        <4> HIDE DEF outcome
        <4>2. beat'.id = Matched.id
          BY <4>1
        <4>3. heldBack => Matched.id = Latest
          BY <1>0 DEF Held, Matched, Report
        <4> QED
          BY <1>0, <2>0, <4>1, <4>2, <4>3 DEF Held, Open
      <3>2. CASE ~(Matched.open /\ outcome # "none")
        BY <2>2, <3>2 DEF BeatJudges, Held
      <3> QED
        BY <3>1, <3>2
    <2>3. CASE BeatFails \/ ControllerRestarts
      BY <2>3 DEF BeatFails, ControllerRestarts, Held
    <2>4. CASE PassReads
      <3>1. /\ UNCHANGED <<registered, beat, delivered, result, heldBack>>
            /\ fenceSeen' = FALSE /\ grace' = Grace
        BY <2>4 DEF PassReads, database, agent, history
      <3>2. heldBack => fenceSeen \/ grace = "due"
        BY <1>0 DEF Held
      <3>3. CASE pass' = pass
        BY <1>0, <2>0, <3>1, <3>3, HeldKept DEF BeatMoves, Grace
      <3>4. CASE pass' # pass
        <4>1. PICK a \in Ids : \E o \in {HostAttemptOutcome(a)} :
                 pass' = [pc |-> IF o = "none" THEN "keep" ELSE "close",
                          id |-> a, outcome |-> o, clean |-> TRUE]
          BY <2>4, <3>4 DEF PassReads
        <4>2. pass'.outcome = "timed_out" => ~fenceSeen /\ grace = "none"
          <5>1. pass'.outcome = HostAttemptOutcome(a)
            BY <4>1
          <5>2. HostAttemptOutcome(a) = "timed_out" => ~fenceSeen /\ grace = "none"
            BY OutcomeOfPass
          <5> QED
            BY <5>1, <5>2
        <4>3. pass'.outcome = "timed_out" => ~heldBack
          BY <3>2, <4>2
        <4> QED
          BY <1>0, <2>0, <3>1, <4>3 DEF Held, Open, Grace
      <3> QED
        BY <3>3, <3>4
    <2>5. CASE PassFails
      <3>1. /\ UNCHANGED <<registered, beat, delivered, result, heldBack>>
            /\ pass' = NoPass
            /\ fenceSeen \/ grace = "due" => fenceSeen' \/ grace' = "due"
        BY <2>5 DEF PassFails, database, agent, history, Grace
      <3> QED
        BY <1>0, <2>0, <3>1, HeldKept DEF BeatMoves
    <2>6. CASE GraceEnds
      <3>1. /\ UNCHANGED <<registered, beat, delivered, result, heldBack, pass, fenceSeen>>
            /\ grace = "beaten" \/ (grace = "due" /\ ~registered)
        BY <2>6 DEF GraceEnds, database, agent, history, threads
      <3>2. heldBack => fenceSeen
        BY <1>0, <3>1 DEF Held
      <3> QED
        BY <1>0, <2>0, <3>1, <3>2 DEF Held, Open
    <2>7. CASE HelperFinishes \/ HelperRefuses
      <3>1. /\ UNCHANGED <<registered, heldBack, pass, fenceSeen, grace>>
            /\ ~delivered' /\ Replaced
        BY <2>7 DEF HelperFinishes, HelperRefuses, Writes, Replaced, database, memory
      <3>2. heldBack => result' # NoResult
        <4>1. HelperFinishes => result'.id # 0
          BY DEF HelperFinishes, Writes
        <4>2. HelperRefuses => result'.since = Latest
          BY DEF HelperRefuses, Writes
        <4>3. heldBack => Latest # 0
          BY <1>0, UpdateAssumption DEF Held, Open, Ids
        <4> QED
          BY <2>7, <4>1, <4>2, <4>3 DEF NoResult
      <3>3. beat' # NoBeat => beat # NoBeat /\ beat'.id = beat.id
        BY <1>0, <3>1, MovesKeep DEF BeatMoves
      <3> QED
        BY <1>0, <2>0, <3>1, <3>2, <3>3 DEF Held, Open
    <2>8. ASSUME ~BeatFenced, ~BeatJudges, ~BeatFails, ~ControllerRestarts, ~PassReads,
                 ~PassFails, ~GraceEnds, ~HelperFinishes, ~HelperRefuses
          PROVE  Held'
      <3>1. /\ UNCHANGED <<heldBack, result>>
            /\ registered' = registered \/ registered' = TRUE
            /\ delivered' = delivered \/ delivered' = FALSE
        BY <1>6, <2>8
           DEF Next, RowWriters, database, history, agent, RequestHostUpdate, SendRequested,
               PassKeeps, PassFenced, LeaseExpires, HandleUpdate, AnswerLost, AnswerReads,
               AnswerFails, AnswerNoted, HelperTakes, HelperInstalls, NewProcess, AgentRestarts,
               ForgetHost, JoinHost, SwitchMode, FenceFalls, FenceLifts, TimePasses
      <3>2. /\ grace' = grace /\ (fenceSeen' = fenceSeen \/ fenceSeen' = TRUE)
            /\ pass' = pass \/ pass' = NoPass
        BY <1>6, <2>8
           DEF Next, RowWriters, memory, threads, RequestHostUpdate, SendRequested,
               PassKeeps, PassFenced, LeaseExpires, HandleUpdate, AnswerLost, AnswerReads,
               AnswerFails, AnswerNoted, HelperTakes, HelperInstalls, NewProcess, AgentRestarts,
               ForgetHost, JoinHost, SwitchMode, FenceFalls, FenceLifts, TimePasses
      <3>3. BeatMoves
        BY <1>6, <2>8
           DEF BeatMoves, Replaced, Next, RowWriters, threads, RequestHostUpdate, SendRequested,
               PassKeeps, PassFenced, LeaseExpires, HandleUpdate, AnswerLost, AnswerReads,
               AnswerFails, AnswerNoted, HelperTakes, HelperInstalls, NewProcess, AgentRestarts,
               ForgetHost, JoinHost, SwitchMode, FenceFalls, FenceLifts, TimePasses
      <3> QED
        BY <1>0, <2>0, <3>1, <3>2, <3>3, HeldKept
    <2> QED
      BY <2>1, <2>2, <2>3, <2>4, <2>5, <2>6, <2>7, <2>8
  <1> QED
    BY <1>2, <1>3, <1>4, <1>5, <1>6, <1>7 DEF RowWriters

-----------------------------------------------------------------------------
LEMMA InitInductive == Init => IInv
  <1> SUFFICES ASSUME Init PROVE IInv
    OBVIOUS
  <1>1. Latest = 0
    <2>1. \A a \in Ids : attempts[a] # "none" <=> a <= 0
      BY UpdateAssumption DEF Init, Ids
    <2>2. 0 \in 0..MaxAttempts
      BY UpdateAssumption
    <2> QED
      BY <2>1, <2>2, CountOfNumbered DEF Latest
  <1>2. TypeOK
    <2>1. Flags
      BY Zenon DEF Init, Flags
    <2>2. QueueType
      BY NothingIsTyped DEF Init, QueueType
    <2>3. /\ attempts \in [Ids -> Ends \cup {"none", "requested"}]
          /\ grace \in {"none", "due", "beaten"} /\ written \subseteq Ids
          /\ request \in 0..MaxAttempts /\ helper \in 0..MaxAttempts
          /\ events \in 0..MaxEvents
      BY UpdateAssumption DEF Init
    <2>4. /\ asking \in [pc : {"idle", "allowed", "made"}, id : 0..MaxAttempts]
          /\ beat \in [id : 0..MaxAttempts, outcome : Ends \cup {"none"}, report : BOOLEAN,
                       graced : BOOLEAN]
          /\ answer \in [id : 0..MaxAttempts, said : {"none", "ok", "failed",
                                                      "not_started", "closing"},
                         known : BOOLEAN]
          /\ pass \in [pc : {"idle", "keep", "close"}, id : 0..MaxAttempts,
                       outcome : Ends \cup {"none"}, clean : BOOLEAN]
          /\ result \in Results
      BY NothingIsTyped DEF Init
    <2> QED
      BY <2>1, <2>2, <2>3, <2>4 DEF TypeOK, Flags, QueueType
  <1>3. Numbered
    BY <1>1, UpdateAssumption DEF Init, Numbered, Ids
  <1>4. Referred /\ UnderWay
    BY <1>1 DEF Init, Referred, UnderWay, NoAsk, NoBeat, NoAnswer, NoPass, NoResult, Nothing
  <1>5. \A a : ~Open(a)
    BY DEF Init, Open
  <1>6. ~caused /\ ~unnamed /\ ~heldBack
    BY DEF Init
  <1> QED
    BY <1>2, <1>3, <1>4, <1>5, <1>6 DEF IInv, Caused, Delivered, Held

LEMMA NextInductive == IInv /\ [Next]_vars => IInv'
  <1> SUFFICES ASSUME IInv, [Next]_vars PROVE IInv'
    OBVIOUS
  <1>1. CASE Next
    <2>1. TypeOK' /\ Numbered' /\ Referred' /\ UnderWay'
      BY <1>1, PartsStep DEF IInv
    <2> QED
      BY <1>1, <2>1, CausedStep, DeliveredStep, HeldStep DEF IInv
  <1>2. CASE UNCHANGED vars
    <2> USE DEF vars, database, memory, threads, agent, history
    <2>1. Latest' = Latest
      BY <1>2 DEF Latest
    <2>2. TypeOK' /\ Numbered' /\ Referred' /\ UnderWay'
      BY <1>2, <2>1 DEF IInv, TypeOK, Numbered, Referred, UnderWay
    <2>3. Caused' /\ Delivered' /\ Held'
      BY <1>2, <2>1 DEF IInv, Caused, Delivered, Held, Open, Answers
    <2> QED
      BY <2>2, <2>3 DEF IInv
  <1> QED
    BY <1>1, <1>2

\* The inductive invariant holds throughout.
THEOREM UpdateInvariant == Spec => []IInv
  BY InitInductive, NextInductive, PTL DEF Spec

\* Type correctness of the rows, of every thread on the controller and of the files
\* on the host; in particular every closer writes one of the four endings.
THEOREM UpdateTypes == Spec => []TypeOK
  <1>1. IInv => TypeOK
    BY DEF IInv
  <1> QED
    BY <1>1, UpdateInvariant, PTL

\* A result the agent will not send again answers no open attempt, whatever was
\* fenced, failed, replaced or restarted on the way (noteHostUpdate, Agent.heartbeat).
THEOREM NoResultLost == Spec => []DeliveredMeansRecorded
  <1>1. IInv => DeliveredMeansRecorded
    <2> SUFFICES ASSUME IInv, delivered, Open(Latest)
                 PROVE  HostReportOutcome(Latest, FALSE, result) = "none"
      BY DEF DeliveredMeansRecorded
    <2>1. Latest \in Nat /\ result \in Results /\ ~Answers
      BY UpdateAssumption DEF IInv, TypeOK, Numbered, Delivered
    <2> QED
      BY <2>1, OutcomeOfReport DEF Answers
  <1> QED
    BY <1>1, UpdateInvariant, PTL

\* An ending is never rewritten: of the answer, the report, the time-out and the
\* deletion, the first to end an attempt has the last word (FinishUpdateAttempt).
THEOREM EndingsStand == Spec => FirstEndingStands
  <1>1. IInv /\ [Next]_vars
        => [attempts' # attempts =>
              \A a \in Ids : attempts[a] \in Ends => attempts'[a] = attempts[a]]_vars
    <2> SUFFICES ASSUME IInv, Next, NEW a \in Ids, attempts[a] \in Ends
                 PROVE  attempts'[a] = attempts[a]
      OBVIOUS
    <2>1. attempts[a] # "requested" /\ attempts[a] # "none"
      BY DEF Ends
    <2>2. RowsStay \/ RowsEnd \/ RowsOpen
      BY RowMoves DEF IInv
    <2> QED
      BY <2>1, <2>2 DEF RowsStay, RowsEnd, RowsOpen, IInv, TypeOK
  <1> QED
    BY <1>1, UpdateInvariant, PTL DEF Spec, FirstEndingStands

\* The closers that can end an attempt as failed, or by the clock.
LEMMA WhoEnds ==
  ASSUME IInv, Next, NEW a \in Ids, Open(a), attempts'[a] # "requested"
  PROVE  \/ PassCloses /\ pass.id = a /\ attempts'[a] = pass.outcome
         \/ BeatCloses /\ beat.id = a /\ attempts'[a] = beat.outcome
         \/ AnswerCloses /\ answer.id = a /\ attempts'[a] = "failed"
         \/ attempts'[a] = "cancelled"
  <1>0. /\ attempts \in [Ids -> Ends \cup {"none", "requested"}]
        /\ a = Latest /\ attempts[a] = "requested"
    BY DEF IInv, TypeOK, Numbered, Open
  <1>1. CASE PassCloses
    BY <1>0, <1>1 DEF PassCloses, CloseHostAttempt
  <1>2. CASE BeatCloses
    BY <1>0, <1>2 DEF BeatCloses, CloseHostAttempt
  <1>3. CASE AnswerCloses
    BY <1>0, <1>3 DEF AnswerCloses, CloseHostAttempt
  <1>4. CASE DeleteHost
    BY <1>4 DEF DeleteHost
  <1>5. CASE CreateUpdateAttempt
    BY <1>0, <1>5 DEF CreateUpdateAttempt
  <1>6. CASE ~RowWriters
    BY <1>0, <1>6, OthersLeaveRows DEF RowsStay
  <1> QED
    BY <1>1, <1>2, <1>3, <1>4, <1>5, <1>6 DEF RowWriters

\* An attempt is recorded as failed for a failure of its own task or request, or by a
\* beat for a refusal that names none and was finished while it was open: neither an
\* answer to an older attempt's task, nor a result that names an older one, nor a
\* refusal finished before it was asked for ends it (applyUpdateTaskResult,
\* hostReportOutcome).
THEOREM FailuresAreOwn == Spec => FailureIsItsOwn
  <1>1. IInv /\ [Next]_vars
        => [attempts' # attempts =>
              \A a \in Ids : Open(a) /\ attempts'[a] = "failed" =>
                caused \/ (unnamed /\ beat # NoBeat /\ beat' = NoBeat)]_vars
    <2> SUFFICES ASSUME IInv, Next, NEW a \in Ids, Open(a), attempts'[a] = "failed"
                 PROVE  caused \/ (unnamed /\ beat # NoBeat /\ beat' = NoBeat)
      OBVIOUS
    <2>1. ~(PassCloses /\ attempts'[a] = pass.outcome)
      BY DEF PassCloses, IInv, UnderWay
    <2>2. CASE BeatCloses /\ beat.id = a /\ attempts'[a] = beat.outcome
      <3>1. caused \/ unnamed
        BY <2>2 DEF IInv, Caused
      <3>2. beat # NoBeat /\ beat' = NoBeat
        BY <2>2 DEF BeatCloses
      <3> QED
        BY <3>1, <3>2
    <2>3. CASE AnswerCloses /\ answer.id = a
      BY <2>3 DEF AnswerCloses, IInv, Caused
    <2> QED
      BY <2>1, <2>2, <2>3, WhoEnds
  <1> QED
    BY <1>1, UpdateInvariant, PTL DEF Spec, FailureIsItsOwn

\* A pass that began after a fence held a report does not time the attempt out
\* before a beat has been answered (heldReportGrace).
THEOREM HeldReportsWaitedFor == Spec => HeldReportGetsABeat
  <1>1. IInv /\ [Next]_vars
        => [attempts' # attempts =>
              \A a \in Ids : Open(a) /\ attempts'[a] = "timed_out" /\ pass.clean => ~heldBack]_vars
    <2> SUFFICES ASSUME IInv, Next, NEW a \in Ids, Open(a), attempts'[a] = "timed_out",
                        pass.clean
                 PROVE  ~heldBack
      OBVIOUS
    <2>1. CASE PassCloses /\ attempts'[a] = pass.outcome
      BY <2>1 DEF PassCloses, IInv, Held
    <2>2. ~(BeatCloses /\ attempts'[a] = beat.outcome)
      BY DEF BeatCloses, IInv, UnderWay
    <2> QED
      BY <2>1, <2>2, WhoEnds
  <1> QED
    BY <1>1, UpdateInvariant, PTL DEF Spec, HeldReportGetsABeat

-----------------------------------------------------------------------------
(* The record implements the life of an attempt.  Beyond IInv this needs   *)
(* that success and time-out, too, are still true when they are written.   *)

\* Whoever is about to record a success has seen the release run on the host.
Installed ==
  /\ rowNew => running
  /\ pass.pc = "close" /\ pass.outcome = "succeeded" => running
  /\ beat.outcome = "succeeded" => running

\* The pass that is about to time an open attempt out found it out of time.
Overdue ==
  /\ overdue => Open(Latest)
  /\ pass.pc = "close" /\ pass.outcome = "timed_out" /\ Open(pass.id) => overdue

\* What the pass decides, it decides on the row and the clock.
LEMMA ReasonsOfPass ==
  ASSUME NEW a, TypeOK
  PROVE  /\ HostAttemptOutcome(a) = "succeeded" => rowNew
         /\ HostAttemptOutcome(a) = "timed_out" => overdue
  <1>1. registered \in BOOLEAN /\ rowNew \in BOOLEAN /\ overdue \in BOOLEAN
    BY DEF TypeOK
  <1> QED
    BY <1>1 DEF HostAttemptOutcome

\* How the pass moves: it stays, ends, is told of a held report, or reads the rows.
LEMMA PassMoves ==
  ASSUME TypeOK, Next
  PROVE  \/ pass'.pc = pass.pc /\ pass'.id = pass.id /\ pass'.outcome = pass.outcome
         \/ pass'.pc = "idle"
         \/ /\ rowNew' = rowNew /\ overdue' = overdue /\ attempts' = attempts
            /\ \E a \in Ids : /\ Open(a) /\ pass'.id = a
                              /\ pass'.outcome = HostAttemptOutcome(a)
  <1>1. CASE PassReads
    <2>1. UNCHANGED <<rowNew, overdue, attempts>>
      BY <1>1 DEF PassReads, database
    <2>2. CASE pass' # pass
      <3>1. PICK a \in Ids : Open(a) /\ \E o \in {HostAttemptOutcome(a)} :
               pass' = [pc |-> IF o = "none" THEN "keep" ELSE "close",
                        id |-> a, outcome |-> o, clean |-> TRUE]
        BY <1>1, <2>2 DEF PassReads
      <3>2. pass'.outcome = HostAttemptOutcome(a) /\ pass'.id = a
        BY <3>1
      <3> QED
        BY <2>1, <3>1, <3>2
    <2> QED
      BY <2>2
  <1>2. CASE PassKeeps \/ PassCloses \/ PassFails \/ ControllerRestarts
    BY <1>2 DEF PassKeeps, PassCloses, PassFails, ControllerRestarts, NoPass
  <1>3. CASE BeatFenced
    <2>1. pass' = [pass EXCEPT !.clean = @ /\ (pass.pc = "close" => Report = NoResult)]
      BY <1>3 DEF BeatFenced
    <2> QED
      BY <2>1 DEF TypeOK
  <1>4. ASSUME ~PassReads, ~PassKeeps, ~PassCloses, ~PassFails, ~ControllerRestarts, ~BeatFenced
        PROVE  pass' = pass
    BY <1>4
       DEF Next, threads, RequestHostUpdate, CreateUpdateAttempt, SendRequested, PassFenced,
           BeatJudges, BeatCloses, BeatFails, LeaseExpires, HandleUpdate, AnswerLost, AnswerReads,
           AnswerCloses, AnswerFails, AnswerNoted, HelperTakes, HelperInstalls, HelperFinishes,
           HelperRefuses, Writes, AgentRestarts, DeleteHost, ForgetHost, JoinHost, SwitchMode,
           FenceFalls, FenceLifts, TimePasses, GraceEnds
  <1> QED
    BY <1>1, <1>2, <1>3, <1>4

\* The host does not go back to an older release, and the row has what it runs.
LEMMA ReleaseStays ==
  ASSUME Next
  PROVE  /\ running' = running \/ (HelperInstalls /\ running' = TRUE)
         /\ rowNew' = rowNew \/ rowNew' = running
  <1>1. running' = running \/ (HelperInstalls /\ running' = TRUE)
    BY DEF Next, agent, RequestHostUpdate, CreateUpdateAttempt, SendRequested, PassReads,
           PassKeeps, PassCloses, PassFenced, PassFails, BeatFenced, BeatJudges, BeatCloses,
           BeatFails, BeatEnds, LeaseExpires, HandleUpdate, AnswerLost, AnswerReads, AnswerCloses,
           AnswerFails, AnswerNoted, HelperTakes, HelperInstalls, HelperFinishes, HelperRefuses,
           Writes, AgentRestarts, DeleteHost, ForgetHost, JoinHost, SwitchMode, FenceFalls,
           FenceLifts, TimePasses, GraceEnds, ControllerRestarts
  <1>2. rowNew' = rowNew \/ rowNew' = running
    BY DEF Next, database, RequestHostUpdate, CreateUpdateAttempt, SendRequested, PassReads,
           PassKeeps, PassCloses, PassFenced, PassFails, BeatFenced, BeatJudges, BeatCloses,
           BeatFails, LeaseExpires, HandleUpdate, AnswerLost, AnswerReads, AnswerCloses,
           AnswerFails, AnswerNoted, HelperTakes, HelperInstalls, HelperFinishes, HelperRefuses,
           Writes, AgentRestarts, DeleteHost, ForgetHost, JoinHost, SwitchMode, FenceFalls,
           FenceLifts, TimePasses, GraceEnds, ControllerRestarts
  <1> QED
    BY <1>1, <1>2

LEMMA InstalledStep ==
  ASSUME IInv, Installed, Next
  PROVE  Installed'
  <1>0. TypeOK
    BY DEF IInv
  <1>1. running => running'
    BY ReleaseStays
  <1>2. rowNew' => running'
    BY <1>1, ReleaseStays DEF Installed
  <1>3. pass'.pc = "close" /\ pass'.outcome = "succeeded" => running'
    BY <1>0, <1>1, PassMoves, ReasonsOfPass DEF Installed
  <1>4. beat'.outcome = "succeeded" => running'
    <2>1. CASE BeatJudges /\ beat' # beat
      <3> DEFINE outcome == HostReportOutcome(Matched.id, running, Report)
      <3>1. beat' = [id |-> Matched.id, outcome |-> outcome, report |-> Report # NoResult,
                     graced |-> grace = "due"]
        BY <2>1 DEF BeatJudges
      <3> HIDE DEF outcome
      <3>2. beat'.outcome = outcome
        BY <3>1
      <3>3. Matched.id \in Nat /\ Report \in Results /\ running \in BOOLEAN
        BY <1>0, MatchedIsAsked DEF TypeOK, IInv
      <3>4. ~running => outcome # "succeeded"
        BY <3>3, OutcomeOfBeat, OutcomeOfReport DEF outcome
      <3> QED
        BY <1>1, <3>2, <3>4
    <2>2. CASE ~(BeatJudges /\ beat' # beat)
      <3>1. BeatMoves
        BY <2>2
           DEF BeatMoves, Replaced, Next, threads, RequestHostUpdate, CreateUpdateAttempt,
               SendRequested, PassReads, PassKeeps, PassCloses, PassFenced, PassFails,
               BeatFenced, BeatCloses, BeatFails, LeaseExpires, HandleUpdate, AnswerLost,
               AnswerReads, AnswerCloses, AnswerFails, AnswerNoted, HelperTakes, HelperInstalls,
               NewProcess, HelperFinishes, HelperRefuses, Writes, AgentRestarts, DeleteHost,
               ForgetHost, JoinHost, SwitchMode, FenceFalls, FenceLifts, TimePasses, GraceEnds,
               ControllerRestarts
      <3> QED
        BY <1>0, <1>1, <3>1, MovesKeep DEF Installed, NoBeat
    <2> QED
      BY <2>1, <2>2
  <1> QED
    BY <1>2, <1>3, <1>4 DEF Installed

\* The clock of an open attempt runs out once, and is set back when it ends.
LEMMA ClockMoves ==
  ASSUME Next, RowsStay, IInv, Overdue
  PROVE  overdue' = overdue \/ (TimePasses /\ overdue' = TRUE)
  <1>1. CASE PassCloses \/ BeatCloses \/ AnswerCloses
    <2>1. ASSUME NEW a, NEW end \in Ends, CloseHostAttempt(a, end) PROVE overdue' = overdue
      <3>1. CASE Open(a)
        <4>1. attempts' = [attempts EXCEPT ![a] = end] /\ a \in Ids /\ attempts[a] = "requested"
          BY <2>1, <3>1 DEF CloseHostAttempt, Finishes, Open
        <4> QED
          BY <4>1 DEF RowsStay, IInv, TypeOK, Ends
      <3>2. CASE ~Open(a)
        BY <2>1, <3>2 DEF CloseHostAttempt, Finishes
      <3> QED
        BY <3>1, <3>2
    <2> QED
      BY <1>1, <2>1, CarriedEndings DEF PassCloses, BeatCloses, AnswerCloses, IInv
  <1>3. CASE DeleteHost
    <2>1. \A a \in Ids : ~Open(a)
      BY <1>3 DEF DeleteHost, RowsStay, Open
    <2>2. ~overdue /\ ~overdue' /\ overdue \in BOOLEAN /\ overdue' = FALSE
      BY <1>3, <2>1 DEF DeleteHost, Settled, Overdue, Open, IInv, TypeOK
    <2> QED
      BY <2>2
  <1>4. ASSUME ~PassCloses, ~BeatCloses, ~AnswerCloses, ~DeleteHost
        PROVE  overdue' = overdue \/ (TimePasses /\ overdue' = TRUE)
    BY <1>4
       DEF Next, database, RequestHostUpdate, CreateUpdateAttempt, SendRequested, PassReads,
           PassKeeps, PassFenced, PassFails, BeatFenced, BeatJudges, BeatFails, LeaseExpires,
           HandleUpdate, AnswerLost, AnswerReads, AnswerFails, AnswerNoted, HelperTakes,
           HelperInstalls, HelperFinishes, HelperRefuses, Writes, AgentRestarts, ForgetHost,
           JoinHost, SwitchMode, FenceFalls, FenceLifts, TimePasses, GraceEnds, ControllerRestarts
  <1> QED
    BY <1>1, <1>3, <1>4

LEMMA OverdueStep ==
  ASSUME IInv, Overdue, Next
  PROVE  Overdue'
  <1>0. TypeOK /\ Numbered /\ Referred /\ UnderWay
    BY DEF IInv
  <1>1. CASE RowsStay
    <2>1. \A a : Open(a)' <=> Open(a)
      BY <1>1 DEF RowsStay, Open
    <2>2. overdue => overdue'
      BY <1>1, ClockMoves
    <2>3. overdue' => Open(Latest)'
      BY <1>1, <2>1, ClockMoves DEF Overdue, TimePasses, RowsStay
    <2>4. pass'.pc = "close" /\ pass'.outcome = "timed_out" /\ Open(pass.id)' => overdue'
      BY <1>0, <2>1, <2>2, PassMoves, ReasonsOfPass DEF Overdue
    <2> QED
      BY <2>3, <2>4 DEF Overdue
  <1>2. CASE RowsEnd
    BY <1>2 DEF RowsEnd, Settled, Overdue, Open
  <1>3. CASE RowsOpen /\ CreateUpdateAttempt
    <2>1. UNCHANGED <<overdue, pass>> /\ ~overdue
      BY <1>3 DEF CreateUpdateAttempt, RowsOpen, Overdue, Open
    <2>2. Latest \in Nat /\ pass.id \in 0..MaxAttempts /\ pass.id <= Latest
      BY <1>0, UpdateAssumption DEF Numbered, Referred, TypeOK
    <2>3. ~Open(pass.id)'
      <3>1. pass.id # Latest + 1
        BY <2>2, UpdateAssumption
      <3> QED
        BY <1>0, <1>3, <2>1, <3>1 DEF RowsOpen, Open, TypeOK
    <2> QED
      BY <2>1, <2>3 DEF Overdue
  <1> QED
    BY <1>0, <1>1, <1>2, <1>3, RowMoves

\* A success or a time-out that is about to be recorded is true, and stays true until
\* it is written: the look at the row and the write are steps apart.
THEOREM ReasonsInvariant == Spec => [](Installed /\ Overdue)
  <1>1. Init => Installed /\ Overdue
    BY DEF Init, Installed, Overdue, NoPass, NoBeat
  <1>2. IInv /\ (Installed /\ Overdue) /\ [Next]_vars => (Installed /\ Overdue)'
    <2> SUFFICES ASSUME IInv, Installed, Overdue, [Next]_vars PROVE (Installed /\ Overdue)'
      OBVIOUS
    <2>1. CASE Next
      BY <2>1, InstalledStep, OverdueStep
    <2>2. CASE UNCHANGED vars
      BY <2>2 DEF vars, database, threads, agent, Installed, Overdue, Open, Latest
    <2> QED
      BY <2>1, <2>2
  <1> QED
    BY <1>1, <1>2, UpdateInvariant, PTL DEF Spec

\* An ending that is true is an ending of the abstract record.
LEMMA LifeEnds ==
  ASSUME Rows, NEW a \in Ids, Open(a), NEW end \in Ends, Life!Justified(end), Settled,
         attempts' = [attempts EXCEPT ![a] = end], running' = running
  PROVE  Life!Next
  <1>1. Life!End(a, end)
    BY DEF Life!End, Settled, Rows
  <1>2. a \in Life!Ids /\ Life!Open(a) /\ end \in Life!Ends
    BY DEF Ids, Life!Ids, Ends, Life!Ends, Open, Life!Open
  <1> QED
    BY <1>1, <1>2 DEF Life!Next

\* closeHostAttempt records what is true, or another closer came first.
LEMMA LifeCloses ==
  ASSUME Rows, NEW a, NEW end \in Ends, CloseHostAttempt(a, end), running' = running,
         Open(a) => Life!Justified(end)
  PROVE  Life!Next \/ UNCHANGED Life!vars
  <1>1. CASE Open(a)
    BY <1>1, LifeEnds DEF CloseHostAttempt, Finishes, Open
  <1>2. CASE ~Open(a)
    BY <1>2 DEF CloseHostAttempt, Finishes, Life!vars, history
  <1> QED
    BY <1>1, <1>2

\* What is learnt of the open attempt, beside the rows.
LEMMA LifeLearns ==
  ASSUME IInv, Overdue, Next, ~RowWriters
  PROVE  Life!Next \/ UNCHANGED Life!vars
  <1>0. RowsStay /\ attempts' = attempts /\ Ids = Life!Ids
    BY OthersLeaveRows DEF RowsStay, Ids, Life!Ids
  <1>1. CASE HelperInstalls
    BY <1>0, <1>1 DEF HelperInstalls, database, history, Life!Next, Life!Install
  <1>2. CASE TimePasses
    <2>1. Life!RunLate /\ Latest \in Ids /\ Life!Open(Latest)
      BY <1>2 DEF TimePasses, history, agent, Life!RunLate, Life!Open, Open
    <2> QED
      BY <1>0, <2>1 DEF Life!Next
  <1>3. ASSUME ~HelperInstalls, ~TimePasses PROVE running' = running /\ overdue' = overdue
    BY <1>0, <1>3, ReleaseStays, ClockMoves
  <1>4. ASSUME NEW a \in Ids, Open(a), caused' \/ unnamed', running' = running,
               overdue' = overdue
        PROVE  Life!Next
    <2>1. Life!Fail /\ Life!Open(a)
      BY <1>0, <1>4 DEF Life!Fail, Life!Open, Open
    <2> QED
      BY <1>0, <2>1 DEF Life!Next
  <1>5. ASSUME UNCHANGED <<caused, unnamed, running, overdue>> PROVE UNCHANGED Life!vars
    BY <1>0, <1>5 DEF Life!vars
  <1>6. ASSUME NEW a \in Ids, HandleUpdate(a) PROVE Life!Next \/ UNCHANGED Life!vars
    <2>1. PICK said \in {"ok", "failed", "not_started"} :
            caused' = (caused \/ (said = "failed" /\ Open(a)))
      BY <1>6 DEF HandleUpdate
    <2>2. running' = running /\ overdue' = overdue /\ unnamed' = unnamed
      BY <1>6 DEF HandleUpdate, database
    <2>3. CASE said = "failed" /\ Open(a)
      BY <1>4, <2>1, <2>2, <2>3
    <2>4. CASE ~(said = "failed" /\ Open(a))
      <3>1. caused' = caused
        BY <2>1, <2>4 DEF IInv, TypeOK
      <3> QED
        BY <1>5, <2>2, <3>1
    <2> QED
      BY <2>3, <2>4
  <1>7. CASE HelperFinishes
    <2>1. /\ caused' = (caused \/ Open(helper)) /\ unnamed' = unnamed
          /\ running' = running /\ overdue' = overdue
      BY <1>7 DEF HelperFinishes, Writes, database
    <2>2. CASE Open(helper)
      BY <1>4, <2>1, <2>2 DEF Open
    <2>3. CASE ~Open(helper)
      <3>1. caused' = caused
        BY <2>1, <2>3 DEF IInv, TypeOK
      <3> QED
        BY <1>5, <2>1, <3>1
    <2> QED
      BY <2>2, <2>3
  <1>8. CASE HelperRefuses
    <2>1. /\ caused' = (caused \/ Open(request)) /\ unnamed' = (unnamed \/ Open(Latest))
          /\ running' = running /\ overdue' = overdue
      BY <1>8 DEF HelperRefuses, Writes, database
    <2>2. CASE Open(Latest)
      BY <1>4, <2>1, <2>2 DEF Open
    <2>3. CASE ~Open(Latest)
      <3>1. ~Open(request)
        BY <2>3 DEF IInv, Numbered, Open
      <3>2. caused' = caused /\ unnamed' = unnamed
        BY <2>1, <2>3, <3>1 DEF IInv, TypeOK
      <3> QED
        BY <1>5, <2>1, <3>2
    <2> QED
      BY <2>2, <2>3
  <1>9. ASSUME \A a \in Ids : ~HandleUpdate(a), ~HelperFinishes, ~HelperRefuses
        PROVE  caused' = caused /\ unnamed' = unnamed
    BY <1>9
       DEF Next, RowWriters, history, RequestHostUpdate, SendRequested, PassReads, PassKeeps,
           PassFenced, PassFails, BeatFenced, BeatJudges, BeatFails, LeaseExpires, AnswerLost,
           AnswerReads, AnswerFails, AnswerNoted, HelperTakes, HelperInstalls, AgentRestarts,
           ForgetHost, JoinHost, SwitchMode, FenceFalls, FenceLifts, TimePasses, GraceEnds,
           ControllerRestarts
  <1> QED
    BY <1>1, <1>2, <1>3, <1>5, <1>6, <1>7, <1>8, <1>9

\* Every step on the rows is a step of the abstract record or leaves it alone.
LEMMA LifeNext ==
  ASSUME IInv, Installed, Overdue, Next
  PROVE  Life!Next \/ UNCHANGED Life!vars
  <1>0. TypeOK /\ Numbered /\ Referred /\ UnderWay /\ Caused /\ Rows
    BY DEF IInv, Rows, TypeOK
  <1>1. CASE PassCloses
    <2>1. /\ CloseHostAttempt(pass.id, pass.outcome) /\ running' = running
          /\ pass.pc = "close"
      BY <1>1 DEF PassCloses, agent
    <2>2. Open(pass.id) => Life!Justified(pass.outcome)
      BY <1>0, <2>1 DEF UnderWay, Installed, Overdue, Life!Justified
    <2>3. pass.outcome \in Ends
      BY <1>0, <2>1, CarriedEndings
    <2> QED
      BY <1>0, <2>1, <2>2, <2>3, LifeCloses
  <1>2. CASE BeatCloses
    <2>1. /\ CloseHostAttempt(beat.id, beat.outcome) /\ running' = running
          /\ beat # NoBeat
      BY <1>2 DEF BeatCloses, BeatEnds
    <2>2. Open(beat.id) => Life!Justified(beat.outcome)
      BY <1>0, <2>1 DEF UnderWay, Installed, Caused, Life!Justified
    <2>3. beat.outcome \in Ends
      BY <1>0, <2>1, CarriedEndings
    <2> QED
      BY <1>0, <2>1, <2>2, <2>3, LifeCloses
  <1>3. CASE AnswerCloses
    <2>1. /\ CloseHostAttempt(answer.id, "failed") /\ running' = running
          /\ answer.said = "closing"
      BY <1>3 DEF AnswerCloses, agent
    <2>2. Open(answer.id) => Life!Justified("failed")
      BY <1>0, <2>1 DEF Caused, Life!Justified
    <2> QED
      BY <1>0, <2>1, <2>2, CarriedEndings, LifeCloses
  <1>4. CASE DeleteHost
    <2>1. /\ attempts' = [a \in Ids |-> IF Open(a) THEN "cancelled" ELSE attempts[a]]
          /\ Settled /\ running' = running
      BY <1>4 DEF DeleteHost, agent
    <2>2. CASE Open(Latest)
      <3>1. Latest \in Ids /\ \A a \in Ids : Open(a) <=> a = Latest
        BY <1>0, <2>2 DEF Open, Numbered
      <3>2. attempts' = [attempts EXCEPT ![Latest] = "cancelled"]
        BY <1>0, <2>1, <3>1 DEF TypeOK
      <3>3. Life!Justified("cancelled") /\ "cancelled" \in Ends
        BY DEF Life!Justified, Ends
      <3> QED
        BY <1>0, <2>1, <2>2, <3>1, <3>2, <3>3, LifeEnds
    <2>3. CASE ~Open(Latest)
      <3>1. \A a \in Ids : ~Open(a)
        BY <1>0, <2>3 DEF Open, Numbered
      <3>2. attempts' = attempts
        BY <1>0, <2>1, <3>1 DEF TypeOK
      <3>3. caused' = caused /\ unnamed' = unnamed /\ overdue' = overdue
        BY <1>0, <2>1, <2>3 DEF Settled, Caused, Overdue, TypeOK
      <3> QED
        BY <2>1, <3>2, <3>3 DEF Life!vars
    <2> QED
      BY <2>2, <2>3
  <1>5. CASE CreateUpdateAttempt
    <2>1. UNCHANGED <<caused, unnamed, overdue, running>>
      BY <1>5 DEF CreateUpdateAttempt, history, agent
    <2>2. CASE attempts' = attempts
      BY <2>1, <2>2 DEF Life!vars
    <2>3. CASE RowsOpen
      <3>1. Latest \in Nat /\ Latest + 1 \in Life!Ids /\ Ids = Life!Ids
        BY <2>3, UpdateAssumption DEF RowsOpen, IInv, Numbered, Ids, Life!Ids
      <3>2. ASSUME NEW b \in Ids
            PROVE  attempts[b] # "requested" /\ (b < Latest + 1 => attempts[b] # "none")
        BY <1>0, <2>3, <3>1 DEF RowsOpen, Numbered, Ids
      <3>3. Life!Ask(Latest + 1)
        BY <1>0, <2>1, <2>3, <3>1, <3>2 DEF Life!Ask, Life!Open, RowsOpen, TypeOK
      <3> QED
        BY <3>1, <3>3 DEF Life!Next
    <2>4. ASSUME attempts' # attempts PROVE RowsOpen
      <3>1. /\ \A a \in Ids : ~Open(a)
            /\ attempts' = [attempts EXCEPT ![Latest + 1] = "requested"]
            /\ Latest < MaxAttempts
        BY <1>0, <1>5, <2>4 DEF CreateUpdateAttempt, UnderWay
      <3> QED
        BY <1>0, <3>1, OpeningRows
    <2> QED
      BY <2>2, <2>3, <2>4
  <1>6. CASE ~RowWriters
    BY <1>6, LifeLearns
  <1> QED
    BY <1>1, <1>2, <1>3, <1>4, <1>5, <1>6 DEF RowWriters

\* The record of the attempts implements the life of an attempt that AttemptLife
\* describes, for any number of attempts and whatever fails, restarts or is fenced:
\* one attempt at a time, in order, and only true endings.
THEOREM RecordImplementsAttemptLife == Spec => ImplementsAttemptLife
  <1>1. Init => Life!Init
    BY DEF Init, Life!Init, Ids, Life!Ids
  <1>2. IInv /\ (Installed /\ Overdue) /\ [Next]_vars => [Life!Next]_(Life!vars)
    <2> SUFFICES ASSUME IInv, Installed, Overdue, [Next]_vars
                 PROVE  Life!Next \/ UNCHANGED Life!vars
      OBVIOUS
    <2>1. CASE Next
      BY <2>1, LifeNext
    <2>2. CASE UNCHANGED vars
      BY <2>2 DEF vars, database, agent, history, Life!vars
    <2> QED
      BY <2>1, <2>2
  <1> QED
    BY <1>1, <1>2, UpdateInvariant, ReasonsInvariant, PTL
       DEF Spec, ImplementsAttemptLife, Life!Spec
=============================================================================
