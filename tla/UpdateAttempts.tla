--------------------------- MODULE UpdateAttempts ---------------------------
(***************************************************************************)
(* The update attempts of one host: the rows of update_attempts, the       *)
(* request that opens one and queues its task, the three that may end it   *)
(* (the agent's answer to the task, the heartbeat with the helper's        *)
(* result, and the pass with its time-out), deletion and re-joining of the *)
(* host, the fence, and restarts on both sides.                            *)
(*                                                                         *)
(* Sources: internal/controller/updates_hosts.go and updates_loop.go,      *)
(* internal/store/update_attempts.go, internal/agent/update.go,            *)
(* internal/installer/updatehelper.go and updatehelper_request.go.         *)
(*                                                                         *)
(* Attempts are numbered as they are asked for, which is the order         *)
(* requested_at keeps.  All are for one release.  The host's task queue is *)
(* TaskQueue's; here a task is absent, pending or held by the agent.  The  *)
(* helper runs as root on the host; its limits and its lock are reasons to *)
(* answer with a failure.                                                  *)
(*                                                                         *)
(* A closer reads an attempt, judges it, and ends it in a later step; the  *)
(* withdrawal of the task and the new picture that follow an ending are    *)
(* part of that step.  So is the reply to a heartbeat, which is lost or    *)
(* not.  A poll and the agent's work on the task are one step, and its     *)
(* answer is another.                                                      *)
(***************************************************************************)
EXTENDS Naturals, FiniteSets

CONSTANTS
  MaxAttempts,  \* bound: attempts at this host
  MaxEvents     \* bound: fences, restarts, deletions, switches of the mode and
                \* failures of the store

ASSUME UpdateAssumption ==
  /\ MaxAttempts \in Nat
  /\ MaxEvents \in Nat

VARIABLES
  \* the controller's database
  attempts,    \* the state of each attempt
  overdue,     \* the open one was asked for more than 90 minutes ago
  registered,  \* the host has its row
  rowNew,      \* the row's version is the release's or later
  \* the controller's memory
  task,        \* the update task of each attempt in the host's queue
  handed,      \* updatesState.handed
  hostLast,    \* updatesState.hostLast
  acting,      \* mayAct
  fenceSeen,   \* updatesState.fenceSeen
  grace,       \* hostGraceUntil: none, due, or due and a beat was answered in it
  updating,    \* updateMode is not off
  asking,      \* a requestHostUpdate under way
  beat,        \* the heartbeat under way
  answer,      \* the agent's answer to an update task
  pass,        \* a ReconcileUpdates under way
  removing,    \* the row is deleted and its tasks are not yet withdrawn
  \* the host
  running,     \* it runs the release
  written,     \* Agent.updateWritten
  request,     \* the attempt request.json is for, or 0
  helper,      \* the attempt the helper works on, or 0
  result,      \* result.json
  delivered,   \* Agent.updateDelivered has this result
  \* history
  caused,      \* the open attempt's own task or request has failed
  unnamed,     \* a refusal without an id was finished while it was open
  heldBack,    \* the fence held the last report of the open attempt's failure
  events

database == <<attempts, overdue, registered, rowNew>>
memory == <<task, handed, hostLast, fenceSeen, grace>>
threads == <<asking, beat, answer, pass, removing>>
agent == <<running, written, request, helper, result, delivered>>
history == <<caused, unnamed, heldBack>>
vars == <<database, memory, threads, agent, history, acting, updating, events>>

Ids == 1..MaxAttempts
Ends == {"succeeded", "failed", "timed_out", "cancelled"}
\* A result names its attempt, or is a refusal that names none and was finished
\* when attempt "since" was the latest: finished_at, against requested_at.
Results == [id : 0..MaxAttempts, since : 0..MaxAttempts]
NoResult == [id |-> 0, since |-> 0]
Nothing == [id |-> 0, open |-> FALSE]
NoAsk == [pc |-> "idle", id |-> 0]
\* report: the beat carries a result, and the agent has had no other since.
NoBeat == [id |-> 0, outcome |-> "none", report |-> FALSE, graced |-> FALSE]
NoAnswer == [id |-> 0, said |-> "none", known |-> FALSE]
NoPass == [pc |-> "idle", id |-> 0, outcome |-> "none", clean |-> TRUE]

TypeOK ==
  /\ attempts \in [Ids -> Ends \cup {"none", "requested"}]
  /\ overdue \in BOOLEAN /\ registered \in BOOLEAN /\ rowNew \in BOOLEAN
  /\ task \in [Ids -> {"no", "pending", "held"}]
  /\ handed \subseteq Ids
  /\ hostLast \in [id : 0..MaxAttempts, open : BOOLEAN]
  /\ acting \in BOOLEAN /\ fenceSeen \in BOOLEAN /\ updating \in BOOLEAN
  /\ grace \in {"none", "due", "beaten"}
  /\ asking \in [pc : {"idle", "allowed", "made"}, id : 0..MaxAttempts]
  /\ beat \in [id : 0..MaxAttempts, outcome : Ends \cup {"none"}, report : BOOLEAN,
               graced : BOOLEAN]
  /\ answer \in [id : 0..MaxAttempts, said : {"none", "ok", "failed", "not_started", "closing"},
                 known : BOOLEAN]
  /\ pass \in [pc : {"idle", "keep", "close"}, id : 0..MaxAttempts,
               outcome : Ends \cup {"none"}, clean : BOOLEAN]
  /\ removing \in BOOLEAN
  /\ running \in BOOLEAN /\ delivered \in BOOLEAN
  /\ written \subseteq Ids
  /\ request \in 0..MaxAttempts /\ helper \in 0..MaxAttempts
  /\ caused \in BOOLEAN /\ unnamed \in BOOLEAN /\ heldBack \in BOOLEAN
  /\ result \in Results
  /\ events \in 0..MaxEvents

Init ==
  /\ attempts = [a \in Ids |-> "none"] /\ overdue = FALSE
  /\ registered = TRUE /\ rowNew = FALSE
  /\ task = [a \in Ids |-> "no"] /\ handed = {} /\ hostLast = Nothing
  /\ acting = TRUE /\ fenceSeen = FALSE /\ grace = "none" /\ updating = TRUE
  /\ asking = NoAsk /\ beat = NoBeat /\ answer = NoAnswer /\ pass = NoPass
  /\ removing = FALSE
  /\ running = FALSE /\ written = {} /\ request = 0 /\ helper = 0
  /\ result = NoResult /\ delivered = FALSE
  /\ caused = FALSE /\ unnamed = FALSE /\ heldBack = FALSE /\ events = 0

-----------------------------------------------------------------------------
Open(a) == a \in Ids /\ attempts[a] = "requested"
Latest == Cardinality({a \in Ids : attempts[a] # "none"})

\* What is only asked of an open attempt is forgotten when it ends.
Settled == overdue' = FALSE /\ caused' = FALSE /\ unnamed' = FALSE /\ heldBack' = FALSE

Spend == events < MaxEvents /\ events' = events + 1

\* Variant: any row with the id is written.
FinishesAny(a) == a \in Ids /\ attempts[a] # "none"

\* FinishUpdateAttempt writes WHERE state = requested, and says whether it did.
Finishes(a) == Open(a)

\* What lookAtHostUpdates keeps of the rows: the latest attempt, and what is
\* remembered of an open one.
Picture(rows) ==
  LET latest == Cardinality({a \in Ids : rows[a] # "none"})
  IN  /\ hostLast' = [id |-> latest, open |-> latest > 0 /\ rows[latest] = "requested"]
      /\ handed' = {a \in handed : rows[a] = "requested"}

\* sendHostUpdate; the queue refuses a second task with the same key.
Send(a) ==
  task' = IF acting /\ a \notin handed /\ task[a] = "no"
          THEN [task EXCEPT ![a] = "pending"] ELSE task

\* closeHostAttempt: the ending, and by the one who made it the withdrawal of the
\* attempt's task, pending or held, and a new picture.
CloseHostAttempt(a, end) ==
  IF Finishes(a)
  THEN /\ attempts' = [attempts EXCEPT ![a] = end]
       /\ task' = [task EXCEPT ![a] = "no"]
       /\ Picture(attempts')
       /\ Settled
  ELSE UNCHANGED <<attempts, task, hostLast, handed, overdue, history>>

\* An answer to a task that has left the queue is not known when it arrives.
Withdraws(a) ==
  answer' = IF Finishes(a) THEN [answer EXCEPT !.known = @ /\ answer.id # a] ELSE answer

-----------------------------------------------------------------------------
(* requestHostUpdate: the checks, the attempt, then the look and the task. *)

RequestHostUpdate ==
  /\ asking.pc = "idle" /\ acting /\ updating /\ registered /\ ~rowNew
  /\ Latest < MaxAttempts
  /\ asking' = [NoAsk EXCEPT !.pc = "allowed"]
  /\ UNCHANGED <<database, memory, beat, answer, pass, removing, agent, history,
                 acting, updating, events>>

\* Variant: an attempt is recorded beside one that is still open.
CreateBeside ==
  /\ asking.pc = "allowed"
  /\ attempts' = [attempts EXCEPT ![Latest + 1] = "requested"]
  /\ asking' = [pc |-> "made", id |-> Latest + 1]
  /\ UNCHANGED <<overdue, registered, rowNew, memory, beat, answer, pass, removing, agent,
                 history, acting, updating, events>>

CreateUpdateAttempt ==
  /\ asking.pc = "allowed"
  /\ IF \E a \in Ids : Open(a)
     THEN asking' = NoAsk /\ UNCHANGED attempts
     ELSE /\ attempts' = [attempts EXCEPT ![Latest + 1] = "requested"]
          /\ asking' = [pc |-> "made", id |-> Latest + 1]
  /\ UNCHANGED <<overdue, registered, rowNew, memory, beat, answer, pass, removing, agent,
                 history, acting, updating, events>>

SendRequested ==
  /\ asking.pc = "made"
  /\ Picture(attempts) /\ Send(asking.id)
  /\ asking' = NoAsk
  /\ UNCHANGED <<database, fenceSeen, grace, beat, answer, pass, removing, agent,
                 history, acting, updating, events>>

-----------------------------------------------------------------------------
(* ReconcileUpdates.  Every way out of it looks at the attempts. *)

PassFenced ==
  /\ pass.pc = "idle" /\ ~acting
  /\ fenceSeen' = TRUE
  /\ Picture(attempts)
  /\ UNCHANGED <<database, task, grace, threads, agent, history, acting, updating, events>>

\* Variant: the fence leaves nothing behind.
NoGrace == grace

\* The first pass that may act after a fence was seen starts the grace.
Grace == IF fenceSeen THEN "due" ELSE grace

\* hostAttemptOutcome of the open attempt and the host's row, if there is one.
\* The time-out comes last, and not while the grace after a fence runs.
HostAttemptOutcome(a) ==
  CASE ~registered -> "cancelled"
    [] registered /\ rowNew -> "succeeded"
    [] registered /\ ~rowNew /\ Grace = "none" /\ overdue -> "timed_out"
    [] OTHER -> "none"

PassReads ==
  /\ pass.pc = "idle" /\ acting
  /\ fenceSeen' = FALSE /\ grace' = Grace
  /\ \/ /\ \A a \in Ids : ~Open(a)
        /\ Picture(attempts)
        /\ UNCHANGED pass
     \/ /\ \E a \in Ids :
             /\ Open(a)
             /\ LET outcome == HostAttemptOutcome(a) IN
                pass' = [pc |-> IF outcome = "none" THEN "keep" ELSE "close",
                         id |-> a, outcome |-> outcome, clean |-> TRUE]
        /\ UNCHANGED <<handed, hostLast>>
  /\ UNCHANGED <<database, task, asking, beat, answer, removing, agent, history, acting,
                 updating, events>>

\* keepHostUpdateGoing.  With updating off only a task that is not yet taken
\* goes back.
PassKeeps ==
  /\ pass.pc = "keep"
  /\ IF updating THEN Send(pass.id)
     ELSE task' = [task EXCEPT ![pass.id] = IF @ = "pending" THEN "no" ELSE @]
  /\ Picture(attempts)
  /\ pass' = NoPass
  /\ UNCHANGED <<database, fenceSeen, grace, asking, beat, answer, removing, agent,
                 history, acting, updating, events>>

PassCloses ==
  /\ pass.pc = "close"
  /\ CloseHostAttempt(pass.id, pass.outcome) /\ Withdraws(pass.id)
  /\ pass' = NoPass
  /\ UNCHANGED <<registered, rowNew, fenceSeen, grace, asking, beat, removing, agent,
                 acting, updating, events>>

\* The store cannot be read or written; the next pass tries again.
PassFails ==
  /\ \/ pass.pc = "idle" /\ acting /\ fenceSeen' = FALSE /\ grace' = Grace
     \/ pass.pc = "close" /\ UNCHANGED <<fenceSeen, grace>>
  /\ Spend
  /\ pass' = NoPass
  /\ UNCHANGED <<database, task, handed, hostLast, asking, beat, answer, removing, agent,
                 history, acting, updating>>

-----------------------------------------------------------------------------
(* The heartbeat: noteHostUpdate, after the row has the version. *)

Report == IF delivered THEN NoResult ELSE result

\* hostReportOutcome: the version decides; else a result answers the attempt it
\* names, and a refusal that names none the one it was finished after.
HostReportOutcome(a, new, rep) ==
  CASE new -> "succeeded"
    [] ~new /\ rep # NoResult /\ rep.id = a -> "failed"
    [] ~new /\ rep # NoResult /\ rep.id = 0 /\ rep.since >= a -> "failed"
    [] OTHER -> "none"

\* A controller that may not act holds a report, so the agent sends it again.
BeatFenced ==
  /\ beat = NoBeat /\ registered /\ ~acting
  /\ rowNew' = running
  /\ fenceSeen' = (fenceSeen \/ Report # NoResult)
  /\ heldBack' = (heldBack \/ (Open(Latest)
                     /\ HostReportOutcome(Latest, FALSE, Report) = "failed"))
  /\ pass' = [pass EXCEPT !.clean = @ /\ (pass.pc = "close" => Report = NoResult)]
  /\ UNCHANGED <<attempts, overdue, registered, task, handed, hostLast, grace, asking, beat,
                 answer, removing, agent, caused, unnamed, acting, updating, events>>

\* The end of a beat that the fence did not hold.  A report that was taken, or that
\* there was nothing to do for, counts as delivered when the reply arrives.
BeatEnds(taken, graced) ==
  /\ delivered' \in {delivered, delivered \/ taken}
  /\ grace' = IF grace = "due" /\ graced THEN "beaten" ELSE grace
  /\ UNCHANGED <<running, written, request, helper, result>>

\* Variant: the attempt is always the one the loop last saw.
MatchedAsSeen == hostLast

\* The attempt is the one the loop last saw, or with a report the store's.
Matched == IF Report = NoResult THEN hostLast ELSE [id |-> Latest, open |-> Open(Latest)]

BeatJudges ==
  /\ beat = NoBeat /\ registered /\ acting
  /\ rowNew' = running
  /\ LET outcome == HostReportOutcome(Matched.id, running, Report)
     IN  IF Matched.open /\ outcome # "none"
         THEN /\ beat' = [id |-> Matched.id, outcome |-> outcome, report |-> Report # NoResult,
                          graced |-> grace = "due"]
              /\ UNCHANGED <<agent, grace, history>>
         ELSE /\ BeatEnds(Report # NoResult, TRUE)
              /\ heldBack' = FALSE
              /\ UNCHANGED <<beat, caused, unnamed>>
  /\ UNCHANGED <<attempts, overdue, registered, task, handed, hostLast, fenceSeen, asking,
                 answer, pass, removing, acting, updating, events>>

\* The key of a result that was replaced meanwhile marks nothing.
BeatCloses ==
  /\ beat # NoBeat
  /\ CloseHostAttempt(beat.id, beat.outcome) /\ Withdraws(beat.id)
  /\ BeatEnds(beat.report, beat.graced)
  /\ beat' = NoBeat
  /\ UNCHANGED <<registered, rowNew, fenceSeen, asking, pass, removing, acting, updating,
                 events>>

\* The attempt cannot be read to match a report, or its ending not be written: a
\* report is held.
BeatFails ==
  /\ \/ beat = NoBeat /\ registered /\ acting /\ Report # NoResult /\ rowNew' = running
        /\ BeatEnds(FALSE, TRUE)
     \/ beat # NoBeat /\ UNCHANGED rowNew
        /\ BeatEnds(FALSE, beat.graced)
  /\ Spend
  /\ beat' = NoBeat /\ heldBack' = FALSE
  /\ UNCHANGED <<attempts, overdue, registered, task, handed, hostLast, fenceSeen, caused, unnamed,
                 asking, answer, pass, removing, acting, updating>>

-----------------------------------------------------------------------------
(* The task: handed out and handled by the agent, and its answer applied. *)

\* TaskQueue's lease: the task is offered again.  (One that is given up is queued
\* again by the next pass.)
LeaseExpires(a) ==
  /\ task[a] = "held"
  /\ task' = [task EXCEPT ![a] = "pending"]
  /\ UNCHANGED <<database, handed, hostLast, fenceSeen, grace, threads, agent, history,
                 acting, updating, events>>

\* A poll hands the task out, and handleUpdate works on it under the agent's update
\* lock, which is kept until the answer is through.  Nothing is written for an
\* attempt that has its request or its result already.  Another attempt's waiting
\* request refuses this one, unless the helper has stopped and the repair the
\* agent asks for clears the folder (healStuckHelper).  A folder that is not as
\* the installer left it refuses whatever this process has not written itself.
HandleUpdate(a) ==
  /\ registered /\ acting /\ task[a] = "pending" /\ answer = NoAnswer
  /\ task' = [task EXCEPT ![a] = "held"]
  /\ \E said \in {"ok", "failed", "not_started"} :
       /\ LET done == a \in written \/ running
              already == done \/ request = a \/ result.id = a
          IN  /\ done => said # "failed"
              /\ IF said = "ok" /\ ~already
                 THEN request' = a /\ written' = written \cup {a}
                 ELSE UNCHANGED <<request, written>>
       /\ answer' = [id |-> a, said |-> said, known |-> TRUE]
       /\ caused' = (caused \/ (said = "failed" /\ Open(a)))
  /\ UNCHANGED <<database, handed, hostLast, fenceSeen, grace, asking, beat, pass, removing,
                 running, helper, result, delivered, unnamed, heldBack, acting, updating,
                 events>>

\* The connection is lost.  Bound: only while an event is still to come.
AnswerLost ==
  /\ answer # NoAnswer /\ answer.said # "closing"
  /\ events < MaxEvents
  /\ answer' = NoAnswer
  /\ UNCHANGED <<database, memory, asking, beat, pass, removing, agent, history, acting,
                 updating, events>>

Known == answer.known /\ task[answer.id] # "no"

\* applyUpdateTaskResult of an answer that says the request was not written: it
\* ends the open attempt of this host, if that is the one the task was for.
Refused == answer.said = "failed" /\ acting

\* Variant: whatever task was answered, the latest attempt is meant.
AnswersAny == TRUE

AnswersLatest == answer.id = Latest

\* The read; the attempt it found is ended later, or found ended.
AnswerReads ==
  /\ answer # NoAnswer /\ Known /\ Refused /\ AnswersLatest /\ Open(Latest)
  /\ task' = [task EXCEPT ![answer.id] = "no"]
  /\ answer' = [id |-> Latest, said |-> "closing", known |-> FALSE]
  /\ UNCHANGED <<database, handed, hostLast, fenceSeen, grace, asking, beat, pass, removing,
                 agent, history, acting, updating, events>>

AnswerCloses ==
  /\ answer.said = "closing"
  /\ CloseHostAttempt(answer.id, "failed")
  /\ answer' = NoAnswer
  /\ UNCHANGED <<registered, rowNew, fenceSeen, grace, asking, beat, pass, removing, agent,
                 acting, updating, events>>

\* The attempts cannot be read, or the ending not be written: the task is answered
\* and the attempt stays open.
AnswerFails ==
  /\ \/ /\ answer # NoAnswer /\ Known /\ Refused
        /\ task' = [task EXCEPT ![answer.id] = "no"]
     \/ answer.said = "closing" /\ UNCHANGED task
  /\ Spend
  /\ answer' = NoAnswer
  /\ UNCHANGED <<database, handed, hostLast, fenceSeen, grace, asking, beat, pass, removing,
                 agent, history, acting, updating>>

\* Every other answer leaves the attempts alone; one that says the request was
\* written, or the release is running, is remembered.
AnswerNoted ==
  /\ answer # NoAnswer /\ answer.said # "closing"
  /\ ~(Known /\ Refused /\ AnswersLatest /\ Open(Latest))
  /\ task' = IF Known THEN [task EXCEPT ![answer.id] = "no"] ELSE task
  /\ handed' = IF Known /\ answer.said = "ok" THEN handed \cup {answer.id} ELSE handed
  /\ answer' = NoAnswer
  /\ UNCHANGED <<database, hostLast, fenceSeen, grace, asking, beat, pass, removing, agent,
                 history, acting, updating, events>>

-----------------------------------------------------------------------------
(* The helper on the host, and the agent's process. *)

NewProcess ==
  /\ written' = {}
  /\ delivered' = FALSE
  /\ beat' = [beat EXCEPT !.report = FALSE]

\* readRequest consumes the request it has looked at.
HelperTakes ==
  /\ request # 0 /\ helper = 0
  /\ helper' = request /\ request' = 0
  /\ UNCHANGED <<database, memory, threads, running, written, result, delivered,
                 history, acting, updating, events>>

\* The engine puts the release in place and restarts the agent.
HelperInstalls ==
  /\ helper # 0 /\ ~running
  /\ running' = TRUE
  /\ NewProcess
  /\ UNCHANGED <<database, memory, asking, answer, pass, removing, request, helper, result,
                 history, acting, updating, events>>

\* writeResult replaces result.json, with the answer to the request of attempt a.
Writes(res, a) ==
  /\ result' = res
  /\ delivered' = FALSE
  /\ beat' = [beat EXCEPT !.report = FALSE]
  /\ caused' = (caused \/ Open(a))
  /\ UNCHANGED <<database, memory, asking, answer, pass, removing, running, written,
                 heldBack, acting, updating, events>>

\* Done, failed, or refused by the limits or the lock, all with the request's id:
\* where the new release does not run, each ends the attempt.
HelperFinishes ==
  /\ helper # 0
  /\ helper' = 0 /\ UNCHANGED <<request, unnamed>>
  /\ Writes([id |-> helper, since |-> 0], helper)

\* A request it cannot trust, of whichever attempt, is refused without an id.
HelperRefuses ==
  /\ request # 0 /\ helper = 0
  /\ request' = 0 /\ UNCHANGED helper
  /\ unnamed' = (unnamed \/ Open(Latest))
  /\ Writes([id |-> 0, since |-> Latest], request)

AgentRestarts ==
  /\ Spend
  /\ NewProcess
  /\ UNCHANGED <<database, memory, asking, answer, pass, removing, running, request, helper,
                 result, history, acting, updating>>

-----------------------------------------------------------------------------
(* The host's row, the mode, the fence, the clock, and the controller's    *)
(* process.                                                                *)

\* DeleteHost, by an operator or before the host joins again: the open attempt is
\* cancelled in the same transaction.
DeleteHost ==
  /\ registered /\ ~removing
  /\ Spend
  /\ registered' = FALSE /\ removing' = TRUE
  /\ attempts' = [a \in Ids |-> IF Open(a) THEN "cancelled" ELSE attempts[a]]
  /\ Settled
  /\ UNCHANGED <<rowNew, memory, asking, beat, answer, pass, agent, acting, updating>>

\* withdrawHostUpdates, or queues.forget and forgetHostUpdates.
ForgetHost ==
  /\ removing
  /\ removing' = FALSE
  /\ task' = [a \in Ids |-> "no"] /\ hostLast' = Nothing
  /\ answer' = [answer EXCEPT !.known = FALSE]
  /\ UNCHANGED <<database, handed, fenceSeen, grace, asking, beat, pass, agent, history,
                 acting, updating, events>>

JoinHost ==
  /\ ~registered /\ ~removing
  /\ registered' = TRUE /\ rowNew' = running
  /\ NewProcess
  /\ UNCHANGED <<attempts, overdue, memory, asking, answer, pass, removing, running, request,
                 helper, result, history, acting, updating, events>>

SwitchMode ==
  /\ Spend
  /\ updating' = ~updating
  /\ UNCHANGED <<database, memory, threads, agent, history, acting>>

FenceFalls ==
  /\ acting /\ Spend
  /\ acting' = FALSE
  /\ UNCHANGED <<database, memory, threads, agent, history, updating>>

FenceLifts ==
  /\ ~acting
  /\ acting' = TRUE
  /\ UNCHANGED <<database, memory, threads, agent, history, updating, events>>

\* Ninety minutes.
TimePasses ==
  /\ ~overdue /\ Open(Latest)
  /\ overdue' = TRUE
  /\ UNCHANGED <<attempts, registered, rowNew, memory, threads, agent, history, acting,
                 updating, events>>

\* heldReportGrace is a heartbeat interval and a margin, so a host that is there
\* has had a beat answered.
GraceEnds ==
  /\ grace = "beaten" \/ (grace = "due" /\ ~registered)
  /\ grace' = "none"
  /\ UNCHANGED <<database, task, handed, hostLast, fenceSeen, threads, agent, history, acting,
                 updating, events>>

ControllerRestarts ==
  /\ Spend
  /\ task' = [a \in Ids |-> "no"] /\ handed' = {} /\ hostLast' = Nothing
  /\ fenceSeen' = FALSE /\ grace' = "none"
  /\ asking' = NoAsk /\ beat' = NoBeat /\ answer' = NoAnswer /\ pass' = NoPass
  /\ removing' = FALSE
  /\ heldBack' = FALSE
  /\ UNCHANGED <<database, agent, caused, unnamed, acting, updating>>
-----------------------------------------------------------------------------
Next ==
  \/ RequestHostUpdate \/ CreateUpdateAttempt \/ SendRequested
  \/ PassReads \/ PassKeeps \/ PassCloses \/ PassFenced \/ PassFails
  \/ BeatFenced \/ BeatJudges \/ BeatCloses \/ BeatFails
  \/ \E a \in Ids : LeaseExpires(a) \/ HandleUpdate(a)
  \/ AnswerLost \/ AnswerReads \/ AnswerCloses \/ AnswerFails \/ AnswerNoted
  \/ HelperTakes \/ HelperInstalls \/ HelperFinishes \/ HelperRefuses \/ AgentRestarts
  \/ DeleteHost \/ ForgetHost \/ JoinHost \/ SwitchMode \/ FenceFalls \/ FenceLifts
  \/ TimePasses \/ GraceEnds \/ ControllerRestarts

Spec == Init /\ [][Next]_vars

-----------------------------------------------------------------------------
\* A result the agent counts as delivered, and so never sends again, answers no
\* open attempt: under a fence, a failed read or a failed write the report was
\* held (noteHostUpdate, Agent.heartbeat).
DeliveredMeansRecorded ==
  delivered /\ Open(Latest) => HostReportOutcome(Latest, FALSE, result) = "none"

\* An attempt recorded as failed had a failure of its own task or request; or it was
\* ended by a beat, for a refusal that names no attempt and was finished while it was
\* open.  No answer to an older attempt's task, no result that names an older one and
\* no refusal finished before it was asked for ever ends it (applyUpdateTaskResult,
\* hostReportOutcome).  A refusal without an id can be of an older attempt's request,
\* which the code cannot tell (README, section 6).
FailureIsItsOwn ==
  [][attempts' # attempts =>
       \A a \in Ids : Open(a) /\ attempts'[a] = "failed" =>
         caused \/ (unnamed /\ beat # NoBeat /\ beat' = NoBeat)]_vars

\* A pass that starts after a report was held under the fence does not time the
\* attempt out before the agent has had a beat to send it again
\* (heldReportGrace).
HeldReportGetsABeat ==
  [][attempts' # attempts =>
       \A a \in Ids : Open(a) /\ attempts'[a] = "timed_out" /\ pass.clean => ~heldBack]_vars

Life == INSTANCE AttemptLife
          WITH Count <- MaxAttempts, states <- attempts, failed <- caused \/ unnamed,
               late <- overdue, runs <- running

\* The rows, with everyone who opens and ends one and everything remembered of them
\* on both sides, implement the life of an attempt that AttemptLife describes: one
\* attempt at a time, in order, and every ending true of the attempt it is written
\* to when it is written.
ImplementsAttemptLife == Life!Spec

\* An ending stands, however many closers race.
FirstEndingStands ==
  [][attempts' # attempts =>
       \A a \in Ids : attempts[a] \in Ends => attempts'[a] = attempts[a]]_vars

\* hostReportOutcome, of a refusal without an id: "one finished after the attempt was
\* asked for can only be the answer to it".  It can be the answer to the request of an
\* attempt that has timed out (README, section 6).
OnlyOwnFailures ==
  [][attempts' # attempts =>
       \A a \in Ids : Open(a) /\ attempts'[a] = "failed" => caused]_vars

Quiet == asking.pc = "idle" /\ pass.pc = "idle" /\ ~removing

\* withdrawHostUpdate: "so that a host that comes back after its attempt timed
\* out is not then updated with nothing recording it".  The code does not keep
\* this when an attempt ends under a pass (README, section 6).
NoTaskOfAnEndedAttempt == Quiet => \A a \in Ids : task[a] # "no" => Open(a)
=============================================================================
