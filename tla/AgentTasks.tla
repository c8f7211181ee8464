------------------------------ MODULE AgentTasks ------------------------------
(***************************************************************************)
(* How an agent admits the lifecycle tasks that a poll hands it: the claim *)
(* that serialises work on one runner, the one task that may wait behind   *)
(* it, the startup lanes that creates and image prewarming pass one at a   *)
(* time, and the slots that bound what runs at once.  Every admitted task  *)
(* is a goroutine; the reconciler takes the same claims for its removals.  *)
(*                                                                         *)
(* Sources: internal/agent/daemon.go (dispatch, start, claimOrQueue,       *)
(* release), startup_queue.go, reconcile.go (the claims).                  *)
(*                                                                         *)
(* A delivery is one task as one poll handed it over, so a task that is    *)
(* delivered again is another delivery.  What the handlers do to the       *)
(* workload is RunnerLifecycle's; here they take a while and end, each     *)
(* within its own timeout.  Tasks that name no runner and wait for nothing *)
(* (logs, host checks, merges, fills, updates) have a goroutine and        *)
(* nothing else, and are left out, and so is the delay of a runtime that   *)
(* failed, which only lengthens a turn in a lane.  What a heartbeat last   *)
(* said of pauses and of new work may be anything whenever it is read.     *)
(***************************************************************************)
EXTENDS Naturals, Sequences, FiniteSets

CONSTANTS
  Deliveries, kindOf, runnerOf, laneOf,
  Runners, NoRunner,   \* a prewarm names no runner
  Lanes,               \* startup and dindStartup
  None,
  Capacity             \* opts.Capacity, the size of sem

Kinds == {"create_runner", "stop_runner", "remove_runner", "prewarm_image"}

ASSUME AgentAssumption ==
  /\ kindOf \in [Deliveries -> Kinds]
  /\ runnerOf \in [Deliveries -> Runners \cup {NoRunner}]
  /\ laneOf \in [Deliveries -> Lanes]
  /\ NoRunner \notin Runners
  /\ None \notin Deliveries /\ None \notin Kinds
  /\ \A d \in Deliveries : runnerOf[d] = NoRunner <=> kindOf[d] = "prewarm_image"
  /\ Capacity \in Nat \ {0}

VARIABLES
  pc,        \* where each delivery's goroutine is
  inflight,  \* the runners whose claim is taken
  running,   \* the kind of the dispatched task that holds it
  waiting,   \* the delivery that will be handed it
  lane,      \* the two startupQueues
  slots,     \* the deliveries inside sem
  tidying,   \* the runners whose claim the reconciler has
  stopping   \* the agent's context is done

claims == <<inflight, running, waiting>>
vars == <<pc, claims, lane, slots, tidying, stopping>>

Places == {"new", "dropped", "held", "delay", "lane", "slot", "check", "run", "report",
           "leave", "done"}

TypeOK ==
  /\ pc \in [Deliveries -> Places]
  /\ inflight \subseteq Runners
  /\ running \in [Runners -> Kinds \cup {None}]
  /\ waiting \in [Runners -> Deliveries \cup {None}]
  /\ lane \in [Lanes -> [active : Deliveries \cup {None}, pending : Seq(Deliveries)]]
  /\ slots \subseteq Deliveries
  /\ tidying \subseteq Runners
  /\ stopping \in BOOLEAN

Init ==
  /\ pc = [d \in Deliveries |-> "new"]
  /\ inflight = {}
  /\ running = [r \in Runners |-> None]
  /\ waiting = [r \in Runners |-> None]
  /\ lane = [l \in Lanes |-> [active |-> None, pending |-> <<>>]]
  /\ slots = {}
  /\ tidying = {}
  /\ stopping = FALSE

Creates(d) == kindOf[d] = "create_runner"
Starts(d) == kindOf[d] \in {"create_runner", "prewarm_image"}

NamesRunner(d) == runnerOf[d] # NoRunner

-----------------------------------------------------------------------------
(* The startup queue.                                                      *)

\* Foreground work is first, and first come among itself.
NextTicket(q) ==
  IF \E n \in 1..Len(q) : Creates(q[n])
  THEN CHOOSE n \in 1..Len(q) : Creates(q[n]) /\ \A p \in 1..(n - 1) : ~Creates(q[p])
  ELSE 1

Without(q, n) == SubSeq(q, 1, n - 1) \o SubSeq(q, n + 1, Len(q))

advance(q) ==
  IF q.active # None \/ q.pending = <<>> THEN q
  ELSE [active |-> q.pending[NextTicket(q.pending)],
        pending |-> Without(q.pending, NextTicket(q.pending))]

enqueue(q, d) == advance([q EXCEPT !.pending = Append(@, d)])

First(q, d) == CHOOSE n \in 1..Len(q) : q[n] = d

\* The ticket gives up its turn or its place.
Unticketed(q, d) ==
  IF q.active = d THEN [q EXCEPT !.active = None]
  ELSE IF \E n \in 1..Len(q.pending) : q.pending[n] = d
       THEN [q EXCEPT !.pending = Without(@, First(@, d))]
       ELSE q

\* Variant: a ticket that leaves wakes nobody.
doneQuietly(q, d) == Unticketed(q, d)

done(q, d) == advance(Unticketed(q, d))

-----------------------------------------------------------------------------
(* Claims.                                                                 *)

taskRank(kind) ==
  CASE kind = "create_runner" -> 1
    [] kind = "stop_runner" -> 2
    [] kind = "remove_runner" -> 3
    [] OTHER -> 0

\* Variant: any task waits behind the one that is running.
WaitsBehindAnything(d) ==
  LET r == runnerOf[d] IN running[r] # None /\ waiting[r] = None

\* claimOrQueue holds only what supersedes both the task in flight and the one
\* waiting, and queues behind dispatched tasks alone.
Supersedes(d) ==
  LET r == runnerOf[d] IN
  /\ running[r] # None
  /\ taskRank(kindOf[d]) > taskRank(running[r])
  /\ waiting[r] # None => taskRank(kindOf[d]) > taskRank(kindOf[waiting[r]])

\* start: a create takes its ticket in dispatch order, before its goroutine runs.
At(d) == IF Creates(d) THEN "lane" ELSE "slot"
TakesTicket(d) ==
  lane' = IF Creates(d) THEN [lane EXCEPT ![laneOf[d]] = enqueue(@, d)] ELSE lane

\* Variant: the claim is freed, and what waits is left for somebody to find.
LeavesWaiting(r, pcs) ==
  /\ inflight' = inflight \ {r}
  /\ running' = [running EXCEPT ![r] = None]
  /\ pc' = pcs
  /\ UNCHANGED <<waiting, lane>>

\* release: the claim goes straight to the task that waits, and pcs is where the
\* goroutine that gave it up goes on.
HandsOver(r, pcs) ==
  LET next == waiting[r] IN
  IF next # None
  THEN /\ waiting' = [waiting EXCEPT ![r] = None]
       /\ running' = [running EXCEPT ![r] = kindOf[next]]
       /\ pc' = [pcs EXCEPT ![next] = At(next)]
       /\ TakesTicket(next)
       /\ UNCHANGED inflight
  ELSE /\ inflight' = inflight \ {r}
       /\ running' = [running EXCEPT ![r] = None]
       /\ pc' = pcs
       /\ UNCHANGED <<waiting, lane>>

release(d, to) ==
  IF NamesRunner(d) THEN HandsOver(runnerOf[d], [pc EXCEPT ![d] = to])
  ELSE pc' = [pc EXCEPT ![d] = to] /\ UNCHANGED <<claims, lane>>

-----------------------------------------------------------------------------
(* dispatch.                                                               *)

\* A create for a host that was last told to take no new work: dispatch asks once
\* more, and refuses it if the answer is the same or none comes.
Refused(d) ==
  /\ Creates(d)
  /\ pc' = [pc EXCEPT ![d] = "done"]
  /\ UNCHANGED <<claims, lane>>

Accepted(d) ==
  LET r == runnerOf[d] IN
  \/ /\ ~NamesRunner(d)
     /\ pc' = [pc EXCEPT ![d] = "delay"]
     /\ UNCHANGED <<claims, lane>>
  \/ /\ NamesRunner(d) /\ r \notin inflight
     /\ inflight' = inflight \cup {r}
     /\ running' = [running EXCEPT ![r] = kindOf[d]]
     /\ pc' = [pc EXCEPT ![d] = At(d)]
     /\ TakesTicket(d)
     /\ UNCHANGED waiting
  \/ /\ NamesRunner(d) /\ r \in inflight /\ Supersedes(d)
     /\ waiting' = [waiting EXCEPT ![r] = d]
     /\ pc' = [e \in Deliveries |->
          IF e = d THEN "held" ELSE IF e = waiting[r] THEN "dropped" ELSE pc[e]]
     /\ UNCHANGED <<inflight, running, lane>>
  \/ /\ NamesRunner(d) /\ r \in inflight /\ ~Supersedes(d)
     /\ pc' = [pc EXCEPT ![d] = "dropped"]
     /\ UNCHANGED <<claims, lane>>

dispatch(d) ==
  /\ pc[d] = "new"
  /\ Refused(d) \/ Accepted(d)
  /\ UNCHANGED <<slots, tidying, stopping>>

-----------------------------------------------------------------------------
(* start: the goroutine of delivery d.                                     *)

\* A prewarm sleeps before it asks for a turn, so that creates may pass it.
Jitter(d) ==
  /\ pc[d] = "delay"
  /\ \/ /\ stopping /\ pc' = [pc EXCEPT ![d] = "done"] /\ UNCHANGED lane
     \/ /\ pc' = [pc EXCEPT ![d] = "lane"]
        /\ lane' = [lane EXCEPT ![laneOf[d]] = enqueue(@, d)]
  /\ UNCHANGED <<claims, slots, tidying, stopping>>

\* Variant: a start does not wait for its turn.
NoTurn(d) == TRUE

HasTurn(d) == lane[laneOf[d]].active = d

Admitted(d) ==
  /\ pc[d] = "lane" /\ HasTurn(d)
  /\ pc' = [pc EXCEPT ![d] = "slot"]
  /\ UNCHANGED <<claims, lane, slots, tidying, stopping>>

\* reportNotStarted of a task the shutdown found waiting.
GivesUp(d) ==
  /\ pc[d] \in {"lane", "slot"} /\ stopping
  /\ release(d, "leave")
  /\ UNCHANGED <<slots, tidying, stopping>>

TakesSlot(d) ==
  /\ pc[d] = "slot" /\ Cardinality(slots) < Capacity
  /\ slots' = slots \cup {d}
  /\ pc' = [pc EXCEPT ![d] = "check"]
  /\ UNCHANGED <<claims, lane, tidying, stopping>>

\* The last looks before the handler: a pause, a shutdown, and for a create a
\* task that has superseded it or a host that takes no new work any more.
Superseded(d) == Creates(d) /\ waiting[runnerOf[d]] # None
Checks(d) ==
  /\ pc[d] = "check"
  /\ \/ release(d, "report")
     \/ /\ ~stopping /\ ~Superseded(d)
        /\ pc' = [pc EXCEPT ![d] = "run"]
        /\ UNCHANGED <<claims, lane>>
  /\ UNCHANGED <<slots, tidying, stopping>>

\* The handler ends and gives the claim up before it reports.
Handled(d) ==
  /\ pc[d] = "run"
  /\ release(d, "report")
  /\ UNCHANGED <<slots, tidying, stopping>>

\* The deferred calls: the slot, then the lane, then the claim once more.
Reported(d) ==
  /\ pc[d] = "report"
  /\ slots' = slots \ {d}
  /\ pc' = [pc EXCEPT ![d] = "leave"]
  /\ UNCHANGED <<claims, lane, tidying, stopping>>

\* Variant: without releaseOnce.
ReleasedAgain(d, q) ==
  /\ lane' = q
  /\ pc' = [pc EXCEPT ![d] = "done"]
  /\ inflight' = inflight \ {runnerOf[d]}
  /\ running' = [r \in Runners |-> IF r = runnerOf[d] THEN None ELSE running[r]]
  /\ UNCHANGED waiting

\* releaseOnce: the claim has been given up on every path that leads here.
ReleasedOnce(d, q) ==
  /\ lane' = q
  /\ pc' = [pc EXCEPT ![d] = "done"]
  /\ UNCHANGED claims

Leaves(d) ==
  /\ pc[d] = "leave"
  /\ ReleasedOnce(d, IF Starts(d) THEN [lane EXCEPT ![laneOf[d]] = done(@, d)] ELSE lane)
  /\ UNCHANGED <<slots, tidying, stopping>>

Goes(d) ==
  \/ Jitter(d) \/ Admitted(d) \/ GivesUp(d) \/ TakesSlot(d) \/ Checks(d) \/ Handled(d)
  \/ Reported(d) \/ Leaves(d)

-----------------------------------------------------------------------------
(* The reconciler's claims and the shutdown.                               *)

TidyClaims(r) ==
  /\ r \notin inflight
  /\ inflight' = inflight \cup {r}
  /\ tidying' = tidying \cup {r}
  /\ UNCHANGED <<pc, running, waiting, lane, slots, stopping>>

TidyReleases(r) ==
  /\ r \in tidying
  /\ tidying' = tidying \ {r}
  /\ HandsOver(r, pc)
  /\ UNCHANGED <<slots, stopping>>

Shutdown ==
  /\ stopping' = TRUE
  /\ UNCHANGED <<pc, claims, lane, slots, tidying>>

Next ==
  \/ \E d \in Deliveries : dispatch(d) \/ Goes(d)
  \/ \E r \in Runners : TidyClaims(r) \/ TidyReleases(r)
  \/ Shutdown

Spec == Init /\ [][Next]_vars

\* Every goroutine runs on: handlers, reports and removals have their timeouts,
\* and each of the finitely many others passes through a slot once.
Fairness ==
  /\ \A d \in Deliveries : WF_vars(Goes(d))
  /\ \A r \in Runners : WF_vars(TidyReleases(r))

FairSpec == Spec /\ Fairness

-----------------------------------------------------------------------------

Holds(d) == NamesRunner(d) /\ pc[d] \in {"lane", "slot", "check", "run"}

\* Nothing else works on a runner while a task or the reconciler does: the claim
\* is handed on in one piece, and the release that every goroutine defers never
\* takes it from the task it was handed to.
OneAtATime ==
  /\ \A d, e \in Deliveries : Holds(d) /\ Holds(e) /\ runnerOf[d] = runnerOf[e] => d = e
  /\ \A d \in Deliveries : Holds(d) => runnerOf[d] \in inflight \ tidying

\* From the moment a runner's claim is taken until it is free again its tasks
\* only go forward: a create delivered again never runs after the stop or the
\* remove that overtook it.
ChainAscends ==
  [][\A r \in Runners : running[r] # None /\ running'[r] # None =>
       taskRank(running'[r]) >= taskRank(running[r])]_vars

\* A lane whose turn is free has nobody waiting for it, whoever leaves it and
\* whether or not that was the one whose turn it was.
NoIdleLane == \A l \in Lanes : lane[l].active = None => lane[l].pending = <<>>

\* However many creates and prewarms are waiting, one lane keeps at most one slot
\* from the stops and removals.
StartsTakeOneSlot ==
  \A d, e \in slots : Starts(d) /\ Starts(e) /\ laneOf[d] = laneOf[e] => d = e

\* Whatever a poll hands over comes to an end: answered, given back, left in
\* silence for redelivery (a create delivered again on an inventory that cannot be
\* read), or dropped for a waiting task that does as much or more, or under the
\* reconciler's claim. No task waits for ever behind a claim, in a lane or for a slot.
EveryTaskIsAnswered ==
  \A d \in Deliveries : pc[d] # "new" ~> pc[d] \in {"done", "dropped"}
=============================================================================
