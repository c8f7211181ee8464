# Zoomies in TLA+

Zoomies runs GitHub Actions runners on machines its operator owns or rents. One controller process,
with one SQLite database, decides what should exist; an agent on every host makes it exist; GitHub
hands the runners their jobs. This directory holds a TLA+ model of the parts of that system where
the order of events decides whether it is right: how work reaches a host, which controller may act,
what moves a runner's row, what is left of a runner when it is over, what a rented machine costs,
how the agent orders its work, how a host is updated, and whether those who watch are told of it.

Everything is translated from the Go source (`src/internal/...`, `src/cmd/zoomies`). `PROJECT.json`
maps each definition to its lines. GitHub, the container runtime and the actions/runner program are
external: they are modelled by the answers the code is written to meet.

## 1. Inventory

### 1.1 Parts, their state and how they interact

| Part | State it keeps | Operations | Talks to |
| --- | --- | --- | --- |
| Store (`internal/store`) | SQLite rows: hosts, pools, runners, jobs, machines, sessions, lease, enrichment items, update attempts | one transaction per operation, one writer at a time | called by everything in the controller |
| Controller lease (`store/queries_lease.go`, `store/lock.go`, `controller/lease.go`) | file lock, lease row, `leaseRenewed`, `leaseLost`, fence | acquire, renew, lose, release, take over, `mayAct` | asked before every change to the fleet |
| Reconcile pass (`controller/reconcile.go`, `scheduler/`) | `reconcileMu`, a snapshot, the in-memory set of removals under way | decide, then apply: create, drain, fail, remove; recover host cleanup; reap registrations | store, GitHub, task queues |
| Task queues (`controller/agents.go`) | per host, in memory: pending, in flight with deadline and attempts, wake token, retired flag | enqueue, long poll, complete, redeliver, withdraw, sweep | pass and handlers put in; the agent's poll takes out |
| Agent (`internal/agent`) | claims, the task waiting behind each, two startup lanes, `Capacity` slots, workloads it tracks, results still to be sent | admit and order tasks; create, stop, remove a workload, heartbeat, report, clean up, restart and adopt | controller over HTTP, container or process backend |
| Webhooks and pollers (`controller/webhooks.go`, `controller/poller.go`, `controller/jobs.go`) | none of their own | merge a job's delivery, start or complete it on its runner, cancel | store, queues; run beside the pass without its lock |
| Enrichment queue and worker (`store/queries_enrichment.go`, `controller/enrichment.go`) | queue rows with a generation and a next attempt | queue, claim a batch, look, acknowledge; ask GitHub whether a runner is online, delete a registration | store, GitHub |
| Cleanup ledger (`store/queries_fleet.go`, `store/queries_runner_sessions.go`) | per runner: two stamps, two complaints, `cleaned_up_at`, the session | confirm either side, complain about either side, prune | results, reports, registration deletes, reap |
| Rented machines (`controller/machines.go`, `store/queries_machines.go`) | machine rows, claims with deadlines | create, drain, revive, delete, recover | cloud providers |
| Event bus and live updates (`internal/events`, `api/sse.go`, `api/handlers_events.go`) | ring of events, subscribers and their queues, epoch; a client's last id | publish, subscribe with replay, stream, long poll | published to by everything; web interface, scripts |
| Updates (`internal/updates`, `controller/updates_*.go`, `agent/update.go`) | update attempts, waves; on the host a request, a result and what was delivered | plan, send, close by answer, report or timeout, withdraw | task queues, agents |
| Everything else | — | — | listed in `PROJECT.json` under `components`, each with the reason it is not modelled |

### 1.2 What is hard here

* **Work done outside the lock.** The pass holds `reconcileMu`, but credentials are minted and
  registrations deleted in detached goroutines, and webhook handlers, the enrichment worker, the
  agents' requests and the operator never take it. Whatever they read may be stale when they write.
* **Three witnesses.** The row, GitHub and the host each know something of a runner, and each may be
  behind the others.
* **At-least-once everything.** Tasks are delivered again when a lease ends; results, reports and
  webhook deliveries come late, twice, out of order or not at all.
* **Memory that goes with the process.** Queues, claims and detached calls are lost in a restart and
  have to be found again from the rows.
* **Only one controller.** A paused process may wake up to a database that is somebody else's.
* **Answers that never come.** A provider may have accepted a create whose answer was lost; asking
  again at another identity rents a second machine.

The full list, line by line, is `hazards` in `PROJECT.json`.

## 2. Modules

| Module | Models | Instance | Proofs |
| --- | --- | --- | --- |
| `TaskLife` | what a host's task queue promises (abstract) | - | - |
| `TaskQueue`, implements `TaskLife` | one host's queue in the controller | `MCTaskQueue` | `TaskQueueProofs` |
| `ControllerLease` | which process may act | `MCControllerLease` | `ControllerLeaseProofs` |
| `RunnerLifecycle` | one runner's row and its writers | `MCRunnerLifecycle` | `RunnerLifecycleProofs` |
| `RunnerCleanup` | what is left of a runner, and its session | `MCRunnerCleanup` | `CleanupAndEnrichmentProofs` |
| `EventBus` | the bus, streams and long polls | `MCEventBus` | `EventBusProofs` |
| `MachineLifecycle` | one rented machine, its row and its provider | `MCMachineLifecycle` | `MachineLifecycleProofs` |
| `EnrichmentQueue` | the queue of lookups | `MCEnrichmentQueue` | `CleanupAndEnrichmentProofs` |
| `AgentTasks` | the order of work on a host | `MCAgentTasks` | `AgentTasksProofs` |
| `AttemptLife` | what the record of a host's update attempts promises (abstract) | - | - |
| `UpdateAttempts`, implements `AttemptLife` | the update attempts at one host | `MCUpdateAttempts` | `UpdateAttemptsProofs` |

Only an implementation and what it implements share state; the others meet at interfaces that each
states for itself: RunnerLifecycle and RunnerCleanup take from TaskQueue that a task is outstanding
until it is settled or dropped, may run more than once and is lost in a restart; every module's
transactions are single steps because the store has one writer; `mayAct` is a free choice in TaskQueue,
EnrichmentQueue and UpdateAttempts and is explained in ControllerLease; what an enrichment lookup or an
agent's handler does is in the runner modules, when it runs is in EnrichmentQueue and AgentTasks.
Definitions whose comment begins with "Variant" or "Faulty variant" are not part of any specification: each is a
plausible slip in the code, and the property it stands beside must notice it.

### TaskQueue

One host's `taskQueue`. `pending` is the slice, `inflight` the keys of the map, `attempts` the
delivery counts, `wake` the one-token channel; `signalling` counts the callers that have released
`q.mu` and have not yet offered the token, which is the gap a wakeup could fall into. Clock time is
the set `overdue`: a lease runs out whenever it likes. `Sweep` refiles expired tasks in any order,
because the code ranges over a map. A host that is deleted (`taskQueues.forget`) ends the queue's
life, which is where the model's behaviours stop; retirement (`RetireRecoveryHost`) is modelled,
and so is what a restart does to it: the row stays retired and the queue is new. A poll whose read of the
host's row fails (`PollTasks` then goes on as if the host were not retired) is not modelled; before a
restart the sealed queue stops such a poll as well.

`TaskLife` is the promise without the mechanism: a task is submitted once, given out at most
`limitOf` times, and over once, and no two tasks of a key are open together. The mapping is `born` =
`minted`, `waiting` = the range of `pending`, `out` = `inflight`, `given` = `attempts`, `closed` =
`hostRetired`. A sweep returns some tasks and ends others in one `Return`; a result, a redelivery, a
withdrawal and a restart are `Return`s as well; a poll that finds nothing, a signal and a lease
running out are stuttering steps.

### ControllerLease

Process starts, each with a holder name of its own, on machines with a file lock each. A renewal reads
the clock, runs its transaction, and stores what that answered: three steps, between which the process may
be paused and the row taken. The row rounds its time down to a multiple of `Grain` (milliseconds in the
code), the process does not, and the lease is a whole number of units (90 seconds). All processes read one
clock. A clean stop ends the loops first (`Stop`) and gives the row back after (`ReleaseControllerLease`); a
`Controller.Stop` that runs out of its grace period with loops still going is left out. `overridden`
remembers whose live lease a `--takeover` start took, `lostAt` when a process lost its row.

### RunnerLifecycle

One runner's row and everyone who moves it. A row's transitions never read another runner's row, so
one runner with all its actors is the whole concurrency over a row. The steps are the code's
transactions and calls: `Decide` (snapshot) and `DrainUnlessBusy`/`FailUnlessBusy`/`ApplyRemove`
(live row) are separate, with `WithdrawRegistration` between them; `ApplyJob` and `ApplyToRunner` are
the two transactions of one webhook delivery; `EnrichReadyAsks` and `EnrichReadyWrites` are the
enrichment worker before and after its call to GitHub; `MintCredentials` is the detached call and
`FinishCreateRereads`/`FinishCreatePublishes`/`FinishCreateDiscards` its last look under the lock.
`Ephemeral` chooses between a JIT registration for one job and a token registration for many.

### RunnerCleanup

The same runner seen from its end: the columns `host_removed_at`, `registration_deleted_at`, the two
errors and `cleaned_up_at`, and the session of the usage ledger. Up to `|Calls|` registration deletes
run at once (a removal, the reap, the enrichment worker, a discarded mint), each of which reads, asks
and writes in steps of its own. The enrichment queue's item is not a variable: its worker is
`EnrichmentAsks`, enabled whenever the item could exist. `counted` is a history variable: how often
`ConfirmRunnerCleanup` answered that it completed the cleanup. Losing answers, failing removals and
restarting either side are always possible. `createTask` is the create in the host's queue or in the
agent's hands: nothing withdraws it when the row ends, so `AgentCreates` may start a workload again
after its removal. What takes that one away is `ReleaseUnknown`, which names removed and deleted rows
only; a failed row whose host has confirmed becomes removed by the scheduler's reap (`ReapFailed`).

### EventBus

The bus and its two kinds of reader. An event is its number; `log` remembers, for the properties, what
was published under it. `Streams` hold a connection (`Subscribe`, `TellResync`, `Send`, `FeedEnds`,
`Break`), `Pollers` make requests: a read of the ring in two steps (`RecentMarks` takes the last id,
the ring is read after it), then, with a wait, subscribe, read again and wait. `conn` is "ended" from the
publish that found the queue full until the reader has drained what it had. `leaving` counts
subscriptions whose handler has returned and which the bus's own goroutine has still to close: they
count against the ceiling. A client that is told to resync, or answered as incomplete, fetches
everything; `base` and `seen` remember what it holds by then, so that "missed and not told" can be
said. Left out: reads by time window, ids without an epoch, a role that changes while a stream is
open (a frame is readable or not, for good), and the narrowing of a frame's contents. A wait from
`now` is the cursor of `RecentNow` followed by a wait from that id.

### MachineLifecycle

One row of `machines`, the host its agent enrols, whether a live runner is on it (`busy`), what stands
at each identity of the provider (`cloud`), and three kinds of actor. `pass` is the machine pass under
`machineRuntime.mu`, deciding on a snapshot; `steps` are `runMachineStep` goroutines, each on a copy of
the row, with the claim, the allocation of an identity, the call and the record of its outcome as
separate actions; `sweep` lists the provider outside the lock and applies the listing under it. The
operator's requests take no lock. A claim's deadline, a phase's timeout and a backoff pass at any
moment. `MaxEvents` bounds operator actions, sweeps, deadlines running out, crashes, resources lost or
taken and steps that overlap; `MaxOps` the operation ids in use at once (an id that nobody holds is used
again). A deletion's stamp, its move to `deleted` and the removal of its host are three actions of a step
(`Confirms`, `StepMoveDeleted`, `StepDeleteHost`) and of the sweep (`SweepStamp`, `SweepMove`,
`SweepDeleteHost`), each of which can fail and between which the process can die; an operator's request is
let in, cordons the host and moves the row in three actions as well, `asked` saying how far it is.
`ConfirmedMeansOver` is what the ceilings and the reuse of an identity rely on: they go by `deleted_at`.
Machine tests, the breaker and another row holding the identity
(`releaseStaleHolder`) are left out.

Worth knowing, and not contradicting any document: a live claim of the same kind is carried on with, so
two steps of one machine overlap, and the loser's conflict is internal and fails the machine; a create
can be issued again after one look, not two, when another failure has used an attempt; a step that finds
`!mayAct` records a terminal failure; an operator's delete under a live create claim (20 m 30 s) is
quarantined by the delete timeout (15 m) before a delete was sent; a machine whose outcome is unknown and
whose resource stays locked waits for ever, which is why no liveness is claimed; a controller that dies
between `ConfirmMachineDeleted` and `DeleteHost` leaves the host's row behind, because the step that
comes back finds the row stamped and takes no host (only a sweep that gets there first does); and one that
dies between `SetMachineResource` and the move to `creating` leaves a planned row that names a resource,
which the next step cannot name again and fails.

### EnrichmentQueue

`EnrichInit`, `EnrichNext`, `EnrichSpec` and `EnrichTypeOK` carry a prefix so that one proof module can
extend this module and RunnerCleanup. The rows of `control_enrichment`: `generation` (0 is no row), the
order of `next_attempt` (`earlier`) and whether it has passed (`due`). One loop claims up to `Limit`
rows and waits for all its workers; a worker looks, then acknowledges the generation it claimed. `asked`
and `covered` are history: how many requests were made, and how many a successful lookup began after.
One process is modelled: with two on one database, the generation starts at 1 again after a delete, and
a stalled worker of the older process could acknowledge a newer row.

### AgentTasks

`dispatch`, the claims (`inflight`, `running`, `waiting`), the two startup lanes, the slots, and the
reconciler's use of the same claims. A delivery is one task as one poll handed it over; `pc` is where its
goroutine is. The many early returns of `start` differ only in what they hold when they leave, and are
`GivesUp` and the failing side of `Checks`. What pauses and heartbeats said may be anything whenever it is
read.

### UpdateAttempts

The attempts at one host, numbered in the order of `requested_at`, and the three that may end one: the
agent's answer, a heartbeat with the helper's result, the pass with its timeout. Each closer reads and
judges in one step and ends in a later one, so they race. The host's side is `written`, `request`,
`helper`, `result` and `delivered`. One release only; the age limit of a result (100 minutes) and clock
skew are left out; a poll and the agent's work on the task are one step. `fenceSeen` is memory, so
`HeldReportGetsABeat` is about one process and about passes that start after the report was held. The
end of the grace assumes a beat was answered in it, which is how long it is (an interval and 15 s); the
code has only the timer. The helper (`installer/updatehelper*.go`) takes a request or refuses it, and a
refusal of a request it cannot trust names no attempt: `hostReportOutcome` takes it for the latest when it
was finished after that one was asked for. So `caused` is a failure of the open attempt's own task or
request and `unnamed` such a refusal, of whichever request, and `FailureIsItsOwn` allows the second only
to a beat; that it can be an older attempt's is item 7 of section 6. The answer to the task, like a beat
and a pass, reads in one step (`AnswerReads`) and ends in another (`AnswerCloses`), and either can fail
(`AnswerFails`). A request can be written twice when the agent restarts while the helper is at work and
the task comes again. The remark at `updates_loop.go:62-64`, that an agent restarted in between closes the
attempt as failed, predates `handleUpdate`'s answering OK to a waiting request of its own.

`AttemptLife` is the promise without the mechanism: attempts are made one after the other, one is open at
a time, each ends once, and the ending is true of the attempt it is written to: a success is of a host
that runs the release, a failure was answered or reported for that attempt or came without an id while it
was open, a time-out is of one that is out of time. The mapping is `states` = `attempts`, `failed` =
`caused \/ unnamed`, `late` = `overdue`, `runs` = `running`. A closer that comes second, and everything
that is only passed on or remembered, are stuttering steps. A cancellation has no reason: a pass that read
a deleted host may write it after the host has joined again.

## 3. What TLC checks

| Run | Instance | Shows |
| --- | --- | --- |
| `task_queue` | two updates of one agent (one key, can be withdrawn), a host check (no second delivery), a log relay (no lease); 2 deliveries; 1 task per poll | `OneOutstandingPerKey`, `NoLostWakeup`, `GoneStaysGone`, `RetiredHostGetsNothing`, `LeasedTasksSettle`, and `ImplementsTaskLife`: TaskQueue refines TaskLife |
| `controller_lease` | 3 starts, 2 machines, a column of 2 ticks, TTL of 2 units, clock to 7 | `OneControllerActs`, `SupersededStops`, `LossBoundsActing` |
| `runner_lifecycle` | JIT runner, 1 job, 2 deliveries and 2 removals at once, 1 unsent result | `LinkOnlyWhileWorking`, `SchedulerSparesJobs`, `RowMovesLegal`, `CancelledStaysCancelled` |
| `runner_persistent` | persistent runner, 2 jobs, 2 deliveries at once, no detached removal | `JobNeverDisplaced` |
| `runner_cleanup` | one registration delete at a time | `CleanedMeansClean`, `NoRunnerUnbilled`, `HostConfirmationFinal`, `CleanupCloses`, `NothingLeftBehind` |
| `event_stream` | one stream, a ring of 2, a queue of 3, 4 events of 3 topics (owed, not for this reader, not asked for), kept or not, 2 runs of the process, a ceiling of 1 | `StreamHasNoHole`, `IdleIsCurrent`, `QueueAscends`, `StreamCatchesUp` |
| `event_recent` | one poller, ring 2, queue 3, 4 events, some not its to see, pages of 1 | `PollerMissesOnlyLost`, `CursorAscends` |
| `machine_life` | 2 identities, 2 steps at once, 2 attempts, 4 operation ids, 2 interferences | `OneMachinePerReservation`, `ConfirmedMeansOver` |
| `machine_drain_race` | the same without interference | section 6: `NoWorkLost` is violated |
| `enrichment` | 2 items, one of which may fail for ever, batches of 1, 3 requests each, 1 restart or pause | `NothingForgotten`, `RequestsAreLookedInto` |
| `agent_tasks` | create, stop and remove of one runner, another runner's create, a prewarm; one lane, 2 slots | `OneAtATime`, `ChainAscends`, `NoIdleLane`, `StartsTakeOneSlot`, `EveryTaskIsAnswered` |
| `update_attempts` | 2 attempts, 1 fence, restart, deletion, switch or failure, answers lost before it | `DeliveredMeansRecorded`, `FailureIsItsOwn`, `HeldReportGetsABeat`, `FirstEndingStands`, and `ImplementsAttemptLife`: UpdateAttempts refines AttemptLife |

Type invariants are proved (section 4); those of the modules with the most state were checked by TLC first,
with the inductive invariants around them.
That no task is given out more often than its kind allows (`DeliveriesBounded`) is part of
`ImplementsTaskLife` and proved by itself; `LinkOnlyWhileWorking` is proved for persistent runners too.

**Bounds, and why they are enough.** Two tasks of one key is the least that can break uniqueness, and
two deliveries the least that separates "again" from "once too often"; the queue treats further tasks
like these. The wake protocol needs two callers signalling at once and one poll, which the four tasks
give. A column of two ticks is the least that rounds, a lease of two units the least that a rounded stamp
does not use up, and a clock of seven leaves room for acquire, expire, take over, and a late renewal by the
first holder, with a third process following. Deliveries race each other pairwise, so two handlers at once meet every
race of a row; the second job exists to try to displace the first. `runner_persistent` sets
`MaxRemovals` to 0 to afford the second job: detached removals of a persistent runner are the ones
`runner_lifecycle` has, and the proofs of section 4 hold with both for any bounds. `runner_cleanup`
runs one registration delete at a time, because liveness with two is beyond a run of minutes; the
safety properties are proved for any number. A ring of 2 and a queue
of 3 keep the one relation the code relies on (the queue is deeper than the ring); four events overrun
both, and a second run of the process reaches numbers that an id of the first may equal, exceed or
fall short of. Clients of the bus meet only at the ceiling, so one at a time is enough; with a ceiling
of 1 a stream waits for its own earlier subscription to be closed. A second machine for one reservation needs a
second identity and a second step, no more; two interferences are the least that let a claim run out or
a controller die and something else happen after it. A batch of one with an item that fails for ever is
the hardest case for the other items, and three requests let one arrive before, during and after a look.
In `agent_tasks` three starts share a lane, so that one waits while another leaves, and the three tasks
of one runner come in every order; a create and a stop can run side by side in two slots. Two attempts are
the least in which what is said of one can meet the other. The safety properties of every module are also
proved without bounds; the rest is liveness and the one violation, which need none
larger.

`CHECK_DEADLOCK FALSE` is set where the system may come to rest: the lease (all processes have exited, on
a clock at its bound), the machine (its row is forgotten, or its interferences are spent while it waits
for an operator), the enrichment queue (all answered) and the update attempts (all ended).

**Fairness.** TaskQueue: weak fairness of the poll (the agent's loop), of the poll's own timer, of the
goroutine that is about to signal, of the sweep's ticker and of time passing. Nothing is assumed about
results: an agent may never answer. `LeasedTasksSettle` also assumes that the host is in the end not
retired and the controller in the end keeps its authority; otherwise a poll is refused for ever.
RunnerCleanup: weak fairness of the loops (`RecoverHostCleanup` by the pass, the reap, the agent's own
clean-up, the release of unknown workloads, the removal of failed rows by the scheduler), of jobs, mints
and creates ending (a task has so many deliveries), and of a write that follows an
answer. Strong fairness stands for "asked again and again, it answers in the end": a host's removal
and its result, and GitHub's deletion and the write of it. Weak fairness would not do, because a lost
answer, a restart or a dropped task disables these steps over and over; and without assuming that some
attempt succeeds no retry loop ends. No fairness is given to failures, restarts or losses.
EventBus: weak fairness of a stream's reconnection (the browser's, after the retry the server names),
of the handler writing what is queued and ending a feed that was ended, and of the goroutine that
closes a subscription. `StreamCatchesUp` assumes that the connection is in the end not broken any
more. A browser that is refused for want of room does not try again by itself; that its `Subscribe` is
fair under a ceiling stands for its user, or a script, doing so.
EnrichmentQueue: weak fairness of the ticker's claim, of a claim's minute passing, of the workers (a
lookup has five seconds) and of the lease coming back; strong fairness of the lookup and its success for
`Answered` items only, and of an acknowledgement, since the store accepts in the end a write that is
tried again and again. AgentTasks: weak fairness of every goroutine and of the reconciler's release:
handlers, reports and removals have timeouts, and each of the finitely many deliveries passes a slot
once. MachineLifecycle and UpdateAttempts state no fairness, and no liveness is claimed for them.

## 4. What TLAPS proves

Each proof module extends its specification (`CleanupAndEnrichmentProofs` two, which share no state) and
proves, for all values of the constants that satisfy the module's ASSUMEs, an inductive invariant and what
follows from it.

| Theorem | Says |
| --- | --- |
| `QueueTypeCorrect`, `QueueKeysUnique`, `QueueDeliveriesBounded`, `QueueNoLostWakeup`, `QueueGoneStaysGone`, `QueueRetiredHostGetsNothing` | every safety property of TaskQueue, for any finite set of tasks |
| `QueueImplementsTaskLife` | TaskQueue implements TaskLife, step by step |
| `LeaseTypeCorrect`, `LeaseOneControllerActs`, `LeaseSupersededStops`, `LeaseLossBoundsActing` | mutual exclusion and its exact margin, for any processes, machines, resolution and TTL of whole units |
| `RunnerTypeCorrect`, `RunnerLinkConsistent`, `RunnerDrainSparesJobs`, `RunnerMovesLegal`, `RunnerJobNeverDisplaced`, `RunnerCancelledStaysCancelled` | every safety property of RunnerLifecycle that holds, for any jobs and bounds |
| `BusTypeCorrect`, `StreamsHaveNoHole`, `IdleStreamsAreCurrent`, `QueuesAscend` | what a stream may rely on, for any clients, filters, ring and queue |
| `PollersMissOnlyLost`, `CursorsAscend` | what a poller may rely on, for the same and any size of a page |
| `CleanupTypeCorrect`, `CleanedIsClean`, `LedgerComplete`, `ConfirmationFinal` | every safety property of RunnerCleanup that holds, for any number of concurrent deletes |
| `MachineTypes`, `OneMachine`, `ConfirmedIsOver` | at most one resource per reservation, and confirmation and state in step whatever write is lost, for any identities, number of steps and bounds |
| `EnrichmentTypes`, `EnrichmentForgetsNothing` | no request is lost, for any items, batch size and number of restarts |
| `UpdateTypes`, `NoResultLost`, `EndingsStand`, `FailuresAreOwn`, `HeldReportsWaitedFor` | every safety property of UpdateAttempts that holds, for any number of attempts, fences, failures and restarts |
| `RecordImplementsAttemptLife` | UpdateAttempts implements AttemptLife, step by step |
| `AgentTypes`, `AgentOneAtATime`, `AgentNoIdleLane`, `AgentStartsTakeOneSlot`, `AgentChainAscends` | every safety property of AgentTasks, for any deliveries, runners, lanes and capacity |

**The arguments.**

* *TaskQueue.* Uniqueness of keys needs that no task is both pending and in flight and that the
  pending sequence has no repetition; the delivery bound needs that a pending task still has a
  delivery left; `GoneStaysGone` needs that only minted tasks are outstanding. Lost wakeups are
  excluded because every operation that makes `pending` non-empty also raises `signalling`, and a poll
  starts to wait only on an empty queue. A queue of a retired host is empty and sealed, or was made
  anew by a restart, in which case no poll is let in.
* *ControllerLease.* The heart is the file lock: at most one live process per machine, so a lease of
  one's own host name belongs to a dead process (`HostnameAssumption`: machines that share a database
  do not share a host name). Then whoever lost the row without a takeover lost it when it was stale, and
  the last renewal the row saw of it (`Known`, noted or about to be) is at most what the row said, plus
  less than one `Grain`. Because the stale row's end is itself a time of the column, what is left to the
  loser ends with the unit in which the next holder acquired the row (`SupersededWhenStale`), and that
  holder in turn outlasts it (`OneLeftOver`).
* *RunnerLifecycle.* `IInv` is the type invariant, `LinkOnlyWhileWorking` and `DrainInv`, whose parts
  are: the lock is held once; a create is published last, by a mint that saw `provisioning` under the
  lock; a row the scheduler drained stays draining or ends; and a withdrawn registration is quiet --
  no job is assigned to it and none can be, because an ephemeral workload without its registration
  exits. `RunnerDrainSparesJobs` needs `Ephemeral`: for token registrations it is false (section 6).
* *RunnerCleanup.* Besides the types: the two stamps together are `cleaned_up_at`, a stamp excludes a
  complaint of its own side, and a session exists from the first moment both stamps do; a row that is
  gone has its session. Each store write is shown to preserve this for itself, so each action's case
  only has to say which write it makes.
* *EventBus.* `BusInv` says of the ring that it is increasing and a gapless suffix of what was kept
  (so its oldest id is the whole answer to "is anything missing"), and of every connected stream that
  owes no resync that each event it is owed has been handed over, is queued, or came after its feed was
  ended and is above everything else. The frame a stream writes is the lowest of its queue, so its id
  can only pass what it has; a replay that covers the gap restores the invariant, and one that does
  not owes a resync. A poller's part (`PollInvariant`) follows a request through its steps: what a
  read passed over was not the caller's to see (`Passed`), and, because the second read of a wait comes
  after it has subscribed, whatever of the ring the caller is still owed while it waits is in its queue or
  came after that queue was ended (`Awaited`). So every answer is `Sound`: up to the cursor it hands out it
  has all that is owed and still there, or it owns up to being incomplete.
* *TaskQueue implements TaskLife.* TaskQueue's inductive invariant gives the abstract guards: uniqueness
  of keys that of `Submit`, the delivery bound that of `GiveOut` and `Return`. Each action is then shown
  to be one step of TaskLife on the mapped state or to leave it alone.
* *MachineLifecycle.* `RowOK` says how any writer may change the row: a forgotten row stays forgotten, an
  identity and a stamp once written stay, a begun delete only ends, and a stamp goes only on a row that is
  ending. It is
  transitive and every store operation satisfies it, so every copy still tells the truth about the
  identity and about a delete (`Copies`), and a request about to go out names the row's identity
  (`Calls`). From that, what stands at the provider stands at that identity. Whoever is about to move a
  row to `deleted` has stamped it, and the stamp cannot have gone since (`Confirmed`).
* *EnrichmentQueue.* As long as a row is at the generation a worker claimed, nothing was asked since the
  worker looked (`WorkerInv`): that is why the acknowledgement may delete it.
* *AgentTasks.* `ClaimInv`: the goroutine that works on a runner is the one whose kind the claim names,
  there is one, and whoever waits outranks it, so a hand-over only ascends. `TurnInv`: a start past its
  lane has the lane's turn until it leaves, so at most one start per lane is in a slot. That `advance`
  finds a ticket whenever there is one rests on the well-foundedness of the naturals (`Least`).
* *UpdateAttempts.* Every step leaves the rows alone, ends what was open or opens the next attempt
  (`RowMoves`), and whatever either side remembers is about an attempt that was asked for (`Referred`), so
  it cannot be taken for one opened later. On that rest `Caused` (whoever is about to record a failure
  of an open attempt has it from that attempt, or, a beat, from a refusal without an id that came while
  the attempt was open), `Delivered` (a result that was delivered, or that a beat
  is about to take, is not the open attempt's unless the beat is for it) and `Held` (a held report is still
  to be sent, and the fence that held it is remembered or its grace runs). The properties do not
  carry themselves from step to step: each needs to know what a beat, an answer or a pass carries between
  its look and its write.
* *UpdateAttempts implements AttemptLife.* Two more such facts, for success (`Installed`) and the time-out
  (`Overdue`); then each of the four writers of a row is one `End` or `Ask`, and the rest learn something
  of the open attempt or nothing.

**Only model-checked:** the liveness properties (`LeasedTasksSettle`, `CleanupCloses`,
`NothingLeftBehind`, `StreamCatchesUp`, `RequestsAreLookedInto`, `EveryTaskIsAnswered`), because
fairness and ENABLED are out of the prover's reach. Every other property that a run finds to hold is
proved. The statements of section 6 are false.

## 5. Running it

```
tlc -workers 2 -config MCTaskQueue.cfg MCTaskQueue
tlapm TaskQueueProofs.tla
```

and likewise for the other modules. `task_queue` takes about three minutes with two workers, the runner
runs about two, `update_attempts` three to four, the others less.

## 6. Where the source says otherwise

`machine_drain_race` (`NoWorkLost`, `MCMachineDrainRace.cfg`) is kept as a run: `beginDrain` and
`stepDraining` of one pass both count live runners in the snapshot of the pass's start. A runner placed
after the snapshot and before the cordon is not counted, and the same pass moves the machine from ready
through draining to deleting, although "stepDraining waits for a machine's runners to finish"
(`controller/machines.go:1477`). The same loss follows when the agent's token is spent after an operator's
delete, so that the new host is open, and when `reviveDraining` uncordons the host of a machine that an
operator has just put to deleting.

The following were refuted by TLC in the same way and are kept as definitions, each with a comment, beside
the properties that hold. To see the behaviour, give the property alone to the module's MC module, with the
constants named here.

1. `LeavingBusyMeansFinished` (`RunnerLifecycle`; `Ephemeral = TRUE`, one job, `MaxHandlers = 1`):
   `enrich("ready")` writes `idle` from a row it read before asking GitHub. If the job starts in between,
   a busy row goes idle, its job link is dropped and a job is counted as handled, although "Leaving busy
   means a job just finished on this runner." (`store/queries_fleet.go:1519`).
2. `StartsOnlyUnfinishedJobs` (`RunnerLifecycle`; `Ephemeral = FALSE`, one job, `MaxHandlers = 2`): two
   deliveries of one job handled at once can leave a persistent runner linked to a job whose completion
   is already stored, although "The job ID guard makes duplicate and out-of-order deliveries harmless."
   (`store/queries_fleet.go:1877`). No later delivery clears it.
3. `SchedulerSparesJobs` with `Ephemeral = FALSE` (`RunnerLifecycle`): a starting runner that registers
   with a token is not on GitHub's list, so `withdrawRegistration` counts it as withdrawn, and it may still
   register and take a job, although "Never registered, or already gone: nothing can be assigned to it."
   (`controller/reconcile.go:986`). For JIT runners the property holds and is proved.
4. `CountedOnce` (`RunnerCleanup`; two `Calls`): a registration delete that fails after another has closed
   the cleanup reopens it, so that the cleanup is completed, and its duration observed, twice, although
   "concurrent reports and retries cannot count the same cleanup twice" (`store/queries_fleet.go:1661`).
   The session is still written once.
5. `TransientReaches` (`EventBus`; one stream): the resync for many deleted rows is not kept, and the
   replay's test does not see that its number is missing. A client that is between two connections resumes
   from its id and never hears of it, although the frame is said to be true "of none that opens afterwards,
   which is already loading everything" (`controller/controller.go:1300`). The web interface fetches
   everything on each reconnection and is not affected.
6. `NoTaskOfAnEndedAttempt` (`UpdateAttempts`; one attempt, `MaxEvents = 0`): the pass queues an attempt's
   task (`updates_hosts.go:331`) on the list of open attempts it read earlier. When the agent's answer or
   a heartbeat ends the attempt in between, the withdrawal has already run and the task stays for the host,
   although `withdrawHostUpdate` is there "so that a host that comes back after its attempt timed out is not
   then updated with nothing recording it" (`updates_hosts.go:353-355`). `requestHostUpdate` has the same
   gap between recording the attempt and queueing its task.
7. `OnlyOwnFailures` (`UpdateAttempts`; two attempts, `MaxEvents = 0`): the first attempt's request is still
   in the folder when the attempt times out and a second one is asked for. If the helper then refuses that
   request, the refusal has no id and is younger than the second attempt, so a beat ends the second as
   failed (`updates_hosts.go:536`), although "one finished after the attempt was asked for can only be the
   answer to it" (`updates_hosts.go:523-524`).

One limit has no run of its own: a long poll whose second read finds nothing keeps the first read's
word that nothing is missing (`api/handlers_events.go:242`). If the ring, 256 events, turns over between
the two reads, an event the caller asked for is gone and the answer is called complete. This is why
`PollerMissesOnlyLost` speaks of the events the ring still has.

## 7. Plan

Modelled so far are sections 2 to 4. Next, in this order:

1. A runner's life as the operator sees it, refined by RunnerLifecycle.
2. Rollouts and the wave planner above UpdateAttempts; the controller's own update.
3. Pure functions of the scheduler (placement, sizing) against reference definitions.

Not modelled, with reasons, are the parts listed as such in `PROJECT.json`: presentation, text and file
I/O, wrappers around external programs, and administration of single rows.
