------------------------------ MODULE TaskQueue ------------------------------
(***************************************************************************)
(* One host's task queue in the controller (internal/controller/agents.go):*)
(* pending and leased work, the long poll that hands it out, the sweep that*)
(* offers an expired lease again, results that come late, twice or never,  *)
(* withdrawal, retirement of the host, and a controller restart, which     *)
(* loses the queue because it lives in memory only.                        *)
(*                                                                         *)
(* Time is abstracted to the set of tasks whose lease (or, for an          *)
(* undelivered host check, time to live) has run out.  A task's identity   *)
(* is the random ID controller.enqueue gives it, so each is used once.     *)
(***************************************************************************)
EXTENDS Naturals, Sequences, FiniteSets

CONSTANTS Tasks,            \* the task IDs that may be minted
          Subjects,         \* runners, pools, streams, update and merge attempts
          kindOf,           \* agent.Task.Kind of each task
          subjectOf,        \* what the rest of its key names
          maxTaskAttempts,  \* 3 in the code
          maxTasksPerPoll   \* 20 in the code

TaskKinds == {"create_runner", "stop_runner", "remove_runner", "prewarm_image",
              "fill_tool_cache", "check_host", "update_agent",
              "merge_conflict", "stream_logs"}

ASSUME TaskQueueAssumption ==
    /\ IsFiniteSet(Tasks)
    /\ kindOf \in [Tasks -> TaskKinds]
    /\ subjectOf \in [Tasks -> Subjects]
    /\ maxTaskAttempts \in Nat \ {0}
    /\ maxTasksPerPoll \in Nat \ {0}

VARIABLES
    pending,      \* taskQueue.pending
    inflight,     \* the IDs in taskQueue.inflight
    attempts,     \* leasedTask.attempts, kept when the task has left
    overdue,      \* tasks whose lease or pending time to live has run out
    minted,       \* the IDs used so far
    sealed,       \* taskQueue.retired
    hostRetired,  \* the host row's Retired, which a restart keeps
    wake,         \* the token in taskQueue.wake
    signalling,   \* callers between releasing q.mu and offering the token
    polling,      \* a poll of this host is held, waiting on wake
    mayAct        \* Controller.mayAct

vars == <<pending, inflight, attempts, overdue, minted, sealed, hostRetired,
          wake, signalling, polling, mayAct>>

-----------------------------------------------------------------------------
taskKey(t) == <<kindOf[t], subjectOf[t]>>

\* requeueAfter: a log relay is tied to a browser and has no lease.
Leased(t) == kindOf[t] # "stream_logs"

lifecycleTask(t) == kindOf[t] \in {"create_runner", "stop_runner", "remove_runner"}

maxAttempts(t) == IF kindOf[t] = "check_host" THEN 1 ELSE maxTaskAttempts

RangeOf(s) == {s[i] : i \in DOMAIN s}

Outstanding == RangeOf(pending) \cup inflight

SmallerOf(m, n) == IF m <= n THEN m ELSE n

Arrangements(S) ==
    {q \in [1..Cardinality(S) -> S] :
        /\ RangeOf(q) = S
        /\ \A i, j \in DOMAIN q : q[i] = q[j] => i = j}

\* q holds the tasks of pending that are in kept, in the order they had, and
\* then the tasks of again in whatever order the inflight map yielded them.
Refiled(q, kept, again) ==
    /\ q \in Arrangements(kept \cup again)
    /\ \A i, j \in DOMAIN q : i < j =>
         \/ q[j] \in again
         \/ /\ q[i] \in kept
            /\ \E k, l \in DOMAIN pending :
                 k < l /\ pending[k] = q[i] /\ pending[l] = q[j]

-----------------------------------------------------------------------------
TypeOK ==
    /\ pending \in Seq(Tasks)
    /\ inflight \in SUBSET Tasks
    /\ attempts \in [Tasks -> 0..maxTaskAttempts]
    /\ overdue \in SUBSET Tasks
    /\ minted \in SUBSET Tasks
    /\ sealed \in BOOLEAN
    /\ hostRetired \in BOOLEAN
    /\ wake \in BOOLEAN
    /\ signalling \in Nat
    /\ polling \in BOOLEAN
    /\ mayAct \in BOOLEAN

Init ==
    /\ pending = <<>>
    /\ inflight = {}
    /\ attempts = [t \in Tasks |-> 0]
    /\ overdue = {}
    /\ minted = {}
    /\ sealed = FALSE
    /\ hostRetired = FALSE
    /\ wake = FALSE
    /\ signalling = 0
    /\ polling = FALSE
    /\ mayAct \in BOOLEAN

-----------------------------------------------------------------------------
\* Faulty variant: enqueue looks for the key among the pending tasks only.
EnqueuePendingOnly(t) ==
    /\ t \notin minted
    /\ lifecycleTask(t) => mayAct
    /\ ~sealed
    /\ \A u \in RangeOf(pending) : taskKey(u) # taskKey(t)
    /\ minted' = minted \cup {t}
    /\ pending' = Append(pending, t)
    /\ signalling' = signalling + 1
    /\ UNCHANGED <<inflight, attempts, overdue, sealed, hostRetired, wake,
                   polling, mayAct>>

\* controller.enqueue and taskQueue.enqueue.  A refused task is dropped, and
\* its ID is never seen again, so the refusal is the action's guard.
Enqueue(t) ==
    /\ t \notin minted
    /\ lifecycleTask(t) => mayAct
    /\ ~sealed
    /\ \A u \in Outstanding : taskKey(u) # taskKey(t)
    /\ minted' = minted \cup {t}
    /\ pending' = Append(pending, t)
    /\ signalling' = signalling + 1
    /\ UNCHANGED <<inflight, attempts, overdue, sealed, hostRetired, wake,
                   polling, mayAct>>

\* The select at the end of enqueue, redeliver and sweep: it never blocks.
Signal ==
    /\ signalling > 0
    /\ signalling' = signalling - 1
    /\ wake' = TRUE
    /\ UNCHANGED <<pending, inflight, attempts, overdue, minted, sealed,
                   hostRetired, polling, mayAct>>

\* taskQueue.take: the first tasks of the queue go into flight.
Take ==
    LET n     == SmallerOf(maxTasksPerPoll, Len(pending))
        taken == {pending[i] : i \in 1..n}
    IN  IF sealed
        THEN UNCHANGED <<pending, inflight, attempts, overdue>>
        ELSE /\ pending' = SubSeq(pending, n + 1, Len(pending))
             /\ inflight' = inflight \cup taken
             /\ attempts' = [t \in Tasks |->
                               IF t \in taken THEN attempts[t] + 1 ELSE attempts[t]]
             /\ overdue' = overdue \ taken

\* PollTasks of a host that is not retired and has no other poll held.  A
\* queue with work is answered at once; an empty one is waited on.
PollTakes ==
    /\ ~hostRetired /\ ~polling /\ mayAct
    /\ pending # <<>>
    /\ Take
    /\ UNCHANGED <<minted, sealed, hostRetired, wake, signalling, polling, mayAct>>

PollHolds ==
    /\ ~hostRetired /\ ~polling /\ mayAct
    /\ pending = <<>>
    /\ polling' = TRUE
    /\ UNCHANGED <<pending, inflight, attempts, overdue, minted, sealed,
                   hostRetired, wake, signalling, mayAct>>

\* The token wakes the held poll, which looks at mayAct again before it takes.
PollWakes ==
    /\ polling /\ wake
    /\ wake' = FALSE
    /\ polling' = FALSE
    /\ IF mayAct THEN Take ELSE UNCHANGED <<pending, inflight, attempts, overdue>>
    /\ UNCHANGED <<minted, sealed, hostRetired, signalling, mayAct>>

\* The wait elapses or the agent hangs up.
PollEnds ==
    /\ polling
    /\ polling' = FALSE
    /\ UNCHANGED <<pending, inflight, attempts, overdue, minted, sealed,
                   hostRetired, wake, signalling, mayAct>>

-----------------------------------------------------------------------------
\* Faulty variant: requeueAfter gives a lease to lifecycle tasks only.
LapseLifecycleOnly(t) ==
    /\ t \notin overdue
    /\ t \in inflight /\ lifecycleTask(t)
    /\ overdue' = overdue \cup {t}
    /\ UNCHANGED <<pending, inflight, attempts, minted, sealed, hostRetired,
                   wake, signalling, polling, mayAct>>

\* Time: a lease runs out, or a host check has waited hostCheckPendingTTL.
Lapse(t) ==
    /\ t \notin overdue
    /\ \/ t \in inflight /\ Leased(t)
       \/ t \in RangeOf(pending) /\ kindOf[t] = "check_host"
    /\ overdue' = overdue \cup {t}
    /\ UNCHANGED <<pending, inflight, attempts, minted, sealed, hostRetired,
                   wake, signalling, polling, mayAct>>

\* taskQueue.sweep: expired leases are offered again while attempts remain, and
\* host checks nobody has taken are dropped from what is then pending.
Sweep ==
    LET lapsed == inflight \cap overdue
        again  == {t \in lapsed : attempts[t] < maxAttempts(t)}
        stale  == {t \in RangeOf(pending) \cup again :
                     kindOf[t] = "check_host" /\ t \in overdue}
    IN  /\ lapsed \cup stale # {}
        /\ inflight' = inflight \ lapsed
        /\ \E q \in Arrangements((RangeOf(pending) \cup again) \ stale) :
             /\ Refiled(q, RangeOf(pending) \ stale, again \ stale)
             /\ pending' = q
        /\ overdue' = overdue \ (lapsed \cup stale)
        /\ signalling' = IF again = {} THEN signalling ELSE signalling + 1
        /\ UNCHANGED <<attempts, minted, sealed, hostRetired, wake, polling, mayAct>>

-----------------------------------------------------------------------------
\* ReportResult of a task that was delivered at some time: taskQueue.complete
\* once everything the result asks for is written.  A task that is not in
\* flight (withdrawn, requeued, lost with a restart) is not found.
ResultApplied(t) ==
    /\ t \in inflight
    /\ inflight' = inflight \ {t}
    /\ overdue' = overdue \ {t}
    /\ UNCHANGED <<pending, attempts, minted, sealed, hostRetired, wake,
                   signalling, polling, mayAct>>

\* Faulty variants of redeliver: it does not offer the token, it brings back a
\* task that is not in flight any more.
RedeliverSilent(t) ==
    /\ t \in inflight
    /\ attempts[t] < maxAttempts(t)
    /\ inflight' = inflight \ {t}
    /\ pending' = <<t>> \o pending
    /\ overdue' = overdue \ {t}
    /\ UNCHANGED <<attempts, minted, sealed, hostRetired, wake, signalling,
                   polling, mayAct>>

RedeliverUnknown(t) ==
    /\ t \notin RangeOf(pending)
    /\ attempts[t] \in 1..(maxAttempts(t) - 1)
    /\ inflight' = inflight \ {t}
    /\ pending' = <<t>> \o pending
    /\ overdue' = overdue \ {t}
    /\ signalling' = signalling + 1
    /\ UNCHANGED <<attempts, minted, sealed, hostRetired, wake, polling, mayAct>>

\* ReportResult with NotStarted: taskQueue.redeliver puts the task in front, or
\* the result is applied as a failure when no attempt is left.
ResultNotStarted(t) ==
    /\ t \in inflight
    /\ attempts[t] < maxAttempts(t)
    /\ inflight' = inflight \ {t}
    /\ pending' = <<t>> \o pending
    /\ overdue' = overdue \ {t}
    /\ signalling' = signalling + 1
    /\ UNCHANGED <<attempts, minted, sealed, hostRetired, wake, polling, mayAct>>

\* taskQueue.withdraw, which withdrawUpdateTasks calls for the update tasks of
\* one attempt or of the host; the ones in flight only when asked to.
Withdraw(S, inFlight) ==
    LET gone == {t \in S : t \in RangeOf(pending) \/ (inFlight /\ t \in inflight)}
    IN  /\ gone # {}
        /\ \A t \in S : kindOf[t] = "update_agent"
        /\ \E q \in Arrangements(RangeOf(pending) \ gone) :
             /\ Refiled(q, RangeOf(pending) \ gone, {})
             /\ pending' = q
        /\ inflight' = inflight \ gone
        /\ overdue' = overdue \ gone
        /\ UNCHANGED <<attempts, minted, sealed, hostRetired, wake, signalling,
                       polling, mayAct>>

-----------------------------------------------------------------------------
\* Faulty variant: the row is retired and the queue left as it is.
RetireRowOnly ==
    /\ ~hostRetired
    /\ hostRetired' = TRUE
    /\ UNCHANGED <<pending, inflight, attempts, overdue, minted, sealed, wake,
                   signalling, polling, mayAct>>

\* RetireRecoveryHost: the row, then the queue, under recoveryMu, which every
\* poll and result holds for reading.
RetireRecoveryHost ==
    /\ ~hostRetired
    /\ hostRetired' = TRUE
    /\ sealed' = TRUE
    /\ pending' = <<>>
    /\ inflight' = {}
    /\ overdue' = {}
    /\ UNCHANGED <<attempts, minted, wake, signalling, polling, mayAct>>

\* The controller stops and starts: newTaskQueues, and no poll is held.
Restart ==
    /\ pending' = <<>>
    /\ inflight' = {}
    /\ overdue' = {}
    /\ sealed' = FALSE
    /\ wake' = FALSE
    /\ signalling' = 0
    /\ polling' = FALSE
    /\ mayAct' \in BOOLEAN
    /\ UNCHANGED <<attempts, minted, hostRetired>>

\* The fence is set or lifted, the lease lapses or is renewed.
AuthorityChanges ==
    /\ mayAct' = ~mayAct
    /\ UNCHANGED <<pending, inflight, attempts, overdue, minted, sealed,
                   hostRetired, wake, signalling, polling>>

Next ==
    \/ \E t \in Tasks : \/ Enqueue(t)
                        \/ Lapse(t)
                        \/ ResultApplied(t)
                        \/ ResultNotStarted(t)
    \/ Signal
    \/ PollTakes
    \/ PollHolds
    \/ PollWakes
    \/ PollEnds
    \/ Sweep
    \/ \E S \in SUBSET Tasks, inFlight \in BOOLEAN : Withdraw(S, inFlight)
    \/ RetireRecoveryHost
    \/ Restart
    \/ AuthorityChanges

Spec == Init /\ [][Next]_vars

\* The agent polls in a loop, the poll's own timer ends it, the signalling
\* goroutine runs on, time passes, and the sweep is on a ticker.
Fairness ==
    /\ WF_vars(PollTakes)
    /\ WF_vars(PollWakes)
    /\ WF_vars(PollEnds)
    /\ WF_vars(Signal)
    /\ WF_vars(Sweep)
    /\ \A t \in Tasks : WF_vars(Lapse(t))

FairSpec == Spec /\ Fairness

-----------------------------------------------------------------------------
(***************************************************************************)
(* What the queue promises.                                                *)
(***************************************************************************)

\* taskKey's promise: at most one task of a key is outstanding, whether it is
\* pending, leased, requeued by the sweep or given back by the agent, and no
\* task is held twice.
OneOutstandingPerKey ==
    /\ \A s, t \in Outstanding : taskKey(s) = taskKey(t) => s = t
    /\ RangeOf(pending) \cap inflight = {}
    /\ \A i, j \in DOMAIN pending : pending[i] = pending[j] => i = j

\* A task is delivered at most maxAttempts times, and one that still waits in
\* the queue has a delivery left: neither the sweep nor a give-back returns a
\* task that the next take would deliver once too often.
DeliveriesBounded ==
    /\ \A t \in Tasks : attempts[t] <= maxAttempts(t)
    /\ \A t \in RangeOf(pending) : attempts[t] < maxAttempts(t)

\* A poll is never left waiting beside work it could take: whenever the queue
\* of a held poll is not empty, the token is there or about to be offered.
NoLostWakeup ==
    polling /\ pending # <<>> => wake \/ signalling > 0

\* A task that has left the queue (answered, dropped, withdrawn, cleared or
\* lost with a restart) is never pending or in flight again, so an answer that
\* comes late finds nothing to change.
GoneStaysGone ==
    [][\A t \in minted : t \notin Outstanding => t \notin Outstanding']_vars

\* Nothing is delivered to a retired host, not even by a poll that was already
\* held when it was retired or after a restart made its queue anew. A poll is
\* taken to read the host's row: one whose read fails goes on as if the host were
\* not retired, and then only the sealed queue stops it.
RetiredHostGetsNothing ==
    [][hostRetired => attempts' = attempts]_vars

\* On a host that is not retired, under a controller that in the end keeps its
\* authority, every leased task leaves the queue: none is stuck in flight by
\* an agent that went away, and none is offered for ever.
LeasedTasksSettle ==
    <>[](mayAct /\ ~hostRetired) =>
        \A t \in Tasks : t \in Outstanding /\ Leased(t) ~> t \notin Outstanding

-----------------------------------------------------------------------------
Life == INSTANCE TaskLife
    WITH born    <- minted,
         waiting <- RangeOf(pending),
         out     <- inflight,
         given   <- attempts,
         closed  <- hostRetired,
         keyOf   <- [t \in Tasks |-> taskKey(t)],
         limitOf <- [t \in Tasks |-> maxAttempts(t)]

\* The queue, with its polls, leases, sweeps, late results, withdrawals and
\* restarts, implements the life of a task that TaskLife describes: whichever
\* way a task leaves or comes back, it is one step of that life.
ImplementsTaskLife == Life!Spec

=============================================================================
