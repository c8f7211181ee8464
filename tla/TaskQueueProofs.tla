--------------------------- MODULE TaskQueueProofs ---------------------------
(***************************************************************************)
(* Proofs about TaskQueue for every set of tasks, every assignment of      *)
(* kinds and subjects to them and every bound on deliveries.               *)
(***************************************************************************)
EXTENDS TaskQueue, FiniteSetTheorems, TLAPS

\* The parts of the state that hold no task any more agree with each other: a
\* task in the queue was minted, one not minted was never delivered, a sealed
\* queue is empty and its host retired, and the poll a retirement found held is
\* waiting on the sealed queue.
Bookkeeping ==
    /\ Outstanding \subseteq minted
    /\ \A t \in Tasks \ minted : attempts[t] = 0
    /\ sealed => pending = <<>> /\ inflight = {} /\ hostRetired
    /\ hostRetired /\ polling => sealed

\* The inductive invariant.
IInv ==
    /\ TypeOK
    /\ OneOutstandingPerKey
    /\ DeliveriesBounded
    /\ NoLostWakeup
    /\ Bookkeeping

-----------------------------------------------------------------------------
(* What the helpers on the queue's sequences return. *)

\* Every rearrangement of a set of tasks is a sequence of distinct tasks that
\* holds exactly that set.
LEMMA ArrangementIsSeq ==
    ASSUME NEW S \in SUBSET Tasks, NEW q \in Arrangements(S)
    PROVE  /\ q \in Seq(Tasks)
           /\ RangeOf(q) = S
           /\ \A i, j \in DOMAIN q : q[i] = q[j] => i = j
           /\ q # <<>> => S # {}
  <1>1. IsFiniteSet(S)
    BY TaskQueueAssumption, FS_Subset
  <1>2. Cardinality(S) \in Nat
    BY <1>1, FS_CardinalityType
  <1>3. /\ q \in [1..Cardinality(S) -> S]
        /\ RangeOf(q) = S
        /\ \A i, j \in DOMAIN q : q[i] = q[j] => i = j
    BY DEF Arrangements
  <1>4. q \in Seq(Tasks)
    BY <1>2, <1>3
  <1>5. q # <<>> => S # {}
    BY <1>2, <1>3 DEF RangeOf
  <1> QED
    BY <1>3, <1>4, <1>5

\* The members of a sequence are the values it has at its positions.
LEMMA InRange ==
    ASSUME NEW s \in Seq(Tasks)
    PROVE  /\ \A x : x \in RangeOf(s) <=> \E i \in 1..Len(s) : s[i] = x
           /\ DOMAIN s = 1..Len(s)
           /\ RangeOf(s) \subseteq Tasks
           /\ RangeOf(s) = {} <=> s = <<>>
  BY DEF RangeOf

\* Appending a task to the queue adds it to the set of waiting tasks.
LEMMA AppendRange ==
    ASSUME NEW s \in Seq(Tasks), NEW t \in Tasks
    PROVE  /\ Append(s, t) \in Seq(Tasks)
           /\ RangeOf(Append(s, t)) = RangeOf(s) \cup {t}
           /\ (t \notin RangeOf(s) /\ \A i, j \in DOMAIN s : s[i] = s[j] => i = j)
                => \A i, j \in DOMAIN Append(s, t) :
                      Append(s, t)[i] = Append(s, t)[j] => i = j
  <1> DEFINE u == Append(s, t)
  <1>1. /\ u \in Seq(Tasks)
        /\ Len(u) = Len(s) + 1
        /\ Len(s) \in Nat
        /\ u[Len(u)] = t
        /\ \A i \in 1..Len(s) : u[i] = s[i]
    OBVIOUS
  <1> HIDE DEF u
  <1>2. \A x : x \in RangeOf(u) <=> x \in RangeOf(s) \cup {t}
    <2>1. \A x : x \in RangeOf(u) => x \in RangeOf(s) \cup {t}
      BY <1>1, InRange
    <2>2. \A x : x \in RangeOf(s) => x \in RangeOf(u)
      BY <1>1, InRange
    <2>3. t \in RangeOf(u)
      BY <1>1, InRange
    <2> QED
      BY <2>1, <2>2, <2>3
  <1>3. ASSUME t \notin RangeOf(s), \A i, j \in DOMAIN s : s[i] = s[j] => i = j,
               NEW i \in DOMAIN u, NEW j \in DOMAIN u, u[i] = u[j]
        PROVE  i = j
    BY <1>1, <1>3, InRange
  <1>4. RangeOf(u) = RangeOf(s) \cup {t}
    BY <1>2
  <1>5. QED
    BY <1>1, <1>3, <1>4 DEF u

\* Putting a task in front of the queue adds it to the set of waiting tasks.
LEMMA FrontRange ==
    ASSUME NEW s \in Seq(Tasks), NEW t \in Tasks
    PROVE  /\ <<t>> \o s \in Seq(Tasks)
           /\ RangeOf(<<t>> \o s) = RangeOf(s) \cup {t}
           /\ (t \notin RangeOf(s) /\ \A i, j \in DOMAIN s : s[i] = s[j] => i = j)
                => \A i, j \in DOMAIN (<<t>> \o s) :
                      (<<t>> \o s)[i] = (<<t>> \o s)[j] => i = j
  <1> DEFINE u == <<t>> \o s
  <1>1. /\ u \in Seq(Tasks)
        /\ Len(u) = Len(s) + 1
        /\ Len(s) \in Nat
        /\ u[1] = t
        /\ \A i \in 1..Len(s) : u[i + 1] = s[i]
        /\ \A i \in 2..Len(u) : u[i] = s[i - 1]
    OBVIOUS
  <1> HIDE DEF u
  <1>2. \A x : x \in RangeOf(u) <=> x \in RangeOf(s) \cup {t}
    <2>1. \A x : x \in RangeOf(u) => x \in RangeOf(s) \cup {t}
      BY <1>1, InRange
    <2>2. ASSUME NEW x, x \in RangeOf(s) PROVE x \in RangeOf(u)
      <3>1. PICK i \in 1..Len(s) : s[i] = x
        BY <2>2, InRange
      <3>2. i + 1 \in 1..Len(u) /\ u[i + 1] = x
        BY <1>1, <3>1
      <3> QED
        BY <1>1, <3>2, InRange
    <2>3. t \in RangeOf(u)
      BY <1>1, InRange
    <2> QED
      BY <2>1, <2>2, <2>3
  <1>3. ASSUME t \notin RangeOf(s), \A i, j \in DOMAIN s : s[i] = s[j] => i = j,
               NEW i \in DOMAIN u, NEW j \in DOMAIN u, u[i] = u[j]
        PROVE  i = j
    <2>1. DOMAIN u = 1..Len(u) /\ DOMAIN s = 1..Len(s)
      BY <1>1
    <2>2. \A k \in 1..Len(s) : s[k] # t
      BY <1>3, InRange
    <2>3. \A k \in 2..Len(u) : k - 1 \in 1..Len(s) /\ u[k] = s[k - 1]
      BY <1>1
    <2>4. CASE i = 1 \/ j = 1
      BY <1>1, <1>3, <2>1, <2>2, <2>3, <2>4
    <2>5. CASE i \in 2..Len(u) /\ j \in 2..Len(u)
      <3>1. i - 1 = j - 1
        BY <1>3, <2>1, <2>3, <2>5
      <3> QED
        BY <1>1, <2>5, <3>1
    <2> QED
      BY <1>1, <2>1, <2>4, <2>5
  <1>4. RangeOf(u) = RangeOf(s) \cup {t}
    BY <1>2
  <1>5. QED
    BY <1>1, <1>3, <1>4 DEF u

\* Cutting the first n tasks off a queue of distinct tasks leaves the others.
LEMMA CutRange ==
    ASSUME NEW s \in Seq(Tasks), NEW n \in 0..Len(s),
           \A i, j \in DOMAIN s : s[i] = s[j] => i = j
    PROVE  LET u == SubSeq(s, n + 1, Len(s))
               c == {s[i] : i \in 1..n}
           IN  /\ u \in Seq(Tasks)
               /\ RangeOf(u) = RangeOf(s) \ c
               /\ c \subseteq RangeOf(s)
               /\ \A i, j \in DOMAIN u : u[i] = u[j] => i = j
  <1> DEFINE u == SubSeq(s, n + 1, Len(s))
             c == {s[i] : i \in 1..n}
  <1>1. /\ u \in Seq(Tasks)
        /\ Len(u) = Len(s) - n
        /\ Len(s) \in Nat
        /\ \A i \in 1..Len(u) : u[i] = s[i + n]
    OBVIOUS
  <1>2. \A x : x \in c <=> \E i \in 1..n : s[i] = x
    OBVIOUS
  <1> HIDE DEF u, c
  <1>3. c \subseteq RangeOf(s)
    <2>1. \A x \in c : \E i \in 1..Len(s) : s[i] = x
      BY <1>1, <1>2
    <2> QED
      BY <2>1, InRange
  <1>4. ASSUME NEW x, x \in RangeOf(u) PROVE x \in RangeOf(s) \ c
    <2>1. PICK i \in 1..Len(u) : u[i] = x
      BY <1>1, <1>4, InRange
    <2>2. i + n \in 1..Len(s) /\ s[i + n] = x /\ i + n \notin 1..n
      BY <1>1, <2>1
    <2>3. x \in RangeOf(s)
      BY <2>2, InRange
    <2>4. x \notin c
      <3>1. DOMAIN s = 1..Len(s) /\ 1..n \subseteq 1..Len(s)
        BY <1>1
      <3>2. \A k \in 1..n : s[k] = x => k = i + n
        BY <2>2, <3>1
      <3> QED
        BY <1>2, <2>2, <3>2
    <2> QED
      BY <2>3, <2>4
  <1>5. ASSUME NEW x, x \in RangeOf(s) \ c PROVE x \in RangeOf(u)
    <2>1. PICK i \in 1..Len(s) : s[i] = x
      BY <1>5, InRange
    <2>2. i \notin 1..n
      BY <1>2, <1>5, <2>1
    <2>3. i - n \in 1..Len(u) /\ u[i - n] = x
      BY <1>1, <2>1, <2>2
    <2> QED
      BY <1>1, <2>3, InRange
  <1>6. RangeOf(u) = RangeOf(s) \ c
    BY <1>4, <1>5
  <1>7. ASSUME NEW i \in DOMAIN u, NEW j \in DOMAIN u, u[i] = u[j]
        PROVE  i = j
    <2>1. DOMAIN u = 1..Len(u) /\ DOMAIN s = 1..Len(s)
      BY <1>1
    <2>2. i + n \in 1..Len(s) /\ j + n \in 1..Len(s) /\ s[i + n] = s[j + n]
      BY <1>1, <1>7, <2>1
    <2>3. i + n = j + n
      BY <2>1, <2>2
    <2> QED
      BY <1>1, <2>1, <2>3
  <1>8. QED
    BY <1>1, <1>3, <1>6, <1>7 DEF u, c

\* Every kind of task may be delivered at least once, and none more often than
\* maxTaskAttempts.
LEMMA MaxAttemptsType ==
    ASSUME NEW t \in Tasks
    PROVE  maxAttempts(t) \in 1..maxTaskAttempts
  BY TaskQueueAssumption DEF maxAttempts

-----------------------------------------------------------------------------
(* The steps that move tasks about in the queue, one lemma each. *)

\* take moves tasks from pending into flight, delivers each once more, and
\* leaves the set of outstanding tasks as it is.
LEMMA TakeStep ==
    ASSUME IInv, Take
    PROVE  /\ pending' \in Seq(Tasks)
           /\ inflight' \in SUBSET Tasks
           /\ overdue' \in SUBSET Tasks
           /\ attempts' \in [Tasks -> 0..maxTaskAttempts]
           /\ Outstanding' = Outstanding
           /\ RangeOf(pending)' \subseteq RangeOf(pending)
           /\ RangeOf(pending)' \cap inflight' = {}
           /\ \A i, j \in DOMAIN pending' : pending'[i] = pending'[j] => i = j
           /\ \A t \in Tasks : attempts'[t] <= maxAttempts(t)
           /\ \A t \in RangeOf(pending)' : attempts'[t] = attempts[t]
           /\ \A t \in Tasks \ Outstanding : attempts'[t] = attempts[t]
           /\ sealed => UNCHANGED <<pending, attempts>>
  <1> DEFINE n     == SmallerOf(maxTasksPerPoll, Len(pending))
             taken == {pending[i] : i \in 1..n}
  <1>1. CASE sealed
    BY <1>1 DEF IInv, TypeOK, Take, OneOutstandingPerKey, DeliveriesBounded,
                Outstanding
  <1>2. CASE ~sealed
    <2>1. /\ pending \in Seq(Tasks)
          /\ inflight \in SUBSET Tasks
          /\ overdue \in SUBSET Tasks
          /\ attempts \in [Tasks -> 0..maxTaskAttempts]
          /\ \A i, j \in DOMAIN pending : pending[i] = pending[j] => i = j
          /\ RangeOf(pending) \cap inflight = {}
      BY DEF IInv, TypeOK, OneOutstandingPerKey
    <2>2. n \in 0..Len(pending)
      BY <2>1, TaskQueueAssumption DEF SmallerOf
    <2>3. /\ pending' = SubSeq(pending, n + 1, Len(pending))
          /\ inflight' = inflight \cup taken
          /\ overdue' = overdue \ taken
          /\ attempts' = [t \in Tasks |->
                            IF t \in taken THEN attempts[t] + 1 ELSE attempts[t]]
      BY <1>2 DEF Take
    <2>4. /\ pending' \in Seq(Tasks)
          /\ RangeOf(pending') = RangeOf(pending) \ taken
          /\ taken \subseteq RangeOf(pending)
          /\ \A i, j \in DOMAIN pending' : pending'[i] = pending'[j] => i = j
      BY <2>1, <2>2, <2>3, CutRange
    <2> HIDE DEF n, taken
    <2>5. RangeOf(pending) \subseteq Tasks
      BY <2>1, InRange
    <2>6. \A t \in taken : attempts[t] + 1 <= maxAttempts(t)
      BY <2>1, <2>4, <2>5, MaxAttemptsType DEF IInv, DeliveriesBounded
    <2>7. \A t \in Tasks : attempts'[t] <= maxAttempts(t)
      BY <2>3, <2>6 DEF IInv, DeliveriesBounded
    <2>8. attempts' \in [Tasks -> 0..maxTaskAttempts]
      <3>1. \A t \in Tasks : attempts'[t] \in Nat
        BY <2>1, <2>3, TaskQueueAssumption
      <3>2. \A t \in Tasks : attempts'[t] \in 0..maxTaskAttempts
        BY <2>7, <3>1, MaxAttemptsType, TaskQueueAssumption
      <3> QED
        BY <2>3, <3>2
    <2>9. \A t \in RangeOf(pending') : attempts'[t] = attempts[t]
      BY <2>3, <2>4, <2>5
    <2>12. \A t \in Tasks \ Outstanding : attempts'[t] = attempts[t]
      BY <2>3, <2>4 DEF Outstanding
    <2>10. Outstanding' = Outstanding
      BY <2>3, <2>4 DEF Outstanding
    <2>11. /\ RangeOf(pending') \subseteq RangeOf(pending)
           /\ RangeOf(pending') \cap inflight' = {}
           /\ inflight' \in SUBSET Tasks
           /\ overdue' \in SUBSET Tasks
      BY <2>1, <2>3, <2>4, <2>5
    <2> QED
      BY <1>2, <2>4, <2>7, <2>8, <2>9, <2>10, <2>11, <2>12
  <1> QED
    BY <1>1, <1>2

\* What a sweep leaves: expired tasks are pending again or gone, and no task
\* that was not outstanding comes back.
LEMMA SweepStep ==
    ASSUME IInv, Sweep
    PROVE  /\ pending' \in Seq(Tasks)
           /\ inflight' \in SUBSET Tasks
           /\ overdue' \in SUBSET Tasks
           /\ signalling' \in Nat
           /\ Outstanding' \subseteq Outstanding
           /\ RangeOf(pending)' \cap inflight' = {}
           /\ \A i, j \in DOMAIN pending' : pending'[i] = pending'[j] => i = j
           /\ \A t \in RangeOf(pending)' : attempts[t] < maxAttempts(t)
           /\ pending' # <<>> => pending # <<>> \/ signalling' > 0
           /\ sealed /\ inflight = {} => pending' = <<>>
  <1> DEFINE lapsed == inflight \cap overdue
             again  == {t \in lapsed : attempts[t] < maxAttempts(t)}
             stale  == {t \in RangeOf(pending) \cup again :
                          kindOf[t] = "check_host" /\ t \in overdue}
             left   == (RangeOf(pending) \cup again) \ stale
  <1>1. /\ pending \in Seq(Tasks)
        /\ inflight \in SUBSET Tasks
        /\ overdue \in SUBSET Tasks
        /\ signalling \in Nat
        /\ RangeOf(pending) \cap inflight = {}
        /\ \A t \in RangeOf(pending) : attempts[t] < maxAttempts(t)
        /\ sealed => pending = <<>>
    BY DEF IInv, TypeOK, OneOutstandingPerKey, DeliveriesBounded, Bookkeeping
  <1>2. RangeOf(pending) \subseteq Tasks /\ (RangeOf(pending) = {} <=> pending = <<>>)
    BY <1>1, InRange
  <1>3. /\ pending' \in Arrangements(left)
        /\ inflight' = inflight \ lapsed
        /\ overdue' = overdue \ (lapsed \cup stale)
        /\ signalling' = IF again = {} THEN signalling ELSE signalling + 1
    BY DEF Sweep
  <1>4. left \in SUBSET Tasks
    BY <1>1, <1>2
  <1>5. /\ pending' \in Seq(Tasks)
        /\ RangeOf(pending') = left
        /\ \A i, j \in DOMAIN pending' : pending'[i] = pending'[j] => i = j
        /\ pending' # <<>> => left # {}
    BY <1>3, <1>4, ArrangementIsSeq
  <1>6. Outstanding' \subseteq Outstanding
    BY <1>3, <1>5 DEF Outstanding
  <1>7. RangeOf(pending') \cap inflight' = {}
    BY <1>1, <1>3, <1>5
  <1>8. \A t \in RangeOf(pending') : attempts[t] < maxAttempts(t)
    BY <1>1, <1>5
  <1>9. pending' # <<>> => pending # <<>> \/ signalling' > 0
    BY <1>1, <1>2, <1>3, <1>5
  <1>10. sealed /\ inflight = {} => pending' = <<>>
    BY <1>1, <1>2, <1>5
  <1> QED
    BY <1>1, <1>3, <1>5, <1>6, <1>7, <1>8, <1>9, <1>10

\* What a withdrawal leaves: a part of what was pending and in flight.
LEMMA WithdrawStep ==
    ASSUME IInv, NEW S \in SUBSET Tasks, NEW inFlight \in BOOLEAN,
           Withdraw(S, inFlight)
    PROVE  /\ pending' \in Seq(Tasks)
           /\ inflight' \subseteq inflight
           /\ overdue' \in SUBSET Tasks
           /\ RangeOf(pending)' \subseteq RangeOf(pending)
           /\ \A i, j \in DOMAIN pending' : pending'[i] = pending'[j] => i = j
           /\ pending' # <<>> => pending # <<>>
  <1> DEFINE gone == {t \in S : t \in RangeOf(pending) \/ (inFlight /\ t \in inflight)}
             left == RangeOf(pending) \ gone
  <1>1. pending \in Seq(Tasks) /\ overdue \in SUBSET Tasks
    BY DEF IInv, TypeOK
  <1>2. RangeOf(pending) \subseteq Tasks /\ (RangeOf(pending) = {} <=> pending = <<>>)
    BY <1>1, InRange
  <1>3. /\ pending' \in Arrangements(left)
        /\ inflight' = inflight \ gone
        /\ overdue' = overdue \ gone
    BY DEF Withdraw
  <1>4. left \in SUBSET Tasks
    BY <1>2
  <1>5. /\ pending' \in Seq(Tasks)
        /\ RangeOf(pending') = left
        /\ \A i, j \in DOMAIN pending' : pending'[i] = pending'[j] => i = j
        /\ pending' # <<>> => left # {}
    BY <1>3, <1>4, ArrangementIsSeq
  <1> QED
    BY <1>1, <1>2, <1>3, <1>5

-----------------------------------------------------------------------------
(* The invariant is inductive. *)

\* A step that leaves no task outstanding that was not keeps keys unique.
LEMMA FewerKeepKeys ==
    ASSUME IInv, Outstanding' \subseteq Outstanding,
           RangeOf(pending)' \cap inflight' = {},
           \A i, j \in DOMAIN pending' : pending'[i] = pending'[j] => i = j
    PROVE  OneOutstandingPerKey'
  <1>1. \A s, t \in Outstanding' : taskKey(s) = taskKey(t) => s = t
    BY DEF IInv, OneOutstandingPerKey
  <1> QED
    BY <1>1 DEF OneOutstandingPerKey, taskKey

\* An empty new queue satisfies the invariant.
LEMMA IInvInit == Init => IInv
  <1> SUFFICES ASSUME Init PROVE IInv
    OBVIOUS
  <1>1. RangeOf(pending) = {} /\ pending \in Seq(Tasks)
    BY DEF Init, RangeOf
  <1>2. TypeOK
    <2>1. mayAct \in BOOLEAN
      BY Zenon DEF Init
    <2>2. attempts \in [Tasks -> 0..maxTaskAttempts]
      BY TaskQueueAssumption DEF Init
    <2> QED
      BY <1>1, <2>1, <2>2 DEF Init, TypeOK
  <1>3. OneOutstandingPerKey
    <2>1. DOMAIN pending = {}
      BY DEF Init
    <2> QED
      BY <1>1, <2>1 DEF Init, OneOutstandingPerKey, Outstanding
  <1>4. DeliveriesBounded
    <2>1. \A t \in Tasks : attempts[t] = 0 /\ maxAttempts(t) \in Nat
      BY MaxAttemptsType, TaskQueueAssumption DEF Init
    <2> QED
      BY <1>1, <2>1 DEF DeliveriesBounded
  <1>5. NoLostWakeup /\ Bookkeeping
    BY <1>1 DEF Init, NoLostWakeup, Bookkeeping, Outstanding
  <1> QED
    BY <1>2, <1>3, <1>4, <1>5 DEF IInv

\* Every step of the queue keeps the invariant.
LEMMA IInvNext == IInv /\ [Next]_vars => IInv'
  <1> SUFFICES ASSUME IInv, [Next]_vars PROVE IInv'
    OBVIOUS
  <1>0. /\ TypeOK /\ OneOutstandingPerKey /\ DeliveriesBounded
        /\ NoLostWakeup /\ Bookkeeping
    BY DEF IInv
  <1>r. /\ RangeOf(pending) \subseteq Tasks
        /\ RangeOf(pending) = {} <=> pending = <<>>
    BY <1>0, InRange DEF TypeOK
  <1>1. ASSUME NEW t \in Tasks, Enqueue(t) PROVE IInv'
    <2>1. t \notin RangeOf(pending) /\ t \notin inflight
      BY <1>0, <1>1 DEF Bookkeeping, Enqueue, Outstanding
    <2>2. /\ pending' \in Seq(Tasks)
          /\ RangeOf(pending') = RangeOf(pending) \cup {t}
          /\ \A i, j \in DOMAIN pending' : pending'[i] = pending'[j] => i = j
      BY <1>0, <1>1, <2>1, AppendRange DEF Enqueue, TypeOK, OneOutstandingPerKey
    <2>3. Outstanding' = Outstanding \cup {t}
      BY <1>1, <2>2 DEF Enqueue, Outstanding
    <2>4. TypeOK'
      BY <1>0, <1>1, <2>2 DEF TypeOK, Enqueue
    <2>5. OneOutstandingPerKey'
      <3>1. \A u, v \in Outstanding' : taskKey(u) = taskKey(v) => u = v
        BY <1>0, <1>1, <2>3 DEF Enqueue, OneOutstandingPerKey
      <3>2. RangeOf(pending') \cap inflight' = {}
        BY <1>0, <1>1, <2>1, <2>2 DEF Enqueue, OneOutstandingPerKey
      <3> QED
        BY <2>2, <3>1, <3>2 DEF OneOutstandingPerKey, taskKey
    <2>6. DeliveriesBounded'
      <3>1. attempts[t] < maxAttempts(t)
        BY <1>0, <1>1, MaxAttemptsType, TaskQueueAssumption DEF Enqueue, Bookkeeping
      <3> QED
        BY <1>0, <1>1, <2>2, <3>1 DEF DeliveriesBounded, Enqueue, maxAttempts
    <2>7. NoLostWakeup'
      BY <1>0, <1>1 DEF NoLostWakeup, Enqueue, TypeOK
    <2>8. Bookkeeping'
      BY <1>0, <1>1, <2>3 DEF Bookkeeping, Enqueue
    <2> QED
      BY <2>4, <2>5, <2>6, <2>7, <2>8 DEF IInv
  <1>2. ASSUME NEW t \in Tasks, Lapse(t) PROVE IInv'
    BY <1>0, <1>2 DEF Lapse, IInv, TypeOK, OneOutstandingPerKey, DeliveriesBounded,
         NoLostWakeup, Bookkeeping, Outstanding, taskKey, maxAttempts, RangeOf
  <1>3. ASSUME NEW t \in Tasks, ResultApplied(t) PROVE IInv'
    <2>1. pending' = pending /\ Outstanding' \subseteq Outstanding
      BY <1>3 DEF ResultApplied, Outstanding
    <2>2. OneOutstandingPerKey'
      BY <1>0, <1>3, <2>1, FewerKeepKeys DEF ResultApplied, OneOutstandingPerKey
    <2>3. TypeOK' /\ DeliveriesBounded' /\ NoLostWakeup'
      BY <1>0, <1>3 DEF ResultApplied, TypeOK, DeliveriesBounded, NoLostWakeup,
           maxAttempts
    <2>4. Bookkeeping'
      BY <1>0, <1>3, <2>1 DEF ResultApplied, Bookkeeping
    <2> QED
      BY <2>2, <2>3, <2>4 DEF IInv
  <1>4. ASSUME NEW t \in Tasks, ResultNotStarted(t) PROVE IInv'
    <2>1. t \in inflight /\ t \notin RangeOf(pending) /\ ~sealed
      BY <1>0, <1>4 DEF ResultNotStarted, OneOutstandingPerKey, Bookkeeping
    <2>2. /\ pending' \in Seq(Tasks)
          /\ RangeOf(pending') = RangeOf(pending) \cup {t}
          /\ \A i, j \in DOMAIN pending' : pending'[i] = pending'[j] => i = j
      BY <1>0, <1>4, <2>1, FrontRange DEF ResultNotStarted, TypeOK, OneOutstandingPerKey
    <2>3. Outstanding' = Outstanding /\ RangeOf(pending') \cap inflight' = {}
      BY <1>0, <1>4, <2>1, <2>2
         DEF ResultNotStarted, Outstanding, OneOutstandingPerKey
    <2>4. OneOutstandingPerKey'
      BY <1>0, <2>2, <2>3, FewerKeepKeys
    <2>5. TypeOK' /\ NoLostWakeup'
      BY <1>0, <1>4, <2>2 DEF ResultNotStarted, TypeOK, NoLostWakeup
    <2>6. DeliveriesBounded'
      BY <1>0, <1>4, <2>2 DEF ResultNotStarted, DeliveriesBounded, maxAttempts
    <2>7. Bookkeeping'
      BY <1>0, <1>4, <2>1, <2>3 DEF ResultNotStarted, Bookkeeping
    <2> QED
      BY <2>4, <2>5, <2>6, <2>7 DEF IInv
  <1>5. ASSUME Take,
               UNCHANGED <<minted, sealed, hostRetired, signalling, mayAct>>,
               polling' = FALSE, wake' \in BOOLEAN
        PROVE  IInv'
    <2>1. OneOutstandingPerKey'
      BY <1>5, TakeStep, FewerKeepKeys
    <2>2. TypeOK'
      BY <1>0, <1>5, TakeStep DEF TypeOK
    <2>3. DeliveriesBounded'
      BY <1>0, <1>5, TakeStep DEF DeliveriesBounded, maxAttempts
    <2>4. NoLostWakeup'
      BY <1>5 DEF NoLostWakeup
    <2>5. Bookkeeping'
      BY <1>0, <1>5, TakeStep DEF Bookkeeping, Take
    <2> QED
      BY <2>1, <2>2, <2>3, <2>4, <2>5 DEF IInv
  <1>6. CASE Signal
    BY <1>0, <1>6 DEF Signal, IInv, TypeOK, OneOutstandingPerKey, DeliveriesBounded,
         NoLostWakeup, Bookkeeping, Outstanding, taskKey, maxAttempts, RangeOf
  <1>7. CASE PollTakes
    BY <1>0, <1>5, <1>7 DEF PollTakes, TypeOK
  <1>8. CASE PollHolds
    BY <1>0, <1>8 DEF PollHolds, IInv, TypeOK, OneOutstandingPerKey, DeliveriesBounded,
         NoLostWakeup, Bookkeeping, Outstanding, taskKey, maxAttempts, RangeOf
  <1>9. ASSUME UNCHANGED <<pending, inflight, attempts, overdue, minted, sealed,
                           hostRetired, signalling, mayAct>>,
               polling' = FALSE, wake' \in BOOLEAN
        PROVE  IInv'
    <2>1. TypeOK'
      BY <1>0, <1>9 DEF TypeOK
    <2>2. OneOutstandingPerKey' /\ DeliveriesBounded'
      BY <1>0, <1>9 DEF OneOutstandingPerKey, DeliveriesBounded, Outstanding,
           taskKey, maxAttempts, RangeOf
    <2>3. NoLostWakeup' /\ Bookkeeping'
      BY <1>0, <1>9 DEF NoLostWakeup, Bookkeeping, Outstanding, RangeOf
    <2> QED
      BY <2>1, <2>2, <2>3 DEF IInv
  <1>10. CASE PollWakes
    BY <1>0, <1>5, <1>9, <1>10 DEF PollWakes, TypeOK
  <1>11. CASE PollEnds
    BY <1>0, <1>9, <1>11 DEF PollEnds, TypeOK
  <1>12. CASE Sweep
    <2>1. OneOutstandingPerKey'
      BY <1>12, SweepStep, FewerKeepKeys
    <2>2. UNCHANGED <<attempts, minted, sealed, hostRetired, wake, polling, mayAct>>
      BY <1>12 DEF Sweep
    <2>3. TypeOK'
      BY <1>0, <1>12, <2>2, SweepStep DEF TypeOK
    <2>4. DeliveriesBounded'
      BY <1>0, <1>12, <2>2, SweepStep DEF DeliveriesBounded, maxAttempts
    <2>5. NoLostWakeup'
      <3>1. signalling \in Nat /\ signalling' \in Nat /\ signalling' >= signalling
        BY <1>0, <1>12 DEF Sweep, TypeOK
      <3> QED
        BY <1>0, <1>12, <2>2, <3>1, SweepStep DEF NoLostWakeup
    <2>6. Bookkeeping'
      <3>1. sealed => inflight' = {} /\ pending' = <<>>
        BY <1>0, <1>12, SweepStep DEF Bookkeeping, Sweep
      <3> QED
        BY <1>0, <1>12, <2>2, <3>1, SweepStep DEF Bookkeeping
    <2> QED
      BY <2>1, <2>3, <2>4, <2>5, <2>6 DEF IInv
  <1>13. ASSUME NEW S \in SUBSET Tasks, NEW inFlight \in BOOLEAN,
                Withdraw(S, inFlight)
         PROVE  IInv'
    <2>1. /\ pending' \in Seq(Tasks)
          /\ inflight' \subseteq inflight
          /\ overdue' \in SUBSET Tasks
          /\ RangeOf(pending') \subseteq RangeOf(pending)
          /\ \A i, j \in DOMAIN pending' : pending'[i] = pending'[j] => i = j
          /\ pending' # <<>> => pending # <<>>
      BY <1>13, WithdrawStep
    <2>2. UNCHANGED <<attempts, minted, sealed, hostRetired, wake, signalling,
                      polling, mayAct>>
      BY <1>13 DEF Withdraw
    <2>3. /\ Outstanding' \subseteq Outstanding
          /\ RangeOf(pending') \cap inflight' = {}
      BY <1>0, <2>1 DEF Outstanding, OneOutstandingPerKey
    <2>4. OneOutstandingPerKey'
      BY <2>1, <2>3, FewerKeepKeys
    <2>5. TypeOK' /\ NoLostWakeup'
      BY <1>0, <2>1, <2>2 DEF TypeOK, NoLostWakeup
    <2>6. DeliveriesBounded'
      BY <1>0, <2>1, <2>2 DEF DeliveriesBounded, maxAttempts
    <2>7. Bookkeeping'
      BY <1>0, <2>1, <2>2, <2>3 DEF Bookkeeping
    <2> QED
      BY <2>4, <2>5, <2>6, <2>7 DEF IInv
  <1>14. ASSUME pending' = <<>>, inflight' = {}, overdue' = {},
                UNCHANGED <<attempts, minted>>, TypeOK',
                sealed' => hostRetired', hostRetired' /\ polling' => sealed'
         PROVE  IInv'
    <2>1. DOMAIN pending' = {} /\ RangeOf(pending') = {}
      BY <1>14 DEF RangeOf
    <2>2. Outstanding' = {}
      BY <1>14, <2>1 DEF Outstanding
    <2>3. OneOutstandingPerKey' /\ NoLostWakeup'
      BY <1>14, <2>1, <2>2 DEF OneOutstandingPerKey, NoLostWakeup
    <2>4. DeliveriesBounded'
      BY <1>0, <1>14, <2>1 DEF DeliveriesBounded, maxAttempts
    <2>5. Bookkeeping'
      BY <1>0, <1>14, <2>2 DEF Bookkeeping
    <2> QED
      BY <1>14, <2>3, <2>4, <2>5 DEF IInv
  <1>15. CASE RetireRecoveryHost
    <2>1. TypeOK'
      BY <1>0, <1>15 DEF RetireRecoveryHost, TypeOK
    <2> QED
      BY <1>14, <1>15, <2>1 DEF RetireRecoveryHost
  <1>16. CASE Restart
    <2>1. TypeOK'
      <3>1. mayAct' \in BOOLEAN
        BY <1>16, Zenon DEF Restart
      <3>2. /\ pending' = <<>> /\ inflight' = {} /\ overdue' = {}
            /\ sealed' = FALSE /\ wake' = FALSE /\ signalling' = 0
            /\ polling' = FALSE
            /\ UNCHANGED <<attempts, minted, hostRetired>>
        BY <1>16, Zenon DEF Restart
      <3>3. /\ pending' \in Seq(Tasks) /\ inflight' \in SUBSET Tasks
            /\ attempts' \in [Tasks -> 0..maxTaskAttempts]
            /\ overdue' \in SUBSET Tasks /\ minted' \in SUBSET Tasks
            /\ signalling' \in Nat
        BY <1>0, <3>2 DEF TypeOK
      <3>4. /\ sealed' \in BOOLEAN /\ hostRetired' \in BOOLEAN
            /\ wake' \in BOOLEAN /\ polling' \in BOOLEAN
        BY <1>0, <3>2, Zenon DEF TypeOK
      <3> QED
        BY <3>1, <3>3, <3>4, Zenon DEF TypeOK
    <2> QED
      BY <1>14, <1>16, <2>1 DEF Restart
  <1>17. CASE AuthorityChanges
    BY <1>0, <1>17 DEF AuthorityChanges, IInv, TypeOK, OneOutstandingPerKey,
         DeliveriesBounded, NoLostWakeup, Bookkeeping, Outstanding, taskKey,
         maxAttempts, RangeOf
  <1>18. CASE UNCHANGED vars
    BY <1>0, <1>18 DEF vars, IInv, TypeOK, OneOutstandingPerKey, DeliveriesBounded,
         NoLostWakeup, Bookkeeping, Outstanding, taskKey, maxAttempts, RangeOf
  <1> QED
    BY <1>1, <1>2, <1>3, <1>4, <1>6, <1>7, <1>8, <1>10, <1>11, <1>12, <1>13, <1>15,
       <1>16, <1>17, <1>18 DEF Next

-----------------------------------------------------------------------------
(* The theorems. *)

\* The inductive invariant holds of every behaviour of the queue.
THEOREM QueueInvariant == Spec => []IInv
  BY IInvInit, IInvNext, PTL DEF Spec

\* Every variable of the queue keeps its type.
THEOREM QueueTypeCorrect == Spec => []TypeOK
  <1>1. IInv => TypeOK
    BY DEF IInv
  <1> QED
    BY <1>1, QueueInvariant, PTL

\* enqueue, take, sweep, redeliver and withdraw between them keep at most one
\* task of a key outstanding and never hold a task twice.
THEOREM QueueKeysUnique == Spec => []OneOutstandingPerKey
  <1>1. IInv => OneOutstandingPerKey
    BY DEF IInv
  <1> QED
    BY <1>1, QueueInvariant, PTL

\* No task is delivered more often than its kind allows, whichever of the sweep
\* and the agent's give-back returns it to the queue.
THEOREM QueueDeliveriesBounded == Spec => []DeliveriesBounded
  <1>1. IInv => DeliveriesBounded
    BY DEF IInv
  <1> QED
    BY <1>1, QueueInvariant, PTL

\* The one-token channel loses no wakeup although the token is offered after
\* the queue's lock is released.
THEOREM QueueNoLostWakeup == Spec => []NoLostWakeup
  <1>1. IInv => NoLostWakeup
    BY DEF IInv
  <1> QED
    BY <1>1, QueueInvariant, PTL

\* A task that has left the queue never comes back to it.
THEOREM QueueGoneStaysGone == Spec => GoneStaysGone
  <1>1. ASSUME IInv, [Next]_vars
        PROVE  [\A t \in minted : t \notin Outstanding => t \notin Outstanding']_vars
    <2> SUFFICES ASSUME Next, NEW t \in minted, t \notin Outstanding
                 PROVE  t \notin Outstanding'
      BY <1>1
    <2>1. TypeOK /\ IInv
      BY <1>1 DEF IInv
    <2>2. ASSUME NEW u \in Tasks, Enqueue(u) PROVE t \notin Outstanding'
      <3>1. RangeOf(pending') = RangeOf(pending) \cup {u}
        BY <2>1, <2>2, AppendRange DEF Enqueue, TypeOK
      <3> QED
        BY <2>2, <3>1 DEF Enqueue, Outstanding
    <2>3. ASSUME NEW u \in Tasks, ResultNotStarted(u) PROVE t \notin Outstanding'
      <3>1. RangeOf(pending') = RangeOf(pending) \cup {u}
        BY <2>1, <2>3, FrontRange DEF ResultNotStarted, TypeOK
      <3> QED
        BY <2>3, <3>1 DEF ResultNotStarted, Outstanding
    <2>4. ASSUME NEW u \in Tasks, Lapse(u) \/ ResultApplied(u)
          PROVE  t \notin Outstanding'
      BY <2>4 DEF Lapse, ResultApplied, Outstanding, RangeOf
    <2>5. CASE PollTakes \/ (PollWakes /\ mayAct)
      <3>1. Take
        BY <2>5 DEF PollTakes, PollWakes
      <3> QED
        BY <2>1, <3>1, TakeStep
    <2>6. CASE Signal \/ PollHolds \/ PollEnds \/ AuthorityChanges
      BY <2>6 DEF Signal, PollHolds, PollEnds, AuthorityChanges, Outstanding, RangeOf
    <2>7. CASE PollWakes /\ ~mayAct
      BY <2>7 DEF PollWakes, Outstanding, RangeOf
    <2>8. CASE Sweep
      BY <2>1, <2>8, SweepStep
    <2>9. ASSUME NEW S \in SUBSET Tasks, NEW inFlight \in BOOLEAN,
                 Withdraw(S, inFlight)
          PROVE  t \notin Outstanding'
      BY <2>1, <2>9, WithdrawStep DEF Outstanding
    <2>10. CASE RetireRecoveryHost \/ Restart
      BY <2>10 DEF RetireRecoveryHost, Restart, Outstanding, RangeOf
    <2> QED
      BY <2>2, <2>3, <2>4, <2>5, <2>6, <2>7, <2>8, <2>9, <2>10 DEF Next
  <1> QED
    BY <1>1, QueueInvariant, PTL DEF Spec, GoneStaysGone

\* Nothing is delivered to a host once it is retired, whatever polls were held
\* and however often the controller restarts.
THEOREM QueueRetiredHostGetsNothing == Spec => RetiredHostGetsNothing
  <1>1. ASSUME IInv, [Next]_vars
        PROVE  [hostRetired => attempts' = attempts]_vars
    <2> SUFFICES ASSUME Next, hostRetired PROVE attempts' = attempts
      BY <1>1
    <2>1. CASE PollWakes
      <3>1. sealed
        BY <1>1, <2>1 DEF IInv, Bookkeeping, PollWakes
      <3> QED
        BY <2>1, <3>1 DEF PollWakes, Take
    <2>2. CASE ~PollWakes
      BY <2>2 DEF Next, Enqueue, Lapse, ResultApplied, ResultNotStarted, Signal,
           PollTakes, PollHolds, PollEnds, Sweep, Withdraw, RetireRecoveryHost,
           Restart, AuthorityChanges
    <2> QED
      BY <2>1, <2>2
  <1> QED
    BY <1>1, QueueInvariant, PTL DEF Spec, RetiredHostGetsNothing

-----------------------------------------------------------------------------
(* The queue implements TaskLife. *)

\* A poll that takes gives out the tasks it takes, on a host that is not
\* retired, each of them with a delivery left.
LEMMA TakeGivesOut ==
    ASSUME IInv, Take, ~hostRetired, UNCHANGED <<minted, hostRetired>>
    PROVE  Life!Next
  <1> DEFINE n     == SmallerOf(maxTasksPerPoll, Len(pending))
             taken == {pending[i] : i \in 1..n}
  <1>1. /\ pending \in Seq(Tasks)
        /\ \A i, j \in DOMAIN pending : pending[i] = pending[j] => i = j
        /\ \A t \in RangeOf(pending) : attempts[t] < maxAttempts(t)
        /\ ~sealed
    BY DEF IInv, TypeOK, OneOutstandingPerKey, DeliveriesBounded, Bookkeeping
  <1>2. n \in 0..Len(pending)
    BY <1>1, TaskQueueAssumption DEF SmallerOf
  <1>3. /\ pending' = SubSeq(pending, n + 1, Len(pending))
        /\ inflight' = inflight \cup taken
        /\ attempts' = [t \in Tasks |->
                          IF t \in taken THEN attempts[t] + 1 ELSE attempts[t]]
    BY <1>1 DEF Take
  <1>4. /\ RangeOf(pending') = RangeOf(pending) \ taken
        /\ taken \subseteq RangeOf(pending)
    BY <1>1, <1>2, <1>3, CutRange
  <1> HIDE DEF n, taken
  <1>5. RangeOf(pending) \subseteq Tasks
    BY <1>1, InRange
  <1>6. \A t \in taken : attempts[t] < [u \in Tasks |-> maxAttempts(u)][t]
    BY <1>1, <1>4, <1>5
  <1>7. Life!GiveOut(taken)
    BY <1>3, <1>4, <1>6 DEF Life!GiveOut
  <1> QED
    BY <1>4, <1>7 DEF Life!Next

\* A sweep takes back the expired tasks that may be delivered again and ends
\* the others and the stale host checks.
LEMMA SweepReturns ==
    ASSUME IInv, Sweep
    PROVE  Life!Next
  <1> DEFINE lapsed == inflight \cap overdue
             again  == {t \in lapsed : attempts[t] < maxAttempts(t)}
             stale  == {t \in RangeOf(pending) \cup again :
                          kindOf[t] = "check_host" /\ t \in overdue}
             left   == (RangeOf(pending) \cup again) \ stale
             done   == (lapsed \ again) \cup stale
  <1>1. /\ pending \in Seq(Tasks)
        /\ inflight \in SUBSET Tasks
        /\ RangeOf(pending) \cap inflight = {}
    BY DEF IInv, TypeOK, OneOutstandingPerKey
  <1>2. RangeOf(pending) \subseteq Tasks
    BY <1>1, InRange
  <1>3. /\ pending' \in Arrangements(left)
        /\ inflight' = inflight \ lapsed
        /\ UNCHANGED <<attempts, minted, hostRetired>>
    BY DEF Sweep
  <1>4. left \in SUBSET Tasks
    BY <1>1, <1>2
  <1>5. RangeOf(pending') = left
    BY <1>3, <1>4, ArrangementIsSeq
  <1>6. /\ again \subseteq inflight
        /\ done \subseteq RangeOf(pending) \cup inflight
        /\ left = (RangeOf(pending) \cup again) \ done
        /\ inflight \ lapsed = inflight \ (again \cup done)
    BY <1>1
  <1>7. \A t \in again : attempts[t] < [u \in Tasks |-> maxAttempts(u)][t]
    BY <1>1
  <1> HIDE DEF lapsed, again, stale, left, done
  <1>8. Life!Return(again, done)
    BY <1>3, <1>5, <1>6, <1>7 DEF Life!Return
  <1> QED
    BY <1>6, <1>8 DEF Life!Next, Life!Open

\* A new queue is the beginning of every task's life.
LEMMA LifeInit == Init => Life!Init
  BY DEF Init, Life!Init, RangeOf

\* Every step of the queue is a step of the tasks' lives or changes none.
LEMMA LifeNext == IInv /\ [Next]_vars => [Life!Next]_Life!vars
  <1> SUFFICES ASSUME IInv, [Next]_vars PROVE [Life!Next]_Life!vars
    OBVIOUS
  <1>0. /\ pending \in Seq(Tasks)
        /\ RangeOf(pending) \subseteq Tasks
        /\ inflight \subseteq Tasks
        /\ RangeOf(pending) \cap inflight = {}
        /\ \A t \in RangeOf(pending) : attempts[t] < maxAttempts(t)
    BY InRange DEF IInv, TypeOK, OneOutstandingPerKey, DeliveriesBounded
  <1>1. ASSUME NEW t \in Tasks, Enqueue(t) PROVE Life!Next
    <2>1. RangeOf(pending') = RangeOf(pending) \cup {t}
      BY <1>0, <1>1, AppendRange DEF Enqueue
    <2>2. \A u \in RangeOf(pending) \cup inflight :
             [v \in Tasks |-> taskKey(v)][u] # [v \in Tasks |-> taskKey(v)][t]
      BY <1>0, <1>1 DEF Enqueue, Outstanding
    <2>3. Life!Submit(t)
      BY <1>1, <2>1, <2>2 DEF Enqueue, Life!Submit, Life!Open
    <2> QED
      BY <1>1, <2>3 DEF Enqueue, Life!Next
  <1>2. ASSUME NEW t \in Tasks, ResultApplied(t) PROVE Life!Next
    <2>1. t \notin RangeOf(pending) /\ t \in inflight
      BY <1>0, <1>2 DEF ResultApplied
    <2>2. Life!Return({}, {t})
      BY <1>2, <2>1 DEF ResultApplied, Life!Return
    <2> QED
      BY <2>1, <2>2 DEF Life!Next, Life!Open
  <1>3. ASSUME NEW t \in Tasks, ResultNotStarted(t) PROVE Life!Next
    <2>1. RangeOf(pending') = RangeOf(pending) \cup {t}
      BY <1>0, <1>3, FrontRange DEF ResultNotStarted
    <2>2. t \in inflight /\ attempts[t] < [u \in Tasks |-> maxAttempts(u)][t]
      BY <1>3 DEF ResultNotStarted
    <2>3. Life!Return({t}, {})
      BY <1>3, <2>1, <2>2 DEF ResultNotStarted, Life!Return
    <2> QED
      BY <2>2, <2>3 DEF Life!Next, Life!Open
  <1>4. CASE PollTakes
    BY <1>4, TakeGivesOut DEF PollTakes
  <1>5. CASE PollWakes /\ mayAct /\ ~hostRetired
    BY <1>5, TakeGivesOut DEF PollWakes
  <1>6. CASE PollWakes /\ (hostRetired \/ ~mayAct)
    <2>1. UNCHANGED <<pending, inflight, attempts, minted, hostRetired>>
      BY <1>6 DEF PollWakes, Take, IInv, Bookkeeping
    <2> QED
      BY <2>1 DEF Life!vars, RangeOf
  <1>7. CASE Sweep
    BY <1>7, SweepReturns
  <1>8. ASSUME NEW S \in SUBSET Tasks, NEW inFlight \in BOOLEAN,
               Withdraw(S, inFlight)
        PROVE  Life!Next
    <2> DEFINE gone == {t \in S : t \in RangeOf(pending) \/ (inFlight /\ t \in inflight)}
               left == RangeOf(pending) \ gone
    <2>1. /\ pending' \in Arrangements(left)
          /\ inflight' = inflight \ gone
          /\ UNCHANGED <<attempts, minted, hostRetired>>
      BY <1>8 DEF Withdraw
    <2>2. left \in SUBSET Tasks
      BY <1>0
    <2>3. RangeOf(pending') = left
      BY <2>1, <2>2, ArrangementIsSeq
    <2>4. gone \subseteq RangeOf(pending) \cup inflight
      OBVIOUS
    <2>5. RangeOf(pending') = RangeOf(pending) \ gone
      BY <2>3
    <2> HIDE DEF gone, left
    <2>6. Life!Return({}, gone)
      BY <2>1, <2>5 DEF Life!Return
    <2> QED
      BY <2>4, <2>6 DEF Life!Next, Life!Open
  <1>9. CASE RetireRecoveryHost
    <2>1. Life!Close
      BY <1>9 DEF RetireRecoveryHost, Life!Close, RangeOf
    <2> QED
      BY <2>1 DEF Life!Next
  <1>10. CASE Restart
    <2> DEFINE open == RangeOf(pending) \cup inflight
    <2>1. RangeOf(pending') = RangeOf(pending) \ open /\ inflight' = inflight \ open
      BY <1>10 DEF Restart, RangeOf
    <2>2. UNCHANGED <<attempts, minted, hostRetired>>
      BY <1>10 DEF Restart
    <2> HIDE DEF open
    <2>3. Life!Return({}, open)
      BY <2>1, <2>2 DEF Life!Return
    <2> QED
      BY <2>3 DEF Life!Next, Life!Open, open
  <1>11. ASSUME UNCHANGED <<pending, inflight, attempts, minted, hostRetired>>
         PROVE  UNCHANGED Life!vars
    BY <1>11 DEF Life!vars, RangeOf
  <1>12. ASSUME NEW t \in Tasks, Lapse(t) PROVE UNCHANGED Life!vars
    BY <1>11, <1>12 DEF Lapse
  <1>13. CASE Signal \/ PollHolds \/ PollEnds \/ AuthorityChanges \/ UNCHANGED vars
    BY <1>11, <1>13 DEF Signal, PollHolds, PollEnds, AuthorityChanges, vars
  <1> QED
    BY <1>1, <1>2, <1>3, <1>4, <1>5, <1>6, <1>7, <1>8, <1>9, <1>10, <1>12, <1>13
       DEF Next

\* The queue implements the life of a task that TaskLife describes, for every
\* set of tasks, every assignment of keys and every bound on deliveries.
THEOREM QueueImplementsTaskLife == Spec => ImplementsTaskLife
  <1> QED
    BY LifeInit, LifeNext, QueueInvariant, PTL
       DEF Spec, ImplementsTaskLife, Life!Spec

=============================================================================
