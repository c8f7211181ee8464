--------------------------- MODULE AgentTasksProofs ---------------------------
(***************************************************************************)
(* Proofs about AgentTasks for every set of deliveries, runners and lanes  *)
(* and every capacity.                                                     *)
(***************************************************************************)
EXTENDS AgentTasks, WellFoundedInduction, TLAPS

HoldPlaces == {"lane", "slot", "check", "run"}
TurnPlaces == {"slot", "check", "run", "report"}
LaneType == [active : Deliveries \cup {None}, pending : Seq(Deliveries)]

\* The goroutine that works on a runner is the one whose kind the claim names.
HolderInv ==
  \A d \in Deliveries : Holds(d) =>
     /\ runnerOf[d] \in inflight \ tidying
     /\ running[runnerOf[d]] = kindOf[d]

OneHolder ==
  \A d, e \in Deliveries : Holds(d) /\ Holds(e) /\ runnerOf[d] = runnerOf[e] => d = e

\* What waits behind a claim is a held delivery of that runner that outranks the
\* task it waits for.
WaitInv ==
  \A r \in Runners : waiting[r] # None =>
     /\ r \in inflight
     /\ running[r] # None
     /\ pc[waiting[r]] = "held"
     /\ runnerOf[waiting[r]] = r
     /\ taskRank(kindOf[waiting[r]]) > taskRank(running[r])

\* No dispatched task is behind a claim that is free or the reconciler's.
FreeInv ==
  /\ tidying \subseteq inflight
  /\ \A r \in Runners : r \notin inflight \/ r \in tidying => running[r] = None

\* A start that is past its lane has the lane's turn until it leaves, and only a
\* prewarm sleeps before it asks for one.
TurnInv ==
  /\ \A d \in Deliveries : Starts(d) /\ pc[d] \in TurnPlaces => lane[laneOf[d]].active = d
  /\ \A d \in slots : pc[d] \in {"check", "run", "report"}
  /\ \A d \in Deliveries : pc[d] = "delay" => ~NamesRunner(d)

ClaimInv == HolderInv /\ OneHolder /\ WaitInv /\ FreeInv

\* The inductive invariant.
IInv == TypeOK /\ ClaimInv /\ TurnInv /\ NoIdleLane

-----------------------------------------------------------------------------
(* What the operations of a startup queue return. *)

\* A non-empty set of naturals has a least member.
LEMMA Least ==
  ASSUME NEW T \in SUBSET Nat, T # {}
  PROVE  \E x \in T : \A y \in T : x <= y
  <1> DEFINE R == OpToRel(<, Nat)
  <1>1. IsWellFoundedOn(R, Nat)
    BY NatLessThanWellFounded, Zenon
  <1> HIDE DEF R
  <1>2. PICK x \in T : \A y \in T : <<y, x>> \notin R
    BY <1>1, WFMin, Zenon
  <1>3. \A m, n \in Nat : n < m => <<n, m>> \in R
    BY DEF R, OpToRel
  <1>4. ASSUME NEW y \in T PROVE x <= y
    <2>1. ~(y < x)
      BY <1>2, <1>3
    <2> QED
      BY <2>1
  <1> QED
    BY <1>4

\* advance finds a ticket whenever there is one.
LEMMA TicketFound ==
  ASSUME NEW p \in Seq(Deliveries), p # <<>>
  PROVE  NextTicket(p) \in 1..Len(p)
  <1> DEFINE T == {n \in 1..Len(p) : Creates(p[n])}
  <1>1. Len(p) \in Nat /\ Len(p) >= 1
    OBVIOUS
  <1>2. CASE T = {}
    BY <1>1, <1>2 DEF NextTicket
  <1>3. CASE T # {}
    <2>1. T \in SUBSET Nat
      BY <1>1
    <2>2. PICK n \in T : \A m \in T : n <= m
      BY <1>3, <2>1, Least
    <2>3. \A k \in 1..(n - 1) : k \in 1..Len(p) /\ ~(n <= k)
      BY <1>1, <2>2
    <2>4. \A k \in 1..(n - 1) : ~Creates(p[k])
      BY <2>2, <2>3
    <2>5. \E k \in 1..Len(p) : Creates(p[k]) /\ \A j \in 1..(k - 1) : ~Creates(p[j])
      BY <2>2, <2>4
    <2>6. (CHOOSE k \in 1..Len(p) : Creates(p[k]) /\ \A j \in 1..(k - 1) : ~Creates(p[j]))
             \in 1..Len(p)
      BY <2>5
    <2> HIDE DEF T
    <2>7. \E k \in 1..Len(p) : Creates(p[k])
      BY <2>5
    <2> QED
      BY <2>6, <2>7, Zenon DEF NextTicket
  <1> QED
    BY <1>2, <1>3

\* Cutting one ticket out leaves a queue of tickets.
LEMMA WithoutType ==
  ASSUME NEW p \in Seq(Deliveries), NEW n \in 1..Len(p)
  PROVE  Without(p, n) \in Seq(Deliveries)
  <1>1. SubSeq(p, 1, n - 1) \in Seq(Deliveries)
    OBVIOUS
  <1>2. SubSeq(p, n + 1, Len(p)) \in Seq(Deliveries)
    OBVIOUS
  <1> QED
    BY <1>1, <1>2 DEF Without

\* After advance a free turn means that nobody waits, and a turn that was taken
\* stays with whom it was.
LEMMA AdvanceLane ==
  ASSUME NEW q \in LaneType
  PROVE  /\ advance(q) \in LaneType
         /\ advance(q).active = None => advance(q).pending = <<>>
         /\ q.active # None => advance(q) = q
  <1>1. CASE q.active # None \/ q.pending = <<>>
    BY <1>1 DEF advance
  <1>2. CASE ~(q.active # None \/ q.pending = <<>>)
    <2> DEFINE n == NextTicket(q.pending)
    <2>1. q.pending \in Seq(Deliveries) /\ q.pending # <<>>
      BY <1>2 DEF LaneType
    <2>2. n \in 1..Len(q.pending)
      BY <2>1, TicketFound
    <2>3. advance(q) = [active |-> q.pending[n], pending |-> Without(q.pending, n)]
      BY <1>2 DEF advance
    <2> HIDE DEF n
    <2>4. q.pending[n] \in Deliveries /\ Without(q.pending, n) \in Seq(Deliveries)
      BY <2>1, <2>2, WithoutType
    <2>5. None \notin Deliveries
      BY AgentAssumption
    <2> QED
      BY <1>2, <2>3, <2>4, <2>5 DEF LaneType
  <1> QED
    BY <1>1, <1>2

\* A ticket that joins a lane takes nobody's turn.
LEMMA EnqueueLane ==
  ASSUME NEW q \in LaneType, NEW d \in Deliveries
  PROVE  /\ enqueue(q, d) \in LaneType
         /\ enqueue(q, d).active = None => enqueue(q, d).pending = <<>>
         /\ q.active # None => enqueue(q, d).active = q.active
  <1> DEFINE u == [q EXCEPT !.pending = Append(@, d)]
  <1>1. u \in LaneType /\ u.active = q.active
    BY DEF LaneType
  <1>2. enqueue(q, d) = advance(u)
    BY DEF enqueue
  <1> HIDE DEF u
  <1> QED
    BY <1>1, <1>2, AdvanceLane

\* A ticket that leaves a lane takes nobody else's turn.
LEMMA DoneLane ==
  ASSUME NEW q \in LaneType, NEW d \in Deliveries
  PROVE  /\ done(q, d) \in LaneType
         /\ done(q, d).active = None => done(q, d).pending = <<>>
         /\ q.active # None /\ q.active # d => done(q, d).active = q.active
  <1> DEFINE u == Unticketed(q, d)
  <1>1. u \in LaneType /\ (q.active # d => u.active = q.active)
    <2>1. CASE q.active = d
      BY <2>1 DEF Unticketed, LaneType
    <2>2. CASE q.active # d /\ \E n \in 1..Len(q.pending) : q.pending[n] = d
      <3>1. First(q.pending, d) \in 1..Len(q.pending)
        BY <2>2 DEF First
      <3>2. Without(q.pending, First(q.pending, d)) \in Seq(Deliveries)
        BY <3>1, WithoutType DEF LaneType
      <3>3. u = [q EXCEPT !.pending = Without(@, First(@, d))]
        BY <2>2 DEF Unticketed
      <3> QED
        BY <3>2, <3>3 DEF LaneType
    <2>3. CASE q.active # d /\ ~\E n \in 1..Len(q.pending) : q.pending[n] = d
      BY <2>3 DEF Unticketed
    <2> QED
      BY <2>1, <2>2, <2>3
  <1>2. done(q, d) = advance(u)
    BY DEF done
  <1> HIDE DEF u
  <1> QED
    BY <1>1, <1>2, AdvanceLane

\* What holds of the lanes when d joins the one it is for.
LEMMA JoinsLane ==
  ASSUME lane \in [Lanes -> LaneType], NoIdleLane, NEW d \in Deliveries,
         lane' = [lane EXCEPT ![laneOf[d]] = enqueue(@, d)]
  PROVE  /\ lane' \in [Lanes -> LaneType]
         /\ NoIdleLane'
         /\ \A l \in Lanes : lane[l].active # None => lane'[l].active = lane[l].active
  <1>1. laneOf[d] \in Lanes
    BY AgentAssumption
  <1>2. lane[laneOf[d]] \in LaneType
    BY <1>1
  <1>3. \A l \in Lanes : lane'[l] = IF l = laneOf[d] THEN enqueue(lane[l], d) ELSE lane[l]
    OBVIOUS
  <1>4. lane' \in [Lanes -> LaneType]
    BY <1>1, <1>2, EnqueueLane
  <1>5. \A l \in Lanes : lane'[l].active = None => lane'[l].pending = <<>>
    BY <1>2, <1>3, EnqueueLane DEF NoIdleLane
  <1>6. \A l \in Lanes : lane[l].active # None => lane'[l].active = lane[l].active
    BY <1>2, <1>3, EnqueueLane
  <1> QED
    BY <1>4, <1>5, <1>6 DEF NoIdleLane

-----------------------------------------------------------------------------
(* Handing a claim on. *)

\* Facts about the kinds and the places that the steps share.
LEMMA Facts ==
  /\ None \notin Deliveries /\ None \notin Kinds /\ NoRunner \notin Runners
  /\ \A d \in Deliveries : kindOf[d] \in Kinds /\ kindOf[d] # None
  /\ \A d \in Deliveries : laneOf[d] \in Lanes
  /\ \A d \in Deliveries : NamesRunner(d) =>
       runnerOf[d] \in Runners /\ (Starts(d) <=> Creates(d))
  /\ \A d \in Deliveries : runnerOf[d] \in Runners => NamesRunner(d)
  /\ \A d \in Deliveries : Creates(d) => NamesRunner(d) /\ Starts(d)
  BY AgentAssumption DEF NamesRunner, Starts, Creates, Kinds

\* The lanes when d takes its ticket, if it is a create.
LEMMA TicketLane ==
  ASSUME IInv, NEW d \in Deliveries, TakesTicket(d)
  PROVE  /\ lane' \in [Lanes -> LaneType]
         /\ NoIdleLane'
         /\ \A l \in Lanes : lane[l].active # None => lane'[l].active = lane[l].active
  <1>1. lane \in [Lanes -> LaneType] /\ NoIdleLane
    BY DEF IInv, TypeOK, LaneType
  <1>2. CASE Creates(d)
    BY <1>1, <1>2, JoinsLane DEF TakesTicket
  <1>3. CASE ~Creates(d)
    BY <1>1, <1>3 DEF TakesTicket, NoIdleLane
  <1> QED
    BY <1>2, <1>3

\* A claim that its holder gives up goes to the task that waits, or is free: the
\* places pcs are the old ones but for the giver, who works on r no longer.
LEMMA HandedOver ==
  ASSUME IInv, NEW r \in Runners, NEW pcs \in [Deliveries -> Places],
         HandsOver(r, pcs), r \in inflight, tidying' = tidying \ {r},
         \A e \in Deliveries :
            \/ pcs[e] = pc[e]
            \/ pc[e] \in HoldPlaces /\ pcs[e] \in {"report", "leave"},
         \A e \in Deliveries : runnerOf[e] = r => pcs[e] \notin HoldPlaces
  PROVE  /\ pc' \in [Deliveries -> Places]
         /\ inflight' \subseteq Runners
         /\ running' \in [Runners -> Kinds \cup {None}]
         /\ waiting' \in [Runners -> Deliveries \cup {None}]
         /\ lane' \in [Lanes -> LaneType]
         /\ NoIdleLane'
         /\ ClaimInv'
         /\ \A l \in Lanes : lane[l].active # None => lane'[l].active = lane[l].active
         /\ \A e \in Deliveries :
              \/ pc'[e] = pcs[e]
              \/ pc[e] = "held" /\ pc'[e] = At(e) /\ (Starts(e) => Creates(e))
         /\ running'[r] # None /\ running[r] # None =>
              taskRank(running'[r]) >= taskRank(running[r])
         /\ \A s \in Runners \ {r} : running'[s] = running[s]
  <1> DEFINE next == waiting[r]
  <1>0. /\ pc \in [Deliveries -> Places]
        /\ inflight \subseteq Runners
        /\ running \in [Runners -> Kinds \cup {None}]
        /\ waiting \in [Runners -> Deliveries \cup {None}]
        /\ lane \in [Lanes -> LaneType]
        /\ HolderInv /\ OneHolder /\ WaitInv /\ FreeInv /\ NoIdleLane
    BY DEF IInv, TypeOK, ClaimInv, LaneType
  <1>1. CASE next # None
    <2>1. /\ next \in Deliveries
          /\ pc[next] = "held"
          /\ runnerOf[next] = r
          /\ running[r] # None
          /\ taskRank(kindOf[next]) > taskRank(running[r])
          /\ NamesRunner(next)
      BY <1>0, <1>1, Facts DEF WaitInv
    <2>2. /\ waiting' = [waiting EXCEPT ![r] = None]
          /\ running' = [running EXCEPT ![r] = kindOf[next]]
          /\ pc' = [pcs EXCEPT ![next] = At(next)]
          /\ TakesTicket(next)
          /\ inflight' = inflight
      BY <1>1 DEF HandsOver
    <2> HIDE DEF next
    <2>3. /\ lane' \in [Lanes -> LaneType]
          /\ NoIdleLane'
          /\ \A l \in Lanes : lane[l].active # None => lane'[l].active = lane[l].active
      BY <2>1, <2>2, TicketLane
    <2>4. At(next) \in HoldPlaces /\ At(next) \in Places
      BY DEF At, HoldPlaces, Places
    <2>5. /\ pc' \in [Deliveries -> Places]
          /\ pc'[next] = At(next)
          /\ \A e \in Deliveries \ {next} : pc'[e] = pcs[e]
      BY <2>1, <2>2, <2>4
    <2>6. /\ running' \in [Runners -> Kinds \cup {None}]
          /\ running'[r] = kindOf[next]
          /\ \A s \in Runners \ {r} : running'[s] = running[s]
          /\ waiting' \in [Runners -> Deliveries \cup {None}]
          /\ waiting'[r] = None
          /\ \A s \in Runners \ {r} : waiting'[s] = waiting[s]
      BY <1>0, <2>1, <2>2, Facts
    <2>7. r \notin tidying
      BY <1>0, <2>1 DEF FreeInv
    <2>8. tidying' = tidying
      BY <2>7
    <2>9. \A e \in Deliveries : NamesRunner(e) /\ pc'[e] \in HoldPlaces =>
             \/ e = next
             \/ Holds(e) /\ runnerOf[e] # r
      BY <2>5 DEF Holds, HoldPlaces
    <2>10. HolderInv'
      <3> SUFFICES ASSUME NEW e \in Deliveries, NamesRunner(e), pc'[e] \in HoldPlaces
                   PROVE  runnerOf[e] \in inflight' \ tidying' /\ running'[runnerOf[e]] = kindOf[e]
        BY DEF HolderInv, Holds, HoldPlaces, NamesRunner
      <3>1. CASE e = next
        BY <2>1, <2>2, <2>6, <2>7, <2>8, <3>1
      <3>2. CASE Holds(e) /\ runnerOf[e] # r
        BY <1>0, <2>2, <2>6, <2>8, <3>2, Facts DEF HolderInv
      <3> QED
        BY <2>9, <3>1, <3>2
    <2>11. OneHolder'
      <3> SUFFICES ASSUME NEW d \in Deliveries, NEW e \in Deliveries,
                          NamesRunner(d), pc'[d] \in HoldPlaces,
                          NamesRunner(e), pc'[e] \in HoldPlaces, runnerOf[d] = runnerOf[e]
                   PROVE  d = e
        BY DEF OneHolder, Holds, HoldPlaces, NamesRunner
      <3> QED
        BY <1>0, <2>1, <2>9 DEF OneHolder
    <2>12. WaitInv'
      <3> SUFFICES ASSUME NEW s \in Runners, waiting'[s] # None
                   PROVE  /\ s \in inflight' /\ running'[s] # None
                          /\ pc'[waiting'[s]] = "held"
                          /\ runnerOf[waiting'[s]] = s
                          /\ taskRank(kindOf[waiting'[s]]) > taskRank(running'[s])
        BY DEF WaitInv, taskRank
      <3>1. s # r /\ waiting'[s] = waiting[s] /\ running'[s] = running[s]
        BY <2>6
      <3>2. /\ s \in inflight /\ running[s] # None
            /\ pc[waiting[s]] = "held"
            /\ runnerOf[waiting[s]] = s
            /\ taskRank(kindOf[waiting[s]]) > taskRank(running[s])
            /\ waiting[s] \in Deliveries
        BY <1>0, <3>1 DEF WaitInv
      <3>3. waiting[s] # next /\ pcs[waiting[s]] = pc[waiting[s]]
        BY <2>1, <3>1, <3>2 DEF HoldPlaces
      <3> QED
        BY <2>2, <2>5, <3>1, <3>2, <3>3
    <2>13. FreeInv'
      BY <1>0, <2>1, <2>2, <2>6, <2>7, <2>8 DEF FreeInv
    <2>14. Starts(next) => Creates(next)
      BY <2>1, Facts
    <2>15. taskRank(running'[r]) >= taskRank(running[r])
      <3>1. taskRank(kindOf[next]) \in Nat /\ taskRank(running[r]) \in Nat
        BY DEF taskRank
      <3> QED
        BY <2>1, <2>6, <3>1
    <2> QED
      BY <1>0, <2>1, <2>2, <2>3, <2>5, <2>6, <2>10, <2>11, <2>12, <2>13, <2>14, <2>15
         DEF ClaimInv
  <1>2. CASE next = None
    <2>1. /\ inflight' = inflight \ {r}
          /\ running' = [running EXCEPT ![r] = None]
          /\ pc' = pcs
          /\ waiting' = waiting /\ lane' = lane
      BY <1>2 DEF HandsOver
    <2>2. /\ running' \in [Runners -> Kinds \cup {None}]
          /\ running'[r] = None
          /\ \A s \in Runners \ {r} : running'[s] = running[s]
      BY <1>0, <2>1
    <2>3. \A e \in Deliveries : NamesRunner(e) /\ pc'[e] \in HoldPlaces =>
             Holds(e) /\ runnerOf[e] # r
      BY <2>1 DEF Holds, HoldPlaces
    <2>4. HolderInv'
      <3> SUFFICES ASSUME NEW e \in Deliveries, NamesRunner(e), pc'[e] \in HoldPlaces
                   PROVE  runnerOf[e] \in inflight' \ tidying' /\ running'[runnerOf[e]] = kindOf[e]
        BY DEF HolderInv, Holds, HoldPlaces, NamesRunner
      <3> QED
        BY <1>0, <2>1, <2>2, <2>3, Facts DEF HolderInv
    <2>5. OneHolder'
      <3> SUFFICES ASSUME NEW d \in Deliveries, NEW e \in Deliveries,
                          NamesRunner(d), pc'[d] \in HoldPlaces,
                          NamesRunner(e), pc'[e] \in HoldPlaces, runnerOf[d] = runnerOf[e]
                   PROVE  d = e
        BY DEF OneHolder, Holds, HoldPlaces, NamesRunner
      <3> QED
        BY <1>0, <2>3 DEF OneHolder
    <2>6. WaitInv'
      <3> SUFFICES ASSUME NEW s \in Runners, waiting[s] # None
                   PROVE  /\ s \in inflight' /\ running'[s] # None
                          /\ pc'[waiting[s]] = "held"
                          /\ runnerOf[waiting[s]] = s
                          /\ taskRank(kindOf[waiting[s]]) > taskRank(running'[s])
        BY <2>1 DEF WaitInv, taskRank
      <3>1. /\ s \in inflight /\ running[s] # None
            /\ pc[waiting[s]] = "held"
            /\ runnerOf[waiting[s]] = s
            /\ taskRank(kindOf[waiting[s]]) > taskRank(running[s])
            /\ waiting[s] \in Deliveries
            /\ s # r
        BY <1>0, <1>2 DEF WaitInv
      <3>2. pcs[waiting[s]] = "held"
        BY <3>1 DEF HoldPlaces
      <3> QED
        BY <2>1, <2>2, <3>1, <3>2
    <2>7. FreeInv'
      BY <1>0, <2>1, <2>2 DEF FreeInv
    <2>8. NoIdleLane'
      BY <1>0, <2>1 DEF NoIdleLane
    <2> QED
      BY <1>0, <2>1, <2>2, <2>4, <2>5, <2>6, <2>7, <2>8 DEF ClaimInv
  <1> QED
    BY <1>1, <1>2

-----------------------------------------------------------------------------
(* The steps. *)

\* What ChainAscends says of one step.
RankKept ==
  \A r \in Runners : running[r] # None /\ running'[r] # None =>
     taskRank(running'[r]) >= taskRank(running[r])

\* A rank is a number.
LEMMA RankType == \A k : taskRank(k) \in Nat
  BY DEF taskRank

\* A step that keeps the claims keeps the ranks.
LEMMA SameRanks ==
  ASSUME running' = running
  PROVE  RankKept
  BY RankType DEF RankKept

\* TurnInv after a step that keeps the turns, lets nobody past a lane and takes
\* nobody into a slot.
LEMMA TurnsKept ==
  ASSUME IInv, slots' = slots,
         \A l \in Lanes : lane[l].active # None => lane'[l].active = lane[l].active,
         \A e \in Deliveries : pc'[e] # pc[e] =>
            /\ Starts(e) => pc'[e] \notin TurnPlaces \/ pc[e] \in TurnPlaces
            /\ e \in slots => pc'[e] \in {"check", "run", "report"}
            /\ pc'[e] = "delay" => ~NamesRunner(e)
  PROVE  TurnInv'
  <1>1. ASSUME NEW d \in Deliveries, Starts(d), pc'[d] \in TurnPlaces
        PROVE  lane'[laneOf[d]].active = d
    <2>1. pc[d] \in TurnPlaces
      BY <1>1
    <2>2. lane[laneOf[d]].active = d
      BY <1>1, <2>1 DEF IInv, TurnInv
    <2> QED
      BY <2>2, Facts
  <1>2. ASSUME NEW d \in slots PROVE pc'[d] \in {"check", "run", "report"}
    <2>1. d \in Deliveries /\ pc[d] \in {"check", "run", "report"}
      BY DEF IInv, TypeOK, TurnInv
    <2> QED
      BY <2>1
  <1>3. ASSUME NEW d \in Deliveries, pc'[d] = "delay" PROVE ~NamesRunner(d)
    BY <1>3 DEF IInv, TurnInv
  <1> QED
    BY <1>1, <1>2, <1>3 DEF TurnInv, Starts, NamesRunner

\* A goroutine that gives its claim up, to report or to leave.
LEMMA Releases ==
  ASSUME IInv, NEW d \in Deliveries, NEW to \in {"report", "leave"}, release(d, to),
         pc[d] \in HoldPlaces, to = "report" <=> pc[d] \in {"check", "run"},
         UNCHANGED <<slots, tidying, stopping>>
  PROVE  IInv' /\ RankKept
  <1> DEFINE pcs == [pc EXCEPT ![d] = to]
  <1>0. /\ pc \in [Deliveries -> Places]
        /\ TypeOK /\ TurnInv /\ HolderInv /\ OneHolder
    BY DEF IInv, TypeOK, ClaimInv
  <1>1. /\ pcs \in [Deliveries -> Places]
        /\ pcs[d] = to
        /\ \A e \in Deliveries \ {d} : pcs[e] = pc[e]
    BY <1>0 DEF Places
  <1>2. CASE NamesRunner(d)
    <2> DEFINE r == runnerOf[d]
    <2>1. r \in Runners /\ Holds(d)
      BY <1>2, Facts DEF Holds, HoldPlaces
    <2>2. r \in inflight /\ r \notin tidying
      BY <1>0, <2>1 DEF HolderInv
    <2>3. HandsOver(r, pcs)
      BY <1>2 DEF release
    <2>4. tidying' = tidying \ {r}
      BY <2>2
    <2>5. \A e \in Deliveries : runnerOf[e] = r => pcs[e] \notin HoldPlaces
      <3> SUFFICES ASSUME NEW e \in Deliveries, runnerOf[e] = r, pcs[e] \in HoldPlaces
                   PROVE  FALSE
        OBVIOUS
      <3>1. e # d
        BY <1>1 DEF HoldPlaces
      <3>2. Holds(e)
        BY <1>1, <2>1, <3>1, Facts DEF Holds, HoldPlaces
      <3> QED
        BY <1>0, <2>1, <3>1, <3>2 DEF OneHolder
    <2>6. \A e \in Deliveries :
            \/ pcs[e] = pc[e]
            \/ pc[e] \in HoldPlaces /\ pcs[e] \in {"report", "leave"}
      BY <1>1
    <2> HIDE DEF pcs, r
    <2>7. /\ pc' \in [Deliveries -> Places]
          /\ inflight' \subseteq Runners
          /\ running' \in [Runners -> Kinds \cup {None}]
          /\ waiting' \in [Runners -> Deliveries \cup {None}]
          /\ lane' \in [Lanes -> LaneType]
          /\ NoIdleLane'
          /\ ClaimInv'
          /\ \A l \in Lanes : lane[l].active # None => lane'[l].active = lane[l].active
          /\ \A e \in Deliveries :
               \/ pc'[e] = pcs[e]
               \/ pc[e] = "held" /\ pc'[e] = At(e) /\ (Starts(e) => Creates(e))
          /\ running'[r] # None /\ running[r] # None =>
               taskRank(running'[r]) >= taskRank(running[r])
          /\ \A s \in Runners \ {r} : running'[s] = running[s]
      BY <1>1, <2>1, <2>2, <2>3, <2>4, <2>5, <2>6, HandedOver
    <2>8. TypeOK'
      BY <1>0, <2>7 DEF TypeOK, LaneType
    <2>9. TurnInv'
      <3>1. ASSUME NEW e \in Deliveries, pc'[e] # pc[e]
            PROVE  /\ Starts(e) => pc'[e] \notin TurnPlaces \/ pc[e] \in TurnPlaces
                   /\ e \in slots => pc'[e] \in {"check", "run", "report"}
                   /\ pc'[e] = "delay" => ~NamesRunner(e)
        <4>1. CASE pc'[e] = pcs[e]
          <5>1. e = d /\ pc'[e] = to
            BY <1>1, <3>1, <4>1
          <5> QED
            BY <1>0, <5>1 DEF TurnInv, TurnPlaces, HoldPlaces
        <4>2. CASE pc[e] = "held" /\ pc'[e] = At(e) /\ (Starts(e) => Creates(e))
          BY <1>0, <4>2 DEF TurnInv, TurnPlaces, At
        <4> QED
          BY <2>7, <4>1, <4>2
      <3> QED
        BY <2>7, <3>1, TurnsKept
    <2>10. RankKept
      BY <2>7, RankType DEF RankKept
    <2> QED
      BY <2>7, <2>8, <2>9, <2>10 DEF IInv
  <1>3. CASE ~NamesRunner(d)
    <2>1. pc' = pcs /\ UNCHANGED <<inflight, running, waiting, lane>>
      BY <1>3 DEF release, claims
    <2> HIDE DEF pcs
    <2>2. TypeOK'
      BY <1>0, <1>1, <2>1 DEF TypeOK
    <2>3. \A e \in Deliveries : NamesRunner(e) => pc'[e] = pc[e]
      BY <1>1, <1>3, <2>1
    <2>4. \A e \in Deliveries : pc[e] = "held" => pc'[e] = "held"
      BY <1>1, <2>1 DEF HoldPlaces
    <2>5. HolderInv' /\ OneHolder'
      BY <1>0, <2>1, <2>3 DEF HolderInv, OneHolder, Holds, NamesRunner
    <2>6. WaitInv' /\ FreeInv'
      BY <1>0, <2>1, <2>4 DEF IInv, ClaimInv, WaitInv, FreeInv, TypeOK, taskRank
    <2>7. TurnInv'
      <3>1. ASSUME NEW e \in Deliveries, pc'[e] # pc[e]
            PROVE  /\ Starts(e) => pc'[e] \notin TurnPlaces \/ pc[e] \in TurnPlaces
                   /\ e \in slots => pc'[e] \in {"check", "run", "report"}
                   /\ pc'[e] = "delay" => ~NamesRunner(e)
        <4>1. e = d /\ pc'[e] = to
          BY <1>1, <2>1, <3>1
        <4> QED
          BY <1>0, <4>1 DEF TurnInv, TurnPlaces, HoldPlaces
      <3> QED
        BY <2>1, <3>1, TurnsKept
    <2>8. NoIdleLane' /\ RankKept
      BY <2>1, SameRanks DEF IInv, NoIdleLane
    <2> QED
      BY <2>2, <2>5, <2>6, <2>7, <2>8 DEF IInv, ClaimInv
  <1> QED
    BY <1>2, <1>3

\* A step of one goroutine that leaves the claims alone and does not begin or end
\* its work on the runner.
LEMMA ClaimsKept ==
  ASSUME IInv, NEW d \in Deliveries, NEW to \in Places,
         pc' = [pc EXCEPT ![d] = to],
         UNCHANGED <<inflight, running, waiting, tidying>>,
         pc[d] # "held", to \in HoldPlaces => ~NamesRunner(d) \/ pc[d] \in HoldPlaces
  PROVE  /\ pc' \in [Deliveries -> Places]
         /\ pc'[d] = to
         /\ \A e \in Deliveries \ {d} : pc'[e] = pc[e]
         /\ ClaimInv' /\ RankKept
  <1>0. /\ pc \in [Deliveries -> Places]
        /\ waiting \in [Runners -> Deliveries \cup {None}]
        /\ HolderInv /\ OneHolder /\ WaitInv /\ FreeInv
    BY DEF IInv, TypeOK, ClaimInv
  <1>1. /\ pc' \in [Deliveries -> Places]
        /\ pc'[d] = to
        /\ \A e \in Deliveries \ {d} : pc'[e] = pc[e]
    BY <1>0
  <1>2. \A e \in Deliveries : NamesRunner(e) /\ pc'[e] \in HoldPlaces => Holds(e)
    BY <1>1 DEF Holds, HoldPlaces
  <1>3. HolderInv' /\ OneHolder'
    <2>1. \A e \in Deliveries : Holds(e)' => Holds(e)
      BY <1>2 DEF Holds, HoldPlaces, NamesRunner
    <2> QED
      BY <1>0, <2>1 DEF HolderInv, OneHolder
  <1>4. WaitInv'
    <2>1. \A r \in Runners : waiting[r] # None => pc'[waiting[r]] = "held"
      BY <1>0, <1>1 DEF WaitInv
    <2> QED
      BY <1>0, <2>1 DEF WaitInv, taskRank
  <1>5. FreeInv' /\ RankKept
    BY <1>0, SameRanks DEF FreeInv
  <1> QED
    BY <1>1, <1>3, <1>4, <1>5 DEF ClaimInv

\* A delivery that a poll hands over: refused, admitted, held or dropped.
LEMMA DispatchKeeps ==
  ASSUME IInv, NEW d \in Deliveries, dispatch(d)
  PROVE  IInv' /\ RankKept
  <1> DEFINE r == runnerOf[d]
  <1>0. /\ pc \in [Deliveries -> Places]
        /\ inflight \subseteq Runners
        /\ running \in [Runners -> Kinds \cup {None}]
        /\ waiting \in [Runners -> Deliveries \cup {None}]
        /\ lane \in [Lanes -> LaneType]
        /\ TypeOK /\ HolderInv /\ OneHolder /\ WaitInv /\ FreeInv /\ TurnInv /\ NoIdleLane
    BY DEF IInv, TypeOK, ClaimInv, LaneType
  <1>1. pc[d] = "new" /\ UNCHANGED <<slots, tidying, stopping>> /\ d \notin slots
    BY <1>0 DEF dispatch, TurnInv
  <1>2. ASSUME NEW to \in {"done", "delay", "dropped"}, pc' = [pc EXCEPT ![d] = to],
               UNCHANGED <<inflight, running, waiting, lane>>,
               to = "delay" => ~NamesRunner(d)
        PROVE  IInv' /\ RankKept
    <2>1. /\ pc' \in [Deliveries -> Places]
          /\ pc'[d] = to
          /\ \A e \in Deliveries \ {d} : pc'[e] = pc[e]
          /\ ClaimInv' /\ RankKept
      BY <1>1, <1>2, ClaimsKept DEF Places, HoldPlaces
    <2>2. TurnInv'
      BY <1>1, <1>2, <2>1, TurnsKept DEF TurnPlaces
    <2>3. TypeOK' /\ NoIdleLane'
      BY <1>0, <1>1, <1>2, <2>1 DEF TypeOK, NoIdleLane
    <2> QED
      BY <2>1, <2>2, <2>3 DEF IInv
  <1>3. ASSUME NamesRunner(d), r \notin inflight,
               inflight' = inflight \cup {r},
               running' = [running EXCEPT ![r] = kindOf[d]],
               pc' = [pc EXCEPT ![d] = At(d)],
               TakesTicket(d), waiting' = waiting
        PROVE  IInv' /\ RankKept
    <2>1. r \in Runners /\ running[r] = None /\ r \notin tidying
      BY <1>0, <1>3, Facts DEF FreeInv
    <2>2. /\ lane' \in [Lanes -> LaneType]
          /\ NoIdleLane'
          /\ \A l \in Lanes : lane[l].active # None => lane'[l].active = lane[l].active
      BY <1>3, TicketLane
    <2>3. /\ pc' \in [Deliveries -> Places]
          /\ pc'[d] = At(d)
          /\ \A e \in Deliveries \ {d} : pc'[e] = pc[e]
      BY <1>0, <1>3 DEF At, Places
    <2>4. /\ running' \in [Runners -> Kinds \cup {None}]
          /\ running'[r] = kindOf[d]
          /\ \A s \in Runners \ {r} : running'[s] = running[s]
      BY <1>0, <1>3, <2>1, Facts
    <2>5. TypeOK'
      BY <1>0, <1>1, <1>3, <2>1, <2>2, <2>3, <2>4 DEF TypeOK, LaneType
    <2>6. \A e \in Deliveries : NamesRunner(e) /\ pc'[e] \in HoldPlaces =>
             e = d \/ (Holds(e) /\ runnerOf[e] # r)
      BY <1>0, <1>3, <2>3 DEF Holds, HoldPlaces, HolderInv
    <2>7. HolderInv'
      <3> SUFFICES ASSUME NEW e \in Deliveries, NamesRunner(e), pc'[e] \in HoldPlaces
                   PROVE  runnerOf[e] \in inflight' \ tidying' /\ running'[runnerOf[e]] = kindOf[e]
        BY DEF HolderInv, Holds, HoldPlaces, NamesRunner
      <3>1. CASE e = d
        BY <1>1, <1>3, <2>1, <2>4, <3>1
      <3>2. CASE Holds(e) /\ runnerOf[e] # r
        BY <1>0, <1>1, <1>3, <2>4, <3>2, Facts DEF HolderInv
      <3> QED
        BY <2>6, <3>1, <3>2
    <2>8. OneHolder'
      <3> SUFFICES ASSUME NEW e \in Deliveries, NEW f \in Deliveries,
                          NamesRunner(e), pc'[e] \in HoldPlaces,
                          NamesRunner(f), pc'[f] \in HoldPlaces, runnerOf[e] = runnerOf[f]
                   PROVE  e = f
        BY DEF OneHolder, Holds, HoldPlaces, NamesRunner
      <3> QED
        BY <1>0, <2>6 DEF OneHolder
    <2>9. WaitInv'
      <3>1. \A s \in Runners : waiting[s] # None => s # r
        BY <1>0, <1>3 DEF WaitInv
      <3>2. \A s \in Runners : waiting[s] # None => pc'[waiting[s]] = "held"
        BY <1>0, <1>1, <2>3 DEF WaitInv
      <3> QED
        BY <1>0, <1>3, <2>4, <3>1, <3>2 DEF WaitInv, taskRank
    <2>10. FreeInv'
      BY <1>0, <1>1, <1>3, <2>1, <2>4 DEF FreeInv
    <2>11. TurnInv'
      <3>1. (Starts(d) => At(d) \notin TurnPlaces) /\ At(d) # "delay"
        BY <1>3, Facts DEF At, TurnPlaces
      <3> QED
        BY <1>1, <2>2, <2>3, <3>1, TurnsKept
    <2>12. RankKept
      BY <2>1, <2>4, RankType DEF RankKept
    <2> QED
      BY <2>2, <2>5, <2>7, <2>8, <2>9, <2>10, <2>11, <2>12 DEF IInv, ClaimInv
  <1>4. ASSUME NamesRunner(d), r \in inflight, Supersedes(d),
               waiting' = [waiting EXCEPT ![r] = d],
               pc' = [e \in Deliveries |->
                 IF e = d THEN "held" ELSE IF e = waiting[r] THEN "dropped" ELSE pc[e]],
               UNCHANGED <<inflight, running, lane>>
        PROVE  IInv' /\ RankKept
    <2>1. r \in Runners /\ running[r] # None /\ taskRank(kindOf[d]) > taskRank(running[r])
      BY <1>4, Facts DEF Supersedes
    <2>2. /\ pc' \in [Deliveries -> Places]
          /\ pc'[d] = "held"
          /\ \A e \in Deliveries : pc'[e] \in {pc[e], "held", "dropped"}
          /\ \A e \in Deliveries : pc'[e] = "dropped" => pc[e] = "dropped" \/ e = waiting[r]
          /\ \A e \in Deliveries : e # d /\ e # waiting[r] => pc'[e] = pc[e]
      BY <1>0, <1>4 DEF Places
    <2>3. waiting[r] \in Deliveries => pc[waiting[r]] = "held" /\ runnerOf[waiting[r]] = r
      BY <1>0, <2>1, Facts DEF WaitInv
    <2>4. /\ waiting' \in [Runners -> Deliveries \cup {None}]
          /\ waiting'[r] = d
          /\ \A s \in Runners \ {r} : waiting'[s] = waiting[s]
      BY <1>0, <1>4, <2>1
    <2>5. TypeOK'
      BY <1>0, <1>1, <1>4, <2>2, <2>4 DEF TypeOK
    <2>6. HolderInv' /\ OneHolder'
      <3>1. \A e \in Deliveries : Holds(e)' => Holds(e)
        BY <2>2 DEF Holds, HoldPlaces, NamesRunner
      <3> QED
        BY <1>0, <1>1, <1>4, <3>1 DEF HolderInv, OneHolder
    <2>7. WaitInv'
      <3> SUFFICES ASSUME NEW s \in Runners, waiting'[s] # None
                   PROVE  /\ s \in inflight' /\ running'[s] # None
                          /\ pc'[waiting'[s]] = "held"
                          /\ runnerOf[waiting'[s]] = s
                          /\ taskRank(kindOf[waiting'[s]]) > taskRank(running'[s])
        BY DEF WaitInv, taskRank
      <3>1. CASE s = r
        BY <1>4, <2>1, <2>2, <2>4, <3>1
      <3>2. CASE s # r
        <4>1. /\ waiting'[s] = waiting[s] /\ waiting[s] \in Deliveries
              /\ s \in inflight /\ running[s] # None
              /\ pc[waiting[s]] = "held"
              /\ runnerOf[waiting[s]] = s
              /\ taskRank(kindOf[waiting[s]]) > taskRank(running[s])
          BY <1>0, <2>4, <3>2 DEF WaitInv
        <4>2. waiting[s] # waiting[r] /\ waiting[s] # d
          BY <1>1, <2>3, <3>2, <4>1
        <4> QED
          BY <1>4, <2>2, <4>1, <4>2
      <3> QED
        BY <3>1, <3>2
    <2>8. FreeInv' /\ RankKept /\ NoIdleLane'
      BY <1>0, <1>1, <1>4, SameRanks DEF FreeInv, NoIdleLane
    <2>9. TurnInv'
      <3>1. waiting[r] \notin slots
        BY <1>0, <2>3 DEF TurnInv, TypeOK
      <3>2. \A e \in Deliveries : pc'[e] # pc[e] =>
               e \notin slots /\ pc'[e] \notin TurnPlaces /\ pc'[e] # "delay"
        BY <1>1, <2>2, <3>1 DEF TurnPlaces
      <3> QED
        BY <1>1, <1>4, <3>2, TurnsKept
    <2> QED
      BY <2>5, <2>6, <2>7, <2>8, <2>9 DEF IInv, ClaimInv
  <1>5. CASE Refused(d)
    BY <1>2, <1>5 DEF Refused, claims
  <1>6. CASE Accepted(d)
    BY <1>2, <1>3, <1>4, <1>6 DEF Accepted, claims
  <1> QED
    BY <1>5, <1>6 DEF dispatch

\* Every step of an admitted goroutine.
LEMMA GoesKeeps ==
  ASSUME IInv, NEW d \in Deliveries, Goes(d)
  PROVE  IInv' /\ RankKept
  <1>0. /\ pc \in [Deliveries -> Places]
        /\ lane \in [Lanes -> LaneType]
        /\ TypeOK /\ TurnInv /\ NoIdleLane
        /\ laneOf[d] \in Lanes
        /\ \A e \in slots : e \in Deliveries
    BY Facts DEF IInv, TypeOK, LaneType
  <1>g. ASSUME NEW to \in Places, pc' = [pc EXCEPT ![d] = to],
               UNCHANGED <<inflight, running, waiting, tidying, stopping>>,
               pc[d] \notin {"held", "delay"} \/ ~NamesRunner(d), pc[d] # "held",
               to \in HoldPlaces => ~NamesRunner(d) \/ pc[d] \in HoldPlaces,
               to # "delay", slots' \subseteq Deliveries,
               lane' \in [Lanes -> LaneType], NoIdleLane', TurnInv'
        PROVE  IInv' /\ RankKept
    <2>1. /\ pc' \in [Deliveries -> Places]
          /\ ClaimInv' /\ RankKept
      BY <1>g, ClaimsKept
    <2>2. TypeOK'
      BY <1>0, <1>g, <2>1 DEF TypeOK, LaneType
    <2> QED
      BY <1>g, <2>1, <2>2 DEF IInv
  <1>1. CASE Jitter(d)
    <2>1. PICK to \in {"done", "lane"} :
            /\ pc' = [pc EXCEPT ![d] = to]
            /\ \/ lane' = lane
               \/ lane' = [lane EXCEPT ![laneOf[d]] = enqueue(@, d)]
      BY <1>1 DEF Jitter
    <2>2. /\ pc[d] = "delay" /\ d \notin slots /\ ~NamesRunner(d)
          /\ UNCHANGED <<inflight, running, waiting, slots, tidying, stopping>>
      BY <1>0, <1>1 DEF Jitter, claims, TurnInv
    <2>3. /\ lane' \in [Lanes -> LaneType] /\ NoIdleLane'
          /\ \A l \in Lanes : lane[l].active # None => lane'[l].active = lane[l].active
      BY <1>0, <2>1, JoinsLane DEF NoIdleLane
    <2>4. \A e \in Deliveries : pc'[e] # pc[e] => e = d /\ pc'[e] = to
      BY <1>0, <2>1
    <2>5. TurnInv'
      BY <2>2, <2>3, <2>4, TurnsKept DEF TurnPlaces
    <2> QED
      BY <1>0, <1>g, <2>1, <2>2, <2>3, <2>5 DEF Places, HoldPlaces
  <1>2. CASE Admitted(d)
    <2>1. /\ pc[d] = "lane" /\ lane[laneOf[d]].active = d
          /\ pc' = [pc EXCEPT ![d] = "slot"]
          /\ UNCHANGED <<inflight, running, waiting, lane, slots, tidying, stopping>>
      BY <1>2 DEF Admitted, HasTurn, claims
    <2>2. pc'[d] = "slot" /\ \A e \in Deliveries \ {d} : pc'[e] = pc[e]
      BY <1>0, <2>1
    <2>3. d \notin slots
      BY <1>0, <2>1 DEF TurnInv
    <2>4. TurnInv' /\ NoIdleLane'
      BY <1>0, <2>1, <2>2, <2>3 DEF TurnInv, TurnPlaces, Starts, NoIdleLane, NamesRunner
    <2> QED
      BY <1>0, <1>g, <2>1, <2>4 DEF Places, HoldPlaces
  <1>3. CASE GivesUp(d)
    BY <1>3, Releases DEF GivesUp, HoldPlaces
  <1>4. CASE TakesSlot(d)
    <2>1. /\ pc[d] = "slot" /\ slots' = slots \cup {d}
          /\ pc' = [pc EXCEPT ![d] = "check"]
          /\ UNCHANGED <<inflight, running, waiting, lane, tidying, stopping>>
      BY <1>4 DEF TakesSlot, claims
    <2>2. pc'[d] = "check" /\ \A e \in Deliveries \ {d} : pc'[e] = pc[e]
      BY <1>0, <2>1
    <2>3. TurnInv' /\ NoIdleLane'
      BY <1>0, <2>1, <2>2 DEF TurnInv, TurnPlaces, Starts, NoIdleLane, NamesRunner
    <2> QED
      BY <1>0, <1>g, <2>1, <2>3 DEF Places, HoldPlaces
  <1>5. CASE Checks(d)
    <2>1. CASE release(d, "report")
      BY <1>5, <2>1, Releases DEF Checks, HoldPlaces
    <2>2. CASE pc' = [pc EXCEPT ![d] = "run"] /\ UNCHANGED <<claims, lane>>
      <3>1. /\ pc[d] = "check"
            /\ UNCHANGED <<inflight, running, waiting, lane, slots, tidying, stopping>>
        BY <1>5, <2>2 DEF Checks, claims
      <3>2. pc'[d] = "run" /\ \A e \in Deliveries \ {d} : pc'[e] = pc[e]
        BY <1>0, <2>2
      <3>3. TurnInv' /\ NoIdleLane'
        BY <1>0, <3>1, <3>2 DEF TurnInv, TurnPlaces, Starts, NoIdleLane, NamesRunner
      <3> QED
        BY <1>0, <1>g, <2>2, <3>1, <3>3 DEF Places, HoldPlaces
    <2> QED
      BY <1>5, <2>1, <2>2 DEF Checks
  <1>6. CASE Handled(d)
    BY <1>6, Releases DEF Handled, HoldPlaces
  <1>7. CASE Reported(d)
    <2>1. /\ pc[d] = "report" /\ slots' = slots \ {d}
          /\ pc' = [pc EXCEPT ![d] = "leave"]
          /\ UNCHANGED <<inflight, running, waiting, lane, tidying, stopping>>
      BY <1>7 DEF Reported, claims
    <2>2. pc'[d] = "leave" /\ \A e \in Deliveries \ {d} : pc'[e] = pc[e]
      BY <1>0, <2>1
    <2>3. TurnInv' /\ NoIdleLane'
      BY <1>0, <2>1, <2>2 DEF TurnInv, TurnPlaces, Starts, NoIdleLane, NamesRunner
    <2> QED
      BY <1>0, <1>g, <2>1, <2>3 DEF Places, HoldPlaces
  <1>8. CASE Leaves(d)
    <2>1. /\ pc[d] = "leave"
          /\ pc' = [pc EXCEPT ![d] = "done"]
          /\ lane' = IF Starts(d) THEN [lane EXCEPT ![laneOf[d]] = done(@, d)] ELSE lane
          /\ UNCHANGED <<inflight, running, waiting, slots, tidying, stopping>>
      BY <1>8 DEF Leaves, ReleasedOnce, claims
    <2>2. pc'[d] = "done" /\ \A e \in Deliveries \ {d} : pc'[e] = pc[e]
      BY <1>0, <2>1
    <2>3. /\ lane' \in [Lanes -> LaneType] /\ NoIdleLane'
          /\ \A l \in Lanes : lane[l].active \notin {None, d} =>
               lane'[l].active = lane[l].active
      <3>1. CASE Starts(d)
        <4>1. lane[laneOf[d]] \in LaneType
          BY <1>0
        <4>2. \A l \in Lanes : lane'[l] = IF l = laneOf[d] THEN done(lane[l], d) ELSE lane[l]
          BY <1>0, <2>1, <3>1
        <4>3. lane' \in [Lanes -> LaneType]
          BY <1>0, <2>1, <3>1, <4>1, DoneLane
        <4>4. NoIdleLane'
          BY <1>0, <4>1, <4>2, DoneLane DEF NoIdleLane
        <4>5. \A l \in Lanes : lane[l].active \notin {None, d} =>
               lane'[l].active = lane[l].active
          BY <4>1, <4>2, DoneLane
        <4> QED
          BY <4>3, <4>4, <4>5
      <3>2. CASE ~Starts(d)
        BY <1>0, <2>1, <3>2 DEF NoIdleLane
      <3> QED
        BY <3>1, <3>2
    <2>4. TurnInv'
      <3>1. \A e \in Deliveries : Starts(e) /\ pc'[e] \in TurnPlaces =>
               lane'[laneOf[e]].active = e
        <4> SUFFICES ASSUME NEW e \in Deliveries, Starts(e), pc'[e] \in TurnPlaces
                     PROVE  lane'[laneOf[e]].active = e
          OBVIOUS
        <4>1. e # d /\ pc[e] \in TurnPlaces
          BY <2>2 DEF TurnPlaces
        <4>2. lane[laneOf[e]].active = e
          BY <1>0, <4>1 DEF TurnInv
        <4> QED
          BY <2>3, <4>1, <4>2, Facts
      <3>2. d \notin slots
        BY <1>0, <2>1 DEF TurnInv
      <3>3. \A e \in slots' : pc'[e] \in {"check", "run", "report"}
        BY <1>0, <2>1, <2>2, <3>2 DEF TurnInv
      <3>4. \A e \in Deliveries : pc'[e] = "delay" => ~NamesRunner(e)
        BY <1>0, <2>2 DEF TurnInv
      <3> QED
        BY <3>1, <3>3, <3>4 DEF TurnInv, Starts, NamesRunner
    <2> QED
      BY <1>0, <1>g, <2>1, <2>3, <2>4 DEF Places, HoldPlaces
  <1> QED
    BY <1>1, <1>2, <1>3, <1>4, <1>5, <1>6, <1>7, <1>8 DEF Goes

\* The reconciler takes and gives up claims, and the agent begins to stop.
LEMMA OthersKeep ==
  ASSUME IInv,
         (\E r \in Runners : TidyClaims(r) \/ TidyReleases(r)) \/ Shutdown \/ UNCHANGED vars
  PROVE  IInv' /\ RankKept
  <1>0. /\ TypeOK /\ TurnInv /\ NoIdleLane /\ HolderInv /\ OneHolder /\ WaitInv /\ FreeInv
    BY DEF IInv, ClaimInv
  <1>1. ASSUME NEW r \in Runners, TidyClaims(r) PROVE IInv' /\ RankKept
    <2>1. /\ r \notin inflight
          /\ inflight' = inflight \cup {r}
          /\ tidying' = tidying \cup {r}
          /\ UNCHANGED <<pc, running, waiting, lane, slots, stopping>>
      BY <1>1 DEF TidyClaims
    <2>2. TypeOK'
      BY <1>0, <2>1 DEF TypeOK
    <2>3. HolderInv' /\ OneHolder'
      BY <1>0, <2>1 DEF HolderInv, OneHolder, Holds, NamesRunner
    <2>4. WaitInv' /\ FreeInv'
      BY <1>0, <2>1 DEF WaitInv, FreeInv, taskRank
    <2>5. TurnInv' /\ NoIdleLane' /\ RankKept
      BY <1>0, <2>1, SameRanks DEF TurnInv, NoIdleLane, Starts, NamesRunner
    <2> QED
      BY <2>2, <2>3, <2>4, <2>5 DEF IInv, ClaimInv
  <1>2. ASSUME NEW r \in Runners, TidyReleases(r) PROVE IInv' /\ RankKept
    <2>1. /\ r \in tidying /\ tidying' = tidying \ {r}
          /\ HandsOver(r, pc) /\ UNCHANGED <<slots, stopping>>
      BY <1>2 DEF TidyReleases
    <2>2. r \in inflight /\ pc \in [Deliveries -> Places]
      BY <1>0, <2>1 DEF FreeInv, TypeOK
    <2>3. \A e \in Deliveries : runnerOf[e] = r => pc[e] \notin HoldPlaces
      BY <1>0, <2>1, Facts DEF HolderInv, Holds, HoldPlaces
    <2>4. /\ pc' \in [Deliveries -> Places]
          /\ inflight' \subseteq Runners
          /\ running' \in [Runners -> Kinds \cup {None}]
          /\ waiting' \in [Runners -> Deliveries \cup {None}]
          /\ lane' \in [Lanes -> LaneType]
          /\ NoIdleLane'
          /\ ClaimInv'
          /\ \A l \in Lanes : lane[l].active # None => lane'[l].active = lane[l].active
          /\ \A e \in Deliveries :
               \/ pc'[e] = pc[e]
               \/ pc[e] = "held" /\ pc'[e] = At(e) /\ (Starts(e) => Creates(e))
          /\ running'[r] # None /\ running[r] # None =>
               taskRank(running'[r]) >= taskRank(running[r])
          /\ \A s \in Runners \ {r} : running'[s] = running[s]
      BY <2>1, <2>2, <2>3, HandedOver
    <2>5. TypeOK'
      BY <1>0, <2>1, <2>4 DEF TypeOK, LaneType
    <2>6. TurnInv'
      <3>1. ASSUME NEW e \in Deliveries, pc'[e] # pc[e]
            PROVE  /\ Starts(e) => pc'[e] \notin TurnPlaces \/ pc[e] \in TurnPlaces
                   /\ e \in slots => pc'[e] \in {"check", "run", "report"}
                   /\ pc'[e] = "delay" => ~NamesRunner(e)
        BY <1>0, <2>4, <3>1 DEF TurnInv, TurnPlaces, At
      <3> QED
        BY <2>1, <2>4, <3>1, TurnsKept
    <2>7. RankKept
      BY <2>4, RankType DEF RankKept
    <2> QED
      BY <2>4, <2>5, <2>6, <2>7 DEF IInv
  <1>3. ASSUME UNCHANGED <<pc, inflight, running, waiting, lane, slots, tidying>>,
               stopping' \in BOOLEAN
        PROVE  IInv' /\ RankKept
    <2>1. TypeOK'
      BY <1>0, <1>3 DEF TypeOK
    <2>2. HolderInv' /\ OneHolder'
      BY <1>0, <1>3 DEF HolderInv, OneHolder, Holds, NamesRunner
    <2>3. WaitInv' /\ FreeInv'
      BY <1>0, <1>3 DEF WaitInv, FreeInv, taskRank
    <2>4. TurnInv' /\ NoIdleLane' /\ RankKept
      BY <1>0, <1>3, SameRanks DEF TurnInv, NoIdleLane, Starts, NamesRunner
    <2> QED
      BY <2>1, <2>2, <2>3, <2>4 DEF IInv, ClaimInv
  <1>4. CASE Shutdown
    BY <1>3, <1>4 DEF Shutdown, claims
  <1>5. CASE UNCHANGED vars
    BY <1>0, <1>3, <1>5 DEF vars, claims, TypeOK
  <1> QED
    BY <1>1, <1>2, <1>4, <1>5

-----------------------------------------------------------------------------
(* The theorems. *)

\* An agent that has just started satisfies the invariant.
LEMMA IInvInit == Init => IInv
  <1> SUFFICES ASSUME Init PROVE IInv
    OBVIOUS
  <1>1. TypeOK
    <2>1. <<>> \in Seq(Deliveries)
      OBVIOUS
    <2>2. [active |-> None, pending |-> <<>>] \in LaneType
      BY <2>1 DEF LaneType
    <2>3. lane \in [Lanes -> LaneType]
      BY <2>2 DEF Init
    <2> QED
      BY <2>3 DEF Init, TypeOK, Places, LaneType
  <1>2. \A d \in Deliveries : pc[d] = "new"
    BY DEF Init
  <1>3. ClaimInv
    BY <1>2 DEF Init, ClaimInv, HolderInv, OneHolder, WaitInv, FreeInv, Holds
  <1>4. TurnInv /\ NoIdleLane
    BY <1>2 DEF Init, TurnInv, NoIdleLane, TurnPlaces
  <1> QED
    BY <1>1, <1>3, <1>4 DEF IInv

\* Every step keeps the invariant and the ranks.
LEMMA IInvNext == IInv /\ [Next]_vars => IInv' /\ RankKept
  BY DispatchKeeps, GoesKeeps, OthersKeep DEF Next

\* The inductive invariant holds of every behaviour.
THEOREM AgentInvariant == Spec => []IInv
  BY IInvInit, IInvNext, PTL DEF Spec

\* The places, claims, lanes and slots keep their types.
THEOREM AgentTypes == Spec => []TypeOK
  <1>1. IInv => TypeOK
    BY DEF IInv
  <1> QED
    BY <1>1, AgentInvariant, PTL

\* claimOrQueue and release between them never let two goroutines, or one and
\* the reconciler, work on the same runner.
THEOREM AgentOneAtATime == Spec => []OneAtATime
  <1>1. IInv => OneAtATime
    BY DEF IInv, ClaimInv, HolderInv, OneHolder, OneAtATime
  <1> QED
    BY <1>1, AgentInvariant, PTL

\* startupQueue never leaves a lane free while a ticket waits for it.
THEOREM AgentNoIdleLane == Spec => []NoIdleLane
  <1>1. IInv => NoIdleLane
    BY DEF IInv
  <1> QED
    BY <1>1, AgentInvariant, PTL

\* The starts of one lane never take two slots, however many are waiting.
THEOREM AgentStartsTakeOneSlot == Spec => []StartsTakeOneSlot
  <1>1. IInv => StartsTakeOneSlot
    <2> SUFFICES ASSUME IInv, NEW d \in slots, NEW e \in slots,
                        Starts(d), Starts(e), laneOf[d] = laneOf[e]
                 PROVE  d = e
      BY DEF StartsTakeOneSlot
    <2>1. d \in Deliveries /\ e \in Deliveries
      BY DEF IInv, TypeOK
    <2>2. pc[d] \in TurnPlaces /\ pc[e] \in TurnPlaces
      BY DEF IInv, TurnInv, TurnPlaces
    <2> QED
      BY <2>1, <2>2 DEF IInv, TurnInv
  <1> QED
    BY <1>1, AgentInvariant, PTL

\* The tasks that hold a runner's claim one after the other only go forward, from
\* create to stop to remove.
THEOREM AgentChainAscends == Spec => ChainAscends
  <1>1. IInv /\ [Next]_vars =>
          [\A r \in Runners : running[r] # None /\ running'[r] # None =>
             taskRank(running'[r]) >= taskRank(running[r])]_vars
    BY IInvNext DEF RankKept
  <1> QED
    BY <1>1, AgentInvariant, PTL DEF Spec, ChainAscends

===============================================================================
