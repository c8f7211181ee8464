--------------------------- MODULE EventBusProofs ---------------------------
(***************************************************************************)
(* Proofs about EventBus, for any clients, topics, filters and bounds: a   *)
(* stream's id vouches for everything up to it, an idle stream is up to    *)
(* date, a poller misses only what the ring has lost and its cursor never  *)
(* goes back, and every variable keeps its type.                           *)
(*                                                                         *)
(* BusInv adds what the argument about streams rests on: the ring is a     *)
(* gapless suffix of what was kept (RingIsSuffix), a queue is in order and *)
(* after the client's id (Queue), and whatever a connected stream is owed  *)
(* has been handed over, is queued, or came after its feed was ended       *)
(* (Accounted).  PollInv adds the same for the phases of a poller's        *)
(* request.                                                                *)
(***************************************************************************)
EXTENDS EventBus, FiniteSetTheorems, TLAPS

\* Every kept event that is not older than the ring's oldest is in the ring.
RingIsSuffix ==
    /\ epoch \in Nat \ {0}
    /\ log \in Seq([topic : Topics, keep : BOOLEAN])
    /\ ring \in Seq(Nat)
    /\ \A i \in 1..Len(ring) : ring[i] \in 1..Latest
    /\ \A i, j \in 1..Len(ring) : i < j => ring[i] < ring[j]
    /\ \A n \in 1..Latest : log[n].keep =>
          /\ Len(ring) > 0
          /\ n < ring[1] \/ \E i \in 1..Len(ring) : ring[i] = n

\* The variables are functions on the clients.
Domains ==
    /\ DOMAIN conn = Clients /\ DOMAIN feed = Clients /\ DOMAIN resync = Clients
    /\ DOMAIN last = Clients /\ DOMAIN at = Clients /\ DOMAIN base = Clients
    /\ DOMAIN seen = Clients /\ DOMAIN phase = Clients /\ DOMAIN view = Clients

Shape(s) ==
    /\ conn[s] \in {"off", "on", "ended"}
    /\ resync[s] \in BOOLEAN
    /\ at[s] \in Nat /\ at[s] <= epoch
    /\ last[s] \in Nat
    /\ at[s] # 0 => last[s] >= 1
    /\ at[s] = epoch => last[s] <= Latest
    /\ base[s].epoch \in Nat /\ base[s].id \in Nat
    /\ phase[s] = "idle"
    /\ conn[s] = "off" => ~resync[s]

Queue(s) ==
    /\ feed[s] \in Seq(Nat)
    /\ conn[s] = "off" => feed[s] = <<>>
    /\ \A i \in 1..Len(feed[s]) : feed[s][i] \in 1..Latest
    /\ \A i, j \in 1..Len(feed[s]) : i < j => feed[s][i] < feed[s][j]
    /\ at[s] = epoch => \A i \in 1..Len(feed[s]) : last[s] < feed[s][i]

Queued(s, n) == \E i \in 1..Len(feed[s]) : feed[s][i] = n

\* n was published after the feed was ended.
TooLate(s, n) ==
    /\ conn[s] = "ended"
    /\ \A i \in 1..Len(feed[s]) : feed[s][i] < n
    /\ at[s] = epoch => last[s] < n

Accounted(s) ==
    conn[s] # "off" /\ ~resync[s] =>
        /\ base[s].epoch = epoch
        /\ \A n \in 1..Latest :
              base[s].id < n /\ Owed(s, n) => n \in seen[s] \/ Queued(s, n) \/ TooLate(s, n)

StreamInv(s) == Shape(s) /\ Queue(s) /\ NoHole(s) /\ Accounted(s)

\* The inductive invariant.
BusInv == RingIsSuffix /\ Domains /\ \A s \in Streams : StreamInv(s)

-----------------------------------------------------------------------------
\* What one stream sees of a step that does not concern it.
Untouched(s) ==
    /\ conn'[s] = conn[s] /\ feed'[s] = feed[s] /\ resync'[s] = resync[s]
    /\ last'[s] = last[s] /\ at'[s] = at[s] /\ base'[s] = base[s]
    /\ seen'[s] = seen[s] /\ phase'[s] = phase[s]

\* A step that leaves the bus and a stream alone keeps that stream's invariant.
LEMMA UntouchedKeeps ==
    ASSUME NEW s \in Streams, StreamInv(s), UNCHANGED busVars, Untouched(s)
    PROVE  StreamInv(s)'
BY DEF StreamInv, Shape, Queue, NoHole, Accounted, Queued, TooLate, Owed, Latest,
       Untouched, busVars

\* So does the ring.
LEMMA RingKept ==
    ASSUME RingIsSuffix, UNCHANGED busVars
    PROVE  RingIsSuffix'
BY DEF RingIsSuffix, busVars, Latest

\* The ring with one more event is still a suffix of what was kept.
LEMMA PushedIsSuffix ==
    ASSUME RingIsSuffix, NEW t \in Topics, NEW keep \in BOOLEAN, Publish(t, keep)
    PROVE  RingIsSuffix'
<1>1. /\ log' = Append(log, [topic |-> t, keep |-> keep])
      /\ log' \in Seq([topic : Topics, keep : BOOLEAN])
      /\ Len(log') = Len(log) + 1 /\ Len(log) \in Nat
      /\ \A n \in 1..Len(log) : log'[n] = log[n]
      /\ log'[Len(log) + 1].keep = keep
  BY DEF Publish, RingIsSuffix
<1>2. epoch' = epoch /\ ring' = Pushed(keep, RingCap)
  BY DEF Publish
<1>3. CASE ~keep
  <2>1. ring' = ring
    BY <1>2, <1>3 DEF Pushed
  <2> QED
    BY <1>1, <1>2, <1>3, <2>1 DEF RingIsSuffix, Latest
<1>4. CASE keep
  <2> DEFINE longer == Append(ring, Len(log) + 1)
  <2>1. /\ longer \in Seq(Nat) /\ Len(longer) = Len(ring) + 1 /\ Len(ring) \in Nat
        /\ \A i \in 1..Len(ring) : longer[i] = ring[i]
        /\ longer[Len(ring) + 1] = Len(log) + 1
    BY <1>1 DEF RingIsSuffix
  <2>2. \A i \in 1..Len(longer) : longer[i] \in 1..(Len(log) + 1)
    BY <1>1, <2>1 DEF RingIsSuffix, Latest
  <2>3. \A i, j \in 1..Len(longer) : i < j => longer[i] < longer[j]
    <3> SUFFICES ASSUME NEW i \in 1..Len(longer), NEW j \in 1..Len(longer), i < j
                 PROVE  longer[i] < longer[j]
      OBVIOUS
    <3>1. i \in 1..Len(ring) /\ longer[i] = ring[i] /\ ring[i] \in 1..Len(log)
      BY <2>1 DEF RingIsSuffix, Latest
    <3>2. CASE j = Len(ring) + 1
      BY <1>1, <2>1, <3>1, <3>2
    <3>3. CASE j # Len(ring) + 1
      <4>1. j \in 1..Len(ring) /\ longer[j] = ring[j]
        BY <2>1, <3>3
      <4> QED
        BY <3>1, <4>1 DEF RingIsSuffix
    <3> QED
      BY <3>2, <3>3
  <2>4. \A n \in 1..Len(log') : log'[n].keep =>
           n < longer[1] \/ \E i \in 1..Len(longer) : longer[i] = n
    <3> SUFFICES ASSUME NEW n \in 1..Len(log'), log'[n].keep
                 PROVE  n < longer[1] \/ \E i \in 1..Len(longer) : longer[i] = n
      OBVIOUS
    <3>1. CASE n = Len(log) + 1
      <4>1. Len(ring) + 1 \in 1..Len(longer) /\ longer[Len(ring) + 1] = n
        BY <2>1, <3>1
      <4> QED
        BY <4>1
    <3>2. CASE n # Len(log) + 1
      <4>1. n \in 1..Len(log) /\ log[n].keep
        BY <1>1, <3>2
      <4>2. Len(ring) > 0 /\ (n < ring[1] \/ \E i \in 1..Len(ring) : ring[i] = n)
        BY <4>1 DEF RingIsSuffix, Latest
      <4>3. 1..Len(ring) \subseteq 1..Len(longer) /\ longer[1] = ring[1]
        BY <2>1, <4>2
      <4> QED
        BY <2>1, <4>2, <4>3
    <3> QED
      BY <3>1, <3>2
  <2> HIDE DEF longer
  <2>5. CASE Len(longer) <= RingCap
    <3>1. ring' = longer
      BY <1>2, <1>4, <2>5 DEF Pushed, longer, Latest
    <3> QED
      BY <1>1, <1>2, <2>1, <2>2, <2>3, <2>4, <3>1 DEF RingIsSuffix, Latest
  <2>6. CASE ~(Len(longer) <= RingCap)
    <3> DEFINE k == Len(longer) - RingCap + 1
    <3>1. ring' = SubSeq(longer, k, Len(longer))
      BY <1>2, <1>4, <2>6 DEF Pushed, longer, Latest
    <3>2. k \in 1..Len(longer) /\ Len(longer) \in Nat
      BY <2>1, <2>6, EventBusAssumption
    <3> HIDE DEF k
    <3>3. /\ ring' \in Seq(Nat) /\ Len(ring') = Len(longer) - k + 1
          /\ \A i \in 1..Len(ring') : ring'[i] = longer[i + k - 1]
      BY <2>1, <3>1, <3>2
    <3>4. \A i \in 1..Len(ring') : i + k - 1 \in 1..Len(longer)
      BY <3>2, <3>3
    <3>5. \A n \in 1..Len(log') : log'[n].keep =>
             n < ring'[1] \/ \E i \in 1..Len(ring') : ring'[i] = n
      <4> SUFFICES ASSUME NEW n \in 1..Len(log'), log'[n].keep, ~(n < ring'[1])
                   PROVE  \E i \in 1..Len(ring') : ring'[i] = n
        OBVIOUS
      <4>1. ring'[1] = longer[k]
        BY <3>2, <3>3
      <4>2. longer[1] <= longer[k]
        BY <2>1, <2>2, <2>3, <3>2
      <4> n \in Nat /\ longer[1] \in Nat /\ longer[k] \in Nat
        BY <1>1, <2>1, <2>2, <3>2
      <4>3. ~(n < longer[1])
        BY <4>1, <4>2
      <4>4. PICK i \in 1..Len(longer) : longer[i] = n
        BY <2>4, <4>3
      <4>5. i >= k
        BY <1>1, <2>1, <2>2, <2>3, <3>2, <4>1, <4>4
      <4>6. i - k + 1 \in 1..Len(ring') /\ ring'[i - k + 1] = n
        <5>1. i - k + 1 \in 1..Len(ring') /\ (i - k + 1) + k - 1 = i
          BY <3>2, <3>3, <4>5
        <5> QED
          BY <3>3, <4>4, <5>1
      <4> QED
        BY <4>6
    <3>6. \A i, j \in 1..Len(ring') : i < j => ring'[i] < ring'[j]
      <4> SUFFICES ASSUME NEW i \in 1..Len(ring'), NEW j \in 1..Len(ring'), i < j
                   PROVE  ring'[i] < ring'[j]
        OBVIOUS
      <4>1. i + k - 1 \in 1..Len(longer) /\ j + k - 1 \in 1..Len(longer) /\ i + k - 1 < j + k - 1
        BY <3>2, <3>3, <3>4
      <4> QED
        BY <2>3, <3>3, <4>1
    <3>7. \A i \in 1..Len(ring') : ring'[i] \in 1..Len(log')
      BY <1>1, <2>2, <3>3, <3>4
    <3>8. Len(ring') > 0
      BY <3>2, <3>3
    <3> QED
      BY <1>1, <1>2, <3>3, <3>5, <3>6, <3>7, <3>8 DEF RingIsSuffix, Latest
  <2> QED
    BY <2>5, <2>6
<1> QED
  BY <1>3, <1>4

-----------------------------------------------------------------------------
(***************************************************************************)
(* One lemma per action: what it does to any one stream.                   *)
(***************************************************************************)

\* A published event is queued for every open stream it is for, or ends its feed.
LEMMA PublishKeeps ==
    ASSUME BusInv, NEW t \in Topics, NEW keep \in BOOLEAN, Publish(t, keep), NEW s \in Streams
    PROVE  StreamInv(s)'
<1>1. s \in Clients /\ StreamInv(s) /\ RingIsSuffix /\ Domains
  BY DEF BusInv, Clients
<1>2. /\ Len(log') = Len(log) + 1 /\ Len(log) \in Nat
      /\ \A n \in 1..Len(log) : log'[n] = log[n]
      /\ log'[Len(log) + 1].topic = t
  BY <1>1 DEF Publish, RingIsSuffix
<1>3. /\ epoch' = epoch /\ resync' = resync /\ last' = last /\ at' = at
      /\ base' = base /\ seen' = seen /\ phase' = phase
  BY DEF Publish, clientVars, pollVars
<1>4. \A n \in 1..Len(log) : Owed(s, n)' <=> Owed(s, n)
  BY <1>2 DEF Owed
<1>5. NoHole(s)'
  <2> SUFFICES ASSUME at[s] = epoch
               PROVE  /\ base[s].epoch = epoch
                      /\ \A n \in (base[s].id + 1)..last[s] : Owed(s, n)' => n \in seen[s]
    BY <1>3 DEF NoHole, Owed
  <2>1. \A n \in (base[s].id + 1)..last[s] : n \in 1..Len(log)
    BY <1>1, <1>2 DEF StreamInv, Shape, Latest
  <2> QED
    BY <1>1, <1>4, <2>1 DEF StreamInv, NoHole
<1>6. \/ feed'[s] = feed[s] /\ conn'[s] = conn[s] /\ s \notin Addressed(t)
      \/ feed'[s] = feed[s] /\ conn'[s] = "ended" /\ conn[s] = "on"
      \/ feed'[s] = Append(feed[s], Len(log) + 1) /\ conn'[s] = conn[s] /\ conn[s] = "on"
  BY <1>1, EventBusAssumption DEF Publish, Addressed, Latest, StreamInv, Queue
<1>7. \A i \in 1..Len(feed[s]) : feed[s][i] \in 1..Len(log) /\ feed[s][i] \in 1..Len(log')
  BY <1>1, <1>2 DEF StreamInv, Queue, Latest
<1>8. Shape(s)'
  BY <1>1, <1>2, <1>3, <1>6 DEF StreamInv, Shape, Latest
<1>9. CASE feed'[s] = feed[s] /\ conn'[s] = conn[s] /\ s \notin Addressed(t)
  <2>1. Queue(s)'
    BY <1>1, <1>3, <1>9, <1>7 DEF StreamInv, Queue, Latest
  <2>2. Accounted(s)'
    <3> SUFFICES ASSUME conn[s] # "off", ~resync[s], NEW n \in 1..(Len(log) + 1),
                        base[s].id < n, Owed(s, n)'
                 PROVE  n \in seen[s] \/ Queued(s, n) \/ TooLate(s, n)
      BY <1>1, <1>2, <1>3, <1>9 DEF Accounted, StreamInv, Queued, TooLate, Latest, Owed
    <3>1. CASE n = Len(log) + 1
      <4>1. conn[s] # "on"
        BY <1>1, <1>2, <1>9, <3>1 DEF Owed, Addressed
      <4> QED
        BY <1>1, <1>2, <3>1, <4>1 DEF StreamInv, Shape, Queue, TooLate, Latest
    <3>2. CASE n # Len(log) + 1
      BY <1>1, <1>2, <1>4, <3>2 DEF StreamInv, Accounted, Latest
    <3> QED
      BY <3>1, <3>2
  <2> QED
    BY <1>5, <1>8, <2>1, <2>2 DEF StreamInv
<1>10. CASE feed'[s] = feed[s] /\ conn'[s] = "ended" /\ conn[s] = "on"
  <2>1. Queue(s)'
    BY <1>1, <1>3, <1>10, <1>7 DEF StreamInv, Queue, Latest
  <2>2. Accounted(s)'
    <3> SUFFICES ASSUME ~resync[s], NEW n \in 1..(Len(log) + 1), base[s].id < n, Owed(s, n)'
                 PROVE  n \in seen[s] \/ Queued(s, n) \/ TooLate(s, n)'
      BY <1>1, <1>2, <1>3, <1>10 DEF Accounted, StreamInv, Queued, Latest, Owed
    <3>1. CASE n = Len(log) + 1
      BY <1>1, <1>2, <1>3, <1>10, <3>1 DEF StreamInv, Shape, Queue, TooLate, Latest
    <3>2. CASE n # Len(log) + 1
      BY <1>1, <1>2, <1>4, <1>10, <3>2 DEF StreamInv, Accounted, TooLate, Latest
    <3> QED
      BY <3>1, <3>2
  <2> QED
    BY <1>5, <1>8, <2>1, <2>2 DEF StreamInv
<1>11. CASE feed'[s] = Append(feed[s], Len(log) + 1) /\ conn'[s] = conn[s] /\ conn[s] = "on"
  <2>1. /\ feed'[s] \in Seq(Nat) /\ Len(feed'[s]) = Len(feed[s]) + 1 /\ Len(feed[s]) \in Nat
        /\ \A i \in 1..Len(feed[s]) : feed'[s][i] = feed[s][i]
        /\ feed'[s][Len(feed[s]) + 1] = Len(log) + 1
    BY <1>1, <1>2, <1>11 DEF StreamInv, Queue
  <2>2. \A i \in 1..Len(feed'[s]) :
           \/ i \in 1..Len(feed[s]) /\ feed'[s][i] = feed[s][i] /\ feed[s][i] \in 1..Len(log)
           \/ i = Len(feed[s]) + 1 /\ feed'[s][i] = Len(log) + 1
    <3> SUFFICES ASSUME NEW i \in 1..Len(feed'[s]), i # Len(feed[s]) + 1
                 PROVE  /\ i \in 1..Len(feed[s]) /\ feed'[s][i] = feed[s][i]
                        /\ feed[s][i] \in 1..Len(log)
      BY <2>1
    <3>1. i \in 1..Len(feed[s])
      BY <2>1
    <3> QED
      BY <1>7, <2>1, <3>1
  <2>3. Queue(s)'
    <3>1. \A i \in 1..Len(feed'[s]) : feed'[s][i] \in 1..Len(log')
      BY <1>2, <2>2
    <3>2. \A i, j \in 1..Len(feed'[s]) : i < j => feed'[s][i] < feed'[s][j]
      <4> SUFFICES ASSUME NEW i \in 1..Len(feed'[s]), NEW j \in 1..Len(feed'[s]), i < j
                   PROVE  feed'[s][i] < feed'[s][j]
        OBVIOUS
      <4>1. i \in 1..Len(feed[s]) /\ feed'[s][i] = feed[s][i] /\ feed[s][i] \in 1..Len(log)
        <5>1. i # Len(feed[s]) + 1
          BY <2>1
        <5> QED
          BY <2>2, <5>1
      <4>2. CASE j \in 1..Len(feed[s])
        BY <1>1, <2>1, <4>1, <4>2 DEF StreamInv, Queue
      <4>3. CASE j = Len(feed[s]) + 1
        BY <1>2, <2>1, <4>1, <4>3
      <4> QED
        BY <2>2, <4>2, <4>3
    <3>3. at[s] = epoch => \A i \in 1..Len(feed'[s]) : last[s] < feed'[s][i]
      <4> SUFFICES ASSUME at[s] = epoch, NEW i \in 1..Len(feed'[s])
                   PROVE  last[s] < feed'[s][i]
        OBVIOUS
      <4>1. last[s] \in Nat /\ last[s] <= Len(log)
        BY <1>1 DEF StreamInv, Shape, Latest
      <4>2. \A k \in 1..Len(feed[s]) : last[s] < feed[s][k]
        BY <1>1 DEF StreamInv, Queue
      <4> QED
        BY <1>2, <2>2, <4>1, <4>2
    <3> QED
      BY <1>3, <1>11, <2>1, <3>1, <3>2, <3>3 DEF Queue, Latest
  <2>4. Accounted(s)'
    <3> SUFFICES ASSUME ~resync[s], NEW n \in 1..(Len(log) + 1), base[s].id < n, Owed(s, n)'
                 PROVE  n \in seen[s] \/ Queued(s, n)'
      BY <1>1, <1>2, <1>3, <1>11 DEF Accounted, StreamInv, Latest, Owed
    <3>1. CASE n = Len(log) + 1
      <4>1. Len(feed[s]) + 1 \in 1..Len(feed'[s])
        BY <2>1
      <4> QED
        BY <2>1, <3>1, <4>1 DEF Queued
    <3>2. CASE n # Len(log) + 1
      <4>1. n \in seen[s] \/ Queued(s, n)
        BY <1>1, <1>2, <1>4, <1>11, <3>2 DEF StreamInv, Accounted, TooLate, Latest
      <4>2. ASSUME NEW i \in 1..Len(feed[s]), feed[s][i] = n
            PROVE  i \in 1..Len(feed'[s]) /\ feed'[s][i] = n
        <5>1. i \in 1..Len(feed'[s])
          BY <2>1
        <5> QED
          BY <2>1, <4>2, <5>1
      <4> QED
        BY <4>1, <4>2 DEF Queued
    <3> QED
      BY <3>1, <3>2
  <2> QED
    BY <1>5, <1>8, <2>3, <2>4 DEF StreamInv
<1> QED
  BY <1>6, <1>9, <1>10, <1>11

\* What an ascending enumeration of some of the ring is.
LEMMA AscendingSeq ==
    ASSUME RingIsSuffix, NEW S, S \subseteq RangeOf(ring), NEW q \in Ascending(S)
    PROVE  /\ q \in Seq(Nat)
           /\ \A i \in 1..Len(q) : q[i] \in S /\ q[i] \in 1..Latest
           /\ \A n \in S : \E i \in 1..Len(q) : q[i] = n
           /\ \A i, j \in 1..Len(q) : i < j => q[i] < q[j]
<1>1. RangeOf(ring) = {ring[i] : i \in 1..Len(ring)} /\ Len(ring) \in Nat
  BY DEF RangeOf, RingIsSuffix
<1>2. IsFiniteSet(1..Len(ring))
  BY <1>1, FS_Interval
<1>3. IsFiniteSet(RangeOf(ring))
  <2>1. ring \in Surjection(1..Len(ring), RangeOf(ring))
    BY <1>1 DEF Surjection, RingIsSuffix
  <2> QED
    BY <1>2, <2>1, FS_Surjection
<1>4. IsFiniteSet(S) /\ Cardinality(S) \in Nat
  BY <1>3, FS_Subset, FS_CardinalityType
<1>5. S \subseteq 1..Latest /\ S \subseteq Nat
  BY <1>1 DEF RingIsSuffix, Latest
<1>6. /\ q \in [1..Cardinality(S) -> S] /\ RangeOf(q) = S
      /\ \A i, j \in DOMAIN q : i < j => q[i] < q[j]
  BY DEF Ascending
<1>7. q \in Seq(S) /\ Len(q) = Cardinality(S) /\ DOMAIN q = 1..Len(q)
  BY <1>4, <1>6
<1>8. q \in Seq(Nat)
  <2>1. q \in [1..Cardinality(S) -> Nat]
    BY <1>5, <1>6
  <2> QED
    BY <1>4, <2>1
<1>9. \A n \in S : \E i \in 1..Len(q) : q[i] = n
  BY <1>6, <1>7 DEF RangeOf
<1> QED
  BY <1>5, <1>6, <1>7, <1>8, <1>9

\* A new subscription: what the ring no longer covers is owned up to.
LEMMA SubscribeKeeps ==
    ASSUME BusInv, NEW c \in Clients, Subscribe(c), NEW s \in Streams
    PROVE  StreamInv(s)'
<1>1. s \in Clients /\ StreamInv(s) /\ RingIsSuffix /\ Domains
  BY DEF BusInv, Clients
<1>2. CASE s # c
  <2>1. Untouched(s) /\ UNCHANGED busVars
    BY <1>1, <1>2 DEF Subscribe, Untouched, Domains, pollVars
  <2> QED
    BY <1>1, <2>1, UntouchedKeeps
<1>3. CASE s = c
  <2> DEFINE since  == IF at[s] = 0 THEN 0 ELSE last[s]
             replay == IF since = 0 THEN {} ELSE Replayed(s, since)
             handed == Page(replay, Buffer)
  <2>1. /\ conn[s] = "off" /\ conn'[s] = "on" /\ UNCHANGED <<busVars, last, at>>
        /\ resync'[s] = (at[s] \notin {0, epoch} \/ ~Covers(since) \/ handed # replay)
        /\ phase'[s] = phase[s]
    BY <1>1, <1>3 DEF Subscribe, Domains, pollVars
  <2>2. PICK q \in Ascending(handed) : feed'[s] = q
    BY <1>1, <1>3 DEF Subscribe, Domains
  <2>3. handed \subseteq replay /\ replay \subseteq RangeOf(ring)
    BY DEF Page, Replayed
  <2>4. /\ q \in Seq(Nat)
        /\ \A i \in 1..Len(q) : q[i] \in handed /\ q[i] \in 1..Latest
        /\ \A n \in handed : \E i \in 1..Len(q) : q[i] = n
        /\ \A i, j \in 1..Len(q) : i < j => q[i] < q[j]
    BY <1>1, <2>3, AscendingSeq
  <2>5. at[s] = epoch => since = last[s] /\ since >= 1 /\ replay = Replayed(s, last[s])
    BY <1>1 DEF StreamInv, Shape, RingIsSuffix
  <2>6. at[s] = epoch => \A i \in 1..Len(q) : last[s] < q[i]
    BY <1>1, <2>3, <2>4, <2>5 DEF Replayed, StreamInv, Shape
  <2>7. Queue(s)'
    BY <2>1, <2>2, <2>4, <2>6 DEF Queue, Latest, busVars
  <2>8. CASE at[s] = 0
    <3>1. base'[s] = [epoch |-> epoch, id |-> Latest] /\ Latest \in Nat
      BY <1>1, <1>3, <2>8 DEF Subscribe, Domains, RingIsSuffix, Latest
    <3>2. Shape(s)'
      BY <1>1, <2>1, <2>8, <3>1 DEF StreamInv, Shape, busVars, Latest, RingIsSuffix
    <3>3. NoHole(s)'
      BY <1>1, <2>1, <2>8 DEF NoHole, RingIsSuffix, busVars
    <3>4. Accounted(s)'
      BY <2>1, <3>1 DEF Accounted, busVars, Latest
    <3> QED
      BY <2>7, <3>2, <3>3, <3>4 DEF StreamInv
  <2>9. CASE at[s] # 0
    <3>1. base'[s] = base[s] /\ seen'[s] = seen[s]
      BY <1>3, <2>9 DEF Subscribe
    <3>2. Shape(s)'
      BY <1>1, <2>1, <2>9, <3>1 DEF StreamInv, Shape, busVars, Latest
    <3>3. NoHole(s)'
      BY <1>1, <2>1, <3>1 DEF StreamInv, NoHole, Owed, busVars
    <3>4. Accounted(s)'
      <4> SUFFICES ASSUME ~resync'[s]
                   PROVE  /\ base[s].epoch = epoch
                          /\ \A n \in 1..Latest : base[s].id < n /\ Owed(s, n) =>
                                n \in seen[s] \/ Queued(s, n)'
        BY <2>1, <3>1 DEF Accounted, Owed, Latest, busVars
      <4>1. at[s] = epoch /\ Covers(since) /\ handed = replay
        BY <2>1, <2>9
      <4>2. base[s].epoch = epoch
        BY <1>1, <4>1 DEF StreamInv, NoHole
      <4>3. ASSUME NEW n \in 1..Latest, base[s].id < n, Owed(s, n)
            PROVE  n \in seen[s] \/ Queued(s, n)'
        <5>0. last[s] \in Nat /\ base[s].id \in Nat /\ Latest \in Nat /\ n \in Nat
          BY <1>1 DEF StreamInv, Shape, RingIsSuffix, Latest
        <5>1. CASE n <= last[s]
          BY <1>1, <4>1, <4>3, <5>0, <5>1 DEF StreamInv, NoHole
        <5>2. CASE n > last[s]
          <6>1. Len(ring) > 0 /\ ring[1] <= last[s] + 1 /\ ring[1] \in Nat
            BY <1>1, <2>5, <4>1, <5>0, <5>2 DEF Covers, RingIsSuffix
          <6>2. \E i \in 1..Len(ring) : ring[i] = n
            <7>1. log[n].keep
              BY <4>3 DEF Owed
            <7>2. n < ring[1] \/ \E i \in 1..Len(ring) : ring[i] = n
              BY <1>1, <7>1 DEF RingIsSuffix
            <7> QED
              BY <5>0, <5>2, <6>1, <7>2
          <6>3. n \in RangeOf(ring)
            BY <1>1, <6>2 DEF RangeOf, RingIsSuffix
          <6>4. n \in handed
            BY <2>5, <4>1, <4>3, <5>2, <6>3 DEF Replayed, Owed
          <6> QED
            BY <2>2, <2>4, <6>4 DEF Queued
        <5> QED
          BY <5>0, <5>1, <5>2
      <4> QED
        BY <4>2, <4>3
    <3> QED
      BY <2>7, <3>2, <3>3, <3>4 DEF StreamInv
  <2> QED
    BY <2>8, <2>9
<1> QED
  BY <1>2, <1>3

\* A client that has been told to fetch everything holds everything up to now.
LEMMA TellResyncKeeps ==
    ASSUME BusInv, NEW c \in Clients, TellResync(c), NEW s \in Streams
    PROVE  StreamInv(s)'
<1>1. s \in Clients /\ StreamInv(s) /\ RingIsSuffix /\ Domains
  BY DEF BusInv, Clients
<1>2. UNCHANGED <<epoch, log, conn, feed, last, at, phase>>
  BY DEF TellResync, busVars, pollVars
<1>3. CASE s # c
  <2>1. Untouched(s) /\ UNCHANGED busVars
    BY <1>1, <1>3 DEF TellResync, Untouched, Domains, pollVars
  <2> QED
    BY <1>1, <2>1, UntouchedKeeps
<1>4. CASE s = c
  <2>1. /\ base'[s] = [epoch |-> epoch, id |-> Latest] /\ resync'[s] = FALSE
        /\ Latest \in Nat
    BY <1>1, <1>4 DEF TellResync, Domains, RingIsSuffix, Latest
  <2>2. Shape(s)'
    <3>1. base'[s].epoch \in Nat /\ base'[s].id \in Nat
      BY <1>1, <2>1 DEF RingIsSuffix
    <3>2. resync'[s] \in BOOLEAN /\ ~resync'[s]
      BY <2>1
    <3> QED
      BY <1>1, <1>2, <3>1, <3>2 DEF StreamInv, Shape, Latest
  <2>3. Queue(s)'
    BY <1>1, <1>2 DEF StreamInv, Queue, Latest
  <2>4. NoHole(s)'
    BY <1>1, <1>2, <2>1 DEF StreamInv, Shape, NoHole, Latest
  <2>5. Accounted(s)'
    BY <1>2, <2>1 DEF Accounted, Latest
  <2> QED
    BY <2>2, <2>3, <2>4, <2>5 DEF StreamInv
<1> QED
  BY <1>3, <1>4

\* The frame that is written is the lowest the stream has not had.
LEMMA SendKeeps ==
    ASSUME BusInv, NEW c \in Clients, Send(c), NEW s \in Streams
    PROVE  StreamInv(s)'
<1>1. s \in Clients /\ StreamInv(s) /\ RingIsSuffix /\ Domains
  BY DEF BusInv, Clients
<1>2. CASE s # c
  <2>1. Untouched(s) /\ UNCHANGED busVars
    BY <1>1, <1>2 DEF Send, Untouched, Domains, pollVars
  <2> QED
    BY <1>1, <2>1, UntouchedKeeps
<1>3. CASE s = c
  <2> DEFINE n == Head(feed[s])
  <2>1. /\ conn[s] # "off" /\ ~resync[s] /\ feed[s] # <<>>
        /\ feed'[s] = Tail(feed[s])
        /\ UNCHANGED <<epoch, log, conn, resync, base, phase>>
    BY <1>1, <1>3 DEF Send, Domains, busVars, pollVars
  <2>2. /\ feed[s] \in Seq(Nat) /\ Len(feed[s]) \in Nat /\ Len(feed[s]) >= 1
        /\ feed'[s] \in Seq(Nat) /\ Len(feed'[s]) = Len(feed[s]) - 1
        /\ \A i \in 1..Len(feed'[s]) : i + 1 \in 1..Len(feed[s]) /\ feed'[s][i] = feed[s][i + 1]
        /\ n = feed[s][1] /\ 1 \in 1..Len(feed[s])
    BY <1>1, <2>1 DEF StreamInv, Queue
  <2>3. n \in 1..Latest
    BY <1>1, <2>2 DEF StreamInv, Queue
  <2>4. \A i \in 1..Len(feed'[s]) :
           /\ feed'[s][i] \in 1..Latest /\ n < feed'[s][i]
           /\ at[s] = epoch => last[s] < feed'[s][i]
    <3> SUFFICES ASSUME NEW i \in 1..Len(feed'[s])
                 PROVE  /\ feed[s][i + 1] \in 1..Latest /\ feed[s][1] < feed[s][i + 1]
                        /\ at[s] = epoch => last[s] < feed[s][i + 1]
      BY <2>2
    <3>1. i + 1 \in 1..Len(feed[s]) /\ 1 < i + 1
      BY <2>2
    <3> QED
      BY <1>1, <2>2, <3>1 DEF StreamInv, Queue
  <2>5. \A i, j \in 1..Len(feed'[s]) : i < j => feed'[s][i] < feed'[s][j]
    <3> SUFFICES ASSUME NEW i \in 1..Len(feed'[s]), NEW j \in 1..Len(feed'[s]), i < j
                 PROVE  feed'[s][i] < feed'[s][j]
      OBVIOUS
    <3>1. i + 1 \in 1..Len(feed[s]) /\ j + 1 \in 1..Len(feed[s])
      BY <2>2
    <3>2. i \in Nat /\ j \in Nat /\ i + 1 < j + 1
      OBVIOUS
    <3>3. feed[s][i + 1] < feed[s][j + 1]
      BY <1>1, <3>1, <3>2 DEF StreamInv, Queue
    <3> QED
      BY <2>2, <3>3
  <2>6. \A m : Queued(s, m) => m = n \/ Queued(s, m)'
    <3> SUFFICES ASSUME NEW i \in 1..Len(feed[s]), i # 1
                 PROVE  \E j \in 1..Len(feed'[s]) : feed'[s][j] = feed[s][i]
      BY <2>2 DEF Queued
    <3>1. i - 1 \in 1..Len(feed'[s]) /\ (i - 1) + 1 = i
      BY <2>2
    <3> QED
      BY <2>2, <3>1
  <2>7. ASSUME NEW m \in 1..Latest, base[s].id < m, Owed(s, m)
        PROVE  \/ m \in seen[s] \/ Queued(s, m)
               \/ TooLate(s, m) /\ n < m
    BY <1>1, <2>1, <2>2, <2>7 DEF StreamInv, Accounted, TooLate
  <2>8. CASE log[n].topic \in readable[s]
    <3>1. last'[s] = n /\ at'[s] = epoch /\ seen'[s] = seen[s] \cup {n}
      BY <1>1, <1>3, <2>8 DEF Send, Domains
    <3>2. Shape(s)'
      BY <1>1, <2>1, <2>3, <3>1 DEF StreamInv, Shape, RingIsSuffix, Latest
    <3>3. Queue(s)'
      BY <2>1, <2>2, <2>4, <2>5, <3>1 DEF Queue, Latest
    <3>4. NoHole(s)'
      <4> SUFFICES ASSUME NEW m \in (base[s].id + 1)..n, Owed(s, m)
                   PROVE  m \in seen[s] \cup {n}
        BY <1>1, <2>1, <3>1 DEF NoHole, Owed, StreamInv, Accounted
      <4>1. m \in 1..Latest /\ base[s].id < m /\ m <= n /\ m \in Nat /\ n \in Nat
        BY <1>1, <2>3 DEF StreamInv, Shape, RingIsSuffix, Latest
      <4>2. Queued(s, m) => m = n
        <5>1. ~Queued(s, m)'
          BY <2>4, <4>1 DEF Queued
        <5> QED
          BY <2>6, <5>1
      <4> QED
        BY <2>7, <4>1, <4>2
    <3>5. Accounted(s)'
      <4> SUFFICES ASSUME NEW m \in 1..Latest, base[s].id < m, Owed(s, m)
                   PROVE  m \in seen[s] \cup {n} \/ Queued(s, m)' \/ TooLate(s, m)'
        BY <1>1, <2>1, <3>1 DEF Accounted, Owed, StreamInv, Latest
      <4>1. TooLate(s, m) /\ n < m => TooLate(s, m)'
        BY <2>1, <2>2, <3>1 DEF TooLate
      <4> QED
        BY <2>6, <2>7, <4>1
    <3> QED
      BY <3>2, <3>3, <3>4, <3>5 DEF StreamInv
  <2>9. CASE log[n].topic \notin readable[s]
    <3>1. last' = last /\ at' = at /\ seen' = seen
      BY <1>3, <2>9 DEF Send
    <3>2. Shape(s)' /\ NoHole(s)'
      BY <1>1, <2>1, <3>1 DEF StreamInv, Shape, NoHole, Owed, Latest
    <3>3. Queue(s)'
      BY <2>1, <2>2, <2>4, <2>5, <3>1 DEF Queue, Latest
    <3>4. Accounted(s)'
      <4> SUFFICES ASSUME NEW m \in 1..Latest, base[s].id < m, Owed(s, m)
                   PROVE  m \in seen[s] \/ Queued(s, m)' \/ TooLate(s, m)'
        BY <1>1, <2>1, <3>1 DEF Accounted, Owed, StreamInv, Latest
      <4>1. m # n
        BY <2>9 DEF Owed
      <4>2. TooLate(s, m) => TooLate(s, m)'
        BY <2>1, <2>2, <3>1 DEF TooLate
      <4> QED
        BY <2>6, <2>7, <4>1, <4>2
    <3> QED
      BY <3>2, <3>3, <3>4 DEF StreamInv
  <2> QED
    BY <2>8, <2>9
<1> QED
  BY <1>2, <1>3

\* A connection that ends takes nothing but its queue with it.
LEMMA EndKeeps ==
    ASSUME BusInv, NEW c \in Clients, FeedEnds(c) \/ Break(c), NEW s \in Streams
    PROVE  StreamInv(s)'
<1>1. s \in Clients /\ StreamInv(s) /\ Domains
  BY DEF BusInv, Clients
<1>2. UNCHANGED <<epoch, log, ring, last, at, base, seen, phase>>
  BY DEF FeedEnds, Break, busVars, clientVars, pollVars
<1>3. CASE s # c
  <2>1. Untouched(s) /\ UNCHANGED busVars
    BY <1>1, <1>2, <1>3 DEF FeedEnds, Break, Untouched, Domains, busVars
  <2> QED
    BY <1>1, <2>1, UntouchedKeeps
<1>4. CASE s = c
  <2>1. conn'[s] = "off" /\ feed'[s] = <<>> /\ resync'[s] = FALSE
    BY <1>1, <1>4 DEF FeedEnds, Break, Domains, StreamInv, Shape
  <2> QED
    <3>1. Shape(s)'
      BY <1>1, <1>2, <2>1 DEF StreamInv, Shape, Latest
    <3>2. Queue(s)'
      BY <2>1 DEF Queue
    <3>3. NoHole(s)' /\ Accounted(s)'
      BY <1>1, <1>2, <2>1 DEF StreamInv, NoHole, Accounted, Owed
    <3> QED
      BY <3>1, <3>2, <3>3 DEF StreamInv
<1> QED
  BY <1>3, <1>4

\* A poller's request never touches a stream.
LEMMA PollKeeps ==
    ASSUME BusInv, NEW c \in Clients, Poll(c), NEW s \in Streams
    PROVE  StreamInv(s)'
<1>1. s \in Clients /\ StreamInv(s) /\ Domains
  BY DEF BusInv, Clients
<1>2. s # c
  BY <1>1, EventBusAssumption DEF Poll, RecentNow, RecentMarks, RecentReads, RecentHolds,
     RecentJoins, RecentRereads, RecentTimesOut, RecentWakes, RecentCutOff, RecentGone,
     StreamInv, Shape
<1>3. \A items, next, complete : Answered(c, items, next, complete) =>
         Untouched(s) /\ UNCHANGED busVars
  BY <1>1, <1>2 DEF Answered, Untouched, Domains
<1>4. Untouched(s) /\ UNCHANGED busVars
  BY <1>1, <1>2, <1>3 DEF Poll, RecentNow, RecentMarks, RecentReads, RecentHolds,
     RecentJoins, RecentRereads, RecentTimesOut, RecentWakes, RecentCutOff, RecentGone,
     Untouched, Domains, connVars, clientVars, pollVars
<1> QED
  BY <1>1, <1>4, UntouchedKeeps

\* A new run of the process: no stream is connected, and no id is of this run.
LEMMA RestartKeeps ==
    ASSUME BusInv, Restart, NEW s \in Streams
    PROVE  StreamInv(s)'
<1>1. s \in Clients /\ StreamInv(s) /\ RingIsSuffix
  BY DEF BusInv, Clients
<1>2. /\ epoch' = epoch + 1 /\ epoch \in Nat /\ Latest' = 0
      /\ conn'[s] = "off" /\ feed'[s] = <<>> /\ resync'[s] = FALSE /\ phase'[s] = "idle"
      /\ UNCHANGED <<last, at, base, seen>>
  BY <1>1 DEF Restart, clientVars, RingIsSuffix, Latest
<1>3. at'[s] # epoch' /\ at'[s] <= epoch'
  BY <1>1, <1>2 DEF StreamInv, Shape
<1>4. Shape(s)'
  BY <1>1, <1>2, <1>3 DEF StreamInv, Shape
<1>5. Queue(s)'
  BY <1>2, <1>3 DEF Queue
<1>6. NoHole(s)' /\ Accounted(s)'
  BY <1>2, <1>3 DEF NoHole, Accounted
<1> QED
  BY <1>4, <1>5, <1>6 DEF StreamInv

\* The variables stay functions on the clients.
LEMMA DomainsKept ==
    ASSUME Domains, Next
    PROVE  Domains'
<1>1. ASSUME NEW t \in Topics, NEW keep \in BOOLEAN, Publish(t, keep) PROVE Domains'
  BY <1>1 DEF Publish, Domains, clientVars, pollVars
<1>2. ASSUME NEW c \in Clients, Stream(c) PROVE Domains'
  BY <1>2 DEF Stream, Subscribe, TellResync, Send, FeedEnds, Break, Domains, clientVars, pollVars
<1>3. ASSUME NEW c \in Clients, Poll(c) PROVE Domains'
  <2>1. \A items, next, complete : Answered(c, items, next, complete) => Domains'
    BY DEF Answered, Domains
  <2> QED
    BY <1>3, <2>1 DEF Poll, RecentNow, RecentMarks, RecentReads, RecentHolds, RecentJoins,
       RecentRereads, RecentTimesOut, RecentWakes, RecentCutOff, RecentGone,
       Domains, connVars, clientVars, pollVars
<1>4. ASSUME NEW k \in Classes, Close(k) PROVE Domains'
  BY <1>4 DEF Close, Domains, clientVars, pollVars
<1>5. ASSUME Restart PROVE Domains'
  BY <1>5 DEF Restart, Domains, clientVars
<1> QED
  BY <1>1, <1>2, <1>3, <1>4, <1>5 DEF Next

\* Only a publish and a restart change the bus itself.
LEMMA BusKept ==
    ASSUME NEW c \in Clients, Stream(c) \/ Poll(c)
    PROVE  UNCHANGED busVars
BY DEF Stream, Subscribe, TellResync, Send, FeedEnds, Break, Poll, RecentNow, RecentMarks,
   RecentReads, RecentHolds, RecentJoins, RecentRereads, RecentTimesOut, RecentWakes,
   RecentCutOff, RecentGone, Answered

-----------------------------------------------------------------------------
\* BusInv holds initially and is kept by every step.
THEOREM BusInvariant == Spec => []BusInv
<1>1. Init => BusInv
  <2> SUFFICES ASSUME Init PROVE BusInv
    OBVIOUS
  <2>1. RingIsSuffix
    BY DEF Init, RingIsSuffix, Latest
  <2>2. Domains
    BY DEF Init, Domains
  <2>3. ASSUME NEW s \in Streams PROVE StreamInv(s)
    <3>1. s \in Clients
      BY DEF Clients
    <3>2. Shape(s)
      BY <3>1 DEF Init, Shape
    <3>3. Queue(s) /\ NoHole(s) /\ Accounted(s)
      BY <3>1 DEF Init, Queue, NoHole, Accounted
    <3> QED
      BY <3>2, <3>3 DEF StreamInv
  <2> QED
    BY <2>1, <2>2, <2>3 DEF BusInv
<1>2. BusInv /\ [Next]_vars => BusInv'
  <2> SUFFICES ASSUME BusInv, [Next]_vars PROVE BusInv'
    OBVIOUS
  <2>1. ASSUME NEW t \in Topics, NEW keep \in BOOLEAN, Publish(t, keep) PROVE BusInv'
    <3>1. Domains'
      BY <2>1, DomainsKept DEF BusInv, Next
    <3>2. RingIsSuffix'
      BY <2>1, PushedIsSuffix DEF BusInv
    <3> QED
      BY <2>1, <3>1, <3>2, PublishKeeps DEF BusInv
  <2>2. ASSUME NEW c \in Clients, Stream(c) \/ Poll(c) PROVE BusInv'
    <3>1. Domains'
      BY <2>2, DomainsKept DEF BusInv, Next
    <3>2. RingIsSuffix'
      BY <2>2, BusKept, RingKept DEF BusInv
    <3>3. ASSUME NEW s \in Streams PROVE StreamInv(s)'
      BY <2>2, SubscribeKeeps, TellResyncKeeps, SendKeeps, EndKeeps, PollKeeps DEF Stream
    <3> QED
      BY <3>1, <3>2, <3>3 DEF BusInv
  <2>3. ASSUME NEW k \in Classes, Close(k) PROVE BusInv'
    <3>1. Domains' /\ UNCHANGED busVars
      BY <2>3, DomainsKept DEF BusInv, Next, Close
    <3>2. \A s \in Streams : Untouched(s)
      BY <2>3 DEF Close, Untouched, clientVars, pollVars
    <3>3. \A s \in Streams : StreamInv(s)'
      BY <3>1, <3>2, UntouchedKeeps DEF BusInv
    <3> QED
      BY <3>1, <3>3, RingKept DEF BusInv
  <2>4. ASSUME Restart PROVE BusInv'
    <3>1. Domains'
      BY <2>4, DomainsKept DEF BusInv, Next
    <3>2. RingIsSuffix'
      BY <2>4 DEF BusInv, Restart, RingIsSuffix, Latest
    <3> QED
      BY <2>4, <3>1, <3>2, RestartKeeps DEF BusInv
  <2>5. ASSUME UNCHANGED vars PROVE BusInv'
    <3>1. UNCHANGED busVars /\ \A s \in Streams : Untouched(s)
      BY <2>5 DEF vars, busVars, Untouched
    <3>2. Domains'
      BY <2>5 DEF vars, Domains, BusInv
    <3>3. \A s \in Streams : StreamInv(s)'
      BY <3>1, UntouchedKeeps DEF BusInv
    <3> QED
      BY <3>1, <3>2, <3>3, RingKept DEF BusInv
  <2> QED
    BY <2>1, <2>2, <2>3, <2>4, <2>5 DEF Next
<1> QED
  BY <1>1, <1>2, PTL DEF Spec

\* However often it is cut off, broken or restarted under, a stream's id never
\* passes over a kept event the stream was not handed and not told of.
THEOREM StreamsHaveNoHole == Spec => []StreamHasNoHole
<1>1. BusInv => StreamHasNoHole
  BY DEF BusInv, StreamInv, StreamHasNoHole
<1> QED
  BY <1>1, BusInvariant, PTL

\* A stream that waits on an empty queue has everything it is owed.
THEOREM IdleStreamsAreCurrent == Spec => []IdleIsCurrent
<1>1. BusInv => IdleIsCurrent
  <2> SUFFICES ASSUME BusInv, NEW s \in Streams, conn[s] = "on", ~resync[s], feed[s] = <<>>
               PROVE  Current(s)
    BY DEF IdleIsCurrent
  <2>1. StreamInv(s) /\ RingIsSuffix
    BY DEF BusInv
  <2>2. base[s].epoch = epoch
    BY <2>1 DEF StreamInv, Accounted
  <2>3. ASSUME NEW n \in (base[s].id + 1)..Latest, Owed(s, n) PROVE n \in seen[s]
    <3>1. n \in 1..Latest /\ base[s].id < n
      BY <2>1 DEF StreamInv, Shape, RingIsSuffix, Latest
    <3> QED
      BY <2>1, <2>3, <3>1 DEF StreamInv, Accounted, Queued, TooLate
  <2> QED
    BY <2>2, <2>3 DEF Current
<1> QED
  BY <1>1, BusInvariant, PTL

\* What waits for a stream is in order and after everything it has had.
THEOREM QueuesAscend == Spec => []QueueAscends
<1>1. BusInv => QueueAscends
  <2> SUFFICES ASSUME BusInv, NEW s \in Streams
               PROVE  /\ \A i, j \in DOMAIN feed[s] : i < j => feed[s][i] < feed[s][j]
                      /\ at[s] = epoch => \A i \in DOMAIN feed[s] : last[s] < feed[s][i]
    BY DEF QueueAscends
  <2>1. Queue(s) /\ DOMAIN feed[s] = 1..Len(feed[s])
    BY DEF BusInv, StreamInv, Queue
  <2> QED
    BY <2>1 DEF Queue
<1> QED
  BY <1>1, BusInvariant, PTL

-----------------------------------------------------------------------------
(***************************************************************************)
(* What the operators on sets of numbers return.                           *)
(***************************************************************************)

\* A set of naturals that is not empty has a lowest member.
LEMMA LowestIsMember ==
    ASSUME NEW S, S \subseteq Nat, S # {}
    PROVE  LowestOf(S) \in S /\ \A m \in S : LowestOf(S) <= m
<1>1. PICK x \in S : \A y \in S : ~(<<y, x>> \in OpToRel(<, Nat))
  BY NatLessThanWellFounded, WFMin
<1>2. \A y \in S : <<y, x>> \in OpToRel(<, Nat) <=> y < x
  BY DEF OpToRel
<1>3. \A y \in S : ~(y < x)
  BY <1>1, <1>2, Zenon
<1>4. \A y \in S : x <= y
  BY <1>3
<1> QED
  BY <1>4 DEF LowestOf

\* A bounded one has a highest member.
LEMMA HighestIsMember ==
    ASSUME NEW S, NEW N \in Nat, S \subseteq 0..N, S # {}
    PROVE  HighestOf(S) \in S /\ \A m \in S : m <= HighestOf(S)
<1> DEFINE U == {u \in Nat : \A m \in S : m <= u}
           top == LowestOf(U)
<1>1. U \subseteq Nat /\ N \in U
  OBVIOUS
<1>2. top \in U /\ \A u \in U : top <= u
  BY <1>1, LowestIsMember
<1>3. top \in S
  <2> SUFFICES ASSUME top \notin S PROVE FALSE
    OBVIOUS
  <2>1. top \in Nat /\ \A m \in S : m \in Nat /\ m < top
    BY <1>2
  <2> HIDE DEF top
  <2>2. top - 1 \in U
    <3>1. PICK m \in S : m < top
      BY <2>1
    <3>2. top - 1 \in Nat
      BY <2>1, <3>1
    <3>3. \A k \in S : k <= top - 1
      BY <2>1
    <3> QED
      BY <3>2, <3>3
  <2> QED
    BY <1>2, <2>1, <2>2
<1>4. \A m \in S : m <= top
  BY <1>2
<1> QED
  BY <1>3, <1>4 DEF HighestOf

\* A page has the lowest of the set, and all below any it has.
LEMMA PageIsPrefix ==
    ASSUME NEW S, NEW N \in Nat, S \subseteq 0..N, NEW n \in Nat \ {0}
    PROVE  /\ Page(S, n) \subseteq S
           /\ S # {} => Page(S, n) # {}
           /\ \A k \in Page(S, n), m \in S : m <= k => m \in Page(S, n)
<1> DEFINE Below(k) == {m \in S : m < k}
<1>1. S \subseteq Nat /\ IsFiniteSet(S)
  BY FS_BoundedSetOfNaturals
<1>2. \A k : IsFiniteSet(Below(k)) /\ Cardinality(Below(k)) \in Nat
  BY <1>1, FS_Subset, FS_CardinalityType
<1>3. S # {} => Page(S, n) # {}
  <2> SUFFICES ASSUME S # {} PROVE LowestOf(S) \in Page(S, n)
    OBVIOUS
  <2>1. LowestOf(S) \in S /\ \A m \in S : LowestOf(S) <= m
    BY <1>1, LowestIsMember
  <2>2. ASSUME NEW m \in S PROVE ~(m < LowestOf(S))
    <3>1. m \in Nat /\ LowestOf(S) \in Nat /\ LowestOf(S) <= m
      BY <1>1, <2>1
    <3> QED
      BY <3>1
  <2>3. Below(LowestOf(S)) = {}
    BY <2>2
  <2> QED
    BY <2>1, <2>3, FS_EmptySet DEF Page
<1>4. ASSUME NEW k \in Page(S, n), NEW m \in S, m <= k
      PROVE  m \in Page(S, n)
  <2>0. k \in S /\ Cardinality(Below(k)) < n
    BY DEF Page
  <2>1. Below(m) \subseteq Below(k)
    <3>1. \A x \in S : x < m => x < k
      BY <1>1, <1>4, <2>0
    <3> QED
      BY <3>1
  <2>2. Cardinality(Below(m)) <= Cardinality(Below(k))
    BY <1>2, <2>1, FS_Subset
  <2>3. Cardinality(Below(m)) < n
    BY <1>2, <2>0, <2>2
  <2> QED
    BY <2>3 DEF Page
<1> QED
  BY <1>3, <1>4 DEF Page

-----------------------------------------------------------------------------
(***************************************************************************)
(* Pollers.  A request that has read the ring and found nothing to show    *)
(* has passed nothing it owes (Passed), and one that waits has in its feed *)
(* whatever the ring has got for it since, unless it came after the feed   *)
(* was ended (Awaited).                                                    *)
(***************************************************************************)

\* What a read of the ring for c starts after.
Since(c) == IF at[c] = epoch THEN last[c] ELSE 0

PollerShape(p) ==
    /\ conn[p] \in {"off", "on", "ended"}
    /\ resync[p] = FALSE
    /\ at[p] \in Nat /\ at[p] <= epoch
    /\ last[p] \in Nat
    /\ at[p] = epoch => last[p] <= Latest
    /\ phase[p] \in {"idle", "marked", "read", "joined", "waiting"}
    /\ conn[p] # "off" <=> phase[p] \in {"joined", "waiting"}

PollerView(p) ==
    /\ view[p] \in [next : Nat, complete : BOOLEAN]
    /\ phase[p] # "idle" => Since(p) <= view[p].next /\ view[p].next <= Latest
    /\ phase[p] \in {"read", "joined", "waiting"} /\ view[p].complete => at[p] \in {0, epoch}

PollerFeed(p) ==
    /\ feed[p] \in Seq(Nat)
    /\ conn[p] = "off" => feed[p] = <<>>
    /\ \A i \in 1..Len(feed[p]) : feed[p][i] \in 1..Latest /\ view[p].next < feed[p][i]

Passed(p) ==
    phase[p] \in {"read", "joined", "waiting"} =>
        \A n \in RangeOf(ring) : Since(p) < n /\ n <= view[p].next => ~Owed(p, n)

Awaited(p) ==
    phase[p] = "waiting" =>
        \A n \in RangeOf(ring) :
            Since(p) < n /\ Owed(p, n) => Queued(p, n) \/ TooLate(p, n)

\* What PollerMissesOnlyLost says of one poller.
MissesOnlyLost(p) ==
    at[p] = epoch =>
        /\ base[p].epoch = epoch
        /\ \A n \in RangeOf(ring) :
              base[p].id < n /\ n <= last[p] /\ Owed(p, n) => n \in seen[p]

PollerInv(p) ==
    /\ PollerShape(p) /\ PollerView(p) /\ PollerFeed(p)
    /\ Passed(p) /\ Awaited(p) /\ MissesOnlyLost(p)

\* The inductive invariant, with the pollers.
PollInv == BusInv /\ \A p \in Pollers : PollerInv(p)

\* A step that leaves the bus and a poller alone keeps that poller's invariant.
LEMMA UntouchedPollerKeeps ==
    ASSUME NEW p \in Pollers, PollerInv(p), UNCHANGED busVars, Untouched(p), view'[p] = view[p]
    PROVE  PollerInv(p)'
<1>1. /\ UNCHANGED <<epoch, log, ring>> /\ conn'[p] = conn[p] /\ feed'[p] = feed[p]
      /\ resync'[p] = resync[p] /\ last'[p] = last[p] /\ at'[p] = at[p] /\ base'[p] = base[p]
      /\ seen'[p] = seen[p] /\ phase'[p] = phase[p]
  BY DEF Untouched, busVars
<1>2. Since(p)' = Since(p) /\ RangeOf(ring)' = RangeOf(ring) /\ Latest' = Latest
  BY <1>1 DEF Since, RangeOf, Latest
<1>3. \A n : (Owed(p, n)' <=> Owed(p, n)) /\ (Queued(p, n)' <=> Queued(p, n))
             /\ (TooLate(p, n)' <=> TooLate(p, n))
  BY <1>1 DEF Owed, Queued, TooLate
<1>4. PollerShape(p)' /\ PollerView(p)' /\ PollerFeed(p)'
  BY <1>1, <1>2 DEF PollerInv, PollerShape, PollerView, PollerFeed
<1>5. Passed(p)' /\ Awaited(p)' /\ MissesOnlyLost(p)'
  BY <1>1, <1>2, <1>3 DEF PollerInv, Passed, Awaited, MissesOnlyLost
<1> QED
  BY <1>4, <1>5 DEF PollerInv

\* The members of the ring are numbers of this run.
LEMMA RingMembers ==
    ASSUME RingIsSuffix
    PROVE  Latest \in Nat /\ RangeOf(ring) \subseteq 1..Latest
BY DEF RingIsSuffix, RangeOf, Latest

\* A publish adds its own number to the ring and no other.
LEMMA PublishAddsOne ==
    ASSUME RingIsSuffix, NEW t \in Topics, NEW keep \in BOOLEAN, Publish(t, keep)
    PROVE  RangeOf(ring') \subseteq RangeOf(ring) \cup {Latest + 1}
<1> DEFINE longer == Append(ring, Latest + 1)
<1>1. /\ longer \in Seq(Nat) /\ Len(longer) = Len(ring) + 1 /\ Len(ring) \in Nat
      /\ \A i \in 1..Len(ring) : longer[i] = ring[i]
      /\ longer[Len(ring) + 1] = Latest + 1
  BY DEF RingIsSuffix, Latest
<1>2. \A i \in 1..Len(longer) : longer[i] \in RangeOf(ring) \cup {Latest + 1}
  <2> SUFFICES ASSUME NEW i \in 1..Len(longer), i # Len(ring) + 1
               PROVE  longer[i] \in RangeOf(ring)
    BY <1>1
  <2>1. i \in 1..Len(ring) /\ DOMAIN ring = 1..Len(ring)
    BY <1>1 DEF RingIsSuffix
  <2> QED
    BY <1>1, <2>1 DEF RangeOf
<1> HIDE DEF longer
<1>3. \/ ring' = ring
      \/ ring' = longer
      \/ /\ ~(Len(longer) <= RingCap)
         /\ ring' = SubSeq(longer, Len(longer) - RingCap + 1, Len(longer))
  BY DEF Publish, Pushed, longer
<1>4. CASE ring' = ring
  BY <1>4
<1>5. CASE ring' = longer
  BY <1>1, <1>2, <1>5 DEF RangeOf
<1>6. CASE /\ ~(Len(longer) <= RingCap)
           /\ ring' = SubSeq(longer, Len(longer) - RingCap + 1, Len(longer))
  <2> DEFINE k == Len(longer) - RingCap + 1
  <2>1. k \in 1..Len(longer) /\ Len(longer) \in Nat
    BY <1>1, <1>6, EventBusAssumption
  <2>2. ring' = SubSeq(longer, k, Len(longer))
    BY <1>6
  <2> HIDE DEF k
  <2>3. /\ ring' \in Seq(Nat) /\ Len(ring') = Len(longer) - k + 1
        /\ \A i \in 1..Len(ring') : ring'[i] = longer[i + k - 1]
    BY <1>1, <2>1, <2>2
  <2>4. \A i \in 1..Len(ring') : i + k - 1 \in 1..Len(longer)
    BY <2>1, <2>3
  <2>5. DOMAIN ring' = 1..Len(ring')
    BY <2>3
  <2> QED
    BY <1>2, <2>3, <2>4, <2>5 DEF RangeOf
<1> QED
  BY <1>3, <1>4, <1>5, <1>6

\* A published event is queued for a poller that waits for it, or ends its feed.
LEMMA PublishKeepsPoller ==
    ASSUME PollInv, NEW t \in Topics, NEW keep \in BOOLEAN, Publish(t, keep), NEW p \in Pollers
    PROVE  PollerInv(p)'
<1>1. /\ p \in Clients /\ PollerInv(p) /\ RingIsSuffix /\ Domains
      /\ PollerShape(p) /\ PollerView(p) /\ PollerFeed(p)
  BY DEF PollInv, PollerInv, BusInv, Clients
<1>2. /\ Len(log') = Len(log) + 1 /\ Len(log) \in Nat
      /\ \A n \in 1..Len(log) : log'[n] = log[n]
      /\ log'[Len(log) + 1].topic = t
  BY <1>1 DEF Publish, RingIsSuffix
<1>3. /\ epoch' = epoch /\ resync' = resync /\ last' = last /\ at' = at
      /\ base' = base /\ seen' = seen /\ phase' = phase /\ view' = view
  BY DEF Publish, clientVars, pollVars
<1>4. Since(p)' = Since(p) /\ Latest' = Latest + 1 /\ Latest \in Nat
      /\ (phase[p] # "idle" => Since(p) <= view[p].next /\ view[p].next <= Latest)
  BY <1>1, <1>2, <1>3 DEF Since, Latest, PollerView
<1>5. \A n \in RangeOf(ring') :
         \/ n \in RangeOf(ring) /\ n \in 1..Latest /\ (Owed(p, n)' <=> Owed(p, n))
         \/ n = Latest + 1
  <2>1. \A n \in 1..Latest : Owed(p, n)' <=> Owed(p, n)
    BY <1>2 DEF Owed, Latest
  <2> QED
    BY <1>1, <2>1, RingMembers, PublishAddsOne
<1>6. \/ feed'[p] = feed[p] /\ conn'[p] = conn[p] /\ p \notin Addressed(t)
      \/ feed'[p] = feed[p] /\ conn'[p] = "ended" /\ conn[p] = "on"
      \/ feed'[p] = Append(feed[p], Latest + 1) /\ conn'[p] = conn[p] /\ conn[p] = "on"
  BY <1>1, EventBusAssumption DEF Publish, Addressed, Latest, PollerFeed
<1>7. PollerShape(p)' /\ PollerView(p)'
  <2>1. PollerShape(p)'
    BY <1>1, <1>3, <1>4, <1>6 DEF PollerShape
  <2>2. view[p].next \in Nat
    BY <1>1 DEF PollerView
  <2>3. PollerView(p)'
    BY <1>1, <1>3, <1>4, <2>2 DEF PollerView
  <2> QED
    BY <2>1, <2>3
<1>8. /\ feed'[p] \in Seq(Nat) /\ Len(feed[p]) \in Nat /\ Len(feed[p]) <= Len(feed'[p])
      /\ \A i \in 1..Len(feed[p]) : feed'[p][i] = feed[p][i] /\ i \in 1..Len(feed'[p])
      /\ \A i \in 1..Len(feed'[p]) : i \in 1..Len(feed[p]) \/ feed'[p][i] = Latest + 1
  <2>1. feed[p] \in Seq(Nat) /\ Len(feed[p]) \in Nat /\ Latest + 1 \in Nat
    BY <1>1, <1>4 DEF PollerFeed
  <2>2. CASE feed'[p] = feed[p]
    BY <2>1, <2>2
  <2>3. CASE feed'[p] = Append(feed[p], Latest + 1)
    <3>1. /\ feed'[p] \in Seq(Nat) /\ Len(feed'[p]) = Len(feed[p]) + 1
          /\ feed'[p][Len(feed[p]) + 1] = Latest + 1
          /\ \A i \in 1..Len(feed[p]) : feed'[p][i] = feed[p][i]
      BY <2>1, <2>3
    <3>2. \A i \in 1..Len(feed'[p]) : i \in 1..Len(feed[p]) \/ i = Len(feed[p]) + 1
      BY <2>1, <3>1
    <3> QED
      BY <2>1, <3>1, <3>2
  <2> QED
    BY <1>6, <2>2, <2>3
<1>9. PollerFeed(p)'
  <2>1. \A i \in 1..Len(feed'[p]) : feed'[p][i] \in 1..Latest' /\ view[p].next < feed'[p][i]
    <3> SUFFICES ASSUME NEW i \in 1..Len(feed'[p])
                 PROVE  feed'[p][i] \in 1..(Latest + 1) /\ view[p].next < feed'[p][i]
      BY <1>4
    <3>0. view[p].next \in Nat
      BY <1>1 DEF PollerView
    <3>1. CASE i \in 1..Len(feed[p])
      <4>1. feed'[p][i] = feed[p][i] /\ feed[p][i] \in 1..Latest /\ view[p].next < feed[p][i]
        BY <1>1, <1>8, <3>1 DEF PollerFeed
      <4> QED
        BY <1>4, <4>1
    <3>2. CASE i \notin 1..Len(feed[p])
      <4>1. feed'[p][i] = Latest + 1 /\ feed'[p] # feed[p]
        BY <1>8, <3>2
      <4>2. phase[p] # "idle"
        BY <1>1, <1>6, <4>1 DEF PollerShape
      <4> QED
        BY <1>4, <3>0, <4>1, <4>2
    <3> QED
      BY <3>1, <3>2
  <2>2. conn'[p] = "off" => feed'[p] = <<>>
    BY <1>1, <1>6 DEF PollerFeed
  <2> QED
    BY <1>3, <1>8, <2>1, <2>2 DEF PollerFeed
<1>10. Passed(p)'
  <2> SUFFICES ASSUME phase[p] \in {"read", "joined", "waiting"}, NEW n \in RangeOf(ring'),
                      Since(p) < n, n <= view[p].next
               PROVE  ~Owed(p, n)'
    BY <1>3, <1>4 DEF Passed
  <2>1. n # Latest + 1
    <3>1. view[p].next \in Nat /\ view[p].next <= Latest
      BY <1>1, <1>4 DEF PollerView
    <3> QED
      BY <1>4, <3>1
  <2> QED
    BY <1>1, <1>5, <2>1 DEF PollerInv, Passed
<1>11. MissesOnlyLost(p)'
  <2> SUFFICES ASSUME at[p] = epoch
               PROVE  /\ base[p].epoch = epoch
                      /\ \A n \in RangeOf(ring') :
                            base[p].id < n /\ n <= last[p] /\ Owed(p, n)' => n \in seen[p]
    BY <1>3 DEF MissesOnlyLost, Owed
  <2>1. last[p] \in Nat /\ last[p] <= Latest
    BY <1>1 DEF PollerShape
  <2>2. ~(Latest + 1 <= last[p])
    BY <1>4, <2>1
  <2> QED
    BY <1>1, <1>5, <2>2 DEF PollerInv, MissesOnlyLost
<1>12. Awaited(p)'
  <2> SUFFICES ASSUME phase[p] = "waiting", NEW n \in RangeOf(ring'),
                      Since(p) < n, Owed(p, n)'
               PROVE  Queued(p, n)' \/ TooLate(p, n)'
    BY <1>3, <1>4 DEF Awaited
  <2>1. conn[p] # "off"
    BY <1>1 DEF PollerShape
  <2>2. \A i \in 1..Len(feed[p]) : feed[p][i] \in 1..Latest
    BY <1>1 DEF PollerFeed
  <2>3. at[p] = epoch => last[p] < n
    BY DEF Since
  <2>4. CASE n = Latest + 1
    <3>1. log'[n].topic \in matches[p]
      BY DEF Owed
    <3>2. t \in matches[p]
      BY <1>2, <2>4, <3>1 DEF Latest
    <3>3. CASE feed'[p] = Append(feed[p], Latest + 1)
      <4>1. Len(feed[p]) + 1 \in 1..Len(feed'[p]) /\ feed'[p][Len(feed[p]) + 1] = n
        BY <1>1, <1>4, <2>4, <3>3 DEF PollerFeed
      <4> QED
        BY <4>1 DEF Queued
    <3>4. CASE feed'[p] = feed[p] /\ conn'[p] = "ended"
      <4>1. \A i \in 1..Len(feed[p]) : feed[p][i] < n
        BY <1>4, <2>2, <2>4
      <4> QED
        BY <1>3, <2>3, <3>4, <4>1 DEF TooLate
    <3>5. CASE p \notin Addressed(t) /\ feed'[p] = feed[p] /\ conn'[p] = conn[p]
      <4>1. conn'[p] = "ended"
        BY <1>1, <2>1, <3>2, <3>5 DEF Addressed, PollerShape
      <4> QED
        BY <3>4, <3>5, <4>1
    <3> QED
      BY <1>6, <3>3, <3>4, <3>5
  <2>5. CASE n # Latest + 1
    <3>1. n \in RangeOf(ring) /\ n \in 1..Latest /\ Owed(p, n)
      BY <1>5, <2>5
    <3>2. Queued(p, n) \/ TooLate(p, n)
      BY <1>1, <3>1 DEF PollerInv, Awaited
    <3>3. Queued(p, n) => Queued(p, n)'
      BY <1>8 DEF Queued
    <3>4. TooLate(p, n) => TooLate(p, n)'
      <4> SUFFICES ASSUME TooLate(p, n) PROVE TooLate(p, n)'
        OBVIOUS
      <4>1. conn[p] = "ended"
        BY DEF TooLate
      <4>2. feed'[p] = feed[p] /\ conn'[p] = "ended"
        BY <1>6, <4>1
      <4> QED
        BY <1>3, <4>2 DEF TooLate
    <3> QED
      BY <3>2, <3>3, <3>4
  <2> QED
    BY <2>4, <2>5
<1> QED
  BY <1>7, <1>9, <1>10, <1>11, <1>12 DEF PollerInv

-----------------------------------------------------------------------------
\* An answer that may be given to p: it takes the cursor forward, and, unless it
\* owns up to being incomplete or begins a cursor, has whatever of the ring p is
\* owed up to it.
Sound(p, items, next, complete) ==
    /\ items \subseteq 1..Latest
    /\ next \in Nat /\ Since(p) <= next /\ next <= Latest
    /\ items # {} => Since(p) < next
    /\ complete =>
          /\ at[p] \in {0, epoch}
          /\ \/ at[p] = 0 /\ items = {}
             \/ \A n \in RangeOf(ring) :
                   Since(p) < n /\ n <= next /\ Owed(p, n) => n \in items

\* One read of the ring is a sound answer, with any mark that is not above the
\* newest number and not below the cursor.
LEMMA ReadIsSound ==
    ASSUME RingIsSuffix, NEW p \in Pollers, PollerShape(p),
           NEW mark \in Nat, Since(p) <= mark, mark <= Latest,
           NEW complete \in BOOLEAN, complete => at[p] \in {0, epoch}
    PROVE  Sound(p, ReadPage(p), NextOf(ReadPage(p), mark), complete)
<1> DEFINE page == ReadPage(p)
           next == NextOf(page, mark)
<1>1. Latest \in Nat /\ RangeOf(ring) \subseteq 1..Latest /\ Since(p) \in Nat
  BY RingMembers DEF PollerShape, Since
<1>2. Found(p) = {n \in RangeOf(ring) : n > Since(p) /\ log[n].topic \in matches[p]}
  BY DEF Found, Replayed, Since
<1>3. Found(p) \subseteq 0..Latest
  BY <1>1, <1>2
<1>4. /\ page \subseteq Found(p)
      /\ Found(p) # {} => page # {}
      /\ \A k \in page, m \in Found(p) : m <= k => m \in page
  BY <1>1, <1>3, PageIsPrefix, EventBusAssumption DEF ReadPage
<1>5. \A n \in page : n \in 1..Latest /\ n > Since(p)
  BY <1>1, <1>2, <1>4
<1>6. CASE page = {}
  <2>1. next = mark /\ Found(p) = {}
    BY <1>4, <1>6 DEF NextOf
  <2>2. \A n \in RangeOf(ring) : Since(p) < n => ~Owed(p, n)
    BY <1>1, <1>2, <2>1 DEF Owed
  <2> QED
    BY <1>5, <1>6, <2>1, <2>2 DEF Sound
<1>7. CASE page # {}
  <2>1. next = HighestOf(page)
    BY <1>7 DEF NextOf
  <2>2. page \subseteq 0..Latest
    BY <1>5, <1>1
  <2>3. next \in page
    BY <1>1, <1>7, <2>1, <2>2, HighestIsMember
  <2>4. next \in Nat /\ Since(p) < next /\ next <= Latest
    BY <1>1, <1>5, <2>3
  <2>5. \A n \in RangeOf(ring) : Since(p) < n /\ n <= next /\ Owed(p, n) => n \in page
    <3> SUFFICES ASSUME NEW n \in RangeOf(ring), Since(p) < n, n <= next, Owed(p, n)
                 PROVE  n \in page
      OBVIOUS
    <3>1. n \in Found(p)
      BY <1>1, <1>2 DEF Owed
    <3> QED
      BY <1>4, <2>3, <3>1
  <2>6. page \subseteq 1..Latest
    BY <1>5
  <2> QED
    BY <1>1, <2>4, <2>5, <2>6 DEF Sound
<1> QED
  BY <1>6, <1>7

\* A sound answer keeps the poller's invariant, and takes its cursor forward.
LEMMA AnswerKeeps ==
    ASSUME PollInv, NEW p \in Pollers, NEW items, NEW next, NEW complete,
           Sound(p, items, next, complete), Answered(p, items, next, complete)
    PROVE  /\ PollerInv(p)'
           /\ at[p] = epoch =>
                 /\ last[p] <= last'[p]
                 /\ seen'[p] # seen[p] /\ seen'[p] # {} => last[p] < last'[p]
<1> DEFINE shown == {n \in items : log[n].topic \in readable[p]}
<1>1. p \in Clients /\ PollerInv(p) /\ RingIsSuffix /\ Domains /\ PollerShape(p) /\ PollerView(p)
  BY DEF PollInv, PollerInv, BusInv, Clients
<1>2. /\ last'[p] = next /\ at'[p] = epoch /\ phase'[p] = "idle" /\ conn'[p] = "off"
      /\ feed'[p] = <<>> /\ resync'[p] = resync[p] /\ view' = view
      /\ UNCHANGED <<epoch, log, ring>>
  BY <1>1 DEF Answered, Domains, busVars
<1>3. next \in Nat /\ next <= Latest /\ Latest \in Nat /\ epoch \in Nat \ {0}
  BY <1>1 DEF Sound, RingIsSuffix, Latest
<1>4. Latest' = Latest /\ RangeOf(ring)' = RangeOf(ring) /\ \A n : Owed(p, n)' <=> Owed(p, n)
  BY <1>2 DEF Latest, RangeOf, Owed
<1>5. PollerShape(p)'
  BY <1>1, <1>2, <1>3, <1>4 DEF PollerShape
<1>6. PollerView(p)' /\ PollerFeed(p)' /\ Passed(p)' /\ Awaited(p)'
  BY <1>1, <1>2 DEF PollerView, PollerFeed, Passed, Awaited
<1>7. CASE ~complete
  <2>1. base'[p] = [epoch |-> epoch, id |-> Latest] /\ seen'[p] = {}
    BY <1>1, <1>7 DEF Answered, Domains
  <2>2. base'[p].epoch = epoch /\ base'[p].id = Latest
    BY <2>1
  <2>3. MissesOnlyLost(p)'
    BY <1>2, <1>3, <1>4, <2>2, <1>1, RingMembers DEF MissesOnlyLost
  <2>4. at[p] = epoch => last[p] <= next
    BY DEF Sound, Since
  <2> QED
    BY <1>2, <1>5, <1>6, <2>1, <2>3, <2>4 DEF PollerInv
<1>8. CASE complete /\ at[p] = 0
  <2>1. /\ base'[p] = [epoch |-> epoch, id |-> IF items = {} THEN next ELSE LowestOf(items) - 1]
        /\ seen'[p] = shown
    BY <1>1, <1>8 DEF Answered, Domains
  <2>2. Since(p) = 0
    BY <1>3, <1>8 DEF Since
  <2>3. MissesOnlyLost(p)'
    <3>1. base'[p].epoch = epoch
      BY <2>1
    <3>2. ASSUME NEW n \in RangeOf(ring), base'[p].id < n, n <= next, Owed(p, n)
          PROVE  n \in shown
      <4>1. n \in 1..Latest
        BY <1>1, RingMembers
      <4>2. Since(p) < n
        BY <2>2, <4>1
      <4>3. n \in items
        <5>1. items # {}
          BY <1>3, <2>1, <3>2, <4>1
        <5> QED
          BY <1>8, <3>2, <4>2, <5>1 DEF Sound
      <4> QED
        BY <3>2, <4>3 DEF Owed
    <3> QED
      BY <1>2, <1>4, <2>1, <3>1, <3>2 DEF MissesOnlyLost
  <2>4. at[p] # epoch
    BY <1>3, <1>8
  <2> QED
    BY <1>5, <1>6, <2>3, <2>4 DEF PollerInv
<1>9. CASE complete /\ at[p] # 0
  <2>1. base'[p] = base[p] /\ seen'[p] = seen[p] \cup shown
    BY <1>1, <1>9 DEF Answered, Domains
  <2>2. at[p] = epoch /\ Since(p) = last[p] /\ last[p] <= next
    BY <1>9 DEF Sound, Since
  <2>3. MissesOnlyLost(p)'
    <3>1. base[p].epoch = epoch
      BY <1>1, <2>2 DEF PollerInv, MissesOnlyLost
    <3>2. ASSUME NEW n \in RangeOf(ring), base[p].id < n, n <= next, Owed(p, n)
          PROVE  n \in seen[p] \cup shown
      <4>1. n \in 1..Latest /\ last[p] \in Nat
        BY <1>1, RingMembers DEF PollerShape
      <4>2. CASE n <= last[p]
        BY <1>1, <2>2, <3>2, <4>2 DEF PollerInv, MissesOnlyLost
      <4>3. CASE last[p] < n
        <5>1. n \in items
          BY <1>9, <2>2, <3>2, <4>3 DEF Sound
        <5> QED
          BY <3>2, <5>1 DEF Owed
      <4> QED
        BY <4>1, <4>2, <4>3
    <3> QED
      BY <1>2, <1>4, <2>1, <3>1, <3>2 DEF MissesOnlyLost
  <2>4. seen'[p] # seen[p] => last[p] < next
    <3> SUFFICES ASSUME seen'[p] # seen[p] PROVE items # {}
      BY <2>2 DEF Sound
    <3> QED
      BY <2>1
  <2> QED
    BY <1>2, <1>5, <1>6, <2>2, <2>3, <2>4 DEF PollerInv
<1> QED
  BY <1>7, <1>8, <1>9

\* Whether a read counts as complete is a truth value, and no when the cursor is
\* of another run.
LEMMA WholeIsBoolean ==
    ASSUME NEW c
    PROVE  Whole(c) \in BOOLEAN /\ (Whole(c) => at[c] \in {0, epoch})
BY DEF Whole, Covers

\* A read that is held back has found nothing its caller is owed.
LEMMA NothingOwed ==
    ASSUME RingIsSuffix, NEW p \in Pollers, PollerShape(p), ~AnsweredAtOnce(p)
    PROVE  \A n \in RangeOf(ring) : Since(p) < n => ~Owed(p, n)
<1> SUFFICES ASSUME NEW n \in RangeOf(ring), Since(p) < n, Owed(p, n)
             PROVE  FALSE
  OBVIOUS
<1>1. Since(p) \in Nat /\ n \in Nat
  BY RingMembers DEF PollerShape, Since
<1>2. n \in Found(p) /\ log[n].topic \in readable[p]
  BY <1>1 DEF Found, Replayed, Owed, Since
<1>3. Found(p) = ReadPage(p)
  BY DEF AnsweredAtOnce
<1> QED
  BY <1>2, <1>3 DEF AnsweredAtOnce

\* A step of a request is a sound answer, or leaves the caller as it was.
LEMMA PollMoves ==
    ASSUME PollInv, NEW p \in Clients, Poll(p)
    PROVE  /\ p \in Pollers
           /\ \/ \E items, next, complete :
                    Sound(p, items, next, complete) /\ Answered(p, items, next, complete)
              \/ PollerInv(p)' /\ UNCHANGED clientVars
<1>1. RingIsSuffix /\ Domains /\ Latest \in Nat /\ epoch \in Nat \ {0}
  BY DEF PollInv, BusInv, RingIsSuffix, Latest
<1>2. p \in Pollers
  <2> SUFFICES ASSUME p \in Streams PROVE FALSE
    BY DEF Clients
  <2>1. phase[p] = "idle" /\ p \notin Pollers
    BY EventBusAssumption DEF PollInv, BusInv, StreamInv, Shape
  <2> QED
    BY <2>1 DEF Poll, RecentNow, RecentMarks, RecentReads, RecentHolds, RecentJoins,
       RecentRereads, RecentTimesOut, RecentWakes, RecentCutOff, RecentGone
<1>3. /\ PollerInv(p) /\ PollerShape(p) /\ PollerView(p) /\ PollerFeed(p)
      /\ Since(p) \in Nat /\ Since(p) <= Latest
      /\ view[p].next \in Nat /\ view[p].complete \in BOOLEAN
  BY <1>1, <1>2 DEF PollInv, PollerInv, PollerShape, PollerView, Since
<1> DEFINE Answers == \E items, next, complete :
                        Sound(p, items, next, complete) /\ Answered(p, items, next, complete)
<1>4. ASSUME RecentNow(p) PROVE Answers
  <2>1. Sound(p, {}, Latest, TRUE)
    <3>1. at[p] = 0 /\ Since(p) = 0
      BY <1>1, <1>4 DEF RecentNow, Since
    <3>2. \A n \in RangeOf(ring) : n \in 1..Latest
      BY <1>1, RingMembers
    <3> QED
      BY <1>1, <3>1, <3>2 DEF Sound
  <2> QED
    BY <1>4, <2>1 DEF RecentNow
<1>5. ASSUME RecentReads(p) PROVE Answers
  <2>1. Since(p) <= view[p].next /\ view[p].next <= Latest
    BY <1>3, <1>5 DEF RecentReads, PollerView
  <2>2. Sound(p, ReadPage(p), NextOf(ReadPage(p), view[p].next), Whole(p))
    BY <1>1, <1>2, <1>3, <2>1, ReadIsSound, WholeIsBoolean
  <2> QED
    BY <1>5, <2>2 DEF RecentReads
<1>6. ASSUME RecentCutOff(p) PROVE Answers
  <2>1. Sound(p, ReadPage(p), NextOf(ReadPage(p), Latest), Whole(p))
    BY <1>1, <1>2, <1>3, ReadIsSound, WholeIsBoolean
  <2>2. Sound(p, ReadPage(p), NextOf(ReadPage(p), Latest), FALSE)
    BY <2>1 DEF Sound
  <2> QED
    BY <1>6, <2>2 DEF RecentCutOff
<1>7. ASSUME RecentTimesOut(p) PROVE Answers
  <2>1. /\ Since(p) <= view[p].next /\ view[p].next <= Latest /\ phase[p] = "waiting"
        /\ view[p].complete => at[p] \in {0, epoch}
    BY <1>3, <1>7 DEF RecentTimesOut, PollerView
  <2>2. \A n \in RangeOf(ring) : Since(p) < n /\ n <= view[p].next => ~Owed(p, n)
    BY <1>3, <2>1 DEF PollerInv, Passed
  <2>3. Sound(p, {}, view[p].next, view[p].complete)
    BY <1>3, <2>1, <2>2 DEF Sound
  <2> QED
    BY <1>7, <2>3 DEF RecentTimesOut
<1>8. ASSUME RecentRereads(p), AnsweredAtOnce(p) PROVE Answers
  <2>1. Sound(p, ReadPage(p), NextOf(ReadPage(p), Latest), Whole(p))
    BY <1>1, <1>2, <1>3, ReadIsSound, WholeIsBoolean
  <2> QED
    BY <1>8, <2>1 DEF RecentRereads
<1> DEFINE queued == {n \in RangeOf(feed[p]) : log[n].topic \in readable[p]}
           items  == Page(queued, PageLimit)
<1>9. /\ RangeOf(feed[p]) \subseteq 1..Latest
      /\ \A n : n \in RangeOf(feed[p]) <=> Queued(p, n)
      /\ \A n \in RangeOf(feed[p]) : view[p].next < n
  <2>1. DOMAIN feed[p] = 1..Len(feed[p])
    BY <1>3 DEF PollerFeed
  <2> QED
    BY <1>3, <2>1 DEF PollerFeed, RangeOf, Queued
<1>10. /\ items \subseteq queued
       /\ queued # {} => items # {}
       /\ \A k \in items, m \in queued : m <= k => m \in items
  <2>1. queued \subseteq 0..Latest
    BY <1>9
  <2> HIDE DEF queued
  <2> QED
    BY <1>1, <2>1, PageIsPrefix, EventBusAssumption
<1>11. ASSUME RecentWakes(p), items # {} PROVE Answers
  <2>1. phase[p] = "waiting" /\ Answered(p, items, HighestOf(items), view[p].complete)
    BY <1>11 DEF RecentWakes
  <2>2. items \subseteq 1..Latest /\ items \subseteq 0..Latest
    BY <1>9, <1>10
  <2> HIDE DEF items
  <2>3. HighestOf(items) \in items
    BY <1>1, <1>11, <2>2, HighestIsMember
  <2> DEFINE next == HighestOf(items)
  <2>4. next \in queued /\ next \in RangeOf(feed[p]) /\ next \in 1..Latest
    BY <1>9, <1>10, <2>2, <2>3
  <2>5. Since(p) <= view[p].next /\ view[p].next < next
    BY <1>3, <1>9, <2>1, <2>4 DEF PollerView
  <2>6. ASSUME NEW n \in RangeOf(ring), Since(p) < n, n <= next, Owed(p, n)
        PROVE  n \in items
    <3>1. Queued(p, n) \/ TooLate(p, n)
      BY <1>3, <2>1, <2>6 DEF PollerInv, Awaited
    <3>2. ~TooLate(p, n)
      <4>1. Queued(p, next) /\ n \in 1..Latest
        BY <1>1, <1>9, <2>4, RingMembers
      <4>2. ~(next < n)
        BY <2>4, <2>6, <4>1
      <4> QED
        BY <4>1, <4>2 DEF Queued, TooLate
    <3>3. n \in queued
      BY <1>9, <2>6, <3>1, <3>2 DEF Owed
    <3> QED
      BY <1>10, <2>3, <2>6, <3>3
  <2>7. view[p].complete => at[p] \in {0, epoch}
    BY <1>3, <2>1 DEF PollerView
  <2>8. next \in Nat /\ Since(p) < next /\ next <= Latest
    BY <1>1, <1>3, <2>4, <2>5
  <2>9. Sound(p, items, next, view[p].complete)
    BY <1>3, <2>2, <2>6, <2>7, <2>8 DEF Sound
  <2> QED
    BY <2>1, <2>9
<1> HIDE DEF Answers, items, queued
<1>12. ASSUME RecentWakes(p), items = {} PROVE PollerInv(p)' /\ UNCHANGED clientVars
  <2>1. /\ phase[p] = "waiting" /\ feed'[p] = <<>>
        /\ UNCHANGED <<epoch, log, ring, conn, resync, phase, view>> /\ UNCHANGED clientVars
    BY <1>1, <1>12 DEF RecentWakes, items, queued, Domains, busVars, pollVars
  <2>2. UNCHANGED <<last, at, base, seen>>
    BY <2>1 DEF clientVars
  <2>3. Since(p)' = Since(p) /\ Latest' = Latest /\ RangeOf(ring)' = RangeOf(ring)
        /\ \A n : Owed(p, n)' <=> Owed(p, n)
    BY <2>1, <2>2 DEF Since, Latest, RangeOf, Owed
  <2>4. PollerShape(p)' /\ PollerView(p)' /\ PollerFeed(p)' /\ Passed(p)' /\ MissesOnlyLost(p)'
    BY <1>3, <2>1, <2>2, <2>3
       DEF PollerInv, PollerShape, PollerView, PollerFeed, Passed, MissesOnlyLost
  <2>5. Awaited(p)'
    <3> SUFFICES ASSUME NEW n \in RangeOf(ring), Since(p) < n, Owed(p, n)
                 PROVE  TooLate(p, n)'
      BY <2>1, <2>3 DEF Awaited
    <3>1. ~Queued(p, n)
      <4>1. queued = {}
        BY <1>10, <1>12
      <4> QED
        BY <1>9, <4>1 DEF queued, Owed
    <3>2. TooLate(p, n)
      BY <1>3, <2>1, <3>1 DEF PollerInv, Awaited
    <3> QED
      BY <2>1, <2>2, <3>2 DEF TooLate
  <2> QED
    BY <2>1, <2>4, <2>5 DEF PollerInv
<1>13. ASSUME RecentMarks(p) PROVE PollerInv(p)' /\ UNCHANGED clientVars
  <2>1. /\ phase[p] = "idle" /\ phase'[p] = "marked"
        /\ view'[p] = [view[p] EXCEPT !.next = Latest]
        /\ UNCHANGED <<epoch, log, ring, conn, feed, resync>> /\ UNCHANGED clientVars
    BY <1>1, <1>13 DEF RecentMarks, Domains, busVars, connVars
  <2>2. UNCHANGED <<last, at, base, seen>> /\ feed[p] = <<>>
    BY <1>3, <2>1 DEF clientVars, PollerShape, PollerFeed
  <2>3. Since(p)' = Since(p) /\ Latest' = Latest /\ RangeOf(ring)' = RangeOf(ring)
        /\ \A n : Owed(p, n)' <=> Owed(p, n)
    BY <2>1, <2>2 DEF Since, Latest, RangeOf, Owed
  <2>4. PollerShape(p)' /\ Passed(p)' /\ Awaited(p)' /\ MissesOnlyLost(p)'
    BY <1>3, <2>1, <2>2, <2>3 DEF PollerInv, PollerShape, Passed, Awaited, MissesOnlyLost
  <2>5. view'[p] \in [next : Nat, complete : BOOLEAN] /\ view'[p].next = Latest
    BY <1>1, <1>3, <2>1 DEF PollerView
  <2>6. PollerView(p)' /\ PollerFeed(p)'
    BY <1>1, <1>3, <2>1, <2>2, <2>3, <2>5 DEF PollerView, PollerFeed
  <2> QED
    BY <2>1, <2>4, <2>6 DEF PollerInv
<1>14. ASSUME RecentHolds(p) PROVE PollerInv(p)' /\ UNCHANGED clientVars
  <2> DEFINE next == NextOf(ReadPage(p), view[p].next)
  <2>1. /\ phase[p] = "marked" /\ phase'[p] = "read" /\ ~AnsweredAtOnce(p)
        /\ view'[p] = [next |-> next, complete |-> Whole(p)]
        /\ UNCHANGED <<epoch, log, ring, conn, feed, resync>> /\ UNCHANGED clientVars
    BY <1>1, <1>14 DEF RecentHolds, Domains, busVars, connVars
  <2>2. UNCHANGED <<last, at, base, seen>> /\ feed[p] = <<>>
    BY <1>3, <2>1 DEF clientVars, PollerShape, PollerFeed
  <2>3. Since(p)' = Since(p) /\ Latest' = Latest /\ RangeOf(ring)' = RangeOf(ring)
        /\ \A n : Owed(p, n)' <=> Owed(p, n)
    BY <2>1, <2>2 DEF Since, Latest, RangeOf, Owed
  <2>4. Since(p) <= view[p].next /\ view[p].next <= Latest
    BY <1>3, <2>1 DEF PollerView
  <2>5. Sound(p, ReadPage(p), next, Whole(p))
    BY <1>1, <1>2, <1>3, <2>4, ReadIsSound, WholeIsBoolean
  <2>6. next \in Nat /\ Since(p) <= next /\ next <= Latest
    BY <2>5 DEF Sound
  <2>7. \A n \in RangeOf(ring) : Since(p) < n => ~Owed(p, n)
    BY <1>1, <1>2, <1>3, <2>1, NothingOwed
  <2> HIDE DEF next
  <2>8. view'[p].next = next /\ view'[p].complete = Whole(p)
        /\ view'[p] \in [next : Nat, complete : BOOLEAN]
    BY <2>1, <2>6, WholeIsBoolean
  <2>9. PollerView(p)'
    BY <2>1, <2>2, <2>3, <2>6, <2>8, WholeIsBoolean DEF PollerView
  <2>10. PollerShape(p)' /\ PollerFeed(p)' /\ Passed(p)' /\ Awaited(p)' /\ MissesOnlyLost(p)'
    BY <1>3, <2>1, <2>2, <2>3, <2>7
       DEF PollerInv, PollerShape, PollerFeed, Passed, Awaited, MissesOnlyLost
  <2> QED
    BY <2>1, <2>9, <2>10 DEF PollerInv
<1>15. ASSUME RecentJoins(p) \/ RecentGone(p) \/ (RecentRereads(p) /\ ~AnsweredAtOnce(p))
       PROVE  PollerInv(p)' /\ UNCHANGED clientVars
  <2>1. /\ UNCHANGED <<epoch, log, ring, resync, view>> /\ UNCHANGED clientVars
        /\ \/ phase[p] = "read" /\ phase'[p] = "joined" /\ conn'[p] = "on" /\ feed'[p] = feed[p]
           \/ phase'[p] = "idle" /\ conn'[p] = "off" /\ feed'[p] = <<>>
           \/ /\ phase[p] = "joined" /\ phase'[p] = "waiting" /\ ~AnsweredAtOnce(p)
              /\ conn'[p] = conn[p] /\ feed'[p] = feed[p]
    BY <1>1, <1>15 DEF RecentJoins, RecentGone, RecentRereads, Domains, busVars, connVars
  <2>2. UNCHANGED <<last, at, base, seen>>
    BY <2>1 DEF clientVars
  <2>3. Since(p)' = Since(p) /\ Latest' = Latest /\ RangeOf(ring)' = RangeOf(ring)
        /\ \A n : Owed(p, n)' <=> Owed(p, n)
    BY <2>1, <2>2 DEF Since, Latest, RangeOf, Owed
  <2>4. PollerShape(p)' /\ PollerView(p)'
    BY <1>3, <2>1, <2>2, <2>3 DEF PollerShape, PollerView
  <2>6. PollerFeed(p)'
    <3>1. CASE feed'[p] = <<>>
      BY <3>1 DEF PollerFeed
    <3>2. CASE feed'[p] = feed[p] /\ (conn'[p] = "off" => conn[p] = "off")
      <4>1. conn'[p] = "off" => feed[p] = <<>>
        BY <1>3, <3>2 DEF PollerFeed
      <4> QED
        BY <1>3, <2>1, <2>3, <3>2, <4>1 DEF PollerFeed
    <3> QED
      BY <2>1, <3>1, <3>2
  <2>7. Passed(p)' /\ MissesOnlyLost(p)'
    BY <1>3, <2>1, <2>2, <2>3 DEF PollerInv, Passed, MissesOnlyLost
  <2>5. Awaited(p)'
    BY <1>1, <1>2, <1>3, <2>1, <2>3, NothingOwed DEF Awaited
  <2> QED
    BY <2>1, <2>4, <2>5, <2>6, <2>7 DEF PollerInv
<1>16. Answers \/ (PollerInv(p)' /\ UNCHANGED clientVars)
  BY <1>4, <1>5, <1>6, <1>7, <1>8, <1>11, <1>12, <1>13, <1>14, <1>15 DEF Poll
<1> QED
  BY <1>2, <1>16 DEF Answers

-----------------------------------------------------------------------------
\* Only its own request and the bus itself touch a poller: a stream's steps do not.
LEMMA StreamKeepsPoller ==
    ASSUME PollInv, NEW c \in Clients, Stream(c), NEW p \in Pollers
    PROVE  UNCHANGED busVars /\ Untouched(p) /\ view'[p] = view[p]
<1>1. /\ p \in Clients /\ PollerShape(p) /\ Domains /\ p \notin Streams
  BY EventBusAssumption DEF PollInv, PollerInv, BusInv, Clients
<1>2. c # p
  BY <1>1 DEF Stream, Subscribe, TellResync, Send, FeedEnds, Break, PollerShape
<1> QED
  BY <1>1, <1>2 DEF Stream, Subscribe, TellResync, Send, FeedEnds, Break, Untouched, Domains,
     clientVars, pollVars

\* Nor do another poller's.
LEMMA PollKeepsOthers ==
    ASSUME PollInv, NEW c \in Clients, Poll(c), NEW p \in Pollers, p # c
    PROVE  UNCHANGED busVars /\ Untouched(p) /\ view'[p] = view[p]
<1>1. p \in Clients /\ Domains
  BY DEF PollInv, BusInv, Clients
<1>2. \A items, next, complete : Answered(c, items, next, complete) =>
         UNCHANGED busVars /\ Untouched(p) /\ view'[p] = view[p]
  BY <1>1 DEF Answered, Untouched, Domains
<1> QED
  BY <1>1, <1>2 DEF Poll, RecentNow, RecentMarks, RecentReads, RecentHolds, RecentJoins,
     RecentRereads, RecentTimesOut, RecentWakes, RecentCutOff, RecentGone, Untouched, Domains,
     connVars, clientVars, pollVars

\* PollInv holds initially and is kept by every step.
THEOREM PollInvariant == Spec => []PollInv
<1>1. Init => \A p \in Pollers : PollerInv(p)
  <2> SUFFICES ASSUME Init, NEW p \in Pollers PROVE PollerInv(p)
    OBVIOUS
  <2>1. p \in Clients
    BY DEF Clients
  <2>2. PollerShape(p) /\ PollerView(p) /\ PollerFeed(p)
    BY <2>1 DEF Init, PollerShape, PollerView, PollerFeed
  <2>3. Passed(p) /\ Awaited(p) /\ MissesOnlyLost(p)
    BY <2>1 DEF Init, Passed, Awaited, MissesOnlyLost
  <2> QED
    BY <2>2, <2>3 DEF PollerInv
<1>2. PollInv /\ [Next]_vars => \A p \in Pollers : PollerInv(p)'
  <2> SUFFICES ASSUME PollInv, [Next]_vars, NEW p \in Pollers PROVE PollerInv(p)'
    OBVIOUS
  <2>0. PollerInv(p) /\ p \in Clients
    BY DEF PollInv, Clients
  <2>1. ASSUME NEW t \in Topics, NEW keep \in BOOLEAN, Publish(t, keep) PROVE PollerInv(p)'
    BY <2>1, PublishKeepsPoller
  <2>2. ASSUME NEW c \in Clients, Stream(c) PROVE PollerInv(p)'
    BY <2>0, <2>2, StreamKeepsPoller, UntouchedPollerKeeps
  <2>3. ASSUME NEW c \in Clients, Poll(c) PROVE PollerInv(p)'
    <3>1. CASE c = p
      BY <2>3, <3>1, PollMoves, AnswerKeeps
    <3>2. CASE c # p
      BY <2>0, <2>3, <3>2, PollKeepsOthers, UntouchedPollerKeeps
    <3> QED
      BY <3>1, <3>2
  <2>4. ASSUME NEW k \in Classes, Close(k) PROVE PollerInv(p)'
    <3>1. UNCHANGED busVars /\ Untouched(p) /\ view'[p] = view[p]
      BY <2>4 DEF Close, Untouched, clientVars, pollVars
    <3> QED
      BY <2>0, <3>1, UntouchedPollerKeeps
  <2>5. ASSUME Restart PROVE PollerInv(p)'
    <3>1. /\ epoch' = epoch + 1 /\ epoch \in Nat \ {0} /\ Latest' = 0
          /\ conn'[p] = "off" /\ feed'[p] = <<>> /\ resync'[p] = FALSE /\ phase'[p] = "idle"
          /\ UNCHANGED <<last, at, base, seen, view>>
      BY <2>0, <2>5 DEF Restart, clientVars, PollInv, BusInv, RingIsSuffix, Latest
    <3>2. at'[p] # epoch' /\ at'[p] <= epoch'
      BY <2>0, <3>1 DEF PollerInv, PollerShape
    <3>3. PollerShape(p)'
      BY <2>0, <3>1, <3>2 DEF PollerInv, PollerShape
    <3>4. PollerView(p)' /\ PollerFeed(p)' /\ Passed(p)' /\ Awaited(p)' /\ MissesOnlyLost(p)'
      BY <2>0, <3>1, <3>2 DEF PollerInv, PollerView, PollerFeed, Passed, Awaited, MissesOnlyLost
    <3> QED
      BY <3>3, <3>4 DEF PollerInv
  <2>6. ASSUME UNCHANGED vars PROVE PollerInv(p)'
    <3>1. UNCHANGED busVars /\ Untouched(p) /\ view'[p] = view[p]
      BY <2>6 DEF vars, busVars, Untouched
    <3> QED
      BY <2>0, <3>1, UntouchedPollerKeeps
  <2> QED
    BY <2>1, <2>2, <2>3, <2>4, <2>5, <2>6 DEF Next
<1> DEFINE AllPollers == \A p \in Pollers : PollerInv(p)
<1>3. Init => AllPollers
  BY <1>1
<1>4. BusInv /\ AllPollers /\ [Next]_vars => AllPollers'
  BY <1>2 DEF PollInv
<1>5. BusInv /\ AllPollers => PollInv
  BY DEF PollInv
<1> QED
  BY <1>3, <1>4, <1>5, BusInvariant, PTL DEF Spec

\* Reading, subscribing and reading again closes the gap: a poller's cursor never
\* passes over an event it is owed that the ring still has.
THEOREM PollersMissOnlyLost == Spec => []PollerMissesOnlyLost
<1>1. PollInv => PollerMissesOnlyLost
  BY DEF PollInv, PollerInv, MissesOnlyLost, PollerMissesOnlyLost
<1> QED
  BY <1>1, PollInvariant, PTL

\* However a request ends, the cursor it hands back is not before the one it came
\* with, and after it if anything was shown.
THEOREM CursorsAscend == Spec => CursorAscends
<1> DEFINE Ascends == \A c \in Pollers : at[c] = epoch /\ at'[c] = epoch' /\ epoch' = epoch =>
                         /\ last[c] <= last'[c]
                         /\ seen'[c] # seen[c] /\ seen'[c] # {} => last[c] < last'[c]
<1>1. PollInv /\ [Next]_vars => [Ascends]_vars
  <2> SUFFICES ASSUME PollInv, Next, NEW p \in Pollers, at[p] = epoch, epoch' = epoch
               PROVE  /\ last[p] <= last'[p]
                      /\ seen'[p] # seen[p] /\ seen'[p] # {} => last[p] < last'[p]
    OBVIOUS
  <2>0. last[p] \in Nat /\ epoch \in Nat
    BY DEF PollInv, BusInv, RingIsSuffix, PollerInv, PollerShape
  <2>1. ASSUME NEW c \in Clients, Poll(c), c = p
        PROVE  /\ last[p] <= last'[p]
               /\ seen'[p] # seen[p] /\ seen'[p] # {} => last[p] < last'[p]
    BY <2>0, <2>1, PollMoves, AnswerKeeps DEF clientVars
  <2>2. ASSUME NEW c \in Clients, Stream(c) \/ (Poll(c) /\ c # p)
        PROVE  last'[p] = last[p] /\ seen'[p] = seen[p]
    BY <2>2, StreamKeepsPoller, PollKeepsOthers DEF Untouched
  <2>3. ASSUME NEW t \in Topics, NEW keep \in BOOLEAN, Publish(t, keep)
        PROVE  last'[p] = last[p] /\ seen'[p] = seen[p]
    BY <2>3 DEF Publish, clientVars
  <2>4. ASSUME NEW k \in Classes, Close(k) PROVE last'[p] = last[p] /\ seen'[p] = seen[p]
    BY <2>4 DEF Close, clientVars
  <2>5. ASSUME Restart PROVE FALSE
    BY <2>0, <2>5 DEF Restart
  <2> QED
    BY <2>0, <2>1, <2>2, <2>3, <2>4, <2>5 DEF Next
<1>2. Spec => []PollInv /\ [][Next]_vars
  BY PollInvariant DEF Spec
<1>3. Spec => [][Ascends]_vars
  BY <1>1, <1>2, PTL
<1> QED
  BY <1>3 DEF CursorAscends

-----------------------------------------------------------------------------
(***************************************************************************)
(* Types.  What is not plain is that no queue is longer than Buffer: a     *)
(* replay fits because the ring is shorter than a queue.                   *)
(***************************************************************************)

BusType ==
    /\ epoch \in 1..MaxEpoch
    /\ log \in Seq([topic : Topics, keep : BOOLEAN]) /\ Latest <= MaxSeq
    /\ ring \in Seq(1..MaxSeq) /\ Len(ring) <= RingCap

ConnType ==
    /\ conn \in [Clients -> {"off", "on", "ended"}]
    /\ feed \in [Clients -> Seq(1..MaxSeq)]
    /\ \A c \in Clients : Len(feed[c]) <= Buffer
    /\ resync \in [Clients -> BOOLEAN]
    /\ leaving \in [Classes -> 0..MaxLeaving]

ClientType ==
    /\ last \in [Clients -> 0..MaxSeq]
    /\ at \in [Clients -> 0..MaxEpoch]
    /\ base \in [Clients -> [epoch : 0..MaxEpoch, id : 0..MaxSeq]]
    /\ seen \in [Clients -> SUBSET (1..MaxSeq)]

PollType ==
    /\ phase \in [Clients -> {"idle", "marked", "read", "joined", "waiting"}]
    /\ view \in [Clients -> [next : 0..MaxSeq, complete : BOOLEAN]]

\* The type invariant in four parts.
LEMMA TypeParts == TypeOK <=> BusType /\ ConnType /\ ClientType /\ PollType
BY DEF TypeOK, BusType, ConnType, ClientType, PollType

\* A sequence of numbers whose elements are in S is a sequence over S.
LEMMA SequenceOver ==
    ASSUME NEW q \in Seq(Nat), NEW S, \A i \in 1..Len(q) : q[i] \in S
    PROVE  q \in Seq(S)
<1>1. q \in [1..Len(q) -> S] /\ Len(q) \in Nat
  OBVIOUS
<1> QED
  BY <1>1

\* What the head and the tail of a sequence over S are.
LEMMA HeadAndTail ==
    ASSUME NEW S, NEW q \in Seq(S), q # <<>>
    PROVE  /\ Head(q) \in S /\ Tail(q) \in Seq(S)
           /\ Len(Tail(q)) = Len(q) - 1 /\ Len(q) \in Nat
OBVIOUS

\* What is replayed is no longer than the ring.
LEMMA ReplayFits ==
    ASSUME RingIsSuffix, NEW S, S \subseteq RangeOf(ring), NEW q \in Ascending(S)
    PROVE  q \in [1..Len(q) -> S] /\ Len(q) \in Nat /\ Len(q) <= Len(ring)
<1>1. RangeOf(ring) = {ring[i] : i \in 1..Len(ring)} /\ Len(ring) \in Nat
  BY DEF RangeOf, RingIsSuffix
<1>2. IsFiniteSet(1..Len(ring)) /\ Cardinality(1..Len(ring)) = Len(ring)
  <2> DEFINE n == Len(ring)
  <2>1. n \in Nat /\ 1 \in Int /\ n \in Int
    BY <1>1
  <2> HIDE DEF n
  <2>2. IsFiniteSet(1..n) /\ Cardinality(1..n) = (IF 1 > n THEN 0 ELSE n - 1 + 1)
    BY <2>1, FS_Interval
  <2>3. IsFiniteSet(1..n) /\ Cardinality(1..n) = n
    BY <2>1, <2>2
  <2> QED
    BY <2>3 DEF n
<1>3. ring \in Surjection(1..Len(ring), RangeOf(ring))
  BY <1>1 DEF Surjection, RingIsSuffix
<1>4. IsFiniteSet(RangeOf(ring)) /\ Cardinality(RangeOf(ring)) <= Len(ring)
  BY <1>2, <1>3, FS_Surjection
<1>5. /\ Cardinality(S) <= Cardinality(RangeOf(ring)) /\ Cardinality(S) \in Nat
      /\ Cardinality(RangeOf(ring)) \in Nat
  BY <1>4, FS_Subset, FS_CardinalityType
<1>6. q \in [1..Cardinality(S) -> S]
  BY DEF Ascending
<1>7. Len(q) = Cardinality(S)
  BY <1>5, <1>6
<1> QED
  BY <1>1, <1>4, <1>5, <1>6, <1>7

\* A publish keeps the types: the ring and the queues drop or refuse what is too
\* much for them.
LEMMA PublishTyped ==
    ASSUME TypeOK, PollInv, NEW t \in Topics, NEW keep \in BOOLEAN, Publish(t, keep)
    PROVE  TypeOK'
<1>1. BusType /\ ConnType /\ ClientType /\ PollType
  BY TypeParts
<1>2. UNCHANGED <<epoch, resync, leaving, last, at, base, seen, phase, view>>
  BY DEF Publish, clientVars, pollVars
<1>3. ClientType' /\ PollType'
  BY <1>1, <1>2 DEF ClientType, PollType
<1>4. Latest \in Nat /\ Latest' = Latest + 1 /\ Latest' <= MaxSeq /\ Latest + 1 \in 1..MaxSeq
  BY <1>1, EventBusAssumption DEF Publish, BusType, Latest
<1>5. BusType'
  <2>1. RingIsSuffix' /\ RingIsSuffix
    BY PushedIsSuffix DEF PollInv, BusInv
  <2>2. ring' \in Seq(1..MaxSeq)
    <3>1. \A i \in 1..Len(ring') : ring'[i] \in 1..MaxSeq
      BY <1>4, <2>1, EventBusAssumption DEF RingIsSuffix
    <3> QED
      BY <2>1, <3>1, SequenceOver DEF RingIsSuffix
  <2>3. Len(ring') <= RingCap
    <3> DEFINE longer == Append(ring, Latest + 1)
    <3>1. /\ longer \in Seq(Nat) /\ Len(longer) \in Nat /\ Len(ring) <= RingCap
      BY <1>1, <1>4, <2>1 DEF RingIsSuffix, BusType
    <3> HIDE DEF longer
    <3>2. \/ ring' = ring
          \/ ring' = longer /\ Len(longer) <= RingCap
          \/ /\ ~(Len(longer) <= RingCap)
             /\ ring' = SubSeq(longer, Len(longer) - RingCap + 1, Len(longer))
      BY DEF Publish, Pushed, longer
    <3>3. CASE /\ ~(Len(longer) <= RingCap)
               /\ ring' = SubSeq(longer, Len(longer) - RingCap + 1, Len(longer))
      <4> DEFINE k == Len(longer) - RingCap + 1
      <4>1. k \in 1..Len(longer) /\ Len(longer) - k + 1 = RingCap
        BY <3>1, <3>3, EventBusAssumption
      <4>2. ring' = SubSeq(longer, k, Len(longer))
        BY <3>3
      <4> HIDE DEF k
      <4> QED
        BY <3>1, <4>1, <4>2
    <3> QED
      BY <3>1, <3>2, <3>3
  <2> QED
    BY <1>1, <1>2, <1>4, <2>1, <2>2, <2>3 DEF BusType, RingIsSuffix
<1>6. ConnType'
  <2>1. conn' \in [Clients -> {"off", "on", "ended"}]
    BY <1>1 DEF Publish, ConnType
  <2>2. ASSUME NEW c \in Clients
        PROVE  feed'[c] \in Seq(1..MaxSeq) /\ Len(feed'[c]) <= Buffer
    <3>1. feed[c] \in Seq(1..MaxSeq) /\ Len(feed[c]) \in Nat /\ Len(feed[c]) <= Buffer
      BY <1>1 DEF ConnType
    <3>2. CASE feed'[c] = feed[c]
      BY <3>1, <3>2
    <3>3. CASE feed'[c] = Append(feed[c], Latest + 1) /\ Len(feed[c]) < Buffer
      BY <1>4, <3>1, <3>3, EventBusAssumption
    <3> QED
      BY <3>2, <3>3 DEF Publish
  <2>3. feed' \in [Clients -> Seq(1..MaxSeq)]
    <3>1. feed' = [c \in Clients |-> feed'[c]]
      BY DEF Publish
    <3> QED
      BY <2>2, <3>1
  <2> QED
    BY <1>1, <1>2, <2>1, <2>2, <2>3 DEF ConnType
<1> QED
  BY <1>3, <1>5, <1>6 DEF TypeOK, BusType, ConnType, ClientType, PollType

\* So do a stream's steps.
LEMMA StreamTyped ==
    ASSUME TypeOK, PollInv, NEW c \in Clients, Stream(c)
    PROVE  TypeOK'
<1>1. BusType /\ ConnType /\ ClientType /\ PollType
  BY TypeParts
<1>2. UNCHANGED busVars /\ UNCHANGED pollVars
  BY DEF Stream, Subscribe, TellResync, Send, FeedEnds, Break
<1>3. BusType' /\ PollType'
  BY <1>1, <1>2 DEF BusType, PollType, busVars, pollVars, Latest
<1>4. Latest \in Nat /\ Latest \in 0..MaxSeq /\ epoch \in 0..MaxEpoch /\ epoch \in Nat
  BY <1>1, EventBusAssumption DEF BusType, Latest
<1>5. ConnType' /\ ClientType'
  <2>1. ASSUME Subscribe(c) PROVE ConnType' /\ ClientType'
    <3> DEFINE since  == IF at[c] = 0 THEN 0 ELSE last[c]
               replay == IF since = 0 THEN {} ELSE Replayed(c, since)
               handed == Page(replay, Buffer)
               owing  == at[c] \notin {0, epoch} \/ ~Covers(since) \/ handed # replay
    <3>1. PICK q \in Ascending(handed) : feed' = [feed EXCEPT ![c] = q]
      BY <2>1 DEF Subscribe
    <3>2. handed \subseteq RangeOf(ring)
      BY DEF Page, Replayed
    <3>3. RingIsSuffix /\ RangeOf(ring) \subseteq 1..Latest
      BY RingMembers DEF PollInv, BusInv
    <3> HIDE DEF handed
    <3>4. q \in [1..Len(q) -> handed] /\ Len(q) \in Nat /\ Len(q) <= Len(ring)
      BY <3>2, <3>3, ReplayFits
    <3>5. q \in Seq(1..MaxSeq) /\ Len(q) <= Buffer
      <4>1. \A n \in handed : n \in 1..MaxSeq
        BY <1>4, <3>2, <3>3, EventBusAssumption
      <4>2. q \in Seq(Nat) /\ \A i \in 1..Len(q) : q[i] \in 1..MaxSeq
        BY <3>2, <3>3, <4>1, AscendingSeq
      <4>3. Len(ring) \in Nat /\ Len(ring) <= RingCap
        BY <1>1 DEF BusType
      <4>4. q \in Seq(1..MaxSeq)
        BY <4>2, SequenceOver
      <4>5. Len(q) <= Buffer
        BY <3>4, <4>3, EventBusAssumption
      <4> QED
        BY <4>4, <4>5
    <3>6. resync' = [resync EXCEPT ![c] = owing] /\ conn' = [conn EXCEPT ![c] = "on"]
      BY <2>1 DEF Subscribe, handed
    <3>7. owing \in BOOLEAN
      OBVIOUS
    <3> HIDE DEF owing
    <3>8. feed' \in [Clients -> Seq(1..MaxSeq)] /\ \A d \in Clients : Len(feed'[d]) <= Buffer
      BY <1>1, <3>1, <3>5 DEF ConnType
    <3>9. ConnType'
      BY <1>1, <2>1, <3>6, <3>7, <3>8 DEF ConnType, Subscribe
    <3>10. ClientType'
      <4>1. /\ UNCHANGED <<last, at>>
            /\ \/ UNCHANGED <<base, seen>>
               \/ /\ base' = [base EXCEPT ![c] = [epoch |-> epoch, id |-> Latest]]
                  /\ seen' = [seen EXCEPT ![c] = {}]
        BY <2>1 DEF Subscribe
      <4> QED
        BY <1>1, <1>4, <4>1 DEF ClientType
    <3> QED
      BY <3>9, <3>10
  <2>2. ASSUME TellResync(c) PROVE ConnType' /\ ClientType'
    BY <1>1, <1>4, <2>2 DEF TellResync, ConnType, ClientType
  <2>3. ASSUME Send(c) PROVE ConnType' /\ ClientType'
    <3> DEFINE n == Head(feed[c])
    <3>1. /\ feed[c] \in Seq(1..MaxSeq) /\ feed[c] # <<>> /\ Len(feed[c]) <= Buffer
          /\ feed' = [feed EXCEPT ![c] = Tail(@)]
      BY <1>1, <2>3 DEF Send, ConnType
    <3>2. n \in 1..MaxSeq /\ Tail(feed[c]) \in Seq(1..MaxSeq) /\ Len(Tail(feed[c])) <= Buffer
      <4>1. /\ n \in 1..MaxSeq /\ Tail(feed[c]) \in Seq(1..MaxSeq)
            /\ Len(Tail(feed[c])) = Len(feed[c]) - 1 /\ Len(feed[c]) \in Nat
        BY <3>1, HeadAndTail
      <4> QED
        BY <3>1, <4>1, EventBusAssumption
    <3>3. feed' \in [Clients -> Seq(1..MaxSeq)] /\ \A d \in Clients : Len(feed'[d]) <= Buffer
      BY <1>1, <3>1, <3>2 DEF ConnType
    <3>4. ConnType'
      BY <1>1, <2>3, <3>3 DEF ConnType, Send
    <3>5. \/ UNCHANGED <<last, at, seen>>
          \/ /\ last' = [last EXCEPT ![c] = n] /\ at' = [at EXCEPT ![c] = epoch]
             /\ seen' = [seen EXCEPT ![c] = @ \cup {n}]
      BY <2>3 DEF Send
    <3> HIDE DEF n
    <3>6. n \in 0..MaxSeq
      BY <3>2, EventBusAssumption
    <3>7. ClientType'
      <4>1. seen[c] \cup {n} \in SUBSET (1..MaxSeq)
        BY <1>1, <3>2 DEF ClientType
      <4>2. base' = base
        BY <2>3 DEF Send
      <4>3. last' \in [Clients -> 0..MaxSeq] /\ at' \in [Clients -> 0..MaxEpoch]
        BY <1>1, <1>4, <3>5, <3>6 DEF ClientType
      <4>4. seen' \in [Clients -> SUBSET (1..MaxSeq)]
        BY <1>1, <3>5, <4>1 DEF ClientType
      <4> QED
        BY <1>1, <4>2, <4>3, <4>4 DEF ClientType
    <3> QED
      BY <3>4, <3>7
  <2>4. ASSUME FeedEnds(c) PROVE ConnType' /\ ClientType'
    BY <1>1, <2>4 DEF FeedEnds, ConnType, ClientType, clientVars
  <2>5. ASSUME Break(c) PROVE ConnType' /\ ClientType'
    <3>1. leaving' \in [Classes -> 0..MaxLeaving]
      BY <1>1, <2>5, EventBusAssumption DEF Break, ConnType
    <3>2. <<>> \in Seq(1..MaxSeq) /\ Len(<<>>) <= Buffer
      BY EventBusAssumption
    <3>3. feed' \in [Clients -> Seq(1..MaxSeq)] /\ \A d \in Clients : Len(feed'[d]) <= Buffer
      BY <1>1, <2>5, <3>2 DEF Break, ConnType
    <3> QED
      BY <1>1, <2>5, <3>1, <3>3 DEF Break, ConnType, ClientType, clientVars
  <2> QED
    BY <2>1, <2>2, <2>3, <2>4, <2>5 DEF Stream
<1> QED
  BY <1>3, <1>5 DEF TypeOK, BusType, ConnType, ClientType, PollType

\* An answer keeps them.
LEMMA AnswerTyped ==
    ASSUME TypeOK, PollInv, NEW p \in Clients, NEW items, NEW next, NEW complete,
           Sound(p, items, next, complete), Answered(p, items, next, complete)
    PROVE  TypeOK'
<1>1. BusType /\ ConnType /\ ClientType /\ PollType
  BY TypeParts
<1>2. BusType'
  BY <1>1 DEF BusType, Answered, busVars, Latest
<1>3. Latest \in Nat /\ Latest \in 0..MaxSeq /\ epoch \in 0..MaxEpoch
  BY <1>1, EventBusAssumption DEF BusType, Latest
<1>4. next \in 0..MaxSeq /\ items \subseteq 1..MaxSeq /\ items \subseteq Nat
  BY <1>3, EventBusAssumption DEF Sound
<1> DEFINE low   == IF items = {} THEN next ELSE LowestOf(items) - 1
           shown == {n \in items : log[n].topic \in readable[p]}
<1>5. low \in 0..MaxSeq
  <2>1. CASE items = {}
    BY <1>4, <2>1
  <2>2. CASE items # {}
    <3>1. LowestOf(items) \in 1..MaxSeq
      BY <1>4, <2>2, LowestIsMember
    <3> QED
      BY <2>2, <3>1, EventBusAssumption
  <2> QED
    BY <2>1, <2>2
<1>6. shown \subseteq 1..MaxSeq
  BY <1>4
<1>7. /\ last' = [last EXCEPT ![p] = next] /\ at' = [at EXCEPT ![p] = epoch]
      /\ \/ /\ base' = [base EXCEPT ![p] = [epoch |-> epoch, id |-> Latest]]
            /\ seen' = [seen EXCEPT ![p] = {}]
         \/ /\ base' = [base EXCEPT ![p] = [epoch |-> epoch, id |-> low]]
            /\ seen' = [seen EXCEPT ![p] = shown]
         \/ base' = base /\ seen' = [seen EXCEPT ![p] = @ \cup shown]
  BY DEF Answered
<1> HIDE DEF low, shown
<1>8. ClientType'
  <2>1. last' \in [Clients -> 0..MaxSeq] /\ at' \in [Clients -> 0..MaxEpoch]
    BY <1>1, <1>3, <1>4, <1>7 DEF ClientType
  <2>2. base' \in [Clients -> [epoch : 0..MaxEpoch, id : 0..MaxSeq]]
    BY <1>1, <1>3, <1>5, <1>7 DEF ClientType
  <2>3. seen[p] \cup shown \in SUBSET (1..MaxSeq)
    BY <1>1, <1>6 DEF ClientType
  <2>4. seen' \in [Clients -> SUBSET (1..MaxSeq)]
    BY <1>1, <1>6, <1>7, <2>3 DEF ClientType
  <2> QED
    BY <2>1, <2>2, <2>4 DEF ClientType
<1>9. PollType'
  BY <1>1 DEF Answered, PollType
<1>10. ConnType'
  <2>1. <<>> \in Seq(1..MaxSeq) /\ Len(<<>>) <= Buffer
    BY EventBusAssumption
  <2>2. feed' \in [Clients -> Seq(1..MaxSeq)] /\ \A d \in Clients : Len(feed'[d]) <= Buffer
    BY <1>1, <2>1 DEF Answered, ConnType
  <2> QED
    BY <1>1, <2>2 DEF Answered, ConnType
<1> QED
  BY <1>2, <1>8, <1>9, <1>10 DEF TypeOK, BusType, ConnType, ClientType, PollType

\* So does every other step of a request.
LEMMA PollTyped ==
    ASSUME TypeOK, PollInv, NEW p \in Clients, Poll(p)
    PROVE  TypeOK'
<1>1. CASE \E items, next, complete :
              Sound(p, items, next, complete) /\ Answered(p, items, next, complete)
  BY <1>1, AnswerTyped
<1>2. CASE /\ PollerInv(p)' /\ UNCHANGED clientVars
           /\ ~\E items, next, complete :
                 Sound(p, items, next, complete) /\ Answered(p, items, next, complete)
  <2>1. BusType /\ ConnType /\ ClientType /\ PollType /\ p \in Pollers /\ Domains
    BY TypeParts, PollMoves DEF PollInv, BusInv
  <2>2. UNCHANGED busVars
    BY BusKept
  <2>3. BusType' /\ ClientType'
    BY <1>2, <2>1, <2>2 DEF BusType, ClientType, busVars, clientVars, Latest
  <2>4. PollerShape(p)' /\ PollerView(p)' /\ PollerFeed(p)' /\ Domains'
    BY <1>2, <2>1, DomainsKept DEF PollerInv, Next
  <2>5. Latest' \in Nat /\ Latest' <= MaxSeq
    BY <2>3 DEF BusType, Latest
  <2>6. /\ phase' = [phase EXCEPT ![p] = phase'[p]]
        /\ \/ view' = view
           \/ view' = [view EXCEPT ![p] = view'[p]] /\ phase'[p] # "idle"
    <3>1. \A items, next, complete : Answered(p, items, next, complete) =>
             phase' = [phase EXCEPT ![p] = phase'[p]] /\ view' = view
      BY <2>1 DEF Answered, PollType
    <3> QED
      BY <2>1, <3>1 DEF Poll, RecentNow, RecentMarks, RecentReads, RecentHolds, RecentJoins,
         RecentRereads, RecentTimesOut, RecentWakes, RecentCutOff, RecentGone, PollType, pollVars
  <2>7. PollType'
    <3>1. phase' \in [Clients -> {"idle", "marked", "read", "joined", "waiting"}]
      BY <2>1, <2>4, <2>6 DEF PollType, PollerShape
    <3>2. phase'[p] # "idle" => view'[p] \in [next : 0..MaxSeq, complete : BOOLEAN]
      <4> SUFFICES ASSUME phase'[p] # "idle"
                   PROVE  view'[p] \in [next : 0..MaxSeq, complete : BOOLEAN]
        OBVIOUS
      <4>1. view'[p] \in [next : Nat, complete : BOOLEAN] /\ view'[p].next <= Latest'
        BY <2>4 DEF PollerView
      <4>2. view'[p].next \in 0..MaxSeq
        BY <2>5, <4>1, EventBusAssumption
      <4> QED
        BY <4>1, <4>2
    <3> QED
      BY <2>1, <2>6, <3>1, <3>2 DEF PollType
  <2>8. ConnType'
    <3>1. /\ UNCHANGED <<resync, leaving>>
          /\ conn' = [conn EXCEPT ![p] = conn'[p]]
          /\ feed' = feed \/ feed' = [feed EXCEPT ![p] = <<>>]
      <4>1. \A items, next, complete : Answered(p, items, next, complete) =>
               /\ UNCHANGED <<resync, leaving>>
               /\ conn' = [conn EXCEPT ![p] = conn'[p]]
               /\ feed' = [feed EXCEPT ![p] = <<>>]
        BY <2>1 DEF Answered, ConnType
      <4> QED
        BY <2>1, <4>1 DEF Poll, RecentNow, RecentMarks, RecentReads, RecentHolds, RecentJoins,
           RecentRereads, RecentTimesOut, RecentWakes, RecentCutOff, RecentGone, ConnType, connVars
    <3>2. <<>> \in Seq(1..MaxSeq) /\ Len(<<>>) <= Buffer
      BY EventBusAssumption
    <3>3. feed' \in [Clients -> Seq(1..MaxSeq)] /\ \A d \in Clients : Len(feed'[d]) <= Buffer
      BY <2>1, <3>1, <3>2 DEF ConnType
    <3>4. conn' \in [Clients -> {"off", "on", "ended"}]
      BY <2>1, <2>4, <3>1 DEF ConnType, PollerShape
    <3> QED
      BY <2>1, <3>1, <3>3, <3>4 DEF ConnType
  <2> QED
    BY <2>3, <2>7, <2>8 DEF TypeOK, BusType, ConnType, ClientType, PollType
<1> QED
  BY <1>1, <1>2, PollMoves

\* Every variable keeps its type; no queue grows past Buffer and no ring past
\* RingCap.
THEOREM BusTypeCorrect == Spec => []TypeOK
<1>1. Init => TypeOK
  <2> SUFFICES ASSUME Init PROVE TypeOK
    OBVIOUS
  <2>1. BusType
    BY EventBusAssumption DEF Init, BusType, Latest
  <2>2. ConnType
    BY EventBusAssumption DEF Init, ConnType
  <2>3. ClientType /\ PollType
    BY EventBusAssumption DEF Init, ClientType, PollType
  <2> QED
    BY <2>1, <2>2, <2>3, TypeParts
<1>2. TypeOK /\ PollInv /\ [Next]_vars => TypeOK'
  <2> SUFFICES ASSUME TypeOK, PollInv, [Next]_vars PROVE TypeOK'
    OBVIOUS
  <2>1. BusType /\ ConnType /\ ClientType /\ PollType
    BY TypeParts
  <2>2. ASSUME NEW k \in Classes, Close(k) PROVE TypeOK'
    <3>1. leaving' \in [Classes -> 0..MaxLeaving]
      BY <2>1, <2>2, EventBusAssumption DEF Close, ConnType
    <3> QED
      BY <2>2, <3>1 DEF Close, TypeOK, busVars, clientVars, pollVars, Latest
  <2>3. ASSUME Restart PROVE TypeOK'
    <3>1. BusType'
      BY <2>1, <2>3, EventBusAssumption DEF Restart, BusType, Latest
    <3>2. ConnType'
      BY <2>3, EventBusAssumption DEF Restart, ConnType
    <3>3. ClientType' /\ PollType'
      BY <2>1, <2>3 DEF Restart, ClientType, PollType, clientVars
    <3> QED
      BY <3>1, <3>2, <3>3 DEF TypeOK, BusType, ConnType, ClientType, PollType
  <2>4. ASSUME UNCHANGED vars PROVE TypeOK'
    BY <2>4 DEF vars, TypeOK, Latest
  <2> QED
    BY <2>2, <2>3, <2>4, PublishTyped, StreamTyped, PollTyped DEF Next
<1> QED
  BY <1>1, <1>2, PollInvariant, PTL DEF Spec
=============================================================================
