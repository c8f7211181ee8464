--------------------------- MODULE EnrichmentQueue ---------------------------
(***************************************************************************)
(* The queue of optional lookups at GitHub that keeps them out of webhook  *)
(* and heartbeat handlers: the rows of control_enrichment, the loop that   *)
(* claims a batch once a second and waits for it, and a worker per claimed *)
(* row.  A request that arrives while a worker is looking bumps the row's  *)
(* generation, and an acknowledgement deletes the row only at the          *)
(* generation that was claimed.                                            *)
(*                                                                         *)
(* Sources: internal/store/queries_enrichment.go,                          *)
(* internal/controller/enrichment.go.                                      *)
(*                                                                         *)
(* Time is abstract: the minute of a claim passes at any moment, but rows  *)
(* fall due in the order of next_attempt.  The reader that is asked first  *)
(* whether anything is due only spares a claim and is left out.  What a    *)
(* lookup does to a runner or a job is RunnerLifecycle's; here it reads    *)
(* the store and then succeeds or fails.  One process runs the loop.       *)
(***************************************************************************)
EXTENDS Naturals, FiniteSets

CONSTANTS
  Items,        \* the (kind, target) pairs
  Answered,     \* those whose lookup succeeds if it is tried often enough
  Limit,        \* how many rows one claim may take (4 in the code)
  MaxRequests,  \* bound: how often one item may be asked for
  MaxStops      \* bound: restarts of the controller and pauses of its authority

ASSUME EnrichmentAssumption ==
  /\ Answered \subseteq Items
  /\ Limit \in Nat \ {0}
  /\ MaxRequests \in Nat
  /\ MaxStops \in Nat

VARIABLES
  generation,  \* of each row of the table; 0 is no row
  earlier,     \* the rows whose next_attempt is before this row's
  tried,       \* the rows whose next_attempt is no longer 0
  due,         \* the rows whose next_attempt has passed
  worker,      \* the goroutine of each claimed row
  acting,      \* mayAct
  asked,       \* history: how many requests for each item have been made
  covered,     \* history: how many of them a successful lookup has seen
  stops

rows == <<generation, earlier, tried, due>>
enrichVars == <<rows, worker, acting, asked, covered, stops>>

NoWorker == [pc |-> "idle", gen |-> 0, saw |-> 0]

EnrichTypeOK ==
  /\ generation \in [Items -> 0..MaxRequests]
  /\ earlier \in [Items -> SUBSET Items]
  /\ tried \subseteq Items /\ due \subseteq Items
  /\ worker \in [Items -> [pc : {"idle", "claimed", "looking", "looked"},
                           gen : 0..MaxRequests, saw : 0..MaxRequests]]
  /\ acting \in BOOLEAN
  /\ asked \in [Items -> 0..MaxRequests]
  /\ covered \in [Items -> 0..MaxRequests]
  /\ stops \in 0..MaxStops

EnrichInit ==
  /\ generation = [i \in Items |-> 0]
  /\ earlier = [i \in Items |-> {}]
  /\ tried = {} /\ due = {}
  /\ worker = [i \in Items |-> NoWorker]
  /\ acting = TRUE
  /\ asked = [i \in Items |-> 0]
  /\ covered = [i \in Items |-> 0]
  /\ stops = 0

Queued == {i \in Items : generation[i] # 0}

-----------------------------------------------------------------------------

\* Variant: a second request finds the row there and leaves it as it is.
KeptGeneration(i) == IF generation[i] = 0 THEN 1 ELSE generation[i]

\* DEFAULT 1, or ON CONFLICT DO UPDATE SET generation=generation+1.
NextGeneration(i) == generation[i] + 1

\* QueueEnrichment, from a webhook or a heartbeat.  A new row has next_attempt 0,
\* before every row that was ever claimed; an old one keeps its place.
QueueEnrichment(i) ==
  /\ asked[i] < MaxRequests
  /\ asked' = [asked EXCEPT ![i] = @ + 1]
  /\ generation' = [generation EXCEPT ![i] = NextGeneration(i)]
  /\ IF i \in Queued THEN UNCHANGED <<earlier, due>>
     ELSE /\ earlier' = [j \in Items |->
                IF j = i THEN {} ELSE IF j \in tried THEN earlier[j] \cup {i} ELSE earlier[j]]
          /\ due' = due \cup {i}
  /\ UNCHANGED <<tried, worker, acting, covered, stops>>

\* The minute that a claim gave the row is over.
FallsDue(i) ==
  /\ i \in Queued \ due /\ earlier[i] \subseteq due
  /\ due' = due \cup {i}
  /\ UNCHANGED <<generation, earlier, tried, worker, acting, asked, covered, stops>>

\* Variant: without the ORDER BY.
Unordered(batch) ==
  /\ batch \subseteq due
  /\ Cardinality(batch) = IF Cardinality(due) < Limit THEN Cardinality(due) ELSE Limit

\* WHERE next_attempt<=? ORDER BY next_attempt,kind,target LIMIT ?; rows of one
\* next_attempt come in any order.
Selected(batch) ==
  /\ batch \subseteq due
  /\ Cardinality(batch) = IF Cardinality(due) < Limit THEN Cardinality(due) ELSE Limit
  /\ \A i \in batch : earlier[i] \subseteq batch

\* ClaimEnrichment by enrichOnce, which starts a worker for every row of the batch
\* and waits for the last batch's first.
ClaimEnrichment ==
  /\ acting /\ due # {}
  /\ \A i \in Items : worker[i].pc = "idle"
  /\ \E batch \in SUBSET due :
       /\ Selected(batch)
       /\ worker' = [i \in Items |-> IF i \in batch
            THEN [pc |-> "claimed", gen |-> generation[i], saw |-> 0] ELSE worker[i]]
       /\ earlier' = [i \in Items |-> IF i \in batch THEN Queued \ batch ELSE earlier[i] \ batch]
       /\ tried' = tried \cup batch
       /\ due' = due \ batch
  /\ UNCHANGED <<generation, acting, asked, covered, stops>>

\* enrich begins by reading the runner or the job.
Look(i) ==
  /\ worker[i].pc = "claimed" /\ acting
  /\ worker' = [worker EXCEPT ![i].pc = "looking", ![i].saw = asked[i]]
  /\ UNCHANGED <<rows, acting, asked, covered, stops>>

Succeed(i) ==
  /\ worker[i].pc = "looking"
  /\ worker' = [worker EXCEPT ![i].pc = "looked"]
  /\ covered' = [covered EXCEPT ![i] = worker[i].saw]
  /\ UNCHANGED <<rows, acting, asked, stops>>

\* The authority is gone, GitHub did not answer in time, or the worker panicked:
\* FinishEnrichment, if it is called, does nothing, and the row stays.
Fail(i) ==
  /\ worker[i].pc \in {"claimed", "looking"}
  /\ worker' = [worker EXCEPT ![i] = NoWorker]
  /\ UNCHANGED <<rows, acting, asked, covered, stops>>

\* Variant: DELETE without "AND generation=?".
AnyGeneration(i) == generation[i] # 0

Acknowledged(i) == generation[i] # 0 /\ generation[i] = worker[i].gen

\* FinishEnrichment of a lookup that succeeded.
FinishEnrichment(i) ==
  /\ worker[i].pc = "looked"
  /\ worker' = [worker EXCEPT ![i] = NoWorker]
  /\ IF Acknowledged(i)
     THEN /\ generation' = [generation EXCEPT ![i] = 0]
          /\ earlier' = [j \in Items |-> IF j = i THEN {} ELSE earlier[j] \ {i}]
          /\ tried' = tried \ {i}
          /\ due' = due \ {i}
     ELSE UNCHANGED rows
  /\ UNCHANGED <<acting, asked, covered, stops>>

\* "could not acknowledge enrichment".
FinishFails(i) ==
  /\ worker[i].pc = "looked"
  /\ worker' = [worker EXCEPT ![i] = NoWorker]
  /\ UNCHANGED <<rows, acting, asked, covered, stops>>

\* The lease is lost for a while, and taken again.
Pause ==
  /\ acting /\ stops < MaxStops
  /\ acting' = FALSE /\ stops' = stops + 1
  /\ UNCHANGED <<rows, worker, asked, covered>>
Resume ==
  /\ ~acting /\ acting' = TRUE
  /\ UNCHANGED <<rows, worker, asked, covered, stops>>

\* The process is killed and started again: the table is all that is left.
Crash ==
  /\ stops < MaxStops /\ stops' = stops + 1
  /\ worker' = [i \in Items |-> NoWorker]
  /\ acting' = TRUE
  /\ UNCHANGED <<rows, asked, covered>>

Work(i) == Look(i) \/ Succeed(i) \/ Fail(i) \/ FinishEnrichment(i) \/ FinishFails(i)

EnrichNext ==
  \/ \E i \in Items : QueueEnrichment(i) \/ FallsDue(i) \/ Work(i)
  \/ ClaimEnrichment \/ Pause \/ Resume \/ Crash

EnrichSpec == EnrichInit /\ [][EnrichNext]_enrichVars

\* The ticker runs the loop, a lookup has five seconds, a claim's minute passes
\* and the lease is renewed again; that a lookup tried often enough succeeds is
\* assumed of the answered items only, and that the store accepts a write tried
\* often enough of all.
EnrichFairness ==
  /\ WF_enrichVars(ClaimEnrichment) /\ WF_enrichVars(Resume)
  /\ \A i \in Items : WF_enrichVars(FallsDue(i)) /\ WF_enrichVars(Work(i))
  /\ \A i \in Items : SF_enrichVars(FinishEnrichment(i))
  /\ \A i \in Answered : SF_enrichVars(Look(i)) /\ SF_enrichVars(Succeed(i))

FairEnrichSpec == EnrichSpec /\ EnrichFairness

-----------------------------------------------------------------------------

\* A request is in the table until a lookup that began after it was made has
\* succeeded, whatever arrives, fails or restarts between the claim, the look
\* and the acknowledgement.
NothingForgotten == \A i \in Items : covered[i] < asked[i] => i \in Queued

\* Every request for an item that can be answered is looked into, although
\* another item's lookup fails for ever and takes a place in every batch it can.
RequestsAreLookedInto ==
  \A i \in Answered : \A n \in 1..MaxRequests : asked[i] >= n ~> covered[i] >= n
=============================================================================
