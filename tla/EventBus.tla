------------------------------- MODULE EventBus -------------------------------
(***************************************************************************)
(* The bus that makes the interface live (internal/events/bus.go), the     *)
(* stream that fans it out (internal/api/sse.go) and the request that      *)
(* waits for the next change (internal/api/handlers_events.go).  There is  *)
(* no polling behind them: a client that misses an event and is not told   *)
(* shows a fleet that no longer exists.                                    *)
(*                                                                         *)
(* An event is its number; what was published under it is in log, the      *)
(* history of this run of the process.  base and seen are history too:     *)
(* a client has fetched everything as of base and been handed seen since.  *)
(***************************************************************************)
EXTENDS Naturals, Sequences, FiniteSets

CONSTANTS
    Streams,    \* clients of GET /events: one connection at a time
    Pollers,    \* clients of GET /events/recent: one request at a time
    Topics,     \* what kinds and topic prefixes tell apart
    matches,    \* SubscribeOptions.Matches, by client
    readable,   \* frameReadable and frameFor, by client
    Classes,    \* ordinary subscriptions, and the visitors'
    classOf,
    ceiling,    \* of each class, 0 for none
    Buffer,     \* 512 in the code
    RingCap,    \* 256 in the code
    PageLimit,  \* limit of one answer to a poller
    MaxSeq,     \* bound: events of one run
    MaxEpoch,   \* bound: runs of the process
    MaxLeaving  \* bound: subscriptions whose handler has gone

Clients == Streams \cup Pollers

ASSUME EventBusAssumption ==
    /\ IsFiniteSet(Clients) /\ Streams \cap Pollers = {}
    /\ matches \in [Clients -> SUBSET Topics]
    /\ readable \in [Clients -> SUBSET Topics]
    /\ classOf \in [Clients -> Classes]
    /\ ceiling \in [Classes -> Nat]
    /\ RingCap \in Nat \ {0} /\ Buffer \in Nat /\ RingCap < Buffer
    /\ PageLimit \in Nat \ {0}
    /\ MaxSeq \in Nat /\ MaxEpoch \in Nat \ {0} /\ MaxLeaving \in Nat

VARIABLES
    epoch,      \* Bus.epoch, counted
    log,        \* history: the topic of each event of this run, and whether it was kept
    ring,       \* Bus.ring
    conn,       \* "off", "on" (in Bus.subs), "ended" (cut off, still being drained)
    feed,       \* the subscription's channel
    resync,     \* a resync frame is owed before anything else
    leaving,    \* subscriptions of each class that only the bus still holds
    last,       \* the client's last event id ...
    at,         \* ... and the epoch it came with, 0 for no id at all
    base,       \* history: what the client has fetched as of
    seen,       \* history: what it has been handed since
    phase,      \* where a poller's request stands
    view        \* the answer its first read would give: next and complete

busVars    == <<epoch, log, ring>>
connVars   == <<conn, feed, resync, leaving>>
clientVars == <<last, at, base, seen>>
pollVars   == <<phase, view>>
vars == <<epoch, log, ring, conn, feed, resync, leaving, last, at, base, seen, phase, view>>

RangeOf(s) == {s[i] : i \in DOMAIN s}

Latest == Len(log)

LowestOf(S) == CHOOSE n \in S : \A m \in S : n <= m

HighestOf(S) == CHOOSE n \in S : \A m \in S : m <= n

\* The numbers of S in ascending order.
Ascending(S) ==
    {q \in [1..Cardinality(S) -> S] :
        /\ RangeOf(q) = S
        /\ \A i, j \in DOMAIN q : i < j => q[i] < q[j]}

\* The n lowest numbers of S.
Page(S, n) == {k \in S : Cardinality({m \in S : m < k}) < n}

\* What a client is owed of the events that are kept.
Owed(c, n) == log[n].keep /\ log[n].topic \in matches[c] \cap readable[c]

TypeOK ==
    /\ epoch \in 1..MaxEpoch
    /\ log \in Seq([topic : Topics, keep : BOOLEAN]) /\ Latest <= MaxSeq
    /\ ring \in Seq(1..MaxSeq) /\ Len(ring) <= RingCap
    /\ conn \in [Clients -> {"off", "on", "ended"}]
    /\ feed \in [Clients -> Seq(1..MaxSeq)]
    /\ \A c \in Clients : Len(feed[c]) <= Buffer
    /\ resync \in [Clients -> BOOLEAN]
    /\ leaving \in [Classes -> 0..MaxLeaving]
    /\ last \in [Clients -> 0..MaxSeq]
    /\ at \in [Clients -> 0..MaxEpoch]
    /\ base \in [Clients -> [epoch : 0..MaxEpoch, id : 0..MaxSeq]]
    /\ seen \in [Clients -> SUBSET (1..MaxSeq)]
    /\ phase \in [Clients -> {"idle", "marked", "read", "joined", "waiting"}]
    /\ view \in [Clients -> [next : 0..MaxSeq, complete : BOOLEAN]]

Init ==
    /\ epoch = 1 /\ log = <<>> /\ ring = <<>>
    /\ conn = [c \in Clients |-> "off"] /\ feed = [c \in Clients |-> <<>>]
    /\ resync = [c \in Clients |-> FALSE] /\ leaving = [k \in Classes |-> 0]
    /\ last = [c \in Clients |-> 0] /\ at = [c \in Clients |-> 0]
    /\ base = [c \in Clients |-> [epoch |-> 0, id |-> 0]]
    /\ seen = [c \in Clients |-> {}]
    /\ phase = [c \in Clients |-> "idle"]
    /\ view = [c \in Clients |-> [next |-> 0, complete |-> TRUE]]

-----------------------------------------------------------------------------
(***************************************************************************)
(* The bus.                                                                *)
(***************************************************************************)

\* The ring with one more event, at most n of them.
Pushed(keep, n) ==
    LET longer == Append(ring, Latest + 1)
    IN  IF ~keep THEN ring
        ELSE IF Len(longer) <= n THEN longer
        ELSE SubSeq(longer, Len(longer) - n + 1, Len(longer))

\* The open subscriptions an event of this topic is for.
Addressed(t) == {c \in Clients : conn[c] = "on" /\ t \in matches[c]}

\* Faulty variants of publish: a full queue loses the event and goes on; a full
\* queue takes it all the same.
PublishThins(t, keep) ==
    /\ Latest < MaxSeq
    /\ log' = Append(log, [topic |-> t, keep |-> keep])
    /\ ring' = Pushed(keep, RingCap)
    /\ feed' = [c \in Clients |-> IF c \in Addressed(t) /\ Len(feed[c]) < Buffer
                                  THEN Append(feed[c], Latest + 1) ELSE feed[c]]
    /\ UNCHANGED <<epoch, conn, resync, leaving, clientVars, pollVars>>

PublishUnbounded(t, keep) ==
    /\ Latest < MaxSeq
    /\ log' = Append(log, [topic |-> t, keep |-> keep])
    /\ ring' = Pushed(keep, RingCap)
    /\ feed' = [c \in Clients |-> IF c \in Addressed(t)
                                  THEN Append(feed[c], Latest + 1) ELSE feed[c]]
    /\ UNCHANGED <<epoch, conn, resync, leaving, clientVars, pollVars>>

\* publish, under Bus.mu: the number, the ring, and every matching queue; the
\* feed of one that is full is ended.  Publish keeps, PublishTransient does not.
Publish(t, keep) ==
    /\ Latest < MaxSeq
    /\ log' = Append(log, [topic |-> t, keep |-> keep])
    /\ ring' = Pushed(keep, RingCap)
    /\ feed' = [c \in Clients |-> IF c \in Addressed(t) /\ Len(feed[c]) < Buffer
                                  THEN Append(feed[c], Latest + 1) ELSE feed[c]]
    /\ conn' = [c \in Clients |-> IF c \in Addressed(t) /\ Len(feed[c]) >= Buffer
                                  THEN "ended" ELSE conn[c]]
    /\ UNCHANGED <<epoch, resync, leaving, clientVars, pollVars>>

\* countLocked below the ceiling of the client's class.
HasRoom(c) ==
    LET k == classOf[c]
    IN  \/ ceiling[k] = 0
        \/ leaving[k] + Cardinality({d \in Clients : conn[d] = "on" /\ classOf[d] = k})
             < ceiling[k]

\* Faulty variant: the event the client has already is replayed as well.
ReplayedFrom(c, since) ==
    {n \in RangeOf(ring) : n >= since /\ log[n].topic \in matches[c]}

\* replayLocked's events
Replayed(c, since) ==
    {n \in RangeOf(ring) : n > since /\ log[n].topic \in matches[c]}

\* Faulty variant: whatever the ring still has is taken for everything.
CoversAll(since) == since <= Latest

\* replayLocked's complete: the event after since is still in the ring, or there
\* is none; 0 asks for nothing in particular.
Covers(since) ==
    \/ since = 0
    \/ since = Latest
    \/ since < Latest /\ ring # <<>> /\ ring[1] <= since + 1

-----------------------------------------------------------------------------
(***************************************************************************)
(* GET /events                                                             *)
(***************************************************************************)

\* lastEventID and SubscribeWithin: a client with an id has the rest replayed
\* under the lock that registers it; one without starts from now.
Subscribe(c) ==
    LET since   == IF at[c] = 0 THEN 0 ELSE last[c]
        replay  == IF since = 0 THEN {} ELSE Replayed(c, since)
        handed  == Page(replay, Buffer)
        foreign == at[c] \notin {0, epoch}
    IN  /\ c \in Streams /\ conn[c] = "off"
        /\ HasRoom(c)
        /\ conn' = [conn EXCEPT ![c] = "on"]
        /\ \E q \in Ascending(handed) : feed' = [feed EXCEPT ![c] = q]
        /\ resync' = [resync EXCEPT ![c] = foreign \/ ~Covers(since) \/ handed # replay]
        /\ IF at[c] = 0
           THEN /\ base' = [base EXCEPT ![c] = [epoch |-> epoch, id |-> Latest]]
                /\ seen' = [seen EXCEPT ![c] = {}]
           ELSE UNCHANGED <<base, seen>>
        /\ UNCHANGED <<busVars, leaving, last, at, pollVars>>

\* The resync frame goes first.  It carries no id; the client fetches everything.
TellResync(c) ==
    /\ conn[c] # "off" /\ resync[c]
    /\ resync' = [resync EXCEPT ![c] = FALSE]
    /\ base' = [base EXCEPT ![c] = [epoch |-> epoch, id |-> Latest]]
    /\ seen' = [seen EXCEPT ![c] = {}]
    /\ UNCHANGED <<busVars, conn, feed, leaving, last, at, pollVars>>

\* handleEvents writes the next frame, unless it is not this reader's to see.
Send(c) ==
    /\ c \in Streams
    /\ conn[c] # "off" /\ ~resync[c] /\ feed[c] # <<>>
    /\ feed' = [feed EXCEPT ![c] = Tail(@)]
    /\ LET n == Head(feed[c])
       IN  IF log[n].topic \in readable[c]
           THEN /\ last' = [last EXCEPT ![c] = n]
                /\ at' = [at EXCEPT ![c] = epoch]
                /\ seen' = [seen EXCEPT ![c] = @ \cup {n}]
           ELSE UNCHANGED <<last, at, seen>>
    /\ UNCHANGED <<busVars, conn, resync, leaving, base, pollVars>>

\* A feed the bus has ended is drained, and then the response ends.
FeedEnds(c) ==
    /\ c \in Streams
    /\ conn[c] = "ended" /\ ~resync[c] /\ feed[c] = <<>>
    /\ conn' = [conn EXCEPT ![c] = "off"]
    /\ UNCHANGED <<busVars, feed, resync, leaving, clientVars, pollVars>>

\* The connection breaks, or its credential is revoked.  The handler cancels the
\* subscription's context and is gone before the bus has acted on it.
Break(c) ==
    /\ c \in Streams /\ conn[c] # "off"
    /\ conn' = [conn EXCEPT ![c] = "off"]
    /\ feed' = [feed EXCEPT ![c] = <<>>]
    /\ resync' = [resync EXCEPT ![c] = FALSE]
    /\ IF conn[c] = "on"
       THEN leaving[classOf[c]] < MaxLeaving /\ leaving' = [leaving EXCEPT ![classOf[c]] = @ + 1]
       ELSE UNCHANGED leaving
    /\ UNCHANGED <<busVars, clientVars, pollVars>>

\* Subscription.Close, from the goroutine that watches the context.
Close(k) ==
    /\ leaving[k] > 0
    /\ leaving' = [leaving EXCEPT ![k] = @ - 1]
    /\ UNCHANGED <<busVars, conn, feed, resync, clientVars, pollVars>>

-----------------------------------------------------------------------------
(***************************************************************************)
(* GET /events/recent                                                      *)
(***************************************************************************)

\* The answer reaches the caller; an incomplete one makes it fetch everything.
\* A caller that came without a cursor has claimed nothing before its first item.
Answered(c, items, next, complete) ==
    LET shown == {n \in items : log[n].topic \in readable[c]}
    IN  /\ last' = [last EXCEPT ![c] = next]
        /\ at' = [at EXCEPT ![c] = epoch]
        /\ IF ~complete
           THEN /\ base' = [base EXCEPT ![c] = [epoch |-> epoch, id |-> Latest]]
                /\ seen' = [seen EXCEPT ![c] = {}]
           ELSE IF at[c] = 0
           THEN /\ base' = [base EXCEPT ![c] = [epoch |-> epoch, id |->
                                IF items = {} THEN next ELSE LowestOf(items) - 1]]
                /\ seen' = [seen EXCEPT ![c] = shown]
           ELSE /\ seen' = [seen EXCEPT ![c] = @ \cup shown]
                /\ UNCHANGED base
        /\ phase' = [phase EXCEPT ![c] = "idle"]
        /\ conn' = [conn EXCEPT ![c] = "off"]
        /\ feed' = [feed EXCEPT ![c] = <<>>]
        /\ UNCHANGED <<busVars, resync, leaving, view>>

\* Bus.Recent for the caller's cursor: none, one of another run, one before the
\* first event of this run (ringIsWhole), or an id.
Found(c) == Replayed(c, IF at[c] = epoch THEN last[c] ELSE 0)

Whole(c) ==
    \/ at[c] = 0
    \/ /\ at[c] = epoch /\ last[c] = 0
       /\ IF ring = <<>> THEN view[c].next = 0 ELSE ring[1] <= 1
    \/ /\ at[c] = epoch /\ last[c] # 0
       /\ Covers(last[c])

\* since=now, without a wait: the cursor is the whole answer.
RecentNow(c) ==
    /\ c \in Pollers /\ phase[c] = "idle" /\ at[c] = 0
    /\ Answered(c, {}, Latest, TRUE)

\* Faulty variant: the cursor of an empty answer is the ring's newest event.
MarksRing(c) ==
    /\ c \in Pollers /\ phase[c] = "idle"
    /\ phase' = [phase EXCEPT ![c] = "marked"]
    /\ view' = [view EXCEPT ![c].next = IF ring = <<>> THEN 0 ELSE ring[Len(ring)]]
    /\ UNCHANGED <<busVars, connVars, clientVars>>

\* readRecent takes the last id before it reads the ring ...
RecentMarks(c) ==
    /\ c \in Pollers /\ phase[c] = "idle"
    /\ phase' = [phase EXCEPT ![c] = "marked"]
    /\ view' = [view EXCEPT ![c].next = Latest]
    /\ UNCHANGED <<busVars, connVars, clientVars>>

\* One read of the ring, and the cursor it hands back: the last event looked at,
\* shown or not, or mark when there is none.
ReadPage(c) == Page(Found(c), PageLimit)

NextOf(page, mark) == IF page = {} THEN mark ELSE HighestOf(page)

\* The read has something to show, or more is waiting behind it.
AnsweredAtOnce(c) ==
    \/ Found(c) # ReadPage(c)
    \/ \E n \in ReadPage(c) : log[n].topic \in readable[c]

\* ... and without a wait, whatever it finds is the answer.
RecentReads(c) ==
    /\ phase[c] = "marked"
    /\ Answered(c, ReadPage(c), NextOf(ReadPage(c), view[c].next), Whole(c))

\* With a wait, an answer with nothing in it is held back.
RecentHolds(c) ==
    /\ phase[c] = "marked" /\ ~AnsweredAtOnce(c)
    /\ phase' = [phase EXCEPT ![c] = "read"]
    /\ view' = [view EXCEPT ![c] = [next |-> NextOf(ReadPage(c), @.next), complete |-> Whole(c)]]
    /\ UNCHANGED <<busVars, connVars, clientVars>>

\* subscribeStream, without a replay.
RecentJoins(c) ==
    /\ phase[c] = "read" /\ HasRoom(c)
    /\ phase' = [phase EXCEPT ![c] = "joined"]
    /\ conn' = [conn EXCEPT ![c] = "on"]
    /\ UNCHANGED <<busVars, feed, resync, leaving, clientVars, view>>

\* Faulty variant: there is no second read.
WaitsAtOnce(c) ==
    /\ phase[c] = "joined"
    /\ phase' = [phase EXCEPT ![c] = "waiting"]
    /\ UNCHANGED <<busVars, connVars, clientVars, view>>

\* The second read: what it finds is answered; finding nothing to show, it waits.
RecentRereads(c) ==
    /\ phase[c] = "joined"
    /\ IF AnsweredAtOnce(c)
       THEN Answered(c, ReadPage(c), NextOf(ReadPage(c), Latest), Whole(c))
       ELSE /\ phase' = [phase EXCEPT ![c] = "waiting"]
            /\ UNCHANGED <<busVars, connVars, clientVars, view>>

RecentTimesOut(c) ==
    /\ phase[c] = "waiting"
    /\ Answered(c, {}, view[c].next, view[c].complete)

\* An event arrives: it is answered with what is queued behind it, or skipped.
RecentWakes(c) ==
    LET queued == {n \in RangeOf(feed[c]) : log[n].topic \in readable[c]}
        items  == Page(queued, PageLimit)
    IN  /\ phase[c] = "waiting" /\ feed[c] # <<>>
        /\ IF items = {}
           THEN /\ feed' = [feed EXCEPT ![c] = <<>>]
                /\ UNCHANGED <<busVars, conn, resync, leaving, clientVars, pollVars>>
           ELSE Answered(c, items, HighestOf(items), view[c].complete)

\* The bus ended the feed: the ring is the answer, and it is not complete.
RecentCutOff(c) ==
    /\ phase[c] = "waiting" /\ conn[c] = "ended" /\ feed[c] = <<>>
    /\ Answered(c, ReadPage(c), NextOf(ReadPage(c), Latest), FALSE)

\* The caller goes away, or is refused a subscription; its cursor stays.
RecentGone(c) ==
    /\ phase[c] # "idle"
    /\ phase' = [phase EXCEPT ![c] = "idle"]
    /\ conn' = [conn EXCEPT ![c] = "off"]
    /\ feed' = [feed EXCEPT ![c] = <<>>]
    /\ UNCHANGED <<busVars, resync, leaving, clientVars, view>>

-----------------------------------------------------------------------------
\* The process starts again: a new epoch, and the numbers from the beginning.
Restart ==
    /\ epoch < MaxEpoch
    /\ epoch' = epoch + 1 /\ log' = <<>> /\ ring' = <<>>
    /\ conn' = [c \in Clients |-> "off"] /\ feed' = [c \in Clients |-> <<>>]
    /\ resync' = [c \in Clients |-> FALSE] /\ leaving' = [k \in Classes |-> 0]
    /\ phase' = [c \in Clients |-> "idle"]
    /\ UNCHANGED <<clientVars, view>>

Stream(c) == Subscribe(c) \/ TellResync(c) \/ Send(c) \/ FeedEnds(c) \/ Break(c)

Poll(c) ==
    \/ RecentNow(c) \/ RecentMarks(c) \/ RecentReads(c) \/ RecentHolds(c)
    \/ RecentJoins(c) \/ RecentRereads(c) \/ RecentTimesOut(c) \/ RecentWakes(c)
    \/ RecentCutOff(c) \/ RecentGone(c)

Next ==
    \/ \E t \in Topics, keep \in BOOLEAN : Publish(t, keep)
    \/ \E c \in Clients : Stream(c) \/ Poll(c)
    \/ \E k \in Classes : Close(k)
    \/ Restart

Spec == Init /\ [][Next]_vars

\* A browser reconnects by itself, the handler writes what is in its queue, and a
\* feed that was ended ends its response.
Fairness ==
    /\ \A c \in Streams : /\ WF_vars(Subscribe(c)) /\ WF_vars(TellResync(c))
                          /\ WF_vars(Send(c)) /\ WF_vars(FeedEnds(c))
    /\ \A k \in Classes : WF_vars(Close(k))

FairSpec == Spec /\ Fairness

-----------------------------------------------------------------------------
(***************************************************************************)
(* Properties.                                                             *)
(***************************************************************************)

\* c's id is of this run and vouches for everything c is owed up to it.
NoHole(c) ==
    at[c] = epoch =>
        /\ base[c].epoch = epoch
        /\ \A n \in (base[c].id + 1)..last[c] : Owed(c, n) => n \in seen[c]

\* However often a stream is cut off, broken or restarted under, the id it would
\* come back with never passes over a kept event it was not handed, unless it was
\* told to fetch everything (replayLocked's complete, publish's ending of a feed).
StreamHasNoHole == \A c \in Streams : NoHole(c)

\* What waits for a stream is in order and after everything it has had of this run,
\* replayed or live: publish numbers and queues under one lock, and the replay is
\* taken under the lock that registers the feed.  A frame out of place would be
\* shown twice, or take the client's id back.
QueueAscends ==
    \A c \in Streams :
        /\ \A i, j \in DOMAIN feed[c] : i < j => feed[c][i] < feed[c][j]
        /\ at[c] = epoch => \A i \in DOMAIN feed[c] : last[c] < feed[c][i]

\* A poller's cursor never goes back within a run, and what it is shown is after
\* the cursor it came with: nothing is answered twice.
CursorAscends ==
    [][\A c \in Pollers : at[c] = epoch /\ at'[c] = epoch' /\ epoch' = epoch =>
         /\ last[c] <= last'[c]
         /\ seen'[c] # seen[c] /\ seen'[c] # {} => last[c] < last'[c]]_vars

\* What c has fetched and been handed is everything it is owed by now.
Current(c) ==
    /\ base[c].epoch = epoch
    /\ \A n \in (base[c].id + 1)..Latest : Owed(c, n) => n \in seen[c]

\* A stream that waits on an empty queue is up to date: whatever was published
\* while it was away was replayed, or it was told.
IdleIsCurrent ==
    \A c \in Streams :
        conn[c] = "on" /\ ~resync[c] /\ feed[c] = <<>> => Current(c)

\* A client that is cut off for falling behind, or loses the controller, is
\* brought up to date in the end, if its connection is not broken for ever.
StreamCatchesUp ==
    \A c \in Streams :
        <>[][~Break(c)]_vars => (at[c] # 0 ~> Current(c))

\* Nor does a poller's cursor, as long as the ring has the event: "Reading again,
\* now that it is registered, closes that gap".  It cannot be said without the ring:
\* one that turns over between the two reads takes an event with it, and the answer
\* to a wait keeps the first read's word that nothing is missing.
PollerMissesOnlyLost ==
    \A c \in Pollers : at[c] = epoch =>
        /\ base[c].epoch = epoch
        /\ \A n \in RangeOf(ring) :
              base[c].id < n /\ n <= last[c] /\ Owed(c, n) => n \in seen[c]

\* A frame that is not kept is for the connections there are: "true of the tabs
\* open now and of none that opens afterwards, which is already loading everything".
\* So no client's id passes over one that the client has not been handed.  The
\* code does not keep this for a client that resumes (README, section 6).
TransientReaches ==
    \A c \in Streams : at[c] = epoch =>
        \A n \in (base[c].id + 1)..last[c] :
            log[n].topic \in matches[c] \cap readable[c] => n \in seen[c]
=============================================================================
