--------------------------- MODULE ControllerLease ---------------------------
(***************************************************************************)
(* One controller per database (cmd/zoomies/controller.go, internal/store/ *)
(* queries_lease.go, internal/controller/lease.go).  A process takes a file*)
(* lock on its own machine, then the lease row in the database, and renews *)
(* the row on a timer.  mayAct, which every change to the fleet asks first,*)
(* compares the clock with the last renewal the process knows of.          *)
(*                                                                         *)
(* Times are counted in ticks of one clock that all processes read; the    *)
(* row keeps a time rounded down to a multiple of Grain ticks (ms() keeps  *)
(* milliseconds), the process keeps it exactly.  The lease is a whole      *)
(* number of the column's units (90 seconds).                              *)
(*                                                                         *)
(* A renewal is three steps: the process reads the clock, its transaction  *)
(* stamps the row or finds another holder, and the process takes note.     *)
(* Between them it may be paused for any time.                             *)
(***************************************************************************)
EXTENDS Integers

CONSTANTS Controllers,   \* process starts; each mints its own holder name
          Machines,      \* where a file lock excludes another process
          Hostnames,
          machineOf,
          hostOf,        \* os.Hostname of the process
          Nobody,        \* there is no lease row
          LeaseTTL,
          Grain,         \* ticks per unit of the renewed_at column
          MaxTime        \* bound on the clock

ASSUME LeaseAssumption ==
    /\ machineOf \in [Controllers -> Machines]
    /\ hostOf \in [Controllers -> Hostnames]
    /\ Nobody \notin Controllers
    /\ LeaseTTL \in Nat \ {0}
    /\ Grain \in Nat \ {0}
    /\ LeaseTTL % Grain = 0
    /\ MaxTime \in Nat

\* AcquireControllerLease takes a lease of its own host name for the lease of a
\* dead process: machines that share the database do not share a host name.
ASSUME HostnameAssumption ==
    \A c, d \in Controllers : hostOf[c] = hostOf[d] => machineOf[c] = machineOf[d]

VARIABLES
    now,
    proc,        \* "new", "locked" (holds the file lock), "running", "stopping", "gone"
    row,         \* the controller_lease row: its holder, renewed_at and acquired_at
    renewed,     \* leaseRenewed, or the lease's RenewedAt before the first renewal
    renewal,     \* leaseLoop's renewal under way and the time it read before it
    lost,        \* leaseLost is set
    fenced,      \* the fence this process loaded at its start
    overridden,  \* history: processes whose live lease a --takeover start took
    lostAt       \* history: when another process took the row of this one

memory == <<renewed, renewal, lost, fenced>>
vars == <<now, proc, row, renewed, renewal, lost, fenced, overridden, lostAt>>

-----------------------------------------------------------------------------
\* ms, and Truncate(time.Millisecond).
ms(t) == t - (t % Grain)

\* Faulty variant: a lease is taken for dead one tick before it ends.
StaleEarly == row.holder = Nobody \/ now + 1 >= row.renewed + LeaseTTL

\* ControllerLease.Stale of the row; no row is stale.
Stale == row.holder = Nobody \/ now >= row.renewed + LeaseTTL

\* Faulty variant: any holder is taken for a dead process of this host.
oursAnyHost(c) == row.holder # Nobody /\ row.holder # c

\* AcquireControllerLease's "ours": the lock rules out a live process there.
ours(c) == row.holder # Nobody /\ hostOf[row.holder] = hostOf[c]

\* The process holds its machine's file lock.
Alive(c) == proc[c] \in {"locked", "running", "stopping"}

\* Controller.mayAct.
mayAct(c) ==
    /\ proc[c] = "running"
    /\ ~fenced[c]
    /\ ~lost[c]
    /\ now < renewed[c] + LeaseTTL

Time == 0..MaxTime
NoRow == [holder |-> Nobody, renewed |-> 0, acquired |-> 0]
NoRenewal == [pc |-> "idle", at |-> 0]

TypeOK ==
    /\ now \in Time
    /\ proc \in [Controllers -> {"new", "locked", "running", "stopping", "gone"}]
    /\ row \in [holder : Controllers \cup {Nobody}, renewed : Time, acquired : Time]
    /\ renewed \in [Controllers -> Time]
    /\ renewal \in [Controllers -> [pc : {"idle", "begun", "stamped", "refused"}, at : Time]]
    /\ lost \in [Controllers -> BOOLEAN]
    /\ fenced \in [Controllers -> BOOLEAN]
    /\ overridden \in SUBSET Controllers
    /\ lostAt \in [Controllers -> Time]

Init ==
    /\ now = 0
    /\ proc = [c \in Controllers |-> "new"]
    /\ row = NoRow
    /\ renewed = [c \in Controllers |-> 0]
    /\ renewal = [c \in Controllers |-> NoRenewal]
    /\ lost = [c \in Controllers |-> FALSE]
    /\ fenced = [c \in Controllers |-> FALSE]
    /\ overridden = {}
    /\ lostAt = [c \in Controllers |-> 0]

-----------------------------------------------------------------------------
Tick ==
    /\ now < MaxTime
    /\ now' = now + 1
    /\ UNCHANGED <<proc, row, memory, overridden, lostAt>>

\* store.Lock: refused to a second process of the machine, which then exits.
Lock(c) ==
    /\ proc[c] = "new"
    /\ proc' = [proc EXCEPT ![c] =
         IF \E d \in Controllers : Alive(d) /\ machineOf[d] = machineOf[c]
         THEN "gone" ELSE "locked"]
    /\ UNCHANGED <<now, row, memory, overridden, lostAt>>

\* takeControllerLease succeeds, and Start loads the fence.
AcquireControllerLease(c, takeover, fence) ==
    /\ proc[c] = "locked"
    /\ takeover \/ ours(c) \/ Stale
    /\ row' = [holder |-> c, renewed |-> ms(now), acquired |-> ms(now)]
    /\ proc' = [proc EXCEPT ![c] = "running"]
    /\ renewed' = [renewed EXCEPT ![c] = ms(now)]
    /\ fenced' = [fenced EXCEPT ![c] = fence]
    /\ overridden' = IF ours(c) \/ Stale THEN overridden
                                         ELSE overridden \cup {row.holder}
    /\ lostAt' = [d \in Controllers |->
         IF d = row.holder /\ proc[d] = "running" THEN now ELSE lostAt[d]]
    /\ UNCHANGED <<now, renewal, lost>>

\* It is refused: the process says who holds the database and exits.
RefuseLease(c) ==
    /\ proc[c] = "locked"
    /\ ~ours(c) /\ ~Stale
    /\ proc' = [proc EXCEPT ![c] = "gone"]
    /\ UNCHANGED <<now, row, memory, overridden, lostAt>>

\* leaseLoop reads the clock before the transaction ...
RenewBegin(c) ==
    /\ proc[c] = "running" /\ renewal[c].pc = "idle"
    /\ renewal' = [renewal EXCEPT ![c] = [pc |-> "begun", at |-> now]]
    /\ UNCHANGED <<now, proc, row, renewed, lost, fenced, overridden, lostAt>>

\* Faulty variant: the row's holder is not compared before it is stamped.
RenewUnchecked(c) ==
    /\ proc[c] = "running" /\ renewal[c].pc = "begun"
    /\ row' = [row EXCEPT !.renewed = ms(now)]
    /\ renewal' = [renewal EXCEPT ![c].pc = "stamped"]
    /\ UNCHANGED <<now, proc, renewed, lost, fenced, overridden, lostAt>>

\* ... RenewControllerLease stamps the row if it is still this holder's ...
RenewControllerLease(c) ==
    /\ proc[c] = "running" /\ renewal[c].pc = "begun"
    /\ \/ /\ row.holder = c
          /\ row' = [row EXCEPT !.renewed = ms(now)]
          /\ renewal' = [renewal EXCEPT ![c].pc = "stamped"]
       \/ /\ row.holder # c
          /\ renewal' = [renewal EXCEPT ![c].pc = "refused"]
          /\ UNCHANGED row
    /\ UNCHANGED <<now, proc, renewed, lost, fenced, overridden, lostAt>>

\* ... unless the write fails, which costs this renewal only; ...
RenewFails(c) ==
    /\ proc[c] = "running" /\ renewal[c].pc = "begun"
    /\ renewal' = [renewal EXCEPT ![c] = NoRenewal]
    /\ UNCHANGED <<now, proc, row, renewed, lost, fenced, overridden, lostAt>>

\* ... and the loop stores what the transaction answered, in leaseRenewed the
\* time it read before it.  The row may have another holder by then.
NoteRenewal(c) ==
    /\ proc[c] = "running"
    /\ \/ /\ renewal[c].pc = "stamped"
          /\ renewed' = [renewed EXCEPT ![c] = renewal[c].at]
          /\ UNCHANGED lost
       \/ /\ renewal[c].pc = "refused"
          /\ lost' = [lost EXCEPT ![c] = TRUE]
          /\ UNCHANGED renewed
    /\ renewal' = [renewal EXCEPT ![c] = NoRenewal]
    /\ UNCHANGED <<now, proc, row, fenced, overridden, lostAt>>

Unfence(c) ==
    /\ proc[c] = "running" /\ fenced[c]
    /\ fenced' = [fenced EXCEPT ![c] = FALSE]
    /\ UNCHANGED <<now, proc, row, renewed, renewal, lost, overridden, lostAt>>

\* What the controller knows goes with its loops.
Forget(c) ==
    /\ renewed' = [renewed EXCEPT ![c] = 0]
    /\ renewal' = [renewal EXCEPT ![c] = NoRenewal]
    /\ lost' = [lost EXCEPT ![c] = FALSE]
    /\ fenced' = [fenced EXCEPT ![c] = FALSE]
    /\ lostAt' = [lostAt EXCEPT ![c] = 0]

\* A clean stop: Controller.Stop has ended the loops.  The process still has
\* its lock and the row.
Stop(c) ==
    /\ proc[c] = "running"
    /\ proc' = [proc EXCEPT ![c] = "stopping"]
    /\ Forget(c)
    /\ UNCHANGED <<now, row, overridden>>

\* ReleaseControllerLease drops the row if it is still ours, or the write
\* fails; then the process unlocks and exits.
ReleaseControllerLease(c) ==
    /\ proc[c] = "stopping"
    /\ proc' = [proc EXCEPT ![c] = "gone"]
    /\ \/ row' = IF row.holder = c THEN NoRow ELSE row
       \/ UNCHANGED row
    /\ UNCHANGED <<now, memory, overridden, lostAt>>

\* The process is killed.
Crash(c) ==
    /\ Alive(c)
    /\ proc' = [proc EXCEPT ![c] = "gone"]
    /\ Forget(c)
    /\ UNCHANGED <<now, row, overridden>>

Next ==
    \/ Tick
    \/ \E c \in Controllers :
         \/ Lock(c)
         \/ \E takeover, fence \in BOOLEAN : AcquireControllerLease(c, takeover, fence)
         \/ RefuseLease(c)
         \/ RenewBegin(c)
         \/ RenewControllerLease(c)
         \/ RenewFails(c)
         \/ NoteRenewal(c)
         \/ Unfence(c)
         \/ Stop(c)
         \/ ReleaseControllerLease(c)
         \/ Crash(c)

Spec == Init /\ [][Next]_vars

-----------------------------------------------------------------------------
\* A process that no longer holds the row, and lost it to nobody's --takeover,
\* acts on only through what rounding the row's time down has cost it: less
\* than one unit of the column.
SupersededStops ==
    \A c \in Controllers \ overridden :
        mayAct(c) /\ row.holder # c => renewed[c] + LeaseTTL - now < Grain

\* What the lease is for: whatever pauses, crashes, restarts and failed renewals
\* happen, unless an operator took a live lease over, two controllers both act
\* only within the very unit of the column (a millisecond) in which one of them
\* acquired the row from the other.  mayAct compares exact times and Stale the
\* rounded ones, and this overlap is all that costs.
OneControllerActs ==
    \A c, d \in Controllers \ overridden :
        mayAct(c) /\ mayAct(d) /\ c # d =>
            row.holder \in {c, d} /\ row.acquired = ms(now)

\* A taken-over controller is not left acting for good, whether an operator or a
\* rival took its row, and even if the renewal it was in the middle of is noted
\* only afterwards: it acts for less than one TTL from the moment of the loss.
LossBoundsActing ==
    \A c \in Controllers :
        mayAct(c) /\ row.holder # c => now < lostAt[c] + LeaseTTL

=============================================================================
