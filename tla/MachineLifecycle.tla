--------------------------- MODULE MachineLifecycle ---------------------------
(***************************************************************************)
(* One rented machine: the row that is written before its resource exists, *)
(* the provider that may build the resource, and everybody who moves the   *)
(* two.  The machine pass runs under machineRuntime.mu but decides on a    *)
(* snapshot; a step that talks to the provider runs in a goroutine that    *)
(* outlives its pass and works on a copy of the row; the ownership sweep   *)
(* lists the provider outside the lock and applies what it saw under it;   *)
(* and the operator's requests take no lock at all.                        *)
(*                                                                         *)
(* Sources: internal/controller/machines.go, machinerecovery.go and        *)
(* machineenrol.go, internal/store/machines.go and queries_machines.go,    *)
(* internal/api/handlers_machines.go.                                      *)
(*                                                                         *)
(* Left out: the other rows (they meet this one in the unique index on the *)
(* identity and in the ceilings of the demand calculation), the wording,   *)
(* the addresses and the timeline, the breaker, providers that carry the   *)
(* payload inside the create, and a join whose link to the machine is lost *)
(* (the machine loop links it later).  Time is abstract: a claim's         *)
(* deadline, a phase's timeout and a backoff pass at any moment.  The      *)
(* write that ends a step's operation is one action with the write before  *)
(* it; a deletion's three writes and an operator's two are an action each. *)
(***************************************************************************)
EXTENDS Naturals

CONSTANTS
  Ids,          \* the identities the provider can allocate
  NoId,         \* resource_id = ''
  Slots,        \* how many steps one provider runs at once (4 in the code)
  MaxAttempts,  \* machineMaxAttempts
  MaxOps,       \* bound: operation ids that can be in use at one moment
  MaxEvents     \* bound: how often the world may interfere (see Interferes)

ASSUME MachineAssumption ==
  /\ NoId \notin Ids
  /\ MaxAttempts \in Nat \ {0}
  /\ MaxOps \in Nat
  /\ MaxEvents \in Nat

VARIABLES
  row,    \* the row of the machines table; st = "none" once it is forgotten
  host,   \* the host this machine's agent enrolled: none, open or cordoned
  busy,   \* a live runner that nobody has given up is on that host
  cloud,  \* what stands at each identity in the provider
  steps,  \* runMachineStep goroutines, by slot
  pass,   \* the pass that holds machineRuntime.mu, and its snapshot
  sweep,  \* sweepProvider, outside the lock until it applies its listing
  asked,  \* an operator's request under way
  events  \* how often the world has interfered

vars == <<row, host, busy, cloud, steps, pass, sweep, asked, events>>

MachineState ==
  {"planned", "creating", "starting", "bootstrapping", "enrolling", "ready",
   "draining", "deleting", "deleted", "failed", "quarantined"}
MachineOpKind == {"", "create", "start", "bootstrap", "delete"}
\* What the provider has at an identity.  "accepted" is a create it has taken
\* and cannot answer about yet; "foreign" is somebody else's machine.
Phase == {"free", "accepted", "creating", "stopped", "running", "deleting", "foreign"}
Ours == Phase \ {"free", "foreign"}

RowType ==
  [st : MachineState \cup {"none"}, res : Ids \cup {NoId}, op : 0..MaxOps,
   kind : MachineOpKind, live : BOOLEAN, handle : BOOLEAN, unknown : BOOLEAN,
   att : 0..MaxAttempts, gone : BOOLEAN, tok : {"none", "minted", "spent"}]

PlannedRow ==
  [st |-> "planned", res |-> NoId, op |-> 0, kind |-> "", live |-> FALSE,
   handle |-> FALSE, unknown |-> FALSE, att |-> 0, gone |-> FALSE,
   tok |-> "none"]
NoRow == [PlannedRow EXCEPT !.st = "none"]

\* The columns that code working on an older copy of the row looks at.
CopyType ==
  [st : MachineState \cup {"none"}, res : Ids \cup {NoId}, op : 0..MaxOps,
   handle : BOOLEAN, unknown : BOOLEAN, att : 0..MaxAttempts]
Copy(r) == [st |-> r.st, res |-> r.res, op |-> r.op, handle |-> r.handle,
            unknown |-> r.unknown, att |-> r.att]

\* A goroutine: its copy of the row, the operation it was started for, and the
\* identity it has chosen.  At "named" the identity is on the row; at "call" it
\* has decided and its request is not out; at "stamped" it has written deleted_at
\* and at "again" found it written; at "host" the host is still to be removed.
StepType ==
  [pc : {"idle", "go", "setres", "named", "call", "stamped", "again", "host"},
   m : CopyType, op : 0..MaxOps, ref : Ids \cup {NoId}]
Idle == [pc |-> "idle", m |-> Copy(NoRow), op |-> 0, ref |-> NoId]

\* on is the kind of the claim that was live when the pass took its snapshot,
\* live whether a runner was on the host then; same says that the row's
\* updated_at is still the one that was read.
PassType == [pc : {"idle", "plan", "revive", "step"}, m : CopyType,
             on : MachineOpKind, live : BOOLEAN, same : BOOLEAN]
NoPass == [pc |-> "idle", m |-> Copy(NoRow), on |-> "", live |-> FALSE, same |-> FALSE]
\* From "settle" on, the sweep has the lock and settles a row it found gone.
SweepType ==
  [pc : {"idle", "list", "apply", "settle", "stamped", "host"}, ans : Phase, same : BOOLEAN]
NoSweep == [pc |-> "idle", ans |-> "free", same |-> FALSE]
\* A request that was let in, the host it still has to cordon, and where it moves
\* the row then.
AskedType == [pc : {"idle", "cordon", "move"}, to : {"draining", "deleting"}]
NotAsked == [pc |-> "idle", to |-> "draining"]

TypeOK ==
  /\ row \in RowType
  /\ host \in {"none", "open", "cordoned"}
  /\ busy \in BOOLEAN
  /\ cloud \in [Ids -> Phase]
  /\ steps \in [Slots -> StepType]
  /\ pass \in PassType
  /\ sweep \in SweepType
  /\ asked \in AskedType
  /\ events \in 0..MaxEvents

\* reserveMachines has written the row; nothing has been asked of the provider.
Init ==
  /\ row = PlannedRow
  /\ host = "none"
  /\ busy = FALSE
  /\ cloud = [i \in Ids |-> "free"]
  /\ steps = [k \in Slots |-> Idle]
  /\ pass = NoPass
  /\ sweep = NoSweep
  /\ asked = NotAsked
  /\ events = 0

\* What the fleet's own steps and passes do is not counted: only operators,
\* sweeps, deadlines, crashes, resources lost or taken at the provider, and a
\* step begun while another is still running.
Interferes == events < MaxEvents /\ events' = events + 1

-----------------------------------------------------------------------------
(* The store: each operator is one statement's effect on the row.          *)

validMachineTransitions ==
  [s \in MachineState |->
     CASE s = "planned"       -> {"creating", "failed", "deleted", "quarantined"}
       [] s = "creating"      -> {"starting", "bootstrapping", "deleting", "failed", "quarantined"}
       [] s = "starting"      -> {"bootstrapping", "deleting", "failed", "quarantined"}
       [] s = "bootstrapping" -> {"enrolling", "deleting", "failed", "quarantined"}
       [] s = "enrolling"     -> {"ready", "deleting", "failed", "quarantined"}
       [] s = "ready"         -> {"draining", "deleting", "failed", "quarantined"}
       [] s = "draining"      -> {"ready", "deleting", "failed", "quarantined"}
       [] s = "deleting"      -> {"deleted", "quarantined"}
       [] s = "deleted"       -> {}
       [] s = "failed"        -> {"deleting", "deleted", "quarantined"}
       [] s = "quarantined"   -> {"deleting", "deleted"}]

CanTransitionMachine(from, to) ==
  from # "none" /\ (from = to \/ to \in validMachineTransitions[from])

\* transitionMachine: a refused move is logged and the caller carries on.
TransitionMachine(r, to) ==
  IF CanTransitionMachine(r.st, to) THEN [r EXCEPT !.st = to] ELSE r

\* Variant: without "AND resource_id=''".
CanMoveResource(r) == r.st # "none"

CanSetMachineResource(r) == r.st # "none" /\ r.res = NoId

\* The claim keeps op_handle and op_outcome_unknown: the only evidence of what
\* the previous holder's call did.
CanClaim(r) == r.st # "none" /\ (r.op = 0 \/ ~r.live)
ClaimMachineOperation(r, id, kind) ==
  [r EXCEPT !.op = id, !.kind = kind, !.live = TRUE]

\* attempts is capped at MaxAttempts; past it the code only compares.
FinishMachineOperation(r, id, out) ==
  IF r.st = "none" \/ r.op # id THEN r
  ELSE [r EXCEPT !.op = 0, !.kind = "", !.live = FALSE, !.handle = FALSE,
                 !.unknown = FALSE,
                 !.att = CASE out = "succeeded" -> 0
                           [] out = "released"  -> @
                           [] OTHER -> IF @ < MaxAttempts THEN @ + 1 ELSE @]

RecordMachineFailure(r) ==
  IF r.st = "none" \/ r.att = MaxAttempts THEN r ELSE [r EXCEPT !.att = @ + 1]

ConfirmMachineDeleted(r) == IF r.st = "none" THEN r ELSE [r EXCEPT !.gone = TRUE]

\* Every write that stamps updated_at is seen by a sweep or a pass that
\* compares or works on an older copy of the row.
Stamped(x) == [x EXCEPT !.same = FALSE]

machineOperationFor(st) ==
  CASE st \in {"planned", "creating"} -> "create"
    [] st = "starting" -> "start"
    [] st = "bootstrapping" -> "bootstrap"
    [] st = "deleting" -> "delete"
    [] OTHER -> ""

-----------------------------------------------------------------------------
(* A step: runMachineStep in slot k, from the claim to its outcome.        *)

cordoned(h) == IF h = "none" THEN "none" ELSE "cordoned"

Stamp == pass' = Stamped(pass) /\ sweep' = Stamped(sweep)
Ends(k) == steps' = [steps EXCEPT ![k] = Idle]
Goes(k, to) == steps' = [steps EXCEPT ![k] = to]

\* errMachineWaiting: nothing is written, and the claim carries the handle on.
Waits(k) == Ends(k) /\ UNCHANGED <<row, host, busy, pass, sweep>>
\* The step goes on with its copy; the request is the next action.
Decides(k) ==
  /\ Goes(k, [steps[k] EXCEPT !.pc = "call", !.ref = steps[k].m.res])
  /\ UNCHANGED <<row, host, busy, pass, sweep>>

\* The step wrote r; the operation it was started for ends with this outcome.
Settles(k, r, out) ==
  /\ row' = FinishMachineOperation(r, steps[k].op, out)
  /\ Stamp /\ Ends(k)

Succeeds(k, r) == Settles(k, r, "succeeded") /\ UNCHANGED <<host, busy>>
Released(k) == Settles(k, row, "released") /\ UNCHANGED <<host, busy>>

\* recordMachineFailure gives up on what cannot be retried and on the last
\* attempt, counted on the step's own copy of the row.
Fails(k, r, retryable) ==
  /\ LET given == FinishMachineOperation(r, steps[k].op, "failed")
     IN row' = IF ~retryable \/ steps[k].m.att + 1 >= MaxAttempts
               THEN TransitionMachine(given, "failed") ELSE given
  /\ Stamp /\ Ends(k)
  /\ UNCHANGED <<host, busy>>

\* quarantineMachine answers nil, so the operation counts as a success.
Quarantines(k) ==
  /\ host' = cordoned(host)
  /\ Settles(k, TransitionMachine(row, "quarantined"), "succeeded")
  /\ UNCHANGED busy

\* Variant: the row is moved before the confirmation is on it.
MovesFirst(k) ==
  /\ row' = TransitionMachine(row, "deleted") /\ Stamp
  /\ Goes(k, [Idle EXCEPT !.pc = "stamped", !.op = steps[k].op])
  /\ UNCHANGED <<host, busy>>

\* confirmDeleted stamps the row, unless that write fails.  Who stamped it first
\* is the one to take the host.
Confirms(k) ==
  LET first == row.st # "none" /\ ~row.gone
  IN /\ row' = ConfirmMachineDeleted(row)
     /\ IF first THEN Stamp ELSE UNCHANGED <<pass, sweep>>
     /\ Goes(k, [Idle EXCEPT !.pc = IF first THEN "stamped" ELSE "again", !.op = steps[k].op])
     /\ UNCHANGED <<host, busy>>

\* The row moves; a write that is refused or fails is logged, and the step goes on.
StepMoveDeleted(k) ==
  /\ \/ /\ steps[k].pc = "stamped"
        /\ \/ row' = TransitionMachine(row, "deleted") /\ Stamp
           \/ UNCHANGED <<row, pass, sweep>>
        /\ Goes(k, [steps[k] EXCEPT !.pc = "host"])
        /\ UNCHANGED <<host, busy>>
     \/ /\ steps[k].pc = "again"
        /\ Succeeds(k, TransitionMachine(row, "deleted")) \/ Succeeds(k, row)
  /\ UNCHANGED cloud

\* The host row goes, with the runners on it, unless that fails.
HostGoes ==
  \/ host' = "none" /\ busy' = FALSE
  \/ UNCHANGED <<host, busy>>

StepDeleteHost(k) ==
  /\ steps[k].pc = "host"
  /\ HostGoes
  /\ Settles(k, row, "succeeded")
  /\ UNCHANGED cloud

\* A step whose controller may no longer act is settled as a failure of a
\* kind nothing retries.
StepMayNotAct(k) == steps[k].pc = "go" /\ Fails(k, row, FALSE) /\ UNCHANGED cloud

\* stepPlanned, up to the identity: provisioningHeld, Allocate.
StepAllocate(k) ==
  LET s == steps[k] IN
  /\ s.pc = "go" /\ s.m.st = "planned"
  /\ \/ Released(k)
     \/ \E retryable \in BOOLEAN : Fails(k, row, retryable)
     \/ \E i \in Ids :
          /\ cloud[i] \in {"free", "accepted"}
          /\ Goes(k, [s EXCEPT !.pc = "setres", !.ref = i])
          /\ UNCHANGED <<row, host, busy, pass, sweep>>
  /\ UNCHANGED cloud

\* stepPlanned, the identity: on the row before anything exists to lose.  A row
\* that already names one refuses, and that error is retried by nobody.
StepSetResource(k) ==
  LET s == steps[k] IN
  /\ s.pc = "setres"
  /\ \/ /\ CanSetMachineResource(row)
        /\ row' = [row EXCEPT !.res = s.ref]
        /\ Goes(k, [s EXCEPT !.pc = "named"])
        /\ Stamp
        /\ UNCHANGED <<host, busy>>
     \/ ~CanSetMachineResource(row) /\ Fails(k, row, FALSE)
  /\ UNCHANGED cloud

\* Then the row moves, if it still may, and the step's copy with it.
StepMoveCreating(k) ==
  LET s == steps[k] IN
  /\ s.pc = "named"
  /\ row' = TransitionMachine(row, "creating")
  /\ Goes(k, [s EXCEPT !.pc = "call",
               !.m = IF CanTransitionMachine(row.st, "creating") THEN Copy(row') ELSE @])
  /\ Stamp
  /\ UNCHANGED <<host, busy, cloud>>

\* What a request does at the provider when it is carried out: one identity is
\* one machine however often a create for it arrives, and a delete is accepted.
Carried(st, p) ==
  CASE st \in {"planned", "creating"} /\ p = "free" -> {"accepted", "creating"}
    [] st = "starting" /\ p = "stopped" -> {"running"}
    [] st = "deleting" /\ p # "free" -> {"deleting"}
    [] OTHER -> {p}

\* SetMachineOperationHandle and MarkMachineOutcomeUnknown: of the operation
\* the step's copy names, if the row is still doing it.
Holds(s) == row.st # "none" /\ row.op = s.m.op
Handled(s) == IF Holds(s) THEN [row EXCEPT !.handle = TRUE] ELSE row
Unheard(s) == IF Holds(s) THEN [row EXCEPT !.unknown = TRUE] ELSE row

\* A handle is kept for the next pass; silence is recorded and left to be looked
\* into; and only a create or a bootstrap with nothing to follow is a success.
Keeps(k) ==
  row' = Handled(steps[k]) /\ Ends(k) /\ UNCHANGED <<host, busy, pass, sweep>>
Unsure(k) ==
  /\ row' = Unheard(steps[k])
  /\ IF Holds(steps[k]) THEN Stamp ELSE UNCHANGED <<pass, sweep>>
  /\ Ends(k) /\ UNCHANGED <<host, busy>>

\* The request goes out and is answered, refused, or its answer is lost whether
\* or not it was carried out; Waits is also a controller killed before it could
\* write the answer down.  A create at an identity somebody else has taken
\* meanwhile is not carried out.
StepCall(k) ==
  LET s == steps[k]
      creates == s.m.st \in {"planned", "creating"}
      p == cloud[s.ref]
  IN
  /\ s.pc = "call"
  /\ \/ /\ ~(creates /\ p = "foreign")
        /\ \E q \in Carried(s.m.st, p) : cloud' = [cloud EXCEPT ![s.ref] = q]
        /\ \/ Keeps(k) \/ Unsure(k) \/ Waits(k)
           \/ creates /\ Succeeds(k, row)
     \/ /\ \/ Unsure(k)
           \/ \E retryable \in BOOLEAN : Fails(k, row, retryable)
        /\ UNCHANGED cloud

\* stepCreating, stepStarting and stepDeleting ask before they act, about the
\* handle if one is held and then about the resource.
StepPoll(k) ==
  LET s == steps[k] IN
  /\ s.pc = "go" /\ s.m.handle
  /\ s.m.st \in {"creating", "starting", "deleting"}
  /\ s.m.st = "creating" => ~s.m.unknown
  /\ Waits(k) \/ Fails(k, row, TRUE)
  /\ UNCHANGED cloud

\* What Inspect and List can see: a create just accepted is not there yet.
Seen(i) == IF cloud[i] = "accepted" THEN "free" ELSE cloud[i]

\* The answer settles the step without another request ...
Looked(k) == steps[k].pc = "go" /\ steps[k].m.res # NoId
StepLook(k) ==
  LET s == steps[k]
      seen == Seen(s.m.res)
  IN
  /\ Looked(k) /\ s.m.st \in {"creating", "starting", "deleting"}
  /\ \/ \E retryable \in BOOLEAN : Fails(k, row, retryable)     \* Inspect failed
     \/ seen = "foreign" /\ Quarantines(k)
     \/ seen # "foreign" /\ seen # "free" /\ Waits(k)           \* locked, unknown
  /\ UNCHANGED cloud

\* ... resolveByInspection and resolveMissing: past the ambiguity timeout it is a
\* person's, and one absence is not evidence that nothing was created.
StepLookCreating(k) ==
  LET s == steps[k]
      seen == Seen(s.m.res)
  IN
  /\ Looked(k) /\ s.m.st = "creating"
  /\ \/ seen = "free" /\ Quarantines(k)
     \/ seen = "free" /\ s.m.att = 0 /\ Fails(k, row, TRUE)
     \/ seen = "free" /\ s.m.att > 0 /\ (Released(k) \/ Decides(k))
     \/ seen = "running" /\ Succeeds(k, TransitionMachine(row, "bootstrapping"))
     \/ seen = "stopped" /\ Succeeds(k, TransitionMachine(row, "starting"))
  /\ UNCHANGED cloud

StepLookStarting(k) ==
  LET s == steps[k]
      seen == Seen(s.m.res)
  IN
  /\ Looked(k) /\ s.m.st = "starting"
  /\ \/ seen = "free" /\ Fails(k, row, TRUE)
     \/ seen = "running" /\ Succeeds(k, TransitionMachine(row, "bootstrapping"))
     \/ seen = "stopped" /\ (Released(k) \/ Decides(k))
  /\ UNCHANGED cloud

\* Only an absence confirms a delete; one already issued whose resource is still
\* there gives the claim back.
StepLookDeleting(k) ==
  LET s == steps[k]
      seen == Seen(s.m.res)
  IN
  /\ Looked(k) /\ s.m.st = "deleting"
  /\ \/ seen = "free" /\ (Confirms(k) \/ Fails(k, row, FALSE))
     \/ seen \in Ours /\ s.m.handle /\ Succeeds(k, row)
     \/ seen \in Ours /\ ~s.m.handle /\ (Released(k) \/ Decides(k))
  /\ UNCHANGED cloud

\* stepDeleting of a row that never named a resource.
StepNothingToDelete(k) ==
  /\ steps[k].pc = "go" /\ steps[k].m.st = "deleting" /\ steps[k].m.res = NoId
  /\ Confirms(k) \/ Fails(k, row, FALSE)
  /\ UNCHANGED cloud

\* machineJoinToken mints the token whatever becomes of the payload that carries
\* it, and the answer to the push is any of a request's.
Minted(r) == IF r.st = "none" THEN r ELSE [r EXCEPT !.tok = "minted"]
Pushes(k) ==
  LET s == steps[k]
      held == Holds(s)
      minted == Minted(row)
  IN
  /\ \/ Succeeds(k, TransitionMachine(minted, "enrolling"))
     \/ \E retryable \in BOOLEAN : Fails(k, minted, retryable)
     \/ /\ row' \in {minted} \cup
             (IF held THEN {[minted EXCEPT !.handle = TRUE], [minted EXCEPT !.unknown = TRUE]}
              ELSE {})
        /\ Stamp /\ Ends(k)
        /\ UNCHANGED <<host, busy>>

\* stepBootstrapping: the handle of a bootstrap under way and a token already
\* spent are looked at first; otherwise a token is minted and the payload pushed.
StepBootstrap(k) ==
  LET s == steps[k] IN
  /\ s.pc = "go" /\ s.m.st = "bootstrapping"
  /\ \/ s.m.handle /\ Waits(k)
     \/ s.m.handle /\ Fails(k, RecordMachineFailure(row), TRUE)
     \/ (s.m.handle \/ row.tok = "spent")
          /\ Succeeds(k, TransitionMachine(row, "enrolling"))
     \/ row.tok # "spent" /\ Released(k)
     \/ row.tok # "spent" /\ Pushes(k)
  /\ UNCHANGED cloud

Step(k) ==
  /\ \/ StepMayNotAct(k) \/ StepAllocate(k) \/ StepSetResource(k) \/ StepMoveCreating(k)
     \/ StepCall(k) \/ StepPoll(k) \/ StepLook(k) \/ StepLookCreating(k)
     \/ StepLookStarting(k) \/ StepLookDeleting(k) \/ StepNothingToDelete(k)
     \/ StepMoveDeleted(k) \/ StepDeleteHost(k) \/ StepBootstrap(k)
  /\ UNCHANGED <<asked, events>>

-----------------------------------------------------------------------------
(* The pass: ReconcileMachines under machineRuntime.mu.                    *)

PassAt(pc) == pass.pc = pc
\* Nobody holds machineRuntime.mu.
Unlocked == PassAt("idle") /\ sweep.pc \in {"idle", "list", "apply"}

\* recoverMachine's moves for a phase that has run out of time.
Overdue(r) ==
  CASE r.st = "planned" /\ r.res = NoId -> "failed"
    [] r.st \in {"creating", "starting"} /\ ~r.unknown -> "failed"
    [] r.st \in {"bootstrapping", "enrolling"} -> "failed"
    [] r.st = "deleting" /\ r.res # NoId -> "quarantined"
    [] OTHER -> r.st

Snapshot(r) ==
  [pc |-> "plan", m |-> Copy(r), on |-> IF r.live THEN r.kind ELSE "",
   live |-> busy, same |-> TRUE]

\* The snapshot, with nothing overdue.
PassBegin ==
  /\ Unlocked /\ row.st # "none"
  /\ pass' = Snapshot(row)
  /\ UNCHANGED <<row, host, busy, cloud, steps, sweep>>

\* The snapshot and recoverMachine, which works on the pass's own copy: a late
\* phase is failed, with a failure counted unless nothing was ever asked for,
\* and a late delete is handed to a person.
PassOverdue ==
  LET to == Overdue(row) IN
  /\ Unlocked /\ row.st # "none" /\ to # row.st
  /\ row' = TransitionMachine(
       IF to = "failed" /\ row.st # "planned" THEN RecordMachineFailure(row) ELSE row, to)
  /\ host' = IF to = "quarantined" THEN cordoned(host) ELSE host
  /\ pass' = Snapshot(row')
  /\ sweep' = Stamped(sweep)
  /\ UNCHANGED <<busy, cloud, steps>>

\* The pass moved the row itself, so its own copy follows when the move is
\* legal.
PassMoves(to) ==
  /\ row' = TransitionMachine(row, to)
  /\ pass' = [pass EXCEPT !.pc = "step",
              !.m = IF CanTransitionMachine(row.st, to) THEN Copy(row') ELSE @]
  /\ sweep' = Stamped(sweep)

\* sweepProviders: the pass's copy is the evidence the listing is held against.
PassSweep ==
  /\ Interferes
  /\ PassAt("plan") /\ sweep.pc = "idle"
  /\ sweep' = [pc |-> "list", ans |-> "free", same |-> pass.same]
  /\ UNCHANGED <<row, host, busy, cloud, steps, pass>>

\* beginDrain: an idle machine's host is cordoned and the row starts draining.
PassDrain ==
  /\ PassAt("plan") /\ pass.m.st = "ready" /\ ~pass.live
  /\ host' = cordoned(host)
  /\ PassMoves("draining")
  /\ UNCHANGED <<busy, cloud, steps>>

\* reviveDraining is two writes: the host is uncordoned, then the row moves.
PassUncordon ==
  /\ PassAt("plan") /\ pass.m.st = "draining"
  /\ host' = IF host = "cordoned" THEN "open" ELSE host
  /\ pass' = [pass EXCEPT !.pc = "revive"]
  /\ UNCHANGED <<row, busy, cloud, steps, sweep>>

PassRevive ==
  /\ PassAt("revive")
  /\ PassMoves("ready")
  /\ UNCHANGED <<host, busy, cloud, steps>>

\* stepMachines follows the plan, which may have asked nothing of this machine.
PassSteps == pass.pc \in {"plan", "step"}

\* stepEnrolling: the token names the host that spent it.
PassEnrol ==
  /\ PassSteps /\ pass.m.st = "enrolling" /\ row.tok = "spent"
  /\ row' = TransitionMachine(row, "ready")
  /\ pass' = NoPass /\ sweep' = Stamped(sweep)
  /\ UNCHANGED <<host, busy, cloud, steps>>

\* stepDraining: whether a runner is alive is the snapshot's word.
PassRelease ==
  /\ PassSteps /\ pass.m.st = "draining" /\ ~pass.live
  /\ row' = TransitionMachine(row, "deleting")
  /\ pass' = NoPass /\ sweep' = Stamped(sweep)
  /\ UNCHANGED <<host, busy, cloud, steps>>

\* A new operation id is one nobody holds.
InUse == {row.op, pass.m.op} \cup UNION {{steps[k].op, steps[k].m.op} : k \in Slots}
Fresh(o) == o \notin InUse /\ \A p \in 1..(o - 1) : p \in InUse

\* claimMachineStep: a live claim of this kind is carried on with, on the pass's
\* copy of the row; otherwise the store is asked for a new one and the step
\* works on the row as the claim returned it.
PassClaim(k) ==
  LET kind == machineOperationFor(pass.m.st) IN
  /\ PassSteps /\ kind # "" /\ steps[k].pc = "idle"
  /\ IF \E j \in Slots : steps[j].pc # "idle" THEN Interferes ELSE UNCHANGED events
  /\ \/ /\ pass.on = kind
        /\ Goes(k, [Idle EXCEPT !.pc = "go", !.m = pass.m, !.op = pass.m.op])
        /\ UNCHANGED <<row, sweep>>
     \/ /\ pass.on = "" /\ CanClaim(row)
        /\ \E o \in 1..MaxOps :
             /\ Fresh(o)
             /\ row' = ClaimMachineOperation(row, o, kind)
             /\ Goes(k, [Idle EXCEPT !.pc = "go", !.m = Copy(row'), !.op = o])
        /\ sweep' = Stamped(sweep)
  /\ pass' = NoPass
  /\ UNCHANGED <<host, busy, cloud>>

\* A machine that is settled, waiting out its backoff, busy with another
\* operation, or behind a full provider.
PassNoStep ==
  /\ PassSteps /\ pass' = NoPass
  /\ UNCHANGED <<row, host, busy, cloud, steps, sweep>>

-----------------------------------------------------------------------------
(* The sweep: sweepProvider.                                               *)

\* List answers for what it can see, and one that fails ends the sweep.
SweepList ==
  /\ sweep.pc = "list"
  /\ \/ /\ row.res # NoId
        /\ sweep' = [sweep EXCEPT !.pc = "apply", !.ans = Seen(row.res)]
     \/ sweep' = NoSweep
  /\ UNCHANGED <<row, host, busy, cloud, steps, pass>>

\* sweepAbsent, for a machine the fleet believes in: it vanished.
Vanished ==
  /\ row' = TransitionMachine(RecordMachineFailure(row), "failed")
  /\ host' = cordoned(host)
  /\ UNCHANGED busy

\* The listing is applied under the lock, to a row untouched since the baseline.
SweepApply ==
  LET believed == {"starting", "bootstrapping", "enrolling", "ready", "draining"}
      foreign == sweep.same /\ sweep.ans = "foreign" /\ row.st # "quarantined"
      absent == sweep.same /\ sweep.ans = "free"
  IN
  /\ sweep.pc = "apply" /\ Unlocked
  /\ \/ /\ foreign
        /\ row' = TransitionMachine(row, "quarantined")
        /\ host' = cordoned(host)
        /\ sweep' = NoSweep
        /\ UNCHANGED busy
     \/ /\ absent /\ row.st \in {"deleting", "failed"}
        /\ sweep' = [NoSweep EXCEPT !.pc = "settle"]
        /\ UNCHANGED <<row, host, busy>>
     \/ absent /\ row.st \in believed /\ Vanished /\ sweep' = NoSweep
     \/ /\ ~foreign /\ ~(absent /\ row.st \in {"deleting", "failed"} \cup believed)
        /\ sweep' = NoSweep
        /\ UNCHANGED <<row, host, busy>>
  /\ UNCHANGED <<cloud, steps, pass>>

\* settleGoneMachine: the stamp, without which nothing follows; ...
SweepStamp ==
  /\ sweep.pc = "settle"
  /\ \/ row' = ConfirmMachineDeleted(row) /\ sweep' = [sweep EXCEPT !.pc = "stamped"]
     \/ sweep' = NoSweep /\ UNCHANGED row
  /\ UNCHANGED <<host, busy, cloud, steps, pass>>

\* ... the move, which may be refused or fail; ...
SweepMove ==
  /\ sweep.pc = "stamped"
  /\ row' \in {row, TransitionMachine(row, "deleted")}
  /\ sweep' = [sweep EXCEPT !.pc = "host"]
  /\ UNCHANGED <<host, busy, cloud, steps, pass>>

\* ... and the host, whoever stamped the row first.
SweepDeleteHost ==
  /\ sweep.pc = "host"
  /\ HostGoes
  /\ sweep' = NoSweep
  /\ UNCHANGED <<row, cloud, steps, pass>>

-----------------------------------------------------------------------------
(* The operator, the agent and the world.                                  *)

\* handleDrainMachine and removeMachine look at the row and, unless forced, at the
\* runners; then they cordon the host, and then they move the row.
DrainMachine ==
  /\ Interferes
  /\ asked.pc = "idle"
  /\ row.st \in {"ready", "draining"}
  /\ asked' = [pc |-> "cordon", to |-> "draining"]
  /\ UNCHANGED <<row, host, busy, cloud, steps, pass, sweep>>

\* Without force a live runner refuses it, with force the operator gives the
\* runner up.
DeleteMachine(forced) ==
  /\ Interferes
  /\ asked.pc = "idle"
  /\ row.st \notin {"none", "quarantined", "deleted", "planned"}
  /\ forced \/ ~busy
  /\ asked' = [pc |-> "cordon", to |-> "deleting"]
  /\ busy' = FALSE
  /\ UNCHANGED <<row, host, cloud, steps, pass, sweep>>

CordonHostOf ==
  /\ asked.pc = "cordon"
  /\ host' = cordoned(host)
  /\ asked' = [asked EXCEPT !.pc = "move"]
  /\ UNCHANGED <<row, busy, cloud, steps, pass, sweep>>

\* A row that may no longer move there refuses the request; the cordon stays.
MoveAsAsked ==
  /\ asked.pc = "move"
  /\ row' = TransitionMachine(row, asked.to)
  /\ IF CanTransitionMachine(row.st, asked.to) THEN Stamp ELSE UNCHANGED <<pass, sweep>>
  /\ asked' = NotAsked
  /\ UNCHANGED <<host, busy, cloud, steps>>

\* handleReleaseMachine: the row is forgotten and nothing else is touched.
ReleaseMachine ==
  /\ Interferes
  /\ row.st # "none"
  /\ row' = NoRow
  /\ Stamp
  /\ UNCHANGED <<host, busy, cloud, steps, asked>>

\* PruneMachines.  Retention is days and a step is a minute, so none is running.
PruneMachine ==
  /\ \/ row.st = "deleted" /\ row.gone
     \/ row.st = "failed" /\ row.res = NoId
  /\ \A k \in Slots : steps[k].pc = "idle"
  /\ sweep.pc = "idle" /\ PassAt("idle") /\ asked.pc = "idle"
  /\ row' = NoRow
  /\ UNCHANGED <<host, busy, cloud, steps, pass, sweep>>

\* The agent in the guest spends its token, which enrols a host and links it.
AgentJoins ==
  /\ row.st # "none" /\ row.tok = "minted" /\ row.res # NoId
  /\ cloud[row.res] = "running"
  /\ row' = [row EXCEPT !.tok = "spent"]
  /\ host' = "open"
  /\ Stamp
  /\ UNCHANGED <<busy, cloud, steps>>

\* The scheduler sees hosts and never machines.
RunnerPlaced ==
  /\ host = "open" /\ ~busy /\ row.res # NoId /\ cloud[row.res] = "running"
  /\ busy' = TRUE
  /\ UNCHANGED <<row, host, cloud, steps, pass, sweep>>

RunnerEnds ==
  /\ busy /\ busy' = FALSE
  /\ UNCHANGED <<row, host, cloud, steps, pass, sweep>>

\* The claim's deadline passes.
ClaimExpires ==
  /\ Interferes
  /\ row.op # 0 /\ row.live
  /\ row' = [row EXCEPT !.live = FALSE]
  /\ UNCHANGED <<host, busy, cloud, steps, pass, sweep, asked>>

\* The provider carries on with what it took, or gives it up; a person may
\* destroy a machine by hand, and another tool use the identity it leaves.
Provider(i) ==
  /\ cloud' \in {[cloud EXCEPT ![i] = q] : q \in
       CASE cloud[i] = "accepted" -> {"creating", "free"}
         [] cloud[i] = "creating" -> {"stopped", "running", "free"}
         [] cloud[i] \in {"stopped", "running", "deleting"} -> {"free"}
         [] cloud[i] = "free" /\ row.res = i -> {"foreign"}
         [] OTHER -> {}}
  /\ IF cloud'[i] \in {"free", "foreign"} /\ cloud[i] # "deleting"
     THEN Interferes ELSE UNCHANGED events
  /\ UNCHANGED <<row, host, busy, steps, pass, sweep, asked>>

\* The controller is killed: the rows and the provider are all that is left.
Crash ==
  /\ Interferes
  /\ steps' = [k \in Slots |-> Idle]
  /\ pass' = NoPass /\ sweep' = NoSweep /\ asked' = NotAsked
  /\ UNCHANGED <<row, host, busy, cloud>>

Pass ==
  /\ \/ PassSweep \/ (\E k \in Slots : PassClaim(k))
     \/ /\ \/ PassBegin \/ PassOverdue \/ PassDrain \/ PassUncordon \/ PassRevive
           \/ PassEnrol \/ PassRelease \/ PassNoStep
        /\ UNCHANGED events
  /\ UNCHANGED asked

Sweep ==
  /\ SweepList \/ SweepApply \/ SweepStamp \/ SweepMove \/ SweepDeleteHost
  /\ UNCHANGED <<asked, events>>

Next ==
  \/ \E k \in Slots : Step(k)
  \/ Pass
  \/ Sweep
  \/ DrainMachine \/ (\E f \in BOOLEAN : DeleteMachine(f)) \/ ReleaseMachine
  \/ ClaimExpires \/ Crash
  \/ (\E i \in Ids : Provider(i))
  \/ (CordonHostOf \/ MoveAsAsked) /\ UNCHANGED events
  \/ /\ PruneMachine \/ AgentJoins \/ RunnerPlaced \/ RunnerEnds
     /\ UNCHANGED <<asked, events>>

Spec == Init /\ [][Next]_vars

-----------------------------------------------------------------------------

\* Every resource this fleet has asked for stands at the identity its row
\* names, whoever asked and however often: two overlapping steps, a step that
\* took over a dead controller's claim and a create issued again after silence
\* never rent a second machine for one reservation.
OneMachinePerReservation ==
  row.st # "none" => \A i \in Ids : cloud[i] \in Ours => row.res = i

\* deleted_at, the state and the host are written one after the other, by steps
\* and sweeps that looked at the provider some time ago.  However they overlap and
\* wherever a crash or a failed write cuts them short, no row comes to rest
\* without the confirmation, and a confirmed row, which no longer counts against
\* its ceiling or holds its identity, is never one the fleet still believes in.
ConfirmedMeansOver ==
  /\ row.st = "deleted" => row.gone
  /\ row.gone => row.st \in {"deleting", "failed", "quarantined", "deleted"}

\* No delete takes a runner that nobody has given up with it.
NoWorkLost ==
  [][\A i \in Ids : cloud[i] = "running" /\ cloud'[i] = "deleting" => ~busy]_vars
=============================================================================
