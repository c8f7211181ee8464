------------------------ MODULE MachineLifecycleProofs ------------------------
(***************************************************************************)
(* What MachineLifecycle promises for every set of identities, every       *)
(* number of slots and every bound.  The argument rests on one relation,   *)
(* RowOK: how any writer may change the row.  A forgotten row stays        *)
(* forgotten, an identity and a stamp once written stay, a machine whose   *)
(* delete has begun only ends, and a stamp goes only on a row that is      *)
(* ending.  Copies of older rows are then harmless, because what they say  *)
(* of the identity and of a delete is still true.                          *)
(***************************************************************************)
EXTENDS MachineLifecycle, TLAPS

Final == {"deleting", "quarantined", "deleted"}

Ending == Final \cup {"failed"}

\* ConfirmedMeansOver, of any row.
StampOK(r) == (r.st = "deleted" => r.gone) /\ (r.gone => r.st \in Ending)

RowOK(r, q) ==
  /\ q \in RowType
  /\ r.st = "none" => q.st = "none"
  /\ StampOK(r) => StampOK(q)
  /\ q.st # "none" => /\ r.res # NoId => q.res = r.res
                      /\ r.st \in Final => q.st \in Final
                      /\ r.st \in Ending => q.st \in Ending
                      /\ r.gone => q.gone

\* A copy that agrees with the row about the identity and about a delete.
Agrees(m, r) ==
  r.st # "none" => m.res \in {NoId, r.res} /\ (m.st = "deleting" => r.st \in Final)

\* The strengthening: every copy agrees with the row, a request about to go out
\* names the row's identity, what stands at the provider stands there, and who
\* is about to move a row to deleted has stamped it.
Copies == (\A k \in Slots : Agrees(steps[k].m, row)) /\ Agrees(pass.m, row)
Chosen ==
  \A k \in Slots : steps[k].pc \in {"setres", "named", "call"} => steps[k].ref \in Ids
Calls ==
  row.st # "none" =>
    \A k \in Slots : steps[k].pc \in {"named", "call"} => steps[k].ref = row.res
Confirmed ==
  row.st # "none" =>
    /\ \A k \in Slots : steps[k].pc \in {"stamped", "again"} => row.gone
    /\ sweep.pc = "stamped" => row.gone
    /\ sweep.pc = "settle" => row.st \in Ending
IInv ==
  /\ TypeOK /\ Copies /\ Chosen /\ Calls /\ Confirmed
  /\ OneMachinePerReservation /\ ConfirmedMeansOver

-----------------------------------------------------------------------------
(* The store.                                                              *)

LEMMA RowOKTransitive ==
  ASSUME NEW r, NEW q, NEW t, RowOK(r, q), RowOK(q, t)
  PROVE  RowOK(r, t)
BY DEF RowOK

LEMMA RowOKSame == ASSUME NEW r \in RowType PROVE RowOK(r, r)
BY DEF RowOK

LEMMA RowsTyped == PlannedRow \in RowType /\ NoRow \in RowType /\ NoRow.st = "none"
<1>1. 0 \in 0..MaxOps /\ 0 \in 0..MaxAttempts
  BY MachineAssumption
<1>2. PlannedRow \in RowType
  BY <1>1 DEF PlannedRow, RowType, MachineState, MachineOpKind
<1>3. QED
  BY <1>2 DEF NoRow, RowType

LEMMA NoRowOK == ASSUME NEW r PROVE RowOK(r, NoRow)
BY RowsTyped DEF RowOK, StampOK, NoRow, PlannedRow

LEMMA TransitionShape ==
  ASSUME NEW r \in RowType, NEW to \in MachineState
  PROVE  /\ TransitionMachine(r, to) \in RowType
         /\ TransitionMachine(r, to).res = r.res
         /\ TransitionMachine(r, to).gone = r.gone
         /\ r.st = "none" => TransitionMachine(r, to) = r
         /\ r.st # "none" => TransitionMachine(r, to).st # "none"
         /\ TransitionMachine(r, to).st \in {r.st, to}
BY DEF TransitionMachine, CanTransitionMachine, RowType, MachineState

\* No move leads out of the states a begun delete may end in.
LEMMA FinalStays ==
  ASSUME NEW r \in RowType, NEW to \in MachineState, r.st \in Final
  PROVE  TransitionMachine(r, to).st \in Final
BY DEF TransitionMachine, CanTransitionMachine, RowType, MachineState, Final,
       validMachineTransitions

LEMMA EndingStays ==
  ASSUME NEW r \in RowType, NEW to \in MachineState, r.st \in Ending
  PROVE  TransitionMachine(r, to).st \in Ending
BY DEF TransitionMachine, CanTransitionMachine, RowType, MachineState, Final, Ending,
       validMachineTransitions

LEMMA TransitionOK ==
  ASSUME NEW r \in RowType, NEW to \in MachineState, to = "deleted" => r.gone \/ r.st = "none"
  PROVE  RowOK(r, TransitionMachine(r, to))
BY TransitionShape, FinalStays, EndingStays DEF RowOK, StampOK

LEMMA RecordOK == ASSUME NEW r \in RowType PROVE RowOK(r, RecordMachineFailure(r))
BY MachineAssumption DEF RowOK, StampOK, RecordMachineFailure, RowType

LEMMA FinishOK ==
  ASSUME NEW r \in RowType, NEW id, NEW out
  PROVE  RowOK(r, FinishMachineOperation(r, id, out))
<1> DEFINE a == CASE out = "succeeded" -> 0
                  [] out = "released"  -> r.att
                  [] OTHER -> IF r.att < MaxAttempts THEN r.att + 1 ELSE r.att
<1>1. a \in 0..MaxAttempts
  BY MachineAssumption DEF RowType
<1> DEFINE q == [r EXCEPT !.op = 0, !.kind = "", !.live = FALSE, !.handle = FALSE,
                          !.unknown = FALSE, !.att = a]
<1>2. FinishMachineOperation(r, id, out) = r \/ FinishMachineOperation(r, id, out) = q
  BY DEF FinishMachineOperation
<1>3. 0 \in 0..MaxOps /\ "" \in MachineOpKind
  BY MachineAssumption DEF MachineOpKind
<1> HIDE DEF a
<1>4. RowOK(r, q)
  BY <1>1, <1>3 DEF RowOK, StampOK, RowType
<1>5. QED
  BY <1>2, <1>4, RowOKSame

LEMMA ClaimOK ==
  ASSUME NEW r \in RowType, NEW id \in 0..MaxOps, NEW kind \in MachineOpKind
  PROVE  RowOK(r, ClaimMachineOperation(r, id, kind))
BY DEF RowOK, StampOK, ClaimMachineOperation, RowType

LEMMA FieldOK ==
  ASSUME NEW r \in RowType
  PROVE  /\ RowOK(r, [r EXCEPT !.handle = TRUE])
         /\ RowOK(r, [r EXCEPT !.unknown = TRUE])
         /\ RowOK(r, [r EXCEPT !.live = FALSE])
         /\ RowOK(r, [r EXCEPT !.tok = "minted"])
         /\ RowOK(r, [r EXCEPT !.tok = "spent"])
BY DEF RowOK, StampOK, RowType

LEMMA MintedOK == ASSUME NEW r \in RowType PROVE RowOK(r, Minted(r))
BY FieldOK, RowOKSame DEF Minted

\* The stamp, on a row that is ending.
LEMMA StampedRowOK ==
  ASSUME NEW r \in RowType, r.st \in Ending \cup {"none"}
  PROVE  /\ RowOK(r, ConfirmMachineDeleted(r))
         /\ r.st # "none" => ConfirmMachineDeleted(r).gone
<1> DEFINE q == ConfirmMachineDeleted(r)
<1>1. q \in RowType /\ q.st = r.st /\ q.res = r.res /\ (r.st # "none" => q.gone)
        /\ (r.st = "none" => q = r)
  BY DEF ConfirmMachineDeleted, RowType
<1>2. QED
  BY <1>1 DEF RowOK, StampOK

-----------------------------------------------------------------------------
(* What every action does, as far as the invariant can see.                *)

StepsOK ==
  /\ steps' \in [Slots -> StepType]
  /\ \A k \in Slots : steps'[k].pc \in {"setres", "named", "call"} => steps'[k].ref \in Ids
  /\ \A k \in Slots : steps'[k].m \in {steps[k].m, pass.m, Copy(row'), Copy(NoRow)}
  /\ \A k \in Slots : steps'[k].pc \in {"named", "call"} =>
       \/ steps[k].pc \in {"named", "call"} /\ steps'[k].ref = steps[k].ref
       \/ steps'[k].ref = steps[k].m.res
       \/ steps'[k].ref = row'.res
  /\ \A k \in Slots : steps'[k].pc \in {"stamped", "again"} =>
       steps'[k].pc = steps[k].pc \/ row'.gone \/ row'.st = "none"
PassOK ==
  pass' \in PassType /\ pass'.m \in {pass.m, Copy(row'), Copy(NoRow)}
SweepOK ==
  /\ sweep' \in SweepType
  /\ sweep'.pc = "stamped" => sweep.pc = "stamped" \/ row'.gone \/ row'.st = "none"
  /\ sweep'.pc = "settle" => sweep.pc = "settle" \/ row'.st \in Ending \cup {"none"}
CloudOK ==
  /\ cloud' \in [Ids -> Phase]
  /\ \A i \in Ids : cloud'[i] \in Ours =>
       cloud[i] \in Ours \/ \E k \in Slots : steps[k].pc = "call" /\ steps[k].ref = i
Outcome ==
  /\ RowOK(row, row') /\ StepsOK /\ PassOK /\ SweepOK
  /\ host' \in {"none", "open", "cordoned"}
  /\ busy' \in BOOLEAN
Good ==
  Outcome /\ CloudOK /\ asked' \in AskedType /\ events' \in 0..MaxEvents

LEMMA CopyAgrees ==
  ASSUME NEW r
  PROVE  Agrees(Copy(r), r) /\ Agrees(Copy(NoRow), r)
BY DEF Agrees, Copy, Final, NoRow, PlannedRow

LEMMA GoodKeeps == IInv /\ Good => IInv'
<1> SUFFICES ASSUME IInv, Good PROVE IInv'
  OBVIOUS
<1> USE DEF IInv, Good, Outcome
<1>1. TypeOK'
  BY DEF TypeOK, StepsOK, PassOK, SweepOK, CloudOK, RowOK
<1>2. ASSUME NEW m, Agrees(m, row) PROVE Agrees(m, row')
  BY <1>2 DEF Agrees, RowOK
<1>3. Agrees(Copy(row'), row') /\ Agrees(Copy(NoRow), row')
  BY CopyAgrees
<1>4. Copies'
  <2>1. ASSUME NEW k \in Slots PROVE Agrees(steps'[k].m, row')
    BY <1>2, <1>3 DEF StepsOK, Copies
  <2>2. Agrees(pass'.m, row')
    BY <1>2, <1>3 DEF PassOK, Copies
  <2>3. QED
    BY <2>1, <2>2 DEF Copies
<1>5. Chosen'
  BY DEF StepsOK, Chosen
<1>6. Calls'
  <2> SUFFICES ASSUME row'.st # "none", NEW k \in Slots,
                      steps'[k].pc \in {"named", "call"}
               PROVE  steps'[k].ref = row'.res
    BY DEF Calls
  <2>1. row.st # "none" /\ (row.res # NoId => row'.res = row.res)
    BY DEF RowOK
  <2>2. steps'[k].ref \in Ids /\ steps'[k].ref # NoId
    BY MachineAssumption DEF StepsOK
  <2>3. CASE steps[k].pc \in {"named", "call"} /\ steps'[k].ref = steps[k].ref
    BY <2>1, <2>2, <2>3 DEF Calls
  <2>4. CASE steps'[k].ref = steps[k].m.res
    BY <2>1, <2>2, <2>4 DEF Copies, Agrees
  <2>5. QED
    BY <2>3, <2>4 DEF StepsOK
<1>7. OneMachinePerReservation'
  <2> SUFFICES ASSUME row'.st # "none", NEW i \in Ids, cloud'[i] \in Ours
               PROVE  row'.res = i
    BY DEF OneMachinePerReservation
  <2>1. row.st # "none" /\ (row.res # NoId => row'.res = row.res)
    BY DEF RowOK
  <2>2. i # NoId
    BY MachineAssumption
  <2>3. row.res = i
    BY <2>1 DEF CloudOK, OneMachinePerReservation, Calls
  <2>4. QED
    BY <2>1, <2>2, <2>3
<1>8. ConfirmedMeansOver'
  BY DEF ConfirmedMeansOver, RowOK, StampOK, Ending, Final
<1>9. Confirmed'
  <2> SUFFICES ASSUME row'.st # "none" PROVE Confirmed'
    BY DEF Confirmed
  <2>1. /\ row.st # "none" /\ (row.gone => row'.gone)
        /\ row.st \in Ending => row'.st \in Ending
    BY DEF RowOK
  <2>2. ASSUME NEW k \in Slots, steps'[k].pc \in {"stamped", "again"} PROVE row'.gone
    BY <2>1, <2>2 DEF StepsOK, Confirmed
  <2>3. (sweep'.pc = "stamped" => row'.gone) /\ (sweep'.pc = "settle" => row'.st \in Ending)
    BY <2>1 DEF SweepOK, Confirmed
  <2>4. QED
    BY <2>2, <2>3 DEF Confirmed
<1>10. QED
  BY <1>1, <1>4, <1>5, <1>6, <1>7, <1>8, <1>9

-----------------------------------------------------------------------------
(* How a step ends.                                                        *)

LEMMA CopyTyped == ASSUME NEW r \in RowType PROVE Copy(r) \in CopyType
BY DEF Copy, CopyType, RowType

LEMMA IdleTyped == Idle \in StepType /\ Idle.pc = "idle" /\ Idle.m = Copy(NoRow)
<1>1. Copy(NoRow) \in CopyType /\ 0 \in 0..MaxOps
  BY CopyTyped, RowsTyped, MachineAssumption
<1>2. QED
  BY <1>1 DEF Idle, StepType

LEMMA NoPassTyped == NoPass \in PassType /\ NoPass.m = Copy(NoRow)
BY CopyTyped, RowsTyped DEF NoPass, PassType, MachineOpKind

LEMMA NoSweepTyped == NoSweep \in SweepType /\ NoSweep.pc = "idle"
BY DEF NoSweep, SweepType, Phase

LEMMA StampedTyped ==
  ASSUME TypeOK
  PROVE  /\ Stamped(pass) \in PassType /\ Stamped(pass).m = pass.m
         /\ Stamped(sweep) \in SweepType /\ Stamped(sweep).pc = sweep.pc
<1>1. Stamped(pass) \in PassType /\ Stamped(pass).m = pass.m
  BY DEF TypeOK, Stamped, PassType
<1>2. Stamped(sweep) \in SweepType /\ Stamped(sweep).pc = sweep.pc
  BY DEF TypeOK, Stamped, SweepType
<1>3. QED
  BY <1>1, <1>2

LEMMA StampOutcome ==
  ASSUME TypeOK, Stamp
  PROVE  PassOK /\ SweepOK
BY StampedTyped DEF Stamp, PassOK, SweepOK

LEMMA UnstampedOutcome ==
  ASSUME TypeOK, UNCHANGED <<pass, sweep>>
  PROVE  PassOK /\ SweepOK
BY DEF TypeOK, PassOK, SweepOK

LEMMA UnchangedSteps ==
  ASSUME IInv, UNCHANGED steps
  PROVE  StepsOK
BY DEF IInv, TypeOK, Chosen, StepsOK

LEMMA EndsOutcome ==
  ASSUME IInv, NEW k \in Slots, Ends(k)
  PROVE  StepsOK
<1>1. steps' \in [Slots -> StepType]
  BY IdleTyped DEF IInv, TypeOK, Ends
<1>2. \A j \in Slots : steps'[j] = IF j = k THEN Idle ELSE steps[j]
  BY DEF IInv, TypeOK, Ends
<1>3. QED
  BY <1>1, <1>2, IdleTyped DEF StepsOK, IInv, Chosen

\* The step goes on: a new place, identity or copy.
LEMMA GoesOutcome ==
  ASSUME IInv, NEW k \in Slots, NEW to \in StepType, Goes(k, to),
         to.pc \in {"setres", "named", "call"} => to.ref \in Ids,
         to.m \in {steps[k].m, pass.m, Copy(row'), Copy(NoRow)},
         to.pc \in {"named", "call"} =>
           \/ steps[k].pc \in {"named", "call"} /\ to.ref = steps[k].ref
           \/ to.ref = steps[k].m.res \/ to.ref = row'.res,
         to.pc \in {"stamped", "again"} => row'.gone \/ row'.st = "none"
  PROVE  StepsOK
<1>1. steps' \in [Slots -> StepType]
  BY DEF IInv, TypeOK, Goes
<1>2. \A j \in Slots : steps'[j] = IF j = k THEN to ELSE steps[j]
  BY DEF IInv, TypeOK, Goes
<1>3. QED
  BY <1>1, <1>2 DEF StepsOK, IInv, Chosen

LEMMA WaitsOutcome == ASSUME IInv, NEW k \in Slots, Waits(k) PROVE Outcome
<1>1. StepsOK /\ PassOK /\ SweepOK
  BY EndsOutcome, UnstampedOutcome DEF IInv, Waits
<1>2. RowOK(row, row')
  BY RowOKSame DEF IInv, TypeOK, Waits
<1>3. QED
  BY <1>1, <1>2 DEF IInv, TypeOK, Waits, Outcome

LEMMA SettlesOutcome ==
  ASSUME IInv, NEW k \in Slots, NEW r, RowOK(row, r), NEW out, Settles(k, r, out)
  PROVE  RowOK(row, row') /\ StepsOK /\ PassOK /\ SweepOK
<1>1. RowOK(row, row')
  BY FinishOK, RowOKTransitive DEF Settles, RowOK
<1>2. StepsOK /\ PassOK /\ SweepOK
  BY EndsOutcome, StampOutcome DEF IInv, Settles
<1>3. QED
  BY <1>1, <1>2

LEMMA SucceedsOutcome ==
  ASSUME IInv, NEW k \in Slots, NEW r, RowOK(row, r), Succeeds(k, r)
  PROVE  Outcome
BY SettlesOutcome DEF Succeeds, Outcome, IInv, TypeOK

LEMMA ReleasedOutcome == ASSUME IInv, NEW k \in Slots, Released(k) PROVE Outcome
BY SettlesOutcome, RowOKSame DEF Released, Outcome, IInv, TypeOK

LEMMA FailsOutcome ==
  ASSUME IInv, NEW k \in Slots, NEW r, RowOK(row, r), NEW b, Fails(k, r, b)
  PROVE  Outcome
<1> DEFINE given == FinishMachineOperation(r, steps[k].op, "failed")
<1>1. RowOK(row, given) /\ given \in RowType
  BY FinishOK, RowOKTransitive DEF RowOK
<1>2. RowOK(given, TransitionMachine(given, "failed"))
  BY <1>1, TransitionOK DEF MachineState
<1>3. row' = given \/ row' = TransitionMachine(given, "failed")
  BY DEF Fails
<1>4. RowOK(row, row')
  BY <1>1, <1>2, <1>3, RowOKTransitive
<1>5. StepsOK /\ PassOK /\ SweepOK
  BY EndsOutcome, StampOutcome DEF IInv, Fails
<1>6. QED
  BY <1>4, <1>5 DEF Fails, Outcome, IInv, TypeOK

LEMMA CordonTyped ==
  ASSUME TypeOK PROVE cordoned(host) \in {"none", "open", "cordoned"}
BY DEF TypeOK, cordoned

LEMMA QuarantinesOutcome == ASSUME IInv, NEW k \in Slots, Quarantines(k) PROVE Outcome
<1>1. RowOK(row, TransitionMachine(row, "quarantined"))
  BY TransitionOK DEF IInv, TypeOK, MachineState
<1>2. QED
  BY <1>1, SettlesOutcome, CordonTyped DEF Quarantines, Outcome, IInv, TypeOK

\* A confirmation comes from a step that read the row as deleting, which the
\* row has not been able to leave but by ending.
LEMMA ConfirmsOutcome ==
  ASSUME IInv, NEW k \in Slots, steps[k].m.st = "deleting", Confirms(k)
  PROVE  Outcome
<1> DEFINE pc == IF row.st # "none" /\ ~row.gone THEN "stamped" ELSE "again"
           to == [Idle EXCEPT !.pc = pc, !.op = steps[k].op]
<1>1. row \in RowType /\ row.st \in Ending \cup {"none"}
  BY DEF IInv, TypeOK, Copies, Agrees, Ending
<1>2. row' = ConfirmMachineDeleted(row) /\ Goes(k, to) /\ UNCHANGED <<host, busy>>
  BY DEF Confirms
<1>3. RowOK(row, row') /\ (row.st # "none" => row'.gone)
  BY <1>1, <1>2, StampedRowOK
<1>4. row'.gone \/ row'.st = "none"
  BY <1>3 DEF RowOK
<1>5. steps[k].op \in 0..MaxOps /\ pc \in {"stamped", "again"}
  BY DEF IInv, TypeOK, StepType
<1> HIDE DEF pc
<1>6. to \in StepType /\ to.pc = pc /\ to.m = Copy(NoRow)
  BY <1>5, IdleTyped DEF StepType
<1>7. to.pc \notin {"setres", "named", "call"}
  BY <1>5, <1>6
<1> HIDE DEF to
<1>8. StepsOK
  BY <1>2, <1>4, <1>6, <1>7, GoesOutcome
<1>9. PassOK /\ SweepOK
  BY StampOutcome, UnstampedOutcome DEF Confirms, IInv
<1>10. QED
  BY <1>2, <1>3, <1>8, <1>9 DEF Outcome, IInv, TypeOK

\* The row moves to deleted only with the stamp on it.
LEMMA DeletedOK ==
  ASSUME IInv, row.gone \/ row.st = "none"
  PROVE  RowOK(row, TransitionMachine(row, "deleted"))
BY TransitionOK DEF IInv, TypeOK, MachineState

LEMMA HostTyped ==
  ASSUME TypeOK, HostGoes
  PROVE  host' \in {"none", "open", "cordoned"} /\ busy' \in BOOLEAN
BY DEF TypeOK, HostGoes

LEMMA MoveDeletedOutcome ==
  ASSUME IInv, NEW k \in Slots, StepMoveDeleted(k)
  PROVE  Outcome
<1>1. row.gone \/ row.st = "none"
  BY DEF StepMoveDeleted, IInv, Confirmed
<1>2. RowOK(row, TransitionMachine(row, "deleted")) /\ RowOK(row, row)
  BY <1>1, DeletedOK, RowOKSame DEF IInv, TypeOK
<1>3. CASE /\ (row' = TransitionMachine(row, "deleted") /\ Stamp)
                \/ UNCHANGED <<row, pass, sweep>>
           /\ Goes(k, [steps[k] EXCEPT !.pc = "host"])
           /\ UNCHANGED <<host, busy>>
  <2> DEFINE to == [steps[k] EXCEPT !.pc = "host"]
  <2>1. to \in StepType /\ to.pc = "host" /\ to.m = steps[k].m
    BY DEF IInv, TypeOK, StepType
  <2>2. StepsOK
    BY <1>3, <2>1, GoesOutcome
  <2>3. PassOK /\ SweepOK
    BY <1>3, StampOutcome, UnstampedOutcome DEF IInv
  <2>4. QED
    BY <1>2, <1>3, <2>2, <2>3 DEF Outcome, IInv, TypeOK
<1>4. CASE Succeeds(k, TransitionMachine(row, "deleted")) \/ Succeeds(k, row)
  BY <1>2, <1>4, SucceedsOutcome
<1>5. QED
  BY <1>3, <1>4 DEF StepMoveDeleted

LEMMA DeleteHostOutcome ==
  ASSUME IInv, NEW k \in Slots, StepDeleteHost(k)
  PROVE  Outcome
<1>1. RowOK(row, row') /\ StepsOK /\ PassOK /\ SweepOK
  BY SettlesOutcome, RowOKSame DEF StepDeleteHost, IInv, TypeOK
<1>2. QED
  BY <1>1, HostTyped DEF StepDeleteHost, Outcome, IInv

LEMMA DecidesOutcome ==
  ASSUME IInv, NEW k \in Slots, Decides(k), steps[k].m.res # NoId
  PROVE  Outcome
<1> DEFINE to == [steps[k] EXCEPT !.pc = "call", !.ref = steps[k].m.res]
<1>1. steps[k] \in StepType /\ steps[k].m.res \in Ids
  BY DEF IInv, TypeOK, StepType, CopyType
<1>2. to \in StepType /\ to.m = steps[k].m /\ to.ref = steps[k].m.res /\ to.pc = "call"
  BY <1>1 DEF StepType
<1>3. StepsOK
  BY <1>1, <1>2, GoesOutcome DEF Decides
<1>4. QED
  BY <1>3, UnstampedOutcome, RowOKSame DEF Decides, Outcome, IInv, TypeOK

-----------------------------------------------------------------------------
(* The steps.                                                              *)

LEMMA SameCloud == ASSUME TypeOK, UNCHANGED cloud PROVE CloudOK
BY DEF TypeOK, CloudOK

LEMMA MovedOK ==
  ASSUME IInv, NEW to \in MachineState, to # "deleted"
  PROVE  RowOK(row, TransitionMachine(row, to))
BY TransitionOK DEF IInv, TypeOK

LEMMA RowItself == ASSUME IInv PROVE RowOK(row, row)
BY RowOKSame DEF IInv, TypeOK

LEMMA AllocateGood ==
  ASSUME IInv, NEW k \in Slots, StepAllocate(k)
  PROVE  Outcome /\ CloudOK
<1>1. CloudOK
  BY SameCloud DEF StepAllocate, IInv
<1>2. CASE Released(k) \/ \E b \in BOOLEAN : Fails(k, row, b)
  BY <1>1, <1>2, ReleasedOutcome, FailsOutcome, RowItself
<1>3. ASSUME NEW i \in Ids, Goes(k, [steps[k] EXCEPT !.pc = "setres", !.ref = i]),
             UNCHANGED <<row, host, busy, pass, sweep>>
      PROVE  Outcome
  <2> DEFINE to == [steps[k] EXCEPT !.pc = "setres", !.ref = i]
  <2>1. to \in StepType /\ to.m = steps[k].m /\ to.ref = i /\ to.pc = "setres"
    BY DEF IInv, TypeOK, StepType
  <2>2. StepsOK
    BY <1>3, <2>1, GoesOutcome
  <2>3. QED
    BY <1>3, <2>2, UnstampedOutcome, RowItself DEF Outcome, IInv, TypeOK
<1>4. QED
  BY <1>1, <1>2, <1>3 DEF StepAllocate

LEMMA SetResourceGood ==
  ASSUME IInv, NEW k \in Slots, StepSetResource(k)
  PROVE  Outcome /\ CloudOK
<1> DEFINE s == steps[k]
           to == [s EXCEPT !.pc = "named"]
<1>1. CloudOK
  BY SameCloud DEF StepSetResource, IInv
<1>2. CASE Fails(k, row, FALSE)
  BY <1>1, <1>2, FailsOutcome, RowItself
<1>3. CASE /\ CanSetMachineResource(row)
           /\ row' = [row EXCEPT !.res = s.ref]
           /\ Goes(k, to) /\ Stamp /\ UNCHANGED <<host, busy>>
  <2>1. s \in StepType /\ s.ref \in Ids /\ row \in RowType
    BY DEF IInv, TypeOK, Chosen, StepSetResource
  <2>2. row' \in RowType /\ row'.st = row.st /\ row'.gone = row.gone /\ row'.res = s.ref
    BY <1>3, <2>1 DEF RowType
  <2>3. RowOK(row, row')
    BY <1>3, <2>2 DEF RowOK, CanSetMachineResource, StampOK
  <2>4. to \in StepType /\ to.m = s.m /\ to.ref = s.ref /\ to.pc = "named"
    BY <2>1 DEF StepType
  <2> HIDE DEF to
  <2>5. StepsOK
    BY <1>3, <2>1, <2>2, <2>4, GoesOutcome
  <2>6. QED
    BY <1>1, <1>3, <2>3, <2>5, StampOutcome DEF Outcome, IInv, TypeOK
<1>4. QED
  BY <1>2, <1>3 DEF StepSetResource

LEMMA MoveCreatingGood ==
  ASSUME IInv, NEW k \in Slots, StepMoveCreating(k)
  PROVE  Outcome /\ CloudOK
<1> DEFINE s == steps[k]
           cp == IF CanTransitionMachine(row.st, "creating") THEN Copy(row') ELSE s.m
           to == [s EXCEPT !.pc = "call", !.m = cp]
<1>1. CloudOK
  BY SameCloud DEF StepMoveCreating, IInv
<1>2. s \in StepType /\ s.ref \in Ids /\ s.pc = "named"
  BY DEF IInv, TypeOK, Chosen, StepMoveCreating
<1>3. row' = TransitionMachine(row, "creating") /\ Goes(k, to)
        /\ Stamp /\ UNCHANGED <<host, busy>>
  BY <1>2 DEF StepMoveCreating, StepType
<1>4. RowOK(row, row') /\ row' \in RowType
  BY <1>3, MovedOK DEF MachineState, RowOK
<1>5. cp \in CopyType /\ cp \in {s.m, Copy(row')}
  BY <1>2, <1>4, CopyTyped DEF StepType
<1> HIDE DEF cp
<1>6. to \in StepType /\ to.m = cp /\ to.ref = s.ref /\ to.pc = "call"
  BY <1>2, <1>5 DEF StepType
<1> HIDE DEF to
<1>7. StepsOK
  BY <1>2, <1>3, <1>5, <1>6, GoesOutcome
<1>8. QED
  BY <1>1, <1>3, <1>4, <1>7, StampOutcome DEF Outcome, IInv, TypeOK

LEMMA CarriedTyped ==
  ASSUME NEW st, NEW p \in Phase, NEW q \in Carried(st, p)
  PROVE  q \in Phase
BY DEF Carried, Phase

LEMMA CarriedCloud ==
  ASSUME IInv, NEW k \in Slots, steps[k].pc = "call",
         NEW q \in Carried(steps[k].m.st, cloud[steps[k].ref]),
         cloud' = [cloud EXCEPT ![steps[k].ref] = q]
  PROVE  CloudOK
<1>1. steps[k].ref \in Ids
  BY DEF IInv, Chosen
<1>2. q \in Phase
  BY <1>1, CarriedTyped DEF IInv, TypeOK
<1>3. cloud' \in [Ids -> Phase] /\ \A i \in Ids : cloud'[i] # cloud[i] => i = steps[k].ref
  BY <1>2 DEF IInv, TypeOK
<1>4. QED
  BY <1>3 DEF CloudOK

LEMMA KeepsOutcome == ASSUME IInv, NEW k \in Slots, Keeps(k) PROVE Outcome
<1>1. RowOK(row, row')
  BY FieldOK, RowItself DEF Keeps, Handled, IInv, TypeOK
<1>2. QED
  BY <1>1, EndsOutcome, UnstampedOutcome DEF Keeps, Outcome, IInv, TypeOK

LEMMA UnsureOutcome == ASSUME IInv, NEW k \in Slots, Unsure(k) PROVE Outcome
<1>1. RowOK(row, row')
  BY FieldOK, RowItself DEF Unsure, Unheard, IInv, TypeOK
<1>2. PassOK /\ SweepOK
  BY StampOutcome, UnstampedOutcome DEF Unsure, IInv
<1>3. QED
  BY <1>1, <1>2, EndsOutcome DEF Unsure, Outcome, IInv, TypeOK

LEMMA CallGood ==
  ASSUME IInv, NEW k \in Slots, StepCall(k)
  PROVE  Outcome /\ CloudOK
<1>1. CloudOK
  BY CarriedCloud, SameCloud DEF StepCall, IInv
<1>2. Outcome
  BY KeepsOutcome, UnsureOutcome, WaitsOutcome, SucceedsOutcome, FailsOutcome, RowItself
     DEF StepCall
<1>3. QED
  BY <1>1, <1>2

LEMMA LookGood ==
  ASSUME IInv, NEW k \in Slots,
         StepMayNotAct(k) \/ StepPoll(k) \/ StepLook(k) \/ StepLookCreating(k)
           \/ StepLookStarting(k)
  PROVE  Outcome /\ CloudOK
<1> USE RowItself
<1>1. CloudOK
  BY SameCloud DEF IInv, StepMayNotAct, StepPoll, StepLook, StepLookCreating, StepLookStarting
<1>2. CASE StepMayNotAct(k) \/ StepPoll(k) \/ StepLook(k)
  BY <1>1, <1>2, WaitsOutcome, FailsOutcome, QuarantinesOutcome
     DEF StepMayNotAct, StepPoll, StepLook
<1>3. RowOK(row, TransitionMachine(row, "bootstrapping"))
        /\ RowOK(row, TransitionMachine(row, "starting"))
  BY MovedOK DEF MachineState
<1>4. CASE StepLookCreating(k)
  BY <1>1, <1>3, <1>4, QuarantinesOutcome, FailsOutcome, ReleasedOutcome, DecidesOutcome,
     SucceedsOutcome DEF StepLookCreating, Looked
<1>5. CASE StepLookStarting(k)
  BY <1>1, <1>3, <1>5, FailsOutcome, ReleasedOutcome, DecidesOutcome, SucceedsOutcome
     DEF StepLookStarting, Looked
<1>6. QED
  BY <1>2, <1>4, <1>5

LEMMA DeleteGood ==
  ASSUME IInv, NEW k \in Slots,
         StepLookDeleting(k) \/ StepNothingToDelete(k) \/ StepMoveDeleted(k) \/ StepDeleteHost(k)
  PROVE  Outcome /\ CloudOK
<1>1. CloudOK
  BY SameCloud DEF IInv, StepLookDeleting, StepNothingToDelete, StepMoveDeleted, StepDeleteHost
<1>2. CASE StepLookDeleting(k)
  BY <1>1, <1>2, RowItself, ConfirmsOutcome, FailsOutcome, SucceedsOutcome, ReleasedOutcome,
     DecidesOutcome DEF StepLookDeleting, Looked
<1>3. CASE StepNothingToDelete(k)
  BY <1>1, <1>3, RowItself, ConfirmsOutcome, FailsOutcome DEF StepNothingToDelete
<1>4. QED
  BY <1>1, <1>2, <1>3, MoveDeletedOutcome, DeleteHostOutcome

LEMMA BootstrapGood ==
  ASSUME IInv, NEW k \in Slots, StepBootstrap(k)
  PROVE  Outcome /\ CloudOK
<1> DEFINE minted == Minted(row)
<1>1. CloudOK
  BY SameCloud DEF IInv, StepBootstrap
<1>2. RowOK(row, minted) /\ minted \in RowType
  BY MintedOK DEF IInv, TypeOK, RowOK
<1>3. RowOK(row, TransitionMachine(row, "enrolling"))
        /\ RowOK(row, TransitionMachine(minted, "enrolling"))
  BY <1>2, MovedOK, TransitionOK, RowOKTransitive DEF MachineState
<1>4. RowOK(row, RecordMachineFailure(row))
  BY RecordOK DEF IInv, TypeOK
<1>5. CASE \/ Waits(k) \/ Fails(k, RecordMachineFailure(row), TRUE)
           \/ Succeeds(k, TransitionMachine(row, "enrolling")) \/ Released(k)
  BY <1>1, <1>3, <1>4, <1>5, WaitsOutcome, FailsOutcome, SucceedsOutcome, ReleasedOutcome
<1>6. CASE Pushes(k)
  <2>1. CASE Succeeds(k, TransitionMachine(minted, "enrolling"))
               \/ \E b \in BOOLEAN : Fails(k, minted, b)
    BY <1>1, <1>2, <1>3, <2>1, SucceedsOutcome, FailsOutcome
  <2>2. CASE /\ row' \in {minted, [minted EXCEPT !.handle = TRUE], [minted EXCEPT !.unknown = TRUE]}
             /\ Stamp /\ Ends(k) /\ UNCHANGED <<host, busy>>
    <3> HIDE DEF minted
    <3>1. RowOK(minted, row')
      BY <1>2, <2>2, FieldOK, RowOKSame
    <3>2. RowOK(row, row')
      BY <1>2, <3>1, RowOKTransitive
    <3>3. QED
      BY <1>1, <2>2, <3>2, EndsOutcome, StampOutcome DEF Outcome, IInv, TypeOK
  <2>3. QED
    BY <1>6, <2>1, <2>2 DEF Pushes
<1>7. QED
  BY <1>5, <1>6 DEF StepBootstrap

LEMMA StepGood == ASSUME IInv, NEW k \in Slots, Step(k) PROVE Good
<1>1. events' \in 0..MaxEvents /\ asked' \in AskedType
  BY DEF Step, IInv, TypeOK
<1>2. QED
  BY <1>1, AllocateGood, SetResourceGood, MoveCreatingGood, CallGood, LookGood,
     DeleteGood, BootstrapGood
     DEF Step, Good

-----------------------------------------------------------------------------
(* The pass.                                                               *)

LEMMA SnapshotTyped ==
  ASSUME NEW r \in RowType, busy \in BOOLEAN
  PROVE  Snapshot(r) \in PassType /\ Snapshot(r).m = Copy(r)
BY CopyTyped DEF Snapshot, PassType, RowType, MachineOpKind

LEMMA AtPlace ==
  ASSUME TypeOK, NEW pc \in {"idle", "plan", "revive", "step"}, NEW m \in CopyType
  PROVE  /\ [pass EXCEPT !.pc = pc, !.m = m] \in PassType
         /\ [pass EXCEPT !.pc = pc, !.m = m].m = m
BY DEF TypeOK, PassType

LEMMA SweepStamped == ASSUME TypeOK, sweep' = Stamped(sweep) PROVE SweepOK
BY StampedTyped DEF SweepOK

LEMMA SweepSame == ASSUME TypeOK, UNCHANGED sweep PROVE SweepOK
BY DEF TypeOK, SweepOK

LEMMA SweepOver == ASSUME sweep' = NoSweep PROVE SweepOK
BY NoSweepTyped DEF SweepOK

LEMMA PassMovesOutcome ==
  ASSUME IInv, NEW to \in MachineState, to # "deleted", PassMoves(to)
  PROVE  RowOK(row, row') /\ PassOK /\ SweepOK
<1> DEFINE cp == IF CanTransitionMachine(row.st, to) THEN Copy(row') ELSE pass.m
<1>1. RowOK(row, row') /\ row' \in RowType
  BY MovedOK DEF PassMoves, RowOK
<1>2. cp \in CopyType /\ cp \in {pass.m, Copy(row')}
  BY <1>1, CopyTyped DEF IInv, TypeOK, PassType
<1>3. pass' = [pass EXCEPT !.pc = "step", !.m = cp]
  BY DEF PassMoves, IInv, TypeOK, PassType
<1> HIDE DEF cp
<1>4. PassOK
  BY <1>2, <1>3, AtPlace DEF PassOK, IInv
<1>5. QED
  BY <1>1, <1>4, SweepStamped DEF PassMoves, IInv

LEMMA OperationTyped == ASSUME NEW st PROVE machineOperationFor(st) \in MachineOpKind
BY DEF machineOperationFor, MachineOpKind

LEMMA GoTyped ==
  ASSUME NEW m \in CopyType, NEW o \in 0..MaxOps
  PROVE  /\ [Idle EXCEPT !.pc = "go", !.m = m, !.op = o] \in StepType
         /\ [Idle EXCEPT !.pc = "go", !.m = m, !.op = o].pc = "go"
         /\ [Idle EXCEPT !.pc = "go", !.m = m, !.op = o].m = m
BY IdleTyped DEF StepType

\* Interferes is the only thing that moves the counter.
LEMMA EventsTyped ==
  ASSUME TypeOK, Interferes \/ UNCHANGED events
  PROVE  events' \in 0..MaxEvents
BY MachineAssumption DEF TypeOK, Interferes

\* A request is begun, carried on, ended, or left alone.
LEMMA AskedTyped == ASSUME TypeOK, UNCHANGED asked PROVE asked' \in AskedType
BY DEF TypeOK

LEMMA PassClaimGood ==
  ASSUME IInv, NEW k \in Slots, PassClaim(k), UNCHANGED asked PROVE Good
<1> DEFINE kind == machineOperationFor(pass.m.st)
<1>1. CloudOK /\ events' \in 0..MaxEvents /\ asked' \in AskedType /\ PassOK
  BY SameCloud, EventsTyped, AskedTyped, NoPassTyped DEF PassClaim, IInv, PassOK
<1>2. host' = host /\ busy' = busy
  BY DEF PassClaim
<1>3. CASE /\ Goes(k, [Idle EXCEPT !.pc = "go", !.m = pass.m, !.op = pass.m.op])
           /\ UNCHANGED <<row, sweep>>
  <2>1. pass.m \in CopyType /\ pass.m.op \in 0..MaxOps
    BY DEF IInv, TypeOK, PassType, CopyType
  <2>2. StepsOK
    BY <1>3, <2>1, GoTyped, GoesOutcome
  <2>3. QED
    BY <1>1, <1>2, <1>3, <2>2, RowItself, SweepSame DEF Good, Outcome, IInv, TypeOK
<1>4. ASSUME NEW o \in 1..MaxOps,
             row' = ClaimMachineOperation(row, o, kind),
             Goes(k, [Idle EXCEPT !.pc = "go", !.m = Copy(row'), !.op = o]),
             sweep' = Stamped(sweep)
      PROVE  Good
  <2>1. o \in 0..MaxOps
    BY MachineAssumption
  <2>2. RowOK(row, row') /\ row' \in RowType
    BY <1>4, <2>1, ClaimOK, OperationTyped DEF IInv, TypeOK, RowOK
  <2>3. StepsOK
    BY <1>4, <2>1, <2>2, CopyTyped, GoTyped, GoesOutcome
  <2>4. QED
    BY <1>1, <1>2, <1>4, <2>2, <2>3, SweepStamped DEF Good, Outcome, IInv, TypeOK
<1>5. QED
  BY <1>3, <1>4 DEF PassClaim

LEMMA OverdueTyped ==
  ASSUME NEW r \in RowType, Overdue(r) # r.st
  PROVE  Overdue(r) \in MachineState \ {"deleted"}
BY DEF Overdue, RowType, MachineState

LEMMA PassOverdueGood == ASSUME IInv, PassOverdue, UNCHANGED <<asked, events>> PROVE Good
<1> DEFINE to == Overdue(row)
           r == IF to = "failed" /\ row.st # "planned" THEN RecordMachineFailure(row) ELSE row
<1>1. CloudOK /\ events' \in 0..MaxEvents /\ asked' \in AskedType /\ StepsOK
  BY SameCloud, EventsTyped, AskedTyped, UnchangedSteps DEF PassOverdue, IInv
<1>2. to \in MachineState /\ to # "deleted" /\ row \in RowType
  BY OverdueTyped DEF PassOverdue, IInv, TypeOK
<1>3. RowOK(row, r) /\ r \in RowType
  BY <1>2, RecordOK, RowOKSame DEF RowOK
<1>4. row' = TransitionMachine(r, to)
  BY DEF PassOverdue
<1> HIDE DEF to, r
<1>5. RowOK(row, row') /\ row' \in RowType
  BY <1>2, <1>3, <1>4, TransitionOK, RowOKTransitive DEF RowOK
<1>6. PassOK
  BY <1>5, SnapshotTyped DEF PassOverdue, PassOK, IInv, TypeOK
<1>7. host' \in {"none", "open", "cordoned"} /\ busy' \in BOOLEAN
  BY CordonTyped DEF PassOverdue, IInv, TypeOK
<1>8. QED
  BY <1>1, <1>5, <1>6, <1>7, SweepStamped DEF PassOverdue, Good, Outcome, IInv

LEMMA PassMovesGood ==
  ASSUME IInv, PassDrain \/ PassRevive \/ PassEnrol \/ PassRelease, UNCHANGED <<asked, events>>
  PROVE  Good
<1>1. CloudOK /\ events' \in 0..MaxEvents /\ asked' \in AskedType /\ StepsOK
  BY SameCloud, EventsTyped, AskedTyped, UnchangedSteps
     DEF PassDrain, PassRevive, PassEnrol, PassRelease, IInv
<1>2. {"draining", "ready", "deleting"} \subseteq MachineState \ {"deleted"}
  BY DEF MachineState
<1>3. CASE PassDrain \/ PassRevive
  <2>1. RowOK(row, row') /\ PassOK /\ SweepOK
    BY <1>2, <1>3, PassMovesOutcome DEF PassDrain, PassRevive
  <2>2. host' \in {"none", "open", "cordoned"} /\ busy' \in BOOLEAN
    BY <1>3, CordonTyped DEF PassDrain, PassRevive, IInv, TypeOK
  <2>3. QED
    BY <1>1, <2>1, <2>2 DEF Good, Outcome
<1>4. CASE PassEnrol \/ PassRelease
  <2>1. RowOK(row, row')
    BY <1>2, <1>4, MovedOK DEF PassEnrol, PassRelease
  <2>2. PassOK /\ SweepOK
    BY <1>4, NoPassTyped, SweepStamped DEF PassEnrol, PassRelease, PassOK, IInv
  <2>3. host' \in {"none", "open", "cordoned"} /\ busy' \in BOOLEAN
    BY <1>4 DEF PassEnrol, PassRelease, IInv, TypeOK
  <2>4. QED
    BY <1>1, <2>1, <2>2, <2>3 DEF Good, Outcome
<1>5. QED
  BY <1>3, <1>4

\* The pass and the sweep when they leave the row alone.
LEMMA PassQuietGood ==
  ASSUME IInv,
         \/ PassSweep
         \/ (PassBegin \/ PassUncordon \/ PassNoStep \/ SweepList) /\ UNCHANGED events,
         UNCHANGED asked
  PROVE  Good
<1>1. CloudOK /\ events' \in 0..MaxEvents /\ asked' \in AskedType /\ StepsOK
  BY SameCloud, EventsTyped, AskedTyped, UnchangedSteps
     DEF PassSweep, PassBegin, PassUncordon, PassNoStep, SweepList, IInv
<1>2. RowOK(row, row')
  BY RowItself DEF PassSweep, PassBegin, PassUncordon, PassNoStep, SweepList
<1>3. PassOK
  <2>1. CASE PassSweep \/ SweepList
    BY <2>1 DEF PassSweep, SweepList, PassOK, IInv, TypeOK
  <2>2. CASE PassBegin
    BY <2>2, SnapshotTyped DEF PassBegin, PassOK, IInv, TypeOK
  <2>3. CASE PassUncordon
    BY <2>3 DEF PassUncordon, PassOK, IInv, TypeOK, PassType
  <2>4. CASE PassNoStep
    BY <2>4, NoPassTyped DEF PassNoStep, PassOK
  <2>5. QED
    BY <2>1, <2>2, <2>3, <2>4
<1>4. SweepOK
  <2>1. CASE PassSweep
    BY <2>1 DEF PassSweep, IInv, TypeOK, SweepType, SweepOK, PassType, Phase
  <2>2. CASE SweepList
    <3>1. row.res # NoId => Seen(row.res) \in Phase
      BY DEF IInv, TypeOK, RowType, Seen, Phase
    <3>2. QED
      BY <2>2, <3>1, NoSweepTyped DEF SweepList, SweepOK, IInv, TypeOK, SweepType
  <2>3. QED
    BY <2>1, <2>2, SweepSame DEF PassBegin, PassUncordon, PassNoStep, IInv
<1>5. host' \in {"none", "open", "cordoned"} /\ busy' \in BOOLEAN
  BY DEF PassSweep, PassBegin, PassUncordon, PassNoStep, SweepList, IInv, TypeOK
<1>6. QED
  BY <1>1, <1>2, <1>3, <1>4, <1>5 DEF Good, Outcome

LEMMA PassGood == ASSUME IInv, Pass PROVE Good
BY PassClaimGood, PassOverdueGood, PassMovesGood, PassQuietGood DEF Pass

-----------------------------------------------------------------------------
(* The sweep, the operator and the world.                                  *)

LEMMA SweepApplyGood ==
  ASSUME IInv, SweepApply, UNCHANGED <<asked, events>> PROVE Good
<1>1. CloudOK /\ events' \in 0..MaxEvents /\ asked' \in AskedType /\ StepsOK
  BY SameCloud, EventsTyped, AskedTyped, UnchangedSteps DEF SweepApply, IInv
<1>2. PassOK
  BY DEF SweepApply, PassOK, IInv, TypeOK
<1>3. row \in RowType /\ "quarantined" \in MachineState /\ "failed" \in MachineState
  BY DEF IInv, TypeOK, MachineState
<1>4. CASE /\ row' = TransitionMachine(row, "quarantined") /\ host' = cordoned(host)
           /\ sweep' = NoSweep /\ UNCHANGED busy
  BY <1>1, <1>2, <1>3, <1>4, TransitionOK, SweepOver, CordonTyped
     DEF Good, Outcome, IInv, TypeOK
<1>5. CASE /\ row.st \in {"deleting", "failed"}
           /\ sweep' = [NoSweep EXCEPT !.pc = "settle"] /\ UNCHANGED <<row, host, busy>>
  <2>1. sweep' \in SweepType /\ sweep'.pc = "settle"
    BY <1>5, NoSweepTyped DEF SweepType
  <2>2. SweepOK
    BY <1>5, <2>1 DEF SweepOK, Ending, Final
  <2>3. QED
    BY <1>1, <1>2, <1>5, <2>2, RowItself DEF Good, Outcome, IInv, TypeOK
<1>6. CASE Vanished /\ sweep' = NoSweep
  <2>1. RowOK(row, RecordMachineFailure(row)) /\ RecordMachineFailure(row) \in RowType
    BY <1>3, RecordOK DEF RowOK
  <2>2. RowOK(row, row')
    BY <1>3, <1>6, <2>1, TransitionOK, RowOKTransitive DEF Vanished
  <2>3. QED
    BY <1>1, <1>2, <1>6, <2>2, SweepOver, CordonTyped DEF Vanished, Good, Outcome, IInv, TypeOK
<1>7. CASE sweep' = NoSweep /\ UNCHANGED <<row, host, busy>>
  BY <1>1, <1>2, <1>7, RowItself, SweepOver DEF Good, Outcome, IInv, TypeOK
<1>8. QED
  BY <1>4, <1>5, <1>6, <1>7 DEF SweepApply

LEMMA SweepSettlesGood ==
  ASSUME IInv, SweepStamp \/ SweepMove \/ SweepDeleteHost, UNCHANGED <<asked, events>>
  PROVE  Good
<1>1. CloudOK /\ events' \in 0..MaxEvents /\ asked' \in AskedType /\ StepsOK
  BY SameCloud, EventsTyped, AskedTyped, UnchangedSteps
     DEF SweepStamp, SweepMove, SweepDeleteHost, IInv
<1>2. PassOK
  BY DEF SweepStamp, SweepMove, SweepDeleteHost, PassOK, IInv, TypeOK
<1>3. CASE SweepStamp
  <2>1. row \in RowType /\ row.st \in Ending \cup {"none"}
    BY <1>3 DEF SweepStamp, IInv, TypeOK, Confirmed
  <2>2. RowOK(row, ConfirmMachineDeleted(row))
          /\ (row.st # "none" => ConfirmMachineDeleted(row).gone)
    BY <2>1, StampedRowOK
  <2>3. CASE row' = ConfirmMachineDeleted(row) /\ sweep' = [sweep EXCEPT !.pc = "stamped"]
    <3>1. sweep' \in SweepType /\ sweep'.pc = "stamped"
      BY <2>3 DEF IInv, TypeOK, SweepType
    <3>2. row'.gone \/ row'.st = "none"
      BY <2>2, <2>3 DEF RowOK
    <3>3. SweepOK
      BY <3>1, <3>2 DEF SweepOK
    <3>4. QED
      BY <1>1, <1>2, <1>3, <2>2, <2>3, <3>3 DEF SweepStamp, Good, Outcome, IInv, TypeOK
  <2>4. CASE sweep' = NoSweep /\ UNCHANGED row
    BY <1>1, <1>2, <1>3, <2>4, RowItself, SweepOver
       DEF SweepStamp, Good, Outcome, IInv, TypeOK
  <2>5. QED
    BY <1>3, <2>3, <2>4 DEF SweepStamp
<1>4. CASE SweepMove
  <2>1. row.gone \/ row.st = "none"
    BY <1>4 DEF SweepMove, IInv, Confirmed
  <2>2. RowOK(row, row')
    BY <1>4, <2>1, DeletedOK, RowItself DEF SweepMove
  <2>3. SweepOK
    BY <1>4 DEF SweepMove, SweepOK, IInv, TypeOK, SweepType
  <2>4. QED
    BY <1>1, <1>2, <1>4, <2>2, <2>3 DEF SweepMove, Good, Outcome, IInv, TypeOK
<1>5. CASE SweepDeleteHost
  BY <1>1, <1>2, <1>5, RowItself, SweepOver, HostTyped
     DEF SweepDeleteHost, Good, Outcome, IInv
<1>6. QED
  BY <1>3, <1>4, <1>5

LEMMA SweepGood == ASSUME IInv, Sweep PROVE Good
BY PassQuietGood, SweepApplyGood, SweepSettlesGood DEF Sweep

LEMMA OperatorGood ==
  ASSUME IInv,
         \/ DrainMachine \/ (\E f \in BOOLEAN : DeleteMachine(f)) \/ ReleaseMachine
         \/ (CordonHostOf \/ MoveAsAsked) /\ UNCHANGED events
  PROVE  Good
<1>1. CloudOK /\ events' \in 0..MaxEvents /\ StepsOK
  BY SameCloud, EventsTyped, UnchangedSteps
     DEF DrainMachine, DeleteMachine, ReleaseMachine, CordonHostOf, MoveAsAsked, IInv
<1>2. PassOK /\ SweepOK
  BY StampOutcome, UnstampedOutcome
     DEF DrainMachine, DeleteMachine, ReleaseMachine, CordonHostOf, MoveAsAsked, IInv
<1>3. asked' \in AskedType
  BY DEF DrainMachine, DeleteMachine, ReleaseMachine, CordonHostOf, MoveAsAsked, IInv, TypeOK,
         AskedType, NotAsked
<1>4. asked.to \in MachineState /\ asked.to # "deleted"
  BY DEF IInv, TypeOK, AskedType, MachineState
<1>5. RowOK(row, row')
  BY <1>4, MovedOK, NoRowOK, RowItself
     DEF DrainMachine, DeleteMachine, ReleaseMachine, CordonHostOf, MoveAsAsked
<1>6. host' \in {"none", "open", "cordoned"} /\ busy' \in BOOLEAN
  BY CordonTyped
     DEF DrainMachine, DeleteMachine, ReleaseMachine, CordonHostOf, MoveAsAsked, IInv, TypeOK
<1>7. QED
  BY <1>1, <1>2, <1>3, <1>5, <1>6 DEF Good, Outcome

LEMMA WorldRowGood ==
  ASSUME IInv,
         \/ ClaimExpires
         \/ /\ PruneMachine \/ AgentJoins \/ RunnerPlaced \/ RunnerEnds
            /\ UNCHANGED <<asked, events>>
  PROVE  Good
<1>1. CloudOK /\ events' \in 0..MaxEvents /\ asked' \in AskedType /\ StepsOK
  BY SameCloud, EventsTyped, AskedTyped, UnchangedSteps
     DEF ClaimExpires, PruneMachine, AgentJoins, RunnerPlaced, RunnerEnds, IInv
<1>2. PassOK /\ SweepOK
  BY StampOutcome, UnstampedOutcome
     DEF ClaimExpires, PruneMachine, AgentJoins, RunnerPlaced, RunnerEnds, IInv
<1>3. RowOK(row, row')
  <2>1. CASE ClaimExpires \/ AgentJoins
    BY <2>1, FieldOK DEF ClaimExpires, AgentJoins, IInv, TypeOK
  <2>2. CASE PruneMachine
    BY <2>2, NoRowOK DEF PruneMachine
  <2>3. CASE RunnerPlaced \/ RunnerEnds
    BY <2>3, RowItself DEF RunnerPlaced, RunnerEnds
  <2>4. QED
    BY <2>1, <2>2, <2>3
<1>4. host' \in {"none", "open", "cordoned"} /\ busy' \in BOOLEAN
  BY DEF ClaimExpires, PruneMachine, AgentJoins, RunnerPlaced, RunnerEnds, IInv, TypeOK
<1>5. QED
  BY <1>1, <1>2, <1>3, <1>4 DEF Good, Outcome

\* The provider carries on only with what already stood there.
LEMMA ProviderGood == ASSUME IInv, NEW i \in Ids, Provider(i) PROVE Good
<1>1. UNCHANGED <<row, host, busy, steps, pass, sweep, asked>>
  BY DEF Provider
<1>2. events' \in 0..MaxEvents
  BY EventsTyped DEF Provider, IInv
<1>3. PICK q : /\ cloud' = [cloud EXCEPT ![i] = q]
               /\ q \in Phase
               /\ q \in Ours => cloud[i] \in Ours
  BY DEF Provider, Phase, Ours
<1>4. CloudOK
  BY <1>3 DEF CloudOK, IInv, TypeOK
<1>5. QED
  BY <1>1, <1>2, <1>4, RowItself, UnchangedSteps, UnstampedOutcome
     DEF Good, Outcome, IInv, TypeOK

LEMMA CrashGood == ASSUME IInv, Crash PROVE Good
<1>1. CloudOK /\ events' \in 0..MaxEvents /\ asked' \in AskedType
  BY SameCloud, EventsTyped DEF Crash, IInv, NotAsked, AskedType
<1>2. steps' \in [Slots -> StepType] /\ \A k \in Slots : steps'[k] = Idle
  BY IdleTyped DEF Crash
<1>3. StepsOK
  BY <1>2, IdleTyped DEF StepsOK
<1>4. PassOK /\ SweepOK
  BY NoPassTyped, SweepOver DEF Crash, PassOK
<1>5. QED
  BY <1>1, <1>3, <1>4, RowItself DEF Crash, Good, Outcome, IInv, TypeOK

LEMMA NextKeeps == IInv /\ [Next]_vars => IInv'
<1> SUFFICES ASSUME IInv, [Next]_vars PROVE IInv'
  OBVIOUS
<1>1. CASE Next
  <2>1. Good
    BY <1>1, StepGood, PassGood, SweepGood, OperatorGood, WorldRowGood, ProviderGood,
       CrashGood DEF Next
  <2>2. QED
    BY <2>1, GoodKeeps
<1>2. CASE UNCHANGED vars
  BY <1>2 DEF vars, IInv, TypeOK, Copies, Chosen, Calls, Confirmed,
              OneMachinePerReservation, ConfirmedMeansOver, Agrees
<1>3. QED
  BY <1>1, <1>2

LEMMA InitHolds == Init => IInv
<1> SUFFICES ASSUME Init PROVE IInv
  OBVIOUS
<1>1. TypeOK
  <2>1. row \in RowType /\ steps \in [Slots -> StepType] /\ pass \in PassType
          /\ sweep \in SweepType
    BY RowsTyped, IdleTyped, NoPassTyped, NoSweepTyped DEF Init
  <2>2. cloud \in [Ids -> Phase] /\ events \in 0..MaxEvents
    BY MachineAssumption DEF Init, Phase
  <2>3. host \in {"none", "open", "cordoned"} /\ busy \in BOOLEAN /\ asked \in AskedType
    BY DEF Init, NotAsked, AskedType
  <2>4. QED
    BY <2>1, <2>2, <2>3 DEF TypeOK
<1>2. \A k \in Slots : steps[k] = Idle
  BY DEF Init
<1>3. pass.m = Copy(NoRow)
  BY NoPassTyped DEF Init
<1>4. Copies
  BY <1>2, <1>3, IdleTyped, CopyAgrees DEF Copies
<1>5. Chosen /\ Calls /\ Confirmed
  BY <1>2, IdleTyped, NoSweepTyped DEF Init, Chosen, Calls, Confirmed
<1>6. OneMachinePerReservation
  BY DEF Init, OneMachinePerReservation, Ours
<1>7. ConfirmedMeansOver
  BY DEF Init, ConfirmedMeansOver, PlannedRow
<1>8. QED
  BY <1>1, <1>4, <1>5, <1>6, <1>7 DEF IInv

-----------------------------------------------------------------------------

\* Every machine's row, the host, the provider, the steps, the pass, the
\* sweep and the operator's request keep their types whatever interleaving the
\* machine loop, its steps and the operators take; in particular attempts never
\* pass machineMaxAttempts.
THEOREM MachineTypes == Spec => []TypeOK
<1>1. IInv => TypeOK
  BY DEF IInv
<1>2. QED
  BY <1>1, InitHolds, NextKeeps, PTL DEF Spec

\* A reservation is never two machines: however many steps overlap, whoever took
\* over whose claim and however often a create is sent again after silence,
\* everything this fleet asked the provider for stands at the one identity that
\* SetMachineResource wrote before the first create.
THEOREM OneMachine == Spec => []OneMachinePerReservation
<1>1. IInv => OneMachinePerReservation
  BY DEF IInv
<1>2. QED
  BY <1>1, InitHolds, NextKeeps, PTL DEF Spec

\* confirmDeleted and settleGoneMachine write deleted_at and the state in separate
\* transactions, after a look at the provider that may be old: with any number of
\* them under way and any write lost to a failure or a crash, no row is deleted
\* without its confirmation and none is confirmed while the fleet believes in it.
THEOREM ConfirmedIsOver == Spec => []ConfirmedMeansOver
<1>1. IInv => ConfirmedMeansOver
  BY DEF IInv
<1>2. QED
  BY <1>1, InitHolds, NextKeeps, PTL DEF Spec
=============================================================================
