------------------------ MODULE ControllerLeaseProofs ------------------------
(***************************************************************************)
(* Proofs about ControllerLease for any number of process starts, machines *)
(* and host names, any resolution of the column and any lease of a whole   *)
(* number of its units.                                                    *)
(***************************************************************************)
EXTENDS ControllerLease, TLAPS

\* Dividing a time by the column's unit.
LEMMA Division ==
    ASSUME NEW t \in Nat
    PROVE  \E q \in Nat, r \in 0..(Grain - 1) :
               /\ Grain * q \in Nat
               /\ t = Grain * q + r
               /\ t % Grain = r
               /\ ms(t) = Grain * q
  <1>1. t % Grain \in 0..(Grain - 1)
    BY LeaseAssumption
  <1>2. t = Grain * (t \div Grain) + (t % Grain) /\ t \div Grain \in Nat
    BY LeaseAssumption
  <1>3. Grain * (t \div Grain) \in Nat
    BY <1>2, LeaseAssumption
  <1>4. ms(t) = Grain * (t \div Grain)
    BY <1>1, <1>2, <1>3, LeaseAssumption DEF ms
  <1> QED
    BY <1>1, <1>2, <1>3, <1>4

\* Times of the column: whole numbers of its units.
Whole(t) == \E q \in Nat : t = Grain * q

LEMMA Multiples ==
    ASSUME NEW p \in Nat, NEW q \in Nat
    PROVE  /\ p < q => Grain * p + Grain <= Grain * q
           /\ p <= q => Grain * p <= Grain * q
           /\ Grain * p + Grain * q = Grain * (p + q)
           /\ Grain * p \in Nat
  <1>0. Grain \in Nat /\ Grain > 0
    BY LeaseAssumption
  <1>1. ASSUME NEW n \in Nat PROVE Grain * n \in Nat
    BY <1>0
  <1>2. Grain * p + Grain * q = Grain * (p + q)
    BY <1>0
  <1>3. ASSUME p <= q PROVE Grain * p <= Grain * q
    BY <1>0, <1>3
  <1>4. ASSUME p < q PROVE Grain * p + Grain <= Grain * q
    <2>1. PICK r \in Nat : q = p + 1 + r
      BY <1>4
    <2>2. Grain * q = Grain * p + Grain + Grain * r
      BY <1>0, <2>1
    <2> QED
      BY <1>0, <1>1, <2>2
  <1> QED
    BY <1>1, <1>2, <1>3, <1>4

\* Rounding down gives a time of the column, and loses less than a unit.
LEMMA MsRounds ==
    ASSUME NEW t \in Nat
    PROVE  ms(t) \in 0..t /\ t < ms(t) + Grain /\ Whole(ms(t))
  <1>1. PICK q \in Nat, r \in 0..(Grain - 1) :
             Grain * q \in Nat /\ t = Grain * q + r /\ ms(t) = Grain * q
    BY Division
  <1> QED
    BY <1>1, LeaseAssumption DEF Whole

\* A time of the column that has come is not rounded away.
LEMMA MsCovers ==
    ASSUME NEW t \in Nat, NEW m \in Nat, Whole(m), m <= t
    PROVE  m <= ms(t)
  <1>1. PICK q \in Nat : m = Grain * q
    BY DEF Whole
  <1>2. PICK p \in Nat, r \in 0..(Grain - 1) :
             Grain * p \in Nat /\ t = Grain * p + r /\ ms(t) = Grain * p
    BY Division
  <1>3. ~ p < q
    <2>1. p < q => Grain * p + Grain <= Grain * q
      BY Multiples
    <2> QED
      BY <1>1, <1>2, <2>1, LeaseAssumption
  <1>4. Grain * q <= Grain * p
    BY <1>3, Multiples
  <1> QED
    BY <1>1, <1>2, <1>4

\* Rounding keeps the order of times.
LEMMA MsMonotone ==
    ASSUME NEW s \in Nat, NEW t \in Nat, s <= t
    PROVE  ms(s) <= ms(t)
  BY MsRounds, MsCovers

\* A lease of whole units lasts at least one, and ends at a time of the column.
LEMMA TTLWhole ==
    /\ LeaseTTL >= Grain
    /\ \A m \in Nat : Whole(m) => Whole(m + LeaseTTL)
  <1>1. PICK k \in Nat : LeaseTTL = Grain * k
    <2>1. PICK k \in Nat, r \in 0..(Grain - 1) :
               Grain * k \in Nat /\ LeaseTTL = Grain * k + r /\ LeaseTTL % Grain = r
      BY Division, LeaseAssumption
    <2>2. r = 0
      BY <2>1, LeaseAssumption
    <2> QED
      BY <2>1, <2>2
  <1>2. k # 0
    BY <1>1, LeaseAssumption
  <1>3. LeaseTTL >= Grain
    BY <1>1, <1>2, LeaseAssumption
  <1>4. ASSUME NEW m \in Nat, Whole(m) PROVE Whole(m + LeaseTTL)
    <2>1. PICK q \in Nat : m = Grain * q
      BY <1>4 DEF Whole
    <2> QED
      BY <1>1, <2>1, Multiples DEF Whole
  <1> QED
    BY <1>3, <1>4
\* Two times of the column are a unit apart.
LEMMA WholeApart ==
    ASSUME NEW a \in Nat, NEW b \in Nat, Whole(a), Whole(b), a < b
    PROVE  a + Grain <= b
  <1>1. PICK p \in Nat : a = Grain * p
    BY DEF Whole
  <1>2. PICK q \in Nat : b = Grain * q
    BY DEF Whole
  <1>3. ~(q <= p)
    <2>1. q <= p => b <= a
      BY <1>1, <1>2, Multiples
    <2> QED
      BY <2>1
  <1> QED
    BY <1>1, <1>2, <1>3, Multiples

-----------------------------------------------------------------------------
\* The last renewal of a process that the row has seen: the one it is about to
\* note, or the one it knows of.
Known(c) == IF renewal[c].pc = "stamped" THEN renewal[c].at ELSE renewed[c]

\* Of the processes of a machine at most one is past the file lock.
LockExcludes ==
    \A c, d \in Controllers :
        Alive(c) /\ Alive(d) /\ machineOf[c] = machineOf[d] => c = d

\* The row's times are the column's, in order, and past.
RowTimes ==
    /\ Whole(row.renewed) /\ Whole(row.acquired)
    /\ row.acquired <= row.renewed
    /\ row.renewed <= now

\* A renewal is under way in a running process only, and the time it read is
\* past, but not before the last one's.
RenewalReadEarlier ==
    \A c \in Controllers :
        /\ renewed[c] <= now
        /\ proc[c] # "running" => renewal[c].pc = "idle"
        /\ renewal[c].pc # "idle" => renewed[c] <= renewal[c].at /\ renewal[c].at <= now

\* A running holder's last renewal is not past the row's time by a unit of the
\* column, and a holder has been through the lock.
HolderInStep ==
    /\ row.holder # Nobody => proc[row.holder] \in {"running", "stopping", "gone"}
    /\ \A c \in Controllers :
         proc[c] = "running" /\ row.holder = c => Known(c) < row.renewed + Grain

\* Runs on without the row, which no --takeover took from it.
Superseded(c) ==
    /\ c \in Controllers \ overridden
    /\ proc[c] = "running"
    /\ row.holder # c

\* A superseded process lost a stale row: its own time is over but for a rest of
\* the unit it was superseded in, and so before the present holder's unit ends.
SupersededWhenStale ==
    \A c \in Controllers :
        Superseded(c) =>
            /\ Known(c) + LeaseTTL < ms(now) + Grain
            /\ row.holder # Nobody => Known(c) + LeaseTTL < row.acquired + Grain

\* Whoever superseded a process outlasts it, so two of them are never left with
\* time at once.
OneLeftOver ==
    \A c, d \in Controllers :
        Superseded(c) /\ Superseded(d) /\ c # d =>
            Known(c) + LeaseTTL <= now \/ Known(d) + LeaseTTL <= now

\* A process without the row has renewed nothing after it lost it.
LossRecorded ==
    \A c \in Controllers :
        proc[c] = "running" /\ row.holder # c => Known(c) <= lostAt[c]

\* The inductive invariant.
IInv ==
    /\ TypeOK
    /\ LockExcludes
    /\ RowTimes
    /\ RenewalReadEarlier
    /\ HolderInStep
    /\ SupersededWhenStale
    /\ OneLeftOver
    /\ LossRecorded

\* What the type says of the times the arithmetic is about.
LEMMA TypeFacts ==
    ASSUME TypeOK
    PROVE  /\ now \in Nat
           /\ row.renewed \in Nat /\ row.acquired \in Nat
           /\ row.holder \in Controllers \cup {Nobody}
           /\ \A c \in Controllers :
                renewed[c] \in Nat /\ renewal[c].at \in Nat /\ lostAt[c] \in Nat
                /\ Known(c) \in Nat
  BY LeaseAssumption DEF TypeOK, Time, Known

\* Nothing is running, locked or held at the start.
LEMMA IInvInit == Init => IInv
  <1> SUFFICES ASSUME Init PROVE IInv
    OBVIOUS
  <1>1. TypeOK
    BY LeaseAssumption DEF Init, TypeOK, NoRow, NoRenewal, Time
  <1>2. RowTimes
    <2>1. Whole(0)
      BY LeaseAssumption DEF Whole
    <2> QED
      BY <2>1 DEF Init, RowTimes, NoRow
  <1>3. LockExcludes /\ HolderInStep /\ SupersededWhenStale /\ OneLeftOver /\ LossRecorded
    BY LeaseAssumption DEF Init, LockExcludes, Alive, HolderInStep, SupersededWhenStale,
         OneLeftOver, Superseded, LossRecorded, NoRow
  <1>4. RenewalReadEarlier
    <2>1. now = 0 /\ renewed = [c \in Controllers |-> 0]
      BY DEF Init
    <2>3. ASSUME NEW c \in Controllers PROVE renewed[c] <= now
      <3>1. renewed[c] = 0 /\ now = 0
        BY <2>1
      <3>2. 0 <= 0
        OBVIOUS
      <3> QED
        BY <3>1, <3>2
    <2>2. \A c \in Controllers : renewal[c].pc = "idle"
      BY DEF Init, NoRenewal
    <2> QED
      BY <2>2, <2>3 DEF RenewalReadEarlier
  <1> QED
    BY <1>1, <1>2, <1>3, <1>4 DEF IInv

-----------------------------------------------------------------------------
\* Every step keeps the types.
LEMMA TypeStep == TypeOK /\ [Next]_vars => TypeOK'
  <1> SUFFICES ASSUME TypeOK, [Next]_vars PROVE TypeOK'
    OBVIOUS
  <1> USE LeaseAssumption
  <1>m. ms(now) \in Time
    BY MsRounds, TypeFacts DEF TypeOK, Time
  <1>0. 0 \in Time
    BY DEF Time
  <1>1. CASE Tick
    BY <1>1 DEF Tick, memory, TypeOK, Time
  <1>2. ASSUME NEW c \in Controllers, Lock(c) \/ RefuseLease(c) PROVE TypeOK'
    BY <1>2 DEF Lock, RefuseLease, memory, TypeOK
  <1>3. ASSUME NEW c \in Controllers, NEW takeover \in BOOLEAN, NEW fence \in BOOLEAN,
               AcquireControllerLease(c, takeover, fence)
        PROVE  TypeOK'
    <2>1. overridden' \in SUBSET Controllers
      BY <1>3 DEF AcquireControllerLease, TypeOK, Stale
    <2>2. row' \in [holder : Controllers \cup {Nobody}, renewed : Time, acquired : Time]
      BY <1>3, <1>m DEF AcquireControllerLease
    <2>3. fenced' \in [Controllers -> BOOLEAN]
      BY <1>3 DEF AcquireControllerLease, TypeOK
    <2>4. renewed' \in [Controllers -> Time] /\ lostAt' \in [Controllers -> Time]
      BY <1>3, <1>m DEF AcquireControllerLease, TypeOK
    <2> QED
      BY <1>3, <2>1, <2>2, <2>3, <2>4 DEF AcquireControllerLease, TypeOK
  <1>4. ASSUME NEW c \in Controllers, RenewBegin(c) \/ RenewFails(c) PROVE TypeOK'
    BY <1>0, <1>4 DEF RenewBegin, RenewFails, NoRenewal, TypeOK
  <1>5. ASSUME NEW c \in Controllers, RenewControllerLease(c) PROVE TypeOK'
    <2>1. row' \in [holder : Controllers \cup {Nobody}, renewed : Time, acquired : Time]
      BY <1>5, <1>m DEF RenewControllerLease, TypeOK
    <2>2. renewal' \in [Controllers -> [pc : {"idle", "begun", "stamped", "refused"}, at : Time]]
      BY <1>5 DEF RenewControllerLease, TypeOK
    <2> QED
      BY <1>5, <2>1, <2>2 DEF RenewControllerLease, TypeOK
  <1>6. ASSUME NEW c \in Controllers, NoteRenewal(c) PROVE TypeOK'
    <2>1. renewed' \in [Controllers -> Time]
      BY <1>6 DEF NoteRenewal, TypeOK
    <2>2. lost' \in [Controllers -> BOOLEAN]
      BY <1>6 DEF NoteRenewal, TypeOK
    <2> QED
      BY <1>0, <1>6, <2>1, <2>2 DEF NoteRenewal, NoRenewal, TypeOK
  <1>7. ASSUME NEW c \in Controllers, Unfence(c) PROVE TypeOK'
    BY <1>7 DEF Unfence, TypeOK
  <1>8. ASSUME NEW c \in Controllers, Stop(c) \/ Crash(c) PROVE TypeOK'
    <2>1. fenced' \in [Controllers -> BOOLEAN] /\ lost' \in [Controllers -> BOOLEAN]
      BY <1>8 DEF Stop, Crash, Forget, TypeOK
    <2>2. renewed' \in [Controllers -> Time] /\ lostAt' \in [Controllers -> Time]
      BY <1>0, <1>8 DEF Stop, Crash, Forget, TypeOK
    <2>4. proc' \in [Controllers -> {"new", "locked", "running", "stopping", "gone"}]
      BY <1>8 DEF Stop, Crash, TypeOK
    <2>3. renewal' \in [Controllers -> [pc : {"idle", "begun", "stamped", "refused"}, at : Time]]
      BY <1>0, <1>8 DEF Stop, Crash, Forget, NoRenewal, TypeOK
    <2> QED
      BY <1>8, <2>1, <2>2, <2>3, <2>4 DEF Stop, Crash, TypeOK
  <1>9. ASSUME NEW c \in Controllers, ReleaseControllerLease(c) PROVE TypeOK'
    BY <1>0, <1>9 DEF ReleaseControllerLease, NoRow, memory, TypeOK
  <1>10. CASE UNCHANGED vars
    BY <1>10 DEF vars, TypeOK
  <1> QED
    BY <1>1, <1>2, <1>3, <1>4, <1>5, <1>6, <1>7, <1>8, <1>9, <1>10 DEF Next

\* Every step of a process and of the clock keeps the invariant.
LEMMA IInvNext == IInv /\ [Next]_vars => IInv'
  <1> SUFFICES ASSUME IInv, [Next]_vars PROVE IInv'
    OBVIOUS
  <1> USE LeaseAssumption
  <1>0. /\ TypeOK /\ LockExcludes /\ RowTimes /\ RenewalReadEarlier
        /\ HolderInStep /\ SupersededWhenStale /\ OneLeftOver /\ LossRecorded
    BY DEF IInv
  <1>y. TypeOK'
    BY <1>0, TypeStep
  <1>t. /\ now \in Nat
        /\ row.renewed \in Nat /\ row.acquired \in Nat
        /\ row.holder \in Controllers \cup {Nobody}
        /\ \A c \in Controllers :
             renewed[c] \in Nat /\ renewal[c].at \in Nat /\ lostAt[c] \in Nat
             /\ Known(c) \in Nat
    BY <1>0, TypeFacts
  <1>m. ms(now) \in Nat /\ ms(now) <= now /\ now < ms(now) + Grain /\ Whole(ms(now))
    BY <1>t, MsRounds
  <1>1. CASE Tick
    <2>1. now' \in Nat /\ now < now' /\ ms(now) <= ms(now') /\ ms(now') \in Nat
      <3>1. now' = now + 1
        BY <1>1 DEF Tick
      <3> QED
        BY <1>t, <3>1, MsRounds, MsMonotone
    <2>2. UNCHANGED <<proc, row, renewed, renewal, lostAt, overridden>>
      BY <1>1 DEF Tick, memory
    <2>3. \A c \in Controllers : Known(c)' = Known(c) /\ Superseded(c)' = Superseded(c)
      BY <2>2 DEF Known, Superseded
    <2>4. LockExcludes' /\ HolderInStep' /\ LossRecorded'
      BY <1>0, <2>2, <2>3 DEF LockExcludes, Alive, HolderInStep, LossRecorded
    <2>5. RowTimes' /\ RenewalReadEarlier'
      BY <1>0, <1>t, <2>1, <2>2 DEF RowTimes, RenewalReadEarlier
    <2>6. SupersededWhenStale'
      <3>1. ms(now)' = ms(now')
        BY DEF ms
      <3> QED
        BY <1>0, <1>t, <1>m, <2>1, <2>2, <2>3, <3>1 DEF SupersededWhenStale
    <2>7. OneLeftOver'
      BY <1>0, <1>t, <2>1, <2>3 DEF OneLeftOver
    <2> QED
      BY <1>y, <2>4, <2>5, <2>6, <2>7 DEF IInv
  <1>2. ASSUME NEW c \in Controllers, Lock(c) \/ RefuseLease(c) PROVE IInv'
    <2>1. UNCHANGED <<now, row, renewed, renewal, lostAt, overridden>>
      BY <1>2 DEF Lock, RefuseLease, memory
    <2>2. /\ proc' = [proc EXCEPT ![c] = proc'[c]]
          /\ proc[c] \in {"new", "locked"}
          /\ proc'[c] \in {"locked", "gone"}
          /\ proc'[c] = "locked" =>
               ~\E d \in Controllers : Alive(d) /\ machineOf[d] = machineOf[c]
      BY <1>0, <1>2 DEF Lock, RefuseLease, TypeOK
    <2>3. /\ ms(now)' = ms(now)
          /\ \A d \in Controllers : Known(d)' = Known(d) /\ Superseded(d)' = Superseded(d)
      BY <1>0, <2>1, <2>2 DEF ms, Known, Superseded, TypeOK
    <2>4. LockExcludes'
      BY <1>0, <2>2 DEF LockExcludes, Alive, TypeOK
    <2>5. RowTimes' /\ RenewalReadEarlier' /\ HolderInStep' /\ LossRecorded'
      BY <1>0, <2>1, <2>2, <2>3 DEF RowTimes, RenewalReadEarlier, HolderInStep,
           LossRecorded, TypeOK
    <2>6. SupersededWhenStale' /\ OneLeftOver'
      BY <1>0, <2>1, <2>3 DEF SupersededWhenStale, OneLeftOver
    <2> QED
      BY <1>y, <2>4, <2>5, <2>6 DEF IInv
  <1>3. ASSUME NEW c \in Controllers, NEW takeover \in BOOLEAN, NEW fence \in BOOLEAN,
               AcquireControllerLease(c, takeover, fence)
        PROVE  IInv'
    <2>1. /\ proc[c] = "locked" /\ proc' = [proc EXCEPT ![c] = "running"]
          /\ row'.holder = c /\ row'.renewed = ms(now) /\ row'.acquired = ms(now)
          /\ renewed' = [renewed EXCEPT ![c] = ms(now)]
          /\ UNCHANGED <<now, renewal>>
      BY <1>3 DEF AcquireControllerLease
    <2>2. renewal[c].pc = "idle"
      BY <1>0, <2>1 DEF RenewalReadEarlier
    <2>3. /\ Known(c)' = ms(now)
          /\ \A d \in Controllers \ {c} : Known(d)' = Known(d)
      BY <1>0, <2>1, <2>2 DEF Known, TypeOK
    <2>4. LockExcludes'
      BY <1>0, <2>1 DEF LockExcludes, Alive, TypeOK
    <2>5. RowTimes' /\ RenewalReadEarlier' /\ HolderInStep'
      BY <1>0, <1>t, <1>m, <2>1, <2>2, <2>3
         DEF RowTimes, RenewalReadEarlier, HolderInStep, TypeOK
    <2>6. \A d \in Controllers :
              Superseded(d)' => d # c /\ d \in Controllers \ overridden /\ proc[d] = "running"
      BY <1>0, <1>3, <2>1 DEF Superseded, AcquireControllerLease, TypeOK
    \* A holder without its row from here on, and not overridden, was stale.
    <2>7. ASSUME NEW d \in Controllers, Superseded(d)', row.holder = d
          PROVE  now >= row.renewed + LeaseTTL
      <3>1. proc[d] = "running" /\ d # c
        BY <2>6, <2>7
      <3>2. ~ours(c)
        BY <1>0, <2>1, <2>7, <3>1, HostnameAssumption DEF ours, LockExcludes, Alive
      <3> QED
        BY <1>3, <2>7, <3>2 DEF AcquireControllerLease, Superseded, Stale
    <2>8. ASSUME NEW d \in Controllers, Superseded(d)'
          PROVE  Known(d) + LeaseTTL < ms(now) + Grain
      <3>1. CASE row.holder # d
        BY <1>0, <2>6, <2>8, <3>1 DEF SupersededWhenStale, Superseded
      <3>2. CASE row.holder = d
        <4>1. row.renewed + LeaseTTL <= ms(now)
          <5>1. Whole(row.renewed + LeaseTTL)
            BY <1>0, <1>t, TTLWhole DEF RowTimes
          <5> QED
            BY <1>t, <2>7, <2>8, <3>2, <5>1, MsCovers
        <4>2. Known(d) < row.renewed + Grain
          BY <1>0, <2>6, <2>8, <3>2 DEF HolderInStep
        <4> QED
          BY <1>t, <1>m, <4>1, <4>2
      <3> QED
        BY <3>1, <3>2
    <2>9. SupersededWhenStale'
      <3>1. ms(now)' = ms(now)
        BY <2>1 DEF ms
      <3> QED
        BY <2>1, <2>3, <2>6, <2>8, <3>1 DEF SupersededWhenStale
    <2>10. OneLeftOver'
      <3> SUFFICES ASSUME NEW d \in Controllers, NEW e \in Controllers, d # e,
                          Superseded(d)', Superseded(e)'
                   PROVE  Known(d) + LeaseTTL <= now \/ Known(e) + LeaseTTL <= now
        BY <2>1, <2>3, <2>6 DEF OneLeftOver
      <3>1. CASE row.holder \notin {d, e}
        BY <1>0, <2>6, <3>1 DEF OneLeftOver, Superseded
      <3>2. ASSUME NEW f \in Controllers, NEW g \in Controllers, f # g, row.holder = f,
                   Superseded(f)', Superseded(g)'
            PROVE  Known(g) + LeaseTTL <= now
        <4>1. now >= row.renewed + LeaseTTL
          BY <2>7, <3>2
        <4>2. Known(g) + LeaseTTL < row.acquired + Grain
          BY <1>0, <2>6, <3>2 DEF SupersededWhenStale, Superseded
        <4> QED
          BY <1>0, <1>t, <4>1, <4>2, TTLWhole DEF RowTimes
      <3> QED
        BY <3>1, <3>2
    <2>11. LossRecorded'
      <3> SUFFICES ASSUME NEW d \in Controllers, d # c, proc[d] = "running"
                   PROVE  Known(d) <= lostAt'[d]
        BY <1>0, <2>1, <2>3 DEF LossRecorded, TypeOK
      <3>1. CASE row.holder = d
        <4>1. lostAt'[d] = now
          BY <1>3, <3>1 DEF AcquireControllerLease
        <4> QED
          BY <1>0, <4>1 DEF RenewalReadEarlier, Known
      <3>2. CASE row.holder # d
        <4>1. lostAt'[d] = lostAt[d]
          BY <1>3, <3>2 DEF AcquireControllerLease
        <4> QED
          BY <1>0, <3>2, <4>1 DEF LossRecorded
      <3> QED
        BY <3>1, <3>2
    <2> QED
      BY <1>y, <2>4, <2>5, <2>9, <2>10, <2>11 DEF IInv
  \* The steps of a running process that leave the row and its holders alone.
  <1>4. ASSUME NEW c \in Controllers, 
               RenewBegin(c) \/ RenewFails(c) \/ NoteRenewal(c) \/ Unfence(c)
        PROVE  IInv'
    <2>1. proc[c] = "running" /\ UNCHANGED <<now, proc, row, lostAt, overridden>>
      BY <1>4 DEF RenewBegin, RenewFails, NoteRenewal, Unfence
    <2>2. RenewalReadEarlier'
      BY <1>0, <1>t, <1>4, <2>1 DEF RenewBegin, RenewFails, NoteRenewal, Unfence, NoRenewal,
           RenewalReadEarlier, TypeOK
    <2>3. \A d \in Controllers : Known(d)' = Known(d)
      BY <1>0, <1>4 DEF RenewBegin, RenewFails, NoteRenewal, Unfence, NoRenewal, Known, TypeOK
    <2>4. ms(now)' = ms(now) /\ \A d \in Controllers : Superseded(d)' = Superseded(d)
      BY <2>1 DEF ms, Superseded
    <2>5. LockExcludes' /\ RowTimes'
      BY <1>0, <2>1 DEF LockExcludes, Alive, RowTimes
    <2>6. HolderInStep' /\ LossRecorded'
      BY <1>0, <2>1, <2>3 DEF HolderInStep, LossRecorded
    <2>7. SupersededWhenStale' /\ OneLeftOver'
      BY <1>0, <2>1, <2>3, <2>4 DEF SupersededWhenStale, OneLeftOver
    <2> QED
      BY <1>y, <2>2, <2>5, <2>6, <2>7 DEF IInv
  <1>5. ASSUME NEW c \in Controllers, RenewControllerLease(c) PROVE IInv'
    <2>1. /\ proc[c] = "running" /\ renewal[c].pc = "begun"
          /\ UNCHANGED <<now, proc, renewed, lostAt, overridden>>
          /\ row'.holder = row.holder /\ row'.acquired = row.acquired
          /\ row'.renewed = (IF row.holder = c THEN ms(now) ELSE row.renewed)
      BY <1>0, <1>5 DEF RenewControllerLease, TypeOK
    <2>2. /\ Known(c)' = IF row.holder = c THEN renewal[c].at ELSE Known(c)
          /\ \A d \in Controllers \ {c} : Known(d)' = Known(d)
      BY <1>0, <1>5 DEF RenewControllerLease, Known, TypeOK
    <2>3. ms(now)' = ms(now) /\ \A d \in Controllers : Superseded(d)' = Superseded(d)
      BY <2>1 DEF ms, Superseded
    <2>4. LockExcludes'
      BY <1>0, <2>1 DEF LockExcludes, Alive
    <2>5. row.renewed <= ms(now)
      BY <1>0, <1>t, MsCovers DEF RowTimes
    <2>6. RowTimes'
      <3>1. row'.renewed \in {row.renewed, ms(now)}
        BY <2>1
      <3>2. Whole(row'.renewed) /\ Whole(row'.acquired)
        BY <1>0, <1>m, <2>1, <3>1 DEF RowTimes
      <3> QED
        BY <1>0, <1>t, <1>m, <2>1, <2>5, <3>1, <3>2 DEF RowTimes
    <2>7. RenewalReadEarlier'
      BY <1>0, <1>5, <2>1 DEF RenewControllerLease, RenewalReadEarlier, TypeOK
    <2>8. HolderInStep'
      <3>1. renewal[c].at <= now
        BY <1>0, <2>1 DEF RenewalReadEarlier
      <3> QED
        BY <1>0, <1>t, <1>m, <2>1, <2>2, <3>1 DEF HolderInStep
    <2>9. \A d \in Controllers : row.holder # d => Known(d)' = Known(d)
      BY <2>2
    <2>10. SupersededWhenStale' /\ OneLeftOver' /\ LossRecorded'
      BY <1>0, <2>1, <2>3, <2>9
         DEF SupersededWhenStale, OneLeftOver, LossRecorded, Superseded
    <2> QED
      BY <1>y, <2>4, <2>6, <2>7, <2>8, <2>10 DEF IInv
  <1>6. ASSUME NEW c \in Controllers, Stop(c) \/ ReleaseControllerLease(c) \/ Crash(c)
        PROVE  IInv'
    <2>1. /\ proc'[c] \in {"stopping", "gone"}
          /\ proc' = [proc EXCEPT ![c] = proc'[c]]
          /\ Alive(c)
          /\ proc[c] = "stopping" => proc'[c] = "gone"
          /\ UNCHANGED <<now, overridden>>
      BY <1>0, <1>6 DEF Stop, ReleaseControllerLease, Crash, Alive, TypeOK
    <2>2. row' = row \/ (row.holder = c /\ row' = NoRow)
      BY <1>6 DEF Stop, ReleaseControllerLease, Crash
    <2>3. /\ \A d \in Controllers \ {c} :
               renewed'[d] = renewed[d] /\ renewal'[d] = renewal[d] /\ lostAt'[d] = lostAt[d]
          /\ renewed'[c] \in {0, renewed[c]} /\ renewal'[c] \in {NoRenewal, renewal[c]}
          /\ renewal'[c] = renewal[c] => proc[c] # "running" \/ renewal[c] = NoRenewal
      BY <1>0, <1>6 DEF Stop, ReleaseControllerLease, Crash, Forget, memory, TypeOK
    <2>4. LockExcludes'
      BY <1>0, <2>1 DEF LockExcludes, Alive, TypeOK
    <2>5. RowTimes'
      <3>1. Whole(0)
        BY DEF Whole
      <3> QED
        BY <1>0, <1>t, <2>1, <2>2, <3>1 DEF RowTimes, NoRow
    <2>6. RenewalReadEarlier'
      <3> SUFFICES ASSUME NEW d \in Controllers
                   PROVE  /\ renewed'[d] <= now
                          /\ proc'[d] # "running" => renewal'[d].pc = "idle"
                          /\ renewal'[d].pc # "idle" =>
                               renewed'[d] <= renewal'[d].at /\ renewal'[d].at <= now
        BY <2>1 DEF RenewalReadEarlier
      <3>1. CASE d = c
        BY <1>0, <1>t, <2>3, <3>1 DEF RenewalReadEarlier, NoRenewal
      <3>2. CASE d # c
        BY <1>0, <2>1, <2>3, <3>2 DEF RenewalReadEarlier, TypeOK
      <3> QED
        BY <3>1, <3>2
    <2>7. \A d \in Controllers :
              proc'[d] = "running" => d # c /\ proc[d] = "running" /\ Known(d)' = Known(d)
      BY <1>0, <2>1, <2>3 DEF Known, TypeOK
    <2>8. HolderInStep'
      BY <1>0, <2>1, <2>2, <2>7 DEF HolderInStep, NoRow, TypeOK
    <2>9. \A d \in Controllers : Superseded(d)' => d # c /\ Superseded(d)
      BY <2>1, <2>2, <2>7 DEF Superseded, NoRow
    <2>10. SupersededWhenStale' /\ OneLeftOver' /\ LossRecorded'
      <3>1. ms(now)' = ms(now)
        BY <2>1 DEF ms
      <3>2. \A d \in Controllers : Superseded(d)' => Known(d)' = Known(d)
        BY <2>7 DEF Superseded
      <3>3. SupersededWhenStale'
        BY <1>0, <2>2, <2>9, <3>1, <3>2 DEF SupersededWhenStale, NoRow
      <3>4. OneLeftOver'
        BY <1>0, <2>1, <2>9, <3>2 DEF OneLeftOver
      <3>5. LossRecorded'
        BY <1>0, <2>2, <2>3, <2>7 DEF LossRecorded, NoRow
      <3> QED
        BY <3>3, <3>4, <3>5
    <2> QED
      BY <1>y, <2>4, <2>5, <2>6, <2>8, <2>10 DEF IInv
  <1>7. CASE UNCHANGED vars
    <2>1. /\ ms(now)' = ms(now)
          /\ \A d \in Controllers : Known(d)' = Known(d) /\ Superseded(d)' = Superseded(d)
      BY <1>7 DEF vars, ms, Known, Superseded
    <2> QED
      BY <1>0, <1>7, <1>y, <2>1 DEF vars, IInv, LockExcludes, Alive, RowTimes,
           RenewalReadEarlier, HolderInStep, SupersededWhenStale, OneLeftOver, LossRecorded
  <1> QED
    BY <1>1, <1>2, <1>3, <1>4, <1>5, <1>6, <1>7 DEF Next

-----------------------------------------------------------------------------
\* The inductive invariant holds of every behaviour.
THEOREM LeaseInvariant == Spec => []IInv
  BY IInvInit, IInvNext, PTL DEF Spec

\* Every variable keeps its type.
THEOREM LeaseTypeCorrect == Spec => []TypeOK
  <1>1. IInv => TypeOK
    BY DEF IInv
  <1> QED
    BY <1>1, LeaseInvariant, PTL

\* What a running process knows of is never past the last renewal in the row.
LEMMA RenewedKnown ==
    ASSUME IInv, NEW c \in Controllers
    PROVE  renewed[c] <= Known(c)
  <1>1. TypeOK /\ RenewalReadEarlier
    BY DEF IInv
  <1> QED
    BY <1>1, TypeFacts DEF RenewalReadEarlier, Known

\* A superseded controller that nobody's --takeover displaced acts for less
\* than one unit of the lease column after another holds the row.
THEOREM LeaseSupersededStops == Spec => []SupersededStops
  <1>1. ASSUME IInv PROVE SupersededStops
    <2> SUFFICES ASSUME NEW c \in Controllers \ overridden, mayAct(c), row.holder # c
                 PROVE  renewed[c] + LeaseTTL - now < Grain
      BY DEF SupersededStops
    <2>1. TypeOK
      BY <1>1 DEF IInv
    <2>2. Known(c) + LeaseTTL < ms(now) + Grain
      BY <1>1 DEF IInv, SupersededWhenStale, Superseded, mayAct
    <2> QED
      BY <1>1, <2>1, <2>2, RenewedKnown, TypeFacts, MsRounds, LeaseAssumption
  <1> QED
    BY <1>1, LeaseInvariant, PTL

\* Two controllers that nobody's --takeover displaced act at once at most in the
\* unit of the column in which one acquired the row, at any resolution of it.
THEOREM LeaseOneControllerActs == Spec => []OneControllerActs
  <1>1. ASSUME IInv PROVE OneControllerActs
    <2> SUFFICES ASSUME NEW c \in Controllers \ overridden,
                        NEW d \in Controllers \ overridden,
                        mayAct(c), mayAct(d), c # d
                 PROVE  row.holder \in {c, d} /\ row.acquired = ms(now)
      BY DEF OneControllerActs
    <2>1. TypeOK
      BY <1>1 DEF IInv
    <2>t. /\ now \in Nat /\ row.renewed \in Nat /\ row.acquired \in Nat /\ ms(now) \in Nat
          /\ row.acquired <= row.renewed /\ row.renewed <= ms(now)
          /\ now < ms(now) + Grain
      <3>1. row.renewed <= now /\ Whole(row.renewed) /\ row.acquired <= row.renewed
        BY <1>1 DEF IInv, RowTimes
      <3> QED
        BY <2>1, <3>1, TypeFacts, MsRounds, MsCovers
    <2>2. ASSUME NEW e \in Controllers \ overridden, mayAct(e)
          PROVE  /\ now < Known(e) + LeaseTTL
                 /\ Known(e) \in Nat
                 /\ row.holder # e => Superseded(e)
      <3>1. renewed[e] \in Nat /\ Known(e) \in Nat /\ renewed[e] <= Known(e)
        BY <1>1, <2>1, RenewedKnown, TypeFacts
      <3> QED
        BY <2>2, <2>t, <3>1, LeaseAssumption DEF mayAct, Superseded
    <2>3. row.holder \in {c, d}
      BY <1>1, <2>2, <2>t, LeaseAssumption DEF IInv, OneLeftOver
    <2>4. PICK e \in {c, d} : row.holder # e
      OBVIOUS
    <2>5. Known(e) + LeaseTTL < row.acquired + Grain
      BY <1>1, <2>2, <2>3, <2>4, LeaseAssumption DEF IInv, SupersededWhenStale
    <2>6. now < row.acquired + Grain
      BY <2>2, <2>t, <2>5, LeaseAssumption
    <2>7. ms(now) <= row.acquired
      <3>1. Whole(row.acquired) /\ Whole(ms(now))
        BY <1>1, <2>t, MsRounds DEF IInv, RowTimes
      <3>2. ms(now) <= now
        BY <2>t, MsRounds
      <3> QED
        BY <2>6, <2>t, <3>1, <3>2, WholeApart, LeaseAssumption
    <2> QED
      BY <2>3, <2>7, <2>t
  <1> QED
    BY <1>1, LeaseInvariant, PTL

\* A controller that lost its row, to anybody, acts for less than a TTL more.
THEOREM LeaseLossBoundsActing == Spec => []LossBoundsActing
  <1>1. ASSUME IInv PROVE LossBoundsActing
    <2> SUFFICES ASSUME NEW c \in Controllers, mayAct(c), row.holder # c
                 PROVE  now < lostAt[c] + LeaseTTL
      BY DEF LossBoundsActing
    <2>1. Known(c) <= lostAt[c] /\ TypeOK
      BY <1>1 DEF IInv, LossRecorded, mayAct
    <2> QED
      BY <1>1, <2>1, RenewedKnown, TypeFacts, LeaseAssumption DEF mayAct
  <1> QED
    BY <1>1, LeaseInvariant, PTL

=============================================================================
