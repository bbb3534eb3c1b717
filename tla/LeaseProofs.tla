---------------------------- MODULE LeaseProofs ----------------------------
(***************************************************************************)
(* What leases are for: under a condition on how long a lease lasts,       *)
(* next_run_at only moves on, and without disruptions each run is saved    *)
(* once.                                                                   *)
(***************************************************************************)
EXTENDS RecurringProofs

-----------------------------------------------------------------------------
(* The next run only moves on. *)

LEMMA LeaseInvStep ==
    ASSUME TypeInv, TypeInv', ScheduleInv, LeaseInv, [Next]_vars
    PROVE  LeaseInv'
<1> TypeOK /\ TypeOK'
  BY DEF TypeInv
<1>0. /\ clock \in Nat /\ clock' \in Nat /\ clock <= clock' /\ LeaseEvery \in Nat
      /\ \A s \in Runners : seen[s] \in Nat
      /\ \A i \in Specs : leaseUntil[i] \in Nat
  BY ClockStep, StartAssumption, TimesAssumption DEF TypeOK
<1>1. ASSUME NEW s \in Runners, NEW i \in rows', Holds(s, i)'
      PROVE  \/ leasedBy'[i] = s /\ leaseUntil'[i] = seen'[s] + LeaseEvery
             \/ seen'[s] + LeaseEvery < clock'
  <2>0. i \in Specs
    BY Zenon DEF TypeOK
  <2>1. CASE Holds(s, i) /\ seen'[s] = seen[s]
    <3>1. i \in rows
      BY <2>1, CurrentRow, FirstRun, RowsStep, Zenon DEF Holds, Origin
    <3>3. ASSUME NEW r \in Runners, Crash(r) PROVE r # s
      BY <1>1, <3>3, Zenon DEF Crash, Continue, TypeOK, Holds
    <3>4. ASSUME NEW r \in Runners, pc[r] = "scan", LeaseFree(i, r), leasedBy[i] = s PROVE leaseUntil[i] < clock
      BY <2>0, <2>1, <3>4, FreeLease DEF Holds
    <3> QED
      BY <1>0, <2>0, <2>1, <3>1, <3>3, <3>4, LeaseStep DEF LeaseInv
  <2>2. CASE cur'[s] \in todo[s] /\ AcquireRecurringLease(s, cur'[s])
    BY <1>1, <2>2, Zenon DEF AcquireRecurringLease, TypeOK, Holds
  <2> QED
    BY <1>1, <2>1, <2>2, WorkStep DEF Holds, Same
<1>2. ASSUME NEW s \in Runners, NEW i \in Specs, leasedBy'[i] = s
      PROVE  leaseUntil'[i] <= Reading(s)' + LeaseEvery
  <2>2. CASE leaseUntil'[i] = leaseUntil[i] /\ leasedBy'[i] = leasedBy[i]
    BY <1>2, <2>2, ReadingStep, <1>0 DEF LeaseInv
  <2>3. ASSUME NEW e \in todo[s], AcquireRecurringLease(s, e), pc'[s] = "fire",
               leaseUntil'[i] = seen[s] + LeaseEvery
        PROVE  leaseUntil'[i] <= Reading(s)' + LeaseEvery
    BY <1>0, <2>3 DEF AcquireRecurringLease, Reading
  <2> QED
    BY <1>2, NobodyAssumption, <2>2, <2>3, LeaseStep
<1>3. ASSUME NEW i \in rows', NEW u \in Nat, IsRun(i, anchor'[i], u),
             u + LeaseEvery >= clock', u + LeaseEvery > leaseUntil'[i]
      PROVE  nextRunAt'[i] <= u
  <2>0. i \in Specs /\ u + LeaseEvery >= clock
    BY <1>0, <1>3 DEF TypeOK
  <2>1. CASE Create(i)
    <3>1. nextRunAt'[i] = anchor'[i] /\ anchor'[i] \in Nat /\ u >= anchor'[i]
      BY <1>3, <2>0, <2>1, FirstRun, Zenon DEF IsRun
    <3> QED
      BY <3>1
  <2>2. CASE ~Create(i)
    <3>1. anchor'[i] = anchor[i] /\ i \in rows
      BY <2>0, <2>2, RowsStep, Zenon
    <3>2. ASSUME NEW r \in Runners, pc[r] = "update", cur[r].spec = i, UpdateRecurringNextRun(r),
                 nextRunAt'[i] = nextAfter(i, cur[r].next, seen[r])
          PROVE  nextRunAt'[i] <= u
      <4>1. leaseUntil'[i] = leaseUntil[i]
        BY <3>2, Zenon DEF UpdateRecurringNextRun, RowDone
      <4> QED
        BY <1>3, <3>1, <3>2, <1>0, <4>1, CurrentNext DEF LeaseInv, Holds
    <3>3. CASE nextRunAt'[i] = nextRunAt[i]
      <4>1. ASSUME NEW r \in Runners, pc[r] = "scan", LeaseFree(i, r), leaseUntil'[i] = seen[r] + LeaseEvery
            PROVE  u + LeaseEvery > leaseUntil[i]
        <5>1. leasedBy[i] = r => leaseUntil[i] <= seen[r] + LeaseEvery
          BY <2>0, <4>1, Zenon DEF LeaseInv, Reading
        <5>2. leasedBy[i] # r => leaseUntil[i] < clock
          BY <2>0, <4>1, FreeLease, Zenon
        <5> QED
          BY <1>0, <1>3, <2>0, <4>1, <5>1, <5>2
      <4>2. u + LeaseEvery > leaseUntil[i]
        BY <1>3, <2>0, <4>1, LeaseStep, Zenon
      <4> QED
        BY <1>3, <2>0, <3>1, <3>3, <4>2, Zenon DEF LeaseInv
    <3> QED
      BY <2>0, <2>2, <3>2, <3>3, RowsStep
  <2> QED
    BY <2>1, <2>2
<1> QED
  BY <1>1, <1>2, <1>3 DEF LeaseInv

LEMMA LeaseInit == Init => LeaseInv
  BY NobodyAssumption DEF Init, LeaseInv

\* A lease lasts at least as long as a scan should, by every runner's clock.
LeaseOutlastsScan == \A r \in Runners : LeaseEvery + Skew[r] >= MaxScan

\* next_run_at never moves back, except by the update of a runner whose own scan has
\* overrun: for any schedules and any number of schedulers, crashes and failures, when
\* a lease lasts at least as long as a scan should.
THEOREM NextRunMonotone == LeaseOutlastsScan => (Spec => NextRunAdvances)
<1> SUFFICES ASSUME LeaseOutlastsScan PROVE Spec => NextRunAdvances
  OBVIOUS
<1> DEFINE I == TypeInv /\ ScheduleInv /\ LeaseInv
           A == \A i \in rows \cap rows' :
                    \/ nextRunAt'[i] >= nextRunAt[i]
                    \/ \E r \in Runners : /\ pc[r] = "update" /\ pc'[r] # "update" /\ cur[r].spec = i
                                          /\ Now(r) > seen[r] + MaxScan
<1>1. Init => I
  BY TypeInit, ScheduleInit, LeaseInit
<1>2. I /\ [Next]_vars => I'
  BY TypeStep, ScheduleStep, LeaseInvStep
<1>3. I /\ [Next]_vars => A
  <2> SUFFICES ASSUME TypeInv, ScheduleInv, LeaseInv, [Next]_vars, NEW i \in rows \cap rows'
               PROVE  \/ nextRunAt'[i] >= nextRunAt[i]
                      \/ \E r \in Runners : /\ pc[r] = "update" /\ pc'[r] # "update" /\ cur[r].spec = i
                                            /\ Now(r) > seen[r] + MaxScan
    OBVIOUS
  <2>1. i \in Specs /\ nextRunAt[i] \in Nat
    BY DEF TypeInv, TypeOK
  <2>3. ASSUME NEW r \in Runners, pc[r] = "update", cur[r].spec = i,
               nextRunAt'[i] = nextAfter(i, cur[r].next, seen[r]), ~(Now(r) > seen[r] + MaxScan)
        PROVE  nextRunAt'[i] >= nextRunAt[i]
    <3> DEFINE x == nextAfter(i, cur[r].next, seen[r])
    <3>3. seen[r] \in Nat /\ clock \in Nat /\ LeaseEvery + Skew[r] >= MaxScan /\ ~(clock + Skew[r] > seen[r] + MaxScan)
      BY <2>3, StartAssumption DEF TypeInv, TypeOK, LeaseOutlastsScan, Now
    <3> HIDE DEF x
    <3> QED
      BY <2>3, CurrentNext, <3>3, StartAssumption, SkewAssumption, TimesAssumption DEF x, LeaseInv, Holds
  <2>4. ASSUME NEW r \in Runners, UpdateRecurringNextRun(r) PROVE pc'[r] # "update"
    BY <2>4, Zenon DEF UpdateRecurringNextRun, RowDone, Continue, TypeInv, TypeOK
  <2>5. CASE nextRunAt'[i] = nextRunAt[i]
    BY <2>1, <2>5
  <2>6. ~Create(i)
    BY <2>1, FirstRun, Zenon DEF ScheduleInv, Origin
  <2> QED
    BY <2>1, <2>3, <2>4, <2>5, <2>6, RowsStep, Zenon
<1> QED
  BY <1>1, <1>2, <1>3, PTL DEF Spec, NextRunAdvances
-----------------------------------------------------------------------------
(* One scheduler fires each period. *)

\* A lease lasts at least twice as long as a scan should, by every runner's clock.
LeaseCoversTwoScans == \A r \in Runners : LeaseEvery + Skew[r] >= 2 * MaxScan

Unfired(i, x) == \A t \in Times : t >= x => fired[i][t] = 0

\* No scan has overrun.
Timely == \A r \in Runners : pc[r] # "idle" => Now(r) <= seen[r] + MaxScan

\* A runner has every schedule once.
Distinct ==
    \A r \in Runners : \A e \in todo[r] :
        e.spec # cur[r].spec /\ \A d \in todo[r] : d.spec = e.spec => d = e

\* Whoever works on a row has listed it as it is.
Fresh ==
    \A r \in Runners : \A i \in rows : Holds(r, i) /\ pc[r] # "stuck" => cur[r].next = nextRunAt[i]

\* A row listed before someone moved it on is leased until after the end of the scan.
Shut ==
    \A r \in Runners : \A e \in todo[r] : e.spec \in rows /\ e.next # nextRunAt[e.spec] =>
        leasedBy[e.spec] # r /\ leaseUntil[e.spec] >= seen[r] - Skew[r] + MaxScan

\* No run is saved twice, nor before its turn.
Once ==
    \A i \in rows :
        /\ \A t \in Times : fired[i][t] <= 1
        /\ (\A r \in Runners : ~Holds(r, i)) => Unfired(i, nextRunAt[i])
        /\ \A r \in Runners : Holds(r, i) =>
              /\ pc[r] = "fire" => Unfired(i, FireTime(r))
              /\ pc[r] = "update" => Unfired(i, seen[r] + 1)

Orderly == Timely /\ Distinct /\ Fresh /\ Shut /\ Once

LEMMA HolderLease ==
    ASSUME LeaseCoversTwoScans, TypeInv, LeaseInv, Timely, NEW r \in Runners, NEW i \in rows, Holds(r, i)
    PROVE  leasedBy[i] = r /\ leaseUntil[i] >= clock + MaxScan /\ leaseUntil[i] \in Nat
<1>1. /\ clock \in Nat /\ seen[r] \in Nat /\ MaxScan \in Nat /\ LeaseEvery \in Nat /\ Skew[r] \in Int
      /\ leaseUntil[i] \in Nat
  BY TimesAssumption, StartAssumption, SkewAssumption DEF TypeInv, TypeOK
<1> QED
  BY <1>1 DEF LeaseInv, Timely, Holds, Now, LeaseCoversTwoScans

\* A runner that takes a lease has listed the row as it is, and nobody works on it.
LEMMA TakenLease ==
    ASSUME LeaseCoversTwoScans, TypeInv, LeaseInv, Timely, Shut, NEW r \in Runners, NEW e \in todo[r],
           e.spec \in rows, LeaseFree(e.spec, r), pc[r] = "scan"
    PROVE  e.next = nextRunAt[e.spec] /\ \A s \in Runners : ~Holds(s, e.spec)
<1>1. clock \in Nat /\ seen[r] \in Nat /\ MaxScan \in Nat /\ Skew[r] \in Int
      /\ leaseUntil[e.spec] \in Nat /\ e.spec \in Specs /\ clock > 0
  BY TimesAssumption, StartAssumption, SkewAssumption DEF TypeInv, TypeOK
<1>5. ASSUME NEW s \in Runners, Holds(s, e.spec) PROVE FALSE
  BY <1>5, <1>1, FreeLease, HolderLease DEF Holds
<1> QED
  BY <1>1, FreeLease, <1>5 DEF Shut, Timely, Now

LEMMA TimelyStep ==
    ASSUME TypeInv, TypeInv', Timely, [Next]_vars, disruptions' = 0
    PROVE  Timely'
<1> SUFFICES ASSUME NEW s \in Runners, pc'[s] # "idle" PROVE Now(s)' <= seen'[s] + MaxScan
  BY DEF Timely
<1>1. clock \in Nat /\ seen[s] \in Nat /\ MaxScan \in Nat /\ Skew[s] \in Int
  BY TimesAssumption, StartAssumption, SkewAssumption DEF TypeInv, TypeOK
<1>2. CASE Wake(s) /\ seen'[s] = Now(s)
  BY <1>1, <1>2 DEF Wake, Now
<1>3. CASE pc[s] # "idle" /\ seen'[s] = seen[s]
  BY CalmStep, ClockStep, <1>1, <1>3 DEF Timely, Overdue, Now
<1> QED
  BY <1>2, <1>3, SeenStep

LEMMA DistinctStep ==
    ASSUME TypeInv, TypeInv', Distinct, [Next]_vars, disruptions' = 0
    PROVE  Distinct'
<1> SUFFICES ASSUME NEW s \in Runners, NEW e \in todo'[s]
             PROVE  e.spec # cur'[s].spec /\ \A d \in todo'[s] : d.spec = e.spec => d = e
  BY DEF Distinct
<1>1. e.spec \in Specs
  BY DEF TypeInv, TypeOK, Listed
<1>3. CASE todo'[s] \subseteq {Row(i) : i \in rows} /\ cur'[s] = Nothing
  BY <1>1, NobodyAssumption, <1>3 DEF Row, Nothing
<1>4. CASE todo'[s] = todo[s] /\ cur'[s] \in {cur[s], Nothing}
  BY <1>1, NobodyAssumption, <1>4 DEF Distinct, Nothing
<1>5. CASE \E d \in todo[s] : todo'[s] = todo[s] \ {d} /\ cur'[s] = d
  BY <1>5, Zenon DEF Distinct
<1> QED
  BY <1>3, <1>4, <1>5, TodoStep

\* Schedules that a runner knows of are not made anew.
LEMMA KnownStays ==
    ASSUME TypeInv, ScheduleInv, [Next]_vars, NEW s \in Runners, NEW e \in Items(s), e # Nothing,
           e.spec \in rows'
    PROVE  e.spec \in rows /\ e.spec \in Specs /\ ~Create(e.spec)
<1>1. e.spec \in Specs /\ Origin(e.spec, e.next)
  BY DEF ScheduleInv, TypeInv, TypeOK, Items, Listed
<1> QED
  BY <1>1, FirstRun, RowsStep, Zenon DEF Origin

LEMMA FreshStep ==
    ASSUME LeaseCoversTwoScans, TypeInv, TypeInv', ScheduleInv, LeaseInv, Timely, Fresh, Shut,
           [Next]_vars, disruptions' = 0
    PROVE  Fresh'
<1> SUFFICES ASSUME NEW s \in Runners, NEW i \in rows', Holds(s, i)', pc'[s] # "stuck"
             PROVE  cur'[s].next = nextRunAt'[i]
  BY DEF Fresh
<1> TypeOK /\ i \in Specs
  BY Zenon DEF TypeInv, TypeOK
<1>1. CASE Holds(s, i) /\ pc[s] # "stuck" /\ cur'[s] = cur[s]
  <2>3. ASSUME NEW r \in Runners, pc[r] = "update", cur[r].spec = i, UpdateRecurringNextRun(r) PROVE FALSE
    <3>2. r = s
      BY <1>1, NobodyAssumption, KnownStays, <2>3, HolderLease DEF Holds, Items, Nothing
    <3> QED
      BY <2>3, <3>2, Zenon DEF UpdateRecurringNextRun, RowDone, Continue, TypeOK, Holds
  <2> QED
    BY <1>1, NobodyAssumption, KnownStays, <2>3, RowsStep DEF Fresh, Items, Holds, Nothing
<1>2. ASSUME cur'[s] \in todo[s], AcquireRecurringLease(s, cur'[s]) PROVE cur'[s].next = nextRunAt'[i]
  <2>1. i \in rows /\ LeaseFree(i, s) /\ pc[s] = "scan" /\ cur'[s].spec = i /\ nextRunAt' = nextRunAt
    BY <1>2, Zenon DEF AcquireRecurringLease, TypeOK, Holds
  <2> QED
    BY <1>2, <2>1, TakenLease
<1> QED
  BY <1>1, <1>2, WorkStep, Zenon DEF Holds, Same

LEMMA ShutStep ==
    ASSUME LeaseCoversTwoScans, TypeInv, TypeInv', ScheduleInv, LeaseInv, Timely, Distinct, Shut,
           [Next]_vars, disruptions' = 0
    PROVE  Shut'
<1> SUFFICES ASSUME NEW s \in Runners, NEW e \in todo'[s], e.spec \in rows', e.next # nextRunAt'[e.spec]
             PROVE  /\ leasedBy'[e.spec] # s
                    /\ leaseUntil'[e.spec] >= seen'[s] - Skew[s] + MaxScan
  BY DEF Shut
<1> DEFINE i == e.spec
<1>1. e \in todo[s] /\ seen'[s] = seen[s]
  <2>1. ~ListRecurring(s) \/ ~(todo'[s] \subseteq {Row(j) : j \in rows})
    BY DEF ListRecurring, rowVars, Row
  <2>3. pc'[s] \notin {"idle", "list"}
    BY Zenon DEF TypeInv, RunnerInv
  <2> QED
    BY <2>1, TodoStep, <2>3, SeenStep
<1>2. i \in rows /\ i \in Specs /\ ~Create(i)
  <2>1. e \in Items(s) /\ e # Nothing
    BY <1>1, NobodyAssumption DEF Items, Nothing, TypeInv, TypeOK, Listed
  <2> QED
    BY <2>1, KnownStays
<1>3. /\ clock \in Nat /\ clock > 0 /\ seen[s] \in Nat /\ MaxScan \in Nat /\ Skew[s] \in Int
      /\ leaseUntil[i] \in Nat /\ seen[s] <= clock + Skew[s]
  <2>1. TypeOK /\ RunnerInv(s)
    BY Zenon DEF TypeInv
  <2>2. clock \in Nat /\ clock > 0
    BY <2>1, StartAssumption DEF TypeOK
  <2>3. MaxScan \in Nat /\ Skew[s] \in Int
    BY TimesAssumption, StartAssumption, SkewAssumption
  <2> QED
    BY <1>2, <2>1, <2>2, <2>3 DEF TypeOK, RunnerInv, Now
<1> TypeOK
  BY Zenon DEF TypeInv
<1> HIDE DEF i
<1>5. CASE e.next # nextRunAt[i]
  <2>2. ASSUME NEW r \in Runners, LeaseFree(i, r), pc[r] = "scan", leaseUntil'[i] = seen[r] + LeaseEvery,
               leasedBy'[i] = r
        PROVE  leasedBy'[i] # s /\ leaseUntil'[i] >= seen[s] - Skew[s] + MaxScan
    <3>3. seen[r] \in Nat /\ Skew[r] \in Int /\ LeaseEvery \in Nat
      BY TimesAssumption, StartAssumption, SkewAssumption DEF TypeOK
    <3>4. leasedBy[i] # s /\ leaseUntil[i] >= seen[s] - Skew[s] + MaxScan
      BY <1>1, <1>2, <1>5, Zenon DEF Shut, i
    <3>5. clock + Skew[r] <= seen[r] + MaxScan /\ LeaseEvery + Skew[r] >= 2 * MaxScan
      BY <2>2, Zenon DEF Timely, Now, LeaseCoversTwoScans
    <3>6. leasedBy[i] # r => leaseUntil[i] < clock
      BY <1>2, <2>2, FreeLease, Zenon
    <3>7. r # s
      BY <1>3, <3>3, <3>4, <3>5, <3>6
    <3> QED
      BY <1>3, <2>2, <3>3, <3>5, <3>7
  <2> QED
    BY <1>1, <1>2, <1>5, <2>2, CalmStep, LeaseStep DEF i, Failure, Shut
<1>6. CASE e.next = nextRunAt[i]
  <2>1. PICK r \in Runners : pc[r] = "update" /\ cur[r].spec = i /\ UpdateRecurringNextRun(r)
    BY <1>2, <1>6, RowsStep DEF i
  <2>2. Holds(r, i) /\ leasedBy' = leasedBy /\ leaseUntil' = leaseUntil
    BY <2>1 DEF Holds, UpdateRecurringNextRun, RowDone
  <2>3. leasedBy[i] = r /\ leaseUntil[i] >= clock + MaxScan
    BY <1>2, <2>2, HolderLease, Zenon
  <2>4. r # s
    BY <1>1, <2>1, Zenon DEF i, Distinct
  <2> QED
    BY <1>1, <1>3, <2>2, <2>3, <2>4 DEF i
<1> QED
  BY <1>5, <1>6

\* A runner ends its work on a row with the update.
LEMMA WorkEnds ==
    ASSUME TypeInv, [Next]_vars, disruptions' = 0, NEW s \in Runners, NEW i, Holds(s, i), ~Holds(s, i)'
    PROVE  pc[s] = "update" /\ UpdateRecurringNextRun(s)
<1> TypeOK
  BY DEF TypeInv
<1>2. ~Wake(s) /\ ~ListRecurring(s) /\ ~LeaseSpecExists(s) /\ ~\E e \in todo[s] : AcquireRecurringLease(s, e)
  BY Zenon DEF Wake, ListRecurring, LeaseSpecExists, AcquireRecurringLease, Holds
<1>3. ~Fire(s)
  BY Zenon DEF Fire, FireDone, TypeOK, Holds
<1> QED
  BY <1>2, <1>3, CalmStep DEF RunnerStep, UpdateRecurringNextRun, Same, Holds

\* The fire that follows a fire is for a later run.
LEMMA NextFireLater ==
    ASSUME TypeInv, TypeInv', NEW r \in Runners, Fire(r), pc[r] = "fire", pc'[r] = "fire",
           cur'[r] = cur[r], seen'[r] = seen[r], k'[r] = k[r] + 1
    PROVE  FireTime(r)' \in Nat /\ FireTime(r) < FireTime(r)'
<1> DEFINE i == cur[r].spec
           x == cur[r].next
           K == ExtraFires(i, x, seen[r])
<1>1. i \in Specs /\ x \in Nat /\ seen[r] \in Nat /\ x <= seen[r]
  BY FireTimePast, Zenon DEF TypeInv, TypeOK, RunnerInv, Listed
<1> HIDE DEF i, x
<1>2. K \in 0..MaxCatchup /\ Passed(i, x, seen[r], K)
  BY <1>1, ExtraFiresBounds, Zenon
<1>3. K \in Nat /\ k[r] \in Nat /\ k[r] + 1 <= K
  <2>1. k[r] + 1 <= K
    BY Zenon DEF TypeInv, RunnerInv, i, x
  <2> QED
    BY <1>2, <2>1, CatchupAssumption DEF TypeInv, TypeOK
<1> HIDE DEF K
<1> QED
  BY <1>1, <1>2, <1>3, PassedIncreases DEF FireTime, i, x

\* After a fire of i.
LEMMA OnceAfterFire ==
    ASSUME LeaseCoversTwoScans, TypeInv, TypeInv', LeaseInv, Timely, Once, NEW i \in rows,
           NEW r \in Runners, Fire(r), cur[r].spec = i
    PROVE  /\ \A t \in Times : fired'[i][t] <= 1
           /\ Holds(r, i)'
           /\ \A s \in Runners : Holds(s, i)' =>
                 /\ pc'[s] = "fire" => Unfired(i, FireTime(s))'
                 /\ pc'[s] = "update" => Unfired(i, seen[s] + 1)'
<1> DEFINE t0 == FireTime(r)
<1> TypeOK /\ i \in Specs
  BY Zenon DEF TypeInv, TypeOK
<1> Times \subseteq Nat /\ seen[r] \in Nat
  BY DEF TypeOK, Times
<1>1. Holds(r, i) /\ pc[r] = "fire"
  BY DEF Fire, Holds
<1>2. /\ t0 \in Times /\ t0 <= seen[r]
      /\ \A t \in Times : fired[i][t] \in Nat /\ fired[i][t] <= 1 /\ (t >= t0 => fired[i][t] = 0)
  BY <1>1, FireTimePast DEF Once, Unfired, TypeOK
<1>3. \A t \in Times : fired'[i][t] = IF t = t0 THEN fired[i][t] + 1 ELSE fired[i][t]
  BY Zenon DEF Fire, TypeOK
<1>4. Holds(r, i)' /\ cur'[r] = cur[r] /\ seen'[r] = seen[r] /\ (pc'[r] = "fire" => k'[r] = k[r] + 1)
  BY <1>1, Zenon DEF Fire, FireDone, TypeOK, Holds
<1> HIDE DEF t0
<1>6. ASSUME pc'[r] = "fire" PROVE Unfired(i, FireTime(r))'
  <2>1. t0 < FireTime(r)' /\ FireTime(r)' \in Nat
    BY <1>1, <1>4, <1>6, NextFireLater, Zenon DEF t0
  <2>2. ASSUME NEW t \in Times, t >= FireTime(r)' PROVE t >= t0 /\ t # t0
    <3>1. t \in Nat /\ t0 \in Nat
      BY <1>2, Zenon
    <3> QED
      BY <2>1, <2>2, <3>1
  <2> QED
    BY <1>2, <1>3, <2>2, Zenon DEF Unfired
<1>8. ASSUME NEW s \in Runners, Holds(s, i)' PROVE s = r
  <2>1. Holds(s, i) \/ s = r
    BY <1>8, Zenon DEF Fire, FireDone, TypeOK, Holds
  <2> QED
    BY <1>1, <2>1, HolderLease, Zenon
<1>9. \A t \in Times : fired'[i][t] <= 1
  <2>1. t0 >= t0 /\ 0 + 1 <= 1
    BY <1>2 DEF Times
  <2> QED
    BY <1>2, <1>3, <2>1, Zenon
<1>10. Unfired(i, seen[r] + 1)'
  <2> SUFFICES ASSUME NEW t \in Times, t >= seen[r] + 1 PROVE fired'[i][t] = 0
    BY <1>4, Zenon DEF Unfired
  <2>1. t >= t0 /\ t # t0
    <3>1. t \in Nat /\ t0 \in Nat /\ t0 <= seen[r]
      BY <1>2, Zenon
    <3> QED
      BY <3>1
  <2> QED
    BY <1>2, <1>3, <2>1, Zenon
<1> QED
  BY <1>4, <1>6, <1>8, <1>9, <1>10, Zenon

\* When nobody works on i after a step that saves no job for it.
LEMMA OnceWhenFree ==
    ASSUME TypeInv, TypeInv', ScheduleInv, Once, [Next]_vars, disruptions' = 0, NEW i \in rows,
           \A t \in Times : fired'[i][t] = fired[i][t], ~Create(i), i \in rows',
           \A r \in Runners : ~Holds(r, i)'
    PROVE  Unfired(i, nextRunAt[i])'
<1> TypeOK /\ i \in Specs
  BY Zenon DEF TypeInv, TypeOK
<1>1. CASE \A r \in Runners : ~Holds(r, i)
  <2>1. nextRunAt'[i] = nextRunAt[i]
    BY <1>1, RowsStep, Zenon DEF Holds
  <2> QED
    BY <1>1, <2>1, Zenon DEF Once, Unfired
<1>2. ASSUME NEW r \in Runners, Holds(r, i) PROVE Unfired(i, nextRunAt[i])'
  <2>1. pc[r] = "update" /\ UpdateRecurringNextRun(r) /\ cur[r].spec = i
    BY <1>2, WorkEnds, Zenon DEF Holds
  <2>2. nextRunAt'[i] = nextAfter(i, cur[r].next, seen[r])
    BY <2>1, Zenon DEF UpdateRecurringNextRun, Moved, TypeOK
  <2>3. nextRunAt'[i] \in Nat /\ nextRunAt'[i] > seen[r] /\ seen[r] \in Nat
    <3>1. seen[r] \in Nat
      BY DEF TypeOK
    <3>2. nextAfter(i, cur[r].next, seen[r]) \in Nat /\ nextAfter(i, cur[r].next, seen[r]) > seen[r]
      BY <2>1, CurrentNext, Zenon
    <3> QED
      BY <2>2, <3>1, <3>2, Zenon
  <2>4. Unfired(i, seen[r] + 1)
    BY <1>2, <2>1, Zenon DEF Once
  <2>5. ASSUME NEW t \in Times, t >= nextRunAt'[i] PROVE t >= seen[r] + 1
    BY <2>3, <2>5 DEF Times
  <2> QED
    BY <2>4, <2>5, Zenon DEF Unfired
<1> QED
  BY <1>1, <1>2

\* When r works on i after a step that saves no job for it.
LEMMA OnceWhenHeld ==
    ASSUME LeaseCoversTwoScans, TypeInv, TypeInv', LeaseInv, Timely, Shut, Once, [Next]_vars,
           disruptions' = 0, NEW i \in rows, \A t \in Times : fired'[i][t] = fired[i][t],
           NEW r \in Runners, Holds(r, i)', ~(Fire(r) /\ cur[r].spec = i)
    PROVE  /\ pc'[r] = "fire" => Unfired(i, FireTime(r))'
           /\ pc'[r] = "update" => Unfired(i, seen[r] + 1)'
<1> TypeOK /\ i \in Specs
  BY Zenon DEF TypeInv, TypeOK
<1>1. CASE Same(r)
  <2>1. Holds(r, i) /\ FireTime(r)' = FireTime(r) /\ pc'[r] = pc[r] /\ seen'[r] = seen[r]
    BY <1>1, Zenon DEF Same, Holds, FireTime
  <2>2. /\ pc[r] = "fire" => Unfired(i, FireTime(r))
        /\ pc[r] = "update" => Unfired(i, seen[r] + 1)
    BY <2>1, Zenon DEF Once
  <2> QED
    BY <2>1, <2>2, Zenon DEF Unfired
<1>2. ASSUME cur'[r] \in todo[r], AcquireRecurringLease(r, cur'[r]), pc'[r] = "fire", k'[r] = 0
      PROVE  Unfired(i, FireTime(r))'
  <2>1. LeaseFree(i, r) /\ pc[r] = "scan" /\ cur'[r].spec = i
    BY <1>2, Zenon DEF AcquireRecurringLease, TypeOK, Holds
  <2>2. cur'[r].next = nextRunAt[i] /\ \A s \in Runners : ~Holds(s, i)
    BY <1>2, <2>1, TakenLease, Zenon
  <2>3. FireTime(r)' = nextRunAt[i]
    <3>1. nextRunAt[i] \in Nat
      BY DEF TypeOK
    <3>2. Iterate(i, nextRunAt[i], 0) = nextRunAt[i]
      BY <3>1, IterateSteps, Zenon
    <3> QED
      BY <1>2, <2>1, <2>2, <3>2, Zenon DEF FireTime
  <2> QED
    BY <2>2, <2>3, Zenon DEF Once, Unfired
<1>4. ~SaveFails(r) /\ ~(Fire(r) /\ cur'[r] = cur[r])
  BY CalmStep, Zenon DEF Failure, Holds
<1> QED
  BY <1>1, <1>2, <1>4, WorkStep, Zenon DEF Holds

LEMMA OnceStep ==
    ASSUME LeaseCoversTwoScans, TypeInv, TypeInv', ScheduleInv, LeaseInv, Timely, Shut, Once,
           [Next]_vars, disruptions' = 0
    PROVE  Once'
<1> SUFFICES ASSUME NEW i \in rows'
             PROVE  /\ \A t \in Times : fired'[i][t] <= 1
                    /\ (\A r \in Runners : ~Holds(r, i)') => Unfired(i, nextRunAt[i])'
                    /\ \A r \in Runners : Holds(r, i)' =>
                          /\ pc'[r] = "fire" => Unfired(i, FireTime(r))'
                          /\ pc'[r] = "update" => Unfired(i, seen[r] + 1)'
  BY Zenon DEF Once
<1> i \in Specs
  BY Zenon DEF TypeInv, TypeOK
<1>1. CASE Create(i)
  <2>1. fired' = fired /\ anchor[i] = -1
    BY <1>1, FirstRun, Zenon DEF Create
  <2>2. \A t \in Times : fired[i][t] \in Nat /\ ~(fired[i][t] > 0)
    <3>1. TypeOK
      BY Zenon DEF TypeInv
    <3> QED
      BY <2>1, <3>1, Zenon DEF ScheduleInv, TypeOK
  <2> QED
    BY <2>1, <2>2 DEF Unfired
<1>2. ASSUME ~Create(i) PROVE i \in rows
  BY <1>2, RowsStep, Zenon
<1>3. CASE ~Create(i) /\ \E r \in Runners : Fire(r) /\ cur[r].spec = i
  BY <1>2, <1>3, OnceAfterFire, Zenon
<1>4. CASE ~Create(i) /\ \A r \in Runners : ~(Fire(r) /\ cur[r].spec = i)
  <2>1. \A t \in Times : fired'[i][t] = fired[i][t] /\ fired[i][t] <= 1
    BY <1>2, <1>4, FiredStep DEF Once
  <2> QED
    BY <1>2, <1>4, <2>1, OnceWhenFree, OnceWhenHeld, Zenon
<1> QED
  BY <1>1, <1>3, <1>4, Zenon

\* Exactly one scheduler fires each period: without crashes, failed calls and overrun
\* scans no run of a schedule is saved twice, for any schedules and any number of
\* schedulers, when a lease covers two scans on every scheduler's clock.
THEOREM OneFirePerRun == LeaseCoversTwoScans => (Spec => [](disruptions = 0 => DuplicatesNeedDisruptions))
<1> SUFFICES ASSUME LeaseCoversTwoScans PROVE Spec => [](disruptions = 0 => DuplicatesNeedDisruptions)
  BY Zenon
<1> DEFINE I == TypeInv /\ ScheduleInv /\ LeaseInv /\ (disruptions = 0 => Orderly)
<1>1. Init => I
  <2> SUFFICES ASSUME Init PROVE Orderly
    BY TypeInit, ScheduleInit, LeaseInit
  <2> QED
    BY DEF Orderly, Timely, Distinct, Fresh, Shut, Once, Init
<1>2. I /\ [Next]_vars => I'
  <2> SUFFICES ASSUME TypeInv, TypeInv', ScheduleInv, LeaseInv, disruptions = 0 => Orderly, [Next]_vars,
                      disruptions' = 0
               PROVE  Orderly'
    BY TypeStep, ScheduleStep, LeaseInvStep
  <2>1. Timely /\ Distinct /\ Fresh /\ Shut /\ Once
    BY CalmStep DEF Orderly
  <2>2. Timely' /\ Distinct'
    BY <2>1, TimelyStep, DistinctStep, Zenon
  <2>3. Fresh' /\ Shut'
    BY <2>1, FreshStep, ShutStep, Zenon
  <2> QED
    BY <2>1, <2>2, <2>3, OnceStep, Zenon DEF Orderly
<1>3. I => (disruptions = 0 => DuplicatesNeedDisruptions)
  <2> SUFFICES ASSUME Once, disruptions = 0, NEW i \in rows, NEW t \in Times
               PROVE  fired[i][t] <= 1 + disruptions
    BY Zenon DEF Orderly, DuplicatesNeedDisruptions
  <2>1. fired[i][t] <= 1
    BY Zenon DEF Once
  <2>2. 1 + disruptions = 1
    OBVIOUS
  <2> QED
    BY <2>1, <2>2, Zenon
<1> QED
  BY <1>1, <1>2, <1>3, PTL DEF Spec
=============================================================================
