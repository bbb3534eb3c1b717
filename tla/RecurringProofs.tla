-------------------------- MODULE RecurringProofs --------------------------
(***************************************************************************)
(* What holds of recurring schedules whatever runners stall, crash or      *)
(* overtake each other: a deleted schedule falls silent, run times do not  *)
(* drift, and catching up misses nothing.  Then, how leases change hands.  *)
(***************************************************************************)
EXTENDS RecurringTypes

-----------------------------------------------------------------------------
(* What a step does to the jobs, to the clock and to a runner's work. *)

\* Jobs are saved by Fire only, and no record of a run is lost.
LEMMA FiredStep ==
    ASSUME TypeInv, [Next]_vars, NEW i \in Specs, NEW t \in Times
    PROVE  /\ \/ fired'[i][t] = fired[i][t]
              \/ \E r \in Runners : /\ Fire(r) /\ pc[r] = "fire" /\ cur[r].spec = i /\ FireTime(r) = t
                                    /\ fired'[i][t] = fired[i][t] + 1
           /\ lost \subseteq lost'
<1>0. TypeOK
  BY Zenon DEF TypeInv
<1>1. CASE UNCHANGED <<fired, lost>>
  BY <1>1
<1>2. ASSUME NEW r \in Runners, Fire(r)
      PROVE  /\ fired'[i][t] = fired[i][t]
                \/ (cur[r].spec = i /\ FireTime(r) = t /\ fired'[i][t] = fired[i][t] + 1)
             /\ lost' = lost
  <2>1. fired' = [fired EXCEPT ![cur[r].spec][FireTime(r)] = @ + 1] /\ lost' = lost
    BY <1>2, Zenon DEF Fire
  <2> QED
    BY <1>0, <2>1 DEF TypeOK
<1>3. ASSUME NEW r \in Runners, SaveFails(r)
      PROVE  UNCHANGED fired /\ lost \subseteq lost'
  BY <1>3 DEF SaveFails
<1>4. ASSUME NEW r \in Runners, RunnerStep(r) \/ Failure(r), ~Fire(r), ~SaveFails(r)
      PROVE  UNCHANGED <<fired, lost>>
  BY <1>4, Zenon DEF RunnerStep, Failure, Wake, ListRecurring, ListFails, AcquireRecurringLease,
     LeaseSpecExists, LeaseFails, ExistsFails, Skip, UpdateRecurringNextRun, UpdateFails, RowDone,
     Crash
<1>5. CASE \E r \in Runners : Fire(r)
  BY <1>2, <1>5, Zenon DEF Fire
<1>6. CASE \E r \in Runners : SaveFails(r)
  BY <1>3, <1>6
<1>7. CASE Tick \/ UNCHANGED vars \/ \E j \in Specs : Create(j) \/ DeleteRecurring(j)
  BY <1>7, Zenon DEF Tick, vars, Create, DeleteRecurring
<1> QED
  BY <1>4, <1>5, <1>6, <1>7, Zenon DEF Next

\* Only Tick moves the clock, by one.
LEMMA ClockStep ==
    ASSUME TypeInv, [Next]_vars
    PROVE  /\ clock' = clock \/ (Tick /\ clock' = clock + 1)
           /\ clock \in Nat /\ clock > 0
           /\ \A r \in Runners : Now(r) \in Nat /\ Now(r)' \in Nat /\ Now(r) <= Now(r)'
<1>1. Tick => clock' = clock + 1
  BY DEF Tick
<1>2. ASSUME NEW r \in Runners, RunnerStep(r) \/ Failure(r) PROVE clock' = clock
  BY <1>2, Zenon DEF RunnerStep, Failure, Wake, ListRecurring, ListFails, AcquireRecurringLease,
     LeaseSpecExists, LeaseFails, ExistsFails, Skip, Fire, SaveFails, FireDone,
     UpdateRecurringNextRun, UpdateFails, RowDone, Crash
<1> QED
  BY <1>1, <1>2, StartAssumption, SkewAssumption DEF Now, TypeInv, TypeOK, Next, Create, DeleteRecurring, vars

\* How a runner gets to where it saves jobs and writes the next run.
LEMMA WorkStep ==
    ASSUME TypeInv, [Next]_vars, NEW s \in Runners, pc'[s] \in {"fire", "update", "stuck"}
    PROVE  \/ Same(s)
           \/ /\ Fire(s) \/ SaveFails(s)
              /\ pc[s] = "fire" /\ cur'[s] = cur[s] /\ seen'[s] = seen[s]
              /\ IF k[s] = ExtraFires(cur[s].spec, cur[s].next, seen[s])
                   THEN pc'[s] # "fire"
                   ELSE pc'[s] = "fire" /\ k'[s] = k[s] + 1
           \/ /\ pc'[s] = "fire" /\ k'[s] = 0
              /\ \/ cur[s].spec \notin rows /\ cur'[s] = cur[s] /\ rows' = rows
                 \/ cur'[s] \in todo[s] /\ AcquireRecurringLease(s, cur'[s])
<1> TypeOK /\ RunnerInv(s)
  BY DEF TypeInv
<1>1. CASE Fire(s) \/ SaveFails(s)
  BY <1>1, Zenon DEF Fire, SaveFails, FireDone, TypeOK
<1>2. ASSUME NEW left, Continue(s, left) PROVE FALSE
  BY <1>2 DEF Continue, TypeOK
<1>3. ~Wake(s)
  BY Zenon DEF Wake, TypeOK
<1>4. CASE LeaseSpecExists(s)
  BY <1>2, <1>4, Zenon DEF LeaseSpecExists, Skip, TypeOK, RunnerInv, rowVars
<1>5. ASSUME NEW e \in todo[s], AcquireRecurringLease(s, e)
      PROVE  cur'[s] = e /\ pc'[s] = "fire" /\ k'[s] = 0
  BY <1>5, Zenon DEF AcquireRecurringLease, TypeOK, RunnerInv
<1>6. Failure(s) => SaveFails(s)
  BY <1>2, Zenon DEF Failure, ListFails, ExistsFails, UpdateFails, Crash, LeaseFails, Skip, RowDone
<1>7. ~ListRecurring(s) /\ ~UpdateRecurringNextRun(s)
  BY <1>2, Zenon DEF ListRecurring, UpdateRecurringNextRun, RowDone
<1> QED
  BY <1>1, <1>3, <1>4, <1>5, <1>6, <1>7, LocalStep, Zenon DEF RunnerStep

\* Without disruptions no call fails and no scan overruns.
LEMMA CalmStep ==
    ASSUME TypeInv, [Next]_vars, disruptions' = 0
    PROVE  /\ disruptions = 0
           /\ Tick => \A r \in Runners : ~Overdue(r)
           /\ \A s \in Runners : ~Failure(s) /\ (RunnerStep(s) \/ Same(s))
<1>1. ~Disrupt
  BY DEF Disrupt, TypeInv, TypeOK
<1>2. \A s \in Runners : ~Failure(s)
  BY <1>1, Zenon DEF Failure, ListFails, ExistsFails, SaveFails, UpdateFails, Crash, LeaseFails
<1>3. ASSUME NEW s \in Runners, RunnerStep(s) PROVE disruptions' = disruptions
  BY <1>3, Zenon DEF RunnerStep, Wake, ListRecurring, LeaseSpecExists, Fire, UpdateRecurringNextRun,
     AcquireRecurringLease
<1>4. Tick => disruptions' = disruptions /\ \A r \in Runners : ~Overdue(r)
  BY <1>1 DEF Tick
<1> QED
  BY <1>2, <1>4, <1>3, LocalStep DEF Next, Create, DeleteRecurring, vars

\* The lease of a runner at work is its own and outlasts its scan.
\* How a listed row gets there, and where it goes.
LEMMA TodoStep ==
    ASSUME TypeInv, [Next]_vars, disruptions' = 0, NEW s \in Runners
    PROVE  \/ ListRecurring(s) /\ todo'[s] \subseteq {Row(i) : i \in rows} /\ cur'[s] = Nothing
           \/ todo'[s] = todo[s] /\ cur'[s] \in {cur[s], Nothing}
           \/ \E e \in todo[s] : todo'[s] = todo[s] \ {e} /\ cur'[s] = e
<1> TypeOK /\ RunnerInv(s)
  BY DEF TypeInv
<1>1. CASE ListRecurring(s)
  BY <1>1, Zenon DEF ListRecurring, Continue, Row, TypeOK, RunnerInv
<1>2. CASE Wake(s) \/ Fire(s)
  BY <1>2, Zenon DEF Wake, Fire, FireDone
<1>3. CASE LeaseSpecExists(s) \/ UpdateRecurringNextRun(s)
  BY <1>3, Zenon DEF LeaseSpecExists, UpdateRecurringNextRun, RowDone, Skip, Continue, TypeOK
<1>4. CASE \E e \in todo[s] : AcquireRecurringLease(s, e)
  BY <1>4 DEF AcquireRecurringLease, TypeOK
<1>5. CASE Same(s)
  BY <1>5 DEF Same
<1> QED
  BY <1>1, <1>2, <1>3, <1>4, <1>5, CalmStep, Zenon DEF RunnerStep
-----------------------------------------------------------------------------
(* Deleted schedules. *)

\* Schedules in the table have been made, and what is deleted stays deleted.
DeadInv ==
    /\ \A i \in rows : anchor[i] # -1
    /\ \A r \in Runners : dead[r] \subseteq Deleted
    /\ \A r \in Runners : \A e \in Items(r) : e.spec \notin dead[r]

LEMMA DeadInvStep == TypeInv /\ TypeInv' /\ DeadInv /\ [Next]_vars => DeadInv'
\* What a runner knows to be deleted changes when a scan begins or ends.
<1>DeadStep. ASSUME TypeInv, [Next]_vars, NEW s \in Runners
             PROVE  dead'[s] \subseteq dead[s] \/ (Wake(s) /\ dead'[s] = Deleted)
  <2> USE <1>DeadStep
  <2>1. ASSUME NEW r \in Runners, Wake(r)
        PROVE  dead'[s] = dead[s] \/ (r = s /\ dead'[s] = Deleted)
    BY <2>1 DEF Wake, TypeOK, TypeInv
  <2>2. ASSUME NEW r \in Runners, RunnerStep(r) \/ Failure(r), ~Wake(r)
        PROVE  dead'[s] \subseteq dead[s]
    <3>1. ASSUME NEW left, Continue(r, left) PROVE dead'[s] \subseteq dead[s]
      BY <3>1 DEF Continue, TypeOK, TypeInv
    <3>2. UNCHANGED dead \/ \E left : Continue(r, left)
      BY <2>2, Zenon DEF RunnerStep, Failure, ListRecurring, ListFails, AcquireRecurringLease,
         LeaseSpecExists, LeaseFails, ExistsFails, Skip, Fire, SaveFails, FireDone,
         UpdateRecurringNextRun, UpdateFails, RowDone, Crash
    <3> QED
      BY <3>1, <3>2
  <2>3. CASE Tick \/ UNCHANGED vars \/ \E j \in Specs : Create(j) \/ DeleteRecurring(j)
    BY <2>3 DEF Tick, vars, Create, DeleteRecurring
  <2> QED
    BY <2>1, <2>2, <2>3 DEF Next
<1> SUFFICES ASSUME TypeInv, TypeInv', DeadInv, [Next]_vars PROVE DeadInv'
  OBVIOUS
<1>1. ASSUME NEW i \in Specs, Create(i) PROVE anchor[i] = -1 /\ anchor'[i] # -1
  <2>1. anchor[i] = -1 /\ anchor \in [Specs -> Nat \cup {-1}] /\ anchor'[i] = advance(i, clock)
    BY <1>1 DEF TypeOK, Create, UpsertRecurring, TypeInv
  <2>2. clock \in Nat
    BY StartAssumption DEF TypeOK, TypeInv
  <2> QED
    BY <2>1, <2>2, AdvanceNat
<1>2. \A i \in rows' : anchor'[i] # -1
  <2> TAKE i \in rows'
  <2>1. i \in Specs
    BY Zenon DEF TypeOK, TypeInv
  <2>2. CASE Create(i)
    BY <1>1, <2>1, <2>2
  <2>3. CASE ~Create(i)
    BY <2>1, <2>3, RowsStep DEF DeadInv
  <2> QED
    BY <2>2, <2>3
<1>3. Deleted \subseteq Deleted'
  BY <1>1, RowsStep DEF Deleted
<1>4. ASSUME NEW s \in Runners PROVE dead'[s] \subseteq Deleted' /\ \A e \in Items(s)' : e.spec \notin dead'[s]
  <2>1. CASE dead'[s] \subseteq dead[s]
    BY NobodyAssumption, <1>3, <2>1, ItemsStep DEF DeadInv, TypeOK, Nothing, Row, Deleted
  <2>2. CASE Wake(s) /\ dead'[s] = Deleted
    <3>1. RunnerInv(s) /\ pc[s] = "idle" /\ todo'[s] = todo[s] /\ cur'[s] = cur[s]
      BY <2>2 DEF Wake, TypeInv
    <3> QED
      BY <1>3, <2>2, <3>1, NobodyAssumption DEF Nothing, Deleted, RunnerInv, Items
  <2> QED
    BY <2>1, <2>2, <1>DeadStep
<1> QED
  BY <1>2, <1>4 DEF DeadInv

\* DeleteRecurring silences a schedule: a scan that begins after it saves no job for
\* it, whatever the runners do and however late their calls are.
THEOREM SilenceAfterDelete == Spec => []DeletedFallsSilent
<1>1. Init => TypeInv /\ DeadInv
  BY TypeInit DEF Init, DeadInv
<1>2. TypeInv /\ DeadInv /\ [Next]_vars => (TypeInv /\ DeadInv)'
  BY TypeStep, DeadInvStep
<1>3. DeadInv => DeletedFallsSilent
  BY DEF DeadInv, DeletedFallsSilent, Items
<1> QED
  BY <1>1, <1>2, <1>3, PTL DEF Spec

-----------------------------------------------------------------------------
(* No drift. *)

\* t is a time that the runner may take for a run of i.
Origin(i, t) == anchor[i] # -1 /\ t >= anchor[i] /\ (anchor[i] > 0 => OnSchedule(i, t))

\* Rows and listed rows are on schedule, and so is every saved job.
ScheduleInv ==
    /\ \A i \in Specs : Every[i] > 0 => anchor[i] # 0
    /\ \A i \in rows : Origin(i, nextRunAt[i])
    /\ \A r \in Runners : \A e \in Items(r) \ {Nothing} : Origin(e.spec, e.next)
    /\ \A i \in Specs : \A t \in Times : fired[i][t] > 0 =>
           /\ anchor[i] # -1
           /\ anchor[i] > 0 => OnSchedule(i, t)
           /\ \E r \in Runners : t <= Now(r)

\* A listed row that a runner works on, and what nextAfter makes of it.
LEMMA CurrentRow ==
    ASSUME TypeInv, ScheduleInv, NEW r \in Runners, pc[r] \in {"exists", "fire", "update", "stuck"}
    PROVE  /\ cur[r].spec \in Specs /\ cur[r].next \in Nat /\ seen[r] \in Nat
           /\ cur[r].next <= seen[r]
           /\ anchor[cur[r].spec] \in Nat
           /\ Origin(cur[r].spec, cur[r].next)
           /\ Every[cur[r].spec] > 0 => IsRun(cur[r].spec, anchor[cur[r].spec], cur[r].next)
<1>1. RunnerInv(r) /\ TypeOK
  BY DEF TypeInv
<1>2. cur[r] \in Listed /\ cur[r] \in Items(r) /\ cur[r].next <= seen[r]
  BY <1>1 DEF RunnerInv, Items
<1>3. cur[r].spec \in Specs /\ cur[r].next \in Nat /\ seen[r] \in Nat
  BY <1>1, <1>2 DEF Listed, TypeOK
<1>5. Origin(cur[r].spec, cur[r].next)
  BY <1>2, <1>3, NobodyAssumption DEF ScheduleInv, Nothing
<1>6. anchor[cur[r].spec] \in Nat
  BY <1>1, <1>3, <1>5 DEF Origin, TypeOK
<1>7. Every[cur[r].spec] > 0 => IsRun(cur[r].spec, anchor[cur[r].spec], cur[r].next)
  BY <1>3, <1>5, <1>6 DEF ScheduleInv, Origin, OnSchedule
<1> QED
  BY <1>2, <1>3, <1>5, <1>6, <1>7

\* The next run that an update writes.
LEMMA CurrentNext ==
    ASSUME TypeInv, ScheduleInv, NEW r \in Runners, pc[r] = "update"
    PROVE  LET i == cur[r].spec
               x == nextAfter(i, cur[r].next, seen[r])
           IN  /\ x \in Nat /\ x > seen[r]
               /\ IsRun(i, anchor[i], x)
               /\ \A u \in Nat : IsRun(i, anchor[i], u) /\ u > seen[r] => x <= u
<1> DEFINE i == cur[r].spec
           t == cur[r].next
           now == seen[r]
<1>1. /\ i \in Specs /\ t \in Nat /\ now \in Nat /\ t <= now /\ anchor[i] \in Nat
      /\ anchor[i] <= t
      /\ Every[i] > 0 => IsRun(i, anchor[i], t)
  BY CurrentRow, Zenon DEF Origin
<1>2. Ahead(i, t, now) # {}
  BY DEF TypeInv, RunnerInv
<1> HIDE DEF i, t, now
<1>3. /\ nextAfter(i, t, now) \in Nat
      /\ nextAfter(i, t, now) > now
      /\ IsRun(i, anchor[i], nextAfter(i, t, now))
      /\ \A u \in Nat : IsRun(i, anchor[i], u) /\ u > now => nextAfter(i, t, now) <= u
  BY <1>1, <1>2, NextAfterFirst
<1> QED
  BY <1>3, Zenon DEF i, t, now

\* The first run of a new schedule.
LEMMA FirstRun ==
    ASSUME TypeInv, NEW i \in Specs, Create(i)
    PROVE  /\ anchor[i] = -1 /\ i \in rows'
           /\ anchor'[i] = advance(i, clock) /\ nextRunAt'[i] = anchor'[i]
           /\ anchor'[i] \in Nat
           /\ Every[i] > 0 => anchor'[i] # 0
           /\ anchor'[i] > 0 => IsRun(i, anchor'[i], anchor'[i])
<1>1. TypeOK /\ clock \in Nat /\ clock > 0
  BY StartAssumption DEF TypeInv, TypeOK
<1>2. anchor'[i] = advance(i, clock) /\ nextRunAt'[i] = advance(i, clock) /\ anchor[i] = -1 /\ i \in rows'
  BY <1>1 DEF Create, UpsertRecurring, TypeOK
<1>4. CASE Every[i] > 0
  BY <1>1, <1>4, EveryAssumption, <1>2 DEF advance, IsRun
<1>5. CASE ~(Every[i] > 0)
  BY <1>1, <1>2, <1>5, CronNextFirst, AdvanceNat DEF advance, IsRun
<1> QED
  BY <1>4, <1>5

\* A time that a runner may take for a run stays one.
LEMMA OriginStep ==
    ASSUME TypeInv, [Next]_vars, NEW i \in Specs, NEW t \in Nat, Origin(i, t)
    PROVE  Origin(i, t)' /\ anchor'[i] = anchor[i]
  BY FirstRun, RowsStep, Zenon DEF Origin, OnSchedule
LEMMA ScheduleStep == TypeInv /\ TypeInv' /\ ScheduleInv /\ [Next]_vars => ScheduleInv'
<1> SUFFICES ASSUME TypeInv, TypeInv', ScheduleInv, [Next]_vars PROVE ScheduleInv'
  OBVIOUS
<1>0. TypeOK /\ TypeOK'
  BY Zenon DEF TypeInv
<1>2. ASSUME NEW i \in rows' PROVE Origin(i, nextRunAt[i])'
  <2>0. i \in Specs
    BY <1>0, Zenon DEF TypeOK
  <2>1. CASE Create(i)
    BY <2>0, <2>1, FirstRun DEF Origin, OnSchedule
  <2>2. CASE ~Create(i) /\ nextRunAt'[i] = nextRunAt[i]
    <3>1. Origin(i, nextRunAt[i]) /\ nextRunAt[i] \in Nat
      BY <1>0, <2>0, <2>2, RowsStep, Zenon DEF ScheduleInv, TypeOK
    <3> QED
      BY <2>0, <2>2, <3>1, OriginStep
  <2>3. ASSUME NEW r \in Runners, pc[r] = "update", cur[r].spec = i,
               nextRunAt'[i] = nextAfter(i, cur[r].next, seen[r])
        PROVE  Origin(i, nextRunAt[i])'
    <3>1. IsRun(i, anchor[i], nextRunAt'[i]) /\ nextRunAt'[i] \in Nat
      BY <2>3, CurrentNext, Zenon
    <3>2. anchor[i] \in Nat
      BY <2>3, CurrentRow, Zenon
    <3> QED
      BY <2>0, <3>1, <3>2, OriginStep DEF Origin, OnSchedule, IsRun
  <2> QED
    BY <2>0, <2>1, <2>2, <2>3, RowsStep
<1>3. ASSUME NEW s \in Runners, NEW e \in Items(s)', e # Nothing PROVE Origin(e.spec, e.next)'
  <2>1. e.spec \in Specs /\ e.next \in Nat
    BY <1>0, <1>3 DEF Items, TypeOK, Listed
  <2> QED
    BY <2>1, <1>3, ItemsStep, OriginStep DEF ScheduleInv, Row
<1>4. ASSUME NEW i \in Specs, NEW t \in Times, fired'[i][t] > 0
      PROVE  /\ anchor'[i] # -1
             /\ anchor'[i] > 0 => OnSchedule(i, t)'
             /\ \E r \in Runners : t <= Now(r)'
  <2>1. /\ anchor[i] # -1
        /\ anchor[i] > 0 => OnSchedule(i, t)
        /\ \E r \in Runners : t <= Now(r)
    <3>1. CASE fired'[i][t] = fired[i][t]
      BY <1>4, <3>1, Zenon DEF ScheduleInv
    <3>2. ASSUME NEW r \in Runners, pc[r] = "fire", cur[r].spec = i, FireTime(r) = t
          PROVE  /\ anchor[i] # -1
                 /\ anchor[i] > 0 => OnSchedule(i, t)
                 /\ \E p \in Runners : t <= Now(p)
      <4> DEFINE K == ExtraFires(i, cur[r].next, seen[r])
      <4>1. /\ cur[r].next \in Nat /\ seen[r] \in Nat /\ anchor[i] \in Nat /\ cur[r].next <= seen[r]
            /\ Origin(i, cur[r].next)
        BY <3>2, CurrentRow, Zenon
      <4>2. t <= seen[r] /\ k[r] \in 0..K
        BY <3>2, FireTimePast
      <4>3. seen[r] <= Now(r)
        BY Zenon DEF TypeInv, RunnerInv
      <4>5. ASSUME anchor[i] > 0 PROVE OnSchedule(i, t)
        <5>2. K \in Nat /\ Passed(i, cur[r].next, seen[r], K)
          <6>1. K \in 0..MaxCatchup /\ Passed(i, cur[r].next, seen[r], K)
            BY <4>1, ExtraFiresBounds, Zenon
          <6> QED
            BY <6>1
        <5> HIDE DEF K
        <5> QED
          BY <3>2, <4>1, <4>2, <4>5, <5>2, PassedRuns, Zenon DEF OnSchedule, FireTime, Origin
      <4> QED
        BY <4>1, ClockStep, <4>2, <4>3, <4>5 DEF Times
    <3> QED
      BY <3>1, <3>2, FiredStep, Zenon
  <2> QED
    BY <2>1, FirstRun, RowsStep, ClockStep DEF OnSchedule, Times
<1> QED
  BY FirstRun, RowsStep, <1>2, <1>3, <1>4 DEF ScheduleInv

LEMMA ScheduleInit == Init => ScheduleInv
  BY DEF Init, Items, ScheduleInv

LEMMA ScheduleInvariant == Spec => [](TypeInv /\ ScheduleInv)
<1>1. Init => TypeInv /\ ScheduleInv
  BY TypeInit, ScheduleInit
<1>2. TypeInv /\ ScheduleInv /\ [Next]_vars => (TypeInv /\ ScheduleInv)'
  BY TypeStep, ScheduleStep
<1> QED
  BY <1>1, <1>2, PTL DEF Spec

\* nextAfter does not drift: whatever runners stall, crash or overtake each other,
\* jobs are saved only for runs of the schedule that have come, and next_run_at is
\* always a run of the schedule.
THEOREM NoDrift == Spec => []FiresOnSchedule
<1>1. TypeInv /\ ScheduleInv => FiresOnSchedule
  BY DEF ScheduleInv, FiresOnSchedule, Origin
<1> QED
  BY <1>1, ScheduleInvariant, PTL
-----------------------------------------------------------------------------
(* Catching up. *)

\* Every run before x was handled or was left out by the bound of one of the scans S.
Covered(S, i, x) ==
    \A t \in Times : OnSchedule(i, t) /\ t < x =>
        Handled(i, t) \/ \E s \in S : s.spec = i /\ LeftOut(s, t)

\* The first n + 1 fires that runner r computed for its row are handled.
Done(r, n) == \A m \in 0..n : Handled(cur[r].spec, Iterate(cur[r].spec, cur[r].next, m))

\* Rows and listed rows leave nothing behind, and a runner writes the next run when
\* it has handled every fire of the row.
CatchupInv ==
    /\ \A i \in Catchup \cap rows : anchor[i] > 0 => Covered(scans, i, nextRunAt[i])
    /\ \A r \in Runners : \A e \in Items(r) \ {Nothing} :
           e.spec \in Catchup /\ anchor[e.spec] > 0 => Covered(scans, e.spec, e.next)
    /\ \A r \in Runners :
           /\ pc[r] = "fire" => Done(r, k[r] - 1)
           /\ pc[r] = "update" => Done(r, ExtraFires(cur[r].spec, cur[r].next, seen[r]))

LEMMA CatchupStep ==
    ASSUME TypeInv, TypeInv', ScheduleInv, CatchupInv, [Next]_vars
    PROVE  CatchupInv'
\* What is handled stays handled.
<1>HandledStep. ASSUME TypeInv, [Next]_vars, NEW i \in Specs, NEW t, Handled(i, t)
                PROVE  Handled(i, t)'
  <2> USE <1>HandledStep
  <2>1. t \in Times /\ fired[i][t] \in Nat
    BY DEF Handled, TypeInv, TypeOK
  <2> QED
    BY <2>1, FiredStep DEF Handled
<1>CoveredStep. ASSUME TypeInv, [Next]_vars, NEW i \in Specs, NEW x, NEW S, S \subseteq scans', Covered(S, i, x),
                       anchor'[i] = anchor[i]
                PROVE  Covered(scans, i, x)'
  <2> USE <1>CoveredStep
  <2>1. ASSUME NEW s, s.spec = i, NEW t, LeftOut(s, t) PROVE LeftOut(s, t)'
    BY <2>1, <1>HandledStep, Zenon DEF LeftOut
  <2> QED
    BY <2>1, <1>HandledStep, Zenon DEF OnSchedule, Covered
\* The fire that a step of the runner is done with is handled.
<1>FireHandles. ASSUME TypeInv, NEW r \in Runners, Fire(r) \/ SaveFails(r),
                       NEW i, NEW t, i = cur[r].spec, t = FireTime(r)
                PROVE  Handled(i, t)'
  <2> USE <1>FireHandles
  <2>1. i \in Specs /\ t \in Times
    BY FireTimePast, Zenon DEF Fire, SaveFails, Listed
  <2>2. CASE SaveFails(r)
    BY <2>1, <2>2 DEF SaveFails, Handled
  <2>3. CASE Fire(r)
    <3>1. fired' = [fired EXCEPT ![i][t] = @ + 1] /\ fired \in [Specs -> [Times -> Nat]]
      BY <2>3, Zenon DEF Fire, TypeInv, TypeOK
    <3> QED
      BY <2>1, <3>1 DEF Handled
  <2> QED
    BY <2>2, <2>3
\* The runs that an update passes over are handled, or left out by the bound of the
\* scan that ends with it.
<1>UpdateCovers. ASSUME TypeInv, ScheduleInv, CatchupInv, NEW r \in Runners, pc[r] = "update",
                        NEW i \in Catchup, i = cur[r].spec, anchor[i] > 0
                 PROVE  Covered(scans \cup {ScanOf(r)}, i, nextAfter(i, cur[r].next, seen[r]))
  <2> USE <1>UpdateCovers
  <2> DEFINE x == cur[r].next
             now == seen[r]
             K == ExtraFires(i, x, now)
  <2>1. /\ i \in Specs /\ x \in Nat /\ now \in Nat /\ x <= now /\ anchor[i] \in Nat
        /\ IsRun(i, anchor[i], x)
    BY CurrentRow, Zenon DEF Origin, OnSchedule
  <2>2. Ahead(i, x, now) # {} /\ cur[r] \in Items(r) \ {Nothing}
    <3>1. cur[r] # Nothing
      BY <2>1, NobodyAssumption DEF Nothing
    <3> QED
      BY <3>1 DEF TypeInv, RunnerInv, Items
  <2>3. Covered(scans, i, x) /\ Done(r, K)
    BY <2>2, Zenon DEF CatchupInv
  <2>4. \A m \in 0..K : Handled(i, Iterate(i, x, m))
    BY <2>3, Zenon DEF Done
  <2>5. ScanOf(r).spec = i /\ ScanOf(r).next = x /\ ScanOf(r).now = now
    BY DEF ScanOf
  <2> HIDE DEF x, now, K
  <2>6. ASSUME NEW t \in Times, OnSchedule(i, t), t < nextAfter(i, x, now)
        PROVE  Handled(i, t) \/ \E s \in scans \cup {ScanOf(r)} : s.spec = i /\ LeftOut(s, t)
    <3>1. CASE t < x
      BY <2>3, <2>6, <3>1, Zenon DEF Covered
    <3>2. CASE x <= t
      <4>1. t \in Nat /\ IsRun(i, anchor[i], t)
        BY <2>6 DEF OnSchedule, Times
      <4>2. \/ \E m \in 0..K : t = Iterate(i, x, m)
            \/ K = MaxCatchup /\ t <= now /\ \A m \in 0..MaxCatchup : Iterate(i, x, m) < t
        BY <2>1, <2>2, <2>6, <3>2, <4>1, CaughtUp, Zenon DEF K
      <4>3. MaxCatchup \in 0..MaxCatchup
        BY CatchupAssumption
      <4>4. CASE \E m \in 0..K : t = Iterate(i, x, m)
        BY <2>4, <4>4, Zenon
      <4>5. CASE K = MaxCatchup /\ t <= now /\ \A m \in 0..MaxCatchup : Iterate(i, x, m) < t
        BY <2>4, <2>5, <4>3, <4>5, Zenon DEF LeftOut
      <4> QED
        BY <4>2, <4>4, <4>5, <2>5, Zenon
    <3> QED
      BY <2>1, <3>1, <3>2 DEF Times
  <2> QED
    BY <2>6, Zenon DEF Covered, x, now
<1> TypeOK /\ TypeOK'
  BY DEF TypeInv
<1>1. ASSUME NEW i \in Catchup \cap rows', anchor'[i] > 0 PROVE Covered(scans, i, nextRunAt[i])'
  <2>1. CASE Create(i)
    <3>1. i \in Specs /\ nextRunAt'[i] = anchor'[i] /\ anchor'[i] \in Nat
      BY CatchupAssumption, <2>1, FirstRun, Zenon
    <3> QED
      BY <3>1 DEF OnSchedule, IsRun, Times, Covered
  <2>2. CASE ~Create(i)
    <3>1. i \in Specs /\ anchor'[i] = anchor[i] /\ i \in rows /\ scans \subseteq scans'
      BY CatchupAssumption, <2>2, RowsStep, <1>1, Zenon
    <3>2. CASE nextRunAt'[i] = nextRunAt[i]
      BY <1>1, <3>1, <3>2, <1>CoveredStep, Zenon DEF CatchupInv
    <3>3. ASSUME NEW r \in Runners, pc[r] = "update", cur[r].spec = i, ScanOf(r) \in scans',
                 nextRunAt'[i] = nextAfter(i, cur[r].next, seen[r])
          PROVE  Covered(scans, i, nextRunAt[i])'
      <4>1. Covered(scans \cup {ScanOf(r)}, i, nextRunAt'[i])
        BY <1>1, <3>1, <3>3, <1>UpdateCovers, Zenon
      <4>2. scans \cup {ScanOf(r)} \subseteq scans'
        BY <3>1, <3>3, Zenon
      <4> QED
        BY <3>1, <4>1, <4>2, <1>CoveredStep, Zenon
    <3> QED
      BY <1>1, <2>2, <3>1, <3>2, <3>3, RowsStep, Zenon
  <2> QED
    BY <2>1, <2>2
<1>2. ASSUME NEW s \in Runners, NEW e \in Items(s)', e # Nothing, e.spec \in Catchup, anchor'[e.spec] > 0
      PROVE  Covered(scans, e.spec, e.next)'
  <2>1. e.spec \in Specs /\ e.next \in Nat
    BY <1>2 DEF Items, TypeOK, Listed
  <2>4. scans \subseteq scans'
    BY <2>1, RowsStep, Zenon
  <2>2. CASE e \in Items(s)
    BY <1>2, <2>1, <2>2, <2>4, OriginStep, <1>CoveredStep, Zenon DEF ScheduleInv, CatchupInv
  <2>3. ASSUME NEW i \in rows, e = Row(i) PROVE Covered(scans, e.spec, e.next)'
    <3>1. anchor'[i] = anchor[i]
      BY OriginStep, Zenon DEF ScheduleInv, TypeOK
    <3> QED
      BY <2>1, <3>1, <1>2, <2>3, <2>4, <1>CoveredStep DEF CatchupInv, Row
  <2> QED
    BY <1>2, <2>2, <2>3, ItemsStep
<1>3. ASSUME NEW s \in Runners, pc'[s] \in {"fire", "update"}
      PROVE  /\ pc'[s] = "fire" => Done(s, k[s] - 1)'
             /\ pc'[s] = "update" => Done(s, ExtraFires(cur[s].spec, cur[s].next, seen[s]))'
  <2> DEFINE i == cur[s].spec
             K == ExtraFires(i, cur[s].next, seen[s])
  <2>1. CASE pc'[s] = "fire" /\ k'[s] = 0
    BY <2>1 DEF Done
  <2>2. CASE pc[s] \in {"fire", "update"} /\ cur'[s] = cur[s] /\ seen'[s] = seen[s]
    <3>1. ASSUME NEW n, Done(s, n) PROVE Done(s, n)'
      BY <2>2, CurrentRow, <3>1, <1>HandledStep, Zenon DEF Done
    <3>2. CASE Same(s)
      BY <3>1, <3>2, Zenon DEF Same, CatchupInv
    <3>3. ASSUME Fire(s) \/ SaveFails(s), pc[s] = "fire",
                 IF k[s] = K THEN pc'[s] # "fire" ELSE pc'[s] = "fire" /\ k'[s] = k[s] + 1
          PROVE  /\ pc'[s] = "fire" => Done(s, k[s] - 1)'
                 /\ pc'[s] = "update" => Done(s, ExtraFires(cur[s].spec, cur[s].next, seen[s]))'
      <4>1. k[s] \in Nat
        BY DEF TypeOK
      <4>3. \A n : n = k[s] - 1 => Done(s, n)'
        BY <3>1, <3>3 DEF CatchupInv
      <4> QED
        BY <2>2, <3>3, <4>1, <4>3, <1>FireHandles DEF Done, FireTime
    <3> QED
      BY <3>2, <3>3, WorkStep, <1>3, <2>1, Zenon
  <2> QED
    BY <2>1, <2>2, WorkStep, Zenon DEF Same
<1> QED
  BY <1>1, <1>2, <1>3, Zenon DEF CatchupInv

\* WithCatchup loses nothing: every run that next_run_at has passed was saved, or its
\* Save failed, or one scan found it due behind MaxCatchup + 1 others, all of them
\* handled, for any number of schedulers, crashes and overrun scans.
THEOREM NothingMissed == Spec => []CatchupMissesNothing
<1> DEFINE I == TypeInv /\ ScheduleInv /\ CatchupInv
<1>1. Init => I
  BY TypeInit, ScheduleInit DEF Init, Items, CatchupInv
<1>2. I /\ [Next]_vars => I'
  BY TypeStep, ScheduleStep, CatchupStep
<1>3. I => CatchupMissesNothing
  BY Zenon DEF CatchupInv, Covered, CatchupMissesNothing
<1> QED
  BY <1>1, <1>2, <1>3, PTL DEF Spec
-----------------------------------------------------------------------------
(* Leases. *)

\* Runner r works on schedule i.
Holds(r, i) == pc[r] \in {"fire", "update", "stuck"} /\ cur[r].spec = i

\* The clock reading that the latest lease of r is taken from, at the most.
Reading(r) == IF pc[r] = "idle" THEN Now(r) ELSE seen[r]

\* A runner works on a row under its own lease, unless that has run out; its leases
\* are no longer than its clock readings allow; and next_run_at is not later than
\* any run after the clock reading of whoever wrote it.
LeaseInv ==
    /\ \A r \in Runners : \A i \in rows : Holds(r, i) =>
           \/ leasedBy[i] = r /\ leaseUntil[i] = seen[r] + LeaseEvery
           \/ seen[r] + LeaseEvery < clock
    /\ \A r \in Runners : \A i \in Specs : leasedBy[i] = r => leaseUntil[i] <= Reading(r) + LeaseEvery
    /\ \A i \in rows : \A u \in Nat :
           IsRun(i, anchor[i], u) /\ u + LeaseEvery >= clock /\ u + LeaseEvery > leaseUntil[i]
               => nextRunAt[i] <= u

\* The lease columns of a row change when a runner takes the lease or dies with it.
LEMMA LeaseStep ==
    ASSUME TypeInv, [Next]_vars, NEW i \in Specs
    PROVE  \/ leaseUntil'[i] = leaseUntil[i] /\ leasedBy'[i] = leasedBy[i]
           \/ i \notin rows' /\ leasedBy'[i] = NoOne
           \/ \E r \in Runners : /\ Crash(r) /\ leasedBy[i] = r
                                 /\ leaseUntil'[i] = leaseUntil[i] /\ leasedBy'[i] = Gone
           \/ \E r \in Runners : \E e \in todo[r] :
                 /\ AcquireRecurringLease(r, e) /\ e.spec = i /\ i \in rows /\ LeaseFree(i, r)
                 /\ leaseUntil'[i] = seen[r] + LeaseEvery /\ leasedBy'[i] = r
                 /\ pc[r] = "scan" /\ pc'[r] = "fire" /\ cur'[r] = e
<1> TypeOK
  BY Zenon DEF TypeInv
<1>1. CASE UNCHANGED <<leaseUntil, leasedBy>>
  BY <1>1, Zenon
<1>2. ASSUME NEW j \in Specs, DeleteRecurring(j)
      PROVE  \/ leaseUntil'[i] = leaseUntil[i] /\ leasedBy'[i] = leasedBy[i]
             \/ i \notin rows' /\ leasedBy'[i] = NoOne
  <2>1. CASE i = j
    BY <1>2, <2>1, Zenon DEF DeleteRecurring, TypeOK
  <2>2. CASE i # j
    BY <1>2, <2>2, Zenon DEF DeleteRecurring, TypeOK
  <2> QED
    BY <2>1, <2>2, Zenon
<1>3. ASSUME NEW r \in Runners, Crash(r)
      PROVE  /\ leaseUntil'[i] = leaseUntil[i]
             /\ IF leasedBy[i] = r THEN leasedBy'[i] = Gone ELSE leasedBy'[i] = leasedBy[i]
  BY <1>3 DEF Crash
<1>4. ASSUME NEW r \in Runners, NEW e \in todo[r], AcquireRecurringLease(r, e)
      PROVE  \/ leaseUntil'[i] = leaseUntil[i] /\ leasedBy'[i] = leasedBy[i]
             \/ /\ e.spec = i /\ i \in rows /\ LeaseFree(i, r)
                /\ leaseUntil'[i] = seen[r] + LeaseEvery /\ leasedBy'[i] = r
                /\ pc[r] = "scan" /\ pc'[r] = "fire" /\ cur'[r] = e
  BY <1>4, Zenon DEF AcquireRecurringLease, TypeOK
<1>5. ASSUME NEW r \in Runners, RunnerStep(r) \/ Failure(r), ~Crash(r),
             ~\E e \in todo[r] : AcquireRecurringLease(r, e)
      PROVE  UNCHANGED <<leaseUntil, leasedBy>>
  BY <1>5, Zenon DEF RunnerStep, Failure, Wake, ListRecurring, ListFails, LeaseSpecExists, LeaseFails,
     ExistsFails, Skip, Fire, SaveFails, FireDone, UpdateRecurringNextRun, UpdateFails, RowDone,
     rowVars
<1>6. CASE Tick \/ UNCHANGED vars \/ \E j \in Specs : Create(j)
  BY <1>6, Zenon DEF Tick, vars, rowVars, Create, UpsertRecurring
<1>7. CASE \E r \in Runners : Crash(r)
  BY <1>3, <1>7, Zenon
<1>8. CASE \E r \in Runners : \E e \in todo[r] : AcquireRecurringLease(r, e)
  BY <1>4, <1>8, Zenon
<1> QED
  BY <1>1, <1>2, <1>5, <1>6, <1>7, <1>8, Zenon DEF Next

\* A runner reads its clock when it wakes.
LEMMA SeenStep ==
    ASSUME TypeInv, [Next]_vars, NEW s \in Runners, pc'[s] # "idle"
    PROVE  \/ pc[s] # "idle" /\ seen'[s] = seen[s]
           \/ Wake(s) /\ seen'[s] = Now(s) /\ pc'[s] = "list" /\ pc[s] = "idle"
<1> TypeOK
  BY Zenon DEF TypeInv
<1>1. CASE Same(s)
  BY <1>1 DEF Same
<1>2. CASE Wake(s)
  BY <1>2 DEF Wake, TypeOK
<1>3. ASSUME RunnerStep(s) \/ Failure(s), ~Wake(s) PROVE pc[s] # "idle" /\ seen'[s] = seen[s]
  <2>1. ASSUME NEW left, Continue(s, left) PROVE seen'[s] = seen[s]
    BY <2>1 DEF Continue, TypeOK
  <2>2. UNCHANGED seen \/ \E left : Continue(s, left)
    BY <1>3, Zenon DEF RunnerStep, Failure, ListRecurring, ListFails, AcquireRecurringLease,
       LeaseSpecExists, LeaseFails, ExistsFails, Skip, Fire, SaveFails, FireDone,
       UpdateRecurringNextRun, UpdateFails, RowDone, Crash
  <2>3. pc[s] # "idle"
    BY <1>3, Zenon DEF RunnerStep, Failure, ListRecurring, ListFails, AcquireRecurringLease,
       LeaseSpecExists, LeaseFails, ExistsFails, Fire, SaveFails, UpdateRecurringNextRun,
       UpdateFails, Crash
  <2> QED
    BY <2>1, <2>2, <2>3
<1> QED
  BY <1>1, <1>2, <1>3, LocalStep

\* The clock of a runner does not go back.
LEMMA ReadingStep ==
    ASSUME TypeInv, TypeInv', [Next]_vars, NEW s \in Runners
    PROVE  Reading(s) \in Nat /\ Reading(s)' \in Nat /\ Reading(s) <= Reading(s)'
<1>1. /\ Now(s) \in Nat /\ Now(s)' \in Nat /\ Now(s) <= Now(s)'
      /\ seen[s] \in Nat /\ seen'[s] \in Nat /\ seen[s] <= Now(s)
  BY ClockStep, Zenon DEF TypeInv, TypeOK, RunnerInv
<1> QED
  BY <1>1, SeenStep DEF Reading

\* A lease that is free has run out for everyone else.
LEMMA FreeLease ==
    ASSUME TypeInv, NEW i \in Specs, NEW r \in Runners, LeaseFree(i, r), leasedBy[i] # r
    PROVE  leaseUntil[i] < clock
  BY StartAssumption DEF LeaseFree, TypeInv, TypeOK
=============================================================================
