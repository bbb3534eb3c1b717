----------------------------- MODULE Recurring -----------------------------
(***************************************************************************)
(* Recurring schedules: Every and Cron write a row, and the recurring      *)
(* runner of every scheduler scans the rows, takes a lease on each one     *)
(* that is due, saves a job for every fire and moves the row on to its     *)
(* next run.  List, lease, saves and update are separate store calls, and  *)
(* the runner works on the row as it was listed.  The calls are those of   *)
(* the SQL backends; a lease is two statements.                            *)
(*                                                                         *)
(* Time is a counter; 0 is Go's zero time.  clock is what the database and *)
(* the clients read, a runner's own clock may differ from it.              *)
(***************************************************************************)
EXTENDS Integers

CONSTANTS
    Specs,            \* identifiers of recurring schedules
    Runners,          \* schedulers, each with one runner
    Every,            \* interval of a schedule made by Every, 0 for one made by Cron
    CronTimes,        \* the instants a cron expression matches
    Catchup,          \* schedules made WithCatchup(true)
    MaxCatchup,       \* bound on extra fires of one scan (1000 in the code)
    LeaseEvery,       \* duration of a lease: the poll interval
    Skew,             \* how far a runner's clock is ahead of the database's
    MaxSkew,          \* bound on Skew
    MaxScan,          \* time from a runner's clock reading in which its scan should end
    StartTime,        \* the clock when the table is empty
    MaxTime,          \* bound on the clock
    MaxDisruptions,   \* bound on crashes, failed store calls and time scans overrun
    NoOne, Gone       \* leased_by of a free row; the identity of a dead process

ASSUME EveryAssumption == Every \in [Specs -> Nat]
ASSUME CronAssumption == \A i \in Specs : CronTimes[i] \subseteq Nat \ {0}
ASSUME CatchupAssumption == Catchup \subseteq Specs /\ MaxCatchup \in Nat
ASSUME TimesAssumption == LeaseEvery \in Nat /\ MaxScan \in Nat /\ MaxTime \in Nat
\* No clock shows a time before Go's zero time, and the clients' one is past it.
ASSUME StartAssumption == StartTime \in Nat \ {0} /\ StartTime <= MaxTime
ASSUME SkewAssumption == MaxSkew \in Nat /\ Skew \in [Runners -> (-StartTime)..MaxSkew]
ASSUME DisruptionsAssumption == MaxDisruptions \in Nat
ASSUME NobodyAssumption == NoOne \notin Runners \cup Specs /\ Gone \notin Runners /\ NoOne # Gone

VARIABLES
    clock,
    rows,         \* the schedules in the table
    nextRunAt,    \* column next_run_at
    leaseUntil,   \* column lease_until
    leasedBy,     \* column leased_by
    pc,           \* per runner: where it is in run
    seen,         \* per runner: the clock it read at the start of the scan
    todo,         \* per runner: listed rows that are due, not handled yet
    cur,          \* per runner: the listed row it leases or holds the lease for
    k,            \* per runner: number of fires of cur it is done with
    disruptions,
    anchor,       \* history: the first run of every schedule, -1 before it is made
    scans,        \* history: what the scans that moved next_run_at had listed and read
    fired,        \* history: jobs saved per schedule and run time
    lost,         \* history: fires whose Save failed
    dead          \* history: per runner, schedules deleted before its scan began

rowVars == <<rows, nextRunAt, leaseUntil, leasedBy, anchor, scans>>
runnerVars == <<pc, seen, todo, cur, k>>
vars == <<clock, rowVars, runnerVars, disruptions, fired, lost, dead>>

\* What any clock may show.
Times == 0..(MaxTime + MaxSkew)

\* A listed row, as far as the runner uses it.
Listed == [spec : Specs, next : Nat]
Nothing == [spec |-> NoOne, next |-> 0]

\* A scan of a row: the run that was listed and the clock that was read.
Scans == [spec : Specs, next : Nat, now : Nat]

PCs == {"idle", "list", "read", "scan", "exists", "fire", "update", "stuck"}

Init ==
    /\ clock = StartTime
    /\ rows = {}
    /\ nextRunAt = [i \in Specs |-> 0]
    /\ leaseUntil = [i \in Specs |-> 0]
    /\ leasedBy = [i \in Specs |-> NoOne]
    /\ pc = [r \in Runners |-> "idle"]
    /\ seen = [r \in Runners |-> 0]
    /\ todo = [r \in Runners |-> {}]
    /\ cur = [r \in Runners |-> Nothing]
    /\ k = [r \in Runners |-> 0]
    /\ disruptions = 0
    /\ anchor = [i \in Specs |-> -1]
    /\ scans = {}
    /\ fired = [i \in Specs |-> [t \in Times |-> 0]]
    /\ lost = {}
    /\ dead = [r \in Runners |-> {}]

Disrupt == disruptions < MaxDisruptions /\ disruptions' = disruptions + 1
-----------------------------------------------------------------------------
(* Computing run times. *)

\* cron.Schedule.Next: the first matching instant after t, the zero time if none.
CronNext(i, t) ==
    LET later == {u \in CronTimes[i] : u > t} IN
    IF later = {} THEN 0 ELSE CHOOSE u \in later : \A v \in later : u <= v

advance(i, t) == IF Every[i] > 0 THEN t + Every[i] ELSE CronNext(i, t)

\* The nth result of advancing from t.
Iterate(i, t, n) ==
    LET f[m \in Nat] == IF m = 0 THEN t ELSE advance(i, f[m - 1]) IN f[n]

\* The first n runs after t all advance and are not later than now.
Passed(i, t, now, n) ==
    \A m \in 1..n : /\ Iterate(i, t, m) > Iterate(i, t, m - 1)
                    /\ Iterate(i, t, m) <= now

MaxOf(S) == CHOOSE n \in S : \A m \in S : m <= n

\* Mutant of ExtraFires: the safety bound is off by one.
ExtraFiresPastBound(i, t, now) ==
    IF i \in Catchup THEN MaxOf({n \in 0..(MaxCatchup + 1) : Passed(i, t, now, n)}) ELSE 0

\* Mutant of ExtraFires: a run at the very instant of the scan is left out.
ExtraFiresBefore(i, t, now) ==
    IF i \in Catchup THEN MaxOf({n \in 0..MaxCatchup : Passed(i, t, now - 1, n)}) ELSE 0

\* Number of extra fires computeFires adds: it stops at the first run that does
\* not advance or that lies in the future, and at the safety bound.
ExtraFires(i, t, now) ==
    IF i \in Catchup THEN MaxOf({n \in 0..MaxCatchup : Passed(i, t, now, n)}) ELSE 0

\* The loop of nextAfter ends: an iterate lies in the future.  If none of the
\* first now + 1 does, they repeat and none ever will.
Ahead(i, t, now) == {n \in 1..(now + 1) : Iterate(i, t, n) > now}

\* Mutant of nextAfter: anchored on the wall clock.
nextAfterNow(i, t, now) == advance(i, now)

nextAfter(i, t, now) ==
    LET ahead == Ahead(i, t, now) IN
    Iterate(i, t, CHOOSE n \in ahead : \A m \in ahead : n <= m)
-----------------------------------------------------------------------------
(* Clients. *)

\* The rows of deleted schedules are gone; identifiers are not used again.
Deleted == {i \in Specs : anchor[i] # -1 /\ i \notin rows}

\* An upsert leaves the lease columns of a row alone.
UpsertRecurring(i, t) ==
    /\ rows' = rows \cup {i}
    /\ nextRunAt' = [nextRunAt EXCEPT ![i] = t]
    /\ UNCHANGED <<leaseUntil, leasedBy>>

\* Every and Cron, each time under a new identifier.
Create(i) ==
    /\ anchor[i] = -1
    /\ UpsertRecurring(i, advance(i, clock))
    /\ anchor' = [anchor EXCEPT ![i] = advance(i, clock)]
    /\ UNCHANGED <<clock, scans, runnerVars, disruptions, fired, lost, dead>>

DeleteRecurring(i) ==
    /\ i \in rows
    /\ rows' = rows \ {i}
    /\ nextRunAt' = [nextRunAt EXCEPT ![i] = 0]
    /\ leaseUntil' = [leaseUntil EXCEPT ![i] = 0]
    /\ leasedBy' = [leasedBy EXCEPT ![i] = NoOne]
    /\ UNCHANGED <<clock, anchor, scans, runnerVars, disruptions, fired, lost, dead>>
-----------------------------------------------------------------------------
(* The runner r. *)

Now(r) == clock + Skew[r]

\* The poll timer fires and the runner reads its clock.
Wake(r) ==
    /\ pc[r] = "idle"
    /\ pc' = [pc EXCEPT ![r] = "list"]
    /\ seen' = [seen EXCEPT ![r] = Now(r)]
    /\ dead' = [dead EXCEPT ![r] = Deleted]
    /\ UNCHANGED <<clock, rowVars, todo, cur, k, disruptions, fired, lost>>

\* The loop over the listed rows continues with left; at its end the locals go.
Continue(r, left) ==
    /\ todo' = [todo EXCEPT ![r] = left]
    /\ pc' = [pc EXCEPT ![r] = IF left = {} THEN "idle" ELSE "scan"]
    /\ seen' = IF left = {} THEN [seen EXCEPT ![r] = 0] ELSE seen
    /\ dead' = IF left = {} THEN [dead EXCEPT ![r] = {}] ELSE dead

\* Rows that are not due yet are skipped.
ListRecurring(r) ==
    LET listed == {[spec |-> i, next |-> nextRunAt[i]] : i \in rows}
        duelist == {e \in listed : e.next <= seen[r]}
    IN  /\ pc[r] = "list"
        /\ Continue(r, duelist)
        /\ UNCHANGED <<clock, rowVars, cur, k, disruptions, fired, lost>>

ListFails(r) ==
    /\ pc[r] \in {"list", "read"}
    /\ Disrupt
    /\ Continue(r, {})
    /\ UNCHANGED <<clock, rowVars, cur, k, fired, lost>>

\* Mutants of LeaseFree: the update is unconditional; a lease does not run out.
LeaseFreeAlways(i, r) == TRUE

LeaseFreeNever(i, r) == leaseUntil[i] = 0 \/ leasedBy[i] = r

\* The WHERE clause of the conditional update.
LeaseFree(i, r) == leaseUntil[i] = 0 \/ leaseUntil[i] < clock \/ leasedBy[i] = r

\* The conditional update, by the database's clock.
AcquireRecurringLease(r, e) ==
    LET i == e.spec
        takes == i \in rows /\ LeaseFree(i, r)
    IN  /\ pc[r] = "scan" /\ e \in todo[r]
        /\ leaseUntil' = IF takes THEN [leaseUntil EXCEPT ![i] = seen[r] + LeaseEvery] ELSE leaseUntil
        /\ leasedBy' = IF takes THEN [leasedBy EXCEPT ![i] = r] ELSE leasedBy
        /\ cur' = [cur EXCEPT ![r] = e]
        /\ todo' = [todo EXCEPT ![r] = @ \ {e}]
        /\ pc' = [pc EXCEPT ![r] = IF takes THEN "fire" ELSE "exists"]
        /\ UNCHANGED <<clock, rows, nextRunAt, anchor, scans, seen, k, disruptions,
                       fired, lost, dead>>

\* The row is skipped: the lease was not granted, or the call failed.
Skip(r, left) ==
    /\ cur' = [cur EXCEPT ![r] = Nothing]
    /\ Continue(r, left)
    /\ UNCHANGED <<clock, rowVars, k, fired, lost>>

\* The update changed nothing.  A row that does not exist counts as leased.
LeaseSpecExists(r) ==
    /\ pc[r] = "exists"
    /\ UNCHANGED disruptions
    /\ IF cur[r].spec \in rows
         THEN Skip(r, todo[r])
         ELSE /\ pc' = [pc EXCEPT ![r] = "fire"]
              /\ UNCHANGED <<clock, rowVars, seen, todo, cur, k, fired, lost, dead>>

LeaseFails(r, e) ==
    /\ pc[r] = "scan" /\ e \in todo[r]
    /\ Disrupt
    /\ Skip(r, todo[r] \ {e})

ExistsFails(r) ==
    /\ pc[r] = "exists"
    /\ Disrupt
    /\ Skip(r, todo[r])

\* On to the next fire, and after the last one into nextAfter, which may never
\* return.
FireDone(r) ==
    LET e == cur[r]
        last == k[r] = ExtraFires(e.spec, e.next, seen[r])
        after == IF Ahead(e.spec, e.next, seen[r]) = {} THEN "stuck" ELSE "update"
    IN
    /\ k' = [k EXCEPT ![r] = IF last THEN 0 ELSE @ + 1]
    /\ pc' = [pc EXCEPT ![r] = IF last THEN after ELSE "fire"]
    /\ UNCHANGED <<clock, rowVars, seen, todo, cur, dead>>

FireTime(r) == Iterate(cur[r].spec, cur[r].next, k[r])

\* Save a job for one fire.
Fire(r) ==
    /\ pc[r] = "fire"
    /\ fired' = [fired EXCEPT ![cur[r].spec][FireTime(r)] = @ + 1]
    /\ FireDone(r)
    /\ UNCHANGED <<disruptions, lost>>

\* A failed Save is logged, and the loop goes on.
SaveFails(r) ==
    /\ pc[r] = "fire"
    /\ Disrupt
    /\ lost' = lost \cup {<<cur[r].spec, FireTime(r)>>}
    /\ FireDone(r)
    /\ UNCHANGED fired

RowDone(r) ==
    /\ cur' = [cur EXCEPT ![r] = Nothing]
    /\ Continue(r, todo[r])
    /\ UNCHANGED <<clock, leaseUntil, leasedBy, anchor, k, fired, lost>>

\* next_run_at of the row moves to t.
Moved(r, t) ==
    /\ nextRunAt' = [nextRunAt EXCEPT ![cur[r].spec] = t]
    /\ scans' = scans \cup {[spec |-> cur[r].spec, next |-> cur[r].next, now |-> seen[r]]}

\* Mutant of UpdateRecurringNextRun: an upsert instead of an update.
UpdateRecurringUpserts(r) ==
    LET i == cur[r].spec IN
    /\ pc[r] = "update"
    /\ rows' = rows \cup {i}
    /\ Moved(r, nextAfter(i, cur[r].next, seen[r]))
    /\ RowDone(r)
    /\ UNCHANGED disruptions

UpdateRecurringNextRun(r) ==
    LET i == cur[r].spec IN
    /\ pc[r] = "update"
    /\ IF i \in rows
         THEN Moved(r, nextAfter(i, cur[r].next, seen[r]))
         ELSE UNCHANGED <<nextRunAt, scans>>
    /\ RowDone(r)
    /\ UNCHANGED <<rows, disruptions>>

\* The result of the call is not looked at.
UpdateFails(r) ==
    /\ pc[r] = "update"
    /\ Disrupt
    /\ RowDone(r)
    /\ UNCHANGED <<rows, nextRunAt, scans>>

\* The process dies, or ctx is cancelled so that its remaining calls do nothing.
\* A new process has a new identity.  No crash comes so late that the bounded
\* clock could not pass the end of the lease left behind.
Crash(r) ==
    /\ pc[r] # "idle"
    /\ clock + LeaseEvery < MaxTime
    /\ Disrupt
    /\ Continue(r, {})
    /\ cur' = [cur EXCEPT ![r] = Nothing]
    /\ k' = [k EXCEPT ![r] = 0]
    /\ leasedBy' = [i \in Specs |-> IF leasedBy[i] = r THEN Gone ELSE leasedBy[i]]
    /\ UNCHANGED <<clock, rows, nextRunAt, leaseUntil, anchor, scans, fired, lost>>

\* A scan has taken all the time it should, or more.
Overdue(r) == pc[r] # "idle" /\ Now(r) >= seen[r] + MaxScan

\* Time passes; a scan that overruns is a disruption.
Tick ==
    /\ clock < MaxTime
    /\ clock' = clock + 1
    /\ IF \E r \in Runners : Overdue(r) THEN Disrupt ELSE UNCHANGED disruptions
    /\ UNCHANGED <<rowVars, runnerVars, fired, lost, dead>>
-----------------------------------------------------------------------------
RunnerStep(r) ==
    \/ Wake(r) \/ ListRecurring(r) \/ LeaseSpecExists(r) \/ Fire(r) \/ UpdateRecurringNextRun(r)
    \/ \E e \in todo[r] : AcquireRecurringLease(r, e)

Failure(r) ==
    \/ ListFails(r) \/ ExistsFails(r) \/ SaveFails(r) \/ UpdateFails(r) \/ Crash(r)
    \/ \E e \in todo[r] : LeaseFails(r, e)

Next ==
    \/ \E i \in Specs : Create(i) \/ DeleteRecurring(i)
    \/ \E r \in Runners : RunnerStep(r) \/ Failure(r)
    \/ Tick

Spec == Init /\ [][Next]_vars

\* Goroutines run and time passes.
Fairness == WF_vars(Tick) /\ \A r \in Runners : WF_vars(RunnerStep(r))

FairSpec == Spec /\ Fairness
-----------------------------------------------------------------------------
(* Properties. *)

\* Every variable has its type, and a scan saves at most MaxCatchup extra jobs.
TypeOK ==
    /\ clock \in StartTime..MaxTime
    /\ rows \subseteq Specs
    /\ nextRunAt \in [Specs -> Nat]
    /\ leaseUntil \in [Specs -> Nat]
    /\ leasedBy \in [Specs -> Runners \cup {NoOne, Gone}]
    /\ pc \in [Runners -> PCs]
    /\ seen \in [Runners -> Nat]
    /\ todo \in [Runners -> SUBSET Listed]
    /\ cur \in [Runners -> Listed \cup {Nothing}]
    /\ k \in [Runners -> 0..MaxCatchup]
    /\ disruptions \in 0..MaxDisruptions
    /\ anchor \in [Specs -> Nat \cup {-1}]
    /\ scans \subseteq Scans
    /\ fired \in [Specs -> [Times -> Nat]]
    /\ lost \subseteq Specs \X Times
    /\ dead \in [Runners -> SUBSET Specs]

\* The runs of a schedule: its first run and those a multiple of the interval
\* later, or the instants from the first run on that the expression matches.
IsRun(i, first, t) ==
    /\ t >= first
    /\ IF Every[i] > 0 THEN \E n \in 0..t : t = first + n * Every[i] ELSE t \in CronTimes[i]

OnSchedule(i, t) == IsRun(i, anchor[i], t)

\* No drift: whatever runners stall, crash or overtake each other, a job is only
\* ever saved for a run of the schedule that has come by some runner's clock, and
\* next_run_at is a run of the schedule.
FiresOnSchedule ==
    \A i \in Specs : anchor[i] > 0 =>
        /\ \A t \in Times : fired[i][t] > 0 => OnSchedule(i, t) /\ \E r \in Runners : t <= Now(r)
        /\ i \in rows => OnSchedule(i, nextRunAt[i])

\* A job was saved for the run, or the Save failed.
Handled(i, t) == t \in Times /\ (fired[i][t] > 0 \/ <<i, t>> \in lost)

\* The bound on the extra fires of scan s left run t out: the scan came after t,
\* and the MaxCatchup + 1 runs it was for, all handled, lie before t.
LeftOut(s, t) ==
    /\ Iterate(s.spec, s.next, MaxCatchup) < t /\ t <= s.now
    /\ \A m \in 0..MaxCatchup : Handled(s.spec, Iterate(s.spec, s.next, m))

\* WithCatchup: every run that next_run_at has passed was saved, in spite of
\* crashes, stalls and takeovers.  The exceptions are a run whose Save failed, and a
\* run that one scan came too late for: the scan found more than MaxCatchup + 1 runs
\* due, handled the first MaxCatchup + 1, and the run is one of the others.
CatchupMissesNothing ==
    \A i \in Catchup \cap rows : anchor[i] > 0 =>
        \A t \in Times : OnSchedule(i, t) /\ t < nextRunAt[i] =>
            Handled(i, t) \/ \E s \in scans : s.spec = i /\ LeftOut(s, t)

\* Duplicates are paid for: a run of an existing schedule is saved at most once
\* more than there were crashes, failed calls and ticks of overrun scans.  Without
\* any, exactly one scheduler fires each period, although the clocks differ.
DuplicatesNeedDisruptions ==
    \A i \in rows, t \in Times : fired[i][t] <= 1 + disruptions

\* next_run_at never moves back, except by the update of a runner whose own scan
\* has overrun.
NextRunAdvances ==
    [][\A i \in rows \cap rows' :
           \/ nextRunAt'[i] >= nextRunAt[i]
           \/ \E r \in Runners : /\ pc[r] = "update" /\ pc'[r] # "update" /\ cur[r].spec = i
                                 /\ Now(r) > seen[r] + MaxScan]_vars

\* A deleted schedule falls silent: only scans that had begun before the deletion
\* can still save jobs for it.
DeletedFallsSilent ==
    \A r \in Runners : \A e \in todo[r] \cup {cur[r]} : e.spec \notin dead[r]

\* A schedule keeps going: whatever crashes and failures happen, and whoever dies
\* with the lease, next_run_at moves past every run that comes.  Runs come after
\* StartTime; those so late that the bounded clock cannot pass the end of a lease
\* taken then are left out.
KeepsFiring ==
    \A i \in Specs : \A t \in {u \in Times : StartTime < u /\ u + LeaseEvery < MaxTime} :
        i \in rows /\ nextRunAt[i] = t ~> i \notin rows \/ nextRunAt[i] > t

\* nextAfter's comment: "advance until we're ahead".  A scan comes to an end.
ScanEnds == \A r \in Runners : pc[r] # "idle" ~> pc[r] = "idle"
=============================================================================
