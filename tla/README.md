# A TLA+ model of go-schedule-job

go-schedule-job is a Go library for background jobs. Schedulers in any number of
processes share a store; each polls it for due jobs, runs them in worker pools,
retries failures, and fires recurring schedules. This directory models it in
TLA+, checks it with TLC on small instances, and proves with TLAPS, for instances
of every size, the safety of the scheduler, of the Postgres and Redis stores, of
the recurring runners on the SQL stores, and of backoff and dispatch in time. All paths below are relative to the repository.

## The system

| part | source | state | operations |
|---|---|---|---|
| store contract | `store.go`, `types.go` | job rows, recurring rows | Save, ClaimDue, Ack, Fail, Cancel, Reschedule, Heartbeat, RecoverStale, QueueSize, five recurring calls |
| SQLite store | `store/sqlite` | two tables behind one connection | as above, each a serial transaction |
| Postgres store | `store/postgres` | two tables, many connections | as above, statements of calls interleave; `Listen` |
| Redis store | `store/redis` | job hashes, pending and claimed sorted sets, lease keys | Lua scripts and pipelines |
| in-memory store | `memstore` | map of entries, a heap per queue, a mutex | as above; no recovery, lease always granted |
| scheduler | `scheduler.go` | handlers, queues, phase of Start | At, Now, After, Every, Cron, Cancel, Reschedule, Start |
| dispatcher | `dispatcher.go` | claimed batch | poll, push to the channel, exit |
| workers | `worker.go`, `hooks.go` | the job at hand | take, run the handler, Ack or Fail, hooks |
| janitor | `janitor.go` | none | heartbeat, recover stale claims |
| recurring runner | `recurring.go` | the listed rows it works on | list, lease, save fires, move the row on |
| others | `backoff.go`, `clock.go`, `log.go`, `codec*`, `metrics`, `schedtest`, `storetest`, `cmd` | counters, a fake clock | |

A job travels by value: ClaimDue copies rows to the dispatcher, the copies go
through a bounded channel to a worker, and the worker reports back with Ack or
Fail under the job's id. Nothing but the row's state ties a report to a claim.
So what is hard here is what happens between claim and report: the lock runs
out, the janitor of another process takes the job back, a process dies, a reply
is lost, Start returns early. The recurring runner has the same shape: it lists,
then leases, then fires from what it listed. In Postgres and Redis even single
calls are several statements or round trips. `PROJECT.json` lists these hazards at their lines.

What should be true of the system:
a claim is executed at most once; until it is taken back its holder's view is
current; reports of the hooks are final; attempts are counted right and a job
fails for good exactly when they are used up; every accepted job ends; a due job
is found within a poll interval, and a retry waits for its backoff; heap and map
of the in-memory store, hashes and sorted sets of the Redis store agree, and both
keep the contract of the job table; schedules do not drift, miss nothing they
should catch up on, fire each period once unless something goes wrong, fall silent
when deleted, and keep firing otherwise.

## Modules

| module | models | state and actions |
|---|---|---|
| `JobTable` | the job rows behind `store.Store`, read off SQLite | `state`, `attempt`; run times and locks are reduced to the comparisons the calls make: `due` (run_at <= now) and `stale` (locked_until < now). One operator per call. A deleted row keeps the reason of its deletion as a terminal state |
| `Scheduler` | `scheduler.go`, `dispatcher.go`, `worker.go`, `janitor.go` on top of `JobTable` | per process the phase of Start and its WaitGroup, per pool (scheduler and queue) batch and channel, per worker the copy at hand; actions for client calls, dispatcher, workers, janitor, time and the life of a process |
| `MemHeap` | memstore's heap methods, and `container/heap` as external code | operators on a record of slice and back-pointers |
| `Memstore` | `memstore/memstore.go` | map entries, heaps, a clock; one action per method (Fail has two) |
| `Recurring` | `recurring.go` with the recurring calls of the SQL stores | recurring rows with leases, the database's clock and one per runner, per runner its place in the scan and its listed rows; one action per store call, two for a lease |
| `RedisRecurring` | the same runners on `store/redis` | extends `Recurring`: a schedule is a hash and a member of the index, a lease a key with a time to live; listing is one step for the index and one per hash |
| `PostgresStore` | job calls of `store/postgres/store.go` | `JobTable`'s rows and per connection the transaction it is in; one action per statement |
| `RedisStore` | job calls of `store/redis/store.go`, `scripts.go`, `keys.go` | job hashes, pending sets per queue and priority, the claimed set; one action per script, MULTI block or read; per scheduler the claims it is still reading back, per client the call between its two round trips |
| `Backoff` | `backoff.go` | `ExponentialBackoff.Next` on integers that wrap at a given width, and the formula of its comment |
| `FakeClock` | `schedtest/schedtest.go` | time, waiters and fired channels; After, Advance and the receive |
| `RetryTiming` | dispatcher and workers of one pool in time, on `FakeClock` and `Backoff`, with SQLite's `run_at` | the poll loop, batch, channel and workers; one action per wait, claim, push, take and report |
| `Metrics` | `metrics/prometheus` | `Scheduler` with the in-flight gauge its hooks move |
| `SchedulerProofs` | | theorems about `Scheduler` |
| `PostgresProofs` | | theorems about `PostgresStore` |
| `RedisProofs`, `RedisContract` | | theorems about `RedisStore` |
| `RecurringTypes`, `RecurringProofs`, `LeaseProofs` | | theorems about `Recurring`: run times, types and steps; schedules; leases |
| `TimingProofs` | | theorems about `Backoff` and `RetryTiming` |
| `MC*` | | instances for TLC |

`JobTable` is used in two ways. `Scheduler` and `PostgresStore` extend it.
`Memstore` and `RedisStore` are shown to implement it: the run times, locks and
heaps of the one, the scores and sorted sets of the other are mapped to `due` and
`stale`, and every call is a step of the abstract table. In Redis the lookups and
read-backs around a script are stutters.

Decisions worth knowing:

- A copy carries `claim`, the number of its claim, which the code does not have.
  It is how a property tells claims apart; no guard reads it. The same goes for
  `claims`, `recovered`, `fired`, `lost`, `anchor` and `scans`.
- Calls with a cancelled context have no effect in the durable stores. Hence
  dispatcher and janitor only act while their context is alive, and Ack and Fail
  of a worker may or may not take effect after it is cancelled (the in-memory
  store ignores contexts).
- A store call can fail without effect (`CallFails`) or, for a claim, after it
  committed (`PollReplyLost`).
- A handler's error, panic and timeout are one event; in `Scheduler` a job may be
  due again at any time after a failed attempt. When exactly is the subject of
  `RetryTiming`, which leaves out other processes and locks in return.
- `Scheduler` takes janitor and recurring runner together in the WaitGroup; the
  runner's own work is in `Recurring`.
- In `Recurring` `clock` is what the database and the clients read; a runner's own
  clock may be behind it or ahead. `MaxScan` is the time from a runner's clock
  reading in which its scan should end; a tick past it is a disruption. Shutdown
  of a runner is a `Crash`.
- In `RedisRecurring` a hash that lost all but the two times an update writes is
  read as a schedule without identifier, name or interval, as the code does; it is
  the member `Blank` of `Specs`.
- In `RedisStore` a hash that only a claim or a Fail has written is `partial`, and
  its copy `blank`: a job without identifier and name. `Moves` says whether a live
  job may be saved with another queue or priority; nothing in the library does so,
  but `Save` is exported.
- In `RetryTiming` time may pass while a goroutine could act; `late` adds it up and
  stands for the time that calls take. Integers are five bits wide, so that delays
  overflow within reach of the clock.
- `RetryTiming` is about caps that are not negative; 0 is stored as 3. Negative ones
  are in `Scheduler`.
- In `Metrics` a process's gauge disappears with the process. Counters mirror
  hooks one to one and are left out.
- In `PostgresStore` Save only inserts: the library draws a new identifier for every
  job it saves, so the update part of the statement is left out. A write and its
  commit are one step, since until the commit no one sees the write and a second
  writer of the row waits. Which of the due rows a claim takes, and in which order,
  is left open.
- In `Memstore` the zero time is 0 and identifiers of finished jobs are not used
  again, as `At` makes random ones.

## Runs

Each passing run also has, for each of its properties, a mutant: a plausible bug
in one definition (the operators commented "Mutant of") that makes it fail.

| run | instance | shows |
|---|---|---|
| `claims` | 2 jobs, 2 schedulers (the second lacks a handler), 3 workers, 1 disruption; 411,503 states | `TypeOK`, `ClaimedOnce`, `CopiesAreCurrent`, `ReportsAreFinal`, `GaugeDriftIsBounded` |
| `liveness` | 1 job, 2 schedulers, one without its handler, 2 disruptions; 58,514 states | `FailedMeansExhausted`, `EveryJobEnds` |
| `memstore` | 3 jobs, 2 queues, 2 priorities; 32,236 states | `HeapsMatchMap`, `BatchIsSorted`, `ImplementsJobTable` |
| `recurring` | an Every with catch-up, 2 runners, one with a clock behind, 8 ticks, 1 disruption; 161,886 states | `TypeOK`, `FiresOnSchedule`, `CatchupMissesNothing`, `DuplicatesNeedDisruptions`, `DeletedFallsSilent`, `NextRunAdvances`, `KeepsFiring` |
| `redis_recurring` | a Cron with catch-up that may be deleted, 2 runners, one with a clock behind, 1 disruption; 179,355 states | `DuplicatesNeedDisruptions`, `IndexMatchesHashes`, `GhostsNeedADelete` |
| `postgres` | 2 jobs, 2 schedulers, 1 client, 2 disruptions; 290,706 states | `TypeOK`, `ClaimsAreDisjoint`, `AttemptsCounted` |
| `redis` | 2 jobs, 2 priorities, 2 schedulers, 1 client, 1 disruption; 164,090 states | `SetsMatchHashes`, `ClaimsAreDisjoint`, `CopiesAreCurrent`, `ImplementsJobTable` |
| `timing` | 2 jobs, 2 workers, 8 ticks, several backoffs; 610,650 states | `PollBoundsLatency`, `RetryWaitsForBackoff`, `BackoffFollowsFormula` |

Bounds. A disruption is a crash, a shutdown, a failed or lost call, a lock that
runs out under its holder, in `Scheduler` a reschedule, in `RedisStore` a repeated
save, and in `Recurring` a tick by which a scan overruns. One disruption with two
jobs covers how jobs get in each other's way in batch and channel; two with one
job cover how disruptions add up, and the theorems below do not depend on their
number (`redis` also holds with two, on 7.68 million states, which takes too long
to be run each time). Two processes are enough for one to overtake another, and an
attempt cap of 2 gives each job a retry and a last try. Three jobs in `memstore`
make a heap in which Push and Fix sift up, Pop, Remove and Fix sift down, and Fix
chooses between two children; Remove would sift up only in a heap of six. Clocks run
long enough for a lease to be taken, run out and be taken over, and a crash in
`Recurring` is only allowed while the rest of the clock is longer than a lease. A
catch-up bound of 1 in `recurring` stands for the code's 1000. A schedule has three
runs before the clock ends, so a late scan drops the third, and one that has
dropped nothing is held to all three. In
`timing` the clock covers two short backoffs in a row, and the pairs of Base and Cap
include some whose doubling overflows.

Deadlock is not checked: in all these instances the system may come to rest, when
all jobs have ended or the clock has reached its bound.

Fairness. `Scheduler` assumes weak fairness of what goroutines do when scheduled
(poll, push, take, run a handler to its end, recover, exit), of time (jobs become
due, locks run out) and of restarts of ended processes. The goroutines loop on
timers and channels and the Go scheduler is fair to them; that handlers return
and processes are restarted is up to the user. No fairness forces a client call,
a handler's outcome, or a disruption, and these are bounded in number. `Recurring`
assumes that runners and time go on.

## Disagreements found

Each of these runs ends in a counterexample to something the repository says.

| run | what happens |
|---|---|
| `shutdown` | Start returns while a handler runs (`scheduler.go:241`: workers are not in the WaitGroup), although `README.md:320` says it waits for workers |
| `head_of_line` | in memory, a future job of high priority hides due jobs of lower priority (`memstore/memstore.go:111`), although `scheduler.go:103` bounds the latency by the poll interval |
| `recurring_never_cron` | a cron expression without matches hangs the runner (`recurring.go:156`), although the comment above says it advances "until we're ahead" |
| `postgres_cancel_race` | Cancel deletes a job that was claimed after it looked (`store/postgres/store.go:278`), although `store/postgres/store.go:260` restricts it to pending jobs |

The models show more, which have no run of their own:

- A runner that stalls between list and lease takes over a lease that has run out
  and fires the period it listed a second time (`recurring.go:98`), although
  `store/postgres/store.go:8` says "exactly one scheduler fires each recurring
  period". `DuplicatesNeedDisruptions` bounds it: with two runners and one disruption there
  are at most as many extra fires as disruptions. It is a matter of timing. No period is fired twice without
  a disruption if a lease lasts at least two scans plus the lag of the slowest
  clock (proved: `OneFirePerRun`); TLC finds duplicates when it is shorter. On Redis the lease is cut to
  whole seconds first (`store/redis/store.go:445`), so the condition is about what
  is left: with a lease of 3 ticks and 2 ticks a second the run fails.
- Redis: a live job saved with another queue or priority stays in its old pending
  set (`store/redis/store.go:95`) and is then claimed twice; with `Moves = TRUE`,
  `ClaimsAreDisjoint` fails after four states, although `store/redis/store.go:7`
  promises disjoint sets.
- Redis: only the four named priorities are polled (`store/redis/store.go:133`). A
  job with another number waits for ever.
- Redis: an update that comes after a delete recreates half of a schedule's hash.
  It is not listed again (`IndexMatchesHashes`), but a scan under way may read it
  and fire a job without name.
- The in-flight gauge, "Current number of jobs being executed per queue."
  (`metrics/prometheus/metrics.go:51`), drifts. A missing handler calls OnFailure
  without OnStart (`worker.go:46`): minus one. A retry whose Fail returns an error,
  as it does after the job was taken over, calls no hook: plus one for ever.
- A negative Base gives the largest duration at the first attempt, above Cap
  (`backoff.go`); `BackoffFollowsFormula` is about other values.
- A run time beyond the year 2262 wraps in the nanosecond columns of SQLite and
  the scores of Redis; `RetryWaitsForBackoff` is about times that fit.
- Fail finds its row by id and state (`store/sqlite/store.go:188`). The late Fail
  of a worker whose lock ran out makes the row pending that its successor has
  claimed, so a third worker can get the job while the successor's lock holds.
- For a negative MaxAttempts the worker assumes a cap of 3 (`worker.go:76`) and the
  stores none: OnFailure is fired and the job retried for ever.
- With MaxAttempts 0 the same happens in memory (`memstore/memstore.go:160`); the
  other stores save 3.
- A worker without the handler fires OnFailure for a job that will be retried
  (`worker.go:45`); the metric fed by it is described as "Total jobs that exhausted
  retries" (`metrics/prometheus/metrics.go:35`).
- Catch-up stops after 1000 extra fires and next_run_at moves on to the future
  (`recurring.go:136`): the rest is dropped. `CatchupMissesNothing` excepts
  these runs, scan by scan: `scans` records what each scan that moved the row had
  listed and which time it had read, and a run may only be missing if one of them
  came after it and the 1001 runs that scan was for lie before it and were handled.
- In Postgres a Fail that chose to retry, overtaken by recovery and another
  worker's Fail, uses up the last attempt and leaves the row pending
  (`store/postgres/store.go:244`). `AttemptsCounted` excepts jobs taken back.

## Proofs

The theorems hold for all constants that satisfy the assumptions the modules
state. For the stores and the scheduler: finite sets of jobs and workers, functions
of the right type, an idle marker that is no job, disjoint sets of schedulers and
clients, at least one bucket, priorities of one byte, and a natural number of
disruptions. For `Recurring`: intervals and bounds are natural numbers, cron
expressions match times after Go's zero time, and no clock shows a time before it;
runners' clocks may otherwise be ahead or behind. For `RetryTiming`: finitely many
jobs and workers, Base and Cap that are durations of the given width (the formula is
about a Base that is not negative), and a clock that stays within the width.

Where a theorem has a hypothesis, it is because the statement is wrong without it:
`Moves = FALSE` for `RedisStore`, see above, and how long leases last for
`Recurring`, see below.

| theorem | states |
|---|---|
| `SchedulerProofs!Typing` | `Spec => []TypeOK` |
| `SchedulerProofs!OneCopyPerClaim` | `Spec => []ClaimedOnce` |
| `SchedulerProofs!HoldersAreCurrent` | `Spec => []CopiesAreCurrent` |
| `SchedulerProofs!FailureIsExhaustion` | `Spec => []FailedMeansExhausted` |
| `SchedulerProofs!HooksAreTruthful` | `Spec => []ReportsAreFinal` |
| `PostgresProofs!PgTypeCorrect` | `Spec => []TypeOK` |
| `PostgresProofs!PgClaimsDisjoint` | `Spec => []ClaimsAreDisjoint` |
| `PostgresProofs!PgAttemptsCounted` | `Spec => []AttemptsCounted` |
| `RedisProofs!SetsAgree` | `Moves = FALSE => (Spec => []SetsMatchHashes)` |
| `RedisContract!RedisClaimsDisjoint` | `Moves = FALSE => (Spec => []ClaimsAreDisjoint)` |
| `RedisContract!RedisCopiesCurrent` | `Moves = FALSE => (Spec => []CopiesAreCurrent)` |
| `RedisContract!RedisImplementsTable` | `Moves = FALSE => (Spec => ImplementsJobTable)` |
| `RecurringTypes!RecurringTyping` | `Spec => []TypeOK` |
| `RecurringProofs!SilenceAfterDelete` | `Spec => []DeletedFallsSilent` |
| `RecurringProofs!NoDrift` | `Spec => []FiresOnSchedule` |
| `RecurringProofs!NothingMissed` | `Spec => []CatchupMissesNothing` |
| `LeaseProofs!NextRunMonotone` | `LeaseOutlastsScan => (Spec => NextRunAdvances)` |
| `LeaseProofs!OneFirePerRun` | `LeaseCoversTwoScans => (Spec => [](disruptions = 0 => DuplicatesNeedDisruptions))` |
| `TimingProofs!NextIsFormula` | `Next` of `Backoff` is its formula, for every width, Base >= 0, Cap and attempt |
| `TimingProofs!BackoffIsDocumented` | `Spec => []BackoffFollowsFormula` |
| `TimingProofs!RetriesWait` | `Spec => []RetryWaitsForBackoff` |
| `TimingProofs!LatencyIsBounded` | `Spec => []PollBoundsLatency` |

**Scheduler.** `TypeOK` and `FailedMeansExhausted` are inductive (the latter given the types).
`ClaimedOnce` is not: a poll could hand out a claim number that is already around.
The inductive invariant `ClaimInv` adds `Numbered`, that no copy has a number
above `claims[j]`, so that a new claim is new. `CopiesAreCurrent` needs
`ClaimedOnce`: when a worker finishes a job, other copies of it must be gone, and
they are, because two current copies would be the same claim twice. A group of
lemmas says how each step moves copies through the pipeline (a push
leaves channel and batch, taken together, as they are; a take moves the head to
the worker) and the proofs then go action by action. `ReportsAreFinal` adds
`RightQueue`: a copy sits in a pool that serves its job's queue, so its worker has
the handler of a well configured job. The core of that proof is that worker and
store come to the same verdict on the last try, since the copy is current.

**Postgres.** The inductive invariant `PgInv` joins types, row locks, claims and
attempts. A claim updates by identifier alone, so `ClaimsAreDisjoint` needs
`LockInv`: a locked row is pending until its one locker updates it. Fail decides
in one statement and writes in another, so `AttemptsCounted` needs `FailHolds` (a
Fail under way belongs to a claim its connection still holds) and `FailDecided`
(what it read still justifies what it decided). The latter is where the proof
lives: attempts only grow, so a decision to delete stays right; a decision to
retry stays right until recovery, because by `ClaimsAreDisjoint` nobody else
holds a claim that could count an attempt.

**Redis.** `SetInv` says member by member that a pending job is in the set of its
own bucket and no other, due there exactly when its hash is, that a claimed job is
in the claimed set, and that no hash is partial. It is preserved by scripts that
use a bucket looked up earlier because of `LookupInv`: a bucket someone has looked
up is still the job's. `StoreInv` is both with the types. On top of it `CopyInv`
follows a claim from the script through the read-back into the worker's hands: two
current copies of a job would be the same claim, the copy and the claim
it is read for are never there together, and what was read agrees with the hash
until the job is reissued. The refinement maps every script to its call of
`JobTable` under `StoreInv`; `SetInv` is what makes the members a claim takes due
and pending rows, and a lock that runs out on a job already saved anew is a
stutter.

**Recurring.** Run times are computed by loops: `nextAfter` steps until it is ahead,
`computeFires` steps until it has caught up. What they compute is proved by
induction over the natural numbers, which `RecurringTypes` gets from the
well-foundedness of `<`: the n-th step of a schedule is a run of it, steps grow,
`nextAfter` is the first run after the clock reading, and the fires of a scan are
all the runs in between, up to the bound. The invariant `TypeInv` adds to the types
where a runner is in its scan; it is what makes the loops' results times.
`DeadInv`, `ScheduleInv` and `CatchupInv` then hold whatever runners stall, crash
or overtake each other, because they speak of every row a runner has listed, not
only of the table: a listed row may be out of date, but it was on schedule, it left
nothing behind, and writing what follows from it keeps both true. For
`CatchupMissesNothing` "nothing" means the runs that no recorded scan has left out
(`Covered`): a scan that moves the row from a listed run either handles every run up
to its clock reading, or is itself the recorded scan that excuses the others.

Leases need time. `LeaseInv` says that a runner works on a row under its own lease
or that lease has run out, and that `next_run_at` is not later than any run the
leases so far allow. If a lease, by each runner's clock, lasts at least as long as a
scan should (`LeaseOutlastsScan`), a scan that has not overrun still holds its lease
when it writes, so its write does not move `next_run_at` back. That no run is saved twice
needs twice that (`LeaseCoversTwoScans`): a runner may have listed a row just before
another one leased it, moved it on and let go. The invariant of that proof, valid as
long as there is no disruption, is `Orderly`: no scan has overrun (`Timely`), a
runner has each row once (`Distinct`), whoever works on a row has listed it as it
is (`Fresh`), a row listed and since moved on is leased until the scan is over
(`Shut`), and jobs are saved in the order of runs (`Once`). Both hypotheses are
about configuration: the code does not enforce them.

**Timing.** The loop of `Next` doubles a delay until it reaches the cap or
overflows. By induction over attempts the result is the formula of its comment, on
integers of every width; the case worth a proof is that a doubling which wraps is
always noticed, so that no attempt beyond it gives a small or negative delay.
`RetryWaitsForBackoff` rests on `TimingInv`: channel and batch together list each
claimed job once, a worker has a running job of its own, and a job whose backoff has
not ended is pending with a `run_at` that keeps it from being claimed. For
`PollBoundsLatency`, `PollInv` says by when the dispatcher will look again, that a
pending job was not there when it last looked, and that a claimed job is not late.
The last is where workers come in: time passes unaccounted only when every goroutine
waits. With a worker for every job a claimed job then cannot be waiting, as all
workers would be busy with other jobs, of which there are too few; the property is
stated for such pools, because otherwise a job waits for a worker for as long as
handlers take.

Model-checked only:

- liveness (`EveryJobEnds`, `KeepsFiring`), which is beyond TLAPS here;
- `MemHeap` and `Memstore`, since the heap's sifting is a RECURSIVE operator, which
  TLAPS does not handle;
- how the number of duplicate fires grows with disruptions
  (`DuplicatesNeedDisruptions`): the proof covers runs without disruptions, TLC one
  with two runners;
- `RedisRecurring`, and the drift of the gauge in `Metrics`.

## Not modelled

- The Postgres listener (`store/postgres/listen.go`): nothing but its own test
  uses it, and a lost wake-up costs nothing, as the dispatcher polls anyway. The
  NOTIFY of Save is a best-effort statement of its own, and retries do not send
  it.
- The recurring calls of the in-memory store: map operations under one mutex with
  a lease that is always granted to the one process that can see them.
- Heartbeat (a column nothing reads), QueueSize and the collector's sampling of it
  (reads), the counters of the collector.
- Codecs and logging, which have no state; the conformance tests and all but the
  end of the example program.
- Recurring fires as jobs of `Scheduler`: a fire is a Save like that of a client,
  which `At` of any scheduler at any time already covers.
