---------------------------- MODULE RetryTiming ----------------------------
(***************************************************************************)
(* When jobs run: the poll loop of one dispatcher, its workers, the retry  *)
(* backoff and the run_at column of the SQLite store, all on one clock.    *)
(*                                                                         *)
(* Time may pass while a goroutine has something to do.  late adds up how  *)
(* much did: it stands for the time store calls and goroutine switches     *)
(* take.  The time a handler takes is not part of it; a handler sleeps on  *)
(* the clock.  Locks are taken to last longer than any handler.            *)
(***************************************************************************)
EXTENDS FakeClock, Backoff, FiniteSets, Sequences

CONSTANTS
    Jobs, Workers, Dispatcher, NoJob,
    MaxAttempts,    \* what every job is saved with
    PollEvery,
    Backoffs,       \* the pairs of Base and Cap a scheduler may be built with
    Delays,         \* how far ahead a client schedules
    Naps,           \* how long a handler takes
    MaxLate, MaxTime

ASSUME UsersAssumption == Users = Workers \cup {Dispatcher}
ASSUME JobsAssumption == IsFiniteSet(Jobs) /\ NoJob \notin Jobs
ASSUME WorkersAssumption ==
    IsFiniteSet(Workers) /\ Cardinality(Workers) \in Nat /\ Dispatcher \notin Workers
ASSUME TimesAssumption ==
    /\ PollEvery \in Nat /\ MaxLate \in Nat /\ MaxTime \in Nat /\ MaxAttempts \in Nat
    /\ Delays \subseteq Int /\ Naps \subseteq Int
ASSUME BackoffsAssumption == Backoffs \subseteq Durations \X Durations
ASSUME FitsAssumption == MaxTime <= MaxInt

VARIABLES
    backoff,    \* Base and Cap
    state, attempt, runAt,
    pc,         \* the dispatcher: "init", "sleep", "claim" or "push"
    seen,       \* the time it read from the clock
    batch, ch,
    work,       \* per worker: its job
    asleep,     \* workers whose handler sleeps or has slept
    late,       \* time that passed while somebody could have made a step
    since,      \* history: when a waiting job could first have been claimed
    eligible    \* history: the instant the documented backoff ends

jobVars == <<state, attempt, runAt, since, eligible>>
pipeVars == <<pc, seen, batch, ch>>
workVars == <<work, asleep>>
vars == <<clockVars, backoff, jobVars, pipeVars, workVars, late>>

Base == backoff[1]
Cap == backoff[2]

Later(a, b) == IF a > b THEN a ELSE b

Init ==
    /\ ClockInit
    /\ backoff \in Backoffs
    /\ state = [j \in Jobs |-> "unsaved"]
    /\ attempt = [j \in Jobs |-> 0]
    /\ runAt = [j \in Jobs |-> 0]
    /\ pc = "init"
    /\ seen = 0
    /\ batch = <<>>
    /\ ch = <<>>
    /\ work = [w \in Workers |-> NoJob]
    /\ asleep = {}
    /\ late = 0
    /\ since = [j \in Jobs |-> 0]
    /\ eligible = [j \in Jobs |-> 0]

\* The column run_at: nanoseconds in 64 bits.
toUnixNano(t) == Wrap(t)

\* The row of j becomes pending for time t.
Queue(j, t) ==
    /\ state' = [state EXCEPT ![j] = "pending"]
    /\ runAt' = [runAt EXCEPT ![j] = toUnixNano(t)]
    /\ since' = [since EXCEPT ![j] = Later(now, toUnixNano(t))]
-----------------------------------------------------------------------------
\* Scheduler.After: At with the clock's time plus d.
Schedule(j, d) ==
    /\ state[j] = "unsaved"
    /\ Queue(j, now + d)
    /\ UNCHANGED <<clockVars, backoff, attempt, eligible, pipeVars, workVars, late>>

\* The first timer fires at once; the next one is set when the batch is pushed.
Sleep ==
    /\ \/ pc = "init" /\ After(Dispatcher, 0)
       \/ pc = "push" /\ batch = <<>> /\ After(Dispatcher, PollEvery)
    /\ pc' = "sleep"
    /\ UNCHANGED <<backoff, jobVars, seen, batch, ch, workVars, late>>

\* The timer fires and the dispatcher reads the clock.
Wake ==
    /\ pc = "sleep"
    /\ Receive(Dispatcher)
    /\ pc' = "claim"
    /\ seen' = now
    /\ UNCHANGED <<backoff, jobVars, batch, ch, workVars, late>>

\* The claim query compares run_at with the time the dispatcher read.
IsDue(j) == state[j] = "pending" /\ runAt[j] <= toUnixNano(seen)

\* The oldest due rows, at most as many as there are workers.
ClaimDue ==
    /\ pc = "claim"
    /\ \E n \in 0..Cardinality(Workers) : \E b \in [1..n -> {j \in Jobs : IsDue(j)}] :
         /\ \A x, y \in 1..n : x < y => b[x] # b[y] /\ runAt[b[x]] <= runAt[b[y]]
         /\ n < Cardinality(Workers) => \A j \in Jobs : IsDue(j) => \E x \in 1..n : b[x] = j
         /\ \A j \in Jobs, x \in 1..n :
                IsDue(j) /\ (\A y \in 1..n : b[y] # j) => runAt[b[x]] <= runAt[j]
         /\ batch' = b
         /\ state' = [j \in Jobs |-> IF \E x \in 1..n : b[x] = j THEN "claimed" ELSE state[j]]
    /\ pc' = "push"
    /\ UNCHANGED <<clockVars, backoff, attempt, runAt, since, eligible, seen, ch, workVars, late>>

Push ==
    /\ pc = "push"
    /\ batch # <<>>
    /\ Len(ch) < Cardinality(Workers)
    /\ ch' = Append(ch, Head(batch))
    /\ batch' = Tail(batch)
    /\ UNCHANGED <<clockVars, backoff, jobVars, pc, seen, workVars, late>>
-----------------------------------------------------------------------------
Take(w) ==
    /\ work[w] = NoJob
    /\ ch # <<>>
    /\ work' = [work EXCEPT ![w] = Head(ch)]
    /\ ch' = Tail(ch)
    /\ state' = [state EXCEPT ![Head(ch)] = "running"]
    /\ UNCHANGED <<clockVars, backoff, attempt, runAt, since, eligible, pc, seen, batch, asleep, late>>

\* The handler takes time d.
Nap(w, d) ==
    /\ work[w] # NoJob
    /\ w \notin asleep
    /\ After(w, d)
    /\ asleep' = asleep \cup {w}
    /\ UNCHANGED <<backoff, jobVars, pipeVars, work, late>>

\* The handler comes back.
Returned(w) ==
    /\ w \in asleep
    /\ Receive(w)
    /\ asleep' = asleep \ {w}
    /\ work' = [work EXCEPT ![w] = NoJob]
    /\ UNCHANGED <<backoff, pipeVars, late>>

HandlerSucceeds(w) ==
    /\ Returned(w)
    /\ state' = [state EXCEPT ![work[w]] = "succeeded"]
    /\ UNCHANGED <<attempt, runAt, since, eligible>>

\* Mutant of RetryAt: the attempt is counted from zero.
RetryAtFirst(n) == now + NextDelay(Base, Cap, n - 1)

\* nextAt after failed attempt n.
RetryAt(n) == now + NextDelay(Base, Cap, n)

\* The attempts a job has: Save stores 3 for 0.
StoredMax == IF MaxAttempts = 0 THEN 3 ELSE MaxAttempts

\* The worker and the store compare the same attempt with the same positive number.
HandlerFails(w) ==
    LET j == work[w]
        n == attempt[j] + 1
        doc == now + Formula(Base, Cap, n)
    IN  /\ Returned(w)
        /\ attempt' = [attempt EXCEPT ![j] = n]
        /\ IF n >= StoredMax
             THEN /\ state' = [state EXCEPT ![j] = "failed"]
                  /\ UNCHANGED <<runAt, since, eligible>>
             ELSE /\ Queue(j, RetryAt(n))
                  /\ eligible' = [eligible EXCEPT ![j] = IF doc <= MaxInt THEN doc ELSE 0]
-----------------------------------------------------------------------------
\* Somebody can make a step without waiting for time to pass.
Busy ==
    \/ pc \in {"init", "claim"}
    \/ pc = "push" /\ (batch = <<>> \/ Len(ch) < Cardinality(Workers))
    \/ ready # {}
    \/ \E w \in Workers : \/ work[w] = NoJob /\ ch # <<>>
                          \/ work[w] # NoJob /\ w \notin asleep

Tick ==
    /\ now < MaxTime
    /\ Busy => late < MaxLate
    /\ late' = IF Busy THEN late + 1 ELSE late
    /\ Advance(1)
    /\ UNCHANGED <<backoff, jobVars, pipeVars, workVars>>

WorkerStep(w) ==
    \/ Take(w) \/ HandlerSucceeds(w) \/ HandlerFails(w)
    \/ \E d \in Naps : Nap(w, d)

Next ==
    \/ \E j \in Jobs, d \in Delays : Schedule(j, d)
    \/ Sleep \/ Wake \/ ClaimDue \/ Push
    \/ \E w \in Workers : WorkerStep(w)
    \/ Tick

Spec == Init /\ [][Next]_vars
-----------------------------------------------------------------------------
(* Properties. *)

\* WithPollInterval is "the upper bound on dispatch latency between Save and
\* run": with a worker for every job, no job waits longer than the poll interval
\* after it could first have been claimed, be it new or a retry, plus the time
\* that passed while goroutines were runnable.
PollBoundsLatency ==
    Cardinality(Jobs) <= Cardinality(Workers) =>
        \A j \in Jobs :
            state[j] \in {"pending", "claimed"} => now <= since[j] + PollEvery + late

\* A job is never claimed for a retry before the documented backoff of its failed
\* attempt has passed, as long as that instant fits into the run_at column.
RetryWaitsForBackoff ==
    \A j \in Jobs : state[j] \in {"claimed", "running"} => now >= eligible[j]

\* Next computes the documented delay for every attempt, beyond the one at which
\* doubling overflows, for every Base that is not negative.
BackoffFollowsFormula ==
    Base >= 0 => \A n \in 1..(Width + 2) : NextDelay(Base, Cap, n) = Formula(Base, Cap, n)
=============================================================================
