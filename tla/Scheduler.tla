----------------------------- MODULE Scheduler -----------------------------
(***************************************************************************)
(* Scheduler processes that share one job table: Start and its goroutines  *)
(* (per queue a dispatcher, a bounded channel and a pool of workers; one   *)
(* janitor), the client calls At, Cancel and Reschedule, and what can      *)
(* happen to a process: shutdown, crash, restart, failing store calls and  *)
(* locks that run out while their holder is still at work.                 *)
(*                                                                         *)
(* A pool is one (scheduler, queue) pair, that is, one iteration of the    *)
(* loop in Start.  A copy is the Job value a claim hands to a dispatcher;  *)
(* it then travels by value through the channel to a worker and is never   *)
(* refreshed from the table.                                               *)
(***************************************************************************)
EXTENDS JobTable, Sequences, Functions

CONSTANTS
    Schedulers, Pools, Workers,
    SchedulerOf,      \* the scheduler a pool belongs to
    Serves,           \* the queue a pool serves
    PoolOf,           \* the pool a worker goroutine belongs to
    Handlers,         \* the jobs a scheduler has a handler registered for
    NoJob,            \* the "job" of an idle worker
    MaxDisruptions    \* bound on crashes, shutdowns, store errors, reschedules
                      \* and locks that expire while somebody holds the job

ASSUME PoolsAssumption ==
    /\ SchedulerOf \in [Pools -> Schedulers]
    /\ Serves \in [Pools -> Queues]
ASSUME WorkersAssumption == IsFiniteSet(Workers) /\ PoolOf \in [Workers -> Pools]
ASSUME HandlersAssumption == Handlers \in [Schedulers -> SUBSET Jobs]
ASSUME NoJobAssumption == NoJob \notin Jobs
ASSUME MaxDisruptionsAssumption == MaxDisruptions \in Nat

VARIABLES
    proc,         \* per scheduler: where its process is in Start
    wg,           \* per scheduler: goroutines that have not called wg.Done
    batch,        \* per pool: claimed copies the dispatcher still has to push
    ch,           \* per pool: the channel between dispatcher and workers
    work,         \* per worker: the copy it is executing, or Idle
    exited,       \* workers that have left workerLoop
    disruptions,  \* how much of MaxDisruptions is used up
    okHook,       \* jobs OnSuccess was fired for
    failHook,     \* jobs OnFailure was fired for
    recovered,    \* history: jobs RecoverStale ever took back
    claims        \* history: how often each job was claimed

procVars == <<proc, wg, exited>>
pipeVars == <<batch, ch, work>>
hookVars == <<okHook, failHook>>
vars == <<tableVars, procVars, pipeVars, hookVars, disruptions, recovered, claims>>

\* "down": no process.  "up": Start is waiting for ctx.  "cancelled": Start
\* waits for wg or the grace timer.  Then Start has returned for one of these
\* two reasons; the process may live on.
Phases == {"down", "up", "cancelled", "drained", "graceElapsed"}

\* The goroutines Start counts: a dispatcher per pool, and the janitor and the
\* recurring runner, taken together.
Loops == Pools \cup {"background"}

PoolsOf(s) == {p \in Pools : SchedulerOf[p] = s}

WorkersOf(s) == {w \in Workers : SchedulerOf[PoolOf[w]] = s}

Host(w) == SchedulerOf[PoolOf[w]]

\* Channel capacity, batch size and number of workers of a pool.
Concurrency(p) == Cardinality({w \in Workers : PoolOf[w] = p})

\* WithQueues gives every queue an integer: a pool has finitely many workers.
ASSUME ConcurrencyAssumption == \A p \in Pools : Concurrency(p) \in Nat

\* A copy of a row as claimed; claim numbers the claims of one job.
Copy == [id : Jobs, attempt : Nat, claim : Nat]

Idle == [id |-> NoJob, attempt |-> 0, claim |-> 0]

CtxDone(s) == proc[s] \in {"cancelled", "drained", "graceElapsed"}

\* Copies waiting with a dispatcher or in a channel of p.
Waiting(p) == Range(batch[p]) \cup Range(ch[p])

\* All copies anywhere.
Copies == (UNION {Waiting(p) : p \in Pools})
            \cup {work[w] : w \in {v \in Workers : work[v] # Idle}}

Unheld(j) == \A c \in Copies : c.id # j

Init ==
    /\ TableInit
    /\ proc = [s \in Schedulers |-> "down"]
    /\ wg = [s \in Schedulers |-> {}]
    /\ batch = [p \in Pools |-> <<>>]
    /\ ch = [p \in Pools |-> <<>>]
    /\ work = [w \in Workers |-> Idle]
    /\ exited = {}
    /\ disruptions = 0
    /\ okHook = {}
    /\ failHook = {}
    /\ recovered = {}
    /\ claims = [j \in Jobs |-> 0]

Disrupt == disruptions < MaxDisruptions /\ disruptions' = disruptions + 1
-----------------------------------------------------------------------------
(* Client calls. *)

\* At refuses a name without a handler and a queue it does not serve.
At(s, j) ==
    /\ proc[s] # "down"
    /\ state[j] = "unsaved"
    /\ j \in Handlers[s]
    /\ \E p \in PoolsOf(s) : Serves[p] = QueueOf[j]
    /\ Save(j)
    /\ UNCHANGED <<procVars, pipeVars, hookVars, disruptions, recovered, claims>>

CancelJob(j) ==
    /\ Cancel(j)
    /\ UNCHANGED <<procVars, pipeVars, hookVars, disruptions, recovered, claims>>

RescheduleJob(j) ==
    /\ Reschedule(j)
    /\ Disrupt
    /\ UNCHANGED <<procVars, pipeVars, hookVars, recovered, claims>>
-----------------------------------------------------------------------------
(* The dispatcher of pool p. *)

\* What a claim may return: distinct due jobs, at most batchSize of them.
Batches(p) ==
    {b \in UNION {[1..n -> DueIn(Serves[p])] : n \in 1..Concurrency(p)} : IsInjective(b)}

\* The claim transaction, whatever becomes of its reply.  It is made with ctx, so
\* it has no effect once ctx is done.
ClaimBatch(p, b) ==
    /\ proc[SchedulerOf[p]] = "up"
    /\ batch[p] = <<>>
    /\ ClaimDue(Serves[p], Range(b))
    /\ claims' = [j \in Jobs |-> IF j \in Range(b) THEN claims[j] + 1 ELSE claims[j]]

Poll(p) ==
    \E b \in Batches(p) :
        /\ ClaimBatch(p, b)
        /\ batch' = [batch EXCEPT ![p] =
               [i \in 1..Len(b) |-> [id |-> b[i], attempt |-> attempt[b[i]],
                                     claim |-> claims[b[i]] + 1]]]
        /\ UNCHANGED <<procVars, ch, work, hookVars, disruptions, recovered>>

\* The rows are claimed but the call returns an error (a reply lost after the
\* commit, or a failure while the claimed rows are read back): no copy exists.
PollReplyLost(p) ==
    \E b \in Batches(p) :
        /\ ClaimBatch(p, b)
        /\ Disrupt
        /\ UNCHANGED <<procVars, pipeVars, hookVars, recovered>>

\* Mutant of Push: the dispatcher does not wait for room in the channel.
PushUnbounded(p) ==
    /\ p \in wg[SchedulerOf[p]]
    /\ batch[p] # <<>>
    /\ ch' = [ch EXCEPT ![p] = Append(@, Head(batch[p]))]
    /\ batch' = [batch EXCEPT ![p] = Tail(@)]
    /\ UNCHANGED <<tableVars, procVars, work, hookVars, disruptions, recovered, claims>>

\* Mutant of Push: the loop over the batch does not advance.
PushAgain(p) ==
    /\ p \in wg[SchedulerOf[p]]
    /\ batch[p] # <<>>
    /\ Len(ch[p]) < Concurrency(p)
    /\ ch' = [ch EXCEPT ![p] = Append(@, Head(batch[p]))]
    /\ UNCHANGED <<tableVars, procVars, batch, work, hookVars, disruptions, recovered, claims>>

Push(p) ==
    /\ p \in wg[SchedulerOf[p]]
    /\ batch[p] # <<>>
    /\ Len(ch[p]) < Concurrency(p)
    /\ ch' = [ch EXCEPT ![p] = Append(@, Head(batch[p]))]
    /\ batch' = [batch EXCEPT ![p] = Tail(@)]
    /\ UNCHANGED <<tableVars, procVars, work, hookVars, disruptions, recovered, claims>>

\* ctx.Done wins a select: the dispatcher returns and drops the rest of its batch.
DispatcherExit(p) ==
    /\ CtxDone(SchedulerOf[p])
    /\ p \in wg[SchedulerOf[p]]
    /\ wg' = [wg EXCEPT ![SchedulerOf[p]] = @ \ {p}]
    /\ batch' = [batch EXCEPT ![p] = <<>>]
    /\ UNCHANGED <<tableVars, proc, exited, ch, work, hookVars, disruptions, recovered, claims>>
-----------------------------------------------------------------------------
(* The workers. *)

\* Receive a copy.  A select may still prefer the channel once ctx is done.
Take(w) ==
    LET p == PoolOf[w] IN
    /\ proc[Host(w)] # "down"
    /\ w \notin exited
    /\ work[w] = Idle
    /\ ch[p] # <<>>
    /\ work' = [work EXCEPT ![w] = Head(ch[p])]
    /\ ch' = [ch EXCEPT ![p] = Tail(@)]
    /\ UNCHANGED <<tableVars, procVars, batch, hookVars, disruptions, recovered, claims>>

WorkerExit(w) ==
    /\ CtxDone(Host(w))
    /\ w \notin exited
    /\ work[w] = Idle
    /\ exited' = exited \cup {w}
    /\ UNCHANGED <<tableVars, proc, wg, pipeVars, hookVars, disruptions, recovered, claims>>

\* A store call of scheduler s that returns an error without having any effect:
\* the store is in trouble, or the call was made with the cancelled ctx.
CallFails(s) ==
    /\ UNCHANGED tableVars
    /\ IF CtxDone(s) THEN UNCHANGED disruptions ELSE Disrupt

\* executeOne returns; the worker goes back to its select.
Return(w) ==
    /\ work' = [work EXCEPT ![w] = Idle]
    /\ UNCHANGED <<procVars, batch, ch, recovered, claims>>

Executing(w) == work[w] # Idle

\* No handler under this name: Fail, and OnFailure whatever the row became.
NoHandler(w) ==
    LET j == work[w].id IN
    /\ Executing(w) /\ j \notin Handlers[Host(w)]
    /\ (Fail(j) /\ UNCHANGED disruptions) \/ CallFails(Host(w))
    /\ failHook' = failHook \cup {j}
    /\ UNCHANGED okHook
    /\ Return(w)

\* The handler returns nil.  An error from Ack is logged and otherwise ignored.
HandlerSucceeds(w) ==
    LET j == work[w].id IN
    /\ Executing(w) /\ j \in Handlers[Host(w)]
    /\ (Ack(j) /\ UNCHANGED disruptions) \/ CallFails(Host(w))
    /\ okHook' = okHook \cup {j}
    /\ UNCHANGED failHook
    /\ Return(w)

\* The worker's own reading of MaxAttempts, applied to its copy of the row.
WorkerMax(j) == IF StoredMax(j) <= 0 THEN 3 ELSE StoredMax(j)

LastTry(c) == c.attempt + 1 >= WorkerMax(c.id)

\* The handler returns an error, panics or times out.
HandlerFails(w) ==
    LET j == work[w].id IN
    /\ Executing(w) /\ j \in Handlers[Host(w)]
    /\ (Fail(j) /\ UNCHANGED disruptions) \/ CallFails(Host(w))
    /\ failHook' = IF LastTry(work[w]) THEN failHook \cup {j} ELSE failHook
    /\ UNCHANGED okHook
    /\ Return(w)
-----------------------------------------------------------------------------
(* The janitor, time, and the life of a process. *)

\* Made with ctx as well.  Heartbeat writes a timestamp nothing ever reads.
Janitor(s) ==
    /\ proc[s] = "up"
    /\ RecoverStale
    /\ recovered' = recovered \cup StaleClaims
    /\ UNCHANGED <<procVars, pipeVars, hookVars, disruptions, claims>>

BecomesDue(j) ==
    /\ j \notin due
    /\ TimePasses({j}, {})
    /\ UNCHANGED <<procVars, pipeVars, hookVars, disruptions, recovered, claims>>

\* A lock always runs out in the end.  A holder normally finishes the job first;
\* that it does not is one of the bounded disruptions.
LockExpires(j) ==
    /\ j \notin stale
    /\ TimePasses({}, {j})
    /\ IF Unheld(j) THEN UNCHANGED disruptions ELSE Disrupt
    /\ UNCHANGED <<procVars, pipeVars, hookVars, recovered, claims>>

Start(s) ==
    /\ proc[s] = "down"
    /\ proc' = [proc EXCEPT ![s] = "up"]
    /\ wg' = [wg EXCEPT ![s] = PoolsOf(s) \cup {"background"}]
    /\ UNCHANGED <<tableVars, exited, pipeVars, hookVars, disruptions, recovered, claims>>

CancelCtx(s) ==
    /\ proc[s] = "up"
    /\ proc' = [proc EXCEPT ![s] = "cancelled"]
    /\ Disrupt
    /\ UNCHANGED <<tableVars, wg, exited, pipeVars, hookVars, recovered, claims>>

\* The janitor and the recurring runner return on ctx.Done.
LoopExit(s) ==
    /\ CtxDone(s)
    /\ "background" \in wg[s]
    /\ wg' = [wg EXCEPT ![s] = @ \ {"background"}]
    /\ UNCHANGED <<tableVars, proc, exited, pipeVars, hookVars, disruptions, recovered, claims>>

\* Start returns: wg.Wait is over, or the grace timer fires.
StartReturns(s) ==
    /\ proc[s] = "cancelled"
    /\ \/ wg[s] = {} /\ proc' = [proc EXCEPT ![s] = "drained"]
       \/ proc' = [proc EXCEPT ![s] = "graceElapsed"]
    /\ UNCHANGED <<tableVars, wg, exited, pipeVars, hookVars, disruptions, recovered, claims>>

\* The process is gone and its memory with it.
Vanish(s) ==
    /\ proc' = [proc EXCEPT ![s] = "down"]
    /\ wg' = [wg EXCEPT ![s] = {}]
    /\ exited' = exited \ WorkersOf(s)
    /\ batch' = [p \in Pools |-> IF p \in PoolsOf(s) THEN <<>> ELSE batch[p]]
    /\ ch' = [p \in Pools |-> IF p \in PoolsOf(s) THEN <<>> ELSE ch[p]]
    /\ work' = [w \in Workers |-> IF w \in WorkersOf(s) THEN Idle ELSE work[w]]
    /\ UNCHANGED <<tableVars, hookVars, recovered, claims>>

Crash(s) == proc[s] # "down" /\ Disrupt /\ Vanish(s)

\* main returns after Start did.
ProcessEnds(s) ==
    /\ proc[s] \in {"drained", "graceElapsed"}
    /\ UNCHANGED disruptions
    /\ Vanish(s)
-----------------------------------------------------------------------------
PoolStep(p) == Poll(p) \/ PollReplyLost(p) \/ Push(p) \/ DispatcherExit(p)

WorkerStep(w) ==
    Take(w) \/ WorkerExit(w) \/ NoHandler(w) \/ HandlerSucceeds(w) \/ HandlerFails(w)

ProcessStep(s) ==
    \/ Start(s) \/ CancelCtx(s) \/ LoopExit(s) \/ StartReturns(s)
    \/ Crash(s) \/ ProcessEnds(s) \/ Janitor(s)

JobStep(j) == CancelJob(j) \/ RescheduleJob(j) \/ BecomesDue(j) \/ LockExpires(j)

Next ==
    \/ \E s \in Schedulers, j \in Jobs : At(s, j)
    \/ \E j \in Jobs : JobStep(j)
    \/ \E p \in Pools : PoolStep(p)
    \/ \E w \in Workers : WorkerStep(w)
    \/ \E s \in Schedulers : ProcessStep(s)

Spec == Init /\ [][Next]_vars

\* What goroutines do when they are scheduled, processes when they are restarted,
\* and time when it passes.  Handlers return; nothing forces a client to call, a
\* process to crash or a store call to fail.
Fairness ==
    /\ \A j \in Jobs : /\ WF_vars(BecomesDue(j))
                       /\ WF_vars(LockExpires(j) /\ UNCHANGED disruptions)
    /\ \A p \in Pools : WF_vars(Poll(p)) /\ WF_vars(Push(p)) /\ WF_vars(DispatcherExit(p))
    /\ \A w \in Workers : /\ WF_vars(Take(w)) /\ WF_vars(WorkerExit(w))
                          /\ WF_vars(NoHandler(w) \/ HandlerSucceeds(w) \/ HandlerFails(w))
    /\ \A s \in Schedulers : /\ WF_vars(Start(s)) /\ WF_vars(Janitor(s)) /\ WF_vars(LoopExit(s))
                             /\ WF_vars(StartReturns(s)) /\ WF_vars(ProcessEnds(s))

FairSpec == Spec /\ Fairness
-----------------------------------------------------------------------------
(* Properties. *)

\* Every variable has its type, and a channel never holds more copies than the
\* concurrency of its queue.
TypeOK ==
    /\ TableTypeOK
    /\ proc \in [Schedulers -> Phases]
    /\ wg \in [Schedulers -> SUBSET Loops]
    /\ batch \in [Pools -> Seq(Copy)]
    /\ ch \in [Pools -> Seq(Copy)]
    /\ \A p \in Pools : Len(ch[p]) <= Concurrency(p)
    /\ work \in [Workers -> Copy \cup {Idle}]
    /\ exited \subseteq Workers
    /\ disruptions \in 0..MaxDisruptions
    /\ okHook \subseteq Jobs
    /\ failHook \subseteq Jobs
    /\ recovered \subseteq Jobs
    /\ claims \in [Jobs -> Nat]

SameClaim(c, d) == c.id = d.id /\ c.claim = d.claim

OnceIn(q) == \A x, y \in DOMAIN q : SameClaim(q[x], q[y]) => x = y

Apart(S, T) == \A c \in S, d \in T : ~SameClaim(c, d)

\* The copies of a pool no worker has taken yet, next one first.
Pipe(p) == ch[p] \o batch[p]

\* One claim is executed at most once: whatever crashes, recoveries and failed
\* calls happen, no two places (dispatcher batch, channel, worker, of any
\* scheduler) ever hold the copy of the same claim of the same job.
ClaimedOnce ==
    /\ \A p \in Pools : OnceIn(Pipe(p))
    /\ \A p, q \in Pools : p # q => Apart(Range(Pipe(p)), Range(Pipe(q)))
    /\ \A w \in Workers, p \in Pools :
           Executing(w) => Apart({work[w]}, Range(Pipe(p)))
    /\ \A v, w \in Workers :
           v # w /\ Executing(v) /\ Executing(w) => ~SameClaim(work[v], work[w])

\* Until RecoverStale takes a job back, a copy of it anywhere is a copy of its
\* latest claim, the row is still claimed, and the attempt number the worker
\* will compare with MaxAttempts is the one the store will compare.
CopiesAreCurrent ==
    \A c \in Copies : c.id \notin recovered =>
        /\ state[c.id] = "claimed"
        /\ c.claim = claims[c.id]
        /\ c.attempt = attempt[c.id]

\* Schedulers that may run j all know its handler, and its cap is positive.
WellConfigured(j) ==
    /\ StoredMax(j) > 0
    /\ \A p \in Pools : Serves[p] = QueueOf[j] => j \in Handlers[SchedulerOf[p]]

\* What the hooks report is final for a well configured job that was never taken
\* back: after OnSuccess or OnFailure nobody holds the job, and its row is gone
\* for the reported reason (or still claimed, when the Ack or Fail call itself
\* failed), so no further attempt follows and no job gets both reports.
ReportsAreFinal ==
    \A j \in Jobs \ recovered : WellConfigured(j) =>
        /\ j \in okHook => state[j] \in {"claimed", "succeeded"} /\ Unheld(j)
        /\ j \in failHook => state[j] \in {"claimed", "failed"} /\ Unheld(j)
        /\ ~(j \in okHook /\ j \in failHook)

\* Counted attempts: a job with a positive cap fails for good exactly when the
\* cap is reached, in spite of recoveries and of late Fail calls by workers that
\* lost their claim; a live row always has an attempt left.
FailedMeansExhausted ==
    \A j \in Jobs : StoredMax(j) > 0 =>
        IF state[j] = "failed" THEN attempt[j] = StoredMax(j)
                               ELSE attempt[j] < StoredMax(j)

\* Every accepted job ends, whatever crashes, shutdowns, lost replies, failed
\* calls and early lock expiries hit it, as long as these stop eventually and
\* processes are restarted.
EveryJobEnds ==
    \A j \in Jobs : state[j] \in {"pending", "claimed"} ~> state[j] \in Terminal

\* The README's shutdown section: "Start returns once workers exit or
\* WithShutdownGrace elapses".  When Start returned before the grace timer, none
\* of its workers is executing a job.
ShutdownWaitsForWorkers ==
    \A w \in Workers : proc[Host(w)] = "drained" => ~Executing(w)
=============================================================================
