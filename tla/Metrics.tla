------------------------------ MODULE Metrics ------------------------------
(***************************************************************************)
(* The Prometheus collector on the hooks of a scheduler: its in-flight     *)
(* gauge, one per queue of a process, as the steps of Scheduler move it.   *)
(* The counters only go up and mirror the hooks one to one; the gauge is   *)
(* the value that has to come back.                                        *)
(***************************************************************************)
EXTENDS Scheduler

VARIABLE inFlight    \* per pool: the gauge of its process and queue

metricsVars == <<vars, inFlight>>

MetricsInit == Init /\ inFlight = [p \in Pools |-> 0]

Add(p, d) == inFlight' = [inFlight EXCEPT ![p] = @ + d]

\* executeOne returns before OnStart if there is no handler.
OnStart(w) ==
    /\ Take(w)
    /\ Add(PoolOf[w], IF Head(ch[PoolOf[w]]).id \in Handlers[Host(w)] THEN 1 ELSE 0)

\* OnFailure of a job without handler.
OnNoHandler(w) == NoHandler(w) /\ Add(PoolOf[w], -1)

OnSuccess(w) == HandlerSucceeds(w) /\ Add(PoolOf[w], -1)

\* OnFailure after the last try.
OnFailure(w) == HandlerFails(w) /\ LastTry(work[w]) /\ Add(PoolOf[w], -1)

\* Mutant of OnRetry: the gauge of a retry is left to the next attempt.
OnRetryKeeps(w) == HandlerFails(w) /\ ~LastTry(work[w]) /\ UNCHANGED inFlight

\* Only fired when Fail found the row and reported no error.
OnRetry(w) ==
    /\ HandlerFails(w)
    /\ ~LastTry(work[w])
    /\ Add(PoolOf[w], IF state' = state THEN 0 ELSE -1)

\* The collector lives in the memory of the process.
CollectorGone(s) ==
    /\ Crash(s) \/ ProcessEnds(s)
    /\ inFlight' = [p \in Pools |-> IF p \in PoolsOf(s) THEN 0 ELSE inFlight[p]]

Hooked(w) ==
    OnStart(w) \/ OnNoHandler(w) \/ OnSuccess(w) \/ OnFailure(w) \/ OnRetry(w)

\* Steps without a hook that moves the gauge.
Unhooked ==
    /\ \/ \E s \in Schedulers, j \in Jobs : At(s, j)
       \/ \E j \in Jobs : JobStep(j)
       \/ \E p \in Pools : PoolStep(p)
       \/ \E w \in Workers : WorkerExit(w)
       \/ \E s \in Schedulers :
             Start(s) \/ CancelCtx(s) \/ LoopExit(s) \/ StartReturns(s) \/ Janitor(s)
    /\ UNCHANGED inFlight

MetricsNext ==
    \/ \E w \in Workers : Hooked(w)
    \/ \E s \in Schedulers : CollectorGone(s)
    \/ Unhooked

MetricsSpec == MetricsInit /\ [][MetricsNext]_metricsVars
-----------------------------------------------------------------------------
(* Properties. *)

Running(p) == Cardinality({w \in Workers : PoolOf[w] = p /\ Executing(w)})

\* The pool has the handlers of all jobs that can come to it.
KnowsAll(p) == \A j \in Jobs : QueueOf[j] = Serves[p] => j \in Handlers[SchedulerOf[p]]

\* The gauge of a scheduler that knows its handlers never shows less than what is
\* being executed.  While its context is alive it shows more only by what lost
\* claims and failed calls account for, one for each: a retry whose Fail returns
\* an error, because the job was taken over or the store is in trouble, is not
\* reported and stays in the gauge.
GaugeDriftIsBounded ==
    \A p \in Pools : KnowsAll(p) =>
        /\ Running(p) <= inFlight[p]
        /\ ~CtxDone(SchedulerOf[p]) => inFlight[p] <= Running(p) + disruptions
=============================================================================
