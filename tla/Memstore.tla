------------------------------ MODULE Memstore ------------------------------
(***************************************************************************)
(* The in-memory store: a map of entries and one heap per queue, every     *)
(* method under one mutex and hence one step.  Heartbeat, RecoverStale and *)
(* AcquireRecurringLease do nothing.                                       *)
(***************************************************************************)
EXTENDS MemHeap, FiniteSets

CONSTANTS
    Jobs, Queues, Priorities,
    MaxAttempts,    \* the MaxAttempts every job is saved with
    MaxBatch,       \* largest n of a ClaimDue call
    Visibility,     \* how far ahead ClaimDue locks
    MaxTime         \* bound on the clock and on requested run times

ASSUME MaxAttemptsAssumption == MaxAttempts \in [Jobs -> Int]
ASSUME BoundsAssumption == MaxBatch \in Nat /\ Visibility \in Nat /\ MaxTime \in Nat

VARIABLES
    now,       \* the clock the callers read
    state,     \* state of an entry; a deleted entry keeps the reason
    attempt,   \* Job.Attempt
    queue,     \* Job.Queue
    key,       \* Job.Priority and Job.RunAt, what the heap sorts by
    locked,    \* Job.LockedUntil, 0 for the zero time
    index,     \* entry.index
    items      \* per queue: the heap's slice, as identifiers

vars == <<now, state, attempt, queue, key, locked, index, items>>

Terminal == {"succeeded", "failed", "cancelled"}
Times == 0..MaxTime
InMap(j) == state[j] \in {"pending", "claimed"}

\* The heap of queue q, in the form MemHeap works on.
HeapOf(q) == [items |-> items[q], index |-> index]

SetHeap(q, h) == items' = [items EXCEPT ![q] = h.items] /\ index' = h.index

Init ==
    /\ now = 0
    /\ state = [j \in Jobs |-> "unsaved"]
    /\ attempt = [j \in Jobs |-> 0]
    /\ queue = [j \in Jobs |-> CHOOSE q \in Queues : TRUE]
    /\ key = [j \in Jobs |-> [priority |-> 0, runAt |-> 0]]
    /\ locked = [j \in Jobs |-> 0]
    /\ index = [j \in Jobs |-> 0]
    /\ items = [q \in Queues |-> <<>>]
-----------------------------------------------------------------------------
\* A finished identifier is not used again; a live one may be overwritten.
Save(j, q, p, t) ==
    LET k == [key EXCEPT ![j] = [priority |-> p, runAt |-> t]]
        old == queue[j]
        cleared == IF InMap(j) /\ index[j] > 0
                     THEN HeapRemove(key, HeapOf(old), index[j]) ELSE HeapOf(old)
        rest == [items EXCEPT ![old] = cleared.items]
        h == HeapPush(k, [items |-> rest[q], index |-> cleared.index], j)
    IN  /\ state[j] \notin Terminal
        /\ state' = [state EXCEPT ![j] = "pending"]
        /\ attempt' = [attempt EXCEPT ![j] = 0]
        /\ queue' = [queue EXCEPT ![j] = q]
        /\ key' = k
        /\ locked' = [locked EXCEPT ![j] = 0]
        /\ items' = [rest EXCEPT ![q] = h.items]
        /\ index' = h.index
        /\ UNCHANGED now

\* Pop while there is room in the batch and the first entry is due.
RECURSIVE ClaimLoop(_, _, _)
ClaimLoop(h, out, n) ==
    IF Len(out) >= n \/ h.items = <<>> \/ key[h.items[1]].runAt > now
      THEN [heap |-> h, out |-> out]
      ELSE ClaimLoop(HeapPop(key, h), Append(out, h.items[1]), n)

\* The batch a call returns.  Entries leave the heap in order, so the stable sort
\* at the end of the call changes nothing (BatchIsSorted).
Batch(q, n) == ClaimLoop(HeapOf(q), <<>>, n).out

ClaimDue(q, n) ==
    LET taken == {Batch(q, n)[i] : i \in DOMAIN Batch(q, n)}
    IN  /\ taken # {}
        /\ state' = [j \in Jobs |-> IF j \in taken THEN "claimed" ELSE state[j]]
        /\ locked' = [j \in Jobs |-> IF j \in taken THEN now + Visibility ELSE locked[j]]
        /\ SetHeap(q, ClaimLoop(HeapOf(q), <<>>, n).heap)
        /\ UNCHANGED <<now, attempt, queue, key>>

\* delete(byID, id): what the entry held is unreachable.
Forget(j, why) ==
    /\ state' = [state EXCEPT ![j] = why]
    /\ key' = [key EXCEPT ![j] = [priority |-> 0, runAt |-> 0]]
    /\ locked' = [locked EXCEPT ![j] = 0]

Ack(j) ==
    /\ state[j] = "claimed"
    /\ Forget(j, "succeeded")
    /\ UNCHANGED <<now, attempt, queue, index, items>>

\* Mutant of Exhausts: the attempt that just failed is not counted.
ExhaustsLate(j) == MaxAttempts[j] > 0 /\ attempt[j] >= MaxAttempts[j]

Exhausts(j) == MaxAttempts[j] > 0 /\ attempt[j] + 1 >= MaxAttempts[j]

FailForGood(j) ==
    /\ state[j] = "claimed"
    /\ Exhausts(j)
    /\ attempt' = [attempt EXCEPT ![j] = @ + 1]
    /\ Forget(j, "failed")
    /\ UNCHANGED <<now, queue, index, items>>

FailAndRetry(j, t) ==
    LET k == [key EXCEPT ![j].runAt = t] IN
    /\ state[j] = "claimed"
    /\ ~Exhausts(j)
    /\ attempt' = [attempt EXCEPT ![j] = @ + 1]
    /\ state' = [state EXCEPT ![j] = "pending"]
    /\ key' = k
    /\ locked' = [locked EXCEPT ![j] = 0]
    /\ SetHeap(queue[j], HeapPush(k, HeapOf(queue[j]), j))
    /\ UNCHANGED <<now, queue>>

\* Mutant of Cancel: the entry leaves the map but not the heap.
CancelInMapOnly(j) ==
    /\ state[j] = "pending"
    /\ Forget(j, "cancelled")
    /\ UNCHANGED <<now, attempt, queue, index, items>>

Cancel(j) ==
    LET h == HeapOf(queue[j]) IN
    /\ state[j] = "pending"
    /\ Forget(j, "cancelled")
    /\ SetHeap(queue[j], IF index[j] > 0 THEN HeapRemove(key, h, index[j]) ELSE h)
    /\ UNCHANGED <<now, attempt, queue>>

\* Mutant of Reschedule: the heap is not repaired after the key changed.
RescheduleNoFix(j, t) ==
    /\ state[j] = "pending"
    /\ key' = [key EXCEPT ![j].runAt = t]
    /\ UNCHANGED <<now, state, attempt, queue, locked, index, items>>

Reschedule(j, t) ==
    LET k == [key EXCEPT ![j].runAt = t]
        h == HeapOf(queue[j])
    IN  /\ state[j] = "pending"
        /\ key' = k
        /\ SetHeap(queue[j], IF index[j] > 0 THEN HeapFix(k, h, index[j]) ELSE h)
        /\ UNCHANGED <<now, state, attempt, queue, locked>>

Tick ==
    /\ now < MaxTime
    /\ now' = now + 1
    /\ UNCHANGED <<state, attempt, queue, key, locked, index, items>>

Next ==
    \/ \E j \in Jobs, q \in Queues, p \in Priorities, t \in Times : Save(j, q, p, t)
    \/ \E q \in Queues, n \in 1..MaxBatch : ClaimDue(q, n)
    \/ \E j \in Jobs : Ack(j) \/ FailForGood(j) \/ Cancel(j)
    \/ \E j \in Jobs, t \in Times : FailAndRetry(j, t) \/ Reschedule(j, t)
    \/ Tick

Spec == Init /\ [][Next]_vars
-----------------------------------------------------------------------------
(* Properties. *)

\* The heaps and the map tell the same story after any sequence of calls: each
\* heap is ordered, back-pointers are exact, and a heap holds exactly the pending
\* entries of its queue, each once.
HeapsMatchMap ==
    /\ \A q \in Queues :
           /\ Ordered(key, HeapOf(q))
           /\ Members(HeapOf(q)) = {j \in Jobs : state[j] = "pending" /\ queue[j] = q}
           /\ Len(items[q]) = Cardinality(Members(HeapOf(q)))
    /\ \A j \in Jobs :
           IF state[j] = "pending" THEN items[queue[j]][index[j]] = j ELSE index[j] = 0

\* ClaimDue returns its batch in (priority descending, run time) order even before
\* its trailing sort, and leaves behind no due job of the queue that sorts before
\* one it took.
BatchIsSorted ==
    \A q \in Queues, n \in 1..MaxBatch :
        LET b == Batch(q, n) IN
        /\ \A i, j \in DOMAIN b : i < j => ~Less(key, b[j], b[i])
        /\ \A i \in DOMAIN b : \A j \in Jobs \ {b[x] : x \in DOMAIN b} :
               state[j] = "pending" /\ queue[j] = q => ~Less(key, j, b[i])

\* The in-memory store implements the contract of the durable ones: through the
\* heap, every call is a step the abstract job table allows.
Table == INSTANCE JobTable WITH
    Queues <- {"any"},
    QueueOf <- [j \in Jobs |-> "any"],
    due <- {j \in Jobs : InMap(j) /\ key[j].runAt <= now},
    stale <- {j \in Jobs : state[j] = "claimed" /\ locked[j] < now}

ImplementsJobTable == Table!TableSpec

\* WithPollInterval: "the upper bound on dispatch latency between Save and run".
\* Whenever a queue has a due job, a poll of that queue gets a job to run.
DueJobIsFound ==
    \A q \in Queues :
        (\E j \in Jobs : state[j] = "pending" /\ queue[j] = q /\ key[j].runAt <= now)
          => Batch(q, 1) # <<>>
=============================================================================
