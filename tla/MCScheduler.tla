---------------------------- MODULE MCScheduler ----------------------------
(***************************************************************************)
(* Scheduler for TLC: two schedulers that serve the same queue.            *)
(***************************************************************************)
EXTENDS Scheduler, TLC

CONSTANTS j1, j2, s1, s2, p1, p2, w1, w2, w3, q

\* Attempts every job is saved with, and the workers of p1.
CONSTANTS Cap, BigPool

OneJob == {j1}
TwoJobs == {j1, j2}
OneQueue == {q}
JobQueue == [j \in Jobs |-> q]
Caps == [j \in Jobs |-> Cap]

OneScheduler == {s1}
TwoSchedulers == {s1, s2}
OnePool == {p1}
TwoPools == {p1, p2}
PoolScheduler == [p \in Pools |-> IF p = p1 THEN s1 ELSE s2]
PoolQueue == [p \in Pools |-> q]
\* w1 and w3 belong to p1, w2 to p2.
SomeWorkers == {w1} \cup (IF p2 \in Pools THEN {w2} ELSE {}) \cup (IF BigPool THEN {w3} ELSE {})
WorkerPool == [w \in Workers |-> IF w = w2 THEN p2 ELSE p1]
AllHandlers == [s \in Schedulers |-> Jobs]
\* s2 serves the queue but was built without the handler.
OnlyFirstHandles == [s \in Schedulers |-> IF s = s1 THEN Jobs ELSE {}]
=============================================================================
