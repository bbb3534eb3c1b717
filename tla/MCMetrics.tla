----------------------------- MODULE MCMetrics -----------------------------
(***************************************************************************)
(* Metrics on the instances of MCScheduler.                                *)
(***************************************************************************)
EXTENDS Metrics, MCScheduler

\* s2 serves the queue but lacks the handler of j2.
SecondLacksOne == [s \in Schedulers |-> IF s = s1 THEN Jobs ELSE Jobs \ {j2}]
=============================================================================
