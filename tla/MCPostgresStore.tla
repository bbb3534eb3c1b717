-------------------------- MODULE MCPostgresStore --------------------------
(***************************************************************************)
(* PostgresStore for TLC: one queue.                                       *)
(***************************************************************************)
EXTENDS PostgresStore, TLC

CONSTANTS q, Cap

JobQueue == [j \in Jobs |-> q]
Caps == [j \in Jobs |-> Cap]

Symmetry == Permutations(Jobs) \cup Permutations(Schedulers)
=============================================================================
