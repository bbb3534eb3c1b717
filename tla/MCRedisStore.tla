---------------------------- MODULE MCRedisStore ----------------------------
(***************************************************************************)
(* RedisStore for TLC: every job is saved with the same attempt cap.       *)
(***************************************************************************)
EXTENDS RedisStore, TLC

CONSTANTS Cap

Caps == [j \in Jobs |-> Cap]

Symmetry == Permutations(Jobs) \cup Permutations(Schedulers)
=============================================================================
