-------------------------- MODULE MCRedisRecurring --------------------------
(***************************************************************************)
(* RedisRecurring for TLC: one schedule made by Cron, and the schedule     *)
(* without fields, which advances by an hour.                              *)
(***************************************************************************)
EXTENDS RedisRecurring

CONSTANTS r1, Hour, Behind

Intervals == [i \in Specs |-> IF i = Blank THEN Hour ELSE 0]
EverySecondTick == [i \in Specs |-> {t \in 1..(5 * MaxTime) : t % 2 = 0}]

\* One runner's clock is behind Redis', the other's is not.
Skews == [r \in Runners |-> IF r = r1 THEN 0 - Behind ELSE 0]
=============================================================================
