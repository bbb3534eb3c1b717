---------------------------- MODULE MCRecurring ----------------------------
(***************************************************************************)
(* Recurring for TLC.                                                      *)
(***************************************************************************)
EXTENDS Recurring, TLC

CONSTANTS i1, i2, r1, Interval, Behind

\* i1 is made by Every, i2 by Cron.
Intervals == [i \in Specs |-> IF i = i1 THEN Interval ELSE 0]
EveryThird == [i \in Specs |-> {t \in 1..(5 * MaxTime) : t % 3 = 2}]
\* An expression such as "0 0 31 2 *" is accepted and matches no instant.
NeverMatches == [i \in Specs |-> {}]

\* One runner's clock is behind the database's, the other's is not.
Skews == [r \in Runners |-> IF r = r1 THEN 0 - Behind ELSE 0]

RunnerSymmetry == Permutations(Runners)
=============================================================================
