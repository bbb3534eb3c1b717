--------------------------- MODULE MCRetryTiming ---------------------------
(***************************************************************************)
(* RetryTiming for TLC.                                                    *)
(***************************************************************************)
EXTENDS RetryTiming, TLC

\* Base and Cap: no delay, capped at once and later, uncapped up to the overflow,
\* and a Base that overflows on the first doubling.
SomeBackoffs == {<<0, 0>>, <<1, 0>>, <<1, 3>>, <<3, 2>>, <<5, 0>>, <<9, 0>>, <<9, 10>>}

ClockUsers == Workers \cup {Dispatcher}

WorkerSymmetry == Permutations(Workers)
=============================================================================
