------------------------------ MODULE Backoff ------------------------------
(***************************************************************************)
(* ExponentialBackoff.Next on signed integers of Width bits, which wrap.   *)
(* The code's Width is 64.                                                 *)
(***************************************************************************)
EXTENDS Integers

CONSTANT Width

ASSUME WidthAssumption == Width \in Nat \ {0, 1}

\* 2^n, the form proofs can unfold.
Pow2(n) == LET f[m \in Nat] == IF m = 0 THEN 1 ELSE 2 * f[m - 1] IN f[n]

MaxInt == Pow2(Width - 1) - 1

\* A time.Duration.
Durations == (-MaxInt - 1)..MaxInt

\* The value an integer has after it was cut to Width bits.
Wrap(x) == ((x + MaxInt + 1) % Pow2(Width)) - MaxInt - 1

Capped(cap, d) == IF cap > 0 /\ d > cap THEN cap ELSE d

\* Mutant of Overflowed: the result of the multiplication is not looked at.
OverflowedNever(prev, d) == FALSE

\* Doubling a positive duration only makes it smaller when it wraps.
Overflowed(prev, d) == d < prev

\* One iteration of the loop.
Double(cap, prev) ==
    LET d == Wrap(2 * prev) IN IF Overflowed(prev, d) THEN MaxInt ELSE Capped(cap, d)

\* d after n iterations.  A value the loop breaks with or returns stays what it is
\* in later iterations: MaxInt doubles to a smaller number again, and cap to cap
\* or to an overflow.
Doubled(base, cap, n) ==
    LET f[m \in Nat] == IF m = 0 THEN base ELSE Double(cap, f[m - 1]) IN f[n]

\* The delay after failed attempt n.
NextDelay(base, cap, n) ==
    LET d == Capped(cap, Doubled(base, cap, IF n < 1 THEN 0 ELSE n - 1))
    IN  IF d < 0 THEN MaxInt ELSE d

\* What the comment on Next says, without regard to any width: base * 2^(n-1),
\* at most cap if there is one, and at most the largest duration.
Formula(base, cap, n) ==
    LET top == IF cap > 0 THEN cap ELSE MaxInt
        d == base * Pow2(n - 1)
    IN  IF d > top THEN top ELSE d
=============================================================================
