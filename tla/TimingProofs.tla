--------------------------- MODULE TimingProofs ----------------------------
(***************************************************************************)
(* Machine-checked proofs about RetryTiming and Backoff, for any width of  *)
(* integers, jobs, workers, backoffs, delays and bounds: induction over    *)
(* the natural numbers, what the loop of ExponentialBackoff.Next computes, *)
(* that a retry waits for it, and that the poll interval bounds the        *)
(* latency of dispatch.                                                    *)
(***************************************************************************)
EXTENDS RetryTiming, WellFoundedInduction, FiniteSetTheorems, TLAPS

(* Induction and recursion over the natural numbers. *)

\* A nonempty set of natural numbers has a least element.
LEMMA Least ==
    ASSUME NEW T \in SUBSET Nat, T # {}
    PROVE  \E x \in T : \A y \in T : x <= y
<1> DEFINE R == OpToRel(<, Nat)
<1>1. IsWellFoundedOn(R, Nat)
  BY NatLessThanWellFounded, Zenon
<1>2. \A x, y \in Nat : <<x, y>> \in R <=> x < y
  BY DEF OpToRel
<1> HIDE DEF R
<1>3. PICK x \in T : \A y \in T : <<y, x>> \notin R
  BY <1>1, WFMin, Zenon
<1>4. \A y \in T : ~(y < x)
  BY <1>2, <1>3, Zenon
<1> QED
  BY <1>4

\* Induction.
LEMMA SetInduction ==
    ASSUME NEW S, 0 \in S, \A n \in Nat : n \in S => n + 1 \in S
    PROVE  Nat \subseteq S
<1> SUFFICES ASSUME Nat \ S # {} PROVE FALSE
  OBVIOUS
<1>1. PICK x \in Nat \ S : \A y \in Nat \ S : x <= y
  BY Least, Zenon
<1> QED
  BY <1>1

\* The sequences that a step on A makes from a.
Orbits(A, step, a) == {f \in [Nat -> A] : f[0] = a /\ \A n \in Nat : f[n + 1] = step[f[n]]}

\* A step and a starting point define a sequence.
LEMMA Recursion ==
    ASSUME NEW A, NEW step \in [A -> A], NEW a \in A
    PROVE  \E f : f \in Orbits(A, step, a)
<1> DEFINE Upto(n) == {g \in [0..n -> A] : g[0] = a /\ \A m \in 0..(n - 1) : g[m + 1] = step[g[m]]}
           S == {n \in Nat : Upto(n) # {}}
<1>1. 0 \in S
  <2> DEFINE g == [m \in 0..0 |-> a]
  <2>1. g \in Upto(0)
    OBVIOUS
  <2> QED
    BY <2>1
<1>2. ASSUME NEW n \in Nat, n \in S PROVE n + 1 \in S
  <2>1. PICK g \in Upto(n) : TRUE
    BY <1>2
  <2> DEFINE h == [m \in 0..(n + 1) |-> IF m = n + 1 THEN step[g[n]] ELSE g[m]]
  <2>3. h \in [0..(n + 1) -> A]
    OBVIOUS
  <2>4. h[0] = a
    OBVIOUS
  <2>5. ASSUME NEW m \in 0..n PROVE h[m + 1] = step[h[m]]
    OBVIOUS
  <2>6. h \in Upto(n + 1)
    <3> HIDE DEF h
    <3> QED
      BY <2>3, <2>4, <2>5
  <2> HIDE DEF h, Upto
  <2> QED
    BY <2>6
<1>3. Nat \subseteq S
  <2> HIDE DEF S
  <2> QED
    BY <1>1, <1>2, SetInduction
<1> DEFINE G(n) == CHOOSE g \in Upto(n) : TRUE
           f == [n \in Nat |-> G(n)[n]]
<1>4. ASSUME NEW n \in Nat PROVE G(n) \in Upto(n)
  BY <1>3, Zenon
<1>5. ASSUME NEW n \in Nat PROVE G(n + 1)[n] = G(n)[n]
  <2> DEFINE U == {m \in Nat : m <= n => G(n + 1)[m] = G(n)[m]}
  <2>1. G(n) \in Upto(n) /\ G(n + 1) \in Upto(n + 1)
    <3> HIDE DEF G, Upto
    <3> QED
      BY <1>4
  <2> HIDE DEF G
  <2>2. 0 \in U
    BY <2>1
  <2>3. ASSUME NEW m \in Nat, m \in U PROVE m + 1 \in U
    BY <2>1, <2>3
  <2>4. Nat \subseteq U
    <3> HIDE DEF U
    <3> QED
      BY <2>2, <2>3, SetInduction
  <2> QED
    BY <2>4
<1>6. ASSUME NEW n \in Nat PROVE G(n)[n] \in A /\ G(n)[0] = a /\ G(n + 1)[n + 1] = step[G(n + 1)[n]]
  <2>1. G(n) \in Upto(n) /\ G(n + 1) \in Upto(n + 1)
    <3> HIDE DEF G, Upto
    <3> QED
      BY <1>4
  <2> HIDE DEF G
  <2> QED
    BY <2>1
<1> HIDE DEF G
<1>7. f \in [Nat -> A] /\ f[0] = a
  BY <1>6
<1>8. \A n \in Nat : f[n + 1] = step[f[n]]
  BY <1>5, <1>6
<1> HIDE DEF f
<1> QED
  BY <1>7, <1>8 DEF Orbits
-----------------------------------------------------------------------------
(* The backoff. *)

\* Powers of two.
LEMMA Powers ==
    /\ Pow2(0) = 1
    /\ \A n \in Nat : Pow2(n) \in Nat /\ Pow2(n) >= 1
    /\ \A n \in Nat : Pow2(n + 1) = 2 * Pow2(n)
<1> DEFINE step == [x \in Nat |-> 2 * x]
           F(g) == [m \in Nat |-> IF m = 0 THEN 1 ELSE 2 * g[m - 1]]
           h == CHOOSE g : g = F(g)
<1>1. PICK f \in [Nat -> Nat] : f[0] = 1 /\ \A n \in Nat : f[n + 1] = step[f[n]]
  <2>1. step \in [Nat -> Nat]
    OBVIOUS
  <2> HIDE DEF step
  <2>2. PICK f : f \in Orbits(Nat, step, 1)
    BY <2>1, Recursion
  <2> QED
    BY <2>2 DEF Orbits
<1>2. f = F(f)
  <2>1. ASSUME NEW m \in Nat PROVE f[m] = F(f)[m]
    <3>1. CASE m = 0
      BY <1>1, <3>1
    <3>2. CASE m # 0
      <4>1. m - 1 \in Nat /\ m = (m - 1) + 1
        BY <3>2
      <4>2. f[m] = step[f[m - 1]]
        BY <1>1, <4>1, Zenon
      <4> QED
        BY <1>1, <3>2, <4>1, <4>2
    <3> QED
      BY <3>1, <3>2
  <2>2. f \in [Nat -> Nat] /\ DOMAIN F(f) = Nat /\ F(f) = [m \in Nat |-> F(f)[m]]
    OBVIOUS
  <2> HIDE DEF F
  <2> QED
    BY <2>1, <2>2
<1>3. h = F(h)
  <2> HIDE DEF F
  <2> QED
    BY <1>2
<1>4. \A n : Pow2(n) = h[n]
  BY DEF Pow2
<1> HIDE DEF h
<1>5. h[0] = 1 /\ \A n \in Nat : h[n + 1] = 2 * h[n]
  BY <1>3
<1>6. \A n \in Nat : h[n] \in Nat /\ h[n] >= 1
  <2> DEFINE S == {n \in Nat : h[n] \in Nat /\ h[n] >= 1}
  <2>1. 0 \in S
    BY <1>5
  <2>2. ASSUME NEW n \in Nat, n \in S PROVE n + 1 \in S
    BY <1>5, <2>2
  <2>3. Nat \subseteq S
    <3> HIDE DEF S
    <3> QED
      BY <2>1, <2>2, SetInduction
  <2> QED
    BY <2>3
<1> QED
  BY <1>4, <1>5, <1>6, Zenon

LEMMA Range64 == MaxInt \in Nat /\ MaxInt >= 1 /\ Pow2(Width) = 2 * MaxInt + 2
<1>1. Width - 2 \in Nat /\ Width - 1 = (Width - 2) + 1 /\ Width = (Width - 1) + 1 /\ Width - 1 \in Nat
  BY WidthAssumption
<1>2. Pow2(Width - 1) = 2 * Pow2(Width - 2) /\ Pow2(Width) = 2 * Pow2(Width - 1)
  BY <1>1, Powers
<1>3. Pow2(Width - 2) \in Nat /\ Pow2(Width - 2) >= 1
  BY <1>1, Powers
<1> QED
  BY <1>2, <1>3 DEF MaxInt

\* Cutting to Width bits: what fits stays, and what is too large by less than the
\* range comes out negative.
LEMMA Wraps ==
    /\ \A x \in 0..MaxInt : Wrap(x) = x
    /\ \A x \in (MaxInt + 1)..(2 * MaxInt) : Wrap(x) = x - 2 * MaxInt - 2
    /\ \A x \in Int : Wrap(x) \in Int /\ Wrap(x) <= MaxInt
<1> DEFINE M == MaxInt
           R == 2 * M + 2
<1>1. M \in Nat /\ Pow2(Width) = R
  BY Range64
<1> HIDE DEF M
<1>2. \A x : Wrap(x) = ((x + M + 1) % R) - M - 1
  BY <1>1 DEF Wrap, M
<1>3. ASSUME NEW y \in Int PROVE /\ 0 <= y /\ y < R => y % R = y
                                 /\ R <= y /\ y < 2 * R => y % R = y - R
                                 /\ y % R \in 0..(R - 1)
  <2> R \in Nat /\ R > 0
    BY <1>1
  <2> HIDE DEF R
  <2> QED
    OBVIOUS
<1>4. ASSUME NEW x \in 0..M PROVE Wrap(x) = x
  <2>1. x + M + 1 \in Int /\ 0 <= x + M + 1 /\ x + M + 1 < R
    BY <1>1
  <2>2. (x + M + 1) % R = x + M + 1
    BY <1>3, <2>1
  <2> QED
    BY <1>1, <1>2, <2>2
<1>5. ASSUME NEW x \in (M + 1)..(2 * M) PROVE Wrap(x) = x - 2 * M - 2
  <2>1. x + M + 1 \in Int /\ R <= x + M + 1 /\ x + M + 1 < 2 * R
    BY <1>1
  <2>2. (x + M + 1) % R = (x + M + 1) - R
    <3> R \in Nat
      BY <1>1
    <3> DEFINE y == x + M + 1
    <3>1. y \in Int /\ R <= y /\ y < 2 * R
      BY <2>1
    <3> HIDE DEF R, y
    <3>2. y % R = y - R
      BY <1>3, <3>1, Zenon
    <3> QED
      BY <3>2, Zenon DEF y
  <2> QED
    BY <1>1, <1>2, <2>2
<1>6. ASSUME NEW x \in Int PROVE Wrap(x) \in Int /\ Wrap(x) <= M
  <2>1. (x + M + 1) % R \in 0..(R - 1)
    <3> x + M + 1 \in Int
      BY <1>1
    <3> HIDE DEF R
    <3> QED
      BY <1>3
  <2> QED
    BY <1>1, <1>2, <2>1
<1> QED
  BY <1>4, <1>5, <1>6 DEF M

\* One iteration on a value that is not negative: it doubles, up to the cap, and
\* becomes MaxInt where the double does not fit.
LEMMA DoubleIs ==
    ASSUME NEW cap \in Int, NEW d \in 0..MaxInt
    PROVE  /\ 2 * d > MaxInt => Double(cap, d) = MaxInt
           /\ 2 * d <= MaxInt /\ cap > 0 /\ 2 * d > cap => Double(cap, d) = cap
           /\ 2 * d <= MaxInt /\ ~(cap > 0 /\ 2 * d > cap) => Double(cap, d) = 2 * d
<1>1. MaxInt \in Nat
  BY Range64
<1>2. CASE 2 * d > MaxInt
  <2>1. 2 * d \in (MaxInt + 1)..(2 * MaxInt)
    BY <1>1, <1>2
  <2>2. Wrap(2 * d) = 2 * d - 2 * MaxInt - 2
    BY <2>1, Wraps
  <2> QED
    BY <1>1, <1>2, <2>2 DEF Double, Overflowed
<1>3. CASE 2 * d <= MaxInt
  <2>1. 2 * d \in 0..MaxInt
    BY <1>1, <1>3
  <2>2. Wrap(2 * d) = 2 * d
    BY <2>1, Wraps
  <2> QED
    BY <1>1, <1>3, <2>2 DEF Double, Overflowed, Capped
<1> QED
  BY <1>1, <1>2, <1>3

\* Doubled, unfolded once.
LEMMA DoubledSteps ==
    ASSUME NEW base \in Int, NEW cap \in Int
    PROVE  /\ Doubled(base, cap, 0) = base
           /\ \A n \in Nat : /\ Doubled(base, cap, n) \in Int
                             /\ Doubled(base, cap, n + 1) = Double(cap, Doubled(base, cap, n))
<1> DEFINE step == [x \in Int |-> Double(cap, x)]
           F(g) == [m \in Nat |-> IF m = 0 THEN base ELSE Double(cap, g[m - 1])]
           h == CHOOSE g : g = F(g)
<1>1. PICK f \in [Nat -> Int] : f[0] = base /\ \A n \in Nat : f[n + 1] = step[f[n]]
  <2>1. ASSUME NEW x \in Int PROVE Double(cap, x) \in Int
    <3>1. MaxInt \in Int /\ Wrap(2 * x) \in Int
      BY Range64, Wraps
    <3> QED
      BY <3>1 DEF Double, Overflowed, Capped
  <2>2. step \in [Int -> Int]
    BY <2>1
  <2> HIDE DEF step
  <2>3. PICK f : f \in Orbits(Int, step, base)
    BY <2>2, Recursion
  <2> QED
    BY <2>3 DEF Orbits
<1>2. f = F(f)
  <2>1. ASSUME NEW m \in Nat PROVE f[m] = F(f)[m]
    <3>1. CASE m = 0
      BY <1>1, <3>1
    <3>2. CASE m # 0
      <4>1. m - 1 \in Nat /\ m = (m - 1) + 1
        BY <3>2
      <4>2. f[m] = step[f[m - 1]]
        BY <1>1, <4>1
      <4> QED
        BY <1>1, <3>2, <4>1, <4>2
    <3> QED
      BY <3>1, <3>2
  <2>2. f \in [Nat -> Int] /\ DOMAIN F(f) = Nat /\ F(f) = [m \in Nat |-> F(f)[m]]
    OBVIOUS
  <2> HIDE DEF F
  <2> QED
    BY <2>1, <2>2
<1>3. h = F(h)
  <2> HIDE DEF F
  <2> QED
    BY <1>2
<1>4. \A n : Doubled(base, cap, n) = h[n]
  BY DEF Doubled
<1> HIDE DEF h
<1>5. h[0] = base /\ \A n \in Nat : h[n + 1] = Double(cap, h[n])
  BY <1>3
<1>6. \A n \in Nat : h[n] = f[n]
  <2> DEFINE S == {n \in Nat : h[n] = f[n]}
  <2>1. 0 \in S
    BY <1>1, <1>5
  <2>2. ASSUME NEW n \in Nat, n \in S PROVE n + 1 \in S
    <3>1. f[n] \in Int /\ f[n + 1] = step[f[n]]
      BY <1>1
    <3>2. f[n + 1] = Double(cap, f[n])
      BY <3>1
    <3> QED
      BY <1>5, <2>2, <3>2
  <2>3. Nat \subseteq S
    <3> HIDE DEF S
    <3> QED
      BY <2>1, <2>2, SetInduction
  <2> QED
    BY <2>3
<1>7. \A n \in Nat : h[n] \in Int
  BY <1>6
<1> HIDE DEF F, step
<1> QED
  BY <1>4, <1>5, <1>7, Zenon

\* From a Base that is not negative every value of the loop is a duration that is
\* not negative.
LEMMA DoubledRange ==
    ASSUME NEW base \in 0..MaxInt, NEW cap \in Durations
    PROVE  \A n \in Nat : Doubled(base, cap, n) \in 0..MaxInt
<1> DEFINE S == {n \in Nat : Doubled(base, cap, n) \in 0..MaxInt}
<1>1. MaxInt \in Nat /\ base \in Int /\ cap \in Int /\ cap <= MaxInt
  BY Range64 DEF Durations
<1>2. 0 \in S
  BY <1>1, DoubledSteps, Zenon
<1>3. ASSUME NEW n \in Nat, n \in S PROVE n + 1 \in S
  <2>1. Double(cap, Doubled(base, cap, n)) \in 0..MaxInt
    BY <1>1, <1>3, DoubleIs
  <2> QED
    BY <1>1, <2>1, DoubledSteps
<1>4. Nat \subseteq S
  <2> HIDE DEF S
  <2> QED
    BY <1>2, <1>3, SetInduction
<1> QED
  BY <1>4

\* The loop of Next doubles as the formula does, up to the top.
LEMMA DoublesToTheTop ==
    ASSUME NEW base \in 0..MaxInt, NEW cap \in Durations, NEW top \in Int,
           top = IF cap > 0 THEN cap ELSE MaxInt
    PROVE  \A n \in Nat : /\ base * Pow2(n) \in Nat
                          /\ Doubled(base, cap, n) >= top <=> base * Pow2(n) >= top
                          /\ Doubled(base, cap, n) < top => Doubled(base, cap, n) = base * Pow2(n)
<1> DEFINE d(n) == Doubled(base, cap, n)
           e(n) == base * Pow2(n)
           S == {n \in Nat : (d(n) >= top <=> e(n) >= top) /\ (d(n) < top => d(n) = e(n))}
<1>1. MaxInt \in Nat /\ base \in Int /\ cap \in Int /\ top <= MaxInt /\ (cap > 0 => top = cap) /\ (~(cap > 0) => top = MaxInt)
  BY Range64 DEF Durations
<1>2. \A n \in Nat : d(n) \in 0..MaxInt /\ d(n + 1) = Double(cap, d(n))
  BY <1>1, DoubledSteps, DoubledRange, Zenon
<1>3. \A n \in Nat : e(n) \in Nat /\ e(n + 1) = 2 * e(n)
  <2> TAKE n \in Nat
  <2>1. Pow2(n) \in Nat /\ Pow2(n + 1) = 2 * Pow2(n)
    BY Powers, Zenon
  <2>2. base \in Nat
    BY <1>1
  <2> QED
    BY <2>1, <2>2
<1>4. d(0) = base /\ e(0) = base
  <2>1. base \in Int /\ Pow2(0) = 1
    BY <1>1, Powers
  <2>2. e(0) = base
    BY <2>1
  <2> QED
    BY <1>1, <2>1, <2>2, DoubledSteps
<1> HIDE DEF d, e
<1>5. 0 \in S
  BY <1>1, <1>4
<1>6. ASSUME NEW n \in Nat, n \in S PROVE n + 1 \in S
  <2>1. d(n) \in 0..MaxInt /\ d(n + 1) = Double(cap, d(n)) /\ e(n) \in Nat /\ e(n + 1) = 2 * e(n)
    BY <1>2, <1>3, Zenon
  <2>2. (d(n) >= top <=> e(n) >= top) /\ (d(n) < top => d(n) = e(n))
    BY <1>6
  <2>3. CASE 2 * d(n) > MaxInt
    <3>1. d(n + 1) = MaxInt
      BY <1>1, <2>1, <2>3, DoubleIs
    <3> QED
      BY <1>1, <2>1, <2>2, <2>3, <3>1
  <2>4. CASE 2 * d(n) <= MaxInt
    <3>1. CASE cap > 0 /\ 2 * d(n) > cap
      <4>1. d(n + 1) = cap
        BY <1>1, <2>1, <2>4, <3>1, DoubleIs
      <4> QED
        BY <1>1, <2>1, <2>2, <3>1, <4>1
    <3>2. CASE ~(cap > 0 /\ 2 * d(n) > cap)
      <4>1. d(n + 1) = 2 * d(n)
        BY <1>1, <2>1, <2>4, <3>2, DoubleIs
      <4> QED
        BY <1>1, <2>1, <2>2, <2>4, <3>2, <4>1
    <3> QED
      BY <3>1, <3>2
  <2> QED
    BY <1>1, <2>1, <2>3, <2>4
<1>7. Nat \subseteq S
  <2> HIDE DEF S
  <2> QED
    BY <1>5, <1>6, SetInduction
<1>8. \A n \in Nat : e(n) \in Nat /\ (d(n) >= top <=> e(n) >= top) /\ (d(n) < top => d(n) = e(n))
  BY <1>3, <1>7, Zenon
<1> QED
  BY <1>8 DEF d, e

\* For every width, every Base that is not negative, every Cap and every attempt,
\* however far beyond the one at which doubling overflows, ExponentialBackoff.Next
\* returns the documented delay, a duration that is not negative.
THEOREM NextIsFormula ==
    ASSUME NEW base \in 0..MaxInt, NEW cap \in Durations, NEW n \in Nat \ {0}
    PROVE  /\ NextDelay(base, cap, n) = Formula(base, cap, n)
           /\ NextDelay(base, cap, n) \in 0..MaxInt
<1> DEFINE top == IF cap > 0 THEN cap ELSE MaxInt
           d == Doubled(base, cap, n - 1)
           e == base * Pow2(n - 1)
<1>1. MaxInt \in Nat /\ cap \in Int /\ cap <= MaxInt /\ n - 1 \in Nat /\ ~(n < 1)
  BY Range64 DEF Durations
<1>2. top \in Int /\ 0 <= top /\ top <= MaxInt
  BY <1>1
<1>3. d \in 0..MaxInt
  BY <1>1, DoubledRange
<1>4. e \in Nat /\ (d >= top <=> e >= top) /\ (d < top => d = e)
  <2> DEFINE t == top
  <2>1. t \in Int /\ t = IF cap > 0 THEN cap ELSE MaxInt
    BY <1>2
  <2> HIDE DEF t
  <2>2. e \in Nat /\ (d >= t <=> e >= t) /\ (d < t => d = e)
    BY <1>1, <2>1, DoublesToTheTop
  <2> QED
    BY <2>2 DEF t
<1>5. NextDelay(base, cap, n) = IF Capped(cap, d) < 0 THEN MaxInt ELSE Capped(cap, d)
  BY <1>1 DEF NextDelay
<1>6. Formula(base, cap, n) = IF e > top THEN top ELSE e
  BY DEF Formula
<1> HIDE DEF d, e
<1> QED
  BY <1>1, <1>3, <1>4, <1>5, <1>6 DEF Capped

\* Next returns a duration whatever Base is.
LEMMA NextInt ==
    ASSUME NEW base \in Durations, NEW cap \in Durations, NEW n \in Nat \ {0}
    PROVE  NextDelay(base, cap, n) \in Int
<1>1. MaxInt \in Int /\ base \in Int /\ cap \in Int /\ n - 1 \in Nat /\ ~(n < 1)
  BY Range64 DEF Durations
<1>2. Doubled(base, cap, n - 1) \in Int
  BY <1>1, DoubledSteps
<1> QED
  BY <1>1, <1>2 DEF NextDelay, Capped

\* A negative Base is documented to give a negative delay.
LEMMA NegativeFormula ==
    ASSUME NEW base \in Durations, NEW cap \in Durations, NEW n \in Nat \ {0}, base < 0
    PROVE  Formula(base, cap, n) \in Int /\ Formula(base, cap, n) < 0
<1>1. MaxInt \in Nat /\ base \in Int /\ cap \in Int /\ n - 1 \in Nat
  BY Range64 DEF Durations
<1>2. Pow2(n - 1) \in Nat /\ Pow2(n - 1) >= 1
  BY <1>1, Powers
<1>3. base * Pow2(n - 1) \in Int /\ base * Pow2(n - 1) < 0
  <2> DEFINE p == Pow2(n - 1)
  <2> HIDE DEF p
  <2>1. ASSUME NEW b \in Int, NEW q \in Nat, b < 0, q >= 1 PROVE b * q \in Int /\ b * q < 0
    BY <2>1
  <2> QED
    BY <1>1, <1>2, <2>1
<1> QED
  BY <1>1, <1>3 DEF Formula
-----------------------------------------------------------------------------
(* The state of clock, rows and pipeline. *)

Status == {"unsaved", "pending", "claimed", "running", "succeeded", "failed"}

TimingTypes ==
    /\ now \in 0..MaxTime
    /\ seen \in 0..now
    /\ backoff \in Backoffs
    /\ state \in [Jobs -> Status]
    /\ attempt \in [Jobs -> Nat]
    /\ runAt \in [Jobs -> Int]
    /\ eligible \in [Jobs -> Int]
    /\ batch \in Seq(Jobs)
    /\ ch \in Seq(Jobs)
    /\ work \in [Workers -> Jobs \cup {NoJob}]
    /\ asleep \subseteq {w \in Workers : work[w] # NoJob}

\* q has the members of C, each once.
Lists(q, C) ==
    /\ q \in Seq(C)
    /\ \A x, y \in 1..Len(q) : q[x] = q[y] => x = y
    /\ \A j \in C : \E x \in 1..Len(q) : q[x] = j

Claimed == {j \in Jobs : state[j] = "claimed"}

\* Channel and batch have the claimed jobs, each once, and a worker has a running
\* job of its own.
PipeInv ==
    /\ Lists(ch \o batch, Claimed)
    /\ \A w \in Workers : work[w] # NoJob => state[work[w]] = "running"
    /\ \A v, w \in Workers : work[v] = work[w] /\ work[v] # NoJob => v = w
    /\ pc # "push" => batch = <<>>

\* The backoff of a job has ended, or the job is pending and run_at keeps it from
\* being claimed before it ends.
WaitInv ==
    \A j \in Jobs : eligible[j] <= now \/ (state[j] = "pending" /\ eligible[j] <= runAt[j])

TimingInv == TimingTypes /\ PipeInv /\ WaitInv
-----------------------------------------------------------------------------
(* Lists. *)

LEMMA Tails ==
    ASSUME NEW S, NEW s \in Seq(S), s # <<>>
    PROVE  /\ Len(s) \in Nat \ {0} /\ Head(s) = s[1] /\ Head(s) \in S
           /\ Tail(s) \in Seq(S) /\ Len(Tail(s)) = Len(s) - 1
           /\ \A x \in 1..(Len(s) - 1) : Tail(s)[x] = s[x + 1]
  OBVIOUS

\* Taking the head off a list.
LEMMA ListTail ==
    ASSUME NEW C, NEW q, Lists(q, C), q # <<>>
    PROVE  Head(q) \in C /\ Lists(Tail(q), C \ {Head(q)})
<1> DEFINE h == Head(q)
           t == Tail(q)
           n == Len(q)
<1> q \in Seq(C) /\ q \in [1..n -> C]
  BY DEF Lists
<1> /\ n \in Nat \ {0} /\ h = q[1] /\ h \in C
    /\ t \in Seq(C) /\ Len(t) = n - 1 /\ \A x \in 1..(n - 1) : t[x] = q[x + 1]
  BY Tails
<1> HIDE DEF h, t, n
<1>1. \A x, y \in 1..n : q[x] = q[y] => x = y
  BY DEF Lists, n
<1>2. \A x \in 1..(n - 1) : t[x] \in C \ {h}
  BY <1>1
<1>3. t \in Seq(C \ {h})
  BY <1>2
<1>4. ASSUME NEW x \in 1..(n - 1), NEW y \in 1..(n - 1), t[x] = t[y] PROVE x = y
  BY <1>1, <1>4
<1>5. ASSUME NEW j \in C \ {h} PROVE \E x \in 1..(n - 1) : t[x] = j
  <2>1. PICK x \in 1..n : q[x] = j
    BY DEF Lists, n
  <2>2. x - 1 \in 1..(n - 1) /\ t[x - 1] = j
    BY <2>1
  <2> QED
    BY <2>2
<1> QED
  BY <1>3, <1>4, <1>5 DEF Lists, h, t

\* Appending others.
LEMMA ListMore ==
    ASSUME NEW C, NEW q, Lists(q, C), NEW n \in Nat, NEW S, NEW b \in [1..n -> S],
           \A x, y \in 1..n : x < y => b[x] # b[y], \A x \in 1..n : b[x] \notin C,
           NEW D, D = C \cup {b[x] : x \in 1..n}
    PROVE  Lists(q \o b, D)
<1> DEFINE p == q \o b
           k == Len(q)
<1>1. q \in Seq(C) /\ b \in Seq(S) /\ Len(b) = n
  BY DEF Lists
<1> q \in Seq(D) /\ b \in Seq(D)
  BY <1>1
<1> k \in Nat /\ p \in Seq(D) /\ Len(p) = k + n /\ \A x \in 1..k : q[x] \in C
  BY <1>1
<1> \A x \in 1..k : p[x] = q[x] /\ p[x] \in C
  BY <1>1
<1> \A x \in (k + 1)..(k + n) : p[x] = b[x - k] /\ x - k \in 1..n
  BY <1>1
<1> HIDE DEF p, k
<1>2. \A x, y \in 1..k : q[x] = q[y] => x = y
  BY DEF Lists, k
<1>3. ASSUME NEW x \in 1..(k + n), NEW y \in 1..(k + n), p[x] = p[y], x < y PROVE FALSE
  <2>1. CASE y <= k
    <3>1. x \in 1..k /\ y \in 1..k /\ q[x] = q[y] /\ x # y
      BY <1>3, <2>1
    <3> QED
      BY <1>2, <3>1, Zenon
  <2>2. CASE x <= k /\ y > k
    <3>1. p[x] \in C /\ y \in (k + 1)..(k + n)
      BY <2>2
    <3> QED
      BY <1>3, <3>1
  <2>3. CASE x > k
    <3>1. x - k \in 1..n /\ y - k \in 1..n /\ x - k < y - k /\ b[x - k] = b[y - k]
      BY <1>3, <2>3
    <3> QED
      BY <3>1, Zenon
  <2> QED
    BY <2>1, <2>2, <2>3
<1>4. ASSUME NEW j \in D PROVE \E x \in 1..(k + n) : p[x] = j
  <2>1. CASE j \in C
    <3>1. PICK x \in 1..k : q[x] = j
      BY <2>1 DEF Lists, k
    <3> QED
      BY <3>1
  <2>2. ASSUME NEW y \in 1..n, j = b[y] PROVE \E x \in 1..(k + n) : p[x] = j
    <3>1. k + y \in (k + 1)..(k + n) /\ (k + y) - k = y
      OBVIOUS
    <3> QED
      BY <2>2, <3>1
  <2> QED
    BY <2>1, <2>2
<1>5. \A x, y \in 1..Len(p) : p[x] = p[y] => x = y
  BY <1>3
<1> QED
  BY <1>4, <1>5, Zenon DEF Lists, p

\* Pushing leaves channel followed by batch as it is; receiving takes its head.
LEMMA PushList ==
    ASSUME NEW S, NEW s \in Seq(S), NEW t \in Seq(S), t # <<>>
    PROVE  Append(s, Head(t)) \o Tail(t) = s \o t
<1>1. /\ Append(s, Head(t)) \o Tail(t) \in Seq(S) /\ s \o t \in Seq(S)
      /\ Len(Append(s, Head(t)) \o Tail(t)) = Len(s \o t)
  OBVIOUS
<1>2. \A i \in 1..Len(s \o t) : (Append(s, Head(t)) \o Tail(t))[i] = (s \o t)[i]
  OBVIOUS
<1>3. ASSUME NEW u \in Seq(S), NEW v \in Seq(S), Len(u) = Len(v), \A i \in 1..Len(v) : u[i] = v[i]
      PROVE  u = v
  BY <1>3
<1> QED
  BY <1>1, <1>2, <1>3, Zenon

LEMMA TakeList ==
    ASSUME NEW S, NEW s \in Seq(S), NEW t \in Seq(S), s # <<>>
    PROVE  s \o t # <<>> /\ Head(s \o t) = Head(s) /\ Tail(s \o t) = Tail(s) \o t
  OBVIOUS
-----------------------------------------------------------------------------
(* The invariant is inductive. *)

\* A step that leaves rows and workers alone.
LEMMA Quiet ==
    ASSUME TimingInv, UNCHANGED <<backoff, state, attempt, runAt, eligible, work>>,
           now' = now \/ (now < MaxTime /\ now' = now + 1), seen' \in {seen, now},
           ch' \in Seq(Jobs), batch' \in Seq(Jobs), ch' \o batch' = ch \o batch,
           pc' # "push" => batch' = <<>>,
           asleep' \subseteq {w \in Workers : work[w] # NoJob}
    PROVE  TimingInv'
<1> TimingTypes /\ PipeInv /\ WaitInv
  BY DEF TimingInv
<1>0. now \in 0..MaxTime /\ seen \in 0..now /\ MaxTime \in Nat
  BY TimesAssumption, Zenon DEF TimingTypes
<1>1. now \in Nat /\ now' \in 0..MaxTime /\ seen' \in 0..now' /\ now <= now'
  BY <1>0
<1>2. TimingTypes'
  BY <1>1, Zenon DEF TimingTypes
<1>3. Claimed' = Claimed
  BY Zenon DEF Claimed
<1>4. PipeInv'
  BY <1>3, Zenon DEF PipeInv
<1>5. \A j \in Jobs : eligible[j] \in Int
  BY DEF TimingTypes
<1>6. WaitInv'
  BY <1>1, <1>5 DEF WaitInv
<1> QED
  BY <1>2, <1>4, <1>6 DEF TimingInv

\* A step that changes the row of a job which is not claimed, before or after.
LEMMA OneRow ==
    ASSUME TimingInv, NEW j \in Jobs,
           state' \in [Jobs -> Status], attempt' \in [Jobs -> Nat],
           runAt' \in [Jobs -> Int], eligible' \in [Jobs -> Int],
           state[j] # "claimed", state'[j] \notin {"claimed", "running"},
           eligible'[j] <= now \/ (state'[j] = "pending" /\ eligible'[j] <= runAt'[j]),
           \A i \in Jobs \ {j} :
               state'[i] = state[i] /\ runAt'[i] = runAt[i] /\ eligible'[i] = eligible[i],
           UNCHANGED <<now, seen, backoff, ch, batch, pc>>,
           work' \in [Workers -> Jobs \cup {NoJob}],
           \A w \in Workers : work'[w] # NoJob => work'[w] = work[w] /\ work[w] # j,
           asleep' \subseteq {w \in Workers : work'[w] # NoJob}
    PROVE  TimingInv'
<1> TimingTypes /\ PipeInv /\ WaitInv
  BY DEF TimingInv
<1>1. TimingTypes'
  BY Zenon DEF TimingTypes
<1>2. Claimed' = Claimed
  BY DEF Claimed
<1>3. ASSUME NEW w \in Workers, work'[w] # NoJob PROVE state'[work'[w]] = "running"
  <2>1. work[w] \in Jobs \ {j} /\ state[work[w]] = "running" /\ work'[w] = work[w]
    BY <1>3 DEF PipeInv
  <2> QED
    BY <2>1
<1>4. ASSUME NEW v \in Workers, NEW w \in Workers, work'[v] = work'[w], work'[v] # NoJob PROVE v = w
  <2>1. work[v] = work[w] /\ work[v] # NoJob
    BY <1>4, Zenon
  <2> QED
    BY <2>1, Zenon DEF PipeInv
<1>5. PipeInv'
  BY <1>2, <1>3, <1>4, Zenon DEF PipeInv
<1>6. WaitInv'
  BY Zenon DEF WaitInv
<1> QED
  BY <1>1, <1>5, <1>6 DEF TimingInv

\* An attempt fails and the job is retried: the retry waits for the documented
\* backoff, whether that ends now, fits into the column or does not.
LEMMA RetryTime ==
    ASSUME TimingTypes, NEW n \in Nat \ {0}
    PROVE  LET doc == now + Formula(Base, Cap, n)
               e == IF doc <= MaxInt THEN doc ELSE 0
           IN  /\ e \in Int /\ toUnixNano(RetryAt(n)) \in Int
               /\ e <= now \/ e <= toUnixNano(RetryAt(n))
<1> DEFINE doc == now + Formula(Base, Cap, n)
<1> Base \in Durations /\ Cap \in Durations /\ now \in Nat /\ MaxInt \in Nat
  BY BackoffsAssumption, Range64 DEF TimingTypes, Base, Cap
<1>1. RetryAt(n) \in Int /\ doc \in Int /\ (doc <= now \/ (RetryAt(n) = doc /\ doc >= 0))
  <2>1. CASE Base < 0
    BY <2>1, NextInt, NegativeFormula DEF RetryAt
  <2>2. CASE Base >= 0
    <3>1. Base \in 0..MaxInt
      BY <2>2 DEF Durations
    <3>2. NextDelay(Base, Cap, n) = Formula(Base, Cap, n) /\ NextDelay(Base, Cap, n) \in 0..MaxInt
      BY <3>1, NextIsFormula
    <3> QED
      BY <3>2 DEF RetryAt
  <2> QED
    BY <2>1, <2>2 DEF Durations
<1> HIDE DEF doc
<1>2. toUnixNano(RetryAt(n)) \in Int /\ (doc >= 0 /\ doc <= MaxInt => toUnixNano(doc) = doc)
  BY <1>1, Wraps DEF toUnixNano
<1>3. LET e == IF doc <= MaxInt THEN doc ELSE 0
      IN  e \in Int /\ (e <= now \/ e <= toUnixNano(RetryAt(n)))
  BY <1>1, <1>2
<1> QED
  BY <1>2, <1>3 DEF doc

LEMMA InvInit == Init => TimingInv
<1> SUFFICES ASSUME Init PROVE TimingInv
  OBVIOUS
<1>1. now = 0 /\ MaxTime \in Nat /\ NoJob \notin Jobs
  BY TimesAssumption, JobsAssumption DEF Init, ClockInit
<1>2. TimingTypes
  BY <1>1 DEF Init, TimingTypes, Status
<1>3. Claimed = {} /\ <<>> \o <<>> = <<>> /\ <<>> \in Seq({}) /\ Len(<<>>) = 0
  BY DEF Init, Claimed
<1>4. PipeInv
  BY <1>3 DEF Init, PipeInv, Lists
<1>5. WaitInv
  BY <1>1 DEF Init, WaitInv
<1> QED
  BY <1>2, <1>4, <1>5 DEF TimingInv

LEMMA ClaimKeepsInv ==
    ASSUME TimingInv, ClaimDue
    PROVE  TimingInv'
<1> TimingTypes /\ PipeInv /\ WaitInv
  BY DEF TimingInv
<1>1. PICK n \in 0..Cardinality(Workers) : \E b \in [1..n -> {j \in Jobs : IsDue(j)}] :
         /\ \A x, y \in 1..n : x < y => b[x] # b[y] /\ runAt[b[x]] <= runAt[b[y]]
         /\ n < Cardinality(Workers) => \A j \in Jobs : IsDue(j) => \E x \in 1..n : b[x] = j
         /\ \A j \in Jobs, x \in 1..n :
                IsDue(j) /\ (\A y \in 1..n : b[y] # j) => runAt[b[x]] <= runAt[j]
         /\ batch' = b
         /\ state' = [j \in Jobs |-> IF \E x \in 1..n : b[x] = j THEN "claimed" ELSE state[j]]
  BY Zenon DEF ClaimDue
<1>2. PICK b \in [1..n -> {j \in Jobs : IsDue(j)}] :
         /\ \A x, y \in 1..n : x < y => b[x] # b[y]
         /\ batch' = b
         /\ state' = [j \in Jobs |-> IF \E x \in 1..n : b[x] = j THEN "claimed" ELSE state[j]]
  BY <1>1
<1> DEFINE B == {b[x] : x \in 1..n}
<1>3. n \in Nat
  BY WorkersAssumption
<1>4. /\ UNCHANGED <<now, backoff, attempt, runAt, eligible, seen, ch, work, asleep>>
      /\ pc = "claim" /\ pc' = "push"
  BY DEF ClaimDue, clockVars, workVars
<1>5. \A j \in B : j \in Jobs /\ state[j] = "pending" /\ runAt[j] <= toUnixNano(seen)
  BY <1>2 DEF IsDue
<1>6. \A j \in Jobs : state'[j] = IF j \in B THEN "claimed" ELSE state[j]
  BY <1>2
<1>7. state' \in [Jobs -> Status]
  BY <1>2, <1>6 DEF TimingTypes, Status
<1>8. b \in Seq(Jobs) /\ b \in [1..n -> Jobs] /\ b \in Seq({j \in Jobs : IsDue(j)})
  BY <1>2, <1>3
<1> HIDE DEF B
<1>9. TimingTypes'
  BY <1>2, <1>4, <1>7, <1>8, Zenon DEF TimingTypes
<1>10. Claimed' = Claimed \cup B
  BY <1>5, <1>6 DEF Claimed
<1>11. ch' \o batch' = (ch \o batch) \o b
  <2>1. batch = <<>> /\ ch \in Seq(Jobs)
    BY <1>4 DEF PipeInv, TimingTypes
  <2>2. (ch \o <<>>) \o b = ch \o b
    BY <2>1, <1>8
  <2> QED
    BY <1>2, <1>4, <2>1, <2>2, Zenon
<1>12. \A x \in 1..n : b[x] \notin Claimed
  BY <1>5 DEF B, Claimed
<1>13. Lists((ch \o batch) \o b, Claimed \cup B)
  <2>1. Lists(ch \o batch, Claimed) /\ \A x, y \in 1..n : x < y => b[x] # b[y]
    BY <1>2 DEF PipeInv
  <2>2. Claimed \cup B = Claimed \cup {b[x] : x \in 1..n}
    BY Zenon DEF B
  <2> QED
    BY <1>3, <1>8, <1>12, <2>1, <2>2, ListMore, Zenon
<1>14. ASSUME NEW w \in Workers, work[w] # NoJob PROVE state'[work[w]] = "running"
  <2>1. work[w] \in Jobs /\ state[work[w]] = "running"
    BY <1>14 DEF PipeInv, TimingTypes
  <2> QED
    BY <1>5, <1>6, <2>1
<1>15. PipeInv'
  BY <1>4, <1>10, <1>11, <1>13, <1>14, Zenon DEF PipeInv
<1>16. toUnixNano(seen) = seen /\ seen \in Int /\ seen <= now /\ now \in Int
  BY TimesAssumption, FitsAssumption, Range64, Wraps DEF TimingTypes, toUnixNano
<1>17. \A j \in Jobs : eligible[j] \in Int /\ runAt[j] \in Int
  BY Zenon DEF TimingTypes
<1>18. WaitInv'
  BY <1>4, <1>5, <1>6, <1>16, <1>17 DEF WaitInv
<1> QED
  BY <1>9, <1>15, <1>18 DEF TimingInv

LEMMA TakeKeepsInv ==
    ASSUME TimingInv, NEW w \in Workers, Take(w)
    PROVE  TimingInv'
<1> DEFINE h == Head(ch)
<1> TimingTypes /\ PipeInv /\ WaitInv
  BY DEF TimingInv
<1>1. /\ ch \in Seq(Jobs) /\ batch \in Seq(Jobs) /\ ch # <<>> /\ work[w] = NoJob
      /\ state \in [Jobs -> Status] /\ work \in [Workers -> Jobs \cup {NoJob}]
  BY DEF Take, TimingTypes
<1>2. /\ ch \o batch # <<>> /\ Head(ch \o batch) = h /\ Tail(ch \o batch) = ch' \o batch
      /\ h \in Jobs /\ ch' \in Seq(Jobs)
  BY <1>1, TakeList, Tails DEF Take
<1>3. h \in Claimed /\ Lists(ch' \o batch, Claimed \ {h})
  <2>1. Lists(ch \o batch, Claimed)
    BY DEF PipeInv
  <2>2. Head(ch \o batch) \in Claimed /\ Lists(Tail(ch \o batch), Claimed \ {Head(ch \o batch)})
    BY <1>2, <2>1, ListTail, Zenon
  <2> QED
    BY <1>2, <2>2, Zenon
<1>4. /\ work' = [work EXCEPT ![w] = h] /\ state' = [state EXCEPT ![h] = "running"]
      /\ UNCHANGED <<now, backoff, attempt, runAt, eligible, pc, seen, batch, asleep>>
  BY DEF Take, clockVars
<1> HIDE DEF h
<1>5. /\ work'[w] = h /\ h # NoJob /\ \A v \in Workers \ {w} : work'[v] = work[v]
      /\ state'[h] = "running" /\ \A j \in Jobs \ {h} : state'[j] = state[j]
  BY <1>1, <1>2, <1>4, JobsAssumption
<1>6. state' \in [Jobs -> Status] /\ work' \in [Workers -> Jobs \cup {NoJob}]
  BY <1>1, <1>2, <1>4 DEF Status
<1>7. asleep \subseteq {v \in Workers : work'[v] # NoJob}
  BY <1>5 DEF TimingTypes
<1>8. TimingTypes'
  BY <1>2, <1>4, <1>6, <1>7, Zenon DEF TimingTypes
<1>9. Claimed' = Claimed \ {h}
  BY <1>3, <1>5 DEF Claimed
<1>10. ASSUME NEW v \in Workers, work'[v] # NoJob PROVE state'[work'[v]] = "running"
  BY <1>1, <1>5, <1>10 DEF PipeInv
<1>11. \A v \in Workers \ {w} : work'[v] # h
  <2>1. \A v \in Workers \ {w} : work'[v] # NoJob => state[work'[v]] = "running"
    BY <1>5 DEF PipeInv
  <2> QED
    BY <1>3, <1>5, <2>1, Zenon DEF Claimed
<1>12. PipeInv'
  BY <1>3, <1>4, <1>5, <1>9, <1>10, <1>11 DEF PipeInv
<1>13. WaitInv'
  BY <1>3, <1>4, <1>5, Zenon DEF WaitInv, Claimed
<1> QED
  BY <1>8, <1>12, <1>13 DEF TimingInv

LEMMA ReturnKeepsInv ==
    ASSUME TimingInv, NEW w \in Workers, HandlerSucceeds(w) \/ HandlerFails(w)
    PROVE  TimingInv'
<1> DEFINE j == work[w]
           n == attempt[j] + 1
           doc == now + Formula(Base, Cap, n)
           e == IF doc <= MaxInt THEN doc ELSE 0
<1> TimingTypes /\ PipeInv /\ WaitInv
  BY DEF TimingInv
<1>1. /\ w \in asleep /\ asleep' = asleep \ {w} /\ work' = [work EXCEPT ![w] = NoJob]
      /\ UNCHANGED <<now, seen, backoff, ch, batch, pc>>
  BY DEF HandlerSucceeds, HandlerFails, Returned, Receive, pipeVars
<1>2. /\ work \in [Workers -> Jobs \cup {NoJob}] /\ asleep \subseteq {v \in Workers : work[v] # NoJob}
      /\ state \in [Jobs -> Status] /\ attempt \in [Jobs -> Nat]
      /\ runAt \in [Jobs -> Int] /\ eligible \in [Jobs -> Int]
  BY DEF TimingTypes
<1>3. j \in Jobs /\ j # NoJob /\ n \in Nat \ {0}
  BY <1>1, <1>2
<1>4. state[j] = "running" /\ \A v \in Workers : work[v] = j => v = w
  BY <1>3 DEF PipeInv
<1>5. eligible[j] <= now
  BY <1>3, <1>4 DEF WaitInv
<1>6. /\ work' \in [Workers -> Jobs \cup {NoJob}]
      /\ \A v \in Workers : work'[v] # NoJob => work'[v] = work[v] /\ work[v] # j
      /\ asleep' \subseteq {v \in Workers : work'[v] # NoJob}
  BY <1>1, <1>2, <1>4
<1> HIDE DEF j, n
<1>7. CASE HandlerSucceeds(w)
  <2>1. state' = [state EXCEPT ![j] = "succeeded"] /\ UNCHANGED <<attempt, runAt, eligible>>
    BY <1>7 DEF HandlerSucceeds, j
  <2>2. /\ state' \in [Jobs -> Status] /\ attempt' \in [Jobs -> Nat]
        /\ runAt' \in [Jobs -> Int] /\ eligible' \in [Jobs -> Int]
        /\ state[j] # "claimed" /\ state'[j] \notin {"claimed", "running"} /\ eligible'[j] <= now
        /\ \A i \in Jobs \ {j} :
              state'[i] = state[i] /\ runAt'[i] = runAt[i] /\ eligible'[i] = eligible[i]
    BY <1>2, <1>3, <1>4, <1>5, <2>1 DEF Status
  <2> QED
    BY <1>1, <1>3, <1>6, <2>2, OneRow, Zenon
<1>8. CASE HandlerFails(w) /\ n >= StoredMax
  <2>1. state' = [state EXCEPT ![j] = "failed"] /\ attempt' = [attempt EXCEPT ![j] = n]
        /\ UNCHANGED <<runAt, eligible>>
    BY <1>8 DEF HandlerFails, j, n
  <2>2. /\ state' \in [Jobs -> Status] /\ attempt' \in [Jobs -> Nat]
        /\ runAt' \in [Jobs -> Int] /\ eligible' \in [Jobs -> Int]
        /\ state[j] # "claimed" /\ state'[j] \notin {"claimed", "running"} /\ eligible'[j] <= now
        /\ \A i \in Jobs \ {j} :
              state'[i] = state[i] /\ runAt'[i] = runAt[i] /\ eligible'[i] = eligible[i]
    BY <1>2, <1>3, <1>4, <1>5, <2>1 DEF Status
  <2> QED
    BY <1>1, <1>3, <1>6, <2>2, OneRow, Zenon
<1>9. CASE HandlerFails(w) /\ ~(n >= StoredMax)
  <2>1. /\ state' = [state EXCEPT ![j] = "pending"] /\ attempt' = [attempt EXCEPT ![j] = n]
        /\ runAt' = [runAt EXCEPT ![j] = toUnixNano(RetryAt(n))]
        /\ eligible' = [eligible EXCEPT ![j] = e]
    BY <1>9, Zenon DEF HandlerFails, Queue, j, n
  <2>2. /\ e \in Int /\ toUnixNano(RetryAt(n)) \in Int
        /\ e <= now \/ e <= toUnixNano(RetryAt(n))
    BY <1>3, RetryTime
  <2> HIDE DEF e
  <2>3. /\ state' \in [Jobs -> Status] /\ attempt' \in [Jobs -> Nat]
        /\ runAt' \in [Jobs -> Int] /\ eligible' \in [Jobs -> Int]
    BY <1>2, <1>3, <2>1, <2>2 DEF Status
  <2>4. /\ state[j] # "claimed" /\ state'[j] = "pending"
        /\ eligible'[j] <= now \/ eligible'[j] <= runAt'[j]
        /\ \A i \in Jobs \ {j} :
              state'[i] = state[i] /\ runAt'[i] = runAt[i] /\ eligible'[i] = eligible[i]
    BY <1>2, <1>3, <1>4, <2>1, <2>2
  <2>5. state'[j] \notin {"claimed", "running"}
    BY <2>4
  <2> QED
    BY <1>1, <1>3, <1>6, <2>3, <2>4, <2>5, OneRow, Zenon
<1> QED
  BY <1>7, <1>8, <1>9

LEMMA InvNext == TimingInv /\ [Next]_vars => TimingInv'
<1> SUFFICES ASSUME TimingInv, [Next]_vars PROVE TimingInv'
  OBVIOUS
<1> TimingTypes /\ PipeInv /\ WaitInv
  BY DEF TimingInv
<1> /\ ch \in Seq(Jobs) /\ batch \in Seq(Jobs) /\ (pc # "push" => batch = <<>>)
    /\ asleep \subseteq {w \in Workers : work[w] # NoJob}
  BY DEF TimingTypes, PipeInv
<1>1. ASSUME NEW j \in Jobs, NEW d \in Delays, Schedule(j, d) PROVE TimingInv'
  <2> DEFINE r == toUnixNano(now + d)
  <2>1. /\ state[j] = "unsaved" /\ state' = [state EXCEPT ![j] = "pending"]
        /\ runAt' = [runAt EXCEPT ![j] = r]
        /\ UNCHANGED <<now, seen, backoff, ch, batch, pc, attempt, eligible, work, asleep>>
    BY <1>1, Zenon DEF Schedule, Queue, clockVars, pipeVars, workVars
  <2>2. r \in Int /\ now \in Int
    BY TimesAssumption, Wraps DEF toUnixNano, TimingTypes
  <2> HIDE DEF r
  <2>3. /\ state' \in [Jobs -> Status] /\ attempt' \in [Jobs -> Nat]
        /\ runAt' \in [Jobs -> Int] /\ eligible' \in [Jobs -> Int]
        /\ work' \in [Workers -> Jobs \cup {NoJob}]
    BY <2>1, <2>2, Zenon DEF TimingTypes, Status
  <2>4. /\ eligible'[j] <= now /\ state[j] # "claimed" /\ state'[j] \notin {"claimed", "running"}
        /\ \A i \in Jobs \ {j} :
              state'[i] = state[i] /\ runAt'[i] = runAt[i] /\ eligible'[i] = eligible[i]
    BY <2>1 DEF WaitInv, TimingTypes
  <2>5. \A w \in Workers : work'[w] # NoJob => work'[w] = work[w] /\ work[w] # j
    BY <2>1 DEF PipeInv
  <2> QED
    BY <2>1, <2>3, <2>4, <2>5, OneRow, Zenon
<1>2. CASE Sleep
  BY <1>2, Quiet, Zenon DEF Sleep, After, jobVars, workVars
<1>3. CASE Wake
  BY <1>3, Quiet, Zenon DEF Wake, Receive, jobVars, workVars
<1>4. CASE Push
  <2>1. ch' \in Seq(Jobs) /\ batch' \in Seq(Jobs) /\ ch' \o batch' = ch \o batch
    <3>1. batch # <<>> /\ ch' = Append(ch, Head(batch)) /\ batch' = Tail(batch)
      BY <1>4 DEF Push
    <3>2. Head(batch) \in Jobs /\ Tail(batch) \in Seq(Jobs)
      BY <3>1
    <3>3. Append(ch, Head(batch)) \o Tail(batch) = ch \o batch
      BY <3>1, PushList
    <3> QED
      BY <3>1, <3>2, <3>3
  <2> QED
    BY <1>4, <2>1, Quiet, Zenon DEF Push, clockVars, jobVars, workVars
<1>5. ASSUME NEW w \in Workers, WorkerStep(w) PROVE TimingInv'
  <2>1. ASSUME NEW d \in Naps, Nap(w, d) PROVE TimingInv'
    BY <2>1, Quiet, Zenon DEF Nap, After, jobVars, pipeVars
  <2> QED
    BY <1>5, <2>1, TakeKeepsInv, ReturnKeepsInv, Zenon DEF WorkerStep
<1>6. CASE Tick
  BY <1>6, Quiet, Zenon DEF Tick, Advance, jobVars, pipeVars, workVars
<1>7. CASE UNCHANGED vars
  BY <1>7, Quiet, Zenon DEF vars, clockVars, jobVars, pipeVars, workVars
<1> QED
  BY <1>1, <1>2, <1>3, <1>4, <1>5, <1>6, <1>7, ClaimKeepsInv, Zenon DEF Next

LEMMA Invariance == Spec => []TimingInv
  BY InvInit, InvNext, PTL DEF Spec
-----------------------------------------------------------------------------
\* For every Base that is not negative, every Cap and every attempt up to beyond the
\* one at which doubling overflows, ExponentialBackoff.Next returns the delay its
\* comment documents.
THEOREM BackoffIsDocumented == Spec => []BackoffFollowsFormula
<1>1. TimingInv => BackoffFollowsFormula
  <2> SUFFICES ASSUME TimingTypes, Base >= 0, NEW n \in 1..(Width + 2)
               PROVE  NextDelay(Base, Cap, n) = Formula(Base, Cap, n)
    BY DEF BackoffFollowsFormula, TimingInv
  <2>1. Base \in 0..MaxInt /\ Cap \in Durations
    BY BackoffsAssumption, Range64 DEF TimingTypes, Base, Cap, Durations
  <2>2. n \in Nat \ {0}
    BY WidthAssumption
  <2> QED
    BY <2>1, <2>2, NextIsFormula
<1> QED
  BY <1>1, Invariance, PTL

\* The claim query never returns a retry before the documented backoff of the failed
\* attempt has passed, as long as the end of the backoff fits into the run_at column.
THEOREM RetriesWait == Spec => []RetryWaitsForBackoff
<1>1. TimingInv => RetryWaitsForBackoff
  BY DEF TimingInv, TimingTypes, WaitInv, RetryWaitsForBackoff
<1> QED
  BY <1>1, Invariance, PTL
-----------------------------------------------------------------------------
(* The latency of dispatch. *)

\* Where the dispatcher is in its cycle, and by when it will look again.
Cycle ==
    /\ pc = "init" => now <= late
    /\ pc \in {"claim", "push"} => now <= seen + late
    /\ pc = "sleep" => \/ Dispatcher \in ready /\ now <= seen + PollEvery + late
                       \/ /\ deadline[Dispatcher] \in Int
                          /\ now < deadline[Dispatcher]
                          /\ deadline[Dispatcher] <= seen + PollEvery + late

\* A pending job was not there to be claimed when the dispatcher last looked.
Missed ==
    \A j \in Jobs : state[j] = "pending" =>
        /\ runAt[j] <= since[j]
        /\ pc # "claim" => seen <= since[j]
        /\ pc = "claim" => now <= since[j] + PollEvery + late

Prompt == \A j \in Jobs : state[j] = "claimed" => now <= since[j] + PollEvery + late

PollInv ==
    /\ deadline \in [Users -> Int \cup {NoWaiter}]
    /\ late \in Nat
    /\ since \in [Jobs -> Int]
    /\ pc \in {"init", "sleep", "claim", "push"}
    /\ Cycle /\ Missed /\ Prompt

EnoughWorkers == Cardinality(Jobs) <= Cardinality(Workers)

\* As many as there are workers do not fit into the jobs without j.
LEMMA Crowded ==
    ASSUME EnoughWorkers, NEW j \in Jobs, NEW S, IsFiniteSet(S), Cardinality(S) = Cardinality(Workers),
           NEW f \in [S -> Jobs \ {j}]
    PROVE  \E x, y \in S : x # y /\ f[x] = f[y]
<1>1. IsFiniteSet(Jobs) /\ Cardinality(Workers) \in Nat
  BY JobsAssumption, WorkersAssumption
<1>2. IsFiniteSet(Jobs \ {j}) /\ Cardinality(Jobs \ {j}) = Cardinality(Jobs) - 1 /\ Cardinality(Jobs) \in Nat
  BY <1>1, FS_RemoveElement, FS_CardinalityType
<1>3. Cardinality(Jobs \ {j}) < Cardinality(S)
  BY <1>1, <1>2 DEF EnoughWorkers
<1> QED
  BY <1>2, <1>3, FS_PigeonHole, Zenon

\* While a job is claimed somebody can make a step: workers that are all at work
\* have all the jobs.
LEMMA ClaimedIsBusy ==
    ASSUME TimingInv, EnoughWorkers, NEW j \in Jobs, state[j] = "claimed"
    PROVE  Busy
<1> TimingTypes /\ PipeInv
  BY DEF TimingInv
<1>1. PICK w \in Workers : work[w] = NoJob
  <2> SUFFICES ASSUME \A w \in Workers : work[w] # NoJob PROVE FALSE
    OBVIOUS
  <2>1. work \in [Workers -> Jobs \ {j}]
    <3>1. work \in [Workers -> Jobs \cup {NoJob}]
      BY DEF TimingTypes
    <3>2. \A w \in Workers : work[w] \in Jobs \ {j}
      BY <3>1 DEF PipeInv
    <3> QED
      BY <3>1, <3>2
  <2>2. \E v, w \in Workers : v # w /\ work[v] = work[w]
    BY <2>1, Crowded, WorkersAssumption
  <2> QED
    BY <2>2, Zenon DEF PipeInv
<1>2. CASE ch # <<>>
  BY <1>1, <1>2, Zenon DEF Busy
<1>3. CASE ch = <<>>
  <2>1. batch # <<>>
    <3>1. Claimed # {} /\ Lists(ch \o batch, Claimed)
      BY DEF Claimed, PipeInv
    <3>2. <<>> \o <<>> = <<>> /\ 1..Len(<<>>) = {}
      OBVIOUS
    <3> QED
      BY <1>3, <3>1, <3>2, Zenon DEF Lists
  <2>2. pc = "push"
    BY <2>1, Zenon DEF PipeInv
  <2>3. Cardinality(Workers) # 0
    BY <1>1, WorkersAssumption, FS_EmptySet, Zenon
  <2>4. Len(ch) < Cardinality(Workers)
    BY <1>3, <2>3, WorkersAssumption
  <2> QED
    BY <2>2, <2>4, Zenon DEF Busy
<1> QED
  BY <1>2, <1>3

\* The row of a job that becomes pending.
LEMMA Queued ==
    ASSUME TimingInv, PollInv, NEW j \in Jobs, NEW t \in Int, Queue(j, t)
    PROVE  /\ since' \in [Jobs -> Int]
           /\ \A i \in Jobs :
               \/ state'[i] = state[i] /\ runAt'[i] = runAt[i] /\ since'[i] = since[i]
               \/ state'[i] \notin {"pending", "claimed"}
               \/ state'[i] = "pending" /\ now <= since'[i] /\ runAt'[i] <= since'[i]
<1> DEFINE r == toUnixNano(t)
           s == Later(now, r)
<1>1. /\ state' = [state EXCEPT ![j] = "pending"] /\ runAt' = [runAt EXCEPT ![j] = r]
      /\ since' = [since EXCEPT ![j] = s]
  BY Zenon DEF Queue
<1>2. r \in Int /\ now \in Int
  BY Wraps DEF toUnixNano, TimingInv, TimingTypes
<1> HIDE DEF r
<1>3. s \in Int /\ now <= s /\ r <= s
  BY <1>2 DEF Later
<1> HIDE DEF s
<1>4. state \in [Jobs -> Status] /\ runAt \in [Jobs -> Int] /\ since \in [Jobs -> Int]
  BY DEF TimingInv, TimingTypes, PollInv
<1> QED
  BY <1>1, <1>3, <1>4

\* Steps of clients and workers, and pushes.
LEMMA PollStays ==
    ASSUME TimingInv, PollInv, UNCHANGED <<now, late, pc, seen>>,
           deadline' \in [Users -> Int \cup {NoWaiter}], since' \in [Jobs -> Int],
           Dispatcher \in ready => Dispatcher \in ready',
           deadline[Dispatcher] \in Int /\ now < deadline[Dispatcher]
               => deadline'[Dispatcher] = deadline[Dispatcher],
           \A i \in Jobs :
               \/ state'[i] = state[i] /\ runAt'[i] = runAt[i] /\ since'[i] = since[i]
               \/ state'[i] \notin {"pending", "claimed"}
               \/ state'[i] = "pending" /\ now <= since'[i] /\ runAt'[i] <= since'[i]
    PROVE  PollInv'
<1>1. Cycle'
  BY Zenon DEF PollInv, Cycle
<1>2. Prompt'
  BY Zenon DEF PollInv, Prompt
<1>3. now \in Nat /\ seen \in Nat /\ seen <= now /\ late \in Nat /\ PollEvery \in Nat
  BY TimesAssumption DEF TimingInv, TimingTypes, PollInv
<1>4. Missed'
  <2> SUFFICES ASSUME NEW j \in Jobs, state'[j] = "pending"
               PROVE  /\ runAt'[j] <= since'[j]
                      /\ pc # "claim" => seen <= since'[j]
                      /\ pc = "claim" => now <= since'[j] + PollEvery + late
    BY Zenon DEF Missed
  <2>1. CASE state'[j] = state[j] /\ runAt'[j] = runAt[j] /\ since'[j] = since[j]
    BY <2>1, Zenon DEF PollInv, Missed
  <2>2. CASE now <= since'[j] /\ runAt'[j] <= since'[j]
    BY <1>3, <2>2
  <2> QED
    BY <2>1, <2>2
<1> QED
  BY <1>1, <1>2, <1>4, Zenon DEF PollInv

\* What After does to the waiters.
LEMMA Waiting ==
    ASSUME TimingInv, PollInv, NEW u \in Users, NEW d \in Int, After(u, d)
    PROVE  /\ now' = now
           /\ deadline' \in [Users -> Int \cup {NoWaiter}]
           /\ ready \subseteq ready'
           /\ d <= 0 => u \in ready'
           /\ d > 0 => deadline'[u] = now + d
           /\ \A v \in Users \ {u} :
                 deadline[v] \in Int /\ deadline[v] > now => deadline'[v] = deadline[v]
<1> DEFINE w == [deadline EXCEPT ![u] = now + d]
<1>1. now \in Nat /\ deadline \in [Users -> Int \cup {NoWaiter}]
  BY DEF TimingInv, TimingTypes, PollInv
<1>2. w \in [Users -> Int \cup {NoWaiter}] /\ w[u] = now + d /\ \A v \in Users \ {u} : w[v] = deadline[v]
  BY <1>1
<1>3. /\ now' = now
      /\ IF d <= 0 THEN fireDueLocked(w, now) ELSE deadline' = w /\ UNCHANGED ready
  BY DEF After
<1> HIDE DEF w
<1>4. CASE d > 0
  BY <1>1, <1>2, <1>3, <1>4
<1>5. CASE d <= 0
  <2>1. deadline' = [v \in Users |-> IF v \in Due(w, now) THEN NoWaiter ELSE w[v]]
        /\ ready' = ready \cup Due(w, now)
    BY <1>3, <1>5 DEF fireDueLocked
  <2>2. u \in Due(w, now)
    BY <1>1, <1>2, <1>5, NoWaiterAssumption DEF Due
  <2>3. \A v \in Users \ {u} : deadline[v] \in Int /\ deadline[v] > now => v \notin Due(w, now)
    BY <1>1, <1>2 DEF Due
  <2> QED
    BY <1>2, <1>3, <1>5, <2>1, <2>2, <2>3
<1> QED
  BY <1>4, <1>5

LEMMA PollSleeps ==
    ASSUME TimingInv, PollInv, Sleep
    PROVE  PollInv'
<1>1. now \in Nat /\ seen \in Nat /\ seen <= now /\ late \in Nat /\ PollEvery \in Nat
  BY TimesAssumption DEF TimingInv, TimingTypes, PollInv
<1>2. UNCHANGED <<seen, late, state, runAt, since>> /\ pc' = "sleep" /\ pc # "claim"
  BY DEF Sleep, jobVars
<1>3. PICK d \in {0, PollEvery} : After(Dispatcher, d) /\ now <= seen + late
  BY <1>1 DEF Sleep, PollInv, Cycle
<1>4. /\ now' = now /\ deadline' \in [Users -> Int \cup {NoWaiter}]
      /\ (d <= 0 => Dispatcher \in ready') /\ (d > 0 => deadline'[Dispatcher] = now + d)
  <2>1. Dispatcher \in Users /\ d \in Int
    BY <1>1, UsersAssumption
  <2> QED
    BY <1>3, <2>1, Waiting, Zenon
<1>5. Cycle'
  BY <1>1, <1>2, <1>3, <1>4 DEF Cycle
<1>6. Missed' /\ Prompt'
  BY <1>2, <1>4, Zenon DEF PollInv, Missed, Prompt
<1> QED
  BY <1>2, <1>4, <1>5, <1>6, Zenon DEF PollInv

LEMMA PollWakes ==
    ASSUME TimingInv, PollInv, Wake
    PROVE  PollInv'
<1>1. now \in Nat /\ seen \in Nat /\ seen <= now /\ late \in Nat /\ PollEvery \in Nat
      /\ \A j \in Jobs : since[j] \in Int
  BY TimesAssumption DEF TimingInv, TimingTypes, PollInv
<1>2. /\ UNCHANGED <<now, deadline, late, state, runAt, since>>
      /\ pc' = "claim" /\ pc = "sleep" /\ seen' = now
  BY DEF Wake, Receive, jobVars
<1>3. now <= seen + PollEvery + late
  BY <1>1, <1>2 DEF PollInv, Cycle
<1>4. Cycle'
  BY <1>1, <1>2 DEF Cycle
<1>5. Missed'
  BY <1>1, <1>2, <1>3 DEF PollInv, Missed
<1>6. Prompt'
  BY <1>2, Zenon DEF PollInv, Prompt
<1> QED
  BY <1>2, <1>4, <1>5, <1>6, Zenon DEF PollInv

LEMMA PollClaims ==
    ASSUME TimingInv, PollInv, EnoughWorkers, ClaimDue
    PROVE  PollInv'
<1>1. UNCHANGED <<now, deadline, late, seen, runAt, since>> /\ pc' = "push" /\ pc = "claim"
  BY DEF ClaimDue, clockVars
<1>2. PICK n \in 0..Cardinality(Workers) : \E b \in [1..n -> {j \in Jobs : IsDue(j)}] :
         /\ \A x, y \in 1..n : x < y => b[x] # b[y] /\ runAt[b[x]] <= runAt[b[y]]
         /\ n < Cardinality(Workers) => \A j \in Jobs : IsDue(j) => \E x \in 1..n : b[x] = j
         /\ \A j \in Jobs, x \in 1..n :
                IsDue(j) /\ (\A y \in 1..n : b[y] # j) => runAt[b[x]] <= runAt[j]
         /\ batch' = b
         /\ state' = [j \in Jobs |-> IF \E x \in 1..n : b[x] = j THEN "claimed" ELSE state[j]]
  BY Zenon DEF ClaimDue
<1>3. PICK b \in [1..n -> {j \in Jobs : IsDue(j)}] :
         /\ \A x, y \in 1..n : x < y => b[x] # b[y]
         /\ n < Cardinality(Workers) => \A j \in Jobs : IsDue(j) => \E x \in 1..n : b[x] = j
         /\ state' = [j \in Jobs |-> IF \E x \in 1..n : b[x] = j THEN "claimed" ELSE state[j]]
  BY <1>2
<1>4. ASSUME NEW j \in Jobs, IsDue(j) PROVE state'[j] = "claimed"
  <2> SUFFICES ASSUME \A x \in 1..n : b[x] # j PROVE FALSE
    BY <1>3, Zenon
  <2>1. ~(n < Cardinality(Workers))
    BY <1>3, <1>4, Zenon
  <2>2. n \in Nat /\ n = Cardinality(Workers)
    BY <2>1, WorkersAssumption
  <2>3. IsFiniteSet(1..n) /\ Cardinality(1..n) = Cardinality(Workers)
    BY <2>2, FS_Interval
  <2>4. b \in [1..n -> Jobs \ {j}]
    BY <1>3
  <2>5. PICK x \in 1..n, y \in 1..n : x # y /\ b[x] = b[y]
    BY <2>3, <2>4, Crowded
  <2>6. x < y \/ y < x
    BY <2>2, <2>5
  <2> QED
    BY <1>3, <2>5, <2>6, Zenon
<1>5. ASSUME NEW j \in Jobs, state'[j] # state[j] PROVE state[j] = "pending" /\ state'[j] = "claimed"
  <2>1. PICK x \in 1..n : b[x] = j
    BY <1>3, <1>5, Zenon
  <2>2. IsDue(j) /\ state'[j] = "claimed"
    BY <1>3, <2>1, Zenon
  <2> QED
    BY <2>2 DEF IsDue
<1>6. Cycle'
  BY <1>1 DEF Cycle, PollInv
<1>7. Prompt'
  BY <1>1, <1>5, Zenon DEF PollInv, Missed, Prompt
<1>8. Missed'
  <2> SUFFICES ASSUME NEW j \in Jobs, state'[j] = "pending"
               PROVE  runAt[j] <= since[j] /\ seen <= since[j]
    BY <1>1 DEF Missed
  <2>1. state[j] = "pending" /\ ~IsDue(j) /\ runAt[j] <= since[j]
    BY <1>4, <1>5 DEF PollInv, Missed
  <2>2. seen \in Int /\ runAt[j] \in Int /\ since[j] \in Int /\ toUnixNano(seen) = seen
    BY TimesAssumption, FitsAssumption, Range64, Wraps DEF TimingInv, TimingTypes, PollInv, toUnixNano
  <2> QED
    BY <2>1, <2>2 DEF IsDue
<1> QED
  BY <1>1, <1>6, <1>7, <1>8, Zenon DEF PollInv

LEMMA PollTicks ==
    ASSUME TimingInv, PollInv, EnoughWorkers, Tick
    PROVE  PollInv'
<1>1. now \in Nat /\ seen \in Nat /\ seen <= now /\ late \in Nat /\ PollEvery \in Nat
      /\ \A j \in Jobs : since[j] \in Int
  BY TimesAssumption DEF TimingInv, TimingTypes, PollInv
<1>2. UNCHANGED <<pc, seen, state, runAt, since>> /\ now' = now + 1 /\ late' = IF Busy THEN late + 1 ELSE late
  BY DEF Tick, Advance, jobVars, pipeVars
<1>3. /\ deadline' = [u \in Users |-> IF u \in Due(deadline, now + 1) THEN NoWaiter ELSE deadline[u]]
      /\ ready' = ready \cup Due(deadline, now + 1)
  BY <1>2 DEF Tick, Advance, fireDueLocked
<1>4. deadline' \in [Users -> Int \cup {NoWaiter}]
  BY <1>3 DEF PollInv
<1>5. /\ Dispatcher \in ready => Dispatcher \in ready'
      /\ deadline[Dispatcher] \in Int /\ deadline[Dispatcher] <= now + 1 => Dispatcher \in ready'
      /\ deadline[Dispatcher] \in Int /\ deadline[Dispatcher] > now + 1 => deadline'[Dispatcher] = deadline[Dispatcher]
  BY <1>1, <1>3, NoWaiterAssumption, UsersAssumption DEF Due
<1>6. CASE Busy
  <2>1. late' = late + 1
    BY <1>2, <1>6
  <2>2. Cycle'
    BY <1>1, <1>2, <1>5, <2>1 DEF PollInv, Cycle
  <2>3. Missed' /\ Prompt'
    BY <1>1, <1>2, <2>1 DEF PollInv, Missed, Prompt
  <2> QED
    BY <1>1, <1>2, <1>4, <2>1, <2>2, <2>3 DEF PollInv
<1>7. CASE ~Busy
  <2>1. \A j \in Jobs : state[j] # "claimed"
    BY <1>7, ClaimedIsBusy, Zenon
  <2>2. pc = "push" => batch = <<>>
    <3> SUFFICES ASSUME batch # <<>> PROVE FALSE
      OBVIOUS
    <3>1. ch \in Seq(Jobs) /\ batch \in Seq(Jobs)
      BY DEF TimingInv, TimingTypes
    <3>2. ch \o batch # <<>>
      BY <3>1
    <3>3. Head(ch \o batch) \in Claimed
      BY <3>2, ListTail, Zenon DEF TimingInv, PipeInv
    <3> QED
      BY <2>1, <3>3, Zenon DEF Claimed
  <2>3. pc = "sleep" /\ Dispatcher \notin ready /\ late' = late
    BY <1>2, <1>7, <2>2, Zenon DEF Busy, PollInv
  <2>4. Cycle'
    BY <1>1, <1>2, <1>5, <2>3 DEF PollInv, Cycle
  <2>5. Missed' /\ Prompt'
    BY <1>2, <2>1, <2>3, Zenon DEF PollInv, Missed, Prompt
  <2> QED
    BY <1>2, <1>4, <2>3, <2>4, <2>5, Zenon DEF PollInv
<1> QED
  BY <1>6, <1>7

LEMMA PollWorks ==
    ASSUME TimingInv, PollInv, NEW w \in Workers, WorkerStep(w)
    PROVE  PollInv'
<1>1. /\ w \in Users /\ Dispatcher \in Users \ {w}
      /\ deadline \in [Users -> Int \cup {NoWaiter}] /\ since \in [Jobs -> Int]
      /\ state \in [Jobs -> Status]
  BY UsersAssumption, WorkersAssumption DEF PollInv, TimingInv, TimingTypes
<1>2. CASE Take(w)
  <2>1. /\ UNCHANGED <<now, late, pc, seen, ready, deadline, runAt, since>>
        /\ state' = [state EXCEPT ![Head(ch)] = "running"]
    BY <1>2 DEF Take, clockVars
  <2>2. \A j \in Jobs : state'[j] = state[j] \/ state'[j] \notin {"pending", "claimed"}
    BY <1>1, <2>1
  <2> QED
    BY <1>1, <2>1, <2>2, PollStays, Zenon
<1>3. ASSUME NEW d \in Naps, Nap(w, d) PROVE PollInv'
  <2>1. UNCHANGED <<late, pc, seen, state, runAt, since>> /\ After(w, d) /\ d \in Int
    BY <1>3, TimesAssumption DEF Nap, jobVars, pipeVars
  <2>2. /\ now' = now /\ ready \subseteq ready' /\ deadline' \in [Users -> Int \cup {NoWaiter}]
        /\ (deadline[Dispatcher] \in Int /\ deadline[Dispatcher] > now => deadline'[Dispatcher] = deadline[Dispatcher])
    BY <1>1, <2>1, Waiting, Zenon
  <2>3. deadline[Dispatcher] \in Int /\ now < deadline[Dispatcher] => deadline'[Dispatcher] = deadline[Dispatcher]
    BY <2>2
  <2> QED
    BY <1>1, <2>1, <2>2, <2>3, PollStays, Zenon
<1>4. CASE HandlerSucceeds(w) \/ HandlerFails(w)
  <2>1. /\ UNCHANGED <<now, late, pc, seen, deadline>> /\ work[w] \in Jobs
        /\ Dispatcher \in ready => Dispatcher \in ready'
    BY <1>1, <1>4 DEF HandlerSucceeds, HandlerFails, Returned, Receive, pipeVars, TimingInv, TimingTypes
  <2>2. ASSUME NEW final \in {"succeeded", "failed"},
               state' = [state EXCEPT ![work[w]] = final], UNCHANGED <<runAt, since>>
        PROVE  PollInv'
    <3>1. \A j \in Jobs : state'[j] = state[j] \/ state'[j] \notin {"pending", "claimed"}
      BY <1>1, <2>2
    <3> QED
      BY <1>1, <2>1, <2>2, <3>1, PollStays, Zenon
  <2>3. ASSUME HandlerFails(w), Queue(work[w], RetryAt(attempt[work[w]] + 1)) PROVE PollInv'
    <3>1. TimingTypes /\ attempt[work[w]] + 1 \in Nat \ {0}
      BY <2>1 DEF TimingInv, TimingTypes
    <3>2. RetryAt(attempt[work[w]] + 1) \in Int
      <4>1. Base \in Durations /\ Cap \in Durations /\ now \in Int
        BY <3>1, BackoffsAssumption DEF TimingTypes, Base, Cap
      <4> QED
        BY <3>1, <4>1, NextInt DEF RetryAt
    <3> QED
      BY <1>1, <2>1, <2>3, <3>2, Queued, PollStays, Zenon
  <2> QED
    BY <1>4, <2>2, <2>3, Zenon DEF HandlerSucceeds, HandlerFails
<1> QED
  BY <1>2, <1>3, <1>4 DEF WorkerStep

LEMMA PollNext ==
    ASSUME TimingInv, EnoughWorkers, PollInv, [Next]_vars
    PROVE  PollInv'
<1>1. deadline \in [Users -> Int \cup {NoWaiter}] /\ since \in [Jobs -> Int]
  BY DEF PollInv
<1>2. ASSUME NEW j \in Jobs, NEW d \in Delays, Schedule(j, d) PROVE PollInv'
  <2>1. UNCHANGED <<now, late, pc, seen, ready, deadline>> /\ Queue(j, now + d) /\ now + d \in Int
    BY <1>2, TimesAssumption DEF Schedule, clockVars, pipeVars, TimingInv, TimingTypes
  <2> QED
    BY <1>1, <2>1, Queued, PollStays, Zenon
<1>3. CASE Push
  BY <1>1, <1>3, PollStays, Zenon DEF Push, clockVars, jobVars
<1>4. CASE UNCHANGED vars
  BY <1>1, <1>4, PollStays, Zenon DEF vars, clockVars, jobVars, pipeVars
<1> QED
  BY <1>2, <1>3, <1>4, PollSleeps, PollWakes, PollClaims, PollTicks, PollWorks, Zenon DEF Next

\* WithPollInterval bounds the latency of dispatch: with a worker for every job, none
\* is pending or claimed for longer than the poll interval after it could first have
\* been claimed, plus the time that passed while goroutines were runnable.
THEOREM LatencyIsBounded == Spec => []PollBoundsLatency
<1>1. Init => (EnoughWorkers => PollInv)
  BY DEF Init, ClockInit, PollInv, Cycle, Missed, Prompt
<1>2. TimingInv /\ (EnoughWorkers => PollInv) /\ [Next]_vars => (EnoughWorkers => PollInv)'
  <2>1. EnoughWorkers' = EnoughWorkers
    BY DEF EnoughWorkers
  <2> QED
    BY <2>1, PollNext, Zenon
<1>3. TimingInv /\ (EnoughWorkers => PollInv) => PollBoundsLatency
  <2> SUFFICES ASSUME TimingInv, PollInv, NEW j \in Jobs, state[j] \in {"pending", "claimed"}
               PROVE  now <= since[j] + PollEvery + late
    BY Zenon DEF PollBoundsLatency, EnoughWorkers
  <2>1. now \in Nat /\ seen \in Nat /\ late \in Nat /\ PollEvery \in Nat /\ since[j] \in Int
    BY TimesAssumption DEF TimingInv, TimingTypes, PollInv
  <2>2. pc # "claim" => now <= seen + PollEvery + late
    BY <2>1 DEF PollInv, Cycle
  <2> QED
    BY <2>1, <2>2 DEF PollInv, Missed, Prompt
<1> QED
  BY <1>1, <1>2, <1>3, Invariance, PTL DEF Spec
=============================================================================
