-------------------------- MODULE RecurringTypes ---------------------------
(***************************************************************************)
(* Machine-checked proofs about Recurring, for any schedules, runners,     *)
(* clocks and bounds: induction over the natural numbers, what the         *)
(* recursive definition of run times computes, the types, and what a step  *)
(* does to runners and rows.                                               *)
(***************************************************************************)
EXTENDS Recurring, WellFoundedInduction, TLAPS

-----------------------------------------------------------------------------
(* Induction and recursion over the natural numbers. *)

\* A nonempty set of natural numbers has a least element.
LEMMA Least ==
    ASSUME NEW T \in SUBSET Nat, T # {}
    PROVE  \E x \in T : \A y \in T : x <= y
<1> DEFINE R == OpToRel(<, Nat)
<1>1. IsWellFoundedOn(R, Nat)
  BY NatLessThanWellFounded, Zenon
<1>2. \A x, y \in Nat : <<x, y>> \in R <=> x < y
  BY DEF OpToRel
<1> HIDE DEF R
<1>3. PICK x \in T : \A y \in T : <<y, x>> \notin R
  BY <1>1, WFMin, Zenon
<1>4. \A y \in T : ~(y < x)
  BY <1>2, <1>3, Zenon
<1> QED
  BY <1>4

\* A set that has 0 and is closed under successor has every natural number.
LEMMA SetInduction ==
    ASSUME NEW S, 0 \in S, \A n \in Nat : n \in S => n + 1 \in S
    PROVE  Nat \subseteq S
<1> SUFFICES ASSUME Nat \ S # {} PROVE FALSE
  OBVIOUS
<1>1. PICK x \in Nat \ S : \A y \in Nat \ S : x <= y
  BY Least, Zenon
<1> QED
  BY <1>1

\* The sequences that a step on A makes from a.
Orbits(A, step, a) == {f \in [Nat -> A] : f[0] = a /\ \A n \in Nat : f[n + 1] = step[f[n]]}

-----------------------------------------------------------------------------
(* Run times. *)

\* CronNext is the first match after t, if there is one.
LEMMA CronNextFirst ==
    ASSUME NEW i \in Specs, NEW t \in Nat
    PROVE  \/ CronNext(i, t) = 0 /\ \A u \in CronTimes[i] : u <= t
           \/ /\ CronNext(i, t) \in CronTimes[i] /\ CronNext(i, t) > t
              /\ \A u \in CronTimes[i] : u > t => CronNext(i, t) <= u
<1> DEFINE later == {u \in CronTimes[i] : u > t}
<1>1. later \in SUBSET Nat /\ CronTimes[i] \subseteq Nat
  BY CronAssumption
<1>2. CASE later = {}
  BY <1>2, <1>1 DEF CronNext
<1>3. CASE later # {}
  <2>1. PICK x \in later : \A y \in later : x <= y
    BY <1>1, <1>3, Least, Zenon
  <2> QED
    BY <2>1 DEF CronNext
<1> QED
  BY <1>2, <1>3

\* Advancing gives a natural number.
LEMMA AdvanceNat ==
    ASSUME NEW i \in Specs, NEW t \in Nat
    PROVE  advance(i, t) \in Nat
  BY CronNextFirst, CronAssumption, EveryAssumption DEF advance

\* Iterate does what the loops of the runner do.
LEMMA IterateSteps ==
    ASSUME NEW i \in Specs, NEW t \in Nat
    PROVE  /\ Iterate(i, t, 0) = t
           /\ \A n \in Nat : Iterate(i, t, n) \in Nat
           /\ \A n \in Nat : Iterate(i, t, n + 1) = advance(i, Iterate(i, t, n))
\* A step and a starting point define a sequence.
<1>Recursion. ASSUME NEW A, NEW step \in [A -> A], NEW a \in A
              PROVE  \E f : f \in Orbits(A, step, a)
  <2> USE <1>Recursion
  <2> DEFINE Upto(n) == {g \in [0..n -> A] : g[0] = a /\ \A m \in 0..(n - 1) : g[m + 1] = step[g[m]]}
             S == {n \in Nat : Upto(n) # {}}
  <2>1. 0 \in S
    <3> DEFINE g == [m \in 0..0 |-> a]
    <3>1. g \in Upto(0)
      OBVIOUS
    <3> QED
      BY <3>1
  <2>2. ASSUME NEW n \in Nat, n \in S PROVE n + 1 \in S
    <3>1. PICK g \in Upto(n) : TRUE
      BY <2>2
    <3> DEFINE h == [m \in 0..(n + 1) |-> IF m = n + 1 THEN step[g[n]] ELSE g[m]]
    <3>3. h \in [0..(n + 1) -> A]
      OBVIOUS
    <3>4. h[0] = a
      OBVIOUS
    <3>5. ASSUME NEW m \in 0..n PROVE h[m + 1] = step[h[m]]
      OBVIOUS
    <3>6. h \in Upto(n + 1)
      <4> HIDE DEF h
      <4> QED
        BY <3>3, <3>4, <3>5
    <3> HIDE DEF h, Upto
    <3> QED
      BY <3>6
  <2>3. Nat \subseteq S
    <3> HIDE DEF S
    <3> QED
      BY <2>1, <2>2, SetInduction
  <2> DEFINE G(n) == CHOOSE g \in Upto(n) : TRUE
             f == [n \in Nat |-> G(n)[n]]
  <2>4. ASSUME NEW n \in Nat PROVE G(n) \in Upto(n)
    BY <2>3, Zenon
  <2>5. ASSUME NEW n \in Nat PROVE G(n + 1)[n] = G(n)[n]
    <3> DEFINE U == {m \in Nat : m <= n => G(n + 1)[m] = G(n)[m]}
    <3>1. G(n) \in Upto(n) /\ G(n + 1) \in Upto(n + 1)
      <4> HIDE DEF G, Upto
      <4> QED
        BY <2>4
    <3> HIDE DEF G
    <3>2. 0 \in U
      BY <3>1
    <3>3. ASSUME NEW m \in Nat, m \in U PROVE m + 1 \in U
      BY <3>1, <3>3
    <3>4. Nat \subseteq U
      <4> HIDE DEF U
      <4> QED
        BY <3>2, <3>3, SetInduction
    <3> QED
      BY <3>4
  <2>6. ASSUME NEW n \in Nat PROVE G(n)[n] \in A /\ G(n)[0] = a /\ G(n + 1)[n + 1] = step[G(n + 1)[n]]
    <3>1. G(n) \in Upto(n) /\ G(n + 1) \in Upto(n + 1)
      <4> HIDE DEF G, Upto
      <4> QED
        BY <2>4
    <3> HIDE DEF G
    <3> QED
      BY <3>1
  <2> HIDE DEF G
  <2>7. f \in [Nat -> A] /\ f[0] = a
    BY <2>6
  <2>8. \A n \in Nat : f[n + 1] = step[f[n]]
    BY <2>5, <2>6
  <2> HIDE DEF f
  <2> QED
    BY <2>7, <2>8 DEF Orbits
<1> DEFINE step == [x \in Nat |-> advance(i, x)]
           F(g) == [m \in Nat |-> IF m = 0 THEN t ELSE advance(i, g[m - 1])]
           h == CHOOSE g : g = F(g)
<1>1. step \in [Nat -> Nat]
  BY AdvanceNat
<1>2. PICK f \in [Nat -> Nat] : f[0] = t /\ \A n \in Nat : f[n + 1] = step[f[n]]
  <2> HIDE DEF step
  <2>1. PICK f : f \in Orbits(Nat, step, t)
    BY <1>1, <1>Recursion
  <2> QED
    BY <2>1 DEF Orbits
<1>3. ASSUME NEW m \in Nat PROVE f[m] = IF m = 0 THEN t ELSE advance(i, f[m - 1])
  <2>1. CASE m = 0
    BY <1>2, <2>1
  <2>2. CASE m # 0
    <3>1. m - 1 \in Nat /\ f[m - 1] \in Nat /\ m - 1 + 1 = m
      BY <2>2
    <3>2. f[m - 1 + 1] = advance(i, f[m - 1])
      BY <1>2, <3>1, Zenon
    <3> QED
      BY <3>1, <3>2
  <2> QED
    BY <2>1, <2>2
<1>5. h = F(h)
  <2> HIDE DEF F
  <2> QED
    OBVIOUS
<1>6. \A n : Iterate(i, t, n) = h[n]
  BY DEF Iterate
<1> HIDE DEF h
<1>7. h[0] = t /\ \A n \in Nat : h[n + 1] = advance(i, h[n])
  BY <1>5
<1>8. \A n \in Nat : h[n] \in Nat
  <2> DEFINE S == {n \in Nat : h[n] \in Nat}
  <2>1. 0 \in S
    BY <1>7
  <2>2. ASSUME NEW n \in Nat, n \in S PROVE n + 1 \in S
    BY <1>7, <2>2, AdvanceNat
  <2>3. Nat \subseteq S
    <3> HIDE DEF S
    <3> QED
      BY <2>1, <2>2, SetInduction
  <2> QED
    BY <2>3
<1> QED
  BY <1>6, <1>7, <1>8

LEMMA IterateNext ==
    ASSUME NEW i \in Specs, NEW t \in Nat, NEW n \in Nat
    PROVE  Iterate(i, t, n) \in Nat /\ Iterate(i, t, n + 1) = advance(i, Iterate(i, t, n))
BY IterateSteps, Zenon

\* Advancing from a run gives the next run.
LEMMA AdvanceRun ==
    ASSUME NEW i \in Specs, NEW a \in Nat, NEW y \in Nat, IsRun(i, a, y)
    PROVE  /\ advance(i, y) > y => IsRun(i, a, advance(i, y))
           /\ \A t \in Nat : IsRun(i, a, t) /\ t > y => advance(i, y) > y /\ advance(i, y) <= t
<1>1. CASE Every[i] > 0
  <2> DEFINE e == Every[i]
  <2>1. e \in Nat \ {0}
    BY <1>1, EveryAssumption
  <2>3. PICK n \in 0..y : y = a + n * e
    BY <1>1 DEF IsRun
  <2>4. n \in Nat /\ n + 1 \in 0..(y + e) /\ y + e = a + (n + 1) * e /\ y + e >= a
    <3> HIDE DEF e
    <3> QED
      BY <2>1, <2>3
  <2>6. ASSUME NEW t \in Nat, IsRun(i, a, t), t > y PROVE y + e <= t
    <3>1. PICK m \in 0..t : t = a + m * e
      BY <1>1, <2>6 DEF IsRun
    <3>2. m \in Nat /\ n * e \in Nat /\ m * e \in Nat
      <4> HIDE DEF e
      <4> QED
        BY <2>1
    <3>3. n * e < m * e
      <4> HIDE DEF e
      <4> QED
        BY <2>3, <2>6, <3>1, <3>2
    <3>4. (n + 1) * e <= m * e
      <4> HIDE DEF e
      <4> QED
        BY <2>1, <3>3
    <3> HIDE DEF e
    <3> QED
      BY <2>1, <2>4, <3>1, <3>4
  <2> QED
    BY <2>1, <2>4, <2>6 DEF IsRun, advance
<1>2. CASE ~(Every[i] > 0)
  BY <1>2, AdvanceNat, CronNextFirst DEF advance, IsRun
<1> QED
  BY <1>1, <1>2

\* nextAfter is the first run that lies ahead.
LEMMA NextAfterFirst ==
    ASSUME NEW i \in Specs, NEW a \in Nat, NEW t \in Nat, NEW now \in Nat, a <= t, t <= now,
           Every[i] > 0 => IsRun(i, a, t), Ahead(i, t, now) # {}
    PROVE  /\ nextAfter(i, t, now) \in Nat
           /\ nextAfter(i, t, now) > now
           /\ IsRun(i, a, nextAfter(i, t, now))
           /\ \A u \in Nat : IsRun(i, a, u) /\ u > now => nextAfter(i, t, now) <= u
<1> DEFINE ahead == Ahead(i, t, now)
           first == CHOOSE n \in ahead : \A m \in ahead : n <= m
<1>1. ahead \in SUBSET Nat /\ ahead \subseteq 1..(now + 1)
  BY DEF Ahead
<1>2. first \in ahead /\ \A m \in ahead : first <= m
  BY <1>1, Least DEF ahead
<1>3. nextAfter(i, t, now) = Iterate(i, t, first)
  BY DEF nextAfter
<1> DEFINE p == first - 1
<1>4. first \in Nat /\ p \in Nat /\ first = p + 1 /\ first \in 1..(now + 1)
  <2> HIDE DEF first, ahead
  <2> QED
    BY <1>1, <1>2
<1>5. p \notin ahead
  <2> HIDE DEF first, ahead
  <2> QED
    BY <1>2, <1>4
<1> HIDE DEF first
<1> DEFINE y == Iterate(i, t, p)
           x == Iterate(i, t, first)
<1> HIDE DEF p
<1>6. y \in Nat /\ x \in Nat /\ x = advance(i, y)
  <2>1. x = Iterate(i, t, p + 1)
    BY <1>4
  <2>2. p \in Nat
    BY <1>4
  <2>3. y \in Nat /\ Iterate(i, t, p + 1) = advance(i, y)
    BY <2>2, IterateNext, Zenon
  <2> HIDE DEF x, y
  <2> QED
    BY <2>1, <2>3, AdvanceNat
<1>8. y <= now
  <2>1. CASE p = 0
    BY <2>1, IterateSteps
  <2>2. CASE p # 0
    BY <1>4, <2>2, <1>5, <1>6 DEF Ahead
  <2> QED
    BY <2>1, <2>2
<1>9. CASE Every[i] > 0
  <2> DEFINE S == {n \in Nat : IsRun(i, a, Iterate(i, t, n))}
  <2>1. 0 \in S
    BY <1>9, IterateSteps
  <2>2. ASSUME NEW n \in Nat, n \in S PROVE n + 1 \in S
    <3>1. Iterate(i, t, n) \in Nat /\ Iterate(i, t, n + 1) = advance(i, Iterate(i, t, n))
      BY IterateNext, Zenon
    <3> QED
      BY <2>2, <3>1, <1>9, EveryAssumption, AdvanceRun DEF advance
  <2>3. Nat \subseteq S
    <3> HIDE DEF S
    <3> QED
      BY <2>1, <2>2, SetInduction
  <2>4. IsRun(i, a, y) /\ IsRun(i, a, x)
    BY <1>4, <2>3
  <2>5. \A u \in Nat : IsRun(i, a, u) /\ u > now => x <= u
    <3> HIDE DEF x, y
    <3> QED
      BY <1>6, <1>8, <2>4, AdvanceRun
  <2> QED
    BY <1>3, <1>6, <1>2, <2>4, <2>5 DEF Ahead
<1>10. CASE ~(Every[i] > 0)
  BY <1>6, <1>10, <1>2, <1>4, CronNextFirst, <1>8, <1>3 DEF advance, IsRun, x, Ahead
<1> QED
  BY <1>9, <1>10

\* computeFires stops at the bound, or where the next run is not passed.
LEMMA ExtraFiresBounds ==
    ASSUME NEW i \in Specs, NEW t \in Nat, NEW now \in Nat
    PROVE  /\ ExtraFires(i, t, now) \in 0..MaxCatchup
           /\ Passed(i, t, now, ExtraFires(i, t, now))
           /\ i \in Catchup /\ ExtraFires(i, t, now) < MaxCatchup
                => ~Passed(i, t, now, ExtraFires(i, t, now) + 1)
\* A nonempty bounded set of natural numbers has a greatest element.
<1>Greatest. ASSUME NEW N \in Nat, NEW T \in SUBSET (0..N), T # {}
             PROVE  \E x \in T : \A y \in T : y <= x
  <2> USE <1>Greatest
  <2> DEFINE U == {N - y : y \in T}
  <2>1. U \in SUBSET Nat
    OBVIOUS
  <2>2. U # {}
    BY Zenon
  <2>3. PICK u \in U : \A v \in U : u <= v
    BY <2>1, <2>2, Least, Zenon
  <2>4. PICK x \in T : u = N - x
    OBVIOUS
  <2>5. \A y \in T : N - x <= N - y
    <3> TAKE y \in T
    <3>1. N - y \in U
      OBVIOUS
    <3> HIDE DEF U
    <3> QED
      BY <2>3, <2>4, <3>1
  <2> QED
    BY <2>5
<1>1. Passed(i, t, now, 0)
  BY DEF Passed
<1>2. CASE i \notin Catchup
  BY <1>2, <1>1, CatchupAssumption DEF ExtraFires
<1>3. CASE i \in Catchup
  <2> DEFINE T == {n \in 0..MaxCatchup : Passed(i, t, now, n)}
             K == ExtraFires(i, t, now)
  <2>1. T \in SUBSET (0..MaxCatchup) /\ T # {}
    BY <1>1, CatchupAssumption
  <2>2. \E n \in T : \A m \in T : m <= n
    <3> HIDE DEF T
    <3> QED
      BY <2>1, <1>Greatest, CatchupAssumption, Zenon
  <2>3. K = MaxOf(T)
    BY <1>3 DEF ExtraFires
  <2>4. K \in T /\ \A m \in T : m <= K
    <3> HIDE DEF T, K
    <3> QED
      BY <2>2, <2>3 DEF MaxOf
  <2> HIDE DEF K
  <2> QED
    BY <2>4, CatchupAssumption DEF K
<1> QED
  BY <1>2, <1>3

\* The passed runs are increasing and lie in the past.
LEMMA PassedIncreases ==
    ASSUME NEW i \in Specs, NEW t \in Nat, NEW now \in Nat, t <= now, NEW n \in Nat,
           Passed(i, t, now, n)
    PROVE  /\ \A m \in 0..n : Iterate(i, t, m) \in Nat /\ Iterate(i, t, m) <= now
           /\ \A m \in 0..n : \A j \in 0..n : j < m => Iterate(i, t, j) < Iterate(i, t, m)
<1>1. \A m \in Nat : Iterate(i, t, m) \in Nat
  BY IterateSteps, Zenon
<1>2. ASSUME NEW m \in 0..n PROVE Iterate(i, t, m) \in Nat /\ Iterate(i, t, m) <= now
  BY IterateSteps DEF Passed
<1>3. ASSUME NEW j \in 0..n PROVE \A m \in 0..n : j < m => Iterate(i, t, j) < Iterate(i, t, m)
  <2> DEFINE S == {m \in Nat : m <= n /\ j < m => Iterate(i, t, j) < Iterate(i, t, m)}
  <2>1. 0 \in S
    OBVIOUS
  <2>2. ASSUME NEW m \in Nat, m \in S PROVE m + 1 \in S
    BY <1>1, <2>2 DEF Passed
  <2>3. Nat \subseteq S
    <3> HIDE DEF S
    <3> QED
      BY <2>1, <2>2, SetInduction
  <2> QED
    BY <2>3
<1> QED
  BY <1>2, <1>3

\* The passed runs are runs, and every run up to the last of them is one of them.
LEMMA PassedRuns ==
    ASSUME NEW i \in Specs, NEW a \in Nat, NEW t \in Nat, NEW now \in Nat, NEW n \in Nat,
           IsRun(i, a, t), Passed(i, t, now, n)
    PROVE  /\ \A m \in 0..n : IsRun(i, a, Iterate(i, t, m))
           /\ \A u \in Nat : IsRun(i, a, u) /\ t <= u /\ u <= Iterate(i, t, n)
                => \E m \in 0..n : u = Iterate(i, t, m)
<1> DEFINE S == {m \in Nat : m <= n => IsRun(i, a, Iterate(i, t, m))}
<1>0. \A m \in Nat : Iterate(i, t, m) \in Nat /\ Iterate(i, t, m + 1) = advance(i, Iterate(i, t, m))
  BY IterateNext, Zenon
<1>1. 0 \in S
  BY IterateSteps
<1>2. ASSUME NEW m \in Nat, m \in S PROVE m + 1 \in S
  BY <1>2, <1>0, AdvanceRun DEF Passed
<1>3. Nat \subseteq S
  <2> HIDE DEF S
  <2> QED
    BY <1>1, <1>2, SetInduction
<1>5. ASSUME NEW u \in Nat, IsRun(i, a, u), t <= u, u <= Iterate(i, t, n)
      PROVE  \E m \in 0..n : u = Iterate(i, t, m)
  <2> DEFINE U == {m \in Nat : m <= n /\ u <= Iterate(i, t, m)
                                 => \E j \in 0..n : u = Iterate(i, t, j)}
  <2>1. 0 \in U
    <3> SUFFICES ASSUME u <= Iterate(i, t, 0) PROVE \E j \in 0..n : u = Iterate(i, t, j)
      OBVIOUS
    <3> HIDE DEF U
    <3>1. Iterate(i, t, 0) = t
      BY IterateSteps
    <3> QED
      BY <1>5, <3>1
  <2>2. ASSUME NEW m \in Nat, m \in U PROVE m + 1 \in U
    <3> SUFFICES ASSUME m + 1 <= n, u <= Iterate(i, t, m + 1)
                 PROVE  \E j \in 0..n : u = Iterate(i, t, j)
      OBVIOUS
    <3>1. CASE u <= Iterate(i, t, m)
      BY <2>2, <3>1
    <3>2. CASE u > Iterate(i, t, m)
      <4>2. Iterate(i, t, m + 1) <= u
        BY <1>0, <1>3, <1>5, <3>2, AdvanceRun
      <4>3. Iterate(i, t, m + 1) \in Nat
        BY <1>0
      <4> QED
        BY <4>2, <4>3
    <3> QED
      BY <1>0, <3>1, <3>2
  <2> HIDE DEF U
  <2>3. Nat \subseteq U
    BY <2>1, <2>2, SetInduction
  <2> QED
    BY <1>5, <2>3 DEF U
<1> QED
  BY <1>3, <1>5

\* What catching up leaves out has come and lies behind MaxCatchup + 1 runs.
LEMMA CaughtUp ==
    ASSUME NEW i \in Catchup, i \in Specs, NEW a \in Nat, NEW t \in Nat, NEW now \in Nat, t <= now,
           IsRun(i, a, t), Ahead(i, t, now) # {},
           NEW u \in Nat, IsRun(i, a, u), t <= u, u < nextAfter(i, t, now)
    PROVE  \/ \E m \in 0..ExtraFires(i, t, now) : u = Iterate(i, t, m)
           \/ /\ ExtraFires(i, t, now) = MaxCatchup /\ u <= now
              /\ \A m \in 0..MaxCatchup : Iterate(i, t, m) < u
<1> DEFINE K == ExtraFires(i, t, now)
           y == Iterate(i, t, K)
<1>1. K \in Nat /\ K <= MaxCatchup /\ Passed(i, t, now, K) /\ (K < MaxCatchup => ~Passed(i, t, now, K + 1))
  BY ExtraFiresBounds
<1>2. u <= now
  <2>1. a <= t
    BY DEF IsRun
  <2> QED
    BY <2>1, NextAfterFirst
<1> HIDE DEF K
<1>3. /\ \A m \in 0..K : Iterate(i, t, m) \in Nat
      /\ \A m \in 0..K : \A j \in 0..K : j < m => Iterate(i, t, j) < Iterate(i, t, m)
  BY <1>1, PassedIncreases
<1>4. CASE u <= y
  BY <1>1, <1>4, PassedRuns DEF K
<1>5. CASE u > y
  <2>1. IsRun(i, a, y) /\ y \in Nat
    BY <1>1, <1>3, PassedRuns
  <2>2. advance(i, y) > y /\ advance(i, y) <= u
    BY <1>5, <2>1, AdvanceRun
  <2>3. Iterate(i, t, K + 1) = advance(i, y)
    BY <1>1, IterateSteps
  <2>4. Passed(i, t, now, K + 1)
    BY <1>1, <2>1, AdvanceNat, <1>2, <2>2, <2>3 DEF Passed
  <2> QED
    BY <1>1, <1>2, <2>4, CatchupAssumption, <1>3, <1>5 DEF K
<1> QED
  BY <1>1, <1>3, <1>4, <1>5
-----------------------------------------------------------------------------
(* Typing. *)

\* What holds of the locals of a runner: the row it works on was due, there is a
\* next run to write, and the fires done do not exceed those computed.
RunnerInv(r) ==
    /\ seen[r] <= Now(r)
    /\ pc[r] \in {"idle", "list"} => todo[r] = {}
    /\ IF pc[r] \in {"exists", "fire", "update", "stuck"} THEN cur[r] \in Listed ELSE cur[r] = Nothing
    /\ \A e \in todo[r] \cup {cur[r]} : e.next <= seen[r]
    /\ IF pc[r] = "fire"
         THEN k[r] <= ExtraFires(cur[r].spec, cur[r].next, seen[r])
         ELSE k[r] = 0
    /\ pc[r] = "update" => Ahead(cur[r].spec, cur[r].next, seen[r]) # {}

TypeInv ==
    /\ TypeOK
    /\ \A r \in Runners : RunnerInv(r)

\* The clock of a runner is a natural number.
LEMMA NowInTimes ==
    ASSUME TypeInv, NEW r \in Runners
    PROVE  Now(r) \in Times
  BY StartAssumption, SkewAssumption, TimesAssumption DEF TypeInv, TypeOK, Now, Times

\* The job saved next is for a run that has come.
LEMMA FireTimePast ==
    ASSUME TypeInv, NEW r \in Runners, pc[r] = "fire"
    PROVE  /\ cur[r] \in Listed
           /\ FireTime(r) \in Times
           /\ FireTime(r) <= seen[r]
           /\ k[r] \in 0..ExtraFires(cur[r].spec, cur[r].next, seen[r])
<1> DEFINE i == cur[r].spec
           t == cur[r].next
           K == ExtraFires(i, t, seen[r])
<1>1. i \in Specs /\ t \in Nat /\ seen[r] \in Nat /\ t <= seen[r] /\ k[r] \in Nat /\ k[r] <= K
  BY DEF RunnerInv, Listed, TypeInv, TypeOK
<1>2. K \in Nat /\ Passed(i, t, seen[r], K)
  <2> HIDE DEF i, t
  <2>1. K \in 0..MaxCatchup /\ Passed(i, t, seen[r], K)
    BY <1>1, ExtraFiresBounds, Zenon
  <2> QED
    BY <2>1
<1>4. Iterate(i, t, k[r]) \in Nat /\ Iterate(i, t, k[r]) <= seen[r]
  BY <1>1, <1>2, PassedIncreases
<1>5. seen[r] <= Now(r) /\ Now(r) \in Times
  BY NowInTimes, Zenon DEF TypeInv, RunnerInv
<1> QED
  BY <1>1, <1>4, <1>5, StartAssumption, SkewAssumption, TimesAssumption DEF FireTime, TypeInv, RunnerInv, Times

LEMMA TypeInit == Init => TypeInv
  BY TimesAssumption, StartAssumption, SkewAssumption, CatchupAssumption, DisruptionsAssumption
     DEF Init, TypeOK, PCs, Times, Now, Nothing, RunnerInv, TypeInv

LEMMA TypeStep == TypeInv /\ [Next]_vars => TypeInv'
\* The next run that an update writes.
<1>NextAfterNat. ASSUME TypeInv, NEW r \in Runners, pc[r] = "update"
                 PROVE  nextAfter(cur[r].spec, cur[r].next, seen[r]) \in Nat
  <2> USE <1>NextAfterNat
  <2> DEFINE i == cur[r].spec
             t == cur[r].next
             ahead == Ahead(i, t, seen[r])
             n == CHOOSE n \in ahead : \A m \in ahead : n <= m
  <2>1. i \in Specs /\ t \in Nat /\ seen[r] \in Nat
    BY Zenon DEF RunnerInv, Listed, TypeInv, TypeOK
  <2>2. ahead # {} /\ ahead \in SUBSET Nat
    BY DEF TypeInv, RunnerInv, Ahead
  <2>3. \E x \in ahead : \A m \in ahead : x <= m
    <3> HIDE DEF ahead
    <3> QED
      BY <2>2, Least
  <2>4. n \in Nat
    BY <2>2, <2>3
  <2>5. nextAfter(i, t, seen[r]) = Iterate(i, t, n)
    BY DEF nextAfter
  <2> HIDE DEF n, i, t
  <2>6. Iterate(i, t, n) \in Nat
    BY <2>1, <2>4, IterateSteps, Zenon
  <2> QED
    BY <2>5, <2>6 DEF i, t
\* Going on with the listed rows keeps the types.
<1>ContinueTypes. ASSUME TypeOK, NEW r \in Runners, NEW left \in SUBSET Listed, Continue(r, left)
                  PROVE  /\ todo' \in [Runners -> SUBSET Listed]
                         /\ pc' \in [Runners -> PCs]
                         /\ seen' \in [Runners -> Nat]
                         /\ dead' \in [Runners -> SUBSET Specs]
  BY <1>ContinueTypes, Zenon DEF Continue, TypeOK, PCs
\* A runner whose locals do not change is not disturbed by the passing of time.
<1>OthersKeep. ASSUME TypeInv, clock' \in Nat, clock <= clock', NEW s \in Runners,
                      pc'[s] = pc[s], seen'[s] = seen[s], todo'[s] = todo[s], cur'[s] = cur[s], k'[s] = k[s]
               PROVE  RunnerInv(s)'
  BY <1>OthersKeep, StartAssumption, SkewAssumption DEF TypeInv, TypeOK, RunnerInv, Now
\* Steps of clients, and the passing of time, leave the runners alone.
<1>ClientTypes. ASSUME TypeInv, Tick \/ \E i \in Specs : Create(i) \/ DeleteRecurring(i)
                PROVE  TypeInv'
  <2> USE <1>ClientTypes
  <2>1. TypeOK'
    <3>1. ASSUME NEW i \in Specs, Create(i) PROVE TypeOK'
      <4>1. clock \in Nat /\ advance(i, clock) \in Nat
        BY AdvanceNat, StartAssumption DEF TypeInv, TypeOK
      <4> QED
        BY <3>1, <4>1, Zenon DEF Create, UpsertRecurring, runnerVars, TypeInv, TypeOK
    <3>2. ASSUME NEW i \in Specs, DeleteRecurring(i) PROVE TypeOK'
      BY <3>2, Zenon DEF DeleteRecurring, runnerVars, TypeInv, TypeOK
    <3>3. CASE Tick
      BY <3>3, DisruptionsAssumption, StartAssumption, TimesAssumption
         DEF Tick, Disrupt, TypeInv, TypeOK, runnerVars, rowVars
    <3> QED
      BY <3>1, <3>2, <3>3
  <2>2. clock \in Nat /\ clock' \in Nat /\ clock <= clock' /\ UNCHANGED runnerVars
    BY StartAssumption DEF Create, DeleteRecurring, Tick, TypeInv, TypeOK
  <2> QED
    BY <2>1, <2>2, <1>OthersKeep DEF TypeInv, runnerVars
\* So does a step of one runner with the others.
<1>OneRunner. ASSUME TypeInv, NEW r \in Runners, UNCHANGED clock,
                     \A s \in Runners \ {r} : /\ pc'[s] = pc[s] /\ seen'[s] = seen[s] /\ todo'[s] = todo[s]
                                              /\ cur'[s] = cur[s] /\ k'[s] = k[s],
                     TypeOK', RunnerInv(r)'
              PROVE  TypeInv'
  <2> USE <1>OneRunner
  <2>1. clock \in Nat /\ clock' \in Nat /\ clock <= clock'
    BY StartAssumption DEF TypeInv, TypeOK
  <2> QED
    BY <2>1, <1>OthersKeep DEF TypeInv
\* The runner reads its clock.
<1>WakeTypes. ASSUME TypeInv, NEW r \in Runners, Wake(r)
              PROVE  TypeInv'
  <2> USE <1>WakeTypes
  <2>1. Now(r) \in Nat
    BY NowInTimes DEF Times
  <2>2. TypeOK'
    BY <2>1, Zenon DEF Wake, TypeInv, TypeOK, PCs, Deleted, rowVars
  <2>3. RunnerInv(r)'
    <3>1. RunnerInv(r) /\ seen'[r] = Now(r) /\ Now(r)' = Now(r) /\ pc'[r] = "list" /\ pc[r] = "idle"
      BY Zenon DEF Wake, TypeInv, TypeOK, Now
    <3> QED
      BY <2>1, <3>1 DEF RunnerInv, Nothing, Wake
  <2> QED
    BY <2>2, <2>3, <1>OneRunner, Zenon DEF Wake, TypeInv, TypeOK
\* The loop over the listed rows goes on, or ends.
<1>ContinueInv. ASSUME TypeInv, NEW r \in Runners, NEW left \in SUBSET Listed, Continue(r, left),
                       UNCHANGED clock, \A e \in left : e.next <= seen[r],
                       cur'[r] = Nothing, k'[r] = 0
                PROVE  RunnerInv(r)'
  <2> USE <1>ContinueInv
  <2>1. RunnerInv(r) /\ seen[r] \in Nat /\ Now(r)' = Now(r) /\ Now(r) \in Nat
    <3>1. Now(r) \in Nat
      BY NowInTimes DEF Times
    <3> QED
      BY <3>1, Zenon DEF TypeInv, TypeOK, Now
  <2>2. todo'[r] = left /\ pc'[r] = (IF left = {} THEN "idle" ELSE "scan")
    BY Zenon DEF Continue, TypeInv, TypeOK
  <2>3. seen'[r] = IF left = {} THEN 0 ELSE seen[r]
    BY Zenon DEF Continue, TypeInv, TypeOK
  <2> QED
    BY <2>1, <2>3, <2>2 DEF RunnerInv, Nothing
\* Listing, and giving up on a row or on the whole scan.
<1>ListTypes. ASSUME TypeInv, NEW r \in Runners, ListRecurring(r) \/ ListFails(r)
              PROVE  TypeInv'
  <2> USE <1>ListTypes
  <2> DEFINE listed == {[spec |-> i, next |-> nextRunAt[i]] : i \in rows}
             duelist == {e \in listed : e.next <= seen[r]}
  <2>1. RunnerInv(r) /\ cur[r] = Nothing /\ k[r] = 0 /\ TypeOK
    BY Zenon DEF ListRecurring, ListFails, TypeInv, RunnerInv
  <2>2. PICK left \in SUBSET Listed : Continue(r, left) /\ \A e \in left : e.next <= seen[r]
    <3>1. CASE ListRecurring(r)
      BY <2>1, <3>1 DEF TypeOK, Listed, ListRecurring
    <3>2. CASE ListFails(r)
      BY <3>2 DEF ListFails
    <3> QED
      BY <3>1, <3>2, Zenon
  <2>3. /\ UNCHANGED <<clock, rowVars, cur, k, fired, lost>>
        /\ disruptions' = disruptions \/ Disrupt
    BY Zenon DEF ListRecurring, ListFails
  <2>4. TypeOK'
    <3>2. /\ todo' \in [Runners -> SUBSET Listed] /\ pc' \in [Runners -> PCs]
          /\ seen' \in [Runners -> Nat] /\ dead' \in [Runners -> SUBSET Specs]
      BY <2>1, <2>2, <1>ContinueTypes
    <3>3. disruptions' \in 0..MaxDisruptions
      BY <2>1, <2>3, DisruptionsAssumption DEF TypeOK, Disrupt
    <3> QED
      BY <2>1, <2>3, <3>2, <3>3, Zenon DEF TypeOK, rowVars
  <2>5. RunnerInv(r)'
    BY <2>1, <2>2, <2>3, <1>ContinueInv
  <2> QED
    BY <2>1, <2>2, <2>3, <2>4, <2>5, <1>OneRunner, Zenon DEF Continue, TypeOK
\* The runner is done with a row, or crashes.
<1>DoneTypes. ASSUME TypeInv, NEW r \in Runners, NEW left \in SUBSET todo[r], Continue(r, left),
                     disruptions' = disruptions \/ Disrupt, cur' = [cur EXCEPT ![r] = Nothing],
                     k' = [k EXCEPT ![r] = 0] \/ (k' = k /\ pc[r] # "fire"),
                     UNCHANGED <<clock, rows, anchor, fired, lost>>,
                     nextRunAt' \in [Specs -> Nat], leaseUntil' \in [Specs -> Nat],
                     leasedBy' \in [Specs -> Runners \cup {NoOne, Gone}], scans' \subseteq Scans
              PROVE  TypeInv'
  <2> USE <1>DoneTypes
  <2>1. RunnerInv(r) /\ TypeOK /\ left \in SUBSET Listed
    BY Zenon DEF TypeInv, TypeOK
  <2>2. k'[r] = 0 /\ k' \in [Runners -> 0..MaxCatchup] /\ \A s \in Runners \ {r} : k'[s] = k[s]
    <3>1. k \in [Runners -> 0..MaxCatchup] /\ (pc[r] # "fire" => k[r] = 0)
      BY <2>1, Zenon DEF RunnerInv, TypeOK
    <3>2. 0 \in 0..MaxCatchup
      BY CatchupAssumption
    <3> QED
      BY <3>1, <3>2, Zenon
  <2>3. cur'[r] = Nothing /\ cur' \in [Runners -> Listed \cup {Nothing}] /\ \A s \in Runners \ {r} : cur'[s] = cur[s]
    BY <2>1, Zenon DEF TypeOK
  <2>4. TypeOK'
    <3>2. /\ todo' \in [Runners -> SUBSET Listed] /\ pc' \in [Runners -> PCs]
          /\ seen' \in [Runners -> Nat] /\ dead' \in [Runners -> SUBSET Specs]
      BY <2>1, <1>ContinueTypes, Zenon
    <3>3. disruptions' \in 0..MaxDisruptions
      BY <2>1, DisruptionsAssumption DEF TypeOK, Disrupt
    <3> QED
      BY <2>1, <2>2, <2>3, <3>2, <3>3, Zenon DEF TypeOK
  <2>5. RunnerInv(r)'
    <3>1. \A e \in left : e.next <= seen[r]
      BY <2>1, Zenon DEF RunnerInv
    <3> QED
      BY <2>1, <2>2, <2>3, <3>1, <1>ContinueInv
  <2> QED
    BY <2>1, <2>2, <2>3, <2>4, <2>5, <1>OneRunner, Zenon DEF Continue, TypeOK
\* The steps that end so.
<1>RowTypes. ASSUME TypeInv, NEW r \in Runners, NEW e,
                    \/ LeaseFails(r, e) \/ ExistsFails(r) \/ UpdateFails(r) \/ Crash(r)
                    \/ UpdateRecurringNextRun(r)
                    \/ LeaseSpecExists(r) /\ cur[r].spec \in rows
             PROVE  TypeInv'
  <2> USE <1>RowTypes
  <2>1. TypeOK
    BY DEF TypeInv
  <2>2. CASE LeaseFails(r, e) \/ ExistsFails(r) \/ (LeaseSpecExists(r) /\ cur[r].spec \in rows)
    <3>1. PICK left \in SUBSET todo[r] : Skip(r, left)
      BY <2>2, Zenon DEF LeaseFails, ExistsFails, LeaseSpecExists
    <3>2. pc[r] # "fire" /\ (disruptions' = disruptions \/ Disrupt)
      BY <2>2, Zenon DEF LeaseFails, ExistsFails, LeaseSpecExists
    <3> QED
      BY <2>1, <3>1, <3>2, <1>DoneTypes, Zenon DEF Skip, rowVars, TypeOK
  <2>3. CASE UpdateFails(r)
    BY <2>1, <2>3, <1>DoneTypes, Zenon DEF UpdateFails, RowDone, TypeOK
  <2>4. CASE Crash(r)
    <3>1. leasedBy' \in [Specs -> Runners \cup {NoOne, Gone}]
      BY <2>1, <2>4, Zenon DEF Crash, TypeOK
    <3> QED
      BY <2>1, <2>4, <3>1, <1>DoneTypes, Zenon DEF Crash, TypeOK
  <2>5. CASE UpdateRecurringNextRun(r)
    <3>1. nextRunAt' \in [Specs -> Nat]
      <4>1. nextAfter(cur[r].spec, cur[r].next, seen[r]) \in Nat /\ nextRunAt \in [Specs -> Nat]
        BY <2>1, <2>5, <1>NextAfterNat, Zenon DEF UpdateRecurringNextRun, TypeOK
      <4>2. \/ nextRunAt' = nextRunAt
            \/ nextRunAt' = [nextRunAt EXCEPT ![cur[r].spec] = nextAfter(cur[r].spec, cur[r].next, seen[r])]
        BY <2>5, Zenon DEF UpdateRecurringNextRun, Moved
      <4> QED
        BY <4>1, <4>2, Zenon
    <3>3. scans' \subseteq Scans
      <4>1. cur[r].spec \in rows => cur[r].spec \in Specs /\ cur[r].next \in Nat /\ seen[r] \in Nat
        BY <2>1 DEF TypeOK, Listed, Nothing
      <4>2. cur[r].spec \in rows => [spec |-> cur[r].spec, next |-> cur[r].next, now |-> seen[r]] \in Scans
        BY <4>1, Zenon DEF Scans
      <4> QED
        BY <2>1, <2>5, <4>2, Zenon DEF UpdateRecurringNextRun, Moved, TypeOK
    <3>2. pc[r] # "fire" /\ disruptions' = disruptions
      BY <2>5, Zenon DEF UpdateRecurringNextRun
    <3> QED
      BY <2>1, <2>5, <3>1, <3>2, <3>3, <1>DoneTypes, Zenon DEF UpdateRecurringNextRun, RowDone, TypeOK
  <2> QED
    BY <2>2, <2>3, <2>4, <2>5
\* Asking for a lease, and going on with the fires of a row that does not exist.
<1>LeaseTypes. ASSUME TypeInv, NEW r \in Runners, NEW e,
                      \/ AcquireRecurringLease(r, e)
                      \/ LeaseSpecExists(r) /\ cur[r].spec \notin rows
               PROVE  TypeInv'
  <2> USE <1>LeaseTypes
  <2>1. RunnerInv(r) /\ TypeOK
    BY DEF TypeInv
  <2>2. CASE AcquireRecurringLease(r, e)
    <3>1. e \in Listed /\ e.next <= seen[r] /\ pc[r] = "scan" /\ k[r] = 0 /\ e \in todo[r]
      BY <2>1, <2>2, Zenon DEF AcquireRecurringLease, RunnerInv, TypeOK
    <3>2. /\ e.spec \in Specs /\ e.next \in Nat /\ seen[r] \in Nat
          /\ seen[r] + LeaseEvery \in Nat
      BY <2>1, <3>1, TimesAssumption DEF Listed, TypeOK
    <3>3. pc'[r] \in {"fire", "exists"} /\ pc' \in [Runners -> PCs] /\ \A s \in Runners \ {r} : pc'[s] = pc[s]
      BY <2>1, <2>2, Zenon DEF AcquireRecurringLease, TypeOK, PCs
    <3>4. leaseUntil' \in [Specs -> Nat] /\ leasedBy' \in [Specs -> Runners \cup {NoOne, Gone}]
      BY <2>1, <2>2, <3>2, Zenon DEF AcquireRecurringLease, TypeOK
    <3>5. cur' = [cur EXCEPT ![r] = e] /\ todo' = [todo EXCEPT ![r] = @ \ {e}]
      BY <2>2, Zenon DEF AcquireRecurringLease
    <3>6. UNCHANGED <<clock, rows, nextRunAt, anchor, scans, seen, k, disruptions, fired, lost, dead>>
      BY <2>2, Zenon DEF AcquireRecurringLease
    <3>7. TypeOK'
      BY <2>1, <3>1, <3>3, <3>4, <3>5, <3>6, Zenon DEF TypeOK
    <3>8. RunnerInv(r)'
      <4>2. ExtraFires(e.spec, e.next, seen[r]) \in 0..MaxCatchup
        BY <3>2, ExtraFiresBounds, Zenon
      <4>3. 0 <= ExtraFires(e.spec, e.next, seen[r])
        BY <4>2, CatchupAssumption
      <4> QED
        BY <2>1, <3>1, <3>3, <3>5, <3>6, <4>3, Zenon DEF RunnerInv, TypeOK, Now
    <3> QED
      BY <2>1, <3>3, <3>5, <3>6, <3>7, <3>8, <1>OneRunner, Zenon DEF TypeOK
  <2>3. CASE LeaseSpecExists(r) /\ cur[r].spec \notin rows
    <3>1. pc[r] = "exists" /\ pc' = [pc EXCEPT ![r] = "fire"]
      BY <2>3 DEF LeaseSpecExists
    <3>2. UNCHANGED <<clock, rowVars, seen, todo, cur, k, disruptions, fired, lost, dead>>
      BY <2>3, Zenon DEF LeaseSpecExists
    <3>3. TypeOK'
      BY <2>1, <3>1, <3>2, Zenon DEF TypeOK, PCs, rowVars
    <3>6. RunnerInv(r)'
      <4>1. cur[r].spec \in Specs /\ cur[r].next \in Nat /\ seen[r] \in Nat
        BY <2>1, <3>1, Zenon DEF RunnerInv, Listed, TypeOK
      <4>2. ExtraFires(cur[r].spec, cur[r].next, seen[r]) \in 0..MaxCatchup
        BY <4>1, ExtraFiresBounds, Zenon
      <4>3. 0 <= ExtraFires(cur[r].spec, cur[r].next, seen[r])
        BY <4>2, CatchupAssumption
      <4>4. pc'[r] = "fire"
        BY <2>1, <3>1, Zenon DEF TypeOK
      <4> QED
        BY <2>1, <3>1, <3>2, <4>3, <4>4, Zenon DEF RunnerInv, Now
    <3> QED
      BY <2>1, <3>1, <3>2, <3>3, <3>6, <1>OneRunner, Zenon DEF TypeOK
  <2> QED
    BY <2>2, <2>3
\* Saving a job.
<1>FireTypes. ASSUME TypeInv, NEW r \in Runners, Fire(r) \/ SaveFails(r)
              PROVE  TypeInv'
  <2> USE <1>FireTypes
  <2> DEFINE i == cur[r].spec
             t == cur[r].next
             K == ExtraFires(i, t, seen[r])
  <2>1. RunnerInv(r) /\ TypeOK /\ pc[r] = "fire" /\ FireDone(r)
    BY Zenon DEF TypeInv, Fire, SaveFails
  <2>2. cur[r] \in Listed /\ FireTime(r) \in Times /\ k[r] \in 0..K
    BY <2>1, FireTimePast, Zenon
  <2>3. i \in Specs /\ t \in Nat /\ seen[r] \in Nat
    BY <2>1, <2>2, Zenon DEF Listed, TypeOK
  <2>4. K \in 0..MaxCatchup
    <3> HIDE DEF i, t
    <3> QED
      BY <2>3, ExtraFiresBounds, Zenon
  <2>5. UNCHANGED <<clock, rowVars, seen, todo, cur, dead>>
    BY <2>1, Zenon DEF FireDone
  <2>6. /\ k' = [k EXCEPT ![r] = IF k[r] = K THEN 0 ELSE @ + 1]
        /\ pc' = [pc EXCEPT ![r] =
                    IF k[r] = K THEN (IF Ahead(i, t, seen[r]) = {} THEN "stuck" ELSE "update") ELSE "fire"]
    BY <2>1, Zenon DEF FireDone
  <2> HIDE DEF K
  <2>7. k' \in [Runners -> 0..MaxCatchup]
    <3>1. (IF k[r] = K THEN 0 ELSE k[r] + 1) \in 0..MaxCatchup
      BY <2>2, <2>4, CatchupAssumption
    <3> QED
      BY <2>1, <2>6, <3>1, Zenon DEF TypeOK
  <2>9. /\ disruptions' \in 0..MaxDisruptions
        /\ fired' \in [Specs -> [Times -> Nat]]
        /\ lost' \subseteq Specs \X Times
    <3>1. CASE Fire(r)
      <4>1. fired' = [fired EXCEPT ![i][FireTime(r)] = @ + 1] /\ UNCHANGED <<disruptions, lost>>
        BY <3>1, Zenon DEF Fire
      <4> QED
        BY <2>1, <2>2, <2>3, <4>1 DEF TypeOK
    <3>2. CASE SaveFails(r)
      BY <3>2, <2>1, DisruptionsAssumption, <2>2, <2>3 DEF SaveFails, TypeOK, Disrupt
    <3> QED
      BY <3>1, <3>2, Zenon
  <2>10. TypeOK'
    BY <2>1, <2>5, <2>7, <2>6, <2>9, Zenon DEF TypeOK, rowVars, PCs
  <2>11. RunnerInv(r)'
    <3>2. CASE k[r] = K
      <4>1. k'[r] = 0 /\ pc'[r] \in {"stuck", "update"} /\ (pc'[r] = "update" => Ahead(i, t, seen[r]) # {})
        BY <2>1, <2>6, <3>2, Zenon DEF TypeOK
      <4> QED
        BY <2>1, <2>5, <4>1, Zenon DEF RunnerInv, Now
    <3>3. CASE k[r] # K
      <4>1. k'[r] = k[r] + 1 /\ pc'[r] = "fire"
        BY <2>1, <2>6, <3>3 DEF TypeOK
      <4> QED
        <5>1. k'[r] <= K
          BY <2>2, <2>4, <3>3, <4>1
        <5> QED
          BY <2>1, <2>5, <4>1, <5>1, Zenon DEF RunnerInv, K, Now
    <3> QED
      BY <3>2, <3>3
  <2>12. \A s \in Runners \ {r} : k'[s] = k[s] /\ pc'[s] = pc[s]
    BY <2>6 DEF TypeOK
  <2> QED
    BY <2>5, <2>10, <2>11, <2>12, <1>OneRunner, Zenon
<1> SUFFICES ASSUME TypeInv, [Next]_vars PROVE TypeInv'
  OBVIOUS
<1>1. CASE UNCHANGED vars
  <2>1. TypeOK' /\ clock' \in Nat /\ clock <= clock' /\ UNCHANGED runnerVars
    BY <1>1, StartAssumption DEF vars, rowVars, runnerVars, TypeInv, TypeOK
  <2> QED
    BY <2>1, <1>OthersKeep DEF TypeInv, runnerVars
<1>2. ASSUME NEW i \in Specs, Create(i) \/ DeleteRecurring(i) PROVE TypeInv'
  BY <1>2, <1>ClientTypes, Zenon
<1>3. ASSUME NEW r \in Runners, RunnerStep(r) PROVE TypeInv'
  BY <1>LeaseTypes, <1>RowTypes, <1>3, <1>WakeTypes, <1>ListTypes, <1>FireTypes, Zenon DEF RunnerStep
<1>4. ASSUME NEW r \in Runners, Failure(r) PROVE TypeInv'
  BY <1>RowTypes, <1>4, <1>ListTypes, <1>FireTypes, Zenon DEF Failure
<1>5. CASE Tick
  BY <1>5, <1>ClientTypes
<1> QED
  BY <1>1, <1>2, <1>3, <1>4, <1>5, Zenon DEF Next

\* Every variable of Recurring keeps its type: times are times, a runner's clock
\* reading is not negative, and a scan saves at most MaxCatchup extra jobs.
THEOREM RecurringTyping == Spec => []TypeOK
<1>1. Spec => []TypeInv
  BY TypeInit, TypeStep, PTL DEF Spec
<1>2. TypeInv => TypeOK
  BY DEF TypeInv
<1> QED
  BY <1>1, <1>2, PTL
-----------------------------------------------------------------------------
(* What a step does to runners and rows. *)

\* The rows a runner knows of, and a row as it is listed.
Items(r) == todo[r] \cup {cur[r]}
Row(i) == [spec |-> i, next |-> nextRunAt[i]]

\* The locals of a runner are its own.
Same(s) ==
    /\ pc'[s] = pc[s] /\ seen'[s] = seen[s] /\ todo'[s] = todo[s] /\ cur'[s] = cur[s]
    /\ k'[s] = k[s] /\ dead'[s] = dead[s]

LEMMA LocalStep ==
    ASSUME TypeInv, [Next]_vars, NEW s \in Runners
    PROVE  RunnerStep(s) \/ Failure(s) \/ Same(s)
<1> TypeOK
  BY Zenon DEF TypeInv
<1>1. ASSUME NEW r \in Runners \ {s}, RunnerStep(r) \/ Failure(r) PROVE Same(s)
  <2>1. ASSUME NEW left, Continue(r, left)
        PROVE  pc'[s] = pc[s] /\ seen'[s] = seen[s] /\ todo'[s] = todo[s] /\ dead'[s] = dead[s]
    BY <2>1, Zenon DEF Continue, TypeOK
  <2>2. CASE ListRecurring(r) \/ ListFails(r)
    BY <2>1, <2>2 DEF ListRecurring, ListFails, Same
  <2>3. CASE Wake(r)
    BY <2>3, Zenon DEF Wake, TypeOK, Same
  <2>4. CASE Fire(r) \/ SaveFails(r)
    BY <2>4, Zenon DEF Fire, SaveFails, FireDone, TypeOK, Same
  <2>5. ASSUME NEW left, Skip(r, left) PROVE Same(s)
    BY <2>1, <2>5 DEF Skip, TypeOK, Same
  <2>6. CASE LeaseSpecExists(r) \/ ExistsFails(r)
    BY <2>5, <2>6, Zenon DEF LeaseSpecExists, ExistsFails, TypeOK, Same
  <2>7. CASE UpdateRecurringNextRun(r) \/ UpdateFails(r)
    BY <2>1, <2>7, Zenon DEF UpdateRecurringNextRun, UpdateFails, RowDone, TypeOK, Same
  <2>8. CASE Crash(r)
    BY <2>1, <2>8, Zenon DEF Crash, TypeOK, Same
  <2>9. CASE \E d \in todo[r] : AcquireRecurringLease(r, d)
    BY <2>9 DEF AcquireRecurringLease, TypeOK, Same
  <2>10. CASE \E d \in todo[r] : LeaseFails(r, d)
    BY <2>5, <2>10 DEF LeaseFails
  <2> QED
    BY <1>1, <2>2, <2>3, <2>4, <2>6, <2>7, <2>8, <2>9, <2>10, Zenon DEF RunnerStep, Failure
<1>2. CASE Tick \/ UNCHANGED vars \/ \E i \in Specs : Create(i) \/ DeleteRecurring(i)
  BY <1>2, Zenon DEF Tick, vars, Create, DeleteRecurring, runnerVars, Same
<1> QED
  BY <1>1, <1>2 DEF Next

\* A runner learns of rows by listing only.
LEMMA ItemsStep ==
    ASSUME TypeInv, [Next]_vars, NEW s \in Runners, NEW e \in Items(s)'
    PROVE  \/ e \in Items(s) \cup {Nothing}
           \/ ListRecurring(s) /\ \E i \in rows : e = Row(i) /\ e.next <= seen[s]
<1> TypeOK
  BY Zenon DEF TypeInv
<1>3. CASE RunnerStep(s) \/ Failure(s)
  <2>1. CASE ListRecurring(s)
    BY <2>1, Zenon DEF ListRecurring, Continue, Items, Row, TypeOK
  <2>2. CASE Wake(s)
    BY <2>2, Zenon DEF Wake, Items
  <2>3. CASE Fire(s) \/ SaveFails(s)
    BY <2>3, Zenon DEF Fire, SaveFails, FireDone, Items
  <2>4. CASE LeaseSpecExists(s) \/ ExistsFails(s)
    BY <2>4, Zenon DEF LeaseSpecExists, ExistsFails, Skip, Continue, Items, TypeOK
  <2>5. CASE UpdateRecurringNextRun(s) \/ UpdateFails(s)
    BY <2>5, Zenon DEF UpdateRecurringNextRun, UpdateFails, RowDone, Continue, Items, TypeOK
  <2>6. CASE ListFails(s) \/ Crash(s)
    BY <2>6, Zenon DEF ListFails, Crash, Continue, Items, TypeOK
  <2>7. CASE \E d \in todo[s] : AcquireRecurringLease(s, d) \/ LeaseFails(s, d)
    BY <2>7 DEF AcquireRecurringLease, LeaseFails, Skip, Continue, Items, TypeOK
  <2> QED
    BY <1>3, <2>1, <2>2, <2>3, <2>4, <2>5, <2>6, <2>7, Zenon DEF RunnerStep, Failure
<1> QED
  BY <1>3, LocalStep DEF Same, Items

\* What is recorded of the scan of runner r.
ScanOf(r) == [spec |-> cur[r].spec, next |-> cur[r].next, now |-> seen[r]]

\* The table changes by Create, DeleteRecurring and UpdateRecurringNextRun only.
LEMMA RowsStep ==
    ASSUME TypeInv, [Next]_vars, NEW i \in Specs
    PROVE  /\ anchor'[i] = anchor[i] \/ Create(i)
           /\ i \in rows' => i \in rows \/ Create(i)
           /\ i \in rows' /\ ~Create(i) =>
                 \/ nextRunAt'[i] = nextRunAt[i]
                 \/ \E r \in Runners :
                       /\ pc[r] = "update" /\ cur[r].spec = i /\ UpdateRecurringNextRun(r)
                       /\ nextRunAt'[i] = nextAfter(i, cur[r].next, seen[r])
                       /\ ScanOf(r) \in scans'
           /\ scans \subseteq scans'
<1>1. CASE UNCHANGED <<rows, nextRunAt, anchor, scans>>
  BY <1>1
<1>2. ASSUME NEW j \in Specs, Create(j) \/ DeleteRecurring(j)
      PROVE  /\ ~Create(i) => /\ anchor'[i] = anchor[i]
                              /\ i \in rows' => i \in rows /\ nextRunAt'[i] = nextRunAt[i]
             /\ scans' = scans
  BY <1>2, Zenon DEF Create, UpsertRecurring, DeleteRecurring, TypeOK, TypeInv
<1>3. ASSUME NEW r \in Runners, UpdateRecurringNextRun(r)
      PROVE  /\ UNCHANGED <<rows, anchor>>
             /\ \/ nextRunAt'[i] = nextRunAt[i]
                \/ /\ cur[r].spec = i /\ nextRunAt'[i] = nextAfter(i, cur[r].next, seen[r])
                   /\ ScanOf(r) \in scans'
             /\ scans \subseteq scans'
  BY <1>3, Zenon DEF UpdateRecurringNextRun, Moved, ScanOf, RowDone, TypeOK, TypeInv
<1>4. ASSUME NEW r \in Runners, RunnerStep(r) \/ Failure(r), ~UpdateRecurringNextRun(r)
      PROVE  UNCHANGED <<rows, nextRunAt, anchor, scans>>
  BY <1>4, Zenon DEF RunnerStep, Failure, Wake, ListRecurring, ListFails, AcquireRecurringLease,
     LeaseSpecExists, LeaseFails, ExistsFails, Skip, Fire, SaveFails, FireDone, UpdateFails,
     RowDone, Crash, rowVars
<1>5. CASE \E r \in Runners : UpdateRecurringNextRun(r)
  BY <1>3, <1>5, Zenon DEF UpdateRecurringNextRun
<1>6. CASE \E j \in Specs : Create(j) \/ DeleteRecurring(j)
  BY <1>2, <1>6, Zenon
<1>7. CASE Tick \/ UNCHANGED vars
  BY <1>7, Zenon DEF Tick, vars, rowVars
<1> QED
  BY <1>4, <1>5, <1>6, <1>7, Zenon DEF Next
=============================================================================
