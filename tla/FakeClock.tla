----------------------------- MODULE FakeClock -----------------------------
(***************************************************************************)
(* schedtest.FakeClock: time moves when the test calls Advance, and every  *)
(* channel After returned fires once, when its deadline has come.          *)
(*                                                                         *)
(* A goroutine waits on one channel at a time, so a waiter is its user and *)
(* the sorted slice of waiters is the function deadline: fireDueLocked     *)
(* goes through the whole slice and each waiter has a channel of its own,  *)
(* which makes the order of the slice unobservable.                        *)
(***************************************************************************)
EXTENDS Integers

CONSTANTS
    Users,      \* goroutines that use the clock
    NoWaiter    \* the "deadline" of a user without a waiter

ASSUME NoWaiterAssumption == NoWaiter \notin Int

VARIABLES
    now,
    deadline,   \* per user: the deadline of its waiter
    ready       \* users whose channel holds a value they have not received

clockVars == <<now, deadline, ready>>

ClockInit ==
    /\ now = 0
    /\ deadline = [u \in Users |-> NoWaiter]
    /\ ready = {}

\* Users of waiters w whose deadline is not after t.
Due(w, t) == {u \in Users : w[u] # NoWaiter /\ w[u] <= t}

\* From waiters w at time t, the due ones get their value and are dropped.
fireDueLocked(w, t) ==
    /\ deadline' = [u \in Users |-> IF u \in Due(w, t) THEN NoWaiter ELSE w[u]]
    /\ ready' = ready \cup Due(w, t)

After(u, d) ==
    LET w == [deadline EXCEPT ![u] = now + d] IN
    /\ IF d <= 0 THEN fireDueLocked(w, now) ELSE deadline' = w /\ UNCHANGED ready
    /\ UNCHANGED now

\* Mutant of Advance: a waiter whose deadline is the very instant stays.
AdvanceExclusive(d) ==
    /\ now' = now + d
    /\ fireDueLocked(deadline, now' - 1)

Advance(d) ==
    /\ now' = now + d
    /\ fireDueLocked(deadline, now')

\* A user receives from its channel.
Receive(u) ==
    /\ u \in ready
    /\ ready' = ready \ {u}
    /\ UNCHANGED <<now, deadline>>
=============================================================================
