------------------------------ MODULE JobTable ------------------------------
(***************************************************************************)
(* What goschedule.Store promises about its job rows, seen through one     *)
(* atomic step per call.  The steps are read off the SQLite backend, whose *)
(* single connection makes every call a serial transaction.                *)
(*                                                                         *)
(* Time is abstracted to the two comparisons the calls make with it:       *)
(* run_at <= now ("due") and locked_until < now ("stale").                 *)
(***************************************************************************)
EXTENDS Integers, FiniteSets

CONSTANTS
    Jobs,         \* job identifiers (the rows that may ever exist)
    Queues,       \* queue names
    QueueOf,      \* the queue a job is enqueued to
    MaxAttempts   \* the MaxAttempts a job is saved with, WithMaxAttempts included

ASSUME JobsAssumption == IsFiniteSet(Jobs)
ASSUME QueueOfAssumption == QueueOf \in [Jobs -> Queues]
ASSUME MaxAttemptsAssumption == MaxAttempts \in [Jobs -> Int]

VARIABLES
    state,     \* life-cycle state of every job; deleted rows keep the reason
    attempt,   \* the row's attempt column
    due,       \* jobs with run_at <= now
    stale      \* claimed jobs with locked_until < now

tableVars == <<state, attempt, due, stale>>

\* A finished job is deleted from the table, and never saved again under its
\* (random) identifier; "unsaved" is an identifier that was not used yet.
Terminal == {"succeeded", "failed", "cancelled"}

States == {"unsaved", "pending", "claimed"} \cup Terminal

TableTypeOK ==
    /\ state \in [Jobs -> States]
    /\ attempt \in [Jobs -> Nat]
    /\ due \subseteq Jobs
    /\ stale \subseteq Jobs

\* The max_attempts column: zero is stored as three.
StoredMax(j) == IF MaxAttempts[j] = 0 THEN 3 ELSE MaxAttempts[j]

\* Mutant of DueIn: the state column is not part of the claim query.
DueInAnyState(q) == {j \in due : QueueOf[j] = q}

\* The rows the claim query selects from.
DueIn(q) == {j \in due : state[j] = "pending" /\ QueueOf[j] = q}

TableInit ==
    /\ state = [j \in Jobs |-> "unsaved"]
    /\ attempt = [j \in Jobs |-> 0]
    /\ due = {}
    /\ stale = {}
-----------------------------------------------------------------------------
\* Insert, or overwrite a live row with the same identifier.
Save(j) ==
    /\ state[j] \notin Terminal
    /\ state' = [state EXCEPT ![j] = "pending"]
    /\ attempt' = [attempt EXCEPT ![j] = 0]
    /\ due' \in {due \cup {j}, due \ {j}}
    /\ stale' = stale \ {j}

\* One claim transaction that takes the set S of rows of one queue.  Which due
\* rows it takes is priority order, which no property here depends on.
ClaimDue(q, S) ==
    /\ S \subseteq DueIn(q)
    /\ state' = [j \in Jobs |-> IF j \in S THEN "claimed" ELSE state[j]]
    /\ stale' = stale \ S
    /\ UNCHANGED <<attempt, due>>

\* The calls below find the row by identifier and state only: who claimed it is
\* not compared.  A call on a row in another state changes nothing.
Ack(j) ==
    IF state[j] = "claimed"
      THEN /\ state' = [state EXCEPT ![j] = "succeeded"]
           /\ due' = due \ {j}
           /\ stale' = stale \ {j}
           /\ UNCHANGED attempt
      ELSE UNCHANGED tableVars

\* Mutant of Exhausts: the attempt that just failed is not counted.
ExhaustsLate(j) == StoredMax(j) > 0 /\ attempt[j] >= StoredMax(j)

\* attempt + 1 has reached a positive max_attempts: the row is deleted.
Exhausts(j) == StoredMax(j) > 0 /\ attempt[j] + 1 >= StoredMax(j)

Fail(j) ==
    IF state[j] = "claimed"
      THEN /\ attempt' = [attempt EXCEPT ![j] = @ + 1]
           /\ stale' = stale \ {j}
           /\ IF Exhausts(j)
                THEN /\ state' = [state EXCEPT ![j] = "failed"]
                     /\ due' = due \ {j}
                ELSE /\ state' = [state EXCEPT ![j] = "pending"]
                     /\ due' \in {due \cup {j}, due \ {j}}
      ELSE UNCHANGED tableVars

Cancel(j) ==
    /\ state[j] = "pending"
    /\ state' = [state EXCEPT ![j] = "cancelled"]
    /\ due' = due \ {j}
    /\ UNCHANGED <<attempt, stale>>

Reschedule(j) ==
    /\ state[j] = "pending"
    /\ due' \in {due \cup {j}, due \ {j}}
    /\ UNCHANGED <<state, attempt, stale>>

\* Mutant of StaleClaims: recovery looks for pending rows.
StalePending == {j \in stale : state[j] = "pending"}

\* The rows recovery updates.
StaleClaims == {j \in stale : state[j] = "claimed"}

\* Mutant of RecoverStale: the interrupted attempt is counted.
RecoverStaleCounting ==
    /\ StaleClaims # {}
    /\ state' = [j \in Jobs |-> IF j \in StaleClaims THEN "pending" ELSE state[j]]
    /\ attempt' = [j \in Jobs |-> IF j \in StaleClaims THEN attempt[j] + 1 ELSE attempt[j]]
    /\ stale' = stale \ StaleClaims
    /\ UNCHANGED due

\* Every claimed row whose lock has run out goes back to pending.  The attempt
\* that was under way is not counted.
RecoverStale ==
    /\ StaleClaims # {}
    /\ state' = [j \in Jobs |-> IF j \in StaleClaims THEN "pending" ELSE state[j]]
    /\ stale' = stale \ StaleClaims
    /\ UNCHANGED <<attempt, due>>

\* The clock moves past the run_at of D and the locked_until of E.
TimePasses(D, E) ==
    /\ \A j \in D : state[j] = "pending"
    /\ \A j \in E : state[j] = "claimed"
    /\ due' = due \cup D
    /\ stale' = stale \cup E
    /\ UNCHANGED <<state, attempt>>

TableNext ==
    \/ \E j \in Jobs : Save(j) \/ Ack(j) \/ Fail(j) \/ Cancel(j) \/ Reschedule(j)
    \/ \E q \in Queues, S \in SUBSET Jobs : ClaimDue(q, S)
    \/ RecoverStale
    \/ \E D, E \in SUBSET Jobs : TimePasses(D, E)

TableSpec == TableInit /\ [][TableNext]_tableVars
=============================================================================
