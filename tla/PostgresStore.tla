--------------------------- MODULE PostgresStore ---------------------------
(***************************************************************************)
(* The Postgres backend, statement by statement: several connections run   *)
(* their calls at the same time, at Postgres' default isolation level READ *)
(* COMMITTED.  ClaimDue locks the rows it selects and skips locked ones;   *)
(* Fail, Cancel and Reschedule first read the row without locking it and   *)
(* then write.                                                             *)
(*                                                                         *)
(* A write and its commit are one step: until the commit nobody sees the   *)
(* write, and a second writer of the row waits and then looks at the row   *)
(* again.  Rows and time are those of JobTable.                            *)
(***************************************************************************)
EXTENDS JobTable

CONSTANTS
    Schedulers,      \* connections that claim and finish jobs
    Clients,         \* connections that cancel and reschedule
    MaxBatch,        \* batch size of a claim
    MaxDisruptions   \* bound on crashes and on locks that run out

ASSUME ConnectionsAssumption == Schedulers \cap Clients = {}
ASSUME BatchAssumption == MaxBatch \in Nat /\ MaxDisruptions \in Nat

VARIABLES
    tx,            \* per connection: the transaction it is in
    held,          \* claims handed out and not finished
    claims,        \* history: how often each job was claimed
    recovered,     \* history: jobs RecoverStale ever took back
    disruptions

vars == <<tableVars, tx, held, claims, recovered, disruptions>>

Connections == Schedulers \cup Clients

\* jobs: the rows the transaction is about.  For Fail, claim is the claim that is
\* being finished and last what Fail made of the row it read.
NoTx == [op |-> "none", jobs |-> {}, claim |-> 0, last |-> FALSE]
Transactions ==
    [op : {"none", "claim", "fail", "cancel", "reschedule"}, jobs : SUBSET Jobs,
     claim : Nat, last : BOOLEAN]

Claim == [by : Schedulers, job : Jobs, claim : Nat]

\* Rows a claim has locked and not updated yet.
Locked == UNION {tx[s].jobs : s \in {x \in Schedulers : tx[x].op = "claim"}}

Live(j) == state[j] \in {"pending", "claimed"}

Init ==
    /\ TableInit
    /\ tx = [s \in Connections |-> NoTx]
    /\ held = {}
    /\ claims = [j \in Jobs |-> 0]
    /\ recovered = {}
    /\ disruptions = 0

Begin(s, op, S) ==
    /\ tx[s] = NoTx
    /\ tx' = [tx EXCEPT ![s] = [NoTx EXCEPT !.op = op, !.jobs = S]]

End(s) == tx' = [tx EXCEPT ![s] = NoTx]

Disrupt == disruptions < MaxDisruptions /\ disruptions' = disruptions + 1
-----------------------------------------------------------------------------
\* Scheduler.At draws a new identifier for every job, so that the update part of
\* the upsert (ON CONFLICT) never comes into play.
SaveJob(j) ==
    /\ state[j] = "unsaved"
    /\ Save(j)
    /\ UNCHANGED <<tx, held, claims, recovered, disruptions>>

\* Mutant of ClaimSelect: FOR UPDATE SKIP LOCKED is missing.
ClaimSelectUnlocked(s, S) ==
    /\ S \subseteq UNION {DueIn(q) : q \in Queues}
    /\ S # {} /\ Cardinality(S) <= MaxBatch
    /\ \A i, j \in S : QueueOf[i] = QueueOf[j]
    /\ Begin(s, "claim", S)
    /\ UNCHANGED <<tableVars, held, claims, recovered, disruptions>>

\* The WITH part: due rows of one queue that nobody has locked.
ClaimSelect(s, S) ==
    /\ S \subseteq (UNION {DueIn(q) : q \in Queues}) \ Locked
    /\ S # {} /\ Cardinality(S) <= MaxBatch
    /\ \A i, j \in S : QueueOf[i] = QueueOf[j]
    /\ Begin(s, "claim", S)
    /\ UNCHANGED <<tableVars, held, claims, recovered, disruptions>>

\* The UPDATE part, by identifier only, and the reply.
ClaimUpdate(s) ==
    LET S == tx[s].jobs IN
    /\ tx[s].op = "claim"
    /\ state' = [j \in Jobs |-> IF j \in S THEN "claimed" ELSE state[j]]
    /\ stale' = stale \ S
    /\ claims' = [j \in Jobs |-> IF j \in S THEN claims[j] + 1 ELSE claims[j]]
    /\ held' = held \cup {[by |-> s, job |-> j, claim |-> claims[j] + 1] : j \in S}
    /\ End(s)
    /\ UNCHANGED <<attempt, due, recovered, disruptions>>

\* One conditional DELETE; it waits for a claim that has locked the row.
AckJob(c) ==
    /\ tx[c.by] = NoTx
    /\ c.job \notin Locked
    /\ Ack(c.job)
    /\ held' = held \ {c}
    /\ UNCHANGED <<tx, claims, recovered, disruptions>>

\* Fail reads attempt and max_attempts of the claimed row and decides.
FailSelect(c) ==
    /\ tx[c.by] = NoTx
    /\ IF state[c.job] = "claimed"
         THEN /\ tx' = [tx EXCEPT ![c.by] = [op |-> "fail", jobs |-> {c.job}, claim |-> c.claim,
                                             last |-> Exhausts(c.job)]]
              /\ UNCHANGED held
         ELSE held' = held \ {c} /\ UNCHANGED tx
    /\ UNCHANGED <<tableVars, claims, recovered, disruptions>>

\* DELETE by identifier whatever the row has become, or UPDATE if still claimed.
FailWrite(c) ==
    LET j == c.job IN
    /\ tx[c.by].op = "fail" /\ tx[c.by].jobs = {j} /\ tx[c.by].claim = c.claim
    /\ j \notin Locked
    /\ IF Live(j) /\ (tx[c.by].last \/ state[j] = "claimed")
         THEN /\ attempt' = [attempt EXCEPT ![j] = @ + 1]
              /\ state' = [state EXCEPT ![j] = IF tx[c.by].last THEN "failed" ELSE "pending"]
              /\ stale' = stale \ {j}
              /\ due' \in IF tx[c.by].last THEN {due \ {j}} ELSE {due \cup {j}, due \ {j}}
         ELSE UNCHANGED tableVars
    /\ held' = held \ {c}
    /\ End(c.by)
    /\ UNCHANGED <<claims, recovered, disruptions>>

CancelSelect(s, j) ==
    /\ state[j] = "pending"
    /\ Begin(s, "cancel", {j})
    /\ UNCHANGED <<tableVars, held, claims, recovered, disruptions>>

\* DELETE by identifier; the number of rows it found is not looked at.
CancelDelete(s, j) ==
    /\ tx[s].op = "cancel" /\ tx[s].jobs = {j}
    /\ j \notin Locked
    /\ state' = IF Live(j) THEN [state EXCEPT ![j] = "cancelled"] ELSE state
    /\ due' = due \ {j}
    /\ stale' = stale \ {j}
    /\ End(s)
    /\ UNCHANGED <<attempt, held, claims, recovered, disruptions>>

RescheduleSelect(s, j) ==
    /\ state[j] = "pending"
    /\ Begin(s, "reschedule", {j})
    /\ UNCHANGED <<tableVars, held, claims, recovered, disruptions>>

RescheduleUpdate(s, j) ==
    /\ tx[s].op = "reschedule" /\ tx[s].jobs = {j}
    /\ j \notin Locked
    /\ due' \in IF Live(j) THEN {due \cup {j}, due \ {j}} ELSE {due}
    /\ End(s)
    /\ UNCHANGED <<state, attempt, stale, held, claims, recovered, disruptions>>

\* One UPDATE.
RecoverStaleJobs ==
    /\ RecoverStale
    /\ recovered' = recovered \cup StaleClaims
    /\ UNCHANGED <<tx, held, claims, disruptions>>

\* A scheduler dies: its transaction is rolled back and its claims are forgotten.
Crash(s) ==
    /\ Disrupt
    /\ End(s)
    /\ held' = {c \in held : c.by # s}
    /\ UNCHANGED <<tableVars, claims, recovered>>

BecomesDue(j) ==
    /\ j \notin due
    /\ TimePasses({j}, {})
    /\ UNCHANGED <<tx, held, claims, recovered, disruptions>>

LockExpires(j) ==
    /\ j \notin stale
    /\ TimePasses({}, {j})
    /\ Disrupt
    /\ UNCHANGED <<tx, held, claims, recovered>>

Next ==
    \/ \E j \in Jobs : SaveJob(j) \/ BecomesDue(j) \/ LockExpires(j)
    \/ \E s \in Schedulers : ClaimUpdate(s) \/ Crash(s) \/ \E S \in SUBSET Jobs : ClaimSelect(s, S)
    \/ \E c \in held : AckJob(c) \/ FailSelect(c) \/ FailWrite(c)
    \/ \E s \in Clients, j \in Jobs :
           \/ CancelSelect(s, j) \/ CancelDelete(s, j)
           \/ RescheduleSelect(s, j) \/ RescheduleUpdate(s, j)
    \/ RecoverStaleJobs

Spec == Init /\ [][Next]_vars
-----------------------------------------------------------------------------
(* Properties. *)

\* Every variable has its type, and a claim locks only pending rows, each row for
\* one transaction.
TypeOK ==
    /\ TableTypeOK
    /\ tx \in [Connections -> Transactions]
    /\ held \subseteq Claim
    /\ claims \in [Jobs -> Nat]
    /\ recovered \subseteq Jobs
    /\ disruptions \in 0..MaxDisruptions
    /\ \A j \in Locked : state[j] = "pending"
    /\ \A s, t \in Schedulers :
           s # t /\ tx[s].op = "claim" /\ tx[t].op = "claim" => tx[s].jobs \cap tx[t].jobs = {}

\* Concurrent schedulers get disjoint sets of jobs: until recovery takes a job
\* back at most one claim of it is held, and the row is that claim's, unless a
\* Cancel that read the row before the claim deleted it under its holder.
ClaimsAreDisjoint ==
    \A c \in held : c.job \notin recovered =>
        /\ \A d \in held : d.job = c.job => d = c
        /\ state[c.job] \in {"claimed", "cancelled"}
        /\ claims[c.job] = c.claim

\* Attempts are counted right although Fail decides on what it read earlier: a
\* row deleted as failed has used up its attempts, and unless recovery ever took
\* the job back, a live row has an attempt left.
AttemptsCounted ==
    \A j \in Jobs : StoredMax(j) > 0 =>
        /\ state[j] = "failed" => attempt[j] >= StoredMax(j)
        /\ state[j] # "failed" /\ j \notin recovered => attempt[j] < StoredMax(j)

\* "Cancel marks a pending job as cancelled. Returns gs.ErrJobNotFound or
\* gs.ErrJobNotPending if not applicable": a job a worker has claimed is not
\* cancelled.
OnlyPendingIsCancelled ==
    [][\A j \in Jobs : state[j] = "claimed" => state'[j] # "cancelled"]_vars
=============================================================================
