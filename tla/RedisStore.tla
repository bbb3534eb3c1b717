----------------------------- MODULE RedisStore -----------------------------
(***************************************************************************)
(* The jobs of the Redis backend: one hash per job, one sorted set of      *)
(* pending identifiers per queue and priority (a bucket), and one sorted   *)
(* set of claimed identifiers.  A Lua script and a MULTI block are one     *)
(* step each; a call that needs two round trips is two steps, with other   *)
(* clients in between: ClaimDue reads the hashes after its script, Fail,   *)
(* Cancel and Reschedule look the bucket up before theirs.                 *)
(*                                                                         *)
(* Time is abstracted as in JobTable: a score or a run_at that is not      *)
(* after now, a lock score that is not after Redis' TIME.  Identifiers of  *)
(* one bucket are taken in score order, which is left open.                *)
(***************************************************************************)
EXTENDS Integers, FiniteSets

CONSTANTS
    Jobs, Queues,
    Priorities,      \* the priorities jobs are saved with
    MaxAttempts,     \* the MaxAttempts a job is saved with
    Schedulers,      \* processes that claim and finish jobs
    Clients,         \* connections that cancel and reschedule
    Moves,           \* whether Save may give a live job another bucket
    MaxBatch,        \* largest n of a ClaimDue call
    MaxDisruptions   \* bound on crashes, lost replies, expired locks, repeated saves

ASSUME JobsAssumption == IsFiniteSet(Jobs)
ASSUME BucketsAssumption == Queues # {} /\ Priorities # {} /\ Priorities \subseteq 0..255
ASSUME MaxAttemptsAssumption == MaxAttempts \in [Jobs -> Int]
ASSUME BoundsAssumption == Moves \in BOOLEAN /\ MaxBatch \in Nat /\ MaxDisruptions \in Nat

VARIABLES
    state,     \* field state of the hash; a deleted hash keeps the reason
    attempt,   \* field attempt
    bucket,    \* fields queue and priority
    due,       \* jobs whose field run_at is not after now
    partial,   \* jobs whose hash has only the fields a claim or a Fail writes
    pending,   \* members <<bucket, job>> of the pending sets
    ready,     \* those whose score is not after now
    claimed,   \* members of the claimed set
    expired,   \* those whose score is not after Redis' clock
    reading,   \* per scheduler: the claims it reads back, and those it has read
    failing,   \* copies whose Fail has looked up a bucket, with that bucket
    call,      \* per client: the call between its two round trips
    held,      \* copies handed out by ClaimDue and not finished
    claims,    \* history: how many claims took each job
    reissued,  \* history: jobs taken back, or saved anew, while claimed
    disruptions

hashVars == <<state, attempt, bucket, due, partial>>
setVars == <<pending, ready, claimed, expired>>
callVars == <<reading, failing, call, held>>
vars == <<hashVars, setVars, callVars, claims, reissued, disruptions>>

Buckets == Queues \X Priorities
Terminal == {"succeeded", "failed", "cancelled"}
States == {"unsaved", "pending", "claimed"} \cup Terminal

\* HGETALL finds a hash; the hash has the fields Save writes.
Exists(j) == state[j] \in {"pending", "claimed"}
Whole(j) == Exists(j) /\ j \notin partial

\* What ClaimDue returns of a claim: blank is a Job without identifier or name.
Copy == [by : Schedulers, job : Jobs, from : Buckets, claim : Nat, attempt : Nat, blank : BOOLEAN]

NotReading == [todo |-> {}, got |-> {}]
NoCall == [op |-> "none"]
Calls == {NoCall} \cup [op : {"cancel", "reschedule"}, job : Jobs, bucket : Buckets]

\* Zero is stored as three.
StoredMax(j) == IF MaxAttempts[j] = 0 THEN 3 ELSE MaxAttempts[j]

Init ==
    /\ state = [j \in Jobs |-> "unsaved"]
    /\ attempt = [j \in Jobs |-> 0]
    /\ bucket = [j \in Jobs |-> CHOOSE b \in Buckets : TRUE]
    /\ due = {} /\ partial = {}
    /\ pending = {} /\ ready = {} /\ claimed = {} /\ expired = {}
    /\ reading = [s \in Schedulers |-> NotReading]
    /\ failing = {} /\ held = {}
    /\ call = [k \in Clients |-> NoCall]
    /\ claims = [j \in Jobs |-> 0]
    /\ reissued = {}
    /\ disruptions = 0

Disrupt == disruptions < MaxDisruptions /\ disruptions' = disruptions + 1

\* run_at of the hash and ZADD of the same time to the pending set of bucket b.
Schedule(j, b) ==
    /\ pending' = pending \cup {<<b, j>>}
    /\ \/ due' = due \cup {j} /\ ready' = ready \cup {<<b, j>>}
       \/ due' = due \ {j} /\ ready' = ready \ {<<b, j>>}
-----------------------------------------------------------------------------
\* HSET of every field and ZADD, in one MULTI.  Neither the claimed set nor the
\* pending set the job was in before is looked at.
Save(j, b) ==
    /\ state' = [state EXCEPT ![j] = "pending"]
    /\ attempt' = [attempt EXCEPT ![j] = 0]
    /\ bucket' = [bucket EXCEPT ![j] = b]
    /\ partial' = partial \ {j}
    /\ Schedule(j, b)
    /\ UNCHANGED <<claimed, expired, callVars, claims>>

SaveNew(j, b) ==
    /\ state[j] = "unsaved"
    /\ Save(j, b)
    /\ UNCHANGED <<reissued, disruptions>>

SaveAgain(j, b) ==
    /\ Exists(j)
    /\ Moves \/ b = bucket[j]
    /\ Disrupt
    /\ Save(j, b)
    /\ reissued' = IF state[j] = "claimed" THEN reissued \cup {j} ELSE reissued

\* Members of the four pending sets a poll of q walks: those of the named priorities.
priorityBuckets(q) == {<<q, p>> : p \in Priorities \cap 0..3}
DueIn(q) == {e \in ready : e[1] \in priorityBuckets(q)}

\* What the script takes with limit n: a bucket is left for the next one only when
\* nothing due is left in it.
Takes(q, n, S) ==
    /\ S \subseteq DueIn(q)
    /\ Cardinality(S) <= n
    /\ S = DueIn(q) \/ Cardinality(S) = n
    /\ \A e \in S, f \in DueIn(q) \ S : e[1][2] >= f[1][2]

\* The claim of member e: an identifier in two buckets is claimed twice.
ClaimOf(s, e) ==
    [by |-> s, job |-> e[2], from |-> e[1], claim |-> claims[e[2]] + 1, attempt |-> 0, blank |-> FALSE]

\* Mutant of ClaimScript: the identifiers stay in their pending sets.
ClaimScriptNoRemove(s, q, n, S) ==
    LET taken == {e[2] : e \in S} IN
    /\ reading[s] = NotReading
    /\ S # {} /\ Takes(q, n, S)
    /\ claimed' = claimed \cup taken
    /\ expired' = expired \ taken
    /\ state' = [j \in Jobs |-> IF j \in taken THEN "claimed" ELSE state[j]]
    /\ partial' = partial \cup {j \in taken : ~Exists(j)}
    /\ claims' = [j \in Jobs |-> IF j \in taken THEN claims[j] + 1 ELSE claims[j]]
    /\ reading' = [reading EXCEPT ![s].todo = {ClaimOf(s, e) : e \in S}]
    /\ UNCHANGED <<attempt, bucket, due, pending, ready, failing, call, held, reissued, disruptions>>

\* claimDueScript.  HSET of the lock fields creates the hash if there is none.
ClaimScript(s, q, n, S) ==
    LET taken == {e[2] : e \in S} IN
    /\ reading[s] = NotReading
    /\ S # {} /\ Takes(q, n, S)
    /\ pending' = pending \ S
    /\ ready' = ready \ S
    /\ claimed' = claimed \cup taken
    /\ expired' = expired \ taken
    /\ state' = [j \in Jobs |-> IF j \in taken THEN "claimed" ELSE state[j]]
    /\ partial' = partial \cup {j \in taken : ~Exists(j)}
    /\ claims' = [j \in Jobs |-> IF j \in taken THEN claims[j] + 1 ELSE claims[j]]
    /\ reading' = [reading EXCEPT ![s].todo = {ClaimOf(s, e) : e \in S}]
    /\ UNCHANGED <<attempt, bucket, due, failing, call, held, reissued, disruptions>>

\* One HGETALL of the pipeline that follows; after the last one ClaimDue returns.
\* A hash that is gone, or has no field id, becomes a Job without identifier.
ReadHash(s, c) ==
    LET copy == [c EXCEPT !.attempt = attempt[c.job], !.blank = ~Whole(c.job)]
        got == reading[s].got \cup {copy}
        todo == reading[s].todo \ {c}
    IN  /\ c \in reading[s].todo
        /\ IF todo = {}
             THEN reading' = [reading EXCEPT ![s] = NotReading] /\ held' = held \cup got
             ELSE reading' = [reading EXCEPT ![s] = [todo |-> todo, got |-> got]] /\ UNCHANGED held
        /\ UNCHANGED <<hashVars, setVars, failing, call, claims, reissued, disruptions>>

\* The pipeline fails, and ClaimDue with it; the jobs stay claimed.
ReadFails(s) ==
    /\ reading[s] # NotReading
    /\ Disrupt
    /\ reading' = [reading EXCEPT ![s] = NotReading]
    /\ UNCHANGED <<hashVars, setVars, failing, call, held, claims, reissued>>

\* ackScript.  It and the scripts below compare the state field only.
AckScript(c) ==
    /\ c \in held /\ ~c.blank
    /\ \A f \in failing : f[1] # c
    /\ IF state[c.job] = "claimed"
         THEN /\ state' = [state EXCEPT ![c.job] = "succeeded"]
              /\ due' = due \ {c.job}
              /\ partial' = partial \ {c.job}
              /\ claimed' = claimed \ {c.job}
              /\ expired' = expired \ {c.job}
         ELSE UNCHANGED <<state, due, partial, claimed, expired>>
    /\ held' = held \ {c}
    /\ UNCHANGED <<attempt, bucket, pending, ready, reading, failing, call, claims, reissued, disruptions>>

\* HMGET of queue and priority: Fail ends here if the hash does not have them.  A
\* blank copy has no handler, and the Fail that follows finds no hash.
FailLookup(c) ==
    /\ c \in held
    /\ \A f \in failing : f[1] # c
    /\ IF ~c.blank /\ Whole(c.job)
         THEN failing' = failing \cup {<<c, bucket[c.job]>>} /\ UNCHANGED held
         ELSE held' = held \ {c} /\ UNCHANGED failing
    /\ UNCHANGED <<hashVars, setVars, reading, call, claims, reissued, disruptions>>

\* Mutant of Exhausts: the attempt that just failed is not counted.
ExhaustsLate(j) == j \notin partial /\ StoredMax(j) > 0 /\ attempt[j] >= StoredMax(j)

Exhausts(j) == j \notin partial /\ StoredMax(j) > 0 /\ attempt[j] + 1 >= StoredMax(j)

\* Mutant of FailScript: the identifier is not put back into a pending set.
FailScriptNoAdd(c, b) ==
    LET j == c.job IN
    /\ <<c, b>> \in failing
    /\ IF state[j] = "claimed"
         THEN /\ attempt' = [attempt EXCEPT ![j] = @ + 1]
              /\ claimed' = claimed \ {j}
              /\ expired' = expired \ {j}
              /\ state' = [state EXCEPT ![j] = IF Exhausts(j) THEN "failed" ELSE "pending"]
              /\ due' = due \ {j}
         ELSE UNCHANGED <<attempt, state, due, claimed, expired>>
    /\ failing' = failing \ {<<c, b>>}
    /\ held' = held \ {c}
    /\ UNCHANGED <<bucket, partial, pending, ready, reading, call, claims, reissued, disruptions>>

\* failScript.
FailScript(c, b) ==
    LET j == c.job IN
    /\ <<c, b>> \in failing
    /\ IF state[j] = "claimed"
         THEN /\ attempt' = [attempt EXCEPT ![j] = @ + 1]
              /\ claimed' = claimed \ {j}
              /\ expired' = expired \ {j}
              /\ IF Exhausts(j)
                   THEN /\ state' = [state EXCEPT ![j] = "failed"]
                        /\ due' = due \ {j}
                        /\ UNCHANGED <<pending, ready>>
                   ELSE /\ state' = [state EXCEPT ![j] = "pending"]
                        /\ Schedule(j, b)
         ELSE UNCHANGED <<attempt, state, due, setVars>>
    /\ failing' = failing \ {<<c, b>>}
    /\ held' = held \ {c}
    /\ UNCHANGED <<bucket, partial, reading, call, claims, reissued, disruptions>>

\* The HMGET with which a client's Cancel or Reschedule begins.
Lookup(k, op, j) ==
    /\ call[k] = NoCall
    /\ Whole(j)
    /\ call' = [call EXCEPT ![k] = [op |-> op, job |-> j, bucket |-> bucket[j]]]
    /\ UNCHANGED <<hashVars, setVars, reading, failing, held, claims, reissued, disruptions>>

\* Mutant of CancelScript: the state is not looked at again.
CancelScriptAnyState(k) ==
    LET j == call[k].job IN
    /\ call[k].op = "cancel"
    /\ IF Exists(j)
         THEN /\ state' = [state EXCEPT ![j] = "cancelled"]
              /\ due' = due \ {j}
              /\ partial' = partial \ {j}
              /\ pending' = pending \ {<<call[k].bucket, j>>}
              /\ ready' = ready \ {<<call[k].bucket, j>>}
         ELSE UNCHANGED <<state, due, partial, pending, ready>>
    /\ call' = [call EXCEPT ![k] = NoCall]
    /\ UNCHANGED <<attempt, bucket, claimed, expired, reading, failing, held, claims, reissued, disruptions>>

\* cancelScript.
CancelScript(k) ==
    LET j == call[k].job IN
    /\ call[k].op = "cancel"
    /\ IF state[j] = "pending"
         THEN /\ state' = [state EXCEPT ![j] = "cancelled"]
              /\ due' = due \ {j}
              /\ partial' = partial \ {j}
              /\ pending' = pending \ {<<call[k].bucket, j>>}
              /\ ready' = ready \ {<<call[k].bucket, j>>}
         ELSE UNCHANGED <<state, due, partial, pending, ready>>
    /\ call' = [call EXCEPT ![k] = NoCall]
    /\ UNCHANGED <<attempt, bucket, claimed, expired, reading, failing, held, claims, reissued, disruptions>>

\* rescheduleScript.
RescheduleScript(k) ==
    /\ call[k].op = "reschedule"
    /\ IF state[call[k].job] = "pending"
         THEN Schedule(call[k].job, call[k].bucket)
         ELSE UNCHANGED <<due, pending, ready>>
    /\ call' = [call EXCEPT ![k] = NoCall]
    /\ UNCHANGED <<state, attempt, bucket, partial, claimed, expired, reading, failing, held,
                   claims, reissued, disruptions>>

\* recoverStaleScript: every identifier whose lock has run out leaves the claimed
\* set, and goes to the pending set its hash names if the hash still names one.
RecoverStale ==
    LET back == {j \in expired : Whole(j)} IN
    /\ expired # {}
    /\ claimed' = claimed \ expired
    /\ expired' = {}
    /\ state' = [j \in Jobs |-> IF j \in back THEN "pending" ELSE state[j]]
    /\ pending' = pending \cup {<<bucket[j], j>> : j \in back}
    /\ ready' = (ready \ {<<bucket[j], j>> : j \in back}) \cup {<<bucket[j], j>> : j \in back \cap due}
    /\ reissued' = reissued \cup {j \in back : state[j] = "claimed"}
    /\ UNCHANGED <<attempt, bucket, due, partial, callVars, claims, disruptions>>

\* A process dies with its copies and its unfinished calls.
Crash(s) ==
    /\ Disrupt
    /\ reading' = [reading EXCEPT ![s] = NotReading]
    /\ held' = {c \in held : c.by # s}
    /\ failing' = {f \in failing : f[1].by # s}
    /\ UNCHANGED <<hashVars, setVars, call, claims, reissued>>

\* The clock reaches the score of a member, and run_at if that is the same time.
BecomesDue(e) ==
    /\ e \in pending \ ready
    /\ ready' = ready \cup {e}
    /\ due' = IF state[e[2]] = "pending" /\ bucket[e[2]] = e[1] THEN due \cup {e[2]} ELSE due
    /\ UNCHANGED <<state, attempt, bucket, partial, pending, claimed, expired, callVars, claims,
                   reissued, disruptions>>

LockExpires(j) ==
    /\ j \in claimed \ expired
    /\ Disrupt
    /\ expired' = expired \cup {j}
    /\ UNCHANGED <<hashVars, pending, ready, claimed, callVars, claims, reissued>>

Next ==
    \/ \E j \in Jobs, b \in Buckets : SaveNew(j, b) \/ SaveAgain(j, b)
    \/ \E s \in Schedulers, q \in Queues, n \in 1..MaxBatch, S \in SUBSET ready : ClaimScript(s, q, n, S)
    \/ \E s \in Schedulers : ReadFails(s) \/ Crash(s) \/ \E c \in reading[s].todo : ReadHash(s, c)
    \/ \E c \in held : AckScript(c) \/ FailLookup(c) \/ \E b \in Buckets : FailScript(c, b)
    \/ \E k \in Clients : CancelScript(k) \/ RescheduleScript(k)
    \/ \E k \in Clients, op \in {"cancel", "reschedule"}, j \in Jobs : Lookup(k, op, j)
    \/ RecoverStale
    \/ \E e \in pending : BecomesDue(e)
    \/ \E j \in Jobs : LockExpires(j)

Spec == Init /\ [][Next]_vars
-----------------------------------------------------------------------------
(* Properties. *)

\* Every variable has its type: scores and locks belong to members of their sorted
\* sets, and a Fail under way is one of a copy that is still held.
TypeOK ==
    /\ state \in [Jobs -> States]
    /\ attempt \in [Jobs -> Nat]
    /\ bucket \in [Jobs -> Buckets]
    /\ due \subseteq Jobs /\ partial \subseteq Jobs
    /\ pending \subseteq Buckets \X Jobs /\ ready \subseteq pending
    /\ claimed \subseteq Jobs /\ expired \subseteq claimed
    /\ reading \in [Schedulers -> [todo : SUBSET Copy, got : SUBSET Copy]]
    /\ held \subseteq Copy
    /\ failing \subseteq held \X Buckets
    /\ call \in [Clients -> Calls]
    /\ claims \in [Jobs -> Nat]
    /\ reissued \subseteq Jobs
    /\ disruptions \in 0..MaxDisruptions

\* No job is lost between the hashes and the sorted sets, whatever the order in
\* which the scripts and the lookups of concurrent calls run: a pending job is a
\* member of the pending set of its own bucket and of no other, with the score
\* its hash says; a claimed job is where RecoverStale will find it; a finished
\* job can not be claimed.
SetsMatchHashes ==
    \A j \in Jobs :
        /\ {e \in pending : e[2] = j} = IF state[j] = "pending" THEN {<<bucket[j], j>>} ELSE {}
        /\ {e \in ready : e[2] = j} = IF state[j] = "pending" /\ j \in due THEN {<<bucket[j], j>>} ELSE {}
        /\ state[j] = "claimed" => j \in claimed
        /\ j \in claimed => state[j] = "claimed" \/ j \in reissued

\* "Redis serializes script execution, so concurrent schedulers hand out disjoint
\* job sets": until a claimed job is taken back or saved anew, at most one copy of
\* it is being read back or held.
ClaimsAreDisjoint ==
    LET copies == held \cup UNION {reading[s].todo \cup reading[s].got : s \in Schedulers} IN
    \A c, d \in copies : c.job = d.job /\ c.job \notin reissued => c = d

\* What ClaimDue reads back after its script is the job it claimed: until the job
\* is taken back or saved anew, no copy is blank, and each has the attempt count
\* of a hash that is still claimed.
CopiesAreCurrent ==
    \A c \in held \cup UNION {reading[s].got : s \in Schedulers} :
        c.job \notin reissued =>
            ~c.blank /\ c.attempt = attempt[c.job] /\ state[c.job] = "claimed"

\* Through its hashes and sets the Redis store implements the contract of the job
\* table: every script is a step the table allows, and every other round trip
\* leaves the table as it is.
Table == INSTANCE JobTable WITH
    Queues <- {"any"},
    QueueOf <- [j \in Jobs |-> "any"],
    stale <- {j \in expired : state[j] = "claimed"}

ImplementsJobTable == Table!TableSpec
=============================================================================
