--------------------------- MODULE RedisRecurring ---------------------------
(***************************************************************************)
(* Recurring schedules on the Redis backend: the runners of Recurring with *)
(* Redis' store calls.  A schedule is a hash and a member of the set of    *)
(* identifiers (rows), a lease is a key with a time to live.  Listing      *)
(* reads the set and then every hash; an update writes two fields of a     *)
(* hash whether or not the hash exists.                                    *)
(*                                                                         *)
(* leaseUntil is the instant the lease key disappears, on Redis' clock.    *)
(***************************************************************************)
EXTENDS Recurring

CONSTANTS
    Blank,    \* the schedule with no identifier, name, interval or expression
    Second    \* ticks in a second, the unit of a lease's time to live

ASSUME BlankAssumption == Blank \in Specs /\ Every[Blank] > 0 /\ Blank \notin Catchup
ASSUME SecondAssumption == Second \in Nat \ {0}

VARIABLES
    fields,   \* per schedule: which fields its hash has
    ids       \* per runner: listed identifiers whose hash it has not read

redisVars == <<fields, ids>>
allVars == <<vars, redisVars>>

RedisInit ==
    /\ Init
    /\ fields = [i \in Specs |-> "none"]
    /\ ids = [r \in Runners |-> {}]
-----------------------------------------------------------------------------
\* HSET of all fields and SADD, in one MULTI.
RedisCreate(i) ==
    /\ i # Blank
    /\ Create(i)
    /\ fields' = [fields EXCEPT ![i] = "all"]
    /\ UNCHANGED ids

\* Mutant of RedisDelete: the identifier stays in the set.
RedisDeleteHashOnly(i) ==
    /\ i \in rows /\ fields[i] = "all"
    /\ nextRunAt' = [nextRunAt EXCEPT ![i] = 0]
    /\ fields' = [fields EXCEPT ![i] = "none"]
    /\ UNCHANGED <<clock, rows, leaseUntil, leasedBy, anchor, scans, runnerVars, disruptions,
                   fired, lost, dead, ids>>

\* DEL of the hash and SREM, in one MULTI.  The lease key stays.
RedisDelete(i) ==
    /\ i \in rows
    /\ rows' = rows \ {i}
    /\ nextRunAt' = [nextRunAt EXCEPT ![i] = 0]
    /\ fields' = [fields EXCEPT ![i] = "none"]
    /\ UNCHANGED <<clock, leaseUntil, leasedBy, anchor, scans, runnerVars, disruptions,
                   fired, lost, dead, ids>>

\* SMEMBERS.
RedisListIds(r) ==
    /\ pc[r] = "list"
    /\ ids' = [ids EXCEPT ![r] = rows]
    /\ IF rows = {}
         THEN Continue(r, {})
         ELSE pc' = [pc EXCEPT ![r] = "read"] /\ UNCHANGED <<todo, seen, dead>>
    /\ UNCHANGED <<clock, rowVars, cur, k, disruptions, fired, lost, fields>>

\* What the runner makes of a hash.  An empty one is skipped; one with nothing but
\* the two times is a schedule without identifier.
Deserialized(i) ==
    CASE fields[i] = "none"  -> {}
      [] fields[i] = "times" -> {[spec |-> Blank, next |-> nextRunAt[i]]}
      [] fields[i] = "all"   -> {[spec |-> i, next |-> nextRunAt[i]]}

\* One HGETALL of the pipeline, and after the last one the loop of run.
RedisReadHash(r, i) ==
    LET found == todo[r] \cup {e \in Deserialized(i) : e.next <= seen[r]} IN
    /\ pc[r] = "read" /\ i \in ids[r]
    /\ ids' = [ids EXCEPT ![r] = @ \ {i}]
    /\ IF ids[r] = {i}
         THEN Continue(r, found)
         ELSE todo' = [todo EXCEPT ![r] = found] /\ UNCHANGED <<pc, seen, dead>>
    /\ UNCHANGED <<clock, rowVars, cur, k, disruptions, fired, lost, fields>>

\* Mutant of LeaseTTL: the number of seconds, taken for a number of ticks.
LeaseTTLInTicks(r) ==
    LET left == seen[r] + LeaseEvery - Now(r)
    IN  IF left <= 0 THEN 0 ELSE IF left < Second THEN 1 ELSE left \div Second

\* time.Until(leaseUntil) in whole seconds, at least one; zero if that is past.
LeaseTTL(r) ==
    LET left == seen[r] + LeaseEvery - Now(r)
        whole == (left \div Second) * Second
    IN  IF left <= 0 THEN 0 ELSE IF whole < Second THEN Second ELSE whole

\* acquireLeaseScript, unless the lease would be over already.
RedisAcquireLease(r, e) ==
    LET i == e.spec
        takes == LeaseTTL(r) > 0 /\ (leaseUntil[i] <= clock \/ leasedBy[i] = r)
    IN  /\ pc[r] = "scan" /\ e \in todo[r]
        /\ leaseUntil' = IF takes THEN [leaseUntil EXCEPT ![i] = clock + LeaseTTL(r)] ELSE leaseUntil
        /\ leasedBy' = IF takes THEN [leasedBy EXCEPT ![i] = r] ELSE leasedBy
        /\ IF takes
             THEN /\ cur' = [cur EXCEPT ![r] = e]
                  /\ todo' = [todo EXCEPT ![r] = @ \ {e}]
                  /\ pc' = [pc EXCEPT ![r] = "fire"]
                  /\ UNCHANGED <<seen, dead>>
             ELSE Continue(r, todo[r] \ {e}) /\ UNCHANGED cur
        /\ UNCHANGED <<clock, rows, nextRunAt, anchor, scans, k, disruptions,
                       fired, lost, redisVars>>

\* Mutant of RedisUpdateNextRun: the identifier is added to the set as well.
RedisUpdateReindexes(r) ==
    LET i == cur[r].spec IN
    /\ pc[r] = "update"
    /\ Moved(r, nextAfter(i, cur[r].next, seen[r]))
    /\ fields' = [fields EXCEPT ![i] = IF @ = "none" THEN "times" ELSE @]
    /\ rows' = rows \cup {i}
    /\ RowDone(r)
    /\ UNCHANGED <<disruptions, ids>>

\* HSET of next_run_at and last_fire_at, which creates the hash of a deleted
\* schedule anew.
RedisUpdateNextRun(r) ==
    LET i == cur[r].spec IN
    /\ pc[r] = "update"
    /\ Moved(r, nextAfter(i, cur[r].next, seen[r]))
    /\ fields' = [fields EXCEPT ![i] = IF @ = "none" THEN "times" ELSE @]
    /\ RowDone(r)
    /\ UNCHANGED <<rows, disruptions, ids>>

RedisStep(r) ==
    \/ Wake(r) /\ UNCHANGED redisVars
    \/ Fire(r) /\ UNCHANGED redisVars
    \/ RedisListIds(r)
    \/ \E i \in ids[r] : RedisReadHash(r, i)
    \/ \E e \in todo[r] : RedisAcquireLease(r, e)
    \/ RedisUpdateNextRun(r)

\* A failed listing, and a crash, forget what was listed.
RedisFailure(r) ==
    \/ (ListFails(r) \/ Crash(r)) /\ ids' = [ids EXCEPT ![r] = {}] /\ UNCHANGED fields
    \/ (SaveFails(r) \/ UpdateFails(r)) /\ UNCHANGED redisVars
    \/ (\E e \in todo[r] : LeaseFails(r, e)) /\ UNCHANGED redisVars

RedisNext ==
    \/ \E i \in Specs : RedisCreate(i) \/ RedisDelete(i)
    \/ \E r \in Runners : RedisStep(r) \/ RedisFailure(r)
    \/ Tick /\ UNCHANGED redisVars

RedisSpec == RedisInit /\ [][RedisNext]_allVars
-----------------------------------------------------------------------------
(* Properties. *)

\* The set of identifiers and the hashes agree at every step: what a listing finds
\* in the set has a complete hash, and what a late update leaves behind of a
\* deleted schedule is not listed again.
IndexMatchesHashes ==
    \A i \in Specs : i \in rows <=> fields[i] = "all"

\* A listing takes half a schedule for a whole one only if the schedule was deleted
\* after the scan began: no later scan meets one.
GhostsNeedADelete ==
    \A r \in Runners :
        (\E e \in todo[r] \cup {cur[r]} : e.spec = Blank) => Deleted \ dead[r] # {}
=============================================================================
