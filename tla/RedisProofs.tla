---------------------------- MODULE RedisProofs ----------------------------
(***************************************************************************)
(* Proofs about RedisStore, for any jobs, queues, priorities, attempt      *)
(* caps, schedulers, clients, batch sizes and disruptions. The hashes and  *)
(* the sorted sets agree as long as no live job is saved with another      *)
(* bucket, and a bucket looked up earlier is still the right one.          *)
(***************************************************************************)
EXTENDS RedisStore, TLAPS

\* Member by member, what SetsMatchHashes says of the sorted sets; and no claim
\* ever finds a job without hash.
SetInv ==
    /\ \A b \in Buckets, j \in Jobs :
           <<b, j>> \in pending <=> state[j] = "pending" /\ bucket[j] = b
    /\ \A b \in Buckets, j \in Jobs :
           <<b, j>> \in ready <=> state[j] = "pending" /\ bucket[j] = b /\ j \in due
    /\ \A j \in Jobs : state[j] = "claimed" => j \in claimed
    /\ \A j \in claimed : state[j] = "claimed" \/ j \in reissued
    /\ partial = {}

\* All copies that were ever handed out and are not finished.
Out == held \cup UNION {reading[s].todo \cup reading[s].got : s \in Schedulers}

\* A bucket looked up is still the job's when the script runs.
LookupInv ==
    /\ \A c \in Out : state[c.job] # "unsaved"
    /\ \A f \in failing : f[2] = bucket[f[1].job]
    /\ \A k \in Clients : call[k] # NoCall =>
           call[k].bucket = bucket[call[k].job] /\ state[call[k].job] # "unsaved"
-----------------------------------------------------------------------------
(* Typing. *)

HashTypes ==
    /\ state \in [Jobs -> States]
    /\ attempt \in [Jobs -> Nat]
    /\ bucket \in [Jobs -> Buckets]
    /\ due \subseteq Jobs /\ partial \subseteq Jobs

SetTypes ==
    /\ pending \subseteq Buckets \X Jobs /\ ready \subseteq pending
    /\ claimed \subseteq Jobs /\ expired \subseteq claimed

CallTypes ==
    /\ reading \in [Schedulers -> [todo : SUBSET Copy, got : SUBSET Copy]]
    /\ held \subseteq Copy
    /\ failing \subseteq held \X Buckets
    /\ call \in [Clients -> Calls]

HistoryTypes ==
    /\ claims \in [Jobs -> Nat]
    /\ reissued \subseteq Jobs
    /\ disruptions \in 0..MaxDisruptions

\* The type invariant in its four parts.
LEMMA TypeParts ==
    /\ TypeOK <=> HashTypes /\ SetTypes /\ CallTypes /\ HistoryTypes
    /\ TypeOK' <=> HashTypes' /\ SetTypes' /\ CallTypes' /\ HistoryTypes'
  BY Zenon DEF TypeOK, HashTypes, SetTypes, CallTypes, HistoryTypes

\* Scheduling a job keeps the sorted set of its bucket typed, and the run time too.
LEMMA ScheduleTypes ==
    ASSUME HashTypes, SetTypes, NEW j \in Jobs, NEW b \in Buckets, Schedule(j, b)
    PROVE  due' \subseteq Jobs /\ pending' \subseteq Buckets \X Jobs /\ ready' \subseteq pending'
  BY DEF HashTypes, SetTypes, Schedule

\* A disruption is counted within its bound.
LEMMA DisruptType ==
    ASSUME disruptions \in 0..MaxDisruptions, Disrupt
    PROVE  disruptions' \in 0..MaxDisruptions
  BY BoundsAssumption DEF Disrupt

\* Initially every variable has its type.
LEMMA InitTypes == Init => TypeOK
<1> SUFFICES ASSUME Init PROVE TypeOK
  OBVIOUS
<1>1. (CHOOSE b \in Buckets : TRUE) \in Buckets
  <2>1. PICK q \in Queues, p \in Priorities : TRUE
    BY BucketsAssumption, Zenon
  <2>2. <<q, p>> \in Buckets
    BY DEF Buckets
  <2> QED
    BY <2>2, Zenon
<1>2. HashTypes
  BY <1>1 DEF Init, HashTypes, States
<1>3. SetTypes
  BY DEF Init, SetTypes
<1>4. CallTypes
  BY DEF Init, CallTypes, NotReading, Calls
<1>5. HistoryTypes
  BY BoundsAssumption DEF Init, HistoryTypes
<1> QED
  BY <1>2, <1>3, <1>4, <1>5, TypeParts

\* Save keeps the types.
LEMMA SaveTypes ==
    ASSUME TypeOK, NEW j \in Jobs, NEW b \in Buckets, SaveNew(j, b) \/ SaveAgain(j, b)
    PROVE  TypeOK'
<1>1. HashTypes /\ SetTypes /\ CallTypes /\ HistoryTypes
  BY TypeParts
<1>2. Save(j, b) /\ UNCHANGED <<claimed, expired, reading, failing, call, held, claims>>
  BY Zenon DEF SaveNew, SaveAgain, Save, callVars
<1>3. due' \subseteq Jobs /\ pending' \subseteq Buckets \X Jobs /\ ready' \subseteq pending'
  BY <1>1, <1>2, ScheduleTypes DEF Save
<1>4. HashTypes'
  BY <1>1, <1>2, <1>3 DEF Save, HashTypes, States
<1>5. SetTypes'
  BY <1>1, <1>2, <1>3 DEF SetTypes
<1>6. CallTypes'
  BY <1>1, <1>2 DEF CallTypes
<1>7. HistoryTypes'
  BY <1>1, <1>2, DisruptType DEF HistoryTypes, SaveNew, SaveAgain
<1> QED
  BY <1>4, <1>5, <1>6, <1>7, TypeParts

\* Members of the ready sets are due jobs, one for each job.
LEMMA ReadyMembers ==
    ASSUME TypeOK, SetInv, NEW e \in ready
    PROVE  /\ e[1] \in Buckets /\ e[2] \in Jobs /\ e = <<e[1], e[2]>>
           /\ state[e[2]] = "pending" /\ e[1] = bucket[e[2]] /\ e[2] \in due
  BY DEF TypeOK, SetInv

\* The claim script keeps the types: what it leaves to be read back are copies.
LEMMA ClaimTypes ==
    ASSUME TypeOK, SetInv, NEW s \in Schedulers, NEW q, NEW n, NEW S \in SUBSET ready,
           ClaimScript(s, q, n, S)
    PROVE  TypeOK'
<1>1. HashTypes /\ SetTypes /\ CallTypes /\ HistoryTypes
  BY TypeParts
<1>2. {e[2] : e \in S} \subseteq Jobs
  BY ReadyMembers
<1>3. {ClaimOf(s, e) : e \in S} \subseteq Copy
  <2> SUFFICES ASSUME NEW e \in S PROVE ClaimOf(s, e) \in Copy
    OBVIOUS
  <2>1. e[1] \in Buckets /\ e[2] \in Jobs /\ claims[e[2]] \in Nat
    BY <1>1, ReadyMembers DEF HistoryTypes
  <2> QED
    BY <2>1 DEF ClaimOf, Copy
<1>4. HashTypes'
  BY <1>1, <1>2, Zenon DEF ClaimScript, HashTypes, States
<1>5. SetTypes'
  BY <1>1, <1>2, Zenon DEF ClaimScript, SetTypes
<1>6. CallTypes'
  <2>1. /\ reading' = [reading EXCEPT ![s].todo = {ClaimOf(s, e) : e \in S}]
        /\ UNCHANGED <<failing, call, held>>
    BY Zenon DEF ClaimScript
  <2> QED
    BY <1>1, <1>3, <2>1 DEF CallTypes
<1>7. HistoryTypes'
  <2>1. claims' \in [Jobs -> Nat]
    BY <1>1 DEF ClaimScript, HistoryTypes
  <2> QED
    BY <1>1, <2>1 DEF ClaimScript, HistoryTypes
<1> QED
  BY <1>4, <1>5, <1>6, <1>7, TypeParts

\* So does reading a hash, or failing to.
LEMMA ReadTypes ==
    ASSUME TypeOK, NEW s \in Schedulers,
           ReadFails(s) \/ \E c \in reading[s].todo : ReadHash(s, c)
    PROVE  TypeOK'
<1>1. HashTypes /\ SetTypes /\ CallTypes /\ HistoryTypes
  BY TypeParts
<1>2. /\ UNCHANGED <<state, attempt, bucket, due, partial, pending, ready, claimed, expired>>
      /\ UNCHANGED <<failing, call, claims, reissued>>
  BY Zenon DEF ReadFails, ReadHash, hashVars, setVars
<1>3. CASE ReadFails(s)
  <2>1. CallTypes'
    BY <1>1, <1>2, <1>3, Zenon DEF ReadFails, CallTypes, NotReading
  <2>2. HistoryTypes'
    BY <1>1, <1>2, <1>3, DisruptType DEF ReadFails, HistoryTypes
  <2> QED
    BY <1>1, <1>2, <2>1, <2>2, TypeParts DEF HashTypes, SetTypes
<1>4. ASSUME NEW c \in reading[s].todo, ReadHash(s, c) PROVE TypeOK'
  <2> DEFINE copy == [c EXCEPT !.attempt = attempt[c.job], !.blank = ~Whole(c.job)]
             got == reading[s].got \cup {copy}
             todo == reading[s].todo \ {c}
  <2>1. c \in Copy /\ attempt[c.job] \in Nat /\ Whole(c.job) \in BOOLEAN
    BY <1>1 DEF CallTypes, HashTypes, Copy, Whole, Exists
  <2>2. copy \in Copy
    BY <2>1, Zenon DEF Copy
  <2>3. got \subseteq Copy /\ todo \subseteq Copy
    BY <1>1, <2>2 DEF CallTypes
  <2>4. \/ reading' = [reading EXCEPT ![s] = NotReading] /\ held' = held \cup got
        \/ reading' = [reading EXCEPT ![s] = [todo |-> todo, got |-> got]] /\ held' = held
    BY <1>4, Zenon DEF ReadHash
  <2> HIDE DEF copy, got, todo
  <2>5. CallTypes'
    BY <1>1, <1>2, <2>3, <2>4 DEF CallTypes, NotReading
  <2>6. HistoryTypes'
    BY <1>1, <1>2, <1>4, Zenon DEF HistoryTypes, ReadHash
  <2> QED
    BY <1>1, <1>2, <2>5, <2>6, TypeParts DEF HashTypes, SetTypes
<1> QED
  BY <1>3, <1>4

\* So do the ends of a claim.
LEMMA FinishTypes ==
    ASSUME TypeOK, LookupInv, NEW c \in held, NEW b \in Buckets,
           AckScript(c) \/ FailLookup(c) \/ FailScript(c, b)
    PROVE  TypeOK'
<1>1. HashTypes /\ SetTypes /\ CallTypes /\ HistoryTypes
  BY TypeParts
<1>2. c \in Copy /\ c.job \in Jobs
  BY <1>1 DEF CallTypes, Copy
<1>3. UNCHANGED <<bucket, reading, call, claims, reissued, disruptions>>
  BY Zenon DEF AckScript, FailLookup, FailScript, hashVars, setVars
<1>4. HistoryTypes'
  BY <1>1, <1>3 DEF HistoryTypes
<1>5. CASE AckScript(c)
  <2>1. HashTypes'
    BY <1>1, <1>2, <1>3, <1>5, Zenon DEF AckScript, HashTypes, States, Terminal
  <2>2. SetTypes'
    BY <1>1, <1>5, Zenon DEF AckScript, SetTypes
  <2>3. CallTypes'
    BY <1>1, <1>3, <1>5, Zenon DEF AckScript, CallTypes
  <2> QED
    BY <1>4, <2>1, <2>2, <2>3, TypeParts
<1>6. CASE FailLookup(c)
  <2>1. HashTypes' /\ SetTypes'
    BY <1>1, <1>6, Zenon DEF FailLookup, HashTypes, SetTypes, hashVars, setVars
  <2>2. bucket[c.job] \in Buckets
    BY <1>1, <1>2 DEF HashTypes
  <2>3. CallTypes'
    BY <1>1, <1>3, <1>6, <2>2 DEF FailLookup, CallTypes
  <2> QED
    BY <1>4, <2>1, <2>3, TypeParts
<1>7. CASE FailScript(c, b)
  <2>1. ASSUME state[c.job] = "claimed" /\ ~Exhausts(c.job) PROVE HashTypes' /\ SetTypes'
    <3>1. Schedule(c.job, b) /\ state' = [state EXCEPT ![c.job] = "pending"]
      BY <1>7, <2>1, Zenon DEF FailScript
    <3>2. due' \subseteq Jobs /\ pending' \subseteq Buckets \X Jobs /\ ready' \subseteq pending'
      BY <1>1, <1>2, <3>1, ScheduleTypes
    <3>3. HashTypes'
      BY <1>1, <1>2, <1>3, <1>7, <2>1, <3>1, <3>2 DEF FailScript, HashTypes, States
    <3>4. SetTypes'
      BY <1>1, <1>7, <2>1, <3>2, Zenon DEF FailScript, SetTypes
    <3> QED
      BY <3>3, <3>4
  <2>2. ASSUME state[c.job] # "claimed" \/ Exhausts(c.job) PROVE HashTypes' /\ SetTypes'
    <3>1. HashTypes'
      BY <1>1, <1>2, <1>3, <1>7, <2>2 DEF FailScript, HashTypes, States, Terminal, setVars
    <3>2. SetTypes'
      BY <1>1, <1>7, <2>2, Zenon DEF FailScript, SetTypes, setVars
    <3> QED
      BY <3>1, <3>2
  <2>3. \A f \in failing : f[1] = c => f = <<c, b>>
    <3>1. <<c, b>> \in failing
      BY <1>7, Zenon DEF FailScript
    <3>2. b = bucket[c.job]
      BY <3>1, Zenon DEF LookupInv
    <3>3. \A f \in failing : f = <<f[1], f[2]>> /\ f[2] = bucket[f[1].job]
      BY <1>1 DEF CallTypes, LookupInv
    <3> QED
      BY <3>2, <3>3
  <2>4. failing' = failing \ {<<c, b>>} /\ held' = held \ {c}
    BY <1>7, Zenon DEF FailScript
  <2>5. failing' \subseteq held' \X Buckets
    BY <1>1, <2>3, <2>4 DEF CallTypes
  <2>6. CallTypes'
    BY <1>1, <1>3, <2>4, <2>5 DEF CallTypes
  <2> QED
    BY <1>4, <2>1, <2>2, <2>6, TypeParts
<1> QED
  BY <1>5, <1>6, <1>7

\* So do the clients' calls.
LEMMA ClientTypes ==
    ASSUME TypeOK, NEW k \in Clients,
           \/ CancelScript(k) \/ RescheduleScript(k)
           \/ \E op \in {"cancel", "reschedule"}, j \in Jobs : Lookup(k, op, j)
    PROVE  TypeOK'
<1>1. HashTypes /\ SetTypes /\ CallTypes /\ HistoryTypes
  BY TypeParts
<1>2. UNCHANGED <<attempt, bucket, claimed, expired, reading, failing, held, claims, reissued, disruptions>>
  BY Zenon DEF CancelScript, RescheduleScript, Lookup, hashVars, setVars
<1>3. HistoryTypes'
  BY <1>1, <1>2 DEF HistoryTypes
<1>4. NoCall \in Calls
  BY DEF Calls
<1>5. CASE \E op \in {"cancel", "reschedule"}, j \in Jobs : Lookup(k, op, j)
  <2>1. PICK op \in {"cancel", "reschedule"}, j \in Jobs : Lookup(k, op, j)
    BY <1>5
  <2>2. bucket[j] \in Buckets
    BY <1>1 DEF HashTypes
  <2>3. [op |-> op, job |-> j, bucket |-> bucket[j]] \in Calls
    BY <2>2 DEF Calls
  <2>4. CallTypes'
    BY <1>1, <1>2, <2>1, <2>3, Zenon DEF CallTypes, Lookup
  <2>5. HashTypes' /\ SetTypes'
    BY <1>1, <2>1, Zenon DEF Lookup, HashTypes, SetTypes, hashVars, setVars
  <2> QED
    BY <1>3, <2>4, <2>5, TypeParts
<1>6. CASE CancelScript(k) \/ RescheduleScript(k)
  <2>1. call[k].job \in Jobs /\ call[k].bucket \in Buckets
    <3>1. call[k] \in Calls /\ call[k].op # "none"
      BY <1>1, <1>6, Zenon DEF CallTypes, CancelScript, RescheduleScript
    <3> QED
      BY <3>1 DEF Calls, NoCall
  <2>2. CallTypes'
    BY <1>1, <1>2, <1>4, <1>6, Zenon DEF CallTypes, CancelScript, RescheduleScript
  <2>3. ASSUME CancelScript(k) PROVE HashTypes' /\ SetTypes'
    <3>1. /\ state' = [state EXCEPT ![call[k].job] = "cancelled"] \/ state' = state
          /\ due' \subseteq due /\ partial' \subseteq partial /\ pending' \subseteq pending
      BY <2>3, Zenon DEF CancelScript
    <3>2. ready' \subseteq pending'
      BY <1>1, <2>3, Zenon DEF CancelScript, SetTypes
    <3>3. state' \in [Jobs -> States]
      BY <1>1, <3>1 DEF HashTypes, States, Terminal
    <3> QED
      BY <1>1, <1>2, <3>1, <3>2, <3>3 DEF HashTypes, SetTypes
  <2>4. ASSUME RescheduleScript(k) PROVE HashTypes' /\ SetTypes'
    <3>1. due' \subseteq Jobs /\ pending' \subseteq Buckets \X Jobs /\ ready' \subseteq pending'
      <4>1. CASE state[call[k].job] = "pending"
        BY <1>1, <2>1, <2>4, <4>1, ScheduleTypes, Zenon DEF RescheduleScript
      <4>2. CASE state[call[k].job] # "pending"
        BY <1>1, <2>4, <4>2, Zenon DEF RescheduleScript, HashTypes, SetTypes
      <4> QED
        BY <4>1, <4>2
    <3>2. UNCHANGED <<state, partial>>
      BY <2>4, Zenon DEF RescheduleScript
    <3> QED
      BY <1>1, <1>2, <3>1, <3>2 DEF HashTypes, SetTypes
  <2> QED
    BY <1>3, <1>6, <2>2, <2>3, <2>4, TypeParts
<1> QED
  BY <1>5, <1>6

\* So do recovery, crashes and the passing of time.
LEMMA OtherTypes ==
    ASSUME TypeOK,
           \/ RecoverStale \/ (\E s \in Schedulers : Crash(s))
           \/ (\E e \in pending : BecomesDue(e)) \/ (\E j \in Jobs : LockExpires(j))
    PROVE  TypeOK'
<1>1. HashTypes /\ SetTypes /\ CallTypes /\ HistoryTypes
  BY TypeParts
<1>2. CASE RecoverStale
  <2>1. {j \in expired : Whole(j)} \subseteq Jobs
    BY <1>1 DEF SetTypes
  <2>2. HashTypes'
    BY <1>1, <1>2, <2>1, Zenon DEF RecoverStale, HashTypes, States
  <2>3. \A j \in Jobs : bucket[j] \in Buckets
    BY <1>1 DEF HashTypes
  <2>4. SetTypes'
    BY <1>1, <1>2, <2>1, <2>3 DEF RecoverStale, SetTypes
  <2>5. CallTypes'
    <3>1. UNCHANGED <<reading, failing, call, held>>
      BY <1>2, Zenon DEF RecoverStale, callVars
    <3> QED
      BY <1>1, <3>1 DEF CallTypes
  <2>6. HistoryTypes'
    BY <1>1, <1>2, <2>1, Zenon DEF RecoverStale, HistoryTypes
  <2> QED
    BY <2>2, <2>4, <2>5, <2>6, TypeParts
<1>3. ASSUME NEW s \in Schedulers, Crash(s) PROVE TypeOK'
  <2>1. HashTypes' /\ SetTypes'
    <3>1. UNCHANGED hashVars /\ UNCHANGED setVars
      BY <1>3, Zenon DEF Crash
    <3> QED
      BY <1>1, <3>1 DEF HashTypes, SetTypes, hashVars, setVars
  <2>2. CallTypes'
    BY <1>1, <1>3, Zenon DEF Crash, CallTypes, NotReading
  <2>3. HistoryTypes'
    BY <1>1, <1>3, DisruptType DEF Crash, HistoryTypes
  <2> QED
    BY <2>1, <2>2, <2>3, TypeParts
<1>4. ASSUME NEW e \in pending, BecomesDue(e) PROVE TypeOK'
  <2>1. e[2] \in Jobs
    BY <1>1 DEF SetTypes
  <2>2. HashTypes'
    BY <1>1, <1>4, <2>1, Zenon DEF BecomesDue, HashTypes
  <2>3. SetTypes' /\ CallTypes' /\ HistoryTypes'
    BY <1>1, <1>4, Zenon DEF BecomesDue, SetTypes, CallTypes, HistoryTypes, callVars
  <2> QED
    BY <2>2, <2>3, TypeParts
<1>5. ASSUME NEW j \in Jobs, LockExpires(j) PROVE TypeOK'
  <2>1. HashTypes' /\ SetTypes' /\ CallTypes'
    BY <1>1, <1>5, Zenon DEF LockExpires, HashTypes, SetTypes, CallTypes, hashVars, callVars
  <2>2. HistoryTypes'
    BY <1>1, <1>5, DisruptType DEF LockExpires, HistoryTypes
  <2> QED
    BY <2>1, <2>2, TypeParts
<1> QED
  BY <1>2, <1>3, <1>4, <1>5
-----------------------------------------------------------------------------
(* The sorted sets and the looked-up buckets. *)

StoreInv == TypeOK /\ SetInv /\ LookupInv

\* Pointwise agreement is what SetsMatchHashes says.
LEMMA SetsMatch == TypeOK /\ SetInv => SetsMatchHashes
<1> SUFFICES ASSUME TypeOK, SetInv, NEW j \in Jobs
             PROVE  /\ {e \in pending : e[2] = j} = IF state[j] = "pending" THEN {<<bucket[j], j>>} ELSE {}
                    /\ {e \in ready : e[2] = j} = IF state[j] = "pending" /\ j \in due THEN {<<bucket[j], j>>} ELSE {}
                    /\ state[j] = "claimed" => j \in claimed
                    /\ j \in claimed => state[j] = "claimed" \/ j \in reissued
  BY Zenon DEF SetsMatchHashes
<1>1. bucket[j] \in Buckets
  BY DEF TypeOK
<1>2. \A e \in pending : e[1] \in Buckets /\ e[2] \in Jobs /\ e = <<e[1], e[2]>>
  BY DEF TypeOK
<1>3. {e \in pending : e[2] = j} = IF state[j] = "pending" THEN {<<bucket[j], j>>} ELSE {}
  BY <1>1, <1>2 DEF SetInv
<1>4. ready \subseteq pending
  BY DEF TypeOK
<1>5. {e \in ready : e[2] = j} = IF state[j] = "pending" /\ j \in due THEN {<<bucket[j], j>>} ELSE {}
  BY <1>1, <1>2, <1>4 DEF SetInv
<1> QED
  BY <1>3, <1>5 DEF SetInv

\* Giving a job a run time in its own bucket.
LEMMA ScheduleSets ==
    ASSUME TypeOK, SetInv, NEW j \in Jobs, NEW b \in Buckets, Schedule(j, b),
           state' = [state EXCEPT ![j] = "pending"], bucket' = [bucket EXCEPT ![j] = b],
           b = bucket[j] \/ state[j] # "pending"
    PROVE  /\ \A a \in Buckets, i \in Jobs :
                  <<a, i>> \in pending' <=> state'[i] = "pending" /\ bucket'[i] = a
           /\ \A a \in Buckets, i \in Jobs :
                  <<a, i>> \in ready' <=> state'[i] = "pending" /\ bucket'[i] = a /\ i \in due'
<1>1. /\ state \in [Jobs -> States] /\ bucket \in [Jobs -> Buckets]
  BY DEF TypeOK
<1>2. \A a \in Buckets, i \in Jobs : <<a, i>> = <<b, j>> <=> a = b /\ i = j
  OBVIOUS
<1>3. \A i \in Jobs : i # j => state'[i] = state[i] /\ bucket'[i] = bucket[i]
  BY <1>1
<1>4. state'[j] = "pending" /\ bucket'[j] = b
  BY <1>1
<1>5. ASSUME NEW a \in Buckets, NEW i \in Jobs
      PROVE  <<a, i>> \in pending' <=> state'[i] = "pending" /\ bucket'[i] = a
  <2>1. <<a, i>> \in pending' <=> <<a, i>> \in pending \/ (a = b /\ i = j)
    BY <1>2 DEF Schedule
  <2> QED
    BY <1>3, <1>4, <2>1 DEF SetInv
<1>6. ASSUME NEW a \in Buckets, NEW i \in Jobs
      PROVE  <<a, i>> \in ready' <=> state'[i] = "pending" /\ bucket'[i] = a /\ i \in due'
  <2>1. CASE due' = due \cup {j} /\ ready' = ready \cup {<<b, j>>}
    <3>1. <<a, i>> \in ready' <=> <<a, i>> \in ready \/ (a = b /\ i = j)
      BY <1>2, <2>1
    <3> QED
      BY <1>3, <1>4, <2>1, <3>1 DEF SetInv
  <2>2. CASE due' = due \ {j} /\ ready' = ready \ {<<b, j>>}
    <3>1. <<a, i>> \in ready' <=> <<a, i>> \in ready /\ ~(a = b /\ i = j)
      BY <1>2, <2>2
    <3> QED
      BY <1>3, <1>4, <2>2, <3>1 DEF SetInv
  <2> QED
    BY <2>1, <2>2 DEF Schedule
<1> QED
  BY <1>5, <1>6

\* Save, of a job that is new or keeps its bucket.
LEMMA SaveSets ==
    ASSUME TypeOK, SetInv, Moves = FALSE, NEW j \in Jobs, NEW b \in Buckets,
           SaveNew(j, b) \/ SaveAgain(j, b)
    PROVE  SetInv'
<1>1. Save(j, b)
  BY DEF SaveNew, SaveAgain
<1>2. state \in [Jobs -> States] /\ bucket \in [Jobs -> Buckets]
  BY DEF TypeOK
<1>3. b = bucket[j] \/ state[j] # "pending"
  BY DEF SaveNew, SaveAgain
<1>4. /\ \A a \in Buckets, i \in Jobs :
              <<a, i>> \in pending' <=> state'[i] = "pending" /\ bucket'[i] = a
      /\ \A a \in Buckets, i \in Jobs :
              <<a, i>> \in ready' <=> state'[i] = "pending" /\ bucket'[i] = a /\ i \in due'
  BY <1>1, <1>3, ScheduleSets, Zenon DEF Save
<1>5. /\ claimed' = claimed /\ partial' = partial \ {j} /\ state' = [state EXCEPT ![j] = "pending"]
      /\ reissued \subseteq reissued' /\ (state[j] = "claimed" => j \in reissued')
  BY <1>1 DEF Save, SaveNew, SaveAgain
<1>6. claimed \subseteq Jobs
  BY DEF TypeOK
<1>7. \A i \in Jobs : state'[i] = "claimed" => i \in claimed'
  BY <1>2, <1>5 DEF SetInv
<1>8. \A i \in claimed' : state'[i] = "claimed" \/ i \in reissued'
  BY <1>2, <1>5, <1>6 DEF SetInv
<1> QED
  BY <1>4, <1>5, <1>7, <1>8 DEF SetInv

\* The claim script moves each identifier from its pending set to the claimed set.
LEMMA ClaimSets ==
    ASSUME TypeOK, SetInv, NEW s \in Schedulers, NEW q, NEW n, NEW S \in SUBSET ready,
           ClaimScript(s, q, n, S)
    PROVE  SetInv'
<1> DEFINE taken == {e[2] : e \in S}
<1>1. /\ pending' = pending \ S /\ ready' = ready \ S /\ claimed' = claimed \cup taken
      /\ state' = [j \in Jobs |-> IF j \in taken THEN "claimed" ELSE state[j]]
      /\ partial' = partial \cup {j \in taken : ~Exists(j)}
      /\ UNCHANGED <<bucket, due, reissued>>
  BY DEF ClaimScript
<1>2. claimed \subseteq Jobs
  BY DEF TypeOK
<1>3. \A a \in Buckets, j \in Jobs : <<a, j>> \in S => j \in taken
  OBVIOUS
<1>4. \A j \in taken : j \in Jobs /\ state[j] = "pending" /\ <<bucket[j], j>> \in S
  BY ReadyMembers
<1> HIDE DEF taken
<1>5. partial' = {}
  BY <1>1, <1>4, Zenon DEF SetInv, Exists
<1>6. \A a \in Buckets, j \in Jobs :
          <<a, j>> \in pending' <=> state'[j] = "pending" /\ bucket'[j] = a
  BY <1>1, <1>3, <1>4, Zenon DEF SetInv
<1>7. \A a \in Buckets, j \in Jobs :
          <<a, j>> \in ready' <=> state'[j] = "pending" /\ bucket'[j] = a /\ j \in due'
  BY <1>1, <1>3, <1>4, Zenon DEF SetInv
<1>8. \A j \in Jobs : state'[j] = "claimed" => j \in claimed'
  BY <1>1 DEF SetInv
<1>9. \A j \in claimed' : state'[j] = "claimed" \/ j \in reissued'
  BY <1>1, <1>2, <1>4, Zenon DEF SetInv
<1> QED
  BY <1>5, <1>6, <1>7, <1>8, <1>9 DEF SetInv

\* Nothing changes for the sets when neither they nor the hashes change.
LEMMA SameSets ==
    ASSUME SetInv, UNCHANGED <<state, bucket, due, partial, pending, ready, claimed, reissued>>
    PROVE  SetInv'
  BY DEF SetInv


\* A finished claim leaves the claimed set; a retry goes back to its own bucket.
LEMMA FinishSets ==
    ASSUME TypeOK, SetInv, LookupInv, NEW c \in held, NEW b \in Buckets,
           AckScript(c) \/ FailLookup(c) \/ FailScript(c, b)
    PROVE  SetInv'
<1>1. c.job \in Jobs /\ state \in [Jobs -> States] /\ bucket \in [Jobs -> Buckets] /\ claimed \subseteq Jobs
  BY DEF TypeOK, Copy
<1>2. UNCHANGED <<bucket, reissued>>
  BY Zenon DEF AckScript, FailLookup, FailScript, hashVars
<1>3. CASE FailLookup(c)
  BY <1>2, <1>3, SameSets, Zenon DEF FailLookup, hashVars, setVars
<1>4. CASE state[c.job] # "claimed" /\ (AckScript(c) \/ FailScript(c, b))
  BY <1>2, <1>4, SameSets, Zenon DEF AckScript, FailScript, setVars
<1>5. ASSUME NEW final, final # "pending", final # "claimed", state[c.job] = "claimed",
             state' = [state EXCEPT ![c.job] = final], due' = due \ {c.job},
             partial' \subseteq partial, claimed' = claimed \ {c.job}, UNCHANGED <<pending, ready>>
      PROVE  SetInv'
  <2>1. state'[c.job] = final /\ \A i \in Jobs : i # c.job => state'[i] = state[i]
    BY <1>1, <1>5
  <2>2. \A a \in Buckets : <<a, c.job>> \notin pending /\ <<a, c.job>> \notin ready
    BY <1>1, <1>5 DEF SetInv
  <2>3. \A i \in Jobs : i # c.job => (i \in due' <=> i \in due)
    BY <1>5
  <2>4. partial' = {}
    BY <1>5 DEF SetInv
  <2>5. \A a \in Buckets, j \in Jobs :
            <<a, j>> \in pending' <=> state'[j] = "pending" /\ bucket'[j] = a
    <3> TAKE a \in Buckets, j \in Jobs
    <3>1. CASE j = c.job
      BY <1>2, <1>5, <2>1, <2>2, <3>1, Zenon DEF SetInv
    <3>2. CASE j # c.job
      BY <1>2, <1>5, <2>1, <2>2, <3>2, Zenon DEF SetInv
    <3> QED
      BY <3>1, <3>2
  <2>6. \A a \in Buckets, j \in Jobs :
            <<a, j>> \in ready' <=> state'[j] = "pending" /\ bucket'[j] = a /\ j \in due'
    <3> TAKE a \in Buckets, j \in Jobs
    <3>1. CASE j = c.job
      BY <1>2, <1>5, <2>1, <2>2, <2>3, <3>1, Zenon DEF SetInv
    <3>2. CASE j # c.job
      BY <1>2, <1>5, <2>1, <2>2, <2>3, <3>2, Zenon DEF SetInv
    <3> QED
      BY <3>1, <3>2
  <2>7. /\ \A j \in Jobs : state'[j] = "claimed" => j \in claimed'
        /\ \A j \in claimed' : state'[j] = "claimed" \/ j \in reissued'
    BY <1>1, <1>2, <1>5, <2>1 DEF SetInv
  <2> QED
    BY <2>4, <2>5, <2>6, <2>7 DEF SetInv
<1>6. CASE state[c.job] = "claimed" /\ AckScript(c)
  BY <1>5, <1>6, Zenon DEF AckScript
<1>7. CASE state[c.job] = "claimed" /\ FailScript(c, b) /\ Exhausts(c.job)
  BY <1>5, <1>7, Zenon DEF FailScript
<1>8. CASE state[c.job] = "claimed" /\ FailScript(c, b) /\ ~Exhausts(c.job)
  <2>1. /\ Schedule(c.job, b) /\ state' = [state EXCEPT ![c.job] = "pending"]
        /\ claimed' = claimed \ {c.job} /\ partial' = partial /\ <<c, b>> \in failing
    BY <1>8, Zenon DEF FailScript
  <2>2. b = bucket[c.job]
    BY <2>1, Zenon DEF LookupInv
  <2>3. bucket' = [bucket EXCEPT ![c.job] = b]
    BY <1>1, <1>2, <2>2
  <2>4. /\ \A a \in Buckets, i \in Jobs :
               <<a, i>> \in pending' <=> state'[i] = "pending" /\ bucket'[i] = a
        /\ \A a \in Buckets, i \in Jobs :
               <<a, i>> \in ready' <=> state'[i] = "pending" /\ bucket'[i] = a /\ i \in due'
    BY <1>1, <2>1, <2>2, <2>3, ScheduleSets, Zenon
  <2>5. /\ \A j \in Jobs : state'[j] = "claimed" => j \in claimed'
        /\ \A j \in claimed' : state'[j] = "claimed" \/ j \in reissued'
    BY <1>1, <1>2, <2>1 DEF SetInv
  <2> QED
    BY <2>1, <2>4, <2>5, Zenon DEF SetInv
<1> QED
  BY <1>3, <1>4, <1>6, <1>7, <1>8

\* A cancelled job leaves its pending set, a rescheduled one stays in it.
LEMMA ClientSets ==
    ASSUME TypeOK, SetInv, LookupInv, NEW k \in Clients,
           \/ CancelScript(k) \/ RescheduleScript(k)
           \/ \E op \in {"cancel", "reschedule"}, j \in Jobs : Lookup(k, op, j)
    PROVE  SetInv'
<1> DEFINE j == call[k].job
           b == call[k].bucket
<1>1. /\ state \in [Jobs -> States] /\ bucket \in [Jobs -> Buckets] /\ claimed \subseteq Jobs
      /\ call \in [Clients -> Calls]
  BY DEF TypeOK
<1>2. UNCHANGED <<bucket, claimed, reissued>>
  BY Zenon DEF CancelScript, RescheduleScript, Lookup, hashVars, setVars
<1>3. CASE \E op \in {"cancel", "reschedule"}, i \in Jobs : Lookup(k, op, i)
  BY <1>2, <1>3, SameSets, Zenon DEF Lookup, hashVars, setVars
<1>4. ASSUME CancelScript(k) \/ RescheduleScript(k)
      PROVE  j \in Jobs /\ b = bucket[j] /\ b \in Buckets
  <2>1. call[k].op # "none" /\ call[k] \in Calls
    BY <1>1, <1>4, Zenon DEF CancelScript, RescheduleScript
  <2>2. call[k] # NoCall /\ j \in Jobs /\ b \in Buckets
    BY <2>1 DEF Calls, NoCall
  <2> QED
    BY <2>2, Zenon DEF LookupInv
<1>5. CASE (CancelScript(k) \/ RescheduleScript(k)) /\ state[j] # "pending"
  BY <1>2, <1>5, SameSets, Zenon DEF CancelScript, RescheduleScript
<1>6. ASSUME NEW i \in Jobs, NEW a \in Buckets, a = bucket[i], state[i] = "pending",
             state' = [state EXCEPT ![i] = "cancelled"], due' = due \ {i}, partial' = partial \ {i},
             pending' = pending \ {<<a, i>>}, ready' = ready \ {<<a, i>>}
      PROVE  SetInv'
  <2>1. state'[i] = "cancelled" /\ \A x \in Jobs : x # i => state'[x] = state[x]
    BY <1>1, <1>6
  <2>2. \A c \in Buckets, x \in Jobs :
            /\ <<c, x>> \in pending' <=> <<c, x>> \in pending /\ ~(c = a /\ x = i)
            /\ <<c, x>> \in ready' <=> <<c, x>> \in ready /\ ~(c = a /\ x = i)
    BY <1>6
  <2>3. \A x \in Jobs : x # i => (x \in due' <=> x \in due)
    BY <1>6
  <2>4. ASSUME NEW c \in Buckets, NEW x \in Jobs
        PROVE  /\ <<c, x>> \in pending' <=> state'[x] = "pending" /\ bucket'[x] = c
               /\ <<c, x>> \in ready' <=> state'[x] = "pending" /\ bucket'[x] = c /\ x \in due'
    <3>1. /\ <<c, x>> \in pending <=> state[x] = "pending" /\ bucket[x] = c
          /\ <<c, x>> \in ready <=> state[x] = "pending" /\ bucket[x] = c /\ x \in due
      BY DEF SetInv
    <3>2. CASE x = i
      BY <1>6, <2>1, <2>2, <3>1, <3>2
    <3>3. CASE x # i
      BY <1>2, <2>1, <2>2, <2>3, <3>1, <3>3
    <3> QED
      BY <3>2, <3>3
  <2>6. /\ partial' = {}
        /\ \A x \in Jobs : state'[x] = "claimed" => x \in claimed'
        /\ \A x \in claimed' : state'[x] = "claimed" \/ x \in reissued'
    BY <1>1, <1>2, <1>6, <2>1 DEF SetInv
  <2> QED
    BY <2>4, <2>6 DEF SetInv
<1>8. CASE CancelScript(k) /\ state[j] = "pending"
  BY <1>4, <1>6, <1>8, Zenon DEF CancelScript
<1>7. CASE RescheduleScript(k) /\ state[j] = "pending"
  <2>1. Schedule(j, b) /\ UNCHANGED <<state, partial>>
    BY <1>7, Zenon DEF RescheduleScript
  <2>2. j \in Jobs /\ b = bucket[j] /\ b \in Buckets /\ state[j] = "pending"
    BY <1>4, <1>7
  <2> HIDE DEF j, b
  <2>3. state' = [state EXCEPT ![j] = "pending"] /\ bucket' = [bucket EXCEPT ![j] = b]
    BY <1>1, <1>2, <2>1, <2>2
  <2>4. /\ \A a \in Buckets, i \in Jobs :
               <<a, i>> \in pending' <=> state'[i] = "pending" /\ bucket'[i] = a
        /\ \A a \in Buckets, i \in Jobs :
               <<a, i>> \in ready' <=> state'[i] = "pending" /\ bucket'[i] = a /\ i \in due'
    BY <2>1, <2>2, <2>3, ScheduleSets, Zenon
  <2> QED
    BY <1>2, <2>1, <2>4 DEF SetInv
<1> QED
  BY <1>3, <1>5, <1>7, <1>8

\* Recovery moves identifiers from the claimed set to their pending sets; time
\* makes a member ready and its job due together.
LEMMA OtherSets ==
    ASSUME TypeOK, SetInv,
           \/ RecoverStale \/ (\E s \in Schedulers : Crash(s))
           \/ (\E e \in pending : BecomesDue(e)) \/ (\E j \in Jobs : LockExpires(j))
    PROVE  SetInv'
<1>1. /\ state \in [Jobs -> States] /\ bucket \in [Jobs -> Buckets]
      /\ claimed \subseteq Jobs /\ expired \subseteq claimed
  BY DEF TypeOK
<1>2. CASE RecoverStale
  <2> DEFINE back == {j \in expired : Whole(j)}
             added == {<<bucket[j], j>> : j \in back}
  <2>1. /\ claimed' = claimed \ expired
        /\ state' = [j \in Jobs |-> IF j \in back THEN "pending" ELSE state[j]]
        /\ pending' = pending \cup added
        /\ ready' = (ready \ added) \cup {<<bucket[j], j>> : j \in back \cap due}
        /\ reissued' = reissued \cup {j \in back : state[j] = "claimed"}
        /\ UNCHANGED <<bucket, due, partial>>
    BY <1>2, Zenon DEF RecoverStale
  <2>2. \A j \in back : j \in Jobs /\ (state[j] = "pending" \/ state[j] = "claimed")
    BY <1>1 DEF Whole, Exists
  <2>3. \A j \in expired : state[j] = "claimed" => j \in back
    BY DEF SetInv, Whole, Exists
  <2>4. \A a, j : <<a, j>> \in added <=> j \in back /\ a = bucket[j]
    OBVIOUS
  <2>5. \A a, j : <<a, j>> \in {<<bucket[i], i>> : i \in back \cap due} <=> j \in back /\ j \in due /\ a = bucket[j]
    OBVIOUS
  <2> HIDE DEF back, added
  <2>6. \A a \in Buckets, j \in Jobs :
            <<a, j>> \in pending' <=> state'[j] = "pending" /\ bucket'[j] = a
    BY <2>1, <2>2, <2>4, Zenon DEF SetInv
  <2>7. \A a \in Buckets, j \in Jobs :
            <<a, j>> \in ready' <=> state'[j] = "pending" /\ bucket'[j] = a /\ j \in due'
    BY <2>1, <2>2, <2>4, <2>5, Zenon DEF SetInv
  <2>8. /\ \A j \in Jobs : state'[j] = "claimed" => j \in claimed'
        /\ \A j \in claimed' : state'[j] = "claimed" \/ j \in reissued'
    BY <1>1, <2>1, <2>2, <2>3 DEF SetInv
  <2> QED
    BY <2>1, <2>6, <2>7, <2>8, Zenon DEF SetInv
<1>3. ASSUME NEW s \in Schedulers, Crash(s) PROVE SetInv'
  BY <1>3, SameSets, Zenon DEF Crash, hashVars, setVars
<1>4. ASSUME NEW e \in pending, BecomesDue(e) PROVE SetInv'
  <2>1. e[1] \in Buckets /\ e[2] \in Jobs /\ e = <<e[1], e[2]>>
    BY DEF TypeOK
  <2>2. state[e[2]] = "pending" /\ bucket[e[2]] = e[1]
    BY <2>1 DEF SetInv
  <2>3. ready' = ready \cup {e} /\ due' = due \cup {e[2]}
        /\ UNCHANGED <<state, bucket, partial, pending, claimed, reissued>>
    BY <1>4, <2>2 DEF BecomesDue
  <2>4. \A a \in Buckets, j \in Jobs : <<a, j>> \in ready' <=> <<a, j>> \in ready \/ (a = e[1] /\ j = e[2])
    BY <2>1, <2>3
  <2>5. \A a \in Buckets, j \in Jobs :
            <<a, j>> \in ready' <=> state'[j] = "pending" /\ bucket'[j] = a /\ j \in due'
    <3> TAKE a \in Buckets, j \in Jobs
    <3>1. CASE a = e[1] /\ j = e[2]
      BY <2>2, <2>3, <2>4, <3>1, Zenon DEF SetInv
    <3>2. CASE j # e[2]
      BY <2>3, <2>4, <3>2 DEF SetInv
    <3>3. CASE a # e[1] /\ j = e[2]
      BY <2>2, <2>3, <2>4, <3>3, Zenon DEF SetInv
    <3> QED
      BY <3>1, <3>2, <3>3
  <2> QED
    BY <2>3, <2>5 DEF SetInv
<1>5. ASSUME NEW j \in Jobs, LockExpires(j) PROVE SetInv'
  BY <1>5, SameSets DEF LockExpires, hashVars
<1> QED
  BY <1>2, <1>3, <1>4, <1>5

\* What was looked up stays right while live jobs keep their buckets.
LEMMA LookupKept ==
    ASSUME TypeOK, LookupInv,
           \A j \in Jobs : state[j] # "unsaved" => state'[j] # "unsaved" /\ bucket'[j] = bucket[j],
           \A c \in Out' : state'[c.job] # "unsaved",
           failing' \subseteq failing,
           \A k \in Clients : call'[k] = call[k] \/ call'[k] = NoCall
    PROVE  LookupInv'
<1>1. ASSUME NEW f \in failing' PROVE f[2] = bucket'[f[1].job]
  <2>1. f \in failing /\ f[1] \in held /\ f[1].job \in Jobs
    BY DEF TypeOK, Copy
  <2>2. state[f[1].job] # "unsaved"
    BY <2>1, Zenon DEF LookupInv, Out
  <2> QED
    BY <2>1, <2>2 DEF LookupInv
<1>2. ASSUME NEW k \in Clients, call'[k] # NoCall
      PROVE  call'[k].bucket = bucket'[call'[k].job] /\ state'[call'[k].job] # "unsaved"
  <2>1. call'[k] = call[k] /\ call[k] # NoCall /\ call[k] \in Calls
    BY <1>2 DEF TypeOK
  <2>2. call[k].job \in Jobs
    BY <2>1 DEF Calls
  <2> QED
    BY <2>1, <2>2 DEF LookupInv
<1> QED
  BY <1>1, <1>2, Zenon DEF LookupInv

\* The members of Out.
LEMMA OutMembers ==
    ASSUME TypeOK
    PROVE  /\ \A c \in Out : c \in Copy /\ c.job \in Jobs
           /\ held \subseteq Out
           /\ \A s \in Schedulers : reading[s].todo \subseteq Out /\ reading[s].got \subseteq Out
           /\ \A c \in Out : c \in held \/ \E s \in Schedulers : c \in reading[s].todo \cup reading[s].got
<1>1. /\ held \subseteq Out
      /\ \A s \in Schedulers : reading[s].todo \subseteq Out /\ reading[s].got \subseteq Out
      /\ \A c \in Out : c \in held \/ \E s \in Schedulers : c \in reading[s].todo \cup reading[s].got
  BY DEF Out
<1>2. \A c \in Out : c \in Copy
  BY <1>1 DEF TypeOK
<1> QED
  BY <1>1, <1>2 DEF Copy

\* Dropping or finishing claims adds no copy.
LEMMA OutShrinks ==
    ASSUME TypeOK, held' \subseteq held,
           \/ reading' = reading
           \/ \E s \in Schedulers : reading' = [reading EXCEPT ![s] = NotReading]
    PROVE  Out' \subseteq Out
<1>1. \A s \in Schedulers : /\ reading'[s].todo \subseteq reading[s].todo
                            /\ reading'[s].got \subseteq reading[s].got
  BY DEF TypeOK, NotReading
<1>2. \A s \in Schedulers : reading'[s].todo \cup reading'[s].got \subseteq reading[s].todo \cup reading[s].got
  BY <1>1
<1> QED
  BY <1>2 DEF Out

\* No script but Save gives a job a bucket, and none forgets that a job was saved.
LEMMA JobsStaySaved ==
    ASSUME TypeOK, state' \in [Jobs -> States], UNCHANGED bucket, held' \subseteq held,
           \/ reading' = reading
           \/ \E s \in Schedulers : reading' = [reading EXCEPT ![s] = NotReading],
           \A j \in Jobs : state'[j] = state[j] \/ state'[j] \in States \ {"unsaved"},
           LookupInv, failing' \subseteq failing,
           \A k \in Clients : call'[k] = call[k] \/ call'[k] = NoCall
    PROVE  LookupInv'
<1>1. \A j \in Jobs : state[j] # "unsaved" => state'[j] # "unsaved" /\ bucket'[j] = bucket[j]
  OBVIOUS
<1>2. \A c \in Out' : c \in Out /\ c.job \in Jobs
  BY OutShrinks, OutMembers
<1>3. \A c \in Out' : state'[c.job] # "unsaved"
  BY <1>1, <1>2, Zenon DEF LookupInv
<1> QED
  BY <1>1, <1>3, LookupKept

\* Every step keeps the looked-up buckets right.
LEMMA LookupSteps ==
    ASSUME TypeOK, TypeOK', SetInv, LookupInv, Moves = FALSE, Next
    PROVE  LookupInv'
<1>1. /\ state \in [Jobs -> States] /\ state' \in [Jobs -> States]
      /\ bucket \in [Jobs -> Buckets] /\ call \in [Clients -> Calls]
  BY DEF TypeOK
<1>2. ASSUME NEW j \in Jobs, NEW b \in Buckets, SaveNew(j, b) \/ SaveAgain(j, b) PROVE LookupInv'
  <2>1. /\ state' = [state EXCEPT ![j] = "pending"] /\ bucket' = [bucket EXCEPT ![j] = b]
        /\ UNCHANGED <<reading, failing, call, held>>
    BY <1>2 DEF SaveNew, SaveAgain, Save, callVars
  <2>2. state[j] = "unsaved" \/ b = bucket[j]
    BY <1>2 DEF SaveNew, SaveAgain
  <2>3. \A i \in Jobs : state[i] # "unsaved" => state'[i] # "unsaved" /\ bucket'[i] = bucket[i]
    BY <1>1, <2>1, <2>2
  <2>4. Out' = Out
    BY <2>1 DEF Out
  <2>5. \A c \in Out' : state'[c.job] # "unsaved"
    BY <2>3, <2>4, OutMembers DEF LookupInv
  <2> QED
    BY <2>1, <2>3, <2>5, LookupKept
<1>3. ASSUME NEW s \in Schedulers, NEW q \in Queues, NEW n \in 1..MaxBatch, NEW S \in SUBSET ready,
             ClaimScript(s, q, n, S)
      PROVE  LookupInv'
  <2>1. /\ state' = [j \in Jobs |-> IF j \in {e[2] : e \in S} THEN "claimed" ELSE state[j]]
        /\ reading' = [reading EXCEPT ![s].todo = {ClaimOf(s, e) : e \in S}]
        /\ UNCHANGED <<bucket, failing, call, held>>
    BY <1>3 DEF ClaimScript
  <2>2. \A i \in Jobs : state[i] # "unsaved" => state'[i] # "unsaved" /\ bucket'[i] = bucket[i]
    BY <2>1
  <2>3. \A e \in S : ClaimOf(s, e).job = e[2] /\ e[2] \in Jobs
    BY ReadyMembers DEF ClaimOf
  <2>4. ASSUME NEW c \in Out' PROVE c \in Out \/ \E e \in S : c = ClaimOf(s, e)
    <3>1. /\ reading'[s].todo = {ClaimOf(s, e) : e \in S} /\ reading'[s].got = reading[s].got
          /\ \A t \in Schedulers : t # s => reading'[t] = reading[t]
      BY <2>1 DEF TypeOK
    <3> QED
      BY <2>1, <3>1 DEF Out
  <2>5. \A c \in Out' : state'[c.job] # "unsaved"
    <3> SUFFICES ASSUME NEW c \in Out' PROVE state'[c.job] # "unsaved"
      OBVIOUS
    <3>1. CASE c \in Out
      BY <2>2, <3>1, OutMembers DEF LookupInv
    <3>2. CASE \E e \in S : c = ClaimOf(s, e)
      <4>1. PICK e \in S : c.job = e[2] /\ e[2] \in Jobs
        BY <2>3, <3>2
      <4> QED
        BY <2>1, <4>1
    <3> QED
      BY <2>4, <3>1, <3>2
  <2> QED
    BY <2>1, <2>2, <2>5, LookupKept
<1>4. ASSUME NEW s \in Schedulers, ReadFails(s) \/ Crash(s) PROVE LookupInv'
  <2>1. /\ UNCHANGED <<state, bucket, call>> /\ held' \subseteq held /\ failing' \subseteq failing
        /\ reading' = [reading EXCEPT ![s] = NotReading]
    BY <1>4 DEF ReadFails, Crash, hashVars
  <2> QED
    BY <1>1, <2>1, JobsStaySaved, Zenon
<1>5. ASSUME NEW s \in Schedulers, NEW c \in reading[s].todo, ReadHash(s, c) PROVE LookupInv'
  <2> DEFINE copy == [c EXCEPT !.attempt = attempt[c.job], !.blank = ~Whole(c.job)]
             got == reading[s].got \cup {copy}
             todo == reading[s].todo \ {c}
  <2>1. \/ reading' = [reading EXCEPT ![s] = NotReading] /\ held' = held \cup got
        \/ reading' = [reading EXCEPT ![s] = [todo |-> todo, got |-> got]] /\ held' = held
    BY <1>5, Zenon DEF ReadHash
  <2>2. UNCHANGED <<state, bucket, failing, call>>
    BY <1>5 DEF ReadHash, hashVars
  <2>3. copy.job = c.job
    BY DEF TypeOK, Copy
  <2>4. \A d \in got : d \in reading[s].got \/ d.job = c.job
    BY <2>3, Zenon
  <2>5. todo \subseteq reading[s].todo
    OBVIOUS
  <2> HIDE DEF copy, got, todo
  <2>6. ASSUME NEW d \in Out' PROVE d \in Out \/ d.job = c.job
    <3>1. \A t \in Schedulers : t # s => reading'[t] = reading[t]
      BY <2>1, Zenon DEF TypeOK
    <3>2. reading'[s].todo \subseteq reading[s].todo /\ reading'[s].got \subseteq got
          /\ held' \subseteq held \cup got
      BY <2>1, <2>5 DEF TypeOK, NotReading
    <3>3. d \in held' \/ \E t \in Schedulers : d \in reading'[t].todo \cup reading'[t].got
      BY DEF Out
    <3>4. d \in held \/ d \in got \/ \E t \in Schedulers : d \in reading[t].todo \cup reading[t].got
      BY <3>1, <3>2, <3>3
    <3> QED
      BY <2>4, <3>4, OutMembers, Zenon DEF Out
  <2>7. c \in Out
    BY OutMembers
  <2>8. \A d \in Out' : state'[d.job] # "unsaved"
    BY <2>2, <2>6, <2>7 DEF LookupInv
  <2> QED
    BY <2>2, <2>8, LookupKept
<1>6. ASSUME NEW c \in held, AckScript(c) PROVE LookupInv'
  <2>1. UNCHANGED <<bucket, reading, failing, call>> /\ held' \subseteq held
    BY <1>6 DEF AckScript
  <2>2. c.job \in Jobs
    BY DEF TypeOK, Copy
  <2>3. \A j \in Jobs : state'[j] = state[j] \/ state'[j] \in States \ {"unsaved"}
    BY <1>1, <1>6, <2>2, Zenon DEF AckScript, States, Terminal
  <2> QED
    BY <1>1, <2>1, <2>3, JobsStaySaved
<1>7. ASSUME NEW c \in held, FailLookup(c) PROVE LookupInv'
  <2>1. UNCHANGED <<state, bucket, reading, call>> /\ held' \subseteq held
    BY <1>7 DEF FailLookup, hashVars
  <2>2. \A d \in Out' : d \in Out
    BY <2>1, OutShrinks
  <2>3. \A f \in failing' : f \in failing \/ f = <<c, bucket[c.job]>>
    BY <1>7 DEF FailLookup
  <2>4. \A f \in failing' : f[2] = bucket'[f[1].job]
    BY <2>1, <2>3 DEF LookupInv
  <2> QED
    BY <2>1, <2>2, <2>4 DEF LookupInv
<1>8. ASSUME NEW c \in held, NEW b \in Buckets, FailScript(c, b) PROVE LookupInv'
  <2>1. UNCHANGED <<bucket, reading, call>> /\ held' \subseteq held /\ failing' \subseteq failing
    BY <1>8 DEF FailScript
  <2>2. c.job \in Jobs
    BY DEF TypeOK, Copy
  <2>3. \A j \in Jobs : state'[j] = state[j] \/ state'[j] \in States \ {"unsaved"}
    BY <1>1, <1>8, <2>2 DEF FailScript, States, Terminal
  <2> QED
    BY <1>1, <2>1, <2>3, JobsStaySaved
<1>9. ASSUME NEW k \in Clients, CancelScript(k) \/ RescheduleScript(k) PROVE LookupInv'
  <2>1. UNCHANGED <<bucket, reading, failing, held>> /\ call' = [call EXCEPT ![k] = NoCall]
    BY <1>9, Zenon DEF CancelScript, RescheduleScript
  <2>2. \A j \in Jobs : state'[j] = state[j] \/ state'[j] \in States \ {"unsaved"}
    BY <1>1, <1>9, Zenon DEF CancelScript, RescheduleScript, States, Terminal
  <2>3. \A x \in Clients : call'[x] = call[x] \/ call'[x] = NoCall
    BY <1>1, <2>1
  <2> QED
    BY <1>1, <2>1, <2>2, <2>3, JobsStaySaved
<1>10. ASSUME NEW k \in Clients, NEW op \in {"cancel", "reschedule"}, NEW j \in Jobs, Lookup(k, op, j)
       PROVE  LookupInv'
  <2>1. /\ UNCHANGED <<state, bucket, reading, failing, held>> /\ state[j] # "unsaved"
        /\ call' = [call EXCEPT ![k] = [op |-> op, job |-> j, bucket |-> bucket[j]]]
    BY <1>10 DEF Lookup, Whole, Exists, hashVars
  <2>2. Out' = Out
    BY <2>1 DEF Out
  <2>3. \A x \in Clients : call'[x] # NoCall =>
            call'[x].bucket = bucket[call'[x].job] /\ state[call'[x].job] # "unsaved"
    BY <1>1, <2>1, Zenon DEF LookupInv
  <2> QED
    BY <2>1, <2>2, <2>3 DEF LookupInv
<1>11. ASSUME RecoverStale \/ (\E e \in pending : BecomesDue(e)) \/ (\E j \in Jobs : LockExpires(j))
       PROVE  LookupInv'
  <2>1. UNCHANGED <<bucket, reading, failing, call, held>>
    BY <1>11, Zenon DEF RecoverStale, BecomesDue, LockExpires, hashVars, callVars
  <2>2. \A j \in Jobs : state'[j] = state[j] \/ state'[j] \in States \ {"unsaved"}
    BY <1>11, Zenon DEF RecoverStale, BecomesDue, LockExpires, hashVars, States
  <2> QED
    BY <1>1, <2>1, <2>2, JobsStaySaved
<1> QED
  BY <1>2, <1>3, <1>4, <1>5, <1>6, <1>7, <1>8, <1>9, <1>10, <1>11 DEF Next

\* The store invariant is kept by every step.
LEMMA StoreSteps == ASSUME Moves = FALSE, StoreInv, [Next]_vars PROVE StoreInv'
<1>1. TypeOK /\ SetInv /\ LookupInv
  BY DEF StoreInv
<1>2. CASE UNCHANGED vars
  <2>1. UNCHANGED <<state, attempt, bucket, due, partial, pending, ready, claimed, expired>>
        /\ UNCHANGED <<reading, failing, call, held, claims, reissued, disruptions>>
    BY <1>2 DEF vars, hashVars, setVars, callVars
  <2>2. TypeOK'
    BY <1>1, <2>1 DEF TypeOK
  <2>3. SetInv' /\ LookupInv'
    BY <1>1, <2>1 DEF SetInv, LookupInv, Out
  <2> QED
    BY <2>2, <2>3 DEF StoreInv
<1>3. CASE Next
  <2>1. TypeOK' /\ SetInv'
    <3>1. ASSUME NEW j \in Jobs, NEW b \in Buckets, SaveNew(j, b) \/ SaveAgain(j, b)
          PROVE  TypeOK' /\ SetInv'
      BY <1>1, <3>1, SaveTypes, SaveSets, Zenon
    <3>2. ASSUME NEW s \in Schedulers, NEW q \in Queues, NEW n \in 1..MaxBatch, NEW S \in SUBSET ready,
                 ClaimScript(s, q, n, S)
          PROVE  TypeOK' /\ SetInv'
      BY <1>1, <3>2, ClaimTypes, ClaimSets
    <3>3. ASSUME NEW s \in Schedulers, ReadFails(s) \/ \E c \in reading[s].todo : ReadHash(s, c)
          PROVE  TypeOK' /\ SetInv'
      <4>1. TypeOK'
        BY <1>1, <3>3, ReadTypes
      <4>2. UNCHANGED <<state, bucket, due, partial, pending, ready, claimed, reissued>>
        BY <3>3, Zenon DEF ReadFails, ReadHash, hashVars, setVars
      <4> QED
        BY <1>1, <4>1, <4>2, SameSets
    <3>4. ASSUME NEW c \in held, NEW b \in Buckets, AckScript(c) \/ FailLookup(c) \/ FailScript(c, b)
          PROVE  TypeOK' /\ SetInv'
      BY <1>1, <3>4, FinishTypes, FinishSets
    <3>5. ASSUME NEW k \in Clients,
                 \/ CancelScript(k) \/ RescheduleScript(k)
                 \/ \E op \in {"cancel", "reschedule"}, j \in Jobs : Lookup(k, op, j)
          PROVE  TypeOK' /\ SetInv'
      BY <1>1, <3>5, ClientTypes, ClientSets
    <3>6. ASSUME \/ RecoverStale \/ (\E s \in Schedulers : Crash(s))
                 \/ (\E e \in pending : BecomesDue(e)) \/ (\E j \in Jobs : LockExpires(j))
          PROVE  TypeOK' /\ SetInv'
      BY <1>1, <3>6, OtherTypes, OtherSets
    <3>7. \E b : b \in Buckets
      <4>1. PICK q \in Queues, p \in Priorities : TRUE
        BY BucketsAssumption, Zenon
      <4>2. <<q, p>> \in Buckets
        BY DEF Buckets
      <4> QED
        BY <4>2
    <3> QED
      BY <1>3, <3>1, <3>2, <3>3, <3>4, <3>5, <3>6, <3>7, Zenon DEF Next
  <2> QED
    BY <1>1, <1>3, <2>1, LookupSteps, Zenon DEF StoreInv
<1> QED
  BY <1>2, <1>3

\* Initially nothing is stored.
LEMMA StoreInit == Init => StoreInv
<1> SUFFICES ASSUME Init PROVE StoreInv
  OBVIOUS
<1>1. SetInv
  BY DEF Init, SetInv
<1>2. Out = {}
  BY DEF Init, Out, NotReading
<1>3. LookupInv
  BY <1>2 DEF Init, LookupInv
<1> QED
  BY <1>1, <1>3, InitTypes DEF StoreInv

\* Hashes and sorted sets never disagree, whatever scripts and lookups of
\* concurrent calls come in between: no job is lost and none is in two sets.
THEOREM SetsAgree == Moves = FALSE => (Spec => []SetsMatchHashes)
<1> SUFFICES ASSUME Moves = FALSE PROVE Spec => []SetsMatchHashes
  BY Zenon
<1>1. StoreInv /\ [Next]_vars => StoreInv'
  BY StoreSteps, Zenon
<1>2. StoreInv => SetsMatchHashes
  BY SetsMatch DEF StoreInv
<1> QED
  BY <1>1, <1>2, StoreInit, PTL DEF Spec
=============================================================================
