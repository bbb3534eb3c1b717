--------------------------- MODULE RedisContract ---------------------------
(***************************************************************************)
(* What the Redis store promises its callers. It implements the job table: *)
(* every script is one call of JobTable, and every other round trip leaves *)
(* the table as it is. And until a claimed job is taken back or saved anew *)
(* ClaimDue hands out one copy of it, the claimed hash.                    *)
(***************************************************************************)
EXTENDS RedisProofs

(* The job table. *)

\* The jobs the table calls stale: claimed, with a lock that has run out.
Stale == {j \in expired : state[j] = "claimed"}

\* What a step does to the variables of the table.
SameTable == UNCHANGED <<state, attempt, due>> /\ Stale' = Stale

TableStep == Table!TableNext \/ SameTable

\* The calls of the table, over the variables of the store.
LEMMA TableCalls ==
    /\ \A j \in Jobs :
           /\ state[j] \notin Terminal
           /\ state' = [state EXCEPT ![j] = "pending"] /\ attempt' = [attempt EXCEPT ![j] = 0]
           /\ due' \in {due \cup {j}, due \ {j}} /\ Stale' = Stale \ {j}
           => Table!TableNext
    /\ \A j \in Jobs :
           /\ state[j] = "claimed" /\ state' = [state EXCEPT ![j] = "succeeded"]
           /\ due' = due \ {j} /\ Stale' = Stale \ {j} /\ attempt' = attempt
           => Table!TableNext
    /\ \A j \in Jobs :
           /\ state[j] = "claimed" /\ attempt' = [attempt EXCEPT ![j] = @ + 1]
           /\ Stale' = Stale \ {j}
           /\ IF StoredMax(j) > 0 /\ attempt[j] + 1 >= StoredMax(j)
                THEN state' = [state EXCEPT ![j] = "failed"] /\ due' = due \ {j}
                ELSE /\ state' = [state EXCEPT ![j] = "pending"]
                     /\ due' \in {due \cup {j}, due \ {j}}
           => Table!TableNext
    /\ \A j \in Jobs :
           /\ state[j] = "pending" /\ state' = [state EXCEPT ![j] = "cancelled"]
           /\ due' = due \ {j} /\ Stale' = Stale /\ attempt' = attempt
           => Table!TableNext
    /\ \A j \in Jobs :
           /\ state[j] = "pending" /\ due' \in {due \cup {j}, due \ {j}}
           /\ Stale' = Stale /\ UNCHANGED <<state, attempt>>
           => Table!TableNext
  BY DEF Table!TableNext, Table!Save, Table!Ack, Table!Fail, Table!Cancel, Table!Reschedule,
         Table!Exhausts, Table!StoredMax, Table!Terminal, Table!tableVars, StoredMax, Terminal, Stale

\* The calls that touch many rows, and time.
LEMMA TableSetCalls ==
    /\ \A S \in SUBSET Jobs :
           /\ \A j \in S : j \in due /\ state[j] = "pending"
           /\ state' = [j \in Jobs |-> IF j \in S THEN "claimed" ELSE state[j]]
           /\ Stale' = Stale \ S /\ UNCHANGED <<attempt, due>>
           => Table!TableNext
    /\ /\ Stale # {} /\ Stale' = {} /\ UNCHANGED <<attempt, due>>
       /\ state' = [j \in Jobs |-> IF j \in Stale THEN "pending" ELSE state[j]]
       => Table!TableNext
    /\ \A D, E \in SUBSET Jobs :
           /\ \A j \in D : state[j] = "pending"
           /\ \A j \in E : state[j] = "claimed"
           /\ due' = due \cup D /\ Stale' = Stale \cup E /\ UNCHANGED <<state, attempt>>
           => Table!TableNext
<1>1. ASSUME NEW S \in SUBSET Jobs,
             \A j \in S : j \in due /\ state[j] = "pending",
             state' = [j \in Jobs |-> IF j \in S THEN "claimed" ELSE state[j]],
             Stale' = Stale \ S, UNCHANGED <<attempt, due>>
      PROVE  Table!TableNext
  <2>1. Table!ClaimDue("any", S)
    BY <1>1 DEF Table!ClaimDue, Table!DueIn, Stale
  <2> QED
    BY <2>1 DEF Table!TableNext
<1>2. ASSUME Stale # {}, Stale' = {}, UNCHANGED <<attempt, due>>,
             state' = [j \in Jobs |-> IF j \in Stale THEN "pending" ELSE state[j]]
      PROVE  Table!TableNext
  <2>1. Table!StaleClaims = Stale
    BY DEF Table!StaleClaims, Stale
  <2>2. Table!RecoverStale
    BY <1>2, <2>1 DEF Table!RecoverStale, Stale
  <2> QED
    BY <2>2 DEF Table!TableNext
<1>3. ASSUME NEW D \in SUBSET Jobs, NEW E \in SUBSET Jobs,
             \A j \in D : state[j] = "pending", \A j \in E : state[j] = "claimed",
             due' = due \cup D, Stale' = Stale \cup E, UNCHANGED <<state, attempt>>
      PROVE  Table!TableNext
  <2>1. Table!TimePasses(D, E)
    BY <1>3 DEF Table!TimePasses, Stale
  <2> QED
    BY <2>1 DEF Table!TableNext
<1> QED
  BY <1>1, <1>2, <1>3
-----------------------------------------------------------------------------
(* The steps. *)

\* Saving a job, new or again, is the table's Save.
LEMMA SaveMaps ==
    ASSUME StoreInv, NEW j \in Jobs, NEW b \in Buckets, SaveNew(j, b) \/ SaveAgain(j, b)
    PROVE  TableStep
<1>1. TypeOK
  BY DEF StoreInv
<1>2. state[j] \notin Terminal
  BY DEF SaveNew, SaveAgain, Exists, Terminal
<1>3. Save(j, b) /\ expired' = expired
  BY DEF SaveNew, SaveAgain, Save
<1>4. due' \in {due \cup {j}, due \ {j}}
  BY <1>3 DEF Save, Schedule
<1>5. Stale' = Stale \ {j}
  BY <1>1, <1>3 DEF Save, Stale, TypeOK
<1> QED
  BY <1>2, <1>3, <1>4, <1>5, TableCalls, Zenon DEF Save, TableStep

\* A claim script takes pending jobs that are due, as ClaimDue of the table does.
LEMMA ClaimMaps ==
    ASSUME StoreInv, NEW s \in Schedulers, NEW q \in Queues, NEW n \in 1..MaxBatch,
           NEW S \in SUBSET ready, ClaimScript(s, q, n, S)
    PROVE  TableStep
<1> DEFINE taken == {e[2] : e \in S}
<1>1. TypeOK /\ SetInv
  BY DEF StoreInv
<1>2. taken \in SUBSET Jobs /\ \A j \in taken : j \in due /\ state[j] = "pending"
  BY <1>1, ReadyMembers
<1>3. /\ state' = [j \in Jobs |-> IF j \in taken THEN "claimed" ELSE state[j]]
      /\ expired' = expired \ taken /\ UNCHANGED <<attempt, due>>
  BY DEF ClaimScript
<1> HIDE DEF taken
<1>4. Stale' = Stale \ taken
  BY <1>1, <1>2, <1>3 DEF Stale, TypeOK
<1> QED
  BY <1>2, <1>3, <1>4, TableSetCalls DEF TableStep

\* The two scripts that finish a copy are Ack and Fail of the table, or change nothing.
LEMMA FinishMaps ==
    ASSUME StoreInv, NEW c \in held, NEW b \in Buckets, AckScript(c) \/ FailScript(c, b)
    PROVE  TableStep
<1> DEFINE j == c.job
<1>1. TypeOK /\ SetInv
  BY DEF StoreInv
<1>2. j \in Jobs
  BY <1>1 DEF TypeOK, Copy
<1>3. CASE state[j] # "claimed"
  <2>1. UNCHANGED <<state, attempt, due, expired>>
    BY <1>3, Zenon DEF AckScript, FailScript, setVars
  <2> QED
    BY <2>1 DEF TableStep, SameTable, Stale
<1>4. CASE state[j] = "claimed" /\ AckScript(c)
  <2>1. /\ state' = [state EXCEPT ![j] = "succeeded"] /\ due' = due \ {j}
        /\ expired' = expired \ {j} /\ attempt' = attempt
    BY <1>4, Zenon DEF AckScript
  <2> HIDE DEF j
  <2>2. Stale' = Stale \ {j}
    BY <1>1, <1>2, <2>1 DEF Stale, TypeOK
  <2> QED
    BY <1>2, <1>4, <2>1, <2>2, TableCalls, Zenon DEF TableStep
<1>5. CASE state[j] = "claimed" /\ FailScript(c, b)
  <2>1. /\ attempt' = [attempt EXCEPT ![j] = @ + 1] /\ expired' = expired \ {j}
        /\ IF Exhausts(j)
             THEN state' = [state EXCEPT ![j] = "failed"] /\ due' = due \ {j}
             ELSE state' = [state EXCEPT ![j] = "pending"] /\ due' \in {due \cup {j}, due \ {j}}
    BY <1>5, Zenon DEF FailScript, Schedule
  <2> HIDE DEF j
  <2>2. Stale' = Stale \ {j}
    BY <1>1, <1>2, <2>1 DEF Stale, TypeOK
  <2>3. Exhausts(j) <=> StoredMax(j) > 0 /\ attempt[j] + 1 >= StoredMax(j)
    BY <1>1 DEF Exhausts, SetInv
  <2> QED
    BY <1>2, <1>5, <2>1, <2>2, <2>3, TableCalls, Zenon DEF TableStep
<1> QED
  BY <1>3, <1>4, <1>5

\* The scripts of a client are Cancel and Reschedule of the table, or change nothing.
LEMMA ClientMaps ==
    ASSUME StoreInv, NEW k \in Clients, CancelScript(k) \/ RescheduleScript(k)
    PROVE  TableStep
<1> DEFINE j == call[k].job
<1>1. TypeOK
  BY DEF StoreInv
<1>2. call[k] # NoCall
  <2>1. call[k].op = "cancel" \/ call[k].op = "reschedule"
    BY Zenon DEF CancelScript, RescheduleScript
  <2> QED
    BY <2>1 DEF NoCall
<1>3. j \in Jobs
  BY <1>1, <1>2 DEF TypeOK, Calls
<1>4. UNCHANGED <<attempt, expired>>
  BY Zenon DEF CancelScript, RescheduleScript
<1>5. CASE state[j] # "pending"
  <2>1. UNCHANGED <<state, due>>
    BY <1>5, Zenon DEF CancelScript, RescheduleScript
  <2> QED
    BY <1>4, <2>1 DEF TableStep, SameTable, Stale
<1>6. CASE state[j] = "pending" /\ CancelScript(k)
  <2>1. state' = [state EXCEPT ![j] = "cancelled"] /\ due' = due \ {j}
    BY <1>6, Zenon DEF CancelScript
  <2> HIDE DEF j
  <2>2. Stale' = Stale
    BY <1>1, <1>3, <1>4, <1>6, <2>1 DEF Stale, TypeOK
  <2> QED
    BY <1>3, <1>4, <1>6, <2>1, <2>2, TableCalls, Zenon DEF TableStep
<1>7. CASE state[j] = "pending" /\ RescheduleScript(k)
  <2>1. UNCHANGED state /\ due' \in {due \cup {j}, due \ {j}}
    BY <1>7, Zenon DEF RescheduleScript, Schedule
  <2> HIDE DEF j
  <2>2. Stale' = Stale
    BY <1>4, <2>1 DEF Stale
  <2> QED
    BY <1>3, <1>4, <1>7, <2>1, <2>2, TableCalls DEF TableStep
<1> QED
  BY <1>5, <1>6, <1>7

\* Recovery is the table's, or finds only identifiers that are pending again.
LEMMA RecoverMaps == ASSUME StoreInv, RecoverStale PROVE TableStep
<1>1. TypeOK /\ SetInv
  BY DEF StoreInv
<1>2. expired' = {} /\ UNCHANGED <<attempt, due>>
  BY DEF RecoverStale
<1>3. Stale' = {}
  BY <1>2 DEF Stale
<1>4. state' = [j \in Jobs |-> IF j \in Stale THEN "pending" ELSE state[j]]
  <2>1. state' = [j \in Jobs |-> IF j \in expired /\ Whole(j) THEN "pending" ELSE state[j]]
    BY DEF RecoverStale
  <2>2. \A j \in Jobs : (IF j \in expired /\ Whole(j) THEN "pending" ELSE state[j])
                          = IF j \in Stale THEN "pending" ELSE state[j]
    BY <1>1 DEF Whole, Exists, SetInv, Stale
  <2> QED
    BY <2>1, <2>2
<1>5. CASE Stale = {}
  <2>1. state' = state
    BY <1>1, <1>4, <1>5 DEF TypeOK
  <2> QED
    BY <1>2, <1>3, <1>5, <2>1 DEF TableStep, SameTable
<1>6. CASE Stale # {}
  BY <1>2, <1>3, <1>4, <1>6, TableSetCalls DEF TableStep
<1> QED
  BY <1>5, <1>6

\* A score or a lock that is reached is time passing in the table.
LEMMA TimeMaps ==
    ASSUME StoreInv, (\E e \in pending : BecomesDue(e)) \/ (\E j \in Jobs : LockExpires(j))
    PROVE  TableStep
<1>1. TypeOK /\ SetInv
  BY DEF StoreInv
<1>2. ASSUME NEW e \in pending, BecomesDue(e) PROVE TableStep
  <2>1. e[2] \in Jobs /\ e[1] \in Buckets /\ e = <<e[1], e[2]>>
    BY <1>1 DEF TypeOK
  <2>2. state[e[2]] = "pending" /\ bucket[e[2]] = e[1]
    BY <1>1, <2>1 DEF SetInv
  <2>3. due' = due \cup {e[2]} /\ UNCHANGED <<state, attempt, expired>>
    BY <1>2, <2>2 DEF BecomesDue
  <2>4. Stale' = Stale \cup {}
    BY <2>3 DEF Stale
  <2>5. {e[2]} \in SUBSET Jobs /\ {} \in SUBSET Jobs
    BY <2>1
  <2> QED
    BY <2>2, <2>3, <2>4, <2>5, TableSetCalls, Zenon DEF TableStep
<1>3. ASSUME NEW j \in Jobs, LockExpires(j) PROVE TableStep
  <2>1. expired' = expired \cup {j} /\ UNCHANGED <<state, attempt, due>>
    BY <1>3 DEF LockExpires, hashVars
  <2>2. CASE state[j] = "claimed"
    <3>1. Stale' = Stale \cup {j} /\ due' = due \cup {}
      BY <2>1, <2>2 DEF Stale
    <3>2. {j} \in SUBSET Jobs /\ {} \in SUBSET Jobs
      OBVIOUS
    <3> QED
      BY <2>1, <2>2, <3>1, <3>2, TableSetCalls, Zenon DEF TableStep
  <2>3. CASE state[j] # "claimed"
    <3>1. Stale' = Stale
      BY <2>1, <2>3 DEF Stale
    <3> QED
      BY <2>1, <3>1 DEF TableStep, SameTable
  <2> QED
    BY <2>2, <2>3
<1> QED
  BY <1>2, <1>3

\* Every step of the store is a step of the table, or leaves the table as it is.
LEMMA StepsMap == ASSUME StoreInv, [Next]_vars PROVE TableStep
<1>1. ASSUME UNCHANGED <<hashVars, setVars>> PROVE TableStep
  BY <1>1 DEF hashVars, setVars, TableStep, SameTable, Stale
<1>2. CASE UNCHANGED vars
  BY <1>1, <1>2 DEF vars
<1>3. ASSUME NEW s \in Schedulers, ReadFails(s) \/ Crash(s) \/ \E c \in reading[s].todo : ReadHash(s, c)
      PROVE  TableStep
  BY <1>1, <1>3, Zenon DEF ReadFails, Crash, ReadHash
<1>4. ASSUME NEW c \in held, AckScript(c) \/ FailLookup(c) \/ \E b \in Buckets : FailScript(c, b)
      PROVE  TableStep
  <2>1. CASE FailLookup(c)
    BY <1>1, <2>1 DEF FailLookup
  <2>2. CASE AckScript(c)
    <3>1. TypeOK
      BY DEF StoreInv
    <3>2. PICK b \in Buckets : TRUE
      BY <3>1 DEF TypeOK, Copy
    <3> QED
      BY <2>2, <3>2, FinishMaps
  <2> QED
    BY <1>4, <2>1, <2>2, FinishMaps
<1>5. ASSUME NEW k \in Clients, NEW op \in {"cancel", "reschedule"}, NEW j \in Jobs, Lookup(k, op, j)
      PROVE  TableStep
  BY <1>1, <1>5 DEF Lookup
<1> QED
  BY <1>2, <1>3, <1>4, <1>5, SaveMaps, ClaimMaps, ClientMaps, RecoverMaps, TimeMaps DEF Next

\* For every instance in which no live job changes its bucket, the Redis store
\* implements the job table.
THEOREM RedisImplementsTable == Moves = FALSE => (Spec => ImplementsJobTable)
<1> SUFFICES ASSUME Moves = FALSE PROVE Spec => ImplementsJobTable
  BY Zenon
<1>1. Init => Table!TableInit
  BY DEF Init, Table!TableInit
<1>2. StoreInv /\ [Next]_vars => [Table!TableNext]_(Table!tableVars)
  BY StepsMap DEF TableStep, SameTable, Table!tableVars, Stale
<1>3. StoreInv /\ [Next]_vars => StoreInv'
  BY StoreSteps, Zenon
<1> QED
  BY <1>1, <1>2, <1>3, StoreInit, PTL DEF Spec, ImplementsJobTable, Table!TableSpec
-----------------------------------------------------------------------------
(* Copies. *)

\* A scheduler reads back its own claims.
OwnReads ==
    \A s \in Schedulers : \A c \in reading[s].todo \cup reading[s].got : c.by = s

\* A copy is in one stage: to be read, read, or handed out.
OneStage ==
    \A s \in Schedulers :
        /\ \A c \in reading[s].todo \cup reading[s].got, d \in held : c.job = d.job => c.job \in reissued
        /\ \A c \in reading[s].todo, d \in reading[s].got : c.job = d.job => c.job \in reissued

OneCopy == \A c, d \in Out : c.job = d.job /\ c.job \notin reissued => c = d

StillClaimed == \A c \in Out : c.job \notin reissued => state[c.job] = "claimed"

\* Copies whose hash has been read.
Read == held \cup UNION {reading[s].got : s \in Schedulers}

ReadRight == \A c \in Read : c.job \notin reissued => ~c.blank /\ c.attempt = attempt[c.job]

CopyInv == OwnReads /\ OneStage /\ OneCopy /\ StillClaimed /\ ReadRight

\* The properties of RedisStore follow.
LEMMA CopiesMatch == TypeOK /\ CopyInv => ClaimsAreDisjoint /\ CopiesAreCurrent
<1> SUFFICES ASSUME TypeOK, CopyInv PROVE ClaimsAreDisjoint /\ CopiesAreCurrent
  OBVIOUS
<1>1. ClaimsAreDisjoint
  BY DEF CopyInv, OneCopy, Out, ClaimsAreDisjoint
<1>2. \A c \in Read : c \in Out
  BY DEF Read, Out
<1>3. CopiesAreCurrent
  BY <1>2 DEF CopyInv, ReadRight, StillClaimed, Read, CopiesAreCurrent
<1> QED
  BY <1>1, <1>3

\* Steps that hand out nothing keep the invariant, if what they do to a job that
\* still has a copy leaves it claimed and its attempt as it is.
LEMMA FewerCopies ==
    ASSUME TypeOK, CopyInv, reissued \subseteq reissued', held' \subseteq held,
           \A s \in Schedulers : /\ reading'[s].todo \subseteq reading[s].todo
                                 /\ reading'[s].got \subseteq reading[s].got,
           \A c \in Out' : c \in Out /\ c.job \notin reissued' =>
               state'[c.job] = state[c.job] /\ attempt'[c.job] = attempt[c.job]
    PROVE  CopyInv'
<1>1. Out' \subseteq Out /\ Read' \subseteq Read
  <2>1. \A s \in Schedulers : reading'[s].todo \cup reading'[s].got \subseteq reading[s].todo \cup reading[s].got
    OBVIOUS
  <2>2. Out' \subseteq Out
    BY <2>1 DEF Out
  <2>3. Read' \subseteq Read
    BY DEF Read
  <2> QED
    BY <2>2, <2>3
<1>2. Read' \subseteq Out'
  BY DEF Read, Out
<1>3. OwnReads' /\ OneStage'
  BY DEF CopyInv, OwnReads, OneStage
<1>4. OneCopy'
  BY <1>1 DEF CopyInv, OneCopy
<1>5. StillClaimed'
  BY <1>1 DEF CopyInv, StillClaimed
<1>6. ReadRight'
  BY <1>1, <1>2 DEF CopyInv, ReadRight
<1> QED
  BY <1>3, <1>4, <1>5, <1>6 DEF CopyInv

\* Finishing a copy leaves no other copy of a job that was not reissued.
LEMMA LastCopy ==
    ASSUME TypeOK, CopyInv, NEW c \in held, held' = held \ {c}, UNCHANGED <<reading, reissued>>
    PROVE  \A d \in Out' : d \in Out /\ (d.job = c.job => d.job \in reissued)
<1> SUFFICES ASSUME NEW d \in Out' PROVE d \in Out /\ (d.job = c.job => d.job \in reissued)
  OBVIOUS
<1>1. c \in Out /\ d \in Out
  BY DEF Out
<1>2. CASE d \in held'
  BY <1>1, <1>2 DEF CopyInv, OneCopy
<1>3. CASE \E s \in Schedulers : d \in reading[s].todo \cup reading[s].got
  BY <1>1, <1>3 DEF CopyInv, OneStage
<1> QED
  BY <1>1, <1>2, <1>3 DEF Out

\* New claims are of pending jobs, which have no current copy.
LEMMA ClaimCopies ==
    ASSUME StoreInv, CopyInv, NEW s \in Schedulers, NEW q, NEW n, NEW S \in SUBSET ready,
           ClaimScript(s, q, n, S)
    PROVE  CopyInv'
<1> DEFINE new == {ClaimOf(s, e) : e \in S}
           taken == {e[2] : e \in S}
<1>1. TypeOK /\ SetInv
  BY DEF StoreInv
<1>2. /\ reading[s] = NotReading /\ reading' = [reading EXCEPT ![s].todo = new]
      /\ state' = [j \in Jobs |-> IF j \in taken THEN "claimed" ELSE state[j]]
      /\ UNCHANGED <<attempt, held, reissued>>
  BY DEF ClaimScript
<1>3. \A c \in new : c.by = s /\ c.job \in taken
  <2>1. \A e \in S : ClaimOf(s, e).by = s /\ ClaimOf(s, e).job = e[2]
    BY DEF ClaimOf
  <2> QED
    BY <2>1
<1>4. \A j \in taken : j \in Jobs /\ state[j] = "pending"
  BY <1>1, ReadyMembers
<1>5. \A c, d \in new : c.job = d.job => c = d
  <2>1. \A e, f \in S : e[2] = f[2] => e = f
    BY <1>1, ReadyMembers
  <2>2. \A e \in S : ClaimOf(s, e).job = e[2]
    BY DEF ClaimOf
  <2> QED
    BY <2>1, <2>2
<1> HIDE DEF new, taken
<1>6. /\ reading'[s].todo = new /\ reading'[s].got = {}
      /\ reading[s].todo = {} /\ reading[s].got = {}
      /\ \A t \in Schedulers : t # s => reading'[t] = reading[t]
  BY <1>1, <1>2 DEF TypeOK, NotReading
<1>7. Out' \subseteq Out \cup new
  BY <1>2, <1>6 DEF Out
<1>8. Read' = Read
  <2>1. \A t \in Schedulers : reading'[t].got = reading[t].got
    BY <1>6, Zenon
  <2> QED
    BY <1>2, <2>1 DEF Read
<1>9. \A c \in Out : c.job \in taken => c.job \in reissued
  BY <1>4 DEF CopyInv, StillClaimed
<1>10. OwnReads'
  BY <1>3, <1>6 DEF CopyInv, OwnReads
<1>11. OneStage'
  <2>1. \A c \in new, d \in held : c.job = d.job => c.job \in reissued
    BY <1>3, <1>9 DEF Out
  <2> QED
    BY <1>2, <1>6, <2>1 DEF CopyInv, OneStage
<1>12. OneCopy'
  <2> SUFFICES ASSUME NEW c \in Out', NEW d \in Out', c.job = d.job, c.job \notin reissued PROVE c = d
    BY <1>2 DEF OneCopy
  <2>1. c \in Out \cup new /\ d \in Out \cup new
    BY <1>7
  <2> QED
    BY <1>3, <1>5, <1>9, <2>1 DEF CopyInv, OneCopy
<1>13. StillClaimed'
  <2>1. \A c \in Out : c.job \in Jobs
    BY <1>1, OutMembers
  <2>2. \A c \in new : state'[c.job] = "claimed"
    BY <1>2, <1>3, <1>4
  <2>3. \A c \in Out : c.job \notin reissued => state'[c.job] = "claimed"
    BY <1>2, <2>1 DEF CopyInv, StillClaimed
  <2> QED
    BY <1>2, <1>7, <2>2, <2>3 DEF StillClaimed
<1>14. ReadRight'
  BY <1>2, <1>8 DEF CopyInv, ReadRight
<1> QED
  BY <1>10, <1>11, <1>12, <1>13, <1>14 DEF CopyInv

\* A copy that is read back takes the place of the claim that was to be read.
LEMMA ReadCopies ==
    ASSUME StoreInv, CopyInv, NEW s \in Schedulers, NEW c \in reading[s].todo, ReadHash(s, c)
    PROVE  CopyInv'
<1> DEFINE copy == [c EXCEPT !.attempt = attempt[c.job], !.blank = ~Whole(c.job)]
           got == reading[s].got \cup {copy}
           todo == reading[s].todo \ {c}
<1>1. TypeOK /\ SetInv
  BY DEF StoreInv
<1>2. \/ /\ todo = {}
         /\ reading' = [reading EXCEPT ![s] = NotReading] /\ held' = held \cup got
      \/ reading' = [reading EXCEPT ![s] = [todo |-> todo, got |-> got]] /\ held' = held
  BY Zenon DEF ReadHash
<1>3. UNCHANGED <<state, attempt, reissued>>
  BY DEF ReadHash, hashVars
<1>4. c \in Out /\ c \in Copy
  BY <1>1, OutMembers
<1>5. copy.job = c.job /\ copy.by = c.by /\ copy.attempt = attempt[c.job] /\ copy.blank = ~Whole(c.job)
  BY <1>4 DEF Copy
<1>6. c.job \notin reissued => state[c.job] = "claimed" /\ ~copy.blank
  BY <1>1, <1>4, <1>5, Zenon DEF CopyInv, StillClaimed, SetInv, Whole, Exists
<1>7. \A d \in todo : d \in reading[s].todo /\ d # c
  OBVIOUS
<1>8. \A d \in got : d = copy \/ d \in reading[s].got
  OBVIOUS
<1> HIDE DEF copy, got, todo
<1>9. /\ \A t \in Schedulers : t # s => reading'[t] = reading[t]
      /\ reading'[s].todo \subseteq todo /\ reading'[s].got \subseteq got
      /\ held' \subseteq held \cup got
      /\ held' = held \/ (reading'[s].todo = {} /\ reading'[s].got = {})
  BY <1>1, <1>2 DEF TypeOK, NotReading
<1>10. \A d \in Out : d.job = c.job => d.job \in reissued \/ d = c
  BY <1>4 DEF CopyInv, OneCopy
<1>11. /\ c \notin held \/ c.job \in reissued
       /\ \A t \in Schedulers : t # s => c \notin reading[t].todo \cup reading[t].got
       /\ c \notin reading[s].got \/ c.job \in reissued
  <2>1. OneStage /\ OwnReads
    BY DEF CopyInv
  <2>2. c.by = s
    BY <2>1 DEF OwnReads
  <2> QED
    BY <2>1, <2>2 DEF OneStage, OwnReads
<1>12. ASSUME NEW d \in Out'
       PROVE  \/ d = copy
              \/ d \in Out /\ (d # c \/ c.job \in reissued)
  <2>1. d \in held' \/ \E t \in Schedulers : d \in reading'[t].todo \cup reading'[t].got
    BY DEF Out
  <2>2. CASE d \in held'
    BY <1>1, <1>8, <1>9, <1>11, <2>2, OutMembers
  <2>3. ASSUME NEW t \in Schedulers, d \in reading'[t].todo \cup reading'[t].got
        PROVE  d = copy \/ (d \in Out /\ (d # c \/ c.job \in reissued))
    <3>1. CASE t = s
      BY <1>1, <1>7, <1>8, <1>9, <1>11, <2>3, <3>1, OutMembers, Zenon
    <3>2. CASE t # s
      BY <1>1, <1>9, <1>11, <2>3, <3>2, OutMembers
    <3> QED
      BY <3>1, <3>2
  <2> QED
    BY <2>1, <2>2, <2>3, Zenon
<1>13. \A d \in Out' : d.job = c.job => d.job \in reissued \/ d = copy
  BY <1>10, <1>12, Zenon
<1>14. OwnReads'
  BY <1>5, <1>7, <1>8, <1>9 DEF CopyInv, OwnReads
<1>15. OneCopy'
  <2> SUFFICES ASSUME NEW d \in Out', NEW e \in Out', d.job = e.job, d.job \notin reissued PROVE d = e
    BY <1>3 DEF OneCopy
  <2>1. CASE d.job = c.job
    BY <1>13, <2>1, Zenon
  <2>2. CASE d.job # c.job
    <3>1. d \in Out /\ e \in Out
      BY <1>5, <1>12, <2>2
    <3> QED
      BY <3>1 DEF CopyInv, OneCopy
  <2> QED
    BY <2>1, <2>2
<1>16. StillClaimed'
  BY <1>3, <1>5, <1>6, <1>12 DEF CopyInv, StillClaimed
<1>17. ReadRight'
  <2> SUFFICES ASSUME NEW d \in Read', d.job \notin reissued PROVE ~d.blank /\ d.attempt = attempt[d.job]
    BY <1>3 DEF ReadRight
  <2>1. d \in held' \/ \E t \in Schedulers : d \in reading'[t].got
    BY DEF Read
  <2>2. d = copy \/ d \in held \/ \E t \in Schedulers : d \in reading[t].got
    BY <1>8, <1>9, <2>1
  <2>3. d = copy \/ d \in Read
    BY <2>2 DEF Read
  <2> QED
    BY <1>5, <1>6, <2>3 DEF CopyInv, ReadRight
<1>18. OneStage'
  <2> SUFFICES ASSUME NEW t \in Schedulers
               PROVE  /\ \A d \in reading'[t].todo \cup reading'[t].got, e \in held' :
                             d.job = e.job => d.job \in reissued
                      /\ \A d \in reading'[t].todo, e \in reading'[t].got :
                             d.job = e.job => d.job \in reissued
    BY <1>3 DEF OneStage
  <2>1. CASE t # s
    <3>1. reading'[t] = reading[t]
      BY <1>9, <2>1
    <3>2. ASSUME NEW d \in reading[t].todo \cup reading[t].got, NEW e \in got, d.job = e.job
          PROVE  d.job \in reissued
      <4>1. d \in Out /\ d.by = t
        BY <1>1, OutMembers DEF CopyInv, OwnReads
      <4>2. CASE e = copy
        BY <1>4, <1>5, <1>10, <1>11, <3>2, <4>1, <4>2, <2>1
      <4>3. CASE e \in reading[s].got
        <5>1. e \in Out /\ e.by = s
          BY <1>1, <4>3, OutMembers DEF CopyInv, OwnReads
        <5> QED
          BY <2>1, <3>2, <4>1, <5>1 DEF CopyInv, OneCopy
      <4> QED
        BY <1>8, <4>2, <4>3
    <3> QED
      BY <1>9, <3>1, <3>2 DEF CopyInv, OneStage
  <2>2. CASE t = s
    <3>1. ASSUME NEW d \in todo, NEW e \in got, d.job = e.job PROVE d.job \in reissued
      <4>1. CASE e = copy
        BY <1>1, <1>5, <1>7, <1>10, <3>1, <4>1, OutMembers
      <4>2. CASE e \in reading[s].got
        BY <1>7, <3>1, <4>2 DEF CopyInv, OneStage
      <4> QED
        BY <1>8, <4>1, <4>2
    <3>2. ASSUME NEW d \in todo \cup got, NEW e \in held, d.job = e.job PROVE d.job \in reissued
      <4>1. CASE d = copy
        BY <1>5, <3>2, <4>1 DEF CopyInv, OneStage
      <4>2. CASE d # copy
        <5>1. d \in reading[s].todo \cup reading[s].got
          BY <1>7, <1>8, <4>2
        <5> QED
          BY <3>2, <5>1, Zenon DEF CopyInv, OneStage
      <4> QED
        BY <4>1, <4>2
    <3> QED
      BY <1>9, <2>2, <3>1, <3>2
  <2> QED
    BY <2>1, <2>2
<1> QED
  BY <1>14, <1>15, <1>16, <1>17, <1>18 DEF CopyInv

\* Every step keeps the copies right.
LEMMA CopySteps == ASSUME Moves = FALSE, StoreInv, StoreInv', CopyInv, Next PROVE CopyInv'
<1>1. TypeOK /\ SetInv /\ LookupInv
  BY DEF StoreInv
<1>2. /\ state \in [Jobs -> States] /\ attempt \in [Jobs -> Nat]
      /\ \A c \in Out : c.job \in Jobs /\ state[c.job] # "unsaved"
      /\ \A c \in Out : c.job \notin reissued => state[c.job] = "claimed"
  BY <1>1, OutMembers, Zenon DEF TypeOK, LookupInv, CopyInv, StillClaimed
<1>3. ASSUME NEW j \in Jobs, NEW b \in Buckets, SaveNew(j, b) \/ SaveAgain(j, b) PROVE CopyInv'
  <2>1. /\ state' = [state EXCEPT ![j] = "pending"] /\ attempt' = [attempt EXCEPT ![j] = 0]
        /\ UNCHANGED <<reading, held>> /\ reissued \subseteq reissued'
        /\ state[j] = "unsaved" \/ state[j] = "pending" \/ j \in reissued'
    BY <1>3 DEF SaveNew, SaveAgain, Save, Exists, callVars
  <2>2. Out' = Out
    BY <2>1 DEF Out
  <2>3. \A c \in Out' : c \in Out /\ c.job \notin reissued' =>
            state'[c.job] = state[c.job] /\ attempt'[c.job] = attempt[c.job]
    BY <1>2, <2>1, <2>2
  <2> QED
    BY <1>1, <2>1, <2>3, FewerCopies
<1>4. ASSUME NEW s \in Schedulers, NEW q \in Queues, NEW n \in 1..MaxBatch, NEW S \in SUBSET ready,
             ClaimScript(s, q, n, S)
      PROVE  CopyInv'
  BY <1>4, ClaimCopies
<1>5. ASSUME NEW s \in Schedulers, NEW c \in reading[s].todo, ReadHash(s, c) PROVE CopyInv'
  BY <1>5, ReadCopies
<1>6. ASSUME NEW s \in Schedulers, ReadFails(s) \/ Crash(s) PROVE CopyInv'
  <2>1. /\ reading' = [reading EXCEPT ![s] = NotReading] /\ held' \subseteq held
        /\ UNCHANGED <<state, attempt, reissued>>
    BY <1>6, Zenon DEF ReadFails, Crash, hashVars
  <2>2. \A t \in Schedulers : /\ reading'[t].todo \subseteq reading[t].todo
                              /\ reading'[t].got \subseteq reading[t].got
    BY <1>1, <2>1, Zenon DEF TypeOK, NotReading
  <2> QED
    BY <1>1, <2>1, <2>2, FewerCopies
<1>7. ASSUME NEW c \in held, AckScript(c) \/ \E b \in Buckets : FailScript(c, b) PROVE CopyInv'
  <2>1. held' = held \ {c} /\ UNCHANGED <<reading, reissued>>
    BY <1>7, Zenon DEF AckScript, FailScript
  <2>2. \A j \in Jobs : j # c.job => state'[j] = state[j] /\ attempt'[j] = attempt[j]
    BY <1>2, <1>7, Zenon DEF AckScript, FailScript
  <2>3. \A d \in Out' : d \in Out /\ (d.job = c.job => d.job \in reissued)
    BY <1>1, <2>1, LastCopy
  <2>4. \A d \in Out' : d \in Out /\ d.job \notin reissued' =>
            state'[d.job] = state[d.job] /\ attempt'[d.job] = attempt[d.job]
    BY <1>2, <2>1, <2>2, <2>3
  <2> QED
    BY <1>1, <2>1, <2>4, FewerCopies
<1>8. ASSUME \/ \E c \in held : FailLookup(c)
             \/ \E k \in Clients, op \in {"cancel", "reschedule"}, j \in Jobs : Lookup(k, op, j)
             \/ \E k \in Clients : RescheduleScript(k)
             \/ \E e \in pending : BecomesDue(e)
             \/ \E j \in Jobs : LockExpires(j)
      PROVE  CopyInv'
  <2> DEFINE idle == UNCHANGED <<state, attempt, reading, reissued>> /\ held' \subseteq held
  <2>1. ASSUME NEW c \in held, FailLookup(c) PROVE idle
    BY <2>1, Zenon DEF FailLookup, hashVars
  <2>2. ASSUME NEW k \in Clients, RescheduleScript(k) \/ \E op, j : Lookup(k, op, j) PROVE idle
    BY <2>2, Zenon DEF RescheduleScript, Lookup, hashVars
  <2>3. ASSUME (\E e \in pending : BecomesDue(e)) \/ (\E j \in Jobs : LockExpires(j)) PROVE idle
    BY <2>3 DEF BecomesDue, LockExpires, hashVars, callVars
  <2>4. idle
    BY <1>8, <2>1, <2>2, <2>3
  <2> QED
    BY <1>1, <2>4, FewerCopies, Zenon
<1>9. ASSUME NEW k \in Clients, CancelScript(k) PROVE CopyInv'
  <2>1. UNCHANGED <<attempt, reading, held, reissued>>
    BY <1>9, Zenon DEF CancelScript
  <2>2. \A j \in Jobs : state[j] = "claimed" => state'[j] = "claimed"
    BY <1>2, <1>9, Zenon DEF CancelScript
  <2>3. \A c \in Out' : c \in Out /\ c.job \notin reissued' =>
            state'[c.job] = state[c.job] /\ attempt'[c.job] = attempt[c.job]
    BY <1>2, <2>1, <2>2
  <2> QED
    BY <1>1, <2>1, <2>3, FewerCopies
<1>10. CASE RecoverStale
  <2>1. UNCHANGED <<attempt, reading, held>> /\ reissued \subseteq reissued'
    BY <1>10 DEF RecoverStale, callVars
  <2>2. \A j \in Jobs : state[j] = "claimed" => state'[j] = "claimed" \/ j \in reissued'
    BY <1>10 DEF RecoverStale
  <2>3. \A c \in Out' : c \in Out /\ c.job \notin reissued' =>
            state'[c.job] = state[c.job] /\ attempt'[c.job] = attempt[c.job]
    BY <1>2, <2>1, <2>2
  <2> QED
    BY <1>1, <2>1, <2>3, FewerCopies
<1> QED
  BY <1>3, <1>4, <1>5, <1>6, <1>7, <1>8, <1>9, <1>10, Zenon DEF Next

\* The store and its copies, as one inductive invariant.
LEMMA CopiesKept == Moves = FALSE => (Spec => [](StoreInv /\ CopyInv))
<1> SUFFICES ASSUME Moves = FALSE PROVE Spec => [](StoreInv /\ CopyInv)
  BY Zenon
<1>1. Init => StoreInv /\ CopyInv
  <2> SUFFICES ASSUME Init PROVE StoreInv /\ CopyInv
    OBVIOUS
  <2>1. \A s \in Schedulers : reading[s].todo = {} /\ reading[s].got = {}
    BY Zenon DEF Init, NotReading
  <2>2. held = {} /\ Out = {} /\ Read = {}
    BY <2>1, Zenon DEF Init, Out, Read
  <2>3. CopyInv
    BY <2>1, <2>2 DEF CopyInv, OwnReads, OneStage, OneCopy, StillClaimed, ReadRight
  <2> QED
    BY <2>3, StoreInit
<1>2. StoreInv /\ CopyInv /\ [Next]_vars => StoreInv' /\ CopyInv'
  <2> SUFFICES ASSUME StoreInv, CopyInv, [Next]_vars PROVE StoreInv' /\ CopyInv'
    OBVIOUS
  <2>1. StoreInv'
    BY StoreSteps, Zenon
  <2>2. CASE UNCHANGED vars
    <3>1. UNCHANGED <<state, attempt, reading, held, reissued>>
      BY <2>2 DEF vars, hashVars, callVars
    <3>2. Out' = Out /\ Read' = Read
      BY <3>1 DEF Out, Read
    <3>3. OwnReads' /\ OneStage' /\ OneCopy'
      BY <3>1, <3>2 DEF CopyInv, OwnReads, OneStage, OneCopy
    <3>4. StillClaimed' /\ ReadRight'
      BY <3>1, <3>2 DEF CopyInv, StillClaimed, ReadRight
    <3> QED
      BY <2>1, <3>3, <3>4 DEF CopyInv
  <2>3. CASE Next
    BY <2>1, <2>3, CopySteps, Zenon
  <2> QED
    BY <2>2, <2>3
<1> QED
  BY <1>1, <1>2, PTL DEF Spec

\* Concurrent schedulers on Redis get disjoint jobs: until a claimed job is taken
\* back or saved anew, one copy of it is being read back or held.
THEOREM RedisClaimsDisjoint == Moves = FALSE => (Spec => []ClaimsAreDisjoint)
<1> SUFFICES ASSUME Moves = FALSE PROVE Spec => []ClaimsAreDisjoint
  BY Zenon
<1>1. StoreInv /\ CopyInv => ClaimsAreDisjoint
  BY CopiesMatch DEF StoreInv
<1> QED
  BY <1>1, CopiesKept, PTL

\* What ClaimDue reads back after its script, in a second round trip, is the job it
\* claimed, unless that job was taken back or saved anew in between.
THEOREM RedisCopiesCurrent == Moves = FALSE => (Spec => []CopiesAreCurrent)
<1> SUFFICES ASSUME Moves = FALSE PROVE Spec => []CopiesAreCurrent
  BY Zenon
<1>1. StoreInv /\ CopyInv => CopiesAreCurrent
  BY CopiesMatch DEF StoreInv
<1> QED
  BY <1>1, CopiesKept, PTL
=============================================================================
