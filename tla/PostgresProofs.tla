-------------------------- MODULE PostgresProofs ---------------------------
(***************************************************************************)
(* Machine-checked proofs about PostgresStore, for any jobs, queues,       *)
(* attempt caps, connections, batch sizes and disruptions.                 *)
(***************************************************************************)
EXTENDS PostgresStore, TLAPS

\* The part of TypeOK that is about types alone, and the part about row locks.
Types ==
    /\ TableTypeOK
    /\ tx \in [Connections -> Transactions]
    /\ held \subseteq Claim
    /\ claims \in [Jobs -> Nat]
    /\ recovered \subseteq Jobs
    /\ disruptions \in 0..MaxDisruptions

LockInv ==
    /\ \A s \in Schedulers : tx[s].op = "claim" => \A j \in tx[s].jobs : state[j] = "pending"
    /\ \A s, t \in Schedulers :
           s # t /\ tx[s].op = "claim" /\ tx[t].op = "claim" => tx[s].jobs \cap tx[t].jobs = {}

\* A Fail between its two statements finishes a claim its connection holds.
FailHolds ==
    \A s \in Connections : tx[s].op = "fail" =>
        \E c \in held : c.by = s /\ tx[s].jobs = {c.job} /\ tx[s].claim = c.claim

\* What it decided on the row it read is still right: attempts only grow, and
\* until recovery nobody else counts one.
FailDecided ==
    \A s \in Connections : tx[s].op = "fail" =>
        \A j \in tx[s].jobs :
            /\ state[j] # "unsaved"
            /\ tx[s].last => StoredMax(j) > 0 /\ attempt[j] + 1 >= StoredMax(j)
            /\ ~tx[s].last /\ j \notin recovered /\ StoredMax(j) > 0 => attempt[j] + 1 < StoredMax(j)
-----------------------------------------------------------------------------
(* Typing. *)

\* TypeOK is its two parts.
LEMMA TypeParts == Types /\ LockInv => TypeOK
  BY DEF Types, LockInv, TypeOK, Locked

\* The attempt cap of a row is an integer.
LEMMA StoredMaxInt == ASSUME NEW j \in Jobs PROVE StoredMax(j) \in Int
  BY MaxAttemptsAssumption DEF StoredMax

\* The steps of the table keep its types.
LEMMA TableTypes ==
    ASSUME TableTypeOK
    PROVE  /\ \A j \in Jobs : Save(j) \/ Ack(j) => TableTypeOK'
           /\ RecoverStale => TableTypeOK'
           /\ \A D, E \in SUBSET Jobs : TimePasses(D, E) => TableTypeOK'
           /\ UNCHANGED tableVars => TableTypeOK'
  BY DEF TableTypeOK, Save, Ack, RecoverStale, StaleClaims, TimePasses, tableVars, States, Terminal

\* Beginning and ending a transaction keep the type of tx.
LEMMA TxTypes ==
    ASSUME tx \in [Connections -> Transactions], NEW s \in Connections
    PROVE  /\ End(s) => tx' \in [Connections -> Transactions]
           /\ \A op \in {"claim", "cancel", "reschedule"}, S \in SUBSET Jobs :
                  Begin(s, op, S) => tx' \in [Connections -> Transactions]
<1>1. NoTx \in Transactions
  BY DEF NoTx, Transactions
<1>2. \A op \in {"claim", "cancel", "reschedule"}, S \in SUBSET Jobs :
          [NoTx EXCEPT !.op = op, !.jobs = S] \in Transactions
  BY Zenon DEF NoTx, Transactions
<1> QED
  BY <1>1, <1>2, Zenon DEF End, Begin

\* Every step keeps the types.
LEMMA TypesKept == ASSUME Types, Next PROVE Types'
<1>0. TableTypeOK /\ Schedulers \subseteq Connections /\ Clients \subseteq Connections
  BY DEF Types, Connections
<1>1. ASSUME NEW j \in Jobs, SaveJob(j) PROVE Types'
  BY <1>0, <1>1, TableTypes DEF Types, SaveJob
<1>2. ASSUME NEW j \in Jobs, BecomesDue(j) PROVE Types'
  <2>1. {j} \in SUBSET Jobs /\ {} \in SUBSET Jobs
    OBVIOUS
  <2> QED
    BY <1>0, <1>2, <2>1, TableTypes DEF Types, BecomesDue
<1>3. ASSUME NEW j \in Jobs, LockExpires(j) PROVE Types'
  <2>1. {j} \in SUBSET Jobs /\ {} \in SUBSET Jobs
    OBVIOUS
  <2>2. disruptions' \in 0..MaxDisruptions
    BY <1>3, BatchAssumption DEF Types, LockExpires, Disrupt
  <2> QED
    BY <1>0, <1>3, <2>1, <2>2, TableTypes DEF Types, LockExpires
<1>4. ASSUME NEW s \in Schedulers, ClaimUpdate(s) PROVE Types'
  <2>1. tx[s] \in Transactions
    BY <1>0 DEF Types
  <2>2. tx[s].jobs \subseteq Jobs
    BY <2>1 DEF Transactions
  <2>3. TableTypeOK'
    BY <1>0, <1>4 DEF ClaimUpdate, TableTypeOK, States
  <2>4. tx' \in [Connections -> Transactions]
    BY <1>0, <1>4, TxTypes DEF Types, ClaimUpdate
  <2>5. claims' \in [Jobs -> Nat]
    BY <1>4 DEF Types, ClaimUpdate
  <2>6. held' \subseteq Claim
    <3>1. \A j \in tx[s].jobs : [by |-> s, job |-> j, claim |-> claims[j] + 1] \in Claim
      BY <2>2 DEF Types, Claim
    <3> QED
      BY <1>4, <3>1, Zenon DEF Types, ClaimUpdate
  <2> QED
    BY <1>4, <2>3, <2>4, <2>5, <2>6 DEF Types, ClaimUpdate
<1>5. ASSUME NEW s \in Schedulers, Crash(s) PROVE Types'
  <2>1. tx' \in [Connections -> Transactions]
    BY <1>0, <1>5, TxTypes DEF Types, Crash
  <2>2. disruptions' \in 0..MaxDisruptions
    BY <1>5, BatchAssumption DEF Types, Crash, Disrupt
  <2> QED
    BY <1>0, <1>5, <2>1, <2>2, TableTypes DEF Types, Crash
<1>6. ASSUME NEW s \in Schedulers, NEW S \in SUBSET Jobs, ClaimSelect(s, S) PROVE Types'
  <2>1. tx' \in [Connections -> Transactions]
    BY <1>0, <1>6, TxTypes DEF Types, ClaimSelect
  <2> QED
    BY <1>0, <1>6, <2>1, TableTypes DEF Types, ClaimSelect
<1>7. ASSUME NEW c \in held, AckJob(c) PROVE Types'
  <2>1. c.job \in Jobs
    BY DEF Types, Claim
  <2> QED
    BY <1>0, <1>7, <2>1, TableTypes DEF Types, AckJob
<1>8. ASSUME NEW c \in held, FailSelect(c) PROVE Types'
  <2>1. c.job \in Jobs /\ c.by \in Connections /\ c.claim \in Nat
    BY <1>0 DEF Types, Claim
  <2>2. [op |-> "fail", jobs |-> {c.job}, claim |-> c.claim, last |-> Exhausts(c.job)] \in Transactions
    BY <2>1 DEF Transactions, Exhausts
  <2>3. tx' \in [Connections -> Transactions]
    BY <1>8, <2>2 DEF Types, FailSelect
  <2> QED
    BY <1>0, <1>8, <2>3, TableTypes DEF Types, FailSelect
<1>9. ASSUME NEW c \in held, FailWrite(c) PROVE Types'
  <2>1. c.job \in Jobs /\ c.by \in Connections
    BY <1>0 DEF Types, Claim
  <2>2. tx' \in [Connections -> Transactions]
    BY <1>9, <2>1, TxTypes, Zenon DEF Types, FailWrite
  <2>3. TableTypeOK'
    BY <1>0, <1>9, <2>1 DEF FailWrite, TableTypeOK, States, Terminal, tableVars
  <2> QED
    BY <1>9, <2>2, <2>3, Zenon DEF Types, FailWrite
<1>10. ASSUME NEW s \in Clients, NEW j \in Jobs, CancelSelect(s, j) \/ RescheduleSelect(s, j) PROVE Types'
  <2>1. tx' \in [Connections -> Transactions]
    BY <1>0, <1>10, TxTypes DEF Types, CancelSelect, RescheduleSelect
  <2> QED
    BY <1>0, <1>10, <2>1, TableTypes DEF Types, CancelSelect, RescheduleSelect
<1>11. ASSUME NEW s \in Clients, NEW j \in Jobs, CancelDelete(s, j) \/ RescheduleUpdate(s, j) PROVE Types'
  <2>1. tx' \in [Connections -> Transactions]
    BY <1>0, <1>11, TxTypes DEF Types, CancelDelete, RescheduleUpdate
  <2>2. TableTypeOK'
    BY <1>0, <1>11 DEF CancelDelete, RescheduleUpdate, TableTypeOK, States, Terminal
  <2> QED
    BY <1>11, <2>1, <2>2 DEF Types, CancelDelete, RescheduleUpdate
<1>12. ASSUME RecoverStaleJobs PROVE Types'
  <2>1. StaleClaims \subseteq Jobs
    BY <1>0 DEF TableTypeOK, StaleClaims
  <2> QED
    BY <1>0, <1>12, <2>1, TableTypes DEF Types, RecoverStaleJobs
<1> QED
  BY <1>1, <1>2, <1>3, <1>4, <1>5, <1>6, <1>7, <1>8, <1>9, <1>10, <1>11, <1>12 DEF Next
-----------------------------------------------------------------------------
(* Transactions and row locks. *)

\* What beginning and ending a transaction do to tx, connection by connection.
LEMMA TxAfter ==
    ASSUME Types, NEW s \in Connections
    PROVE  /\ End(s) => tx'[s] = NoTx /\ \A t \in Connections : t # s => tx'[t] = tx[t]
           /\ \A op, S : Begin(s, op, S) =>
                  /\ tx'[s].op = op /\ tx'[s].jobs = S
                  /\ \A t \in Connections : t # s => tx'[t] = tx[t]
           /\ NoTx.op = "none"
  BY Zenon DEF Types, End, Begin, NoTx

\* The locked rows are those some claim has selected.
LEMMA LockedRows ==
    \A j : j \in Locked <=> \E s \in Schedulers : tx[s].op = "claim" /\ j \in tx[s].jobs
  BY DEF Locked

\* If no claim begins and the rows of every claim under way stay pending, the
\* locks stay right.
LEMMA LocksStay ==
    ASSUME LockInv,
           \A s \in Schedulers : tx'[s].op = "claim" => tx'[s] = tx[s],
           \A s \in Schedulers : tx'[s].op = "claim" => \A j \in tx[s].jobs : state'[j] = "pending"
    PROVE  LockInv'
  BY DEF LockInv

\* Every step keeps the locks right.
LEMMA LocksKept == ASSUME Types, LockInv, Next PROVE LockInv'
<1>0. Schedulers \subseteq Connections /\ Clients \subseteq Connections /\ Schedulers \cap Clients = {}
  BY ConnectionsAssumption DEF Connections
<1>a. \A s \in Schedulers : tx[s].jobs \subseteq Jobs
  BY <1>0 DEF Types, Transactions
<1>1. ASSUME NEW j \in Jobs, SaveJob(j) \/ BecomesDue(j) \/ LockExpires(j) PROVE LockInv'
  <2>1. tx' = tx /\ \A i \in Jobs : state[i] = "pending" => state'[i] = "pending"
    BY <1>1, Zenon DEF SaveJob, Save, BecomesDue, LockExpires, TimePasses, Types, TableTypeOK
  <2> QED
    BY <1>a, <2>1, LocksStay DEF LockInv
<1>2. ASSUME NEW s \in Schedulers, ClaimUpdate(s) PROVE LockInv'
  <2>1. tx'[s].op = "none" /\ \A t \in Schedulers : t # s => tx'[t] = tx[t]
    BY <1>0, <1>2, TxAfter DEF ClaimUpdate
  <2>2. ASSUME NEW t \in Schedulers, tx'[t].op = "claim", NEW j \in tx[t].jobs PROVE state'[j] = "pending"
    <3>1. t # s /\ tx[t].op = "claim" /\ tx[s].op = "claim"
      BY <1>2, <2>1, <2>2 DEF ClaimUpdate
    <3>2. j \notin tx[s].jobs /\ state[j] = "pending" /\ j \in Jobs
      BY <1>a, <3>1 DEF LockInv
    <3> QED
      BY <1>2, <3>2 DEF ClaimUpdate
  <2> QED
    BY <2>1, <2>2, LocksStay
<1>3. ASSUME NEW s \in Schedulers, Crash(s) PROVE LockInv'
  <2>1. tx'[s].op = "none" /\ \A t \in Schedulers : t # s => tx'[t] = tx[t]
    BY <1>0, <1>3, TxAfter DEF Crash
  <2>2. state' = state
    BY <1>3 DEF Crash, tableVars
  <2> QED
    BY <2>1, <2>2, LocksStay DEF LockInv
<1>4. ASSUME NEW s \in Schedulers, NEW S \in SUBSET Jobs, ClaimSelect(s, S) PROVE LockInv'
  <2>1. tx'[s].jobs = S /\ \A t \in Schedulers : t # s => tx'[t] = tx[t]
    BY <1>0, <1>4, TxAfter DEF ClaimSelect
  <2>2. state' = state /\ \A j \in S : state[j] = "pending" /\ j \notin Locked
    <3>1. S \subseteq (UNION {DueIn(q) : q \in Queues}) \ Locked
      BY <1>4 DEF ClaimSelect
    <3>2. \A q, j : j \in DueIn(q) => state[j] = "pending"
      BY DEF DueIn
    <3>3. \A j \in UNION {DueIn(q) : q \in Queues} : state[j] = "pending"
      BY <3>2
    <3>4. state' = state
      BY <1>4 DEF ClaimSelect, tableVars
    <3> QED
      BY <3>1, <3>3, <3>4
  <2>3. \A t \in Schedulers : t # s /\ tx[t].op = "claim" => tx[t].jobs \cap S = {}
    BY <2>2, LockedRows
  <2> QED
    BY <2>1, <2>2, <2>3 DEF LockInv
<1>5. ASSUME NEW c \in held, AckJob(c) PROVE LockInv'
  <2>1. tx' = tx /\ c.job \in Jobs /\ c.job \notin Locked
    BY <1>5 DEF AckJob, Types, Claim
  <2>2. \A i \in Jobs : i # c.job => state'[i] = state[i]
    BY <1>5 DEF AckJob, Ack, Types, TableTypeOK, tableVars
  <2> QED
    BY <1>a, <2>1, <2>2, LockedRows, LocksStay DEF LockInv
<1>6. ASSUME NEW c \in held, FailSelect(c) PROVE LockInv'
  <2>1. c.by \in Schedulers /\ state' = state
    BY <1>6 DEF FailSelect, Types, Claim, tableVars
  <2>2. \A t \in Schedulers : tx'[t] = tx[t] \/ tx'[t].op = "fail"
    BY <1>0, <1>6, <2>1 DEF FailSelect, Types
  <2> QED
    BY <2>1, <2>2, LocksStay DEF LockInv
<1>7. ASSUME NEW c \in held, FailWrite(c) PROVE LockInv'
  <2>1. c.by \in Schedulers /\ c.job \in Jobs /\ c.job \notin Locked
    BY <1>7, Zenon DEF FailWrite, Types, Claim
  <2>2. \A i \in Jobs : i # c.job => state'[i] = state[i]
    BY <1>7, Zenon DEF FailWrite, Types, TableTypeOK, tableVars
  <2>3. tx'[c.by].op = "none" /\ \A t \in Schedulers : t # c.by => tx'[t] = tx[t]
    BY <1>0, <1>7, <2>1, TxAfter DEF FailWrite
  <2> QED
    BY <1>a, <2>1, <2>2, <2>3, LockedRows, LocksStay DEF LockInv
<1>8. ASSUME NEW s \in Clients, NEW j \in Jobs,
             CancelSelect(s, j) \/ CancelDelete(s, j) \/ RescheduleSelect(s, j) \/ RescheduleUpdate(s, j)
      PROVE  LockInv'
  <2>1. \A t \in Schedulers : tx'[t] = tx[t]
    BY <1>0, <1>8, TxAfter DEF CancelSelect, CancelDelete, RescheduleSelect, RescheduleUpdate
  <2>2. \A i \in Locked \cap Jobs : state'[i] = state[i]
    BY <1>8, Zenon DEF CancelSelect, CancelDelete, RescheduleSelect, RescheduleUpdate, Types, TableTypeOK, tableVars
  <2> QED
    BY <1>a, <2>1, <2>2, LockedRows, LocksStay DEF LockInv
<1>9. ASSUME RecoverStaleJobs PROVE LockInv'
  <2>1. tx' = tx /\ \A i \in Jobs : state[i] = "pending" => state'[i] = "pending"
    BY <1>9 DEF RecoverStaleJobs, RecoverStale
  <2> QED
    BY <1>a, <2>1, LocksStay DEF LockInv
<1> QED
  BY <1>1, <1>2, <1>3, <1>4, <1>5, <1>6, <1>7, <1>8, <1>9 DEF Next
-----------------------------------------------------------------------------
(* Claims. *)

\* If no claim is handed out, and a row whose claim is held changes only by being
\* recovered or cancelled, the claims stay disjoint.
LEMMA ClaimsStay ==
    ASSUME ClaimsAreDisjoint, held' \subseteq held, recovered \subseteq recovered', claims' = claims,
           \A c \in held' : c.job \notin recovered' =>
               state'[c.job] = state[c.job] \/ state'[c.job] = "cancelled"
    PROVE  ClaimsAreDisjoint'
  BY Zenon DEF ClaimsAreDisjoint

\* Every step keeps the claims disjoint.
LEMMA ClaimsKept == ASSUME Types, LockInv, ClaimsAreDisjoint, Next PROVE ClaimsAreDisjoint'
<1>0. \A c \in held : c.job \in Jobs /\ c.by \in Schedulers
  BY DEF Types, Claim
<1>1. ASSUME NEW j \in Jobs, SaveJob(j) PROVE ClaimsAreDisjoint'
  <2>1. UNCHANGED <<held, claims, recovered>>
    BY <1>1 DEF SaveJob
  <2>2. \A c \in held : c.job \notin recovered => c.job # j
    BY <1>1 DEF SaveJob, ClaimsAreDisjoint
  <2>3. \A i \in Jobs : i # j => state'[i] = state[i]
    BY <1>1 DEF SaveJob, Save, Types, TableTypeOK
  <2> QED
    BY <1>0, <2>1, <2>2, <2>3, ClaimsStay
<1>2. ASSUME NEW j \in Jobs, BecomesDue(j) \/ LockExpires(j) PROVE ClaimsAreDisjoint'
  BY <1>2, ClaimsStay DEF BecomesDue, LockExpires, TimePasses
<1>3. ASSUME NEW s \in Schedulers, ClaimUpdate(s) PROVE ClaimsAreDisjoint'
  <2> DEFINE S == tx[s].jobs
             new == {[by |-> s, job |-> j, claim |-> claims[j] + 1] : j \in S}
  <2>1. /\ held' = held \cup new /\ recovered' = recovered
        /\ state' = [j \in Jobs |-> IF j \in S THEN "claimed" ELSE state[j]]
        /\ claims' = [j \in Jobs |-> IF j \in S THEN claims[j] + 1 ELSE claims[j]]
    BY <1>3, Zenon DEF ClaimUpdate
  <2>2. S \subseteq Jobs /\ \A j \in S : state[j] = "pending"
    BY <1>3, Zenon DEF ClaimUpdate, LockInv, Types, Transactions, Connections
  <2>3. \A c \in held : c.job \notin recovered => c.job \notin S
    BY <2>2 DEF ClaimsAreDisjoint
  <2>4. \A c \in new : c.job \in S /\ c.claim = claims[c.job] + 1
    OBVIOUS
  <2>5. \A c, d \in new : c.job = d.job => c = d
    OBVIOUS
  <2> HIDE DEF S, new
  <2>6. ASSUME NEW c \in held, c.job \notin recovered
        PROVE  /\ \A d \in held' : d.job = c.job => d = c
               /\ state'[c.job] \in {"claimed", "cancelled"} /\ claims'[c.job] = c.claim
    <3>1. c.job \notin S /\ c.job \in Jobs
      BY <1>0, <2>3, <2>6
    <3>2. \A d \in held' : d.job = c.job => d \in held
      BY <2>1, <2>4, <3>1
    <3> QED
      BY <2>1, <2>6, <3>1, <3>2 DEF ClaimsAreDisjoint
  <2>7. ASSUME NEW c \in new, c.job \notin recovered
        PROVE  /\ \A d \in held' : d.job = c.job => d = c
               /\ state'[c.job] \in {"claimed", "cancelled"} /\ claims'[c.job] = c.claim
    <3>1. c.job \in S /\ c.job \in Jobs
      BY <2>2, <2>4
    <3>2. \A d \in held' : d.job = c.job => d \in new
      BY <2>1, <2>3, <2>7, <3>1
    <3> QED
      BY <2>1, <2>4, <2>5, <3>1, <3>2
  <2> QED
    BY <2>1, <2>6, <2>7, Zenon DEF ClaimsAreDisjoint
<1>4. ASSUME NEW s \in Schedulers, Crash(s) PROVE ClaimsAreDisjoint'
  BY <1>4, ClaimsStay DEF Crash, tableVars
<1>5. ASSUME NEW s \in Schedulers, NEW S \in SUBSET Jobs, ClaimSelect(s, S) PROVE ClaimsAreDisjoint'
  BY <1>5, ClaimsStay DEF ClaimSelect, tableVars
<1>6. ASSUME NEW c \in held, AckJob(c) \/ FailWrite(c) PROVE ClaimsAreDisjoint'
  <2>1. held' = held \ {c} /\ UNCHANGED <<claims, recovered>>
    BY <1>6, Zenon DEF AckJob, FailWrite
  <2>2. \A d \in held' : d.job \notin recovered => d.job # c.job
    BY <2>1 DEF ClaimsAreDisjoint
  <2>3. \A i \in Jobs : i # c.job => state'[i] = state[i]
    BY <1>6, Zenon DEF AckJob, Ack, FailWrite, Types, TableTypeOK, tableVars
  <2> QED
    BY <1>0, <2>1, <2>2, <2>3, ClaimsStay
<1>7. ASSUME NEW c \in held, FailSelect(c) PROVE ClaimsAreDisjoint'
  BY <1>7, ClaimsStay DEF FailSelect, tableVars
<1>8. ASSUME NEW s \in Clients, NEW j \in Jobs,
             CancelSelect(s, j) \/ RescheduleSelect(s, j) \/ RescheduleUpdate(s, j)
      PROVE  ClaimsAreDisjoint'
  BY <1>8, ClaimsStay, Zenon DEF CancelSelect, RescheduleSelect, RescheduleUpdate, tableVars
<1>9. ASSUME NEW s \in Clients, NEW j \in Jobs, CancelDelete(s, j) PROVE ClaimsAreDisjoint'
  <2>1. \A i \in Jobs : state'[i] = state[i] \/ state'[i] = "cancelled"
    BY <1>9 DEF CancelDelete, Types, TableTypeOK
  <2> QED
    BY <1>0, <1>9, <2>1, ClaimsStay DEF CancelDelete
<1>10. ASSUME RecoverStaleJobs PROVE ClaimsAreDisjoint'
  <2>1. \A i \in Jobs : i \notin recovered' => state'[i] = state[i]
    BY <1>10 DEF RecoverStaleJobs, RecoverStale
  <2> QED
    BY <1>0, <1>10, <2>1, ClaimsStay DEF RecoverStaleJobs
<1> QED
  BY <1>1, <1>2, <1>3, <1>4, <1>5, <1>6, <1>7, <1>8, <1>9, <1>10 DEF Next
-----------------------------------------------------------------------------
(* Attempts. *)

\* The attempts stay right if none is counted and no row fails.
LEMMA AttemptsStay ==
    ASSUME AttemptsCounted, attempt' = attempt, recovered \subseteq recovered',
           \A j \in Jobs : state'[j] = "failed" <=> state[j] = "failed"
    PROVE  AttemptsCounted'
  BY DEF AttemptsCounted, StoredMax

\* What Fail decided stays right if none is counted and no row is new.
LEMMA DecisionsStay ==
    ASSUME Types, FailDecided, recovered \subseteq recovered',
           \A s \in Connections : tx'[s].op = "fail" => tx'[s] = tx[s],
           \A j \in Jobs : state[j] # "unsaved" => state'[j] # "unsaved" /\ attempt'[j] = attempt[j]
    PROVE  FailDecided'
<1>1. \A s \in Connections : tx[s].jobs \subseteq Jobs
  BY Zenon DEF Types, Transactions
<1> QED
  BY <1>1 DEF FailDecided, StoredMax

\* A Fail under way keeps its claim if claims are taken only from connections
\* without one.
LEMMA HoldsStay ==
    ASSUME FailHolds,
           \A s \in Connections : tx'[s].op = "fail" => tx'[s] = tx[s],
           \A c \in held : c.by \in Connections /\ tx'[c.by].op = "fail" => c \in held'
    PROVE  FailHolds'
  BY DEF FailHolds

AttemptInv == AttemptsCounted /\ FailHolds /\ FailDecided

\* A step that counts no attempt, fails no row, begins no Fail and takes no claim
\* from one keeps the three facts about attempts.
LEMMA QuietStep ==
    ASSUME Types, AttemptInv, recovered \subseteq recovered', attempt' = attempt,
           \A j \in Jobs : state'[j] = "failed" <=> state[j] = "failed",
           \A j \in Jobs : state[j] # "unsaved" => state'[j] # "unsaved",
           \A s \in Connections : tx'[s].op = "fail" => tx'[s] = tx[s],
           \A c \in held : c.by \in Connections /\ tx'[c.by].op = "fail" => c \in held'
    PROVE  AttemptInv'
<1>1. AttemptsCounted'
  BY AttemptsStay DEF AttemptInv
<1>2. FailHolds'
  BY HoldsStay DEF AttemptInv
<1>3. FailDecided'
  BY DecisionsStay DEF AttemptInv
<1> QED
  BY <1>1, <1>2, <1>3 DEF AttemptInv

\* Saving a job starts its count.
LEMMA SaveAttempts ==
    ASSUME Types, AttemptInv, NEW j \in Jobs, SaveJob(j) PROVE AttemptInv'
<1>1. /\ state[j] = "unsaved" /\ state'[j] = "pending" /\ attempt'[j] = 0
      /\ \A i \in Jobs : i # j => state'[i] = state[i] /\ attempt'[i] = attempt[i]
      /\ UNCHANGED <<tx, held, recovered>>
  BY Zenon DEF SaveJob, Save, Types, TableTypeOK
<1>2. AttemptsCounted'
  <2> SUFFICES ASSUME NEW i \in Jobs, StoredMax(i)' > 0
               PROVE  /\ state'[i] = "failed" => attempt'[i] >= StoredMax(i)'
                      /\ state'[i] # "failed" /\ i \notin recovered' => attempt'[i] < StoredMax(i)'
    BY DEF AttemptsCounted
  <2>1. StoredMax(i)' = StoredMax(i) /\ StoredMax(i) \in Int
    BY StoredMaxInt DEF StoredMax
  <2> QED
    BY <1>1, <2>1 DEF AttemptInv, AttemptsCounted
<1>3. FailHolds'
  BY <1>1 DEF AttemptInv, FailHolds
<1>4. FailDecided'
  <2>1. \A i \in Jobs : state[i] # "unsaved" => state'[i] # "unsaved" /\ attempt'[i] = attempt[i]
    BY <1>1
  <2> QED
    BY <1>1, <2>1, DecisionsStay DEF AttemptInv
<1> QED
  BY <1>2, <1>3, <1>4 DEF AttemptInv

\* The SELECT of Fail decides on the row as it is.
LEMMA FailSelectAttempts ==
    ASSUME Types, AttemptInv, NEW c \in held, FailSelect(c) PROVE AttemptInv'
<1>1. c.job \in Jobs /\ c.by \in Connections
  BY DEF Types, Claim, Connections
<1>2. UNCHANGED <<state, attempt, recovered>> /\ tx[c.by] = NoTx /\ NoTx.op = "none"
  BY Zenon DEF FailSelect, tableVars, NoTx
<1>3. CASE state[c.job] # "claimed"
  <2>1. tx' = tx /\ held' = held \ {c}
    BY <1>3 DEF FailSelect
  <2> QED
    BY <1>1, <1>2, <2>1, QuietStep
<1>4. CASE state[c.job] = "claimed"
  <2>1. /\ tx'[c.by] = [op |-> "fail", jobs |-> {c.job}, claim |-> c.claim, last |-> Exhausts(c.job)]
        /\ \A t \in Connections : t # c.by => tx'[t] = tx[t]
        /\ held' = held
    BY <1>1, <1>4 DEF FailSelect, Types
  <2>2. AttemptsCounted'
    BY <1>2, AttemptsStay DEF AttemptInv
  <2>3. FailHolds'
    BY <1>1, <2>1 DEF AttemptInv, FailHolds
  <2>4. FailDecided'
    <3> SUFFICES ASSUME NEW s \in Connections, tx'[s].op = "fail", NEW j \in tx'[s].jobs
                 PROVE  /\ state'[j] # "unsaved"
                        /\ tx'[s].last => StoredMax(j)' > 0 /\ attempt'[j] + 1 >= StoredMax(j)'
                        /\ ~tx'[s].last /\ j \notin recovered' /\ StoredMax(j)' > 0
                             => attempt'[j] + 1 < StoredMax(j)'
      BY Zenon DEF FailDecided
    <3>1. StoredMax(j)' = StoredMax(j)
      BY DEF StoredMax
    <3>2. CASE s # c.by
      BY <1>2, <2>1, <3>1, <3>2 DEF AttemptInv, FailDecided
    <3>3. CASE s = c.by
      <4>1. j = c.job /\ tx'[s].last = Exhausts(j) /\ state'[j] # "unsaved"
        BY <1>2, <1>4, <2>1, <3>3
      <4>2. StoredMax(j) \in Int /\ attempt[j] \in Nat
        BY <1>1, <4>1, StoredMaxInt DEF Types, TableTypeOK
      <4>3. CASE Exhausts(j)
        <5>1. tx'[s].last /\ StoredMax(j) > 0 /\ attempt[j] + 1 >= StoredMax(j)
          BY <4>1, <4>3, Zenon DEF Exhausts
        <5> QED
          BY <1>2, <3>1, <4>1, <5>1
      <4>4. CASE ~Exhausts(j)
        <5>1. ~tx'[s].last
          BY <4>1, <4>4, Zenon
        <5>2. StoredMax(j) > 0 => attempt[j] + 1 < StoredMax(j)
          BY <4>2, <4>4 DEF Exhausts
        <5> QED
          BY <1>2, <3>1, <4>1, <5>1, <5>2
      <4> QED
        BY <4>3, <4>4
    <3> QED
      BY <3>2, <3>3
  <2> QED
    BY <2>2, <2>3, <2>4 DEF AttemptInv
<1> QED
  BY <1>3, <1>4

\* The write of Fail counts the attempt it decided on.
LEMMA FailWriteAttempts ==
    ASSUME Types, ClaimsAreDisjoint, AttemptInv, NEW c \in held, FailWrite(c) PROVE AttemptInv'
<1> DEFINE j == c.job
           s == c.by
<1>1. j \in Jobs /\ s \in Connections
  BY DEF Types, Claim, Connections
<1>2. /\ tx[s].op = "fail" /\ tx[s].jobs = {j}
      /\ held' = held \ {c} /\ recovered' = recovered
  BY Zenon DEF FailWrite
<1>3. tx'[s].op = "none" /\ \A t \in Connections : t # s => tx'[t] = tx[t]
  BY <1>1, TxAfter, Zenon DEF FailWrite
<1>4. CASE ~(Live(j) /\ (tx[s].last \/ state[j] = "claimed"))
  <2>1. UNCHANGED <<state, attempt>>
    BY <1>4, Zenon DEF FailWrite, tableVars
  <2> QED
    BY <1>1, <1>2, <1>3, <2>1, QuietStep
<1>5. CASE Live(j) /\ (tx[s].last \/ state[j] = "claimed")
  <2>1. /\ attempt' = [attempt EXCEPT ![j] = @ + 1]
        /\ state' = [state EXCEPT ![j] = IF tx[s].last THEN "failed" ELSE "pending"]
    BY <1>5, Zenon DEF FailWrite
  <2>2. /\ attempt'[j] = attempt[j] + 1 /\ state'[j] = IF tx[s].last THEN "failed" ELSE "pending"
        /\ \A i \in Jobs : i # j => state'[i] = state[i] /\ attempt'[i] = attempt[i]
    BY <1>1, <2>1 DEF Types, TableTypeOK
  <2>3. StoredMax(j) \in Int /\ attempt[j] \in Nat
    BY <1>1, StoredMaxInt DEF Types, TableTypeOK
  <2>4. /\ tx[s].last => attempt[j] + 1 >= StoredMax(j)
        /\ ~tx[s].last /\ j \notin recovered /\ StoredMax(j) > 0 => attempt[j] + 1 < StoredMax(j)
    BY <1>1, <1>2, Zenon DEF AttemptInv, FailDecided
  <2>5. AttemptsCounted'
    <3> SUFFICES ASSUME NEW i \in Jobs, StoredMax(i)' > 0
                 PROVE  /\ state'[i] = "failed" => attempt'[i] >= StoredMax(i)'
                        /\ state'[i] # "failed" /\ i \notin recovered' => attempt'[i] < StoredMax(i)'
      BY DEF AttemptsCounted
    <3>1. StoredMax(i)' = StoredMax(i)
      BY DEF StoredMax
    <3>2. CASE i # j
      BY <1>2, <2>2, <3>1, <3>2 DEF AttemptInv, AttemptsCounted
    <3>3. CASE i = j
      BY <1>2, <2>2, <2>3, <2>4, <3>1, <3>3
    <3> QED
      BY <3>2, <3>3
  <2>6. FailHolds'
    BY <1>1, <1>2, <1>3, HoldsStay DEF AttemptInv
  <2>7. FailDecided'
    <3> SUFFICES ASSUME NEW t \in Connections, tx'[t].op = "fail", NEW i \in tx'[t].jobs
                 PROVE  /\ state'[i] # "unsaved"
                        /\ tx'[t].last => StoredMax(i)' > 0 /\ attempt'[i] + 1 >= StoredMax(i)'
                        /\ ~tx'[t].last /\ i \notin recovered' /\ StoredMax(i)' > 0
                             => attempt'[i] + 1 < StoredMax(i)'
      BY Zenon DEF FailDecided
    <3>1. t # s /\ tx'[t] = tx[t] /\ StoredMax(i)' = StoredMax(i)
      BY <1>3 DEF StoredMax
    <3>2. PICK d \in held : d.by = t /\ tx[t].jobs = {d.job}
      BY <3>1 DEF AttemptInv, FailHolds
    <3>3. i = d.job /\ i \in Jobs
      BY <3>1, <3>2 DEF Types, Claim
    <3>4. CASE i # j
      BY <1>2, <2>2, <3>1, <3>3, <3>4 DEF AttemptInv, FailDecided
    <3>5. CASE i = j
      <4>1. j \in recovered
        BY <3>1, <3>2, <3>3, <3>5, Zenon DEF ClaimsAreDisjoint
      <4>2. state'[i] # "unsaved"
        BY <2>2, <3>5
      <4>3. tx[t].last => StoredMax(j) > 0 /\ attempt[j] + 1 >= StoredMax(j)
        BY <3>1, <3>5 DEF AttemptInv, FailDecided
      <4> HIDE DEF j
      <4> QED
        BY <1>2, <2>2, <2>3, <3>1, <3>5, <4>1, <4>2, <4>3
    <3> QED
      BY <3>4, <3>5, Zenon
  <2> QED
    BY <2>5, <2>6, <2>7 DEF AttemptInv
<1> QED
  BY <1>4, <1>5

\* Every step keeps the attempts counted.
LEMMA AttemptsKept ==
    ASSUME Types, LockInv, ClaimsAreDisjoint, AttemptInv, Next PROVE AttemptInv'
<1>0. /\ Schedulers \subseteq Connections /\ Clients \subseteq Connections /\ Schedulers \cap Clients = {}
      /\ \A c \in held : c.by \in Schedulers /\ c.job \in Jobs
      /\ NoTx.op = "none"
  BY ConnectionsAssumption DEF Connections, Types, Claim, NoTx
<1>1. ASSUME NEW j \in Jobs, BecomesDue(j) \/ LockExpires(j) PROVE AttemptInv'
  <2>1. UNCHANGED <<state, attempt, tx, held, recovered>>
    BY <1>1 DEF BecomesDue, LockExpires, TimePasses
  <2> QED
    BY <2>1, QuietStep
<1>2. ASSUME NEW s \in Schedulers, ClaimUpdate(s) PROVE AttemptInv'
  <2>1. tx'[s].op = "none" /\ \A t \in Connections : t # s => tx'[t] = tx[t]
    BY <1>0, <1>2, TxAfter DEF ClaimUpdate
  <2>2. held \subseteq held' /\ UNCHANGED <<attempt, recovered>>
    BY <1>2, Zenon DEF ClaimUpdate
  <2>3. \A j \in tx[s].jobs : state[j] = "pending"
    BY <1>2, Zenon DEF ClaimUpdate, LockInv
  <2>4. \A j \in Jobs : state'[j] = IF j \in tx[s].jobs THEN "claimed" ELSE state[j]
    BY <1>2, Zenon DEF ClaimUpdate
  <2>5. \A j \in Jobs : /\ state'[j] = "failed" <=> state[j] = "failed"
                        /\ state[j] # "unsaved" => state'[j] # "unsaved"
    BY <2>3, <2>4
  <2> QED
    BY <2>1, <2>2, <2>5, QuietStep
<1>3. ASSUME NEW s \in Schedulers, Crash(s) PROVE AttemptInv'
  <2>1. tx'[s].op = "none" /\ \A t \in Connections : t # s => tx'[t] = tx[t]
    BY <1>0, <1>3, TxAfter DEF Crash
  <2>2. UNCHANGED <<state, attempt, recovered>> /\ held' = {c \in held : c.by # s}
    BY <1>3 DEF Crash, tableVars
  <2> QED
    BY <2>1, <2>2, QuietStep
<1>4. ASSUME NEW s \in Schedulers, NEW S \in SUBSET Jobs, ClaimSelect(s, S) PROVE AttemptInv'
  <2>1. tx'[s].op = "claim" /\ \A t \in Connections : t # s => tx'[t] = tx[t]
    BY <1>0, <1>4, TxAfter DEF ClaimSelect
  <2>2. UNCHANGED <<state, attempt, recovered, held>>
    BY <1>4 DEF ClaimSelect, tableVars
  <2> QED
    BY <2>1, <2>2, QuietStep
<1>5. ASSUME NEW c \in held, AckJob(c) PROVE AttemptInv'
  <2>1. UNCHANGED <<tx, recovered, attempt>> /\ held' = held \ {c} /\ tx[c.by].op = "none"
    BY <1>0, <1>5 DEF AckJob, Ack, tableVars
  <2>2. \A j \in Jobs : state'[j] = state[j] \/ (state[j] = "claimed" /\ state'[j] = "succeeded")
    BY <1>5 DEF AckJob, Ack, tableVars, Types, TableTypeOK
  <2>3. \A j \in Jobs : /\ state'[j] = "failed" <=> state[j] = "failed"
                        /\ state[j] # "unsaved" => state'[j] # "unsaved"
    BY <2>2
  <2> QED
    BY <2>1, <2>3, QuietStep
<1>6. ASSUME NEW s \in Clients, NEW j \in Jobs,
             CancelSelect(s, j) \/ CancelDelete(s, j) \/ RescheduleSelect(s, j) \/ RescheduleUpdate(s, j)
      PROVE  AttemptInv'
  <2>1. tx'[s].op # "fail" /\ \A t \in Connections : t # s => tx'[t] = tx[t]
    <3>1. End(s) \/ Begin(s, "cancel", {j}) \/ Begin(s, "reschedule", {j})
      BY <1>6, Zenon DEF CancelSelect, CancelDelete, RescheduleSelect, RescheduleUpdate
    <3>2. CASE End(s)
      BY <1>0, <3>2, TxAfter
    <3>3. CASE Begin(s, "cancel", {j})
      BY <1>0, <3>3, TxAfter
    <3>4. CASE Begin(s, "reschedule", {j})
      BY <1>0, <3>4, TxAfter
    <3> QED
      BY <3>1, <3>2, <3>3, <3>4
  <2>2. UNCHANGED <<attempt, recovered, held>>
    BY <1>6, Zenon DEF CancelSelect, CancelDelete, RescheduleSelect, RescheduleUpdate, tableVars
  <2>3. \A i \in Jobs : state'[i] = state[i] \/ (Live(i) /\ state'[i] = "cancelled")
    BY <1>6, Zenon DEF CancelSelect, CancelDelete, RescheduleSelect, RescheduleUpdate, tableVars, Types, TableTypeOK
  <2>4. \A i \in Jobs : /\ state'[i] = "failed" <=> state[i] = "failed"
                        /\ state[i] # "unsaved" => state'[i] # "unsaved"
    BY <2>3 DEF Live
  <2> QED
    BY <2>1, <2>2, <2>4, QuietStep
<1>7. ASSUME RecoverStaleJobs PROVE AttemptInv'
  <2>1. UNCHANGED <<tx, attempt, held>> /\ recovered \subseteq recovered'
    BY <1>7 DEF RecoverStaleJobs, RecoverStale
  <2>2. \A i \in Jobs : /\ state'[i] = "failed" <=> state[i] = "failed"
                        /\ state[i] # "unsaved" => state'[i] # "unsaved"
    BY <1>7 DEF RecoverStaleJobs, RecoverStale, StaleClaims
  <2> QED
    BY <2>1, <2>2, QuietStep
<1> QED
  BY <1>1, <1>2, <1>3, <1>4, <1>5, <1>6, <1>7, SaveAttempts, FailSelectAttempts, FailWriteAttempts
     DEF Next
-----------------------------------------------------------------------------
(* The inductive invariant. *)

PgInv == Types /\ LockInv /\ ClaimsAreDisjoint /\ AttemptInv

\* Initially the invariant holds.
LEMMA PgInit == Init => PgInv
<1> SUFFICES ASSUME Init PROVE PgInv
  OBVIOUS
<1>1. Types
  BY BatchAssumption DEF Init, TableInit, Types, TableTypeOK, States, Transactions, NoTx
<1>2. \A s \in Connections : tx[s].op = "none"
  BY DEF Init, NoTx
<1>3. LockInv
  BY <1>2 DEF LockInv, Connections
<1>4. ClaimsAreDisjoint
  BY DEF Init, ClaimsAreDisjoint
<1>5. AttemptsCounted
  BY StoredMaxInt DEF Init, TableInit, AttemptsCounted
<1>6. FailHolds /\ FailDecided
  BY <1>2 DEF FailHolds, FailDecided
<1> QED
  BY <1>1, <1>3, <1>4, <1>5, <1>6 DEF PgInv, AttemptInv

\* Every step, and stuttering, keeps it.
LEMMA PgSteps == PgInv /\ [Next]_vars => PgInv'
<1> SUFFICES ASSUME PgInv, [Next]_vars PROVE PgInv'
  OBVIOUS
<1>1. CASE Next
  BY <1>1, TypesKept, LocksKept, ClaimsKept, AttemptsKept DEF PgInv
<1>2. CASE UNCHANGED vars
  <2>1. UNCHANGED <<state, attempt, due, stale, tx, held, claims, recovered, disruptions>>
    BY <1>2 DEF vars, tableVars
  <2>2. Types' /\ LockInv'
    BY <2>1, Zenon DEF PgInv, Types, TableTypeOK, LockInv
  <2>3. ClaimsAreDisjoint'
    BY <2>1 DEF PgInv, ClaimsAreDisjoint
  <2>4. AttemptInv'
    BY <2>1, QuietStep DEF PgInv
  <2> QED
    BY <2>2, <2>3, <2>4 DEF PgInv
<1> QED
  BY <1>1, <1>2

\* The invariant holds throughout.
LEMMA PgInvHolds == Spec => []PgInv
  BY PgInit, PgSteps, PTL DEF Spec

\* SELECT ... FOR UPDATE SKIP LOCKED: a row is locked by one claim at a time, and
\* stays pending until that claim updates it.
THEOREM PgTypeCorrect == Spec => []TypeOK
<1>1. PgInv => TypeOK
  BY TypeParts DEF PgInv
<1> QED
  BY <1>1, PgInvHolds, PTL

\* Concurrent schedulers get disjoint sets of jobs from Postgres until recovery
\* takes a job back.
THEOREM PgClaimsDisjoint == Spec => []ClaimsAreDisjoint
<1>1. PgInv => ClaimsAreDisjoint
  BY DEF PgInv
<1> QED
  BY <1>1, PgInvHolds, PTL

\* Although Fail reads and writes in two statements, every attempt is counted once
\* and no job runs past its cap, recovery aside.
THEOREM PgAttemptsCounted == Spec => []AttemptsCounted
<1>1. PgInv => AttemptsCounted
  BY DEF PgInv, AttemptInv
<1> QED
  BY <1>1, PgInvHolds, PTL
=============================================================================
