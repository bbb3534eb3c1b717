-------------------------- MODULE SchedulerProofs --------------------------
(***************************************************************************)
(* Machine-checked proofs about Scheduler, for any number of jobs, queues, *)
(* schedulers, pools, workers and disruptions: its typing, how copies move *)
(* from a claim through batch and channel to a worker, and that every      *)
(* claim is in one place. From it: copies of jobs never taken back are     *)
(* current, and what a hook reports of them is what the row says.          *)
(***************************************************************************)
EXTENDS Scheduler, TLAPS

-----------------------------------------------------------------------------
(* Typing. *)

\* Every store call keeps the job table typed.
LEMMA TableSteps ==
    ASSUME TableTypeOK, NEW j \in Jobs
    PROVE  /\ Save(j) => TableTypeOK'
           /\ Ack(j) => TableTypeOK'
           /\ Fail(j) => TableTypeOK'
           /\ Cancel(j) => TableTypeOK'
           /\ Reschedule(j) => TableTypeOK'
  BY DEF TableTypeOK, States, Terminal, Save, Ack, Fail, Cancel, Reschedule, tableVars

\* So do the calls that touch many rows, and the passing of time.
LEMMA TableSetSteps ==
    ASSUME TableTypeOK
    PROVE  /\ \A q, S : ClaimDue(q, S) => TableTypeOK'
           /\ RecoverStale => TableTypeOK'
           /\ \A D, E \in SUBSET Jobs : TimePasses(D, E) => TableTypeOK'
  BY DEF TableTypeOK, States, Terminal, ClaimDue, RecoverStale, TimePasses

\* The table does not change when its variables do not.
LEMMA TableStutter ==
    ASSUME TableTypeOK, UNCHANGED tableVars
    PROVE  TableTypeOK'
  BY DEF TableTypeOK, tableVars

\* What a claim may return is a sequence of jobs, all due.
LEMMA BatchesAreSeqs ==
    ASSUME NEW p \in Pools, NEW b \in Batches(p), due \subseteq Jobs
    PROVE  /\ b \in Seq(Jobs)
           /\ IsInjective(b)
           /\ Range(b) \subseteq DueIn(Serves[p])
           /\ Range(b) \subseteq Jobs
  BY DEF Batches, DueIn, Range

\* Every variable keeps its type.
THEOREM Typing == Spec => []TypeOK
<1>1. Init => TypeOK
  <2> SUFFICES ASSUME Init PROVE TypeOK
    OBVIOUS
  <2>1. TableTypeOK
    BY DEF Init, TableInit, TableTypeOK, States
  <2>2. \A p \in Pools : Len(ch[p]) <= Concurrency(p)
    BY ConcurrencyAssumption DEF Init
  <2>3. disruptions \in 0..MaxDisruptions
    BY MaxDisruptionsAssumption DEF Init
  <2> QED
    BY <2>1, <2>2, <2>3 DEF Init, TypeOK, Phases
<1>2. TypeOK /\ [Next]_vars => TypeOK'
  <2> SUFFICES ASSUME TypeOK, [Next]_vars PROVE TypeOK'
    OBVIOUS
  <2>0. TableTypeOK /\ (UNCHANGED tableVars => TableTypeOK') /\ (Disrupt => disruptions' \in 0..MaxDisruptions)
    BY TableStutter, MaxDisruptionsAssumption DEF TypeOK, Disrupt
  <2>1. ASSUME NEW s \in Schedulers, NEW j \in Jobs, At(s, j) PROVE TypeOK'
    BY <2>0, <2>1, TableSteps, Zenon DEF At, TypeOK, procVars, pipeVars, hookVars
  <2>2. ASSUME NEW j \in Jobs, CancelJob(j) PROVE TypeOK'
    BY <2>0, <2>2, TableSteps, Zenon DEF CancelJob, TypeOK, procVars, pipeVars, hookVars
  <2>3. ASSUME NEW j \in Jobs, RescheduleJob(j) PROVE TypeOK'
    BY <2>0, <2>3, TableSteps, Zenon DEF RescheduleJob, TypeOK, procVars, pipeVars, hookVars
  <2>4. ASSUME NEW j \in Jobs, BecomesDue(j) PROVE TypeOK'
    BY <2>0, <2>4, TableSetSteps, Zenon DEF BecomesDue, TypeOK, procVars, pipeVars, hookVars
  <2>5. ASSUME NEW j \in Jobs, LockExpires(j) PROVE TypeOK'
    BY <2>0, <2>5, TableSetSteps, Zenon DEF LockExpires, TypeOK, procVars, pipeVars, hookVars
  <2>6. ASSUME NEW p \in Pools, NEW b \in Batches(p), ClaimBatch(p, b)
        PROVE  TableTypeOK' /\ claims' \in [Jobs -> Nat]
    BY <2>0, <2>6, TableSetSteps DEF ClaimBatch, TypeOK
  <2>7. ASSUME NEW p \in Pools, Poll(p) PROVE TypeOK'
    <3>1. PICK b \in Batches(p) :
            /\ ClaimBatch(p, b)
            /\ batch' = [batch EXCEPT ![p] =
                   [i \in 1..Len(b) |-> [id |-> b[i], attempt |-> attempt[b[i]],
                                         claim |-> claims[b[i]] + 1]]]
            /\ UNCHANGED <<procVars, ch, work, hookVars, disruptions, recovered>>
      BY <2>7, Zenon DEF Poll
    <3>2. b \in Seq(Jobs)
      BY <3>1, <2>0, BatchesAreSeqs, Zenon DEF TableTypeOK
    <3>3. \A i \in 1..Len(b) :
            [id |-> b[i], attempt |-> attempt[b[i]], claim |-> claims[b[i]] + 1] \in Copy
      BY <3>2, <2>0 DEF TypeOK, TableTypeOK, Copy
    <3>4. [i \in 1..Len(b) |-> [id |-> b[i], attempt |-> attempt[b[i]],
                                claim |-> claims[b[i]] + 1]] \in Seq(Copy)
      BY <3>2, <3>3
    <3> QED
      BY <3>1, <3>4, <2>6, Zenon DEF TypeOK, procVars, hookVars
  <2>8. ASSUME NEW p \in Pools, PollReplyLost(p) PROVE TypeOK'
    BY <2>0, <2>6, <2>8, Zenon DEF PollReplyLost, TypeOK, procVars, pipeVars, hookVars
  <2>9. ASSUME NEW p \in Pools, Push(p) PROVE TypeOK'
    <3>1. Head(batch[p]) \in Copy /\ Tail(batch[p]) \in Seq(Copy)
      BY <2>9 DEF Push, TypeOK
    <3>2. /\ Append(ch[p], Head(batch[p])) \in Seq(Copy)
          /\ Len(Append(ch[p], Head(batch[p]))) <= Concurrency(p)
      BY <2>9, <3>1, ConcurrencyAssumption DEF Push, TypeOK
    <3> QED
      BY <2>0, <2>9, <3>1, <3>2, Zenon DEF Push, TypeOK, procVars, hookVars
  <2>10. ASSUME NEW p \in Pools, DispatcherExit(p) PROVE TypeOK'
    <3>1. SchedulerOf[p] \in Schedulers
      BY PoolsAssumption
    <3>2. wg' \in [Schedulers -> SUBSET Loops]
      BY <2>10, <3>1, Zenon DEF DispatcherExit, TypeOK
    <3>3. batch' \in [Pools -> Seq(Copy)]
      BY <2>10 DEF DispatcherExit, TypeOK
    <3> QED
      BY <2>0, <2>10, <3>2, <3>3, Zenon DEF DispatcherExit, TypeOK, hookVars
  <2>11. ASSUME NEW w \in Workers, Take(w) PROVE TypeOK'
    <3> DEFINE p == PoolOf[w]
    <3>1. p \in Pools
      BY WorkersAssumption
    <3>2. /\ Head(ch[p]) \in Copy /\ Tail(ch[p]) \in Seq(Copy)
          /\ Len(Tail(ch[p])) <= Concurrency(p)
      BY <2>11, <3>1, ConcurrencyAssumption DEF Take, TypeOK
    <3>3. /\ work' = [work EXCEPT ![w] = Head(ch[p])]
          /\ ch' = [ch EXCEPT ![p] = Tail(@)]
          /\ UNCHANGED <<tableVars, procVars, batch, hookVars, disruptions, recovered, claims>>
      BY <2>11, Zenon DEF Take
    <3> QED
      BY <2>0, <3>1, <3>2, <3>3, Zenon DEF TypeOK, procVars, hookVars
  <2>12. ASSUME NEW w \in Workers, WorkerExit(w) PROVE TypeOK'
    BY <2>0, <2>12, Zenon DEF WorkerExit, TypeOK, pipeVars, hookVars
  <2>13. ASSUME NEW w \in Workers, Executing(w) PROVE work[w].id \in Jobs
    BY <2>13 DEF Executing, TypeOK, Copy
  <2>14. ASSUME NEW s \in Schedulers, CallFails(s)
         PROVE  TableTypeOK' /\ disruptions' \in 0..MaxDisruptions
    BY <2>0, <2>14 DEF CallFails, TypeOK
  <2>15. \A w \in Workers : Host(w) \in Schedulers
    BY WorkersAssumption, PoolsAssumption DEF Host
  <2>16. ASSUME NEW w \in Workers, NoHandler(w) PROVE TypeOK'
    BY <2>0, <2>13, <2>14, <2>15, <2>16, TableSteps, Zenon DEF NoHandler, Return, TypeOK, procVars
  <2>17. ASSUME NEW w \in Workers, HandlerSucceeds(w) PROVE TypeOK'
    BY <2>0, <2>13, <2>14, <2>15, <2>17, TableSteps, Zenon
       DEF HandlerSucceeds, Return, TypeOK, procVars
  <2>18. ASSUME NEW w \in Workers, HandlerFails(w) PROVE TypeOK'
    BY <2>0, <2>13, <2>14, <2>15, <2>18, TableSteps, Zenon
       DEF HandlerFails, Return, TypeOK, procVars
  <2>19. ASSUME NEW s \in Schedulers, Janitor(s) PROVE TypeOK'
    BY <2>0, <2>19, TableSetSteps, Zenon
       DEF Janitor, StaleClaims, TypeOK, TableTypeOK, procVars, pipeVars, hookVars
  <2>20. ASSUME NEW s \in Schedulers, Start(s) PROVE TypeOK'
    BY <2>0, <2>20, Zenon DEF Start, PoolsOf, Loops, Phases, TypeOK, pipeVars, hookVars
  <2>21. ASSUME NEW s \in Schedulers, CancelCtx(s) PROVE TypeOK'
    BY <2>0, <2>21, Zenon DEF CancelCtx, Phases, TypeOK, pipeVars, hookVars
  <2>22. ASSUME NEW s \in Schedulers, LoopExit(s) PROVE TypeOK'
    BY <2>0, <2>22, Zenon DEF LoopExit, TypeOK, pipeVars, hookVars
  <2>23. ASSUME NEW s \in Schedulers, StartReturns(s) PROVE TypeOK'
    BY <2>0, <2>23, Zenon DEF StartReturns, Phases, TypeOK, pipeVars, hookVars
  <2>24. ASSUME NEW s \in Schedulers, Vanish(s), disruptions' \in 0..MaxDisruptions PROVE TypeOK'
    BY <2>0, <2>24, ConcurrencyAssumption DEF Vanish, Phases, TypeOK, hookVars
  <2>25. ASSUME NEW s \in Schedulers, Crash(s) \/ ProcessEnds(s) PROVE TypeOK'
    BY <2>0, <2>24, <2>25, Zenon DEF Crash, ProcessEnds, TypeOK
  <2>26. CASE UNCHANGED vars
    BY <2>0, <2>26 DEF vars, TypeOK, procVars, pipeVars, hookVars
  <2> QED
    BY <2>1, <2>2, <2>3, <2>4, <2>5, <2>7, <2>8, <2>9, <2>10, <2>11, <2>12, <2>16, <2>17,
       <2>18, <2>19, <2>20, <2>21, <2>22, <2>23, <2>25, <2>26
    DEF Next, JobStep, PoolStep, WorkerStep, ProcessStep
<1> QED
  BY <1>1, <1>2, PTL DEF Spec

-----------------------------------------------------------------------------
(* Attempts. *)

\* A job with a positive cap has failed for good exactly when its counted attempts
\* reached the cap.
THEOREM FailureIsExhaustion == Spec => []FailedMeansExhausted
<1>1. Init => FailedMeansExhausted
  BY DEF Init, TableInit, FailedMeansExhausted, StoredMax
<1>2. TypeOK /\ FailedMeansExhausted /\ [Next]_vars => FailedMeansExhausted'
  <2> SUFFICES ASSUME TypeOK, FailedMeansExhausted, [Next]_vars PROVE FailedMeansExhausted'
    OBVIOUS
  <2>0. /\ state \in [Jobs -> States] /\ attempt \in [Jobs -> Nat]
        /\ \A j \in Jobs : StoredMax(j) \in Int
    BY MaxAttemptsAssumption DEF TypeOK, TableTypeOK, StoredMax
  <2>1. CASE UNCHANGED <<state, attempt>>
    BY <2>1 DEF FailedMeansExhausted
  <2>2. ASSUME attempt' = attempt, \A j \in Jobs : state'[j] = "failed" <=> state[j] = "failed"
        PROVE  FailedMeansExhausted'
    BY <2>2 DEF FailedMeansExhausted
  <2>3. ASSUME NEW j \in Jobs, Fail(j) PROVE FailedMeansExhausted'
    BY <2>0, <2>3 DEF Fail, Exhausts, FailedMeansExhausted, tableVars
  <2>4. ASSUME NEW j \in Jobs, Ack(j) PROVE FailedMeansExhausted'
    BY <2>0, <2>2, <2>4 DEF Ack, tableVars
  <2>5. ASSUME NEW s \in Schedulers, NEW j \in Jobs, At(s, j) PROVE FailedMeansExhausted'
    BY <2>0, <2>5, Zenon DEF At, Save, FailedMeansExhausted
  <2>6. ASSUME NEW j \in Jobs, CancelJob(j) PROVE FailedMeansExhausted'
    BY <2>2, <2>6 DEF CancelJob, Cancel
  <2>7. ASSUME NEW j \in Jobs, RescheduleJob(j) \/ BecomesDue(j) \/ LockExpires(j)
        PROVE  FailedMeansExhausted'
    BY <2>1, <2>7, Zenon DEF RescheduleJob, Reschedule, BecomesDue, LockExpires, TimePasses
  <2>8. ASSUME NEW p \in Pools, NEW b \in Batches(p), ClaimBatch(p, b) PROVE FailedMeansExhausted'
    BY <2>2, <2>8, Zenon DEF ClaimBatch, ClaimDue, DueIn, TypeOK, TableTypeOK
  <2>9. ASSUME NEW p \in Pools, Poll(p) \/ PollReplyLost(p) PROVE FailedMeansExhausted'
    BY <2>8, <2>9, Zenon DEF Poll, PollReplyLost
  <2>10. ASSUME NEW p \in Pools, Push(p) \/ DispatcherExit(p) PROVE FailedMeansExhausted'
    BY <2>1, <2>10, Zenon DEF Push, DispatcherExit, tableVars
  <2>11. ASSUME NEW w \in Workers, Take(w) \/ WorkerExit(w) PROVE FailedMeansExhausted'
    BY <2>1, <2>11, Zenon DEF Take, WorkerExit, tableVars
  <2>12. ASSUME NEW w \in Workers, NoHandler(w) \/ HandlerSucceeds(w) \/ HandlerFails(w)
         PROVE  FailedMeansExhausted'
    BY <2>12, Zenon, <2>1, <2>3, <2>4
       DEF NoHandler, HandlerSucceeds, HandlerFails, Executing, TypeOK, Copy, CallFails, tableVars
  <2>13. ASSUME NEW s \in Schedulers, Janitor(s) PROVE FailedMeansExhausted'
    BY <2>2, <2>13 DEF Janitor, RecoverStale, StaleClaims
  <2>14. ASSUME NEW s \in Schedulers,
                Start(s) \/ CancelCtx(s) \/ LoopExit(s) \/ StartReturns(s) \/ Vanish(s)
         PROVE  FailedMeansExhausted'
    BY <2>1, <2>14, Zenon DEF Start, CancelCtx, LoopExit, StartReturns, Vanish, tableVars
  <2>15. CASE UNCHANGED vars
    BY <2>1, <2>15 DEF vars, tableVars
  <2> QED
    BY <2>5, <2>6, <2>7, <2>9, <2>10, <2>11, <2>12, <2>13, <2>14, <2>15
       DEF Next, JobStep, PoolStep, WorkerStep, ProcessStep, Crash, ProcessEnds
<1> QED
  BY <1>1, <1>2, Typing, PTL DEF Spec


-----------------------------------------------------------------------------
(* Sequences of copies.  OnceIn and Apart under the operations the pipeline *)
(* performs.                                                                *)

\* Sequences with equal elements are equal.
LEMMA SeqEqual ==
    ASSUME NEW S, NEW s \in Seq(S), NEW t \in Seq(S), Len(s) = Len(t),
           \A i \in 1..Len(s) : s[i] = t[i]
    PROVE  s = t
  OBVIOUS

\* A concatenation holds what its parts hold.
LEMMA RangeConcatenation ==
    ASSUME NEW S, NEW s \in Seq(S), NEW t \in Seq(S)
    PROVE  Range(s \o t) = Range(s) \cup Range(t)
<1> DEFINE st == s \o t
<1>1. /\ DOMAIN st = 1..(Len(s) + Len(t))
      /\ DOMAIN s = 1..Len(s)
      /\ DOMAIN t = 1..Len(t)
      /\ Len(s) \in Nat /\ Len(t) \in Nat
  OBVIOUS
<1>2. /\ \A i \in 1..Len(s) : st[i] = s[i]
      /\ \A i \in 1..Len(t) : st[Len(s) + i] = t[i]
  OBVIOUS
<1> HIDE DEF st
<1>3. ASSUME NEW x \in Range(st) PROVE x \in Range(s) \cup Range(t)
  <2>1. PICK i \in DOMAIN st : x = st[i]
    BY DEF Range
  <2>2. CASE i <= Len(s)
    BY <1>1, <1>2, <2>1, <2>2 DEF Range
  <2>3. CASE i > Len(s)
    <3>1. i - Len(s) \in DOMAIN t /\ i = Len(s) + (i - Len(s))
      BY <1>1, <2>3
    <3> QED
      BY <3>1, <1>2, <2>1 DEF Range
  <2> QED
    BY <1>1, <2>2, <2>3
<1>4. ASSUME NEW x \in Range(s) PROVE x \in Range(st)
  BY <1>1, <1>2 DEF Range
<1>5. ASSUME NEW x \in Range(t) PROVE x \in Range(st)
  BY <1>1, <1>2 DEF Range
<1> QED
  BY <1>3, <1>4, <1>5 DEF st

\* Pushing the head of the batch does not change channel followed by batch.
LEMMA PushKeepsPipe ==
    ASSUME NEW S, NEW s \in Seq(S), NEW t \in Seq(S), t # <<>>
    PROVE  Append(s, Head(t)) \o Tail(t) = s \o t
<1>3. /\ Append(s, Head(t)) \o Tail(t) \in Seq(S) /\ s \o t \in Seq(S)
      /\ Len(Append(s, Head(t)) \o Tail(t)) = Len(s \o t)
  OBVIOUS
<1>4. \A i \in 1..Len(s \o t) : (Append(s, Head(t)) \o Tail(t))[i] = (s \o t)[i]
  OBVIOUS
<1> QED
  BY <1>3, <1>4, SeqEqual, Zenon

\* Receiving from a nonempty channel takes the head of the pipe.
LEMMA TakeFromPipe ==
    ASSUME NEW S, NEW s \in Seq(S), NEW t \in Seq(S), s # <<>>
    PROVE  s \o t # <<>> /\ Head(s \o t) = Head(s) /\ Tail(s \o t) = Tail(s) \o t
  OBVIOUS

\* The head of a sequence without repeated claims is not repeated in its tail.
LEMMA OnceTail ==
    ASSUME NEW S, NEW s \in Seq(S), s # <<>>, OnceIn(s)
    PROVE  /\ OnceIn(Tail(s))
           /\ Range(Tail(s)) \subseteq Range(s)
           /\ Head(s) \in Range(s)
           /\ Apart({Head(s)}, Range(Tail(s)))
  BY DEF OnceIn, Apart, Range

\* A prefix of a sequence without repeated claims has none either.
LEMMA OncePrefix ==
    ASSUME NEW S, NEW s \in Seq(S), NEW t \in Seq(S), OnceIn(s \o t)
    PROVE  OnceIn(s) /\ Range(s) \subseteq Range(s \o t)
<1>1. /\ Len(s) \in Nat /\ Len(t) \in Nat /\ DOMAIN s = 1..Len(s)
      /\ DOMAIN (s \o t) = 1..(Len(s) + Len(t))
      /\ \A i \in 1..Len(s) : (s \o t)[i] = s[i]
  OBVIOUS
<1> QED
  BY <1>1 DEF OnceIn, Range

\* Claims that are apart may be queued behind each other.
LEMMA OnceConcat ==
    ASSUME NEW S, NEW s \in Seq(S), NEW t \in Seq(S),
           OnceIn(s), OnceIn(t), Apart(Range(s), Range(t))
    PROVE  OnceIn(s \o t)
<1>1. /\ Len(s) \in Nat /\ Len(t) \in Nat /\ DOMAIN s = 1..Len(s) /\ DOMAIN t = 1..Len(t)
      /\ DOMAIN (s \o t) = 1..(Len(s) + Len(t))
      /\ \A i \in 1..(Len(s) + Len(t)) : (s \o t)[i] = IF i <= Len(s) THEN s[i] ELSE t[i - Len(s)]
  OBVIOUS
<1>2. \A x \in 1..Len(s), y \in 1..Len(t) : ~SameClaim(s[x], t[y]) /\ ~SameClaim(t[y], s[x])
  BY <1>1, Zenon DEF Apart, Range, SameClaim
<1>3. ASSUME NEW x \in 1..(Len(s) + Len(t)), NEW y \in 1..(Len(s) + Len(t)),
             SameClaim((s \o t)[x], (s \o t)[y])
      PROVE  x = y
  <2>1. CASE x <= Len(s) /\ y <= Len(s)
    BY <1>3, <2>1 DEF OnceIn
  <2>2. CASE x > Len(s) /\ y > Len(s)
    <3>1. x - Len(s) \in DOMAIN t /\ y - Len(s) \in DOMAIN t
      BY <1>1, <2>2
    <3> QED
      BY <3>1, <1>3, <2>2 DEF OnceIn
  <2>3. CASE x <= Len(s) /\ y > Len(s)
    BY <1>2, <1>3, <2>3
  <2>4. CASE x > Len(s) /\ y <= Len(s)
    BY <1>2, <1>3, <2>4
  <2> QED
    BY <2>1, <2>2, <2>3, <2>4
<1> QED
  BY <1>1, <1>3, Zenon DEF OnceIn

-----------------------------------------------------------------------------
(* One claim, one copy. *)

\* Every copy carries a claim number that was given out.
Numbered == \A c \in Copies : c.claim <= claims[c.id]

\* Where copies are: pipes are sequences of copies; a copy waits in some pipe or
\* is being executed by some worker.
PlacesKnown ==
    /\ \A p \in Pools : Pipe(p) \in Seq(Copy) /\ Range(Pipe(p)) \subseteq Copies
    /\ \A w \in Workers : Executing(w) => work[w] \in Copies
    /\ \A c \in Copies : \/ \E p \in Pools : c \in Range(Pipe(p))
                         \/ \E w \in Workers : Executing(w) /\ c = work[w]
    /\ Copies \subseteq Copy

\* That is a matter of types.
LEMMA Places == TypeOK => PlacesKnown
<1> SUFFICES ASSUME TypeOK PROVE PlacesKnown
  OBVIOUS
<1>1. \A p \in Pools : Pipe(p) \in Seq(Copy) /\ Range(Pipe(p)) = Waiting(p)
  BY RangeConcatenation DEF TypeOK, Pipe, Waiting
<1>6. ASSUME NEW c \in Copies
      PROVE  \/ \E p \in Pools : c \in Range(Pipe(p))
             \/ \E w \in Workers : Executing(w) /\ c = work[w]
  BY <1>1 DEF Executing, Copies
<1> QED
  BY <1>1 DEF PlacesKnown, Copies, Executing, TypeOK, Range

\* Also in the next state.
LEMMA PlacesNext == TypeOK' => PlacesKnown'
  BY Places, PTL

\* Steps that only remove copies keep claims unique.
LEMMA Shrinking ==
    ASSUME ClaimedOnce,
           \A p \in Pools : OnceIn(Pipe(p)') /\ Range(Pipe(p)') \subseteq Range(Pipe(p)),
           \A w \in Workers : work'[w] \in {work[w], Idle}
    PROVE  ClaimedOnce'
  BY DEF ClaimedOnce, Apart, Executing

\* After such a step every copy was there before.
LEMMA ShrinkingCopies ==
    ASSUME PlacesKnown, PlacesKnown',
           \A p \in Pools : Range(Pipe(p)') \subseteq Range(Pipe(p)),
           \A w \in Workers : work'[w] \in {work[w], Idle}
    PROVE  Copies' \subseteq Copies
  BY DEF PlacesKnown, Executing

\* A step that leaves the pipeline alone.
LEMMA Untouched ==
    ASSUME UNCHANGED pipeVars
    PROVE  Copies' = Copies /\ (ClaimedOnce => ClaimedOnce')
  BY Zenon DEF pipeVars, Copies, Waiting, ClaimedOnce, Pipe, Executing

\* The inductive invariant.  ClaimedOnce needs Numbered: a new claim gets a number
\* no copy has.  CopiesAreCurrent needs ClaimedOnce: when a worker finishes, no
\* other copy of the claim is left behind.
ClaimInv == ClaimedOnce /\ Numbered /\ CopiesAreCurrent

\* How Numbered and CopiesAreCurrent survive a step that adds no copy: rows of
\* jobs that are still held and were not taken back have not changed.
LEMMA Kept ==
    ASSUME TypeOK, TypeOK', ClaimInv,
           Copies' \subseteq Copies,
           recovered \subseteq recovered',
           \A j \in Jobs : claims'[j] >= claims[j],
           \A c \in Copies' : c.id \notin recovered' =>
               /\ state'[c.id] = state[c.id]
               /\ attempt'[c.id] = attempt[c.id]
               /\ claims'[c.id] = claims[c.id]
    PROVE  Numbered' /\ CopiesAreCurrent'
<1>2. Numbered'
  <2> SUFFICES ASSUME NEW c \in Copies' PROVE c.claim <= claims'[c.id]
    BY DEF Numbered
  <2>1. c \in Copy /\ c.claim <= claims[c.id]
    BY Places DEF ClaimInv, Numbered, PlacesKnown
  <2>2. c.id \in Jobs /\ c.claim \in Nat /\ claims[c.id] \in Nat /\ claims'[c.id] \in Nat
    BY <2>1, Zenon DEF Copy, TypeOK
  <2> QED
    BY <2>1, <2>2
<1> QED
  BY <1>2 DEF ClaimInv, CopiesAreCurrent

\* A worker that finishes takes the only copy of its claim with it.
LEMMA Returning ==
    ASSUME TypeOK, TypeOK', ClaimInv, NEW w \in Workers, Executing(w), Return(w)
    PROVE  /\ ClaimedOnce'
           /\ Copies' \subseteq Copies
           /\ \A c \in Copies' : ~SameClaim(work[w], c)
<1>2. /\ \A p \in Pools : Pipe(p)' = Pipe(p)
      /\ work'[w] = Idle
      /\ \A v \in Workers : v # w => work'[v] = work[v]
  BY DEF Return, Pipe, TypeOK
<1>5. ASSUME NEW c \in Copies' PROVE ~SameClaim(work[w], c)
  <2>1. CASE \E p \in Pools : c \in Range(Pipe(p)')
    BY <1>2, <2>1 DEF ClaimInv, ClaimedOnce, Apart
  <2>2. CASE \E v \in Workers : Executing(v)' /\ c = work'[v]
    BY <1>2, <2>2 DEF ClaimInv, ClaimedOnce, Executing
  <2> QED
    BY PlacesNext, <2>1, <2>2, Zenon DEF PlacesKnown
<1> QED
  BY <1>2, Shrinking, Zenon, Places, PlacesNext, ShrinkingCopies, <1>5 DEF ClaimInv, ClaimedOnce

\* What Ack, Fail or a failed call may do to rows when a worker finishes.
LEMMA Finishing ==
    ASSUME TypeOK, TypeOK', ClaimInv, NEW w \in Workers, Executing(w), Return(w),
           Ack(work[w].id) \/ Fail(work[w].id) \/ UNCHANGED tableVars
    PROVE  ClaimInv'
<1> DEFINE j == work[w].id
<1>2. work[w] \in Copies /\ Copies \subseteq Copy
  BY Places DEF PlacesKnown
<1>3. \A i \in Jobs : i # j => state'[i] = state[i] /\ attempt'[i] = attempt[i]
  <2>1. state \in [Jobs -> States] /\ attempt \in [Jobs -> Nat]
    BY Zenon DEF TypeOK, TableTypeOK
  <2> QED
    BY <2>1, Zenon DEF Ack, Fail, tableVars
<1>4. UNCHANGED <<recovered, claims>>
  BY DEF Return
<1>5. ASSUME NEW c \in Copies', c.id \notin recovered' PROVE c.id # j
  BY Returning, <1>2, <1>4, <1>5 DEF ClaimInv, CopiesAreCurrent, SameClaim
<1>7. \A i \in Jobs : claims'[i] >= claims[i]
  BY <1>4 DEF TypeOK
<1> QED
  BY Returning, <1>3, <1>4, <1>5, <1>2, <1>7, Kept DEF ClaimInv, Copy

\* Receiving moves the head of a pipe to a worker.
LEMMA Taking ==
    ASSUME TypeOK, TypeOK', ClaimInv, NEW w \in Workers, Take(w)
    PROVE  ClaimedOnce' /\ Copies' \subseteq Copies
<1> DEFINE p == PoolOf[w]
<1>1. p \in Pools /\ PlacesKnown /\ PlacesKnown'
  BY WorkersAssumption, Places, PlacesNext
<1>2. ch[p] # <<>> /\ ch[p] \in Seq(Copy) /\ batch[p] \in Seq(Copy)
  BY <1>1, Zenon DEF Take, TypeOK
<1>3. /\ Pipe(p)' = Tail(ch[p]) \o batch[p]
      /\ \A q \in Pools : q # p => Pipe(q)' = Pipe(q)
      /\ work'[w] = Head(ch[p]) /\ ~Executing(w)
      /\ \A v \in Workers : v # w => work'[v] = work[v]
  BY <1>1, Zenon DEF Take, Pipe, TypeOK, Executing
<1>4. Pipe(p) # <<>> /\ Pipe(p)' = Tail(Pipe(p)) /\ work'[w] = Head(Pipe(p))
  <2>1. /\ ch[p] \o batch[p] # <<>>
        /\ Tail(ch[p]) \o batch[p] = Tail(ch[p] \o batch[p])
        /\ Head(ch[p]) = Head(ch[p] \o batch[p])
    BY <1>2, TakeFromPipe, Zenon
  <2> QED
    BY <1>3, <2>1, Zenon DEF Pipe
<1>5. /\ OnceIn(Pipe(p)') /\ Range(Pipe(p)') \subseteq Range(Pipe(p))
      /\ work'[w] \in Range(Pipe(p)) /\ Apart({work'[w]}, Range(Pipe(p)'))
  BY <1>1, <1>4, OnceTail, Zenon DEF PlacesKnown, ClaimInv, ClaimedOnce
<1>6. \A q \in Pools : OnceIn(Pipe(q)') /\ Range(Pipe(q)') \subseteq Range(Pipe(q))
  BY <1>3, <1>5, Zenon DEF ClaimInv, ClaimedOnce
<1>8. ASSUME NEW v \in Workers, NEW q \in Pools, Executing(v)'
      PROVE  Apart({work'[v]}, Range(Pipe(q)'))
  <2>1. CASE v = w /\ q = p
    BY <1>5, <2>1
  <2>2. CASE v = w /\ q # p
    BY <1>1, <1>5, <1>6, <2>2, Zenon DEF ClaimInv, ClaimedOnce, Apart
  <2>3. CASE v # w
    BY <1>3, <1>6, <1>8, <2>3 DEF ClaimInv, ClaimedOnce, Apart, Executing
  <2> QED
    BY <2>1, <2>2, <2>3
<1>9. ASSUME NEW u \in Workers, NEW v \in Workers, u # v, Executing(u)', Executing(v)'
      PROVE  ~SameClaim(work'[u], work'[v])
  <2>1. CASE u # w /\ v # w
    BY <1>3, <1>9, <2>1, Zenon DEF ClaimInv, ClaimedOnce, Executing
  <2>2. CASE u = w
    BY <1>1, <1>3, <1>5, <1>9, <2>2 DEF ClaimInv, ClaimedOnce, Apart, Executing, SameClaim
  <2>3. CASE v = w
    BY <1>1, <1>3, <1>5, <1>9, <2>3 DEF ClaimInv, ClaimedOnce, Apart, Executing, SameClaim
  <2> QED
    BY <2>1, <2>2, <2>3
<1>11. ASSUME NEW c \in Copies' PROVE c \in Copies
  <2>1. CASE \E q \in Pools : c \in Range(Pipe(q)')
    BY <1>1, <1>6, <2>1, Zenon DEF PlacesKnown
  <2>2. CASE \E v \in Workers : Executing(v)' /\ c = work'[v]
    <3>1. PICK v \in Workers : Executing(v)' /\ c = work'[v]
      BY <2>2
    <3>2. CASE v = w
      BY <1>1, <1>5, <3>1, <3>2, Zenon DEF PlacesKnown
    <3>3. CASE v # w
      BY <1>1, <1>3, <3>1, <3>3, Zenon DEF PlacesKnown, Executing
    <3> QED
      BY <3>2, <3>3
  <2> QED
    BY <1>1, <2>1, <2>2 DEF PlacesKnown
<1> QED
  BY <1>6, <1>8, <1>9, <1>11 DEF ClaimedOnce, ClaimInv, Apart
\* A claim adds copies with fresh claim numbers.
LEMMA Polling ==
    ASSUME TypeOK, TypeOK', ClaimInv, NEW p \in Pools, Poll(p)
    PROVE  ClaimInv'
<1>0. PlacesKnown /\ PlacesKnown'
  BY Places, PlacesNext
<1>1. PICK b \in Batches(p) :
        /\ ClaimBatch(p, b)
        /\ batch' = [batch EXCEPT ![p] =
               [i \in 1..Len(b) |-> [id |-> b[i], attempt |-> attempt[b[i]],
                                     claim |-> claims[b[i]] + 1]]]
        /\ UNCHANGED <<procVars, ch, work, hookVars, disruptions, recovered>>
  BY Zenon DEF Poll
<1> DEFINE N == batch'[p]
<1>2. /\ b \in Seq(Jobs) /\ IsInjective(b)
      /\ Range(b) \subseteq DueIn(Serves[p]) /\ Range(b) \subseteq Jobs
  BY BatchesAreSeqs, Zenon DEF TypeOK, TableTypeOK
<1>3. /\ Len(b) \in Nat /\ DOMAIN b = 1..Len(b)
      /\ N = [i \in 1..Len(b) |-> [id |-> b[i], attempt |-> attempt[b[i]],
                                   claim |-> claims[b[i]] + 1]]
      /\ N \in Seq(Copy)
  <2>1. /\ batch \in [Pools -> Seq(Copy)] /\ batch' \in [Pools -> Seq(Copy)]
    BY Zenon DEF TypeOK
  <2>2. Len(b) \in Nat /\ DOMAIN b = 1..Len(b)
    BY <1>2
  <2> QED
    BY <1>1, <2>1, <2>2
<1>4. /\ OnceIn(N)
      /\ \A c \in Range(N) : /\ c.id \in Range(b)
                             /\ c.attempt = attempt[c.id]
                             /\ c.claim = claims[c.id] + 1
  BY <1>2, <1>3 DEF OnceIn, SameClaim, IsInjective, Range
<1> HIDE DEF N
<1>5. ASSUME NEW c \in Copies, NEW d \in Range(N) PROVE ~SameClaim(c, d) /\ ~SameClaim(d, c)
  <2>1. c.claim <= claims[c.id] /\ c \in Copy
    BY <1>0, Zenon DEF ClaimInv, Numbered, PlacesKnown
  <2>2. c.claim \in Nat /\ claims[c.id] \in Nat /\ d.claim = claims[d.id] + 1
    BY <1>4, <2>1, Zenon DEF Copy, TypeOK
  <2> QED
    BY <2>1, <2>2 DEF SameClaim
<1>6. Pipe(p) = ch[p] /\ Pipe(p)' = Pipe(p) \o N /\ \A q \in Pools : q # p => Pipe(q)' = Pipe(q)
  <2>3. ch[p] \o <<>> = ch[p]
    OBVIOUS
  <2> QED
    BY <1>1, Zenon, <2>3 DEF Pipe, N, TypeOK, ClaimBatch
<1>7. Range(Pipe(p)') = Range(Pipe(p)) \cup Range(N) /\ OnceIn(Pipe(p)')
  <2>1. Pipe(p) \in Seq(Copy) /\ Range(Pipe(p)) \subseteq Copies /\ OnceIn(Pipe(p))
    BY <1>0, Zenon DEF PlacesKnown, ClaimInv, ClaimedOnce
  <2>3. Range(Pipe(p) \o N) = Range(Pipe(p)) \cup Range(N)
    <3>1. Pipe(p) \in Seq(Copy) /\ N \in Seq(Copy)
      BY <1>3, <2>1, Zenon
    <3> QED
      BY <3>1, RangeConcatenation
  <2> QED
    BY <1>6, <2>3, <1>3, <1>4, <2>1, <1>5, OnceConcat, Zenon DEF Apart
<1>8. UNCHANGED work
  BY <1>1, Zenon
<1>9. ClaimedOnce'
  <2>2. ASSUME NEW q \in Pools, NEW r \in Pools, q # r
        PROVE  Apart(Range(Pipe(q)'), Range(Pipe(r)'))
    BY <1>0, <2>2, Zenon, <1>5, <1>6, <1>7 DEF ClaimInv, ClaimedOnce, Apart, PlacesKnown
  <2>3. ASSUME NEW v \in Workers, NEW q \in Pools, Executing(v)'
        PROVE  Apart({work'[v]}, Range(Pipe(q)'))
    <3>1. /\ work'[v] = work[v] /\ work[v] \in Copies
          /\ \A d \in Range(Pipe(q)) : ~SameClaim(work[v], d)
      BY <1>0, <1>8, <2>3, Zenon DEF ClaimInv, ClaimedOnce, Apart, PlacesKnown, Executing
    <3> QED
      BY <1>5, <3>1, <1>6, <1>7, Zenon DEF Apart
  <2> QED
    BY <1>6, <1>7, Zenon, <2>2, <2>3, <1>8 DEF ClaimedOnce, ClaimInv, Executing
<1>10. Copies' \subseteq Copies \cup Range(N)
  <2> SUFFICES ASSUME NEW c \in Copies' PROVE c \in Copies \/ c \in Range(N)
    OBVIOUS
  <2>1. CASE \E q \in Pools : c \in Range(Pipe(q)')
    BY <2>1, <1>6, <1>7, Zenon, <1>0 DEF PlacesKnown
  <2>2. CASE \E v \in Workers : Executing(v)' /\ c = work'[v]
    BY <1>0, <1>8, <2>2 DEF PlacesKnown, Executing
  <2> QED
    BY <1>0, <2>1, <2>2, Zenon DEF PlacesKnown
<1>11. /\ \A j \in Range(b) : state[j] = "pending" /\ state'[j] = "claimed" /\ claims'[j] = claims[j] + 1
       /\ \A j \in Jobs \ Range(b) : state'[j] = state[j] /\ claims'[j] = claims[j]
       /\ UNCHANGED <<attempt, recovered>>
  BY <1>1, <1>2, Zenon DEF ClaimBatch, ClaimDue, DueIn
<1>12. ASSUME NEW c \in Copies'
       PROVE  /\ c.claim <= claims'[c.id]
              /\ c.id \notin recovered' => /\ state'[c.id] = "claimed"
                                           /\ c.claim = claims'[c.id]
                                           /\ c.attempt = attempt'[c.id]
  <2>1. CASE c \in Range(N)
    <3>2. claims'[c.id] \in Nat
      BY <1>2, <1>4, <2>1, Zenon DEF TypeOK
    <3> QED
      BY <1>4, <1>11, <2>1, <3>2
  <2>2. CASE c \in Copies
    <3>1. c.id \in Jobs /\ c.claim \in Nat /\ claims[c.id] \in Nat /\ c.claim <= claims[c.id]
      BY <1>0, <2>2, Zenon DEF PlacesKnown, Copy, TypeOK, ClaimInv, Numbered
    <3> QED
      BY <1>11, <2>2, <3>1 DEF ClaimInv, CopiesAreCurrent
  <2> QED
    BY <1>10, <2>1, <2>2
<1> QED
  BY <1>9, <1>12 DEF ClaimInv, Numbered, CopiesAreCurrent

\* A step that leaves the pipeline and the claim counts alone, and changes the rows
\* only of jobs that are not claimed.
LEMMA RowStep ==
    ASSUME TypeOK, TypeOK', ClaimInv, UNCHANGED <<pipeVars, recovered, claims>>,
           \A i \in Jobs : state[i] = "claimed" => state'[i] = state[i] /\ attempt'[i] = attempt[i]
    PROVE  ClaimInv'
<1>3. \A i \in Jobs : claims'[i] >= claims[i]
  BY DEF TypeOK
<1> QED
  BY Untouched, <1>3, Places, Kept, Zenon DEF ClaimInv, CopiesAreCurrent, PlacesKnown, Copy

\* A step that only drops copies: a goroutine or a process disappears.
LEMMA DropStep ==
    ASSUME TypeOK, TypeOK', ClaimInv, UNCHANGED <<tableVars, recovered, claims>>,
           \A p \in Pools : OnceIn(Pipe(p)') /\ Range(Pipe(p)') \subseteq Range(Pipe(p)),
           \A w \in Workers : work'[w] \in {work[w], Idle}
    PROVE  ClaimInv'
<1>2. \A i \in Jobs : claims'[i] >= claims[i]
  BY DEF TypeOK
<1> QED
  BY Places, PlacesNext, Shrinking, ShrinkingCopies, <1>2, Kept DEF ClaimInv, tableVars

\* The empty pipe repeats nothing.
LEMMA EmptyPipe == OnceIn(<<>>) /\ Range(<<>>) = {}
  BY DEF OnceIn, Range

\* The inductive step.
LEMMA ClaimStep ==
    ASSUME TypeOK, TypeOK', ClaimInv, [Next]_vars
    PROVE  ClaimInv'
<1> DEFINE RowsOnly ==
      /\ UNCHANGED <<pipeVars, recovered, claims>>
      /\ \A i \in Jobs : state[i] = "claimed" => state'[i] = state[i] /\ attempt'[i] = attempt[i]
    DropsOnly ==
      /\ UNCHANGED <<tableVars, recovered, claims>>
      /\ \A p \in Pools : OnceIn(Pipe(p)') /\ Range(Pipe(p)') \subseteq Range(Pipe(p))
      /\ \A w \in Workers : work'[w] \in {work[w], Idle}
<1>a. RowsOnly => ClaimInv'
  BY RowStep
<1>b. DropsOnly => ClaimInv'
  BY DropStep
<1>c. /\ state \in [Jobs -> States] /\ attempt \in [Jobs -> Nat]
      /\ ch \in [Pools -> Seq(Copy)] /\ batch \in [Pools -> Seq(Copy)]
  BY Zenon DEF TypeOK, TableTypeOK
<1>0. \A p \in Pools : /\ ch[p] \in Seq(Copy) /\ batch[p] \in Seq(Copy)
                       /\ OnceIn(Pipe(p))
  BY <1>c DEF ClaimInv, ClaimedOnce
<1>1. ASSUME NEW s \in Schedulers, NEW j \in Jobs, At(s, j) PROVE ClaimInv'
  BY <1>a, <1>c, <1>1 DEF At, Save
<1>2. ASSUME NEW j \in Jobs, CancelJob(j) PROVE ClaimInv'
  BY <1>a, <1>c, <1>2 DEF CancelJob, Cancel
<1>3. ASSUME NEW j \in Jobs, RescheduleJob(j) PROVE ClaimInv'
  BY <1>a, <1>3 DEF RescheduleJob, Reschedule
<1>4. ASSUME NEW j \in Jobs, BecomesDue(j) \/ LockExpires(j) PROVE ClaimInv'
  BY <1>a, <1>4, Zenon DEF BecomesDue, LockExpires, TimePasses
<1>5. ASSUME NEW p \in Pools, Poll(p) PROVE ClaimInv'
  BY <1>5, Polling
<1>6. ASSUME NEW p \in Pools, PollReplyLost(p) PROVE ClaimInv'
  <2>1. PICK b \in Batches(p) : ClaimBatch(p, b) /\ UNCHANGED <<pipeVars, recovered>>
    BY <1>6 DEF PollReplyLost
  <2>2. Range(b) \subseteq DueIn(Serves[p])
    BY BatchesAreSeqs, Zenon DEF TypeOK, TableTypeOK
  <2>3. Copies' = Copies /\ ClaimedOnce'
    BY <2>1, Untouched DEF ClaimInv
  <2>4. /\ \A i \in Jobs : state[i] = "claimed" => /\ state'[i] = state[i] /\ claims'[i] = claims[i]
                                                   /\ attempt'[i] = attempt[i]
        /\ \A i \in Jobs : claims'[i] >= claims[i]
    <3>1. /\ state' = [i \in Jobs |-> IF i \in Range(b) THEN "claimed" ELSE state[i]]
          /\ claims' = [i \in Jobs |-> IF i \in Range(b) THEN claims[i] + 1 ELSE claims[i]]
          /\ attempt' = attempt
      BY <2>1 DEF ClaimBatch, ClaimDue
    <3>2. \A i \in Range(b) : state[i] = "pending"
      BY <2>2 DEF DueIn
    <3>3. claims \in [Jobs -> Nat]
      BY Zenon DEF TypeOK
    <3> QED
      BY <3>1, <3>2, <3>3
  <2>5. \A c \in Copies' : c.id \in Jobs
    BY <2>3, Places, Zenon DEF PlacesKnown, Copy
  <2>6. \A c \in Copies' : c.id \notin recovered' =>
            /\ state'[c.id] = state[c.id] /\ attempt'[c.id] = attempt[c.id]
            /\ claims'[c.id] = claims[c.id]
    BY <2>1, <2>3, <2>4, <2>5 DEF ClaimInv, CopiesAreCurrent
  <2>7. Numbered' /\ CopiesAreCurrent'
    BY <2>1, <2>3, <2>4, <2>6, Kept
  <2> QED
    BY <2>3, <2>7 DEF ClaimInv
<1>7. ASSUME NEW p \in Pools, Push(p) PROVE ClaimInv'
  <2>1. Pipe(p)' = Append(ch[p], Head(batch[p])) \o Tail(batch[p])
    BY <1>c, <1>7, Zenon DEF Push, Pipe
  <2>2. Pipe(p)' = Pipe(p)
    BY <1>0, <1>7, <2>1, PushKeepsPipe, Zenon DEF Push, Pipe
  <2>3. \A q \in Pools : Pipe(q)' = Pipe(q)
    BY <1>c, <1>7, <2>2, Zenon DEF Push, Pipe
  <2> QED
    BY <1>0, <1>b, <1>7, <2>3 DEF Push
<1>8. ASSUME NEW p \in Pools, DispatcherExit(p) PROVE ClaimInv'
  <2>1. Pipe(p)' = ch[p] /\ \A q \in Pools : q # p => Pipe(q)' = Pipe(q)
    BY <1>0, <1>c, <1>8 DEF DispatcherExit, Pipe
  <2>2. OnceIn(Pipe(p)') /\ Range(Pipe(p)') \subseteq Range(Pipe(p))
    BY <1>0, <2>1, OncePrefix, Zenon DEF Pipe
  <2> QED
    BY <1>0, <1>b, <1>8, <2>1, <2>2 DEF DispatcherExit
<1>9. ASSUME NEW w \in Workers, Take(w) PROVE ClaimInv'
  <2>1. ClaimedOnce' /\ Copies' \subseteq Copies
    BY <1>9, Taking
  <2>2. \A i \in Jobs : claims'[i] >= claims[i]
    BY <1>9 DEF Take, TypeOK
  <2>3. UNCHANGED <<tableVars, recovered, claims>>
    BY <1>9 DEF Take
  <2>4. Numbered' /\ CopiesAreCurrent'
    BY <2>1, <2>2, <2>3, Kept DEF tableVars
  <2> QED
    BY <2>1, <2>4 DEF ClaimInv
<1>10. ASSUME NEW w \in Workers, NoHandler(w) \/ HandlerSucceeds(w) \/ HandlerFails(w)
       PROVE  ClaimInv'
  BY <1>10, Finishing, Zenon DEF NoHandler, HandlerSucceeds, HandlerFails, CallFails
<1>11. ASSUME NEW s \in Schedulers, Janitor(s) PROVE ClaimInv'
  <2>1. Copies' = Copies /\ ClaimedOnce'
    BY <1>11, Untouched DEF Janitor, ClaimInv
  <2>2. /\ recovered' = recovered \cup StaleClaims
        /\ \A i \in Jobs \ StaleClaims : state'[i] = state[i]
        /\ UNCHANGED <<attempt, claims>>
    <3>1. state' = [i \in Jobs |-> IF i \in StaleClaims THEN "pending" ELSE state[i]]
      BY <1>11 DEF Janitor, RecoverStale
    <3> QED
      BY <1>11, <3>1 DEF Janitor, RecoverStale
  <2>3. \A i \in Jobs : claims'[i] >= claims[i]
    BY <2>2 DEF TypeOK
  <2>4. \A c \in Copies' : c.id \in Jobs
    BY <2>1, Places DEF PlacesKnown, Copy
  <2>5. Numbered' /\ CopiesAreCurrent'
    BY <2>1, <2>2, <2>3, <2>4, Kept
  <2> QED
    BY <2>1, <2>5 DEF ClaimInv
<1>12. ASSUME NEW w \in Workers, WorkerExit(w) PROVE ClaimInv'
  BY <1>a, <1>12 DEF WorkerExit, tableVars
<1>13. ASSUME NEW s \in Schedulers, Start(s) \/ CancelCtx(s) \/ LoopExit(s) \/ StartReturns(s)
       PROVE  ClaimInv'
  BY <1>a, <1>13, Zenon DEF Start, CancelCtx, LoopExit, StartReturns, tableVars
<1>14. ASSUME NEW s \in Schedulers, Vanish(s) PROVE ClaimInv'
  <2>1. \A p \in Pools : Pipe(p)' = Pipe(p) \/ Pipe(p)' = <<>> \o <<>>
    BY <1>14, Zenon DEF Vanish, Pipe
  <2>2. <<>> \o <<>> = <<>>
    OBVIOUS
  <2>3. \A p \in Pools : OnceIn(Pipe(p)') /\ Range(Pipe(p)') \subseteq Range(Pipe(p))
    BY <1>0, <2>1, <2>2, EmptyPipe
  <2>4. \A w \in Workers : work'[w] \in {work[w], Idle}
    BY <1>14 DEF Vanish
  <2> QED
    BY <1>b, <1>14, <2>3, <2>4 DEF Vanish
<1>15. CASE UNCHANGED vars
  BY <1>a, <1>15 DEF vars, tableVars
<1> QED
  BY <1>1, <1>2, <1>3, <1>4, <1>5, <1>6, <1>7, <1>8, <1>9, <1>10, <1>11, <1>12, <1>13,
     <1>14, <1>15
  DEF Next, JobStep, PoolStep, WorkerStep, ProcessStep, Crash, ProcessEnds

\* Initially there are no copies.
LEMMA ClaimStart == Init => ClaimInv
  BY EmptyPipe DEF Init, Pipe, Waiting, Executing, Copies, ClaimInv, ClaimedOnce, Numbered,
     CopiesAreCurrent, Apart

\* The inductive invariant holds in every reachable state.
LEMMA ClaimInvariance == Spec => []ClaimInv
<1>1. TypeOK /\ TypeOK' /\ ClaimInv /\ [Next]_vars => ClaimInv'
  BY ClaimStep
<1> QED
  BY <1>1, ClaimStart, Typing, PTL DEF Spec

\* One claim of a job is never in two places, and so is executed at most once,
\* however many schedulers, workers, crashes and recoveries there are.
THEOREM OneCopyPerClaim == Spec => []ClaimedOnce
<1>1. ClaimInv => ClaimedOnce
  BY DEF ClaimInv
<1> QED
  BY <1>1, ClaimInvariance, PTL

\* A job RecoverStale never took back is held only under its latest claim, while
\* its row is claimed and with the row's attempt number.
THEOREM HoldersAreCurrent == Spec => []CopiesAreCurrent
<1>1. ClaimInv => CopiesAreCurrent
  BY DEF ClaimInv
<1> QED
  BY <1>1, ClaimInvariance, PTL


\* A copy waits in, and is executed by, a pool that serves the job's queue.
RightQueue ==
    /\ \A p \in Pools : \A c \in Waiting(p) : QueueOf[c.id] = Serves[p]
    /\ \A w \in Workers : Executing(w) => QueueOf[work[w].id] = Serves[PoolOf[w]]

\* What a step can do to the whereabouts of copies: what waits in a pool waited
\* there before or was just claimed for its queue, and what a worker executes it
\* executed before or took from its own pool.
LEMMA Moves ==
    ASSUME TypeOK, [Next]_vars
    PROVE  /\ \A p \in Pools : \A c \in Waiting(p)' : c \in Waiting(p) \/ c.id \in DueIn(Serves[p])
           /\ \A w \in Workers : work'[w] \in {work[w], Idle} \cup Waiting(PoolOf[w])
<1> DEFINE Goal ==
      /\ \A p \in Pools : \A c \in Waiting(p)' : c \in Waiting(p) \/ c.id \in DueIn(Serves[p])
      /\ \A w \in Workers : work'[w] \in {work[w], Idle} \cup Waiting(PoolOf[w])
<1>0. \A p \in Pools : ch[p] \in Seq(Copy) /\ batch[p] \in Seq(Copy)
  BY DEF TypeOK
<1>1. ASSUME UNCHANGED pipeVars PROVE Goal
  BY <1>1 DEF pipeVars, Waiting
<1>2. ASSUME NEW p \in Pools, Poll(p) PROVE Goal
  <2>1. PICK b \in Batches(p) :
          /\ batch' = [batch EXCEPT ![p] =
                 [i \in 1..Len(b) |-> [id |-> b[i], attempt |-> attempt[b[i]],
                                       claim |-> claims[b[i]] + 1]]]
          /\ UNCHANGED <<ch, work>>
    BY <1>2, Zenon DEF Poll
  <2>2. b \in Seq(Jobs) /\ Range(b) \subseteq DueIn(Serves[p])
    BY BatchesAreSeqs DEF TypeOK, TableTypeOK
  <2>3. \A c \in Range(batch'[p]) : c.id \in DueIn(Serves[p])
    <3>1. batch'[p] = [i \in 1..Len(b) |-> [id |-> b[i], attempt |-> attempt[b[i]],
                                            claim |-> claims[b[i]] + 1]]
      BY <2>1, Zenon DEF TypeOK
    <3> QED
      BY <2>2, <3>1 DEF Range
  <2> QED
    BY <2>1, <2>3, Zenon DEF Waiting, TypeOK
<1>3. ASSUME NEW p \in Pools, Push(p) PROVE Goal
  <2>1. /\ batch[p] # <<>> /\ UNCHANGED work
        /\ ch'[p] = Append(ch[p], Head(batch[p])) /\ batch'[p] = Tail(batch[p])
        /\ \A q \in Pools : q # p => ch'[q] = ch[q] /\ batch'[q] = batch[q]
    BY <1>3, Zenon DEF Push, TypeOK
  <2>2. Range(Tail(batch[p])) \subseteq Range(batch[p]) /\ Head(batch[p]) \in Range(batch[p])
    BY <1>0, <2>1 DEF Range
  <2>3. Range(Append(ch[p], Head(batch[p]))) \subseteq Range(ch[p]) \cup {Head(batch[p])}
    BY DEF Range
  <2> QED
    BY <2>1, <2>2, <2>3, Zenon DEF Waiting
<1>4. ASSUME NEW p \in Pools, DispatcherExit(p) PROVE Goal
  BY <1>4, EmptyPipe, Zenon DEF DispatcherExit, Waiting, TypeOK
<1>5. ASSUME NEW w \in Workers, Take(w) PROVE Goal
  <2> DEFINE p == PoolOf[w]
  <2>1. /\ p \in Pools /\ ch[p] # <<>> /\ UNCHANGED batch
        /\ ch'[p] = Tail(ch[p]) /\ work'[w] = Head(ch[p])
        /\ \A q \in Pools : q # p => ch'[q] = ch[q]
        /\ \A v \in Workers : v # w => work'[v] = work[v]
    BY <1>5, WorkersAssumption, Zenon DEF Take, TypeOK
  <2>2. Range(Tail(ch[p])) \subseteq Range(ch[p]) /\ Head(ch[p]) \in Range(ch[p])
    BY <1>0, <2>1 DEF Range
  <2> QED
    BY <2>1, <2>2, Zenon DEF Waiting
<1>6. ASSUME NEW w \in Workers, Return(w) PROVE Goal
  BY <1>6, Zenon DEF Return, Waiting, TypeOK
<1>7. ASSUME NEW s \in Schedulers, Vanish(s) PROVE Goal
  BY <1>7, EmptyPipe DEF Vanish, Waiting
<1>8. CASE UNCHANGED vars
  BY <1>1, <1>8 DEF vars
<1>9. ASSUME NEW s \in Schedulers, NEW j \in Jobs, At(s, j) PROVE Goal
  BY <1>1, <1>9 DEF At
<1>10. ASSUME NEW j \in Jobs, JobStep(j) PROVE Goal
  BY <1>1, <1>10, Zenon DEF JobStep, CancelJob, RescheduleJob, BecomesDue, LockExpires
<1>11. ASSUME NEW p \in Pools, PoolStep(p) PROVE Goal
  BY <1>1, <1>2, <1>3, <1>4, <1>11, Zenon DEF PoolStep, PollReplyLost
<1>12. ASSUME NEW w \in Workers, WorkerStep(w) PROVE Goal
  BY <1>1, <1>5, <1>6, <1>12, Zenon
     DEF WorkerStep, WorkerExit, NoHandler, HandlerSucceeds, HandlerFails
<1>13. ASSUME NEW s \in Schedulers, ProcessStep(s) PROVE Goal
  BY <1>1, <1>7, <1>13, Zenon
     DEF ProcessStep, Start, CancelCtx, LoopExit, StartReturns, Crash, ProcessEnds, Janitor
<1> QED
  BY <1>8, <1>9, <1>10, <1>11, <1>12, <1>13, Zenon DEF Next

\* Copies stay in pools that serve their queue.
LEMMA QueueInvariance == Spec => []RightQueue
<1>1. Init => RightQueue
  BY EmptyPipe DEF Init, RightQueue, Waiting, Executing
<1>2. TypeOK /\ RightQueue /\ [Next]_vars => RightQueue'
  BY Moves, WorkersAssumption DEF RightQueue, DueIn, Executing
<1> QED
  BY <1>1, <1>2, Typing, PTL DEF Spec

\* A copy that appears was just claimed, from a pending row.
LEMMA NewCopies ==
    ASSUME TypeOK, TypeOK', [Next]_vars, NEW c \in Copies'
    PROVE  c \in Copies \/ state[c.id] = "pending"
  BY Moves, WorkersAssumption DEF Copies, DueIn

\* A step without hook calls keeps the reports final if it leaves alone the rows
\* of jobs nobody holds that are claimed, succeeded or failed, unless it takes
\* them back.
LEMMA ReportsKept ==
    ASSUME TypeOK, TypeOK', [Next]_vars, ReportsAreFinal,
           UNCHANGED hookVars, recovered \subseteq recovered',
           \A j \in Jobs : j \notin recovered' /\ Unheld(j)
                           /\ state[j] \in {"claimed", "succeeded", "failed"}
                             => state'[j] = state[j]
    PROVE  ReportsAreFinal'
  BY NewCopies, Zenon DEF Unheld, ReportsAreFinal, hookVars

\* A worker returns from job j: it held j, and if j was never taken back the row
\* is the one it claimed and nobody holds j afterwards.
LEMMA FinishedUnheld ==
    ASSUME TypeOK, TypeOK', ClaimInv, NEW w \in Workers, Executing(w), Return(w),
           NEW j, j = work[w].id
    PROVE  /\ j \in Jobs
           /\ ~Unheld(j)
           /\ j \notin recovered =>
                 Unheld(j)' /\ state[j] = "claimed" /\ work[w].attempt = attempt[j]
           /\ \A i \in Jobs : Unheld(i) => Unheld(i)'
  BY Places, Returning DEF PlacesKnown, Copy, Unheld, ClaimInv, CopiesAreCurrent, SameClaim

\* What Ack and Fail do to the rows: only row j changes.  Fail deletes it as
\* failed when the attempts are used up.
LEMMA ReportedRow ==
    ASSUME TypeOK, NEW j \in Jobs
    PROVE  /\ Ack(j) \/ Fail(j) => \A i \in Jobs : i # j => state'[i] = state[i]
           /\ Ack(j) /\ state[j] = "claimed" => state'[j] = "succeeded"
           /\ Fail(j) /\ state[j] = "claimed" /\ Exhausts(j) => state'[j] = "failed"
  BY DEF TypeOK, TableTypeOK, Ack, Fail, tableVars

\* A worker's last try and the store's last attempt coincide for a positive cap.
LEMMA SameVerdict ==
    ASSUME NEW c \in Copy, c.attempt = attempt[c.id], StoredMax(c.id) > 0
    PROVE  LastTry(c) <=> Exhausts(c.id)
  BY MaxAttemptsAssumption DEF Copy, StoredMax, LastTry, WorkerMax, Exhausts

\* The actions that call hooks.
LEMMA WorkerReports ==
    ASSUME TypeOK, TypeOK', ClaimInv, RightQueue, ReportsAreFinal, NEW w \in Workers,
           NoHandler(w) \/ HandlerSucceeds(w) \/ HandlerFails(w)
    PROVE  ReportsAreFinal'
<1>0. PICK j : j = work[w].id
  OBVIOUS
<1> SUFFICES ASSUME NEW i \in Jobs \ recovered', WellConfigured(i)
             PROVE  /\ i \in okHook' => state'[i] \in {"claimed", "succeeded"} /\ Unheld(i)'
                    /\ i \in failHook' => state'[i] \in {"claimed", "failed"} /\ Unheld(i)'
                    /\ ~(i \in okHook' /\ i \in failHook')
  BY Zenon DEF ReportsAreFinal, WellConfigured, StoredMax
<1>1. Executing(w) /\ Return(w) /\ recovered' = recovered
  BY Zenon DEF NoHandler, HandlerSucceeds, HandlerFails, Return
<1>2. /\ j \in Jobs /\ ~Unheld(j)
      /\ j \notin recovered =>
            Unheld(j)' /\ state[j] = "claimed" /\ work[w].attempt = attempt[j]
      /\ \A k \in Jobs : Unheld(k) => Unheld(k)'
  BY <1>0, <1>1, FinishedUnheld, Zenon
<1>3. work[w] \in Copy
  BY <1>1, Zenon DEF TypeOK, Executing
<1>4. (Ack(j) \/ Fail(j) \/ UNCHANGED tableVars)
      /\ (HandlerSucceeds(w) => Ack(j) \/ UNCHANGED tableVars)
      /\ (HandlerFails(w) => Fail(j) \/ UNCHANGED tableVars)
  BY <1>0, Zenon DEF NoHandler, HandlerSucceeds, HandlerFails, CallFails
<1>5. CASE i # j
  <2>1. state'[i] = state[i]
    BY <1>2, <1>4, <1>5, ReportedRow, Zenon DEF tableVars
  <2> QED
    BY <1>1, <1>2, <2>1, <1>0, <1>5, Zenon
       DEF ReportsAreFinal, NoHandler, HandlerSucceeds, HandlerFails
<1>6. CASE i = j
  <2>1. i \notin okHook /\ i \notin failHook
    BY <1>1, <1>2, <1>6, Zenon DEF ReportsAreFinal
  <2>3. j \in Handlers[Host(w)]
    BY <1>0, <1>1, <1>6, WorkersAssumption, Zenon DEF RightQueue, WellConfigured, Host
  <2>4. CASE HandlerSucceeds(w)
    BY <1>2, <1>4, <1>6, <1>1, <2>4, ReportedRow, Zenon, <2>1 DEF tableVars, HandlerSucceeds
  <2>5. CASE HandlerFails(w) /\ LastTry(work[w])
    <3> QED
      BY <1>0, <1>6, <2>1, <1>1, <1>2, <2>5, <1>4, <1>3, SameVerdict, ReportedRow, Zenon
         DEF HandlerFails, tableVars, WellConfigured
  <2>6. CASE HandlerFails(w) /\ ~LastTry(work[w])
    BY <2>1, <2>6, Zenon DEF HandlerFails
  <2>7. ~NoHandler(w)
    BY <1>0, <2>3, Zenon DEF NoHandler
  <2> QED
    BY <2>4, <2>5, <2>6, <2>7, Zenon
<1> QED
  BY <1>5, <1>6

\* Every step keeps the reports final.  Only the three finishing actions call a
\* hook; the others touch pending or unsaved rows, jobs with a copy somewhere, or
\* rows that recovery takes back.
LEMMA ReportStep ==
    ASSUME TypeOK, TypeOK', ClaimInv, RightQueue, ReportsAreFinal, [Next]_vars
    PROVE  ReportsAreFinal'
<1> DEFINE Keeps ==
      /\ UNCHANGED hookVars /\ recovered \subseteq recovered'
      /\ \A j \in Jobs : j \notin recovered' /\ Unheld(j)
                         /\ state[j] \in {"claimed", "succeeded", "failed"}
                           => state'[j] = state[j]
<1>a. Keeps => ReportsAreFinal'
  BY ReportsKept
<1>1. ASSUME NEW s \in Schedulers, NEW j \in Jobs, At(s, j) PROVE ReportsAreFinal'
  BY <1>a, <1>1 DEF At, Save, Terminal
<1>2. ASSUME NEW j \in Jobs, JobStep(j) PROVE ReportsAreFinal'
  BY <1>a, Zenon, <1>2 DEF CancelJob, Cancel, RescheduleJob, Reschedule, BecomesDue, LockExpires,
     TimePasses, JobStep, TypeOK, TableTypeOK
<1>3. ASSUME NEW p \in Pools, PoolStep(p) PROVE ReportsAreFinal'
  <2>1. CASE Poll(p) \/ PollReplyLost(p)
    <3>1. PICK b \in Batches(p) : ClaimBatch(p, b) /\ UNCHANGED <<hookVars, recovered>>
      BY <2>1, Zenon DEF Poll, PollReplyLost
    <3> QED
      BY <1>a, <3>1 DEF ClaimBatch, ClaimDue, DueIn
  <2>2. CASE Push(p) \/ DispatcherExit(p)
    BY <1>a, <2>2, Zenon DEF Push, DispatcherExit, tableVars
  <2> QED
    BY <1>3, <2>1, <2>2, Zenon DEF PoolStep
<1>4. ASSUME NEW w \in Workers, WorkerStep(w) PROVE ReportsAreFinal'
  BY <1>a, Zenon, <1>4, WorkerReports DEF Take, WorkerExit, tableVars, WorkerStep
<1>5. ASSUME NEW s \in Schedulers, ProcessStep(s) PROVE ReportsAreFinal'
  BY <1>a, Zenon, <1>5 DEF Janitor, RecoverStale, StaleClaims, tableVars, Start, CancelCtx,
     LoopExit, StartReturns, Crash, ProcessEnds, Vanish, ProcessStep
<1>6. CASE UNCHANGED vars
  BY <1>a, <1>6 DEF vars, tableVars
<1> QED
  BY <1>1, <1>2, <1>3, <1>4, <1>5, <1>6 DEF Next

\* The hooks tell the truth: in every reachable state, for any number of jobs,
\* schedulers and workers, a well configured job that was never taken back from
\* its worker is over once executeOne has fired OnSuccess or OnFailure for it.
THEOREM HooksAreTruthful == Spec => []ReportsAreFinal
<1>1. Init => ReportsAreFinal
  BY DEF Init, ReportsAreFinal
<1>2. TypeOK /\ TypeOK' /\ ClaimInv /\ RightQueue /\ ReportsAreFinal /\ [Next]_vars
        => ReportsAreFinal'
  BY ReportStep
<1> QED
  BY <1>1, <1>2, Typing, ClaimInvariance, QueueInvariance, PTL DEF Spec
=============================================================================
