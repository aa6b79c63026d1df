------------------------- MODULE OrchestratorProofs -------------------------
(***************************************************************************)
(* What TLAPS proves of the run queue, for every set of dates, every       *)
(* catch-up cap and every set of thread identities.                        *)
(***************************************************************************)
EXTENDS Orchestrator, SequenceTheorems, TLAPS

USE DatesAssumption, CapAssumption, ThreadsAssumption

-----------------------------------------------------------------------------
(* The head of the queue *)

LEMMA HeadOfQueue ==
  ASSUME TypeOK, queue # <<>>
  PROVE  /\ Head(queue).date \in Dates
         /\ Head(queue) = queue[1]
         /\ Tail(queue) \in Seq(Entry)
         /\ Len(Tail(queue)) = Len(queue) - 1
         /\ \A i \in 1..Len(queue)-1 : Tail(queue)[i] = queue[i + 1]
         /\ 1 \in 1..Len(queue)
<1>1. queue \in Seq(Entry)
  BY DEF TypeOK
<1>2. Head(queue) \in Entry /\ Tail(queue) \in Seq(Entry)
  BY <1>1
<1>3. Head(queue).date \in Dates
  BY <1>2 DEF Entry
<1> QED
  BY <1>1, <1>2, <1>3

-----------------------------------------------------------------------------
(* The catch-up's listing of the missing dates *)

\* A listing of a set of dates is a sequence of them, without repetition.
LEMMA AscendingIsListing ==
  ASSUME NEW S \in SUBSET Dates, NEW s \in Ascending(S)
  PROVE  /\ s \in Seq(Dates)
         /\ Len(s) \in 0..CapDays
         /\ \A i \in 1..Len(s) : s[i] \in S
         /\ \A i, j \in 1..Len(s) : s[i] = s[j] => i = j
         /\ \A d \in S : \E i \in 1..Len(s) : s[i] = d
<1>1. PICK n \in 0..CapDays : s \in [1..n -> S]
  BY DEF Ascending
<1>2. s \in Seq(Dates) /\ Len(s) = n /\ \A i \in 1..n : s[i] \in S
  <2>1. n \in Nat
    OBVIOUS
  <2>2. \A i \in 1..n : s[i] \in S /\ s[i] \in Dates
    BY <1>1
  <2>3. s \in [1..n -> Dates]
    BY <1>1, <2>2
  <2> QED
    BY <2>1, <2>2, <2>3
<1>3. \A i, j \in 1..Len(s) : i < j => s[i] < s[j]
  BY DEF Ascending
<1>4. \A i, j \in 1..Len(s) : s[i] = s[j] => i = j
  <2> SUFFICES ASSUME NEW i \in 1..Len(s), NEW j \in 1..Len(s), s[i] = s[j]
               PROVE  i = j
    OBVIOUS
  <2>1. s[i] \in Int
    BY <1>1, <1>2
  <2> QED
    BY <1>2, <1>3, <2>1
<1> QED
  BY <1>1, <1>2, <1>4 DEF Ascending

LEMMA NonManualIsEntries ==
  ASSUME NEW ds \in Seq(Dates)
  PROVE  /\ NonManual(ds) \in Seq(Entry)
         /\ Len(NonManual(ds)) = Len(ds)
         /\ \A i \in 1..Len(ds) : NonManual(ds)[i] = [date |-> ds[i], manual |-> FALSE]
<1>1. \A i \in 1..Len(ds) : [date |-> ds[i], manual |-> FALSE] \in Entry
  BY DEF Entry
<1> QED
  BY <1>1 DEF NonManual

LEMMA MissingIsDates == TypeOK => Missing \in SUBSET Dates
  BY DEF Missing, Candidates

\* What a catch-up appends.
LEMMA AddedFacts ==
  ASSUME TypeOK, NEW added \in Ascending(Missing)
  PROVE  /\ added \in Seq(Dates)
         /\ Len(added) \in 0..CapDays
         /\ \A i \in 1..Len(added) : added[i] \in Missing
         /\ \A i, j \in 1..Len(added) : added[i] = added[j] => i = j
         /\ \A d \in Missing : \E i \in 1..Len(added) : added[i] = d
<1>1. Missing \in SUBSET Dates
  BY MissingIsDates
<1> QED
  BY <1>1, AscendingIsListing

-----------------------------------------------------------------------------
(* Type correctness *)

\* EnsureWorker keeps the types of the variables it sets.
LEMMA EnsureWorkerType ==
  ASSUME TypeOK, EnsureWorker
  PROVE  worker' \in Threads \cup {NoThread} /\ pc' \in [Threads -> ThreadState]
  BY DEF TypeOK, EnsureWorker, threadVars, ThreadState

\* Type correctness needs to know that a thread in its job has a date in flight.
LEMMA TypeStep == TypeOK /\ SingleFlight /\ [Next]_vars => TypeOK'
<1> SUFFICES ASSUME TypeOK, SingleFlight, [Next]_vars
             PROVE  TypeOK'
  OBVIOUS
<1>1. ASSUME NEW d \in Dates, NEW manual \in BOOLEAN, TryEnqueue(d, manual)
      PROVE  TypeOK'
  <2>1. queue' \in Seq(Entry)
    BY <1>1 DEF TypeOK, TryEnqueue, Entry
  <2> QED
    BY <1>1, <2>1, EnsureWorkerType DEF TypeOK, TryEnqueue
<1>2. ASSUME NEW today \in Dates, CatchupQuery(today)
      PROVE  TypeOK'
  BY <1>2 DEF TypeOK, CatchupQuery, Catchup, queueVars, threadVars
<1>3. CASE CatchupEnqueue
  <2>1. PICK added \in Ascending(Missing) :
           /\ queue' = queue \o NonManual(added)
           /\ IF added # <<>> THEN EnsureWorker ELSE UNCHANGED threadVars
    BY <1>3 DEF CatchupEnqueue
  <2>2. added \in Seq(Dates)
    BY AddedFacts
  <2>3. NonManual(added) \in Seq(Entry)
    BY <2>2, NonManualIsEntries
  <2>4. queue' \in Seq(Entry)
    BY <2>1, <2>3 DEF TypeOK
  <2>5. worker' \in Threads \cup {NoThread} /\ pc' \in [Threads -> ThreadState]
    BY <2>1, EnsureWorkerType DEF TypeOK, threadVars
  <2> QED
    BY <1>3, <2>4, <2>5 DEF TypeOK, CatchupEnqueue, Catchup
<1>4. ASSUME NEW t \in Threads, Consume(t)
      PROVE  TypeOK'
  <2>1. CASE TestShutdown(t)
    BY <2>1 DEF TypeOK, TestShutdown, Goto, ThreadState, queueVars
  <2>2. CASE TakeNext(t)
    BY <2>2, HeadOfQueue DEF TypeOK, TakeNext, Goto, ThreadState
  <2>3. CASE ReturnEmpty(t)
    BY <2>3 DEF TypeOK, ReturnEmpty, Goto, ThreadState, queueVars
  <2>4. CASE JobReturns(t)
    BY <2>4 DEF TypeOK, JobReturns, Goto, ThreadState, queueVars
  <2>5. CASE ClearInFlight(t)
    BY <2>5 DEF TypeOK, ClearInFlight, Goto, ThreadState
  <2>6. CASE ThreadExits(t)
    BY <2>6 DEF TypeOK, ThreadExits, Goto, ThreadState, queueVars
  <2> QED
    BY <1>4, <2>1, <2>2, <2>3, <2>4, <2>5, <2>6 DEF Consume
<1>5. ASSUME NEW t \in Threads, JobCommits(t)
      PROVE  TypeOK'
  <2>1. inFlight \in Dates
    BY <1>5 DEF TypeOK, SingleFlight, Busy, JobCommits
  <2> QED
    BY <1>5, <2>1 DEF TypeOK, JobCommits, Catchup, queueVars, threadVars
<1>6. CASE Shutdown
  BY <1>6 DEF TypeOK, Shutdown, queueVars, threadVars
<1>7. CASE Restart
  <2>1. queue' \in Seq(Entry) /\ catchup' \in Catchup
    BY <1>7 DEF Restart, Catchup
  <2> QED
    BY <1>7, <2>1 DEF TypeOK, Restart, ThreadState
<1>8. CASE UNCHANGED vars
  BY <1>8 DEF TypeOK, vars
<1> QED
  BY <1>1, <1>2, <1>3, <1>4, <1>5, <1>6, <1>7, <1>8 DEF Next, Call

-----------------------------------------------------------------------------
(* One thread at a time *)

\* At most one thread is alive, the last one started: what EnsureWorker keeps
\* by testing is_alive() under the lock, and why one job runs at a time.
OneAlive == \A t \in Threads : pc[t] # "dead" => t = worker

ThreadInv == TypeOK /\ OneAlive /\ SingleFlight

LEMMA EnsureWorkerOneAlive ==
  ASSUME ThreadInv, EnsureWorker
  PROVE  /\ OneAlive'
         /\ \A t \in Threads : Busy(t)' <=> Busy(t)
  BY DEF ThreadInv, TypeOK, OneAlive, EnsureWorker, Busy, threadVars

LEMMA ThreadInvStep == ThreadInv /\ [Next]_vars => ThreadInv'
<1> SUFFICES ASSUME ThreadInv, [Next]_vars
             PROVE  OneAlive' /\ SingleFlight'
  BY TypeStep DEF ThreadInv
<1> USE DEF ThreadInv
<1>1. ASSUME NEW d \in Dates, NEW manual \in BOOLEAN, TryEnqueue(d, manual)
      PROVE  OneAlive' /\ SingleFlight'
  BY <1>1, EnsureWorkerOneAlive DEF TryEnqueue, SingleFlight
<1>2. ASSUME NEW today \in Dates, CatchupQuery(today)
      PROVE  OneAlive' /\ SingleFlight'
  BY <1>2 DEF CatchupQuery, OneAlive, SingleFlight, Busy, queueVars, threadVars
<1>3. CASE CatchupEnqueue
  <2>1. CASE EnsureWorker
    BY <1>3, <2>1, EnsureWorkerOneAlive DEF CatchupEnqueue, SingleFlight
  <2>2. CASE UNCHANGED threadVars
    BY <1>3, <2>2 DEF CatchupEnqueue, OneAlive, SingleFlight, Busy, threadVars
  <2> QED
    BY <1>3, <2>1, <2>2 DEF CatchupEnqueue
<1>4. ASSUME NEW t \in Threads, Consume(t)
      PROVE  OneAlive' /\ SingleFlight'
  <2> USE DEF TypeOK, OneAlive, SingleFlight, Busy, Goto, queueVars
  <2>1. CASE TestShutdown(t)
    BY <2>1 DEF TestShutdown
  <2>2. CASE TakeNext(t)
    <3>1. inFlight' \in Dates
      BY <2>2, HeadOfQueue DEF TakeNext
    <3> QED
      BY <2>2, <3>1 DEF TakeNext
  <2>3. CASE ReturnEmpty(t)
    BY <2>3 DEF ReturnEmpty
  <2>4. CASE JobReturns(t)
    BY <2>4 DEF JobReturns
  <2>5. CASE ClearInFlight(t)
    BY <2>5 DEF ClearInFlight
  <2>6. CASE ThreadExits(t)
    BY <2>6 DEF ThreadExits
  <2> QED
    BY <1>4, <2>1, <2>2, <2>3, <2>4, <2>5, <2>6 DEF Consume
<1>5. ASSUME NEW t \in Threads, JobCommits(t)
      PROVE  OneAlive' /\ SingleFlight'
  BY <1>5 DEF JobCommits, OneAlive, SingleFlight, Busy, queueVars, threadVars
<1>6. CASE Shutdown
  BY <1>6 DEF Shutdown, OneAlive, SingleFlight, Busy, queueVars, threadVars
<1>7. CASE Restart
  BY <1>7 DEF Restart, OneAlive, SingleFlight, Busy
<1>8. CASE UNCHANGED vars
  BY <1>8 DEF vars, OneAlive, SingleFlight, Busy
<1> QED
  BY <1>1, <1>2, <1>3, <1>4, <1>5, <1>6, <1>7, <1>8 DEF Next, Call

LEMMA ThreadInvInit == Init => ThreadInv
<1> SUFFICES ASSUME Init PROVE ThreadInv
  OBVIOUS
<1>1. queue \in Seq(Entry) /\ catchup \in Catchup
  BY DEF Init, Catchup
<1>2. TypeOK
  BY <1>1 DEF Init, TypeOK, ThreadState
<1> QED
  BY <1>2 DEF Init, ThreadInv, OneAlive, SingleFlight, Busy

LEMMA ThreadInvAlways == Spec => []ThreadInv
  BY ThreadInvInit, ThreadInvStep, PTL DEF Spec

\* The variables of the queue keep their types in every behaviour.
THEOREM TypeCorrect == Spec => []TypeOK
  BY ThreadInvAlways, PTL DEF ThreadInv

\* One job at a time, and _in_flight names it: for any number of callers,
\* catch-ups, restarts and threads started on demand.
THEOREM SingleFlightAlways == Spec => []SingleFlight
  BY ThreadInvAlways, PTL DEF ThreadInv

-----------------------------------------------------------------------------
(* A catch-up leaves no gap *)

\* What the query saw can only be too little when the lock is taken: the runs
\* table never forgets an ok row.
SnapshotHolds == catchup # NoCatchup => catchup.ingested \subseteq ingested

LEMMA SnapshotAlways == Spec => []SnapshotHolds
<1>1. Init => SnapshotHolds
  BY DEF Init, SnapshotHolds
<1>2. TypeOK /\ SnapshotHolds /\ [Next]_vars => SnapshotHolds'
  <2> SUFFICES ASSUME TypeOK, SnapshotHolds, [Next]_vars
               PROVE  SnapshotHolds'
    OBVIOUS
  <2>1. ASSUME NEW today \in Dates, CatchupQuery(today)
        PROVE  SnapshotHolds'
    BY <2>1 DEF CatchupQuery, SnapshotHolds
  <2>2. CASE catchup' = NoCatchup
    BY <2>2 DEF SnapshotHolds
  <2>3. CASE UNCHANGED catchup /\ ingested \subseteq ingested'
    BY <2>3 DEF SnapshotHolds
  <2> QED
    BY <2>1, <2>2, <2>3
       DEF Next, Call, Consume, TryEnqueue, CatchupEnqueue, TestShutdown, TakeNext,
           ReturnEmpty, JobReturns, ClearInFlight, ThreadExits, JobCommits, Shutdown,
           Restart, vars
<1> QED
  BY <1>1, <1>2, TypeCorrect, PTL DEF Spec

LEMMA NoGapStep ==
  ASSUME TypeOK, SnapshotHolds, CatchupEnqueue,
         NEW d \in Dates, d < catchup.today, d >= catchup.today - CapDays
  PROVE  \/ d \in ingested'
         \/ d = inFlight'
         \/ \E i \in 1..Len(queue') : queue'[i].date = d
<1>1. PICK added \in Ascending(Missing) :
         queue' = queue \o NonManual(added)
  BY DEF CatchupEnqueue
<1>2. added \in Seq(Dates) /\ Len(added) \in Nat
  BY AddedFacts
<1>3. /\ NonManual(added) \in Seq(Entry)
      /\ Len(NonManual(added)) = Len(added)
      /\ \A i \in 1..Len(added) : NonManual(added)[i].date = added[i]
  <2>1. /\ NonManual(added) \in Seq(Entry)
        /\ Len(NonManual(added)) = Len(added)
        /\ \A i \in 1..Len(added) : NonManual(added)[i] = [date |-> added[i], manual |-> FALSE]
    BY <1>2, NonManualIsEntries
  <2>2. ASSUME NEW i \in 1..Len(added)
        PROVE  NonManual(added)[i].date = added[i]
    <3>1. NonManual(added)[i] = [date |-> added[i], manual |-> FALSE]
      BY <2>1
    <3> QED
      BY <3>1
  <2> QED
    BY <2>1, <2>2
<1>4. queue \in Seq(Entry) /\ Len(queue) \in Nat
  BY DEF TypeOK
<1>a. Len(queue') = Len(queue) + Len(added)
  BY <1>1, <1>3, <1>4
<1>b. ASSUME NEW i \in 1..Len(queue)
      PROVE  queue'[i] = queue[i]
  BY <1>1, <1>3, <1>4
<1>c. ASSUME NEW i \in 1..Len(added)
      PROVE  queue'[i + Len(queue)] = NonManual(added)[i]
  BY <1>1, <1>3, <1>4
<1>5. CASE d \in Missing
  <2>1. PICK i \in 1..Len(added) : added[i] = d
    BY <1>5, AddedFacts
  <2>2. i + Len(queue) \in 1..Len(queue')
    BY <1>2, <1>4, <1>a
  <2>3. queue'[i + Len(queue)].date = d
    BY <2>1, <1>3, <1>c
  <2> QED
    BY <2>2, <2>3
<1>6. CASE d \in catchup.ingested \/ d = inFlight
  BY <1>6 DEF CatchupEnqueue, SnapshotHolds
<1>7. CASE d \in QueuedDates
  <2>1. PICK i \in 1..Len(queue) : queue[i].date = d
    BY <1>7 DEF QueuedDates
  <2>2. i \in 1..Len(queue') /\ queue'[i].date = d
    BY <2>1, <1>2, <1>4, <1>a, <1>b
  <2> QED
    BY <2>2
<1>8. catchup.today \in Int
  BY DEF TypeOK, Catchup, CatchupEnqueue
<1> QED
  BY <1>5, <1>6, <1>7, <1>8 DEF Missing, Candidates

\* A catch-up that finishes leaves each day of its window ingested, waiting or
\* running, although its query and its locked half are separate steps.
THEOREM CatchupLeavesNoGapAlways == Spec => CatchupLeavesNoGap
<1>1. TypeOK /\ SnapshotHolds /\ [Next]_vars =>
        [CatchupEnqueue =>
           \A d \in Dates : d < catchup.today /\ d >= catchup.today - CapDays =>
              \/ d \in ingested'
              \/ d = inFlight'
              \/ \E i \in 1..Len(queue') : queue'[i].date = d]_vars
  BY NoGapStep
<1> QED
  BY <1>1, TypeCorrect, SnapshotAlways, PTL DEF Spec, CatchupLeavesNoGap

-----------------------------------------------------------------------------
(* The queue implements DateQueue *)

LEMMA DatesOfType ==
  ASSUME NEW q \in Seq(Entry)
  PROVE  /\ DatesOf(q) \in Seq(Dates)
         /\ Len(DatesOf(q)) = Len(q)
         /\ \A i \in 1..Len(q) : DatesOf(q)[i] = q[i].date
<1>1. \A i \in 1..Len(q) : q[i].date \in Dates
  <2> SUFFICES ASSUME NEW i \in 1..Len(q) PROVE q[i].date \in Dates
    OBVIOUS
  <2>1. q[i] \in Entry
    OBVIOUS
  <2> QED
    BY <2>1 DEF Entry
<1> QED
  BY <1>1 DEF DatesOf

LEMMA DatesOfConcat ==
  ASSUME NEW q \in Seq(Entry), NEW r \in Seq(Entry)
  PROVE  DatesOf(q \o r) = DatesOf(q) \o DatesOf(r)
<1>1. q \o r \in Seq(Entry) /\ Len(q \o r) = Len(q) + Len(r)
  OBVIOUS
<1>2. /\ DatesOf(q) \o DatesOf(r) \in Seq(Dates)
      /\ Len(DatesOf(q) \o DatesOf(r)) = Len(q) + Len(r)
  BY DatesOfType
<1>3. ASSUME NEW i \in 1..Len(q) + Len(r)
      PROVE  DatesOf(q \o r)[i] = (DatesOf(q) \o DatesOf(r))[i]
  <2>1. DatesOf(q \o r)[i] = (q \o r)[i].date
    BY <1>1, DatesOfType
  <2>2. CASE i <= Len(q)
    <3>1. (q \o r)[i] = q[i] /\ i \in 1..Len(q)
      BY <2>2
    <3>2. (DatesOf(q) \o DatesOf(r))[i] = DatesOf(q)[i]
      BY <3>1, DatesOfType
    <3> QED
      BY <2>1, <3>1, <3>2, DatesOfType
  <2>3. CASE i > Len(q)
    <3>1. (q \o r)[i] = r[i - Len(q)] /\ i - Len(q) \in 1..Len(r)
      BY <2>3
    <3>2. (DatesOf(q) \o DatesOf(r))[i] = DatesOf(r)[i - Len(q)]
      BY <2>3, <3>1, DatesOfType
    <3> QED
      BY <2>1, <3>1, <3>2, DatesOfType
  <2>4. i <= Len(q) \/ i > Len(q)
    OBVIOUS
  <2> QED
    BY <2>2, <2>3, <2>4
<1>4. DatesOf(q \o r) \in Seq(Dates) /\ Len(DatesOf(q \o r)) = Len(q) + Len(r)
  BY <1>1, DatesOfType
<1> QED
  BY <1>2, <1>3, <1>4

LEMMA DatesOfTail ==
  ASSUME NEW q \in Seq(Entry), q # <<>>
  PROVE  /\ DatesOf(q) # <<>>
         /\ Head(DatesOf(q)) = Head(q).date
         /\ Tail(DatesOf(q)) = DatesOf(Tail(q))
<1>1. Tail(q) \in Seq(Entry) /\ Len(Tail(q)) = Len(q) - 1 /\ Len(q) >= 1
  OBVIOUS
<1>2. /\ DatesOf(q) \in Seq(Dates)
      /\ Len(DatesOf(q)) = Len(q)
      /\ DatesOf(q) # <<>>
  BY <1>1, DatesOfType
<1>3. Head(DatesOf(q)) = Head(q).date
  BY <1>1, <1>2, DatesOfType
<1>4. ASSUME NEW i \in 1..Len(q)-1
      PROVE  Tail(DatesOf(q))[i] = DatesOf(Tail(q))[i]
  <2>1. Tail(DatesOf(q))[i] = DatesOf(q)[i + 1] /\ i + 1 \in 1..Len(q)
    BY <1>1, <1>2
  <2>2. Tail(q)[i] = q[i + 1] /\ i \in 1..Len(Tail(q))
    BY <1>1
  <2>3. DatesOf(q)[i + 1] = q[i + 1].date
    BY <2>1, DatesOfType
  <2>4. DatesOf(Tail(q))[i] = Tail(q)[i].date
    BY <2>2, <1>1, DatesOfType
  <2> QED
    BY <2>1, <2>2, <2>3, <2>4
<1>5. Tail(DatesOf(q)) \in Seq(Dates) /\ Len(Tail(DatesOf(q))) = Len(q) - 1
  BY <1>2
<1>6. DatesOf(Tail(q)) \in Seq(Dates) /\ Len(DatesOf(Tail(q))) = Len(q) - 1
  BY <1>1, DatesOfType
<1>7. Tail(DatesOf(q)) = DatesOf(Tail(q))
  BY <1>4, <1>5, <1>6, SeqEqual
<1> QED
  BY <1>2, <1>3, <1>7

LEMMA DatesOfNonManual ==
  ASSUME NEW ds \in Seq(Dates)
  PROVE  DatesOf(NonManual(ds)) = ds
<1>1. /\ NonManual(ds) \in Seq(Entry)
      /\ Len(NonManual(ds)) = Len(ds)
      /\ \A i \in 1..Len(ds) : NonManual(ds)[i] = [date |-> ds[i], manual |-> FALSE]
  BY NonManualIsEntries
<1>2. /\ DatesOf(NonManual(ds)) \in Seq(Dates)
      /\ Len(DatesOf(NonManual(ds))) = Len(ds)
      /\ \A i \in 1..Len(ds) : DatesOf(NonManual(ds))[i] = NonManual(ds)[i].date
  BY <1>1, DatesOfType
<1>3. ASSUME NEW i \in 1..Len(ds)
      PROVE  DatesOf(NonManual(ds))[i] = ds[i]
  <2>1. DatesOf(NonManual(ds))[i] = NonManual(ds)[i].date
    BY <1>2
  <2>2. NonManual(ds)[i] = [date |-> ds[i], manual |-> FALSE]
    BY <1>1
  <2> QED
    BY <2>1, <2>2
<1> QED
  BY <1>2, <1>3, SeqEqual

LEMMA PendingIsQueued == TypeOK => DQ!Pending = QueuedDates
<1> SUFFICES ASSUME TypeOK PROVE DQ!Pending = QueuedDates
  OBVIOUS
<1>1. /\ Len(DatesOf(queue)) = Len(queue)
      /\ \A i \in 1..Len(queue) : DatesOf(queue)[i] = queue[i].date
  BY DatesOfType DEF TypeOK
<1> QED
  BY <1>1 DEF DQ!Pending, QueuedDates

LEMMA QueueStep ==
  ThreadInv /\ [Next]_vars => [DQ!Next]_(DQ!vars)
<1> SUFFICES ASSUME ThreadInv, [Next]_vars
             PROVE  [DQ!Next]_(DQ!vars)
  OBVIOUS
<1> USE DEF ThreadInv
<1>0. queue \in Seq(Entry) /\ DatesOf(queue) \in Seq(Dates)
  BY DatesOfType DEF TypeOK
<1>1. ASSUME NEW ds \in Seq(Dates), Len(ds) \in 1..CapDays, DQ!Distinct(ds),
             \A i \in 1..Len(ds) : ds[i] \notin QueuedDates \cup {inFlight},
             DatesOf(queue') = DatesOf(queue) \o ds, inFlight' = inFlight
      PROVE  DQ!Accept
  <2>1. ds \in [1..Len(ds) -> Dates]
    OBVIOUS
  <2>2. \A i \in 1..Len(ds) : ds[i] \notin DQ!Pending \cup {inFlight}
    BY <1>1, PendingIsQueued
  <2> QED
    BY <1>1, <2>1, <2>2 DEF DQ!Accept
<1>2. ASSUME NEW d \in Dates, NEW manual \in BOOLEAN, TryEnqueue(d, manual)
      PROVE  DQ!Accept
  <2> DEFINE entry == [date |-> d, manual |-> manual]
  <2>1. entry \in Entry /\ <<entry>> \in Seq(Entry)
    BY DEF Entry
  <2>2. queue' = queue \o <<entry>>
    BY <1>0, <1>2, <2>1, AppendIsConcat DEF TryEnqueue
  <2>3. DatesOf(<<entry>>) = <<d>>
    BY DEF DatesOf
  <2>4. DatesOf(queue') = DatesOf(queue) \o <<d>>
    BY <1>0, <2>1, <2>2, <2>3, DatesOfConcat
  <2>5. inFlight' = inFlight /\ d \notin QueuedDates \cup {inFlight}
    BY <1>2 DEF TryEnqueue
  <2>6. <<d>> \in Seq(Dates) /\ Len(<<d>>) = 1 /\ <<d>>[1] = d
    OBVIOUS
  <2>7. Len(<<d>>) \in 1..CapDays
    BY <1>2, <2>6
  <2>8. DQ!Distinct(<<d>>) /\ \A i \in 1..Len(<<d>>) : <<d>>[i] \notin QueuedDates \cup {inFlight}
    BY <2>5, <2>6 DEF DQ!Distinct
  <2> HIDE DEF entry
  <2> QED
    BY <1>1, <2>4, <2>5, <2>6, <2>7, <2>8
<1>3. CASE CatchupEnqueue
  <2>1. PICK added \in Ascending(Missing) : queue' = queue \o NonManual(added)
    BY <1>3 DEF CatchupEnqueue
  <2>3. /\ added \in Seq(Dates)
        /\ Len(added) \in 0..CapDays
        /\ \A i \in 1..Len(added) : added[i] \in Missing
        /\ \A i, j \in 1..Len(added) : added[i] = added[j] => i = j
    BY AddedFacts
  <2>4. DatesOf(NonManual(added)) = added
    BY <2>3, DatesOfNonManual
  <2>5. DatesOf(queue') = DatesOf(queue) \o added
    BY <1>0, <2>1, <2>3, <2>4, NonManualIsEntries, DatesOfConcat
  <2>6. inFlight' = inFlight
    BY <1>3 DEF CatchupEnqueue
  <2>7. \A i \in 1..Len(added) : added[i] \notin QueuedDates \cup {inFlight}
    BY <2>3 DEF Missing
  <2>8. CASE Len(added) = 0
    <3>1. queue' = queue
      BY <1>0, <2>1, <2>3, <2>8 DEF NonManual
    <3> QED
      BY <3>1, <2>6 DEF DQ!vars
  <2>9. CASE Len(added) # 0
    <3>1. Len(added) \in 1..CapDays
      BY <2>3, <2>9
    <3>2. DQ!Distinct(added)
      BY <2>3 DEF DQ!Distinct
    <3>3. DQ!Accept
      BY <1>1, <2>3, <2>5, <2>6, <2>7, <3>1, <3>2
    <3> QED
      BY <3>3 DEF DQ!Next
  <2> QED
    BY <2>8, <2>9
<1>4. ASSUME NEW t \in Threads, TakeNext(t)
      PROVE  DQ!Start
  <2>1. inFlight = NoDate
    BY <1>4 DEF TakeNext, Goto, SingleFlight, OneAlive, Busy, TypeOK
  <2>2. queue # <<>> /\ inFlight' = Head(queue).date /\ queue' = Tail(queue)
    BY <1>4 DEF TakeNext
  <2> QED
    BY <1>0, <2>1, <2>2, DatesOfTail DEF DQ!Start
<1>5. ASSUME NEW t \in Threads, ClearInFlight(t)
      PROVE  DQ!Finish
  BY <1>5 DEF ClearInFlight, Goto, SingleFlight, Busy, DQ!Finish
<1>6. CASE Restart
  BY <1>6 DEF Restart, DQ!Lose, DQ!Next, DatesOf
<1>7. CASE UNCHANGED queueVars
  BY <1>7 DEF queueVars, DQ!vars
<1> QED
  BY <1>2, <1>3, <1>4, <1>5, <1>6, <1>7
     DEF Next, Call, Consume, TestShutdown, ReturnEmpty, JobReturns, ThreadExits,
         JobCommits, CatchupQuery, Shutdown, DQ!Next, vars, queueVars

\* The orchestrator keeps the promise of DateQueue: arrival order, no date
\* twice, one at a time, with threads, locks and split catch-ups hidden.
THEOREM QueueRefinement == Spec => RefinesDateQueue
<1>1. Init => DQ!Init
  BY DEF Init, DQ!Init, DatesOf
<1> QED
  BY <1>1, QueueStep, ThreadInvAlways, PTL
     DEF Spec, DQ!Spec, RefinesDateQueue

-----------------------------------------------------------------------------
(* No date twice *)

\* The same fact of the mapped queue, a sequence of dates.
NoDateTwiceMapped ==
  /\ DatesOf(queue) \in Seq(Dates)
  /\ DQ!Distinct(DatesOf(queue))
  /\ inFlight \notin DQ!Pending

LEMMA MappedIsNoDateTwice == TypeOK /\ NoDateTwiceMapped => NoDateTwice
<1> SUFFICES ASSUME TypeOK, NoDateTwiceMapped PROVE NoDateTwice
  OBVIOUS
<1>1. /\ Len(DatesOf(queue)) = Len(queue)
      /\ \A i \in 1..Len(queue) : DatesOf(queue)[i] = queue[i].date
  BY DatesOfType DEF TypeOK
<1>2. ASSUME NEW i \in 1..Len(queue), NEW j \in 1..Len(queue), queue[i].date = queue[j].date
      PROVE  i = j
  <2>1. DatesOf(queue)[i] = DatesOf(queue)[j]
    BY <1>1, <1>2
  <2> QED
    BY <1>1, <2>1 DEF NoDateTwiceMapped, DQ!Distinct
<1> QED
  BY <1>2, PendingIsQueued DEF NoDateTwice, NoDateTwiceMapped

LEMMA DistinctConcat ==
  ASSUME NEW p \in Seq(Dates), NEW ds \in Seq(Dates), DQ!Distinct(p), DQ!Distinct(ds),
         \A i \in 1..Len(p), j \in 1..Len(ds) : p[i] # ds[j]
  PROVE  DQ!Distinct(p \o ds)
<1> DEFINE q == p \o ds
<1>1. Len(q) = Len(p) + Len(ds) /\ Len(p) \in Nat /\ Len(ds) \in Nat
  OBVIOUS
<1>2. ASSUME NEW k \in 1..Len(q)
      PROVE  \/ k \in 1..Len(p) /\ q[k] = p[k]
             \/ k > Len(p) /\ k - Len(p) \in 1..Len(ds) /\ q[k] = ds[k - Len(p)]
  OBVIOUS
<1> HIDE DEF q
<1>3. ASSUME NEW i \in 1..Len(q), NEW j \in 1..Len(q), q[i] = q[j]
      PROVE  i = j
  <2>1. CASE i \in 1..Len(p) /\ j \in 1..Len(p)
    <3>1. p[i] = p[j]
      BY <1>1, <1>2, <1>3, <2>1
    <3> QED
      BY <3>1, <2>1 DEF DQ!Distinct
  <2>2. CASE i \notin 1..Len(p) /\ j \notin 1..Len(p)
    <3>1. /\ i - Len(p) \in 1..Len(ds) /\ j - Len(p) \in 1..Len(ds)
          /\ ds[i - Len(p)] = ds[j - Len(p)]
      BY <1>2, <1>3, <2>2
    <3>2. i - Len(p) = j - Len(p)
      BY <3>1 DEF DQ!Distinct
    <3> QED
      BY <3>2, <1>1
  <2>3. CASE i \in 1..Len(p) /\ j \notin 1..Len(p)
    BY <1>1, <1>2, <1>3, <2>3
  <2>4. CASE i \notin 1..Len(p) /\ j \in 1..Len(p)
    BY <1>1, <1>2, <1>3, <2>4
  <2> QED
    BY <2>1, <2>2, <2>3, <2>4
<1> QED
  BY <1>3 DEF DQ!Distinct, q

LEMMA NoDateTwiceStep ==
  ASSUME NoDateTwiceMapped, [DQ!Next]_(DQ!vars), inFlight \in Dates \cup {NoDate},
         inFlight' \in Dates \cup {NoDate}
  PROVE  NoDateTwiceMapped'
<1> DEFINE p == DatesOf(queue)
           q == DatesOf(queue')
<1> USE DEF DQ!Pending, NoDateTwiceMapped
<1>0. p \in Seq(Dates) /\ Len(p) \in Nat
  OBVIOUS
<1>1. CASE DQ!Accept
  <2>1. PICK n \in 1..CapDays : \E ds \in [1..n -> Dates] :
            /\ DQ!Distinct(ds)
            /\ \A i \in 1..n : ds[i] \notin DQ!Pending \cup {inFlight}
            /\ q = p \o ds
            /\ inFlight' = inFlight
    BY <1>1 DEF DQ!Accept
  <2>2. PICK ds \in [1..n -> Dates] :
            /\ DQ!Distinct(ds)
            /\ \A i \in 1..n : ds[i] \notin DQ!Pending \cup {inFlight}
            /\ q = p \o ds
            /\ inFlight' = inFlight
    BY <2>1
  <2>3. ds \in Seq(Dates) /\ Len(ds) = n
    OBVIOUS
  <2>4. \A i \in 1..Len(p), j \in 1..Len(ds) : p[i] # ds[j]
    BY <2>2, <2>3
  <2>a. DQ!Distinct(p \o ds)
    BY <2>2, <2>3, <2>4, DistinctConcat
  <2>b. q = p \o ds
    BY <2>2
  <2>c. p \o ds \in Seq(Dates) /\ Len(p \o ds) = Len(p) + n
    BY <1>0, <2>3
  <2> HIDE DEF p, q
  <2>5. DQ!Distinct(q) /\ q \in Seq(Dates) /\ Len(q) = Len(p) + n
    BY <2>a, <2>b, <2>c
  <2> USE DEF p, q
  <2>6. ASSUME NEW k \in 1..Len(q) PROVE q[k] # inFlight'
    <3>1. CASE k \in 1..Len(p)
      BY <1>0, <2>2, <2>3, <3>1
    <3>2. CASE k \notin 1..Len(p)
      <4>1. k - Len(p) \in 1..n /\ q[k] = ds[k - Len(p)]
        BY <1>0, <2>2, <2>3, <2>5, <3>2
      <4> QED
        BY <4>1, <2>2
    <3> QED
      BY <3>1, <3>2
  <2> QED
    BY <2>5, <2>6
<1>2. CASE DQ!Start
  <2>1. p # <<>> /\ q = Tail(p) /\ inFlight' = Head(p)
    BY <1>2 DEF DQ!Start
  <2>2. /\ q \in Seq(Dates) /\ Len(q) = Len(p) - 1 /\ inFlight' = p[1]
        /\ \A k \in 1..Len(q) : q[k] = p[k + 1]
        /\ 1 \in 1..Len(p)
    BY <1>0, <2>1
  <2>3. \A k \in 1..Len(q) : k + 1 \in 1..Len(p) /\ k + 1 # 1
    BY <1>0, <2>2
  <2>4. ASSUME NEW i \in 1..Len(q), NEW j \in 1..Len(q), q[i] = q[j]
        PROVE  i = j
    <3>1. p[i + 1] = p[j + 1]
      BY <2>2, <2>4
    <3>2. i + 1 = j + 1
      BY <3>1, <2>3 DEF DQ!Distinct
    <3> QED
      BY <3>2, <1>0, <2>2
  <2>5. ASSUME NEW k \in 1..Len(q) PROVE q[k] # inFlight'
    BY <2>2, <2>3 DEF DQ!Distinct
  <2> QED
    BY <2>2, <2>4, <2>5 DEF DQ!Distinct
<1>3. CASE DQ!Finish
  <2>1. q = p /\ inFlight' = NoDate
    BY <1>3 DEF DQ!Finish
  <2> QED
    BY <1>0, <2>1 DEF DQ!Distinct
<1>4. CASE DQ!Lose
  <2>1. q = <<>>
    BY <1>4 DEF DQ!Lose
  <2> QED
    BY <2>1 DEF DQ!Distinct
<1>5. CASE UNCHANGED DQ!vars
  <2>1. q = p /\ inFlight' = inFlight
    BY <1>5 DEF DQ!vars
  <2> QED
    BY <2>1 DEF DQ!Distinct
<1> QED
  BY <1>1, <1>2, <1>3, <1>4, <1>5 DEF DQ!Next

\* No date is queued twice or queued while it runs, whatever the callers
\* interleave with the worker (the membership tests under the lock).
THEOREM NoDateTwiceAlways == Spec => []NoDateTwice
<1>1. Init => NoDateTwiceMapped
  BY DEF Init, NoDateTwiceMapped, DatesOf, DQ!Distinct, DQ!Pending
<1>2. ThreadInv /\ ThreadInv' /\ NoDateTwiceMapped /\ [Next]_vars => NoDateTwiceMapped'
  BY QueueStep, NoDateTwiceStep DEF ThreadInv, TypeOK
<1>3. ThreadInv /\ NoDateTwiceMapped => NoDateTwice
  BY MappedIsNoDateTwice DEF ThreadInv
<1> QED
  BY <1>1, <1>2, <1>3, ThreadInvAlways, PTL DEF Spec

-----------------------------------------------------------------------------
(* What keeps the queue moving, and the one thing that stops it *)

\* A thread that will look at the queue again.
Looping(t) == pc[t] \in {"loop", "lock", "job", "finally"}

Stranded == queue # <<>> /\ \A t \in Threads : ~Looping(t)

Enqueue == CatchupEnqueue \/ \E d \in Dates, manual \in BOOLEAN : TryEnqueue(d, manual)

\* Dates are left waiting with no worker to take them only by a shutdown, or by
\* a call that comes between the worker's return and its thread's death: no
\* other interleaving of callers, catch-ups, jobs and restarts strands a date.
OnlyLateCallsStrand ==
  [][~Stranded /\ Stranded' =>
       \/ shutdown
       \/ Enqueue /\ worker # NoThread /\ pc[worker] = "returned"]_vars

\* Once that thread is dead, the next accepted date starts a worker again.
NextCallRevives ==
  [][(\A t \in Threads : pc[t] = "dead") /\ Len(queue') > Len(queue) =>
        \E t \in Threads : Looping(t)']_vars

\* How far the i-th waiting entry is from being taken by thread t: the steps of
\* a whole round for each entry before it, and what is left of this round.
Lag(i, t) ==
  4 * i + CASE pc[t] = "job"     -> 3
            [] pc[t] = "finally" -> 2
            [] pc[t] = "loop"    -> 1
            [] OTHER             -> 0

\* Entry i is taken by this step, or stays as near to t as it was, nearer if the
\* step is t's own.
Advances(i, t) ==
  \/ i = 1 /\ inFlight' = queue[1].date /\ queue' = Tail(queue)
  \/ \E j \in 1..Len(queue') : /\ queue'[j] = queue[i]
                               /\ Looping(t)'
                               /\ Lag(j, t)' <= Lag(i, t)
                               /\ Consume(t) => Lag(j, t)' < Lag(i, t)

\* The safety core of DrainsWhileLooping.  While the process stays up and is
\* not shut down, no step of anybody puts a waiting entry further from being
\* taken, and each step of the worker's loop takes it or brings it nearer: new
\* dates go behind it, and the worker does not stop with a date waiting.
WaitingAdvances ==
  [][~shutdown /\ ~Restart =>
       \A t \in Threads : Looping(t) => \A i \in 1..Len(queue) : Advances(i, t)]_vars

\* A call puts its entries behind the others, and its thread is started unless
\* one is alive; a catch-up with nothing to add leaves all as it is.
LEMMA EnqueueFacts ==
  ASSUME TypeOK, Enqueue
  PROVE  /\ \E s \in Seq(Entry) : queue' = queue \o s
         /\ \/ queue' = queue /\ UNCHANGED threadVars
            \/ EnsureWorker
         /\ UNCHANGED <<inFlight, shutdown>>
<1>1. CASE CatchupEnqueue
  <2>1. PICK added \in Ascending(Missing) :
           /\ queue' = queue \o NonManual(added)
           /\ IF added # <<>> THEN EnsureWorker ELSE UNCHANGED threadVars
    BY <1>1 DEF CatchupEnqueue
  <2>2. added \in Seq(Dates)
    BY AddedFacts
  <2>3. NonManual(added) \in Seq(Entry) /\ Len(NonManual(added)) = Len(added)
    BY <2>2, NonManualIsEntries
  <2>4. CASE added = <<>>
    <3>1. NonManual(added) = <<>>
      BY <2>3, <2>4
    <3>2. queue' = queue
      BY <2>1, <3>1 DEF TypeOK
    <3> QED
      BY <1>1, <2>1, <2>3, <2>4, <3>2 DEF CatchupEnqueue
  <2> QED
    BY <1>1, <2>1, <2>3, <2>4 DEF CatchupEnqueue
<1>2. ASSUME NEW d \in Dates, NEW manual \in BOOLEAN, TryEnqueue(d, manual)
      PROVE  /\ \E s \in Seq(Entry) : queue' = queue \o s
             /\ EnsureWorker
             /\ UNCHANGED <<inFlight, shutdown>>
  <2>1. <<[date |-> d, manual |-> manual]>> \in Seq(Entry)
    BY DEF Entry
  <2>2. queue' = queue \o <<[date |-> d, manual |-> manual]>>
    BY <1>2, <2>1 DEF TryEnqueue, TypeOK
  <2> QED
    BY <1>2, <2>1, <2>2 DEF TryEnqueue
<1> QED
  BY <1>1, <1>2 DEF Enqueue

\* While some thread is alive, a call starts none.
LEMMA AliveIsEnough ==
  ASSUME ThreadInv, Enqueue, NEW t \in Threads, pc[t] # "dead"
  PROVE  UNCHANGED threadVars
<1>1. worker = t /\ worker # NoThread
  BY DEF ThreadInv, OneAlive
<1>2. TypeOK
  BY DEF ThreadInv
<1> QED
  BY <1>1, <1>2, EnqueueFacts DEF EnsureWorker

\* The lost wake-up is the queue's only way to leave a date behind.
THEOREM OnlyLateCallsStrandAlways == Spec => OnlyLateCallsStrand
<1>1. ASSUME ThreadInv, [Next]_vars, ~Stranded, Stranded', ~shutdown
      PROVE  Enqueue /\ worker # NoThread /\ pc[worker] = "returned"
  <2>0. TypeOK /\ OneAlive
    BY <1>1 DEF ThreadInv
  <2>1. CASE Enqueue
    <3>1. CASE queue' = queue /\ UNCHANGED threadVars
      BY <1>1, <3>1 DEF Stranded, Looping, threadVars
    <3>2. CASE EnsureWorker
      <4>1. worker # NoThread /\ pc[worker] # "dead" /\ UNCHANGED threadVars
        BY <1>1, <2>0, <3>2 DEF EnsureWorker, Stranded, Looping, TypeOK
      <4> QED
        BY <1>1, <2>0, <2>1, <4>1 DEF Stranded, Looping, TypeOK, ThreadState, threadVars
    <3> QED
      BY <2>0, <2>1, <3>1, <3>2, EnqueueFacts
  <2>2. ASSUME NEW t \in Threads, Consume(t)
        PROVE  FALSE
    <3> USE <2>0 DEF TypeOK, Goto, Stranded, Looping, queueVars
    <3>1. CASE TestShutdown(t)
      BY <1>1, <3>1 DEF TestShutdown
    <3>2. CASE TakeNext(t)
      BY <1>1, <3>2 DEF TakeNext
    <3>3. CASE ReturnEmpty(t)
      BY <1>1, <3>3 DEF ReturnEmpty
    <3>4. CASE JobReturns(t)
      BY <1>1, <3>4 DEF JobReturns
    <3>5. CASE ClearInFlight(t)
      BY <1>1, <3>5 DEF ClearInFlight
    <3>6. CASE ThreadExits(t)
      BY <1>1, <3>6 DEF ThreadExits
    <3> QED
      BY <2>2, <3>1, <3>2, <3>3, <3>4, <3>5, <3>6 DEF Consume
  <2>3. CASE Restart
    BY <1>1, <2>3 DEF Restart, Stranded
  <2>4. CASE UNCHANGED <<queue, pc>>
    BY <1>1, <2>4 DEF Stranded, Looping
  <2> QED
    BY <1>1, <2>1, <2>2, <2>3, <2>4
       DEF Next, Call, Enqueue, CatchupQuery, JobCommits, Shutdown, vars, queueVars, threadVars
<1> QED
  BY <1>1, ThreadInvAlways, PTL DEF Spec, OnlyLateCallsStrand

\* What a lost wake-up left waiting goes on with the next date accepted.
THEOREM NextCallRevivesAlways == Spec => NextCallRevives
<1>1. ASSUME ThreadInv, [Next]_vars, \A t \in Threads : pc[t] = "dead",
             Len(queue') > Len(queue)
      PROVE  \E t \in Threads : Looping(t)'
  <2>0. TypeOK /\ Len(queue) \in Nat
    BY <1>1 DEF ThreadInv, TypeOK
  <2>1. CASE Enqueue
    <3>1. queue' # queue
      BY <1>1, <2>0
    <3>2. EnsureWorker
      BY <2>0, <2>1, <3>1, EnqueueFacts
    <3> QED
      BY <1>1, <2>0, <3>2 DEF EnsureWorker, TypeOK, Looping
  <2>2. ASSUME NEW t \in Threads, Consume(t)
        PROVE  FALSE
    BY <1>1, <2>2 DEF Consume, TestShutdown, TakeNext, ReturnEmpty, JobReturns,
       ClearInFlight, ThreadExits, Goto
  <2>3. CASE Restart
    BY <1>1, <2>0, <2>3 DEF Restart
  <2>4. CASE queue' = queue
    BY <1>1, <2>0, <2>4
  <2> QED
    BY <1>1, <2>1, <2>2, <2>3, <2>4
       DEF Next, Call, Enqueue, CatchupQuery, JobCommits, Shutdown, vars, queueVars
<1> QED
  BY <1>1, ThreadInvAlways, PTL DEF Spec, NextCallRevives

\* The worker's own step takes the oldest entry or shortens every entry's way.
LEMMA WorkerAdvances ==
  ASSUME TypeOK, NEW t \in Threads, Consume(t), Looping(t), ~shutdown,
         NEW i \in 1..Len(queue)
  PROVE  Advances(i, t)
<1>0. queue \in Seq(Entry) /\ Len(queue) \in Nat /\ queue # <<>> /\ i \in Nat
  BY DEF TypeOK
<1> USE <1>0 DEF TypeOK, Goto, Looping, Lag, Advances, queueVars
<1>1. CASE TestShutdown(t)
  BY <1>1 DEF TestShutdown
<1>2. CASE TakeNext(t)
  <2>1. pc[t] = "lock" /\ pc'[t] = "job" /\ queue' = Tail(queue)
    BY <1>2 DEF TakeNext
  <2>2. CASE i = 1
    BY <1>2, <2>1, <2>2, HeadOfQueue DEF TakeNext
  <2>3. CASE i # 1
    <3>1. i - 1 \in 1..Len(queue') /\ queue'[i - 1] = queue[i]
      BY <2>1, <2>3, HeadOfQueue
    <3>2. 4 * (i - 1) + 3 < 4 * i + 0 /\ 4 * (i - 1) + 3 <= 4 * i + 0
      OBVIOUS
    <3> QED
      BY <2>1, <3>1, <3>2
  <2> QED
    BY <2>2, <2>3
<1>3. CASE JobReturns(t)
  BY <1>3 DEF JobReturns
<1>4. CASE ClearInFlight(t)
  BY <1>4 DEF ClearInFlight
<1> QED
  BY <1>1, <1>2, <1>3, <1>4 DEF Consume, ReturnEmpty, ThreadExits

\* Nobody puts a waiting date back and the worker always gains on it: with a
\* worker that is scheduled, every waiting date is taken.
THEOREM WaitingAdvancesAlways == Spec => WaitingAdvances
<1>1. ASSUME ThreadInv, [Next]_vars, ~shutdown, ~Restart,
             NEW t \in Threads, Looping(t), NEW i \in 1..Len(queue)
      PROVE  Advances(i, t)
  <2>0. /\ TypeOK /\ queue \in Seq(Entry) /\ Len(queue) \in Nat
        /\ pc[t] # "dead" /\ OneAlive
    BY <1>1 DEF ThreadInv, TypeOK, Looping
  <2>1. CASE Consume(t)
    BY <1>1, <2>0, <2>1, WorkerAdvances
  <2>2. CASE ~Consume(t) /\ UNCHANGED pc /\ \E s \in Seq(Entry) : queue' = queue \o s
    <3>1. i \in 1..Len(queue') /\ queue'[i] = queue[i]
      BY <2>0, <2>2
    <3>2. Looping(t)' /\ Lag(i, t)' <= Lag(i, t)
      BY <1>1, <2>0, <2>2 DEF Looping, Lag
    <3> QED
      BY <2>2, <3>1, <3>2 DEF Advances
  <2>3. CASE Enqueue
    BY <1>1, <2>0, <2>1, <2>2, <2>3, EnqueueFacts, AliveIsEnough DEF threadVars
  <2>4. ASSUME NEW u \in Threads, Consume(u)
        PROVE  u = t
    <3>1. pc[u] # "dead"
      BY <2>4 DEF Consume, TestShutdown, TakeNext, ReturnEmpty, JobReturns,
         ClearInFlight, ThreadExits, Goto
    <3> QED
      BY <2>0, <3>1 DEF OneAlive
  <2>5. CASE UNCHANGED <<queue, pc>>
    <3>1. <<>> \in Seq(Entry) /\ queue' = queue \o <<>>
      BY <2>0, <2>5
    <3> QED
      BY <2>1, <2>2, <2>5, <3>1
  <2> QED
    BY <1>1, <2>1, <2>3, <2>4, <2>5
       DEF Next, Call, Enqueue, CatchupQuery, JobCommits, Shutdown, vars, queueVars, threadVars
<1>2. ThreadInv /\ [Next]_vars =>
        (~shutdown /\ ~Restart =>
           \A t \in Threads : Looping(t) => \A i \in 1..Len(queue) : Advances(i, t))
  BY <1>1
<1> QED
  BY <1>2, ThreadInvAlways, PTL DEF Spec, WaitingAdvances
=============================================================================
