---------------------------- MODULE IngestProofs ----------------------------
(***************************************************************************)
(* Proofs about Ingest, for every calendar and all configs: no run of a    *)
(* day that is not over, no day left out, and the queue is a DateQueue.    *)
(*                                                                         *)
(* DaysAccountedFor needs two more facts.  While nothing has disturbed the *)
(* process the trigger is today's or tomorrow's, since midnight has not    *)
(* overtaken a fire; and the days that pass between a boot's query and its *)
(* lock are already the daily fire's.                                      *)
(***************************************************************************)
EXTENDS Ingest, SequenceTheorems, TLAPS

USE CalendarAssumption, CapAssumption, ManualAssumption

-----------------------------------------------------------------------------
(* The config and its clock *)

LEMMA ConfigFacts ==
  TypeOK => /\ config.zone \in {0, 1} /\ config.cap \in 1..CapDays
            /\ Configured => config \in Configs /\ config.time \in {0, 1}
BY ConfigsAssumption DEF TypeOK, Configured, NoConfig

\* The zones of the config and of the past: the clock of the easternmost is ahead.
EastInv == config.zone <= east

LEMMA EastIsAhead ==
  TypeOK /\ EastInv => DayIn(east) \in Int /\ today <= DayIn(east)
BY ConfigFacts DEF TypeOK, EastInv, DayIn

\* A save changes what the operator's clock shows, and no zone's clock.
LEMMA SaveKeepsClocks ==
  ASSUME TypeOK, EastInv, NEW c \in Configs, SaveConfig(c)
  PROVE  /\ EastInv' /\ east' \in {0, 1}
         /\ today' \in FirstDay..LastDay /\ slot' \in {0, 1} /\ config' = c
         /\ DayIn(east) <= DayIn(east)'
<1>1. /\ config.zone \in {0, 1} /\ c.zone \in {0, 1} /\ east \in {0, 1}
      /\ slot \in {0, 1} /\ today \in Int /\ config.zone <= east
  BY ConfigFacts, ConfigsAssumption DEF TypeOK, Slots, EastInv
<1>2. /\ config' = c /\ today' = DayIn(c.zone) /\ today' \in FirstDay..LastDay
      /\ slot' = IF c.zone = config.zone THEN slot ELSE 1 - slot
      /\ east' = IF c.zone > east THEN c.zone ELSE east
  BY DEF SaveConfig
<1>3. EastInv' /\ east' \in {0, 1} /\ slot' \in {0, 1}
  BY <1>1, <1>2 DEF EastInv
<1>4. DayIn(east) <= DayIn(east)'
  BY <1>1, <1>2 DEF DayIn
<1> QED BY <1>2, <1>3, <1>4

-----------------------------------------------------------------------------
(* The steps of the queue *)

LEMMA EnqueueFacts ==
  ASSUME TypeOK, NEW d \in Days, NEW manual \in BOOLEAN, Enqueue(d, manual)
  PROVE  /\ queue' \in Seq(Entry)
         /\ QueuedDates' \subseteq QueuedDates \cup {d}
         /\ QueuedDates \subseteq QueuedDates'
         /\ d \in QueuedDates' \cup {job.date}
         /\ worker' \in {"dead", "loop", "leaving"}
<1>1. queue \in Seq(Entry)
  BY DEF TypeOK
<1>2. worker' \in {"dead", "loop", "leaving"}
  BY DEF Enqueue, EnsureWorker, TypeOK
<1>3. CASE d \in QueuedDates \cup {job.date}
  <2>1. queue' = queue
    BY <1>3 DEF Enqueue
  <2>2. QueuedDates' = QueuedDates
    BY <2>1 DEF QueuedDates
  <2> QED BY <1>1, <1>2, <1>3, <2>1, <2>2
<1>4. CASE d \notin QueuedDates \cup {job.date}
  <2> DEFINE entry == [date |-> d, manual |-> manual]
  <2>1. entry \in Entry /\ entry.date = d /\ queue' = Append(queue, entry)
    BY <1>4 DEF Enqueue, Entry
  <2> HIDE DEF entry
  <2>2. /\ queue' \in Seq(Entry) /\ Len(queue') = Len(queue) + 1
        /\ queue'[Len(queue) + 1] = entry
        /\ \A i \in 1..Len(queue) : queue'[i] = queue[i]
    BY <1>1, <2>1
  <2>3. Len(queue) \in Nat
    BY <1>1
  <2>4. ASSUME NEW e \in QueuedDates' PROVE e \in QueuedDates \cup {d}
    <3>1. PICK i \in 1..Len(queue') : e = queue'[i].date
      BY <2>4 DEF QueuedDates
    <3>2. i = Len(queue) + 1 \/ i \in 1..Len(queue)
      BY <3>1, <2>2, <2>3
    <3> QED BY <3>1, <3>2, <2>1, <2>2 DEF QueuedDates
  <2>5. ASSUME NEW e \in QueuedDates PROVE e \in QueuedDates'
    <3>1. PICK i \in 1..Len(queue) : e = queue[i].date
      BY <2>5 DEF QueuedDates
    <3>2. i \in 1..Len(queue') /\ queue'[i] = queue[i]
      BY <3>1, <2>2, <2>3
    <3> QED BY <3>1, <3>2 DEF QueuedDates
  <2>6. d \in QueuedDates'
    <3>1. Len(queue) + 1 \in 1..Len(queue')
      BY <2>2, <2>3
    <3> QED BY <3>1, <2>1, <2>2 DEF QueuedDates
  <2>7. QueuedDates' \subseteq QueuedDates \cup {d} /\ QueuedDates \subseteq QueuedDates'
    BY <2>4, <2>5
  <2> QED BY <1>2, <2>2, <2>6, <2>7
<1> QED BY <1>3, <1>4

LEMMA ScheduledFacts ==
  ASSUME NEW S \in SUBSET Days, NEW s \in Scheduled(S)
  PROVE  /\ s \in Seq(Entry)
         /\ Len(s) \in 0..CapDays
         /\ \A i \in 1..Len(s) : s[i].date \in S
         /\ \A i, j \in 1..Len(s) : s[i].date = s[j].date => i = j
         /\ \A d \in S : \E i \in 1..Len(s) : s[i].date = d
<1>1. PICK n \in 0..CapDays : s \in [1..n -> {e \in Entry : e.date \in S /\ ~e.manual}]
  BY DEF Scheduled
<1>2. n \in Nat /\ \A i \in 1..n : s[i] \in Entry /\ s[i].date \in S
  BY <1>1
<1>3. s \in Seq(Entry) /\ Len(s) = n
  <2>1. s \in [1..n -> Entry]
    BY <1>1, <1>2
  <2> QED BY <1>2, <2>1
<1>4. \A i, j \in 1..Len(s) : i < j => s[i].date < s[j].date
  BY DEF Scheduled
<1>5. \A i \in 1..Len(s) : s[i].date \in Int
  <2>1. Days \subseteq Int
    BY DEF Days
  <2>2. S \subseteq Int
    BY <2>1
  <2> QED BY <2>2, <1>2, <1>3
<1>6. \A i, j \in 1..Len(s) : s[i].date = s[j].date => i = j
  <2> SUFFICES ASSUME NEW i \in 1..Len(s), NEW j \in 1..Len(s), s[i].date = s[j].date
               PROVE  i = j
    OBVIOUS
  <2> QED BY <1>3, <1>4, <1>5
<1>7. \A d \in S : \E i \in 1..Len(s) : s[i].date = d
  BY DEF Scheduled
<1> QED BY <1>2, <1>3, <1>6, <1>7

LEMMA MissingIsDays == Missing \in SUBSET Days
BY DEF Missing

LEMMA CatchupFacts ==
  ASSUME TypeOK, CatchupEnqueue
  PROVE  queue' \in Seq(Entry) /\ QueuedDates' = QueuedDates \cup Missing
<1>1. PICK s \in Scheduled(Missing) : queue' = queue \o s
  BY DEF CatchupEnqueue
<1>2. /\ s \in Seq(Entry) /\ queue \in Seq(Entry) /\ Len(s) \in Nat /\ Len(queue) \in Nat
      /\ \A i \in 1..Len(s) : s[i].date \in Missing
      /\ \A d \in Missing : \E i \in 1..Len(s) : s[i].date = d
  BY ScheduledFacts, MissingIsDays DEF TypeOK
<1>3. /\ queue' \in Seq(Entry) /\ Len(queue') = Len(queue) + Len(s)
      /\ \A i \in 1..Len(queue) : queue'[i] = queue[i]
      /\ \A i \in 1..Len(s) : queue'[Len(queue) + i] = s[i]
  BY <1>1, <1>2
<1>4. ASSUME NEW d \in QueuedDates' PROVE d \in QueuedDates \cup Missing
  <2>1. PICK k \in 1..Len(queue') : d = queue'[k].date
    BY <1>4 DEF QueuedDates
  <2>2. CASE k <= Len(queue)
    <3>1. k \in 1..Len(queue) /\ queue'[k] = queue[k]
      BY <2>1, <2>2, <1>2, <1>3
    <3> QED BY <2>1, <3>1 DEF QueuedDates
  <2>3. CASE k > Len(queue)
    <3>1. k - Len(queue) \in 1..Len(s) /\ k = Len(queue) + (k - Len(queue))
      BY <2>1, <2>3, <1>2, <1>3
    <3>2. queue'[k] = s[k - Len(queue)]
      BY <3>1, <1>3
    <3> QED BY <3>1, <3>2, <2>1, <1>2
  <2> QED BY <2>1, <2>2, <2>3, <1>2
<1>5. ASSUME NEW d \in QueuedDates PROVE d \in QueuedDates'
  <2>1. PICK k \in 1..Len(queue) : d = queue[k].date
    BY <1>5 DEF QueuedDates
  <2>2. k \in 1..Len(queue') /\ queue'[k] = queue[k]
    BY <2>1, <1>2, <1>3
  <2> QED BY <2>1, <2>2 DEF QueuedDates
<1>6. ASSUME NEW d \in Missing PROVE d \in QueuedDates'
  <2>1. PICK k \in 1..Len(s) : d = s[k].date
    BY <1>6, <1>2
  <2>2. Len(queue) + k \in 1..Len(queue') /\ queue'[Len(queue) + k] = s[k]
    BY <2>1, <1>2, <1>3
  <2> QED BY <2>1, <2>2 DEF QueuedDates
<1> QED BY <1>3, <1>4, <1>5, <1>6

LEMMA TakeFacts ==
  ASSUME TypeOK, TakeNext
  PROVE  /\ queue' \in Seq(Entry) /\ job' \in Entry
         /\ QueuedDates = QueuedDates' \cup {job'.date}
<1>1. /\ queue \in Seq(Entry) /\ queue # <<>> /\ queue' = Tail(queue) /\ job' = queue[1]
  BY DEF TypeOK, TakeNext
<1>2. /\ Len(queue) \in Nat \ {0} /\ Len(queue') = Len(queue) - 1
      /\ queue' \in Seq(Entry) /\ job' \in Entry
      /\ \A i \in 1..Len(queue') : queue'[i] = queue[i + 1]
  BY <1>1
<1>3. ASSUME NEW d \in QueuedDates PROVE d \in QueuedDates' \cup {job'.date}
  <2>1. PICK k \in 1..Len(queue) : d = queue[k].date
    BY <1>3 DEF QueuedDates
  <2>2. CASE k = 1
    BY <2>1, <2>2, <1>1
  <2>3. CASE k # 1
    <3>1. k - 1 \in 1..Len(queue') /\ k = (k - 1) + 1
      BY <2>1, <2>3, <1>2
    <3> QED BY <3>1, <2>1, <1>2 DEF QueuedDates
  <2> QED BY <2>2, <2>3
<1>4. ASSUME NEW d \in QueuedDates' PROVE d \in QueuedDates
  <2>1. PICK k \in 1..Len(queue') : d = queue'[k].date
    BY <1>4 DEF QueuedDates
  <2>2. k + 1 \in 1..Len(queue) /\ queue'[k] = queue[k + 1]
    BY <2>1, <1>2
  <2> QED BY <2>1, <2>2 DEF QueuedDates
<1>5. job'.date \in QueuedDates
  <2>1. 1 \in 1..Len(queue)
    BY <1>2
  <2> QED BY <2>1, <1>1 DEF QueuedDates
<1> QED BY <1>2, <1>3, <1>4, <1>5

-----------------------------------------------------------------------------
(* Types, and days that are past *)

\* A catch-up under way has seen a day that has come and rows that are there.
CatchupInv ==
  /\ catchup # NoCatchup => /\ phase # "down"
                            /\ catchup.today \in FirstDay..today
                            /\ catchup.ingested \subseteq Ingested
  /\ phase = "booting" => Configured

PastInv == TypeOK /\ CatchupInv /\ EastInv /\ OnlyPastDays

LEMMA DayFacts == TypeOK => today \in Int /\ today - 1 \in Days /\ Days \subseteq Int
                            /\ (\A d \in QueuedDates : d \in Days)
<1> SUFFICES ASSUME TypeOK
             PROVE  /\ today \in Int /\ today - 1 \in Days /\ Days \subseteq Int
                    /\ \A d \in QueuedDates : d \in Days
  OBVIOUS
<1>1. today \in Int /\ today - 1 \in Days /\ Days \subseteq Int
  BY DEF TypeOK, Days
<1>2. \A i \in 1..Len(queue) : queue[i] \in Entry
  BY DEF TypeOK
<1> QED BY <1>1, <1>2 DEF QueuedDates, Entry

LEMMA TypeStep == PastInv /\ [Next]_vars => TypeOK'
<1> SUFFICES ASSUME PastInv, [Next]_vars PROVE TypeOK'
  OBVIOUS
<1> USE DEF PastInv
<1> USE DEF clockVars, planVars, queueVars, historyVars
<1>0. \A d \in FirstDay..LastDay, half, time \in {0, 1} :
        NextFire(d, half, time) \in FirstDay..LastDay + 1
  BY DEF NextFire
<1>1. CASE Tick
  BY <1>1 DEF TypeOK, Tick, Slots, Due
<1>2. CASE Boot
  BY <1>2, <1>0, ConfigFacts DEF TypeOK, Boot, Slots
<1>3. CASE CatchupQuery
  <2>1. {d \in Ingested : d >= today - config.cap} \in SUBSET Days /\ today \in Days
    BY DEF TypeOK, Ingested, Entry, Days
  <2> QED BY <1>3, <2>1 DEF TypeOK, CatchupQuery
<1>4. CASE BootQueryFails
  BY <1>4 DEF TypeOK, BootQueryFails
<1>5. CASE CatchupEnqueue
  <2>1. NoCatchup \in [today : Days \cup {NoDay}, ingested : SUBSET Days]
    BY DEF NoCatchup
  <2>2. queue' \in Seq(Entry)
    BY <1>5, CatchupFacts
  <2>3. worker' \in {"dead", "loop", "leaving"}
    BY <1>5 DEF CatchupEnqueue, EnsureWorker, TypeOK
  <2> QED BY <1>5, <2>1, <2>2, <2>3 DEF TypeOK, CatchupEnqueue, historyVars
<1>6. ASSUME NEW c \in Configs, Save(c) \/ SaveLosesTrigger(c) PROVE TypeOK'
  <2>1. /\ today' \in FirstDay..LastDay /\ slot' \in {0, 1} /\ east' \in {0, 1}
        /\ config' = c /\ SaveConfig(c)
    BY <1>6, SaveKeepsClocks DEF SaveConfig, Save, SaveLosesTrigger
  <2>2. trigger' \in FirstDay..LastDay + 1 \cup {NoDay}
    <3>1. c.time \in {0, 1}
      BY ConfigsAssumption
    <3> QED BY <1>6, <1>0, <2>1, <3>1 DEF SaveConfig, Save, SaveLosesTrigger
  <2>3. UNCHANGED <<phase, catchup, queue, job, worker, okRows, tried>> /\ disturbed' = TRUE
    BY <2>1 DEF SaveConfig
  <2> QED BY <2>1, <2>2, <2>3 DEF TypeOK, Slots
<1>7. CASE Fire
  <2>1. queue' \in Seq(Entry) /\ worker' \in {"dead", "loop", "leaving"}
    BY <1>7, EnqueueFacts, DayFacts DEF Fire
  <2> QED BY <1>7, <2>1, <1>0 DEF TypeOK, Fire, NextFire, historyVars
<1>8. CASE FireMissed
  BY <1>8, <1>0 DEF TypeOK, FireMissed, NextFire
<1>9. ASSUME NEW d \in ManualDays, PostRun(d) PROVE TypeOK'
  <2>1. d \in Days
    BY DEF Days
  <2>2. queue' \in Seq(Entry) /\ worker' \in {"dead", "loop", "leaving"}
    BY <1>9, <2>1, EnqueueFacts DEF PostRun
  <2> QED BY <1>9, <2>2 DEF TypeOK, PostRun, historyVars
<1>10. CASE TakeNext \/ ReturnEmpty \/ ThreadEnds
  BY <1>10, TakeFacts DEF TypeOK, TakeNext, ReturnEmpty, ThreadEnds, historyVars
<1>11. CASE FinishOk
  BY <1>11 DEF TypeOK, FinishOk
<1>12. CASE FinishOtherwise
  BY <1>12 DEF TypeOK, FinishOtherwise, Entry
<1>13. CASE Crash
  <2>1. NoCatchup \in [today : Days \cup {NoDay}, ingested : SUBSET Days]
    BY DEF NoCatchup
  <2>2. queue' \in Seq(Entry) /\ tried' \subseteq Days /\ trigger' = NoDay
    BY <1>13 DEF Crash
  <2>3. east' \in {0, 1}
    BY <1>13, ConfigFacts DEF Crash
  <2> QED BY <1>13, <2>1, <2>2, <2>3 DEF TypeOK, Crash
<1>14. CASE UNCHANGED vars
  BY <1>14 DEF TypeOK, vars
<1> QED
  BY <1>1, <1>2, <1>3, <1>4, <1>5, <1>6, <1>7, <1>8, <1>9, <1>10, <1>11, <1>12, <1>13, <1>14
     DEF Next, Worker

LEMMA CatchupInvStep == PastInv /\ [Next]_vars => CatchupInv'
<1> SUFFICES ASSUME PastInv, [Next]_vars PROVE CatchupInv'
  OBVIOUS
<1> USE DEF PastInv, CatchupInv, clockVars, planVars, queueVars, historyVars
<1>1. catchup # NoCatchup => today' \in Int /\ today <= today'
  <2>1. today \in Int
    BY DEF TypeOK
  <2>2. catchup # NoCatchup => today' = today \/ today' = today + 1
    BY DEF Next, Tick, Boot, CatchupQuery, BootQueryFails, CatchupEnqueue,
           SaveConfig, Save, SaveLosesTrigger, Fire, FireMissed, PostRun, Worker,
           TakeNext, ReturnEmpty, ThreadEnds, FinishOk, FinishOtherwise, Crash, vars
  <2> QED BY <2>1, <2>2
<1>2. Ingested \subseteq Ingested'
  BY DEF Ingested, Next, Tick, Boot, CatchupQuery, BootQueryFails, CatchupEnqueue,
         SaveConfig, Save, SaveLosesTrigger, Fire, FireMissed, PostRun, Worker,
         TakeNext, ReturnEmpty, ThreadEnds, FinishOk, FinishOtherwise, Crash, vars
<1>3. ASSUME UNCHANGED catchup, phase' = phase \/ catchup = NoCatchup
      PROVE  catchup' # NoCatchup => /\ phase' # "down"
                                     /\ catchup'.today \in FirstDay..today'
                                     /\ catchup'.ingested \subseteq Ingested'
  BY <1>1, <1>2, <1>3 DEF TypeOK
<1>4. CASE Boot
  BY <1>3, <1>4 DEF Boot, Configured
<1>5. CASE CatchupQuery
  BY <1>5 DEF CatchupQuery, Configured, TypeOK, Ingested
<1>6. CASE BootQueryFails
  BY <1>6, <1>3 DEF BootQueryFails
<1>7. CASE CatchupEnqueue \/ Crash
  BY <1>7 DEF CatchupEnqueue, Crash, NoCatchup
<1>8. ASSUME NEW c \in Configs, Save(c) \/ SaveLosesTrigger(c) PROVE CatchupInv'
  <2>1. phase = "up" /\ catchup = NoCatchup /\ UNCHANGED <<phase, catchup>>
    BY <1>8 DEF Save, SaveLosesTrigger, SaveConfig
  <2> QED BY <2>1
<1>9. CASE Tick \/ Fire \/ FireMissed \/ (\E d \in ManualDays : PostRun(d)) \/ Worker
           \/ UNCHANGED vars
  <2>1. UNCHANGED <<catchup, phase, config>>
    BY <1>9 DEF Tick, Fire, FireMissed, PostRun, Worker, TakeNext, ReturnEmpty, ThreadEnds,
         FinishOk, FinishOtherwise, vars
  <2> QED BY <2>1, <1>3 DEF Configured
<1> QED BY <1>4, <1>5, <1>6, <1>7, <1>8, <1>9 DEF Next

LEMMA PastStep == PastInv /\ [Next]_vars => OnlyPastDays'
<1> SUFFICES ASSUME PastInv, [Next]_vars PROVE OnlyPastDays'
  OBVIOUS
<1> USE DEF PastInv, clockVars, planVars, queueVars, historyVars
<1>0. /\ today \in Int /\ today - 1 \in Days /\ Days \subseteq Int
      /\ QueuedDates \subseteq Days
  BY DayFacts
<1>1. /\ today <= DayIn(east)
      /\ \A d \in QueuedDates \cup {job.date} : d # NoDay => d \in Int /\ d < DayIn(east)
  BY <1>0, EastIsAhead DEF OnlyPastDays, TypeOK, Entry, NoJob
<1>2. ASSUME DayIn(east)' \in Int, DayIn(east) <= DayIn(east)',
             QueuedDates' \subseteq QueuedDates,
             job'.date \in QueuedDates \cup {job.date, NoDay}
      PROVE  OnlyPastDays'
  BY <1>0, <1>1, <1>2, EastIsAhead DEF OnlyPastDays
<1>3. ASSUME UNCHANGED <<today, slot, config, east>>
      PROVE  DayIn(east)' = DayIn(east)
  BY <1>3 DEF DayIn
<1>4. CASE Tick
  <2>1. /\ DayIn(east)' \in Int /\ DayIn(east) <= DayIn(east)'
        /\ UNCHANGED <<queue, job>>
    <3>1. /\ east \in {0, 1} /\ config.zone \in {0, 1} /\ UNCHANGED <<config, east, queue, job>>
          /\ \/ slot = 0 /\ slot' = 1 /\ today' = today
             \/ slot = 1 /\ slot' = 0 /\ today' = today + 1
      BY <1>4, ConfigFacts DEF Tick, TypeOK
    <3> QED BY <3>1, <1>0 DEF DayIn
  <2> QED BY <2>1, <1>2 DEF QueuedDates
<1>5. CASE CatchupEnqueue
  <2>1. \A d \in Missing : d < today /\ d \in Int
    BY <1>5, <1>0 DEF Missing, CatchupInv, CatchupEnqueue
  <2>2. QueuedDates' = QueuedDates \cup Missing /\ UNCHANGED <<today, slot, config, east, job>>
    BY <1>5, CatchupFacts DEF CatchupEnqueue
  <2> QED BY <2>1, <2>2, <1>0, <1>1, <1>3, EastIsAhead DEF OnlyPastDays
<1>6. ASSUME NEW d \in Days, NEW manual \in BOOLEAN, Enqueue(d, manual), d < today,
             UNCHANGED <<today, slot, config, east, job>>
      PROVE  OnlyPastDays'
  <2>1. QueuedDates' \subseteq QueuedDates \cup {d}
    BY <1>6, EnqueueFacts
  <2>2. d < DayIn(east)
    BY <1>6, <1>0, <1>1, EastIsAhead
  <2> QED BY <2>1, <2>2, <1>6, <1>3 DEF OnlyPastDays
<1>7. CASE Fire
  <2>1. Enqueue(today - 1, FALSE) /\ UNCHANGED <<today, slot, config, east, job>>
    BY <1>7 DEF Fire
  <2>2. today - 1 < today
    BY <1>0
  <2> QED BY <2>1, <2>2, <1>6, <1>0
<1>8. ASSUME NEW d \in ManualDays, PostRun(d) PROVE OnlyPastDays'
  <2>1. d \in Days
    BY DEF Days
  <2>2. Enqueue(d, TRUE) /\ d < today /\ UNCHANGED <<today, slot, config, east, job>>
    BY <1>8 DEF PostRun
  <2> QED BY <2>1, <2>2, <1>6
<1>9. CASE TakeNext
  <2>1. UNCHANGED <<today, slot, config, east>>
    BY <1>9 DEF TakeNext
  <2>2. DayIn(east)' = DayIn(east) /\ DayIn(east) \in Int
    BY <2>1, <1>3, EastIsAhead
  <2> QED BY <2>2, <1>2, <1>9, TakeFacts
<1>10. CASE Crash
  <2>1. QueuedDates' = {} /\ job'.date = NoDay
    BY <1>10 DEF Crash, QueuedDates, NoJob
  <2> QED BY <2>1 DEF OnlyPastDays
<1>11. ASSUME NEW c \in Configs, Save(c) \/ SaveLosesTrigger(c) PROVE OnlyPastDays'
  <2>1. SaveConfig(c)
    BY <1>11 DEF Save, SaveLosesTrigger
  <2>2. UNCHANGED <<queue, job>>
    BY <2>1 DEF SaveConfig
  <2>3. DayIn(east) <= DayIn(east)' /\ DayIn(east)' \in Int
    <3>1. /\ EastInv' /\ east' \in {0, 1} /\ today' \in FirstDay..LastDay
          /\ DayIn(east) <= DayIn(east)'
      BY <2>1, SaveKeepsClocks
    <3>2. DayIn(east)' \in Int
      BY <3>1 DEF DayIn
    <3> QED BY <3>1, <3>2
  <2> QED BY <2>2, <2>3, <1>2 DEF QueuedDates
<1>12. CASE \/ Boot \/ CatchupQuery \/ BootQueryFails \/ FireMissed \/ UNCHANGED vars
            \/ ReturnEmpty \/ ThreadEnds \/ FinishOk \/ FinishOtherwise
  <2>1. /\ UNCHANGED <<today, slot, config, east, queue>>
        /\ job' \in {job, NoJob}
    BY <1>12 DEF Boot, CatchupQuery, BootQueryFails, FireMissed, ReturnEmpty, ThreadEnds,
      FinishOk, FinishOtherwise, vars
  <2>2. DayIn(east)' = DayIn(east) /\ DayIn(east) \in Int
    BY <2>1, <1>3, EastIsAhead
  <2> QED BY <2>1, <2>2, <1>2 DEF QueuedDates, NoJob
<1> QED BY <1>4, <1>5, <1>7, <1>8, <1>9, <1>10, <1>11, <1>12 DEF Next, Worker

LEMMA EastStep == PastInv /\ [Next]_vars => EastInv'
<1> SUFFICES ASSUME PastInv, [Next]_vars PROVE EastInv'
  OBVIOUS
<1> USE DEF PastInv, clockVars, planVars, queueVars, historyVars
<1>1. ASSUME NEW c \in Configs, Save(c) \/ SaveLosesTrigger(c) PROVE EastInv'
  BY <1>1, SaveKeepsClocks DEF Save, SaveLosesTrigger
<1>2. CASE Crash
  BY <1>2, ConfigFacts DEF Crash, EastInv
<1>3. CASE UNCHANGED <<config, east>>
  BY <1>3 DEF EastInv
<1> QED
  BY <1>1, <1>2, <1>3
    DEF Next, Tick, Boot, CatchupQuery, BootQueryFails, CatchupEnqueue, Fire,
        FireMissed, PostRun, Worker, TakeNext, ReturnEmpty, ThreadEnds, FinishOk,
        FinishOtherwise, vars

LEMMA PastInit == Init => PastInv
<1> SUFFICES ASSUME Init PROVE PastInv
  OBVIOUS
<1>1. QueuedDates = {}
  BY DEF Init, QueuedDates
<1>2. TypeOK
  <2>1. NoCatchup \in [today : Days \cup {NoDay}, ingested : SUBSET Days]
    BY DEF NoCatchup
  <2>2. queue \in Seq(Entry) /\ today \in FirstDay..LastDay /\ okRows = {} /\ tried = {}
    BY DEF Init
  <2> QED BY <2>1, <2>2 DEF Init, TypeOK, Slots
<1> QED BY <1>1, <1>2 DEF Init, PastInv, CatchupInv, EastInv, OnlyPastDays, NoJob, NoConfig

LEMMA PastAlways == Spec => []PastInv
<1>1. PastInv /\ [Next]_vars => PastInv'
  BY TypeStep, CatchupInvStep, EastStep, PastStep DEF PastInv
<1> QED BY <1>1, PastInit, PTL DEF Spec

(* Every variable keeps its type.                                          *)
THEOREM TypeCorrect == FairSpec => []TypeOK
<1>1. PastInv => TypeOK
  BY DEF PastInv
<1> QED BY <1>1, PastAlways, PTL DEF FairSpec

(* No day is queued or run, by fire, catch-up or POST /run, that is not    *)
(* over in the easternmost zone the process has had, though a fire or a    *)
(* catch-up may straddle midnight and a save may put the operator's date   *)
(* back (post_config, operator_timezone).                                  *)
THEOREM OnlyPastDaysAlways == FairSpec => []OnlyPastDays
<1>1. PastInv => OnlyPastDays
  BY DEF PastInv
<1> QED BY <1>1, PastAlways, PTL DEF FairSpec

-----------------------------------------------------------------------------
(* No day left out *)

\* What Attempted says of d, as a set.
Seen == Ingested \cup QueuedDates \cup {job.date} \cup tried

AccountedFor(d) == d \in Seen \/ (d = today - 1 /\ trigger = today)

\* The days since the boot's query are the daily fire's.
FireCovers ==
  phase = "booting" /\ catchup # NoCatchup /\ ~disturbed =>
    \A d \in catchup.today..today - 1 : AccountedFor(d)

\* Midnight has overtaken no fire.
TriggerNear == phase # "down" /\ Configured /\ ~disturbed => trigger \in {today, today + 1}

AccountInv == FireCovers /\ TriggerNear /\ DaysAccountedFor

\* Only the end of the process forgets a day.
LEMMA SeenGrows ==
  ASSUME PastInv, [Next]_vars, ~Crash, NEW d \in Int, d \in Seen
  PROVE  d \in Seen'
<1> USE DEF PastInv, Seen, clockVars, planVars, queueVars, historyVars
<1>1. CASE UNCHANGED <<okRows, job, tried>> /\ QueuedDates \subseteq QueuedDates'
  BY <1>1 DEF Ingested
<1>2. CASE UNCHANGED <<queue, job, okRows, tried>>
  BY <1>2, <1>1 DEF QueuedDates
<1>3. CASE CatchupEnqueue
  BY <1>3, <1>1, CatchupFacts DEF CatchupEnqueue
<1>4. CASE Fire
  <2>1. Enqueue(today - 1, FALSE) /\ UNCHANGED <<okRows, job, tried>>
    BY <1>4 DEF Fire
  <2> QED BY <2>1, <1>1, DayFacts, EnqueueFacts
<1>5. ASSUME NEW e \in ManualDays, PostRun(e) PROVE d \in Seen'
  <2>1. Enqueue(e, TRUE) /\ UNCHANGED <<okRows, job, tried>> /\ e \in Days
    BY <1>5 DEF PostRun, Days
  <2> QED BY <2>1, <1>1, EnqueueFacts
<1>6. CASE TakeNext
  <2>1. job.date = NoDay /\ UNCHANGED <<okRows, tried>>
    BY <1>6 DEF TakeNext, NoJob
  <2> QED BY <2>1, <1>6, TakeFacts DEF Ingested
<1>7. CASE FinishOk
  <2>1. Ingested' = Ingested \cup {job.date} /\ UNCHANGED <<queue, tried>>
    BY <1>7 DEF FinishOk, Ingested
  <2> QED BY <2>1 DEF QueuedDates
<1>8. CASE FinishOtherwise
  <2>1. tried' = tried \cup {job.date} /\ UNCHANGED <<queue, okRows>>
    BY <1>8 DEF FinishOtherwise
  <2> QED BY <2>1 DEF QueuedDates, Ingested
<1>9. CASE Tick \/ Boot \/ CatchupQuery \/ BootQueryFails \/ FireMissed \/ UNCHANGED vars
           \/ ReturnEmpty \/ ThreadEnds \/ \E c \in Configs : Save(c) \/ SaveLosesTrigger(c)
  BY <1>9, <1>2
  DEF Tick, Boot, CatchupQuery, BootQueryFails, FireMissed, ReturnEmpty, ThreadEnds,
      SaveConfig, Save, SaveLosesTrigger, vars
<1> QED BY <1>3, <1>4, <1>5, <1>6, <1>7, <1>8, <1>9 DEF Next, Worker

LEMMA TriggerStep == PastInv /\ TriggerNear /\ [Next]_vars => TriggerNear'
<1> SUFFICES ASSUME PastInv, TriggerNear, [Next]_vars,
                    phase' # "down", Configured', ~disturbed'
             PROVE  trigger' \in {today', today' + 1}
  BY DEF TriggerNear
<1> USE DEF PastInv, TriggerNear, clockVars, planVars, queueVars, historyVars
<1>1. CASE Tick
  <2>1. trigger \in {today, today + 1} /\ trigger' = trigger /\ today \in Int
    BY <1>1 DEF Tick, Configured, TypeOK
  <2>2. CASE today' = today
    BY <2>1, <2>2
  <2>3. CASE today' # today
    <3>1. today' = today + 1 /\ ~Due /\ slot = 1 /\ config.time \in {0, 1}
      <4>1. config.time \in {0, 1}
        BY <1>1, ConfigFacts DEF Tick, Configured
      <4>2. today' = today + 1 /\ ~Due /\ slot = 1
        BY <1>1, <2>3 DEF Tick
      <4> QED BY <4>1, <4>2
    <3>2. trigger = today + 1
      BY <2>1, <3>1 DEF Due
    <3> QED BY <2>1, <3>1, <3>2
  <2> QED BY <2>2, <2>3
<1>2. CASE Boot \/ Fire
  BY <1>2 DEF Boot, Fire, NextFire, Configured
<1>3. CASE CatchupQuery \/ CatchupEnqueue \/ Worker \/ UNCHANGED vars
           \/ \E d \in ManualDays : PostRun(d)
  <2>1. UNCHANGED <<today, trigger, config, disturbed>> /\ phase # "down"
    <3>1. CatchupEnqueue => phase # "down"
      BY DEF CatchupEnqueue, CatchupInv
    <3> QED BY <1>3, <3>1
              DEF CatchupQuery, CatchupEnqueue, Worker, TakeNext, ReturnEmpty,
                  ThreadEnds, FinishOk, FinishOtherwise, vars, PostRun
  <2> QED BY <2>1 DEF Configured
<1>4. CASE BootQueryFails \/ FireMissed \/ Crash
           \/ \E c \in Configs : Save(c) \/ SaveLosesTrigger(c)
  BY <1>4 DEF BootQueryFails, FireMissed, Crash, SaveConfig, Save, SaveLosesTrigger
<1> QED BY <1>1, <1>2, <1>3, <1>4 DEF Next

\* A step that neither boots, queues the boot's days nor ends the process keeps
\* every day accounted for, and the day that midnight makes yesterday too.
LEMMA AccountedStays ==
  ASSUME PastInv, TriggerNear, [Next]_vars, ~Crash, ~Boot, ~disturbed',
         phase # "down", Configured, NEW low \in Int,
         \A d \in low..today - 1 : AccountedFor(d)
  PROVE  \A d \in low..today' - 1 : AccountedFor(d)'
<1> USE DEF PastInv, TriggerNear, clockVars, planVars, queueVars, historyVars
<1> SUFFICES ASSUME NEW d \in low..today' - 1 PROVE AccountedFor(d)'
  OBVIOUS
<1>0. today \in Int /\ today - 1 \in Days
  BY DayFacts
<1>1. d \in Seen => AccountedFor(d)'
  <2>1. d \in Int
    OBVIOUS
  <2> QED BY <2>1, SeenGrows DEF AccountedFor
<1>2. CASE Tick
  <2>1. ~disturbed /\ trigger' = trigger /\ (today' = today \/ today' = today + 1)
    BY <1>2 DEF Tick
  <2>2. CASE today' = today
    <3>1. AccountedFor(d)
      BY <2>2
    <3> QED BY <3>1, <2>1, <2>2, <1>1 DEF AccountedFor
  <2>3. CASE today' = today + 1
    <3>1. trigger' = today'
      <4> today' # today
        BY <2>3, <1>0
      <4>1. trigger \in {today, today + 1} /\ ~Due /\ slot = 1 /\ config.time \in {0, 1}
        <5>1. ~Due /\ slot = 1
          BY <1>2 DEF Tick
        <5>2. config.time \in {0, 1}
          BY ConfigFacts
        <5>3. trigger \in {today, today + 1}
          BY <2>1
        <5> QED BY <5>1, <5>2, <5>3
      <4>2. trigger # today
        BY <4>1, <1>0 DEF Due
      <4> QED BY <4>1, <4>2, <2>1, <2>3
    <3>2. CASE d = today
      BY <3>1, <3>2, <2>3, <1>0 DEF AccountedFor
    <3>3. CASE d # today
      <4>1. d \in low..today - 1
        BY <3>3, <2>3, <1>0
      <4>2. d \in Seen
        <5>1. trigger # today
          <6>1. trigger = today + 1 /\ today \in Int
            BY <3>1, <2>1, <2>3, <1>0
          <6> HIDE CalendarAssumption, CapAssumption, ManualAssumption
          <6> QED BY <6>1
        <5>2. AccountedFor(d)
          BY <4>1
        <5> QED BY <5>1, <5>2 DEF AccountedFor
      <4> QED BY <4>2, <1>1
    <3> QED BY <3>2, <3>3
  <2> QED BY <2>1, <2>2, <2>3
<1>3. CASE Fire
  <2>1. Enqueue(today - 1, FALSE) /\ UNCHANGED <<today, job>>
    BY <1>3 DEF Fire
  <2>2. AccountedFor(d)
    BY <2>1
  <2>3. today - 1 \in Seen'
    BY <2>1, <1>0, EnqueueFacts DEF Seen
  <2> QED BY <2>2, <2>3, <2>1, <1>1 DEF AccountedFor
<1>4. CASE CatchupQuery \/ CatchupEnqueue \/ Worker \/ UNCHANGED vars
           \/ \E e \in ManualDays : PostRun(e)
  <2>1. UNCHANGED <<today, trigger>>
    BY <1>4
      DEF CatchupQuery, CatchupEnqueue, Worker, TakeNext, ReturnEmpty, ThreadEnds,
          FinishOk, FinishOtherwise, vars, PostRun
  <2>2. AccountedFor(d)
    BY <2>1
  <2> QED BY <2>1, <2>2, <1>1 DEF AccountedFor
<1>5. CASE BootQueryFails \/ FireMissed
           \/ \E c \in Configs : Save(c) \/ SaveLosesTrigger(c)
  BY <1>5 DEF BootQueryFails, FireMissed, SaveConfig, Save, SaveLosesTrigger
<1> QED BY <1>2, <1>3, <1>4, <1>5 DEF Next

LEMMA DaysAccountedForIs ==
  DaysAccountedFor <=> (phase = "up" /\ Configured /\ ~disturbed =>
                          \A d \in today - config.cap..today - 1 : AccountedFor(d))
BY DEF DaysAccountedFor, Attempted, AccountedFor, Seen

\* disturbed stays, but for the end of the process.
LEMMA UndisturbedBefore ==
  ASSUME PastInv, [Next]_vars, ~Crash, ~disturbed'
  PROVE  ~disturbed
BY DEF clockVars, planVars, queueVars, historyVars, Next, Tick, Boot, CatchupQuery,
       BootQueryFails, CatchupEnqueue, SaveConfig, Save, SaveLosesTrigger, Fire,
       FireMissed, PostRun, Worker, TakeNext, ReturnEmpty, ThreadEnds, FinishOk,
       FinishOtherwise, vars

LEMMA FireCoversStep == PastInv /\ TriggerNear /\ FireCovers /\ [Next]_vars => FireCovers'
<1> SUFFICES ASSUME PastInv, TriggerNear, FireCovers, [Next]_vars,
                    phase' = "booting", catchup' # NoCatchup, ~disturbed'
             PROVE  \A d \in catchup'.today..today' - 1 : AccountedFor(d)'
  BY DEF FireCovers
<1> USE DEF clockVars, planVars, queueVars, historyVars
<1>1. ~Crash /\ ~CatchupEnqueue
  BY DEF Crash, CatchupEnqueue
<1>2. CASE Boot
  BY <1>2 DEF Boot, PastInv, CatchupInv
<1>3. CASE CatchupQuery
  <2>1. catchup'.today = today' /\ today' \in Int
    BY <1>3 DEF CatchupQuery, PastInv, TypeOK
  <2>2. \A n \in Int : n..n - 1 = {}
    OBVIOUS
  <2>3. catchup'.today..today' - 1 = {}
    BY <2>1, <2>2
  <2> QED BY <2>3
<1>4. CASE ~Boot /\ ~CatchupQuery
  <2>1. phase = "booting" /\ UNCHANGED catchup
    BY <1>1, <1>4 DEF Next, Tick, BootQueryFails, SaveConfig, Save, SaveLosesTrigger, Fire,
         FireMissed,
      PostRun, Worker, TakeNext, ReturnEmpty, ThreadEnds, FinishOk, FinishOtherwise, vars
  <2>2. ~disturbed /\ Configured /\ catchup.today \in Int
    BY <1>1, <2>1, UndisturbedBefore DEF PastInv, CatchupInv, TypeOK
  <2>3. \A d \in catchup.today..today - 1 : AccountedFor(d)
    BY <2>1, <2>2 DEF FireCovers
  <2> QED BY <2>1, <2>2, <2>3, <1>1, <1>4, AccountedStays
<1> QED BY <1>2, <1>3, <1>4

\* With the boot's days queued, the whole window is accounted for.
LEMMA BootAccounts ==
  ASSUME PastInv, TriggerNear, FireCovers, CatchupEnqueue, phase = "booting", ~disturbed'
  PROVE  \A d \in today' - config'.cap..today' - 1 : AccountedFor(d)'
<1>1. /\ UNCHANGED <<today, trigger, config, job, okRows, tried>> /\ ~disturbed
      /\ catchup # NoCatchup /\ catchup.today \in FirstDay..today /\ today \in FirstDay..LastDay
      /\ catchup.ingested \subseteq Ingested
  BY DEF CatchupEnqueue, PastInv, CatchupInv, clockVars, planVars, historyVars, TypeOK
<1>2. QueuedDates' = QueuedDates \cup Missing
  BY CatchupFacts DEF PastInv
<1>3. Seen \cup Missing \subseteq Seen'
  BY <1>1, <1>2 DEF Seen, Ingested
<1>0. config.cap \in 1..CapDays
  BY ConfigFacts DEF PastInv
<1> SUFFICES ASSUME NEW d \in today - config.cap..today - 1 PROVE AccountedFor(d)'
  BY <1>1
<1>4. CASE d >= catchup.today
  <2>1. AccountedFor(d)
    BY <1>1, <1>4 DEF FireCovers
  <2> QED BY <2>1, <1>1, <1>3 DEF AccountedFor
<1>5. CASE d < catchup.today
  <2>1. d \in Days /\ catchup.today - config.cap <= d
    BY <1>0, <1>1, <1>5 DEF Days
  <2>2. d \in Missing \/ d \in catchup.ingested \cup QueuedDates \cup {job.date}
    BY <2>1, <1>5 DEF Missing
  <2> QED BY <2>2, <1>1, <1>3 DEF AccountedFor, Seen
<1>6. d >= catchup.today \/ d < catchup.today
  BY <1>1
<1> QED BY <1>4, <1>5, <1>6

LEMMA AccountedStep == PastInv /\ AccountInv /\ [Next]_vars => DaysAccountedFor'
<1> SUFFICES ASSUME PastInv, AccountInv, [Next]_vars,
                    phase' = "up", Configured', ~disturbed'
             PROVE  \A d \in today' - config'.cap..today' - 1 : AccountedFor(d)'
  BY DEF DaysAccountedFor, Attempted, AccountedFor, Seen
<1> USE DEF clockVars, planVars, queueVars, historyVars
<1>1. ~Crash
  BY DEF Crash
<1>2. ~Boot
  BY DEF Boot, Configured
<1>3. CASE phase = "up"
  <2>1. ~disturbed
    BY <1>1, UndisturbedBefore
  <2>2. Configured /\ config' = config
    BY <1>1, <1>2, <1>3
      DEF Next, Tick, CatchupQuery, BootQueryFails, CatchupEnqueue, SaveConfig, Save,
          SaveLosesTrigger, Fire, FireMissed, PostRun, Worker, TakeNext, ReturnEmpty,
          ThreadEnds, FinishOk, FinishOtherwise, vars, Configured
  <2>3. \A d \in today - config.cap..today - 1 : AccountedFor(d)
    BY <2>1, <2>2, <1>3, DaysAccountedForIs DEF AccountInv
  <2>4. today - config.cap \in Int /\ config.cap \in Nat /\ today \in Int
    BY ConfigFacts DEF PastInv, TypeOK
  <2>5. \A d \in today - config.cap..today' - 1 : AccountedFor(d)'
    BY <2>2, <2>3, <2>4, <1>1, <1>2, <1>3, AccountedStays DEF AccountInv
  <2>6. today' \in Int /\ today <= today'
    <3>1. today' = today \/ today' = today + 1
      BY <1>1
        DEF Next, Tick, Boot, CatchupQuery, BootQueryFails, CatchupEnqueue,
            SaveConfig, Save, SaveLosesTrigger, Fire, FireMissed, PostRun, Worker,
            TakeNext, ReturnEmpty, ThreadEnds, FinishOk, FinishOtherwise, vars
    <3> QED BY <2>4, <3>1
  <2> SUFFICES ASSUME NEW d \in today' - config'.cap..today' - 1 PROVE AccountedFor(d)'
    OBVIOUS
  <2>7. d \in today - config.cap..today' - 1
    <3>1. \A m, n \in Int, k \in Nat : m <= n => n - k..n - 1 \subseteq m - k..n - 1
      OBVIOUS
    <3> QED BY <2>2, <2>4, <2>6, <3>1
  <2> QED BY <2>5, <2>7
<1>4. CASE phase # "up"
  <2>1. CatchupEnqueue /\ phase = "booting"
    <3>1. CatchupEnqueue
      BY <1>1, <1>2, <1>4
        DEF Next, Tick, CatchupQuery, BootQueryFails, SaveConfig, Save,
            SaveLosesTrigger, Fire, FireMissed, PostRun, Worker, TakeNext,
            ReturnEmpty, ThreadEnds, FinishOk, FinishOtherwise, vars
    <3> QED BY <3>1, <1>4 DEF CatchupEnqueue, PastInv, CatchupInv, TypeOK
  <2> QED BY <2>1, BootAccounts DEF AccountInv
<1> QED BY <1>3, <1>4

(* No day is left out: the boot's catch-up and the daily fires together    *)
(* account for every past day of the window, wherever a boot or midnight   *)
(* falls between a query and its lock, for any calendar and configs.       *)
THEOREM DaysAccountedForAlways == FairSpec => []DaysAccountedFor
<1>1. Init => AccountInv
  BY DEF Init, AccountInv, FireCovers, TriggerNear, DaysAccountedFor
<1>2. PastInv /\ AccountInv /\ [Next]_vars => AccountInv'
  BY FireCoversStep, TriggerStep, AccountedStep DEF AccountInv
<1>3. AccountInv => DaysAccountedFor
  BY DEF AccountInv
<1> QED BY <1>1, <1>2, <1>3, PastAlways, PTL DEF FairSpec, Spec

-----------------------------------------------------------------------------
(* The queue implements DateQueue *)

LEMMA DatesOfType ==
  ASSUME NEW q \in Seq(Entry)
  PROVE  /\ DatesOf(q) \in Seq(Days)
         /\ Len(DatesOf(q)) = Len(q)
         /\ \A i \in 1..Len(q) : DatesOf(q)[i] = q[i].date
<1>1. \A i \in 1..Len(q) : q[i].date \in Days
  <2> SUFFICES ASSUME NEW i \in 1..Len(q) PROVE q[i].date \in Days
    OBVIOUS
  <2>1. q[i] \in Entry
    OBVIOUS
  <2> QED
    BY <2>1 DEF Entry
<1> QED
  BY <1>1 DEF DatesOf

LEMMA DatesOfConcat ==
  ASSUME NEW q \in Seq(Entry), NEW r \in Seq(Entry)
  PROVE  DatesOf(q \o r) = DatesOf(q) \o DatesOf(r)
<1>1. q \o r \in Seq(Entry) /\ Len(q \o r) = Len(q) + Len(r)
  OBVIOUS
<1>2. /\ DatesOf(q) \o DatesOf(r) \in Seq(Days)
      /\ Len(DatesOf(q) \o DatesOf(r)) = Len(q) + Len(r)
  <2>1. /\ DatesOf(q) \in Seq(Days) /\ Len(DatesOf(q)) = Len(q)
        /\ DatesOf(r) \in Seq(Days) /\ Len(DatesOf(r)) = Len(r)
    BY DatesOfType
  <2> QED BY <2>1
<1>3. ASSUME NEW i \in 1..Len(q) + Len(r)
      PROVE  DatesOf(q \o r)[i] = (DatesOf(q) \o DatesOf(r))[i]
  <2>1. DatesOf(q \o r)[i] = (q \o r)[i].date
    BY <1>1, DatesOfType
  <2>2. CASE i <= Len(q)
    <3>1. (q \o r)[i] = q[i] /\ i \in 1..Len(q)
      BY <2>2
    <3>2. (DatesOf(q) \o DatesOf(r))[i] = DatesOf(q)[i]
      BY <3>1, DatesOfType
    <3> QED
      BY <2>1, <3>1, <3>2, DatesOfType
  <2>3. CASE i > Len(q)
    <3>1. (q \o r)[i] = r[i - Len(q)] /\ i - Len(q) \in 1..Len(r)
      BY <2>3
    <3>2. (DatesOf(q) \o DatesOf(r))[i] = DatesOf(r)[i - Len(q)]
      BY <2>3, <3>1, DatesOfType
    <3> QED
      BY <2>1, <3>1, <3>2, DatesOfType
  <2>4. i <= Len(q) \/ i > Len(q)
    OBVIOUS
  <2> QED
    BY <2>2, <2>3, <2>4
<1>4. DatesOf(q \o r) \in Seq(Days) /\ Len(DatesOf(q \o r)) = Len(q) + Len(r)
  BY <1>1, DatesOfType
<1> QED
  BY <1>2, <1>3, <1>4

LEMMA DatesOfTail ==
  ASSUME NEW q \in Seq(Entry), q # <<>>
  PROVE  /\ DatesOf(q) # <<>>
         /\ Head(DatesOf(q)) = Head(q).date
         /\ Tail(DatesOf(q)) = DatesOf(Tail(q))
<1>1. Tail(q) \in Seq(Entry) /\ Len(Tail(q)) = Len(q) - 1 /\ Len(q) >= 1
  OBVIOUS
<1>2. /\ DatesOf(q) \in Seq(Days)
      /\ Len(DatesOf(q)) = Len(q)
      /\ DatesOf(q) # <<>>
  BY <1>1, DatesOfType
<1>3. Head(DatesOf(q)) = Head(q).date
  BY <1>1, <1>2, DatesOfType
<1>4. ASSUME NEW i \in 1..Len(q)-1
      PROVE  Tail(DatesOf(q))[i] = DatesOf(Tail(q))[i]
  <2>1. Tail(DatesOf(q))[i] = DatesOf(q)[i + 1] /\ i + 1 \in 1..Len(q)
    BY <1>1, <1>2
  <2>2. Tail(q)[i] = q[i + 1] /\ i \in 1..Len(Tail(q))
    BY <1>1
  <2>3. DatesOf(q)[i + 1] = q[i + 1].date
    BY <2>1, DatesOfType
  <2>4. DatesOf(Tail(q))[i] = Tail(q)[i].date
    BY <2>2, <1>1, DatesOfType
  <2> QED
    BY <2>1, <2>2, <2>3, <2>4
<1>5. Tail(DatesOf(q)) \in Seq(Days) /\ Len(Tail(DatesOf(q))) = Len(q) - 1
  BY <1>2
<1>6. DatesOf(Tail(q)) \in Seq(Days) /\ Len(DatesOf(Tail(q))) = Len(q) - 1
  BY <1>1, DatesOfType
<1>7. Tail(DatesOf(q)) = DatesOf(Tail(q))
  BY <1>4, <1>5, <1>6, SeqEqual
<1> QED
  BY <1>2, <1>3, <1>7

LEMMA PendingIsQueued == TypeOK => DQ!Pending = QueuedDates
<1> SUFFICES ASSUME TypeOK PROVE DQ!Pending = QueuedDates
  OBVIOUS
<1>1. /\ Len(DatesOf(queue)) = Len(queue)
      /\ \A i \in 1..Len(queue) : DatesOf(queue)[i] = queue[i].date
  BY DatesOfType DEF TypeOK
<1> QED
  BY <1>1 DEF DQ!Pending, QueuedDates

\* Entries queued behind the others, of days that are not there yet.
LEMMA AcceptStep ==
  ASSUME TypeOK, NEW s \in Seq(Entry), Len(s) \in 0..CapDays, queue' = queue \o s, UNCHANGED job,
         \A i \in 1..Len(s) : s[i].date \notin QueuedDates \cup {job.date},
         \A i, j \in 1..Len(s) : s[i].date = s[j].date => i = j
  PROVE  [DQ!Next]_(DQ!vars)
<1>1. queue \in Seq(Entry) /\ DatesOf(queue') = DatesOf(queue) \o DatesOf(s)
  BY DatesOfConcat DEF TypeOK
<1>2. /\ DatesOf(s) \in Seq(Days) /\ Len(DatesOf(s)) = Len(s)
      /\ \A i \in 1..Len(s) : DatesOf(s)[i] = s[i].date
  BY DatesOfType
<1>3. CASE Len(s) = 0
  <2>1. queue' = queue
    BY <1>1, <1>3
  <2> QED BY <2>1 DEF DQ!vars
<1>4. CASE Len(s) # 0
  <2>1. Len(s) \in 1..CapDays /\ DatesOf(s) \in [1..Len(s) -> Days]
    BY <1>2, <1>4
  <2>2. DQ!Distinct(DatesOf(s))
    BY <1>2 DEF DQ!Distinct
  <2>3. \A i \in 1..Len(s) : DatesOf(s)[i] \notin DQ!Pending \cup {job.date}
    BY <1>2, PendingIsQueued
  <2>4. DQ!Accept
    BY <1>1, <2>1, <2>2, <2>3 DEF DQ!Accept
  <2> QED BY <2>4 DEF DQ!Next
<1> QED BY <1>3, <1>4

LEMMA EnqueueStep ==
  ASSUME TypeOK, NEW d \in Days, NEW manual \in BOOLEAN, Enqueue(d, manual), UNCHANGED job
  PROVE  [DQ!Next]_(DQ!vars)
<1>1. CASE d \in QueuedDates \cup {job.date}
  BY <1>1 DEF Enqueue, DQ!vars
<1>2. CASE d \notin QueuedDates \cup {job.date}
  <2> DEFINE entry == [date |-> d, manual |-> manual]
  <2>1. entry \in Entry /\ entry.date = d /\ queue' = Append(queue, entry)
    BY <1>2 DEF Enqueue, Entry
  <2> HIDE DEF entry
  <2>2. /\ <<entry>> \in Seq(Entry) /\ Len(<<entry>>) = 1 /\ <<entry>>[1] = entry
        /\ Len(<<entry>>) \in 0..CapDays
    BY <2>1
  <2>3. queue' = queue \o <<entry>>
    BY <2>1, AppendIsConcat DEF TypeOK
  <2>4. /\ \A i \in 1..Len(<<entry>>) : <<entry>>[i].date \notin QueuedDates \cup {job.date}
        /\ \A i, j \in 1..Len(<<entry>>) : <<entry>>[i].date = <<entry>>[j].date => i = j
    BY <1>2, <2>1, <2>2
  <2> QED BY <2>2, <2>3, <2>4, AcceptStep
<1> QED BY <1>1, <1>2

LEMMA QueueStep == TypeOK /\ [Next]_vars => [DQ!Next]_(DQ!vars)
<1> SUFFICES ASSUME TypeOK, [Next]_vars PROVE [DQ!Next]_(DQ!vars)
  OBVIOUS
<1> USE DEF clockVars, planVars, queueVars, historyVars
<1>1. CASE CatchupEnqueue
  <2>1. PICK s \in Scheduled(Missing) : queue' = queue \o s
    BY <1>1 DEF CatchupEnqueue
  <2>2. /\ s \in Seq(Entry) /\ Len(s) \in 0..CapDays
        /\ \A i \in 1..Len(s) : s[i].date \in Missing
        /\ \A i, j \in 1..Len(s) : s[i].date = s[j].date => i = j
    BY ScheduledFacts, MissingIsDays
  <2>3. \A i \in 1..Len(s) : s[i].date \notin QueuedDates \cup {job.date}
    BY <2>2 DEF Missing
  <2>4. UNCHANGED job
    BY <1>1 DEF CatchupEnqueue
  <2> QED BY <2>1, <2>2, <2>3, <2>4, AcceptStep
<1>2. CASE Fire
  <2>1. Enqueue(today - 1, FALSE) /\ UNCHANGED job
    BY <1>2 DEF Fire
  <2> QED BY <2>1, DayFacts, EnqueueStep
<1>3. ASSUME NEW d \in ManualDays, PostRun(d) PROVE [DQ!Next]_(DQ!vars)
  <2>1. Enqueue(d, TRUE) /\ UNCHANGED job /\ d \in Days
    BY <1>3 DEF PostRun, Days
  <2> QED BY <2>1, EnqueueStep
<1>4. CASE TakeNext
  <2>1. /\ job.date = NoDay /\ queue \in Seq(Entry) /\ queue # <<>>
        /\ job'.date = Head(queue).date /\ queue' = Tail(queue)
    BY <1>4 DEF TakeNext, NoJob, TypeOK
  <2>2. DQ!Start
    BY <2>1, DatesOfTail DEF DQ!Start
  <2> QED BY <2>2 DEF DQ!Next
<1>5. CASE FinishOk \/ FinishOtherwise
  <2>1. job.date # NoDay /\ job'.date = NoDay /\ UNCHANGED queue
    BY <1>5 DEF FinishOk, FinishOtherwise, NoJob, TypeOK, Entry, Days
  <2> QED BY <2>1 DEF DQ!Finish, DQ!Next
<1>6. CASE Crash
  <2>1. queue' = <<>> /\ job'.date = NoDay
    BY <1>6 DEF Crash, NoJob
  <2>2. DatesOf(queue') = <<>>
    BY <2>1 DEF DatesOf
  <2> QED BY <2>1, <2>2 DEF DQ!Lose, DQ!Next
<1>7. CASE UNCHANGED <<queue, job>>
  BY <1>7 DEF DQ!vars
<1> QED
  BY <1>1, <1>2, <1>3, <1>4, <1>5, <1>6, <1>7
    DEF Next, Worker, ReturnEmpty, ThreadEnds, Tick, Boot, CatchupQuery,
        BootQueryFails, SaveConfig, Save, SaveLosesTrigger, FireMissed, vars

(* With the scheduler, the boot and the HTTP calls as its callers the      *)
(* queue is still a DateQueue: days wait in arrival order, none waits or   *)
(* runs twice, and one runs at a time, for any calendar and cap.           *)
THEOREM QueueRefinement == FairSpec => RefinesDateQueue
<1>1. Init => DQ!Init
  BY DEF Init, DQ!Init, DatesOf, NoJob
<1>2. PastInv => TypeOK
  BY DEF PastInv
<1> QED
  BY <1>1, <1>2, QueueStep, PastAlways, PTL DEF FairSpec, Spec, DQ!Spec, RefinesDateQueue
-----------------------------------------------------------------------------
(* The way of a day that the boot found missing: found, waiting, running,  *)
(* then ingested or tried.  BootCatchesUp says that every such day gets to *)
(* the end of it.                                                          *)

\* Until the container goes, a day that was found gets into the queue, an entry
\* only moves up in it, and a run that is taken up gets its end.
FoundDaysAdvance ==
  phase' # "down" =>
    /\ \A d \in FoundMissing : d \in FoundMissing' \cup QueuedDates' \cup {job.date}'
    /\ \A i \in 1..Len(queue) :
         IF TakeNext
         THEN \/ i = 1 /\ job' = queue[i]
              \/ i > 1 /\ queue'[i - 1] = queue[i] /\ i - 1 \in 1..Len(queue')
         ELSE queue'[i] = queue[i] /\ i \in 1..Len(queue')
    /\ job # NoJob => \/ job' = job
                      \/ job' = NoJob /\ job.date \in Ingested' \cup tried'

LEMMA FoundIsKept ==
  ASSUME PastInv, [Next]_vars, phase' # "down", NEW d \in FoundMissing
  PROVE  d \in FoundMissing' \cup QueuedDates' \cup {job.date}'
<1> USE DEF clockVars, planVars, queueVars, historyVars
<1>1. /\ phase = "booting" /\ catchup # NoCatchup
      /\ d \in Days /\ catchup.today - config.cap <= d /\ d < catchup.today
      /\ d \notin catchup.ingested
  BY DEF FoundMissing
<1>2. CASE CatchupEnqueue
  <2>1. QueuedDates' = QueuedDates \cup Missing /\ UNCHANGED job
    BY <1>2, CatchupFacts DEF PastInv, CatchupEnqueue
  <2> QED BY <1>1, <2>1 DEF Missing
<1>3. CASE ~CatchupEnqueue
  <2>1. UNCHANGED <<phase, catchup, config>>
    BY <1>1, <1>3
      DEF Next, Tick, Boot, CatchupQuery, BootQueryFails, SaveConfig, Save,
          SaveLosesTrigger, Fire, FireMissed, PostRun, Worker, TakeNext, ReturnEmpty,
          ThreadEnds, FinishOk, FinishOtherwise, Crash, vars
  <2> QED BY <2>1 DEF FoundMissing
<1> QED BY <1>2, <1>3

\* Whatever else is queued is queued behind.
LEMMA QueueGrowsBehind ==
  ASSUME PastInv, [Next]_vars, phase' # "down", ~TakeNext, NEW i \in 1..Len(queue)
  PROVE  queue'[i] = queue[i] /\ i \in 1..Len(queue')
<1> USE DEF clockVars, planVars, queueVars, historyVars
<1>1. queue \in Seq(Entry)
  BY DEF PastInv, TypeOK
<1>2. ASSUME NEW d \in Days, NEW manual \in BOOLEAN, Enqueue(d, manual)
      PROVE  queue'[i] = queue[i] /\ i \in 1..Len(queue')
  <2> DEFINE entry == [date |-> d, manual |-> manual]
  <2>1. entry \in Entry /\ (queue' = queue \/ queue' = Append(queue, entry))
    BY <1>2 DEF Enqueue, Entry
  <2> HIDE DEF entry
  <2> QED BY <2>1, <1>1
<1>3. CASE CatchupEnqueue
  <2>1. PICK s \in Scheduled(Missing) : queue' = queue \o s
    BY <1>3 DEF CatchupEnqueue
  <2>2. s \in Seq(Entry)
    BY ScheduledFacts, MissingIsDays
  <2> QED BY <2>1, <2>2, <1>1
<1>4. CASE Fire
  <2>1. Enqueue(today - 1, FALSE)
    BY <1>4 DEF Fire
  <2> QED BY <2>1, <1>2, DayFacts DEF PastInv
<1>5. ASSUME NEW d \in ManualDays, PostRun(d)
      PROVE  queue'[i] = queue[i] /\ i \in 1..Len(queue')
  <2>1. Enqueue(d, TRUE) /\ d \in Days
    BY <1>5 DEF PostRun, Days
  <2> QED BY <2>1, <1>2
<1>6. CASE UNCHANGED queue
  BY <1>6
<1>7. ~Crash
  BY DEF Crash
<1> QED
  BY <1>3, <1>4, <1>5, <1>6, <1>7
    DEF Next, Tick, Boot, CatchupQuery, BootQueryFails, SaveConfig, Save,
        SaveLosesTrigger, FireMissed, Worker, ReturnEmpty, ThreadEnds, FinishOk,
        FinishOtherwise, vars

LEMMA TakeMovesUp ==
  ASSUME TypeOK, TakeNext, NEW i \in 1..Len(queue)
  PROVE  \/ i = 1 /\ job' = queue[i]
         \/ i > 1 /\ queue'[i - 1] = queue[i] /\ i - 1 \in 1..Len(queue')
<1>1. queue \in Seq(Entry) /\ queue # <<>> /\ job' = Head(queue) /\ queue' = Tail(queue)
  BY DEF TakeNext, TypeOK
<1> QED BY <1>1

LEMMA JobEnds ==
  ASSUME PastInv, [Next]_vars, phase' # "down", job # NoJob
  PROVE  job' = job \/ (job' = NoJob /\ job.date \in Ingested' \cup tried')
<1> USE DEF clockVars, planVars, queueVars, historyVars
<1>1. CASE FinishOk
  BY <1>1 DEF FinishOk, Ingested
<1>2. CASE FinishOtherwise
  BY <1>2 DEF FinishOtherwise
<1>3. CASE ~FinishOk /\ ~FinishOtherwise
  BY <1>3 DEF Next, Tick, Boot, CatchupQuery, BootQueryFails, CatchupEnqueue, SaveConfig,
       Save,
    SaveLosesTrigger, Fire, FireMissed, PostRun, Worker, TakeNext, ReturnEmpty,
    ThreadEnds, Crash, vars
<1> QED BY <1>1, <1>2, <1>3

(* A day that a boot found missing is never dropped on its way, and nobody *)
(* gets before it in the queue: once the catch-up has its lock, as long as *)
(* the thread still looks and runs end, this is what BootCatchesUp rests   *)
(* on (scheduler.py, orchestrator.py, catchup_missing and _consume).       *)
THEOREM FoundDaysAdvanceAlways == FairSpec => [][FoundDaysAdvance]_vars
<1>1. PastInv /\ [Next]_vars => FoundDaysAdvance
  BY FoundIsKept, QueueGrowsBehind, TakeMovesUp, JobEnds DEF FoundDaysAdvance, PastInv
<1> QED BY <1>1, PastAlways, PTL DEF FairSpec, Spec
=============================================================================
