------------------------------- MODULE Ingest -------------------------------
(***************************************************************************)
(* The worker from one day to the next: the daily trigger and the boot of  *)
(* src/bluewave/scheduler.py, the HTTP calls of routes.py that touch the   *)
(* queue or the schedule, the queue of orchestrator.py, and the runs table *)
(* as far as catch-up and the unique key see it.                           *)
(*                                                                         *)
(* The lock regions of the queue are those of Orchestrator, without its    *)
(* shutdown; a run keeps its transaction in RunJob and is one step to its  *)
(* verdict here.  A day has two slots, 0 and 1, and the daily time is the  *)
(* start of one of them.  The operator's time zone is one of two, 0 in the *)
(* west and 1 in the east, half a day ahead of it.                         *)
(***************************************************************************)
EXTENDS Integers, Sequences

CONSTANTS FirstDay, LastDay,  \* the operator's calendar; bounds the clock
          CapDays,            \* bounds catch_up_cap_days
          Configs,            \* the configs that the operator saves; bounds POST /config
          ManualDays,         \* the days the operator asks for; bounds POST /run
          NoDay               \* no trigger registered; nothing in flight

ASSUME CalendarAssumption == /\ FirstDay \in Int /\ LastDay \in Int
                             /\ FirstDay <= LastDay
                             /\ NoDay \notin Int
ASSUME CapAssumption == CapDays \in Nat \ {0}
ASSUME ConfigsAssumption ==
  Configs \subseteq [time : {0, 1}, zone : {0, 1}, cap : 1..CapDays]
ASSUME ManualAssumption == ManualDays \subseteq (FirstDay - CapDays)..LastDay

VARIABLES
  today, slot,  \* the operator's local clock
  config,       \* of the saved config: schedule_local, operator_timezone and
                \* catch_up_cap_days; NoConfig without one
  phase,        \* the process: "down", "booting" (create_app) or "up"
  trigger,      \* the day of the daily job's next_run_time, or NoDay
  catchup,      \* the catchup_missing call between its query and its lock
  queue,        \* _queue
  job,          \* the run in flight
  worker,       \* the thread: "dead", "loop", or "leaving", which has found the
                \* queue empty and is_alive() still
  okRows,       \* [date, manual] of the runs table's ok rows
  tried,        \* history: dates whose run did not end ok in this process
  disturbed,    \* history: a save, a failed boot query or a fire too late, in
                \* this process
  east          \* history: the easternmost operator_timezone of this process

clockVars == <<today, slot>>
planVars == <<config, trigger>>
queueVars == <<queue, job, worker>>
historyVars == <<tried, disturbed, east>>
vars == <<today, slot, config, phase, trigger, catchup, queue, job, worker, okRows,
          tried, disturbed, east>>

Days == (FirstDay - CapDays)..LastDay
Slots == {0, 1}
Entry == [date : Days, manual : BOOLEAN]
NoJob == [date |-> NoDay, manual |-> FALSE]
NoConfig == [time |-> NoDay, zone |-> 0, cap |-> 1]
NoCatchup == [today |-> NoDay, ingested |-> {}]

TypeOK ==
  /\ today \in FirstDay..LastDay
  /\ slot \in Slots
  /\ config \in Configs \cup {NoConfig}
  /\ phase \in {"down", "booting", "up"}
  /\ trigger \in FirstDay..LastDay + 1 \cup {NoDay}
  /\ catchup \in [today : Days \cup {NoDay}, ingested : SUBSET Days]
  /\ queue \in Seq(Entry)
  /\ job \in Entry \cup {NoJob}
  /\ worker \in {"dead", "loop", "leaving"}
  /\ okRows \subseteq Entry
  /\ tried \subseteq Days
  /\ disturbed \in BOOLEAN
  /\ east \in {0, 1}

Configured == config # NoConfig

Init == /\ today = FirstDay
        /\ slot = 0
        /\ config = NoConfig
        /\ phase = "down"
        /\ trigger = NoDay
        /\ catchup = NoCatchup
        /\ queue = <<>>
        /\ job = NoJob
        /\ worker = "dead"
        /\ okRows = {}
        /\ tried = {}
        /\ disturbed = FALSE
        /\ east = 0

\* The date that the clock of a time zone shows now.
DayIn(zone) == IF zone > config.zone /\ slot = 1 THEN today + 1
               ELSE IF zone < config.zone /\ slot = 0 THEN today - 1
               ELSE today

\* The cron trigger's next fire after a slot of a day, for a daily time.
NextFire(day, half, time) == IF half < time THEN day ELSE day + 1

Due == /\ trigger # NoDay
       /\ trigger < today \/ (trigger = today /\ config.time <= slot)

\* find_ingested_dates; no run is ever marked skipped.
Ingested == {row.date : row \in okRows}

QueuedDates == {queue[i].date : i \in 1..Len(queue)}

-----------------------------------------------------------------------------
(* The clock *)

\* The clock goes on even when a fire is due and its thread has not run yet: a
\* fire that midnight overtakes will ask for another day.
Tick ==
  /\ \/ slot = 0 /\ slot' = 1 /\ UNCHANGED today
     \/ slot = 1 /\ today < LastDay /\ slot' = 0 /\ today' = today + 1
  /\ disturbed' = (disturbed \/ (Due /\ today' # today))
  /\ UNCHANGED <<planVars, phase, catchup, queueVars, okRows, tried, east>>

-----------------------------------------------------------------------------
(* Boot, save, fire *)

\* Scheduler.start: the daily job is registered, if there is a config.
Boot ==
  /\ phase = "down"
  /\ IF Configured
       THEN phase' = "booting" /\ trigger' = NextFire(today, slot, config.time)
       ELSE phase' = "up" /\ UNCHANGED trigger
  /\ UNCHANGED <<clockVars, config, catchup, queueVars, okRows, historyVars>>

\* The query of catchup_missing, by the boot or by POST /run/catchup.
CatchupQuery ==
  /\ phase = "booting" \/ (phase = "up" /\ Configured)
  /\ catchup = NoCatchup
  /\ catchup' = [today |-> today,
                 ingested |-> {d \in Ingested : d >= today - config.cap}]
  /\ UNCHANGED <<clockVars, planVars, phase, queueVars, okRows, historyVars>>

\* The boot's query fails: logged, and the process serves without a catch-up.
BootQueryFails ==
  /\ phase = "booting"
  /\ catchup = NoCatchup
  /\ phase' = "up"
  /\ disturbed' = TRUE
  /\ UNCHANGED <<clockVars, planVars, catchup, queueVars, okRows, tried, east>>

\* Faulty variant: yesterday is left to the daily fire.
MissingTooFew ==
  {d \in Days : catchup.today - config.cap <= d /\ d < catchup.today - 1}
    \ (catchup.ingested \cup QueuedDates \cup {job.date})

Missing ==
  {d \in Days : catchup.today - config.cap <= d /\ d < catchup.today}
    \ (catchup.ingested \cup QueuedDates \cup {job.date})

\* The dates of S, ascending, as scheduled runs.
Scheduled(S) ==
  {s \in UNION {[1..n -> {e \in Entry : e.date \in S /\ ~e.manual}] : n \in 0..CapDays} :
     /\ \A i, j \in 1..Len(s) : i < j => s[i].date < s[j].date
     /\ \A d \in S : \E i \in 1..Len(s) : s[i].date = d}

\* _ensure_worker_locked.
EnsureWorker == worker' = IF worker = "dead" THEN "loop" ELSE worker

\* Under the lock, the missing dates are queued; the boot is then over.
CatchupEnqueue ==
  /\ catchup # NoCatchup
  /\ \E entries \in Scheduled(Missing) : queue' = queue \o entries
  /\ IF Missing = {} THEN UNCHANGED worker ELSE EnsureWorker
  /\ catchup' = NoCatchup
  /\ phase' = "up"
  /\ UNCHANGED <<clockVars, planVars, job, okRows, historyVars>>

\* POST /config saves another daily time, time zone or cap.  In another zone the
\* operator's clock shows another time, perhaps of the day before or after.  The
\* event loop serves one such call at a time.
SaveConfig(c) ==
  /\ phase = "up"
  /\ catchup = NoCatchup
  /\ DayIn(c.zone) \in FirstDay..LastDay
  /\ config' = c
  /\ today' = DayIn(c.zone)
  /\ slot' = IF c.zone = config.zone THEN slot ELSE 1 - slot
  /\ disturbed' = TRUE
  /\ east' = IF c.zone > east THEN c.zone ELSE east
  /\ UNCHANGED <<phase, catchup, queueVars, okRows, tried>>

\* The daily job is registered anew, with no catch-up.
Save(c) == SaveConfig(c) /\ trigger' = NextFire(today', slot', c.time)

\* reconfigure has removed the daily job when its load of the config fails, and
\* post_config swallows that: until the next save or boot no fire comes.
SaveLosesTrigger(c) == SaveConfig(c) /\ trigger' = NoDay

\* Faulty variants: the date in flight is not looked at; the entry has no flag.
EnqueueQueueOnly(d, manual) ==
  IF d \in QueuedDates
    THEN UNCHANGED <<queue, worker>>
    ELSE queue' = Append(queue, [date |-> d, manual |-> manual]) /\ EnsureWorker

EnqueueUnflagged(d, manual) ==
  IF d \in QueuedDates \cup {job.date}
    THEN UNCHANGED <<queue, worker>>
    ELSE queue' = Append(queue, [date |-> d]) /\ EnsureWorker

\* try_enqueue: a date waiting or running is not queued again.
Enqueue(d, manual) ==
  IF d \in QueuedDates \cup {job.date}
    THEN UNCHANGED <<queue, worker>>
    ELSE queue' = Append(queue, [date |-> d, manual |-> manual]) /\ EnsureWorker

\* Faulty variant: the fire asks for the day that has only begun.
FireToday ==
  /\ phase # "down"
  /\ Due
  /\ trigger' = NextFire(today, slot, config.time)
  /\ Enqueue(today, FALSE)
  /\ UNCHANGED <<clockVars, config, phase, catchup, job, okRows, historyVars>>

\* The daily job runs _fire, which takes yesterday by the clock of the moment.
Fire ==
  /\ phase # "down"
  /\ Due
  /\ trigger' = NextFire(today, slot, config.time)
  /\ Enqueue(today - 1, FALSE)
  /\ UNCHANGED <<clockVars, config, phase, catchup, job, okRows, historyVars>>

\* Later than misfire_grace_time the fire is dropped.
FireMissed ==
  /\ phase # "down"
  /\ Due
  /\ <<trigger, config.time>> # <<today, slot>>
  /\ trigger' = NextFire(today, slot, config.time)
  /\ disturbed' = TRUE
  /\ UNCHANGED <<clockVars, config, phase, catchup, queueVars, okRows, tried, east>>

\* POST /run for a past day.
PostRun(d) ==
  /\ phase = "up"
  /\ Configured
  /\ catchup = NoCatchup
  /\ d < today
  /\ d \notin QueuedDates \cup {job.date}
  /\ Enqueue(d, TRUE)
  /\ UNCHANGED <<clockVars, planVars, phase, catchup, job, okRows, historyVars>>

-----------------------------------------------------------------------------
(* The worker *)

\* Faulty variant: pop() in place of popleft().
TakeNewest ==
  /\ worker = "loop"
  /\ queue # <<>>
  /\ job = NoJob
  /\ job' = queue[Len(queue)]
  /\ queue' = SubSeq(queue, 1, Len(queue) - 1)
  /\ UNCHANGED <<clockVars, planVars, phase, catchup, worker, okRows, historyVars>>

\* _consume takes up the oldest entry.
TakeNext ==
  /\ worker = "loop"
  /\ queue # <<>>
  /\ job = NoJob
  /\ job' = Head(queue)
  /\ queue' = Tail(queue)
  /\ UNCHANGED <<clockVars, planVars, phase, catchup, worker, okRows, historyVars>>

\* _consume finds the queue empty and returns; a call that comes before the
\* thread has ended finds it alive.
ReturnEmpty ==
  /\ worker = "loop"
  /\ queue = <<>>
  /\ job = NoJob
  /\ worker' = "leaving"
  /\ UNCHANGED <<clockVars, planVars, phase, catchup, queue, job, okRows, historyVars>>

ThreadEnds ==
  /\ worker = "leaving"
  /\ worker' = "dead"
  /\ UNCHANGED <<clockVars, planVars, phase, catchup, queue, job, okRows, historyVars>>

\* uk_ok_scheduled_date lets one scheduled run of a date be ok.
FinishOk ==
  /\ job # NoJob
  /\ job.manual \/ job \notin okRows
  /\ okRows' = okRows \cup {job}
  /\ job' = NoJob
  /\ UNCHANGED <<clockVars, planVars, phase, catchup, queue, worker, historyVars>>

\* Any other end: a failure status, no connection to start with and so no row,
\* or a connection lost on the way, which leaves the row running (RunJob).
FinishOtherwise ==
  /\ job # NoJob
  /\ job' = NoJob
  /\ tried' = tried \cup {job.date}
  /\ UNCHANGED <<clockVars, planVars, phase, catchup, queue, worker, okRows,
                 disturbed, east>>

\* The container stops or dies.
Crash ==
  /\ phase # "down"
  /\ phase' = "down"
  /\ trigger' = NoDay
  /\ catchup' = NoCatchup
  /\ queue' = <<>>
  /\ job' = NoJob
  /\ worker' = "dead"
  /\ tried' = {}
  /\ disturbed' = FALSE
  /\ east' = config.zone
  /\ UNCHANGED <<clockVars, config, okRows>>

-----------------------------------------------------------------------------

Worker == TakeNext \/ ReturnEmpty \/ ThreadEnds \/ FinishOk \/ FinishOtherwise

Next ==
  \/ Tick
  \/ Boot
  \/ CatchupQuery
  \/ BootQueryFails
  \/ CatchupEnqueue
  \/ \E c \in Configs : Save(c) \/ SaveLosesTrigger(c)
  \/ Fire
  \/ FireMissed
  \/ \E d \in ManualDays : PostRun(d)
  \/ Worker
  \/ Crash

Spec == Init /\ [][Next]_vars

\* A catch-up gets the lock, and a worker in its loop takes up what waits.  That
\* a run or a query of the boot ends is not assumed: MySQL can hold both.
FairSpec == /\ Spec
            /\ WF_vars(CatchupEnqueue)
            /\ WF_vars(TakeNext)

-----------------------------------------------------------------------------
(* Properties *)

Attempted(d) ==
  d \in Ingested \cup QueuedDates \cup {job.date} \cup tried

\* Boot catch-up and daily fire together leave no day out, wherever the boot
\* falls in the day and however the clock moves on meanwhile: once a configured
\* process is up, every past day of the window is ingested, waiting, running or
\* was tried, except yesterday while today's fire is still to come.  Only a save
\* of the config, a fire too late or a failed boot query can break it.
DaysAccountedFor ==
  phase = "up" /\ Configured /\ ~disturbed =>
    \A d \in today - config.cap..today - 1 :
      Attempted(d) \/ (d = today - 1 /\ trigger = today)

\* A day that is queued or in flight is over by the operator's clock (routes.py
\* refuses today and later; fire and catch-up stop at yesterday).  A save that
\* takes the clock to the west can put the date back to a day already queued:
\* then it is over in the easternmost zone that this process has had.
OnlyPastDays ==
  \A d \in QueuedDates \cup ({job.date} \ {NoDay}) : d < DayIn(east)

\* The days a boot's query found missing, while the boot has not queued them.
FoundMissing ==
  IF phase = "booting" /\ catchup # NoCatchup
    THEN {d \in Days : catchup.today - config.cap <= d /\ d < catchup.today} \ catchup.ingested
    ELSE {}

\* A day in the queue of a thread that has already found it empty, or has ended:
\* it waits until somebody asks for another day (Orchestrator's NoStrandedDate).
Stranded(d) == d \in QueuedDates /\ worker # "loop"

\* Each such day gets a run in that process, whatever is queued before it
\* meanwhile (the window is the query's: a day can fall out of it while the boot
\* is on its way there), unless it is stranded or a run never ends.
BootCatchesUp ==
  \/ \A d \in Days \ {LastDay} :
       d \in FoundMissing ~>
         d \in Ingested \cup tried \/ phase = "down" \/ Stranded(d)
  \/ <>[](job # NoJob)

\* The queue as a whole keeps the promise of DateQueue, with the scheduler and
\* the HTTP calls as its callers.
DatesOf(entries) == [i \in 1..Len(entries) |-> entries[i].date]

DQ == INSTANCE DateQueue
        WITH Dates <- Days, NoDate <- NoDay, pending <- DatesOf(queue), active <- job.date

RefinesDateQueue == DQ!Spec
=============================================================================
