---------------------------- MODULE Orchestrator ----------------------------
(***************************************************************************)
(* The in-process run queue of src/bluewave/orchestrator.py: a deque of    *)
(* (report_date, manual) pairs under one lock, the callers that fill it    *)
(* (POST /run and the daily fire through try_enqueue, POST /run/catchup    *)
(* and the boot through catchup_missing) and the worker thread that drains *)
(* it, started on demand.                                                  *)
(*                                                                         *)
(* A step is what one thread does while it holds the lock, or between two  *)
(* acquisitions of it.  The job itself (run_job) is here only what the     *)
(* queue can see of it: it may commit an "ok" run row for its date, and it *)
(* returns.                                                                *)
(***************************************************************************)
EXTENDS Integers, Sequences

CONSTANTS Dates,      \* report dates, numbered by day
          CapDays,    \* catch_up_cap_days
          Threads,    \* identities of threading.Thread objects, reused once dead
          NoDate,     \* _in_flight is None
          NoThread    \* _worker is None

ASSUME DatesAssumption == /\ Dates \subseteq Int
                          /\ NoDate \notin Dates
ASSUME CapAssumption == CapDays \in Nat \ {0}    \* the form accepts 1 to 90
ASSUME ThreadsAssumption == NoThread \notin Threads

VARIABLES
  queue,      \* _queue: sequence of [date, manual]
  inFlight,   \* _in_flight
  worker,     \* _worker: the last thread started
  pc,         \* where each thread stands in _consume
  shutdown,   \* the _shutdown event
  ingested,   \* dates with a committed ok or skipped row in the runs table
  catchup     \* the catch-up call in progress, between its query and its lock

queueVars == <<queue, inFlight>>
threadVars == <<worker, pc>>
vars == <<queue, inFlight, worker, pc, shutdown, ingested, catchup>>

Entry == [date : Dates, manual : BOOLEAN]

\* "loop": about to test the event; "lock": about to take the lock and test the
\* queue; "job": in _job_fn; "finally": job over, about to clear _in_flight;
\* "returned": left the lock on an empty queue, yet is_alive() until "dead".
ThreadState == {"dead", "loop", "lock", "job", "finally", "returned"}

NoCatchup == [stage |-> "idle"]
Catchup == {NoCatchup}
             \cup [stage : {"queried"}, today : Dates, ingested : SUBSET Dates]

TypeOK == /\ queue \in Seq(Entry)
          /\ inFlight \in Dates \cup {NoDate}
          /\ worker \in Threads \cup {NoThread}
          /\ pc \in [Threads -> ThreadState]
          /\ shutdown \in BOOLEAN
          /\ ingested \in SUBSET Dates
          /\ catchup \in Catchup

QueuedDates == {queue[i].date : i \in 1..Len(queue)}

Busy(t) == pc[t] \in {"job", "finally"}

Init == /\ queue = <<>>
        /\ inFlight = NoDate
        /\ worker = NoThread
        /\ pc = [t \in Threads |-> "dead"]
        /\ shutdown = FALSE
        /\ ingested = {}
        /\ catchup = NoCatchup

-----------------------------------------------------------------------------
(* The callers *)

\* Faulty variant: a thread is started whether or not the last one is alive.
EnsureWorkerUnchecked ==
  \E t \in Threads : /\ pc[t] = "dead"
                     /\ worker' = t
                     /\ pc' = [pc EXCEPT ![t] = "loop"]

\* Start a thread unless the last one is alive.
EnsureWorker ==
  IF worker # NoThread /\ pc[worker] # "dead"
    THEN UNCHANGED threadVars
    ELSE \E t \in Threads : /\ pc[t] = "dead"
                            /\ worker' = t
                            /\ pc' = [pc EXCEPT ![t] = "loop"]

\* Faulty variant: the date in flight is not looked at.
TryEnqueueQueueOnly(d, manual) ==
  /\ d \notin QueuedDates
  /\ queue' = Append(queue, [date |-> d, manual |-> manual])
  /\ EnsureWorker
  /\ UNCHANGED <<inFlight, shutdown, ingested, catchup>>

\* A date already queued or running is refused, and then no thread is ensured.
TryEnqueue(d, manual) ==
  /\ d \notin QueuedDates \cup {inFlight}
  /\ queue' = Append(queue, [date |-> d, manual |-> manual])
  /\ EnsureWorker
  /\ UNCHANGED <<inFlight, shutdown, ingested, catchup>>

\* First half of catchup_missing: the runs table is read without the lock.
CatchupQuery(today) ==
  /\ catchup = NoCatchup
  /\ catchup' = [stage |-> "queried", today |-> today,
                 ingested |-> {d \in ingested : d >= today - CapDays}]
  /\ UNCHANGED <<queueVars, threadVars, shutdown, ingested>>

\* Faulty variant: range(1, cap_days) loses the oldest day of the window.
CandidatesShort(today) == {d \in Dates : today - CapDays < d /\ d < today}

Candidates(today) == {d \in Dates : today - CapDays <= d /\ d < today}

\* The one ascending listing of S, which holds at most CapDays dates.
Ascending(S) ==
  {s \in UNION {[1..n -> S] : n \in 0..CapDays} :
     /\ \A i, j \in 1..Len(s) : i < j => s[i] < s[j]
     /\ \A d \in S : \E i \in 1..Len(s) : s[i] = d}

\* Faulty variant: the entry has no manual flag.
Unflagged(ds) == [i \in 1..Len(ds) |-> [date |-> ds[i]]]

NonManual(ds) == [i \in 1..Len(ds) |-> [date |-> ds[i], manual |-> FALSE]]

Missing == (Candidates(catchup.today) \ catchup.ingested)
             \ (QueuedDates \cup {inFlight})

\* Second half: under the lock, what the query did not find is queued oldest
\* first, as non-manual runs.
CatchupEnqueue ==
  /\ catchup # NoCatchup
  /\ \E added \in Ascending(Missing) :
       /\ queue' = queue \o NonManual(added)
       /\ IF added # <<>> THEN EnsureWorker ELSE UNCHANGED threadVars
  /\ catchup' = NoCatchup
  /\ UNCHANGED <<inFlight, shutdown, ingested>>

-----------------------------------------------------------------------------
(* The worker thread *)

Goto(t, from, to) == /\ pc[t] = from
                     /\ pc' = [pc EXCEPT ![t] = to]

TestShutdown(t) ==
  /\ Goto(t, "loop", IF shutdown THEN "returned" ELSE "lock")
  /\ UNCHANGED <<queueVars, worker, shutdown, ingested, catchup>>

\* Faulty variant: pop() in place of popleft().
TakeNewest(t) ==
  /\ Goto(t, "lock", "job")
  /\ queue # <<>>
  /\ inFlight' = queue[Len(queue)].date
  /\ queue' = SubSeq(queue, 1, Len(queue) - 1)
  /\ UNCHANGED <<worker, shutdown, ingested, catchup>>

TakeNext(t) ==
  /\ Goto(t, "lock", "job")
  /\ queue # <<>>
  /\ inFlight' = Head(queue).date
  /\ queue' = Tail(queue)
  /\ UNCHANGED <<worker, shutdown, ingested, catchup>>

ReturnEmpty(t) ==
  /\ Goto(t, "lock", "returned")
  /\ queue = <<>>
  /\ UNCHANGED <<queueVars, worker, shutdown, ingested, catchup>>

\* run_job commits status ok for the date in flight; it has not returned yet.
JobCommits(t) ==
  /\ pc[t] = "job"
  /\ ingested' = ingested \cup {inFlight}
  /\ UNCHANGED <<queueVars, threadVars, shutdown, catchup>>

\* Faulty variant: an exception of the job ends the thread.
JobEndsThread(t) ==
  /\ Goto(t, "job", "returned")
  /\ inFlight' = NoDate
  /\ UNCHANGED <<queue, worker, shutdown, ingested, catchup>>

\* The job returns or raises; a raise is logged and swallowed.
JobReturns(t) ==
  /\ Goto(t, "job", "finally")
  /\ UNCHANGED <<queueVars, worker, shutdown, ingested, catchup>>

ClearInFlight(t) ==
  /\ Goto(t, "finally", "loop")
  /\ inFlight' = NoDate
  /\ UNCHANGED <<queue, worker, shutdown, ingested, catchup>>

\* The interpreter retires the thread: only now is is_alive() false.
ThreadExits(t) ==
  /\ Goto(t, "returned", "dead")
  /\ UNCHANGED <<queueVars, worker, shutdown, ingested, catchup>>

Shutdown ==
  /\ ~shutdown
  /\ shutdown' = TRUE
  /\ UNCHANGED <<queueVars, threadVars, ingested, catchup>>

\* The process dies and a new one builds its own Orchestrator; nothing in
\* memory survives, the runs table does.
Restart ==
  /\ queue' = <<>>
  /\ inFlight' = NoDate
  /\ worker' = NoThread
  /\ pc' = [t \in Threads |-> "dead"]
  /\ shutdown' = FALSE
  /\ catchup' = NoCatchup
  /\ UNCHANGED ingested

-----------------------------------------------------------------------------

Call == \/ \E d \in Dates, manual \in BOOLEAN : TryEnqueue(d, manual)
        \/ \E today \in Dates : CatchupQuery(today)
        \/ CatchupEnqueue

Consume(t) == \/ TestShutdown(t)
              \/ TakeNext(t)
              \/ ReturnEmpty(t)
              \/ JobReturns(t)
              \/ ClearInFlight(t)
              \/ ThreadExits(t)

Next == \/ Call
        \/ \E t \in Threads : Consume(t) \/ JobCommits(t)
        \/ Shutdown
        \/ Restart

Spec == Init /\ [][Next]_vars

\* A started thread is scheduled, and a job returns.
FairSpec == /\ Spec
            /\ \A t \in Threads : WF_vars(Consume(t))

-----------------------------------------------------------------------------
(* Properties *)

\* At most one thread is inside a job, and it is the one _in_flight speaks of:
\* two overlapping jobs would drive two browsers and let the first to end clear
\* the other's mark (_ensure_worker_locked, _consume).
SingleFlight ==
  /\ \A t, u \in Threads : Busy(t) /\ Busy(u) => t = u
  /\ inFlight # NoDate <=> \E t \in Threads : Busy(t)

\* A date waits or runs once, whatever the callers interleave (the membership
\* tests of try_enqueue and catchup_missing).
NoDateTwice ==
  /\ \A i, j \in 1..Len(queue) : queue[i].date = queue[j].date => i = j
  /\ inFlight \notin QueuedDates

\* After the locked half of a catch-up no day of its window is left out: each
\* one is ingested, waiting or running, whatever happened since the query.
CatchupLeavesNoGap ==
  [][CatchupEnqueue =>
       \A d \in Dates : d < catchup.today /\ d >= catchup.today - CapDays =>
          \/ d \in ingested'
          \/ d = inFlight'
          \/ \E i \in 1..Len(queue') : queue'[i].date = d]_vars

\* A worker that has not yet seen the queue empty will take every date that is
\* waiting, in a process that stays up and is not shut down.
DrainsWhileLooping ==
  \A d \in Dates :
    d \in QueuedDates /\ (\E t \in Threads : pc[t] \in {"loop", "lock", "job", "finally"})
      ~> d \notin QueuedDates \/ shutdown

\* The class promises a queue that "drains serially on one background thread":
\* a date accepted in a process that stays up is eventually taken.
AcceptedIsTaken ==
  \A d \in Dates : d \in QueuedDates ~> d \notin QueuedDates \/ shutdown

DatesOf(q) == [i \in 1..Len(q) |-> q[i].date]

\* The queue keeps the promise of DateQueue.
DQ == INSTANCE DateQueue
        WITH pending <- DatesOf(queue), active <- inFlight

RefinesDateQueue == DQ!Spec
=============================================================================
