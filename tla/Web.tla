--------------------------------- MODULE Web --------------------------------
(***************************************************************************)
(* Who waits for whom in the worker's process: the event loop of uvicorn,  *)
(* the thread pools its handlers run in, the boot, the daily fire and the  *)
(* queue's worker thread, over a MySQL server that may stop answering      *)
(* (web.py, routes.py, auth.py, db.py, and the waits of orchestrator.py).  *)
(*                                                                         *)
(* Each thread of control has a list of operations left to do:             *)
(*   "mysql"               a connection and its queries, without a         *)
(*                         read_timeout: they end only if MySQL answers    *)
(*   "web"                 BlueWeb, by HTTP or a browser: these waits have *)
(*                         deadlines (PageFlow, FlowsEnd)                  *)
(*   "acquire", "release"  Orchestrator._lock                              *)
(* What a handler computes or writes is in the other modules.  A process   *)
(* that dies starts again in Init.                                         *)
(***************************************************************************)
EXTENDS Sequences, FiniteSets, Naturals

CONSTANTS Requests,     \* the requests in progress at one time (a bound)
          PoolSize,     \* threads for sync handlers and dependencies
          DryThreads,   \* threads of asyncio.to_thread
          None

ASSUME ThreadsAssumption == /\ PoolSize \in Nat \ {0}
                            /\ DryThreads \in Nat \ {0}
                            /\ None \notin Requests \cup {"boot", "fire", "worker"}
                            /\ Requests \cap {"boot", "fire", "worker"} = {}

VARIABLES
  kind,    \* the route of each request, "none" when there is no such request
  place,   \* where it is
  todo,    \* the operations each thread of control has left
  querying, \* the threads that are in a MySQL query
  loop,    \* the request whose handler runs on the event loop
  lock,    \* the holder of Orchestrator._lock
  silent   \* MySQL does not answer

vars == <<kind, place, todo, querying, loop, lock, silent>>

Threads == Requests \cup {"boot", "fire", "worker"}

Operations == {"mysql", "web", "acquire", "release"}

\* async handlers, which run on the loop; sync ones, which FastAPI runs in its pool.
Async == {"save", "test_bluewave", "test_mysql", "run", "catchup"}
Sync == {"healthz", "form", "dashboard", "runs"}
Kinds == Async \cup Sync \cup {"dry"}

\* Faulty variants: a catch-up queries with the lock held; POST /run asks for the
\* queue's state with the lock held.
WorkLocked(k) ==
  CASE k = "form"                         -> <<>>
    [] k \in {"healthz", "run"}           -> <<"acquire", "release">>
    [] k \in {"runs", "test_mysql"}       -> <<"mysql">>
    [] k = "dashboard"                    -> <<"mysql", "acquire", "release">>
    [] k = "catchup"                      -> <<"acquire", "mysql", "release">>
    [] k = "test_bluewave"                -> <<"web">>
    [] k = "save"                         -> <<"web", "mysql", "web", "mysql">>
    [] k = "dry"                          -> <<"web", "mysql">>

WorkNested(k) ==
  CASE k = "form"                         -> <<>>
    [] k = "run"                          -> <<"acquire", "acquire", "release", "release">>
    [] k = "healthz"                      -> <<"acquire", "release">>
    [] k \in {"runs", "test_mysql"}       -> <<"mysql">>
    [] k \in {"dashboard", "catchup"}     -> <<"mysql", "acquire", "release">>
    [] k = "test_bluewave"                -> <<"web">>
    [] k = "save"                         -> <<"web", "mysql", "web", "mysql">>
    [] k = "dry"                          -> <<"web", "mysql">>

\* The operations of a handler of a configured worker (without a config there is
\* less to do), in its order: healthz, post_config with its triple_probe and
\* _bootstrap_audit_table, test_bluewave, test_mysql, post_run, post_dry_run,
\* post_catchup, get_runs and get_run, index; /config and /csrf have none.
Work(k) ==
  CASE k = "form"                         -> <<>>
    [] k \in {"healthz", "run"}           -> <<"acquire", "release">>
    [] k \in {"runs", "test_mysql"}       -> <<"mysql">>
    [] k \in {"dashboard", "catchup"}     -> <<"mysql", "acquire", "release">>
    [] k = "test_bluewave"                -> <<"web">>
    [] k = "save"                         -> <<"web", "mysql", "web", "mysql">>
    [] k = "dry"                          -> <<"web", "mysql">>

\* Scheduler.start: the audit table, then the catch-up.
Boot == <<"mysql", "mysql", "acquire", "release">>

\* _consume, once: popleft, run_job, the end of _in_flight.
Job == <<"acquire", "release", "mysql", "web", "mysql", "acquire", "release">>

Places == {"none", "arrived", "authenticated", "loop", "pool", "executor"}

TypeOK == /\ kind \in [Requests -> Kinds \cup {"none"}]
          /\ place \in [Requests -> Places]
          /\ todo \in [Threads -> Seq(Operations)]
          /\ querying \subseteq Threads
          /\ loop \in Requests \cup {None}
          /\ lock \in Threads \cup {None}
          /\ silent \in BOOLEAN
          /\ \A r \in Requests : /\ kind[r] = "none" <=> place[r] = "none"
                                 /\ loop = r <=> place[r] = "loop"
          /\ \A t \in querying : todo[t] # <<>> /\ Head(todo[t]) = "mysql"

Init == /\ kind = [r \in Requests |-> "none"]
        /\ place = [r \in Requests |-> "none"]
        /\ todo = [t \in Threads |-> IF t = "boot" THEN Boot ELSE <<>>]
        /\ querying = {}
        /\ loop = None
        /\ lock = None
        /\ silent \in BOOLEAN

-----------------------------------------------------------------------------
(* Operations of any thread of control *)

Is(t, op) == todo[t] # <<>> /\ Head(todo[t]) = op

Done(t) == todo' = [todo EXCEPT ![t] = Tail(todo[t])]

\* What is left after a failure: _bootstrap_audit_table of the boot and index
\* swallow it, run_job writes its verdict after one of the browser, and whatever
\* fails, _consume clears _in_flight; another handler, and dry_run, answers with
\* the failure.
AfterFailure(t) ==
  CASE t = "boot" /\ todo[t] = Boot    -> Tail(todo[t])
    [] t = "worker"                   ->
         IF Head(todo[t]) = "web" THEN Tail(todo[t]) ELSE <<"acquire", "release">>
    [] t \in Requests /\ kind[t] = "dashboard" -> Tail(todo[t])
    [] OTHER                          -> <<>>

Fail(t) == todo' = [todo EXCEPT ![t] = AfterFailure(t)]

\* connect has begun; whether the server is there or not.
Connect(t) ==
  /\ Is(t, "mysql")
  /\ t \notin querying
  /\ querying' = querying \cup {t}
  /\ UNCHANGED <<kind, place, todo, loop, lock, silent>>

\* connect_timeout, or the connection is refused.
ConnectFails(t) ==
  /\ Is(t, "mysql")
  /\ t \notin querying
  /\ Fail(t)
  /\ UNCHANGED <<kind, place, querying, loop, lock, silent>>

QueryEnds(t) ==
  /\ t \in querying
  /\ ~silent
  /\ Done(t) \/ Fail(t)
  /\ querying' = querying \ {t}
  /\ UNCHANGED <<kind, place, loop, lock, silent>>

WebEnds(t) ==
  /\ Is(t, "web")
  /\ Done(t) \/ Fail(t)
  /\ UNCHANGED <<kind, place, querying, loop, lock, silent>>

Acquire(t) ==
  /\ Is(t, "acquire")
  /\ lock = None
  /\ lock' = t
  /\ Done(t)
  /\ UNCHANGED <<kind, place, querying, loop, silent>>

Release(t) ==
  /\ Is(t, "release")
  /\ lock' = None
  /\ Done(t)
  /\ UNCHANGED <<kind, place, querying, loop, silent>>

Operation(t) == \/ Connect(t) \/ ConnectFails(t) \/ QueryEnds(t)
                \/ WebEnds(t) \/ Acquire(t) \/ Release(t)

-----------------------------------------------------------------------------
(* Requests *)

Serving == todo["boot"] = <<>>

InPool == {r \in Requests : place[r] = "pool"}

Gone(r) == /\ kind' = [kind EXCEPT ![r] = "none"]
           /\ place' = [place EXCEPT ![r] = "none"]

Arrive(r, k) ==
  /\ Serving
  /\ kind[r] = "none"
  /\ kind' = [kind EXCEPT ![r] = k]
  /\ place' = [place EXCEPT ![r] = "arrived"]
  /\ UNCHANGED <<todo, querying, loop, lock, silent>>

\* require_basic_auth is sync and takes a thread of the pool; 401 ends a request.
Authenticate(r) ==
  /\ place[r] = "arrived"
  /\ kind[r] # "healthz"
  /\ loop = None
  /\ Cardinality(InPool) < PoolSize
  /\ \/ place' = [place EXCEPT ![r] = "authenticated"] /\ UNCHANGED kind
     \/ Gone(r)
  /\ UNCHANGED <<todo, querying, loop, lock, silent>>

EnterPool(r) ==
  /\ kind[r] \in Sync
  /\ place[r] = IF kind[r] = "healthz" THEN "arrived" ELSE "authenticated"
  /\ loop = None
  /\ Cardinality(InPool) < PoolSize
  /\ place' = [place EXCEPT ![r] = "pool"]
  /\ todo' = [todo EXCEPT ![r] = Work(kind[r])]
  /\ UNCHANGED <<kind, querying, loop, lock, silent>>

EnterLoop(r) ==
  /\ kind[r] \in Async
  /\ place[r] = "authenticated"
  /\ loop = None
  /\ loop' = r
  /\ place' = [place EXCEPT ![r] = "loop"]
  /\ todo' = [todo EXCEPT ![r] = Work(kind[r])]
  /\ UNCHANGED <<kind, querying, lock, silent>>

\* Faulty variant: the dry run is called from the handler itself.
EnterExecutorInline(r) ==
  /\ kind[r] = "dry"
  /\ place[r] = "authenticated"
  /\ loop = None
  /\ loop' = r
  /\ place' = [place EXCEPT ![r] = "loop"]
  /\ todo' = [todo EXCEPT ![r] = Work(kind[r])]
  /\ UNCHANGED <<kind, querying, lock, silent>>

\* await asyncio.to_thread(dry_run, ...)
EnterExecutor(r) ==
  /\ kind[r] = "dry"
  /\ place[r] = "authenticated"
  /\ loop = None
  /\ Cardinality({q \in Requests : place[q] = "executor"}) < DryThreads
  /\ place' = [place EXCEPT ![r] = "executor"]
  /\ todo' = [todo EXCEPT ![r] = Work(kind[r])]
  /\ UNCHANGED <<kind, querying, loop, lock, silent>>

\* require_csrf, or a handler's own check before it does anything: 400, 403, 409.
Refuse(r) ==
  /\ kind[r] \in Async \cup {"dry"}
  /\ place[r] = "authenticated"
  /\ loop = None
  /\ Gone(r)
  /\ UNCHANGED <<todo, querying, loop, lock, silent>>

\* Faulty variant: the loop stays with the request.
AnswerKeepsLoop(r) ==
  /\ place[r] \in {"loop", "pool", "executor"}
  /\ todo[r] = <<>>
  /\ loop \in {None, r}
  /\ Gone(r)
  /\ UNCHANGED <<todo, querying, loop, lock, silent>>

\* The loop sends the answer; that of a thread waits until the loop is free.
Answer(r) ==
  /\ place[r] \in {"loop", "pool", "executor"}
  /\ todo[r] = <<>>
  /\ loop \in {None, r}
  /\ loop' = None
  /\ Gone(r)
  /\ UNCHANGED <<todo, querying, lock, silent>>

RequestStep(r) == \/ Authenticate(r) \/ EnterPool(r) \/ EnterLoop(r) \/ EnterExecutor(r)
                  \/ Refuse(r) \/ Answer(r) \/ Operation(r)

-----------------------------------------------------------------------------
(* Other threads, and MySQL *)

\* The daily trigger, on a thread of APScheduler's.
Fire ==
  /\ todo["fire"] = <<>>
  /\ todo' = [todo EXCEPT !["fire"] = <<"acquire", "release">>]
  /\ UNCHANGED <<kind, place, querying, loop, lock, silent>>

StartJob ==
  /\ todo["worker"] = <<>>
  /\ todo' = [todo EXCEPT !["worker"] = Job]
  /\ UNCHANGED <<kind, place, querying, loop, lock, silent>>

MysqlChanges ==
  /\ silent' = ~silent
  /\ UNCHANGED <<kind, place, todo, querying, loop, lock>>

Next == \/ \E r \in Requests : RequestStep(r) \/ \E k \in Kinds : Arrive(r, k)
        \/ \E t \in {"boot", "fire", "worker"} : Operation(t)
        \/ Fire
        \/ StartJob
        \/ MysqlChanges

\* The loop and the pools serve in turn; a lock that is free again and again is
\* taken in the end.
Fairness == /\ \A r \in Requests : SF_vars(RequestStep(r))
            /\ \A t \in {"boot", "fire", "worker"} : SF_vars(Operation(t))

Spec == Init /\ [][Next]_vars /\ Fairness

-----------------------------------------------------------------------------
(* Properties *)

(* Nobody waits for MySQL or BlueWeb while it holds the queue's lock, so   *)
(* that the lock never passes a wait on: catchup_missing queries first     *)
(* (orchestrator.py:243-248).                                              *)
LockIsBrief ==
  /\ lock # None => Is(lock, "release") /\ lock \notin querying
  /\ \A t \in Threads : Is(t, "release") => lock = t

\* MySQL keeps the loop or every thread of the pool.
MysqlHoldsTheWeb ==
  \/ /\ loop # None
     /\ loop \in querying
     /\ kind[loop] \in {"save", "test_mysql", "catchup"}
  \/ Cardinality(InPool \cap querying) = PoolSize

(* /healthz, the forms and POST /run never wait for MySQL themselves: one  *)
(* that is never answered is held up by a save, a MySQL test or a catch-up *)
(* on the loop, or by page reads in every thread of the pool.  A run that  *)
(* hangs in MySQL, a dry run and the daily fire hold up nobody             *)
(* (routes.py:445, orchestrator.py:73, db.py:43).                          *)
LightRequestsAnswered ==
  \A r \in Requests :
    \/ []<>(kind[r] \notin {"healthz", "form", "run"})
    \/ <>[]MysqlHoldsTheWeb

(* If MySQL answers from some time on, the process gets to serve and every *)
(* request is answered: no order of handlers, pool threads and lock keeps  *)
(* one waiting for ever.                                                   *)
EveryRequestAnswered ==
  <>[]~silent => <>Serving /\ \A r \in Requests : []<>(kind[r] = "none")
=============================================================================
