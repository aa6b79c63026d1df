# BlueWaving ingest worker: specifications and proofs

BlueWaving (`src/bluewave/`) is a single-container Python worker. Once a day it
drives a headless Chromium through the BlueWeb access-control site, downloads the
event report of the day before as CSV, and inserts its rows into a shared MySQL
audit table; a second table records the verdict of every run. An operator
configures it and asks for further days over HTTP. This directory specifies the
worker in TLA+, model-checks the specifications with TLC, and proves the
properties that matter most with TLAPS.

## 1. Inventory of the system

| Component (source) | State it keeps | Operations | Talks to |
|---|---|---|---|
| Run queue (`orchestrator.py`, class `Orchestrator`) | `_queue`, `_in_flight`, `_worker`, `_shutdown`, one lock | `try_enqueue`, `catchup_missing`, `_consume`, `shutdown` | called by API and scheduler; calls `run_job`; reads the runs table |
| Run pipeline (`orchestrator.py`, `run_job`; `db.py`, `exceptions.py`) | one MySQL connection (autocommit off), the run id | connect, start, browser, transform, insert, finalize, two handlers | browser, sink, ledger |
| Run ledger (`runs.py`) | table `z_audit_logs_efk_runs` | `start_run`, `finalize_run`, `find_ingested_dates`; `reap_stuck_runs` and `has_successful_scheduled_run` (called by tests only) | MySQL |
| Audit sink (`sink.py`) | table `z_audit_logs_efk` | `insert_rows` | MySQL, inside the caller's transaction |
| Schedule and boot (`scheduler.py`) | the APScheduler job `daily` | `start`, `reconfigure`, `_fire`, `_boot_catchup`, audit-table bootstrap | run queue, config store |
| HTTP API (`routes.py`, `auth.py`) | none (the CSRF token is signed, not stored) | `POST /config`, `/config/test/*`, `/run`, `/run/dry`, `/run/catchup`; `GET` of `/healthz`, `/config`, `/csrf`, `/runs`, `/runs/{id}`, `/` | everything above |
| Process (`web.py`) | the objects it wires | `create_app`, shutdown hook, environment checks | scheduler |
| Config store (`config.py`) and rotation (`rotate_config.py`, another process) | one encrypted row in SQLite | `load`, `save`, `reencrypt_all` | file |
| Page flow (`login.py`, `scrape.py`, `selectors.py`, `driver.py`) | browser page, download directory | login, select report, dates, Get Report, CSV | BlueWeb |
| Transform and dedup (`transform.py`, `dedup.py`) | none | CSV to rows, local time to UTC, `dedup_hash` | - |
| Schema (`schema.py`) | the two tables as objects | `bootstrap`, `validate`, at boot and after a save | MySQL, beside its DBA |
| Dry run (`dryrun.py`) and save-time probes (`probes.py`) | a download directory of their own | `dry_run`; `triple_probe` | browser, MySQL (reads only) |
| Screenshots, command-line helpers | none that lasts | - | - |

Threads: the event loop, on which the `async` handlers run one after the other, since they
await nothing (only `/run/dry` hands its work to a thread); a thread pool for the sync
handlers and for the sync authentication dependency of every protected route; APScheduler's
threads (the fire); one daemon worker thread (the runs). The lock of `Orchestrator` is the only
one in the program, and the two MySQL tables and the config file are the state that survives a
restart.

What is hard here: the worker thread that ends when the queue is empty while
callers decide whether to start one; the catch-up that reads the database first
and locks afterwards; the order fire / boot / midnight / save; the transaction
that spans insert and verdict, with handlers that finalize on the same
connection; lost answers to commits; the crash of the container at any point; local times
in the hour that clocks repeat or skip, and a hash that must tell events apart; a database
shared with a DBA; and a MySQL server that stops answering while the loop, the pool or the
worker waits for it. `PROJECT.json` lists these under "hazards", each at its line, with the
properties that are about it.

What makes each component correct:

- *run queue*: one run at a time, no date twice, FIFO, nothing accepted is
  forgotten while the process lives, a catch-up leaves no day of its window out;
- *run, ledger and sink*: an `ok` row means that the whole CSV is in the audit table with
  exact counts; no row of an unfinished run; a verdict is final; one scheduled ok
  per date; a row is left `running` only by a crash or a lost connection;
- *schedule and boot*: no past day of the window is overlooked, no day is asked for before
  it is over in a zone the process had, a boot's catch-up is carried out;
- *config store and rotation*: a save is all or nothing, no key deploy by the documented
  procedure makes the row unreadable, and no later write undoes a save unasked;
- *page flow, driver, dry run, login probe*: the CSV that is parsed is the whole report of the
  flow's own date, whatever runs beside it and ran before; a day is called empty only if it has
  no events or the page said so too early; nobody passes the login on another flow's session; every
  flow ends, unless MySQL holds it;
- *transform, dedup, dry run*: an ok run leaves every line of its CSV in the table, lines that
  say different things are not merged, the same line is not inserted twice, the instant stored is the
  event's except in the second pass of a repeated hour; a preview says what the run will do;
- *schema*: the verdict on the two tables tells the truth;
- *web process*: the queue's lock is held over no wait, only the known handlers can hold up the
  others, and with MySQL back every request is answered.

## 2. Modules

| Module | Models | Notes |
|---|---|---|
| `DateQueue` | what the run queue promises: waiting dates in order, one active date, loss at a restart | abstract; 2 variables |
| `Orchestrator` | class `Orchestrator`, one step per locked region | implements `DateQueue` |
| `OrchestratorProofs` | - | its theorems |
| `RunLedger` | what a run promises to a reader of the two tables: a row is opened, and its one verdict comes together with exactly the rows it stands for | abstract; 2 variables |
| `RunJob` | `run_job`, `start_run`, `finalize_run`, `insert_rows`, the two tables with their unique keys | one step per SQL statement; a commit is one step with the statement before it, which nobody else can see until then; implements `RunLedger` |
| `MCRunJob` | - | reports for TLC |
| `RunJobProofs` | - | its theorems |
| `Ingest` | clock, `Scheduler`, boot, the POST calls that touch queue or schedule, the queue and the runs table as they see them | implements `DateQueue` too |
| `MCIngest` | - | the configs an operator saves, for TLC |
| `IngestProofs` | - | its theorems |
| `ConfigStore` | the settings row of `config.py`, `POST /config`, `rotate_config` as a second process, the operator's key deploys | encryption as a tag: a token is a key and a value |
| `ConfigStoreProofs` | - | its theorems |
| `PageFlow` | `login_and_navigate`, `scrape_event_report`, `build_driver`, the browser side of `run_job`, `dry_run` and the login probe | BlueWeb, Chromium's downloads and the disk are environment actions |
| `PageFlowProofs` | - | its theorems |
| `LocalTime` | `_localize_to_utc` and a zone with one change of offset | operators; `zoneinfo` by what it does |
| `Transform` | `transform.py`, `dedup.py`: a CSV to rows and their hashes | operators over texts as sequences of characters |
| `AuditTable` | the audit table from CSV to rows: runs in any zone, dry runs, the DBA | extends `Transform`, which extends `LocalTime` |
| `MCAuditTable` | - | zones, events and reports for TLC |
| `AuditTableProofs` | - | theorems about all three |
| `Schema` | `bootstrap_and_validate`, statement by statement, beside a DBA and restarts | |
| `SchemaProofs` | - | its theorems |
| `Web` | who waits for whom: event loop, thread pools, boot, fire, worker, lock, MySQL | what the handlers compute is in the other modules |
| `WebProofs` | - | its theorems |

**Orchestrator.** `queue`, `inFlight`, `worker`, `shutdown` are the attributes of
the class. `pc[t]` is where thread `t` stands in `_consume`; the state
`"returned"` is the point that matters: the thread has left the lock on an empty
queue and will never look at it again, yet `is_alive()` holds until `"dead"`.
`catchup` is the `catchup_missing` call between its query (no lock) and its
append (lock). `ingested` is what `find_ingested_dates` would return. Thread
identities are reused once dead, so two of them stand for any number of
successive workers. `run_job` is what the queue can see of it: `JobCommits` (an ok
row becomes visible before the job has returned) and `JobReturns` (with or
without an exception: the code logs and swallows it).

**RunJob.** `audit` and `runs` are the committed tables, `work` the audit table
as the run's own transaction sees it. An event is the identity of its
`dedup_hash`; a report is a sequence of events. `scraped[r]` remembers what the
CSV of run `r` parsed to and `struck` the runs that a crash, a lost connection or a failing
handler hit; both are history, no guard reads `struck`. A commit has two
outcomes for the client, answered or connection lost. A failing statement keeps
or loses the transaction's earlier work (an ordinary error keeps it, a deadlock
undoes it). The five statuses of the `RunFailure` subclasses are one value, since
nothing in these tables tells them apart. Two runs never overlap in one process
(that is `SingleFlight` of `Orchestrator`), so one job record is enough; a
crashed process's transaction is rolled back in the step that kills it.

**Ingest.** A day has two slots; the daily time is the start of one. `trigger`
is the day of the job's `next_run_time`. `Tick` moves the clock even when a fire
is due, so a fire can run late, after midnight (APScheduler allows 3600 s), or be
dropped (`FireMissed`). The boot is `Boot`, the catch-up query, the append; the
API serves only afterwards. `config` is what a save changes of the schedule and the window:
the daily time, the operator's time zone and the cap. There are two zones, half a day apart, so
a save of the other one moves the operator's clock by a slot, perhaps to the day before or after; a
fire that has been dispatched when a save comes in is taken as before the save. `SaveLosesTrigger` is a
save whose `reconfigure` fails after it has removed the job. `worker` is the queue's thread: in
its loop, `leaving` once it has found the queue empty (until it has ended no call starts another, as in
`Orchestrator`), or dead. A run is one step to its verdict here: `RunJob` has
its inside. `tried`, `disturbed` and `east`, the easternmost zone that the process has had, are
history used by the properties only.

**ConfigStore.** `row` is the committed row, `lock` SQLite's write lock, `proc`
the two writers with what they hold between their load and their commit. `Delete` (with
BEGIN) and `InsertCommit` are the two halves of `ConfigStore.save`. `GiveUp` is every
way a writer ends without a commit: a probe that fails, a lock held for
more than 5 s, a SQLite error, a killed command. A restart ends both writers, since
rotation runs inside the container. `rotated` is what the operator knows from the exit code 0
of `rotate_config`; only then are old keys dropped, as README, USAGE and the docstring of
`rotate_config.py` prescribe. `typed` and `overtaken` are history.

**PageFlow.** A flow is one passage through the site: the worker's (`Runner`), over and over
in one download directory, and those of HTTP requests, which are dry runs (a directory each) or
login probes (they download nothing). `flow[f].stage` is the next wait or click; a stage may
fail with the statuses that the code raises there (`StatusesAt`). `cookie` is the session in a
browser's profile. The code takes any Reports menu for a login, so `Open` and `MenuShown` also let a browser in
that BlueWeb trusts for other reasons (`Trusted`, any set of flows); `ambient` (history) tells such a flow whose
credentials it would refuse. `page` holds the date inputs of the Reports page,
`table` what its results table shows: no row, DataTables' row for no data before there is an answer,
that row as the answer, or rows. `Redraw` and `Answer` change it at any moment between Get Report and the CSV,
so also between the two queries of `_outcome`, which are `FindRow` and `ReadOutcome`; `early` (history)
says that the row for no data, or the table that was exported, was not BlueWeb's answer. `csv` and `dead` the download
directory: the CSV, if any, with the days it covers and whether it is whole, and a `.crdownload`
nobody writes any more. `load` is a browser's download: asked for, begun (its `.crdownload` is in
the directory), ended. `DownloadBegins` may reserve the final name with a truncated file, as
browsers do; `DownloadEnds` may find the name taken and leave the old file where it is.
`Wipe` may leave a file it cannot remove (the code logs that), `QuitRaises` a browser that goes on
downloading into the directory of the runs (`Orphan`). `spoilt` is history: the wipe ended with
something of an earlier run in the directory or still on its way. `good` is what BlueWeb would say of the
credentials. What lies between `Use`, or `Record` for an empty report, and the verdict of a run is `RunJob`'s; the thread that
runs the `Runner`'s flows one after the other is `Orchestrator`'s.

**LocalTime, Transform.** A time is a whole number, a zone an offset before and one after a
UTC instant. `FoldZero` is the offset that `zoneinfo` gives a naive time with `fold=0`; `Localize`
is the round trip of `_localize_to_utc`, so that `Malformed` is what it raises. A text is a
sequence of characters because stripping and joining are what the hash depends on; `None` is the
empty text. `Hash` is the text that `dedup_hash` feeds to sha256, which is taken to be injective.
`Refused` is all that makes `transform` raise: the header, the number of fields and the format of
times are one flag of the CSV, `wellFormed`; a time in a gap and a blank required field are computed.

**AuditTable.** Here a run is one step (its statements are in `RunJob`): it is `RunOk`,
`RunRefused` (`parse_failed`) or `RunFails`, which may leave the batches that were in, as the code
does. A report is a sequence of events with the UTC instant they happened at; BlueWeb writes them
in the local time of its host, the run reads them in the zone the operator has configured. `Inserted` is the
effect of `ON DUPLICATE KEY UPDATE id = id` with the unique key and, if a DBA has dropped or
never made it, without. `dry` is the last dry run, in two steps: it reads its CSV, then looks the hashes up;
`current` (history) says whether rows were added since. One database is assumed, and a DBA who alters
the table but does not delete rows.

**Schema.** `table` is the shared table by what the check can see of it: its columns, its charset and
whether its hash is unique (which the check does not look at). `engine` is how the server shows the
types of the DDL. `check` is where a call stands; each SQL statement is a step, DDL commits by
itself, and a restart may come between any two. `touched` is history: the DBA did something, or a
query failed, since the check began.

**Web.** Each thread of control has a list of operations left (`todo`): a MySQL connection with
its queries, a wait for BlueWeb, taking and releasing the lock. `Work` lists those of every handler in
the order of the code, `Boot` and `Job` those of `Scheduler.start` and of `_consume`.
A request goes from `Arrive` through `Authenticate` (in the pool, as FastAPI runs sync dependencies) to the
loop, the pool or the executor of `asyncio.to_thread`, and is answered when the loop is free.
`Connect` may be followed by silence for ever, since `connect` sets `connect_timeout` and no
`read_timeout`. `AfterFailure` is what a handler still does after an exception.

## 3. Runs

| Run | Specification, bounds | Result |
|---|---|---|
| `orchestrator` | `FairSpec`; 3 dates, cap 2, 2 threads | passes, about 140 000 states |
| `orchestrator_lost_wakeup` | same | **violated**: `AcceptedIsTaken` |
| `run_job` | `Spec`; 2 dates, 2 events, batch of 1, 3 reports, 3 runs | passes, about 2.3 million states |
| `run_job_partial_rows` | same | **violated**: `FailedRunLeavesNoRows` |
| `ingest` | `FairSpec`; clock from day 2 to day 3, window of at most 2 days, 2 configs (other time, other zone, other cap), 1 day for `POST /run` | passes, about 472 000 states |
| `config_store` | `Spec`; 3 keys, 2 passwords, 2 settings | passes, about 770 000 states |
| `config_rotation` | same | **violated**: `RotationChangesNothing` |
| `page_flow` | `FairSpec`; the runner with 1 date, 1 request with 2 others, one of them without events (today has events too), the request's browser trusted, 1 surviving browser | passes, about 1.1 million states |
| `page_flow_leak` | `Spec`; the runner alone, 3 dates | **violated**: `NothingLeaksBetweenRuns` |
| `audit_table` | `Spec`; 2 zones, 7 reports, 2 runs | passes, about 197 000 states |
| `schema` | `Spec`; no constants: 3 kinds of server, every shape of the table | passes, about 4 600 states |
| `web` | `Spec` (with its fairness); 2 requests, 1 thread in the pool, 1 for dry runs | passes, about 137 000 states |

No run disables the deadlock check.

*Bounds.* Three dates and a cap of two give a catch-up with two missing days
while a third date is in flight or waiting. Two thread identities are what
"the old worker has returned but is not dead" and "the new one" need; a third could only
appear if `SingleFlight` were already broken. Reports of two events with
batches of one give a transaction with two statements to fail between;
`<<e2, e2>>` repeats an event inside a report, and two overlapping reports over
three runs give duplicates between runs, two runs of the same date and of
different dates, manual and scheduled. Two days of clock with a window of two cover a fire
on time, a fire across midnight, a missed fire, and boots on either side of the
daily time. Three keys give a prepend while another old key is still listed, and a dropped key that
comes back. The configs of `ingest` differ in everything, so a save moves the trigger,
the window and the date; half a day between the zones is enough for a save to put the operator's date back. A report
date with events and one without tell an empty day from a placeholder, and today's events are what a date input left
at its default lets in. The runner, and one request beside it with dates of its own, are the pair of flows that
could share a directory or a profile; what an earlier run leaves behind differs from the next one's report by being
unfinished or exported too early, and `page_flow_leak` has three dates for it. One trusted browser and one that is not
tell a session of the flow's own from one it was given. `audit_table` has a host whose clocks fall back and a
wrong zone whose clocks spring forward over a time of the reports; its reports hold both passes of the
repeated hour, a skipped hour, an event written twice, lines that differ in blanks only or in where a text stands,
lines that collide through the separator, a blank required field, and a malformed CSV; two runs are what a re-read of
a day and a run after a dry run need, and an alteration of the table can come before, between and after them. In `web`
one request that holds the loop or the only thread and one that waits are all that a wait consists of; the boot,
the fire and the worker are there besides. `MaxRuns` bounds the AUTO_INCREMENT, `LastDay` the clock,
`ManualDays` the operator's wishes; none of them exists in the code. The theorems of section 5
hold without these bounds' values.

*Fairness.* `Orchestrator!FairSpec` lets every live thread go on, which
includes that a job returns: browser waits have timeouts (30 to 60 s) and
`build_driver` quits in `finally`. It does not cover a MySQL server that stops answering
(`db.py` sets no `read_timeout`; listed as a hazard). Callers, crashes and
shutdown have no fairness. `Ingest!FairSpec` is weak fairness of a pending
catch-up's lock and of a worker in its loop, which takes up what waits once its run has ended; that a run or the
boot's query ends is not assumed, since MySQL can hold both, and `BootCatchesUp` excuses a run that never ends.
The clock, the fire and the operator have no fairness. `PageFlow!FairSpec` is weak fairness of the
flows' own steps, failures included, as long as the flow is not with MySQL (`InMySQL`): every wait of the code for
the browser or the download has a deadline, after which it raises, so there a flow is never without a next
step. BlueWeb, Chromium, the disk and MySQL have no fairness;
`FlowsEnd` holds although no answer need ever come and no download ever finish. `Web!Fairness` is strong fairness of each
request's next step and of each other thread's: the loop's ready queue, the pool's limiter and the executor serve
in order of arrival, an operation on BlueWeb ends (its waits have deadlines, which is what `FlowsEnd` rests on), and a thread gets a lock that is
free again and again. Python's locks promise no order, but the lock is free almost always, since nobody
holds it over a wait (`LockIsBrief`). MySQL has no fairness: a query ends only if the server answers.

*What the passing properties say.*
`SingleFlight` ties `_in_flight` to the one thread inside a job.
`NoDateTwice` holds across all callers. `CatchupLeavesNoGap` says that a catch-up
built on a stale query still leaves no day of its window uncovered.
`DrainsWhileLooping` is the part of the drain promise that the code keeps: a worker that has not yet
seen the queue empty takes every waiting date, job exceptions notwithstanding.
`OkMeansComplete`, `OkCountsExact`, `CommittedRowsHaveVerdict`,
`RunningIsExplained` and `VerdictIsFinal`
together say that what the runs table tells of a run is true, now and later. `RefinesRunLedger` says how it
gets there: a verdict appears once, for the newest run, in one step with its counts and with exactly the new events
of the prefix of its CSV that it stands for (all of it if ok, some of it if `ingest_failed`, nothing otherwise), whatever
statements, batches, rollbacks, lost answers and crashes lie behind that step; that a date has one scheduled
ok run at most is part of it.
`DaysAccountedFor` is the end-to-end promise of the worker, that boot catch-up and daily
fire together overlook no day, with the exceptions the code really has
(`disturbed`: a save, a fire too late, a boot whose query failed).
`OnlyPastDays` allows for the one way in which a queued day can be ahead of the operator's date, a save of a zone to
the west after it was queued. `BootCatchesUp` is the liveness side of `DaysAccountedFor`; a day that meets the lost
wake-up of section 4 (`Stranded`) is excused, and so is everything behind a run that never ends.
`AlwaysReadable` needs the whole procedure to go wrong: prepend, save, rotate, kill, drop.
`StaysConfigured` is about the row deleted before it is inserted again, `LastSaveHolds` about
stored passwords that travel through a form, a minute of probes and a concurrent rotation.
`ParsesOwnReport` relates the parsed file to the date across wipe, range, background download,
poll, failed runs and crashes, and names the exceptions: leftovers that the wipe met, and a CSV asked for before
the answer, which holds nothing. `EmptyMeansNoEvents` matters because an
empty report is a success and its date is never asked for again: a date with events can be taken for empty only by
a row for no data that DataTables drew before the answer, since `_outcome` cannot tell it from the answer. An
answer or a redraw between its two queries does no such harm. `LoginProvesCredentials` says
that no flow gets in on the session of another one beside it; where BlueWeb lets a browser in without
credentials the login proves nothing (section 4). `TakenFileStays` is what the dry run's own directory is for, and
`FlowsEnd` is the assumption "a job returns" of `Orchestrator` as far as the browser goes: MySQL is its one exception.
`EveryLineStored` compares what the events say with what the rows say, across runs, zones, failed runs
and a table without its key, and never mentions a hash; a text with `|` in it is the exception, since nothing
escapes the separator (`dedup.py:20` says that none has been observed). `OnlyNewLinesAdded` is the other
direction, with the unique key. `StoredInstantsTrue` holds the code to the instant of the event, which
the code never sees; the second pass of a repeated hour is taken for the first, as the specification of the
repository says (L17), and an event there merges with one of the first pass that says the same. `PreviewHolds` says when `would_insert` is exact (the lookup worked, no row was added
since, no line repeats another) and that it is an upper bound otherwise.
`VerdictTells` holds for every order of checks, restarts, grants and alterations;
its exceptions are the real ones, a table altered meanwhile and a failed query, which is reported as drift.
`LightRequestsAnswered` names the only ways a request that needs neither MySQL nor BlueWeb can wait for ever: a
save, a MySQL test or a catch-up that hangs on the event loop, or page reads that hang in every pool thread.
A hanging run, dry run or fire does not do it. `EveryRequestAnswered` says that nothing stays stuck once MySQL
answers, whatever happened before.
Every property is also checked to be
breakable: definitions named `...Unchecked`, `...Short` and so on, marked "Faulty variant",
are changes to the code that make TLC report the property violated. They are not part of the
specification.

## 4. Where code and documentation disagree

Each is a violation run with a finding in `PROJECT.json`.

1. *Lost wake-up.* `_consume` returns on an empty queue and releases the lock;
   until the interpreter retires the thread, `_ensure_worker_locked` finds it
   alive and starts none. The accepted date waits for a later call.
2. *Rows of failed runs.* The handlers finalize without a rollback, so batches
   inserted before the failure are committed with the failure status. The rows are not lost or doubled
   (a later run counts them as duplicates), but "a failed run leaves zero rows"
   does not hold.
3. *Rotation undoes a save.* `rotate_config` loads over one connection and saves over
   another; a `POST /config` in between is lost.
4. *A report may leak into a later run.* The document has the directory wiped before every run and
   a fresh browser per run exclude such leaks; a file that cannot be unlinked is only
   logged and a `quit()` that raises is swallowed, so an old CSV, or the download of a browser
   that lived on, can be parsed under a later date.

Others were met on the way and need no run to be seen:

- `BLUEWEB_AUDIT_INGEST_SPEC.md:610` says that `catchup_missing` is invoked with the queue lock
  held; it reads the runs table first (`orchestrator.py:243`) and locks afterwards (248). A run that commits in between
  is queued again; no day is left out (`CatchupLeavesNoGap`).
- `runs.py:158` says that the scheduler uses `has_successful_scheduled_run`, and `runs.py:8` speaks of a boot-time
  reaper; only tests call either. A day caught up before the daily time is run again by the
  fire and refused by the unique key (`FinalizeOk`, and in `RunLedger` the guard of `Succeed`); a row left `running` by a crash stays so
  (`RunningIsExplained`), and catch-up queues its date again all the same.
- `probes.py:8` and `probes.py:118` have the login probe catch wrong credentials; `login_and_navigate` submits none if the
  Reports menu is there, whatever the reason (`login.py:145`, 173), so where BlueWeb lets the browser in by other means
  any credentials pass and are saved (the exception `ambient` of `LoginProvesCredentials`).
- The specification (line 138) has `/healthz` report `schema_drift`, and `USAGE.md:52` says that the worker stops writing on
  drift; the verdict of `bootstrap_and_validate` is logged at boot and returned by a save, and nothing else reads it.
- `USAGE.md` says that `POST /run` answers 409 while a run is active; `try_enqueue` refuses only a date
  that is waiting or running itself.

## 5. Proofs

`tlapm` proves every obligation of the eight modules `...Proofs`. The assumptions are
those of the modules: `CapDays`, `BatchSize` and the sizes of the thread pools are positive, caps lie between 1 and `CapDays`, dates are integers,
sentinels are outside the sets they mark, the set of events is finite and reports are sequences of them;
the blank field is no password; dates asked for are days before today, and the worker's flow and its
surviving browser are no request; separator and blank are two characters, and the JSON keys of `extra_data` in their
quotes are no characters of a text. Sets of dates, threads, requests, reports, characters, zones and keys are
arbitrary, queue and tables unbounded (`MaxRuns` is any natural number).

*Orchestrator.* The inductive invariant `ThreadInv` joins to `TypeOK` and
`SingleFlight` the fact that makes them inductive: every thread that is not dead
is the one `_worker` points to. Without it, a start by `EnsureWorker` could not
be shown to leave at most one live thread. `CatchupLeavesNoGapAlways` needs
that the query's set of ingested dates is a subset of the ingested ones (rows are
never removed). `QueueRefinement` shows that each action is an `Accept`, `Start`, `Finish` or
`Lose` of `DateQueue`, or leaves it unchanged: the length bound of `Accept` comes from the cap,
the absence of repetitions from the strictly ascending listing. `NoDateTwiceAlways`
is proved on the mapped queue. `OnlyLateCallsStrandAlways` bounds the lost wake-up of section 4: no interleaving other than the
one found there (and a shutdown) leaves dates behind, and `NextCallRevivesAlways` says what ends it.

*RunJob.* The invariant `IInv` is the conjunction of `TypeOK`,
`CommittedRowsHaveVerdict` and five facts about the transaction in progress:
the run at work is a row of the table; it is `running` as long as a commit
of it can still succeed; the rows of `work` that are not committed are its own;
the rows it has sent are in `work`; and its rows come from its report.
`CommittedRowsHaveVerdict` alone is not inductive, since a commit publishes `work` whose
contents it does not speak of. Given `Invariance`, `VerdictIsFinal`
follows from "running while a commit can succeed" (the case of the lost answer to
the ok commit), `OkMeansComplete` from "sent rows are in", `OkCountsExact`
from the growth of `audit` (`AuditOnlyGrowsAlways`).
`LedgerRefinement` needs more, `LedgerInv`: the run at work is the newest row (`NewestAtWork`), and its
transaction is the committed table plus exactly the new events of the prefix it has sent (`TransactionIsPrefix`;
`IInv` has that they are in, not that nothing else is). Then a commit is one `Succeed`, `FailIngest` or `Fail` of
`RunLedger`, `start_run`'s commit an `Open`, and every other step a stutter. The counts in the ledger are cardinalities of what a
run brought (`BroughtByNewest`, `OwnRowsAreBrought`).

*ConfigStore.* `AlwaysReadable` is not inductive: dropping the old keys could break it.
`RotatedNeedsHead` (after a rotation has finished under the head key, the row needs only that key)
makes it so; it survives saves because every save encrypts with the head. `LastSaveHolds` needs
to know what the writers hold: `RotationInStep`, `SaveInStep` and `SavedBefore`.
`OnlySavesOvertakeAlways` is the other side of section 4's third disagreement: a save is the only thing that can make a rotation stale.

*PageFlow.* `IInv` says of every flow and its directory what each stage may rely on. An
unspoilt flow has nothing in its directory and no browser writing to it from the wipe to the click
(`Fresh`); while it waits there is at most its own download (`OwnDownload`); once the file is found nothing writes
any more and the file is its own report (`Pending`, `DirectoryOwned`). A request's directory is fresh
at every start, so it is never spoilt (`RequestFresh`); the date inputs hold the date when Get Report is
clicked, and whatever answer is in the table, or was read from it, is that of the date (`DatesSet`); a session comes
from accepted credentials, and a flow past the login without any is `ambient` (`SessionEarned`). None of the
four properties is inductive by itself: `TakeFile` turns "no `.crdownload` here" into "whole and
mine", which holds only because of what `OwnDownload` knows of the earlier steps. `Frame` and `StepFrame`
carry the other flows through a step; then there is one lemma per action. `RequestsLeaveNothingAlways` follows
from `RequestFresh`.

*Ingest.* `PastInv` adds to `OnlyPastDays` that a catch-up's query lies in the past, that what it found
ingested is ingested, and that the operator's zone is no further east than `east` (`EastInv`): then a save of any
zone leaves the date of the easternmost zone where it is or moves it on (`SaveKeepsClocks`), since it changes what the operator's clock shows and
no zone's clock. `DaysAccountedFor` is the hard one: `AccountInv` says in addition that an undisturbed
trigger is for today or tomorrow (`TriggerNear`: midnight has overtaken no fire) and that while a boot is between its
query and its append, the days since the query are accounted for by the fire (`FireCovers`). `QueueRefinement` maps a
catch-up's append, a fire and a `POST /run` to `Accept` of `DateQueue`.

*LocalTime.* `RefusedExactlyInGap` and `LocalizeIsEarliest` define `_localize_to_utc` by what the zone's clocks show
and not by how it computes: a time is refused exactly if no instant has it, and else the first instant that has it
is taken. `EventKeepsItsInstant` is the round trip through BlueWeb's CSV.

*AuditTable.* `HashTells`: if two rows have one joined text and one of them has no separator in its fields, the
first separator of the two texts stands at the same place, so the first fields are equal, and so on to
the last, where the two JSON keys tell card number from facility code. `LinesTold` carries that back through
stripping to what the events say. The invariant `IInv` joins to `TypeOK` that every hash of an ok run is in the
table, and that a run that was refused was refusable; `EveryLineStored` speaks of contents, not hashes,
and follows with `LinesTold`. `OnlyNewLinesAdded` counts: the lines added are the first of each new hash (a least
element exists), distinct lines of them say distinct things, and with no separator about they say everything new.
`PreviewHolds` needs a second invariant, `DryTrue`: what a dry run skips is stored, and is all that is stored
for as long as the dry run is current; the table only grows, so a later run inserts among the other lines.
`RereadAddsNothingAlways` needs no `Plain` and no early key: the hashes of an ok run are in the table for good.

*Schema.* `VerdictTells` needs what a check under way has established: `Established` says of every stage which
tables exist and what the differences found so far mean. `OnlyRealDifferences` shows that no server's own
way of showing a type counts.

*Web.* What a thread has left to do is always bracketed (`Bracketed`): an `acquire` is followed at once by its
`release`. `Listed` says that only the holder of the lock is at a `release`, and `Idle` that a request has
something to do only where a handler runs. Together they give `LockIsBrief` for any number of requests and threads.

*What the liveness properties rest on.* Fairness and ENABLED are out of the prover's reach, so the liveness properties
themselves are TLC's. What they need of the program, for every value of the constants, is proved as action properties and
invariants: something gets smaller with every step of the thread that is scheduled, no step of another makes it
larger, and whoever is waited for can go on.

| Liveness (TLC) | Proved |
|---|---|
| `DrainsWhileLooping` | `WaitingAdvancesAlways`: the steps before an entry is taken (`Lag`) never grow, and fall with each step of the worker |
| `FlowsEnd` | `FlowsShortenAlways`: each flow step leaves fewer (`StepsLeft`, 15 at most), failures and clean-up included; nothing else adds any |
| `BootCatchesUp` | `FoundDaysAdvanceAlways`: a found day stays found, waiting or running until its run ends, and only moves up; a stranded one waits where it is |
| `LightRequestsAnswered` | `LightWaitsForMysqlOnlyAlways` and `RequestsShortenAlways` |
| `EveryRequestAnswered` | `NoCircularWaitAlways` and `RequestsShortenAlways` |

For the last two, `CanOperate` and `CanMove` write out the guards of the operations and of a request's moves (on the
instance of the run `web`, TLC finds the first to be exactly, the second to imply, that the action is enabled). The invariant
`Seated` adds to `IInv` that a light request has no query to make, that only `async` handlers are on the loop, and that
the pool holds no more than its size. What stays between these theorems and the liveness properties is the use of fairness.

*Model-checked only.* The liveness properties as such (`DrainsWhileLooping`, `BootCatchesUp`, `FlowsEnd`,
`LightRequestsAnswered`, `EveryRequestAnswered`), and the violations of section 4.

## 6. Not modelled

- `reap_stuck_runs` and `has_successful_scheduled_run` (`runs.py`) and `gc` (`screenshots.py`): called by tests only.
- The worker's self-audit and the clock-drift check that `BLUEWEB_AUDIT_INGEST_SPEC.md` describes have no code.
- Rendering of pages and answers, payload validation, logging and formatting; the password check and the token's
  signature (library calls; `Web` has their place and their refusal); the charset test of `probe_mysql`;
  the environment checks, the gate of `/docs` and the log filter of `web.py`; `hashpw`, `keygen`, deployment files.
- In the browser driver, the denylist of `SafeDriver` and its JavaScript fallbacks: a click works or raises.
- Memory, disk space and the size of texts: a column too short for a text is a failing statement.

Assumed of the world outside: what the results table of BlueWeb shows before the answer to Get Report is no row or DataTables'
row for no data, never rows of another range, and the CSV covers the range that the date inputs show, or nothing before the answer; a name that
Chromium reserves with an unfinished file has its `.crdownload` beside it (so the two checks of `_download_ready` are one step); a zone has
one change of offset in the span of a report; sha256 has no collision; MySQL compares hashes as texts, and its
transactions and unique keys do what they say.

Worth adding: the composition of `Orchestrator` with `PageFlow`'s runner and with `RunJob`.
