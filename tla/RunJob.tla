------------------------------- MODULE RunJob -------------------------------
(***************************************************************************)
(* One run of the pipeline (run_job in src/bluewave/orchestrator.py) over  *)
(* the two MySQL tables it writes: the runs table (runs.py) and the audit  *)
(* table (sink.py), with the unique keys of schema.py.                     *)
(*                                                                         *)
(* A run has one connection with autocommit off.  `audit' is what is       *)
(* committed; `work' is the audit table as the run's own transaction sees  *)
(* it, the same table whenever no transaction has written.  A step is one  *)
(* statement, or a commit with the statement before it: until the commit   *)
(* nobody else can see that statement.  Browser work (login, report, CSV)  *)
(* is one step with every outcome it has.                                  *)
(***************************************************************************)
EXTENDS Integers, Sequences, FiniteSets

CONSTANTS Dates,      \* report dates
          Events,     \* audit events, identified by their dedup_hash
          Reports,    \* the sequences of events a scraped CSV may parse to
          BatchSize,  \* DEFAULT_BATCH_SIZE
          MaxRuns,    \* bound on the AUTO_INCREMENT of the runs table
          Null        \* SQL NULL

ASSUME EventsAssumption == IsFiniteSet(Events) /\ Reports \subseteq Seq(Events)
ASSUME BatchAssumption == BatchSize \in Nat \ {0}
ASSUME RunsAssumption == MaxRuns \in Nat /\ Null \notin Int

VARIABLES
  runs,       \* the runs table: runs[id]
  audit,      \* committed audit table: event -> ingest_run_id, 0 when absent
  work,       \* the audit table inside the run's transaction
  scraped,    \* scraped[id]: the rows the CSV of that run parsed to
  conn,       \* the run's connection
  job,        \* where run_job stands
  struck      \* history: the runs that a crash, a lost connection or a failing
              \* handler hit before they had a verdict

dbVars == <<runs, audit>>
vars == <<runs, audit, work, scraped, conn, job, struck>>

\* The statuses a failed run may end with.  "run_failure" stands for the ones
\* the RunFailure subclasses carry (auth_failed, nav_failed, report_timeout,
\* download_failed, parse_failed): nothing below tells them apart.
FailureStatuses == {"run_failure", "ingest_failed"}

RunRow == [date : Dates, manual : BOOLEAN,
           status : {"running", "ok"} \cup FailureStatuses,
           rowsInCsv : Nat \cup {Null},
           rowsInserted : Nat \cup {Null},
           rowsDuplicate : Int \cup {Null}]

\* "except": in one of the two handlers of run_job, about to finalize with
\* `verdict'; "over": out of the with block, by return or by raise.
Stage == {"idle", "connect", "start", "browser", "insert", "except", "over"}

Job == [stage : Stage, date : Dates \cup {Null}, manual : BOOLEAN,
        run : Nat, sent : Nat, verdict : FailureStatuses]

NoJob == [stage |-> "idle", date |-> Null, manual |-> FALSE, run |-> 0,
          sent |-> 0, verdict |-> "ingest_failed"]

\* Nothing of the job matters once it is out of the with block's body.
JobOver == [NoJob EXCEPT !.stage = "over"]

TypeOK == /\ runs \in Seq(RunRow)
          /\ audit \in [Events -> Nat]
          /\ work \in [Events -> Nat]
          /\ scraped \in Seq(Seq(Events))
          /\ Len(scraped) = Len(runs)
          /\ conn \in {"closed", "open", "lost"}
          /\ job \in Job
          /\ struck \in SUBSET Nat

Init == /\ runs = <<>>
        /\ audit = [e \in Events |-> 0]
        /\ work = audit
        /\ scraped = <<>>
        /\ conn = "closed"
        /\ job = NoJob
        /\ struck = {}

Report == scraped[job.run]

\* The run at work, if it still has no verdict.
RunAtWork == {r \in {job.run} \ {0} : runs[r].status = "running"}

-----------------------------------------------------------------------------
(* run_job, up to the insert *)

\* The worker thread calls run_job for the date it took.
Begin(d, manual) ==
  /\ job.stage = "idle"
  /\ job' = [NoJob EXCEPT !.stage = "connect", !.date = d, !.manual = manual]
  /\ UNCHANGED <<dbVars, work, scraped, conn, struck>>

\* connect() raises, before any row exists.
ConnectFails ==
  /\ job.stage = "connect"
  /\ job' = JobOver
  /\ UNCHANGED <<dbVars, work, scraped, conn, struck>>

Connects ==
  /\ job.stage = "connect"
  /\ conn' = "open"
  /\ job' = [job EXCEPT !.stage = "start"]
  /\ UNCHANGED <<dbVars, work, scraped, struck>>

NewRow == [date |-> job.date, manual |-> job.manual, status |-> "running",
           rowsInCsv |-> Null, rowsInserted |-> Null, rowsDuplicate |-> Null]

\* Faulty variant: a row that a crash left running is taken over.
StartRunReuses ==
  /\ job.stage = "start"
  /\ conn = "open"
  /\ LET left == {r \in 1..Len(runs) : runs[r] = NewRow}
         id == IF left = {} THEN Len(runs) + 1 ELSE CHOOSE r \in left : TRUE
     IN  /\ id <= MaxRuns
         /\ runs' = IF left = {} THEN Append(runs, NewRow) ELSE runs
         /\ scraped' = IF left = {} THEN Append(scraped, <<>>) ELSE scraped
         /\ job' = [job EXCEPT !.stage = "browser", !.run = id]
  /\ UNCHANGED <<audit, work, conn, struck>>

\* start_run: the row is committed as running before any work.
StartRun ==
  /\ job.stage = "start"
  /\ conn = "open"
  /\ Len(runs) < MaxRuns
  /\ runs' = Append(runs, NewRow)
  /\ scraped' = Append(scraped, <<>>)
  /\ job' = [job EXCEPT !.stage = "browser", !.run = Len(runs) + 1]
  /\ UNCHANGED <<audit, work, conn, struck>>

\* start_run raises, outside the try block: the insert was refused or lost...
StartRunFails ==
  /\ job.stage = "start"
  /\ job' = JobOver
  /\ UNCHANGED <<dbVars, work, scraped, conn, struck>>

\* ... or it was committed and the connection broke before the answer.
StartRunUnacknowledged ==
  /\ job.stage = "start"
  /\ conn = "open"
  /\ Len(runs) < MaxRuns
  /\ runs' = Append(runs, NewRow)
  /\ scraped' = Append(scraped, <<>>)
  /\ struck' = struck \cup {Len(runs) + 1}
  /\ conn' = "lost"
  /\ job' = JobOver
  /\ UNCHANGED <<audit, work>>

\* Faulty variant: the failure leaves run_job with no verdict written.
ScrapeFailsUnrecorded(status) ==
  /\ job.stage = "browser"
  /\ job' = JobOver
  /\ UNCHANGED <<dbVars, work, scraped, conn, struck>>

\* A RunFailure of the browser or of transform, or any other exception there.
ScrapeFails(status) ==
  /\ job.stage = "browser"
  /\ job' = [job EXCEPT !.stage = "except", !.verdict = status]
  /\ UNCHANGED <<dbVars, work, scraped, conn, struck>>

\* The CSV is downloaded and parsed; "no rows" of BlueWeb is the empty report.
Scrape(report) ==
  /\ job.stage = "browser"
  /\ scraped' = [scraped EXCEPT ![job.run] = report]
  /\ job' = [job EXCEPT !.stage = "insert"]
  /\ UNCHANGED <<dbVars, work, conn, struck>>

-----------------------------------------------------------------------------
(* insert_rows and finalize_run *)

\* The positions of the next chunk of the report.
Chunk == {i \in 1..Len(Report) : job.sent < i /\ i <= job.sent + BatchSize}

\* INSERT ... ON DUPLICATE KEY UPDATE id = id: an event already there stays as
\* it is.
AfterBatch == [e \in Events |->
                 IF work[e] = 0 /\ \E i \in Chunk : Report[i] = e
                 THEN job.run ELSE work[e]]

\* Faulty variant: a chunk is skipped after each one sent.
SentSkips == job.sent + 2 * BatchSize

SentAfter == job.sent + BatchSize

\* Faulty variant: autocommit is on.
InsertBatchCommits ==
  /\ job.stage = "insert"
  /\ conn = "open"
  /\ job.sent < Len(Report)
  /\ work' = AfterBatch
  /\ audit' = AfterBatch
  /\ job' = [job EXCEPT !.sent = SentAfter]
  /\ UNCHANGED <<runs, scraped, conn, struck>>

InsertBatch ==
  /\ job.stage = "insert"
  /\ conn = "open"
  /\ job.sent < Len(Report)
  /\ work' = AfterBatch
  /\ job' = [job EXCEPT !.sent = SentAfter]
  /\ UNCHANGED <<dbVars, scraped, conn, struck>>

\* A statement of insert_rows or of finalize_run raises: refused by the server,
\* or a deadlock, which undoes the whole transaction, or the connection is gone.
StatementFails ==
  /\ job.stage = "insert"
  /\ work' \in {work, audit}
  /\ job' = [job EXCEPT !.stage = "except", !.verdict = "ingest_failed"]
  /\ UNCHANGED <<dbVars, scraped, conn, struck>>

\* uk_ok_scheduled_date: another scheduled run of this date is already ok.
ScheduledOkExists ==
  /\ ~job.manual
  /\ \E r \in 1..Len(runs) : /\ r # job.run
                             /\ runs[r].date = job.date
                             /\ runs[r].status = "ok"
                             /\ ~runs[r].manual

\* Faulty variant: duplicates are not subtracted from the inserted count.
OkRowAllInserted ==
  [runs[job.run] EXCEPT !.status = "ok", !.rowsInCsv = Len(Report),
                        !.rowsInserted = Len(Report), !.rowsDuplicate = 0]

\* Faulty variant: inserted is what the table did not hold, by its size.
OkRowBySize ==
  [runs[job.run] EXCEPT !.status = "ok", !.rowsInCsv = Len(Report),
     !.rowsInserted = Len(Report) - Cardinality({e \in Events : work[e] # 0}),
     !.rowsDuplicate = Cardinality({e \in Events : work[e] # 0})]

\* The counts are SELECT COUNT(*) of the run's own rows and what is left.
OkRow ==
  LET inserted == Cardinality({e \in Events : work[e] = job.run})
  IN  [runs[job.run] EXCEPT !.status = "ok",
                            !.rowsInCsv = Len(Report),
                            !.rowsInserted = inserted,
                            !.rowsDuplicate = Len(Report) - inserted]

AllSent == job.stage = "insert" /\ job.sent >= Len(Report)

\* finalize_run(status='ok') commits the rows and the verdict together.  If the
\* connection breaks before the answer, both are in and run_job sees an error.
FinalizeOk(answer) ==
  /\ AllSent
  /\ conn = "open"
  /\ ~ScheduledOkExists
  /\ runs' = [runs EXCEPT ![job.run] = OkRow]
  /\ audit' = work
  /\ conn' = answer
  /\ job' = IF answer = "open" THEN JobOver
            ELSE [job EXCEPT !.stage = "except", !.verdict = "ingest_failed"]
  /\ UNCHANGED <<work, scraped, struck>>

\* The unique key refuses the ok row; the inserted rows stay in the transaction.
FinalizeOkRefused ==
  /\ AllSent
  /\ conn = "open"
  /\ ScheduledOkExists
  /\ job' = [job EXCEPT !.stage = "except", !.verdict = "ingest_failed"]
  /\ UNCHANGED <<dbVars, work, scraped, conn, struck>>

FailedRow == [runs[job.run] EXCEPT !.status = job.verdict, !.rowsInCsv = Null,
                                   !.rowsInserted = Null, !.rowsDuplicate = Null]

\* Faulty variant: the handler believes a run whose ok was committed but not
\* acknowledged can still be failed, over a connection of its own.
HandlerReconnects(answer) ==
  /\ job.stage = "except"
  /\ runs' = [runs EXCEPT ![job.run] = FailedRow]
  /\ audit' = work
  /\ conn' = answer
  /\ job' = JobOver
  /\ UNCHANGED <<work, scraped, struck>>

\* finalize_run in a handler: same connection, same transaction, so its commit
\* takes along whatever insert_rows had put there.
HandlerFinalizes(answer) ==
  /\ job.stage = "except"
  /\ conn = "open"
  /\ runs' = [runs EXCEPT ![job.run] = FailedRow]
  /\ audit' = work
  /\ conn' = answer
  /\ job' = JobOver
  /\ UNCHANGED <<work, scraped, struck>>

\* finalize_run raises in the handler and nothing catches it.
HandlerFails ==
  /\ job.stage = "except"
  /\ job' = JobOver
  /\ struck' = struck \cup RunAtWork
  /\ UNCHANGED <<dbVars, work, scraped, conn>>

-----------------------------------------------------------------------------
(* The end of a run, and what can befall it *)

\* The with block closes the connection, which rolls back; run_job returns or
\* raises into the worker thread.
Return ==
  /\ job.stage = "over"
  /\ work' = audit
  /\ conn' = "closed"
  /\ job' = NoJob
  /\ UNCHANGED <<dbVars, scraped, struck>>

\* The server drops the session and rolls its transaction back.
ConnectionLost ==
  /\ conn = "open"
  /\ conn' = "lost"
  /\ work' = audit
  /\ struck' = struck \cup RunAtWork
  /\ UNCHANGED <<dbVars, scraped, job>>

\* The process dies.
Crash ==
  /\ work' = audit
  /\ conn' = "closed"
  /\ job' = NoJob
  /\ struck' = struck \cup RunAtWork
  /\ UNCHANGED <<dbVars, scraped>>

\* Every step of run_job itself.
JobStep ==
  \/ ConnectFails
  \/ Connects
  \/ StartRun
  \/ StartRunFails
  \/ StartRunUnacknowledged
  \/ \E status \in FailureStatuses : ScrapeFails(status)
  \/ \E report \in Reports : Scrape(report)
  \/ InsertBatch
  \/ StatementFails
  \/ \E answer \in {"open", "lost"} : FinalizeOk(answer)
  \/ FinalizeOkRefused
  \/ \E answer \in {"open", "lost"} : HandlerFinalizes(answer)
  \/ HandlerFails

Next ==
  \/ \E d \in Dates, manual \in BOOLEAN : Begin(d, manual)
  \/ JobStep
  \/ Return
  \/ ConnectionLost
  \/ Crash

Spec == Init /\ [][Next]_vars

-----------------------------------------------------------------------------
(* Properties *)

RunIds == 1..Len(runs)

\* A run is ok only with every event of its CSV in the audit table: the insert
\* and the verdict commit together, through crashes, lost connections and
\* commits whose answer is lost (insert_rows, finalize_run).
OkMeansComplete ==
  \A r \in RunIds : runs[r].status = "ok" =>
    \A i \in 1..Len(scraped[r]) : audit[scraped[r][i]] # 0

\* The counts an ok row shows stay those of the audit table for ever: no later
\* run takes rows over, and duplicates are never negative.
OkCountsExact ==
  \A r \in RunIds : runs[r].status = "ok" =>
    /\ runs[r].rowsInserted = Cardinality({e \in Events : audit[e] = r})
    /\ runs[r].rowsInserted + runs[r].rowsDuplicate = Len(scraped[r])
    /\ runs[r].rowsDuplicate >= 0

\* A committed event points at a run that has a verdict and whose CSV held it:
\* a crash or a lost connection leaves no row of an unfinished run.
CommittedRowsHaveVerdict ==
  \A e \in Events : audit[e] # 0 =>
    /\ audit[e] \in RunIds
    /\ runs[audit[e]].status \in {"ok", "ingest_failed"}
    /\ \E i \in 1..Len(scraped[audit[e]]) : scraped[audit[e]][i] = e

\* A row stays running only while run_job is at work on it, unless a crash, a
\* lost connection or a failing handler struck the run: no other path out of
\* run_job forgets the verdict.
RunningIsExplained ==
  \A r \in RunIds : runs[r].status = "running" =>
    \/ r \in struck
    \/ r = job.run /\ job.stage \in {"browser", "insert", "except"}

\* A verdict is final, whatever happens after it: in particular an ok run is
\* never turned into a failed one by the handlers that surround finalize_run.
VerdictIsFinal ==
  [][\A r \in RunIds : runs[r].status # "running" => runs'[r] = runs[r]]_vars

Ledger == INSTANCE RunLedger WITH runs <- runs, audit <- audit

\* The two tables alone keep the promise of RunLedger, whatever the connection,
\* the handlers and the crashes of run_job do between its commits.
RefinesRunLedger == Ledger!Spec

\* sink.py: the caller owns the transaction "so that a mid-insert crash leaves
\* zero rows for that run"; the specification: on rollback the run row is
\* updated outside the transaction.  So a failed run has no rows.
FailedRunLeavesNoRows ==
  \A r \in RunIds : runs[r].status \in FailureStatuses =>
    \A e \in Events : audit[e] # r
=============================================================================
