---------------------------- MODULE RunJobProofs ----------------------------
(***************************************************************************)
(* Proofs about RunJob, for every set of dates, events and reports, every  *)
(* batch size and any number of runs.                                      *)
(*                                                                         *)
(* The inductive invariant IInv says how the run's transaction relates to  *)
(* what is committed: only the run at work has uncommitted rows, it is     *)
(* still marked running whenever its connection can still commit, and the  *)
(* part of its report already sent is in the transaction.                  *)
(***************************************************************************)
EXTENDS RunJob, FiniteSetTheorems, SequenceTheorems, TLAPS

\* Row ids are handed out by start_run, and job.run is one of them while, and
\* only while, run_job is between start_run and its end.
RunAtWorkKnown ==
  /\ job.run \in 0..Len(runs)
  /\ job.run # 0 <=> job.stage \in {"browser", "insert", "except"}
  /\ job.run # 0 => /\ runs[job.run].date = job.date
                    /\ runs[job.run].manual = job.manual
  /\ job.stage \notin {"idle", "over"} => job.date \in Dates

\* A run that can still commit is marked running.
RunningWhileCommittable ==
  job.run # 0 /\ (conn = "open" \/ job.stage # "except")
    => runs[job.run].status = "running"

\* What the transaction adds are rows of the run at work, on a live connection;
\* a handler that would commit them is about to write ingest_failed.  Once out
\* of the with block's body nothing commits any more.
UncommittedRowsAreOwn ==
  \A e \in Events :
    /\ audit[e] # 0 => work[e] = audit[e]
    /\ work[e] # audit[e] /\ job.stage # "over" =>
         /\ work[e] = job.run
         /\ conn = "open"
         /\ job.stage \in {"insert", "except"}
         /\ job.stage = "except" => job.verdict = "ingest_failed"

\* What was sent is in the transaction, and nothing is before the insert.
SentRowsAreIn ==
  /\ job.stage = "insert" /\ conn = "open" =>
       \A i \in 1..Len(scraped[job.run]) :
         i <= job.sent => work[scraped[job.run][i]] # 0
  /\ job.stage \notin {"insert", "except"} => job.sent = 0

\* An audit row, committed or not, is of a known run, whose report holds it.
RowsComeFromReports ==
  \A e \in Events : work[e] # 0 =>
    /\ work[e] \in RunIds
    /\ \E i \in 1..Len(scraped[work[e]]) : scraped[work[e]][i] = e

IInv == /\ TypeOK
        /\ RunAtWorkKnown
        /\ RunningWhileCommittable
        /\ UncommittedRowsAreOwn
        /\ SentRowsAreIn
        /\ RowsComeFromReports
        /\ CommittedRowsHaveVerdict

-----------------------------------------------------------------------------
(* Lemmas about the data *)

LEMMA OwnRowsFinite == \A f, r : IsFiniteSet({e \in Events : f[e] = r})
                                 /\ Cardinality({e \in Events : f[e] = r}) \in Nat
<1>1. TAKE f, r
<1>2. {e \in Events : f[e] = r} \subseteq Events
  OBVIOUS
<1>3. IsFiniteSet({e \in Events : f[e] = r})
  BY <1>2, FS_Subset, EventsAssumption
<1>. QED  BY <1>3, FS_CardinalityType

LEMMA RowWithCounts ==
  ASSUME NEW row \in RunRow, NEW m \in Nat, NEW n \in Nat, NEW k \in Int
  PROVE  [row EXCEPT !.status = "ok", !.rowsInCsv = m,
                     !.rowsInserted = n, !.rowsDuplicate = k] \in RunRow
BY DEF RunRow

\* The row an ok verdict writes is a row of the table.
LEMMA OkRowType ==
  ASSUME TypeOK, job.run \in RunIds
  PROVE  OkRow \in RunRow
<1>. DEFINE n == Cardinality({e \in Events : work[e] = job.run})
<1>1. n \in Nat
  BY OwnRowsFinite
<1>2. Len(Report) \in Nat
  BY DEF TypeOK, RunIds, Report
<1>3. runs[job.run] \in RunRow
  BY DEF TypeOK, RunIds
<1>4. Len(Report) - n \in Int
  BY <1>1, <1>2
<1>. QED  BY <1>1, <1>2, <1>3, <1>4, RowWithCounts DEF OkRow

\* A batch changes no event that is there, and puts in those of its chunk.
LEMMA BatchFacts ==
  ASSUME TypeOK, job.run \in RunIds
  PROVE  /\ AfterBatch \in [Events -> Nat]
         /\ \A e \in Events : work[e] # 0 => AfterBatch[e] = work[e]
         /\ \A e \in Events : AfterBatch[e] # work[e] => AfterBatch[e] = job.run
         /\ \A i \in Chunk : AfterBatch[Report[i]] # 0
         /\ \A e \in Events : AfterBatch[e] = work[e] \/ \E i \in 1..Len(Report) : Report[i] = e
<1>1. job.run \in Nat /\ job.run # 0
  BY DEF RunIds
<1>2. Report \in Seq(Events)
  BY DEF TypeOK, RunIds, Report
<1>3. Chunk \subseteq 1..Len(Report)
  BY DEF Chunk
<1>4. \A i \in Chunk : Report[i] \in Events
  BY <1>2, <1>3
<1>. QED  BY <1>1, <1>3, <1>4 DEF AfterBatch, TypeOK

-----------------------------------------------------------------------------
(* Type correctness *)

LEMMA TypeInit == Init => TypeOK
BY DEF Init, TypeOK, NoJob, Job, Stage, FailureStatuses

LEMMA AppendedTables ==
  ASSUME TypeOK, NewRow \in RunRow
  PROVE  /\ Append(runs, NewRow) \in Seq(RunRow)
         /\ Append(scraped, <<>>) \in Seq(Seq(Events))
         /\ Len(Append(scraped, <<>>)) = Len(Append(runs, NewRow))
<1>1. <<>> \in Seq(Events)
  OBVIOUS
<1>2. /\ Append(runs, NewRow) \in Seq(RunRow)
      /\ Len(Append(runs, NewRow)) = Len(runs) + 1
  BY AppendProperties DEF TypeOK
<1>3. /\ Append(scraped, <<>>) \in Seq(Seq(Events))
      /\ Len(Append(scraped, <<>>)) = Len(scraped) + 1
  BY <1>1, AppendProperties DEF TypeOK
<1>. QED  BY <1>2, <1>3 DEF TypeOK

LEMMA JobOverType == JobOver \in Job /\ NoJob \in Job
BY DEF JobOver, NoJob, Job, Stage, FailureStatuses

LEMMA TypeStep == TypeOK /\ RunAtWorkKnown /\ [Next]_vars => TypeOK'
<1>. SUFFICES ASSUME TypeOK, RunAtWorkKnown, [Next]_vars
              PROVE  TypeOK'
  OBVIOUS
<1>. USE JobOverType DEF TypeOK
<1>0. job.run \in Nat /\ (job.run # 0 => job.run \in RunIds)
  BY DEF RunAtWorkKnown, RunIds, Job
<1>1. ASSUME NEW d \in Dates, NEW manual \in BOOLEAN, Begin(d, manual)
      PROVE  TypeOK'
  BY <1>1 DEF Begin, dbVars, Job, Stage
<1>2. CASE ConnectFails
  BY <1>2 DEF ConnectFails, dbVars
<1>3. CASE Connects
  BY <1>3 DEF Connects, dbVars, Job, Stage
<1>4. CASE StartRun
  <2>1. job.date \in Dates
    BY <1>4 DEF StartRun, RunAtWorkKnown
  <2>2. NewRow \in RunRow
    BY <2>1 DEF Job, NewRow, RunRow
  <2>3. job' \in Job
    <3>1. Len(runs) + 1 \in Nat
      OBVIOUS
    <3>. QED  BY <1>4, <3>1 DEF StartRun, Job, Stage
  <2>. QED  BY <1>4, <2>2, <2>3, AppendedTables DEF StartRun
<1>5. CASE StartRunFails
  BY <1>5 DEF StartRunFails, dbVars
<1>6. CASE StartRunUnacknowledged
  <2>1. job.date \in Dates
    BY <1>6 DEF StartRunUnacknowledged, RunAtWorkKnown
  <2>2. NewRow \in RunRow
    BY <2>1 DEF Job, NewRow, RunRow
  <2>3. Len(runs) + 1 \in Nat
    OBVIOUS
  <2>4. struck' \subseteq Nat
    BY <1>6, <2>3 DEF StartRunUnacknowledged
  <2>. QED  BY <1>6, <2>2, <2>4, AppendedTables DEF StartRunUnacknowledged
<1>7. ASSUME NEW status \in FailureStatuses, ScrapeFails(status)
      PROVE  TypeOK'
  BY <1>7 DEF ScrapeFails, dbVars, Job, Stage
<1>8. ASSUME NEW report \in Reports, Scrape(report)
      PROVE  TypeOK'
  <2>1. report \in Seq(Events)
    BY EventsAssumption
  <2>2. job' \in Job
    BY <1>8 DEF Scrape, Job, Stage
  <2>3. job.run \in 1..Len(scraped)
    BY <1>0, <1>8 DEF Scrape, RunAtWorkKnown, RunIds
  <2>4. /\ [scraped EXCEPT ![job.run] = report] \in Seq(Seq(Events))
        /\ Len([scraped EXCEPT ![job.run] = report]) = Len(scraped)
    BY <2>1, <2>3, ExceptSeq
  <2>. QED  BY <1>8, <2>2, <2>4 DEF Scrape, dbVars
<1>9. CASE InsertBatch
  <2>1. job.run \in RunIds
    BY <1>0, <1>9 DEF InsertBatch, RunAtWorkKnown
  <2>2. job' \in Job
    <3>1. job.sent + BatchSize \in Nat
      BY BatchAssumption DEF Job
    <3>. QED  BY <1>9, <3>1 DEF InsertBatch, SentAfter, Job
  <2>. QED  BY <1>9, <2>1, <2>2, BatchFacts DEF InsertBatch, dbVars
<1>10. CASE StatementFails
  <2>1. job' \in Job
    BY <1>10 DEF StatementFails, Job, Stage, FailureStatuses
  <2>. QED  BY <1>10, <2>1 DEF StatementFails, dbVars
<1>11. ASSUME NEW answer \in {"open", "lost"}, FinalizeOk(answer)
       PROVE  TypeOK'
  <2>1. job.run \in RunIds
    BY <1>0, <1>11 DEF FinalizeOk, AllSent, RunAtWorkKnown
  <2>2. OkRow \in RunRow
    BY <2>1, OkRowType
  <2>3. job' \in Job
    BY <1>11 DEF FinalizeOk, Job, Stage, FailureStatuses
  <2>4. /\ [runs EXCEPT ![job.run] = OkRow] \in Seq(RunRow)
        /\ Len([runs EXCEPT ![job.run] = OkRow]) = Len(runs)
    BY <2>1, <2>2, ExceptSeq DEF RunIds
  <2>. QED  BY <1>11, <2>3, <2>4 DEF FinalizeOk
<1>12. CASE FinalizeOkRefused
  <2>1. job' \in Job
    BY <1>12 DEF FinalizeOkRefused, Job, Stage, FailureStatuses
  <2>. QED  BY <1>12, <2>1 DEF FinalizeOkRefused, dbVars
<1>13. ASSUME NEW answer \in {"open", "lost"}, HandlerFinalizes(answer)
       PROVE  TypeOK'
  <2>1. job.run \in RunIds
    BY <1>0, <1>13 DEF HandlerFinalizes, RunAtWorkKnown
  <2>2. runs[job.run] \in RunRow /\ job.verdict \in FailureStatuses
    BY <2>1 DEF RunIds, Job
  <2>3. FailedRow \in RunRow
    BY <2>2 DEF FailedRow, RunRow
  <2>4. /\ [runs EXCEPT ![job.run] = FailedRow] \in Seq(RunRow)
        /\ Len([runs EXCEPT ![job.run] = FailedRow]) = Len(runs)
    BY <2>1, <2>3, ExceptSeq DEF RunIds
  <2>. QED  BY <1>13, <2>4 DEF HandlerFinalizes
<1>14. RunAtWork \subseteq Nat
  BY <1>0 DEF RunAtWork
<1>15. CASE HandlerFails
  BY <1>14, <1>15 DEF HandlerFails, dbVars
<1>16. CASE Return
  BY <1>16 DEF Return, dbVars
<1>17. CASE ConnectionLost
  BY <1>14, <1>17 DEF ConnectionLost, dbVars
<1>18. CASE Crash
  BY <1>14, <1>18 DEF Crash, dbVars
<1>19. CASE UNCHANGED vars
  BY <1>19 DEF vars, dbVars
<1>. QED
  BY <1>1, <1>2, <1>3, <1>4, <1>5, <1>6, <1>7, <1>8, <1>9, <1>10, <1>11, <1>12,
     <1>13, <1>15, <1>16, <1>17, <1>18, <1>19 DEF Next, JobStep

-----------------------------------------------------------------------------
(* Where run_job stands *)

\* What a step does to the tables, as the proofs below split it.
KeepsTables == /\ UNCHANGED <<runs, audit, scraped>>
               /\ \/ work' = work
                  \/ work' = audit
                  \/ InsertBatch

AddsRun == /\ job.stage = "start"
           /\ runs' = Append(runs, NewRow)
           /\ scraped' = Append(scraped, <<>>)
           /\ UNCHANGED <<audit, work>>

LEMMA StepKinds ==
  ASSUME [Next]_vars
  PROVE  \/ KeepsTables
         \/ AddsRun
         \/ \E report \in Reports : Scrape(report)
         \/ \E answer \in {"open", "lost"} : FinalizeOk(answer)
         \/ \E answer \in {"open", "lost"} : HandlerFinalizes(answer)
<1>1. CASE \/ StartRun
          \/ StartRunUnacknowledged
  BY <1>1 DEF StartRun, StartRunUnacknowledged, AddsRun
<1>2. CASE \/ \E d \in Dates, manual \in BOOLEAN : Begin(d, manual)
          \/ ConnectFails
          \/ Connects
          \/ StartRunFails
          \/ \E status \in FailureStatuses : ScrapeFails(status)
  BY <1>2 DEF Begin, ConnectFails, Connects, StartRunFails, ScrapeFails, dbVars, KeepsTables
<1>3. CASE \/ InsertBatch
          \/ StatementFails
          \/ FinalizeOkRefused
          \/ HandlerFails
          \/ Return
          \/ ConnectionLost
          \/ Crash
  BY <1>3 DEF InsertBatch, StatementFails, FinalizeOkRefused, HandlerFails, Return,
     ConnectionLost, Crash, dbVars, KeepsTables
<1>4. CASE UNCHANGED vars
  BY <1>4 DEF vars, dbVars, KeepsTables
<1>. QED  BY <1>1, <1>2, <1>3, <1>4 DEF Next, JobStep

LEMMA KnownStep ==
  ASSUME TypeOK, RunAtWorkKnown, [Next]_vars
  PROVE  RunAtWorkKnown'
<1>0. /\ runs \in Seq(RunRow) /\ job \in Job /\ Len(runs) \in Nat
      /\ JobOver.run = 0 /\ JobOver.stage = "over"
      /\ NoJob.run = 0 /\ NoJob.stage = "idle"
  BY DEF TypeOK, JobOver, NoJob
<1>. USE <1>0 DEF RunAtWorkKnown, dbVars
<1>1. ASSUME NEW d \in Dates, NEW manual \in BOOLEAN, Begin(d, manual)
      PROVE  RunAtWorkKnown'
  BY <1>1 DEF Begin, NoJob
<1>7. CASE ConnectFails
  BY <1>7 DEF ConnectFails
<1>8. CASE Connects
  BY <1>8 DEF Connects, Job
<1>9. CASE StartRunFails
  BY <1>9 DEF StartRunFails
<1>10. CASE HandlerFails
  BY <1>10 DEF HandlerFails
<1>11. CASE Return
  BY <1>11 DEF Return
<1>12. CASE ConnectionLost
  BY <1>12 DEF ConnectionLost
<1>13. CASE Crash
  BY <1>13 DEF Crash
<1>14. CASE UNCHANGED vars
  BY <1>14 DEF vars
<1>2. CASE StartRun
  <2>1. /\ Len(runs') = Len(runs) + 1
        /\ runs'[Len(runs) + 1] = NewRow
    BY <1>0, <1>2 DEF StartRun
  <2>2. /\ job'.run = Len(runs) + 1 /\ job'.stage = "browser"
        /\ job'.date = job.date /\ job'.manual = job.manual
        /\ job.date \in Dates
    BY <1>0, <1>2 DEF StartRun, Job, RunAtWorkKnown
  <2>. QED  BY <1>0, <2>1, <2>2 DEF RunAtWorkKnown, NewRow
<1>3. CASE StartRunUnacknowledged
  <2>1. Len(runs') = Len(runs) + 1
    BY <1>0, <1>3 DEF StartRunUnacknowledged
  <2>. QED  BY <1>0, <1>3, <2>1 DEF StartRunUnacknowledged, RunAtWorkKnown
<1>4. CASE InsertBatch
  BY <1>4 DEF InsertBatch, Job
<1>16. ASSUME NEW status \in FailureStatuses, ScrapeFails(status)
       PROVE  RunAtWorkKnown'
  BY <1>16 DEF ScrapeFails, Job
<1>17. ASSUME NEW report \in Reports, Scrape(report)
       PROVE  RunAtWorkKnown'
  BY <1>17 DEF Scrape, Job
<1>18. CASE StatementFails
  BY <1>18 DEF StatementFails, Job
<1>19. CASE FinalizeOkRefused
  BY <1>19 DEF FinalizeOkRefused, AllSent, Job
<1>5. ASSUME NEW answer \in {"open", "lost"}, FinalizeOk(answer)
      PROVE  RunAtWorkKnown'
  <2>1. job.run \in 1..Len(runs) /\ job.stage = "insert"
    BY <1>0, <1>5 DEF FinalizeOk, AllSent, RunAtWorkKnown, Job
  <2>2. /\ Len(runs') = Len(runs)
        /\ runs'[job.run] = OkRow
    BY <1>0, <1>5, <2>1 DEF FinalizeOk
  <2>3. runs[job.run] \in RunRow
    BY <1>0, <2>1
  <2>4. OkRow.date = runs[job.run].date /\ OkRow.manual = runs[job.run].manual
    BY <2>3 DEF OkRow, RunRow
  <2>. QED  BY <1>0, <1>5, <2>1, <2>2, <2>4 DEF FinalizeOk, RunAtWorkKnown, Job
<1>6. ASSUME NEW answer \in {"open", "lost"}, HandlerFinalizes(answer)
      PROVE  RunAtWorkKnown'
  <2>1. Len(runs') = Len(runs) /\ job' = JobOver
    BY <1>0, <1>6 DEF HandlerFinalizes
  <2>. QED  BY <1>0, <2>1 DEF RunAtWorkKnown
<1>15. CASE JobStep
  BY <1>2, <1>3, <1>4, <1>5, <1>6, <1>7, <1>8, <1>9, <1>10, <1>15, <1>16, <1>17, <1>18,
     <1>19 DEF JobStep
<1>. QED  BY <1>1, <1>11, <1>12, <1>13, <1>14, <1>15 DEF Next

LEMMA RunningStep ==
  ASSUME TypeOK, RunAtWorkKnown, RunningWhileCommittable, [Next]_vars
  PROVE  RunningWhileCommittable'
<1>0. /\ runs \in Seq(RunRow) /\ job \in Job /\ Len(runs) \in Nat
      /\ JobOver.run = 0 /\ NoJob.run = 0
  BY DEF TypeOK, JobOver, NoJob
<1>. USE <1>0 DEF RunningWhileCommittable, dbVars
<1>1. ASSUME NEW d \in Dates, NEW manual \in BOOLEAN, Begin(d, manual)
      PROVE  RunningWhileCommittable'
  BY <1>1 DEF Begin, NoJob
<1>2. CASE ConnectFails
  BY <1>2 DEF ConnectFails
<1>3. CASE Connects
  BY <1>3 DEF Connects, Job, RunAtWorkKnown
<1>4. CASE StartRun
  BY <1>4 DEF StartRun, NewRow, Job
<1>5. CASE StartRunFails
  BY <1>5 DEF StartRunFails
<1>6. CASE StartRunUnacknowledged
  BY <1>6 DEF StartRunUnacknowledged
<1>7. ASSUME NEW status \in FailureStatuses, ScrapeFails(status)
      PROVE  RunningWhileCommittable'
  BY <1>7 DEF ScrapeFails, Job
<1>8. ASSUME NEW report \in Reports, Scrape(report)
      PROVE  RunningWhileCommittable'
  BY <1>8 DEF Scrape, Job
<1>9. CASE InsertBatch
  BY <1>9 DEF InsertBatch, Job
<1>10. CASE StatementFails
  BY <1>10 DEF StatementFails, Job
<1>11. ASSUME NEW answer \in {"open", "lost"}, FinalizeOk(answer)
       PROVE  RunningWhileCommittable'
  BY <1>11 DEF FinalizeOk, Job
<1>12. CASE FinalizeOkRefused
  BY <1>12 DEF FinalizeOkRefused, AllSent, Job
<1>13. ASSUME NEW answer \in {"open", "lost"}, HandlerFinalizes(answer)
       PROVE  RunningWhileCommittable'
  BY <1>13 DEF HandlerFinalizes
<1>14. CASE HandlerFails
  BY <1>14 DEF HandlerFails
<1>15. CASE Return
  BY <1>15 DEF Return
<1>16. CASE ConnectionLost
  BY <1>16 DEF ConnectionLost
<1>17. CASE Crash
  BY <1>17 DEF Crash
<1>18. CASE UNCHANGED vars
  BY <1>18 DEF vars
<1>. QED
  BY <1>1, <1>2, <1>3, <1>4, <1>5, <1>6, <1>7, <1>8, <1>9, <1>10, <1>11, <1>12, <1>13,
     <1>14, <1>15, <1>16, <1>17, <1>18 DEF Next, JobStep

-----------------------------------------------------------------------------
(* The transaction and the tables *)

LEMMA UncommittedStep ==
  ASSUME TypeOK, RunAtWorkKnown, UncommittedRowsAreOwn, [Next]_vars
  PROVE  UncommittedRowsAreOwn'
<1>0. /\ job \in Job
      /\ audit \in [Events -> Nat] /\ work \in [Events -> Nat]
      /\ job.run \in Nat
  BY DEF TypeOK, Job
<1>. USE <1>0 DEF UncommittedRowsAreOwn, dbVars
<1>1. ASSUME NEW d \in Dates, NEW manual \in BOOLEAN, Begin(d, manual)
      PROVE  UncommittedRowsAreOwn'
  BY <1>1 DEF Begin
<1>2. CASE ConnectFails
  BY <1>2 DEF ConnectFails
<1>3. CASE Connects
  BY <1>3 DEF Connects
<1>4. CASE StartRun
  BY <1>4 DEF StartRun
<1>5. CASE StartRunFails
  BY <1>5 DEF StartRunFails
<1>6. CASE StartRunUnacknowledged
  BY <1>6 DEF StartRunUnacknowledged
<1>7. ASSUME NEW status \in FailureStatuses, ScrapeFails(status)
      PROVE  UncommittedRowsAreOwn'
  BY <1>7 DEF ScrapeFails
<1>8. ASSUME NEW report \in Reports, Scrape(report)
      PROVE  UncommittedRowsAreOwn'
  BY <1>8 DEF Scrape
<1>9. CASE InsertBatch
  <2>1. job.run \in RunIds /\ job.run # 0
    BY <1>9 DEF InsertBatch, RunAtWorkKnown, RunIds
  <2>2. /\ job'.run = job.run /\ job'.stage = "insert"
        /\ conn' = "open" /\ audit' = audit /\ work' = AfterBatch
        /\ job.stage = "insert"
    BY <1>9 DEF InsertBatch, Job
  <2>. QED  BY <2>1, <2>2, BatchFacts
<1>10. CASE StatementFails
  BY <1>10 DEF StatementFails, Job
<1>11. ASSUME NEW answer \in {"open", "lost"}, FinalizeOk(answer)
       PROVE  UncommittedRowsAreOwn'
  BY <1>11 DEF FinalizeOk
<1>12. CASE FinalizeOkRefused
  BY <1>12 DEF FinalizeOkRefused, AllSent, Job
<1>13. ASSUME NEW answer \in {"open", "lost"}, HandlerFinalizes(answer)
       PROVE  UncommittedRowsAreOwn'
  BY <1>13 DEF HandlerFinalizes
<1>14. CASE HandlerFails
  BY <1>14 DEF HandlerFails, JobOver
<1>15. CASE Return
  BY <1>15 DEF Return
<1>16. CASE ConnectionLost
  BY <1>16 DEF ConnectionLost
<1>17. CASE Crash
  BY <1>17 DEF Crash
<1>18. CASE UNCHANGED vars
  BY <1>18 DEF vars
<1>. QED
  BY <1>1, <1>2, <1>3, <1>4, <1>5, <1>6, <1>7, <1>8, <1>9, <1>10, <1>11, <1>12, <1>13,
     <1>14, <1>15, <1>16, <1>17, <1>18 DEF Next, JobStep

LEMMA SentStep ==
  ASSUME TypeOK, RunAtWorkKnown, SentRowsAreIn, [Next]_vars
  PROVE  SentRowsAreIn'
<1>0. /\ job \in Job
      /\ JobOver.stage = "over" /\ JobOver.sent = 0
      /\ NoJob.stage = "idle" /\ NoJob.sent = 0
  BY DEF TypeOK, JobOver, NoJob
<1>. USE <1>0 DEF SentRowsAreIn, dbVars
<1>1. ASSUME NEW d \in Dates, NEW manual \in BOOLEAN, Begin(d, manual)
      PROVE  SentRowsAreIn'
  BY <1>1 DEF Begin, NoJob
<1>2. CASE ConnectFails
  BY <1>2 DEF ConnectFails
<1>3. CASE Connects
  BY <1>3 DEF Connects, Job
<1>4. CASE StartRun
  BY <1>4 DEF StartRun, Job
<1>5. CASE StartRunFails
  BY <1>5 DEF StartRunFails
<1>6. CASE StartRunUnacknowledged
  BY <1>6 DEF StartRunUnacknowledged
<1>7. ASSUME NEW status \in FailureStatuses, ScrapeFails(status)
      PROVE  SentRowsAreIn'
  BY <1>7 DEF ScrapeFails, Job
<1>8. ASSUME NEW report \in Reports, Scrape(report)
      PROVE  SentRowsAreIn'
  <2>1. job'.stage = "insert" /\ job'.run = job.run /\ job'.sent = 0
    BY <1>8 DEF Scrape, Job
  <2>2. job.run \in 1..Len(scraped)
    BY <1>8 DEF Scrape, TypeOK, RunAtWorkKnown
  <2>3. scraped'[job.run] = report /\ report \in Seq(Events)
    BY <1>8, <2>2, EventsAssumption DEF Scrape, TypeOK
  <2>4. \A i \in 1..Len(report) : ~(i <= 0)
    BY <2>3
  <2>. QED  BY <2>1, <2>3, <2>4
<1>9. CASE InsertBatch
  <2>1. job.run \in RunIds /\ job.run \in Nat /\ job.stage = "insert" /\ conn = "open"
    BY <1>9 DEF InsertBatch, RunAtWorkKnown, RunIds
  <2>2. /\ scraped' = scraped /\ job'.run = job.run /\ work' = AfterBatch
        /\ job'.sent = job.sent + BatchSize /\ job'.stage = "insert"
    BY <1>9 DEF InsertBatch, SentAfter, Job
  <2>3. Report \in Seq(Events)
    BY <2>1 DEF TypeOK, RunIds, Report
  <2>4. ASSUME NEW i \in 1..Len(Report), i <= job.sent + BatchSize
        PROVE  AfterBatch[Report[i]] # 0
    <3>1. CASE i <= job.sent
      <4>1. work[Report[i]] # 0 /\ Report[i] \in Events
        BY <2>1, <2>3, <3>1 DEF Report
      <4>. QED  BY <2>1, <4>1, BatchFacts
    <3>2. CASE job.sent < i
      <4>1. i \in Chunk
        BY <2>4, <3>2 DEF Chunk
      <4>. QED  BY <2>1, <4>1, BatchFacts
    <3>. QED  BY <3>1, <3>2 DEF Job
  <2>. QED  BY <2>2, <2>4 DEF Report
<1>10. CASE StatementFails
  BY <1>10 DEF StatementFails, Job
<1>11. ASSUME NEW answer \in {"open", "lost"}, FinalizeOk(answer)
      PROVE  SentRowsAreIn'
  BY <1>11 DEF FinalizeOk, Job
<1>12. CASE FinalizeOkRefused
  BY <1>12 DEF FinalizeOkRefused, AllSent, Job
<1>13. ASSUME NEW answer \in {"open", "lost"}, HandlerFinalizes(answer)
      PROVE  SentRowsAreIn'
  BY <1>13 DEF HandlerFinalizes
<1>14. CASE HandlerFails
  BY <1>14 DEF HandlerFails
<1>15. CASE Return
  BY <1>15 DEF Return
<1>16. CASE ConnectionLost
  BY <1>16 DEF ConnectionLost
<1>17. CASE Crash
  BY <1>17 DEF Crash
<1>18. CASE UNCHANGED vars
  BY <1>18 DEF vars
<1>. QED
  BY <1>1, <1>2, <1>3, <1>4, <1>5, <1>6, <1>7, <1>8, <1>9, <1>10, <1>11, <1>12, <1>13,
     <1>14, <1>15, <1>16, <1>17, <1>18 DEF Next, JobStep

LEMMA RowsStep ==
  ASSUME IInv, [Next]_vars
  PROVE  RowsComeFromReports'
<1>0. /\ runs \in Seq(RunRow) /\ scraped \in Seq(Seq(Events)) /\ Len(scraped) = Len(runs)
      /\ audit \in [Events -> Nat] /\ work \in [Events -> Nat]
      /\ Len(runs) \in Nat
  BY DEF IInv, TypeOK
<1>1. \A e \in Events : audit[e] # 0 => work[e] = audit[e]
  BY DEF IInv, UncommittedRowsAreOwn
<1>2. CASE KeepsTables
  <2>1. CASE work' = work \/ work' = audit
    BY <1>1, <1>2, <2>1 DEF KeepsTables, IInv, RowsComeFromReports, RunIds
  <2>2. CASE InsertBatch
    <3>1. job.run \in RunIds /\ work' = AfterBatch
      BY <2>2 DEF InsertBatch, IInv, RunAtWorkKnown, RunIds
    <3>2. TypeOK
      BY DEF IInv
    <3>3. ASSUME NEW e \in Events, AfterBatch[e] # 0
          PROVE  /\ AfterBatch[e] \in RunIds
                 /\ \E i \in 1..Len(scraped[AfterBatch[e]]) : scraped[AfterBatch[e]][i] = e
      <4>1. CASE AfterBatch[e] = work[e]
        BY <3>3, <4>1 DEF IInv, RowsComeFromReports
      <4>2. CASE AfterBatch[e] # work[e]
        <5>1. AfterBatch[e] = job.run /\ \E i \in 1..Len(Report) : Report[i] = e
          BY <3>1, <3>2, <4>2, BatchFacts
        <5>. QED  BY <3>1, <5>1 DEF Report
      <4>. QED  BY <4>1, <4>2
    <3>. QED  BY <1>2, <3>1, <3>3 DEF KeepsTables, RowsComeFromReports, RunIds
  <2>. QED  BY <1>2, <2>1, <2>2 DEF KeepsTables
<1>3. CASE AddsRun
  <2>1. /\ Len(runs') = Len(runs) + 1
        /\ \A r \in 1..Len(runs) : scraped'[r] = scraped[r]
    BY <1>0, <1>3 DEF AddsRun
  <2>2. ASSUME NEW e \in Events, work[e] # 0
        PROVE  /\ work[e] \in 1..Len(runs')
               /\ \E i \in 1..Len(scraped'[work[e]]) : scraped'[work[e]][i] = e
    <3>1. /\ work[e] \in 1..Len(runs)
          /\ \E i \in 1..Len(scraped[work[e]]) : scraped[work[e]][i] = e
      BY <2>2 DEF IInv, RowsComeFromReports, RunIds
    <3>2. scraped'[work[e]] = scraped[work[e]]
      BY <2>1, <3>1
    <3>3. Len(runs) \in Nat /\ Len(runs') = Len(runs) + 1
      BY <1>0, <2>1
    <3>4. work[e] \in 1..Len(runs')
      BY <3>1, <3>3
    <3>. QED  BY <3>1, <3>2, <3>4
  <2>. QED  BY <1>3, <2>2 DEF AddsRun, RowsComeFromReports, RunIds
<1>4. ASSUME NEW report \in Reports, Scrape(report)
      PROVE  RowsComeFromReports'
  <2>1. /\ job.stage = "browser" /\ job.run \in RunIds
        /\ runs[job.run].status = "running"
    BY <1>4 DEF Scrape, IInv, RunAtWorkKnown, RunningWhileCommittable, RunIds
  <2>2. \A e \in Events : work[e] # 0 => work[e] # job.run
    <3>1. \A e \in Events : work[e] = audit[e]
      BY <2>1 DEF IInv, UncommittedRowsAreOwn
    <3>. QED  BY <2>1, <3>1 DEF IInv, CommittedRowsHaveVerdict
  <2>3. /\ work' = work /\ runs' = runs
        /\ \A r \in 1..Len(scraped) : r # job.run => scraped'[r] = scraped[r]
    BY <1>0, <1>4 DEF Scrape, dbVars
  <2>4. ASSUME NEW e \in Events, work[e] # 0
        PROVE  /\ work[e] \in 1..Len(runs)
               /\ \E i \in 1..Len(scraped'[work[e]]) : scraped'[work[e]][i] = e
    <3>1. /\ work[e] \in 1..Len(runs)
          /\ \E i \in 1..Len(scraped[work[e]]) : scraped[work[e]][i] = e
      BY <2>4 DEF IInv, RowsComeFromReports, RunIds
    <3>2. work[e] \in 1..Len(scraped) /\ work[e] # job.run
      BY <1>0, <2>2, <2>4, <3>1
    <3>3. scraped'[work[e]] = scraped[work[e]]
      BY <2>3, <3>2
    <3>. QED  BY <3>1, <3>3
  <2>. QED  BY <2>3, <2>4 DEF RowsComeFromReports, RunIds
<1>5. ASSUME NEW answer \in {"open", "lost"}, FinalizeOk(answer)
      PROVE  RowsComeFromReports'
  <2>1. Len(runs') = Len(runs) /\ scraped' = scraped /\ work' = work
    BY <1>0, <1>5 DEF FinalizeOk
  <2>. QED  BY <2>1 DEF IInv, RowsComeFromReports, RunIds
<1>6. ASSUME NEW answer \in {"open", "lost"}, HandlerFinalizes(answer)
      PROVE  RowsComeFromReports'
  <2>1. Len(runs') = Len(runs) /\ scraped' = scraped /\ work' = work
    BY <1>0, <1>6 DEF HandlerFinalizes
  <2>. QED  BY <2>1 DEF IInv, RowsComeFromReports, RunIds
<1>. QED  BY <1>2, <1>3, <1>4, <1>5, <1>6, StepKinds

LEMMA VerdictStep ==
  ASSUME IInv, [Next]_vars
  PROVE  CommittedRowsHaveVerdict'
<1>0. /\ runs \in Seq(RunRow) /\ scraped \in Seq(Seq(Events)) /\ Len(scraped) = Len(runs)
      /\ audit \in [Events -> Nat] /\ work \in [Events -> Nat]
      /\ Len(runs) \in Nat
      /\ job \in Job
  BY DEF IInv, TypeOK
<1>1. CASE KeepsTables
  BY <1>1 DEF KeepsTables, IInv, CommittedRowsHaveVerdict, RunIds
<1>2. CASE AddsRun
  <2>1. /\ Len(runs') = Len(runs) + 1
        /\ \A r \in 1..Len(runs) : scraped'[r] = scraped[r] /\ runs'[r] = runs[r]
    BY <1>0, <1>2 DEF AddsRun
  <2>2. ASSUME NEW e \in Events, audit[e] # 0
        PROVE  /\ audit[e] \in 1..Len(runs')
               /\ runs'[audit[e]].status \in {"ok", "ingest_failed"}
               /\ \E i \in 1..Len(scraped'[audit[e]]) : scraped'[audit[e]][i] = e
    <3>1. /\ audit[e] \in 1..Len(runs)
          /\ runs[audit[e]].status \in {"ok", "ingest_failed"}
          /\ \E i \in 1..Len(scraped[audit[e]]) : scraped[audit[e]][i] = e
      BY <2>2 DEF IInv, CommittedRowsHaveVerdict, RunIds
    <3>2. /\ scraped'[audit[e]] = scraped[audit[e]]
          /\ runs'[audit[e]] = runs[audit[e]]
          /\ audit[e] \in 1..Len(runs')
      BY <1>0, <2>1, <3>1
    <3>. QED  BY <3>1, <3>2
  <2>. QED  BY <1>2, <2>2 DEF AddsRun, CommittedRowsHaveVerdict, RunIds
<1>3. ASSUME NEW report \in Reports, Scrape(report)
      PROVE  CommittedRowsHaveVerdict'
  <2>1. job.run \in RunIds /\ runs[job.run].status = "running"
    BY <1>3 DEF Scrape, IInv, RunAtWorkKnown, RunningWhileCommittable, RunIds
  <2>2. /\ audit' = audit /\ runs' = runs
        /\ \A r \in 1..Len(scraped) : r # job.run => scraped'[r] = scraped[r]
    BY <1>0, <1>3 DEF Scrape, dbVars
  <2>3. ASSUME NEW e \in Events, audit[e] # 0
        PROVE  /\ audit[e] \in 1..Len(runs)
               /\ runs[audit[e]].status \in {"ok", "ingest_failed"}
               /\ \E i \in 1..Len(scraped'[audit[e]]) : scraped'[audit[e]][i] = e
    <3>1. /\ audit[e] \in 1..Len(runs)
          /\ runs[audit[e]].status \in {"ok", "ingest_failed"}
          /\ \E i \in 1..Len(scraped[audit[e]]) : scraped[audit[e]][i] = e
      BY <2>3 DEF IInv, CommittedRowsHaveVerdict, RunIds
    <3>2. audit[e] # job.run
      BY <2>1, <3>1
    <3>. QED  BY <1>0, <2>2, <3>1, <3>2
  <2>. QED  BY <2>2, <2>3 DEF CommittedRowsHaveVerdict, RunIds
<1>4. ASSUME NEW answer \in {"open", "lost"}, FinalizeOk(answer)
      PROVE  CommittedRowsHaveVerdict'
  <2>1. job.run \in RunIds /\ job.stage = "insert"
    BY <1>4 DEF FinalizeOk, AllSent, IInv, RunAtWorkKnown, RunIds
  <2>2. /\ audit' = work /\ scraped' = scraped /\ Len(runs') = Len(runs)
        /\ runs'[job.run] = OkRow
        /\ \A r \in 1..Len(runs) : r # job.run => runs'[r] = runs[r]
    BY <1>0, <1>4, <2>1 DEF FinalizeOk, RunIds
  <2>3. OkRow.status = "ok"
    BY <1>0, <2>1 DEF OkRow, RunRow, RunIds
  <2>4. ASSUME NEW e \in Events, work[e] # 0, work[e] # job.run
        PROVE  work[e] = audit[e]
    BY <2>1, <2>4 DEF IInv, UncommittedRowsAreOwn
  <2>5. ASSUME NEW e \in Events, work[e] # 0
        PROVE  /\ work[e] \in 1..Len(runs)
               /\ runs'[work[e]].status \in {"ok", "ingest_failed"}
               /\ \E i \in 1..Len(scraped[work[e]]) : scraped[work[e]][i] = e
    <3>1. /\ work[e] \in 1..Len(runs)
          /\ \E i \in 1..Len(scraped[work[e]]) : scraped[work[e]][i] = e
      BY <2>5 DEF IInv, RowsComeFromReports, RunIds
    <3>2. CASE work[e] = job.run
      BY <2>2, <2>3, <2>4, <2>5, <3>1, <3>2
    <3>3. CASE work[e] # job.run
      <4>1. work[e] = audit[e]
        BY <2>4, <2>5, <3>3
      <4>2. runs[work[e]].status \in {"ok", "ingest_failed"}
        BY <2>5, <4>1 DEF IInv, CommittedRowsHaveVerdict
      <4>. QED  BY <2>2, <3>1, <3>3, <4>2
    <3>. QED  BY <3>1, <3>2, <3>3
  <2>. QED  BY <2>2, <2>5 DEF CommittedRowsHaveVerdict, RunIds
<1>5. ASSUME NEW answer \in {"open", "lost"}, HandlerFinalizes(answer)
      PROVE  CommittedRowsHaveVerdict'
  <2>1. /\ job.run \in RunIds /\ job.stage = "except" /\ conn = "open"
        /\ runs[job.run].status = "running"
    BY <1>5 DEF HandlerFinalizes, IInv, RunAtWorkKnown, RunningWhileCommittable, RunIds
  <2>2. /\ audit' = work /\ scraped' = scraped /\ Len(runs') = Len(runs)
        /\ runs'[job.run] = FailedRow
        /\ \A r \in 1..Len(runs) : r # job.run => runs'[r] = runs[r]
    BY <1>0, <1>5, <2>1 DEF HandlerFinalizes, RunIds
  <2>3. FailedRow.status = job.verdict
    BY <1>0, <2>1 DEF FailedRow, RunRow, RunIds
  <2>4. ASSUME NEW e \in Events, work[e] # 0
        PROVE  \/ work[e] = audit[e] /\ work[e] # job.run
               \/ work[e] = job.run /\ job.verdict = "ingest_failed"
    <3>1. CASE work[e] = audit[e]
      BY <2>1, <2>4, <3>1 DEF IInv, CommittedRowsHaveVerdict
    <3>2. CASE work[e] # audit[e]
      BY <2>1, <3>2 DEF IInv, UncommittedRowsAreOwn
    <3>. QED  BY <3>1, <3>2
  <2>5. ASSUME NEW e \in Events, work[e] # 0
        PROVE  /\ work[e] \in 1..Len(runs)
               /\ runs'[work[e]].status \in {"ok", "ingest_failed"}
               /\ \E i \in 1..Len(scraped[work[e]]) : scraped[work[e]][i] = e
    <3>1. /\ work[e] \in 1..Len(runs)
          /\ \E i \in 1..Len(scraped[work[e]]) : scraped[work[e]][i] = e
      BY <2>5 DEF IInv, RowsComeFromReports, RunIds
    <3>2. CASE work[e] = job.run
      BY <2>2, <2>3, <2>4, <2>5, <3>1, <3>2
    <3>3. CASE work[e] # job.run
      <4>1. work[e] = audit[e]
        BY <2>4, <2>5, <3>3
      <4>2. runs[work[e]].status \in {"ok", "ingest_failed"}
        BY <2>5, <4>1 DEF IInv, CommittedRowsHaveVerdict
      <4>. QED  BY <2>2, <3>1, <3>3, <4>2
    <3>. QED  BY <3>1, <3>2, <3>3
  <2>. QED  BY <2>2, <2>5 DEF CommittedRowsHaveVerdict, RunIds
<1>. QED  BY <1>1, <1>2, <1>3, <1>4, <1>5, StepKinds

LEMMA IInvInit == Init => IInv
<1>. SUFFICES ASSUME Init PROVE IInv
  OBVIOUS
<1>. QED
  BY TypeInit
     DEF Init, IInv, NoJob, RunAtWorkKnown, RunningWhileCommittable, UncommittedRowsAreOwn,
         SentRowsAreIn, RowsComeFromReports, CommittedRowsHaveVerdict

LEMMA IInvStep == IInv /\ [Next]_vars => IInv'
BY TypeStep, KnownStep, RunningStep, UncommittedStep, SentStep, RowsStep, VerdictStep DEF IInv

\* The inductive invariant, which every theorem below rests on.
THEOREM Invariance == Spec => []IInv
BY IInvInit, IInvStep, PTL DEF Spec

\* The variables have their types throughout: row counts stay natural numbers,
\* statuses stay in the enumeration, the transaction stays a table.
THEOREM TypeCorrect == Spec => []TypeOK
<1>1. IInv => TypeOK
  BY DEF IInv
<1>. QED  BY Invariance, <1>1, PTL

\* A committed audit row belongs to a run with a verdict whose report held it,
\* for any number of runs, crashes and lost connections.
THEOREM CommittedRowsHaveVerdictAlways == Spec => []CommittedRowsHaveVerdict
<1>1. IInv => CommittedRowsHaveVerdict
  BY DEF IInv
<1>. QED  BY Invariance, <1>1, PTL

-----------------------------------------------------------------------------
(* What the tables never do *)

\* A row that has a verdict is not the one at work when finalize_run commits.
LEMMA FinalizedIsRunning ==
  ASSUME IInv,
         NEW answer \in {"open", "lost"}, FinalizeOk(answer) \/ HandlerFinalizes(answer)
  PROVE  /\ job.run \in 1..Len(runs)
         /\ runs[job.run].status = "running"
         /\ runs' \in {[runs EXCEPT ![job.run] = OkRow], [runs EXCEPT ![job.run] = FailedRow]}
         /\ Len(runs') = Len(runs)
         /\ \A r \in 1..Len(runs) : r # job.run => runs'[r] = runs[r]
         /\ audit' = work
         /\ job.stage \in {"insert", "except"}
         /\ scraped' = scraped
<1>1. /\ job.run \in 1..Len(runs)
      /\ runs[job.run].status = "running"
      /\ job.stage \in {"insert", "except"}
  BY DEF FinalizeOk, HandlerFinalizes, AllSent, IInv, RunAtWorkKnown, RunningWhileCommittable
<1>2. runs \in Seq(RunRow)
  BY DEF IInv, TypeOK
<1>. QED  BY <1>1, <1>2 DEF FinalizeOk, HandlerFinalizes

\* A verdict, once committed, is never rewritten: neither by the handlers around
\* finalize_run nor by any later run.
THEOREM VerdictIsFinalAlways == Spec => VerdictIsFinal
<1>1. ASSUME IInv, [Next]_vars
      PROVE  \A r \in RunIds : runs[r].status # "running" => runs'[r] = runs[r]
  <2>0. runs \in Seq(RunRow)
    BY <1>1 DEF IInv, TypeOK
  <2>1. CASE KeepsTables
    BY <2>1 DEF KeepsTables
  <2>2. CASE AddsRun
    BY <2>0, <2>2 DEF AddsRun, RunIds
  <2>3. ASSUME NEW report \in Reports, Scrape(report)
        PROVE  runs' = runs
    BY <2>3 DEF Scrape, dbVars
  <2>4. ASSUME NEW answer \in {"open", "lost"}, FinalizeOk(answer) \/ HandlerFinalizes(answer)
        PROVE  \A r \in RunIds : runs[r].status # "running" => runs'[r] = runs[r]
    BY <1>1, <2>4, FinalizedIsRunning DEF RunIds
  <2>. QED  BY <1>1, <2>1, <2>2, <2>3, <2>4, StepKinds
<1>. QED  BY <1>1, Invariance, PTL DEF Spec, VerdictIsFinal

\* The audit table only grows, and an event keeps the run that first wrote it.
AuditOnlyGrows ==
  [][\A e \in Events : audit[e] # 0 => audit'[e] = audit[e]]_vars

\* Rows are only ever added to the audit table, and keep the run they came with.
THEOREM AuditOnlyGrowsAlways == Spec => AuditOnlyGrows
<1>1. ASSUME IInv, [Next]_vars
      PROVE  \A e \in Events : audit[e] # 0 => audit'[e] = audit[e]
  <2>1. CASE KeepsTables \/ AddsRun
    BY <2>1 DEF KeepsTables, AddsRun
  <2>2. ASSUME NEW report \in Reports, Scrape(report)
        PROVE  audit' = audit
    BY <2>2 DEF Scrape, dbVars
  <2>3. ASSUME NEW answer \in {"open", "lost"}, FinalizeOk(answer) \/ HandlerFinalizes(answer)
        PROVE  audit' = work
    BY <1>1, <2>3, FinalizedIsRunning
  <2>. QED
    BY <1>1, <2>1, <2>2, <2>3, StepKinds DEF IInv, UncommittedRowsAreOwn
<1>. QED  BY <1>1, Invariance, PTL DEF Spec, AuditOnlyGrows

-----------------------------------------------------------------------------
(* What an ok row says *)

\* OkRow is what a new ok row is; a failed row is not ok.
LEMMA NewOkRow ==
  ASSUME IInv,
         NEW answer \in {"open", "lost"}, FinalizeOk(answer) \/ HandlerFinalizes(answer),
         runs'[job.run].status = "ok"
  PROVE  FinalizeOk(answer) /\ runs'[job.run] = OkRow
<1>1. /\ job.run \in 1..Len(runs) /\ runs \in Seq(RunRow) /\ job \in Job
  BY FinalizedIsRunning DEF IInv, TypeOK
<1>2. CASE HandlerFinalizes(answer)
  <2>1. runs'[job.run] = FailedRow
    BY <1>1, <1>2 DEF HandlerFinalizes
  <2>2. FailedRow.status = job.verdict /\ job.verdict # "ok"
    BY <1>1 DEF FailedRow, RunRow, Job, FailureStatuses
  <2>. QED  BY <2>1, <2>2
<1>3. CASE FinalizeOk(answer)
  BY <1>1, <1>3 DEF FinalizeOk
<1>. QED  BY <1>2, <1>3

\* When every chunk was sent, every event of the report is in the transaction.
LEMMA AllSentIsIn ==
  ASSUME IInv, AllSent, conn = "open"
  PROVE  \A i \in 1..Len(Report) : work[Report[i]] # 0
<1>1. job.sent >= Len(Report) /\ job.stage = "insert" /\ job.sent \in Nat
  BY DEF AllSent, IInv, TypeOK, Job
<1>2. job.run \in 1..Len(scraped) /\ scraped \in Seq(Seq(Events))
  BY <1>1 DEF IInv, TypeOK, RunAtWorkKnown
<1>3. Len(Report) \in Nat
  BY <1>2 DEF Report
<1>. QED  BY <1>1, <1>3 DEF IInv, SentRowsAreIn, Report

\* An ok run's report is wholly in the audit table, through every crash, lost
\* connection and unacknowledged commit.
THEOREM OkMeansCompleteAlways == Spec => []OkMeansComplete
<1>1. Init => OkMeansComplete
  BY DEF Init, OkMeansComplete, RunIds
<1>2. ASSUME IInv, OkMeansComplete, [Next]_vars
      PROVE  OkMeansComplete'
  <2>0. /\ runs \in Seq(RunRow) /\ scraped \in Seq(Seq(Events)) /\ Len(scraped) = Len(runs)
        /\ Len(runs) \in Nat
    BY <1>2 DEF IInv, TypeOK
  <2>1. CASE KeepsTables
    BY <1>2, <2>1 DEF KeepsTables, OkMeansComplete, RunIds
  <2>2. CASE AddsRun
    <3>1. /\ Len(runs') = Len(runs) + 1 /\ runs'[Len(runs) + 1].status = "running"
          /\ \A r \in 1..Len(runs) : scraped'[r] = scraped[r] /\ runs'[r] = runs[r]
          /\ audit' = audit
      BY <2>0, <2>2 DEF AddsRun, NewRow
    <3>2. ASSUME NEW r \in 1..Len(runs'), runs'[r].status = "ok"
          PROVE  \A i \in 1..Len(scraped'[r]) : audit'[scraped'[r][i]] # 0
      <4>1. r \in 1..Len(runs)
        BY <2>0, <3>1, <3>2
      <4>2. scraped'[r] = scraped[r] /\ runs[r].status = "ok" /\ audit' = audit
        BY <3>1, <3>2, <4>1
      <4>. QED  BY <1>2, <4>1, <4>2 DEF OkMeansComplete, RunIds
    <3>. QED  BY <3>2 DEF OkMeansComplete, RunIds
  <2>3. ASSUME NEW report \in Reports, Scrape(report)
        PROVE  OkMeansComplete'
    <3>1. job.run \in 1..Len(runs) /\ runs[job.run].status = "running"
      BY <1>2, <2>3 DEF Scrape, IInv, RunAtWorkKnown, RunningWhileCommittable
    <3>2. /\ audit' = audit /\ runs' = runs
          /\ \A r \in 1..Len(scraped) : r # job.run => scraped'[r] = scraped[r]
      BY <2>0, <2>3 DEF Scrape, dbVars
    <3>3. ASSUME NEW r \in 1..Len(runs), runs[r].status = "ok"
          PROVE  scraped'[r] = scraped[r]
      BY <2>0, <3>1, <3>2, <3>3
    <3>. QED  BY <1>2, <3>2, <3>3 DEF OkMeansComplete, RunIds
  <2>4. ASSUME NEW answer \in {"open", "lost"}, FinalizeOk(answer) \/ HandlerFinalizes(answer)
        PROVE  OkMeansComplete'
    <3>1. /\ job.run \in 1..Len(runs)
          /\ Len(runs') = Len(runs)
          /\ \A r \in 1..Len(runs) : r # job.run => runs'[r] = runs[r]
          /\ audit' = work /\ scraped' = scraped
      BY <1>2, <2>4, FinalizedIsRunning
    <3>2. ASSUME NEW r \in 1..Len(runs), runs'[r].status = "ok", NEW i \in 1..Len(scraped[r])
          PROVE  work[scraped[r][i]] # 0
      <4>1. CASE r = job.run
        <5>1. FinalizeOk(answer)
          BY <1>2, <2>4, <3>2, <4>1, NewOkRow
        <5>2. AllSent /\ conn = "open"
          BY <5>1 DEF FinalizeOk
        <5>. QED  BY <1>2, <3>2, <4>1, <5>2, AllSentIsIn DEF Report
      <4>2. CASE r # job.run
        <5>1. runs[r].status = "ok"
          BY <3>1, <3>2, <4>2
        <5>2. audit[scraped[r][i]] # 0
          BY <1>2, <3>2, <5>1 DEF OkMeansComplete, RunIds
        <5>3. scraped[r][i] \in Events
          BY <2>0, <3>2
        <5>. QED  BY <1>2, <5>2, <5>3 DEF IInv, UncommittedRowsAreOwn
      <4>. QED  BY <4>1, <4>2
    <3>. QED  BY <3>1, <3>2 DEF OkMeansComplete, RunIds
  <2>. QED  BY <1>2, <2>1, <2>2, <2>3, <2>4, StepKinds
<1>. QED  BY <1>1, <1>2, Invariance, PTL DEF Spec

\* A row is left running only by a crash, a lost connection or a handler that
\* fails: every other way out of run_job writes a verdict.
THEOREM RunningIsExplainedAlways == Spec => []RunningIsExplained
<1>1. Init => RunningIsExplained
  BY DEF Init, RunningIsExplained, RunIds
<1>2. ASSUME IInv, RunningIsExplained, [Next]_vars
      PROVE  RunningIsExplained'
  <2>0. /\ runs \in Seq(RunRow) /\ job \in Job /\ Len(runs) \in Nat
        /\ RunAtWorkKnown /\ RunningIsExplained
    BY <1>2 DEF IInv, TypeOK
  <2>. USE <2>0 DEF RunningIsExplained, RunIds, dbVars
  <2>1. ASSUME NEW d \in Dates, NEW manual \in BOOLEAN, Begin(d, manual)
        PROVE  RunningIsExplained'
    BY <2>1 DEF Begin
  <2>2. CASE ConnectFails
    BY <2>2 DEF ConnectFails
  <2>3. CASE Connects
    BY <2>3 DEF Connects
  <2>4. CASE StartRun
    <3>1. /\ Len(runs') = Len(runs) + 1
          /\ \A r \in 1..Len(runs) : runs'[r] = runs[r]
      BY <2>4 DEF StartRun
    <3>2. job'.run = Len(runs) + 1 /\ job'.stage = "browser" /\ struck' = struck
      BY <2>4 DEF StartRun, Job
    <3>. QED  BY <2>4, <3>1, <3>2 DEF StartRun
  <2>5. CASE StartRunFails
    BY <2>5 DEF StartRunFails
  <2>6. CASE StartRunUnacknowledged
    <3>1. /\ Len(runs') = Len(runs) + 1
          /\ \A r \in 1..Len(runs) : runs'[r] = runs[r]
      BY <2>6 DEF StartRunUnacknowledged
    <3>. QED  BY <2>6, <3>1 DEF StartRunUnacknowledged
  <2>7. ASSUME NEW status \in FailureStatuses, ScrapeFails(status)
        PROVE  RunningIsExplained'
    BY <2>7 DEF ScrapeFails, Job
  <2>8. ASSUME NEW report \in Reports, Scrape(report)
        PROVE  RunningIsExplained'
    BY <2>8 DEF Scrape, Job
  <2>9. CASE InsertBatch
    BY <2>9 DEF InsertBatch, Job
  <2>10. CASE StatementFails
    BY <2>10 DEF StatementFails, Job
  <2>11. ASSUME NEW answer \in {"open", "lost"}, FinalizeOk(answer)
         PROVE  RunningIsExplained'
    <3>1. /\ job.run \in 1..Len(runs) /\ Len(runs') = Len(runs)
          /\ \A r \in 1..Len(runs) : r # job.run => runs'[r] = runs[r]
      BY <1>2, <2>11, FinalizedIsRunning
    <3>2. runs'[job.run].status # "running" /\ struck' = struck
      BY <2>11, <3>1 DEF FinalizeOk, OkRow, RunRow, Job, FailureStatuses
    <3>. QED  BY <3>1, <3>2
  <2>12. CASE FinalizeOkRefused
    BY <2>12 DEF FinalizeOkRefused, AllSent, Job
  <2>13. ASSUME NEW answer \in {"open", "lost"}, HandlerFinalizes(answer)
         PROVE  RunningIsExplained'
    <3>1. /\ job.run \in 1..Len(runs) /\ Len(runs') = Len(runs)
          /\ \A r \in 1..Len(runs) : r # job.run => runs'[r] = runs[r]
      BY <1>2, <2>13, FinalizedIsRunning
    <3>2. runs'[job.run].status # "running" /\ struck' = struck
      BY <2>13, <3>1 DEF HandlerFinalizes, FailedRow, RunRow, Job, FailureStatuses
    <3>. QED  BY <3>1, <3>2
  <2>14. CASE HandlerFails
    BY <2>14 DEF HandlerFails, RunAtWork, RunAtWorkKnown
  <2>15. CASE Return
    BY <2>15 DEF Return
  <2>16. CASE ConnectionLost
    BY <2>16 DEF ConnectionLost
  <2>17. CASE Crash
    BY <2>17 DEF Crash, RunAtWork, RunAtWorkKnown
  <2>18. CASE UNCHANGED vars
    BY <2>18 DEF vars
  <2>. QED
    BY <1>2, <2>1, <2>2, <2>3, <2>4, <2>5, <2>6, <2>7, <2>8, <2>9, <2>10, <2>11, <2>12,
       <2>13, <2>14, <2>15, <2>16, <2>17, <2>18 DEF Next, JobStep
<1>. QED  BY <1>1, <1>2, Invariance, PTL DEF Spec

LEMMA FirstNaturals ==
  ASSUME NEW n \in Nat
  PROVE  IsFiniteSet(1..n) /\ Cardinality(1..n) = n
<1>1. /\ IsFiniteSet(1..n)
      /\ Cardinality(1..n) = IF 1 > n THEN 0 ELSE n - 1 + 1
  BY FS_Interval
<1>. QED  BY <1>1

\* The rows of the run at work are events of its report, so at most as many.
LEMMA OwnRowsWithinReport ==
  ASSUME IInv, job.run \in 1..Len(runs)
  PROVE  Cardinality({e \in Events : work[e] = job.run}) <= Len(Report)
<1>. DEFINE S == {e \in Events : work[e] = job.run}
            f == [e \in S |-> CHOOSE i \in 1..Len(Report) : Report[i] = e]
<1>1. Len(Report) \in Nat
  BY DEF IInv, TypeOK, Report
<1>2. \A e \in S : f[e] \in 1..Len(Report) /\ Report[f[e]] = e
  BY DEF IInv, RowsComeFromReports, Report
<1>3. f = [e \in S |-> f[e]] /\ DOMAIN f = S
  OBVIOUS
<1>. HIDE DEF S, f
<1>4. f \in [S -> 1..Len(Report)]
  BY <1>2, <1>3
<1>5. ASSUME NEW a \in S, NEW b \in S, f[a] = f[b]
      PROVE  a = b
  BY <1>2, <1>5
<1>6. IsInjective(f)
  BY <1>3, <1>5 DEF IsInjective
<1>7. f \in Injection(S, 1..Len(Report))
  BY <1>4, <1>6 DEF Injection
<1>8. IsFiniteSet(1..Len(Report)) /\ Cardinality(1..Len(Report)) = Len(Report)
  BY <1>1, FirstNaturals
<1>9. Cardinality(S) <= Cardinality(1..Len(Report))
  BY <1>7, <1>8, FS_Injection
<1>. QED  BY <1>8, <1>9 DEF S

\* The counts of an ok row are those of the audit table for ever, add up to the
\* report, and are never negative.
THEOREM OkCountsExactAlways == Spec => []OkCountsExact
<1>1. Init => OkCountsExact
  BY DEF Init, OkCountsExact, RunIds
<1>2. ASSUME IInv, OkCountsExact, [Next]_vars
      PROVE  OkCountsExact'
  <2>0. /\ runs \in Seq(RunRow) /\ scraped \in Seq(Seq(Events)) /\ Len(scraped) = Len(runs)
        /\ Len(runs) \in Nat
    BY <1>2 DEF IInv, TypeOK
  <2>1. CASE KeepsTables
    BY <1>2, <2>1 DEF KeepsTables, OkCountsExact, RunIds
  <2>2. CASE AddsRun
    <3>1. /\ Len(runs') = Len(runs) + 1 /\ runs'[Len(runs) + 1].status = "running"
          /\ \A r \in 1..Len(runs) : scraped'[r] = scraped[r] /\ runs'[r] = runs[r]
          /\ audit' = audit
      BY <2>0, <2>2 DEF AddsRun, NewRow
    <3>2. ASSUME NEW r \in 1..Len(runs'), runs'[r].status = "ok"
          PROVE  r \in 1..Len(runs) /\ runs'[r] = runs[r] /\ scraped'[r] = scraped[r]
      BY <2>0, <3>1, <3>2
    <3>. QED  BY <1>2, <3>1, <3>2 DEF OkCountsExact, RunIds
  <2>3. ASSUME NEW report \in Reports, Scrape(report)
        PROVE  OkCountsExact'
    <3>1. job.run \in 1..Len(runs) /\ runs[job.run].status = "running"
      BY <1>2, <2>3 DEF Scrape, IInv, RunAtWorkKnown, RunningWhileCommittable
    <3>2. /\ audit' = audit /\ runs' = runs
          /\ \A r \in 1..Len(scraped) : r # job.run => scraped'[r] = scraped[r]
      BY <2>0, <2>3 DEF Scrape, dbVars
    <3>3. ASSUME NEW r \in 1..Len(runs), runs[r].status = "ok"
          PROVE  scraped'[r] = scraped[r]
      BY <2>0, <3>1, <3>2, <3>3
    <3>. QED  BY <1>2, <3>2, <3>3 DEF OkCountsExact, RunIds
  <2>4. ASSUME NEW answer \in {"open", "lost"}, FinalizeOk(answer) \/ HandlerFinalizes(answer)
        PROVE  OkCountsExact'
    <3>1. /\ job.run \in 1..Len(runs)
          /\ Len(runs') = Len(runs)
          /\ \A r \in 1..Len(runs) : r # job.run => runs'[r] = runs[r]
          /\ audit' = work /\ scraped' = scraped
          /\ job.stage \in {"insert", "except"}
      BY <1>2, <2>4, FinalizedIsRunning
    <3>2. ASSUME runs'[job.run].status = "ok"
          PROVE  /\ runs'[job.run].rowsInserted = Cardinality({e \in Events : work[e] = job.run})
                 /\ runs'[job.run].rowsInserted + runs'[job.run].rowsDuplicate
                      = Len(scraped[job.run])
                 /\ runs'[job.run].rowsDuplicate >= 0
      <4>. DEFINE n == Cardinality({e \in Events : work[e] = job.run})
      <4>1. runs'[job.run] = OkRow
        BY <1>2, <2>4, <3>2, NewOkRow
      <4>2. OkRow.rowsInserted = n /\ OkRow.rowsDuplicate = Len(Report) - n
        BY <2>0, <3>1 DEF OkRow, RunRow
      <4>3. n \in Nat /\ n <= Len(Report) /\ Len(Report) \in Nat
        <5>1. n \in Nat
          BY OwnRowsFinite
        <5>2. n <= Len(Report)
          BY <1>2, <3>1, OwnRowsWithinReport
        <5>3. Len(Report) \in Nat
          BY <2>0, <3>1 DEF Report
        <5>. QED  BY <5>1, <5>2, <5>3
      <4>. HIDE DEF n
      <4>4. n + (Len(Report) - n) = Len(Report) /\ Len(Report) - n >= 0
        BY <4>3
      <4>. QED  BY <4>1, <4>2, <4>4 DEF Report, n
    <3>3. ASSUME NEW r \in 1..Len(runs), r # job.run
          PROVE  {e \in Events : work[e] = r} = {e \in Events : audit[e] = r}
      <4>1. \A e \in Events : /\ audit[e] # 0 => work[e] = audit[e]
                              /\ work[e] # audit[e] => work[e] = job.run
        BY <1>2, <3>1 DEF IInv, UncommittedRowsAreOwn
      <4>2. r # 0
        OBVIOUS
      <4>. QED  BY <3>3, <4>1, <4>2
    <3>4. ASSUME NEW r \in 1..Len(runs), runs'[r].status = "ok"
          PROVE  /\ runs'[r].rowsInserted = Cardinality({e \in Events : work[e] = r})
                 /\ runs'[r].rowsInserted + runs'[r].rowsDuplicate = Len(scraped[r])
                 /\ runs'[r].rowsDuplicate >= 0
      <4>1. CASE r = job.run
        BY <3>2, <3>4, <4>1
      <4>2. CASE r # job.run
        <5>1. runs'[r] = runs[r]
          BY <3>1, <4>2
        <5>2. {e \in Events : work[e] = r} = {e \in Events : audit[e] = r}
          BY <3>3, <4>2
        <5>. QED  BY <1>2, <3>4, <5>1, <5>2 DEF OkCountsExact, RunIds
      <4>. QED  BY <4>1, <4>2
    <3>. QED  BY <3>1, <3>4 DEF OkCountsExact, RunIds
  <2>. QED  BY <1>2, <2>1, <2>2, <2>3, <2>4, StepKinds
<1>. QED  BY <1>1, <1>2, Invariance, PTL DEF Spec

-----------------------------------------------------------------------------
(* The two tables implement RunLedger *)

\* The run at work is the newest row.
NewestAtWork == job.run # 0 => job.run = Len(runs)

\* The table `a' with the first n rows of a report put in by run r.
Brought(r, a, report, n) ==
  [e \in Events |-> IF a[e] = 0 /\ e \in Ledger!Prefix(report, n) THEN r ELSE a[e]]

\* The run's transaction is the committed table and exactly the part of the
\* report that was sent; in a handler that can still commit it may also be the
\* committed table alone, when the server undid the rest.
TransactionIsPrefix ==
  /\ job.stage = "insert" => Report \in Reports
  /\ job.stage = "insert" /\ conn = "open" => work = Brought(job.run, audit, Report, job.sent)
  /\ job.stage = "except" /\ conn = "open" =>
       \/ work = audit
       \/ Report \in Reports /\ work = Brought(job.run, audit, Report, job.sent)

LEMMA NewestStep ==
  ASSUME IInv, NewestAtWork, [Next]_vars
  PROVE  NewestAtWork'
<1>0. /\ runs \in Seq(RunRow) /\ job \in Job /\ Len(runs) \in Nat
      /\ JobOver.run = 0 /\ NoJob.run = 0
  BY DEF IInv, TypeOK, JobOver, NoJob
<1>. USE <1>0 DEF NewestAtWork, dbVars
<1>1. CASE \E d \in Dates, manual \in BOOLEAN : Begin(d, manual)
  BY <1>1 DEF Begin
<1>2. CASE ConnectFails \/ Connects \/ StartRunFails
  BY <1>2 DEF ConnectFails, Connects, StartRunFails, Job
<1>3. CASE StartRun \/ StartRunUnacknowledged
  <2>1. Len(runs') = Len(runs) + 1
    BY <1>3 DEF StartRun, StartRunUnacknowledged
  <2>2. job'.run \in {0, Len(runs) + 1}
    BY <1>3 DEF StartRun, StartRunUnacknowledged, Job
  <2>. QED  BY <2>1, <2>2
<1>4. CASE \/ \E status \in FailureStatuses : ScrapeFails(status)
          \/ \E report \in Reports : Scrape(report)
  BY <1>4 DEF ScrapeFails, Scrape, Job
<1>5. CASE InsertBatch \/ StatementFails \/ FinalizeOkRefused
  BY <1>5 DEF InsertBatch, StatementFails, FinalizeOkRefused, Job
<1>6. ASSUME NEW answer \in {"open", "lost"}, FinalizeOk(answer) \/ HandlerFinalizes(answer)
      PROVE  NewestAtWork'
  <2>1. Len(runs') = Len(runs)
    BY <1>6, FinalizedIsRunning
  <2>2. job'.run \in {0, job.run}
    BY <1>6 DEF FinalizeOk, HandlerFinalizes, Job
  <2>. QED  BY <2>1, <2>2
<1>7. CASE HandlerFails \/ Return \/ ConnectionLost \/ Crash
  BY <1>7 DEF HandlerFails, Return, ConnectionLost, Crash
<1>8. CASE UNCHANGED vars
  BY <1>8 DEF vars
<1>. QED
  BY <1>1, <1>2, <1>3, <1>4, <1>5, <1>6, <1>7, <1>8 DEF Next, JobStep

\* Nothing brought leaves the table as it is.
LEMMA NothingBrought ==
  ASSUME NEW r, NEW a \in [Events -> Nat], NEW report \in Seq(Events)
  PROVE  Brought(r, a, report, 0) = a
<1>1. Ledger!Prefix(report, 0) = {}
  BY DEF Ledger!Prefix
<1>. QED  BY <1>1 DEF Brought

\* One more batch brings the next rows of the report.
LEMMA BatchBrings ==
  ASSUME TypeOK, job.run \in RunIds, work = Brought(job.run, audit, Report, job.sent)
  PROVE  AfterBatch = Brought(job.run, audit, Report, job.sent + BatchSize)
<1>. DEFINE before == Ledger!Prefix(Report, job.sent)
            after == Ledger!Prefix(Report, job.sent + BatchSize)
<1>1. job.run # 0 /\ job.sent \in Nat /\ BatchSize \in Nat /\ Len(Report) \in Nat
  BY BatchAssumption DEF TypeOK, RunIds, Job, Report
<1>2. \A e : e \in after <=> e \in before \/ \E i \in Chunk : Report[i] = e
  <2>1. \A i \in 1..Len(Report) :
          i <= job.sent + BatchSize <=> i <= job.sent \/ i \in Chunk
    BY <1>1 DEF Chunk
  <2>2. Chunk \subseteq 1..Len(Report)
    BY DEF Chunk
  <2>. QED  BY <2>1, <2>2 DEF Ledger!Prefix
<1>. HIDE DEF before, after
<1>3. \A e \in Events : work[e] = IF audit[e] = 0 /\ e \in before THEN job.run ELSE audit[e]
  BY DEF Brought, before
<1>4. \A e \in Events :
        (IF work[e] = 0 /\ (\E i \in Chunk : Report[i] = e) THEN job.run ELSE work[e])
          = IF audit[e] = 0 /\ e \in after THEN job.run ELSE audit[e]
  BY <1>1, <1>2, <1>3
<1>. QED  BY <1>4 DEF AfterBatch, Brought, after

LEMMA PrefixStep ==
  ASSUME IInv, TransactionIsPrefix, [Next]_vars
  PROVE  TransactionIsPrefix'
<1>0. /\ job \in Job /\ scraped \in Seq(Seq(Events)) /\ Len(scraped) = Len(runs)
      /\ audit \in [Events -> Nat] /\ work \in [Events -> Nat]
      /\ JobOver.stage = "over" /\ NoJob.stage = "idle"
      /\ RunAtWorkKnown /\ TypeOK
  BY DEF IInv, TypeOK, JobOver, NoJob
<1>. USE <1>0 DEF TransactionIsPrefix, Report, dbVars
<1>1. ASSUME job.stage = "browser"
      PROVE  work = audit
  <2>1. \A e \in Events : work[e] = audit[e]
    BY <1>1 DEF IInv, UncommittedRowsAreOwn
  <2>. QED  BY <2>1
<1>2. CASE \E d \in Dates, manual \in BOOLEAN : Begin(d, manual)
  BY <1>2 DEF Begin, NoJob
<1>3. CASE ConnectFails \/ Connects \/ StartRunFails \/ StartRun \/ StartRunUnacknowledged
  BY <1>3 DEF ConnectFails, Connects, StartRunFails, StartRun, StartRunUnacknowledged, Job
<1>4. CASE \E status \in FailureStatuses : ScrapeFails(status)
  BY <1>1, <1>4 DEF ScrapeFails, Job
<1>5. ASSUME NEW report \in Reports, Scrape(report)
      PROVE  TransactionIsPrefix'
  <2>1. /\ job'.stage = "insert" /\ job'.run = job.run /\ job'.sent = 0
        /\ work = audit
        /\ work' = work /\ audit' = audit
    BY <1>1, <1>5 DEF Scrape, Job, IInv, SentRowsAreIn
  <2>2. job.run \in 1..Len(scraped)
    BY <1>5 DEF Scrape, RunAtWorkKnown
  <2>3. scraped'[job.run] = report /\ report \in Seq(Events)
    BY <1>5, <2>2, EventsAssumption DEF Scrape
  <2>4. Brought(job.run, audit, report, 0) = audit
    BY <2>3, NothingBrought
  <2>. QED  BY <2>1, <2>3, <2>4
<1>6. CASE InsertBatch
  <2>1. /\ job'.stage = "insert" /\ job'.run = job.run
        /\ job'.sent = job.sent + BatchSize
        /\ job.stage = "insert" /\ conn = "open"
        /\ work' = AfterBatch /\ audit' = audit /\ scraped' = scraped
    BY <1>6 DEF InsertBatch, SentAfter, Job
  <2>2. job.run \in RunIds
    BY <2>1 DEF RunAtWorkKnown, RunIds
  <2>3. AfterBatch = Brought(job.run, audit, Report, job.sent + BatchSize)
    BY <2>1, <2>2, BatchBrings
  <2>. QED  BY <2>1, <2>3
<1>7. CASE StatementFails \/ FinalizeOkRefused
  BY <1>7 DEF StatementFails, FinalizeOkRefused, AllSent, Job, IInv, RunningWhileCommittable,
              UncommittedRowsAreOwn
<1>8. CASE \E answer \in {"open", "lost"} : FinalizeOk(answer) \/ HandlerFinalizes(answer)
  BY <1>8 DEF FinalizeOk, HandlerFinalizes, Job
<1>9. CASE HandlerFails \/ Return \/ ConnectionLost \/ Crash
  BY <1>9 DEF HandlerFails, Return, ConnectionLost, Crash
<1>10. CASE UNCHANGED vars
  BY <1>10 DEF vars
<1>. QED
  BY <1>2, <1>3, <1>4, <1>5, <1>6, <1>7, <1>8, <1>9, <1>10 DEF Next, JobStep

\* RunLedger's view of the invariant.
LedgerInv == IInv /\ NewestAtWork /\ TransactionIsPrefix

LEMMA LedgerInvariance == Spec => []LedgerInv
<1>1. Init => LedgerInv
  BY IInvInit DEF Init, LedgerInv, NewestAtWork, TransactionIsPrefix, NoJob
<1>2. LedgerInv /\ [Next]_vars => LedgerInv'
  BY IInvStep, NewestStep, PrefixStep DEF LedgerInv
<1>. QED  BY <1>1, <1>2, PTL DEF Spec

\* A prefix stops at the end of the report, and holds events only.
LEMMA PrefixFacts ==
  ASSUME NEW report \in Seq(Events), NEW n \in Nat
  PROVE  /\ Ledger!Prefix(report, n) \subseteq Events
         /\ n >= Len(report) => Ledger!Prefix(report, n) = Ledger!Prefix(report, Len(report))
BY DEF Ledger!Prefix

\* What the run at work brings is what the ledger says its verdict brings.
LEMMA BroughtByNewest ==
  ASSUME LedgerInv, job.run \in RunIds, NEW n \in Nat
  PROVE  Brought(job.run, audit, Report, n)
           = [e \in Events |-> IF e \in Ledger!New(Ledger!Prefix(Report, n))
                               THEN Ledger!Newest ELSE audit[e]]
<1>1. job.run = Len(runs)
  BY DEF LedgerInv, NewestAtWork, RunIds, IInv, TypeOK
<1>. QED  BY <1>1 DEF Brought, Ledger!New, Ledger!Newest

\* The count of a run's own rows is the number of events it brought.
LEMMA OwnRowsAreBrought ==
  ASSUME LedgerInv, job.run \in RunIds, runs[job.run].status = "running",
         NEW n \in Nat, work = Brought(job.run, audit, Report, n)
  PROVE  {e \in Events : work[e] = job.run} = Ledger!New(Ledger!Prefix(Report, n))
<1>1. Report \in Seq(Events) /\ job.run # 0
  BY DEF LedgerInv, IInv, TypeOK, RunIds, Report
<1>2. Ledger!Prefix(Report, n) \subseteq Events
  BY <1>1, PrefixFacts
<1>3. \A e \in Events : audit[e] # job.run
  BY <1>1 DEF LedgerInv, IInv, CommittedRowsHaveVerdict
<1>4. \A e \in Events : work[e] = IF audit[e] = 0 /\ e \in Ledger!Prefix(Report, n)
                                  THEN job.run ELSE audit[e]
  BY DEF Brought
<1>. QED  BY <1>2, <1>3, <1>4 DEF Ledger!New

\* RunLedger counts with the same operator.
LEMMA SameCardinality == \A S : Ledger!Cardinality(S) = Cardinality(S)
BY DEF Cardinality, Ledger!Cardinality

LEMMA SuccessInLedger ==
  ASSUME LedgerInv, NEW answer \in {"open", "lost"}, FinalizeOk(answer)
  PROVE  Ledger!Succeed(Report)
<1>. DEFINE events == Ledger!Prefix(Report, Len(Report))
            inserted == Cardinality(Ledger!New(events))
<1>1. /\ job.run \in RunIds /\ runs[job.run].status = "running"
      /\ audit' = work /\ Len(runs) \in Nat
  BY FinalizedIsRunning DEF LedgerInv, RunIds, IInv, TypeOK
<1>2. job.run = Ledger!Newest /\ runs # <<>>
  BY <1>1 DEF LedgerInv, NewestAtWork, RunIds, Ledger!Newest
<1>3. /\ Report \in Seq(Events) /\ job.sent \in Nat /\ job.sent >= Len(Report)
      /\ Len(Report) \in Nat
  BY <1>1 DEF FinalizeOk, AllSent, LedgerInv, IInv, TypeOK, Job, RunIds, Report
<1>4. work = Brought(job.run, audit, Report, job.sent)
  BY DEF FinalizeOk, AllSent, LedgerInv, TransactionIsPrefix
<1>5. Ledger!Prefix(Report, job.sent) = events
  BY <1>3, PrefixFacts
<1>6. Cardinality({e \in Events : work[e] = job.run}) = inserted
  BY <1>1, <1>3, <1>4, <1>5, OwnRowsAreBrought
<1>7. Ledger!Bring(events)
  BY <1>1, <1>3, <1>4, <1>5, BroughtByNewest DEF Ledger!Bring
<1>8. OkRow = [runs[job.run] EXCEPT !.status = "ok", !.rowsInCsv = Len(Report),
                 !.rowsInserted = inserted, !.rowsDuplicate = Len(Report) - inserted]
  BY <1>6 DEF OkRow
<1>9. Ledger!Verdict("ok", Len(Report), inserted, Len(Report) - inserted)
  BY <1>1, <1>2, <1>8 DEF FinalizeOk, Ledger!Verdict
<1>10. runs[Ledger!Newest].manual \/ ~Ledger!AnotherScheduledOk
  <2>1. runs[job.run].date = job.date /\ runs[job.run].manual = job.manual
    BY <1>1 DEF LedgerInv, IInv, RunAtWorkKnown, RunIds
  <2>2. ~ScheduledOkExists
    BY DEF FinalizeOk
  <2>. QED  BY <1>1, <1>2, <2>1, <2>2 DEF ScheduledOkExists, Ledger!AnotherScheduledOk
<1>. QED  BY <1>7, <1>9, <1>10, SameCardinality DEF Ledger!Succeed

LEMMA FailureInLedger ==
  ASSUME LedgerInv, NEW answer \in {"open", "lost"}, HandlerFinalizes(answer)
  PROVE  Ledger!Next
<1>1. /\ job.run \in RunIds /\ runs[job.run].status = "running"
      /\ audit' = work /\ Len(runs) \in Nat
      /\ job.stage = "except" /\ conn = "open"
  BY FinalizedIsRunning DEF LedgerInv, RunIds, IInv, TypeOK, HandlerFinalizes
<1>2. job.run = Ledger!Newest /\ runs # <<>>
  BY <1>1 DEF LedgerInv, NewestAtWork, RunIds, Ledger!Newest
<1>3. Ledger!Verdict(job.verdict, Null, Null, Null)
  BY <1>1, <1>2 DEF HandlerFinalizes, FailedRow, Ledger!Verdict
<1>4. job.verdict \in FailureStatuses
  BY DEF LedgerInv, IInv, TypeOK, Job
<1>5. CASE work = audit
  <2>1. Ledger!Fail(job.verdict)
    BY <1>1, <1>3, <1>5 DEF Ledger!Fail
  <2>. QED  BY <1>4, <2>1 DEF Ledger!Next, FailureStatuses
<1>6. CASE work # audit
  <2>1. Report \in Reports /\ work = Brought(job.run, audit, Report, job.sent)
    BY <1>1, <1>6 DEF LedgerInv, TransactionIsPrefix
  <2>2. PICK e \in Events : work[e] # audit[e]
    BY <1>6 DEF LedgerInv, IInv, TypeOK
  <2>3. job.verdict = "ingest_failed"
    BY <1>1, <2>2 DEF LedgerInv, IInv, UncommittedRowsAreOwn
  <2>4. Report \in Seq(Events) /\ job.sent \in Nat /\ Len(Report) \in Nat
    BY <2>1, EventsAssumption DEF LedgerInv, IInv, TypeOK, Job
  <2>5. PICK n \in 0..Len(Report) : Ledger!Prefix(Report, n) = Ledger!Prefix(Report, job.sent)
    <3>1. CASE job.sent >= Len(Report)
      BY <2>4, <3>1, PrefixFacts
    <3>2. CASE job.sent < Len(Report)
      BY <2>4, <3>2
    <3>. QED  BY <2>4, <3>1, <3>2
  <2>6. Ledger!Bring(Ledger!Prefix(Report, n))
    BY <1>1, <2>1, <2>4, <2>5, BroughtByNewest DEF Ledger!Bring
  <2>7. Ledger!FailIngest(Report, n)
    BY <1>3, <2>3, <2>6 DEF Ledger!FailIngest
  <2>. QED  BY <2>1, <2>7 DEF Ledger!Next
<1>. QED  BY <1>5, <1>6

LEMMA LedgerStep ==
  ASSUME LedgerInv, [Next]_vars
  PROVE  [Ledger!Next]_(Ledger!vars)
<1>1. CASE KeepsTables
  BY <1>1 DEF KeepsTables, Ledger!vars
<1>2. CASE AddsRun
  <2>1. job.date \in Dates /\ job.manual \in BOOLEAN
    BY <1>2 DEF AddsRun, LedgerInv, IInv, RunAtWorkKnown, TypeOK, Job
  <2>2. Ledger!Open(job.date, job.manual)
    BY <1>2 DEF AddsRun, NewRow, Ledger!Open
  <2>. QED  BY <2>1, <2>2 DEF Ledger!Next
<1>3. ASSUME NEW report \in Reports, Scrape(report)
      PROVE  UNCHANGED Ledger!vars
  BY <1>3 DEF Scrape, dbVars, Ledger!vars
<1>4. ASSUME NEW answer \in {"open", "lost"}, FinalizeOk(answer)
      PROVE  Ledger!Next
  <2>1. Report \in Reports
    BY <1>4 DEF FinalizeOk, AllSent, LedgerInv, TransactionIsPrefix
  <2>2. Ledger!Succeed(Report)
    BY <1>4, SuccessInLedger
  <2>. QED  BY <2>1, <2>2 DEF Ledger!Next
<1>5. ASSUME NEW answer \in {"open", "lost"}, HandlerFinalizes(answer)
      PROVE  Ledger!Next
  BY <1>5, FailureInLedger
<1>. QED  BY <1>1, <1>2, <1>3, <1>4, <1>5, StepKinds

\* run_job, with its connection, batches, handlers, lost answers and crashes,
\* does to the two tables only what RunLedger allows: a run is opened once, and
\* its verdict, its counts and exactly the rows they stand for appear in one
\* step, for the newest run only.
THEOREM LedgerRefinement == Spec => RefinesRunLedger
<1>1. Init => Ledger!Init
  BY DEF Init, Ledger!Init
<1>2. LedgerInv /\ [Next]_vars => [Ledger!Next]_(Ledger!vars)
  BY LedgerStep
<1>. QED  BY <1>1, <1>2, LedgerInvariance, PTL DEF Spec, RefinesRunLedger, Ledger!Spec
=============================================================================
