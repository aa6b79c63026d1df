----------------------------- MODULE RunLedger -----------------------------
(***************************************************************************)
(* What the run pipeline promises of the two tables it writes, without     *)
(* connections, transactions, batches, handlers or crashes.  A run is a    *)
(* row that is opened once and gets at most one verdict, and a verdict and *)
(* the audit rows it stands for appear together: all of the report's       *)
(* events for "ok", those of a first part of it, possibly none, for        *)
(* "ingest_failed", none for any other failure.  An event belongs to the   *)
(* run that first brought it.  RunJob is shown to implement this module.   *)
(***************************************************************************)
EXTENDS Integers, Sequences, FiniteSets

CONSTANTS Dates,     \* report dates
          Events,    \* audit events
          Reports,   \* the sequences of events a run may find
          Null       \* a count that is not there

VARIABLES runs,      \* the runs table: runs[id]
          audit      \* the audit table: event -> the run that brought it, or 0

vars == <<runs, audit>>

Newest == Len(runs)

\* The first n events of a report.
Prefix(report, n) == {report[i] : i \in {j \in 1..Len(report) : j <= n}}

New(S) == {e \in S : audit[e] = 0}

\* The events of S, each the newest run's unless another run brought it before.
Bring(S) ==
  audit' = [e \in Events |-> IF e \in New(S) THEN Newest ELSE audit[e]]

Verdict(status, inCsv, inserted, duplicate) ==
  /\ runs # <<>>
  /\ runs[Newest].status = "running"
  /\ runs' = [runs EXCEPT ![Newest] =
                [@ EXCEPT !.status = status, !.rowsInCsv = inCsv,
                          !.rowsInserted = inserted, !.rowsDuplicate = duplicate]]

AnotherScheduledOk ==
  \E r \in 1..Len(runs) : /\ runs[r].status = "ok"
                          /\ ~runs[r].manual
                          /\ runs[r].date = runs[Newest].date

Init == /\ runs = <<>>
        /\ audit = [e \in Events |-> 0]

\* A run left without a verdict never gets one once the next is opened.
Open(d, manual) ==
  /\ runs' = Append(runs, [date |-> d, manual |-> manual, status |-> "running",
                           rowsInCsv |-> Null, rowsInserted |-> Null,
                           rowsDuplicate |-> Null])
  /\ UNCHANGED audit

Succeed(report) ==
  LET events == Prefix(report, Len(report))
      inserted == Cardinality(New(events))
  IN  /\ Verdict("ok", Len(report), inserted, Len(report) - inserted)
      /\ runs[Newest].manual \/ ~AnotherScheduledOk
      /\ Bring(events)

FailIngest(report, n) ==
  /\ Verdict("ingest_failed", Null, Null, Null)
  /\ Bring(Prefix(report, n))

Fail(status) ==
  /\ Verdict(status, Null, Null, Null)
  /\ UNCHANGED audit

Next ==
  \/ \E d \in Dates, manual \in BOOLEAN : Open(d, manual)
  \/ \E report \in Reports : Succeed(report)
  \/ \E report \in Reports : \E n \in 0..Len(report) : FailIngest(report, n)
  \/ \E status \in {"run_failure", "ingest_failed"} : Fail(status)

Spec == Init /\ [][Next]_vars
=============================================================================
