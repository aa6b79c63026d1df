----------------------------- MODULE AuditTable -----------------------------
(***************************************************************************)
(* What lands in z_audit_logs_efk: BlueWeb writes its events into a CSV in *)
(* the local time of its host, a run reads the CSV in the zone the         *)
(* operator has configured and inserts it under the hash of each row, and  *)
(* a dry run of the same day says beforehand how many rows that would be   *)
(* (transform.py, dedup.py, sink.py, dryrun.py).                           *)
(*                                                                         *)
(* A run is one step here (RunJob has its statements).  Its report and its *)
(* zone are inputs: the operator may save another zone at any time, and    *)
(* BlueWeb's report of a day can grow.                                     *)
(***************************************************************************)
EXTENDS Transform

CONSTANTS
  HostZone,  \* the zone of the BlueWeb host
  Zones,     \* the operator_timezones that are ever saved
  Reports,   \* the reports BlueWeb gives: [wellFormed, events]
  MaxRuns    \* bound: runs that are tried

\* An event as BlueWeb has it; `utc' is when it happened.
Event == [utc : Int, door : Seq(Chars), description : Seq(Chars), person : Seq(Chars),
          employee : Seq(Chars), card : Seq(Chars), facility : Seq(Chars)]

ASSUME ZonesAssumption == HostZone \in Zone /\ Zones \subseteq Zone
ASSUME ReportsAssumption == Reports \subseteq [wellFormed : BOOLEAN, events : Seq(Event)]
ASSUME MaxRunsAssumption == MaxRuns \in Nat

VARIABLES
  table,  \* the table as its DBA has made it: `fits' the worker's INSERT or not,
          \* dedup_hash `unique' or not
  runs,   \* the runs that had a CSV: their report, zone, status and counts
  rows,   \* the rows: ingest_run_id, the row, and (history) the line of it
  dry     \* the last dry run

vars == <<table, runs, rows, dry>>

Table == [fits : BOOLEAN, unique : BOOLEAN]

\* BlueWeb's CSV line of an event.
Line(event) ==
  [field \in TextFields \cup {"time"} |->
     IF field = "time" THEN Local(HostZone, event.utc) ELSE event[field]]

Csv(report) == [wellFormed |-> report.wellFormed,
                lines |-> [i \in DOMAIN report.events |-> Line(report.events[i])]]

\* transform, of a report in a zone: its rows, if it is not refused.
Read == [p \in Reports \X Zones |-> Rows(p[2], Csv(p[1]))]

Readable == {p \in Reports \X Zones : ~Refused(p[2], Csv(p[1]))}

Stored == {r.row.hash : r \in rows}

Run == [report : Reports, zone : Zones, status : {"ok", "parse_failed", "ingest_failed"},
        inserted : Nat, duplicate : Nat]

NoDryRun == [stage |-> "idle"]

DryRun == {NoDryRun} \cup [stage : {"lookup"}, report : Reports, zone : Zones]
                     \cup [stage : {"shown"}, report : Reports, zone : Zones,
                           insert : Nat, skip : Nat, answered : BOOLEAN, current : BOOLEAN]

TypeOK == /\ table \in Table
          /\ runs \in Seq(Run)
          /\ Len(runs) <= MaxRuns
          /\ \A r \in rows : /\ r.run \in DOMAIN runs
                             /\ <<runs[r.run].report, runs[r.run].zone>> \in Readable
                             /\ r.line \in DOMAIN runs[r.run].report.events
                             /\ r.row = Read[<<runs[r.run].report, runs[r.run].zone>>][r.line]
          /\ dry \in DryRun

Init == /\ table \in Table
        /\ runs = <<>>
        /\ rows = {}
        /\ dry = NoDryRun

-----------------------------------------------------------------------------
(* A run *)

\* Faulty variant: the key keeps out only what another run has stored.
InsertedUnlessStored(read, n) ==
  {i \in 1..n : table.unique => read[i].hash \notin Stored}

\* The lines among the first n that INSERT ... ON DUPLICATE KEY UPDATE id = id
\* adds: with the unique key, the first of each new hash.
Inserted(read, n) ==
  {i \in 1..n : table.unique =>
     /\ read[i].hash \notin Stored
     /\ \A j \in 1..(i - 1) : read[j].hash # read[i].hash}

Ends(report, zone, status, inserted, duplicate) ==
  /\ Len(runs) < MaxRuns
  /\ runs' = Append(runs, [report |-> report, zone |-> zone, status |-> status,
                           inserted |-> inserted, duplicate |-> duplicate])
  /\ UNCHANGED table

Keeps(read, lines) ==
  rows' = rows \cup {[run |-> Len(runs) + 1, line |-> i, row |-> read[i]] : i \in lines}

\* The dry run shown is no longer of this table once a row is added.
Ages(lines) ==
  dry' = IF dry.stage = "shown" /\ lines # {} THEN [dry EXCEPT !.current = FALSE] ELSE dry

RunOk(report, zone) ==
  LET read == Read[<<report, zone>>]
      lines == Inserted(read, Len(read))
  IN  /\ <<report, zone>> \in Readable
      /\ table.fits \/ Len(read) = 0
      /\ Ends(report, zone, "ok", Cardinality(lines), Len(read) - Cardinality(lines))
      /\ Keeps(read, lines)
      /\ Ages(lines)

RunRefused(report, zone) ==
  /\ <<report, zone>> \notin Readable
  /\ Ends(report, zone, "parse_failed", 0, 0)
  /\ UNCHANGED <<rows, dry>>

\* A statement fails: the batches before it are committed with the verdict
\* (RunJob, FailedRunLeavesNoRows), which has no counts.
RunFails(report, zone) ==
  LET read == Read[<<report, zone>>]
  IN  /\ <<report, zone>> \in Readable
      /\ \E sent \in 0..(IF table.fits THEN Len(read) ELSE 0) :
           /\ Keeps(read, Inserted(read, sent))
           /\ Ages(Inserted(read, sent))
      /\ Ends(report, zone, "ingest_failed", 0, 0)

-----------------------------------------------------------------------------
(* A dry run *)

\* dry_run up to the transform; a failed one shows no counts.
DryScrape(report, zone) ==
  /\ dry' = IF <<report, zone>> \notin Readable THEN NoDryRun
            ELSE [stage |-> "lookup", report |-> report, zone |-> zone]
  /\ UNCHANGED <<table, runs, rows>>

\* Faulty variants: all the hashes of the table are subtracted; a lookup that
\* fails leaves nothing to insert.
DryCountsAll(read, existing) ==
  [insert |-> Len(read) - Cardinality(Stored),
   skip |-> Cardinality({i \in 1..Len(read) : read[i].hash \in existing})]

DryLookupPessimist(answered) ==
  LET read == Read[<<dry.report, dry.zone>>]
      skip == {i \in 1..Len(read) : answered => read[i].hash \in Stored}
  IN  /\ dry.stage = "lookup"
      /\ dry' = [stage |-> "shown", report |-> dry.report, zone |-> dry.zone,
                 insert |-> Len(read) - Cardinality(skip), skip |-> Cardinality(skip),
                 answered |-> answered, current |-> TRUE]
      /\ UNCHANGED <<table, runs, rows>>

\* would_skip_duplicate and would_insert
DryCounts(read, existing) ==
  LET skip == Cardinality({i \in 1..Len(read) : read[i].hash \in existing})
  IN  [insert |-> Len(read) - skip, skip |-> skip]

\* _existing_hashes and the counts; a lookup that fails counts nothing as stored,
\* and the answer does not say so.
DryLookup(answered) ==
  LET read == Read[<<dry.report, dry.zone>>]
      counts == DryCounts(read, IF answered THEN Stored ELSE {})
  IN  /\ dry.stage = "lookup"
      /\ dry' = [stage |-> "shown", report |-> dry.report, zone |-> dry.zone,
                 insert |-> counts.insert, skip |-> counts.skip,
                 answered |-> answered, current |-> TRUE]
      /\ UNCHANGED <<table, runs, rows>>

-----------------------------------------------------------------------------

\* The DBA alters the table; the key can be added only where no hash repeats.
AlterTable(shape) ==
  /\ shape.unique => \A r, s \in rows : r.row.hash = s.row.hash => r = s
  /\ table' = shape
  /\ UNCHANGED <<runs, rows, dry>>

Next == \/ \E report \in Reports, zone \in Zones :
             \/ RunOk(report, zone)
             \/ RunRefused(report, zone)
             \/ RunFails(report, zone)
             \/ DryScrape(report, zone)
        \/ \E answered \in BOOLEAN : DryLookup(answered)
        \/ \E shape \in Table : AlterTable(shape)

Spec == Init /\ [][Next]_vars

-----------------------------------------------------------------------------
(* Properties *)

\* What the lines of a report say in a zone, taken from the events and not from
\* the rows.
Tells(zone, event) ==
  [field \in TextFields \cup {"ts"} |->
     IF field = "ts" THEN Localize(zone, Local(HostZone, event.utc)) ELSE Strip(event[field])]

Said == [p \in Reports \X Zones |-> [i \in DOMAIN p[1].events |-> Tells(p[2], p[1].events[i])]]

SaidBy(run) == Said[<<run.report, run.zone>>]

InTable == {SaidBy(runs[r.run])[r.line] : r \in rows}

\* What the separator is not part of.
Plain(said) == \A field \in TextFields : Sep \notin Range(said[field])

(* Every line of an ok run is in the table, as its own row or as one that  *)
(* says the same: the hash never takes two lines that differ for one, but  *)
(* for a line with the separator itself in a text, since dedup_hash joins  *)
(* its fields without escaping it (dedup.py:68).                           *)
EveryLineStored ==
  \A n \in DOMAIN runs : runs[n].status = "ok" =>
    \A said \in Range(SaidBy(runs[n])) : said \in InTable \/ ~Plain(said)

(* As long as nobody drops the unique key, an ok run adds at most one row  *)
(* for each thing that its CSV says and the table does not, and exactly    *)
(* one if no text has the separator in it: a day read again adds its late  *)
(* events only, whatever earlier runs of it did, and blanks around a text  *)
(* make no new event (sink.py:64, transform.py:69).                        *)
OnlyNewLinesAdded ==
  [][\A n \in DOMAIN runs' \ DOMAIN runs :
       LET said == Range(SaidBy(runs'[n]))
       IN  runs'[n].status = "ok" /\ table.unique =>
             /\ runs'[n].inserted <= Cardinality(said \ InTable)
             /\ (\A line \in said : Plain(line)) =>
                  runs'[n].inserted = Cardinality(said \ InTable)]_vars

Complete(report) ==
  /\ report.wellFormed
  /\ \A event \in Range(report.events) :
       Strip(event.door) # <<>> /\ Strip(event.description) # <<>>

(* Read in its own zone no event is refused for its time, and none is      *)
(* moved: a row has the instant of its event, except that of the two       *)
(* passes of a repeated hour the second is taken for the first.  Read in   *)
(* any zone, the stored instant shows the time of the line                 *)
(* (_localize_to_utc).                                                     *)
StoredInstantsTrue ==
  /\ \A n \in DOMAIN runs :
       runs[n].zone = HostZone /\ runs[n].status = "parse_failed" => ~Complete(runs[n].report)
  /\ \A r \in rows :
       LET event == runs[r.run].report.events[r.line]
           zone == runs[r.run].zone
           shown == Local(HostZone, event.utc)
           secondPass == Ambiguous(HostZone, shown) /\ event.utc >= HostZone.at
       IN  /\ Local(zone, r.row.columns.ts) = shown
           /\ zone = HostZone =>
                r.row.columns.ts = IF secondPass
                                   THEN event.utc - (HostZone.before - HostZone.after)
                                   ELSE event.utc

Previewed(run) == /\ run.status = "ok"
                  /\ table.unique
                  /\ dry.stage = "shown"
                  /\ run.report = dry.report
                  /\ run.zone = dry.zone

(* A run of the report and zone of the dry run shown inserts at most what  *)
(* that said, and exactly that if the lookup worked, nothing was added     *)
(* since, no line repeats another and none has the separator in a text.    *)
(* That holds with the unique key only (dry_run's would_insert).           *)
PreviewHolds ==
  [][\A n \in DOMAIN runs' \ DOMAIN runs : Previewed(runs'[n]) =>
       /\ runs'[n].inserted <= dry.insert
       /\ /\ dry.answered /\ dry.current /\ IsInjective(SaidBy(dry))
          /\ \A line \in Range(SaidBy(dry)) : Plain(line)
          =>
            runs'[n].inserted = dry.insert]_vars
=============================================================================
