------------------------------ MODULE PageFlow ------------------------------
(***************************************************************************)
(* The browser flows of the worker: login and navigation (login.py), the   *)
(* event report and its CSV (scrape.py), in the driver of driver.py.  The  *)
(* Runner is the worker thread's flow, one run after the other over one    *)
(* download directory; a request's flow is a dry run (dryrun.py), in a     *)
(* directory of its own, or the login probe of a save (probes.py).  Flows  *)
(* run side by side.                                                       *)
(*                                                                         *)
(* BlueWeb, Chromium, MySQL and the disk are the environment.  BlueWeb     *)
(* shows the main menu to a browser whose profile holds a session, gives   *)
(* one for accepted credentials, and may give one to a browser it trusts   *)
(* for other reasons (SSO, network authentication).  Its results table may be drawn and redrawn without a  *)
(* row or with DataTables' placeholder row until the report comes.         *)
(* Chromium downloads in the background: it may reserve the file name,     *)
(* writes a .crdownload, renames it.  When quit() raises it may live on    *)
(* (Orphan), its download with it.  The disk may refuse to remove a file.  *)
(***************************************************************************)
EXTENDS Integers, FiniteSets

CONSTANTS Runner,       \* the flow of the worker thread
          Requests,     \* the flows of HTTP requests
          Orphan,       \* a browser of the Runner that survived its flow
          Today,        \* the day BlueWeb's date inputs show at first
          RunDates,     \* the dates the queue hands to the Runner: days before Today
          DryDates,     \* the dates that dry runs ask for: days before Today
          EventDays,    \* the days for which BlueWeb has events
          Trusted,      \* the flows whose browsers it may let in as they are
          Null

Days == 1..Today
ReportDates == RunDates \cup DryDates
Flows == {Runner} \cup Requests
Browsers == Flows \cup {Orphan}

\* What a CSV covers, and whether it has been written to its end.
File == [days : SUBSET Days, whole : BOOLEAN]

ASSUME FlowsAssumption == /\ Runner \notin Requests /\ Orphan \notin Flows
                          /\ Trusted \subseteq Flows
ASSUME DaysAssumption == /\ Today \in Nat
                         /\ EventDays \subseteq Days
                         /\ RunDates \cup DryDates \subseteq Days \ {Today}
ASSUME NullAssumption == Null \notin File

VARIABLES
  flow,     \* flow[f]: where the flow stands and what it holds
  cookie,   \* cookie[f]: the session in the profile of f's browser
  page,     \* page[f]: the date inputs of f's Reports page
  table,    \* table[f]: what its results table shows
  csv,      \* csv[f]: "BlueWeb - Reports.csv" in f's directory, or Null
  dead,     \* dead[f]: a .crdownload nobody writes any more in f's directory
  load      \* load[b]: the download of browser b

web == <<page, table>>
disk == <<csv, dead>>
vars == <<flow, cookie, page, table, csv, dead, load>>

Failures == {"nav_failed", "auth_failed", "report_timeout", "download_failed",
             "parse_failed", "ingest_failed"}

\* "result" and "indicator": before the two queries of _outcome; "use" and
\* "record": with MySQL; "quit": about to leave the with block of build_driver;
\* "clean": in dry_run's finally.
Stage == {"open", "form", "menu", "reports", "wipe", "select", "dates", "report",
          "result", "indicator", "csv", "await", "use", "record", "quit", "clean", "over"}

\* Histories: `ambient', BlueWeb let the browser in with neither a session in its
\* profile nor credentials it accepts;
\* `spoilt', something of an earlier run is in the directory or may turn up there;
\* `early', the outcome was taken, or the CSV asked for, before BlueWeb's answer.
Flow == [kind : {"run", "dry", "probe"}, stage : Stage,
         date : ReportDates \cup {Null}, good : BOOLEAN,
         verdict : {"none", "ok", "empty"} \cup Failures,
         file : File \cup {Null},
         ambient : BOOLEAN, spoilt : BOOLEAN, early : BOOLEAN]

\* The results table: no row, DataTables' row for no data while there is no
\* answer yet, that row as the answer, or the rows.
Drafts == {"none", "placeholder"}
Answers == {"empty", "rows"}

Load == [state : {"none", "asked", "begun"}, days : SUBSET Days]

NoLoad == [state |-> "none", days |-> {}]

TypeOK == /\ flow \in [Flows -> Flow]
          /\ cookie \in [Flows -> BOOLEAN]
          /\ page \in [Flows -> [start : Nat, end : Nat]]
          /\ table \in [Flows -> Drafts \cup Answers]
          /\ csv \in [Flows -> File \cup {Null}]
          /\ dead \in [Flows -> BOOLEAN]
          /\ load \in [Browsers -> Load]

NoFlow == [kind |-> "run", stage |-> "over", date |-> Null, good |-> FALSE,
           verdict |-> "none", file |-> Null,
           ambient |-> FALSE, spoilt |-> FALSE, early |-> FALSE]

NewPage == [start |-> Today, end |-> Today]

DatesOf == [run |-> RunDates, dry |-> DryDates, probe |-> {Null}]

KindOf(f) == IF f = Runner THEN {"run"} ELSE {"dry", "probe"}

Init == /\ flow = [f \in Flows |-> NoFlow]
        /\ cookie = [f \in Flows |-> FALSE]
        /\ page = [f \in Flows |-> NewPage]
        /\ table = [f \in Flows |-> "none"]
        /\ csv = [f \in Flows |-> Null]
        /\ dead = [f \in Flows |-> FALSE]
        /\ load = [b \in Browsers |-> NoLoad]

\* Faulty variant: dry runs download into the directory of the runs.
OneDirectory(b) == Runner

\* download_dir: the runs share one, a dry run makes a new one.  A surviving
\* browser goes on in the directory of the runs.
DirOf(b) == IF b = Orphan THEN Runner ELSE b

\* Faulty variant: the profile directory is named after the process.
OneProfile(f) == Runner

\* user_data_dir: a new one for each browser.
ProfileOf(f) == f

At(f, stage) == flow[f].stage = stage
Goto(f, stage) == flow' = [flow EXCEPT ![f].stage = stage]
EndsWith(f, verdict) ==
  flow' = [flow EXCEPT ![f].stage = "quit", ![f].verdict = verdict]

-----------------------------------------------------------------------------
(* Login and navigation *)

Begun(kind, d, good) ==
  [NoFlow EXCEPT !.kind = kind, !.stage = "open", !.date = d, !.good = good]

\* build_driver: a fresh Chromium with a fresh profile, and for a dry run a
\* fresh directory.  `good': BlueWeb accepts the credentials the flow holds.
Start(f, kind, d, good) ==
  /\ At(f, "over")
  /\ kind \in KindOf(f)
  /\ d \in DatesOf[kind]
  /\ flow' = [flow EXCEPT ![f] = Begun(kind, d, good)]
  /\ cookie' = [cookie EXCEPT ![ProfileOf(f)] = FALSE]
  /\ UNCHANGED <<web, disk, load>>

\* The main menu is there: for the session in the profile, or without one.
PassLogin(f) ==
  /\ cookie[ProfileOf(f)] \/ f \in Trusted
  /\ cookie' = [cookie EXCEPT ![ProfileOf(f)] = TRUE]
  /\ flow' = [flow EXCEPT ![f].stage = "reports",
                          ![f].ambient = ~(cookie[ProfileOf(f)] \/ flow[f].good)]

\* S1.a and the fast path: a main menu that is already there, whatever the reason
\* ("existing session, SSO, network auth, cached creds, anything"), skips the form.
Open(f) ==
  /\ At(f, "open")
  /\ PassLogin(f) \/ (Goto(f, "form") /\ UNCHANGED cookie)
  /\ UNCHANGED <<web, disk, load>>

\* S1.b: the form is filled and submitted; BlueWeb opens a session or not.
SubmitForm(f) ==
  /\ At(f, "form")
  /\ cookie' = [cookie EXCEPT ![ProfileOf(f)] = @ \/ flow[f].good]
  /\ Goto(f, "menu")
  /\ UNCHANGED <<web, disk, load>>

\* S1.c: the main menu is taken for the sign that the login worked.
MenuShown(f) ==
  /\ At(f, "menu")
  /\ PassLogin(f)
  /\ UNCHANGED <<web, disk, load>>

\* S2: the Reports page.  The probe has seen enough.
OpenReports(f) ==
  /\ At(f, "reports")
  /\ IF flow[f].kind = "probe" THEN EndsWith(f, "ok") ELSE Goto(f, "wipe")
  /\ UNCHANGED <<cookie, web, disk, load>>

-----------------------------------------------------------------------------
(* The report *)

\* The browsers that have a .crdownload in directory d.
Writers(d) == {b \in Browsers : DirOf(b) = d /\ load[b].state = "begun"}

\* Faulty variant: what an earlier run left stays.
NoWipe(f) ==
  /\ At(f, "wipe")
  /\ Goto(f, "select")
  /\ UNCHANGED <<cookie, web, disk, load>>

\* wipe_download_dir.  Removing a .crdownload ends the download that writes it;
\* a file that cannot be removed is left.
Wipe(f) ==
  LET d == DirOf(f)
  IN  /\ At(f, "wipe")
      /\ csv' \in {csv, [csv EXCEPT ![d] = Null]}
      /\ dead' \in {dead, [dead EXCEPT ![d] = FALSE]}
      /\ load' \in {load, [b \in Browsers |-> IF b \in Writers(d) THEN NoLoad
                                                                   ELSE load[b]]}
      /\ flow' = [flow EXCEPT ![f].stage = "select", ![f].spoilt =
                     \/ csv'[d] # Null \/ dead'[d]
                     \/ \E b \in Browsers : DirOf(b) = d /\ load'[b].state # "none"]
      /\ UNCHANGED <<cookie, web>>

\* S3: the Event report is chosen.
SelectEventReport(f) ==
  /\ At(f, "select")
  /\ Goto(f, "dates")
  /\ UNCHANGED <<cookie, web, disk, load>>

\* S4: both inputs hold the report date, read back before going on.
SetDateRange(f) ==
  /\ At(f, "dates")
  /\ page' = [page EXCEPT ![f] = [start |-> flow[f].date, end |-> flow[f].date]]
  /\ Goto(f, "report")
  /\ UNCHANGED <<cookie, table, disk, load>>

\* What BlueWeb reports on: the days of the range.
ReportDays(f) == page[f].start..page[f].end

\* S6: Get Report is clicked.
GetReport(f) ==
  /\ At(f, "report")
  /\ \E draft \in Drafts : table' = [table EXCEPT ![f] = draft]
  /\ Goto(f, "result")
  /\ UNCHANGED <<cookie, page, disk, load>>

\* _RESULT_NO_ROWS.  A run records it with the browser still open.
FindEmpty(f) ==
  flow' = [flow EXCEPT ![f].stage = IF flow[f].kind = "run" THEN "record" ELSE "quit",
                       ![f].verdict = "empty", ![f].early = table[f] = "placeholder"]

\* Faulty variant: no row is taken for no rows.
FindRowOrEmpty(f) ==
  /\ At(f, "result")
  /\ IF table[f] = "none" THEN FindEmpty(f) ELSE Goto(f, "indicator")
  /\ UNCHANGED <<cookie, web, disk, load>>

\* The first query of _outcome: without any row the wait goes on.
FindRow(f) ==
  /\ At(f, "result")
  /\ table[f] # "none"
  /\ Goto(f, "indicator")
  /\ UNCHANGED <<cookie, web, disk, load>>

\* Faulty variant: the outcome of the wait is taken for the run's status.
ReadOutcomeStatus(f) ==
  /\ At(f, "indicator")
  /\ IF table[f] \in {"placeholder", "empty"} THEN EndsWith(f, "no_rows") ELSE Goto(f, "csv")
  /\ UNCHANGED <<cookie, web, disk, load>>

\* The second query: the row for no data, be it the answer or not, means that the
\* day is empty; anything else in the table by now counts as rows.
ReadOutcome(f) ==
  /\ At(f, "indicator")
  /\ IF table[f] \in {"placeholder", "empty"} THEN FindEmpty(f) ELSE Goto(f, "csv")
  /\ UNCHANGED <<cookie, web, disk, load>>

\* finalize_run of an empty report.
Record(f) ==
  /\ At(f, "record")
  /\ Goto(f, "quit")
  /\ UNCHANGED <<cookie, web, disk, load>>

\* S7: the CSV button exports what the table holds, in the background.  Nobody
\* looks at the table any more.
ClickCsv(f) ==
  LET answered == table[f] \in Answers
  IN  /\ At(f, "csv")
      /\ load' = [load EXCEPT ![f] = [state |-> "asked",
                      days |-> IF answered THEN ReportDays(f) ELSE {}]]
      /\ flow' = [flow EXCEPT ![f].stage = "await", ![f].early = ~answered]
      /\ table' = [table EXCEPT ![f] = "none"]
      /\ UNCHANGED <<cookie, page, disk>>

Crdownload(d) == dead[d] \/ Writers(d) # {}

\* _download_ready
DownloadReady(d) == csv[d] # Null /\ ~Crdownload(d)

\* The poll finds the file.  A run uses it with the browser still open, a dry
\* run quits the browser first.
TakeFile(f) ==
  /\ At(f, "await")
  /\ DownloadReady(DirOf(f))
  /\ Goto(f, IF flow[f].kind = "run" THEN "use" ELSE "quit")
  /\ UNCHANGED <<cookie, web, disk, load>>

\* transform reads the file and the rows are stored or previewed.  A run then
\* unlinks it, and tolerates that it cannot.
Use(f) ==
  LET d == DirOf(f)
  IN  /\ At(f, "use")
      /\ csv[d] # Null
      /\ flow' = [flow EXCEPT
                    ![f].stage = IF flow[f].kind = "run" THEN "quit" ELSE "clean",
                    ![f].verdict = "ok", ![f].file = csv[d]]
      /\ \/ flow[f].kind = "run" /\ csv' = [csv EXCEPT ![d] = Null]
         \/ UNCHANGED csv
      /\ UNCHANGED <<cookie, web, dead, load>>

-----------------------------------------------------------------------------
(* Failures and the end of a flow *)

\* The statuses a flow may fail with at each stage: those of the RunFailure
\* raised there, and ingest_failed where a WebDriverException gets through.
StatusesAt == [open    |-> {"nav_failed", "ingest_failed"},
               form    |-> {"nav_failed", "ingest_failed"},
               menu    |-> {"auth_failed", "ingest_failed"},
               reports |-> {"nav_failed", "ingest_failed"},
               wipe    |-> {"download_failed"},
               select  |-> {"nav_failed", "ingest_failed"},
               dates   |-> {"nav_failed", "ingest_failed"},
               report  |-> {"nav_failed", "ingest_failed"},
               result  |-> {"report_timeout", "ingest_failed"},
               indicator |-> {"ingest_failed"},
               csv     |-> {"download_failed", "ingest_failed"},
               await   |-> {"download_failed"},
               use     |-> {"parse_failed", "ingest_failed"},
               record  |-> {"ingest_failed"}]

Failed(f, status) ==
  [flow[f] EXCEPT
     !.stage = IF At(f, "use") /\ flow[f].kind = "dry" THEN "clean" ELSE "quit",
     !.verdict = status]

\* Faulty variant: the poll for the file has no deadline.
FailsButWaits(f, status) ==
  /\ flow[f].stage \in DOMAIN StatusesAt \ {"await"}
  /\ status \in StatusesAt[flow[f].stage]
  /\ flow' = [flow EXCEPT ![f] = Failed(f, status)]
  /\ UNCHANGED <<cookie, web, disk, load>>

\* A wait runs into its timeout, an element is missing, the browser raises.
Fails(f, status) ==
  /\ flow[f].stage \in DOMAIN StatusesAt
  /\ status \in StatusesAt[flow[f].stage]
  /\ flow' = [flow EXCEPT ![f] = Failed(f, status)]
  /\ UNCHANGED <<cookie, web, disk, load>>

\* A dry run reads its file after quit, or goes to its finally.  A flow that is
\* over has told its verdict.
AfterQuit(f) ==
  IF flow[f].kind # "dry" THEN NoFlow
  ELSE [flow[f] EXCEPT !.stage = IF flow[f].verdict = "none" THEN "use" ELSE "clean"]

\* Leaving build_driver: quit, and the profile is removed.  A download in
\* progress ends with the browser and may leave its .crdownload behind.
Quit(f) ==
  /\ At(f, "quit")
  /\ flow' = [flow EXCEPT ![f] = AfterQuit(f)]
  /\ cookie' = [cookie EXCEPT ![ProfileOf(f)] = FALSE]
  /\ load' = [load EXCEPT ![f] = NoLoad]
  /\ \/ load[f].state = "begun" /\ dead' = [dead EXCEPT ![DirOf(f)] = TRUE]
     \/ UNCHANGED dead
  /\ page' = [page EXCEPT ![f] = NewPage]
  /\ table' = [table EXCEPT ![f] = "none"]
  /\ UNCHANGED csv

\* quit() raises, which is swallowed, and the browser of the run lives on.  (One
\* of a dry run would write to a directory that goes; one that downloads nothing
\* does no harm: for these, Quit.)
QuitRaises(f) ==
  /\ At(f, "quit")
  /\ flow[f].kind = "run"
  /\ load[f].state # "none"
  /\ load[Orphan].state = "none"
  /\ flow' = [flow EXCEPT ![f] = AfterQuit(f)]
  /\ cookie' = [cookie EXCEPT ![ProfileOf(f)] = FALSE]
  /\ load' = [load EXCEPT ![Orphan] = load[f], ![f] = NoLoad]
  /\ page' = [page EXCEPT ![f] = NewPage]
  /\ table' = [table EXCEPT ![f] = "none"]
  /\ UNCHANGED disk

\* The finally of dry_run: the directory goes.
Clean(f) ==
  /\ At(f, "clean")
  /\ flow' = [flow EXCEPT ![f] = NoFlow]
  /\ csv' = [csv EXCEPT ![DirOf(f)] = Null]
  /\ dead' = [dead EXCEPT ![DirOf(f)] = FALSE]
  /\ UNCHANGED <<cookie, web, load>>

-----------------------------------------------------------------------------
(* The environment *)

\* BlueWeb has been asked and the table is still looked at.
Asked(f) == flow[f].stage \in {"result", "indicator", "csv"} /\ table[f] \in Drafts

\* The table is redrawn before the answer is there.
Redraw(f) ==
  /\ Asked(f)
  /\ \E draft \in Drafts \ {table[f]} : table' = [table EXCEPT ![f] = draft]
  /\ UNCHANGED <<flow, cookie, page, disk, load>>

\* The answer: the events of the range, or DataTables' row for none.
Answer(f) ==
  /\ Asked(f)
  /\ table' = [table EXCEPT ![f] =
                  IF ReportDays(f) \cap EventDays = {} THEN "empty" ELSE "rows"]
  /\ UNCHANGED <<flow, cookie, page, disk, load>>

\* Chromium begins to write; it may reserve the name with an unfinished file.
DownloadBegins(b) ==
  LET d == DirOf(b)
  IN  /\ load[b].state = "asked"
      /\ load' = [load EXCEPT ![b].state = "begun"]
      /\ \/ csv[d] = Null /\ csv' = [csv EXCEPT ![d] = [days |-> load[b].days,
                                                        whole |-> FALSE]]
         \/ UNCHANGED csv
      /\ UNCHANGED <<flow, cookie, web, dead>>

\* It ends: the file gets its name, or another one if the name is taken.
DownloadEnds(b) ==
  LET d == DirOf(b)
  IN  /\ load[b].state = "begun"
      /\ load' = [load EXCEPT ![b] = NoLoad]
      /\ \/ csv' = [csv EXCEPT ![d] = [days |-> load[b].days, whole |-> TRUE]]
         \/ csv[d] # Null /\ csv[d].whole /\ UNCHANGED csv
      /\ UNCHANGED <<flow, cookie, web, dead>>

\* The container dies.  The directory of the runs may be kept or not (a tmpfs).
Crash ==
  /\ \E f \in Flows : ~At(f, "over")
  /\ flow' = [f \in Flows |-> NoFlow]
  /\ cookie' = [f \in Flows |-> FALSE]
  /\ load' = [b \in Browsers |-> NoLoad]
  /\ \E kept \in BOOLEAN :
       /\ csv' = [f \in Flows |-> IF kept /\ f = Runner THEN csv[f] ELSE Null]
       /\ dead' = [f \in Flows |-> kept /\ f = Runner /\ Crdownload(f)]
  /\ page' = [f \in Flows |-> NewPage]
  /\ table' = [f \in Flows |-> "none"]

FlowStep(f) ==
  \/ Open(f)
  \/ SubmitForm(f)
  \/ MenuShown(f)
  \/ OpenReports(f)
  \/ Wipe(f)
  \/ SelectEventReport(f)
  \/ SetDateRange(f)
  \/ GetReport(f)
  \/ FindRow(f)
  \/ ReadOutcome(f)
  \/ Record(f)
  \/ ClickCsv(f)
  \/ TakeFile(f)
  \/ Use(f)
  \/ \E status \in Failures : Fails(f, status)
  \/ Quit(f)
  \/ QuitRaises(f)
  \/ Clean(f)

Next ==
  \/ \E f \in Flows, kind \in {"run", "dry", "probe"},
        d \in ReportDates \cup {Null}, good \in BOOLEAN : Start(f, kind, d, good)
  \/ \E f \in Flows : FlowStep(f) \/ Redraw(f) \/ Answer(f)
  \/ \E b \in Browsers : DownloadBegins(b) \/ DownloadEnds(b)
  \/ Crash

Spec == Init /\ [][Next]_vars

\* The flow is with MySQL: connect sets no read_timeout.
InMySQL(f) == flow[f].stage \in {"use", "record"}

\* Every wait for BlueWeb and for the download has a deadline, so a flow that is
\* not with MySQL has a next step, and its thread gets to take it.  Nothing is
\* assumed of BlueWeb, of Chromium or of MySQL.
FairSpec == Spec /\ \A f \in Flows : WF_vars(~InMySQL(f) /\ FlowStep(f))

-----------------------------------------------------------------------------
(* Properties *)

Own(f) == [days |-> {flow[f].date}, whole |-> TRUE]

\* The export of a table that the answer has not reached.
Nothing == [days |-> {}, whole |-> TRUE]

OwnReport(f, file) == file = Own(f) \/ (flow[f].early /\ file = Nothing)

\* The CSV that is parsed is the whole report of the flow's own date, whatever
\* flows run beside it and ran before it, or holds nothing at all because it was
\* asked for before the answer.  A run, never a dry run, has one exception: its
\* wipe met a file it could not remove or a browser that had outlived an earlier
\* run (wipe_download_dir, _download_ready, set_date_range, the directory of
\* dry_run).
ParsesOwnReport ==
  \A f \in Flows : flow[f].file # Null =>
    OwnReport(f, flow[f].file) \/ (f = Runner /\ flow[f].spoilt)

\* "The download dir is wiped before every run", and a fresh process per run
\* "eliminates entire classes of state-leak bugs": nothing of another date is
\* ever parsed.
NothingLeaksBetweenRuns ==
  \A f \in Flows : flow[f].file # Null => flow[f].file.days \subseteq {flow[f].date}

\* An empty report is recorded as success, and the date never asked for again.  A
\* date with events is found empty only if _outcome's second query met a row for
\* no data that was there before BlueWeb's answer: no date range, no table without
\* a row and no answer between the two queries leads to it
\* (click_get_report_and_wait, set_date_range).
EmptyMeansNoEvents ==
  \A f \in Flows :
    flow[f].verdict = "empty" /\ flow[f].date \in EventDays => flow[f].early

\* A flow gets past the login only with credentials that BlueWeb accepts, or if
\* BlueWeb itself lets its browser in without any: a failure of a later step is
\* otherwise never one of the credentials, and no flow ever gets in on the session
\* of another one beside it (build_driver's profile, the fast path).
LoginProvesCredentials ==
  \A f \in Flows :
    flow[f].verdict \in {"ok", "empty", "report_timeout", "download_failed",
                         "parse_failed"} => flow[f].good \/ flow[f].ambient

\* A file found complete is still there when it is read: no other flow's wipe
\* or clean-up takes it away in between.
TakenFileStays ==
  \A f \in Flows : At(f, "use") => csv[DirOf(f)] # Null

\* Every flow comes to its end, again and again, even if BlueWeb never answers and
\* no download ever finishes, unless MySQL keeps it waiting for good.
FlowsEnd ==
  \A f \in Flows : []<>At(f, "over") \/ <>[]InMySQL(f)
=============================================================================
