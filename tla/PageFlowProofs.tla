--------------------------- MODULE PageFlowProofs ---------------------------
(***************************************************************************)
(* What TLAPS proves of the browser flows, for every set of requests, every *)
(* calendar and every set of days with events.                             *)
(***************************************************************************)
EXTENDS PageFlow, TLAPS

USE FlowsAssumption, DaysAssumption, NullAssumption

-----------------------------------------------------------------------------
(* The inductive invariant: what holds of each flow and its directory *)

Early == {"open", "form", "menu", "reports"}
Report == {"select", "dates", "report", "result", "indicator", "csv"}
Working == Report \cup {"wipe", "await", "use"}

\* The file has been found and not been read yet.
Pending(f) == At(f, "use") \/ (At(f, "quit") /\ flow[f].verdict = "none")

KindMatches(f) ==
  /\ ~At(f, "over") => flow[f].kind \in KindOf(f)
  /\ flow[f].stage \in Working \/ Pending(f) \/ At(f, "clean") => flow[f].kind # "probe"
  /\ At(f, "record") => flow[f].verdict = "empty"

\* A session comes from accepted credentials or from BlueWeb's trust, which shows
\* at the login only, and nobody gets on without one.
SessionEarned(f) ==
  /\ cookie[f] => flow[f].good \/ flow[f].ambient
  /\ flow[f].stage \in {"open", "form", "menu"} => ~flow[f].ambient
  /\ flow[f].stage \in {"clean", "over"} \/ (At(f, "use") /\ flow[f].kind = "dry") => ~cookie[f]
  /\ At(f, "reports") \/ flow[f].stage \in Working \/ Pending(f) =>
       flow[f].good \/ flow[f].ambient
  /\ flow[f].verdict \in {"ok", "empty", "report_timeout", "download_failed",
                          "parse_failed"} => flow[f].good \/ flow[f].ambient

\* The date inputs show the date of the flow when Get Report is clicked, so the
\* answer is that date's.
DatesSet(f) ==
  /\ flow[f].stage \in Early /\ flow[f].kind # "probe" => flow[f].date \in ReportDates
  /\ flow[f].stage \in Working \/ Pending(f) => flow[f].date \in ReportDates
  /\ flow[f].stage \in {"report", "result", "indicator", "csv"} =>
       page[f] = [start |-> flow[f].date, end |-> flow[f].date]
  /\ flow[f].stage \in {"result", "indicator", "csv"} /\ table[f] = "empty" =>
       flow[f].date \notin EventDays
  /\ flow[f].verdict = "empty" /\ flow[f].date \in EventDays => flow[f].early

\* No browser downloads into f's directory...
Quiet(f) == /\ load[f].state = "none"
            /\ f = Runner => load[Orphan].state = "none"

\* ... and nothing is in it.
Fresh(f) == csv[f] = Null /\ ~dead[f] /\ Quiet(f)

\* The days that the export of a flow may cover.
Exported(f, days) == days = {flow[f].date} \/ (flow[f].early /\ days = {})

\* What may be in the directory while the flow waits for its own download.
OwnDownload(f) ==
  /\ ~dead[f]
  /\ f = Runner => load[Orphan].state = "none"
  /\ load[f].state # "none" => Exported(f, load[f].days)
  /\ load[f].state = "none" => csv[f] = Null \/ OwnReport(f, csv[f])
  /\ load[f].state = "asked" => csv[f] = Null
  /\ load[f].state = "begun" => csv[f] = Null \/ ~csv[f].whole \/ OwnReport(f, csv[f])

\* The directory of a flow that is not spoilt, from its wipe to its last read.
DirectoryOwned(f) ==
  ~flow[f].spoilt =>
    /\ flow[f].stage \in Report => Fresh(f)
    /\ At(f, "await") => OwnDownload(f)
    /\ Pending(f) => OwnReport(f, csv[f]) /\ Quiet(f)

\* A request finds its directory new.
RequestFresh(f) ==
  f # Runner =>
    /\ ~flow[f].spoilt
    /\ flow[f].stage \in Early \cup {"wipe", "over"} => Fresh(f)
    /\ flow[f].kind = "probe" => Fresh(f)
    /\ At(f, "clean") => load[f].state = "none"

\* What was found is not taken away, and what was read was f's own.
FileHeld(f) ==
  /\ Pending(f) => csv[f] # Null
  /\ flow[f].stage \in Early \cup Working \/ Pending(f) =>
       flow[f].file = Null /\ flow[f].verdict = "none"
  /\ flow[f].file # Null => OwnReport(f, flow[f].file) \/ (f = Runner /\ flow[f].spoilt)

FlowOK(f) == /\ KindMatches(f)
             /\ SessionEarned(f)
             /\ DatesSet(f)
             /\ DirectoryOwned(f)
             /\ RequestFresh(f)
             /\ FileHeld(f)

IInv == TypeOK /\ \A f \in Flows : FlowOK(f)

-----------------------------------------------------------------------------
(* Facts about directories, and the frame of a step *)

\* A date asked for is a day, and a day is a number.
LEMMA DatesAreDays ==
  ASSUME NEW d \in ReportDates
  PROVE  d \in Nat
<1>1. d \in 1..Today
  BY DEF Days, ReportDates
<1>2. Today \in Nat
  OBVIOUS
<1> QED
  BY <1>1, <1>2

\* Which directory a browser downloads into.
LEMMA Directories ==
  /\ Runner \in Flows /\ Orphan \in Browsers /\ Orphan \notin Flows
  /\ \A f \in Flows : f \in Browsers /\ DirOf(f) = f /\ ProfileOf(f) = f
  /\ DirOf(Orphan) = Runner
  /\ \A b \in Browsers : b \in Flows \/ b = Orphan
BY DEF Flows, Browsers, DirOf, ProfileOf

\* The browsers that write into the directory of a flow are its own and, for
\* the Runner, the survivor.
LEMMA WritersAre ==
  ASSUME NEW f \in Flows
  PROVE  /\ \A b \in Browsers : DirOf(b) = f <=> b = f \/ (b = Orphan /\ f = Runner)
         /\ (\E b \in Browsers : DirOf(b) = f /\ load[b].state # "none") <=> ~Quiet(f)
         /\ Writers(f) = {} <=> /\ load[f].state # "begun"
                                /\ f = Runner => load[Orphan].state # "begun"
<1>1. \A b \in Browsers : DirOf(b) = f <=> b = f \/ (b = Orphan /\ f = Runner)
  BY Directories
<1> QED
  BY <1>1, Directories DEF Quiet, Writers

\* A step that touches nothing of a flow leaves the flow as it should be.
LEMMA Frame ==
  ASSUME NEW g \in Flows, FlowOK(g),
         flow'[g] = flow[g], cookie'[g] = cookie[g], page'[g] = page[g], table'[g] = table[g],
         csv'[g] = csv[g], dead'[g] = dead[g], load'[g] = load[g],
         g = Runner => load'[Orphan] = load[Orphan]
  PROVE  FlowOK(g)'
BY DEF FlowOK, KindMatches, SessionEarned, DatesSet, DirectoryOwned, RequestFresh,
       FileHeld, At, Pending, Fresh, Quiet, OwnDownload, Exported, Own, Nothing,
       OwnReport, KindOf

\* The frame of a step in one flow's directory: only there does the surviving
\* browser count.
LEMMA StepFrame ==
  ASSUME IInv, NEW f \in Flows, TypeOK', FlowOK(f)',
         f # Runner => load'[Orphan] = load[Orphan],
         \A g \in Flows \ {f} :
           /\ flow'[g] = flow[g] /\ cookie'[g] = cookie[g] /\ page'[g] = page[g]
           /\ table'[g] = table[g]
           /\ csv'[g] = csv[g] /\ dead'[g] = dead[g] /\ load'[g] = load[g]
  PROVE  IInv'
BY Frame DEF IInv

\* The same for a step of one flow that leaves cookies, pages and disk alone.
LEMMA FlowFrame ==
  ASSUME IInv, NEW f \in Flows, NEW r \in Flow, flow' = [flow EXCEPT ![f] = r],
         UNCHANGED <<cookie, web, disk, load>>, FlowOK(f)'
  PROVE  IInv'
<1>1. TypeOK'
  BY DEF IInv, TypeOK, disk, web
<1>2. ASSUME NEW g \in Flows, g # f
      PROVE  FlowOK(g)'
  BY <1>2, Frame DEF IInv, TypeOK, disk, web
<1> QED
  BY <1>1, <1>2 DEF IInv

-----------------------------------------------------------------------------
(* The steps of a flow that change nothing but the flow *)

\* Whoever gets in without good credentials was let in by BlueWeb.
LEMMA PassLoginKeeps ==
  ASSUME IInv, NEW f \in Flows, At(f, "open") \/ At(f, "menu"), PassLogin(f),
         UNCHANGED <<web, disk, load>>
  PROVE  IInv'
<1> DEFINE ambient == ~(cookie[ProfileOf(f)] \/ flow[f].good)
           r == [flow[f] EXCEPT !.stage = "reports", !.ambient = ambient]
<1>1. flow[f] \in Flow /\ FlowOK(f) /\ TypeOK
  BY DEF IInv, TypeOK
<1>2. ambient \in BOOLEAN /\ (~ambient => flow[f].good)
  BY <1>1, Directories DEF FlowOK, SessionEarned, At
<1>3. flow' = [flow EXCEPT ![f].stage = "reports", ![f].ambient = ambient]
  BY DEF PassLogin
<1>4. cookie' = [cookie EXCEPT ![f] = TRUE]
  BY Directories DEF PassLogin
<1> HIDE DEF ambient
<1>5. flow' = [flow EXCEPT ![f] = r]
  BY <1>3
<1>6. r \in Flow
  BY <1>1, <1>2 DEF Flow, Stage
<1>7. flow'[f] = r
  BY <1>5 DEF IInv, TypeOK
<1>8. TypeOK'
  BY <1>1, <1>4, <1>5, <1>6 DEF TypeOK, web, disk
<1>9. FlowOK(f)'
  BY <1>1, <1>2, <1>7, Directories
  DEF Flow, disk, web, At, Goto, FlowOK, KindMatches, SessionEarned,
      DatesSet, DirectoryOwned, RequestFresh, FileHeld, Pending, Fresh, Quiet, OwnDownload,
      Exported, Own, Nothing, OwnReport, KindOf, Early, Report, Working
<1> QED
  BY <1>1, <1>4, <1>5, <1>8, <1>9, StepFrame DEF TypeOK, web, disk

\* The fast path, or the form.
LEMMA OpenKeeps ==
  ASSUME IInv, NEW f \in Flows, Open(f)
  PROVE  IInv'
<1> DEFINE r == [flow[f] EXCEPT !.stage = "form"]
<1>1. flow[f] \in Flow /\ FlowOK(f)
  BY DEF IInv, TypeOK
<1>2. CASE PassLogin(f)
  BY <1>2, PassLoginKeeps DEF Open
<1>3. CASE Goto(f, "form") /\ UNCHANGED cookie
  <2>1. r \in Flow /\ flow' = [flow EXCEPT ![f] = r]
    BY <1>1, <1>3 DEF Goto, Flow, Stage
  <2>2. flow'[f] = r
    BY <2>1 DEF IInv, TypeOK
  <2>3. FlowOK(f)'
    BY <1>1, <1>3, <2>2, Directories
    DEF Open, Flow, disk, web, At, Goto, FlowOK, KindMatches, SessionEarned,
      DatesSet, DirectoryOwned, RequestFresh, FileHeld, Pending, Fresh, Quiet, OwnDownload,
      Exported, Own, Nothing, OwnReport, KindOf, Early, Report, Working
  <2> QED
    BY <1>3, <2>1, <2>3, FlowFrame DEF Open
<1> QED
  BY <1>2, <1>3 DEF Open

\* So it is with the main menu after the form.
LEMMA MenuKeeps ==
  ASSUME IInv, NEW f \in Flows, MenuShown(f)
  PROVE  IInv'
BY PassLoginKeeps DEF MenuShown

\* The probe ends here, with the credentials that got it so far.
LEMMA ReportsKeeps ==
  ASSUME IInv, NEW f \in Flows, OpenReports(f)
  PROVE  IInv'
<1> DEFINE r == IF flow[f].kind = "probe"
               THEN [flow[f] EXCEPT !.stage = "quit", !.verdict = "ok"]
               ELSE [flow[f] EXCEPT !.stage = "wipe"]
<1>1. flow[f] \in Flow /\ FlowOK(f)
  BY DEF IInv, TypeOK
<1>2. r \in Flow /\ flow' = [flow EXCEPT ![f] = r]
  BY <1>1 DEF IInv, TypeOK, OpenReports, Goto, EndsWith, Flow, Stage
<1>3. flow'[f] = r
  BY <1>2 DEF IInv, TypeOK
<1>4. FlowOK(f)'
  BY <1>1, <1>2, <1>3, Directories, WritersAre
    DEF IInv, TypeOK, OpenReports, Flow, disk, web, At, Goto, EndsWith, FlowOK,
        KindMatches, SessionEarned, DatesSet, DirectoryOwned, RequestFresh, FileHeld,
        Pending, Fresh, Quiet, OwnDownload, Exported, Own, Nothing, OwnReport,
        KindOf, Early, Report, Working
<1> QED
  BY <1>2, <1>4, FlowFrame DEF OpenReports

\* Choosing the report changes nothing else.
LEMMA SelectKeeps ==
  ASSUME IInv, NEW f \in Flows, SelectEventReport(f)
  PROVE  IInv'
<1> DEFINE r == [flow[f] EXCEPT !.stage = "dates"]
<1>1. flow[f] \in Flow /\ FlowOK(f)
  BY DEF IInv, TypeOK
<1>2. r \in Flow /\ flow' = [flow EXCEPT ![f] = r]
  BY <1>1 DEF IInv, TypeOK, SelectEventReport, Goto, EndsWith, Flow, Stage
<1>3. flow'[f] = r
  BY <1>2 DEF IInv, TypeOK
<1>4. FlowOK(f)'
  BY <1>1, <1>2, <1>3, Directories, WritersAre
    DEF IInv, TypeOK, SelectEventReport, Flow, disk, web, At, Goto, EndsWith, FlowOK,
        KindMatches, SessionEarned, DatesSet, DirectoryOwned, RequestFresh, FileHeld,
        Pending, Fresh, Quiet, OwnDownload, Exported, Own, Nothing, OwnReport,
        KindOf, Early, Report, Working
<1> QED
  BY <1>2, <1>4, FlowFrame DEF SelectEventReport

\* A row of whatever kind is there.
LEMMA FindRowKeeps ==
  ASSUME IInv, NEW f \in Flows, FindRow(f)
  PROVE  IInv'
<1> DEFINE r == [flow[f] EXCEPT !.stage = "indicator"]
<1>1. flow[f] \in Flow /\ FlowOK(f)
  BY DEF IInv, TypeOK
<1>2. r \in Flow /\ flow' = [flow EXCEPT ![f] = r]
  BY <1>1 DEF IInv, TypeOK, FindRow, Goto, EndsWith, Flow, Stage
<1>3. flow'[f] = r
  BY <1>2 DEF IInv, TypeOK
<1>4. FlowOK(f)'
  BY <1>1, <1>2, <1>3, Directories, WritersAre
    DEF IInv, TypeOK, FindRow, Flow, disk, web, At, Goto, EndsWith, FlowOK,
        KindMatches, SessionEarned, DatesSet, DirectoryOwned, RequestFresh, FileHeld,
        Pending, Fresh, Quiet, OwnDownload, Exported, Own, Nothing, OwnReport,
        KindOf, Early, Report, Working
<1> QED
  BY <1>2, <1>4, FlowFrame DEF FindRow

\* The row for no data is the answer, or it is not, which makes the flow an early one.
LEMMA ReadOutcomeKeeps ==
  ASSUME IInv, NEW f \in Flows, ReadOutcome(f)
  PROVE  IInv'
<1> DEFINE r == IF table[f] \in {"placeholder", "empty"}
               THEN [flow[f] EXCEPT !.stage = IF flow[f].kind = "run" THEN "record" ELSE "quit",
                                    !.verdict = "empty", !.early = table[f] = "placeholder"]
               ELSE [flow[f] EXCEPT !.stage = "csv"]
<1>1. flow[f] \in Flow /\ FlowOK(f)
  BY DEF IInv, TypeOK
<1>2. r \in Flow /\ flow' = [flow EXCEPT ![f] = r]
  BY ZenonT(60), <1>1 DEF IInv, TypeOK, ReadOutcome, FindEmpty, Goto, EndsWith, Flow, Stage
<1>3. flow'[f] = r
  BY <1>2 DEF IInv, TypeOK
<1>4. FlowOK(f)'
  BY <1>1, <1>2, <1>3, Directories, WritersAre
    DEF IInv, TypeOK, ReadOutcome, FindEmpty, Flow, disk, web, At, Goto, EndsWith,
        FlowOK, KindMatches, SessionEarned, DatesSet, DirectoryOwned, RequestFresh,
        FileHeld, Pending, Fresh, Quiet, OwnDownload, Exported, Own, Nothing,
        OwnReport, KindOf, Early, Report, Working
<1> QED
  BY <1>2, <1>4, FlowFrame DEF ReadOutcome

\* An empty report has no file.
LEMMA RecordKeeps ==
  ASSUME IInv, NEW f \in Flows, Record(f)
  PROVE  IInv'
<1> DEFINE r == [flow[f] EXCEPT !.stage = "quit"]
<1>1. flow[f] \in Flow /\ FlowOK(f)
  BY DEF IInv, TypeOK
<1>2. r \in Flow /\ flow' = [flow EXCEPT ![f] = r]
  BY <1>1 DEF IInv, TypeOK, Record, Goto, EndsWith, Flow, Stage
<1>3. flow'[f] = r
  BY <1>2 DEF IInv, TypeOK
<1>4. FlowOK(f)'
  BY <1>1, <1>2, <1>3, Directories, WritersAre
    DEF IInv, TypeOK, Record, Flow, disk, web, At, Goto, EndsWith, FlowOK,
        KindMatches, SessionEarned, DatesSet, DirectoryOwned, RequestFresh, FileHeld,
        Pending, Fresh, Quiet, OwnDownload, Exported, Own, Nothing, OwnReport,
        KindOf, Early, Report, Working
<1> QED
  BY <1>2, <1>4, FlowFrame DEF Record

\* With no .crdownload the file is whole, and nobody writes any more.
LEMMA TakeKeeps ==
  ASSUME IInv, NEW f \in Flows, TakeFile(f)
  PROVE  IInv'
<1> DEFINE r == [flow[f] EXCEPT !.stage =
               IF flow[f].kind = "run" THEN "use" ELSE "quit"]
<1>1. flow[f] \in Flow /\ FlowOK(f)
  BY DEF IInv, TypeOK
<1>2. r \in Flow /\ flow' = [flow EXCEPT ![f] = r]
  BY <1>1 DEF IInv, TypeOK, TakeFile, Goto, EndsWith, Flow, Stage
<1>3. flow'[f] = r
  BY <1>2 DEF IInv, TypeOK
<1>4. FlowOK(f)'
  BY <1>1, <1>2, <1>3, Directories, WritersAre
    DEF IInv, TypeOK, TakeFile, Flow, disk, web, At, Goto, EndsWith, FlowOK,
        KindMatches, SessionEarned, DatesSet, DirectoryOwned, RequestFresh, FileHeld,
        Pending, Fresh, Quiet, OwnDownload, Exported, Own, Nothing, OwnReport,
        KindOf, Early, Report, Working, DownloadReady, Crdownload, Load, File
<1> QED
  BY <1>2, <1>4, FlowFrame DEF TakeFile

\* A status of a later step is not reached without credentials.
LEMMA FailsKeeps ==
  ASSUME IInv, NEW f \in Flows, NEW status \in Failures, Fails(f, status)
  PROVE  IInv'
<1> DEFINE r == Failed(f, status)
<1>1. flow[f] \in Flow /\ FlowOK(f)
  BY DEF IInv, TypeOK
<1>2. r \in Flow /\ flow' = [flow EXCEPT ![f] = r]
  BY <1>1 DEF Fails, Failed, Flow, Stage
<1>3. flow'[f] = r
  BY <1>2 DEF IInv, TypeOK
<1>4. /\ flow[f].stage \in Early \cup Working \cup {"record"}
      /\ status \in {"report_timeout", "download_failed", "parse_failed"}
           => flow[f].stage \in Working
  BY DEF Fails, StatusesAt, Early, Working, Report
<1>5. /\ flow'[f].verdict = status /\ flow'[f].kind = flow[f].kind
      /\ flow'[f].good = flow[f].good /\ flow'[f].ambient = flow[f].ambient
      /\ flow'[f].file = flow[f].file /\ flow'[f].spoilt = flow[f].spoilt
      /\ flow'[f].date = flow[f].date /\ flow'[f].early = flow[f].early
      /\ flow'[f].stage = IF At(f, "use") /\ flow[f].kind = "dry" THEN "clean" ELSE "quit"
      /\ UNCHANGED <<cookie, web, csv, dead, load>>
  <2> DEFINE stage == IF At(f, "use") /\ flow[f].kind = "dry" THEN "clean" ELSE "quit"
  <2>1. flow'[f] = [flow[f] EXCEPT !.stage = stage, !.verdict = status]
    BY <1>3 DEF Failed
  <2> HIDE DEF stage
  <2>2. /\ flow'[f].verdict = status /\ flow'[f].kind = flow[f].kind
        /\ flow'[f].good = flow[f].good /\ flow'[f].ambient = flow[f].ambient
        /\ flow'[f].file = flow[f].file /\ flow'[f].spoilt = flow[f].spoilt
        /\ flow'[f].date = flow[f].date /\ flow'[f].early = flow[f].early
        /\ flow'[f].stage = stage
    BY <1>1, <2>1 DEF Flow
  <2> QED
    BY <2>2 DEF stage, Fails, disk
<1>6. ~Pending(f)'
  BY <1>5 DEF Pending, At, Failures
<1>7. KindMatches(f)' /\ SessionEarned(f)' /\ DatesSet(f)' /\ DirectoryOwned(f)' /\ FileHeld(f)'
  BY <1>1, <1>4, <1>5, <1>6
  DEF FlowOK, KindMatches, SessionEarned, DatesSet, DirectoryOwned, FileHeld, At, KindOf,
      Early, Report, Working, Failures, OwnReport, Own, Nothing, web
<1>8. RequestFresh(f)'
  BY <1>1, <1>4, <1>5
    DEF FlowOK, RequestFresh, DirectoryOwned, Pending, Fresh, Quiet, At, Early,
        Working, Report
<1>9. FlowOK(f)'
  BY <1>7, <1>8 DEF FlowOK
<1> QED
  BY <1>2, <1>9, FlowFrame DEF Fails

-----------------------------------------------------------------------------
(* The steps that change a page, a profile or a directory *)

\* A flow starts without a session; a request's directory is new.
LEMMA StartKeeps ==
  ASSUME IInv, NEW f \in Flows, NEW kind, NEW d \in ReportDates \cup {Null},
         NEW good \in BOOLEAN, Start(f, kind, d, good)
  PROVE  IInv'
<1> DEFINE r == Begun(kind, d, good)
<1>1. flow[f] \in Flow /\ FlowOK(f) /\ TypeOK
  BY DEF IInv, TypeOK
<1>2. DirOf(f) = f /\ ProfileOf(f) = f /\ f \in Browsers /\ Orphan # f
  BY Directories
<1>3. r \in Flow /\ flow' = [flow EXCEPT ![f] = r]
  BY ZenonT(60), <1>1, <1>2 DEF Start, Begun, NoFlow, Flow, Stage, KindOf
<1>4. flow'[f] = r
  BY <1>1, <1>3 DEF TypeOK
<1>5. TypeOK'
  BY <1>1, <1>2, <1>3 DEF Start, TypeOK, disk, web
<1>6. FlowOK(f)'
  BY <1>1, <1>2, <1>3, <1>4, Directories
    DEF TypeOK, Start, Flow, disk, web, At, Goto, EndsWith, FlowOK, KindMatches,
        SessionEarned, DatesSet, DirectoryOwned, RequestFresh, FileHeld, Pending,
        Fresh, Quiet, OwnDownload, Exported, Own, Nothing, OwnReport, KindOf, Early,
        Report, Working, Begun, NoFlow, DatesOf, ReportDates
<1> QED
  BY <1>1, <1>2, <1>3, <1>5, <1>6, StepFrame, Directories DEF Start, TypeOK, disk, web

\* The session is there only if the credentials are good.
LEMMA SubmitKeeps ==
  ASSUME IInv, NEW f \in Flows, SubmitForm(f)
  PROVE  IInv'
<1> DEFINE r == [flow[f] EXCEPT !.stage = "menu"]
<1>1. flow[f] \in Flow /\ FlowOK(f) /\ TypeOK
  BY DEF IInv, TypeOK
<1>2. DirOf(f) = f /\ ProfileOf(f) = f /\ f \in Browsers /\ Orphan # f
  BY Directories
<1>3. r \in Flow /\ flow' = [flow EXCEPT ![f] = r]
  BY <1>1, <1>2 DEF TypeOK, SubmitForm, Goto, Flow, Stage
<1>4. flow'[f] = r
  BY <1>1, <1>3 DEF TypeOK
<1>5. TypeOK'
  BY <1>1, <1>2, <1>3 DEF SubmitForm, TypeOK, disk, web
<1>6. FlowOK(f)'
  BY <1>1, <1>2, <1>3, <1>4, Directories
    DEF TypeOK, SubmitForm, Flow, disk, web, At, Goto, EndsWith, FlowOK, KindMatches,
        SessionEarned, DatesSet, DirectoryOwned, RequestFresh, FileHeld, Pending,
        Fresh, Quiet, OwnDownload, Exported, Own, Nothing, OwnReport, KindOf, Early,
        Report, Working
<1> QED
  BY <1>1, <1>2, <1>3, <1>5, <1>6, StepFrame, Directories DEF SubmitForm, TypeOK, disk, web

\* Both inputs get the date.
LEMMA SetDatesKeeps ==
  ASSUME IInv, NEW f \in Flows, SetDateRange(f)
  PROVE  IInv'
<1> DEFINE r == [flow[f] EXCEPT !.stage = "report"]
<1>1. flow[f] \in Flow /\ FlowOK(f) /\ TypeOK
  BY DEF IInv, TypeOK
<1>2. DirOf(f) = f /\ ProfileOf(f) = f /\ f \in Browsers /\ Orphan # f
  BY Directories
<1>3. r \in Flow /\ flow' = [flow EXCEPT ![f] = r]
  BY <1>1, <1>2 DEF TypeOK, SetDateRange, Goto, Flow, Stage
<1>4. flow'[f] = r
  BY <1>1, <1>3 DEF TypeOK
<1>5. flow[f].date \in Nat
  <2>1. flow[f].date \in ReportDates
    BY <1>1 DEF SetDateRange, At, FlowOK, DatesSet, Working, Report
  <2> QED
    BY <2>1, DatesAreDays
<1>6. TypeOK'
  BY <1>1, <1>3, <1>5 DEF SetDateRange, TypeOK, disk, web
<1>7. FlowOK(f)'
  BY <1>1, <1>2, <1>3, <1>4, Directories
    DEF TypeOK, SetDateRange, Flow, disk, web, At, Goto, EndsWith, FlowOK,
        KindMatches, SessionEarned, DatesSet, DirectoryOwned, RequestFresh, FileHeld,
        Pending, Fresh, Quiet, OwnDownload, Exported, Own, Nothing, OwnReport,
        KindOf, Early, Report, Working
<1> QED
  BY <1>1, <1>2, <1>3, <1>6, <1>7, StepFrame, Directories
       DEF SetDateRange, TypeOK, disk, web

\* What a wipe leaves behind, and only that, makes the flow a spoilt one.
LEMMA WipeKeeps ==
  ASSUME IInv, NEW f \in Flows, Wipe(f)
  PROVE  IInv'
<1> DEFINE r == [flow[f] EXCEPT !.stage = "select", !.spoilt = ~Fresh(f)']
<1>1. flow[f] \in Flow /\ FlowOK(f) /\ TypeOK
  BY DEF IInv, TypeOK
<1>2. DirOf(f) = f /\ ProfileOf(f) = f /\ f \in Browsers /\ Orphan # f
  BY Directories
<1>3. /\ csv' = csv \/ csv' = [csv EXCEPT ![f] = Null]
      /\ dead' = dead \/ dead' = [dead EXCEPT ![f] = FALSE]
      /\ \/ load' = load
         \/ load' = [b \in Browsers |-> IF b \in Writers(f) THEN NoLoad ELSE load[b]]
      /\ cookie' = cookie /\ page' = page /\ table' = table
  BY <1>2 DEF Wipe, web
<1>4. csv' \in [Flows -> File \cup {Null}] /\ dead' \in [Flows -> BOOLEAN]
  BY <1>1, <1>3 DEF TypeOK
<1>5. load' \in [Browsers -> Load]
  BY <1>1, <1>3 DEF TypeOK, Load, NoLoad
<1>6. \A b \in Browsers : b # f /\ ~(b = Orphan /\ f = Runner) => load'[b] = load[b]
  BY <1>3, WritersAre DEF Writers
<1>7. /\ load'[f] = load[f] \/ load'[f].state = "none"
      /\ load'[Orphan] = load[Orphan] \/ load'[Orphan].state = "none"
  BY <1>2, <1>3, Directories DEF NoLoad
<1>8. flow' = [flow EXCEPT ![f] = r] /\ r \in Flow
  <2>1. (\E b \in Browsers : DirOf(b) = f /\ load'[b].state # "none") <=> ~Quiet(f)'
    BY WritersAre, Directories DEF Quiet
  <2>2. (csv'[f] # Null \/ dead'[f] \/ \E b \in Browsers : DirOf(b) = f /\ load'[b].state # "none")
           <=> ~Fresh(f)'
    BY <2>1 DEF Fresh
  <2> QED
    BY <1>1, <1>2, <2>2, ZenonT(60) DEF Wipe, TypeOK, Flow, Stage
<1>9. flow'[f] = r
  BY <1>1, <1>8 DEF TypeOK
<1>10. TypeOK'
  BY <1>1, <1>3, <1>4, <1>5, <1>8 DEF TypeOK
<1>11. f # Runner => Fresh(f)'
  BY <1>1, <1>3, <1>7 DEF FlowOK, RequestFresh, Fresh, Quiet, Wipe, At, TypeOK
<1>12. FlowOK(f)'
  <2>1. flow[f].stage = "wipe"
    BY DEF Wipe, At
  <2> HIDE DEF r
  <2>2. r.stage = "select" /\ r.spoilt = ~Fresh(f)' /\ r.kind = flow[f].kind
        /\ r.date = flow[f].date /\ r.good = flow[f].good /\ r.verdict = flow[f].verdict
        /\ r.file = flow[f].file /\ r.ambient = flow[f].ambient /\ r.early = flow[f].early
    BY <1>1 DEF Flow, r
  <2>3. KindMatches(f)' /\ SessionEarned(f)' /\ DatesSet(f)'
    BY <1>1, <1>3, <1>9, <2>1, <2>2 DEF FlowOK, KindMatches, SessionEarned, DatesSet, At,
       Pending, Early, Report, Working, KindOf
  <2>4. DirectoryOwned(f)' /\ RequestFresh(f)'
    BY <1>9, <1>11, <2>2 DEF DirectoryOwned, RequestFresh, At, Pending, Early, Report
  <2>5. FileHeld(f)'
    BY <1>1, <1>9, <2>1, <2>2
    DEF FlowOK, FileHeld, At, Pending, Early, Report, Working
  <2> QED
    BY <2>3, <2>4, <2>5 DEF FlowOK
<1>13. \A g \in Flows \ {f} :
         /\ flow'[g] = flow[g] /\ cookie'[g] = cookie[g] /\ page'[g] = page[g]
         /\ table'[g] = table[g]
         /\ csv'[g] = csv[g] /\ dead'[g] = dead[g] /\ load'[g] = load[g]
  BY <1>1, <1>3, <1>6, <1>8, Directories DEF TypeOK
<1> QED
  BY <1>6, <1>10, <1>12, <1>13, StepFrame, Directories

\* Get Report starts the wait with a table that holds no answer.
LEMMA GetReportKeeps ==
  ASSUME IInv, NEW f \in Flows, GetReport(f)
  PROVE  IInv'
<1> DEFINE r == [flow[f] EXCEPT !.stage = "result"]
<1>1. flow[f] \in Flow /\ FlowOK(f) /\ TypeOK
  BY DEF IInv, TypeOK
<1>2. r \in Flow /\ flow' = [flow EXCEPT ![f] = r]
  BY <1>1 DEF TypeOK, GetReport, Goto, Flow, Stage
<1>3. flow'[f] = r
  BY <1>1, <1>2 DEF TypeOK
<1>4. PICK draft \in Drafts : table' = [table EXCEPT ![f] = draft]
  BY DEF GetReport
<1>5. table'[f] # "empty" /\ UNCHANGED <<cookie, page, csv, dead, load>>
  BY <1>1, <1>4 DEF GetReport, TypeOK, Drafts, disk
<1>6. TypeOK'
  BY <1>1, <1>2, <1>4, <1>5 DEF TypeOK
<1>7. FlowOK(f)'
  BY <1>1, <1>2, <1>3, <1>5, Directories
    DEF TypeOK, GetReport, Flow, At, Goto, EndsWith, FlowOK, KindMatches,
        SessionEarned, DatesSet, DirectoryOwned, RequestFresh, FileHeld, Pending,
        Fresh, Quiet, OwnDownload, Exported, Own, Nothing, OwnReport, KindOf, Early,
        Report, Working
<1> QED
  BY <1>1, <1>2, <1>4, <1>5, <1>6, <1>7, StepFrame, Directories DEF TypeOK

\* What BlueWeb puts into a flow's table is nothing but the answer for its date.
LEMMA TableKeeps ==
  ASSUME IInv, NEW f \in Flows, Redraw(f) \/ Answer(f)
  PROVE  IInv'
<1>1. flow[f] \in Flow /\ FlowOK(f) /\ TypeOK
  BY DEF IInv, TypeOK
<1>2. /\ flow[f].stage \in {"result", "indicator", "csv"}
      /\ UNCHANGED <<flow, cookie, page, csv, dead, load>>
  BY DEF Redraw, Answer, Asked, disk
<1>3. flow[f].date \in ReportDates /\ page[f] = [start |-> flow[f].date, end |-> flow[f].date]
  BY <1>1, <1>2 DEF FlowOK, DatesSet, Working, Report
<1>4. ReportDays(f) = {flow[f].date}
  BY <1>3, DatesAreDays DEF ReportDays
<1>5. PICK shown \in Drafts \cup Answers :
        /\ table' = [table EXCEPT ![f] = shown]
        /\ shown = "empty" => flow[f].date \notin EventDays
  BY <1>4 DEF Redraw, Answer, Drafts, Answers
<1>6. table'[f] = shown
  BY <1>1, <1>5 DEF TypeOK
<1>7. TypeOK'
  BY <1>1, <1>2, <1>5 DEF TypeOK
<1>8. FlowOK(f)'
  BY <1>1, <1>2, <1>5, <1>6, Directories
  DEF At, Goto, EndsWith, FlowOK, KindMatches, SessionEarned, DatesSet,
      DirectoryOwned, RequestFresh, FileHeld, Pending, Fresh, Quiet, OwnDownload, Exported,
      Own, Nothing, OwnReport, KindOf, Early, Report, Working
<1> QED
  BY <1>1, <1>2, <1>5, <1>7, <1>8, StepFrame, Directories DEF TypeOK

\* The flow's own download, of its own date or of nothing, into an empty directory.
LEMMA ClickCsvKeeps ==
  ASSUME IInv, NEW f \in Flows, ClickCsv(f)
  PROVE  IInv'
<1> DEFINE answered == table[f] \in Answers
           r == [flow[f] EXCEPT !.stage = "await", !.early = ~answered]
           days == IF answered THEN ReportDays(f) ELSE {}
           l == [state |-> "asked", days |-> days]
<1>1. flow[f] \in Flow /\ FlowOK(f) /\ TypeOK
  BY DEF IInv, TypeOK
<1>2. DirOf(f) = f /\ ProfileOf(f) = f /\ f \in Browsers /\ Orphan # f
  BY Directories
<1>3. r \in Flow /\ flow' = [flow EXCEPT ![f] = r]
  BY <1>1 DEF TypeOK, ClickCsv, Flow, Stage
<1>4. flow'[f] = r
  BY <1>1, <1>3 DEF TypeOK
<1>5. flow[f].date \in ReportDates /\ page[f] = [start |-> flow[f].date, end |-> flow[f].date]
  BY <1>1 DEF ClickCsv, At, FlowOK, DatesSet, Working, Report
<1>6. ReportDays(f) = {flow[f].date}
  BY <1>5, DatesAreDays DEF ReportDays
<1>7. l \in Load /\ load' = [load EXCEPT ![f] = l] /\ load'[f] = l
  <2>1. days \subseteq Days
    BY <1>5, <1>6 DEF ReportDates
  <2>2. load' = [load EXCEPT ![f] = l]
    BY DEF ClickCsv
  <2> HIDE DEF days
  <2> QED
    BY <1>1, <1>2, <2>1, <2>2 DEF Load, TypeOK
<1>8. TypeOK'
  <2>1. UNCHANGED <<cookie, page, csv, dead>> /\ table' = [table EXCEPT ![f] = "none"]
    BY DEF ClickCsv, disk
  <2> HIDE DEF l, r
  <2> QED
    BY <1>1, <1>3, <1>7, <2>1 DEF TypeOK, Drafts
<1>9. /\ flow'[f].stage = "await" /\ flow'[f].early = ~answered
      /\ flow'[f].kind = flow[f].kind /\ flow'[f].date = flow[f].date
      /\ flow'[f].good = flow[f].good /\ flow'[f].ambient = flow[f].ambient
      /\ flow'[f].verdict = flow[f].verdict /\ flow'[f].file = flow[f].file
      /\ flow'[f].spoilt = flow[f].spoilt
  BY <1>1, <1>4 DEF Flow
<1>10. /\ load'[f].state = "asked"
       /\ load'[f].days = IF answered THEN {flow[f].date} ELSE {}
  BY <1>6, <1>7
<1>11. /\ flow[f].stage = "csv" /\ load'[Orphan] = load[Orphan]
       /\ UNCHANGED <<cookie, page, csv, dead>>
  BY <1>1, <1>2, <1>7, Directories DEF ClickCsv, At, disk, web, TypeOK
<1> HIDE DEF r, l, days, answered
<1>12. KindMatches(f)' /\ SessionEarned(f)' /\ DatesSet(f)'
  BY <1>1, <1>9, <1>11 DEF At, Goto, EndsWith, FlowOK, KindMatches, SessionEarned, DatesSet,
      DirectoryOwned, RequestFresh, FileHeld, Pending, Fresh, Quiet, OwnDownload, Exported,
      Own, Nothing, OwnReport, KindOf, Early, Report, Working
<1>13. DirectoryOwned(f)' /\ RequestFresh(f)' /\ FileHeld(f)'
  BY <1>1, <1>9, <1>10, <1>11
       DEF At, Goto, EndsWith, FlowOK, KindMatches, SessionEarned, DatesSet,
      DirectoryOwned, RequestFresh, FileHeld, Pending, Fresh, Quiet, OwnDownload, Exported,
      Own, Nothing, OwnReport, KindOf, Early, Report, Working
<1> QED
  BY ZenonT(60), <1>1, <1>2, <1>3, <1>7, <1>8, <1>12, <1>13, StepFrame, Directories
  DEF ClickCsv, TypeOK, FlowOK, disk, web

\* What is read is what was found; then it goes, or it stays behind.
LEMMA UseKeeps ==
  ASSUME IInv, NEW f \in Flows, Use(f)
  PROVE  IInv'
<1> DEFINE r == [flow[f] EXCEPT
                   !.stage = IF flow[f].kind = "run" THEN "quit" ELSE "clean",
                   !.verdict = "ok", !.file = csv[f]]
<1>1. flow[f] \in Flow /\ FlowOK(f) /\ TypeOK
  BY DEF IInv, TypeOK
<1>2. DirOf(f) = f /\ ProfileOf(f) = f /\ f \in Browsers /\ Orphan # f
  BY Directories
<1>3. csv[f] \in File
  BY <1>1, <1>2 DEF Use, TypeOK
<1>4. r \in Flow /\ flow' = [flow EXCEPT ![f] = r]
  BY <1>1, <1>2, <1>3 DEF TypeOK, Use, Flow, Stage
<1>5. flow'[f] = r
  BY <1>1, <1>4 DEF TypeOK
<1>6. TypeOK'
  BY <1>1, <1>2, <1>4 DEF Use, TypeOK, web
<1>7. FlowOK(f)'
  BY <1>1, <1>2, <1>5, Directories
    DEF TypeOK, Use, web, Flow, At, Goto, EndsWith, FlowOK, KindMatches,
        SessionEarned, DatesSet, DirectoryOwned, RequestFresh, FileHeld, Pending,
        Fresh, Quiet, OwnDownload, Exported, Own, Nothing, OwnReport, KindOf, Early,
        Report, Working
<1> QED
  BY <1>1, <1>2, <1>4, <1>6, <1>7, StepFrame, Directories DEF Use, TypeOK, web

\* The profile goes, and the download with its browser.
LEMMA QuitKeeps ==
  ASSUME IInv, NEW f \in Flows, Quit(f)
  PROVE  IInv'
<1> DEFINE r == AfterQuit(f)
<1>1. flow[f] \in Flow /\ FlowOK(f) /\ TypeOK
  BY DEF IInv, TypeOK
<1>2. DirOf(f) = f /\ ProfileOf(f) = f /\ f \in Browsers /\ Orphan # f
  BY Directories
<1>3. r \in Flow /\ flow' = [flow EXCEPT ![f] = r]
  BY <1>1 DEF Quit, NoFlow, Flow, Stage, AfterQuit
<1>4. flow'[f] = r
  BY <1>1, <1>3 DEF TypeOK
<1>5. /\ load' = [load EXCEPT ![f] = NoLoad] /\ load'[f].state = "none"
      /\ cookie' = [cookie EXCEPT ![f] = FALSE] /\ ~cookie'[f]
      /\ csv' = csv
  BY <1>1, <1>2 DEF Quit, NoLoad, TypeOK
<1>6. /\ page' = [page EXCEPT ![f] = NewPage] /\ NewPage \in [start : Nat, end : Nat]
      /\ table' = [table EXCEPT ![f] = "none"] /\ "none" \in Drafts
  BY DEF Quit, NewPage, Drafts
<1>7. NoLoad \in Load
  BY DEF NoLoad, Load
<1>8. /\ dead' \in [Flows -> BOOLEAN]
      /\ \A g \in Flows : dead'[g] = dead[g] \/ (g = f /\ load[f].state = "begun")
  BY <1>1, <1>2 DEF Quit, TypeOK
<1>9. TypeOK'
  BY <1>1, <1>2, <1>3, <1>5, <1>6, <1>7, <1>8 DEF TypeOK
<1>10. load'[Orphan] = load[Orphan]
  BY <1>1, <1>2, <1>5, Directories DEF TypeOK
<1>11. FlowOK(f)'
  <2>1. CASE flow[f].kind # "dry"
    <3>1. flow'[f] = NoFlow
      BY <1>4, <2>1 DEF AfterQuit
    <3>2. f # Runner => Fresh(f)'
      BY <1>1, <1>2, <1>5, <1>8, <2>1
           DEF Quit, At, FlowOK, KindMatches, KindOf, RequestFresh,
         Fresh, Quiet
    <3> QED
      BY <1>5, <3>1, <3>2
           DEF FlowOK, NoFlow, KindMatches, SessionEarned, DatesSet, DirectoryOwned,
        RequestFresh, FileHeld, At, Pending, Fresh, Quiet, OwnDownload, Exported,
        Own, Nothing, OwnReport, KindOf, Early, Report, Working
  <2>2. CASE flow[f].kind = "dry"
    <3> DEFINE stage == IF flow[f].verdict = "none" THEN "use" ELSE "clean"
    <3>1. flow'[f] = [flow[f] EXCEPT !.stage = stage]
      BY <1>4, <2>2 DEF AfterQuit
    <3> HIDE DEF stage
    <3>2. /\ flow'[f].stage = stage /\ flow'[f].kind = flow[f].kind
          /\ flow'[f].date = flow[f].date /\ flow'[f].verdict = flow[f].verdict
          /\ flow'[f].good = flow[f].good /\ flow'[f].ambient = flow[f].ambient
          /\ flow'[f].file = flow[f].file /\ flow'[f].spoilt = flow[f].spoilt
          /\ flow'[f].early = flow[f].early
      BY <1>1, <3>1 DEF Flow
    <3>3. f # Runner /\ flow[f].stage = "quit"
      BY <1>1, <2>2 DEF Quit, At, FlowOK, KindMatches, KindOf
    <3>6. stage = IF flow[f].verdict = "none" THEN "use" ELSE "clean"
      BY DEF stage
    <3>4. KindMatches(f)' /\ SessionEarned(f)' /\ DatesSet(f)' /\ FileHeld(f)'
      BY <1>1, <1>5, <2>2, <3>2, <3>3, <3>6
           DEF FlowOK, KindMatches, SessionEarned, DatesSet, DirectoryOwned,
        RequestFresh, FileHeld, At, Pending, Fresh, Quiet, OwnDownload, Exported,
        Own, Nothing, OwnReport, KindOf, Early, Report, Working
    <3>5. DirectoryOwned(f)' /\ RequestFresh(f)'
      BY <1>1, <1>5, <1>8, <2>2, <3>2, <3>3, <3>6
           DEF FlowOK, KindMatches, SessionEarned, DatesSet, DirectoryOwned,
        RequestFresh, FileHeld, At, Pending, Fresh, Quiet, OwnDownload, Exported,
        Own, Nothing, OwnReport, KindOf, Early, Report, Working
    <3> QED
      BY <3>4, <3>5 DEF FlowOK
  <2> QED
    BY <2>1, <2>2
<1>12. \A g \in Flows \ {f} :
         /\ flow'[g] = flow[g] /\ cookie'[g] = cookie[g] /\ page'[g] = page[g]
         /\ table'[g] = table[g]
         /\ csv'[g] = csv[g] /\ dead'[g] = dead[g] /\ load'[g] = load[g]
  BY <1>1, <1>2, <1>3, <1>5, <1>6, <1>8, Directories DEF TypeOK
<1> QED
  BY <1>9, <1>10, <1>11, <1>12, StepFrame

\* A browser that lives on is one of the Runner's, whose next wipe decides.
LEMMA QuitRaisesKeeps ==
  ASSUME IInv, NEW f \in Flows, QuitRaises(f)
  PROVE  IInv'
<1> DEFINE r == NoFlow
<1>1. flow[f] \in Flow /\ FlowOK(f) /\ TypeOK
  BY DEF IInv, TypeOK
<1>2. DirOf(f) = f /\ ProfileOf(f) = f /\ f \in Browsers /\ Orphan # f
  BY Directories
<1>3. f = Runner
  BY <1>1 DEF FlowOK, KindMatches, KindOf, QuitRaises, At
<1>4. r \in Flow /\ flow' = [flow EXCEPT ![f] = r]
  BY <1>1 DEF TypeOK, QuitRaises, Flow, Stage, AfterQuit, NoFlow
<1>5. flow'[f] = r
  BY <1>1, <1>4 DEF TypeOK
<1>6. /\ page' = [page EXCEPT ![f] = NewPage] /\ NewPage \in [start : Nat, end : Nat]
      /\ table' = [table EXCEPT ![f] = "none"] /\ "none" \in Drafts
  BY DEF QuitRaises, NewPage, Drafts
<1>7. NoLoad \in Load
  BY DEF NoLoad, Load
<1>8. TypeOK'
  BY <1>1, <1>2, <1>4, <1>6, <1>7, Directories DEF QuitRaises, TypeOK, disk, web
<1>9. FlowOK(f)'
  BY <1>1, <1>2, <1>3, <1>5, Directories
    DEF TypeOK, QuitRaises, NoFlow, Flow, disk, web, At, Goto, EndsWith, FlowOK,
        KindMatches, SessionEarned, DatesSet, DirectoryOwned, RequestFresh, FileHeld,
        Pending, Fresh, Quiet, OwnDownload, Exported, Own, Nothing, OwnReport,
        KindOf, Early, Report, Working
<1>10. /\ cookie' = [cookie EXCEPT ![f] = FALSE] /\ csv' = csv /\ dead' = dead
       /\ load' = [load EXCEPT ![Orphan] = load[f], ![f] = NoLoad]
  BY <1>2 DEF QuitRaises, disk
<1> HIDE DEF r
<1>11. \A g \in Flows \ {f} :
         /\ flow'[g] = flow[g] /\ cookie'[g] = cookie[g] /\ page'[g] = page[g]
         /\ table'[g] = table[g]
         /\ csv'[g] = csv[g] /\ dead'[g] = dead[g] /\ load'[g] = load[g]
  BY <1>1, <1>4, <1>6, <1>10, Directories DEF TypeOK
<1> QED
  BY <1>3, <1>8, <1>9, <1>11, StepFrame

\* A request leaves nothing behind.
LEMMA CleanKeeps ==
  ASSUME IInv, NEW f \in Flows, Clean(f)
  PROVE  IInv'
<1> DEFINE r == NoFlow
<1>1. flow[f] \in Flow /\ FlowOK(f) /\ TypeOK
  BY DEF IInv, TypeOK
<1>2. DirOf(f) = f /\ ProfileOf(f) = f /\ f \in Browsers /\ Orphan # f
  BY Directories
<1>3. r \in Flow /\ flow' = [flow EXCEPT ![f] = r]
  BY <1>1 DEF TypeOK, Clean, NoFlow, Flow, Stage
<1>4. flow'[f] = r
  BY <1>1, <1>3 DEF TypeOK
<1>5. TypeOK'
  BY <1>1, <1>2, <1>3 DEF Clean, TypeOK, web
<1>6. f # Runner => Fresh(f)'
  BY <1>1, <1>2 DEF Clean, TypeOK, FlowOK, RequestFresh, Fresh, Quiet
<1>7. ~cookie'[f]
  BY <1>1, <1>2 DEF Clean, At, FlowOK, SessionEarned
<1>8. FlowOK(f)'
  BY <1>4, <1>6, <1>7
    DEF FlowOK, NoFlow, KindMatches, SessionEarned, DatesSet, DirectoryOwned,
        RequestFresh, FileHeld, At, Pending, Fresh, Quiet, OwnDownload, Exported,
        Own, Nothing, OwnReport, KindOf, Early, Report, Working
<1> QED
  BY <1>1, <1>2, <1>3, <1>5, <1>8, StepFrame, Directories DEF Clean, TypeOK, web

\* Nothing but the flow's own download begins while it waits for it.
LEMMA DownloadBeginsKeeps ==
  ASSUME IInv, NEW b \in Browsers, DownloadBegins(b)
  PROVE  IInv'
<1> DEFINE d == DirOf(b)
<1>1. d \in Flows /\ DirOf(d) = d /\ Orphan \notin Flows /\ (b = d \/ (b = Orphan /\ d = Runner))
  BY Directories
<1>2. load[b] \in Load /\ csv[d] \in File \cup {Null} /\ FlowOK(d) /\ TypeOK
  BY <1>1 DEF IInv, TypeOK
<1>3. flow' = flow /\ cookie' = cookie /\ page' = page /\ table' = table /\ dead' = dead
  BY DEF DownloadBegins, web
<1>4. load' \in [Browsers -> Load] /\ \A c \in Browsers \ {b} : load'[c] = load[c]
  BY <1>2 DEF DownloadBegins, TypeOK, Load, NoLoad
<1>5. PICK v \in File \cup {Null} :
        /\ csv' = [csv EXCEPT ![d] = v]
        /\ v = csv[d] \/ (csv[d] = Null /\ v = [days |-> load[b].days, whole |-> FALSE])
  BY <1>1, <1>2 DEF DownloadBegins, TypeOK, File, Load
<1>6. csv'[d] = v /\ \A g \in Flows \ {d} : csv'[g] = csv[g]
  BY <1>1, <1>2, <1>5 DEF TypeOK
<1>7. TypeOK'
  BY <1>1, <1>2, <1>3, <1>4, <1>5 DEF TypeOK
<1>8. /\ load[b].state = "asked" /\ load'[b].state = "begun" /\ load'[b].days = load[b].days
      /\ v # Null \/ v = csv[d]
  BY <1>2, <1>5 DEF DownloadBegins, TypeOK, Load, File
<1>9. FlowOK(d)'
  BY <1>1, <1>2, <1>3, <1>4, <1>5, <1>6, <1>8, Directories
  DEF At, FlowOK, KindMatches, SessionEarned, DatesSet, DirectoryOwned,
      RequestFresh, FileHeld, Pending, Fresh, Quiet, OwnDownload, Exported,
      Own, Nothing, OwnReport, KindOf, Early,
      Report, Working
<1>10. \A g \in Flows \ {d} : load'[g] = load[g]
  BY <1>1, <1>4, Directories
<1>11. d # Runner => load'[Orphan] = load[Orphan]
  BY <1>1, <1>4, Directories
<1> QED
  BY <1>1, <1>3, <1>6, <1>7, <1>9, <1>10, <1>11, StepFrame

\* What it ends with is the whole report.
LEMMA DownloadEndsKeeps ==
  ASSUME IInv, NEW b \in Browsers, DownloadEnds(b)
  PROVE  IInv'
<1> DEFINE d == DirOf(b)
<1>1. d \in Flows /\ DirOf(d) = d /\ Orphan \notin Flows /\ (b = d \/ (b = Orphan /\ d = Runner))
  BY Directories
<1>2. load[b] \in Load /\ csv[d] \in File \cup {Null} /\ FlowOK(d) /\ TypeOK
  BY <1>1 DEF IInv, TypeOK
<1>3. flow' = flow /\ cookie' = cookie /\ page' = page /\ table' = table /\ dead' = dead
  BY DEF DownloadEnds, web
<1>4. load' \in [Browsers -> Load] /\ \A c \in Browsers \ {b} : load'[c] = load[c]
  BY <1>2 DEF DownloadEnds, TypeOK, Load, NoLoad
<1>5. PICK v \in File \cup {Null} :
        /\ csv' = [csv EXCEPT ![d] = v]
        /\ \/ v = [days |-> load[b].days, whole |-> TRUE]
           \/ csv[d] # Null /\ csv[d].whole /\ v = csv[d]
  BY <1>1, <1>2 DEF DownloadEnds, TypeOK, File, Load
<1>6. csv'[d] = v /\ \A g \in Flows \ {d} : csv'[g] = csv[g]
  BY <1>1, <1>2, <1>5 DEF TypeOK
<1>7. TypeOK'
  BY <1>1, <1>2, <1>3, <1>4, <1>5 DEF TypeOK
<1>8. load[b].state = "begun" /\ load'[b].state = "none" /\ v # Null
  <2>1. load[b].state = "begun" /\ load'[b].state = "none"
    BY <1>2 DEF DownloadEnds, TypeOK, NoLoad
  <2>2. [days |-> load[b].days, whole |-> TRUE] \in File
    BY <1>2 DEF Load, File
  <2> QED
    BY <2>1, <2>2, <1>5
<1>9. KindMatches(d)' /\ SessionEarned(d)' /\ DatesSet(d)' /\ FileHeld(d)'
  BY <1>2, <1>3, <1>6, <1>8
    DEF FlowOK, KindMatches, SessionEarned, DatesSet, DirectoryOwned, RequestFresh,
        FileHeld, At, Pending, Fresh, Quiet, OwnDownload, Exported, Own, Nothing,
        OwnReport, KindOf, Early, Report, Working
<1>12. RequestFresh(d)'
  BY <1>1, <1>2, <1>3, <1>6, <1>8
  DEF FlowOK, RequestFresh, At, Fresh, Quiet
<1>13. DirectoryOwned(d)'
  <2> SUFFICES ASSUME ~flow[d].spoilt PROVE DirectoryOwned(d)'
    BY <1>3 DEF DirectoryOwned
  <2>1. (b = d /\ At(d, "await") /\ OwnDownload(d)) \/ ~(flow[d].stage \in Report)
    BY <1>1, <1>2, <1>8 DEF FlowOK, DirectoryOwned, Fresh, Quiet
  <2>2. ~Pending(d) /\ ~(flow[d].stage \in Report)
    BY <1>1, <1>2, <1>8, <2>1 DEF FlowOK, DirectoryOwned, Fresh, Quiet, Pending, At, Report
  <2>3. ASSUME At(d, "await")
        PROVE  OwnDownload(d)'
    <3>1. OwnDownload(d) /\ b = d
      BY <1>1, <1>2, <1>8, <2>3 DEF FlowOK, DirectoryOwned, OwnDownload
    <3>2. OwnReport(d, v)
      <4>1. CASE v = [days |-> load[b].days, whole |-> TRUE]
        BY <1>8, <3>1, <4>1 DEF OwnDownload, Exported, OwnReport, Own, Nothing
      <4>2. CASE csv[d] # Null /\ csv[d].whole /\ v = csv[d]
        BY <1>8, <3>1, <4>2 DEF OwnDownload
      <4> QED
        BY <1>5, <4>1, <4>2
    <3>3. d = Runner => load'[Orphan] = load[Orphan]
      BY <1>1, <1>4, <3>1, Directories
    <3> QED
      BY <1>3, <1>6, <1>8, <3>1, <3>2, <3>3 DEF OwnDownload, OwnReport, Own, Nothing
  <2> QED
    BY <1>3, <2>2, <2>3 DEF DirectoryOwned, At, Pending
<1>14. FlowOK(d)'
  BY <1>9, <1>12, <1>13 DEF FlowOK
<1>10. \A g \in Flows \ {d} : load'[g] = load[g]
  BY <1>1, <1>4, Directories
<1>11. d # Runner => load'[Orphan] = load[Orphan]
  BY <1>1, <1>4, Directories
<1> QED
  BY <1>1, <1>3, <1>6, <1>7, <1>10, <1>11, <1>14, StepFrame

\* Nothing of a request outlives the process, and no flow does.
LEMMA CrashKeeps ==
  ASSUME IInv, Crash
  PROVE  IInv'
<1>1. PICK kept \in BOOLEAN :
        /\ csv' = [f \in Flows |-> IF kept /\ f = Runner THEN csv[f] ELSE Null]
        /\ dead' = [f \in Flows |-> kept /\ f = Runner /\ Crdownload(f)]
  BY DEF Crash
<1>2. /\ NoFlow \in Flow /\ NoLoad \in Load /\ NewPage \in [start : Nat, end : Nat]
      /\ "none" \in Drafts
  BY DEF NoFlow, Flow, Stage, NoLoad, Load, NewPage, Drafts
<1>3. \A f \in Flows : (kept /\ f = Runner /\ Crdownload(f)) \in BOOLEAN
  OBVIOUS
<1>4. TypeOK'
  BY <1>1, <1>2, <1>3 DEF Crash, IInv, TypeOK
<1>5. ASSUME NEW f \in Flows
      PROVE  FlowOK(f)'
  <2>1. /\ flow'[f] = NoFlow /\ ~cookie'[f] /\ load'[f] = NoLoad
        /\ f # Runner => csv'[f] = Null /\ ~dead'[f]
    BY <1>1, <1>5, Directories DEF Crash
  <2> QED
    BY <2>1 DEF NoFlow, NoLoad, At, FlowOK, KindMatches, SessionEarned, DatesSet,
         DirectoryOwned,
      RequestFresh, FileHeld, Pending, Fresh, Quiet, OwnDownload, Exported,
      Own, Nothing, OwnReport, KindOf, Early,
      Report, Working
<1> QED
  BY <1>4, <1>5 DEF IInv

-----------------------------------------------------------------------------
(* The theorems *)

LEMMA InitHolds == Init => IInv
<1> SUFFICES ASSUME Init PROVE IInv
  OBVIOUS
<1>1. /\ NoFlow \in Flow /\ NoLoad \in Load /\ NewPage \in [start : Nat, end : Nat]
      /\ "none" \in Drafts
  BY DEF NoFlow, Flow, Stage, NoLoad, Load, NewPage, Drafts
<1>2. TypeOK
  BY <1>1 DEF Init, TypeOK
<1>3. ASSUME NEW f \in Flows
      PROVE  FlowOK(f)
  <2>1. /\ flow[f] = NoFlow /\ ~cookie[f] /\ load[f] = NoLoad
        /\ csv[f] = Null /\ ~dead[f]
    BY <1>3, Directories DEF Init
  <2> QED
    BY <2>1 DEF NoFlow, NoLoad, At, FlowOK, KindMatches, SessionEarned, DatesSet,
         DirectoryOwned,
      RequestFresh, FileHeld, Pending, Fresh, Quiet, OwnDownload, Exported,
      Own, Nothing, OwnReport, KindOf, Early,
      Report, Working
<1> QED
  BY <1>2, <1>3 DEF IInv

LEMMA NextKeeps == IInv /\ [Next]_vars => IInv'
<1> SUFFICES ASSUME IInv, [Next]_vars PROVE IInv'
  OBVIOUS
<1>1. ASSUME NEW f \in Flows, NEW kind \in {"run", "dry", "probe"},
             NEW d \in ReportDates \cup {Null}, NEW good \in BOOLEAN,
             Start(f, kind, d, good)
      PROVE  IInv'
  BY <1>1, StartKeeps
<1>2. ASSUME NEW f \in Flows, FlowStep(f)
      PROVE  IInv'
  BY <1>2, OpenKeeps, SubmitKeeps, MenuKeeps, ReportsKeeps, WipeKeeps, SelectKeeps,
     SetDatesKeeps, GetReportKeeps, FindRowKeeps, ReadOutcomeKeeps, RecordKeeps,
     ClickCsvKeeps, TakeKeeps, UseKeeps, FailsKeeps,
     QuitKeeps, QuitRaisesKeeps, CleanKeeps
  DEF FlowStep
<1>3. ASSUME NEW b \in Browsers, DownloadBegins(b) \/ DownloadEnds(b)
      PROVE  IInv'
  BY <1>3, DownloadBeginsKeeps, DownloadEndsKeeps
<1>6. ASSUME NEW f \in Flows, Redraw(f) \/ Answer(f)
      PROVE  IInv'
  BY <1>6, TableKeeps
<1>4. CASE Crash
  BY <1>4, CrashKeeps
<1>5. CASE UNCHANGED vars
  <2>1. TypeOK'
    BY <1>5 DEF vars, disk, web, IInv, TypeOK
  <2>2. ASSUME NEW g \in Flows
        PROVE  FlowOK(g)'
    BY <1>5, <2>2, Frame DEF vars, disk, web, IInv
  <2> QED
    BY <2>1, <2>2 DEF IInv
<1> QED
  BY <1>1, <1>2, <1>3, <1>4, <1>5, <1>6 DEF Next

\* What holds of each flow and its directory holds always, however the flows,
\* the downloads, the failures and the crashes interleave.
THEOREM Invariance == Spec => []IInv
<1>1. Init => IInv
  BY InitHolds
<1>2. IInv /\ [Next]_vars => IInv'
  BY NextKeeps
<1> QED
  BY <1>1, <1>2, PTL DEF Spec

\* The state keeps its shape.
THEOREM TypeCorrect == Spec => []TypeOK
<1>1. IInv => TypeOK
  BY DEF IInv
<1> QED
  BY <1>1, Invariance, PTL

\* What transform reads is the whole report of the flow's own date, or nothing if
\* the CSV was asked for before BlueWeb's answer, save for a run whose wipe left
\* something (wipe_download_dir, _download_ready).
THEOREM ParsesOwnReportAlways == Spec => []ParsesOwnReport
<1>1. IInv => ParsesOwnReport
  BY DEF IInv, FlowOK, FileHeld, ParsesOwnReport
<1> QED
  BY <1>1, Invariance, PTL

\* A date with events is found empty only through a row for no data that stood in
\* the table before the answer, however the table is redrawn between the queries
\* of _outcome (set_date_range, click_get_report_and_wait).
THEOREM EmptyMeansNoEventsAlways == Spec => []EmptyMeansNoEvents
<1>1. IInv => EmptyMeansNoEvents
  BY DEF IInv, FlowOK, DatesSet, EmptyMeansNoEvents
<1> QED
  BY <1>1, Invariance, PTL

\* Past the login, the credentials are good or BlueWeb let the browser in by itself;
\* the session of another flow never does it (build_driver, login_and_navigate).
THEOREM LoginProvesCredentialsAlways == Spec => []LoginProvesCredentials
<1>1. IInv => LoginProvesCredentials
  BY DEF IInv, FlowOK, SessionEarned, LoginProvesCredentials
<1> QED
  BY <1>1, Invariance, PTL

\* A file found complete is there when it is read (poll_csv_download, dry_run).
THEOREM TakenFileStaysAlways == Spec => []TakenFileStays
<1>1. IInv => TakenFileStays
  BY Directories DEF IInv, FlowOK, FileHeld, Pending, TakenFileStays
<1> QED
  BY <1>1, Invariance, PTL

-----------------------------------------------------------------------------
(* A flow only gets shorter *)

\* No fewer than the steps a flow still takes from where it stands.
StepsIn(r) ==
  CASE r.stage = "open"      -> 15
    [] r.stage = "form"      -> 14
    [] r.stage = "menu"      -> 13
    [] r.stage = "reports"   -> 12
    [] r.stage = "wipe"      -> 11
    [] r.stage = "select"    -> 10
    [] r.stage = "dates"     -> 9
    [] r.stage = "report"    -> 8
    [] r.stage = "result"    -> 7
    [] r.stage = "indicator" -> 6
    [] r.stage = "csv"       -> 5
    [] r.stage = "await"     -> 4
    [] r.stage = "use"       -> IF r.kind = "dry" THEN 2 ELSE 3
    [] r.stage = "record"    -> 4
    [] r.stage = "quit"      -> IF r.kind = "dry" /\ r.verdict = "none" THEN 3 ELSE 2
    [] r.stage = "clean"     -> 1
    [] OTHER                 -> 0

StepsLeft(f) == StepsIn(flow[f])

\* The safety core of FlowsEnd.  Every step of a flow, whether it gets on, fails
\* or cleans up, brings its end nearer, and nothing that BlueWeb, Chromium, the
\* disk or another flow does puts it further off: no flow retries, waits again
\* or goes back, so at most 15 steps after its start it has ended.
FlowsShorten ==
  [][\A f \in Flows :
       /\ FlowStep(f) => StepsLeft(f)' < StepsLeft(f)
       /\ ~At(f, "over") => StepsLeft(f)' <= StepsLeft(f)]_vars

LEMMA StepsTable ==
  ASSUME NEW r
  PROVE  /\ StepsIn(r) \in Nat
         /\ r.stage = "open" => StepsIn(r) = 15
         /\ r.stage = "form" => StepsIn(r) = 14
         /\ r.stage = "menu" => StepsIn(r) = 13
         /\ r.stage = "reports" => StepsIn(r) = 12
         /\ r.stage = "wipe" => StepsIn(r) = 11
         /\ r.stage = "select" => StepsIn(r) = 10
         /\ r.stage = "dates" => StepsIn(r) = 9
         /\ r.stage = "report" => StepsIn(r) = 8
         /\ r.stage = "result" => StepsIn(r) = 7
         /\ r.stage = "indicator" => StepsIn(r) = 6
         /\ r.stage = "record" => StepsIn(r) = 4
         /\ r.stage = "csv" => StepsIn(r) = 5
         /\ r.stage = "await" => StepsIn(r) = 4
         /\ r.stage = "use" => StepsIn(r) = IF r.kind = "dry" THEN 2 ELSE 3
         /\ r.stage = "quit" =>
              StepsIn(r) = IF r.kind = "dry" /\ r.verdict = "none" THEN 3 ELSE 2
         /\ r.stage = "clean" => StepsIn(r) = 1
         /\ r.stage = "over" => StepsIn(r) = 0
BY DEF StepsIn

\* What moving a flow on changes of it.
LEMMA MovesFlow ==
  ASSUME TypeOK, NEW f \in Flows, NEW stage
  PROVE  /\ Goto(f, stage) => /\ flow'[f].stage = stage
                              /\ flow'[f].kind = flow[f].kind
                              /\ flow'[f].verdict = flow[f].verdict
         /\ \A verdict : EndsWith(f, verdict) => flow'[f].stage = "quit"
         /\ PassLogin(f) => flow'[f].stage = "reports"
<1>1. flow[f] \in Flow /\ f \in DOMAIN flow
  BY DEF TypeOK
<1>2. ASSUME Goto(f, stage)
      PROVE  /\ flow'[f].stage = stage
             /\ flow'[f].kind = flow[f].kind
             /\ flow'[f].verdict = flow[f].verdict
  <2>1. flow'[f] = [flow[f] EXCEPT !.stage = stage]
    BY <1>1, <1>2 DEF Goto
  <2> QED
    BY <1>1, <2>1 DEF Flow
<1>3. ASSUME NEW verdict, EndsWith(f, verdict)
      PROVE  flow'[f].stage = "quit"
  <2>1. flow'[f] = [flow[f] EXCEPT !.stage = "quit", !.verdict = verdict]
    BY <1>1, <1>3 DEF EndsWith
  <2> QED
    BY <1>1, <2>1 DEF Flow
<1>4. ASSUME PassLogin(f)
      PROVE  flow'[f].stage = "reports"
  <2> DEFINE ambient == ~(cookie[ProfileOf(f)] \/ flow[f].good)
  <2>1. flow' = [flow EXCEPT ![f].stage = "reports", ![f].ambient = ambient]
    BY <1>4 DEF PassLogin
  <2> HIDE DEF ambient
  <2>2. flow'[f] = [flow[f] EXCEPT !.stage = "reports", !.ambient = ambient]
    BY <1>1, <2>1
  <2> QED
    BY <1>1, <2>2 DEF Flow
<1> QED
  BY <1>2, <1>3, <1>4

\* An empty report is recorded, or the browser is left at once.
LEMMA EmptyMoves ==
  ASSUME TypeOK, NEW f \in Flows, FindEmpty(f)
  PROVE  /\ flow'[f].kind = flow[f].kind /\ flow'[f].verdict = "empty"
         /\ flow'[f].stage = IF flow[f].kind = "run" THEN "record" ELSE "quit"
<1> DEFINE stage == IF flow[f].kind = "run" THEN "record" ELSE "quit"
           early == table[f] = "placeholder"
<1>1. flow[f] \in Flow /\ f \in DOMAIN flow
  BY DEF TypeOK
<1>2. flow' = [flow EXCEPT ![f].stage = stage, ![f].verdict = "empty", ![f].early = early]
  BY DEF FindEmpty
<1> HIDE DEF stage, early
<1>3. flow'[f] = [flow[f] EXCEPT !.stage = stage, !.verdict = "empty", !.early = early]
  BY <1>1, <1>2
<1>4. flow'[f].stage = stage /\ flow'[f].kind = flow[f].kind /\ flow'[f].verdict = "empty"
  BY <1>1, <1>3 DEF Flow
<1> QED
  BY <1>4 DEF stage

LEMMA ClickMoves ==
  ASSUME TypeOK, NEW f \in Flows, ClickCsv(f)
  PROVE  flow[f].stage = "csv" /\ flow'[f].stage = "await"
<1> DEFINE early == ~(table[f] \in Answers)
<1>1. flow[f] \in Flow /\ f \in DOMAIN flow
  BY DEF TypeOK
<1>2. /\ flow[f].stage = "csv"
      /\ flow' = [flow EXCEPT ![f].stage = "await", ![f].early = early]
  BY DEF ClickCsv, At
<1> HIDE DEF early
<1> QED
  BY <1>1, <1>2 DEF Flow

LEMMA WipeMoves ==
  ASSUME TypeOK, NEW f \in Flows, Wipe(f)
  PROVE  flow[f].stage = "wipe" /\ flow'[f].stage = "select"
<1> DEFINE left == \/ csv'[DirOf(f)] # Null \/ dead'[DirOf(f)]
                   \/ \E b \in Browsers : DirOf(b) = DirOf(f) /\ load'[b].state # "none"
<1>1. flow[f] \in Flow /\ f \in DOMAIN flow
  BY DEF TypeOK
<1>2. /\ flow[f].stage = "wipe"
      /\ flow' = [flow EXCEPT ![f].stage = "select", ![f].spoilt = left]
  BY DEF Wipe, At
<1> HIDE DEF left
<1> QED
  BY <1>1, <1>2 DEF Flow

LEMMA UseMoves ==
  ASSUME TypeOK, NEW f \in Flows, Use(f)
  PROVE  /\ flow[f].stage = "use"
         /\ flow'[f].kind = flow[f].kind /\ flow'[f].verdict = "ok"
         /\ flow'[f].stage = IF flow[f].kind = "run" THEN "quit" ELSE "clean"
<1> DEFINE stage == IF flow[f].kind = "run" THEN "quit" ELSE "clean"
<1>1. flow[f] \in Flow /\ f \in DOMAIN flow
  BY DEF TypeOK
<1>2. /\ flow[f].stage = "use"
      /\ flow' = [flow EXCEPT ![f].stage = stage, ![f].verdict = "ok",
                              ![f].file = csv[DirOf(f)]]
  BY DEF Use, At
<1> HIDE DEF stage
<1>3. flow'[f].stage = stage /\ flow'[f].kind = flow[f].kind /\ flow'[f].verdict = "ok"
  BY <1>1, <1>2 DEF Flow
<1> QED
  BY <1>2, <1>3 DEF stage

\* The steps that follow each other in a flow that meets no failure.
LEMMA OnwardShortens ==
  ASSUME TypeOK, NEW f \in Flows,
         \/ Open(f) \/ SubmitForm(f) \/ MenuShown(f) \/ OpenReports(f) \/ Wipe(f)
         \/ SelectEventReport(f) \/ SetDateRange(f) \/ GetReport(f) \/ FindRow(f)
         \/ ReadOutcome(f) \/ ClickCsv(f)
  PROVE  StepsLeft(f)' < StepsLeft(f)
<1> USE DEF At
<1>1. CASE Open(f)
  <2>1. flow[f].stage = "open" /\ flow'[f].stage \in {"form", "reports"}
    BY <1>1, MovesFlow DEF Open
  <2> QED
    BY <2>1, StepsTable DEF StepsLeft
<1>2. CASE SubmitForm(f)
  <2>1. flow[f].stage = "form" /\ flow'[f].stage = "menu"
    BY <1>2, MovesFlow DEF SubmitForm
  <2> QED
    BY <2>1, StepsTable DEF StepsLeft
<1>3. CASE MenuShown(f)
  <2>1. flow[f].stage = "menu" /\ flow'[f].stage = "reports"
    BY <1>3, MovesFlow DEF MenuShown
  <2> QED
    BY <2>1, StepsTable DEF StepsLeft
<1>4. CASE OpenReports(f)
  <2>1. flow[f].stage = "reports" /\ flow'[f].stage \in {"quit", "wipe"}
    BY <1>4, MovesFlow DEF OpenReports
  <2> QED
    BY <2>1, StepsTable DEF StepsLeft
<1>5. CASE Wipe(f)
  BY <1>5, WipeMoves, StepsTable DEF StepsLeft
<1>6. CASE SelectEventReport(f)
  <2>1. flow[f].stage = "select" /\ flow'[f].stage = "dates"
    BY <1>6, MovesFlow DEF SelectEventReport
  <2> QED
    BY <2>1, StepsTable DEF StepsLeft
<1>7. CASE SetDateRange(f)
  <2>1. flow[f].stage = "dates" /\ flow'[f].stage = "report"
    BY <1>7, MovesFlow DEF SetDateRange
  <2> QED
    BY <2>1, StepsTable DEF StepsLeft
<1>8. CASE GetReport(f)
  <2>1. flow[f].stage = "report" /\ flow'[f].stage = "result"
    BY <1>8, MovesFlow DEF GetReport
  <2> QED
    BY <2>1, StepsTable DEF StepsLeft
<1>9. CASE ClickCsv(f)
  BY <1>9, ClickMoves, StepsTable DEF StepsLeft
<1>10. CASE FindRow(f)
  <2>1. flow[f].stage = "result" /\ flow'[f].stage = "indicator"
    BY <1>10, MovesFlow DEF FindRow
  <2> QED
    BY <2>1, StepsTable DEF StepsLeft
<1>11. CASE ReadOutcome(f)
  <2>1. flow[f].stage = "indicator" /\ (FindEmpty(f) \/ Goto(f, "csv"))
    BY <1>11 DEF ReadOutcome
  <2>2. flow'[f].stage \in {"quit", "record", "csv"}
    BY <2>1, MovesFlow, EmptyMoves
  <2> QED
    BY <2>1, <2>2, StepsTable DEF StepsLeft
<1> QED
  BY <1>1, <1>2, <1>3, <1>4, <1>5, <1>6, <1>7, <1>8, <1>9, <1>10, <1>11

\* Reading the file, leaving the driver and removing the directory.
LEMMA EndShortens ==
  ASSUME TypeOK, NEW f \in Flows,
         TakeFile(f) \/ Use(f) \/ Record(f) \/ Quit(f) \/ QuitRaises(f) \/ Clean(f)
  PROVE  StepsLeft(f)' < StepsLeft(f)
<1> USE DEF At
<1>1. CASE TakeFile(f)
  <2>1. /\ flow[f].stage = "await"
        /\ flow'[f].stage \in {"use", "quit"}
    BY <1>1, MovesFlow DEF TakeFile
  <2> QED
    BY <2>1, StepsTable DEF StepsLeft
<1>2. CASE Use(f)
  BY <1>2, UseMoves, StepsTable DEF StepsLeft
<1>3. CASE Quit(f) \/ QuitRaises(f)
  <2>1. /\ flow[f].stage = "quit"
        /\ flow'[f] = AfterQuit(f)
    BY <1>3 DEF Quit, QuitRaises, TypeOK
  <2>2. CASE flow[f].kind # "dry"
    <3>1. flow'[f].stage = "over"
      BY <2>1, <2>2 DEF AfterQuit, NoFlow
    <3> QED
      BY <2>1, <2>2, <3>1, StepsTable DEF StepsLeft
  <2>3. CASE flow[f].kind = "dry"
    <3>1. /\ flow'[f].kind = "dry"
          /\ flow'[f].stage = IF flow[f].verdict = "none" THEN "use" ELSE "clean"
      BY <2>1, <2>3 DEF AfterQuit, TypeOK, Flow
    <3> QED
      BY <2>1, <2>3, <3>1, StepsTable DEF StepsLeft
  <2> QED
    BY <2>2, <2>3
<1>4. CASE Clean(f)
  <2>1. flow[f].stage = "clean" /\ flow'[f].stage = "over"
    BY <1>4 DEF Clean, NoFlow, TypeOK
  <2> QED
    BY <2>1, StepsTable DEF StepsLeft
<1>5. CASE Record(f)
  <2>1. flow[f].stage = "record" /\ flow'[f].stage = "quit"
    BY <1>5, MovesFlow DEF Record
  <2> QED
    BY <2>1, StepsTable DEF StepsLeft
<1> QED
  BY <1>1, <1>2, <1>3, <1>4, <1>5

\* A failure skips the rest.
LEMMA FailureShortens ==
  ASSUME TypeOK, NEW f \in Flows, NEW status \in Failures, Fails(f, status)
  PROVE  StepsLeft(f)' < StepsLeft(f)
<1>1. /\ flow[f].stage \in {"open", "form", "menu", "reports", "wipe", "select",
                             "dates", "report", "result", "indicator", "csv", "await", "use", "record"}
      /\ flow'[f] = Failed(f, status)
  BY DEF Fails, StatusesAt, TypeOK
<1>2. /\ flow'[f].verdict # "none" /\ flow'[f].kind = flow[f].kind
      /\ flow'[f].stage = IF At(f, "use") /\ flow[f].kind = "dry" THEN "clean" ELSE "quit"
  BY <1>1 DEF Failed, Failures
<1>3. CASE flow[f].stage = "use"
  BY <1>2, <1>3, StepsTable DEF StepsLeft, At
<1>4. CASE flow[f].stage # "use"
  <2>1. StepsLeft(f) > 3
    BY <1>1, <1>4, StepsTable DEF StepsLeft
  <2>2. StepsLeft(f)' <= 3
    BY <1>2, <1>4, StepsTable DEF StepsLeft, At
  <2>3. StepsLeft(f) \in Nat /\ StepsLeft(f)' \in Nat
    BY StepsTable DEF StepsLeft
  <2> QED
    BY <2>1, <2>2, <2>3
<1> QED
  BY <1>3, <1>4

\* A flow's step is nobody else's.
LEMMA StepOfOne ==
  ASSUME TypeOK, NEW f \in Flows, NEW g \in Flows \ {f}, FlowStep(f)
  PROVE  flow'[g] = flow[g]
BY DEF FlowStep, TypeOK, Open, SubmitForm, MenuShown, OpenReports, Wipe,
       SelectEventReport, SetDateRange, GetReport, FindRow, ReadOutcome, Record,
       ClickCsv, TakeFile, Use, Fails, Quit, QuitRaises, Clean, Goto, EndsWith,
       PassLogin, FindEmpty

LEMMA StepShortens ==
  ASSUME TypeOK, NEW f \in Flows, FlowStep(f)
  PROVE  StepsLeft(f)' < StepsLeft(f)
BY OnwardShortens, EndShortens, FailureShortens DEF FlowStep

\* What the others do leaves a flow where it is, or ends it.
LEMMA OthersKeepFlow ==
  ASSUME TypeOK, [Next]_vars, NEW f \in Flows, ~At(f, "over"), ~FlowStep(f)
  PROVE  flow'[f] = flow[f] \/ flow'[f] = NoFlow
<1>1. ASSUME NEW g \in Flows, NEW kind \in {"run", "dry", "probe"},
             NEW d \in ReportDates \cup {Null}, NEW good \in BOOLEAN,
             Start(g, kind, d, good)
      PROVE  flow'[f] = flow[f]
  BY <1>1 DEF Start, At, TypeOK
<1>2. ASSUME NEW g \in Flows, FlowStep(g)
      PROVE  flow'[f] = flow[f]
  BY <1>2, StepOfOne
<1>3. ASSUME NEW b \in Browsers, DownloadBegins(b) \/ DownloadEnds(b)
      PROVE  flow' = flow
  BY <1>3 DEF DownloadBegins, DownloadEnds
<1>6. ASSUME NEW g \in Flows, Redraw(g) \/ Answer(g)
      PROVE  flow' = flow
  BY <1>6 DEF Redraw, Answer
<1>4. CASE Crash
  BY <1>4 DEF Crash
<1>5. CASE UNCHANGED vars
  BY <1>5 DEF vars
<1> QED
  BY <1>1, <1>2, <1>3, <1>4, <1>5, <1>6 DEF Next

\* No wait, failure, surviving browser or neighbour makes a flow longer.
THEOREM FlowsShortenAlways == Spec => FlowsShorten
<1>1. ASSUME TypeOK, [Next]_vars, NEW f \in Flows
      PROVE  /\ FlowStep(f) => StepsLeft(f)' < StepsLeft(f)
             /\ ~At(f, "over") => StepsLeft(f)' <= StepsLeft(f)
  <2>1. StepsLeft(f) \in Nat /\ StepsLeft(f)' \in Nat
    BY StepsTable DEF StepsLeft
  <2>2. CASE FlowStep(f)
    BY <1>1, <2>1, <2>2, StepShortens
  <2>3. CASE ~FlowStep(f) /\ ~At(f, "over")
    <3>1. CASE flow'[f] = flow[f]
      BY <2>1, <2>3, <3>1 DEF StepsLeft
    <3>2. CASE flow'[f] = NoFlow
      <4>1. StepsLeft(f)' = 0
        BY <3>2, StepsTable DEF StepsLeft, NoFlow
      <4> QED
        BY <2>1, <2>3, <4>1
    <3> QED
      BY <1>1, <2>3, <3>1, <3>2, OthersKeepFlow
  <2> QED
    BY <2>2, <2>3
<1>2. TypeOK /\ [Next]_vars =>
        \A f \in Flows :
          /\ FlowStep(f) => StepsLeft(f)' < StepsLeft(f)
          /\ ~At(f, "over") => StepsLeft(f)' <= StepsLeft(f)
  BY <1>1
<1> QED
  BY <1>2, TypeCorrect, PTL DEF Spec, FlowsShorten

\* A request whose flow is over, however it ended, has left nothing on the disk
\* and no browser at work: the driver is left before the directory is removed,
\* and both on every path (dry_run's finally, build_driver).
RequestsLeaveNothing ==
  \A f \in Requests : At(f, "over") => csv[f] = Null /\ ~dead[f] /\ load[f].state = "none"

\* Dry runs and login probes accumulate nothing, whatever fails in them.
THEOREM RequestsLeaveNothingAlways == Spec => []RequestsLeaveNothing
<1>1. IInv => RequestsLeaveNothing
  BY DEF IInv, FlowOK, RequestFresh, Fresh, Quiet, RequestsLeaveNothing, At, Flows
<1> QED
  BY <1>1, Invariance, PTL
=============================================================================
