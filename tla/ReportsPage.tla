------------------------------ MODULE ReportsPage ------------------------------
(***************************************************************************)
(* The SQL reports of the exports page (app/(platform)/exports/page.tsx):  *)
(* the table that runs them and follows their latest run by polling        *)
(* (exports/ReportsTable.tsx) and the dialog that creates and edits one    *)
(* (exports/ReportDialog.tsx), over the server's reports and runs          *)
(* (routers/exports.py).  The worker that moves a run on is ExportRunner;  *)
(* here a run is pending, then running, then ended.  A report's body is    *)
(* opaque.  The dialog's list of connections and its test of the query are *)
(* left out.                                                               *)
(***************************************************************************)
EXTENDS Calls, Sequences

CONSTANTS
    ReportBody,        \* what a report may be: query, format, schedule, delivery
    MaxReports,        \* bound: reports ever created
    MaxJobs,           \* bound: runs ever started
    MaxFails,          \* bound: calls that fail
    MaxReportClicks    \* bound: clicks of the user

VARIABLES
    reports,       \* the server's reports
    reportsMade,   \* the number of reports ever inserted
    jobs,          \* the run log, oldest first
    reportPage,    \* the React state of the table and the dialog
    reportNet      \* the requests

reportVars == <<reports, reportsMade, jobs, reportPage, reportNet>>
reportServer == <<reports, reportsMade, jobs>>

ReportId == 1..MaxReports

RunStatus == {"pending", "running", "completed"}

\* Both lists are asked for at once, and there is a report to begin with; null is
\* neither an id nor a run.
ASSUME ReportsAssumption ==
    /\ MaxCalls >= 2 /\ MaxReports \in Nat \ {0}
    /\ None \notin ReportId \cup [id : Nat, st : RunStatus]

NoRuns == [r \in ReportId |-> None]

\* The bounds on what is asked for: no request waits for a place in the tables.
RunsLeft == Len(jobs) + Cardinality(Of(reportNet, {"run"})) < MaxJobs
ReportsLeft == reportsMade + Cardinality(Of(reportNet, {"create"})) < MaxReports

\* Both lists, asked for at once.
LoadReports(net) == Send(Send(net, "reports", None), "jobs", None)

ReportsInit ==
    /\ reports = {[id |-> 1, body |-> CHOOSE b \in ReportBody : TRUE]}   \* all bodies are alike
    /\ reportsMade = 1 /\ jobs = <<>>
    /\ reportPage = [rows |-> {}, latest |-> NoRuns, loading |-> TRUE, busy |-> None, dialog |-> None,
                     fails |-> 0, clicks |-> 0, calm |-> TRUE]
    /\ reportNet = LoadReports(NoCalls)

PressReport ==
    /\ reportPage.clicks < MaxReportClicks /\ Room(reportNet, 1)
    /\ UNCHANGED reportServer
StepReport == Pressed(reportPage, Quiet(reportNet))

OnReportRow(r) == PressReport /\ ~reportPage.loading /\ reportPage.dialog = None /\ r \in reportPage.rows

Terminal == {"completed"}
InFlight(job) == job # None /\ job.st \notin Terminal

ActiveJobs(r) == {k \in DOMAIN jobs : jobs[k].report = r /\ InFlight(jobs[k])}

\* The newest run of a report, its id being its place in the log.
NewestRun(r) ==
    LET ks == {k \in DOMAIN jobs : jobs[k].report = r}
    IN IF ks = {} THEN None ELSE LET k == CHOOSE j \in ks : \A h \in ks : h <= j
                                 IN [id |-> k, st |-> jobs[k].st]

-----------------------------------------------------------------------------
(* Runs start and end while the page looks elsewhere *)

Job(r) == [report |-> r, st |-> "pending"]

\* A report that is due is queued by the scheduler, a run of it under way or not.
RunBySchedule(r) ==
    /\ RunsLeft /\ r \in reports
    /\ jobs' = Append(jobs, Job(r.id))
    /\ reportPage' = [reportPage EXCEPT !.calm = FALSE]
    /\ UNCHANGED <<reports, reportsMade, reportNet>>

\* The worker takes a run and ends it.
WorkRun(k) ==
    /\ k \in DOMAIN jobs /\ InFlight(jobs[k])
    /\ jobs' = [jobs EXCEPT ![k].st = IF @ = "pending" THEN "running" ELSE "completed"]
    /\ UNCHANGED <<reports, reportsMade, reportPage, reportNet>>

-----------------------------------------------------------------------------
(* The table *)

ServeReports(i) ==
    /\ Sent(reportNet, i, "reports")
    /\ reportNet' = Reply(reportNet, i, reports)
    /\ UNCHANGED <<reportServer, reportPage>>

ReportsRead(i) ==
    /\ Settled(reportNet, i, "reports")
    /\ reportPage' = IF Ok(reportNet, i, "reports")
                     THEN [reportPage EXCEPT !.rows = reportNet[i].out, !.loading = FALSE]
                     ELSE [reportPage EXCEPT !.loading = FALSE, !.calm = FALSE]
    /\ reportNet' = Done(reportNet, i)
    /\ UNCHANGED reportServer

ServeJobs(i) ==
    /\ Sent(reportNet, i, "jobs")
    /\ reportNet' = Reply(reportNet, i, [r \in ReportId |-> NewestRun(r)])
    /\ UNCHANGED <<reportServer, reportPage>>

\* loadLatestRuns: the answer takes the place of all that was known; a failure is silent.
JobsRead(i) ==
    /\ Settled(reportNet, i, "jobs")
    /\ reportPage' = IF Ok(reportNet, i, "jobs") THEN [reportPage EXCEPT !.latest = reportNet[i].out]
                     ELSE [reportPage EXCEPT !.calm = FALSE]
    /\ reportNet' = Done(reportNet, i)
    /\ UNCHANGED reportServer

\* Mutant of HasActiveRun: a run that waits for the worker does not count.
HasActiveRunStarted == \E r \in ReportId : reportPage.latest[r] # None /\ reportPage.latest[r].st = "running"

\* "Poll only while something is in flight, and stop as soon as it is not."
HasActiveRun == \E r \in ReportId : InFlight(reportPage.latest[r])

\* The interval, which waits neither for the answers to the last round nor for
\* what the user has under way: its answer can be older than theirs.
Poll ==
    /\ HasActiveRun /\ Room(reportNet, 2)
    /\ reportPage' = [reportPage EXCEPT !.calm = @ /\ Quiet(reportNet)]
    /\ reportNet' = LoadReports(reportNet)
    /\ UNCHANGED reportServer

\* handleRun: the button is disabled while the row shows a run in flight; being
\* given disabled, it does not mind that a click is on its way.
RunReport(r) ==
    /\ OnReportRow(r) /\ RunsLeft /\ ~InFlight(reportPage.latest[r.id])
    /\ reportPage' = [StepReport EXCEPT !.busy = r.id]
    /\ reportNet' = Send(reportNet, "run", r.id)

\* run_report_now: refused while a run of the report is queued or running.
ServeRun(i) ==
    /\ Sent(reportNet, i, "run")
    /\ LET r == reportNet[i].arg
       IN IF ActiveJobs(r) # {} \/ r \notin {p.id : p \in reports}
          THEN reportNet' = Fail(reportNet, i) /\ UNCHANGED jobs
          ELSE /\ jobs' = Append(jobs, Job(r))
               /\ reportNet' = Reply(reportNet, i, [id |-> Len(jobs) + 1, st |-> "pending"])
    /\ UNCHANGED <<reports, reportsMade, reportPage>>

RunStarted(i) ==
    /\ Settled(reportNet, i, "run")
    /\ LET p == [reportPage EXCEPT !.busy = None]
       IN reportPage' = IF Ok(reportNet, i, "run") THEN [p EXCEPT !.latest[reportNet[i].arg] = reportNet[i].out] ELSE p
    /\ reportNet' = Done(reportNet, i)
    /\ UNCHANGED reportServer

DropReport(r) ==
    /\ OnReportRow(r)
    /\ reportPage' = StepReport
    /\ reportNet' = Send(reportNet, "drop", r.id)

\* delete_report keeps the runs, cut off from the report.
ServeDropReport(i) ==
    /\ Sent(reportNet, i, "drop")
    /\ LET row == {r \in reports : r.id = reportNet[i].arg}
       IN /\ reports' = reports \ row
          /\ jobs' = IF row = {} THEN jobs
                     ELSE [k \in DOMAIN jobs |-> IF jobs[k].report = reportNet[i].arg
                                                 THEN [jobs[k] EXCEPT !.report = None] ELSE jobs[k]]
          /\ reportNet' = IF row = {} THEN Fail(reportNet, i) ELSE Reply(reportNet, i, None)
    /\ UNCHANGED <<reportsMade, reportPage>>

\* Mutant of ReportDropped: the row goes whatever the answer says.
ReportDroppedAnyway(i) ==
    /\ Settled(reportNet, i, "drop")
    /\ reportPage' = [reportPage EXCEPT !.rows = {r \in @ : r.id # reportNet[i].arg}]
    /\ reportNet' = Done(reportNet, i)
    /\ UNCHANGED reportServer

\* The row goes; what the table knew of its latest run stays.
ReportDropped(i) ==
    /\ Settled(reportNet, i, "drop")
    /\ reportPage' = IF Ok(reportNet, i, "drop")
                     THEN [reportPage EXCEPT !.rows = {r \in @ : r.id # reportNet[i].arg}] ELSE reportPage
    /\ reportNet' = Done(reportNet, i)
    /\ UNCHANGED reportServer

-----------------------------------------------------------------------------
(* The dialog *)

OpenReport(r) ==
    /\ reportPage.dialog = None /\ reportPage.clicks < MaxReportClicks
    /\ r # None => r \in reportPage.rows /\ ~reportPage.loading
    /\ reportPage' = [reportPage EXCEPT !.dialog = [report |-> IF r = None THEN None ELSE r.id, saving |-> FALSE,
                                                  n |-> reportPage.clicks]]
    /\ UNCHANGED <<reportServer, reportNet>>

CloseReport ==
    /\ reportPage.dialog # None
    /\ reportPage' = [reportPage EXCEPT !.dialog = None]
    /\ UNCHANGED <<reportServer, reportNet>>

\* handleSave: a valid form can be sent again while it is being saved.
SaveReport(body) ==
    /\ PressReport /\ reportPage.dialog # None /\ (reportPage.dialog.report = None => ReportsLeft)
    /\ reportPage' = [StepReport EXCEPT !.dialog.saving = TRUE]
    /\ LET r == reportPage.dialog.report
       IN reportNet' = Send(reportNet, IF r = None THEN "create" ELSE "save",
                            [id |-> r, body |-> body, n |-> reportPage.dialog.n])

ServeCreateReport(i) ==
    /\ Sent(reportNet, i, "create")
    /\ reportsMade' = reportsMade + 1
    /\ reports' = reports \cup {[id |-> reportsMade + 1, body |-> reportNet[i].arg.body]}
    /\ reportNet' = Reply(reportNet, i, None)
    /\ UNCHANGED <<jobs, reportPage>>

\* update_report: "The whole definition is replaced", delivery_config with it.
ServeSaveReport(i) ==
    /\ Sent(reportNet, i, "save")
    /\ LET arg == reportNet[i].arg
           row == {r \in reports : r.id = arg.id}
       IN /\ reports' = IF row = {} THEN reports ELSE (reports \ row) \cup {[id |-> arg.id, body |-> arg.body]}
          /\ reportNet' = IF row = {} THEN Fail(reportNet, i) ELSE Reply(reportNet, i, None)
    /\ UNCHANGED <<reportsMade, jobs, reportPage>>

\* onSaved, onClose: both lists are read again and the dialog on screen closes,
\* whichever it is; a failure frees its own.
ReportSaved(i) ==
    /\ \E op \in {"create", "save"} :
          \/ /\ Ok(reportNet, i, op) /\ Room(reportNet, 1)
             /\ reportPage' = [reportPage EXCEPT !.dialog = None]
             /\ reportNet' = LoadReports(Done(reportNet, i))
          \/ /\ Err(reportNet, i, op)
             /\ reportPage' = IF reportPage.dialog # None /\ reportPage.dialog.n = reportNet[i].arg.n
                              THEN [reportPage EXCEPT !.dialog.saving = FALSE] ELSE reportPage
             /\ reportNet' = Done(reportNet, i)
    /\ UNCHANGED reportServer

ReportCallFails(i) ==
    /\ CanFail(reportNet, i) /\ reportPage.fails < MaxFails
    /\ reportNet' = Fail(reportNet, i)
    /\ reportPage' = [Missed(reportPage, reportNet, i) EXCEPT !.fails = @ + 1]
    /\ UNCHANGED reportServer

ReportAnswers(i) ==
    \/ ServeReports(i) \/ ReportsRead(i) \/ ServeJobs(i) \/ JobsRead(i) \/ ServeRun(i) \/ RunStarted(i)
    \/ ServeDropReport(i) \/ ReportDropped(i) \/ ServeCreateReport(i) \/ ServeSaveReport(i) \/ ReportSaved(i)

ReportsNext ==
    \/ \E r \in reports : RunBySchedule(r)
    \/ \E k \in 1..MaxJobs : WorkRun(k)
    \/ Poll
    \/ \E r \in reportPage.rows : RunReport(r) \/ DropReport(r) \/ OpenReport(r)
    \/ OpenReport(None) \/ CloseReport
    \/ \E b \in ReportBody : SaveReport(b)
    \/ \E i \in Slot : ReportAnswers(i) \/ ReportCallFails(i)

\* The worker ends every run (ExportRunner), the interval fires, and a call that
\* does not fail is answered and its answer handled.
ReportsFair ==
    /\ \A k \in 1..MaxJobs : WF_reportVars(WorkRun(k))
    /\ WF_reportVars(Poll)
    /\ \A i \in Slot : WF_reportVars(ReportAnswers(i))

ReportsSpec == ReportsInit /\ [][ReportsNext]_reportVars /\ ReportsFair

-----------------------------------------------------------------------------
(* Correctness *)

\* Once nothing is in flight, on the wire or in the table, the table shows the
\* reports there are and the latest run of each; provided one thing was done at
\* a time, no answer was lost and the scheduler started nothing.
ReportsMatch ==
    reportPage.calm /\ Quiet(reportNet) /\ (\A r \in ReportId : ~InFlight(reportPage.latest[r])) =>
        /\ reportPage.rows = reports
        /\ \A r \in reports : reportPage.latest[r.id] = NewestRun(r.id)

RunOnShow(r, k) == InFlight(reportPage.latest[r]) /\ reportPage.latest[r].id = k
EndOnShow(r, k) ==
    reportPage.latest[r] # None /\ reportPage.latest[r].id >= k /\ ~InFlight(reportPage.latest[r])

\* A list in which the run is not, about to take the place of all that is known:
\* it was read before the run began, or when the report was gone.
ListWithout(r, k) ==
    \E i \in Slot : Ok(reportNet, i, "jobs") /\ (reportNet[i].out[r] = None \/ reportNet[i].out[r].id < k)

\* A run shown in flight is followed: its end comes to be shown, or that of a newer
\* run of the report, however the answers to the polls are delayed and reordered,
\* unless a list comes in that does not know the run.  Such a list takes the run off
\* the row, and if nothing else is in flight the polling ends with it: the end of the
\* run is then not shown before the lists are asked for again.
RunFollowed ==
    \A r \in ReportId, k \in 1..MaxJobs : RunOnShow(r, k) ~> EndOnShow(r, k) \/ ListWithout(r, k)

-----------------------------------------------------------------------------
(* The inductive invariant behind ReportsMatch (see PortalWaits) *)

\* What is known of a report's latest run: what it is now, or what it was while it
\* was in flight.
Follows(known, r) ==
    known = NewestRun(r) \/ (InFlight(known) /\ NewestRun(r) # None /\ known.id = NewestRun(r).id)

AllFollow(latest) == DOMAIN latest = ReportId /\ \A r \in reports : Follows(latest[r.id], r.id)

\* What the answer to a call brings, or would bring, the table.
ReportCallFits(c) ==
    /\ c.op \in {"reports", "jobs", "run", "drop", "create", "save"} /\ c.st \in {"sent", "ok", "err"}
    /\ c.op = "reports" /\ c.st = "ok" => c.out = reports
    /\ c.op = "jobs" /\ c.st = "ok" => AllFollow(c.out)
    /\ c.op = "run" => c.arg \in ReportId
    /\ c.op = "run" /\ c.st = "ok" => AllFollow([reportPage.latest EXCEPT ![c.arg] = c.out])
    /\ c.op = "drop" /\ c.st = "ok" => {r \in reportPage.rows : r.id # c.arg} = reports
    /\ c.op = "create" /\ c.st = "sent" => reportsMade < MaxReports

\* Calls that leave the rows, or what is known of the runs, as they should be.
KeepsRows(c) == c.op # "reports" /\ (c.st = "ok" => c.op \in {"jobs", "run"})
KeepsLatest(c) == c.op # "jobs" /\ (c.st = "ok" => c.op \in {"reports", "drop"})

\* While all went one after the other: two calls in flight are the two lists; each
\* answer fits; and with none to wait for, the table shows what is so.
CalmTable ==
    /\ reportsMade \in 1..MaxReports
    /\ \A r \in reports : r.id \in ReportId
    /\ jobs \in Seq([report : ReportId \cup {None}, st : RunStatus])
    /\ \A i, j \in Pending(reportNet) : i = j \/ {reportNet[i].op, reportNet[j].op} = {"reports", "jobs"}
    /\ \A i \in Pending(reportNet) : ReportCallFits(reportNet[i])
    /\ DOMAIN reportPage.latest = ReportId
    /\ (\A i \in Pending(reportNet) : KeepsRows(reportNet[i])) => reportPage.rows = reports
    /\ (\A i \in Pending(reportNet) : KeepsLatest(reportNet[i])) => AllFollow(reportPage.latest)

ReportsInv == reportPage.calm => CalmTable
===============================================================================
