------------------------------- MODULE RunTables -------------------------------
(***************************************************************************)
(* The two tables of runs of the exports page: the run log, which polls    *)
(* while a run is in flight (exports/ExportHistoryTable.tsx), and the      *)
(* history of one report, whose runs can be cancelled                      *)
(* (exports/RunHistory.tsx), both under the filters they share             *)
(* (exports/RunFilters.tsx, exports/types.ts) and over the server's run    *)
(* log (routers/exports.py).  Of a run the table keeps its status and the  *)
(* word a search finds it by; the filter by trigger behaves like the one   *)
(* by status, and the download of a result, which touches neither the      *)
(* table nor the server, is left out.                                      *)
(***************************************************************************)
EXTENDS Calls

CONSTANTS
    Word,          \* what can be searched for
    NoText,        \* the empty search box, and a select left at "any"
    MaxRuns,       \* bound: runs in the log
    MaxTableClicks \* bound: clicks and searches typed

VARIABLES
    runLog,        \* the server's runs
    runTable,      \* the React state of the table on screen
    tableNet       \* its requests

tableVars == <<runLog, runTable, tableNet>>

Ended == {"completed", "failed"}

EmptyFilters == [search |-> NoText, status |-> NoText]

\* What the server finds: runFilterParams leaves out a filter that is not set.
Matching(runs, f) ==
    {run \in runs : /\ f.search # NoText => run.word = f.search
                    /\ f.status # NoText => run.status = f.status}

\* The log when the page opens: one run, which may have ended.
Runs0 == {[id |-> 1, status |-> st, word |-> w] : st \in {"running", "completed"}, w \in Word}

\* load, as of the render that holds these filters.
AskRuns(net, f) == Send(net, "list", f)

TablesInit ==
    /\ \E run \in Runs0 : runLog = {run}
    /\ \E kind \in {"log", "report"} :
          runTable = [kind |-> kind, text |-> NoText, filters |-> EmptyFilters, rows |-> {}, loading |-> TRUE,
                      clicks |-> 0, calm |-> TRUE]
    /\ tableNet = AskRuns(NoCalls, EmptyFilters)

Typing == runTable.text # runTable.filters.search

PressTable ==
    /\ runTable.clicks < MaxTableClicks /\ Room(tableNet, 1)
    /\ UNCHANGED runLog
\* A click in the pause of the typing is no mishap.
StepLog == Pressed(runTable, Quiet(tableNet))

TableActive == \E run \in runTable.rows : run.status \notin Ended

-----------------------------------------------------------------------------
(* The worker *)

\* A run is queued elsewhere.
AnotherRun(w) ==
    /\ Cardinality(runLog) < MaxRuns
    /\ runLog' = runLog \cup {[id |-> Cardinality(runLog) + 1, status |-> "pending", word |-> w]}
    /\ runTable' = [runTable EXCEPT !.calm = FALSE]
    /\ UNCHANGED tableNet

\* A run goes on.  Only the log follows it, and under a filter by status only for
\* as long as that shows a run in flight.
RunGoesOn(run) ==
    /\ run.status \notin Ended
    /\ \E st \in IF run.status = "pending" THEN {"running"} ELSE Ended :
          runLog' = (runLog \ {run}) \cup {[run EXCEPT !.status = st]}
    /\ runTable' = [runTable EXCEPT !.calm = @ /\ runTable.kind = "log" /\ runTable.filters.status = NoText]
    /\ UNCHANGED tableNet

-----------------------------------------------------------------------------
(* The filters *)

TypeSearch(t) ==
    /\ PressTable /\ t # runTable.text
    /\ runTable' = [StepLog EXCEPT !.text = t]
    /\ UNCHANGED tableNet

\* setFilters: the effect of the table that depends on load reads the rows
\* again, while the answer to the last read may be on its way; the effect of
\* RunFilters empties the box when the search that is in force goes.
NewFilters(ui, f) ==
    [ui EXCEPT !.filters = f,
               !.text = IF f.search = NoText /\ ui.filters.search # NoText THEN NoText ELSE @]

\* The text has not changed for DEBOUNCE_MS.
SearchSettles ==
    /\ Typing /\ Room(tableNet, 1)
    /\ LET f == [runTable.filters EXCEPT !.search = runTable.text]
       IN /\ runTable' = [NewFilters(runTable, f) EXCEPT !.calm = @ /\ Quiet(tableNet)]
          /\ tableNet' = AskRuns(tableNet, f)
    /\ UNCHANGED runLog

ChooseStatus(st) ==
    /\ PressTable /\ st # runTable.filters.status
    /\ LET f == [runTable.filters EXCEPT !.status = st]
       IN runTable' = NewFilters(StepLog, f) /\ tableNet' = AskRuns(tableNet, f)

ClearFilters ==
    /\ PressTable /\ runTable.filters # EmptyFilters
    /\ runTable' = NewFilters(StepLog, EmptyFilters)
    /\ tableNet' = AskRuns(tableNet, EmptyFilters)

-----------------------------------------------------------------------------
(* The rows *)

ServeRunList(i) ==
    /\ Sent(tableNet, i, "list")
    /\ tableNet' = Reply(tableNet, i, Matching(runLog, tableNet[i].arg))
    /\ UNCHANGED <<runLog, runTable>>

\* An answer is shown whichever filters it was asked with; after a failure the
\* rows stay.
RowsListed(i) ==
    /\ Settled(tableNet, i, "list")
    /\ runTable' = IF Ok(tableNet, i, "list")
                   THEN [runTable EXCEPT !.rows = tableNet[i].out, !.loading = FALSE]
                   ELSE [runTable EXCEPT !.loading = FALSE, !.calm = FALSE]
    /\ tableNet' = Done(tableNet, i)
    /\ UNCHANGED runLog

\* "Poll only while a run is in flight", with the filters of the moment.
PollLog ==
    /\ runTable.kind = "log" /\ TableActive /\ Room(tableNet, 1)
    /\ tableNet' = AskRuns(tableNet, runTable.filters)
    /\ UNCHANGED <<runLog, runTable>>

CancelRun(run) ==
    /\ PressTable /\ runTable.kind = "report" /\ ~runTable.loading
    /\ run \in runTable.rows /\ run.status \notin Ended
    /\ runTable' = StepLog
    /\ tableNet' = Send(tableNet, "cancel", [id |-> run.id, filters |-> runTable.filters])

\* cancel_export_job: a run that has ended is refused with 409.
ServeCancel(i) ==
    /\ Sent(tableNet, i, "cancel")
    /\ LET run == CHOOSE r \in runLog : r.id = tableNet[i].arg.id
       IN IF run.status \in Ended THEN tableNet' = Fail(tableNet, i) /\ UNCHANGED runLog
          ELSE /\ runLog' = (runLog \ {run}) \cup {[run EXCEPT !.status = "failed"]}
               /\ tableNet' = Reply(tableNet, i, None)
    /\ UNCHANGED runTable

\* handleCancel goes on: load, with the filters there were at the click.
CancelAnswered(i) ==
    /\ Settled(tableNet, i, "cancel")
    /\ tableNet' = IF Ok(tableNet, i, "cancel") THEN Then(tableNet, i, "list", tableNet[i].arg.filters)
                   ELSE Done(tableNet, i)
    /\ runTable' = [runTable EXCEPT !.calm = @ /\ Ok(tableNet, i, "cancel")]
    /\ UNCHANGED runLog

TableCallFails(i) ==
    /\ CanFail(tableNet, i)
    /\ tableNet' = Fail(tableNet, i)
    /\ runTable' = Missed(runTable, tableNet, i)
    /\ UNCHANGED runLog

TablesNext ==
    \/ \E w \in Word : AnotherRun(w)
    \/ \E run \in runLog : RunGoesOn(run)
    \/ \E t \in Word \cup {NoText} : TypeSearch(t)
    \/ SearchSettles \/ ClearFilters \/ PollLog
    \/ \E st \in {NoText, "running", "failed"} : ChooseStatus(st)
    \/ \E run \in runTable.rows : CancelRun(run)
    \/ \E i \in Slot :
          \/ ServeRunList(i) \/ RowsListed(i) \/ ServeCancel(i) \/ CancelAnswered(i) \/ TableCallFails(i)

-----------------------------------------------------------------------------
(* Correctness *)

\* Once nothing is typed or in flight, on the wire or in the log, the table
\* shows exactly the runs the server finds for the filters it shows, those changed
\* in the pause before a search is sent included; provided nothing was clicked or
\* sent over a request, no answer was lost and no run was queued, or moved on
\* where the table does not follow it.
RunsShown ==
    runTable.calm /\ Quiet(tableNet) /\ ~Typing /\ (runTable.kind = "log" => ~TableActive) =>
        runTable.rows = Matching(runLog, runTable.filters)

\* The table says it is loading only while it waits for an answer.
TableSpinners == Quiet(tableNet) => ~runTable.loading
===============================================================================
