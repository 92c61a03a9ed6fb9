----------------------------- MODULE PipelineRuns -----------------------------
(***************************************************************************)
(* The page of one pipeline connection                                     *)
(* (app/(platform)/pipelines/[id]/page.tsx): its runs, read page by page   *)
(* from the provider for a window of days, filtered and drawn as a tree of *)
(* runs and the runs they started; and its pipelines, read when their tab  *)
(* is first opened.  The search box filters as the status does and is left *)
(* out; another connection is another page.                                *)
(***************************************************************************)
EXTENDS Calls, Sequences
LOCAL INSTANCE SequencesExt

CONSTANTS
    Pages,           \* for every window, the provider's pages of runs, newest first
    DefaultWindow,   \* the window the page opens with
    MaxRunClicks     \* bound: clicks of the user

Window == DOMAIN Pages

VARIABLES
    runPage,   \* the React state of the page
    runNet     \* its requests

runVars == <<runPage, runNet>>

RunsInit ==
    /\ runPage = [phase |-> "loading", tab |-> "runs", runs |-> <<>>, cursor |-> None, failed |-> FALSE,
                  days |-> DefaultWindow, status |-> None, expanded |-> {},
                  refreshing |-> FALSE, loadingMore |-> FALSE,
                  defsLoading |-> FALSE, defsLoaded |-> FALSE, clicks |-> 0, calm |-> TRUE]
    /\ runNet = Send(NoCalls, "conn", None)

PressRuns ==
    /\ runPage.phase = "ready" /\ runPage.clicks < MaxRunClicks /\ Room(runNet, 1)
StepRuns == Pressed(runPage, Quiet(runNet))

-----------------------------------------------------------------------------
(* Reading the runs *)

\* loadRuns: the window is the one on screen when the handler was made; a cursor
\* is the provider's own mark, here the window it belongs to and its page.
LoadRuns(net, why, days, cursor) == Send(net, "runs", [why |-> why, days |-> days, cursor |-> cursor])

\* The mount: the connection, then its first runs.
ServeConn(i) ==
    /\ Sent(runNet, i, "conn")
    /\ runNet' = Reply(runNet, i, None)
    /\ UNCHANGED runPage

ConnShown(i) ==
    /\ Settled(runNet, i, "conn")
    /\ IF Ok(runNet, i, "conn")
       THEN runNet' = LoadRuns(Done(runNet, i), "mount", runPage.days, None) /\ UNCHANGED runPage
       ELSE runPage' = [runPage EXCEPT !.phase = "gone"] /\ runNet' = Done(runNet, i)

\* The provider's page after the cursor, and the mark of the one after it.
ServeRuns(i) ==
    /\ Sent(runNet, i, "runs")
    /\ LET arg == runNet[i].arg
           at == IF arg.cursor = None THEN [days |-> arg.days, n |-> 1] ELSE arg.cursor
           next == IF at.n < Len(Pages[at.days]) THEN [at EXCEPT !.n = @ + 1] ELSE None
       IN runNet' = Reply(runNet, i, [runs |-> Pages[at.days][at.n], next |-> next])
    /\ UNCHANGED runPage

\* Mutant of RunsSettled: "Load older" has no finally.
RunsSettledButMore(p, why) ==
    CASE why = "mount" -> [p EXCEPT !.phase = "ready"]
      [] why = "refresh" -> [p EXCEPT !.refreshing = FALSE]
      [] why \in {"more", "days"} -> p

\* What a request for runs ends, whatever became of it.
RunsSettled(p, why) ==
    CASE why = "mount" -> [p EXCEPT !.phase = "ready"]
      [] why = "refresh" -> [p EXCEPT !.refreshing = FALSE]
      [] why = "more" -> [p EXCEPT !.loadingMore = FALSE]
      [] why = "days" -> p

WithRuns(p, why, out) ==
    [p EXCEPT !.runs = IF why = "more" THEN @ \o out.runs ELSE out.runs, !.cursor = out.next]

\* The error takes the place of the table; a first page that fails also empties it.
RunsRead(i) ==
    /\ Settled(runNet, i, "runs")
    /\ LET why == runNet[i].arg.why
           p == IF Ok(runNet, i, "runs") THEN WithRuns(runPage, why, runNet[i].out)
                ELSE [runPage EXCEPT !.failed = TRUE, !.runs = IF why = "more" THEN @ ELSE <<>>]
       IN runPage' = RunsSettled(p, why)
    /\ runNet' = Done(runNet, i)

\* The window of days: the runs are read again.
ChooseDays(d) ==
    /\ PressRuns /\ runPage.tab = "runs" /\ d # runPage.days
    /\ runPage' = [StepRuns EXCEPT !.days = d, !.failed = FALSE]
    /\ runNet' = LoadRuns(runNet, "days", d, None)

\* Offered below the table while there is a mark and no error.
LoadOlder ==
    /\ PressRuns /\ runPage.tab = "runs" /\ ~runPage.failed /\ ~runPage.loadingMore
    /\ runPage.cursor # None
    /\ runPage' = [StepRuns EXCEPT !.loadingMore = TRUE]
    /\ runNet' = LoadRuns(runNet, "more", runPage.days, runPage.cursor)

-----------------------------------------------------------------------------
(* The pipelines, and the button above both tabs *)

\* loadPipelines
LoadDefs(net, why) == Send(net, "defs", why)

ServeDefs(i) ==
    /\ Sent(runNet, i, "defs")
    /\ runNet' = Reply(runNet, i, None)
    /\ UNCHANGED runPage

\* Loaded even when it failed: only the button tries again.
DefsRead(i) ==
    /\ Settled(runNet, i, "defs")
    /\ LET p == [runPage EXCEPT !.defsLoading = FALSE, !.defsLoaded = TRUE]
       IN runPage' = IF runNet[i].arg = "refresh" THEN [p EXCEPT !.refreshing = FALSE] ELSE p
    /\ runNet' = Done(runNet, i)

OpenRunTab(t) ==
    /\ PressRuns /\ t # runPage.tab
    /\ IF t = "pipelines" /\ ~runPage.defsLoaded /\ ~runPage.defsLoading
       THEN /\ runNet' = LoadDefs(runNet, "tab")
            /\ runPage' = [StepRuns EXCEPT !.tab = t, !.defsLoading = TRUE]
       ELSE runPage' = [runPage EXCEPT !.tab = t, !.clicks = @ + 1] /\ UNCHANGED runNet

RefreshRuns ==
    /\ PressRuns /\ ~runPage.refreshing
    /\ LET p == [StepRuns EXCEPT !.refreshing = TRUE]
       IN IF runPage.tab = "runs"
          THEN /\ runPage' = [p EXCEPT !.failed = FALSE]
               /\ runNet' = LoadRuns(runNet, "refresh", runPage.days, None)
          ELSE runPage' = [p EXCEPT !.defsLoading = TRUE] /\ runNet' = LoadDefs(runNet, "refresh")

-----------------------------------------------------------------------------
(* The tree *)

LoadedRuns == {runPage.runs[k] : k \in DOMAIN runPage.runs}

\* filteredRuns
FilteredRuns == {r \in LoadedRuns : runPage.status \in {None, r.status}}

RunIds(rs) == {r.id : r \in rs}

\* Mutant of RootRuns: a run that has a parent is drawn below it alone.
RootRunsOrphaned(rs) == {r \in rs : r.parent = None}

\* A run whose parent is not among the rows is drawn as one that has none.
RootRuns(rs) == {r \in rs : r.parent \notin RunIds(rs)}

\* walk: from the roots down through the runs that are expanded.
TreeRows(rs, expanded) ==
    LET Level[n \in 0..Cardinality(rs)] ==
            IF n = 0 THEN RootRuns(rs)
            ELSE {r \in rs : r.parent \in RunIds(Level[n - 1]) \cap expanded}
    IN UNION {Level[n] : n \in 0..Cardinality(rs)}

ShownRuns == TreeRows(FilteredRuns, runPage.expanded)

\* toggleExpand, offered on a row with rows below it.
ToggleExpand(r) ==
    /\ PressRuns /\ runPage.tab = "runs" /\ ~runPage.failed /\ r \in ShownRuns
    /\ \E k \in FilteredRuns : k.parent = r.id
    /\ runPage' = [runPage EXCEPT !.clicks = @ + 1,
                                  !.expanded = IF r.id \in @ THEN @ \ {r.id} ELSE @ \cup {r.id}]
    /\ UNCHANGED runNet

\* A status among those of the runs loaded; it stays chosen when they change.
ChooseRunStatus(s) ==
    /\ PressRuns /\ runPage.tab = "runs" /\ s # runPage.status
    /\ s \in {r.status : r \in LoadedRuns} \cup {None}
    /\ runPage' = [runPage EXCEPT !.clicks = @ + 1, !.status = s]
    /\ UNCHANGED runNet

RunCallFails(i) ==
    /\ CanFail(runNet, i)
    /\ runNet' = Fail(runNet, i)
    /\ runPage' = Missed(runPage, runNet, i)

RunsNext ==
    \/ \E d \in Window : ChooseDays(d)
    \/ LoadOlder \/ RefreshRuns
    \/ \E t \in {"runs", "pipelines"} : OpenRunTab(t)
    \/ \E r \in LoadedRuns : ToggleExpand(r) \/ ChooseRunStatus(r.status)
    \/ ChooseRunStatus(None)
    \/ \E i \in Slot :
          \/ ServeConn(i) \/ ConnShown(i) \/ ServeRuns(i) \/ RunsRead(i)
          \/ ServeDefs(i) \/ DefsRead(i) \/ RunCallFails(i)

-----------------------------------------------------------------------------
(* Correctness *)

\* With one thing done at a time, the rows are the pages of the chosen window,
\* in order, as far as the mark of the next one: none is missing, none twice.
RunsMatch ==
    runPage.phase = "ready" /\ runPage.calm /\ Quiet(runNet) /\ ~runPage.failed =>
        LET pages == Pages[runPage.days]
            read == IF runPage.cursor = None THEN Len(pages) ELSE runPage.cursor.n - 1
        IN runPage.runs = FlattenSeq(SubSeq(pages, 1, read))

\* A run that passes the filters is on screen, or comes on screen when the rows
\* above it are expanded: neither a parent on an older page nor one that the
\* filter hides takes its children with it.
NoRunLost == FilteredRuns = ShownRuns \cup TreeRows(FilteredRuns, RunIds(FilteredRuns))

\* A spinner is waiting for a request of its own, and an open tab has been asked for.
RunSpinners ==
    Quiet(runNet) =>
        /\ runPage.phase # "loading"
        /\ ~runPage.refreshing /\ ~runPage.loadingMore /\ ~runPage.defsLoading
        /\ runPage.tab = "pipelines" => runPage.defsLoaded
===============================================================================
