------------------------------ MODULE EmbedView ------------------------------
(***************************************************************************)
(* The row-level filters of a Power BI dashboard: the administrator sets   *)
(* them in the form (DashboardCreator.tsx), the server resolves them when  *)
(* it issues an embed token (routers/embed.py,                             *)
(* services/embedders/powerbi.py), and the viewer's page                   *)
(* (DashboardEmbedClient.tsx, PowerBIEmbed.tsx) puts them on the report    *)
(* and asks for a new token before the old one ends.                       *)
(*                                                                         *)
(* Timers fire at any time.  The filter panel of the viewer's page is left *)
(* out: the page reads "dashboard_filters" (dashboard/[id]/page.tsx:51),   *)
(* which no answer of the server has, so it is never shown.                *)
(***************************************************************************)
EXTENDS Calls, Sequences, SequencesExt

CONSTANTS
    FilterTarget,         \* columns of tables
    Value,          \* values, and names of user attributes
    Grant,          \* the ways a viewer may have been given the dashboard: in person, by a role
    MaxRows,        \* bound: filters on the form
    MaxEmbedClicks  \* bound: steps of the administrator and the viewer

FilterRow == [to : FilterTarget \cup {None}, kind : {"static", "attribute"}, value : Value \cup {None}]

\* What a report is given to show itself: its filters, and whether its token lives
\* for longer than two minutes.
EmbedToken == [error : {None}, rows : SUBSET [to : FilterTarget, value : Value \cup {None}], long : BOOLEAN]

EmbedRefusal == [error : {"config", "denied"}]

\* None is no token and no error.
ASSUME EmbedAssumption == None \notin EmbedToken \cup {"config", "denied", "failed"}

VARIABLES
    filterRows,  \* settings.embed_config.filters as the server stores them
    access,      \* whether the dashboard names a report, and the viewer's grants
    current,     \* no other filters have been stored since a token was issued
    rowForm,     \* the React state of the form, None when there is none
    embed,       \* the React state of the viewer's page
    embedLog,    \* clicks, and whether they were made one at a time
    embedNet     \* the requests

embedVars == <<filterRows, access, current, rowForm, embed, embedLog, embedNet>>
embedServer == <<filterRows, access, current>>

Row(to, kind, value) == [to |-> to, kind |-> kind, value |-> value]
NewRow == Row(None, "static", None)

\* The viewer's page before it opens; it opens once.
NoReport == [mounted |-> FALSE, left |-> FALSE, data |-> None, loading |-> TRUE, error |-> None]

\* ref: the timer refreshTimerRef names is pending; lost: others that are.
NoTimers == [ref |-> FALSE, lost |-> 0]

EmbedInit ==
    /\ \E t \in FilterTarget, v \in Value, k \in {"static", "attribute"} : filterRows = <<Row(t, k, v)>>
    /\ access \in [report : BOOLEAN, admin : BOOLEAN, grants : SUBSET Grant]
    /\ current = FALSE
    /\ rowForm = None
    /\ embed = [page |-> NoReport, timers |-> NoTimers]
    /\ embedLog = [clicks |-> 0, calm |-> TRUE]
    /\ embedNet = NoCalls

PressEmbed ==
    /\ embedLog.clicks < MaxEmbedClicks
    /\ embedLog' = Pressed(embedLog, Quiet(embedNet))
    /\ UNCHANGED embedServer

-----------------------------------------------------------------------------
(* The form *)

OpenRows ==
    /\ rowForm = None /\ PressEmbed /\ Room(embedNet, 1)
    /\ rowForm' = [rows |-> << >>, loading |-> TRUE, saving |-> FALSE, touched |-> FALSE, n |-> embedLog.clicks]
    /\ embedNet' = Send(embedNet, "load", [n |-> embedLog.clicks])
    /\ UNCHANGED embed

MyRows(i) == rowForm # None /\ rowForm.n = embedNet[i].arg.n

ServeRows(i) ==
    /\ Sent(embedNet, i, "load")
    /\ embedNet' = Reply(embedNet, i, filterRows)
    /\ UNCHANGED <<embedServer, rowForm, embed, embedLog>>

\* Mutant of RowsRead: the form opens without the filters of the row.
RowsReadEmpty(i) ==
    /\ Settled(embedNet, i, "load")
    /\ rowForm' = IF MyRows(i) THEN [rowForm EXCEPT !.loading = FALSE] ELSE rowForm
    /\ embedLog' = [embedLog EXCEPT !.calm = @ /\ Ok(embedNet, i, "load")]
    /\ embedNet' = Done(embedNet, i)
    /\ UNCHANGED <<embedServer, embed>>

\* After a failure the form can be edited and saved, without the filters.
RowsRead(i) ==
    /\ Settled(embedNet, i, "load")
    /\ rowForm' = IF ~MyRows(i) THEN rowForm
                  ELSE IF Ok(embedNet, i, "load")
                  THEN [rowForm EXCEPT !.loading = FALSE, !.rows = embedNet[i].out]
                  ELSE [rowForm EXCEPT !.loading = FALSE]
    /\ embedLog' = [embedLog EXCEPT !.calm = @ /\ Ok(embedNet, i, "load")]
    /\ embedNet' = Done(embedNet, i)
    /\ UNCHANGED <<embedServer, embed>>

CloseRows ==
    /\ rowForm # None
    /\ rowForm' = None
    /\ UNCHANGED <<embedServer, embed, embedLog, embedNet>>

SetRows(rows) ==
    /\ rowForm # None /\ ~rowForm.loading /\ PressEmbed
    /\ rowForm' = [rowForm EXCEPT !.rows = rows, !.touched = TRUE]
    /\ UNCHANGED <<embed, embedNet>>

AddRow == rowForm # None /\ Len(rowForm.rows) < MaxRows /\ SetRows(Append(rowForm.rows, NewRow))

OnRow(k) == rowForm # None /\ k \in DOMAIN rowForm.rows

SetTarget(k, t) == OnRow(k) /\ SetRows([rowForm.rows EXCEPT ![k].to = t])

\* The other kind starts without a value.
SetKind(k, kind) == OnRow(k) /\ SetRows([rowForm.rows EXCEPT ![k].kind = kind, ![k].value = None])

SetValue(k, v) == OnRow(k) /\ SetRows([rowForm.rows EXCEPT ![k].value = v])

RemoveRow(k) == OnRow(k) /\ SetRows(RemoveAt(rowForm.rows, k))

SaveRows ==
    /\ rowForm # None /\ ~rowForm.loading /\ ~rowForm.saving /\ PressEmbed /\ Room(embedNet, 1)
    /\ rowForm' = [rowForm EXCEPT !.saving = TRUE]
    /\ embedNet' = Send(embedNet, "save", [rows |-> rowForm.rows, touched |-> rowForm.touched, n |-> rowForm.n])
    /\ UNCHANGED embed

ServeSaveRows(i) ==
    /\ Sent(embedNet, i, "save")
    /\ filterRows' = embedNet[i].arg.rows
    /\ current' = (current /\ filterRows' = filterRows)
    /\ embedNet' = Reply(embedNet, i, None)
    /\ UNCHANGED <<access, rowForm, embed, embedLog>>

\* onSuccess closes whichever form is open.
RowsSaved(i) ==
    /\ Settled(embedNet, i, "save")
    /\ rowForm' = IF Ok(embedNet, i, "save") THEN None
                  ELSE IF MyRows(i) THEN [rowForm EXCEPT !.saving = FALSE] ELSE rowForm
    /\ embedNet' = Done(embedNet, i)
    /\ UNCHANGED <<embedServer, embed, embedLog>>

-----------------------------------------------------------------------------
(* The viewer's page *)

\* fetchToken
Fetching(page) == [page EXCEPT !.error = None]
FetchToken == embedNet' = Send(embedNet, "token", None)

\* Mutant of ClearRef: a page that goes away leaves its timer.
ClearRefNot(timers) == timers

\* The cleanup of the effect knows the last timer only.
ClearRef(timers) == [timers EXCEPT !.ref = FALSE]

OpenEmbed ==
    /\ ~embed.page.mounted /\ ~embed.page.left /\ PressEmbed /\ Room(embedNet, 1)
    /\ embed' = [embed EXCEPT !.page = [NoReport EXCEPT !.mounted = TRUE]]
    /\ FetchToken
    /\ UNCHANGED rowForm

LeaveReport ==
    /\ embed.page.mounted /\ PressEmbed
    /\ embed' = [page |-> [NoReport EXCEPT !.left = TRUE], timers |-> ClearRef(embed.timers)]
    /\ UNCHANGED <<rowForm, embedNet>>

\* Another session object: the effect is cleaned up and runs again.
SessionChanged ==
    /\ embed.page.mounted /\ PressEmbed /\ Room(embedNet, 1)
    /\ embed' = [page |-> Fetching(embed.page), timers |-> ClearRef(embed.timers)]
    /\ FetchToken
    /\ UNCHANGED rowForm

\* A timer fires, the page's own or one that it has lost, even after the page left.
RefreshDue ==
    /\ Room(embedNet, 1)
    /\ \/ embed.timers.ref /\ embed' = [page |-> Fetching(embed.page), timers |-> ClearRef(embed.timers)]
       \/ embed.timers.lost > 0 /\ embed' = [page |-> Fetching(embed.page), timers |-> [embed.timers EXCEPT !.lost = @ - 1]]
    /\ FetchToken
    /\ UNCHANGED <<embedServer, rowForm, embedLog>>

NoneShown == embed.page.error # None \/ embed.page.data = None

\* No Retry after a configuration error.
RetryReport ==
    /\ embed.page.mounted /\ ~embed.page.loading /\ NoneShown /\ embed.page.error # "config"
    /\ PressEmbed /\ Room(embedNet, 1)
    /\ embed' = [embed EXCEPT !.page = [Fetching(@) EXCEPT !.loading = TRUE]]
    /\ FetchToken
    /\ UNCHANGED rowForm

\* _assert_dashboard_access: scalar_one_or_none() raises on a second grant.
Admitted == access.admin \/ Cardinality(access.grants) = 1

\* Mutant of Resolved: a filter by user attribute is taken for a static one.
ResolvedStatic(rows) ==
    {[to |-> r.to, value |-> IF r.kind = "static" THEN r.value ELSE None] : r \in {q \in Range(rows) : q.to # None}}

\* A filter without a column is passed over, one without a value is not; every
\* attribute of a user has a value.  All of them hold for the report, in any order.
Resolved(rows) == {[to |-> r.to, value |-> r.value] : r \in {q \in Range(rows) : q.to # None}}

\* generate_embed_token: Power BI may issue a token that ends within two minutes.
ServeToken(i) ==
    /\ Sent(embedNet, i, "token")
    /\ IF Admitted /\ access.report
       THEN /\ current' = TRUE
            /\ \E long \in BOOLEAN :
                  embedNet' = Reply(embedNet, i, [error |-> None, rows |-> Resolved(filterRows), long |-> long])
       ELSE /\ current' = current
            /\ embedNet' = Reply(embedNet, i, [error |-> IF Admitted THEN "config" ELSE "denied"])
    /\ UNCHANGED <<filterRows, access, rowForm, embed, embedLog>>

\* The next refresh is planned, whether or not the page is still there; nothing
\* is planned after a failure.
TokenRead(i) ==
    /\ Settled(embedNet, i, "token")
    /\ LET error == IF Err(embedNet, i, "token") THEN "failed" ELSE embedNet[i].out.error
           page == embed.page
           timers == embed.timers
           plans == error = None /\ embedNet[i].out.long
       IN embed' = [page |-> IF ~page.mounted THEN page
                             ELSE IF error = None THEN [page EXCEPT !.data = embedNet[i].out, !.loading = FALSE]
                             ELSE [page EXCEPT !.error = error, !.loading = FALSE],
                    timers |-> IF plans THEN [ref |-> TRUE, lost |-> timers.lost + IF timers.ref THEN 1 ELSE 0]
                               ELSE timers]
    /\ embedNet' = Done(embedNet, i)
    /\ UNCHANGED <<embedServer, rowForm, embedLog>>

EmbedCallFails(i) ==
    /\ CanFail(embedNet, i)
    /\ embedNet' = Fail(embedNet, i)
    /\ embedLog' = Missed(embedLog, embedNet, i)
    /\ UNCHANGED <<embedServer, rowForm, embed>>

EmbedNext ==
    \/ OpenRows \/ CloseRows \/ AddRow \/ SaveRows
    \/ \E k \in 1..MaxRows :
          \/ RemoveRow(k) \/ \E t \in FilterTarget : SetTarget(k, t)
          \/ \E kind \in {"static", "attribute"} : SetKind(k, kind)
          \/ \E v \in Value : SetValue(k, v)
    \/ OpenEmbed \/ LeaveReport \/ SessionChanged \/ RefreshDue \/ RetryReport
    \/ \E i \in Slot :
          \/ ServeRows(i) \/ RowsRead(i) \/ ServeSaveRows(i) \/ RowsSaved(i)
          \/ ServeToken(i) \/ TokenRead(i) \/ EmbedCallFails(i)

-----------------------------------------------------------------------------
(* Correctness *)

\* The filters a report is shown with: those without a value are dropped.
FiltersOf(data) == {r \in data.rows : r.value # None}

Complete(rows) == {[to |-> r.to, value |-> r.value] : r \in {q \in Range(rows) : q.to # None /\ q.value # None}}

\* A report on show, with no other filters stored since its token was issued, is
\* filtered by every filter that names a column and a value, and by no other;
\* provided one thing was done at a time and no answer was lost.
RowsFiltered ==
    embedLog.calm /\ Quiet(embedNet) /\ embed.page.mounted /\ ~NoneShown /\ current =>
        FiltersOf(embed.page.data) = Complete(filterRows)

\* The filters of a dashboard change only by a save of a form in which they were
\* edited; provided one thing was done at a time and no answer was lost.
FiltersKept ==
    [][filterRows' # filterRows /\ embedLog.calm =>
          \E i \in Slot : Sent(embedNet, i, "save") /\ embedNet[i].arg.touched]_embedVars

\* "Refreshes the token automatically 2 minutes before it expires so the report
\* stays live" (PowerBIEmbed.tsx:6): a report on show has one refresh planned and
\* a page that is gone has none; provided one thing was done at a time and Power
\* BI's token lives for longer than two minutes.
OneRefresh ==
    embedLog.calm /\ Quiet(embedNet) =>
        /\ embed.timers.lost = 0
        /\ embed.timers.ref = (embed.page.mounted /\ ~NoneShown /\ embed.page.data.long)

\* The form and the page say that they wait only while they do.
EmbedSpinners ==
    Quiet(embedNet) =>
        /\ rowForm # None => ~rowForm.loading /\ ~rowForm.saving
        /\ embed.page.mounted => ~embed.page.loading

EmbedSpec == EmbedInit /\ [][EmbedNext]_embedVars

-----------------------------------------------------------------------------
(* The inductive invariants (see PortalProofs) *)

Tokens == Of(embedNet, {"token"})
FormCalls == Of(embedNet, {"load", "save"})

\* Behind OneRefresh: the one token on its way, if any, is for the report on
\* display and will plan the refresh, and none is planned meanwhile.
RefreshInv ==
    embedLog.calm =>
        /\ embed.timers.lost = 0
        /\ \A i, j \in Tokens : i = j
        /\ \A i \in Tokens : embed.page.mounted /\ embed.page.error = None /\ ~embed.timers.ref
        /\ Tokens = {} => embed.timers.ref = (embed.page.mounted /\ ~NoneShown /\ embed.page.data.long)

\* Behind RowsFiltered: while the filters are those of the token issued last, it
\* carries them, on its way or on display.
FiltersInv ==
    embedLog.calm /\ current =>
        /\ \A i \in Tokens : Ok(embedNet, i, "token") /\ embedNet[i].out.error = None =>
              FiltersOf(embedNet[i].out) = Complete(filterRows)
        /\ Tokens = {} /\ embed.page.mounted /\ ~NoneShown => FiltersOf(embed.page.data) = Complete(filterRows)

\* Behind FiltersKept: a form that was not touched holds the filters as they are,
\* and so does what is sent of it.
UntouchedInv ==
    embedLog.calm =>
        /\ \A i, j \in FormCalls : i = j
        /\ rowForm # None /\ ~rowForm.loading /\ ~rowForm.touched => rowForm.rows = filterRows
        /\ \A i \in FormCalls :
              /\ Ok(embedNet, i, "load") => embedNet[i].out = filterRows
              /\ Sent(embedNet, i, "save") =>
                    IF embedNet[i].arg.touched THEN rowForm = None \/ rowForm.touched
                    ELSE embedNet[i].arg.rows = filterRows
===============================================================================
