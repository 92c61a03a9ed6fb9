---------------------------- MODULE DashboardForm ----------------------------
(***************************************************************************)
(* The form of a dashboard (components/dashboards/DashboardCreator.tsx)    *)
(* over the row it creates or edits (routers/dashboards.py).  Power BI is  *)
(* the one provider of this build (services/bi_providers/__init__.py:3);   *)
(* the form's Tableau and public branches cannot be reached and are left   *)
(* out, but for the page embeds the server may hold, which have no         *)
(* connection.                                                             *)
(*                                                                         *)
(* A report is picked in two steps, a workspace and a report of it.  React *)
(* effects ask for the workspaces when the connection changes and for the  *)
(* reports when the workspace does; nothing cancels or orders their        *)
(* replies.  An effect runs right after the change it depends on, so it is *)
(* part of the action that makes the change.                               *)
(***************************************************************************)
EXTENDS Calls

CONSTANTS
    BiConn,         \* the Power BI connections
    Fallback,       \* the connection the server takes when it is not given one
    MaxFormClicks   \* bound: choices and clicks of the administrator

\* The workspaces a connection sees; each has one report, called like it.
Workspaces(c) == {<<c, k>> : k \in 1..2}

\* None is no workspace.
ASSUME BoardFormAssumption == \A c \in BiConn \cup {Fallback} : None \notin Workspaces(c)

VARIABLES
    board,      \* the server's row: what kind it is, its connection and what it embeds
    boardForm,  \* the React state of the form, None when there is none
    boardLog,   \* clicks, and whether they were made one at a time
    boardNet    \* the requests

boardVars == <<board, boardForm, boardLog, boardNet>>

Settings(w, r, url) == [workspace |-> w, report |-> r, url |-> url]
NoSettings == Settings(None, None, None)

NewForm(edit) ==
    [edit |-> edit, n |-> boardLog.clicks, loading |-> edit, saving |-> FALSE, conn |-> None,
     mode |-> "powerbi", workspaces |-> {}, workspace |-> None, reports |-> {}, report |-> None,
     listing |-> FALSE, reading |-> FALSE, error |-> FALSE, orig |-> NoSettings, touched |-> FALSE]

\* The row may be one saved before the report's address was.
BoardInit ==
    /\ \/ \E c \in BiConn, old \in BOOLEAN :
             board = [type |-> "powerbi", conn |-> c,
                      settings |-> Settings(<<c, 1>>, <<c, 1>>, IF old THEN None ELSE <<c, 1>>)]
       \/ board = [type |-> "page", conn |-> None, settings |-> Settings(None, None, <<None, 1>>)]
    /\ boardForm = None
    /\ boardLog = [clicks |-> 0, calm |-> TRUE]
    /\ boardNet = NoCalls

PressBoard ==
    /\ boardLog.clicks < MaxFormClicks
    /\ boardLog' = Pressed(boardLog, Quiet(boardNet))
    /\ UNCHANGED board

OnForm == boardForm # None /\ ~boardForm.loading

-----------------------------------------------------------------------------
(* Effects *)

\* loadPbiWorkspaces: when the mode or the connection changes while the list is empty.
Lists(f) == f.mode = "powerbi" /\ f.workspaces = {}
Listing(f) == IF Lists(f) THEN [f EXCEPT !.listing = TRUE, !.error = FALSE] ELSE f
AskWorkspaces(f, net) ==
    IF Lists(f) THEN Send(net, "workspaces", [conn |-> f.conn, n |-> f.n]) ELSE net

\* The reports of the workspace selected: those shown go at once.
Reads(f) == f.workspace # None

\* Mutant of Reading: the reports on show stay until the reply.
ReadingKeeps(f) == IF Reads(f) THEN [f EXCEPT !.reading = TRUE] ELSE f

Reading(f) == IF Reads(f) THEN [f EXCEPT !.reading = TRUE, !.reports = {}] ELSE f
AskReports(f, net) ==
    IF Reads(f) THEN Send(net, "reports", [conn |-> f.conn, workspace |-> f.workspace, n |-> f.n]) ELSE net

-----------------------------------------------------------------------------
(* Opening, and loading the row to edit *)

OpenBoard(edit) ==
    /\ boardForm = None /\ PressBoard /\ Room(boardNet, 2)
    /\ boardForm' = Listing(NewForm(edit))
    /\ LET net == AskWorkspaces(NewForm(edit), boardNet)
       IN boardNet' = IF edit THEN Send(net, "board", [n |-> boardLog.clicks]) ELSE net

ServeBoard(i) ==
    /\ Sent(boardNet, i, "board")
    /\ boardNet' = Reply(boardNet, i, board)
    /\ UNCHANGED <<board, boardForm, boardLog>>

MineBoard(i) == boardForm # None /\ boardForm.n = boardNet[i].arg.n

\* The state as the row gives it, before the effects.
FormOf(row) ==
    LET f == [boardForm EXCEPT !.loading = FALSE, !.conn = row.conn, !.orig = row.settings,
                               !.mode = IF row.type = "powerbi" THEN "powerbi" ELSE "public"]
    IN IF row.type = "powerbi"
       THEN [f EXCEPT !.workspace = row.settings.workspace, !.report = row.settings.report] ELSE f

BoardRead(i) ==
    /\ Settled(boardNet, i, "board") /\ Room(boardNet, 1)
    /\ LET f == FormOf(boardNet[i].out)
           net == Done(boardNet, i)
       IN IF ~MineBoard(i) THEN boardForm' = boardForm /\ boardNet' = net
          ELSE IF Err(boardNet, i, "board")
          THEN boardForm' = [boardForm EXCEPT !.loading = FALSE] /\ boardNet' = net
          ELSE /\ boardForm' = Reading(Listing(f))
               /\ boardNet' = AskReports(f, AskWorkspaces(f, net))
    /\ boardLog' = [boardLog EXCEPT !.calm = @ /\ Ok(boardNet, i, "board")]
    /\ UNCHANGED board

CloseBoard ==
    /\ boardForm # None
    /\ boardForm' = None
    /\ UNCHANGED <<board, boardLog, boardNet>>

-----------------------------------------------------------------------------
(* The pickers *)

ServeWorkspaces(i) ==
    /\ Sent(boardNet, i, "workspaces")
    /\ LET c == IF boardNet[i].arg.conn = None THEN Fallback ELSE boardNet[i].arg.conn
       IN boardNet' = Reply(boardNet, i, Workspaces(c))
    /\ UNCHANGED <<board, boardForm, boardLog>>

\* Whichever connection is selected by now.
WorkspacesRead(i) ==
    /\ Settled(boardNet, i, "workspaces")
    /\ boardForm' = IF ~MineBoard(i) THEN boardForm
                    ELSE IF Ok(boardNet, i, "workspaces")
                    THEN [boardForm EXCEPT !.listing = FALSE, !.workspaces = boardNet[i].out]
                    ELSE [boardForm EXCEPT !.listing = FALSE, !.error = TRUE]
    /\ boardNet' = Done(boardNet, i)
    /\ UNCHANGED <<board, boardLog>>

\* The error's Retry lists the workspaces again.
RetryWorkspaces ==
    /\ OnForm /\ boardForm.mode = "powerbi" /\ boardForm.error /\ PressBoard /\ Room(boardNet, 1)
    /\ boardForm' = [boardForm EXCEPT !.listing = TRUE, !.error = FALSE]
    /\ boardNet' = Send(boardNet, "workspaces", [conn |-> boardForm.conn, n |-> boardForm.n])

\* Another connection: the pickers start again, but for the reports on show.
ChooseConn(c) ==
    /\ OnForm /\ c # boardForm.conn /\ PressBoard /\ Room(boardNet, 1)
    /\ LET f == [boardForm EXCEPT !.conn = c, !.mode = "powerbi", !.workspaces = {}, !.workspace = None,
                                  !.report = None, !.touched = TRUE]
       IN boardForm' = Listing(f) /\ boardNet' = AskWorkspaces(f, boardNet)

ChooseWorkspace(w) ==
    /\ OnForm /\ boardForm.mode = "powerbi" /\ ~boardForm.listing /\ PressBoard /\ Room(boardNet, 1)
    /\ w \in boardForm.workspaces \ {boardForm.workspace}
    /\ LET f == [boardForm EXCEPT !.workspace = w, !.report = None, !.touched = TRUE]
       IN boardForm' = Reading(f) /\ boardNet' = AskReports(f, boardNet)

\* The connection reaches only what is its own.
ServeBiReports(i) ==
    /\ Sent(boardNet, i, "reports")
    /\ LET arg == boardNet[i].arg
           c == IF arg.conn = None THEN Fallback ELSE arg.conn
       IN boardNet' = IF arg.workspace \in Workspaces(c) THEN Reply(boardNet, i, {arg.workspace})
                      ELSE Fail(boardNet, i)
    /\ UNCHANGED <<board, boardForm, boardLog>>

\* Whichever workspace is selected by now.
BiReportsRead(i) ==
    /\ Settled(boardNet, i, "reports")
    /\ boardForm' = IF ~MineBoard(i) THEN boardForm
                    ELSE IF Ok(boardNet, i, "reports")
                    THEN [boardForm EXCEPT !.reading = FALSE, !.reports = boardNet[i].out]
                    ELSE [boardForm EXCEPT !.reading = FALSE, !.error = TRUE]
    /\ boardNet' = Done(boardNet, i)
    /\ UNCHANGED <<board, boardLog>>

ChooseReport(r) ==
    /\ OnForm /\ boardForm.mode = "powerbi" /\ boardForm.workspace # None /\ ~boardForm.reading
    /\ r \in boardForm.reports /\ PressBoard
    /\ boardForm' = [boardForm EXCEPT !.report = r, !.touched = TRUE]
    /\ UNCHANGED boardNet

-----------------------------------------------------------------------------
(* Saving *)

\* A page embed has no address field without a connection, so it cannot be saved
\* as it is.
CanSave(f) ==
    /\ f.conn # None /\ f.mode = "powerbi"
    /\ f.report # None \/ (f.edit /\ (f.workspaces = {} \/ f.orig.report # None))

\* A report on the list on show is saved with the workspace selected; an edit
\* without one keeps the settings the row came with.
Picked(f) ==
    IF f.report \in f.reports THEN Settings(f.workspace, f.report, f.report)
    ELSE IF f.edit THEN f.orig ELSE NoSettings

SaveBoard ==
    /\ OnForm /\ ~boardForm.saving /\ CanSave(boardForm) /\ PressBoard /\ Room(boardNet, 1)
    /\ boardForm' = [boardForm EXCEPT !.saving = TRUE]
    /\ boardNet' = Send(boardNet, "save", [conn |-> boardForm.conn, settings |-> Picked(boardForm),
                                           n |-> boardForm.n, orig |-> boardForm.orig,
                                           touched |-> boardForm.touched])

\* create_dashboard and update_dashboard: the settings come from the body as they
\* are, the kind from the connection.
ServeSaveBoard(i) ==
    /\ Sent(boardNet, i, "save")
    /\ board' = [type |-> "powerbi", conn |-> boardNet[i].arg.conn, settings |-> boardNet[i].arg.settings]
    /\ boardNet' = Reply(boardNet, i, None)
    /\ UNCHANGED <<boardForm, boardLog>>

\* onSuccess closes whichever form is open.
BoardSaved(i) ==
    /\ Settled(boardNet, i, "save")
    /\ boardForm' = IF Ok(boardNet, i, "save") THEN None
                    ELSE IF MineBoard(i) THEN [boardForm EXCEPT !.saving = FALSE] ELSE boardForm
    /\ boardNet' = Done(boardNet, i)
    /\ UNCHANGED <<board, boardLog>>

BoardCallFails(i) ==
    /\ CanFail(boardNet, i)
    /\ boardNet' = Fail(boardNet, i)
    /\ boardLog' = Missed(boardLog, boardNet, i)
    /\ UNCHANGED <<board, boardForm>>

BoardNext ==
    \/ \E e \in BOOLEAN : OpenBoard(e)
    \/ CloseBoard \/ RetryWorkspaces \/ SaveBoard
    \/ ChooseConn(None)
    \/ \E c \in BiConn : ChooseConn(c) \/ \E w \in Workspaces(c) : ChooseWorkspace(w) \/ ChooseReport(w)
    \/ \E i \in Slot :
          \/ ServeBoard(i) \/ BoardRead(i) \/ ServeWorkspaces(i) \/ WorkspacesRead(i) \/ ServeBiReports(i)
          \/ BiReportsRead(i) \/ ServeSaveBoard(i) \/ BoardSaved(i) \/ BoardCallFails(i)

-----------------------------------------------------------------------------
(* Correctness *)

Saves == {boardNet[i].arg : i \in Of(boardNet, {"save"})}

\* "so metadata (name, role, description) can be updated without wiping" what is
\* embedded (DashboardCreator.tsx:400): an edit in which neither the connection
\* nor a picker was touched embeds what the row had, whatever the lists of the
\* pickers answered, in whatever order; an old row may gain the address it lacked.
MetadataKept ==
    \A s \in Saves : s.touched \/ [s.settings EXCEPT !.url = None] = [s.orig EXCEPT !.url = None]

\* What is saved is of the connection it is saved with, and the report is of its
\* workspace, when the lists were awaited before each choice; an edit moved to another
\* connection keeps the old report until one is chosen (DashboardCreator.tsx:413).
SavedCoherent ==
    \A s \in Saves : boardLog.calm /\ s.settings # s.orig =>
        /\ s.settings # NoSettings
        /\ s.settings.report = s.settings.workspace /\ s.settings.report[1] = s.conn

\* A spinner is waiting for a request of its own.
BoardSpinners ==
    Quiet(boardNet) /\ boardForm # None =>
        /\ ~boardForm.loading /\ ~boardForm.saving
        /\ ~boardForm.listing /\ ~boardForm.reading

BoardSpec == BoardInit /\ [][BoardNext]_boardVars

-----------------------------------------------------------------------------
(* The inductive invariants (see PortalProofs) *)

\* Behind MetadataKept: only a form that edits is answered with a row, and until
\* something is touched its pickers hold what the row embeds.
MetadataInv ==
    /\ boardForm # None =>
          /\ boardForm.n < boardLog.clicks
          /\ ~boardForm.edit => boardForm.orig = NoSettings
          /\ ~boardForm.touched /\ boardForm.conn # None /\ boardForm.mode = "powerbi" =>
                /\ boardForm.edit
                /\ boardForm.workspace = boardForm.orig.workspace /\ boardForm.report = boardForm.orig.report
    /\ \A i \in Of(boardNet, {"board"}) :
          /\ boardNet[i].arg.n < boardLog.clicks
          /\ MineBoard(i) => boardForm.edit
    /\ MetadataKept

Owner(conn) == IF conn = None THEN Fallback ELSE conn
NoReportAlone(settings) == settings.workspace = None => settings.report = None
Listed(reports, workspace, conn) == reports = {} \/ (reports = {workspace} /\ workspace \in Workspaces(Owner(conn)))

\* Behind SavedCoherent: the reports on show, or on their way, are those of the
\* workspace and the connection selected.
CoherentInv ==
    boardLog.calm =>
        /\ NoReportAlone(board.settings)
        /\ boardForm # None =>
              /\ NoReportAlone(boardForm) /\ NoReportAlone(boardForm.orig)
              /\ None \notin boardForm.reports
              /\ boardForm.workspace # None => Listed(boardForm.reports, boardForm.workspace, boardForm.conn)
        /\ \A i, j \in Of(boardNet, {"board", "reports"}) : i = j
        /\ \A i \in Of(boardNet, {"board"}) : Ok(boardNet, i, "board") => NoReportAlone(boardNet[i].out.settings)
        /\ \A i \in Of(boardNet, {"reports"}) :
              /\ None \notin Workspaces(Owner(boardNet[i].arg.conn))
              /\ boardForm # None =>
                    boardNet[i].arg.workspace = boardForm.workspace /\ boardNet[i].arg.conn = boardForm.conn
              /\ Ok(boardNet, i, "reports") => Listed(boardNet[i].out, boardNet[i].arg.workspace, boardNet[i].arg.conn)
        /\ \A s \in Saves : NoReportAlone(s.settings) /\ NoReportAlone(s.orig)
        /\ SavedCoherent
===============================================================================
