------------------------------ MODULE BoardsTable ------------------------------
(***************************************************************************)
(* The page of dashboards (app/admin/dashboards/page.tsx) with its version *)
(* history, over the dashboards and their snapshots                        *)
(* (routers/dashboards.py).  What the form of a dashboard saves is in      *)
(* DashboardForm; here it is a connection and the settings embedded over   *)
(* it: name, embed type and role go with the settings, the connection is   *)
(* in no snapshot.                                                         *)
(***************************************************************************)
EXTENDS Calls, Sequences

CONSTANTS
    MaxBoards,         \* bound: dashboards ever created
    BoardContent,           \* what a dashboard can embed
    MaxBoardClicks     \* bound: clicks of the administrator

ASSUME BoardsAssumption == MaxBoards \in Nat \ {0}

VARIABLES
    boards,      \* the server's rows, each with its snapshots, latest last
    boardsMade,  \* the number of rows ever inserted
    written,     \* what each row has ever embedded, and over which connection
    boardPage,   \* the React state of the page, with the dialog on screen
    boardsNet    \* the requests

boardsVars == <<boards, boardsMade, written, boardPage, boardsNet>>
boardsServer == <<boards, boardsMade, written>>

Board(k, c) == [id |-> k, content |-> c, active |-> TRUE, versions |-> <<>>]

BoardsInit ==
    /\ \E c \in BoardContent : boards = {Board(1, c)} /\ written = [k \in 1..MaxBoards |-> {c}]
    /\ boardsMade = 1
    /\ boardPage = [rows |-> boards, dialog |-> None, clicks |-> 0, calm |-> TRUE]
    /\ boardsNet = NoCalls

PressBoards ==
    /\ boardPage.clicks < MaxBoardClicks /\ Room(boardsNet, 1)
    /\ UNCHANGED boardsServer
StepBoards == Pressed(boardPage, Quiet(boardsNet))

BoardRow(k) == {b \in boards : b.id = k}

\* A row without its snapshots, which other requests bring.
BoardsListed == {[b EXCEPT !.versions = <<>>] : b \in boards}

-----------------------------------------------------------------------------
(* The list *)

ServeBoards(i) ==
    /\ Sent(boardsNet, i, "boards")
    /\ boardsNet' = Reply(boardsNet, i, BoardsListed)
    /\ UNCHANGED <<boardsServer, boardPage>>

BoardsRead(i) ==
    /\ Settled(boardsNet, i, "boards")
    /\ boardPage' = IF Ok(boardsNet, i, "boards") THEN [boardPage EXCEPT !.rows = boardsNet[i].out]
                    ELSE [boardPage EXCEPT !.calm = FALSE]
    /\ boardsNet' = Done(boardsNet, i)
    /\ UNCHANGED boardsServer

\* Every update takes the row as it is now, to keep it as a snapshot, and writes
\* later: of two at once the second does not know what the first wrote.
BeginBoardUpdate(i, op) ==
    /\ Sent(boardsNet, i, op)
    /\ boardsNet' = IF BoardRow(boardsNet[i].arg.id) = {} THEN Fail(boardsNet, i)
                    ELSE Begin(boardsNet, i, (CHOOSE b \in BoardRow(boardsNet[i].arg.id) : TRUE).content)
    /\ UNCHANGED <<boardsServer, boardPage>>

\* Mutant of BoardUpdated: a change of the row alone leaves no snapshot.
BoardUpdatedBare(b, before, content, active) == [b EXCEPT !.content = content, !.active = active]

\* The snapshot of what there was leaves its connection out, though the table of
\* the snapshots has a column for it.
BoardUpdated(b, before, content, active) ==
    [b EXCEPT !.content = content, !.active = active, !.versions = Append(@, before.settings)]

\* content and active: the new ones of the row, as functions of it.
CommitBoardUpdate(i, op, content, active) ==
    /\ Open(boardsNet, i, op)
    /\ LET k == boardsNet[i].arg.id
           new == {BoardUpdated(b, boardsNet[i].out, content[b], active[b]) : b \in BoardRow(k)}
       IN /\ boards' = (boards \ BoardRow(k)) \cup new
          /\ written' = [written EXCEPT ![k] = @ \cup {b.content : b \in new}]
          /\ boardsNet' = IF new = {} THEN Fail(boardsNet, i) ELSE Reply(boardsNet, i, None)
    /\ UNCHANGED <<boardsMade, boardPage>>

-----------------------------------------------------------------------------
(* Switching a dashboard on and off: nothing is disabled meanwhile *)

ToggleActive(b) ==
    /\ boardPage.dialog = None /\ PressBoards
    /\ boardPage' = StepBoards
    /\ boardsNet' = Send(boardsNet, "toggle", [id |-> b.id, active |-> ~b.active])

BeginToggle(i) == BeginBoardUpdate(i, "toggle")
CommitToggle(i) ==
    CommitBoardUpdate(i, "toggle", [b \in boards |-> b.content], [b \in boards |-> boardsNet[i].arg.active])

\* Mutant of Toggled: the row is drawn again when the list is.
ToggledLater(i) ==
    /\ Settled(boardsNet, i, "toggle")
    /\ boardsNet' = Done(boardsNet, i)
    /\ UNCHANGED <<boardsServer, boardPage>>

\* The row on show is turned over, whatever was sent.
Toggled(i) ==
    /\ Settled(boardsNet, i, "toggle")
    /\ boardPage' = IF Err(boardsNet, i, "toggle") THEN boardPage
                    ELSE [boardPage EXCEPT !.rows = {IF b.id = boardsNet[i].arg.id
                                                     THEN [b EXCEPT !.active = ~@] ELSE b : b \in @}]
    /\ boardsNet' = Done(boardsNet, i)
    /\ UNCHANGED boardsServer

-----------------------------------------------------------------------------
(* Deleting, after a question that stays on screen while it deletes *)

OpenBoardsDialog(kind, b) ==
    /\ boardPage.dialog = None /\ boardPage.clicks < MaxBoardClicks
    /\ boardPage' = [boardPage EXCEPT !.clicks = @ + 1,
                        !.dialog = [kind |-> kind, row |-> b, n |-> boardPage.clicks, busy |-> FALSE]]
    /\ UNCHANGED <<boardsServer, boardsNet>>

CloseBoardsDialog ==
    /\ boardPage.dialog # None
    /\ boardPage' = [boardPage EXCEPT !.dialog = None]
    /\ UNCHANGED <<boardsServer, boardsNet>>

BoardsDialog(kind) == boardPage.dialog # None /\ boardPage.dialog.kind = kind

DropBoard ==
    /\ BoardsDialog("delete") /\ PressBoards
    /\ boardPage' = StepBoards
    /\ boardsNet' = Send(boardsNet, "dropboard", boardPage.dialog.row.id)

ServeDropBoard(i) ==
    /\ Sent(boardsNet, i, "dropboard")
    /\ boards' = boards \ BoardRow(boardsNet[i].arg)
    /\ boardsNet' = IF BoardRow(boardsNet[i].arg) = {} THEN Fail(boardsNet, i) ELSE Reply(boardsNet, i, None)
    /\ UNCHANGED <<boardsMade, written, boardPage>>

\* The question on screen goes, even when it is about another dashboard by now.
BoardDropped(i) ==
    /\ Settled(boardsNet, i, "dropboard")
    /\ boardPage' = [boardPage EXCEPT
                        !.rows = IF Ok(boardsNet, i, "dropboard") THEN {b \in @ : b.id # boardsNet[i].arg} ELSE @,
                        !.dialog = IF BoardsDialog("delete") THEN None ELSE @]
    /\ boardsNet' = Done(boardsNet, i)
    /\ UNCHANGED boardsServer

-----------------------------------------------------------------------------
(* The form *)

SubmitBoard(c) ==
    /\ BoardsDialog("form") /\ ~boardPage.dialog.busy /\ PressBoards
    /\ boardPage' = [StepBoards EXCEPT !.dialog.busy = TRUE]
    /\ LET b == boardPage.dialog.row
       IN boardsNet' = IF b = None THEN Send(boardsNet, "newboard", [content |-> c, n |-> boardPage.dialog.n])
                       ELSE Send(boardsNet, "editboard", [id |-> b.id, content |-> c, n |-> boardPage.dialog.n])

ServeNewBoard(i) ==
    /\ Sent(boardsNet, i, "newboard") /\ boardsMade < MaxBoards
    /\ boardsMade' = boardsMade + 1
    /\ boards' = boards \cup {Board(boardsMade + 1, boardsNet[i].arg.content)}
    /\ written' = [written EXCEPT ![boardsMade + 1] = {boardsNet[i].arg.content}]
    /\ boardsNet' = Reply(boardsNet, i, None)
    /\ UNCHANGED boardPage

BeginEdit(i) == BeginBoardUpdate(i, "editboard")
CommitEdit(i) ==
    CommitBoardUpdate(i, "editboard", [b \in boards |-> boardsNet[i].arg.content], [b \in boards |-> b.active])

BoardFormSettled(i) ==
    /\ \/ /\ Ok(boardsNet, i, "newboard") \/ Ok(boardsNet, i, "editboard")
          /\ boardPage' = [boardPage EXCEPT !.dialog = IF BoardsDialog("form") THEN None ELSE @]
          /\ boardsNet' = Then(boardsNet, i, "boards", None)
       \/ /\ Err(boardsNet, i, "newboard") \/ Err(boardsNet, i, "editboard")
          /\ boardPage' = IF BoardsDialog("form") /\ boardPage.dialog.n = boardsNet[i].arg.n
                          THEN [boardPage EXCEPT !.dialog.busy = FALSE] ELSE boardPage
          /\ boardsNet' = Done(boardsNet, i)
    /\ UNCHANGED boardsServer

-----------------------------------------------------------------------------
(* The version history *)

OpenHistoryOf(b) ==
    /\ boardPage.dialog = None /\ PressBoards
    /\ boardPage' = [StepBoards EXCEPT !.dialog = [kind |-> "history", row |-> b, n |-> boardPage.clicks,
                                                   busy |-> TRUE, versions |-> <<>>, restoring |-> None]]
    /\ boardsNet' = Send(boardsNet, "versions", [id |-> b.id, n |-> boardPage.clicks])

MyHistory(i) == BoardsDialog("history") /\ boardPage.dialog.n = boardsNet[i].arg.n

ServeVersions(i) ==
    /\ Sent(boardsNet, i, "versions")
    /\ LET row == BoardRow(boardsNet[i].arg.id)
       IN boardsNet' = IF row = {} THEN Fail(boardsNet, i)
                       ELSE Reply(boardsNet, i, (CHOOSE b \in row : TRUE).versions)
    /\ UNCHANGED <<boardsServer, boardPage>>

VersionsRead(i) ==
    /\ Settled(boardsNet, i, "versions")
    /\ boardPage' = IF ~MyHistory(i) THEN boardPage
                    ELSE [boardPage EXCEPT !.dialog.busy = FALSE,
                             !.dialog.versions = IF Ok(boardsNet, i, "versions") THEN boardsNet[i].out ELSE @]
    /\ boardsNet' = Done(boardsNet, i)
    /\ UNCHANGED boardsServer

\* One button is disabled, that of the version last asked for.
RestoreBoard(v) ==
    /\ BoardsDialog("history") /\ ~boardPage.dialog.busy /\ PressBoards
    /\ v \in DOMAIN boardPage.dialog.versions /\ boardPage.dialog.restoring # v
    /\ boardPage' = [StepBoards EXCEPT !.dialog.restoring = v]
    /\ boardsNet' = Send(boardsNet, "restore", [id |-> boardPage.dialog.row.id, v |-> v, n |-> boardPage.dialog.n])

\* restore_dashboard_version: the row keeps the connection it has, whichever the
\* settings were embedded over.
BeginRestore(i) == BeginBoardUpdate(i, "restore")
CommitRestore(i) ==
    CommitBoardUpdate(i, "restore",
        [b \in BoardRow(boardsNet[i].arg.id) |->
            [b.content EXCEPT !.settings = b.versions[boardsNet[i].arg.v]]],
        [b \in boards |-> b.active])

BoardRestored(i) ==
    /\ \/ /\ Ok(boardsNet, i, "restore")
          /\ boardPage' = [boardPage EXCEPT !.dialog = IF BoardsDialog("history") THEN None ELSE @]
          /\ boardsNet' = Then(boardsNet, i, "boards", None)
       \/ /\ Err(boardsNet, i, "restore")
          /\ boardPage' = IF MyHistory(i) THEN [boardPage EXCEPT !.dialog.restoring = None] ELSE boardPage
          /\ boardsNet' = Done(boardsNet, i)
    /\ UNCHANGED boardsServer

BoardsCallFails(i) ==
    /\ CanFail(boardsNet, i)
    /\ boardsNet' = Fail(boardsNet, i)
    /\ boardPage' = Missed(boardPage, boardsNet, i)
    /\ UNCHANGED boardsServer

BoardsNext ==
    \/ \E b \in boardPage.rows : \/ ToggleActive(b) \/ OpenHistoryOf(b)
                                 \/ \E k \in {"form", "delete"} : OpenBoardsDialog(k, b)
    \/ OpenBoardsDialog("form", None) \/ CloseBoardsDialog \/ DropBoard
    \/ \E c \in BoardContent : SubmitBoard(c)
    \/ \E v \in 1..MaxBoardClicks : RestoreBoard(v)
    \/ \E i \in Slot :
          \/ ServeBoards(i) \/ BoardsRead(i) \/ BeginToggle(i) \/ CommitToggle(i) \/ Toggled(i)
          \/ ServeDropBoard(i) \/ BoardDropped(i) \/ ServeNewBoard(i) \/ BeginEdit(i) \/ CommitEdit(i)
          \/ BoardFormSettled(i) \/ ServeVersions(i) \/ VersionsRead(i) \/ BeginRestore(i)
          \/ CommitRestore(i) \/ BoardRestored(i) \/ BoardsCallFails(i)

-----------------------------------------------------------------------------
(* Correctness *)

\* Once nothing is in flight, the page shows the dashboards the server has, when
\* one thing was done at a time and no reply was lost.
BoardsMatch ==
    boardPage.calm /\ Quiet(boardsNet) => {[b EXCEPT !.versions = <<>>] : b \in boardPage.rows} = BoardsListed

\* Whatever settings a dashboard has embedded are the ones it embeds now or one of
\* its snapshots, when one thing was done at a time: no edit, switch or restore
\* loses them.  They can be restored onto the connection the dashboard has by then.
\* Which connection they were embedded over is not kept, and a dashboard whose
\* connection was changed cannot be put back as it was: less than "The current
\* configuration will be saved as a new version first" (dashboards/page.tsx:78).
SettingsRestorable ==
    boardPage.calm => \A b \in boards : \A c \in written[b.id] :
        c.settings = b.content.settings \/ \E v \in DOMAIN b.versions : b.versions[v] = c.settings

BoardsSpinners ==
    Quiet(boardsNet) /\ boardPage.dialog # None => ~boardPage.dialog.busy

BoardsSpec == BoardsInit /\ [][BoardsNext]_boardsVars

-----------------------------------------------------------------------------
(* The inductive invariant behind SettingsRestorable (see PortalProofs) *)

BoardUpdates == {"toggle", "editboard", "restore"}

SettingsOf(contents) == {c.settings : c \in contents}

\* A dashboard has embedded all its snapshots; what an update has begun with is one
\* of them, and is what the row embeds still when one thing is done at a time.
HistoryInv ==
    /\ boardsMade \in 1..MaxBoards /\ DOMAIN written = 1..MaxBoards
    /\ \A b \in boards :
          b.id \in 1..boardsMade /\ b.content \in written[b.id] /\ b.versions \in Seq(SettingsOf(written[b.id]))
    /\ \A b, d \in boards : b.id = d.id => b = d
    /\ \A i \in Of(boardsNet, BoardUpdates) : boardsNet[i].st = "open" =>
          LET k == boardsNet[i].arg.id
          IN /\ k \in 1..boardsMade /\ boardsNet[i].out \in written[k]
             /\ boardPage.calm => \A b \in BoardRow(k) : b.content = boardsNet[i].out
    /\ boardPage.calm => \A i, j \in Pending(boardsNet) : i = j
    /\ SettingsRestorable
===============================================================================
