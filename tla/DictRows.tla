------------------------------ MODULE DictRows -------------------------------
(***************************************************************************)
(* The right half of the data dictionary page                              *)
(* (app/admin/data-dictionary/page.tsx): the rows of the table entered,    *)
(* their inline editors, the history of one row and the revert of a whole  *)
(* warehouse to a point in time.  The warehouse and the tree are module    *)
(* DictTree, the dialog of the keys is in DictDialogs.                     *)
(*                                                                         *)
(* Every edit is optimistic: the row changes at the click, the reply       *)
(* replaces it, and a failure puts back the row as it was at the click.    *)
(* Actions that reload the rows reload those of the table that was on      *)
(* screen when their button was pressed, which loadEntries has captured.   *)
(***************************************************************************)
EXTENDS Calls

CONSTANTS
    Text,          \* descriptions one can type; None is an empty one
    MaxRowClicks   \* bound: clicks on the page

VARIABLES
    rowDb,    \* the server's entries
    rowLog,   \* its change log: the earlier values of each entry's fields
    page,     \* the page's React state
    rowNet    \* its requests

rowVars == <<rowDb, rowLog, page, rowNet>>

\* Three columns of two tables.
EntryOf == [t1 |-> {1, 2}, t2 |-> {3}]
RowTable == DOMAIN EntryOf
RowEntry == 1..3

RowOps == {"list", "save", "delete", "populate", "ai", "populateAll", "refresh",
           "changes", "revert", "preview", "apply"}

BlankEntry == [description |-> None, is_pii |-> FALSE]

\* Somebody has marked column 1 before.
RowInit ==
    /\ rowDb = [e \in RowEntry |-> [BlankEntry EXCEPT !.is_pii = (e = 1)]]
    /\ rowLog = [e \in RowEntry |-> IF e = 1 THEN {[field |-> "is_pii", old |-> FALSE]} ELSE {}]
    /\ page = [table |-> None, rows |-> <<>>, loading |-> FALSE, busy |-> {},
               edit |-> None, draft |-> None,
               history |-> None, logs |-> {}, reverting |-> None,
               revert |-> None, clicks |-> 0, calm |-> TRUE]
    /\ rowNet = NoCalls

\* The overlay of a dialog keeps the pointer off the page, and a click outside
\* an open editor commits it first.
RowClick ==
    /\ page.clicks < MaxRowClicks
    /\ page.history = None /\ page.revert = None /\ page.edit = None
    /\ UNCHANGED <<rowDb, rowLog>>
DialogClick == page.clicks < MaxRowClicks /\ UNCHANGED <<rowDb, rowLog>>
RowPress(ui) == [ui EXCEPT !.clicks = @ + 1]

\* The table body: a spinner while a list is loading, otherwise its rows.
Shown == IF page.table = None \/ page.loading THEN {} ELSE DOMAIN page.rows

\* A row that is no longer rendered takes its half-typed text with it.
Rendered(ui) ==
    IF ui.edit # None /\ (ui.loading \/ ui.table = None \/ ui.edit \notin DOMAIN ui.rows)
    THEN [ui EXCEPT !.edit = None, !.draft = None] ELSE ui

\* es.map(e => e.id === id ? row : e)
Replaced(rows, id, row) == [e \in DOMAIN rows |-> IF e = id THEN row ELSE rows[e]]

Without(rows, id) == [e \in DOMAIN rows \ {id} |-> rows[e]]

Restored(rows, id, row) == [e \in DOMAIN rows \cup {id} |-> IF e = id THEN row ELSE rows[e]]

-----------------------------------------------------------------------------
(* Loading the rows *)

LoadingRows(ui) == Rendered([ui EXCEPT !.loading = TRUE])

\* selectTable, handleNavigateToResult, then the effect that loads the rows.
EnterTable(t) ==
    /\ RowClick /\ t # page.table /\ Room(rowNet, 1)
    /\ page' = LoadingRows([RowPress(page) EXCEPT !.table = t, !.calm = @ /\ Quiet(rowNet)])
    /\ rowNet' = Send(rowNet, "list", [t |-> t, by |-> None])

\* exitTable keeps the rows in memory, and shows none of them.
LeaveTable ==
    /\ RowClick /\ page.table # None
    /\ page' = Rendered([RowPress(page) EXCEPT !.table = None, !.calm = @ /\ Quiet(rowNet)])
    /\ UNCHANGED rowNet

ServeList(i) ==
    /\ Sent(rowNet, i, "list")
    /\ LET known == {e \in EntryOf[rowNet[i].arg.t] : rowDb[e] # None}
       IN rowNet' = Reply(rowNet, i, [e \in known |-> rowDb[e]])
    /\ UNCHANGED <<rowDb, rowLog, page>>

\* finally: the list is no longer loading, nor is the button that asked for it.
RowsListed(i) ==
    /\ \/ /\ Ok(rowNet, i, "list")
          /\ page' = Rendered([page EXCEPT !.rows = rowNet[i].out, !.loading = FALSE,
                                           !.busy = @ \ {rowNet[i].arg.by}])
       \/ /\ Err(rowNet, i, "list")
          /\ page' = [page EXCEPT !.loading = FALSE, !.busy = @ \ {rowNet[i].arg.by},
                                  !.calm = FALSE]
    /\ rowNet' = Done(rowNet, i)
    /\ UNCHANGED <<rowDb, rowLog>>

-----------------------------------------------------------------------------
(* Editing a row *)

\* No other request about this row is under way, nor one that replaces all rows.
InTurnRow(e) ==
    \A i \in Pending(rowNet) :
        rowNet[i].op \in {"changes", "preview"}
        \/ (rowNet[i].op \in {"save", "delete", "revert"} /\ rowNet[i].arg.e # e)

\* The click on the description takes the text as it is now.
StartEdit(e) ==
    /\ RowClick /\ e \in Shown
    /\ page' = [RowPress(page) EXCEPT !.edit = e, !.draft = page.rows[e].description]
    /\ UNCHANGED rowNet

Type(v) ==
    /\ page.edit # None /\ v # page.draft
    /\ page' = [page EXCEPT !.draft = v]
    /\ UNCHANGED <<rowDb, rowLog, rowNet>>

\* handleSaveEntry: the row changes at once; prev is kept for a failure.
Save(e, f, v, ui) ==
    /\ Room(rowNet, 1)
    /\ page' = [ui EXCEPT !.rows = Replaced(@, e, [@[e] EXCEPT ![f] = v]),
                          !.calm = @ /\ InTurnRow(e)]
    /\ rowNet' = Send(rowNet, "save", [e |-> e, f |-> f, v |-> v, prev |-> page.rows[e]])
    /\ UNCHANGED <<rowDb, rowLog>>

\* commitDescription on blur: nothing is sent when the text is the row's.
Commit ==
    /\ page.edit # None
    /\ LET closed == [page EXCEPT !.edit = None, !.draft = None]
       IN IF page.draft = page.rows[page.edit].description
          THEN page' = closed /\ UNCHANGED <<rowDb, rowLog, rowNet>>
          ELSE Save(page.edit, "description", page.draft, closed)

TogglePii(e) ==
    /\ RowClick /\ e \in Shown
    /\ Save(e, "is_pii", ~page.rows[e].is_pii, RowPress(page))

\* update_entry takes a null for "leave it unchanged".
ServeSave(i) ==
    /\ Sent(rowNet, i, "save")
    /\ LET a == rowNet[i].arg
           old == rowDb[a.e]
           new == IF a.v = None THEN old ELSE [old EXCEPT ![a.f] = a.v]
       IN IF old = None
          THEN rowNet' = Fail(rowNet, i) /\ UNCHANGED <<rowDb, rowLog>>
          ELSE /\ rowDb' = [rowDb EXCEPT ![a.e] = new]
               /\ rowLog' = IF new = old THEN rowLog
                            ELSE [rowLog EXCEPT ![a.e] = @ \cup {[field |-> a.f, old |-> old[a.f]]}]
               /\ rowNet' = Reply(rowNet, i, new)
    /\ UNCHANGED page

Saved(i) ==
    /\ LET a == rowNet[i].arg
       IN \/ Ok(rowNet, i, "save") /\ page' = [page EXCEPT !.rows = Replaced(@, a.e, rowNet[i].out)]
          \/ Err(rowNet, i, "save") /\ page' = [page EXCEPT !.rows = Replaced(@, a.e, a.prev)]
    /\ rowNet' = Done(rowNet, i)
    /\ UNCHANGED <<rowDb, rowLog>>

\* handleDeleteEntry: the row goes at once, and comes back when that fails.
DeleteRow(e) ==
    /\ RowClick /\ e \in Shown /\ Room(rowNet, 1)
    /\ page' = Rendered([RowPress(page) EXCEPT !.rows = Without(@, e), !.calm = @ /\ InTurnRow(e)])
    /\ rowNet' = Send(rowNet, "delete", [e |-> e, prev |-> page.rows[e]])

ServeDelete(i) ==
    /\ Sent(rowNet, i, "delete")
    /\ IF rowDb[rowNet[i].arg.e] = None
       THEN rowNet' = Fail(rowNet, i) /\ UNCHANGED rowDb
       ELSE rowDb' = [rowDb EXCEPT ![rowNet[i].arg.e] = None] /\ rowNet' = Reply(rowNet, i, None)
    /\ UNCHANGED <<rowLog, page>>

Deleted(i) ==
    /\ LET a == rowNet[i].arg
       IN \/ Ok(rowNet, i, "delete") /\ UNCHANGED page
          \/ Err(rowNet, i, "delete") /\ page' = [page EXCEPT !.rows = Restored(@, a.e, a.prev)]
    /\ rowNet' = Done(rowNet, i)
    /\ UNCHANGED <<rowDb, rowLog>>

-----------------------------------------------------------------------------
(* Actions on the table, the schema and the warehouse *)

\* The buttons above the rows: each is disabled while its own request is running,
\* whatever the others do.
Button(by) == RowClick /\ by \notin page.busy /\ Room(rowNet, 1)

\* handlePopulate, handlePopulateAll, handleRefreshWarehouse: the table whose
\* rows are loaded afterwards is the one on screen now.
Introspector == {"populate", "populateAll", "refresh"}

RefreshRows(by) ==
    /\ Button(by)
    /\ by # "refresh" => page.table # None
    /\ page' = [RowPress(page) EXCEPT !.busy = @ \cup {by},
                                      !.calm = @ /\ Of(rowNet, RowOps \ {"changes", "preview"}) = {}]
    /\ rowNet' = Send(rowNet, by, [t |-> page.table, by |-> by])

\* Missing entries are created; what users wrote is left alone.
ServeRefresh(i) ==
    /\ \E by \in Introspector : Sent(rowNet, i, by)
    /\ LET a == rowNet[i].arg
           in == IF rowNet[i].op = "populate" THEN EntryOf[a.t] ELSE RowEntry
       IN rowDb' = [e \in RowEntry |-> IF e \in in /\ rowDb[e] = None
                                      THEN BlankEntry ELSE rowDb[e]]
    /\ rowNet' = Reply(rowNet, i, None)
    /\ UNCHANGED <<rowLog, page>>

Refreshed(i) ==
    /\ \E by \in Introspector :
          \/ /\ Ok(rowNet, i, by) /\ rowNet[i].arg.t # None
             /\ page' = LoadingRows(page)
             /\ rowNet' = Then(rowNet, i, "list", rowNet[i].arg)
          \/ /\ Err(rowNet, i, by) \/ (Ok(rowNet, i, by) /\ rowNet[i].arg.t = None)
             /\ page' = [page EXCEPT !.busy = @ \ {by}]
             /\ rowNet' = Done(rowNet, i)
    /\ UNCHANGED <<rowDb, rowLog>>

\* handleGenerateAi and handleGenerateAiAll post to routes the API does not
\* have (routers/data_dict.py has no generate-ai): the answer is an error.
GenerateAi(by) ==
    /\ Button(by) /\ page.table # None
    /\ page' = [RowPress(page) EXCEPT !.busy = @ \cup {by}]
    /\ rowNet' = Fail(Send(rowNet, "ai", by), CHOOSE i \in Slot : rowNet[i] = Free
                                                  /\ \A k \in Slot : rowNet[k] = Free => i <= k)

AiFailed(i) ==
    /\ Err(rowNet, i, "ai")
    /\ page' = [page EXCEPT !.busy = @ \ {rowNet[i].arg}]
    /\ rowNet' = Done(rowNet, i)
    /\ UNCHANGED <<rowDb, rowLog>>

-----------------------------------------------------------------------------
(* The history of a row: HistoryModal *)

OpenHistory(e) ==
    /\ RowClick /\ e \in Shown /\ Room(rowNet, 1)
    /\ page' = [RowPress(page) EXCEPT !.history = [e |-> e, n |-> page.clicks],
                                      !.logs = {}, !.reverting = None]
    /\ rowNet' = Send(rowNet, "changes", [e |-> e, n |-> page.clicks])

\* The requests of a closed dialog go on, its state is gone.
CloseHistory ==
    /\ page.history # None
    /\ page' = [page EXCEPT !.history = None, !.logs = {}, !.reverting = None]
    /\ UNCHANGED <<rowDb, rowLog, rowNet>>

ServeChanges(i) ==
    /\ Sent(rowNet, i, "changes")
    /\ rowNet' = Reply(rowNet, i, rowLog[rowNet[i].arg.e])
    /\ UNCHANGED <<rowDb, rowLog, page>>

\* The dialog a request came from is still open.
SameDialog(i) == page.history # None /\ page.history.n = rowNet[i].arg.n

ChangesRead(i) ==
    /\ Ok(rowNet, i, "changes") \/ Err(rowNet, i, "changes")
    /\ page' = IF ~SameDialog(i) THEN page
               ELSE [page EXCEPT !.reverting = None,
                                 !.logs = IF Ok(rowNet, i, "changes") THEN rowNet[i].out ELSE @]
    /\ rowNet' = Done(rowNet, i)
    /\ UNCHANGED <<rowDb, rowLog>>

RevertChange(l) ==
    /\ DialogClick /\ l \in page.logs /\ l # page.reverting /\ Room(rowNet, 1)
    /\ page' = [RowPress(page) EXCEPT !.reverting = l, !.calm = @ /\ InTurnRow(page.history.e)]
    /\ rowNet' = Send(rowNet, "revert", [e |-> page.history.e, n |-> page.history.n, l |-> l])

\* revert_entry_to_log: one field gets its earlier value, and a new log row.
ServeRowRevert(i) ==
    /\ Sent(rowNet, i, "revert")
    /\ LET a == rowNet[i].arg
           old == rowDb[a.e]
           new == [old EXCEPT ![a.l.field] = a.l.old]
       IN IF old = None
          THEN rowNet' = Fail(rowNet, i) /\ UNCHANGED <<rowDb, rowLog>>
          ELSE /\ rowDb' = [rowDb EXCEPT ![a.e] = new]
               /\ rowLog' = [rowLog EXCEPT ![a.e] = @ \cup {[field |-> a.l.field, old |-> old[a.l.field]]}]
               /\ rowNet' = Reply(rowNet, i, new)
    /\ UNCHANGED page

\* handleRevertEntry puts the row into the page, handleRevert reads the log again.
RowReverted(i) ==
    /\ \/ /\ Ok(rowNet, i, "revert")
          /\ page' = [page EXCEPT !.rows = Replaced(@, rowNet[i].arg.e, rowNet[i].out)]
          /\ rowNet' = Then(rowNet, i, "changes", [e |-> rowNet[i].arg.e, n |-> rowNet[i].arg.n])
       \/ /\ Err(rowNet, i, "revert")
          /\ page' = IF SameDialog(i) THEN [page EXCEPT !.reverting = None] ELSE page
          /\ rowNet' = Done(rowNet, i)
    /\ UNCHANGED <<rowDb, rowLog>>

-----------------------------------------------------------------------------
(* The revert of a warehouse to a point in time: RevertModal *)

\* Two moments: before the first change, and now.
Moment == {"start", "now"}

OpenRevert ==
    /\ RowClick
    /\ page' = [RowPress(page) EXCEPT !.revert = [at |-> None, preview |-> None,
                                                 loading |-> FALSE, applying |-> FALSE,
                                                 n |-> page.clicks]]
    /\ UNCHANGED rowNet

CloseRevert ==
    /\ page.revert # None
    /\ page' = [page EXCEPT !.revert = None]
    /\ UNCHANGED <<rowDb, rowLog, rowNet>>

\* Another date drops the preview that is shown, not the one under way.
SetMoment(m) ==
    /\ page.revert # None /\ m # page.revert.at
    /\ page' = [page EXCEPT !.revert.at = m, !.revert.preview = None]
    /\ UNCHANGED <<rowDb, rowLog, rowNet>>

Preview ==
    /\ DialogClick /\ page.revert # None /\ page.revert.at # None /\ Room(rowNet, 1)
    /\ ~page.revert.loading /\ ~page.revert.applying
    /\ page' = [RowPress(page) EXCEPT !.revert.loading = TRUE, !.revert.preview = None]
    /\ rowNet' = Send(rowNet, "preview", [m |-> page.revert.at, n |-> page.revert.n])

\* What a revert to the start changes: every field with a log gets its first value.
Changed == {e \in RowEntry : rowDb[e] \notin {None, BlankEntry} /\ rowLog[e] # {}}

ServePreview(i) ==
    /\ Sent(rowNet, i, "preview")
    /\ rowNet' = Reply(rowNet, i, IF rowNet[i].arg.m = "now" THEN {} ELSE Changed)
    /\ UNCHANGED <<rowDb, rowLog, page>>

Previewed(i) ==
    /\ Ok(rowNet, i, "preview") \/ Err(rowNet, i, "preview")
    /\ page' = IF page.revert = None \/ page.revert.n # rowNet[i].arg.n THEN page
               ELSE [page EXCEPT !.revert.loading = FALSE,
                                 !.revert.preview = IF Ok(rowNet, i, "preview") THEN rowNet[i].out ELSE @]
    /\ rowNet' = Done(rowNet, i)
    /\ UNCHANGED <<rowDb, rowLog>>

\* Offered only under a preview that has something to change.
Apply ==
    /\ DialogClick /\ page.revert # None /\ page.revert.preview \notin {None, {}} /\ Room(rowNet, 1)
    /\ ~page.revert.applying
    /\ page' = [RowPress(page) EXCEPT !.revert.applying = TRUE, !.calm = @ /\ Quiet(rowNet)]
    /\ rowNet' = Send(rowNet, "apply", [m |-> page.revert.at, t |-> page.table, n |-> page.revert.n])

ServeApply(i) ==
    /\ Sent(rowNet, i, "apply")
    /\ LET hit == IF rowNet[i].arg.m = "now" THEN {} ELSE Changed
       IN /\ rowDb' = [e \in RowEntry |-> IF e \in hit THEN BlankEntry
                                         ELSE rowDb[e]]
          /\ rowLog' = [e \in RowEntry |->
                IF e \notin hit THEN rowLog[e]
                ELSE rowLog[e] \cup {[field |-> f, old |-> rowDb[e][f]] :
                        f \in {g \in DOMAIN rowDb[e] : rowDb[e][g] \notin {None, FALSE}}}]
    /\ rowNet' = Reply(rowNet, i, None)
    /\ UNCHANGED page

\* onReverted loads the rows of the table shown at the click, onClose closes
\* whichever revert dialog is open.
Applied(i) ==
    /\ \/ /\ Ok(rowNet, i, "apply") /\ rowNet[i].arg.t # None
          /\ page' = LoadingRows([page EXCEPT !.revert = None])
          /\ rowNet' = Then(rowNet, i, "list", [t |-> rowNet[i].arg.t, by |-> None])
       \/ /\ Ok(rowNet, i, "apply") /\ rowNet[i].arg.t = None
          /\ page' = [page EXCEPT !.revert = None]
          /\ rowNet' = Done(rowNet, i)
       \/ /\ Err(rowNet, i, "apply")
          /\ page' = IF page.revert = None \/ page.revert.n # rowNet[i].arg.n THEN page
                     ELSE [page EXCEPT !.revert.applying = FALSE]
          /\ rowNet' = Done(rowNet, i)
    /\ UNCHANGED <<rowDb, rowLog>>

\* The connection fails before the server acts, or after it has.
RowCallFails(i) ==
    /\ i \in Pending(rowNet) /\ rowNet[i].st # "err"
    /\ rowNet' = Fail(rowNet, i)
    /\ page' = [page EXCEPT !.calm = @ /\ (rowNet[i].st = "ok" => rowNet[i].op \in {"list", "changes", "preview"})]
    /\ UNCHANGED <<rowDb, rowLog>>

RowNext ==
    \/ \E t \in RowTable : EnterTable(t)
    \/ LeaveTable \/ Commit \/ CloseHistory \/ OpenRevert \/ CloseRevert \/ Preview \/ Apply
    \/ \E e \in RowEntry : StartEdit(e) \/ TogglePii(e) \/ DeleteRow(e) \/ OpenHistory(e)
    \/ \E v \in Text \cup {None} : Type(v)
    \/ \E by \in Introspector : RefreshRows(by)
    \/ \E by \in {"generateAi", "generateAiAll"} : GenerateAi(by)
    \/ \E l \in page.logs : RevertChange(l)
    \/ \E m \in Moment : SetMoment(m)
    \/ \E i \in Slot :
          \/ ServeList(i) \/ RowsListed(i) \/ ServeSave(i) \/ Saved(i) \/ ServeDelete(i) \/ Deleted(i)
          \/ ServeRefresh(i) \/ Refreshed(i) \/ AiFailed(i)
          \/ ServeChanges(i) \/ ChangesRead(i) \/ ServeRowRevert(i) \/ RowReverted(i)
          \/ ServePreview(i) \/ Previewed(i) \/ ServeApply(i) \/ Applied(i) \/ RowCallFails(i)

-----------------------------------------------------------------------------
(* Correctness *)

\* Once nothing is in flight, the rows on screen are the server's rows of the
\* table named above them, after any mix of edits, deletions, reverts and
\* refreshes, failed ones included; provided nothing else was asked about a row
\* before its last reply, no table was entered or left while a request was in
\* flight, and no reply to a write was lost.
RowsMatch ==
    page.calm /\ Quiet(rowNet) /\ page.table # None
        => LET known == {e \in EntryOf[page.table] : rowDb[e] # None}
           IN page.rows = [e \in known |-> rowDb[e]]

\* A spinner of the page or of a dialog is waiting for a request of its own.
RowSpinners ==
    Quiet(rowNet) =>
        /\ page.busy = {} /\ ~page.loading /\ page.reverting = None
        /\ page.revert # None => ~page.revert.loading /\ ~page.revert.applying
===============================================================================
