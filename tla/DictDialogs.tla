----------------------------- MODULE DictDialogs -----------------------------
(***************************************************************************)
(* Two dialogs of the data dictionary page                                 *)
(* (app/admin/data-dictionary/page.tsx): the keys of a column (KeysModal,  *)
(* with the badges that take a key away) and the search over a warehouse   *)
(* (SearchDialog).  Only one of the two is on screen.                      *)
(***************************************************************************)
EXTENDS Calls

CONSTANTS
    Empty,           \* the empty string, where null means something else
    Query,           \* search texts; None is an empty box
    MaxDialogClicks  \* bound: clicks and changes of a box

\* A dialog is told from none by its number.
ASSUME DialogsAssumption == None \notin Nat

VARIABLES
    colDb,      \* the server: the keys of one column
    col,        \* the page's copy of them
    keys,       \* the React state of the keys dialog, None when closed
    find,       \* the React state of the search dialog, None when closed
    dialogNet,  \* the requests
    dialogs     \* clicks so far; calm: no request of a kind was overtaken

dialogVars == <<colDb, col, keys, find, dialogNet, dialogs>>

\* The tables a foreign key can go to, and their columns.
ColumnOf == [customers |-> "customer_id", orders |-> "order_id"]
Target == DOMAIN ColumnOf

DialogsInit ==
    /\ colDb = [is_pk |-> FALSE, fk_table |-> "orders", fk_column |-> "order_id"]
    /\ col = colDb
    /\ keys = None /\ find = None
    /\ dialogNet = NoCalls
    /\ dialogs = [clicks |-> 0, calm |-> TRUE]

DialogPress(ok) ==
    /\ dialogs.clicks < MaxDialogClicks
    /\ dialogs' = [clicks |-> dialogs.clicks + 1, calm |-> dialogs.calm /\ ok]
    /\ UNCHANGED colDb

Alone(ops) == Of(dialogNet, ops) = {}

-----------------------------------------------------------------------------
(* Saving keys *)

\* { ...row, ...patch }
Patched(row, patch) == [f \in DOMAIN row |-> IF f \in DOMAIN patch THEN patch[f] ELSE row[f]]

\* handleSaveEntry, as in DictRows.
SaveKeysPatch(patch) ==
    /\ Room(dialogNet, 1)
    /\ col' = Patched(col, patch)
    /\ dialogNet' = Send(dialogNet, "keysave", [patch |-> patch, prev |-> col,
                                                n |-> IF keys = None THEN None ELSE keys.n])

RemovePrimaryKey ==
    /\ keys = None /\ find = None /\ col.is_pk
    /\ DialogPress(Alone({"keysave", "sync"}))
    /\ SaveKeysPatch([is_pk |-> FALSE])
    /\ UNCHANGED <<keys, find>>

RemoveForeignKey ==
    /\ keys = None /\ find = None /\ col.fk_table \notin {None, Empty}
    /\ DialogPress(Alone({"keysave", "sync"}))
    /\ SaveKeysPatch([fk_table |-> Empty, fk_column |-> None])
    /\ UNCHANGED <<keys, find>>

\* handleSave of the dialog: all the key fields, a column only under a table.
SaveKeys ==
    /\ keys # None /\ ~keys.saving
    /\ DialogPress(Alone({"keysave", "sync"}))
    /\ SaveKeysPatch([is_pk |-> keys.is_pk, fk_table |-> keys.fk_table,
                      fk_column |-> IF keys.fk_table = Empty THEN Empty
                                    ELSE IF keys.fk_column = Empty THEN None ELSE keys.fk_column])
    /\ keys' = [keys EXCEPT !.saving = TRUE]
    /\ UNCHANGED find

\* update_entry: null leaves the value, the empty string clears it.
ServeKeys(i) ==
    /\ Sent(dialogNet, i, "keysave")
    /\ LET patch == dialogNet[i].arg.patch
           new == [f \in DOMAIN colDb |->
                     IF f \notin DOMAIN patch \/ patch[f] = None THEN colDb[f]
                     ELSE IF patch[f] = Empty THEN None ELSE patch[f]]
       IN colDb' = new /\ dialogNet' = Reply(dialogNet, i, new)
    /\ UNCHANGED <<col, keys, find, dialogs>>

\* Mutant of KeysSaved: a failed edit stays on screen.
KeysSavedNoRollback(i) ==
    /\ \/ Ok(dialogNet, i, "keysave") /\ col' = dialogNet[i].out
       \/ Err(dialogNet, i, "keysave") /\ col' = col
    /\ keys' = IF dialogNet[i].arg.n = None THEN keys ELSE None
    /\ dialogNet' = Done(dialogNet, i)
    /\ UNCHANGED <<colDb, find, dialogs>>

\* handleSaveEntry does not throw, so the dialog that saved closes either way.
KeysSaved(i) ==
    /\ \/ Ok(dialogNet, i, "keysave") /\ col' = dialogNet[i].out
       \/ Err(dialogNet, i, "keysave") /\ col' = dialogNet[i].arg.prev
    /\ keys' = IF dialogNet[i].arg.n = None THEN keys ELSE None
    /\ dialogNet' = Done(dialogNet, i)
    /\ UNCHANGED <<colDb, find, dialogs>>

-----------------------------------------------------------------------------
(* The keys dialog *)

Chosen(t) == IF t = None THEN Empty ELSE t

\* useEffect on the table: its columns are asked for.
AskColumns(t, rest) ==
    IF t = Empty THEN /\ keys' = [rest EXCEPT !.columns = {}]
                      /\ UNCHANGED dialogNet
    ELSE /\ Room(dialogNet, 1)
         /\ keys' = [rest EXCEPT !.loading = TRUE]
         /\ dialogNet' = Send(dialogNet, "columns", [t |-> t, n |-> rest.n])

OpenKeys ==
    /\ keys = None /\ find = None
    /\ DialogPress(Alone({"columns"}))
    /\ AskColumns(Chosen(col.fk_table),
                  [is_pk |-> col.is_pk, fk_table |-> Chosen(col.fk_table),
                   fk_column |-> Chosen(col.fk_column), columns |-> {}, loading |-> FALSE,
                   saving |-> FALSE, syncing |-> FALSE, n |-> dialogs.clicks])
    /\ UNCHANGED <<col, find>>

CloseKeys ==
    /\ keys # None
    /\ keys' = None
    /\ UNCHANGED <<colDb, col, find, dialogNet, dialogs>>

TogglePk ==
    /\ keys # None
    /\ DialogPress(TRUE)
    /\ keys' = [keys EXCEPT !.is_pk = ~@]
    /\ UNCHANGED <<col, find, dialogNet>>

\* handleFkTableChange: the column and the list of columns are dropped.
ChooseTable(t) ==
    /\ keys # None /\ t # keys.fk_table
    /\ DialogPress(Alone({"columns"}))
    /\ AskColumns(t, [keys EXCEPT !.fk_table = t, !.fk_column = Empty, !.columns = {}])
    /\ UNCHANGED <<col, find>>

ServeColumns(i) ==
    /\ Sent(dialogNet, i, "columns")
    /\ dialogNet' = Reply(dialogNet, i, {ColumnOf[dialogNet[i].arg.t]})
    /\ UNCHANGED <<colDb, col, keys, find, dialogs>>

\* The list fills the dialog it was asked for, whichever table is chosen by then.
ColumnsRead(i) ==
    /\ Ok(dialogNet, i, "columns") \/ Err(dialogNet, i, "columns")
    /\ keys' = IF keys = None \/ (keys # None /\ keys.n # dialogNet[i].arg.n) THEN keys
               ELSE [keys EXCEPT !.loading = FALSE,
                                 !.columns = IF Ok(dialogNet, i, "columns") THEN dialogNet[i].out ELSE @]
    /\ dialogNet' = Done(dialogNet, i)
    /\ UNCHANGED <<colDb, col, find, dialogs>>

\* A column is picked from the list, or typed when there is no list.
ChooseColumn(c) ==
    /\ keys # None /\ keys.fk_table # Empty /\ ~keys.loading /\ c # keys.fk_column
    /\ keys.columns # {} => c \in keys.columns \cup {Empty}
    /\ DialogPress(TRUE)
    /\ keys' = [keys EXCEPT !.fk_column = c]
    /\ UNCHANGED <<col, find, dialogNet>>

\* handleSyncFromWarehouse: the server's keys become the warehouse's; the page
\* is left as it is, and says so.
SyncKeys ==
    /\ keys # None /\ ~keys.syncing /\ Room(dialogNet, 1)
    /\ DialogPress(FALSE)
    /\ keys' = [keys EXCEPT !.syncing = TRUE]
    /\ dialogNet' = Send(dialogNet, "sync", [n |-> keys.n])
    /\ UNCHANGED <<col, find>>

ServeSync(i) ==
    /\ Sent(dialogNet, i, "sync")
    /\ colDb' = [is_pk |-> TRUE, fk_table |-> None, fk_column |-> None]
    /\ dialogNet' = Reply(dialogNet, i, None)
    /\ UNCHANGED <<col, keys, find, dialogs>>

Synced(i) ==
    /\ Ok(dialogNet, i, "sync") \/ Err(dialogNet, i, "sync")
    /\ keys' = IF keys = None \/ (keys # None /\ keys.n # dialogNet[i].arg.n) THEN keys
               ELSE [keys EXCEPT !.syncing = FALSE]
    /\ dialogNet' = Done(dialogNet, i)
    /\ UNCHANGED <<colDb, col, find, dialogs>>

-----------------------------------------------------------------------------
(* The search dialog *)

\* The answer to a search is told by what was asked.
Asked(ui) == [q |-> ui.query, semantic |-> ui.semantic]

OpenSearch ==
    /\ keys = None /\ find = None
    /\ DialogPress(Alone({"search"}))
    /\ find' = [query |-> None, semantic |-> FALSE, results |-> None, loading |-> FALSE,
                timer |-> FALSE, n |-> dialogs.clicks]
    /\ UNCHANGED <<col, keys, dialogNet>>

\* Clicking a result navigates, and closes the dialog too.
CloseSearch ==
    /\ find # None
    /\ find' = None
    /\ UNCHANGED <<colDb, col, keys, dialogNet, dialogs>>

\* useEffect on the text and the mode: the timer is started afresh; an empty
\* text empties the results at once.
ChangeSearch(q, semantic) ==
    /\ find # None /\ (q # find.query \/ semantic # find.semantic)
    /\ DialogPress(Alone({"search"}))
    /\ find' = [find EXCEPT !.query = q, !.semantic = semantic, !.timer = (q # None),
                            !.results = IF q = None THEN None ELSE @]
    /\ UNCHANGED <<col, keys, dialogNet>>

\* 300 ms later
SearchTimer ==
    /\ find # None /\ find.timer
    /\ Room(dialogNet, 1)
    /\ find' = [find EXCEPT !.timer = FALSE, !.loading = TRUE]
    /\ dialogNet' = Send(dialogNet, "search", [asked |-> Asked(find), n |-> find.n])
    /\ UNCHANGED <<colDb, col, keys, dialogs>>

ServeSearch(i) ==
    /\ Sent(dialogNet, i, "search")
    /\ dialogNet' = Reply(dialogNet, i, dialogNet[i].arg.asked)
    /\ UNCHANGED <<colDb, col, keys, find, dialogs>>

\* A failure is swallowed and leaves the earlier results on screen.
Searched(i) ==
    /\ Ok(dialogNet, i, "search") \/ Err(dialogNet, i, "search")
    /\ find' = IF find = None \/ (find # None /\ find.n # dialogNet[i].arg.n) THEN find
               ELSE [find EXCEPT !.loading = FALSE,
                                 !.results = IF Ok(dialogNet, i, "search") THEN dialogNet[i].out ELSE @]
    /\ dialogNet' = Done(dialogNet, i)
    /\ UNCHANGED <<colDb, col, keys, dialogs>>

\* The connection fails before the server acts, or after it has.
DialogCallFails(i) ==
    /\ i \in Pending(dialogNet) /\ dialogNet[i].st # "err"
    /\ dialogNet' = Fail(dialogNet, i)
    /\ dialogs' = [dialogs EXCEPT !.calm = @ /\ dialogNet[i].st = "sent" /\ dialogNet[i].op = "keysave"]
    /\ UNCHANGED <<colDb, col, keys, find>>

DialogsNext ==
    \/ RemovePrimaryKey \/ RemoveForeignKey \/ SaveKeys
    \/ OpenKeys \/ CloseKeys \/ TogglePk \/ SyncKeys
    \/ \E t \in Target \cup {Empty} : ChooseTable(t)
    \/ \E t \in Target : ChooseColumn(ColumnOf[t])
    \/ OpenSearch \/ CloseSearch \/ SearchTimer
    \/ \E q \in Query \cup {None}, s \in BOOLEAN : ChangeSearch(q, s)
    \/ \E i \in Slot :
          \/ ServeKeys(i) \/ KeysSaved(i) \/ ServeColumns(i) \/ ColumnsRead(i)
          \/ ServeSync(i) \/ Synced(i) \/ ServeSearch(i) \/ Searched(i) \/ DialogCallFails(i)

-----------------------------------------------------------------------------
(* Correctness *)

\* Once nothing is in flight, the badges of the column show its keys as the
\* server has them, also after an edit that failed; provided no edit was made
\* before the last one's reply, no reply was lost and no sync was asked for.
KeysMatch == dialogs.calm /\ Quiet(dialogNet) => col = colDb

\* Once the timer has fired and nothing is in flight, what the dialog lists
\* answers the text and the mode it shows (nothing for an empty box), if no
\* change was made between a search and its reply; the same for the columns
\* offered under the foreign-key table.
AnswersMatch ==
    dialogs.calm /\ Quiet(dialogNet) =>
        /\ find # None /\ ~find.timer =>
              find.results = IF find.query = None THEN None ELSE Asked(find)
        /\ keys # None =>
              keys.columns = IF keys.fk_table = Empty THEN {} ELSE {ColumnOf[keys.fk_table]}

\* A spinner is waiting for a request of its own.
DialogSpinners ==
    Quiet(dialogNet) =>
        /\ keys # None => ~keys.loading /\ ~keys.saving /\ ~keys.syncing
        /\ find # None => ~find.loading
===============================================================================
