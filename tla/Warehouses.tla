------------------------------ MODULE Warehouses ------------------------------
(***************************************************************************)
(* The page of warehouse connections (app/admin/warehouses/page.tsx) over  *)
(* routers/warehouses.py.  Its dialog for sharing is in ShareDialog.       *)
(***************************************************************************)
EXTENDS Calls

CONSTANTS
    MaxWarehouses,    \* bound: connections ever created
    MaxWhClicks       \* bound: clicks of the administrator

VARIABLES
    whs,      \* the server's rows
    whMade,   \* the number of rows ever inserted
    wh,       \* the React state of the page, with the dialog on screen
    whNet     \* the requests

whVars == <<whs, whMade, wh, whNet>>
whServer == <<whs, whMade>>

\* The kinds of database by the credentials they take, each with those kept in
\* extra_config; a password is a column of its own.
Extra == [standard |-> {}, snowflake |-> {"key", "passphrase"}, bigquery |-> {"json"}]
WhKind == DOMAIN Extra

WarehousesInit ==
    /\ \E d \in {None, 1} :
          whs = {[id |-> k, kind |-> "snowflake", password |-> FALSE, extra |-> Extra.snowflake,
                  default |-> (k = d)] : k \in {1, 2}}
    /\ whMade = 2
    /\ wh = [rows |-> whs, dialog |-> None, testing |-> None, acting |-> None, clicks |-> 0, calm |-> TRUE]
    /\ whNet = NoCalls

PressWh ==
    /\ wh.dialog = None
    /\ wh.clicks < MaxWhClicks /\ Room(whNet, 1)
    /\ UNCHANGED whServer
StepWh == Pressed(wh, Quiet(whNet))

-----------------------------------------------------------------------------
(* The list and the buttons of a row *)

ServeWhs(i) ==
    /\ Sent(whNet, i, "whs")
    /\ whNet' = Reply(whNet, i, whs)
    /\ UNCHANGED <<whServer, wh>>

\* The arg is the handler that awaits the list: set-default frees its row then.
WhsRead(i) ==
    /\ Settled(whNet, i, "whs")
    /\ LET ui == IF whNet[i].arg = "default" THEN [wh EXCEPT !.acting = None] ELSE wh
       IN wh' = IF Ok(whNet, i, "whs") THEN [ui EXCEPT !.rows = whNet[i].out]
                ELSE [ui EXCEPT !.calm = FALSE]
    /\ whNet' = Done(whNet, i)
    /\ UNCHANGED whServer

TestWh(w) ==
    /\ PressWh /\ wh.testing # w.id
    /\ wh' = [StepWh EXCEPT !.testing = w.id]
    /\ whNet' = Send(whNet, "whtest", w.id)

ServeWhTest(i) ==
    /\ Sent(whNet, i, "whtest")
    /\ whNet' = Reply(whNet, i, None)
    /\ UNCHANGED <<whServer, wh>>

WhTested(i) ==
    /\ Settled(whNet, i, "whtest")
    /\ wh' = [wh EXCEPT !.testing = None]
    /\ whNet' = Done(whNet, i)
    /\ UNCHANGED whServer

SetDefault(w) ==
    /\ PressWh /\ ~w.default /\ wh.acting # w.id
    /\ wh' = [StepWh EXCEPT !.acting = w.id]
    /\ whNet' = Send(whNet, "default", w.id)

\* set_default_warehouse: the rows that are the default now are to lose the flag;
\* rows another transaction is about to mark are not among them.
BeginDefault(i) ==
    /\ Sent(whNet, i, "default")
    /\ whNet' = IF \E w \in whs : w.id = whNet[i].arg
                THEN Begin(whNet, i, {w.id : w \in {v \in whs : v.default}})
                ELSE Fail(whNet, i)
    /\ UNCHANGED <<whServer, wh>>

CommitDefault(i) ==
    /\ Open(whNet, i, "default")
    /\ whs' = {[w EXCEPT !.default = (w.id = whNet[i].arg) \/ (@ /\ w.id \notin whNet[i].out)] : w \in whs}
    /\ whNet' = Reply(whNet, i, None)
    /\ UNCHANGED <<whMade, wh>>

\* await loadConnections()
DefaultSet(i) ==
    /\ \/ /\ Ok(whNet, i, "default")
          /\ whNet' = Then(whNet, i, "whs", "default")
          /\ UNCHANGED wh
       \/ /\ Err(whNet, i, "default")
          /\ wh' = [wh EXCEPT !.acting = None]
          /\ whNet' = Done(whNet, i)
    /\ UNCHANGED whServer

DeleteWh(w) ==
    /\ PressWh /\ wh.acting # w.id
    /\ wh' = [StepWh EXCEPT !.acting = w.id]
    /\ whNet' = Send(whNet, "whdelete", w.id)

ServeWhDelete(i) ==
    /\ Sent(whNet, i, "whdelete")
    /\ LET row == {w \in whs : w.id = whNet[i].arg}
       IN /\ whs' = whs \ row
          /\ whNet' = IF row = {} THEN Fail(whNet, i) ELSE Reply(whNet, i, None)
    /\ UNCHANGED <<whMade, wh>>

WhDeleted(i) ==
    /\ Settled(whNet, i, "whdelete")
    /\ wh' = [wh EXCEPT !.acting = None,
                        !.rows = IF Ok(whNet, i, "whdelete") THEN {w \in @ : w.id # whNet[i].arg} ELSE @]
    /\ whNet' = Done(whNet, i)
    /\ UNCHANGED whServer

-----------------------------------------------------------------------------
(* The form of a connection *)

\* The form of an edited row starts with its kind and with what extra_config has,
\* passwords and passphrases blank.
OpenWh(w) ==
    /\ PressWh
    /\ wh' = [wh EXCEPT !.clicks = @ + 1, !.dialog = [row |-> w, saving |-> FALSE, n |-> wh.clicks]]
    /\ UNCHANGED whNet

\* The cross is never disabled.
CloseWh ==
    /\ wh.dialog # None
    /\ wh' = [wh EXCEPT !.dialog = None]
    /\ UNCHANGED <<whServer, whNet>>

\* handleSave of the modal: the fields of the chosen kind that are not blank.
SubmitWh(kind, filled) ==
    /\ wh.dialog # None /\ ~wh.dialog.saving
    /\ filled \subseteq Extra[kind] \cup {"password"}
    /\ wh.clicks < MaxWhClicks /\ Room(whNet, 1)
    /\ wh' = [StepWh EXCEPT !.dialog.saving = TRUE]
    /\ LET row == wh.dialog.row
           fields == [id |-> IF row = None THEN None ELSE row.id, kind |-> kind,
                      password |-> (kind = "standard" /\ "password" \in filled),
                      extra |-> IF kind = "standard" THEN None ELSE filled \cap Extra[kind],
                      n |-> wh.dialog.n]
       IN whNet' = Send(whNet, IF row = None THEN "whcreate" ELSE "whupdate", fields)
    /\ UNCHANGED whServer

ServeWhCreate(i) ==
    /\ Sent(whNet, i, "whcreate") /\ whMade < MaxWarehouses
    /\ whMade' = whMade + 1
    /\ LET arg == whNet[i].arg
       IN whs' = whs \cup {[id |-> whMade + 1, kind |-> arg.kind, password |-> arg.password,
                            extra |-> IF arg.extra = None THEN {} ELSE arg.extra, default |-> FALSE]}
    /\ whNet' = Reply(whNet, i, None)
    /\ UNCHANGED wh

\* update_warehouse: what is given replaces what there is, extra_config as a whole.
ServeWhUpdate(i) ==
    /\ Sent(whNet, i, "whupdate")
    /\ LET arg == whNet[i].arg
           new(w) == [w EXCEPT !.kind = arg.kind, !.password = @ \/ arg.password,
                               !.extra = IF arg.extra = None THEN @ ELSE arg.extra]
           row == {w \in whs : w.id = arg.id}
       IN /\ whs' = (whs \ row) \cup {new(w) : w \in row}
          /\ whNet' = IF row = {} THEN Fail(whNet, i) ELSE Reply(whNet, i, None)
    /\ UNCHANGED <<whMade, wh>>

\* onSaved reads the list, onClose closes the form on screen.
WhSaved(i) ==
    /\ \/ /\ Ok(whNet, i, "whcreate") \/ Ok(whNet, i, "whupdate")
          /\ wh' = [wh EXCEPT !.dialog = None]
          /\ whNet' = Then(whNet, i, "whs", None)
       \/ /\ Err(whNet, i, "whcreate") \/ Err(whNet, i, "whupdate")
          /\ wh' = IF wh.dialog # None /\ wh.dialog.n = whNet[i].arg.n
                   THEN [wh EXCEPT !.dialog.saving = FALSE] ELSE wh
          /\ whNet' = Done(whNet, i)
    /\ UNCHANGED whServer

WhCallFails(i) ==
    /\ CanFail(whNet, i)
    /\ whNet' = Fail(whNet, i)
    /\ wh' = Missed(wh, whNet, i)
    /\ UNCHANGED whServer

WarehousesNext ==
    \/ \E w \in wh.rows : TestWh(w) \/ SetDefault(w) \/ DeleteWh(w) \/ OpenWh(w)
    \/ OpenWh(None) \/ CloseWh
    \/ \E k \in WhKind : \E f \in SUBSET (Extra[k] \cup {"password"}) : SubmitWh(k, f)
    \/ \E i \in Slot :
          \/ ServeWhs(i) \/ WhsRead(i) \/ ServeWhTest(i) \/ WhTested(i) \/ BeginDefault(i)
          \/ CommitDefault(i) \/ DefaultSet(i) \/ ServeWhDelete(i) \/ WhDeleted(i)
          \/ ServeWhCreate(i) \/ ServeWhUpdate(i) \/ WhSaved(i) \/ WhCallFails(i)

-----------------------------------------------------------------------------
(* Correctness *)

\* Once nothing is in flight, the list shows the rows the server has, and one of
\* them at most is the default; provided one thing was done at a time and no
\* reply was lost.
WarehousesMatch ==
    wh.calm => /\ Quiet(whNet) => wh.rows = whs
               /\ \A v, w \in whs : v.default /\ w.default => v = w

\* A spinner is waiting for a request of its own.
WhSpinners ==
    Quiet(whNet) => /\ wh.testing = None /\ wh.acting = None
                    /\ wh.dialog # None => ~wh.dialog.saving
===============================================================================
