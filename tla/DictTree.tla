------------------------------ MODULE DictTree -------------------------------
(***************************************************************************)
(* The left half of the data dictionary page                               *)
(* (app/admin/data-dictionary/page.tsx): the warehouse on screen, the tree *)
(* of its tables, the tables an administrator has hidden (exclusions) and  *)
(* the table entered.  The rows of that table are module DictRows.         *)
(*                                                                         *)
(* Hiding is optimistic: the list changes at the click, and the reply      *)
(* replaces a placeholder or rolls the click back.                         *)
(***************************************************************************)
EXTENDS Calls

CONSTANTS
    Warehouse,
    Table,         \* table names, numbered in the order of the tree
    MaxTreeClicks  \* bound: clicks on the page

VARIABLES
    dict,     \* the server: tables known and exclusion rows per warehouse
    tree,     \* the page's React state
    treeNet   \* its requests

treeVars == <<dict, tree, treeNet>>

TreeOps == {"load", "hide", "unhide", "relist", "introspect", "retree"}

\* dict.tables: those with dictionary entries; the others appear when the
\* warehouse is introspected.  A row of an exclusion carries its warehouse.
TreeInit ==
    /\ dict = [tables |-> [w \in Warehouse |-> {1, 2}], ex |-> {}, next |-> 1]
    /\ tree = [wh |-> None, loading |-> FALSE, names |-> {}, ex |-> {},
               showHidden |-> FALSE, sel |-> None, busy |-> {}, clicks |-> 0,
               calm |-> TRUE]
    /\ treeNet = NoCalls

TreeClicked(ui) == [ui EXCEPT !.clicks = @ + 1]
TreeClick == tree.clicks < MaxTreeClicks /\ UNCHANGED dict

\* excludedSchemas and excludedTables, looked up by name
Excluded == {x.t : x \in tree.ex}

\* filteredSchemas; the search box narrows it further.
Unfiltered(t) == tree.showHidden \/ t \notin Excluded

\* The sections of the table browser: what can be clicked.
Offered == {t \in tree.names : Unfiltered(t)}

-----------------------------------------------------------------------------
(* The warehouse *)

\* setSelectedWarehouseId, then the effect that empties the page and asks for
\* the tree and the exclusions together.
PickWarehouse(w) ==
    /\ TreeClick /\ w # tree.wh /\ Room(treeNet, 1)
    /\ tree' = [TreeClicked(tree) EXCEPT !.wh = w, !.loading = TRUE, !.names = {}, !.ex = {},
                                   !.sel = None, !.calm = @ /\ Quiet(treeNet)]
    /\ treeNet' = Send(treeNet, "load", [w |-> w, names |-> None, ex |-> None])

\* Choosing "select a warehouse" again: the effect returns early.
ClearWarehouse ==
    /\ TreeClick /\ tree.wh # None
    /\ tree' = [TreeClicked(tree) EXCEPT !.wh = None]
    /\ UNCHANGED treeNet

\* Promise.all of two reads: each is served on its own.
ServeLoad(i) ==
    /\ Sent(treeNet, i, "load")
    /\ LET a == treeNet[i].arg
           names == [a EXCEPT !.names = dict.tables[a.w]]
           ex == [a EXCEPT !.ex = {x \in dict.ex : x.w = a.w}]
       IN \/ a.names = None /\ a.ex = None /\ treeNet' = [treeNet EXCEPT ![i].arg = names]
          \/ a.names = None /\ a.ex # None /\ treeNet' = Reply(treeNet, i, names)
          \/ a.ex = None /\ a.names = None /\ treeNet' = [treeNet EXCEPT ![i].arg = ex]
          \/ a.ex = None /\ a.names # None /\ treeNet' = Reply(treeNet, i, ex)
    /\ UNCHANGED <<dict, tree>>

\* The reply fills the page whichever warehouse is on screen by now.
Loaded(i) ==
    /\ Ok(treeNet, i, "load")
    /\ tree' = [tree EXCEPT !.names = treeNet[i].out.names, !.ex = treeNet[i].out.ex,
                            !.loading = FALSE]
    /\ treeNet' = Done(treeNet, i)
    /\ UNCHANGED dict

LoadFailed(i) ==
    /\ Err(treeNet, i, "load")
    /\ tree' = [tree EXCEPT !.loading = FALSE, !.calm = FALSE]
    /\ treeNet' = Done(treeNet, i)
    /\ UNCHANGED dict

-----------------------------------------------------------------------------
(* Hiding and unhiding a table: toggleExclusion *)

\* A click is out of turn when the same table has a click under way, or while
\* the list is being read: after a failure, or still for the first time (a
\* refresh of the warehouse can put tables on screen before that reply).
InTurn(t) == \A i \in Of(treeNet, TreeOps) :
                /\ treeNet[i].op \notin {"load", "relist"}
                /\ treeNet[i].op \in {"hide", "unhide"} => treeNet[i].arg.t # t

ToggleShown ==
    /\ TreeClick /\ tree.ex # {}
    /\ tree' = [TreeClicked(tree) EXCEPT !.showHidden = ~@]
    /\ UNCHANGED treeNet

\* A placeholder with a negative id until the server's row is known.
Hide(t) ==
    LET temp == [id |-> 0 - (tree.clicks + 1), w |-> tree.wh, t |-> t]
    IN /\ TreeClick /\ tree.wh # None /\ t \in Offered \ Excluded /\ Room(treeNet, 1)
       /\ tree' = [TreeClicked(tree) EXCEPT !.ex = @ \cup {temp}, !.calm = @ /\ InTurn(t)]
       /\ treeNet' = Send(treeNet, "hide", temp)

Unhide(x) ==
    /\ TreeClick /\ tree.wh # None /\ x \in tree.ex /\ x.t \in Offered /\ Room(treeNet, 1)
    /\ tree' = [TreeClicked(tree) EXCEPT !.ex = @ \ {x}, !.calm = @ /\ InTurn(x.t)]
    /\ treeNet' = Send(treeNet, "unhide", x)

\* add_exclusion is idempotent per warehouse and name.
ServeHide(i) ==
    /\ Sent(treeNet, i, "hide")
    /\ LET a == treeNet[i].arg
           old == {x \in dict.ex : x.w = a.w /\ x.t = a.t}
           new == [a EXCEPT !.id = dict.next]
       IN IF old # {}
          THEN dict' = dict /\ treeNet' = Reply(treeNet, i, CHOOSE x \in old : TRUE)
          ELSE /\ dict' = [dict EXCEPT !.ex = @ \cup {new}, !.next = @ + 1]
               /\ treeNet' = Reply(treeNet, i, new)
    /\ UNCHANGED tree

\* remove_exclusion goes by id and answers 404 for one it does not know.
ServeUnhide(i) ==
    /\ Sent(treeNet, i, "unhide")
    /\ LET known == {x \in dict.ex : x.id = treeNet[i].arg.id}
       IN IF known = {}
          THEN dict' = dict /\ treeNet' = Fail(treeNet, i)
          ELSE dict' = [dict EXCEPT !.ex = @ \ known] /\ treeNet' = Reply(treeNet, i, None)
    /\ UNCHANGED tree

Hidden(i) ==
    /\ Ok(treeNet, i, "hide")
    /\ tree' = [tree EXCEPT !.ex = {IF x = treeNet[i].arg THEN treeNet[i].out ELSE x : x \in @}]
    /\ treeNet' = Done(treeNet, i)
    /\ UNCHANGED dict

HideFailed(i) ==
    /\ Err(treeNet, i, "hide")
    /\ tree' = [tree EXCEPT !.ex = @ \ {treeNet[i].arg}]
    /\ treeNet' = Done(treeNet, i)
    /\ UNCHANGED dict

Unhidden(i) ==
    /\ Ok(treeNet, i, "unhide")
    /\ treeNet' = Done(treeNet, i)
    /\ UNCHANGED <<dict, tree>>

\* The roll-back of an unhide reads the whole list again.
UnhideFailed(i) ==
    /\ Err(treeNet, i, "unhide")
    /\ treeNet' = Then(treeNet, i, "relist", treeNet[i].arg)
    /\ tree' = [tree EXCEPT !.calm = @ /\ Pending(treeNet) = {i}]
    /\ UNCHANGED dict

ServeRelist(i) ==
    /\ Sent(treeNet, i, "relist")
    /\ treeNet' = Reply(treeNet, i, {x \in dict.ex : x.w = treeNet[i].arg.w})
    /\ UNCHANGED <<dict, tree>>

\* reloadExclusions; a failure is swallowed.
Relisted(i) ==
    /\ \/ Ok(treeNet, i, "relist") /\ tree' = [tree EXCEPT !.ex = treeNet[i].out]
       \/ Err(treeNet, i, "relist") /\ tree' = [tree EXCEPT !.calm = FALSE]
    /\ treeNet' = Done(treeNet, i)
    /\ UNCHANGED dict

-----------------------------------------------------------------------------
(* Reading the warehouse again: handleRefreshWarehouse, handlePopulateAll *)

Introspect(by) ==
    /\ TreeClick /\ tree.wh # None /\ by \notin tree.busy /\ Room(treeNet, 1)
    /\ by = "populateAll" => tree.sel # None
    /\ tree' = [TreeClicked(tree) EXCEPT !.busy = @ \cup {by}]
    /\ treeNet' = Send(treeNet, "introspect", [w |-> tree.wh, by |-> by])

ServeIntrospect(i) ==
    /\ Sent(treeNet, i, "introspect")
    /\ dict' = [dict EXCEPT !.tables[treeNet[i].arg.w] = Table]
    /\ treeNet' = Reply(treeNet, i, None)
    /\ UNCHANGED tree

\* await reloadSchemaTree(...) of the warehouse the click was for
Introspected(i) ==
    /\ Ok(treeNet, i, "introspect")
    /\ treeNet' = Then(treeNet, i, "retree", treeNet[i].arg)
    /\ UNCHANGED <<dict, tree>>

\* Mutant of IntrospectFailed: no finally.
IntrospectFailedBusy(i) ==
    /\ Err(treeNet, i, "introspect")
    /\ treeNet' = Done(treeNet, i)
    /\ UNCHANGED <<dict, tree>>

IntrospectFailed(i) ==
    /\ Err(treeNet, i, "introspect")
    /\ tree' = [tree EXCEPT !.busy = @ \ {treeNet[i].arg.by}]
    /\ treeNet' = Done(treeNet, i)
    /\ UNCHANGED dict

ServeTree(i) ==
    /\ Sent(treeNet, i, "retree")
    /\ treeNet' = Reply(treeNet, i, dict.tables[treeNet[i].arg.w])
    /\ UNCHANGED <<dict, tree>>

\* reloadSchemaTree swallows its failure; finally frees the button.
TreeRead(i) ==
    /\ \/ /\ Ok(treeNet, i, "retree")
          /\ tree' = [tree EXCEPT !.busy = @ \ {treeNet[i].arg.by}, !.names = treeNet[i].out]
       \/ /\ Err(treeNet, i, "retree")
          /\ tree' = [tree EXCEPT !.busy = @ \ {treeNet[i].arg.by}]
    /\ treeNet' = Done(treeNet, i)
    /\ UNCHANGED dict

-----------------------------------------------------------------------------
(* The table entered *)

SelectTable(t) ==
    /\ TreeClick /\ t \in Offered /\ t # tree.sel
    /\ tree' = [TreeClicked(tree) EXCEPT !.sel = t]
    /\ UNCHANGED treeNet

\* prevTable and nextTable go through allTables, the hidden ones included.
Neighbour(t) == {u \in tree.names \ {t} :
    t \in tree.names /\ \A v \in tree.names : ~(u < v /\ v < t) /\ ~(t < v /\ v < u)}

StepTable(t) ==
    /\ TreeClick /\ tree.wh # None /\ tree.sel # None /\ t \in Neighbour(tree.sel)
    /\ tree' = [TreeClicked(tree) EXCEPT !.sel = t]
    /\ UNCHANGED treeNet

ExitTable ==
    /\ TreeClick /\ tree.sel # None
    /\ tree' = [TreeClicked(tree) EXCEPT !.sel = None]
    /\ UNCHANGED treeNet

\* The connection fails before the server acts, or after it has.
TreeCallFails(i) ==
    /\ i \in Pending(treeNet) /\ treeNet[i].st # "err"
    /\ treeNet' = Fail(treeNet, i)
    /\ tree' = [tree EXCEPT !.calm = @ /\ (treeNet[i].st = "ok" => treeNet[i].op \notin {"hide", "unhide"})]
    /\ UNCHANGED dict

TreeNext ==
    \/ \E w \in Warehouse : PickWarehouse(w)
    \/ ClearWarehouse \/ ToggleShown \/ ExitTable
    \/ \E t \in Table : Hide(t) \/ SelectTable(t) \/ StepTable(t)
    \/ \E x \in tree.ex : Unhide(x)
    \/ \E by \in {"refresh", "populateAll"} : Introspect(by)
    \/ \E i \in Slot :
          \/ ServeLoad(i) \/ Loaded(i) \/ LoadFailed(i)
          \/ ServeHide(i) \/ Hidden(i) \/ HideFailed(i)
          \/ ServeUnhide(i) \/ Unhidden(i) \/ UnhideFailed(i)
          \/ ServeRelist(i) \/ Relisted(i) \/ TreeCallFails(i)
          \/ ServeIntrospect(i) \/ Introspected(i) \/ IntrospectFailed(i)
          \/ ServeTree(i) \/ TreeRead(i)

-----------------------------------------------------------------------------
(* Correctness *)

\* Once nothing is in flight, the list of hidden tables is the server's, row by
\* row, placeholders replaced and failed clicks rolled back, even when clicks
\* on several tables were in flight together; provided no table was clicked
\* again before its reply, and no list was read while something else changed it.
HiddenMatches ==
    tree.calm /\ Quiet(treeNet) /\ tree.wh # None
        => tree.ex = {x \in dict.ex : x.w = tree.wh}

\* A button that shows a spinner is waiting for a request of its own.
TreeSpinners ==
    \A by \in tree.busy : \E i \in Of(treeNet, {"introspect", "retree"}) : treeNet[i].arg.by = by
===============================================================================
