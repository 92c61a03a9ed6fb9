------------------------------- MODULE ConsoleWaits -------------------------------
(***************************************************************************)
(* No page of the console hangs, for any number of requests in flight, of  *)
(* clicks and of rows.  Of every page: what it shows as waiting, waits for *)
(* a request of its own that is still on its way.  Each part takes one     *)
(* page, says which request that is (by its kind, and by the number of the *)
(* dialog, form or row it carries), and shows that every step of the page  *)
(* keeps it; the last part carries this over to the console.               *)
(***************************************************************************)
EXTENDS AdminConsole, CallsProofs

-----------------------------------------------------------------------------
(***************************************************************************)
(* The tree of the dictionary: a button is busy while its introspection,   *)
(* or the list read after it, is under way.                                *)
(***************************************************************************)
TreeFields == {"wh", "loading", "names", "ex", "showHidden", "sel", "busy", "clicks", "calm"}

\* The button by is waiting for call c.
ReadsFor(c, by) == c.op \in {"introspect", "retree"} /\ c.arg.by = by

TreeWaits ==
    /\ TreeFields \subseteq DOMAIN tree /\ IsNet(treeNet)
    /\ \A by \in tree.busy : \E j \in Pending(treeNet) : ReadsFor(treeNet[j], by)

\* It is kept while every busy button still has a request on its way.
LEMMA TreeWaitsKept ==
    ASSUME TreeWaits, NEW gone, Goes(treeNet, treeNet', gone), TreeFields \subseteq DOMAIN tree',
           \A by \in tree'.busy : \/ by \in tree.busy /\ \A i \in gone : ~ReadsFor(treeNet[i], by)
                                  \/ \E j \in Pending(treeNet') : ReadsFor(treeNet'[j], by)
    PROVE  TreeWaits'
<1>1. \A by \in tree'.busy : \E j \in Pending(treeNet') : ReadsFor(treeNet'[j], by)
  BY DEF TreeWaits, Goes, ReadsFor
<1>2. \A j, by : ReadsFor(treeNet[j], by)' <=> ReadsFor(treeNet'[j], by)
  BY DEF ReadsFor
<1>3. TreeWaits' <=> /\ TreeFields \subseteq DOMAIN tree' /\ IsNet(treeNet')
                     /\ \A by \in tree'.busy : \E j \in Pending(treeNet') : ReadsFor(treeNet'[j], by)
  BY <1>2 DEF TreeWaits, ReadsFor
<1> QED
  BY <1>1, <1>3 DEF Goes

\* A step that leaves the buttons alone.
LEMMA TreeSameWaits ==
    ASSUME TreeWaits, NEW gone, Goes(treeNet, treeNet', gone), TreeFields \subseteq DOMAIN tree', tree'.busy = tree.busy,
           \A i \in gone : treeNet[i].op \notin {"introspect", "retree"}
    PROVE  TreeWaits'
<1>1. \A i \in gone : \A by : ~ReadsFor(treeNet[i], by)
  BY DEF ReadsFor
<1> QED
  BY <1>1, TreeWaitsKept

\* The two reads of a load are answered one after the other.
LEMMA HalfGoes ==
    ASSUME NEW net, IsNet(net), NEW i \in Slot, net[i] # Free, NEW arg
    PROVE  Goes(net, [net EXCEPT ![i].arg = arg], {i})
<1> DEFINE c == net[i]
           d == [op |-> c.op, arg |-> arg, st |-> c.st, out |-> c.out]
<1>1. [c EXCEPT !.arg = arg] = d
  <2>1. c = [op |-> c.op, arg |-> c.arg, st |-> c.st, out |-> c.out]
    BY DEF IsNet, IsCall
  <2> QED
    BY <2>1
<1>2. IsCall(d)
  BY DEF IsCall
<1> HIDE DEF d, c
<1>3. [net EXCEPT ![i].arg = arg] = Put(net, i, d)
  BY <1>1 DEF IsNet, Put, c
<1>4. Goes(net, Put(net, i, d), {i})
  BY <1>2, PutGoes
<1> QED
  BY <1>3, <1>4

\* It holds at the start.
LEMMA TreeWaitsStart == TreeInit => TreeWaits
<1> SUFFICES ASSUME TreeInit PROVE TreeWaits
  OBVIOUS
<1>1. TreeFields \subseteq DOMAIN tree /\ tree.busy = {}
  BY DEF TreeInit, TreeFields
<1>2. IsNet(treeNet)
  BY NoCallsIsNet DEF TreeInit
<1> QED
  BY <1>1, <1>2 DEF TreeWaits

\* Every step keeps it.
LEMMA TreeWaitsStep == TreeWaits /\ [TreeNext]_treeVars => TreeWaits'
<1> SUFFICES ASSUME TreeWaits, [TreeNext]_treeVars PROVE TreeWaits'
  OBVIOUS
<1> DEFINE Same == TreeFields \subseteq DOMAIN tree' /\ tree'.busy = tree.busy
<1>0. TreeFields \subseteq DOMAIN tree /\ IsNet(treeNet)
  BY DEF TreeWaits
<1>p. TreeFields \subseteq DOMAIN TreeClicked(tree) /\ TreeClicked(tree).busy = tree.busy
  BY <1>0 DEF TreeClicked, TreeFields
<1>1. CASE UNCHANGED <<tree, treeNet>>
  BY <1>0, <1>1, StayGoes, TreeSameWaits
<1>2. ASSUME NEW w, PickWarehouse(w) PROVE TreeWaits'
  <2>1. Same
    <3> DEFINE ui == TreeClicked(tree)
    <3>1. tree' = [ui EXCEPT !.wh = w, !.loading = TRUE, !.names = {}, !.ex = {}, !.sel = None,
                             !.calm = @ /\ Quiet(treeNet)]
      BY <1>2, Zenon DEF PickWarehouse
    <3>2. TreeFields \subseteq DOMAIN ui /\ ui.busy = tree.busy
      BY <1>p
    <3> HIDE DEF ui
    <3> QED
      BY <3>1, <3>2 DEF TreeFields
  <2>2. Goes(treeNet, treeNet', {})
    BY <1>0, <1>2, SendGoes DEF PickWarehouse
  <2> QED
    BY <2>1, <2>2, TreeSameWaits
<1>3. ASSUME NEW t, \/ ClearWarehouse \/ ToggleShown \/ ExitTable \/ SelectTable(t) \/ StepTable(t) PROVE TreeWaits'
  <2> DEFINE ui == TreeClicked(tree)
  <2>1. \/ tree' = [ui EXCEPT !.wh = None] \/ tree' = [ui EXCEPT !.showHidden = ~@]
        \/ tree' = [ui EXCEPT !.sel = t] \/ tree' = [ui EXCEPT !.sel = None]
    BY <1>3, Zenon DEF ClearWarehouse, ToggleShown, ExitTable, SelectTable, StepTable
  <2>2. TreeFields \subseteq DOMAIN ui /\ ui.busy = tree.busy
    BY <1>p
  <2> HIDE DEF ui
  <2>3. Same
    BY <2>1, <2>2 DEF TreeFields
  <2>4. treeNet' = treeNet
    BY <1>3 DEF ClearWarehouse, ToggleShown, ExitTable, SelectTable, StepTable
  <2> QED
    BY <1>0, <2>3, <2>4, StayGoes, TreeSameWaits
<1>4. ASSUME NEW t, Hide(t) \/ Unhide(t) PROVE TreeWaits'
  <2> DEFINE ui == TreeClicked(tree)
  <2>1. \E ex, calm : tree' = [ui EXCEPT !.ex = ex, !.calm = calm]
    BY <1>4, Zenon DEF Hide, Unhide
  <2>2. TreeFields \subseteq DOMAIN ui /\ ui.busy = tree.busy
    BY <1>p
  <2> HIDE DEF ui
  <2>3. Same
    BY <2>1, <2>2 DEF TreeFields
  <2>4. Room(treeNet, 1) /\ \E op, arg : treeNet' = Send(treeNet, op, arg)
    BY <1>4, Zenon DEF Hide, Unhide
  <2>5. Goes(treeNet, treeNet', {})
    BY <1>0, <2>4, SendGoes
  <2> QED
    BY <2>3, <2>5, TreeSameWaits
<1>5. ASSUME NEW by, Introspect(by) PROVE TreeWaits'
  <2> DEFINE ui == TreeClicked(tree)
             arg == [w |-> tree.wh, by |-> by]
  <2>1. tree' = [ui EXCEPT !.busy = @ \cup {by}] /\ Room(treeNet, 1) /\ treeNet' = Send(treeNet, "introspect", arg)
    BY <1>5, Zenon DEF Introspect
  <2>2. TreeFields \subseteq DOMAIN ui /\ ui.busy = tree.busy
    BY <1>p
  <2>3. arg.by = by
    OBVIOUS
  <2> HIDE DEF ui, arg
  <2>4. TreeFields \subseteq DOMAIN tree' /\ tree'.busy = tree.busy \cup {by}
    BY <2>1, <2>2 DEF TreeFields
  <2>5. Goes(treeNet, treeNet', {}) /\ Underway(treeNet', "introspect", arg)
    BY <1>0, <2>1, SendGoes
  <2>6. \E j \in Pending(treeNet') : ReadsFor(treeNet'[j], by)
    BY <2>3, <2>5 DEF Underway, ReadsFor
  <2> QED
    BY <2>4, <2>5, <2>6, TreeWaitsKept
<1>6. ASSUME NEW i \in Slot, ServeLoad(i) PROVE TreeWaits'
  <2>1. treeNet[i] # Free /\ treeNet[i].op = "load" /\ tree' = tree
    BY <1>6 DEF ServeLoad, Sent
  <2>2. (\E out : treeNet' = Reply(treeNet, i, out)) \/ \E arg : treeNet' = [treeNet EXCEPT ![i].arg = arg]
    BY <1>6, Zenon DEF ServeLoad
  <2>3. Goes(treeNet, treeNet', {i})
    <3>1. CASE \E out : treeNet' = Reply(treeNet, i, out)
      <4>1. Goes(treeNet, treeNet', {})
        BY <1>0, <2>1, <3>1, AnswerGoes
      <4> QED
        BY <4>1 DEF Goes
    <3>2. CASE \E arg : treeNet' = [treeNet EXCEPT ![i].arg = arg]
      <4>1. PICK arg : treeNet' = [treeNet EXCEPT ![i].arg = arg]
        BY <3>2
      <4> QED
        BY <1>0, <2>1, <4>1, HalfGoes
    <3> QED
      BY <2>2, <3>1, <3>2
  <2> QED
    BY <1>0, <2>1, <2>3, TreeSameWaits
<1>7. ASSUME NEW i \in Slot,
             ServeHide(i) \/ ServeUnhide(i) \/ ServeRelist(i) \/ ServeIntrospect(i) \/ ServeTree(i) \/ TreeCallFails(i)
      PROVE  TreeWaits'
  <2>1. Same
    BY <1>0, <1>7 DEF ServeHide, ServeUnhide, ServeRelist, ServeIntrospect, ServeTree, TreeCallFails, TreeFields
  <2>2. treeNet[i] # Free /\ (treeNet' = Fail(treeNet, i) \/ \E out : treeNet' = Reply(treeNet, i, out))
    BY <1>7, Zenon DEF ServeHide, ServeUnhide, ServeRelist, ServeIntrospect, ServeTree, TreeCallFails, Sent, Pending
  <2>3. Goes(treeNet, treeNet', {})
    BY <1>0, <2>2, AnswerGoes
  <2> QED
    BY <2>1, <2>3, TreeSameWaits
<1>8. ASSUME NEW i \in Slot,
             Loaded(i) \/ LoadFailed(i) \/ Hidden(i) \/ HideFailed(i) \/ Unhidden(i) \/ Relisted(i)
      PROVE  TreeWaits'
  <2>1. Same
    BY <1>0, <1>8 DEF Loaded, LoadFailed, Hidden, HideFailed, Unhidden, Relisted, TreeFields
  <2>2. treeNet' = Done(treeNet, i) /\ treeNet[i].op \notin {"introspect", "retree"}
    BY <1>8 DEF Loaded, LoadFailed, Hidden, HideFailed, Unhidden, Relisted, Ok, Err
  <2>3. Goes(treeNet, treeNet', {i})
    BY <1>0, <2>2, EndGoes
  <2> QED
    BY <2>1, <2>2, <2>3, TreeSameWaits
<1>9. ASSUME NEW i \in Slot, UnhideFailed(i) PROVE TreeWaits'
  <2>1. Same /\ treeNet[i].op = "unhide"
    BY <1>0, <1>9 DEF UnhideFailed, Err, TreeFields
  <2>2. Goes(treeNet, treeNet', {i})
    BY <1>0, <1>9, EndGoes DEF UnhideFailed
  <2> QED
    BY <2>1, <2>2, TreeSameWaits
<1>10. ASSUME NEW i \in Slot, Introspected(i) PROVE TreeWaits'
  <2>1. tree' = tree /\ treeNet' = Then(treeNet, i, "retree", treeNet[i].arg)
    BY <1>10 DEF Introspected
  <2>2. Goes(treeNet, treeNet', {i}) /\ Underway(treeNet', "retree", treeNet[i].arg)
    BY <1>0, <2>1, EndGoes
  <2>3. \A by : ReadsFor(treeNet[i], by) => \E j \in Pending(treeNet') : ReadsFor(treeNet'[j], by)
    BY <2>2 DEF Underway, ReadsFor
  <2> QED
    BY <1>0, <2>1, <2>2, <2>3, TreeWaitsKept
<1>11. ASSUME NEW i \in Slot, IntrospectFailed(i) \/ TreeRead(i) PROVE TreeWaits'
  <2>1. treeNet' = Done(treeNet, i)
    BY <1>11 DEF IntrospectFailed, TreeRead
  <2>2. Goes(treeNet, treeNet', {i})
    BY <1>0, <2>1, EndGoes
  <2>3. TreeFields \subseteq DOMAIN tree' /\ tree'.busy = tree.busy \ {treeNet[i].arg.by}
    BY <1>0, <1>11 DEF IntrospectFailed, TreeRead, TreeFields
  <2>4. \A by \in tree'.busy : by \in tree.busy /\ ~ReadsFor(treeNet[i], by)
    BY <2>3 DEF ReadsFor
  <2> QED
    BY <2>2, <2>3, <2>4, TreeWaitsKept
<1>12. CASE UNCHANGED treeVars
  BY <1>1, <1>12 DEF treeVars
<1>13. CASE TreeNext
  BY <1>2, <1>3, <1>4, <1>5, <1>6, <1>7, <1>8, <1>9, <1>10, <1>11, <1>13, Zenon DEF TreeNext
<1> QED
  BY <1>12, <1>13

-----------------------------------------------------------------------------
(***************************************************************************)
(* The rows of the dictionary: the list, the buttons over it, the history of*)
(* a row and the revert of a warehouse.                                    *)
(***************************************************************************)
RowFields == {"table", "rows", "loading", "busy", "edit", "draft", "history", "logs", "reverting", "revert",
              "clicks", "calm"}
RevertFields == {"at", "preview", "loading", "applying", "n"}

\* What a button, the history and the revert dialog wait for.
BusyFor(c, by) == \/ c.op = by /\ by \in Introspector /\ c.arg.by = by
                  \/ c.op = "list" /\ c.arg.by = by
                  \/ c.op = "ai" /\ c.arg = by
HistoryFor(c, history) == c.op \in {"revert", "changes"} /\ c.arg.n = history.n
RevertFor(c, op, revert) == c.op = op /\ c.arg.n = revert.n

RowWaits ==
    /\ RowFields \subseteq DOMAIN page /\ IsNet(rowNet)
    /\ page.loading => \E j \in Pending(rowNet) : rowNet[j].op = "list"
    /\ \A by \in page.busy : \E j \in Pending(rowNet) : BusyFor(rowNet[j], by)
    /\ page.history = None => page.logs = {} /\ page.reverting = None
    /\ page.reverting # None => \E j \in Pending(rowNet) : HistoryFor(rowNet[j], page.history)
    /\ page.revert # None =>
          /\ RevertFields \subseteq DOMAIN page.revert
          /\ page.revert.loading => \E j \in Pending(rowNet) : RevertFor(rowNet[j], "preview", page.revert)
          /\ page.revert.applying => \E j \in Pending(rowNet) : RevertFor(rowNet[j], "apply", page.revert)

\* It is kept while everything that waits still has its request on its way.
LEMMA RowWaitsKept ==
    ASSUME RowWaits, NEW gone, Goes(rowNet, rowNet', gone), RowFields \subseteq DOMAIN page',
           page'.loading => \/ page.loading /\ \A i \in gone : rowNet[i].op # "list"
                            \/ \E arg : Underway(rowNet', "list", arg),
           \A by \in page'.busy : \/ by \in page.busy /\ \A i \in gone : ~BusyFor(rowNet[i], by)
                                  \/ \E j \in Pending(rowNet') : BusyFor(rowNet'[j], by),
           page'.history = None => page'.logs = {} /\ page'.reverting = None,
           page'.reverting # None =>
               \/ /\ page.reverting # None /\ page'.history = page.history
                  /\ \A i \in gone : ~HistoryFor(rowNet[i], page.history)
               \/ \E j \in Pending(rowNet') : HistoryFor(rowNet'[j], page'.history),
           page'.revert # None =>
               /\ RevertFields \subseteq DOMAIN page'.revert
               /\ page'.revert.loading =>
                     \/ /\ page.revert # None /\ page.revert.loading /\ page'.revert.n = page.revert.n
                        /\ \A i \in gone : ~RevertFor(rowNet[i], "preview", page.revert)
                     \/ \E arg : arg.n = page'.revert.n /\ Underway(rowNet', "preview", arg)
               /\ page'.revert.applying =>
                     \/ /\ page.revert # None /\ page.revert.applying /\ page'.revert.n = page.revert.n
                        /\ \A i \in gone : ~RevertFor(rowNet[i], "apply", page.revert)
                     \/ \E arg : arg.n = page'.revert.n /\ Underway(rowNet', "apply", arg)
    PROVE  RowWaits'
<1>1. page'.loading => \E j \in Pending(rowNet') : rowNet'[j].op = "list"
  BY DEF RowWaits, Goes, Underway
<1>2. \A by \in page'.busy : \E j \in Pending(rowNet') : BusyFor(rowNet'[j], by)
  BY DEF RowWaits, Goes, BusyFor
<1>3. page'.reverting # None => \E j \in Pending(rowNet') : HistoryFor(rowNet'[j], page'.history)
  BY DEF RowWaits, Goes, HistoryFor
<1>4. page'.revert # None /\ page'.revert.loading =>
          \E j \in Pending(rowNet') : RevertFor(rowNet'[j], "preview", page'.revert)
  BY DEF RowWaits, Goes, RevertFor, Underway
<1>5. page'.revert # None /\ page'.revert.applying =>
          \E j \in Pending(rowNet') : RevertFor(rowNet'[j], "apply", page'.revert)
  BY DEF RowWaits, Goes, RevertFor, Underway
<1>6. /\ \A j, by : BusyFor(rowNet[j], by)' <=> BusyFor(rowNet'[j], by)
      /\ \A j : HistoryFor(rowNet[j], page.history)' <=> HistoryFor(rowNet'[j], page'.history)
      /\ \A j, op : RevertFor(rowNet[j], op, page.revert)' <=> RevertFor(rowNet'[j], op, page'.revert)
  BY DEF BusyFor, HistoryFor, RevertFor
<1>7. RowWaits' <=>
          /\ RowFields \subseteq DOMAIN page' /\ IsNet(rowNet')
          /\ page'.loading => \E j \in Pending(rowNet') : rowNet'[j].op = "list"
          /\ \A by \in page'.busy : \E j \in Pending(rowNet') : BusyFor(rowNet'[j], by)
          /\ page'.history = None => page'.logs = {} /\ page'.reverting = None
          /\ page'.reverting # None => \E j \in Pending(rowNet') : HistoryFor(rowNet'[j], page'.history)
          /\ page'.revert # None =>
                /\ RevertFields \subseteq DOMAIN page'.revert
                /\ page'.revert.loading => \E j \in Pending(rowNet') : RevertFor(rowNet'[j], "preview", page'.revert)
                /\ page'.revert.applying => \E j \in Pending(rowNet') : RevertFor(rowNet'[j], "apply", page'.revert)
  BY DEF RowWaits, BusyFor, HistoryFor, RevertFor
<1> QED
  BY <1>1, <1>2, <1>3, <1>4, <1>5, <1>7 DEF Goes

\* What the page shows of its waiting.
SameFlags(ui) ==
    /\ RowFields \subseteq DOMAIN ui /\ ui.loading = page.loading /\ ui.busy = page.busy /\ ui.history = page.history
    /\ ui.logs = page.logs /\ ui.reverting = page.reverting /\ ui.revert = page.revert

\* A step that leaves it alone.
LEMMA RowSameWaits ==
    ASSUME RowWaits, NEW gone, Goes(rowNet, rowNet', gone), SameFlags(page'),
           \A i \in gone : rowNet[i].op \in {"save", "delete"}
    PROVE  RowWaits'
<1>1. /\ RowFields \subseteq DOMAIN page' /\ page'.loading = page.loading /\ page'.busy = page.busy
      /\ page'.history = page.history /\ page'.logs = page.logs /\ page'.reverting = page.reverting
      /\ page'.revert = page.revert
  BY DEF SameFlags
<1>2. \A i \in gone : /\ rowNet[i].op # "list" /\ \A by : ~BusyFor(rowNet[i], by)
                      /\ \A h : ~HistoryFor(rowNet[i], h)
                      /\ \A r : ~RevertFor(rowNet[i], "preview", r) /\ ~RevertFor(rowNet[i], "apply", r)
  BY DEF BusyFor, HistoryFor, RevertFor, Introspector
<1>3. /\ page.revert # None => RevertFields \subseteq DOMAIN page.revert
      /\ page.history = None => page.logs = {} /\ page.reverting = None
  BY DEF RowWaits
<1> QED
  BY <1>1, <1>2, <1>3, RowWaitsKept

\* Drawing the rows only drops what is being typed.
LEMMA RenderedFlags ==
    ASSUME NEW ui, RowFields \subseteq DOMAIN ui
    PROVE  /\ RowFields \subseteq DOMAIN Rendered(ui) /\ Rendered(ui).loading = ui.loading
           /\ Rendered(ui).busy = ui.busy /\ Rendered(ui).history = ui.history /\ Rendered(ui).logs = ui.logs
           /\ Rendered(ui).reverting = ui.reverting /\ Rendered(ui).revert = ui.revert
<1> DEFINE shut == [ui EXCEPT !.edit = None, !.draft = None]
<1>1. /\ RowFields \subseteq DOMAIN shut /\ shut.loading = ui.loading /\ shut.busy = ui.busy
      /\ shut.history = ui.history /\ shut.logs = ui.logs /\ shut.reverting = ui.reverting /\ shut.revert = ui.revert
  BY DEF RowFields
<1>2. Rendered(ui) = shut \/ Rendered(ui) = ui
  BY DEF Rendered
<1> HIDE DEF shut
<1> QED
  BY <1>1, <1>2

\* A connection that fails at once leaves the others alone.
LEMMA FailGoes ==
    ASSUME NEW net, IsNet(net), NEW i
    PROVE  Goes(net, Fail(net, i), {})
<1>1. CASE i \notin Slot
  <2>1. Fail(net, i) = net
    BY <1>1 DEF Fail, IsNet
  <2> QED
    BY <2>1, StayGoes
<1>2. CASE i \in Slot /\ net[i] # Free
  BY <1>2, AnswerGoes
<1>3. CASE i \in Slot /\ net[i] = Free
  <2> DEFINE c == [Free EXCEPT !.st = "err"]
  <2>1. Fail(net, i) = Put(net, i, c)
    BY <1>3 DEF Fail, IsNet, Put
  <2>2. IsCall(c)
    BY DEF IsCall, Free
  <2> HIDE DEF c
  <2> QED
    BY <1>3, <2>1, <2>2, PutGoes
<1> QED
  BY <1>1, <1>2, <1>3

\* It holds at the start.
LEMMA RowWaitsStart == RowInit => RowWaits
<1> SUFFICES ASSUME RowInit PROVE RowWaits
  OBVIOUS
<1>1. /\ RowFields \subseteq DOMAIN page /\ ~page.loading /\ page.busy = {} /\ page.logs = {}
      /\ page.reverting = None /\ page.revert = None
  BY DEF RowInit, RowFields
<1>2. IsNet(rowNet)
  BY NoCallsIsNet DEF RowInit
<1> QED
  BY <1>1, <1>2 DEF RowWaits

\* A step that leaves the flags alone and takes no call away but those it names.
LEMMA RowQuietStep ==
    ASSUME RowWaits, NEW ui, page' = ui, SameFlags(ui), Goes(rowNet, rowNet', {})
    PROVE  RowWaits'
  BY RowSameWaits DEF SameFlags

\* Every step keeps it.
LEMMA RowWaitsStep == RowWaits /\ [RowNext]_rowVars => RowWaits'
<1> SUFFICES ASSUME RowWaits, [RowNext]_rowVars PROVE RowWaits'
  OBVIOUS
<1>0. /\ RowFields \subseteq DOMAIN page /\ IsNet(rowNet)
      /\ page.history = None => page.logs = {} /\ page.reverting = None
      /\ page.revert # None => RevertFields \subseteq DOMAIN page.revert
  BY DEF RowWaits
<1>p. SameFlags(RowPress(page)) /\ SameFlags(page)
  BY <1>0 DEF RowPress, SameFlags, RowFields
<1>s. ASSUME NEW ui, SameFlags(ui) PROVE RowFields \subseteq DOMAIN Rendered(ui) /\ SameFlags(Rendered(ui))
  BY <1>s, RenderedFlags DEF SameFlags
<1>l. ASSUME NEW ui, RowFields \subseteq DOMAIN ui
      PROVE  /\ RowFields \subseteq DOMAIN LoadingRows(ui) /\ LoadingRows(ui).loading
             /\ LoadingRows(ui).busy = ui.busy /\ LoadingRows(ui).history = ui.history /\ LoadingRows(ui).logs = ui.logs
             /\ LoadingRows(ui).reverting = ui.reverting /\ LoadingRows(ui).revert = ui.revert
  <2> DEFINE load == [ui EXCEPT !.loading = TRUE]
  <2>1. /\ RowFields \subseteq DOMAIN load /\ load.loading /\ load.busy = ui.busy /\ load.history = ui.history
        /\ load.logs = ui.logs /\ load.reverting = ui.reverting /\ load.revert = ui.revert
    BY <1>l DEF RowFields
  <2>2. LoadingRows(ui) = Rendered(load)
    BY DEF LoadingRows
  <2> HIDE DEF load
  <2> QED
    BY <2>1, <2>2, RenderedFlags
<1>1. CASE UNCHANGED <<page, rowNet>>
  BY <1>0, <1>1, <1>p, StayGoes, RowSameWaits DEF SameFlags
<1>2. ASSUME NEW t \in RowTable, EnterTable(t) PROVE RowWaits'
  <2> DEFINE ui == RowPress(page)
             load == [ui EXCEPT !.table = t, !.calm = @ /\ Quiet(rowNet)]
             arg == [t |-> t, by |-> None]
  <2>1. page' = LoadingRows(load) /\ Room(rowNet, 1) /\ rowNet' = Send(rowNet, "list", arg)
    BY <1>2, Zenon DEF EnterTable
  <2>2. SameFlags(ui)
    BY <1>p
  <2> HIDE DEF ui, arg
  <2>3. SameFlags(load)
    BY <2>2 DEF SameFlags, RowFields
  <2> HIDE DEF load
  <2>4. RowFields \subseteq DOMAIN load
    BY <2>3 DEF SameFlags
  <2>5. /\ RowFields \subseteq DOMAIN page' /\ page'.busy = page.busy /\ page'.history = page.history
        /\ page'.logs = page.logs /\ page'.reverting = page.reverting /\ page'.revert = page.revert
    BY <1>l, <2>1, <2>3, <2>4 DEF SameFlags
  <2>6. Goes(rowNet, rowNet', {}) /\ Underway(rowNet', "list", arg)
    BY <1>0, <2>1, SendGoes
  <2> QED
    BY <1>0, <2>5, <2>6, RowWaitsKept
<1>3. CASE LeaveTable
  <2> DEFINE ui == RowPress(page)
             out == [ui EXCEPT !.table = None, !.calm = @ /\ Quiet(rowNet)]
  <2>1. page' = Rendered(out) /\ rowNet' = rowNet
    BY <1>3, Zenon DEF LeaveTable
  <2>2. SameFlags(ui)
    BY <1>p
  <2> HIDE DEF ui
  <2>3. SameFlags(out)
    BY <2>2 DEF SameFlags, RowFields
  <2> HIDE DEF out
  <2> QED
    BY <1>0, <1>s, <2>1, <2>3, StayGoes, RowQuietStep
<1>4. ASSUME NEW i \in Slot,
             \/ ServeList(i) \/ ServeSave(i) \/ ServeDelete(i) \/ ServeRefresh(i) \/ ServeChanges(i)
             \/ ServeRowRevert(i) \/ ServePreview(i) \/ ServeApply(i) \/ RowCallFails(i)
      PROVE  RowWaits'
  <2>1. page' = page \/ \E calm : page' = [page EXCEPT !.calm = calm]
    BY <1>4, Zenon DEF ServeList, ServeSave, ServeDelete, ServeRefresh, ServeChanges, ServeRowRevert, ServePreview,
       ServeApply, RowCallFails
  <2>2. SameFlags(page')
    BY <1>0, <2>1 DEF SameFlags, RowFields
  <2>3. rowNet[i] # Free /\ (rowNet' = Fail(rowNet, i) \/ \E out : rowNet' = Reply(rowNet, i, out))
    BY <1>4, Zenon DEF ServeList, ServeSave, ServeDelete, ServeRefresh, ServeChanges, ServeRowRevert, ServePreview,
       ServeApply, RowCallFails, Sent, Pending
  <2>4. Goes(rowNet, rowNet', {})
    BY <1>0, <2>3, AnswerGoes
  <2> QED
    BY <2>2, <2>4, RowSameWaits
<1>5. ASSUME NEW i \in Slot, RowsListed(i) PROVE RowWaits'
  <2>1. rowNet[i].op = "list" /\ rowNet' = Done(rowNet, i)
    BY <1>5 DEF RowsListed, Ok, Err
  <2>2. Goes(rowNet, rowNet', {i})
    BY <1>0, <2>1, EndGoes
  <2> DEFINE by == rowNet[i].arg.by
             got == [page EXCEPT !.rows = rowNet[i].out, !.loading = FALSE, !.busy = @ \ {by}]
             not == [page EXCEPT !.loading = FALSE, !.busy = @ \ {by}, !.calm = FALSE]
             Ended(ui) == /\ RowFields \subseteq DOMAIN ui /\ ~ui.loading /\ ui.busy = page.busy \ {by}
                          /\ ui.history = page.history /\ ui.logs = page.logs /\ ui.reverting = page.reverting
                          /\ ui.revert = page.revert
  <2>3. page' = Rendered(got) \/ page' = not
    BY <1>5, Zenon DEF RowsListed
  <2>4. Ended(got) /\ Ended(not)
    BY <1>0 DEF RowFields
  <2> HIDE DEF got, not
  <2>5. Ended(page')
    BY <2>3, <2>4, RenderedFlags
  <2>6. \A x \in page.busy \ {by} : ~BusyFor(rowNet[i], x)
    BY <2>1 DEF BusyFor, Introspector
  <2>7. \A h : ~HistoryFor(rowNet[i], h)
    BY <2>1 DEF HistoryFor
  <2>8. \A r : ~RevertFor(rowNet[i], "preview", r) /\ ~RevertFor(rowNet[i], "apply", r)
    BY <2>1 DEF RevertFor
  <2> HIDE DEF by
  <2> QED
    BY <1>0, <2>2, <2>5, <2>6, <2>7, <2>8, RowWaitsKept
<1>6. ASSUME NEW e, StartEdit(e) PROVE RowWaits'
  <2> DEFINE ui == RowPress(page)
  <2>1. \E d : page' = [ui EXCEPT !.edit = e, !.draft = d]
    BY <1>6, Zenon DEF StartEdit
  <2>2. SameFlags(ui)
    BY <1>p
  <2> HIDE DEF ui
  <2>3. SameFlags(page') /\ rowNet' = rowNet
    BY <1>6, <2>1, <2>2 DEF SameFlags, RowFields, StartEdit
  <2> QED
    BY <1>0, <2>3, StayGoes, RowSameWaits
<1>7. ASSUME NEW v, Type(v) PROVE RowWaits'
  <2>1. SameFlags(page') /\ rowNet' = rowNet
    BY <1>0, <1>7 DEF SameFlags, RowFields, Type
  <2> QED
    BY <1>0, <2>1, StayGoes, RowSameWaits
<1>8. ASSUME NEW e, NEW f, NEW v, NEW ui, SameFlags(ui), Save(e, f, v, ui) PROVE RowWaits'
  <2>1. \E rows, calm : page' = [ui EXCEPT !.rows = rows, !.calm = calm]
    BY <1>8, Zenon DEF Save
  <2>2. SameFlags(page')
    BY <1>8, <2>1 DEF SameFlags, RowFields
  <2>3. Goes(rowNet, rowNet', {})
    BY <1>0, <1>8, SendGoes DEF Save
  <2> QED
    BY <2>2, <2>3, RowSameWaits
<1>9. CASE Commit
  <2> DEFINE closed == [page EXCEPT !.edit = None, !.draft = None]
  <2>1. (page' = closed /\ rowNet' = rowNet) \/ Save(page.edit, "description", page.draft, closed)
    BY <1>9, Zenon DEF Commit
  <2>2. SameFlags(closed)
    BY <1>0 DEF SameFlags, RowFields
  <2> HIDE DEF closed
  <2> QED
    BY <1>0, <1>8, <2>1, <2>2, StayGoes, RowQuietStep
<1>10. ASSUME NEW e, TogglePii(e) PROVE RowWaits'
  <2> DEFINE ui == RowPress(page)
             v == ~page.rows[e].is_pii
  <2>1. Save(e, "is_pii", v, ui)
    BY <1>10, Zenon DEF TogglePii
  <2> HIDE DEF ui, v
  <2> QED
    BY <1>8, <1>p, <2>1 DEF ui
<1>11. ASSUME NEW e, DeleteRow(e) PROVE RowWaits'
  <2> DEFINE ui == RowPress(page)
             out == [ui EXCEPT !.rows = Without(@, e), !.calm = @ /\ InTurnRow(e)]
  <2>1. page' = Rendered(out) /\ Room(rowNet, 1) /\ \E arg : rowNet' = Send(rowNet, "delete", arg)
    BY <1>11, Zenon DEF DeleteRow
  <2>2. SameFlags(ui)
    BY <1>p
  <2> HIDE DEF ui
  <2>3. SameFlags(out)
    BY <2>2 DEF SameFlags, RowFields
  <2> HIDE DEF out
  <2>4. Goes(rowNet, rowNet', {})
    BY <1>0, <2>1, SendGoes
  <2> QED
    BY <1>s, <2>1, <2>3, <2>4, RowQuietStep
<1>12. ASSUME NEW i \in Slot, Saved(i) \/ Deleted(i) PROVE RowWaits'
  <2>1. page' = page \/ \E rows : page' = [page EXCEPT !.rows = rows]
    BY <1>12, Zenon DEF Saved, Deleted
  <2>2. SameFlags(page')
    BY <1>0, <2>1 DEF SameFlags, RowFields
  <2>3. rowNet' = Done(rowNet, i) /\ rowNet[i].op \in {"save", "delete"}
    BY <1>12 DEF Saved, Deleted, Ok, Err
  <2>4. Goes(rowNet, rowNet', {i})
    BY <1>0, <2>3, EndGoes
  <2> QED
    BY <2>2, <2>3, <2>4, RowSameWaits
<1>13. ASSUME NEW by \in Introspector, RefreshRows(by) PROVE RowWaits'
  <2> DEFINE ui == RowPress(page)
             arg == [t |-> page.table, by |-> by]
  <2>1. /\ \E calm : page' = [ui EXCEPT !.busy = @ \cup {by}, !.calm = calm]
        /\ Room(rowNet, 1) /\ rowNet' = Send(rowNet, by, arg)
    BY <1>13, Zenon DEF RefreshRows, Button
  <2>2. SameFlags(ui) /\ arg.by = by
    BY <1>p
  <2> HIDE DEF ui, arg
  <2>3. /\ RowFields \subseteq DOMAIN page' /\ page'.loading = page.loading /\ page'.busy = page.busy \cup {by}
        /\ page'.history = page.history /\ page'.logs = page.logs /\ page'.reverting = page.reverting
        /\ page'.revert = page.revert
    BY <2>1, <2>2 DEF SameFlags, RowFields
  <2>4. Goes(rowNet, rowNet', {}) /\ Underway(rowNet', by, arg)
    BY <1>0, <2>1, SendGoes
  <2>5. \E j \in Pending(rowNet') : BusyFor(rowNet'[j], by)
    BY <2>2, <2>4 DEF Underway, BusyFor
  <2> QED
    BY <1>0, <2>3, <2>4, <2>5, RowWaitsKept
<1>14. ASSUME NEW i \in Slot, Refreshed(i) PROVE RowWaits'
  <2>1. PICK by \in Introspector :
           \/ /\ Ok(rowNet, i, by)
              /\ page' = LoadingRows(page) /\ rowNet' = Then(rowNet, i, "list", rowNet[i].arg)
           \/ /\ Err(rowNet, i, by) \/ Ok(rowNet, i, by)
              /\ page' = [page EXCEPT !.busy = @ \ {by}] /\ rowNet' = Done(rowNet, i)
    BY <1>14, Zenon DEF Refreshed
  <2>2. rowNet[i].op = by
    BY <2>1 DEF Ok, Err
  <2>3. \A h : ~HistoryFor(rowNet[i], h)
    BY <2>2 DEF HistoryFor, Introspector
  <2>4. \A r : ~RevertFor(rowNet[i], "preview", r) /\ ~RevertFor(rowNet[i], "apply", r)
    BY <2>2 DEF RevertFor, Introspector
  <2>5. CASE page' = LoadingRows(page) /\ rowNet' = Then(rowNet, i, "list", rowNet[i].arg)
    <3>1. Goes(rowNet, rowNet', {i}) /\ Underway(rowNet', "list", rowNet[i].arg)
      BY <1>0, <2>5, EndGoes
    <3>2. \A x : BusyFor(rowNet[i], x) => \E j \in Pending(rowNet') : BusyFor(rowNet'[j], x)
      BY <2>2, <3>1 DEF Underway, BusyFor, Introspector
    <3>3. /\ RowFields \subseteq DOMAIN page' /\ page'.busy = page.busy /\ page'.history = page.history
          /\ page'.logs = page.logs /\ page'.reverting = page.reverting /\ page'.revert = page.revert
      BY <1>0, <1>l, <2>5
    <3> QED
      BY <1>0, <2>3, <2>4, <3>1, <3>2, <3>3, RowWaitsKept
  <2>6. CASE page' = [page EXCEPT !.busy = @ \ {by}] /\ rowNet' = Done(rowNet, i)
    <3>1. Goes(rowNet, rowNet', {i})
      BY <1>0, <2>6, EndGoes
    <3>2. \A x \in page.busy \ {by} : ~BusyFor(rowNet[i], x)
      BY <2>2 DEF BusyFor, Introspector
    <3>3. /\ RowFields \subseteq DOMAIN page' /\ page'.loading = page.loading /\ page'.busy = page.busy \ {by}
          /\ page'.history = page.history /\ page'.logs = page.logs /\ page'.reverting = page.reverting
          /\ page'.revert = page.revert
      BY <1>0, <2>6 DEF RowFields
    <3>4. rowNet[i].op # "list"
      BY <2>2 DEF Introspector
    <3> QED
      BY <1>0, <2>3, <2>4, <3>1, <3>2, <3>3, <3>4, RowWaitsKept
  <2> QED
    BY <2>1, <2>5, <2>6
<1>15. ASSUME NEW by, GenerateAi(by) PROVE RowWaits'
  <2> DEFINE ui == RowPress(page)
             mid == Send(rowNet, "ai", by)
             i == CHOOSE i \in Slot : rowNet[i] = Free /\ \A k \in Slot : rowNet[k] = Free => i <= k
  <2>1. page' = [ui EXCEPT !.busy = @ \cup {by}] /\ Room(rowNet, 1) /\ rowNet' = Fail(mid, i)
    BY <1>15, Zenon DEF GenerateAi, Button
  <2>2. SameFlags(ui)
    BY <1>p
  <2>3. Goes(rowNet, mid, {}) /\ Underway(mid, "ai", by)
    BY <1>0, <2>1, SendGoes
  <2> HIDE DEF ui, mid, i
  <2>4. IsNet(mid)
    BY <2>3 DEF Goes
  <2>5. Goes(mid, rowNet', {})
    BY <2>1, <2>4, FailGoes
  <2>6. Goes(rowNet, rowNet', {} \cup {})
    BY <2>3, <2>5, GoesOn
  <2>7. Goes(rowNet, rowNet', {})
    BY <2>6 DEF Goes
  <2>8. \E j \in Pending(rowNet') : BusyFor(rowNet'[j], by)
    BY <2>3, <2>5 DEF Goes, Underway, BusyFor
  <2>9. /\ RowFields \subseteq DOMAIN page' /\ page'.loading = page.loading /\ page'.busy = page.busy \cup {by}
        /\ page'.history = page.history /\ page'.logs = page.logs /\ page'.reverting = page.reverting
        /\ page'.revert = page.revert
    BY <2>1, <2>2 DEF SameFlags, RowFields
  <2> QED
    BY <1>0, <2>7, <2>8, <2>9, RowWaitsKept
<1>16. ASSUME NEW i \in Slot, AiFailed(i) PROVE RowWaits'
  <2> DEFINE by == rowNet[i].arg
  <2>1. rowNet[i].op = "ai" /\ page' = [page EXCEPT !.busy = @ \ {by}] /\ rowNet' = Done(rowNet, i)
    BY <1>16 DEF AiFailed, Err
  <2>2. Goes(rowNet, rowNet', {i})
    BY <1>0, <2>1, EndGoes
  <2>3. \A x \in page.busy \ {by} : ~BusyFor(rowNet[i], x)
    BY <2>1 DEF BusyFor, Introspector
  <2>4. \A h : ~HistoryFor(rowNet[i], h)
    BY <2>1 DEF HistoryFor
  <2>5. \A r : ~RevertFor(rowNet[i], "preview", r) /\ ~RevertFor(rowNet[i], "apply", r)
    BY <2>1 DEF RevertFor
  <2> HIDE DEF by
  <2>6. /\ RowFields \subseteq DOMAIN page' /\ page'.loading = page.loading /\ page'.busy = page.busy \ {by}
        /\ page'.history = page.history /\ page'.logs = page.logs /\ page'.reverting = page.reverting
        /\ page'.revert = page.revert
    BY <1>0, <2>1 DEF RowFields
  <2> QED
    BY <1>0, <2>1, <2>2, <2>3, <2>4, <2>5, <2>6, RowWaitsKept
<1>17. ASSUME NEW e, OpenHistory(e) PROVE RowWaits'
  <2> DEFINE ui == RowPress(page)
             dialog == [e |-> e, n |-> page.clicks]
  <2>1. /\ page' = [ui EXCEPT !.history = dialog, !.logs = {}, !.reverting = None]
        /\ Room(rowNet, 1) /\ rowNet' = Send(rowNet, "changes", dialog)
    BY <1>17, Zenon DEF OpenHistory
  <2>2. SameFlags(ui)
    BY <1>p
  <2> HIDE DEF ui, dialog
  <2>3. /\ RowFields \subseteq DOMAIN page' /\ page'.loading = page.loading /\ page'.busy = page.busy
        /\ page'.logs = {} /\ page'.reverting = None /\ page'.revert = page.revert
    BY <2>1, <2>2 DEF SameFlags, RowFields
  <2>4. Goes(rowNet, rowNet', {})
    BY <1>0, <2>1, SendGoes
  <2> QED
    BY <1>0, <2>3, <2>4, RowWaitsKept
<1>18. CASE CloseHistory
  <2>1. /\ RowFields \subseteq DOMAIN page' /\ page'.loading = page.loading /\ page'.busy = page.busy
        /\ page'.logs = {} /\ page'.reverting = None /\ page'.revert = page.revert /\ rowNet' = rowNet
    BY <1>0, <1>18 DEF CloseHistory, RowFields
  <2> QED
    BY <1>0, <2>1, StayGoes, RowWaitsKept
<1>19. ASSUME NEW i \in Slot, ChangesRead(i) PROVE RowWaits'
  <2>1. rowNet[i].op = "changes" /\ rowNet' = Done(rowNet, i)
    BY <1>19 DEF ChangesRead, Ok, Err
  <2>2. Goes(rowNet, rowNet', {i})
    BY <1>0, <2>1, EndGoes
  <2>3. /\ rowNet[i].op # "list" /\ \A x : ~BusyFor(rowNet[i], x)
        /\ \A r : ~RevertFor(rowNet[i], "preview", r) /\ ~RevertFor(rowNet[i], "apply", r)
    BY <2>1 DEF BusyFor, RevertFor, Introspector
  <2>4. CASE SameDialog(i)
    <3>1. \E logs : page' = [page EXCEPT !.reverting = None, !.logs = logs]
      BY <1>19, <2>4, Zenon DEF ChangesRead
    <3>2. /\ RowFields \subseteq DOMAIN page' /\ page'.loading = page.loading /\ page'.busy = page.busy
          /\ page'.history = page.history /\ page'.reverting = None /\ page'.revert = page.revert
      BY <1>0, <3>1 DEF RowFields
    <3>3. page.history # None
      BY <2>4 DEF SameDialog
    <3> QED
      BY <1>0, <2>2, <2>3, <3>2, <3>3, RowWaitsKept
  <2>5. CASE ~SameDialog(i)
    <3>1. page' = page
      BY <1>19, <2>5 DEF ChangesRead
    <3>2. page.reverting # None => ~HistoryFor(rowNet[i], page.history)
      BY <1>0, <2>5 DEF SameDialog, HistoryFor
    <3> QED
      BY <1>0, <2>2, <2>3, <3>1, <3>2, RowWaitsKept
  <2> QED
    BY <2>4, <2>5
<1>20. ASSUME NEW l \in page.logs, RevertChange(l) PROVE RowWaits'
  <2> DEFINE ui == RowPress(page)
             arg == [e |-> page.history.e, n |-> page.history.n, l |-> l]
  <2>1. /\ \E calm : page' = [ui EXCEPT !.reverting = l, !.calm = calm]
        /\ Room(rowNet, 1) /\ rowNet' = Send(rowNet, "revert", arg)
    BY <1>20, Zenon DEF RevertChange
  <2>2. SameFlags(ui) /\ arg.n = page.history.n /\ page.history # None
    BY <1>0, <1>20, <1>p
  <2> HIDE DEF ui, arg
  <2>3. /\ RowFields \subseteq DOMAIN page' /\ page'.loading = page.loading /\ page'.busy = page.busy
        /\ page'.history = page.history /\ page'.revert = page.revert
    BY <2>1, <2>2 DEF SameFlags, RowFields
  <2>4. Goes(rowNet, rowNet', {}) /\ Underway(rowNet', "revert", arg)
    BY <1>0, <2>1, SendGoes
  <2>5. \E j \in Pending(rowNet') : HistoryFor(rowNet'[j], page'.history)
    BY <2>2, <2>3, <2>4 DEF Underway, HistoryFor
  <2> QED
    BY <1>0, <2>2, <2>3, <2>4, <2>5, RowWaitsKept
<1>21. ASSUME NEW i \in Slot, RowReverted(i) PROVE RowWaits'
  <2> DEFINE arg == [e |-> rowNet[i].arg.e, n |-> rowNet[i].arg.n]
             rows == Replaced(page.rows, rowNet[i].arg.e, rowNet[i].out)
  <2>1. rowNet[i].op = "revert"
    BY <1>21 DEF RowReverted, Ok, Err
  <2>2. \/ page' = [page EXCEPT !.rows = rows] /\ rowNet' = Then(rowNet, i, "changes", arg)
        \/ /\ page' = IF SameDialog(i) THEN [page EXCEPT !.reverting = None] ELSE page
           /\ rowNet' = Done(rowNet, i)
    BY <1>21, Zenon DEF RowReverted
  <2>3. /\ rowNet[i].op # "list" /\ \A x : ~BusyFor(rowNet[i], x)
        /\ \A r : ~RevertFor(rowNet[i], "preview", r) /\ ~RevertFor(rowNet[i], "apply", r)
    BY <2>1 DEF BusyFor, RevertFor, Introspector
  <2>4. arg.n = rowNet[i].arg.n
    OBVIOUS
  <2> HIDE DEF arg, rows
  <2>5. CASE page' = [page EXCEPT !.rows = rows] /\ rowNet' = Then(rowNet, i, "changes", arg)
    <3>1. Goes(rowNet, rowNet', {i}) /\ Underway(rowNet', "changes", arg)
      BY <1>0, <2>5, EndGoes
    <3>2. SameFlags(page')
      BY <1>0, <2>5 DEF SameFlags, RowFields
    <3>3. HistoryFor(rowNet[i], page.history) => \E j \in Pending(rowNet') : HistoryFor(rowNet'[j], page.history)
      BY <2>4, <3>1 DEF Underway, HistoryFor
    <3>4. /\ RowFields \subseteq DOMAIN page' /\ page'.loading = page.loading /\ page'.busy = page.busy
          /\ page'.history = page.history /\ page'.logs = page.logs /\ page'.reverting = page.reverting
          /\ page'.revert = page.revert
      BY <3>2 DEF SameFlags
    <3> QED
      BY <1>0, <2>3, <3>1, <3>3, <3>4, RowWaitsKept
  <2>6. CASE /\ page' = IF SameDialog(i) THEN [page EXCEPT !.reverting = None] ELSE page
             /\ rowNet' = Done(rowNet, i)
    <3>1. Goes(rowNet, rowNet', {i})
      BY <1>0, <2>6, EndGoes
    <3>2. CASE SameDialog(i)
      <4>1. /\ RowFields \subseteq DOMAIN page' /\ page'.loading = page.loading /\ page'.busy = page.busy
            /\ page'.history = page.history /\ page'.logs = page.logs /\ page'.reverting = None
            /\ page'.revert = page.revert
        BY <1>0, <2>6, <3>2 DEF RowFields
      <4> QED
        BY <1>0, <2>3, <3>1, <4>1, RowWaitsKept
    <3>3. CASE ~SameDialog(i)
      <4>1. page.reverting # None => ~HistoryFor(rowNet[i], page.history)
        BY <1>0, <3>3 DEF SameDialog, HistoryFor
      <4>2. page' = page
        BY <2>6, <3>3
      <4> QED
        BY <1>0, <2>3, <3>1, <4>1, <4>2, RowWaitsKept
    <3> QED
      BY <3>2, <3>3
  <2> QED
    BY <2>2, <2>5, <2>6
<1>22. ASSUME \/ OpenRevert \/ CloseRevert PROVE RowWaits'
  <2> DEFINE ui == RowPress(page)
             box == [at |-> None, preview |-> None, loading |-> FALSE, applying |-> FALSE, n |-> page.clicks]
  <2>1. page' = [ui EXCEPT !.revert = box] \/ page' = [page EXCEPT !.revert = None]
    BY <1>22, Zenon DEF OpenRevert, CloseRevert
  <2>2. SameFlags(ui) /\ SameFlags(page) /\ RevertFields \subseteq DOMAIN box /\ ~box.loading /\ ~box.applying
    BY <1>p DEF RevertFields
  <2> HIDE DEF ui, box
  <2>3. /\ RowFields \subseteq DOMAIN page' /\ page'.loading = page.loading /\ page'.busy = page.busy
        /\ page'.history = page.history /\ page'.logs = page.logs /\ page'.reverting = page.reverting
        /\ page'.revert = box \/ page'.revert = None
    BY <2>1, <2>2 DEF SameFlags, RowFields
  <2>4. rowNet' = rowNet
    BY <1>22 DEF OpenRevert, CloseRevert
  <2> QED
    BY <1>0, <2>2, <2>3, <2>4, StayGoes, RowWaitsKept
<1>23. ASSUME NEW m, SetMoment(m) PROVE RowWaits'
  <2> DEFINE box == [page.revert EXCEPT !.at = m, !.preview = None]
  <2>1. page' = [page EXCEPT !.revert = box] /\ rowNet' = rowNet /\ page.revert # None
    <3>1. page' = [page EXCEPT !.revert.at = m, !.revert.preview = None] /\ rowNet' = rowNet /\ page.revert # None
      BY <1>23 DEF SetMoment
    <3> QED
      BY <1>0, <3>1 DEF RowFields
  <2>2. RevertFields \subseteq DOMAIN box /\ box.loading = page.revert.loading /\ box.applying = page.revert.applying
        /\ box.n = page.revert.n
    BY <1>0, <2>1 DEF RevertFields
  <2> HIDE DEF box
  <2>3. /\ RowFields \subseteq DOMAIN page' /\ page'.loading = page.loading /\ page'.busy = page.busy
        /\ page'.history = page.history /\ page'.logs = page.logs /\ page'.reverting = page.reverting
        /\ page'.revert = box
    BY <1>0, <2>1 DEF RowFields
  <2> QED
    BY <1>0, <2>1, <2>2, <2>3, StayGoes, RowWaitsKept
<1>24. CASE Preview
  <2> DEFINE ui == RowPress(page)
             box == [page.revert EXCEPT !.loading = TRUE, !.preview = None]
             arg == [m |-> page.revert.at, n |-> page.revert.n]
  <2>1. page' = [ui EXCEPT !.revert.loading = TRUE, !.revert.preview = None]
    BY <1>24, Zenon DEF Preview
  <2>2. page.revert # None /\ Room(rowNet, 1) /\ rowNet' = Send(rowNet, "preview", arg)
    BY <1>24, Zenon DEF Preview
  <2>3. SameFlags(ui) /\ arg.n = page.revert.n
    BY <1>p
  <2> HIDE DEF ui, arg
  <2>4. page' = [ui EXCEPT !.revert = box]
    BY <2>1, <2>3 DEF SameFlags, RowFields
  <2>5. RevertFields \subseteq DOMAIN box /\ box.applying = page.revert.applying /\ box.n = page.revert.n
    BY <1>0, <2>2 DEF RevertFields
  <2> HIDE DEF box
  <2>6. /\ RowFields \subseteq DOMAIN page' /\ page'.loading = page.loading /\ page'.busy = page.busy
        /\ page'.history = page.history /\ page'.logs = page.logs /\ page'.reverting = page.reverting
        /\ page'.revert = box
    BY <2>3, <2>4 DEF SameFlags, RowFields
  <2>7. Goes(rowNet, rowNet', {}) /\ Underway(rowNet', "preview", arg)
    BY <1>0, <2>2, SendGoes
  <2> QED
    BY <1>0, <2>2, <2>3, <2>5, <2>6, <2>7, RowWaitsKept
<1>25. CASE Apply
  <2> DEFINE ui == RowPress(page)
             box == [page.revert EXCEPT !.applying = TRUE]
             arg == [m |-> page.revert.at, t |-> page.table, n |-> page.revert.n]
  <2>1. \E calm : page' = [ui EXCEPT !.revert.applying = TRUE, !.calm = calm]
    BY <1>25, Zenon DEF Apply
  <2>2. page.revert # None /\ Room(rowNet, 1) /\ rowNet' = Send(rowNet, "apply", arg)
    BY <1>25, Zenon DEF Apply
  <2>3. SameFlags(ui) /\ arg.n = page.revert.n
    BY <1>p
  <2> HIDE DEF ui, arg
  <2>4. \E calm : page' = [ui EXCEPT !.revert = box, !.calm = calm]
    BY <2>1, <2>3 DEF SameFlags, RowFields
  <2>5. RevertFields \subseteq DOMAIN box /\ box.loading = page.revert.loading /\ box.n = page.revert.n
    BY <1>0, <2>2 DEF RevertFields
  <2> HIDE DEF box
  <2>6. /\ RowFields \subseteq DOMAIN page' /\ page'.loading = page.loading /\ page'.busy = page.busy
        /\ page'.history = page.history /\ page'.logs = page.logs /\ page'.reverting = page.reverting
        /\ page'.revert = box
    BY <2>3, <2>4 DEF SameFlags, RowFields
  <2>7. Goes(rowNet, rowNet', {}) /\ Underway(rowNet', "apply", arg)
    BY <1>0, <2>2, SendGoes
  <2> QED
    BY <1>0, <2>2, <2>3, <2>5, <2>6, <2>7, RowWaitsKept
<1>26. ASSUME NEW i \in Slot, Previewed(i) PROVE RowWaits'
  <2>1. rowNet[i].op = "preview" /\ rowNet' = Done(rowNet, i)
    BY <1>26 DEF Previewed, Ok, Err
  <2>2. Goes(rowNet, rowNet', {i})
    BY <1>0, <2>1, EndGoes
  <2>3. /\ rowNet[i].op # "list" /\ \A x : ~BusyFor(rowNet[i], x)
        /\ \A h : ~HistoryFor(rowNet[i], h) /\ \A r : ~RevertFor(rowNet[i], "apply", r)
    BY <2>1 DEF BusyFor, HistoryFor, RevertFor, Introspector
  <2>4. CASE page.revert = None \/ page.revert.n # rowNet[i].arg.n
    <3>1. page' = page
      BY <1>26, <2>4 DEF Previewed
    <3>2. page.revert # None => ~RevertFor(rowNet[i], "preview", page.revert)
      BY <2>4 DEF RevertFor
    <3> QED
      BY <1>0, <2>2, <2>3, <3>1, <3>2, RowWaitsKept
  <2>5. CASE ~(page.revert = None \/ page.revert.n # rowNet[i].arg.n)
    <3>1. \E p : page' = [page EXCEPT !.revert.loading = FALSE, !.revert.preview = p]
      BY <1>26, <2>5, Zenon DEF Previewed
    <3>2. PICK p : page' = [page EXCEPT !.revert.loading = FALSE, !.revert.preview = p]
      BY <3>1
    <3> DEFINE box == [page.revert EXCEPT !.loading = FALSE, !.preview = p]
    <3>3. page' = [page EXCEPT !.revert = box]
      BY <1>0, <3>2 DEF RowFields
    <3>4. RevertFields \subseteq DOMAIN box /\ box.applying = page.revert.applying /\ box.n = page.revert.n /\ ~box.loading
      BY <1>0, <2>5 DEF RevertFields
    <3> HIDE DEF box
    <3>5. /\ RowFields \subseteq DOMAIN page' /\ page'.loading = page.loading /\ page'.busy = page.busy
          /\ page'.history = page.history /\ page'.logs = page.logs /\ page'.reverting = page.reverting
          /\ page'.revert = box
      BY <1>0, <3>3 DEF RowFields
    <3> QED
      BY <1>0, <2>2, <2>3, <2>5, <3>4, <3>5, RowWaitsKept
  <2> QED
    BY <2>4, <2>5
<1>27. ASSUME NEW i \in Slot, Applied(i) PROVE RowWaits'
  <2> DEFINE shut == [page EXCEPT !.revert = None]
             arg == [t |-> rowNet[i].arg.t, by |-> None]
  <2>1. rowNet[i].op = "apply"
    BY <1>27 DEF Applied, Ok, Err
  <2>2. \/ page' = LoadingRows(shut) /\ rowNet' = Then(rowNet, i, "list", arg)
        \/ page' = shut /\ rowNet' = Done(rowNet, i)
        \/ /\ page' = IF page.revert = None \/ page.revert.n # rowNet[i].arg.n THEN page
                      ELSE [page EXCEPT !.revert.applying = FALSE]
           /\ rowNet' = Done(rowNet, i)
    BY <1>27, Zenon DEF Applied
  <2>3. /\ rowNet[i].op # "list" /\ \A x : ~BusyFor(rowNet[i], x)
        /\ \A h : ~HistoryFor(rowNet[i], h) /\ \A r : ~RevertFor(rowNet[i], "preview", r)
    BY <2>1 DEF BusyFor, HistoryFor, RevertFor, Introspector
  <2>4. /\ RowFields \subseteq DOMAIN shut /\ shut.loading = page.loading /\ shut.busy = page.busy
        /\ shut.history = page.history /\ shut.logs = page.logs /\ shut.reverting = page.reverting
        /\ shut.revert = None
    BY <1>0 DEF RowFields
  <2> HIDE DEF shut, arg
  <2>5. CASE page' = LoadingRows(shut) /\ rowNet' = Then(rowNet, i, "list", arg)
    <3>1. Goes(rowNet, rowNet', {i}) /\ Underway(rowNet', "list", arg)
      BY <1>0, <2>5, EndGoes
    <3>2. /\ RowFields \subseteq DOMAIN page' /\ page'.busy = page.busy /\ page'.history = page.history
          /\ page'.logs = page.logs /\ page'.reverting = page.reverting /\ page'.revert = None
      BY <1>l, <2>4, <2>5
    <3> QED
      BY <1>0, <2>3, <3>1, <3>2, RowWaitsKept
  <2>6. CASE page' = shut /\ rowNet' = Done(rowNet, i)
    <3>1. Goes(rowNet, rowNet', {i})
      BY <1>0, <2>6, EndGoes
    <3> QED
      BY <1>0, <2>3, <2>4, <2>6, <3>1, RowWaitsKept
  <2>7. CASE /\ page' = IF page.revert = None \/ page.revert.n # rowNet[i].arg.n THEN page
                        ELSE [page EXCEPT !.revert.applying = FALSE]
             /\ rowNet' = Done(rowNet, i)
    <3>1. Goes(rowNet, rowNet', {i})
      BY <1>0, <2>7, EndGoes
    <3>2. CASE page.revert = None \/ page.revert.n # rowNet[i].arg.n
      <4>1. page' = page
        BY <2>7, <3>2
      <4>2. page.revert # None => ~RevertFor(rowNet[i], "apply", page.revert)
        BY <3>2 DEF RevertFor
      <4> QED
        BY <1>0, <2>3, <3>1, <4>1, <4>2, RowWaitsKept
    <3>3. CASE ~(page.revert = None \/ page.revert.n # rowNet[i].arg.n)
      <4> DEFINE box == [page.revert EXCEPT !.applying = FALSE]
      <4>1. page' = [page EXCEPT !.revert = box]
        BY <1>0, <2>7, <3>3 DEF RowFields
      <4>2. RevertFields \subseteq DOMAIN box /\ box.loading = page.revert.loading /\ box.n = page.revert.n /\ ~box.applying
        BY <1>0, <3>3 DEF RevertFields
      <4> HIDE DEF box
      <4>3. /\ RowFields \subseteq DOMAIN page' /\ page'.loading = page.loading /\ page'.busy = page.busy
            /\ page'.history = page.history /\ page'.logs = page.logs /\ page'.reverting = page.reverting
            /\ page'.revert = box
        BY <1>0, <4>1 DEF RowFields
      <4> QED
        BY <1>0, <2>3, <3>1, <3>3, <4>2, <4>3, RowWaitsKept
    <3> QED
      BY <3>2, <3>3
  <2> QED
    BY <2>2, <2>5, <2>6, <2>7
<1>28. CASE UNCHANGED rowVars
  BY <1>1, <1>28 DEF rowVars
<1>29. CASE RowNext
  BY <1>2, <1>3, <1>4, <1>5, <1>6, <1>7, <1>9, <1>10, <1>11, <1>12, <1>13, <1>14, <1>15, <1>16, <1>17, <1>18, <1>19,
     <1>20, <1>21, <1>22, <1>23, <1>24, <1>25, <1>26, <1>27, <1>29, Zenon DEF RowNext
<1> QED
  BY <1>28, <1>29

-----------------------------------------------------------------------------
(***************************************************************************)
(* The dialogs of the dictionary: the keys of a column and the search.     *)
(***************************************************************************)
KeysFields == {"is_pk", "fk_table", "fk_column", "columns", "loading", "saving", "syncing", "n"}
FindFields == {"query", "semantic", "results", "loading", "timer", "n"}

\* The dialog with number n is waiting for call c.
DialogFor(c, op, n) == c.op = op /\ c.arg.n = n

DialogWaits ==
    /\ IsNet(dialogNet) /\ {"clicks", "calm"} \subseteq DOMAIN dialogs /\ dialogs.clicks \in Nat
    /\ keys # None =>
          /\ KeysFields \subseteq DOMAIN keys /\ keys.n \in Nat
          /\ keys.loading => \E j \in Pending(dialogNet) : DialogFor(dialogNet[j], "columns", keys.n)
          /\ keys.saving => \E j \in Pending(dialogNet) : DialogFor(dialogNet[j], "keysave", keys.n)
          /\ keys.syncing => \E j \in Pending(dialogNet) : DialogFor(dialogNet[j], "sync", keys.n)
    /\ find # None =>
          /\ FindFields \subseteq DOMAIN find
          /\ find.loading => \E j \in Pending(dialogNet) : DialogFor(dialogNet[j], "search", find.n)

\* It is kept while everything that waits still has its request on its way.
LEMMA DialogWaitsKept ==
    ASSUME DialogWaits, NEW gone, Goes(dialogNet, dialogNet', gone),
           {"clicks", "calm"} \subseteq DOMAIN dialogs', dialogs'.clicks \in Nat,
           keys' # None =>
               /\ KeysFields \subseteq DOMAIN keys' /\ keys'.n \in Nat
               /\ keys'.loading =>
                     \/ /\ keys # None /\ keys.loading /\ keys'.n = keys.n
                        /\ \A i \in gone : ~DialogFor(dialogNet[i], "columns", keys.n)
                     \/ \E arg : arg.n = keys'.n /\ Underway(dialogNet', "columns", arg)
               /\ keys'.saving =>
                     \/ /\ keys # None /\ keys.saving /\ keys'.n = keys.n
                        /\ \A i \in gone : ~DialogFor(dialogNet[i], "keysave", keys.n)
                     \/ \E arg : arg.n = keys'.n /\ Underway(dialogNet', "keysave", arg)
               /\ keys'.syncing =>
                     \/ /\ keys # None /\ keys.syncing /\ keys'.n = keys.n
                        /\ \A i \in gone : ~DialogFor(dialogNet[i], "sync", keys.n)
                     \/ \E arg : arg.n = keys'.n /\ Underway(dialogNet', "sync", arg),
           find' # None =>
               /\ FindFields \subseteq DOMAIN find'
               /\ find'.loading =>
                     \/ /\ find # None /\ find.loading /\ find'.n = find.n
                        /\ \A i \in gone : ~DialogFor(dialogNet[i], "search", find.n)
                     \/ \E arg : arg.n = find'.n /\ Underway(dialogNet', "search", arg)
    PROVE  DialogWaits'
<1>1. ASSUME keys' # None, keys'.loading PROVE \E j \in Pending(dialogNet') : DialogFor(dialogNet'[j], "columns", keys'.n)
  BY <1>1 DEF DialogWaits, Goes, DialogFor, Underway
<1>2. ASSUME keys' # None, keys'.saving PROVE \E j \in Pending(dialogNet') : DialogFor(dialogNet'[j], "keysave", keys'.n)
  BY <1>2 DEF DialogWaits, Goes, DialogFor, Underway
<1>3. ASSUME keys' # None, keys'.syncing PROVE \E j \in Pending(dialogNet') : DialogFor(dialogNet'[j], "sync", keys'.n)
  BY <1>3 DEF DialogWaits, Goes, DialogFor, Underway
<1>4. ASSUME find' # None, find'.loading PROVE \E j \in Pending(dialogNet') : DialogFor(dialogNet'[j], "search", find'.n)
  BY <1>4 DEF DialogWaits, Goes, DialogFor, Underway
<1>5. DialogWaits' <=>
          /\ IsNet(dialogNet') /\ {"clicks", "calm"} \subseteq DOMAIN dialogs' /\ dialogs'.clicks \in Nat
          /\ keys' # None =>
                /\ KeysFields \subseteq DOMAIN keys' /\ keys'.n \in Nat
                /\ keys'.loading => \E j \in Pending(dialogNet') : DialogFor(dialogNet'[j], "columns", keys'.n)
                /\ keys'.saving => \E j \in Pending(dialogNet') : DialogFor(dialogNet'[j], "keysave", keys'.n)
                /\ keys'.syncing => \E j \in Pending(dialogNet') : DialogFor(dialogNet'[j], "sync", keys'.n)
          /\ find' # None =>
                /\ FindFields \subseteq DOMAIN find'
                /\ find'.loading => \E j \in Pending(dialogNet') : DialogFor(dialogNet'[j], "search", find'.n)
  BY DEF DialogWaits, DialogFor
<1> QED
  BY <1>1, <1>2, <1>3, <1>4, <1>5 DEF Goes

\* It holds at the start.
LEMMA DialogWaitsStart == DialogsInit => DialogWaits
<1> SUFFICES ASSUME DialogsInit PROVE DialogWaits
  OBVIOUS
<1>1. IsNet(dialogNet)
  BY NoCallsIsNet DEF DialogsInit
<1> QED
  BY <1>1 DEF DialogsInit, DialogWaits

\* Every step keeps it.
LEMMA DialogWaitsStep == DialogWaits /\ [DialogsNext]_dialogVars => DialogWaits'
<1> SUFFICES ASSUME DialogWaits, [DialogsNext]_dialogVars PROVE DialogWaits'
  OBVIOUS
<1> DEFINE Steady == {"clicks", "calm"} \subseteq DOMAIN dialogs' /\ dialogs'.clicks \in Nat
           KeysOn == /\ KeysFields \subseteq DOMAIN keys' /\ keys'.n = keys.n
                     /\ keys'.loading = keys.loading /\ keys'.saving = keys.saving /\ keys'.syncing = keys.syncing
           FindOn == FindFields \subseteq DOMAIN find' /\ find'.n = find.n /\ find'.loading = find.loading
<1>0. /\ IsNet(dialogNet) /\ {"clicks", "calm"} \subseteq DOMAIN dialogs /\ dialogs.clicks \in Nat
      /\ keys # None => KeysFields \subseteq DOMAIN keys /\ keys.n \in Nat
      /\ find # None => FindFields \subseteq DOMAIN find
  BY DEF DialogWaits
<1>p. ASSUME NEW ok, DialogPress(ok) PROVE Steady
  BY <1>0, <1>p DEF DialogPress
<1>i. ASSUME NEW i \in Slot, NEW op, NEW other, dialogNet[i].op = op, op # other
      PROVE  \A n : ~DialogFor(dialogNet[i], other, n)
  BY <1>i DEF DialogFor
<1>1. CASE UNCHANGED <<keys, find, dialogNet, dialogs>>
  BY <1>0, <1>1, StayGoes, DialogWaitsKept
<1>2. CASE RemovePrimaryKey \/ RemoveForeignKey
  <2>1. Steady
    BY <1>2, <1>p DEF RemovePrimaryKey, RemoveForeignKey
  <2>2. keys = None /\ find = None /\ keys' = keys /\ find' = find
    BY <1>2 DEF RemovePrimaryKey, RemoveForeignKey
  <2>3. Room(dialogNet, 1) /\ \E arg : dialogNet' = Send(dialogNet, "keysave", arg)
    BY <1>2, Zenon DEF RemovePrimaryKey, RemoveForeignKey, SaveKeysPatch
  <2>4. Goes(dialogNet, dialogNet', {})
    BY <1>0, <2>3, SendGoes
  <2> QED
    BY <2>1, <2>2, <2>4, DialogWaitsKept
<1>3. CASE SaveKeys
  <2>1. Steady
    BY <1>3, <1>p DEF SaveKeys
  <2>2. keys # None /\ keys' = [keys EXCEPT !.saving = TRUE] /\ find' = find
    BY <1>3 DEF SaveKeys
  <2>3. Room(dialogNet, 1) /\ \E patch : dialogNet' = Send(dialogNet, "keysave",
            [patch |-> patch, prev |-> col, n |-> IF keys = None THEN None ELSE keys.n])
    BY <1>3, Zenon DEF SaveKeys, SaveKeysPatch
  <2>4. PICK patch : dialogNet' = Send(dialogNet, "keysave",
            [patch |-> patch, prev |-> col, n |-> IF keys = None THEN None ELSE keys.n])
    BY <2>3
  <2> DEFINE arg == [patch |-> patch, prev |-> col, n |-> IF keys = None THEN None ELSE keys.n]
  <2>5. arg.n = keys.n
    BY <2>2
  <2> HIDE DEF arg
  <2>6. Goes(dialogNet, dialogNet', {}) /\ Underway(dialogNet', "keysave", arg)
    BY <1>0, <2>3, <2>4, SendGoes DEF arg
  <2>7. /\ KeysFields \subseteq DOMAIN keys' /\ keys'.n = keys.n
        /\ keys'.loading = keys.loading /\ keys'.syncing = keys.syncing
    BY <1>0, <2>2 DEF KeysFields
  <2> QED
    BY <1>0, <2>1, <2>2, <2>5, <2>6, <2>7, DialogWaitsKept
<1>4. ASSUME NEW i \in Slot, ServeKeys(i) \/ ServeColumns(i) \/ ServeSync(i) \/ ServeSearch(i) \/ DialogCallFails(i)
      PROVE  DialogWaits'
  <2>1. keys' = keys /\ find' = find /\ Steady
    BY <1>0, <1>4 DEF ServeKeys, ServeColumns, ServeSync, ServeSearch, DialogCallFails
  <2>2. dialogNet[i] # Free /\ (dialogNet' = Fail(dialogNet, i) \/ \E out : dialogNet' = Reply(dialogNet, i, out))
    BY <1>4, Zenon DEF ServeKeys, ServeColumns, ServeSync, ServeSearch, DialogCallFails, Sent, Pending
  <2>3. Goes(dialogNet, dialogNet', {})
    BY <1>0, <2>2, AnswerGoes
  <2> QED
    BY <1>0, <2>1, <2>3, DialogWaitsKept
<1>5. ASSUME NEW i \in Slot, KeysSaved(i) PROVE DialogWaits'
  <2>1. dialogNet[i].op = "keysave" /\ find' = find /\ dialogs' = dialogs /\ dialogNet' = Done(dialogNet, i)
    BY <1>5 DEF KeysSaved, Ok, Err
  <2>2. Goes(dialogNet, dialogNet', {i})
    BY <1>0, <2>1, EndGoes
  <2>3. keys' # None => keys' = keys /\ dialogNet[i].arg.n = None
    BY <1>5, Zenon DEF KeysSaved
  <2>4. keys' # None => ~DialogFor(dialogNet[i], "keysave", keys.n)
    BY <1>0, <2>3, DialogsAssumption DEF DialogFor
  <2>5. \A n : /\ ~DialogFor(dialogNet[i], "columns", n) /\ ~DialogFor(dialogNet[i], "sync", n)
               /\ ~DialogFor(dialogNet[i], "search", n)
    BY <2>1 DEF DialogFor
  <2> QED
    BY <1>0, <2>1, <2>2, <2>3, <2>4, <2>5, DialogWaitsKept
<1>6. ASSUME NEW t, NEW rest, AskColumns(t, rest), KeysFields \subseteq DOMAIN rest, rest.n \in Nat,
             \/ ~rest.loading /\ ~rest.saving /\ ~rest.syncing
             \/ /\ keys # None /\ rest.n = keys.n /\ rest.loading = keys.loading /\ rest.saving = keys.saving
                /\ rest.syncing = keys.syncing,
             find' = find, Steady
      PROVE  DialogWaits'
  <2>1. CASE t = Empty
    <3>1. keys' = [rest EXCEPT !.columns = {}] /\ dialogNet' = dialogNet
      BY <1>6, <2>1, Zenon DEF AskColumns
    <3>2. /\ KeysFields \subseteq DOMAIN keys' /\ keys'.n = rest.n
          /\ keys'.loading = rest.loading /\ keys'.saving = rest.saving /\ keys'.syncing = rest.syncing
      BY <1>6, <3>1 DEF KeysFields
    <3> QED
      BY <1>0, <1>6, <3>1, <3>2, StayGoes, DialogWaitsKept
  <2>2. CASE t # Empty
    <3> DEFINE arg == [t |-> t, n |-> rest.n]
    <3>1. keys' = [rest EXCEPT !.loading = TRUE] /\ Room(dialogNet, 1) /\ dialogNet' = Send(dialogNet, "columns", arg)
      BY <1>6, <2>2, Zenon DEF AskColumns
    <3>2. arg.n = rest.n
      OBVIOUS
    <3> HIDE DEF arg
    <3>3. Goes(dialogNet, dialogNet', {}) /\ Underway(dialogNet', "columns", arg)
      BY <1>0, <3>1, SendGoes
    <3>4. /\ KeysFields \subseteq DOMAIN keys' /\ keys'.n = rest.n
          /\ keys'.saving = rest.saving /\ keys'.syncing = rest.syncing
      BY <1>6, <3>1 DEF KeysFields
    <3> QED
      BY <1>0, <1>6, <3>2, <3>3, <3>4, DialogWaitsKept
  <2> QED
    BY <2>1, <2>2
<1>7. CASE OpenKeys
  <2> DEFINE t == Chosen(col.fk_table)
             rest == [is_pk |-> col.is_pk, fk_table |-> Chosen(col.fk_table),
                      fk_column |-> Chosen(col.fk_column), columns |-> {}, loading |-> FALSE,
                      saving |-> FALSE, syncing |-> FALSE, n |-> dialogs.clicks]
  <2>1. AskColumns(t, rest) /\ find' = find
    BY <1>7, Zenon DEF OpenKeys
  <2>2. /\ KeysFields \subseteq DOMAIN rest /\ rest.n \in Nat
        /\ ~rest.loading /\ ~rest.saving /\ ~rest.syncing
    BY <1>0 DEF KeysFields
  <2>3. Steady
    BY <1>7, <1>p DEF OpenKeys
  <2> HIDE DEF t, rest
  <2> QED
    BY <1>6, <2>1, <2>2, <2>3
<1>8. ASSUME NEW t, ChooseTable(t) PROVE DialogWaits'
  <2> DEFINE rest == [keys EXCEPT !.fk_table = t, !.fk_column = Empty, !.columns = {}]
  <2>1. AskColumns(t, rest) /\ find' = find /\ keys # None
    BY <1>8, Zenon DEF ChooseTable
  <2>2. /\ KeysFields \subseteq DOMAIN rest /\ rest.n = keys.n /\ rest.n \in Nat
        /\ rest.loading = keys.loading /\ rest.saving = keys.saving /\ rest.syncing = keys.syncing
    BY <1>0, <2>1 DEF KeysFields
  <2>3. Steady
    BY <1>8, <1>p DEF ChooseTable
  <2> HIDE DEF rest
  <2> QED
    BY <1>6, <2>1, <2>2, <2>3
<1>9. CASE CloseKeys \/ CloseSearch
  <2>1. /\ keys' = None \/ keys' = keys
        /\ find' = None \/ find' = find
        /\ dialogNet' = dialogNet /\ dialogs' = dialogs
    BY <1>9 DEF CloseKeys, CloseSearch
  <2> QED
    BY <1>0, <2>1, StayGoes, DialogWaitsKept
<1>10. ASSUME NEW c, TogglePk \/ ChooseColumn(c) PROVE DialogWaits'
  <2>1. Steady
    BY <1>10, <1>p DEF TogglePk, ChooseColumn
  <2>2. /\ keys # None /\ find' = find /\ dialogNet' = dialogNet
        /\ keys' = [keys EXCEPT !.is_pk = ~@] \/ keys' = [keys EXCEPT !.fk_column = c]
    BY <1>10 DEF TogglePk, ChooseColumn
  <2>3. KeysOn
    BY <1>0, <2>2 DEF KeysFields
  <2> QED
    BY <1>0, <2>1, <2>2, <2>3, StayGoes, DialogWaitsKept
<1>11. ASSUME NEW i \in Slot, ColumnsRead(i) PROVE DialogWaits'
  <2>1. dialogNet[i].op = "columns" /\ find' = find /\ dialogs' = dialogs /\ dialogNet' = Done(dialogNet, i)
    BY <1>11 DEF ColumnsRead, Ok, Err
  <2>2. Goes(dialogNet, dialogNet', {i})
    BY <1>0, <2>1, EndGoes
  <2>3. \A n : /\ ~DialogFor(dialogNet[i], "keysave", n) /\ ~DialogFor(dialogNet[i], "sync", n)
               /\ ~DialogFor(dialogNet[i], "search", n)
    BY <2>1 DEF DialogFor
  <2>4. CASE keys = None \/ keys.n # dialogNet[i].arg.n
    <3>1. keys' = keys
      BY <1>11, <2>4, Zenon DEF ColumnsRead
    <3>2. keys # None => ~DialogFor(dialogNet[i], "columns", keys.n)
      BY <2>4 DEF DialogFor
    <3> QED
      BY <1>0, <2>1, <2>2, <2>3, <3>1, <3>2, DialogWaitsKept
  <2>5. CASE keys # None /\ keys.n = dialogNet[i].arg.n
    <3>1. \E columns : keys' = [keys EXCEPT !.loading = FALSE, !.columns = columns]
      BY <1>11, <2>5, Zenon DEF ColumnsRead
    <3>2. /\ KeysFields \subseteq DOMAIN keys' /\ keys'.n = keys.n /\ ~keys'.loading
          /\ keys'.saving = keys.saving /\ keys'.syncing = keys.syncing
      BY <1>0, <2>5, <3>1 DEF KeysFields
    <3> QED
      BY <1>0, <2>1, <2>2, <2>3, <2>5, <3>2, DialogWaitsKept
  <2> QED
    BY <2>4, <2>5
<1>12. CASE SyncKeys
  <2> DEFINE arg == [n |-> keys.n]
  <2>1. Steady
    BY <1>12, <1>p DEF SyncKeys
  <2>2. /\ keys # None /\ Room(dialogNet, 1) /\ keys' = [keys EXCEPT !.syncing = TRUE]
        /\ dialogNet' = Send(dialogNet, "sync", arg) /\ find' = find /\ arg.n = keys.n
    BY <1>12 DEF SyncKeys
  <2> HIDE DEF arg
  <2>3. /\ KeysFields \subseteq DOMAIN keys' /\ keys'.n = keys.n
        /\ keys'.saving = keys.saving /\ keys'.loading = keys.loading
    BY <1>0, <2>2 DEF KeysFields
  <2>4. Goes(dialogNet, dialogNet', {}) /\ Underway(dialogNet', "sync", arg)
    BY <1>0, <2>2, SendGoes
  <2> QED
    BY <1>0, <2>1, <2>2, <2>3, <2>4, DialogWaitsKept
<1>13. ASSUME NEW i \in Slot, Synced(i) PROVE DialogWaits'
  <2>1. dialogNet[i].op = "sync" /\ find' = find /\ dialogs' = dialogs /\ dialogNet' = Done(dialogNet, i)
    BY <1>13 DEF Synced, Ok, Err
  <2>2. Goes(dialogNet, dialogNet', {i})
    BY <1>0, <2>1, EndGoes
  <2>3. \A n : /\ ~DialogFor(dialogNet[i], "keysave", n) /\ ~DialogFor(dialogNet[i], "columns", n)
               /\ ~DialogFor(dialogNet[i], "search", n)
    BY <2>1 DEF DialogFor
  <2>4. CASE keys = None \/ keys.n # dialogNet[i].arg.n
    <3>1. keys' = keys
      BY <1>13, <2>4, Zenon DEF Synced
    <3>2. keys # None => ~DialogFor(dialogNet[i], "sync", keys.n)
      BY <2>4 DEF DialogFor
    <3> QED
      BY <1>0, <2>1, <2>2, <2>3, <3>1, <3>2, DialogWaitsKept
  <2>5. CASE keys # None /\ keys.n = dialogNet[i].arg.n
    <3>1. keys' = [keys EXCEPT !.syncing = FALSE]
      BY <1>13, <2>5, Zenon DEF Synced
    <3>2. /\ KeysFields \subseteq DOMAIN keys' /\ keys'.n = keys.n /\ ~keys'.syncing
          /\ keys'.saving = keys.saving /\ keys'.loading = keys.loading
      BY <1>0, <2>5, <3>1 DEF KeysFields
    <3> QED
      BY <1>0, <2>1, <2>2, <2>3, <2>5, <3>2, DialogWaitsKept
  <2> QED
    BY <2>4, <2>5
<1>14. CASE OpenSearch
  <2>1. Steady
    BY <1>14, <1>p DEF OpenSearch
  <2>2. /\ FindFields \subseteq DOMAIN find' /\ ~find'.loading /\ keys = None /\ keys' = keys /\ dialogNet' = dialogNet
    BY <1>14 DEF OpenSearch, FindFields
  <2> QED
    BY <1>0, <2>1, <2>2, StayGoes, DialogWaitsKept
<1>15. ASSUME NEW q, NEW s, ChangeSearch(q, s) PROVE DialogWaits'
  <2>1. Steady
    BY <1>15, <1>p DEF ChangeSearch
  <2> DEFINE timer == q # None
             results == IF q = None THEN None ELSE find.results
  <2>2. /\ find # None /\ keys' = keys /\ dialogNet' = dialogNet
        /\ find' = [find EXCEPT !.query = q, !.semantic = s, !.timer = timer, !.results = results]
    BY <1>0, <1>15 DEF ChangeSearch, FindFields
  <2> HIDE DEF timer, results
  <2>3. FindOn
    BY <1>0, <2>2 DEF FindFields
  <2> QED
    BY <1>0, <2>1, <2>2, <2>3, StayGoes, DialogWaitsKept
<1>16. CASE SearchTimer
  <2> DEFINE arg == [asked |-> Asked(find), n |-> find.n]
  <2>1. /\ find # None /\ Room(dialogNet, 1) /\ keys' = keys /\ dialogs' = dialogs /\ arg.n = find.n
        /\ find' = [find EXCEPT !.timer = FALSE, !.loading = TRUE] /\ dialogNet' = Send(dialogNet, "search", arg)
    BY <1>16 DEF SearchTimer
  <2> HIDE DEF arg
  <2>2. FindFields \subseteq DOMAIN find' /\ find'.n = find.n
    BY <1>0, <2>1 DEF FindFields
  <2>3. Goes(dialogNet, dialogNet', {}) /\ Underway(dialogNet', "search", arg)
    BY <1>0, <2>1, SendGoes
  <2> QED
    BY <1>0, <2>1, <2>2, <2>3, DialogWaitsKept
<1>17. ASSUME NEW i \in Slot, Searched(i) PROVE DialogWaits'
  <2>1. dialogNet[i].op = "search" /\ keys' = keys /\ dialogs' = dialogs /\ dialogNet' = Done(dialogNet, i)
    BY <1>17 DEF Searched, Ok, Err
  <2>2. Goes(dialogNet, dialogNet', {i})
    BY <1>0, <2>1, EndGoes
  <2>3. \A n : /\ ~DialogFor(dialogNet[i], "keysave", n) /\ ~DialogFor(dialogNet[i], "columns", n)
               /\ ~DialogFor(dialogNet[i], "sync", n)
    BY <2>1 DEF DialogFor
  <2>4. CASE find = None \/ find.n # dialogNet[i].arg.n
    <3>1. find' = find
      BY <1>17, <2>4, Zenon DEF Searched
    <3>2. find # None => ~DialogFor(dialogNet[i], "search", find.n)
      BY <2>4 DEF DialogFor
    <3> QED
      BY <1>0, <2>1, <2>2, <2>3, <3>1, <3>2, DialogWaitsKept
  <2>5. CASE find # None /\ find.n = dialogNet[i].arg.n
    <3>1. \E results : find' = [find EXCEPT !.loading = FALSE, !.results = results]
      BY <1>17, <2>5, Zenon DEF Searched
    <3>2. FindFields \subseteq DOMAIN find' /\ find'.n = find.n /\ ~find'.loading
      BY <1>0, <2>5, <3>1 DEF FindFields
    <3> QED
      BY <1>0, <2>1, <2>2, <2>3, <2>5, <3>2, DialogWaitsKept
  <2> QED
    BY <2>4, <2>5
<1>18. CASE UNCHANGED dialogVars
  BY <1>1, <1>18 DEF dialogVars
<1>19. CASE DialogsNext
  <2>1. ASSUME NEW q \in Query \cup {None}, NEW s \in BOOLEAN, ChangeSearch(q, s) PROVE DialogWaits'
    BY <1>15, <2>1
  <2> QED
    BY <1>2, <1>3, <1>4, <1>5, <1>7, <1>8, <1>9, <1>10, <1>11, <1>12, <1>13, <1>14, <2>1, <1>16, <1>17, <1>19, Zenon
       DEF DialogsNext
<1> QED
  BY <1>18, <1>19

-----------------------------------------------------------------------------
(***************************************************************************)
(* Invitations: the page of the users and that of the invited guest.       *)
(***************************************************************************)
InviteFields == {"rows", "loading", "dialog", "resending", "clicks", "calm"}
InviteDialogFields == {"n", "sending", "created"}

\* The call that sends the invitation of a dialog.
SendsFor(c, dialog) == c.op = "invite" /\ c.arg.n = dialog.n

InviteWaits ==
    /\ InviteFields \subseteq DOMAIN console /\ {"token", "preview", "saving", "success"} \subseteq DOMAIN guest
    /\ IsNet(consoleNet) /\ IsNet(guestNet)
    /\ console.loading => \E j \in Pending(consoleNet) : consoleNet[j].op = "list"
    /\ console.resending # None => \E j \in Pending(consoleNet) : consoleNet[j].op = "resend"
    /\ console.dialog # None =>
          /\ InviteDialogFields \subseteq DOMAIN console.dialog
          /\ console.dialog.sending => \E j \in Pending(consoleNet) : SendsFor(consoleNet[j], console.dialog)
    /\ guest.saving => \E j \in Pending(guestNet) : guestNet[j].op = "accept"

\* A step of the administrator's page.
LEMMA InviteWaitsKept ==
    ASSUME InviteWaits, NEW gone, Goes(consoleNet, consoleNet', gone), DOMAIN console' = DOMAIN console,
           UNCHANGED guestState,
           console'.loading => \/ console.loading /\ \A i \in gone : consoleNet[i].op # "list"
                               \/ Underway(consoleNet', "list", None),
           console'.resending # None => \/ console.resending # None /\ \A i \in gone : consoleNet[i].op # "resend"
                                        \/ \E arg : Underway(consoleNet', "resend", arg),
           console'.dialog # None =>
               /\ InviteDialogFields \subseteq DOMAIN console'.dialog
               /\ console'.dialog.sending =>
                     \/ /\ console.dialog # None /\ console.dialog.sending /\ console'.dialog.n = console.dialog.n
                        /\ \A i \in gone : ~SendsFor(consoleNet[i], console.dialog)
                     \/ \E arg : arg.n = console'.dialog.n /\ Underway(consoleNet', "invite", arg)
    PROVE  InviteWaits'
<1>1. console'.loading => \E j \in Pending(consoleNet') : consoleNet'[j].op = "list"
  BY DEF InviteWaits, Goes, Underway
<1>2. console'.resending # None => \E j \in Pending(consoleNet') : consoleNet'[j].op = "resend"
  BY DEF InviteWaits, Goes, Underway
<1>3. console'.dialog # None /\ console'.dialog.sending =>
          \E j \in Pending(consoleNet') : SendsFor(consoleNet'[j], console'.dialog)
  BY DEF InviteWaits, Goes, Underway, SendsFor
<1>4. \A j : SendsFor(consoleNet[j], console.dialog)' <=> SendsFor(consoleNet'[j], console'.dialog)
  BY DEF SendsFor
<1>5. guest' = guest /\ guestNet' = guestNet
  BY DEF guestState
<1> QED
  BY <1>1, <1>2, <1>3, <1>4, <1>5 DEF InviteWaits, Goes

\* One that leaves the dialog and the buttons alone.
LEMMA InviteSameWaits ==
    ASSUME InviteWaits, NEW gone, Goes(consoleNet, consoleNet', gone), UNCHANGED guestState,
           DOMAIN console' = DOMAIN console, console'.dialog = console.dialog, console'.resending = console.resending,
           console'.loading = console.loading,
           \A i \in gone : consoleNet[i].op \notin {"list", "resend", "invite"}
    PROVE  InviteWaits'
<1>1. \A i \in gone : ~SendsFor(consoleNet[i], console.dialog) /\ consoleNet[i].op # "list" /\ consoleNet[i].op # "resend"
  BY DEF SendsFor
<1>2. console.dialog # None => InviteDialogFields \subseteq DOMAIN console.dialog
  BY DEF InviteWaits
<1> QED
  BY <1>1, <1>2, InviteWaitsKept

\* A step of the invitee's page.
LEMMA GuestWaitsKept ==
    ASSUME InviteWaits, NEW gone, Goes(guestNet, guestNet', gone), DOMAIN guest' = DOMAIN guest,
           UNCHANGED <<console, consoleNet>>,
           guest'.saving => \/ guest.saving /\ \A i \in gone : guestNet[i].op # "accept"
                            \/ \E arg : Underway(guestNet', "accept", arg)
    PROVE  InviteWaits'
<1>1. guest'.saving => \E j \in Pending(guestNet') : guestNet'[j].op = "accept"
  BY DEF InviteWaits, Goes, Underway
<1>2. \A j : SendsFor(consoleNet[j], console.dialog)' <=> SendsFor(consoleNet[j], console.dialog)
  BY DEF SendsFor
<1> QED
  BY <1>1, <1>2 DEF InviteWaits, Goes

\* It holds at the start.
LEMMA InviteWaitsStart == InvitesInit => InviteWaits
<1> SUFFICES ASSUME InvitesInit PROVE InviteWaits
  OBVIOUS
<1>1. Goes(NoCalls, consoleNet, {}) /\ Underway(consoleNet, "list", None)
  BY EmptyRoom, NoCallsIsNet, SendGoes DEF InvitesInit
<1>2. IsNet(guestNet)
  BY NoCallsIsNet DEF InvitesInit
<1>3. /\ InviteFields \subseteq DOMAIN console /\ {"token", "preview", "saving", "success"} \subseteq DOMAIN guest
      /\ console.resending = None /\ console.dialog = None /\ ~guest.saving
  BY DEF InvitesInit, InviteFields
<1> QED
  BY <1>1, <1>2, <1>3 DEF InviteWaits, Goes, Underway

\* Every step keeps it.
LEMMA InviteWaitsStep == InviteWaits /\ [InvitesNext]_inviteVars => InviteWaits'
<1> SUFFICES ASSUME InviteWaits, [InvitesNext]_inviteVars PROVE InviteWaits'
  OBVIOUS
<1> DEFINE Same == /\ DOMAIN console' = DOMAIN console /\ console'.dialog = console.dialog
                   /\ console'.resending = console.resending /\ console'.loading = console.loading
<1>0. /\ InviteFields \subseteq DOMAIN console /\ {"token", "preview", "saving", "success"} \subseteq DOMAIN guest
      /\ IsNet(consoleNet) /\ IsNet(guestNet)
      /\ console.dialog # None => InviteDialogFields \subseteq DOMAIN console.dialog
  BY DEF InviteWaits
<1>1. CASE UNCHANGED <<console, consoleNet, guestState>>
  BY <1>0, <1>1, StayGoes, InviteSameWaits
<1>2. CASE OpenInvite
  <2> DEFINE dialog == [n |-> console.clicks, sending |-> FALSE, created |-> None]
  <2>1. UNCHANGED guestState /\ consoleNet' = consoleNet /\ console' = [console EXCEPT !.clicks = @ + 1, !.dialog = dialog]
    BY <1>2 DEF OpenInvite, ConsoleClick
  <2>2. InviteDialogFields \subseteq DOMAIN dialog /\ ~dialog.sending
    BY DEF InviteDialogFields
  <2> HIDE DEF dialog
  <2>3. /\ DOMAIN console' = DOMAIN console /\ console'.dialog = dialog
        /\ console'.resending = console.resending /\ console'.loading = console.loading
    BY <1>0, <2>1 DEF InviteFields
  <2> QED
    BY <1>0, <2>1, <2>2, <2>3, StayGoes, InviteWaitsKept
<1>3. CASE CloseInvite
  <2>1. /\ DOMAIN console' = DOMAIN console /\ console'.dialog = None /\ UNCHANGED guestState /\ consoleNet' = consoleNet
        /\ console'.resending = console.resending /\ console'.loading = console.loading
    BY <1>0, <1>3 DEF CloseInvite, InviteFields
  <2> QED
    BY <1>0, <2>1, StayGoes, InviteWaitsKept
<1>p. /\ DOMAIN PressConsole(console) = DOMAIN console /\ PressConsole(console).dialog = console.dialog
      /\ PressConsole(console).resending = console.resending /\ PressConsole(console).loading = console.loading
  BY <1>0 DEF PressConsole, InviteFields
<1>4. ASSUME NEW e, SendInvite(e) PROVE InviteWaits'
  <2> DEFINE ui == PressConsole(console)
             dialog == [console.dialog EXCEPT !.sending = TRUE]
             arg == [email |-> e, n |-> console.dialog.n]
  <2>1. /\ console.dialog # None /\ console' = [ui EXCEPT !.dialog.sending = TRUE] /\ Room(consoleNet, 1)
        /\ consoleNet' = Send(consoleNet, "invite", arg) /\ UNCHANGED guestState
    BY <1>4, Zenon DEF SendInvite, ConsoleClick
  <2>2. /\ DOMAIN ui = DOMAIN console /\ ui.dialog = console.dialog /\ ui.resending = console.resending
        /\ ui.loading = console.loading
    BY <1>p
  <2>3. arg.n = console.dialog.n
    OBVIOUS
  <2> HIDE DEF ui, arg
  <2>4. /\ DOMAIN console' = DOMAIN console /\ console'.dialog = dialog
        /\ console'.resending = console.resending /\ console'.loading = console.loading
    BY <1>0, <2>1, <2>2 DEF InviteFields
  <2>5. InviteDialogFields \subseteq DOMAIN dialog /\ dialog.n = console.dialog.n
    BY <1>0, <2>1 DEF InviteDialogFields
  <2> HIDE DEF dialog
  <2>6. Goes(consoleNet, consoleNet', {}) /\ Underway(consoleNet', "invite", arg)
    BY <1>0, <2>1, SendGoes
  <2> QED
    BY <2>1, <2>3, <2>4, <2>5, <2>6, InviteWaitsKept
<1>5. ASSUME NEW r, PressResend(r) PROVE InviteWaits'
  <2> DEFINE ui == PressConsole(console)
             arg == [id |-> r.id]
  <2>1. /\ console' = [ui EXCEPT !.resending = r.id] /\ Room(consoleNet, 1)
        /\ consoleNet' = Send(consoleNet, "resend", arg) /\ UNCHANGED guestState
    BY <1>5, Zenon DEF PressResend, ConsoleClick
  <2>2. DOMAIN ui = DOMAIN console /\ ui.dialog = console.dialog /\ ui.loading = console.loading
    BY <1>p
  <2> HIDE DEF ui, arg
  <2>3. DOMAIN console' = DOMAIN console /\ console'.dialog = console.dialog /\ console'.loading = console.loading
    BY <1>0, <2>1, <2>2 DEF InviteFields
  <2>4. Goes(consoleNet, consoleNet', {}) /\ Underway(consoleNet', "resend", arg)
    BY <1>0, <2>1, SendGoes
  <2> QED
    BY <1>0, <2>1, <2>3, <2>4, InviteWaitsKept
<1>6. ASSUME NEW r, PressRevoke(r) PROVE InviteWaits'
  <2>1. Same /\ UNCHANGED guestState /\ Room(consoleNet, 1) /\ \E op, arg : consoleNet' = Send(consoleNet, op, arg)
    BY <1>6, <1>p DEF PressRevoke, ConsoleClick
  <2>2. Goes(consoleNet, consoleNet', {})
    BY <1>0, <2>1, SendGoes
  <2> QED
    BY <2>1, <2>2, InviteSameWaits
<1>7. ASSUME NEW i \in Slot,
             \/ ServeInvites(i) \/ BeginInvite(i) \/ CommitInvite(i) \/ BeginResend(i) \/ CommitResend(i) \/ ServeRevoke(i)
      PROVE  InviteWaits'
  <2>1. /\ consoleNet[i] # Free /\ console' = console /\ UNCHANGED guestState
        /\ \/ consoleNet' = Fail(consoleNet, i)
           \/ \E out : consoleNet' = Reply(consoleNet, i, out) \/ consoleNet' = Begin(consoleNet, i, out)
    BY <1>7, Zenon DEF ServeInvites, BeginInvite, CommitInvite, BeginResend, CommitResend, ServeRevoke, Sent, Open
  <2>2. Goes(consoleNet, consoleNet', {})
    BY <1>0, <2>1, AnswerGoes
  <2> QED
    BY <2>1, <2>2, InviteSameWaits
<1>8. ASSUME NEW i \in Slot, InvitesRead(i) PROVE InviteWaits'
  <2>1. /\ Goes(consoleNet, consoleNet', {i}) /\ consoleNet[i].op = "list" /\ UNCHANGED guestState
    BY <1>0, <1>8, EndGoes DEF InvitesRead, Ok, Err
  <2>2. DOMAIN console' = DOMAIN console /\ console'.dialog = console.dialog /\ ~console'.loading
        /\ console'.resending = console.resending
    BY <1>0, <1>8 DEF InvitesRead, InviteFields
  <2>3. ~SendsFor(consoleNet[i], console.dialog)
    BY <2>1 DEF SendsFor
  <2> QED
    BY <1>0, <2>1, <2>2, <2>3, InviteWaitsKept
<1>9. ASSUME NEW i \in Slot, Invited(i) PROVE InviteWaits'
  <2> DEFINE mine == console.dialog # None /\ console.dialog.n = consoleNet[i].arg.n
             dialog == IF mine THEN [console.dialog EXCEPT !.sending = FALSE, !.created = consoleNet[i].out]
                       ELSE console.dialog
  <2>0. consoleNet[i] # Free /\ consoleNet[i].op = "invite" /\ UNCHANGED guestState
    BY <1>9 DEF Invited, Ok, Err
  <2>1. ~mine /\ console.dialog # None => ~SendsFor(consoleNet[i], console.dialog)
    BY DEF SendsFor
  <2>2. CASE /\ console' = [console EXCEPT !.loading = TRUE, !.dialog = dialog]
             /\ consoleNet' = Then(consoleNet, i, "list", None)
    <3>1. dialog # None => /\ InviteDialogFields \subseteq DOMAIN dialog
                           /\ dialog.sending => ~mine /\ dialog = console.dialog
      BY <1>0 DEF InviteDialogFields
    <3> HIDE DEF dialog, mine
    <3>2. DOMAIN console' = DOMAIN console /\ console'.dialog = dialog /\ console'.resending = console.resending
      BY <1>0, <2>2 DEF InviteFields
    <3>3. Goes(consoleNet, consoleNet', {i}) /\ Underway(consoleNet', "list", None)
      BY <1>0, <2>2, EndGoes
    <3> QED
      BY <1>0, <2>0, <2>1, <3>1, <3>2, <3>3, InviteWaitsKept
  <2>3. CASE /\ console' = IF mine THEN [console EXCEPT !.dialog.sending = FALSE] ELSE console
             /\ consoleNet' = Done(consoleNet, i)
    <3>1. Goes(consoleNet, consoleNet', {i})
      BY <1>0, <2>3, EndGoes
    <3>2. CASE mine
      <4> DEFINE new == [console.dialog EXCEPT !.sending = FALSE]
      <4>1. DOMAIN console' = DOMAIN console /\ console'.dialog = new /\ console'.resending = console.resending
            /\ console'.loading = console.loading
        BY <1>0, <2>3, <3>2 DEF InviteFields
      <4>2. InviteDialogFields \subseteq DOMAIN new /\ ~new.sending
        BY <1>0, <3>2 DEF InviteDialogFields
      <4> HIDE DEF new
      <4> QED
        BY <1>0, <2>0, <3>1, <4>1, <4>2, InviteWaitsKept
    <3>3. CASE ~mine
      BY <1>0, <2>0, <2>1, <2>3, <3>1, <3>3, InviteWaitsKept
    <3> QED
      BY <3>2, <3>3
  <2> HIDE DEF mine
  <2> QED
    BY <1>9, <2>2, <2>3, Zenon DEF Invited, mine
<1>10. ASSUME NEW i \in Slot, Resent(i) PROVE InviteWaits'
  <2>1. /\ Goes(consoleNet, consoleNet', {i}) /\ consoleNet[i].op = "resend" /\ UNCHANGED guestState
    BY <1>0, <1>10, EndGoes DEF Resent, Ok, Err
  <2>2. DOMAIN console' = DOMAIN console /\ console'.dialog = console.dialog /\ console'.loading = console.loading
        /\ console'.resending = None
    <3>1. \/ console' = [console EXCEPT !.resending = None]
          \/ \E rows : console' = [console EXCEPT !.resending = None, !.rows = rows]
      BY <1>10 DEF Resent
    <3> QED
      BY <1>0, <3>1 DEF InviteFields
  <2>3. ~SendsFor(consoleNet[i], console.dialog)
    BY <2>1 DEF SendsFor
  <2> QED
    BY <1>0, <2>1, <2>2, <2>3, InviteWaitsKept
<1>11. ASSUME NEW i \in Slot, Revoked(i) PROVE InviteWaits'
  <2>1. /\ Goes(consoleNet, consoleNet', {i}) /\ consoleNet[i].op = "revoke" /\ UNCHANGED guestState
    BY <1>0, <1>11, EndGoes DEF Revoked, Ok, Err
  <2>2. Same
    <3>1. console' = console \/ \E rows : console' = [console EXCEPT !.rows = rows]
      BY <1>11 DEF Revoked
    <3> QED
      BY <1>0, <3>1 DEF InviteFields
  <2> QED
    BY <2>1, <2>2, InviteSameWaits
<1>12. ASSUME NEW k, OpenLink(k) PROVE InviteWaits'
  <2>1. UNCHANGED <<console, consoleNet>> /\ guestNet' = Send(guestNet, "preview", k) /\ Room(guestNet, 1)
        /\ DOMAIN guest' = DOMAIN guest /\ guest'.saving = guest.saving
    BY <1>0, <1>12 DEF OpenLink
  <2>2. Goes(guestNet, guestNet', {})
    BY <1>0, <2>1, SendGoes
  <2> QED
    BY <2>1, <2>2, GuestWaitsKept
<1>13. ASSUME NEW i \in Slot, ServePreviewInvite(i) \/ BeginAccept(i) \/ CommitAccept(i) PROVE InviteWaits'
  <2>1. /\ guestNet[i] # Free /\ guest' = guest /\ UNCHANGED <<console, consoleNet>>
        /\ \/ guestNet' = Fail(guestNet, i)
           \/ \E out : guestNet' = Reply(guestNet, i, out) \/ guestNet' = Begin(guestNet, i, out)
    BY <1>13, Zenon DEF ServePreviewInvite, BeginAccept, CommitAccept, Sent, Open
  <2>2. Goes(guestNet, guestNet', {})
    BY <1>0, <2>1, AnswerGoes
  <2> QED
    BY <2>1, <2>2, GuestWaitsKept
<1>14. ASSUME NEW i \in Slot, PreviewedInvite(i) PROVE InviteWaits'
  <2>1. /\ Goes(guestNet, guestNet', {i}) /\ guestNet[i].op = "preview" /\ UNCHANGED <<console, consoleNet>>
    BY <1>0, <1>14, EndGoes DEF PreviewedInvite, Ok, Err
  <2>2. DOMAIN guest' = DOMAIN guest /\ guest'.saving = guest.saving
    BY <1>0, <1>14 DEF PreviewedInvite
  <2> QED
    BY <2>1, <2>2, GuestWaitsKept
<1>15. CASE SubmitAccept
  <2>1. /\ UNCHANGED <<console, consoleNet>> /\ guestNet' = Send(guestNet, "accept", guest.token)
        /\ Room(guestNet, 1) /\ DOMAIN guest' = DOMAIN guest
    BY <1>0, <1>15 DEF SubmitAccept
  <2>2. Goes(guestNet, guestNet', {}) /\ Underway(guestNet', "accept", guest.token)
    BY <1>0, <2>1, SendGoes
  <2> QED
    BY <2>1, <2>2, GuestWaitsKept
<1>16. ASSUME NEW i \in Slot, Accepted(i) PROVE InviteWaits'
  <2>1. /\ Goes(guestNet, guestNet', {i}) /\ UNCHANGED <<console, consoleNet>>
    BY <1>0, <1>16, EndGoes DEF Accepted, Ok, Err
  <2>2. DOMAIN guest' = DOMAIN guest /\ ~guest'.saving
    BY <1>0, <1>16 DEF Accepted
  <2> QED
    BY <2>1, <2>2, GuestWaitsKept
<1>17. CASE LeaveGuestPage
  <2>1. UNCHANGED <<console, consoleNet, guestNet>> /\ DOMAIN guest' = DOMAIN guest /\ guest'.saving = guest.saving
    BY <1>0, <1>17 DEF LeaveGuestPage
  <2> QED
    BY <1>0, <2>1, StayGoes, GuestWaitsKept
<1>18. ASSUME NEW r, Expire(r) PROVE InviteWaits'
  <2>1. Same /\ consoleNet' = consoleNet /\ UNCHANGED guestState
    BY <1>0, <1>18 DEF Expire, InviteFields
  <2> QED
    BY <1>0, <2>1, StayGoes, InviteSameWaits
<1>19. ASSUME NEW e, CreateMember(e) PROVE InviteWaits'
  BY <1>1, <1>19 DEF CreateMember
<1>20. ASSUME NEW i \in Slot, ConsoleCallFails(i) PROVE InviteWaits'
  <2>1. Same /\ UNCHANGED guestState
    BY <1>0, <1>20 DEF ConsoleCallFails, InviteFields
  <2>2. Goes(consoleNet, consoleNet', {})
    BY <1>0, <1>20, AnswerGoes DEF ConsoleCallFails, Pending
  <2> QED
    BY <2>1, <2>2, InviteSameWaits
<1>21. CASE UNCHANGED inviteVars
  BY <1>1, <1>21 DEF inviteVars, guestState
<1>22. CASE InvitesNext
  BY <1>2, <1>3, <1>4, <1>5, <1>6, <1>7, <1>8, <1>9, <1>10, <1>11, <1>12, <1>13, <1>14, <1>15, <1>16, <1>17,
     <1>18, <1>19, <1>20, <1>22, Zenon DEF InvitesNext
<1> QED
  BY <1>21, <1>22

-----------------------------------------------------------------------------
(***************************************************************************)
(* Users: the table and its dialogs.                                       *)
(***************************************************************************)
UserDialogFields == {"kind", "user", "saving", "n"}
UserKinds == {"create", "edit", "deactivate", "password"}
IsUserDialog(dialog) == UserDialogFields \subseteq DOMAIN dialog /\ dialog.kind \in UserKinds

\* What a dialog waits for while it saves: an edit takes two requests.
Awaited(kind) == IF kind = "edit" THEN {"profile", "roles"} ELSE {kind}
IsFor(c, dialog) == c.op \in Awaited(dialog.kind) /\ "n" \in DOMAIN c.arg /\ c.arg.n = dialog.n

UserWaits ==
    /\ {"shown", "loading", "clicks", "calm"} \subseteq DOMAIN users /\ IsNet(usersNet)
    /\ users.loading => \E j \in Pending(usersNet) : usersNet[j].op = "users"
    /\ userDialog # None => IsUserDialog(userDialog)
    /\ userDialog # None /\ userDialog.saving => \E j \in Pending(usersNet) : IsFor(usersNet[j], userDialog)

\* It is kept while the requests the table and the dialog wait for are in flight.
LEMMA UserWaitsKept ==
    ASSUME UserWaits, NEW gone, Goes(usersNet, usersNet', gone), DOMAIN users' = DOMAIN users,
           users'.loading => \/ users.loading /\ \A i \in gone : usersNet[i].op # "users"
                             \/ \E p : Underway(usersNet', "users", p),
           userDialog' # None => IsUserDialog(userDialog'),
           userDialog' # None /\ userDialog'.saving =>
               \/ /\ userDialog # None /\ userDialog.saving
                  /\ userDialog'.kind = userDialog.kind /\ userDialog'.n = userDialog.n
                  /\ \A i \in gone : ~IsFor(usersNet[i], userDialog)
               \/ \E j \in Pending(usersNet') : IsFor(usersNet'[j], userDialog')
    PROVE  UserWaits'
<1>1. users'.loading => \E j \in Pending(usersNet') : usersNet'[j].op = "users"
  BY DEF UserWaits, Goes, Underway
<1>2. userDialog' # None /\ userDialog'.saving => \E j \in Pending(usersNet') : IsFor(usersNet'[j], userDialog')
  BY DEF UserWaits, Goes, IsFor
<1>3. /\ \A j : IsFor(usersNet[j], userDialog)' <=> IsFor(usersNet'[j], userDialog')
      /\ IsUserDialog(userDialog)' <=> IsUserDialog(userDialog')
  BY DEF IsFor, Awaited, IsUserDialog
<1> QED
  BY <1>1, <1>2, <1>3 DEF UserWaits, Goes

\* The dialog stays as it is.
LEMMA UserDialogKept ==
    ASSUME UserWaits, NEW gone, Goes(usersNet, usersNet', gone), DOMAIN users' = DOMAIN users,
           users'.loading => \/ users.loading /\ \A i \in gone : usersNet[i].op # "users"
                             \/ \E p : Underway(usersNet', "users", p),
           userDialog' = None \/ userDialog' = userDialog,
           userDialog' # None => \A i \in gone : ~IsFor(usersNet[i], userDialog)
    PROVE  UserWaits'
<1>1. userDialog' # None => IsUserDialog(userDialog')
  BY DEF UserWaits
<1> QED
  BY <1>1, UserWaitsKept

\* It closes, or a request of its own frees it.
LEMMA UserDialogFreed ==
    ASSUME UserWaits, NEW i, Goes(usersNet, usersNet', {i}), DOMAIN users' = DOMAIN users,
           users'.loading => users.loading /\ usersNet[i].op # "users", userDialog' = Freed(i)
    PROVE  UserWaits'
<1>1. CASE userDialog # None /\ userDialog.n = usersNet[i].arg.n
  <2>1. IsUserDialog(userDialog') /\ ~userDialog'.saving
    BY <1>1 DEF Freed, UserWaits, UserDialogFields, IsUserDialog
  <2> QED
    BY <2>1, UserWaitsKept
<1>2. CASE ~(userDialog # None /\ userDialog.n = usersNet[i].arg.n)
  <2>1. userDialog' = userDialog /\ (userDialog # None => ~IsFor(usersNet[i], userDialog))
    BY <1>2 DEF Freed, IsFor
  <2> QED
    BY <2>1, UserDialogKept
<1> QED
  BY <1>1, <1>2

LEMMA UserDialogClosed ==
    ASSUME UserWaits, NEW i, Goes(usersNet, usersNet', {i}), DOMAIN users' = DOMAIN users,
           users'.loading => \/ users.loading /\ usersNet[i].op # "users"
                             \/ \E p : Underway(usersNet', "users", p),
           NEW kind, \A k \in UserKinds : k # kind => usersNet[i].op \notin Awaited(k), userDialog' = Closed(kind)
    PROVE  UserWaits'
<1>1. CASE userDialog # None /\ userDialog.kind = kind
  <2>1. userDialog' = None
    BY <1>1 DEF Closed
  <2> QED
    BY <2>1, UserDialogKept
<1>2. CASE ~(userDialog # None /\ userDialog.kind = kind)
  <2>1. userDialog' = userDialog /\ (userDialog # None => ~IsFor(usersNet[i], userDialog))
    BY <1>2 DEF Closed, IsFor, UserWaits, IsUserDialog
  <2> QED
    BY <2>1, UserDialogKept
<1> QED
  BY <1>1, <1>2

\* It holds at the start.
LEMMA UserWaitsStart == UsersInit => UserWaits
<1> SUFFICES ASSUME UsersInit PROVE UserWaits
  OBVIOUS
<1>1. {"shown", "loading", "clicks", "calm"} \subseteq DOMAIN users /\ ~users.loading /\ userDialog = None
  BY DEF UsersInit
<1>2. IsNet(usersNet)
  BY NoCallsIsNet DEF UsersInit
<1> QED
  BY <1>1, <1>2 DEF UserWaits

\* Every step keeps it.
LEMMA UserWaitsStep == UserWaits /\ [UsersNext]_usersVars => UserWaits'
<1> SUFFICES ASSUME UserWaits, [UsersNext]_usersVars PROVE UserWaits'
  OBVIOUS
<1> DEFINE Same == DOMAIN users' = DOMAIN users /\ users'.loading = users.loading
<1>0. /\ {"shown", "loading", "clicks", "calm"} \subseteq DOMAIN users /\ IsNet(usersNet)
      /\ userDialog # None => IsUserDialog(userDialog)
  BY DEF UserWaits
<1>p. \A calm : /\ DOMAIN Pressed(users, calm) = DOMAIN users
                /\ Pressed(users, calm).loading = users.loading
  BY <1>0 DEF Pressed
<1>r. \A id, change : DOMAIN Rows(id, change) = DOMAIN users /\ Rows(id, change).loading = users.loading
  BY <1>0 DEF Rows
<1>1. CASE UNCHANGED <<users, userDialog, usersNet>>
  BY <1>0, <1>1, StayGoes, UserDialogKept
<1>2. ASSUME NEW p, TurnPage(p) PROVE UserWaits'
  <2> DEFINE ui == Pressed(users, Quiet(usersNet))
  <2>1. users' = [ui EXCEPT !.loading = TRUE] /\ usersNet' = Send(usersNet, "users", p) /\ Room(usersNet, 1)
        /\ userDialog' = userDialog
    BY <1>2 DEF TurnPage
  <2>2. DOMAIN ui = DOMAIN users
    BY <1>p
  <2> HIDE DEF ui
  <2>3. DOMAIN users' = DOMAIN users
    BY <2>1, <2>2
  <2>4. Goes(usersNet, usersNet', {}) /\ Underway(usersNet', "users", p)
    BY <1>0, <2>1, SendGoes
  <2> QED
    BY <2>1, <2>3, <2>4, UserDialogKept
<1>3. ASSUME NEW kind \in UserKinds, NEW u, OpenUserDialog(kind, u) PROVE UserWaits'
  <2>1. Same /\ usersNet' = usersNet
    BY <1>3, <1>p DEF OpenUserDialog, UserPress
  <2>2. IsUserDialog(userDialog') /\ ~userDialog'.saving
    BY <1>3 DEF OpenUserDialog, UserDialogFields, IsUserDialog
  <2> QED
    BY <1>0, <2>1, <2>2, StayGoes, UserWaitsKept
<1>4. CASE CancelUserDialog
  BY <1>0, <1>4, StayGoes, UserDialogKept DEF CancelUserDialog
<1>5. ASSUME NEW kind, NEW op \in Awaited(kind), NEW form, Submit(kind, op, form) PROVE UserWaits'
  <2> DEFINE arg == [form |-> form, id |-> IF userDialog.user = None THEN None ELSE userDialog.user.id,
                     n |-> userDialog.n]
             dialog == [userDialog EXCEPT !.saving = TRUE]
  <2>1. Same /\ userDialog # None /\ userDialog.kind = kind /\ Room(usersNet, 1)
    BY <1>5, <1>p DEF Submit, UserPress
  <2>2. userDialog' = dialog /\ usersNet' = Send(usersNet, op, arg)
    BY <1>5 DEF Submit
  <2>3. "n" \in DOMAIN arg /\ arg.n = userDialog.n
    OBVIOUS
  <2>4. IsUserDialog(dialog) /\ dialog.kind = kind /\ dialog.n = userDialog.n
    BY <1>0, <2>1 DEF UserDialogFields, IsUserDialog
  <2> HIDE DEF arg, dialog
  <2>5. Goes(usersNet, usersNet', {}) /\ Underway(usersNet', op, arg)
    BY <1>0, <2>1, <2>2, SendGoes
  <2>6. \E j \in Pending(usersNet') : IsFor(usersNet'[j], dialog)
    BY <2>3, <2>4, <2>5 DEF Underway, IsFor
  <2> QED
    BY <2>1, <2>2, <2>4, <2>5, <2>6, UserWaitsKept
<1>6. ASSUME NEW f, SaveUser(f) \/ CreateUser(f) \/ DeleteUser \/ SetPassword PROVE UserWaits'
  <2>1. \E kind : \E op \in Awaited(kind) : \E form : Submit(kind, op, form)
    <3>1. "profile" \in Awaited("edit") /\ \A k \in {"create", "deactivate", "password"} : k \in Awaited(k)
      BY DEF Awaited
    <3> QED
      BY <1>6, <3>1, Zenon DEF SaveUser, CreateUser, DeleteUser, SetPassword
  <2> QED
    BY <1>5, <2>1
<1>7. ASSUME NEW u, ResetTotp(u) \/ Activate(u) PROVE UserWaits'
  <2>1. Same /\ userDialog' = userDialog /\ Room(usersNet, 1) /\ \E op, arg : usersNet' = Send(usersNet, op, arg)
    BY <1>7, <1>p DEF ResetTotp, Activate, PressRow, UserPress
  <2>2. Goes(usersNet, usersNet', {})
    BY <1>0, <2>1, SendGoes
  <2> QED
    BY <2>1, <2>2, UserDialogKept
<1>8. ASSUME NEW i \in Slot,
             \/ ServeUsers(i) \/ ServeProfile(i) \/ ServeRoleNames(i) \/ ServeDeactivate(i)
             \/ ServePassword(i) \/ ServeCreate(i) \/ ServeTotp(i) \/ ServeActivate(i)
      PROVE  UserWaits'
  <2>1. /\ usersNet[i] # Free /\ users' = users /\ userDialog' = userDialog
        /\ usersNet' = Fail(usersNet, i) \/ \E out : usersNet' = Reply(usersNet, i, out)
    BY <1>8, Zenon DEF ServeUsers, ServeProfile, ServeRoleNames, ServeDeactivate, ServePassword, ServeCreate,
                       ServeTotp, ServeActivate, Sent
  <2>2. Goes(usersNet, usersNet', {})
    BY <1>0, <2>1, AnswerGoes
  <2> QED
    BY <2>1, <2>2, UserDialogKept
<1>9. ASSUME NEW i \in Slot, UsersRead(i) PROVE UserWaits'
  <2>1. Goes(usersNet, usersNet', {i}) /\ usersNet[i].op = "users" /\ userDialog' = userDialog
    BY <1>0, <1>9, EndGoes DEF UsersRead, Settled, Ok, Err
  <2>2. DOMAIN users' = DOMAIN users /\ ~users'.loading
    BY <1>0, <1>9 DEF UsersRead
  <2>3. userDialog # None => ~IsFor(usersNet[i], userDialog)
    BY <1>0, <2>1 DEF IsFor, IsUserDialog, UserKinds, Awaited
  <2> QED
    BY <2>1, <2>2, <2>3, UserDialogKept
<1>10. ASSUME NEW i \in Slot, ProfileSaved(i) PROVE UserWaits'
  <2>1. users' = users /\ usersNet[i] # Free /\ usersNet[i].op = "profile"
    BY <1>10 DEF ProfileSaved, Ok, Err
  <2>2. CASE userDialog' = Freed(i) /\ usersNet' = Done(usersNet, i)
    <3>1. Goes(usersNet, usersNet', {i})
      BY <1>0, <2>2, EndGoes
    <3> QED
      BY <2>1, <2>2, <3>1, UserDialogFreed
  <2>3. CASE Ok(usersNet, i, "profile") /\ userDialog' = userDialog
    <3> DEFINE form == [row |-> usersNet[i].out, role |-> usersNet[i].arg.form.role]
               arg == [usersNet[i].arg EXCEPT !.form = form]
    <3>1. Ok(usersNet, i, "profile") => ~Err(usersNet, i, "profile")
      BY DEF Ok, Err
    <3>2. usersNet' = Then(usersNet, i, "roles", arg)
      BY <1>10, <2>3, <3>1, Zenon DEF ProfileSaved
    <3>3. "n" \in DOMAIN usersNet[i].arg => "n" \in DOMAIN arg /\ arg.n = usersNet[i].arg.n
      OBVIOUS
    <3> HIDE DEF arg
    <3>4. Goes(usersNet, usersNet', {i}) /\ Underway(usersNet', "roles", arg)
      BY <1>0, <3>2, EndGoes
    <3>5. userDialog # None /\ userDialog.saving => \E j \in Pending(usersNet') : IsFor(usersNet'[j], userDialog)
      <4> SUFFICES ASSUME userDialog # None, userDialog.saving
                   PROVE  \E j \in Pending(usersNet') : IsFor(usersNet'[j], userDialog)
        OBVIOUS
      <4>1. PICK j \in Pending(usersNet) : IsFor(usersNet[j], userDialog)
        BY DEF UserWaits
      <4>2. CASE j # i
        BY <3>4, <4>1, <4>2 DEF Goes, IsFor
      <4>3. CASE j = i
        <5>1. "roles" \in Awaited(userDialog.kind) /\ "n" \in DOMAIN arg /\ arg.n = userDialog.n
          BY <1>0, <2>1, <3>3, <4>1, <4>3 DEF IsFor, Awaited, IsUserDialog, UserKinds
        <5> QED
          BY <3>4, <5>1 DEF Underway, IsFor
      <4> QED
        BY <4>2, <4>3
    <3> QED
      BY <1>0, <2>1, <2>3, <3>4, <3>5, UserWaitsKept
  <2> QED
    BY <1>10, <2>2, <2>3 DEF ProfileSaved
<1>11. ASSUME NEW i \in Slot, NEW kind \in UserKinds, Settled(usersNet, i, IF kind = "edit" THEN "roles" ELSE kind),
              DOMAIN users' = DOMAIN users, users'.loading = users.loading, usersNet' = Done(usersNet, i),
              userDialog' = Closed(kind) \/ userDialog' = Freed(i)
       PROVE  UserWaits'
  <2>1. Goes(usersNet, usersNet', {i}) /\ usersNet[i].op = IF kind = "edit" THEN "roles" ELSE kind
    BY <1>0, <1>11, EndGoes DEF Settled, Ok, Err
  <2>2. usersNet[i].op # "users" /\ \A k \in UserKinds : k # kind => usersNet[i].op \notin Awaited(k)
    BY <2>1, <1>11 DEF UserKinds, Awaited
  <2> QED
    BY <1>11, <2>1, <2>2, UserDialogClosed, UserDialogFreed
<1>12. ASSUME NEW i \in Slot, RolesSaved(i) PROVE UserWaits'
  <2>1. /\ DOMAIN users' = DOMAIN users /\ users'.loading = users.loading /\ Settled(usersNet, i, "roles")
        /\ usersNet' = Done(usersNet, i) /\ (userDialog' = Closed("edit") \/ userDialog' = Freed(i))
    <3>1. CASE Ok(usersNet, i, "roles") /\ \E id, change : users' = Rows(id, change)
      BY <1>12, <1>r, <3>1 DEF RolesSaved, Settled
    <3>2. CASE Err(usersNet, i, "roles") /\ users' = [users EXCEPT !.calm = FALSE]
      BY <1>0, <1>12, <3>2 DEF RolesSaved, Settled
    <3> QED
      BY <1>12, <3>1, <3>2, Zenon DEF RolesSaved
  <2> QED
    BY <1>11, <2>1 DEF UserKinds
<1>13. ASSUME NEW i \in Slot, UserDeleted(i) PROVE UserWaits'
  <2>1. /\ users' = users \/ \E id, change : users' = Rows(id, change)
        /\ Settled(usersNet, i, "deactivate")
        /\ usersNet' = Done(usersNet, i) /\ (userDialog' = Closed("deactivate") \/ userDialog' = Freed(i))
    BY <1>13, Zenon DEF UserDeleted, Settled
  <2>2. DOMAIN users' = DOMAIN users /\ users'.loading = users.loading
    BY <1>r, <2>1
  <2> QED
    BY <1>11, <2>1, <2>2 DEF UserKinds
<1>14. ASSUME NEW i \in Slot, PasswordSet(i) PROVE UserWaits'
  <2>1. /\ users' = users /\ Settled(usersNet, i, "password")
        /\ usersNet' = Done(usersNet, i) /\ (userDialog' = Closed("password") \/ userDialog' = Freed(i))
    BY <1>14, Zenon DEF PasswordSet
  <2> QED
    BY <1>11, <2>1 DEF UserKinds
<1>15. ASSUME NEW i \in Slot, UserCreated(i) PROVE UserWaits'
  <2>1. CASE Err(usersNet, i, "create") /\ userDialog' = Freed(i) /\ usersNet' = Done(usersNet, i) /\ users' = users
    BY <1>11, <2>1 DEF UserKinds, Settled
  <2>2. CASE /\ Ok(usersNet, i, "create") /\ users' = [users EXCEPT !.loading = TRUE]
             /\ userDialog' = Closed("create") /\ usersNet' = Then(usersNet, i, "users", 1)
    <3>1. DOMAIN users' = DOMAIN users
      BY <2>2
    <3>2. Goes(usersNet, usersNet', {i}) /\ Underway(usersNet', "users", 1) /\ usersNet[i].op = "create"
      BY <1>0, <2>2, EndGoes DEF Ok
    <3>3. \A k \in UserKinds : k # "create" => usersNet[i].op \notin Awaited(k)
      BY <3>2 DEF UserKinds, Awaited
    <3> QED
      BY <2>2, <3>1, <3>2, <3>3, UserDialogClosed
  <2> QED
    BY <1>15, <2>1, <2>2 DEF UserCreated
<1>16. ASSUME NEW i \in Slot, TotpReset(i) \/ Activated(i) PROVE UserWaits'
  <2>1. /\ users' = users \/ \E id, change : users' = Rows(id, change)
        /\ Settled(usersNet, i, "totp") \/ Settled(usersNet, i, "activate")
        /\ usersNet' = Done(usersNet, i) /\ userDialog' = userDialog
    BY <1>16, Zenon DEF TotpReset, Activated
  <2>2. DOMAIN users' = DOMAIN users /\ users'.loading = users.loading
    BY <1>r, <2>1
  <2>3. usersNet[i].op \in {"totp", "activate"} /\ Goes(usersNet, usersNet', {i})
    BY <1>0, <2>1, EndGoes DEF Settled, Ok, Err
  <2>4. userDialog # None => ~IsFor(usersNet[i], userDialog)
    BY <1>0, <2>3 DEF IsFor, IsUserDialog, UserKinds, Awaited
  <2> QED
    BY <2>1, <2>2, <2>3, <2>4, UserDialogKept
<1>17. ASSUME NEW i \in Slot, UserCallFails(i) PROVE UserWaits'
  <2>1. Same /\ userDialog' = userDialog
    BY <1>0, <1>17 DEF UserCallFails, Missed
  <2>2. Goes(usersNet, usersNet', {})
    BY <1>0, <1>17, AnswerGoes DEF UserCallFails, CanFail, Pending
  <2> QED
    BY <2>1, <2>2, UserDialogKept
<1>18. CASE UNCHANGED usersVars
  BY <1>1, <1>18 DEF usersVars
<1>19. CASE UsersNext
  <2>1. CASE OpenUserDialog("create", None)
    BY <1>3, <2>1 DEF UserKinds
  <2>2. ASSUME NEW u, NEW k \in {"edit", "deactivate", "password"}, OpenUserDialog(k, u) PROVE UserWaits'
    BY <1>3, <2>2 DEF UserKinds
  <2> QED
    BY <1>2, <1>4, <1>6, <1>7, <1>8, <1>9, <1>10, <1>12, <1>13, <1>14, <1>15, <1>16, <1>17, <1>19, <2>1, <2>2, Zenon
    DEF UsersNext
<1> QED
  BY <1>18, <1>19

-----------------------------------------------------------------------------
(***************************************************************************)
(* Roles: the list and the editor, one after the other on the page.        *)
(***************************************************************************)
\* What the answer to a request hands over, and what a save carries.
RoleCallTyped(c) ==
    /\ c.op = "roles" /\ c.st = "ok" => c.out \subseteq RoleType
    /\ c.op = "role" /\ c.st = "ok" => c.out \in RoleType
    /\ c.op \in {"create", "save"} => c.arg.perms \subseteq Permission

RoleTypes ==
    /\ roleRows \subseteq RoleType /\ rolesMade \in Nat
    /\ roleTab.list.rows \subseteq RoleType /\ roleTab.clicks \in Nat
    /\ roleTab.edit = None \/ roleTab.edit \in RoleEdit
    /\ \A i \in Pending(roleNet) : RoleCallTyped(roleNet[i])

LEMMA RolePut ==
    ASSUME NEW net, IsNet(net), \A j \in Pending(net) : RoleCallTyped(net[j]), NEW i, NEW c,
           c # Free => RoleCallTyped(c)
    PROVE  \A j \in Pending(Put(net, i, c)) : RoleCallTyped(Put(net, i, c)[j])
  BY DEF Pending, Put, IsNet

LEMMA RoleSent ==
    ASSUME NEW net, IsNet(net), \A j \in Pending(net) : RoleCallTyped(net[j]), NEW op, NEW arg,
           op \in {"create", "save"} => arg.perms \subseteq Permission
    PROVE  /\ \A j \in Pending(Send(net, op, arg)) : RoleCallTyped(Send(net, op, arg)[j])
           /\ \A i \in Slot : \A j \in Pending(Then(net, i, op, arg)) : RoleCallTyped(Then(net, i, op, arg)[j])
<1>1. RoleCallTyped(Call(op, arg))
  BY DEF RoleCallTyped, Call
<1>2. ASSUME NEW i PROVE \A j \in Pending(Put(net, i, Call(op, arg))) : RoleCallTyped(Put(net, i, Call(op, arg))[j])
  BY <1>1, RolePut
<1>3. PICK i : Send(net, op, arg) = Put(net, i, Call(op, arg))
  BY Sending
<1>4. \A k \in Slot : Then(net, k, op, arg) = Put(net, k, Call(op, arg))
  BY Ending
<1> QED
  BY <1>2, <1>3, <1>4

LEMMA RoleAnswered ==
    ASSUME NEW net, IsNet(net), \A j \in Pending(net) : RoleCallTyped(net[j]), NEW i \in Slot, net[i] # Free
    PROVE  /\ \A j \in Pending(Fail(net, i)) : RoleCallTyped(Fail(net, i)[j])
           /\ \A j \in Pending(Done(net, i)) : RoleCallTyped(Done(net, i)[j])
           /\ \A out : /\ net[i].op = "roles" => out \subseteq RoleType
                       /\ net[i].op = "role" => out \in RoleType
                       => \A j \in Pending(Reply(net, i, out)) : RoleCallTyped(Reply(net, i, out)[j])
<1>1. RoleCallTyped(net[i])
  BY DEF Pending
<1>2. \A j \in Pending(Done(net, i)) : RoleCallTyped(Done(net, i)[j])
  BY Ending, RolePut
<1>3. \A j \in Pending(Fail(net, i)) : RoleCallTyped(Fail(net, i)[j])
  <2> DEFINE c == [op |-> net[i].op, arg |-> net[i].arg, st |-> "err", out |-> net[i].out]
  <2>1. RoleCallTyped(c) /\ Fail(net, i) = Put(net, i, c)
    BY <1>1, Answering DEF RoleCallTyped
  <2> HIDE DEF c
  <2> QED
    BY <2>1, RolePut
<1>4. ASSUME NEW out, net[i].op = "roles" => out \subseteq RoleType, net[i].op = "role" => out \in RoleType
      PROVE  \A j \in Pending(Reply(net, i, out)) : RoleCallTyped(Reply(net, i, out)[j])
  <2> DEFINE c == [op |-> net[i].op, arg |-> net[i].arg, st |-> "ok", out |-> out]
  <2>1. RoleCallTyped(c)
    BY <1>1, <1>4 DEF RoleCallTyped
  <2>2. Reply(net, i, out) = Put(net, i, c)
    BY Answering
  <2> HIDE DEF c
  <2> QED
    BY <2>1, <2>2, RolePut
<1> QED
  BY <1>2, <1>3, <1>4

LEMMA RoleTypesStart == RolesInit => RoleTypes
<1> SUFFICES ASSUME RolesInit PROVE RoleTypes
  OBVIOUS
<1>1. roleRows \subseteq RoleType /\ rolesMade \in Nat
  BY DEF RolesInit, RoleRow, RoleType
<1>2. roleTab.list.rows \subseteq RoleType /\ roleTab.clicks \in Nat /\ roleTab.edit = None
  BY DEF RolesInit, RoleListPage
<1>3. \A j \in Pending(NoCalls) : RoleCallTyped(NoCalls[j])
  BY DEF Pending, NoCalls
<1>4. \A j \in Pending(roleNet) : RoleCallTyped(roleNet[j])
  BY <1>3, NoCallsIsNet, RoleSent DEF RolesInit
<1> QED
  BY <1>1, <1>2, <1>4 DEF RoleTypes

\* The requests stay typed.
LEMMA RoleCallsStep ==
    ASSUME RoleTypes, IsNet(roleNet), RolesNext
    PROVE  \A j \in Pending(roleNet') : RoleCallTyped(roleNet'[j])
<1> DEFINE Typed(net) == \A j \in Pending(net) : RoleCallTyped(net[j])
<1>0. Typed(roleNet)
  BY DEF RoleTypes
<1>1. \A op, arg : op \notin {"create", "save"} => Typed(Send(roleNet, op, arg))
  BY <1>0, RoleSent
<1>2. \A i \in Slot : \A op, arg : op \notin {"create", "save"} => Typed(Then(roleNet, i, op, arg))
  BY <1>0, RoleSent
<1>3. \A i \in Slot : roleNet[i] # Free => Typed(Fail(roleNet, i)) /\ Typed(Done(roleNet, i))
  BY <1>0, RoleAnswered
<1>4. ASSUME NEW i \in Slot, roleNet[i] # Free, NEW out,
             roleNet[i].op = "roles" => out \subseteq RoleType, roleNet[i].op = "role" => out \in RoleType
      PROVE  Typed(Reply(roleNet, i, out))
  BY <1>0, <1>4, RoleAnswered
<1>5. ASSUME NEW r, DropRole(r) \/ OpenRole(r.id) \/ OpenRole(None) \/ SessionRenewed \/ LeaveRole
      PROVE  Typed(roleNet')
  <2>1. \E op, arg : op \notin {"create", "save"} /\ roleNet' = Send(roleNet, op, arg)
    BY <1>5 DEF DropRole, OpenRole, LoadRole, SessionRenewed, LeaveRole
  <2> QED
    BY <1>1, <2>1
<1>6. CASE SaveRole
  <2>1. roleTab.edit \in RoleEdit
    BY <1>6 DEF SaveRole, RoleTypes
  <2> DEFINE arg == [id |-> roleTab.edit.of, perms |-> roleTab.edit.assigned,
                     touched |-> roleTab.edit.touched, n |-> roleTab.edit.n]
             op == IF roleTab.edit.of = None THEN "create" ELSE "save"
  <2>2. arg.perms \subseteq Permission
    BY <2>1 DEF RoleEdit
  <2>3. roleNet' = Send(roleNet, op, arg)
    BY <1>6 DEF SaveRole
  <2> HIDE DEF arg, op
  <2> QED
    BY <1>0, <2>2, <2>3, RoleSent
<1>7. ASSUME NEW p, TogglePermission(p) PROVE Typed(roleNet')
  BY <1>0, <1>7 DEF TogglePermission
<1>8. ASSUME NEW i \in Slot, ServeRoles(i) PROVE Typed(roleNet')
  BY <1>4, <1>8 DEF ServeRoles, Sent, RoleTypes
<1>9. ASSUME NEW i \in Slot, RolesRead(i) \/ RoleDropped(i) \/ CatalogueRead(i) \/ RoleRead(i) PROVE Typed(roleNet')
  <2>1. roleNet[i] # Free /\ roleNet' = Done(roleNet, i)
    BY <1>9, Zenon DEF RolesRead, RoleDropped, CatalogueRead, RoleRead, Settled, Ok, Err
  <2> QED
    BY <1>3, <2>1
<1>10. ASSUME NEW i \in Slot, ServeDropRole(i) \/ ServeCreateRole(i) \/ ServeSaveRole(i) PROVE Typed(roleNet')
  <2>1. /\ roleNet[i] # Free /\ roleNet[i].op \in {"drop", "create", "save"}
        /\ roleNet' = Fail(roleNet, i) \/ roleNet' = Reply(roleNet, i, None)
    BY <1>10 DEF ServeDropRole, ServeCreateRole, ServeSaveRole, Sent
  <2> QED
    BY <1>3, <1>4, <2>1
<1>11. ASSUME NEW i \in Slot, ServeRole(i) PROVE Typed(roleNet')
  <2>1. CASE Sent(roleNet, i, "catalogue") /\ roleNet' = Reply(roleNet, i, None)
    BY <1>4, <2>1 DEF Sent
  <2>2. CASE ~(Sent(roleNet, i, "catalogue") /\ roleNet' = Reply(roleNet, i, None))
    <3> DEFINE row == {r \in roleRows : r.id = roleNet[i].arg.id}
               out == CHOOSE r \in row : TRUE
    <3>1. Sent(roleNet, i, "role") /\ roleNet' = IF row = {} THEN Fail(roleNet, i) ELSE Reply(roleNet, i, out)
      BY <1>11, <2>2, Zenon DEF ServeRole
    <3>2. row # {} => out \in RoleType
      BY DEF RoleTypes
    <3> HIDE DEF row, out
    <3> QED
      BY <1>3, <1>4, <3>1, <3>2 DEF Sent
  <2> QED
    BY <2>1, <2>2
<1>12. ASSUME NEW i \in Slot, RoleSettled(i) PROVE Typed(roleNet')
  <2>1. roleNet[i] # Free /\ (roleNet' = Done(roleNet, i) \/ roleNet' = Then(roleNet, i, "roles", [n |-> roleTab.clicks]))
    BY <1>12, Zenon DEF RoleSettled, ToRoles, Ok, Err
  <2> QED
    BY <1>2, <1>3, <2>1
<1>13. ASSUME NEW i \in Slot, RoleCallFails(i) PROVE Typed(roleNet')
  BY <1>3, <1>13 DEF RoleCallFails, CanFail, Pending
<1>14. Typed(roleNet')
  BY <1>5, <1>6, <1>7, <1>8, <1>9, <1>10, <1>11, <1>12, <1>13, Zenon DEF RolesNext
<1> QED
  BY <1>14 DEF Typed

\* So do the roles.
LEMMA RoleRowsStep ==
    ASSUME RoleTypes, RolesNext
    PROVE  roleRows' \subseteq RoleType /\ rolesMade' \in Nat
<1>0. roleRows \subseteq RoleType /\ rolesMade \in Nat
  BY DEF RoleTypes
<1>1. ASSUME UNCHANGED roleServer PROVE roleRows' \subseteq RoleType /\ rolesMade' \in Nat
  BY <1>0, <1>1 DEF roleServer
<1>2. ASSUME NEW i \in Slot, ServeDropRole(i) PROVE roleRows' \subseteq RoleType /\ rolesMade' \in Nat
  BY <1>0, <1>2 DEF ServeDropRole
<1>3. ASSUME NEW i \in Slot, ServeCreateRole(i) PROVE roleRows' \subseteq RoleType /\ rolesMade' \in Nat
  <2>1. roleNet[i].arg.perms \subseteq Permission
    BY <1>3 DEF ServeCreateRole, Sent, RoleCallTyped, Pending, RoleTypes
  <2> DEFINE new == RoleRow(rolesMade + 1, FALSE, roleNet[i].arg.perms)
  <2>2. new \in RoleType
    BY <1>0, <2>1 DEF RoleRow, RoleType
  <2>3. /\ rolesMade' = rolesMade + 1
        /\ roleRows' = roleRows \cup {new}
    BY <1>3, Zenon DEF ServeCreateRole
  <2> HIDE DEF new
  <2> QED
    BY <1>0, <2>2, <2>3
<1>4. ASSUME NEW i \in Slot, ServeSaveRole(i) PROVE roleRows' \subseteq RoleType /\ rolesMade' \in Nat
  <2>1. roleNet[i].arg.perms \subseteq Permission
    BY <1>4 DEF ServeSaveRole, Sent, RoleCallTyped, Pending, RoleTypes
  <2>2. \A r \in roleRows : RoleRow(r.id, FALSE, roleNet[i].arg.perms) \in RoleType
    BY <1>0, <2>1 DEF RoleRow, RoleType
  <2> QED
    BY <1>0, <1>4, <2>2 DEF ServeSaveRole
<1>5. UNCHANGED roleServer \/ \E i \in Slot : ServeDropRole(i) \/ ServeCreateRole(i) \/ ServeSaveRole(i)
  BY DEF RolesNext, DropRole, OpenRole, SessionRenewed, SaveRole, LeaveRole, TogglePermission, PressRole,
         ServeRoles, RolesRead, RoleDropped, ServeRole, CatalogueRead, RoleRead, RoleSettled, RoleCallFails
<1> QED
  BY <1>1, <1>2, <1>3, <1>4, <1>5

\* So does the page.
LEMMA RoleTabStep ==
    ASSUME RoleTypes, RolesNext, {"list", "edit", "clicks", "calm"} \subseteq DOMAIN roleTab,
           {"rows", "loading", "deleting", "n"} \subseteq DOMAIN roleTab.list
    PROVE  /\ roleTab'.list.rows \subseteq RoleType /\ roleTab'.clicks \in Nat
           /\ roleTab'.edit = None \/ roleTab'.edit \in RoleEdit
<1> DEFINE Good(tab) == /\ tab.list.rows \subseteq RoleType /\ tab.clicks \in Nat
                        /\ tab.edit = None \/ tab.edit \in RoleEdit
<1>0. roleTab.list.rows \subseteq RoleType /\ roleTab.clicks \in Nat /\ (roleTab.edit = None \/ roleTab.edit \in RoleEdit)
  BY DEF RoleTypes
<1>1. \A edit, list : /\ [roleTab EXCEPT !.edit = edit].edit = edit /\ [roleTab EXCEPT !.edit = edit].list = roleTab.list
                      /\ [roleTab EXCEPT !.edit = edit].clicks = roleTab.clicks
                      /\ [roleTab EXCEPT !.list = list].edit = roleTab.edit /\ [roleTab EXCEPT !.list = list].list = list
                      /\ [roleTab EXCEPT !.list = list].clicks = roleTab.clicks
                      /\ [roleTab EXCEPT !.edit = edit, !.list = list].clicks = roleTab.clicks
                      /\ [roleTab EXCEPT !.edit = edit, !.list = list].edit = edit
                      /\ [roleTab EXCEPT !.edit = edit, !.list = list].list = list
  OBVIOUS
<1>2. DOMAIN StepRole = DOMAIN roleTab /\ StepRole.list = roleTab.list /\ StepRole.edit = roleTab.edit /\ StepRole.clicks \in Nat
  BY <1>0, Pressing DEF StepRole
<1>3. ASSUME NEW r, DropRole(r) PROVE Good(roleTab')
  <2> DEFINE ui == StepRole
  <2>1. roleTab' = [ui EXCEPT !.list.deleting = r.id]
    BY <1>3, Zenon DEF DropRole
  <2>2. DOMAIN ui = DOMAIN roleTab /\ ui.list = roleTab.list /\ ui.edit = roleTab.edit /\ ui.clicks \in Nat
    BY <1>2
  <2> HIDE DEF ui
  <2>3. roleTab'.list.rows = ui.list.rows /\ roleTab'.edit = ui.edit /\ roleTab'.clicks = ui.clicks
    BY <2>1, <2>2
  <2> QED
    BY <1>0, <2>2, <2>3
<1>4. ASSUME NEW id, OpenRole(id), id = None \/ \E r \in roleTab.list.rows : r.id = id PROVE Good(roleTab')
  <2> DEFINE ui == StepRole
             edit == EditorOf(id)
  <2>1. roleTab' = [ui EXCEPT !.edit = edit]
    BY <1>4, Zenon DEF OpenRole
  <2>2. DOMAIN ui = DOMAIN roleTab /\ ui.list = roleTab.list /\ ui.clicks \in Nat
    BY <1>2
  <2>3. edit \in RoleEdit
    BY <1>0, <1>4 DEF EditorOf, RoleEdit, RoleType
  <2> HIDE DEF ui, edit
  <2>4. roleTab'.list.rows = ui.list.rows /\ roleTab'.edit = edit /\ roleTab'.clicks = ui.clicks
    BY <2>1, <2>2
  <2> QED
    BY <1>0, <2>2, <2>3, <2>4
<1>5. CASE SessionRenewed
  BY <1>0, <1>2, <1>5 DEF SessionRenewed
<1>6. ASSUME NEW p \in Permission, TogglePermission(p) PROVE Good(roleTab')
  <2> DEFINE ui == StepRole
             one == [ui.edit EXCEPT !.assigned = IF p \in @ THEN @ \ {p} ELSE @ \cup {p}]
             edit == [one EXCEPT !.touched = @ \cup {p}]
  <2>1. roleTab' = [ui EXCEPT !.edit.assigned = IF p \in @ THEN @ \ {p} ELSE @ \cup {p}, !.edit.touched = @ \cup {p}]
    BY <1>6, Zenon DEF TogglePermission
  <2>2. DOMAIN ui = DOMAIN roleTab /\ ui.list = roleTab.list /\ ui.clicks \in Nat /\ ui.edit \in RoleEdit
    BY <1>0, <1>2, <1>6 DEF TogglePermission
  <2>3. one \in RoleEdit
    BY <2>2 DEF RoleEdit
  <2> HIDE DEF ui, one
  <2>4. edit \in RoleEdit
    BY <2>3 DEF RoleEdit
  <2>5. roleTab'.list = ui.list /\ roleTab'.edit = edit /\ roleTab'.clicks = ui.clicks
    BY <2>1, <2>2 DEF one
  <2> HIDE DEF edit
  <2> QED
    BY <1>0, <2>2, <2>4, <2>5
<1>7. CASE SaveRole
  <2> DEFINE ui == StepRole
             edit == [ui.edit EXCEPT !.saving = TRUE]
  <2>1. roleTab' = [ui EXCEPT !.edit.saving = TRUE]
    BY <1>7, Zenon DEF SaveRole
  <2>2. DOMAIN ui = DOMAIN roleTab /\ ui.list = roleTab.list /\ ui.clicks \in Nat /\ ui.edit \in RoleEdit
    BY <1>0, <1>2, <1>7 DEF SaveRole
  <2> HIDE DEF ui
  <2>3. edit \in RoleEdit
    BY <2>2 DEF RoleEdit
  <2>4. roleTab'.list = ui.list /\ roleTab'.edit = edit /\ roleTab'.clicks = ui.clicks
    BY <2>1, <2>2
  <2> QED
    BY <1>0, <2>2, <2>3, <2>4
<1>8. CASE LeaveRole
  <2> DEFINE ui == StepRole
             list == RoleListPage(roleTab.clicks)
  <2>1. roleTab' = [ui EXCEPT !.edit = None, !.list = list]
    BY <1>8, Zenon DEF LeaveRole
  <2>2. DOMAIN ui = DOMAIN roleTab /\ ui.clicks \in Nat
    BY <1>2
  <2>3. list.rows = {}
    BY DEF RoleListPage
  <2> HIDE DEF ui, list
  <2>4. roleTab'.list = list /\ roleTab'.edit = None /\ roleTab'.clicks = ui.clicks
    BY <2>1, <2>2
  <2> QED
    BY <2>2, <2>3, <2>4
<1>9. ASSUME NEW i \in Slot, ServeRoles(i) \/ ServeDropRole(i) \/ ServeRole(i) \/ ServeCreateRole(i) \/ ServeSaveRole(i)
      PROVE  Good(roleTab')
  <2>1. roleTab' = roleTab
    BY <1>9 DEF ServeRoles, ServeDropRole, ServeRole, ServeCreateRole, ServeSaveRole
  <2> QED
    BY <1>0, <2>1
<1>10. ASSUME NEW i \in Slot, RolesRead(i) PROVE Good(roleTab')
  <2>1. CASE ~OnRoleList(i)
    BY <1>0, <1>10, <2>1 DEF RolesRead
  <2>2. CASE OnRoleList(i) /\ Ok(roleNet, i, "roles")
    <3>1. roleNet[i].out \subseteq RoleType
      BY <2>2 DEF Ok, RoleTypes, RoleCallTyped, Pending
    <3>2. roleTab' = [roleTab EXCEPT !.list.rows = roleNet[i].out, !.list.loading = FALSE]
      BY <1>10, <2>2, Zenon DEF RolesRead
    <3>3. roleTab'.list.rows = roleNet[i].out /\ roleTab'.edit = roleTab.edit /\ roleTab'.clicks = roleTab.clicks
      BY <3>2
    <3> QED
      BY <1>0, <3>1, <3>3
  <2>3. CASE OnRoleList(i) /\ ~Ok(roleNet, i, "roles")
    <3>1. roleTab' = [roleTab EXCEPT !.list.loading = FALSE, !.calm = FALSE]
      BY <1>10, <2>3, Zenon DEF RolesRead
    <3>2. roleTab'.list.rows = roleTab.list.rows /\ roleTab'.edit = roleTab.edit /\ roleTab'.clicks = roleTab.clicks
      BY <3>1
    <3> QED
      BY <1>0, <3>2
  <2> QED
    BY <2>1, <2>2, <2>3
<1>11. ASSUME NEW i \in Slot, RoleDropped(i) PROVE Good(roleTab')
  <2>1. CASE ~OnRoleList(i)
    BY <1>0, <1>11, <2>1 DEF RoleDropped
  <2>2. CASE OnRoleList(i) /\ Ok(roleNet, i, "drop")
    <3> DEFINE id == roleNet[i].arg.id
    <3>2. roleTab' = [roleTab EXCEPT !.list.deleting = None, !.list.rows = {r \in @ : r.id # id}]
      BY <1>11, <2>2, Zenon DEF RoleDropped
    <3> HIDE DEF id
    <3>3. /\ roleTab'.list.rows = {r \in roleTab.list.rows : r.id # id}
          /\ roleTab'.edit = roleTab.edit /\ roleTab'.clicks = roleTab.clicks
      BY <3>2
    <3> QED
      BY <1>0, <3>3
  <2>3. CASE OnRoleList(i) /\ ~Ok(roleNet, i, "drop")
    <3>1. roleTab' = [roleTab EXCEPT !.list.deleting = None]
      BY <1>11, <2>3, Zenon DEF RoleDropped
    <3>2. roleTab'.list.rows = roleTab.list.rows /\ roleTab'.edit = roleTab.edit /\ roleTab'.clicks = roleTab.clicks
      BY <3>1
    <3> QED
      BY <1>0, <3>2
  <2> QED
    BY <2>1, <2>2, <2>3
<1>12. ASSUME NEW i \in Slot, CatalogueRead(i) PROVE Good(roleTab')
  <2>1. CASE OnRole(i) /\ roleTab' = [roleTab EXCEPT !.edit.catalogue = TRUE]
    <3> DEFINE edit == [roleTab.edit EXCEPT !.catalogue = TRUE]
    <3>1. edit \in RoleEdit
      BY <1>0, <2>1 DEF OnRole, RoleEdit
    <3>2. roleTab'.list = roleTab.list /\ roleTab'.edit = edit /\ roleTab'.clicks = roleTab.clicks
      BY <2>1
    <3> QED
      BY <1>0, <3>1, <3>2
  <2>2. CASE roleTab' = roleTab
    BY <1>0, <2>2
  <2> QED
    BY <1>12, <2>1, <2>2 DEF CatalogueRead
<1>13. ASSUME NEW i \in Slot, RoleRead(i) PROVE Good(roleTab')
  <2>1. CASE OnRole(i)
    <3> DEFINE out == roleNet[i].out
               edit == [roleTab.edit EXCEPT !.role = out, !.assigned = out.perms, !.touched = {},
                                            !.catalogue = TRUE, !.loading = FALSE]
    <3>1. out \in RoleType
      BY <1>13 DEF RoleRead, Ok, RoleTypes, RoleCallTyped, Pending
    <3>2. roleTab' = [roleTab EXCEPT !.edit.role = out, !.edit.assigned = out.perms,
                                     !.edit.touched = {}, !.edit.catalogue = TRUE, !.edit.loading = FALSE]
      BY <1>13, <2>1, Zenon DEF RoleRead
    <3> HIDE DEF out
    <3>3. roleTab'.list = roleTab.list /\ roleTab'.edit = edit /\ roleTab'.clicks = roleTab.clicks
      BY <3>2
    <3>4. edit \in RoleEdit
      BY <1>0, <2>1, <3>1 DEF OnRole, RoleEdit, RoleType
    <3> QED
      BY <1>0, <3>3, <3>4
  <2>2. CASE ~OnRole(i)
    BY <1>0, <1>13, <2>2 DEF RoleRead
  <2> QED
    BY <2>1, <2>2
<1>14. ASSUME NEW i \in Slot, RoleSettled(i) PROVE Good(roleTab')
  <2>1. CASE ToRoles(i)
    <3> DEFINE list == RoleListPage(roleTab.clicks)
    <3>1. roleTab' = [roleTab EXCEPT !.edit = None, !.list = list]
      BY <2>1 DEF ToRoles
    <3>2. list.rows = {}
      BY DEF RoleListPage
    <3> HIDE DEF list
    <3> QED
      BY <1>0, <1>1, <3>1, <3>2
  <2>2. CASE OnRole(i) /\ roleTab' = [roleTab EXCEPT !.edit.saving = FALSE]
    <3> DEFINE edit == [roleTab.edit EXCEPT !.saving = FALSE]
    <3>1. edit \in RoleEdit
      BY <1>0, <2>2 DEF OnRole, RoleEdit
    <3>2. roleTab'.list = roleTab.list /\ roleTab'.edit = edit /\ roleTab'.clicks = roleTab.clicks
      BY <2>2
    <3> QED
      BY <1>0, <3>1, <3>2
  <2>3. CASE roleTab' = roleTab
    BY <1>0, <2>3
  <2>4. ToRoles(i) \/ (OnRole(i) /\ roleTab' = [roleTab EXCEPT !.edit.saving = FALSE]) \/ roleTab' = roleTab
    BY <1>14, Zenon DEF RoleSettled
  <2> QED
    BY <2>1, <2>2, <2>3, <2>4
<1>15. ASSUME NEW i \in Slot, RoleCallFails(i) PROVE Good(roleTab')
  <2>1. roleTab'.list = roleTab.list /\ roleTab'.edit = roleTab.edit /\ roleTab'.clicks = roleTab.clicks
    BY <1>15 DEF RoleCallFails, Missed
  <2> QED
    BY <1>0, <2>1
<1>16. ASSUME NEW r, OpenRole(r.id) PROVE Good(roleTab')
  BY <1>4, <1>16 DEF OpenRole
<1>18. CASE OpenRole(None)
  BY <1>4, <1>18
<1>17. Good(roleTab')
  BY <1>3, <1>4, <1>5, <1>6, <1>7, <1>8, <1>9, <1>10, <1>11, <1>12, <1>13, <1>14, <1>15, <1>16, <1>18, Zenon DEF RolesNext
<1> QED
  BY <1>17 DEF Good

LEMMA RoleTypesStep ==
    ASSUME RoleTypes, IsNet(roleNet), [RolesNext]_roleVars, {"list", "edit", "clicks", "calm"} \subseteq DOMAIN roleTab,
           {"rows", "loading", "deleting", "n"} \subseteq DOMAIN roleTab.list
    PROVE  RoleTypes'
<1>1. CASE RolesNext
  <2>1. \A j \in Pending(roleNet') : RoleCallTyped(roleNet'[j])
    BY <1>1, RoleCallsStep
  <2>2. \A j : RoleCallTyped(roleNet[j])' <=> RoleCallTyped(roleNet'[j])
    BY DEF RoleCallTyped
  <2> QED
    BY <1>1, <2>1, <2>2, RoleRowsStep, RoleTabStep DEF RoleTypes
<1>2. CASE UNCHANGED roleVars
  BY <1>2 DEF roleVars, RoleTypes, RoleCallTyped
<1> QED
  BY <1>1, <1>2

RoleListFields == {"rows", "loading", "deleting", "n"}
RoleEditFields == {"of", "role", "assigned", "touched", "catalogue", "saving", "loading", "n"}

\* A page waits for the requests that carry its number.
RoleCall(c, ops, n) == c.op \in ops /\ c.arg.n = n

RoleListWaits(net, list) ==
    /\ list.loading => \E j \in Pending(net) : RoleCall(net[j], {"roles"}, list.n)
    /\ list.deleting # None => \E j \in Pending(net) : RoleCall(net[j], {"drop"}, list.n)

RoleEditWaits(net, edit) ==
    /\ RoleEditFields \subseteq DOMAIN edit
    /\ edit.loading => \E j \in Pending(net) : RoleCall(net[j], {"role"}, edit.n)
    /\ edit.saving => \E j \in Pending(net) : RoleCall(net[j], {"create", "save"}, edit.n)

\* Only the page on screen waits.
RoleWaits ==
    /\ {"list", "edit", "clicks", "calm"} \subseteq DOMAIN roleTab /\ RoleListFields \subseteq DOMAIN roleTab.list
    /\ IsNet(roleNet)
    /\ roleTab.edit = None => RoleListWaits(roleNet, roleTab.list)
    /\ roleTab.edit # None => RoleEditWaits(roleNet, roleTab.edit)

\* The list goes on waiting while the requests it waits for do.
LEMMA RoleListKept ==
    ASSUME NEW net, NEW next, NEW gone, Goes(net, next, gone), NEW list, RoleListWaits(net, list), NEW new,
           new.n = list.n,
           new.loading => list.loading /\ \A i \in gone : ~RoleCall(net[i], {"roles"}, list.n),
           new.deleting # None => \/ list.deleting # None /\ \A i \in gone : ~RoleCall(net[i], {"drop"}, list.n)
                                  \/ \E arg : arg.n = list.n /\ Underway(next, "drop", arg)
    PROVE  RoleListWaits(next, new)
  BY DEF RoleListWaits, RoleCall, Goes, Underway

\* So does the editor.
LEMMA RoleEditKept ==
    ASSUME NEW net, NEW next, NEW gone, Goes(net, next, gone), NEW edit, RoleEditWaits(net, edit), NEW new,
           DOMAIN new = DOMAIN edit, new.n = edit.n,
           new.loading => edit.loading /\ \A i \in gone : ~RoleCall(net[i], {"role"}, edit.n),
           new.saving => \/ edit.saving /\ \A i \in gone : ~RoleCall(net[i], {"create", "save"}, edit.n)
                         \/ \E op \in {"create", "save"} : \E arg : arg.n = edit.n /\ Underway(next, op, arg)
    PROVE  RoleEditWaits(next, new)
  BY DEF RoleEditWaits, RoleCall, Goes, Underway

\* A step that keeps the page on screen.
LEMMA RoleWaitsKept ==
    ASSUME RoleWaits, NEW gone, Goes(roleNet, roleNet', gone), DOMAIN roleTab' = DOMAIN roleTab,
           roleTab'.list = roleTab.list,
           roleTab.edit = None =>
               /\ roleTab'.edit = None
               /\ \A i \in gone : ~RoleCall(roleNet[i], {"roles"}, roleTab.list.n)
                               /\ ~RoleCall(roleNet[i], {"drop"}, roleTab.list.n),
           roleTab.edit # None =>
               /\ DOMAIN roleTab'.edit = DOMAIN roleTab.edit /\ roleTab'.edit.n = roleTab.edit.n
               /\ roleTab'.edit.loading => roleTab.edit.loading /\ \A i \in gone : ~RoleCall(roleNet[i], {"role"}, roleTab.edit.n)
               /\ roleTab'.edit.saving =>
                     \/ roleTab.edit.saving /\ \A i \in gone : ~RoleCall(roleNet[i], {"create", "save"}, roleTab.edit.n)
                     \/ \E op \in {"create", "save"} : \E arg : arg.n = roleTab.edit.n /\ Underway(roleNet', op, arg),
           roleTab.edit = None <=> roleTab'.edit = None
    PROVE  RoleWaits'
<1>1. IsNet(roleNet') /\ RoleListFields \subseteq DOMAIN roleTab'.list
  BY DEF RoleWaits, Goes
<1>2. CASE roleTab.edit = None
  <2>1. RoleListWaits(roleNet', roleTab'.list)
    BY <1>2, RoleListKept DEF RoleWaits
  <2>2. RoleListWaits(roleNet, roleTab.list)'
    BY <2>1 DEF RoleListWaits, RoleCall
  <2> QED
    BY <1>1, <1>2, <2>2 DEF RoleWaits
<1>3. CASE roleTab.edit # None
  <2>1. RoleEditWaits(roleNet', roleTab'.edit)
    BY <1>3, RoleEditKept DEF RoleWaits
  <2>2. RoleEditWaits(roleNet, roleTab.edit)'
    BY <2>1 DEF RoleEditWaits, RoleCall
  <2> QED
    BY <1>1, <1>3, <2>2 DEF RoleWaits
<1> QED
  BY <1>2, <1>3

\* A step that only changes the list on screen.
LEMMA RoleListStep ==
    ASSUME RoleWaits, NEW gone, Goes(roleNet, roleNet', gone), DOMAIN roleTab' = DOMAIN roleTab,
           roleTab.edit = None, roleTab'.edit = None,
           RoleListFields \subseteq DOMAIN roleTab'.list, roleTab'.list.n = roleTab.list.n,
           roleTab'.list.loading => roleTab.list.loading /\ \A i \in gone : ~RoleCall(roleNet[i], {"roles"}, roleTab.list.n),
           roleTab'.list.deleting # None =>
               \/ roleTab.list.deleting # None /\ \A i \in gone : ~RoleCall(roleNet[i], {"drop"}, roleTab.list.n)
               \/ \E arg : arg.n = roleTab.list.n /\ Underway(roleNet', "drop", arg)
    PROVE  RoleWaits'
<1>1. RoleListWaits(roleNet', roleTab'.list)
  BY RoleListKept DEF RoleWaits
<1>2. RoleListWaits(roleNet, roleTab.list)'
  BY <1>1 DEF RoleListWaits, RoleCall
<1> QED
  BY <1>2 DEF RoleWaits, Goes

\* The list is mounted anew.
LEMMA RoleListMounts ==
    ASSUME RoleWaits, NEW gone, Goes(roleNet, roleNet', gone), DOMAIN roleTab' = DOMAIN roleTab,
           NEW n, roleTab'.edit = None, roleTab'.list = RoleListPage(n), Underway(roleNet', "roles", [n |-> n])
    PROVE  RoleWaits'
<1> DEFINE list == RoleListPage(n)
<1>1. RoleListFields \subseteq DOMAIN list /\ list.n = n /\ list.deleting = None
  BY DEF RoleListFields, RoleListPage
<1> HIDE DEF list
<1>2. RoleListWaits(roleNet', list)
  <2>1. \E j \in Pending(roleNet') : RoleCall(roleNet'[j], {"roles"}, n)
    BY DEF Underway, RoleCall
  <2> QED
    BY <1>1, <2>1 DEF RoleListWaits
<1>3. RoleListWaits(roleNet, roleTab.list)'
  BY <1>2 DEF RoleListWaits, RoleCall, list
<1> QED
  BY <1>1, <1>3 DEF RoleWaits, Goes, list

\* It holds at the start.
LEMMA RoleWaitsStart == RolesInit => RoleWaits
<1> SUFFICES ASSUME RolesInit PROVE RoleWaits
  OBVIOUS
<1> DEFINE arg == [n |-> 0]
<1>1. arg.n = 0
  OBVIOUS
<1>2. roleNet = Send(NoCalls, "roles", arg)
  BY DEF RolesInit
<1> HIDE DEF arg
<1>3. Goes(NoCalls, roleNet, {}) /\ Underway(roleNet, "roles", arg)
  BY <1>2, EmptyRoom, NoCallsIsNet, SendGoes
<1>4. roleTab.list.n = 0 /\ roleTab.list.deleting = None /\ roleTab.edit = None
      /\ RoleListFields \subseteq DOMAIN roleTab.list /\ {"list", "edit", "clicks", "calm"} \subseteq DOMAIN roleTab
  BY DEF RolesInit, RoleListPage, RoleListFields
<1>5. \E j \in Pending(roleNet) : RoleCall(roleNet[j], {"roles"}, 0)
  BY <1>1, <1>3 DEF Underway, RoleCall
<1> QED
  BY <1>3, <1>4, <1>5 DEF RoleWaits, RoleListWaits, Goes

\* What is written into an open editor leaves it open.
LEMMA RoleEditOpen ==
    ASSUME NEW edit \in RoleEdit
    PROVE  /\ edit # None /\ RoleEditFields \subseteq DOMAIN edit
           /\ [edit EXCEPT !.saving = TRUE] \in RoleEdit /\ [edit EXCEPT !.saving = FALSE] \in RoleEdit
           /\ [edit EXCEPT !.catalogue = TRUE] \in RoleEdit
           /\ \A s \in SUBSET Permission, t \in SUBSET Permission :
                 [edit EXCEPT !.assigned = s, !.touched = t] \in RoleEdit
           /\ \A r \in RoleType :
                 [edit EXCEPT !.role = r, !.assigned = r.perms, !.touched = {}, !.catalogue = TRUE, !.loading = FALSE]
                     \in RoleEdit
  BY RolesAssumption DEF RoleEdit, RoleType, RoleEditFields

\* Every step keeps it.
LEMMA RoleWaitsStep == RoleWaits /\ RoleTypes /\ [RolesNext]_roleVars => RoleWaits'
<1> SUFFICES ASSUME RoleWaits, RoleTypes, [RolesNext]_roleVars PROVE RoleWaits'
  OBVIOUS
<1>0. /\ {"list", "edit", "clicks", "calm"} \subseteq DOMAIN roleTab /\ RoleListFields \subseteq DOMAIN roleTab.list
      /\ IsNet(roleNet) /\ (roleTab.edit # None => RoleEditFields \subseteq DOMAIN roleTab.edit /\ roleTab.edit \in RoleEdit)
      /\ roleTab.clicks \in Nat
  BY DEF RoleWaits, RoleEditWaits, RoleTypes
<1>1. CASE UNCHANGED <<roleTab, roleNet>>
  BY <1>0, <1>1, StayGoes, RoleWaitsKept
<1>2. ASSUME NEW r, DropRole(r) PROVE RoleWaits'
  <2> DEFINE arg == [id |-> r.id, n |-> roleTab.list.n]
             list == [roleTab.list EXCEPT !.deleting = r.id]
  <2>1. arg.n = roleTab.list.n
    OBVIOUS
  <2>2. RoleListFields \subseteq DOMAIN list /\ list.n = roleTab.list.n /\ list.loading = roleTab.list.loading
    BY <1>0 DEF RoleListFields
  <2>3. DOMAIN roleTab' = DOMAIN roleTab /\ roleTab.edit = None /\ roleTab'.edit = None /\ roleTab'.list = list
    BY <1>0, <1>2 DEF DropRole, StepRole, Pressed
  <2>4. roleNet' = Send(roleNet, "drop", arg) /\ Room(roleNet, 1)
    BY <1>2, Zenon DEF DropRole
  <2> HIDE DEF arg, list
  <2>5. Goes(roleNet, roleNet', {}) /\ Underway(roleNet', "drop", arg)
    BY <1>0, <2>4, SendGoes
  <2> QED
    BY <2>1, <2>2, <2>3, <2>5, RoleListStep
<1>3. ASSUME NEW id, OpenRole(id) PROVE RoleWaits'
  <2> DEFINE n == roleTab.clicks
             arg == [id |-> id, n |-> n]
             edit == EditorOf(id)
  <2>1. arg.n = n /\ RoleEditFields \subseteq DOMAIN edit /\ edit.n = n /\ ~edit.saving /\ (edit.loading => id # None)
    BY DEF EditorOf, RoleEditFields
  <2>2. DOMAIN roleTab' = DOMAIN roleTab /\ roleTab'.edit = edit /\ roleTab'.list = roleTab.list
    BY <1>0, <1>3 DEF OpenRole, StepRole, Pressed
  <2>3. roleNet' = Send(roleNet, IF id = None THEN "catalogue" ELSE "role", arg) /\ Room(roleNet, 1)
    BY <1>3, Zenon DEF OpenRole, LoadRole
  <2>8. edit \in RoleEdit
    BY <1>0, <1>3 DEF OpenRole, EditorOf, RoleEdit, RoleType, RoleTypes
  <2> HIDE DEF arg, edit, n
  <2>4. Goes(roleNet, roleNet', {}) /\ (id # None => Underway(roleNet', "role", arg))
    BY <1>0, <2>3, SendGoes
  <2>5. id # None => \E j \in Pending(roleNet') : RoleCall(roleNet'[j], {"role"}, n)
    BY <2>1, <2>4 DEF Underway, RoleCall
  <2>6. RoleEditWaits(roleNet', roleTab'.edit)
    BY <2>1, <2>2, <2>5 DEF RoleEditWaits
  <2>7. RoleEditWaits(roleNet, roleTab.edit)'
    BY <2>6 DEF RoleEditWaits, RoleCall
  <2> QED
    BY <1>0, <2>2, <2>4, <2>7, <2>8, RoleEditOpen DEF RoleWaits, Goes
<1>4. CASE SessionRenewed
  <2>1. DOMAIN roleTab' = DOMAIN roleTab /\ roleTab'.edit = roleTab.edit /\ roleTab'.list = roleTab.list
    BY <1>0, <1>4 DEF SessionRenewed, StepRole, Pressed
  <2>2. Goes(roleNet, roleNet', {})
    BY <1>0, <1>4, SendGoes DEF SessionRenewed
  <2> QED
    BY <2>1, <2>2, RoleWaitsKept
<1>5. ASSUME NEW p \in Permission, TogglePermission(p) PROVE RoleWaits'
  <2> DEFINE ui == StepRole
             s == IF p \in ui.edit.assigned THEN ui.edit.assigned \ {p} ELSE ui.edit.assigned \cup {p}
             t == ui.edit.touched \cup {p}
             edit == [ui.edit EXCEPT !.assigned = s, !.touched = t]
  <2>1. roleTab.edit # None /\ roleNet' = roleNet
    BY <1>5 DEF TogglePermission
  <2>2. DOMAIN ui = DOMAIN roleTab /\ ui.edit = roleTab.edit /\ ui.list = roleTab.list
    BY <1>0 DEF StepRole, Pressed
  <2>3. roleTab' = [ui EXCEPT !.edit.assigned = IF p \in @ THEN @ \ {p} ELSE @ \cup {p},
                              !.edit.touched = @ \cup {p}]
    BY <1>5, Zenon DEF TogglePermission
  <2> HIDE DEF ui
  <2>4. DOMAIN roleTab' = DOMAIN ui /\ roleTab'.list = ui.list /\ roleTab'.edit = edit
    BY <1>0, <2>1, <2>2, <2>3 DEF RoleEditFields
  <2>5. s \in SUBSET Permission /\ t \in SUBSET Permission
    BY <1>0, <2>1, <2>2 DEF RoleEdit
  <2> HIDE DEF s, t
  <2>6. edit \in RoleEdit /\ edit # None
    BY <1>0, <2>1, <2>2, <2>5, RoleEditOpen
  <2>7. DOMAIN edit = DOMAIN roleTab.edit /\ edit.n = roleTab.edit.n /\ edit.saving = roleTab.edit.saving
        /\ edit.loading = roleTab.edit.loading
    BY <1>0, <2>1, <2>2 DEF RoleEditFields
  <2> HIDE DEF edit
  <2> QED
    BY <1>0, <2>1, <2>2, <2>4, <2>6, <2>7, StayGoes, RoleWaitsKept
<1>6. CASE SaveRole
  <2> DEFINE ui == StepRole
             edit == [ui.edit EXCEPT !.saving = TRUE]
             op == IF roleTab.edit.of = None THEN "create" ELSE "save"
             arg == [id |-> roleTab.edit.of, perms |-> roleTab.edit.assigned,
                     touched |-> roleTab.edit.touched, n |-> roleTab.edit.n]
  <2>1. roleTab.edit # None /\ Room(roleNet, 1)
    BY <1>6 DEF SaveRole
  <2>2. DOMAIN ui = DOMAIN roleTab /\ ui.edit = roleTab.edit /\ ui.list = roleTab.list
    BY <1>0 DEF StepRole, Pressed
  <2>3. roleTab' = [ui EXCEPT !.edit.saving = TRUE]
    BY <1>6, Zenon DEF SaveRole
  <2>4. roleNet' = Send(roleNet, op, arg)
    BY <1>6, Zenon DEF SaveRole
  <2>5. arg.n = roleTab.edit.n /\ op \in {"create", "save"}
    OBVIOUS
  <2> HIDE DEF ui, op, arg
  <2>6. DOMAIN roleTab' = DOMAIN ui /\ roleTab'.list = ui.list /\ roleTab'.edit = edit
    BY <1>0, <2>2, <2>3
  <2>7. edit \in RoleEdit /\ edit # None
    BY <1>0, <2>1, <2>2, RoleEditOpen
  <2>8. DOMAIN edit = DOMAIN roleTab.edit /\ edit.n = roleTab.edit.n /\ edit.loading = roleTab.edit.loading
    BY <1>0, <2>1, <2>2 DEF RoleEditFields
  <2> HIDE DEF edit
  <2>9. Goes(roleNet, roleNet', {}) /\ Underway(roleNet', op, arg)
    BY <1>0, <2>1, <2>4, SendGoes
  <2> QED
    BY <1>0, <2>1, <2>2, <2>5, <2>6, <2>7, <2>8, <2>9, RoleWaitsKept
<1>7. CASE LeaveRole
  <2> DEFINE n == roleTab.clicks
             ui == StepRole
             list == RoleListPage(n)
             arg == [n |-> n]
  <2>1. roleTab' = [ui EXCEPT !.edit = None, !.list = list] /\ roleNet' = Send(roleNet, "roles", arg) /\ Room(roleNet, 1)
    BY <1>7, Zenon DEF LeaveRole
  <2>2. DOMAIN ui = DOMAIN roleTab
    BY <1>0 DEF StepRole, Pressed
  <2> HIDE DEF ui, list, arg
  <2>3. DOMAIN roleTab' = DOMAIN roleTab /\ roleTab'.edit = None /\ roleTab'.list = list
    BY <1>0, <2>1, <2>2
  <2>4. Goes(roleNet, roleNet', {}) /\ Underway(roleNet', "roles", arg)
    BY <1>0, <2>1, SendGoes
  <2> HIDE DEF n
  <2> QED
    BY <2>3, <2>4, RoleListMounts DEF list, arg
<1>8. ASSUME NEW i \in Slot, ServeRoles(i) \/ ServeDropRole(i) \/ ServeRole(i) \/ ServeCreateRole(i) \/ ServeSaveRole(i)
      PROVE  RoleWaits'
  <2>1. /\ roleTab' = roleTab /\ roleNet[i] # Free
        /\ roleNet' = Fail(roleNet, i) \/ \E out : roleNet' = Reply(roleNet, i, out)
    BY <1>8, Zenon DEF ServeRoles, ServeDropRole, ServeRole, ServeCreateRole, ServeSaveRole, Sent
  <2>2. Goes(roleNet, roleNet', {})
    BY <1>0, <2>1, AnswerGoes
  <2> QED
    BY <1>0, <2>1, <2>2, RoleWaitsKept
<1>9. ASSUME NEW i \in Slot, RolesRead(i) PROVE RoleWaits'
  <2>1. Goes(roleNet, roleNet', {i}) /\ roleNet[i].op = "roles"
    BY <1>0, <1>9, EndGoes DEF RolesRead, Settled, Ok, Err
  <2>2. CASE ~OnRoleList(i)
    <3>1. roleTab' = roleTab
      BY <1>9, <2>2 DEF RolesRead
    <3>2. roleTab.edit = None => roleTab.list.n # roleNet[i].arg.n
      BY <2>2 DEF OnRoleList
    <3>3. roleTab.edit # None => ~RoleCall(roleNet[i], {"role"}, roleTab.edit.n)
                                 /\ ~RoleCall(roleNet[i], {"create", "save"}, roleTab.edit.n)
      BY <2>1 DEF RoleCall
    <3>4. roleTab.edit = None => ~RoleCall(roleNet[i], {"roles"}, roleTab.list.n)
                                 /\ ~RoleCall(roleNet[i], {"drop"}, roleTab.list.n)
      BY <3>2 DEF RoleCall
    <3> QED
      BY <2>1, <3>1, <3>3, <3>4, RoleWaitsKept
  <2>3. CASE OnRoleList(i)
    <3>1. /\ roleTab'.edit = None /\ DOMAIN roleTab' = DOMAIN roleTab
          /\ RoleListFields \subseteq DOMAIN roleTab'.list /\ roleTab'.list.n = roleTab.list.n
          /\ ~roleTab'.list.loading /\ roleTab'.list.deleting = roleTab.list.deleting
      BY <1>0, <1>9, <2>3 DEF RolesRead, OnRoleList, RoleListFields
    <3>2. ~RoleCall(roleNet[i], {"drop"}, roleTab.list.n)
      BY <2>1 DEF RoleCall
    <3> QED
      BY <2>1, <2>3, <3>1, <3>2, RoleListStep DEF OnRoleList
  <2> QED
    BY <2>2, <2>3
<1>10. ASSUME NEW i \in Slot, RoleDropped(i) PROVE RoleWaits'
  <2>1. Goes(roleNet, roleNet', {i}) /\ roleNet[i].op = "drop"
    BY <1>0, <1>10, EndGoes DEF RoleDropped, Settled, Ok, Err
  <2>2. CASE ~OnRoleList(i)
    <3>1. roleTab' = roleTab
      BY <1>10, <2>2 DEF RoleDropped
    <3>2. roleTab.edit = None => roleTab.list.n # roleNet[i].arg.n
      BY <2>2 DEF OnRoleList
    <3>3. roleTab.edit # None => ~RoleCall(roleNet[i], {"role"}, roleTab.edit.n)
                                 /\ ~RoleCall(roleNet[i], {"create", "save"}, roleTab.edit.n)
      BY <2>1 DEF RoleCall
    <3>4. roleTab.edit = None => ~RoleCall(roleNet[i], {"roles"}, roleTab.list.n)
                                 /\ ~RoleCall(roleNet[i], {"drop"}, roleTab.list.n)
      BY <3>2 DEF RoleCall
    <3> QED
      BY <2>1, <3>1, <3>3, <3>4, RoleWaitsKept
  <2>3. CASE OnRoleList(i)
    <3>1. /\ roleTab'.edit = None /\ DOMAIN roleTab' = DOMAIN roleTab
          /\ RoleListFields \subseteq DOMAIN roleTab'.list /\ roleTab'.list.n = roleTab.list.n
          /\ roleTab'.list.loading = roleTab.list.loading /\ roleTab'.list.deleting = None
      BY <1>0, <1>10, <2>3 DEF RoleDropped, OnRoleList, RoleListFields
    <3>2. ~RoleCall(roleNet[i], {"roles"}, roleTab.list.n)
      BY <2>1 DEF RoleCall
    <3> QED
      BY <2>1, <2>3, <3>1, <3>2, RoleListStep DEF OnRoleList
  <2> QED
    BY <2>2, <2>3
<1>11. ASSUME NEW i \in Slot, CatalogueRead(i) PROVE RoleWaits'
  <2>1. Goes(roleNet, roleNet', {i}) /\ roleNet[i].op = "catalogue"
    BY <1>0, <1>11, EndGoes DEF CatalogueRead, Settled, Ok, Err
  <2>2. /\ \A n : ~RoleCall(roleNet[i], {"role"}, n) /\ ~RoleCall(roleNet[i], {"create", "save"}, n)
        /\ \A n : ~RoleCall(roleNet[i], {"roles"}, n) /\ ~RoleCall(roleNet[i], {"drop"}, n)
    BY <2>1 DEF RoleCall
  <2>3. CASE roleTab' = roleTab
    BY <2>1, <2>2, <2>3, RoleWaitsKept
  <2>4. CASE OnRole(i) /\ roleTab' = [roleTab EXCEPT !.edit.catalogue = TRUE]
    <3> DEFINE edit == [roleTab.edit EXCEPT !.catalogue = TRUE]
    <3>1. roleTab.edit # None
      BY <2>4 DEF OnRole
    <3>2. edit # None
      BY <1>0, <3>1, RoleEditOpen
    <3>3. DOMAIN roleTab' = DOMAIN roleTab /\ roleTab'.list = roleTab.list /\ roleTab'.edit = edit
      BY <1>0, <2>4
    <3>4. DOMAIN edit = DOMAIN roleTab.edit /\ edit.n = roleTab.edit.n /\ edit.loading = roleTab.edit.loading
          /\ edit.saving = roleTab.edit.saving
      BY <1>0, <3>1 DEF RoleEditFields
    <3> HIDE DEF edit
    <3> QED
      BY <2>1, <2>2, <3>1, <3>2, <3>3, <3>4, RoleWaitsKept
  <2> QED
    BY <1>11, <2>3, <2>4 DEF CatalogueRead
<1>12. ASSUME NEW i \in Slot, RoleRead(i) PROVE RoleWaits'
  <2>1. Goes(roleNet, roleNet', {i}) /\ roleNet[i].op = "role" /\ roleNet[i].out \in RoleType
    BY <1>0, <1>12, EndGoes DEF RoleRead, Ok, RoleTypes, RoleCallTyped, Pending
  <2>2. \A n : ~RoleCall(roleNet[i], {"create", "save"}, n) /\ ~RoleCall(roleNet[i], {"roles"}, n)
               /\ ~RoleCall(roleNet[i], {"drop"}, n)
    BY <2>1 DEF RoleCall
  <2>3. CASE ~OnRole(i)
    <3>1. roleTab' = roleTab
      BY <1>12, <2>3 DEF RoleRead
    <3>2. roleTab.edit # None => ~RoleCall(roleNet[i], {"role"}, roleTab.edit.n)
      BY <2>3 DEF OnRole, RoleCall
    <3> QED
      BY <2>1, <2>2, <3>1, <3>2, RoleWaitsKept
  <2>4. CASE OnRole(i)
    <3> DEFINE out == roleNet[i].out
               edit == [roleTab.edit EXCEPT !.role = out, !.assigned = out.perms, !.touched = {},
                                            !.catalogue = TRUE, !.loading = FALSE]
    <3>1. roleTab.edit # None
      BY <2>4 DEF OnRole
    <3>2. roleTab' = [roleTab EXCEPT !.edit.role = out, !.edit.assigned = out.perms,
                                     !.edit.touched = {}, !.edit.catalogue = TRUE, !.edit.loading = FALSE]
      BY <1>12, <2>4, Zenon DEF RoleRead
    <3>3. out \in RoleType
      BY <2>1
    <3> HIDE DEF out
    <3>4. edit # None
      BY <1>0, <3>1, <3>3, RoleEditOpen
    <3>5. DOMAIN roleTab' = DOMAIN roleTab /\ roleTab'.list = roleTab.list /\ roleTab'.edit = edit
      BY <1>0, <3>2
    <3>6. DOMAIN edit = DOMAIN roleTab.edit /\ edit.n = roleTab.edit.n /\ ~edit.loading
          /\ edit.saving = roleTab.edit.saving
      BY <1>0, <3>1 DEF RoleEditFields
    <3> HIDE DEF edit
    <3> QED
      BY <2>1, <2>2, <3>1, <3>4, <3>5, <3>6, RoleWaitsKept
  <2> QED
    BY <2>3, <2>4
<1>13. ASSUME NEW i \in Slot, RoleSettled(i) PROVE RoleWaits'
  <2>1. CASE ToRoles(i)
    <3> DEFINE n == roleTab.clicks
               list == RoleListPage(n)
               arg == [n |-> n]
    <3>1. roleTab' = [roleTab EXCEPT !.edit = None, !.list = list] /\ roleNet' = Then(roleNet, i, "roles", arg)
      BY <2>1 DEF ToRoles
    <3> HIDE DEF list, arg
    <3>2. DOMAIN roleTab' = DOMAIN roleTab /\ roleTab'.edit = None /\ roleTab'.list = list
      BY <1>0, <3>1
    <3>3. Goes(roleNet, roleNet', {i}) /\ Underway(roleNet', "roles", arg)
      BY <1>0, <3>1, EndGoes
    <3> HIDE DEF n
    <3> QED
      BY <3>2, <3>3, RoleListMounts DEF list, arg
  <2>2. CASE /\ roleNet[i].op \in {"create", "save"} /\ roleNet' = Done(roleNet, i)
             /\ roleTab' = IF OnRole(i) THEN [roleTab EXCEPT !.edit.saving = FALSE] ELSE roleTab
    <3>1. Goes(roleNet, roleNet', {i})
      BY <1>0, <2>2, EndGoes
    <3>2. \A n : ~RoleCall(roleNet[i], {"role"}, n) /\ ~RoleCall(roleNet[i], {"roles"}, n)
                 /\ ~RoleCall(roleNet[i], {"drop"}, n)
      BY <2>2 DEF RoleCall
    <3>3. CASE ~OnRole(i)
      <4>1. roleTab.edit # None => ~RoleCall(roleNet[i], {"create", "save"}, roleTab.edit.n)
        BY <3>3 DEF OnRole, RoleCall
      <4> QED
        BY <2>2, <3>1, <3>2, <3>3, <4>1, RoleWaitsKept
    <3>4. CASE OnRole(i)
      <4> DEFINE edit == [roleTab.edit EXCEPT !.saving = FALSE]
      <4>1. roleTab.edit # None
        BY <3>4 DEF OnRole
      <4>2. edit # None
        BY <1>0, <4>1, RoleEditOpen
      <4>3. DOMAIN roleTab' = DOMAIN roleTab /\ roleTab'.list = roleTab.list /\ roleTab'.edit = edit
        BY <1>0, <2>2, <3>4
      <4>4. DOMAIN edit = DOMAIN roleTab.edit /\ edit.n = roleTab.edit.n /\ ~edit.saving
            /\ edit.loading = roleTab.edit.loading
        BY <1>0, <4>1 DEF RoleEditFields
      <4> HIDE DEF edit
      <4> QED
        BY <3>1, <3>2, <4>1, <4>2, <4>3, <4>4, RoleWaitsKept
    <3> QED
      BY <3>3, <3>4
  <2>3. ToRoles(i) \/ /\ roleNet[i].op \in {"create", "save"} /\ roleNet' = Done(roleNet, i)
                      /\ roleTab' = IF OnRole(i) THEN [roleTab EXCEPT !.edit.saving = FALSE] ELSE roleTab
    BY <1>13 DEF RoleSettled, Err
  <2> QED
    BY <2>1, <2>2, <2>3
<1>14. ASSUME NEW i \in Slot, RoleCallFails(i) PROVE RoleWaits'
  <2>1. roleTab'.list = roleTab.list /\ roleTab'.edit = roleTab.edit /\ DOMAIN roleTab' = DOMAIN roleTab
    BY <1>0, <1>14 DEF RoleCallFails, Missed
  <2>2. Goes(roleNet, roleNet', {})
    BY <1>0, <1>14, AnswerGoes DEF RoleCallFails, CanFail, Pending
  <2> QED
    BY <2>1, <2>2, RoleWaitsKept
<1>15. CASE UNCHANGED roleVars
  BY <1>1, <1>15 DEF roleVars
<1>16. CASE RolesNext
  BY <1>2, <1>3, <1>4, <1>5, <1>6, <1>7, <1>8, <1>9, <1>10, <1>11, <1>12, <1>13, <1>14, <1>16, Zenon DEF RolesNext
<1> QED
  BY <1>15, <1>16

-----------------------------------------------------------------------------
(***************************************************************************)
(* Sharing: the dialog.                                                    *)
(***************************************************************************)
\* A dialog waits for the requests that carry its number.
ShareWaits ==
    /\ IsNet(shareNet)
    /\ share # None =>
          /\ {"of", "roles", "loading", "listed", "saving", "n"} \subseteq DOMAIN share
          /\ share.loading => \E j \in Pending(shareNet) : shareNet[j].op = "perms" /\ shareNet[j].arg.n = share.n
          /\ share.saving => \E j \in Pending(shareNet) : shareNet[j].op = "grant" /\ shareNet[j].arg.n = share.n

\* It is kept when every flag that is up still has a request on its way.
LEMMA ShareWaitsKept ==
    ASSUME ShareWaits, NEW gone, Goes(shareNet, shareNet', gone), share # None, DOMAIN share' = DOMAIN share,
           share'.n = share.n,
           share'.loading => share.loading /\ \A i \in gone : shareNet[i].op # "perms" \/ shareNet[i].arg.n # share.n,
           share'.saving => \/ share.saving /\ \A i \in gone : shareNet[i].op # "grant" \/ shareNet[i].arg.n # share.n
                            \/ \E arg : arg.n = share.n /\ Underway(shareNet', "grant", arg)
    PROVE  ShareWaits'
  BY DEF ShareWaits, Goes, Underway

\* It holds at the start.
LEMMA ShareWaitsStart == ShareInit => ShareWaits
  BY NoCallsIsNet DEF ShareInit, ShareWaits

\* Every step keeps it.
LEMMA ShareWaitsStep == ShareWaits /\ [ShareNext]_shareVars => ShareWaits'
<1> SUFFICES ASSUME ShareWaits, [ShareNext]_shareVars PROVE ShareWaits'
  OBVIOUS
<1> USE DEF ShareWaits
<1>1. CASE UNCHANGED <<share, shareNet>>
  BY <1>1, Zenon
<1>2. ASSUME NEW s \in Shared, OpenShare(s) PROVE ShareWaits'
  <2> DEFINE arg == [of |-> s, n |-> shareLog.clicks]
  <2>1. /\ {"of", "roles", "loading", "listed", "saving", "n"} \subseteq DOMAIN share'
        /\ share'.loading /\ ~share'.saving /\ share'.n = shareLog.clicks /\ arg.n = shareLog.clicks
    BY <1>2 DEF OpenShare
  <2> HIDE DEF arg
  <2>2. Goes(shareNet, shareNet', {}) /\ Underway(shareNet', "perms", arg)
    BY <1>2, SendGoes DEF OpenShare, arg
  <2> QED
    BY <2>1, <2>2 DEF Goes, Underway
<1>3. CASE CloseShare
  BY <1>3 DEF CloseShare
<1>4. ASSUME NEW r \in Reader, ToggleRole(r) PROVE ShareWaits'
  <2>1. /\ share # None /\ DOMAIN share' = DOMAIN share /\ share'.n = share.n
        /\ share'.loading = share.loading /\ share'.saving = share.saving /\ shareNet' = shareNet
    BY <1>4 DEF ToggleRole
  <2> QED
    BY <2>1, StayGoes, ShareWaitsKept
<1>5. CASE SaveShare
  <2>1. share # None /\ DOMAIN share' = DOMAIN share /\ share'.n = share.n /\ share'.loading = share.loading
    BY <1>5 DEF SaveShare
  <2>2. Goes(shareNet, shareNet', {}) /\ Underway(shareNet', "grant", share)
    BY <1>5, SendGoes DEF SaveShare
  <2> QED
    BY <2>1, <2>2, ShareWaitsKept
<1>6. ASSUME NEW i \in Slot, ServePerms(i) \/ ServeGrant(i) \/ ShareCallFails(i) PROVE ShareWaits'
  <2>1. share' = share
    BY <1>6 DEF ServePerms, ServeGrant, ShareCallFails
  <2>2. Goes(shareNet, shareNet', {})
    BY <1>6, AnswerGoes DEF ServePerms, ServeGrant, ShareCallFails, Sent, CanFail, Pending
  <2>3. CASE share = None
    BY <2>1, <2>2, <2>3 DEF Goes
  <2>4. CASE share # None
    BY <2>1, <2>2, <2>4, ShareWaitsKept
  <2> QED
    BY <2>3, <2>4
<1>7. ASSUME NEW i \in Slot, PermsRead(i) PROVE ShareWaits'
  <2>1. Goes(shareNet, shareNet', {i}) /\ shareNet[i].op = "perms"
    BY <1>7, EndGoes DEF PermsRead, Settled, Ok, Err
  <2>2. CASE share = None
    <3>1. share' = share
      BY <1>7, <2>2 DEF PermsRead, Mine
    <3> QED
      BY <2>1, <2>2, <3>1 DEF Goes
  <2>3. CASE share # None
    <3>1. /\ DOMAIN share' = DOMAIN share /\ share'.n = share.n /\ share'.saving = share.saving
          /\ share'.loading => share.loading /\ shareNet[i].arg.n # share.n
      BY <1>7, <2>3 DEF PermsRead, Mine
    <3> QED
      BY <2>1, <2>3, <3>1, ShareWaitsKept
  <2> QED
    BY <2>2, <2>3
<1>8. ASSUME NEW i \in Slot, Granted(i) PROVE ShareWaits'
  <2>1. Goes(shareNet, shareNet', {i}) /\ shareNet[i].op = "grant"
    BY <1>8, EndGoes DEF Granted, Settled, Ok, Err
  <2>2. CASE share = None \/ Ok(shareNet, i, "grant")
    <3>1. share' = None
      BY <1>8, <2>2 DEF Granted, Mine
    <3> QED
      BY <2>1, <3>1 DEF Goes
  <2>3. CASE share # None /\ ~Ok(shareNet, i, "grant")
    <3>1. /\ DOMAIN share' = DOMAIN share /\ share'.n = share.n /\ share'.loading = share.loading
          /\ share'.saving => share.saving /\ shareNet[i].arg.n # share.n
      BY <1>8, <2>3 DEF Granted, Mine
    <3> QED
      BY <2>1, <2>3, <3>1, ShareWaitsKept
  <2> QED
    BY <2>2, <2>3
<1> QED
  BY <1>1, <1>2, <1>3, <1>4, <1>5, <1>6, <1>7, <1>8 DEF ShareNext, shareVars

-----------------------------------------------------------------------------
(***************************************************************************)
(* Connections: the list, a test and the form.                             *)
(***************************************************************************)
\* The form waits for a request of its own: its number is in it.
ConnWaits ==
    /\ {"rows", "loading", "known", "form", "testing", "clicks", "calm"} \subseteq DOMAIN connUi
    /\ IsNet(connNet)
    /\ connUi.loading => \E j \in Pending(connNet) : connNet[j].op = "conns"
    /\ connUi.testing # None => \E j \in Pending(connNet) : connNet[j].op = "test"
    /\ connUi.form # None =>
          /\ {"editing", "saving", "n"} \subseteq DOMAIN connUi.form
          /\ connUi.form.saving => \E j \in Pending(connNet) : connNet[j].op \in {"create", "update"}
                                                            /\ connNet[j].arg.n = connUi.form.n

\* It is kept when every flag that is up still has a request on its way.
LEMMA ConnWaitsKept ==
    ASSUME ConnWaits, NEW gone, Goes(connNet, connNet', gone), DOMAIN connUi' = DOMAIN connUi,
           connUi'.loading => connUi.loading /\ \A i \in gone : connNet[i].op # "conns",
           connUi'.testing # None => \/ connUi.testing # None /\ \A i \in gone : connNet[i].op # "test"
                                     \/ \E arg : Underway(connNet', "test", arg),
           \/ connUi'.form = None
           \/ /\ connUi.form # None /\ DOMAIN connUi'.form = DOMAIN connUi.form /\ connUi'.form.n = connUi.form.n
              /\ connUi'.form.saving =>
                    \/ /\ connUi.form.saving
                       /\ \A i \in gone : connNet[i].op \notin {"create", "update"} \/ connNet[i].arg.n # connUi.form.n
                    \/ \E op \in {"create", "update"} : \E arg : arg.n = connUi.form.n /\ Underway(connNet', op, arg)
           \/ {"editing", "saving", "n"} \subseteq DOMAIN connUi'.form /\ ~connUi'.form.saving
    PROVE  ConnWaits'
<1> USE DEF ConnWaits
<1>1. connUi'.loading => \E j \in Pending(connNet') : connNet'[j].op = "conns"
  BY DEF Goes
<1>2. connUi'.testing # None => \E j \in Pending(connNet') : connNet'[j].op = "test"
  BY DEF Goes, Underway
<1>3. connUi'.form # None =>
          /\ {"editing", "saving", "n"} \subseteq DOMAIN connUi'.form
          /\ connUi'.form.saving => \E j \in Pending(connNet') : connNet'[j].op \in {"create", "update"}
                                                              /\ connNet'[j].arg.n = connUi'.form.n
  BY DEF Goes, Underway
<1> QED
  BY <1>1, <1>2, <1>3 DEF Goes

\* It holds at the start.
LEMMA ConnWaitsStart == ConnsInit => ConnWaits
<1> SUFFICES ASSUME ConnsInit PROVE ConnWaits
  OBVIOUS
<1>1. Goes(NoCalls, connNet, {}) /\ Underway(connNet, "conns", None)
  BY EmptyRoom, NoCallsIsNet, SendGoes DEF ConnsInit
<1> QED
  BY <1>1 DEF ConnsInit, ConnWaits, Goes, Underway

\* Every step keeps it.
LEMMA ConnWaitsStep == ConnWaits /\ [ConnsNext]_connVars => ConnWaits'
<1> SUFFICES ASSUME ConnWaits, [ConnsNext]_connVars PROVE ConnWaits'
  OBVIOUS
<1> USE DEF ConnWaits
<1> DEFINE Same == /\ DOMAIN connUi' = DOMAIN connUi /\ connUi'.loading = connUi.loading
                   /\ connUi'.form = connUi.form /\ connUi'.testing = connUi.testing
<1>1. CASE UNCHANGED <<connUi, connNet>>
  BY <1>1, Zenon
<1>2. ASSUME NEW c, DeleteConn(c) PROVE ConnWaits'
  <2>1. Same
    BY <1>2 DEF DeleteConn, StepConn, Pressed
  <2>2. Goes(connNet, connNet', {})
    BY <1>2, SendGoes DEF DeleteConn, PressConn
  <2> QED
    BY <2>1, <2>2, ConnWaitsKept
<1>3. ASSUME NEW c, TestConn(c) PROVE ConnWaits'
  <2>1. DOMAIN connUi' = DOMAIN connUi /\ connUi'.loading = connUi.loading /\ connUi'.form = connUi.form
    BY <1>3 DEF TestConn, StepConn, Pressed
  <2>2. Goes(connNet, connNet', {}) /\ \E arg : Underway(connNet', "test", arg)
    BY <1>3, SendGoes DEF TestConn, PressConn
  <2> QED
    BY <2>1, <2>2, ConnWaitsKept
<1>4. ASSUME NEW c, OpenForm(c) PROVE ConnWaits'
  <2>1. /\ DOMAIN connUi' = DOMAIN connUi /\ connUi'.loading = connUi.loading /\ connUi'.testing = connUi.testing
        /\ {"editing", "saving", "n"} \subseteq DOMAIN connUi'.form /\ ~connUi'.form.saving /\ connNet' = connNet
    BY <1>4 DEF OpenForm
  <2> QED
    BY <2>1, StayGoes, ConnWaitsKept
<1>5. CASE CloseForm
  <2>1. /\ DOMAIN connUi' = DOMAIN connUi /\ connUi'.loading = connUi.loading /\ connUi'.testing = connUi.testing
        /\ connUi'.form = None /\ connNet' = connNet
    BY <1>5 DEF CloseForm
  <2> QED
    BY <2>1, StayGoes, ConnWaitsKept
<1>6. ASSUME NEW p, NEW s, NEW k, SubmitForm(p, s, k) PROVE ConnWaits'
  <2> DEFINE editing == connUi.form.editing
             op == IF editing = None THEN "create" ELSE "update"
             arg == [id |-> IF editing = None THEN None ELSE editing.id, provider |-> p,
                     config |-> s, secret |-> k, n |-> connUi.form.n]
             form == [connUi.form EXCEPT !.saving = TRUE]
  <2>1. op \in {"create", "update"} /\ arg.n = connUi.form.n
    OBVIOUS
  <2>2. connUi.form # None /\ DOMAIN form = DOMAIN connUi.form /\ form.n = connUi.form.n
    BY <1>6 DEF SubmitForm
  <2>3. /\ DOMAIN connUi' = DOMAIN connUi /\ connUi'.loading = connUi.loading
        /\ connUi'.testing = connUi.testing /\ connUi'.form = form
    BY <1>6 DEF SubmitForm, StepConn, Pressed
  <2>4. connNet' = Send(connNet, op, arg) /\ Room(connNet, 1)
    BY <1>6 DEF SubmitForm, PressConn
  <2> HIDE DEF op, arg, form
  <2>5. Goes(connNet, connNet', {}) /\ Underway(connNet', op, arg)
    BY <2>4, SendGoes
  <2> QED
    BY <2>1, <2>2, <2>3, <2>5, ConnWaitsKept
<1>7. ASSUME NEW i \in Slot, \/ ServeConns(i) \/ ServeConnDelete(i) \/ ServeTest(i) \/ BeginCreate(i)
                             \/ CommitCreate(i) \/ ServeUpdate(i) \/ ConnCallFails(i)
      PROVE  ConnWaits'
  <2>1. Same
    BY <1>7 DEF ServeConns, ServeConnDelete, ServeTest, BeginCreate, CommitCreate, ServeUpdate, ConnCallFails, Missed
  <2>2. /\ connNet[i] # Free
        /\ connNet' = Fail(connNet, i) \/ connNet' = Begin(connNet, i, None) \/ \E out : connNet' = Reply(connNet, i, out)
    BY <1>7, Zenon DEF ServeConns, ServeConnDelete, ServeTest, BeginCreate, CommitCreate, ServeUpdate, ConnCallFails,
       Sent, Open, CanFail, Pending
  <2>3. Goes(connNet, connNet', {})
    BY <2>2, AnswerGoes
  <2> QED
    BY <2>1, <2>3, ConnWaitsKept
<1>8. ASSUME NEW i \in Slot, ConnsRead(i) PROVE ConnWaits'
  <2>1. /\ DOMAIN connUi' = DOMAIN connUi /\ ~connUi'.loading
        /\ connUi'.testing = connUi.testing /\ connUi'.form = connUi.form
    BY <1>8 DEF ConnsRead
  <2>2. Goes(connNet, connNet', {i}) /\ connNet[i].op = "conns"
    BY <1>8, EndGoes DEF ConnsRead, Settled, Ok, Err
  <2> QED
    BY <2>1, <2>2, ConnWaitsKept
<1>9. ASSUME NEW i \in Slot, ConnDeleted(i) PROVE ConnWaits'
  <2>1. Same
    BY <1>9 DEF ConnDeleted
  <2>2. Goes(connNet, connNet', {i}) /\ connNet[i].op = "delete"
    BY <1>9, EndGoes DEF ConnDeleted, Settled, Ok, Err
  <2> QED
    BY <2>1, <2>2, ConnWaitsKept
<1>10. ASSUME NEW i \in Slot, ConnTested(i) PROVE ConnWaits'
  <2>1. /\ DOMAIN connUi' = DOMAIN connUi /\ connUi'.loading = connUi.loading
        /\ connUi'.testing = None /\ connUi'.form = connUi.form
    BY <1>10 DEF ConnTested
  <2>2. Goes(connNet, connNet', {i}) /\ connNet[i].op = "test"
    BY <1>10, EndGoes DEF ConnTested, Settled, Ok, Err
  <2> QED
    BY <2>1, <2>2, ConnWaitsKept
<1>11. ASSUME NEW i \in Slot, ConnSaved(i) PROVE ConnWaits'
  <2>1. connNet[i].op \in {"create", "update"} /\ Goes(connNet, connNet', {i})
    <3>1. Ok(connNet, i, "create") \/ Err(connNet, i, "create") \/ Ok(connNet, i, "update") \/ Err(connNet, i, "update")
      BY <1>11, Zenon DEF ConnSaved
    <3>2. connNet' = Done(connNet, i) \/ \E op, arg : connNet' = Then(connNet, i, op, arg)
      BY <1>11, SMTT(40) DEF ConnSaved
    <3>3. connNet[i].op \in {"create", "update"}
      BY <3>1 DEF Ok, Err
    <3> QED
      BY <3>2, <3>3, EndGoes
  <2>2. CASE connUi' = [connUi EXCEPT !.form = None]
    <3>1. /\ DOMAIN connUi' = DOMAIN connUi /\ connUi'.loading = connUi.loading
          /\ connUi'.testing = connUi.testing /\ connUi'.form = None
      BY <2>2
    <3> QED
      BY <2>1, <3>1, ConnWaitsKept
  <2>3. CASE connUi.form # None /\ connUi.form.n = connNet[i].arg.n /\ connUi' = [connUi EXCEPT !.form.saving = FALSE]
    <3> DEFINE form == [connUi.form EXCEPT !.saving = FALSE]
    <3>1. /\ DOMAIN connUi' = DOMAIN connUi /\ connUi'.loading = connUi.loading
          /\ connUi'.testing = connUi.testing /\ connUi'.form = form
      BY <2>3
    <3>2. {"editing", "saving", "n"} \subseteq DOMAIN form /\ ~form.saving
      BY <2>3
    <3> HIDE DEF form
    <3> QED
      BY <2>1, <3>1, <3>2, ConnWaitsKept
  <2>4. CASE ~(connUi.form # None /\ connUi.form.n = connNet[i].arg.n) /\ connUi' = connUi
    BY <2>1, <2>4, ConnWaitsKept
  <2> QED
    BY <1>11, <2>2, <2>3, <2>4, Zenon DEF ConnSaved
<1> QED
  BY <1>1, <1>2, <1>3, <1>4, <1>5, <1>6, <1>7, <1>8, <1>9, <1>10, <1>11 DEF ConnsNext, connVars

-----------------------------------------------------------------------------
(***************************************************************************)
(* Pipelines: the page of connections over requests of its own.            *)
(***************************************************************************)
\* The form waits for a request of its own: its number is in it.
PipeWaits ==
    /\ {"rows", "loading", "known", "form", "testing", "clicks", "calm"} \subseteq DOMAIN pipeUi
    /\ IsNet(pipeNet)
    /\ pipeUi.loading => \E j \in Pending(pipeNet) : pipeNet[j].op = "conns"
    /\ pipeUi.testing # None => \E j \in Pending(pipeNet) : pipeNet[j].op = "test"
    /\ pipeUi.form # None =>
          /\ {"editing", "saving", "n"} \subseteq DOMAIN pipeUi.form
          /\ pipeUi.form.saving => \E j \in Pending(pipeNet) : pipeNet[j].op \in {"create", "update"}
                                                            /\ pipeNet[j].arg.n = pipeUi.form.n

\* It is kept when every flag that is up still has a request on its way.
LEMMA PipeWaitsKept ==
    ASSUME PipeWaits, NEW gone, Goes(pipeNet, pipeNet', gone), DOMAIN pipeUi' = DOMAIN pipeUi,
           pipeUi'.loading => pipeUi.loading /\ \A i \in gone : pipeNet[i].op # "conns",
           pipeUi'.testing # None => \/ pipeUi.testing # None /\ \A i \in gone : pipeNet[i].op # "test"
                                     \/ \E arg : Underway(pipeNet', "test", arg),
           \/ pipeUi'.form = None
           \/ /\ pipeUi.form # None /\ DOMAIN pipeUi'.form = DOMAIN pipeUi.form /\ pipeUi'.form.n = pipeUi.form.n
              /\ pipeUi'.form.saving =>
                    \/ /\ pipeUi.form.saving
                       /\ \A i \in gone : pipeNet[i].op \notin {"create", "update"} \/ pipeNet[i].arg.n # pipeUi.form.n
                    \/ \E op \in {"create", "update"} : \E arg : arg.n = pipeUi.form.n /\ Underway(pipeNet', op, arg)
           \/ {"editing", "saving", "n"} \subseteq DOMAIN pipeUi'.form /\ ~pipeUi'.form.saving
    PROVE  PipeWaits'
<1> USE DEF PipeWaits
<1>1. pipeUi'.loading => \E j \in Pending(pipeNet') : pipeNet'[j].op = "conns"
  BY DEF Goes
<1>2. pipeUi'.testing # None => \E j \in Pending(pipeNet') : pipeNet'[j].op = "test"
  BY DEF Goes, Underway
<1>3. pipeUi'.form # None =>
          /\ {"editing", "saving", "n"} \subseteq DOMAIN pipeUi'.form
          /\ pipeUi'.form.saving => \E j \in Pending(pipeNet') : pipeNet'[j].op \in {"create", "update"}
                                                              /\ pipeNet'[j].arg.n = pipeUi'.form.n
  BY DEF Goes, Underway
<1> QED
  BY <1>1, <1>2, <1>3 DEF Goes

\* The page's copy of Calls is Calls.
LEMMA PipeCalls ==
    /\ P!NoCalls = NoCalls
    /\ \A net : P!Pending(net) = Pending(net)
    /\ \A net, n : P!Room(net, n) <=> Room(net, n)
    /\ \A net, op, arg : P!Send(net, op, arg) = Send(net, op, arg)
    /\ \A net, i, op : /\ P!Sent(net, i, op) <=> Sent(net, i, op)
                       /\ P!Open(net, i, op) <=> Open(net, i, op)
                       /\ P!Ok(net, i, op) <=> Ok(net, i, op)
                       /\ P!Err(net, i, op) <=> Err(net, i, op)
    /\ \A net, i, out : P!Reply(net, i, out) = Reply(net, i, out) /\ P!Begin(net, i, out) = Begin(net, i, out)
    /\ \A net, i : P!Fail(net, i) = Fail(net, i) /\ P!Done(net, i) = Done(net, i)
    /\ \A net, i, op, arg : P!Then(net, i, op, arg) = Then(net, i, op, arg)
<1>1. P!Free = Free /\ P!Slot = Slot
  BY DEF P!Free, Free, P!Slot, Slot
<1>2. P!NoCalls = NoCalls /\ \A net : P!Pending(net) = Pending(net)
  <2>1. P!NoCalls = NoCalls
    BY <1>1 DEF P!NoCalls, NoCalls
  <2>2. \A net : P!Pending(net) = Pending(net)
    BY <1>1 DEF P!Pending, Pending
  <2> QED
    BY <2>1, <2>2
<1>3. \A net, n : P!Room(net, n) <=> Room(net, n)
  <2>1. \A S : P!Cardinality(S) = Cardinality(S)
    BY Zenon DEF P!Cardinality, Cardinality
  <2> QED
    BY <1>1, <1>2, <2>1 DEF P!Room, Room
<1>4. \A net, op, arg : P!Send(net, op, arg) = Send(net, op, arg)
  BY <1>1, <1>2, Zenon DEF P!Send, Send, P!Call, Call
<1>5. \A net, i, op : /\ P!Sent(net, i, op) <=> Sent(net, i, op)
                      /\ P!Open(net, i, op) <=> Open(net, i, op)
                      /\ P!Ok(net, i, op) <=> Ok(net, i, op)
                      /\ P!Err(net, i, op) <=> Err(net, i, op)
  BY <1>1 DEF P!Sent, Sent, P!Open, Open, P!Ok, Ok, P!Err, Err
<1>6. \A net, i, out : P!Reply(net, i, out) = Reply(net, i, out) /\ P!Begin(net, i, out) = Begin(net, i, out)
  BY DEF P!Reply, Reply, P!Begin, Begin
<1>7. \A net, i : P!Fail(net, i) = Fail(net, i) /\ P!Done(net, i) = Done(net, i)
  BY <1>1 DEF P!Fail, Fail, P!Done, Done
<1>8. \A net, i, op, arg : P!Then(net, i, op, arg) = Then(net, i, op, arg)
  BY DEF P!Then, Then, P!Call, Call
<1> QED
  BY <1>2, <1>3, <1>4, <1>5, <1>6, <1>7, <1>8

\* It holds at the start.
LEMMA PipeWaitsStart == PipesInit => PipeWaits
<1> SUFFICES ASSUME PipesInit PROVE PipeWaits
  OBVIOUS
<1>1. Goes(NoCalls, pipeNet, {}) /\ Underway(pipeNet, "conns", None)
  BY EmptyRoom, NoCallsIsNet, SendGoes, PipeCalls DEF PipesInit, P!ConnsInit
<1> QED
  BY <1>1, PipeCalls DEF PipesInit, P!ConnsInit, PipeWaits, Goes, Underway

\* Every step keeps it.
LEMMA PipeWaitsStep == PipeWaits /\ [PipesNext]_pipeVars => PipeWaits'
<1> SUFFICES ASSUME PipeWaits, [PipesNext]_pipeVars PROVE PipeWaits'
  OBVIOUS
<1> USE DEF PipeWaits
<1> DEFINE Same == /\ DOMAIN pipeUi' = DOMAIN pipeUi /\ pipeUi'.loading = pipeUi.loading
                   /\ pipeUi'.form = pipeUi.form /\ pipeUi'.testing = pipeUi.testing
<1>1. CASE UNCHANGED <<pipeUi, pipeNet>>
  BY <1>1, Zenon
<1>2. ASSUME NEW c, DeletePipe(c) PROVE PipeWaits'
  <2>1. Same
    BY <1>2, PipeCalls DEF DeletePipe, P!DeleteConn, P!StepConn, P!Pressed
  <2>2. Goes(pipeNet, pipeNet', {})
    BY <1>2, SendGoes, PipeCalls DEF DeletePipe, P!DeleteConn, P!PressConn
  <2> QED
    BY <2>1, <2>2, PipeWaitsKept
<1>3. ASSUME NEW c, TestPipe(c) PROVE PipeWaits'
  <2>1. DOMAIN pipeUi' = DOMAIN pipeUi /\ pipeUi'.loading = pipeUi.loading /\ pipeUi'.form = pipeUi.form
    BY <1>3, PipeCalls DEF TestPipe, P!TestConn, P!StepConn, P!Pressed
  <2>2. Goes(pipeNet, pipeNet', {}) /\ \E arg : Underway(pipeNet', "test", arg)
    BY <1>3, SendGoes, PipeCalls DEF TestPipe, P!TestConn, P!PressConn
  <2> QED
    BY <2>1, <2>2, PipeWaitsKept
<1>4. ASSUME NEW c, OpenPipeForm(c) PROVE PipeWaits'
  <2>1. /\ DOMAIN pipeUi' = DOMAIN pipeUi /\ pipeUi'.loading = pipeUi.loading /\ pipeUi'.testing = pipeUi.testing
        /\ {"editing", "saving", "n"} \subseteq DOMAIN pipeUi'.form /\ ~pipeUi'.form.saving /\ pipeNet' = pipeNet
    BY <1>4, PipeCalls DEF OpenPipeForm, P!OpenForm
  <2> QED
    BY <2>1, StayGoes, PipeWaitsKept
<1>5. CASE ClosePipeForm
  <2>1. /\ DOMAIN pipeUi' = DOMAIN pipeUi /\ pipeUi'.loading = pipeUi.loading /\ pipeUi'.testing = pipeUi.testing
        /\ pipeUi'.form = None /\ pipeNet' = pipeNet
    BY <1>5, PipeCalls DEF ClosePipeForm, P!CloseForm
  <2> QED
    BY <2>1, StayGoes, PipeWaitsKept
<1>6. ASSUME NEW p, NEW s, NEW k, SubmitPipe(p, s, k) PROVE PipeWaits'
  <2> DEFINE editing == pipeUi.form.editing
             op == IF editing = None THEN "create" ELSE "update"
             arg == [id |-> IF editing = None THEN None ELSE editing.id, provider |-> p,
                     config |-> s, secret |-> k, n |-> pipeUi.form.n]
             form == [pipeUi.form EXCEPT !.saving = TRUE]
  <2>1. op \in {"create", "update"} /\ arg.n = pipeUi.form.n
    OBVIOUS
  <2>2. pipeUi.form # None /\ DOMAIN form = DOMAIN pipeUi.form /\ form.n = pipeUi.form.n
    BY <1>6, PipeCalls DEF SubmitPipe, P!SubmitForm
  <2>3. /\ DOMAIN pipeUi' = DOMAIN pipeUi /\ pipeUi'.loading = pipeUi.loading
        /\ pipeUi'.testing = pipeUi.testing /\ pipeUi'.form = form
    BY <1>6, PipeCalls DEF SubmitPipe, P!SubmitForm, P!StepConn, P!Pressed
  <2>4. pipeNet' = Send(pipeNet, op, arg) /\ Room(pipeNet, 1)
    BY <1>6, PipeCalls DEF SubmitPipe, P!SubmitForm, P!PressConn
  <2> HIDE DEF op, arg, form
  <2>5. Goes(pipeNet, pipeNet', {}) /\ Underway(pipeNet', op, arg)
    BY <2>4, SendGoes
  <2> QED
    BY <2>1, <2>2, <2>3, <2>5, PipeWaitsKept
<1>7. ASSUME NEW i \in Slot, \/ ServePipes(i) \/ ServePipeDelete(i) \/ ServePipeTest(i) \/ BeginPipeCreate(i)
                             \/ CommitPipeCreate(i) \/ ServePipeUpdate(i) \/ P!ConnCallFails(i)
      PROVE  PipeWaits'
  <2>1. Same
    BY <1>7, PipeCalls DEF ServePipes, P!ServeConns, ServePipeDelete, P!ServeConnDelete, ServePipeTest, P!ServeTest,
       BeginPipeCreate, P!BeginCreate, CommitPipeCreate, P!CommitCreate, ServePipeUpdate, P!ServeUpdate,
       P!ConnCallFails, P!Missed
  <2>2. \/ pipeNet' = P!Fail(pipeNet, i) \/ pipeNet' = P!Begin(pipeNet, i, None)
        \/ \E out : pipeNet' = P!Reply(pipeNet, i, out)
    BY <1>7, Zenon DEF ServePipes, P!ServeConns, ServePipeDelete, P!ServeConnDelete, ServePipeTest, P!ServeTest,
       BeginPipeCreate, P!BeginCreate, CommitPipeCreate, P!CommitCreate, ServePipeUpdate, P!ServeUpdate, P!ConnCallFails
  <2>3. (\E op : P!Sent(pipeNet, i, op) \/ P!Open(pipeNet, i, op)) \/ i \in P!Pending(pipeNet)
    BY <1>7, Zenon DEF ServePipes, P!ServeConns, ServePipeDelete, P!ServeConnDelete, ServePipeTest, P!ServeTest,
       BeginPipeCreate, P!BeginCreate, CommitPipeCreate, P!CommitCreate, ServePipeUpdate, P!ServeUpdate, P!ConnCallFails,
       P!CanFail
  <2>4. pipeNet[i] # Free
    BY <2>3, PipeCalls DEF Sent, Open, Pending
  <2>5. Goes(pipeNet, pipeNet', {})
    BY <2>2, <2>4, PipeCalls, AnswerGoes
  <2> QED
    BY <2>1, <2>5, PipeWaitsKept
<1>8. ASSUME NEW i \in Slot, PipesRead(i) PROVE PipeWaits'
  <2>1. /\ DOMAIN pipeUi' = DOMAIN pipeUi /\ ~pipeUi'.loading
        /\ pipeUi'.testing = pipeUi.testing /\ pipeUi'.form = pipeUi.form
    BY <1>8, PipeCalls DEF PipesRead, P!ConnsRead
  <2>2. Goes(pipeNet, pipeNet', {i}) /\ pipeNet[i].op = "conns"
    BY <1>8, EndGoes, PipeCalls DEF PipesRead, P!ConnsRead, P!Settled, Ok, Err
  <2> QED
    BY <2>1, <2>2, PipeWaitsKept
<1>9. ASSUME NEW i \in Slot, PipeDeleted(i) PROVE PipeWaits'
  <2>1. Same
    BY <1>9, PipeCalls DEF PipeDeleted, P!ConnDeleted
  <2>2. Goes(pipeNet, pipeNet', {i}) /\ pipeNet[i].op = "delete"
    BY <1>9, EndGoes, PipeCalls, SMTT(40) DEF PipeDeleted, P!ConnDeleted, P!Settled, Ok, Err
  <2> QED
    BY <2>1, <2>2, PipeWaitsKept
<1>10. ASSUME NEW i \in Slot, PipeTested(i) PROVE PipeWaits'
  <2>1. /\ DOMAIN pipeUi' = DOMAIN pipeUi /\ pipeUi'.loading = pipeUi.loading
        /\ pipeUi'.testing = None /\ pipeUi'.form = pipeUi.form
    BY <1>10, PipeCalls DEF PipeTested, P!ConnTested
  <2>2. Goes(pipeNet, pipeNet', {i}) /\ pipeNet[i].op = "test"
    BY <1>10, EndGoes, PipeCalls DEF PipeTested, P!ConnTested, P!Settled, Ok, Err
  <2> QED
    BY <2>1, <2>2, PipeWaitsKept
<1>11. ASSUME NEW i \in Slot, PipeSaved(i) PROVE PipeWaits'
  <2>0. /\ \E op \in {"create", "update"} : P!Ok(pipeNet, i, op) \/ P!Err(pipeNet, i, op)
        /\ pipeNet' = P!Then(pipeNet, i, "conns", None) \/ pipeNet' = P!Done(pipeNet, i)
    BY <1>11, Zenon DEF PipeSaved, P!ConnSaved
  <2>1. pipeNet[i].op \in {"create", "update"} /\ Goes(pipeNet, pipeNet', {i})
    <3>1. pipeNet[i].op \in {"create", "update"}
      BY <2>0, PipeCalls DEF Ok, Err
    <3>2. pipeNet' = Then(pipeNet, i, "conns", None) \/ pipeNet' = Done(pipeNet, i)
      BY <2>0, PipeCalls
    <3> QED
      BY <3>1, <3>2, EndGoes
  <2>2. CASE pipeUi' = [pipeUi EXCEPT !.form = None]
    <3>1. /\ DOMAIN pipeUi' = DOMAIN pipeUi /\ pipeUi'.loading = pipeUi.loading
          /\ pipeUi'.testing = pipeUi.testing /\ pipeUi'.form = None
      BY <2>2
    <3> QED
      BY <2>1, <3>1, PipeWaitsKept
  <2>3. CASE pipeUi.form # None /\ pipeUi.form.n = pipeNet[i].arg.n /\ pipeUi' = [pipeUi EXCEPT !.form.saving = FALSE]
    <3> DEFINE form == [pipeUi.form EXCEPT !.saving = FALSE]
    <3>1. /\ DOMAIN pipeUi' = DOMAIN pipeUi /\ pipeUi'.loading = pipeUi.loading
          /\ pipeUi'.testing = pipeUi.testing /\ pipeUi'.form = form
      BY <2>3
    <3>2. {"editing", "saving", "n"} \subseteq DOMAIN form /\ ~form.saving
      BY <2>3
    <3> HIDE DEF form
    <3> QED
      BY <2>1, <3>1, <3>2, PipeWaitsKept
  <2>4. CASE ~(pipeUi.form # None /\ pipeUi.form.n = pipeNet[i].arg.n) /\ pipeUi' = pipeUi
    BY <2>1, <2>4, PipeWaitsKept
  <2> QED
    BY <1>11, <2>2, <2>3, <2>4, Zenon DEF PipeSaved, P!ConnSaved
<1> QED
  BY <1>1, <1>2, <1>3, <1>4, <1>5, <1>6, <1>7, <1>8, <1>9, <1>10, <1>11 DEF PipesNext, pipeVars

-----------------------------------------------------------------------------
(***************************************************************************)
(* Warehouses: a test, an action on a row and the form.                    *)
(***************************************************************************)
\* The calls a row waits for: the list read after set-default is one of them.
WhActs(c) == c.op \in {"default", "whdelete"} \/ (c.op = "whs" /\ c.arg = "default")

WhSaves(c, n) == c.op \in {"whcreate", "whupdate"} /\ c.arg.n = n

WhWaits ==
    /\ {"rows", "dialog", "testing", "acting", "clicks", "calm"} \subseteq DOMAIN wh
    /\ IsNet(whNet)
    /\ wh.testing # None => \E j \in Pending(whNet) : whNet[j].op = "whtest"
    /\ wh.acting # None => \E j \in Pending(whNet) : WhActs(whNet[j])
    /\ wh.dialog # None =>
          /\ {"row", "saving", "n"} \subseteq DOMAIN wh.dialog
          /\ wh.dialog.saving => \E j \in Pending(whNet) : WhSaves(whNet[j], wh.dialog.n)

\* It is kept when every flag that is up still has a request on its way.
LEMMA WhWaitsKept ==
    ASSUME WhWaits, NEW gone, Goes(whNet, whNet', gone), DOMAIN wh' = DOMAIN wh,
           wh'.testing # None => \/ wh.testing # None /\ \A i \in gone : whNet[i].op # "whtest"
                                 \/ \E arg : Underway(whNet', "whtest", arg),
           wh'.acting # None => \/ wh.acting # None /\ \A i \in gone : ~WhActs(whNet[i])
                                \/ \E op \in {"default", "whdelete"} : \E arg : Underway(whNet', op, arg)
                                \/ Underway(whNet', "whs", "default"),
           \/ wh'.dialog = None
           \/ /\ wh.dialog # None /\ DOMAIN wh'.dialog = DOMAIN wh.dialog /\ wh'.dialog.n = wh.dialog.n
              /\ wh'.dialog.saving =>
                    \/ wh.dialog.saving /\ \A i \in gone : ~WhSaves(whNet[i], wh.dialog.n)
                    \/ \E op \in {"whcreate", "whupdate"} : \E arg : arg.n = wh.dialog.n /\ Underway(whNet', op, arg)
           \/ {"row", "saving", "n"} \subseteq DOMAIN wh'.dialog /\ ~wh'.dialog.saving
    PROVE  WhWaits'
<1> USE DEF WhWaits
<1>1. wh'.testing # None => \E j \in Pending(whNet') : whNet'[j].op = "whtest"
  BY DEF Goes, Underway
<1>2. wh'.acting # None => \E j \in Pending(whNet') : WhActs(whNet'[j])
  BY DEF Goes, Underway, WhActs
<1>3. wh'.dialog # None =>
          /\ {"row", "saving", "n"} \subseteq DOMAIN wh'.dialog
          /\ wh'.dialog.saving => \E j \in Pending(whNet') : WhSaves(whNet'[j], wh'.dialog.n)
  BY DEF Goes, Underway, WhSaves
<1>4. \A j : WhActs(whNet[j])' <=> WhActs(whNet'[j])
  BY DEF WhActs
<1>5. \A j : WhSaves(whNet[j], wh.dialog.n)' <=> WhSaves(whNet'[j], wh'.dialog.n)
  BY DEF WhSaves
<1> QED
  BY <1>1, <1>2, <1>3, <1>4, <1>5 DEF Goes

\* It holds at the start.
LEMMA WhWaitsStart == WarehousesInit => WhWaits
  BY NoCallsIsNet DEF WarehousesInit, WhWaits

\* Every step keeps it.
LEMMA WhWaitsStep == WhWaits /\ [WarehousesNext]_whVars => WhWaits'
<1> SUFFICES ASSUME WhWaits, [WarehousesNext]_whVars PROVE WhWaits'
  OBVIOUS
<1> USE DEF WhWaits
<1> DEFINE Same == /\ DOMAIN wh' = DOMAIN wh /\ wh'.testing = wh.testing
                   /\ wh'.acting = wh.acting /\ wh'.dialog = wh.dialog
<1>1. CASE UNCHANGED <<wh, whNet>>
  BY <1>1, StayGoes, WhWaitsKept
<1>2. ASSUME NEW w, TestWh(w) PROVE WhWaits'
  <2>1. DOMAIN wh' = DOMAIN wh /\ wh'.acting = wh.acting /\ wh'.dialog = wh.dialog
    BY <1>2 DEF TestWh, StepWh, Pressed
  <2>2. Goes(whNet, whNet', {}) /\ \E arg : Underway(whNet', "whtest", arg)
    BY <1>2, SendGoes DEF TestWh, PressWh
  <2> QED
    BY <2>1, <2>2, WhWaitsKept
<1>3. ASSUME NEW w, SetDefault(w) \/ DeleteWh(w) PROVE WhWaits'
  <2>1. DOMAIN wh' = DOMAIN wh /\ wh'.testing = wh.testing /\ wh'.dialog = wh.dialog
    BY <1>3 DEF SetDefault, DeleteWh, StepWh, Pressed
  <2>2. Goes(whNet, whNet', {}) /\ \E op \in {"default", "whdelete"} : \E arg : Underway(whNet', op, arg)
    BY <1>3, SendGoes DEF SetDefault, DeleteWh, PressWh
  <2> QED
    BY <2>1, <2>2, WhWaitsKept
<1>4. ASSUME NEW w, OpenWh(w) PROVE WhWaits'
  <2>1. /\ DOMAIN wh' = DOMAIN wh /\ wh'.testing = wh.testing /\ wh'.acting = wh.acting
        /\ {"row", "saving", "n"} \subseteq DOMAIN wh'.dialog /\ ~wh'.dialog.saving /\ whNet' = whNet
    BY <1>4 DEF OpenWh
  <2> QED
    BY <2>1, StayGoes, WhWaitsKept
<1>5. CASE CloseWh
  <2>1. /\ DOMAIN wh' = DOMAIN wh /\ wh'.testing = wh.testing /\ wh'.acting = wh.acting
        /\ wh'.dialog = None /\ whNet' = whNet
    BY <1>5 DEF CloseWh
  <2> QED
    BY <2>1, StayGoes, WhWaitsKept
<1>6. ASSUME NEW kind, NEW filled, SubmitWh(kind, filled) PROVE WhWaits'
  <2> DEFINE row == wh.dialog.row
             op == IF row = None THEN "whcreate" ELSE "whupdate"
             arg == [id |-> IF row = None THEN None ELSE row.id, kind |-> kind,
                     password |-> (kind = "standard" /\ "password" \in filled),
                     extra |-> IF kind = "standard" THEN None ELSE filled \cap Extra[kind],
                     n |-> wh.dialog.n]
             dialog == [wh.dialog EXCEPT !.saving = TRUE]
  <2>1. op \in {"whcreate", "whupdate"} /\ arg.n = wh.dialog.n
    OBVIOUS
  <2>2. wh.dialog # None /\ DOMAIN dialog = DOMAIN wh.dialog /\ dialog.n = wh.dialog.n
    BY <1>6 DEF SubmitWh
  <2>3. /\ DOMAIN wh' = DOMAIN wh /\ wh'.testing = wh.testing
        /\ wh'.acting = wh.acting /\ wh'.dialog = dialog
    BY <1>6 DEF SubmitWh, StepWh, Pressed
  <2>4. whNet' = Send(whNet, op, arg) /\ Room(whNet, 1)
    BY <1>6, Zenon DEF SubmitWh
  <2> HIDE DEF op, arg, dialog
  <2>5. Goes(whNet, whNet', {}) /\ Underway(whNet', op, arg)
    BY <2>4, SendGoes
  <2> QED
    BY <2>1, <2>2, <2>3, <2>5, WhWaitsKept
<1>7. ASSUME NEW i \in Slot, \/ ServeWhs(i) \/ ServeWhTest(i) \/ BeginDefault(i) \/ CommitDefault(i) \/ ServeWhDelete(i)
                             \/ ServeWhCreate(i) \/ ServeWhUpdate(i) \/ WhCallFails(i)
      PROVE  WhWaits'
  <2>1. Same
    BY <1>7 DEF ServeWhs, ServeWhTest, BeginDefault, CommitDefault, ServeWhDelete, ServeWhCreate, ServeWhUpdate,
                WhCallFails, Missed
  <2>2. /\ whNet[i] # Free
        /\ whNet' = Fail(whNet, i) \/ (\E out : whNet' = Reply(whNet, i, out)) \/ \E tx : whNet' = Begin(whNet, i, tx)
    <3>1. CASE BeginDefault(i)
      BY <3>1, Zenon DEF BeginDefault, Sent
    <3> QED
      BY <1>7, <3>1, Zenon DEF ServeWhs, ServeWhTest, CommitDefault, ServeWhDelete, ServeWhCreate,
         ServeWhUpdate, WhCallFails, Sent, Open, CanFail, Pending
  <2>3. Goes(whNet, whNet', {})
    BY <2>2, AnswerGoes
  <2> QED
    BY <2>1, <2>3, WhWaitsKept
<1>8. ASSUME NEW i \in Slot, WhsRead(i) PROVE WhWaits'
  <2>1. /\ DOMAIN wh' = DOMAIN wh /\ wh'.testing = wh.testing /\ wh'.dialog = wh.dialog
        /\ wh'.acting = IF whNet[i].arg = "default" THEN None ELSE wh.acting
    <3> DEFINE ui == IF whNet[i].arg = "default" THEN [wh EXCEPT !.acting = None] ELSE wh
    <3>1. /\ DOMAIN ui = DOMAIN wh /\ ui.testing = wh.testing /\ ui.dialog = wh.dialog
          /\ ui.acting = IF whNet[i].arg = "default" THEN None ELSE wh.acting
      OBVIOUS
    <3>2. wh' = IF Ok(whNet, i, "whs") THEN [ui EXCEPT !.rows = whNet[i].out] ELSE [ui EXCEPT !.calm = FALSE]
      BY <1>8, Zenon DEF WhsRead
    <3> HIDE DEF ui
    <3> QED
      BY <3>1, <3>2
  <2>2. Goes(whNet, whNet', {i}) /\ whNet[i].op = "whs"
    BY <1>8, EndGoes DEF WhsRead, Settled, Ok, Err
  <2> QED
    BY <2>1, <2>2, WhWaitsKept DEF WhActs, WhSaves
<1>9. ASSUME NEW i \in Slot, WhTested(i) PROVE WhWaits'
  <2>1. /\ DOMAIN wh' = DOMAIN wh /\ wh'.testing = None /\ wh'.dialog = wh.dialog /\ wh'.acting = wh.acting
    BY <1>9 DEF WhTested
  <2>2. Goes(whNet, whNet', {i}) /\ whNet[i].op = "whtest"
    BY <1>9, EndGoes DEF WhTested, Settled, Ok, Err
  <2> QED
    BY <2>1, <2>2, WhWaitsKept DEF WhActs, WhSaves
<1>10. ASSUME NEW i \in Slot, DefaultSet(i) PROVE WhWaits'
  <2>1. whNet[i].op = "default"
    BY <1>10 DEF DefaultSet, Ok, Err
  <2>2. CASE wh' = wh /\ whNet' = Then(whNet, i, "whs", "default")
    <3>1. Goes(whNet, whNet', {i}) /\ Underway(whNet', "whs", "default")
      BY <2>2, EndGoes
    <3> QED
      BY <2>1, <2>2, <3>1, WhWaitsKept DEF WhActs, WhSaves
  <2>3. CASE wh' = [wh EXCEPT !.acting = None] /\ whNet' = Done(whNet, i)
    <3>1. DOMAIN wh' = DOMAIN wh /\ wh'.testing = wh.testing /\ wh'.dialog = wh.dialog /\ wh'.acting = None
      BY <2>3
    <3>2. Goes(whNet, whNet', {i})
      BY <2>3, EndGoes
    <3> QED
      BY <2>1, <3>1, <3>2, WhWaitsKept DEF WhActs, WhSaves
  <2> QED
    BY <1>10, <2>2, <2>3, Zenon DEF DefaultSet
<1>11. ASSUME NEW i \in Slot, WhDeleted(i) PROVE WhWaits'
  <2>1. DOMAIN wh' = DOMAIN wh /\ wh'.testing = wh.testing /\ wh'.dialog = wh.dialog /\ wh'.acting = None
    BY <1>11 DEF WhDeleted
  <2>2. Goes(whNet, whNet', {i}) /\ whNet[i].op = "whdelete"
    BY <1>11, EndGoes DEF WhDeleted, Settled, Ok, Err
  <2> QED
    BY <2>1, <2>2, WhWaitsKept DEF WhActs, WhSaves
<1>12. ASSUME NEW i \in Slot, WhSaved(i) PROVE WhWaits'
  <2>1. whNet[i].op \in {"whcreate", "whupdate"} /\ Goes(whNet, whNet', {i})
    <3>1. Ok(whNet, i, "whcreate") \/ Err(whNet, i, "whcreate") \/ Ok(whNet, i, "whupdate") \/ Err(whNet, i, "whupdate")
      BY <1>12, Zenon DEF WhSaved
    <3>2. whNet' = Done(whNet, i) \/ \E op, arg : whNet' = Then(whNet, i, op, arg)
      BY <1>12, Zenon DEF WhSaved
    <3>3. whNet[i].op \in {"whcreate", "whupdate"}
      BY <3>1 DEF Ok, Err
    <3> QED
      BY <3>2, <3>3, EndGoes
  <2>2. CASE wh' = [wh EXCEPT !.dialog = None]
    <3>1. DOMAIN wh' = DOMAIN wh /\ wh'.testing = wh.testing /\ wh'.acting = wh.acting /\ wh'.dialog = None
      BY <2>2
    <3> QED
      BY <2>1, <3>1, WhWaitsKept DEF WhActs, WhSaves
  <2>3. CASE wh.dialog # None /\ wh.dialog.n = whNet[i].arg.n /\ wh' = [wh EXCEPT !.dialog.saving = FALSE]
    <3> DEFINE dialog == [wh.dialog EXCEPT !.saving = FALSE]
    <3>1. DOMAIN wh' = DOMAIN wh /\ wh'.testing = wh.testing /\ wh'.acting = wh.acting /\ wh'.dialog = dialog
      BY <2>3
    <3>2. {"row", "saving", "n"} \subseteq DOMAIN dialog /\ ~dialog.saving
      BY <2>3
    <3> HIDE DEF dialog
    <3> QED
      BY <2>1, <3>1, <3>2, WhWaitsKept DEF WhActs, WhSaves
  <2>4. CASE ~(wh.dialog # None /\ wh.dialog.n = whNet[i].arg.n) /\ wh' = wh
    BY <2>1, <2>4, WhWaitsKept DEF WhActs, WhSaves
  <2> QED
    BY <1>12, <2>2, <2>3, <2>4, Zenon DEF WhSaved
<1> QED
  BY <1>1, <1>2, <1>3, <1>4, <1>5, <1>6, <1>7, <1>8, <1>9, <1>10, <1>11, <1>12, Zenon DEF WarehousesNext, whVars, whServer

-----------------------------------------------------------------------------
(***************************************************************************)
(* Groups: the list and the form.                                          *)
(***************************************************************************)
GroupSaves(c, n) == c.op \in {"create", "save"} /\ c.arg.n = n

GroupWaits ==
    /\ {"rows", "loading", "form", "clicks", "calm"} \subseteq DOMAIN groupPage
    /\ IsNet(groupNet)
    /\ groupPage.loading => \E j \in Pending(groupNet) : groupNet[j].op = "groups"
    /\ groupPage.form # None =>
          /\ {"of", "channels", "touched", "saving", "n"} \subseteq DOMAIN groupPage.form
          /\ groupPage.form.saving => \E j \in Pending(groupNet) : GroupSaves(groupNet[j], groupPage.form.n)

\* It is kept when every flag that is up still has a request on its way.
LEMMA GroupWaitsKept ==
    ASSUME GroupWaits, NEW gone, Goes(groupNet, groupNet', gone), DOMAIN groupPage' = DOMAIN groupPage,
           groupPage'.loading => groupPage.loading /\ \A i \in gone : groupNet[i].op # "groups",
           \/ groupPage'.form = None
           \/ /\ groupPage.form # None /\ DOMAIN groupPage'.form = DOMAIN groupPage.form
              /\ groupPage'.form.n = groupPage.form.n
              /\ groupPage'.form.saving =>
                    \/ groupPage.form.saving /\ \A i \in gone : ~GroupSaves(groupNet[i], groupPage.form.n)
                    \/ \E op \in {"create", "save"} : \E arg : arg.n = groupPage.form.n /\ Underway(groupNet', op, arg)
           \/ /\ {"of", "channels", "touched", "saving", "n"} \subseteq DOMAIN groupPage'.form
              /\ ~groupPage'.form.saving
    PROVE  GroupWaits'
<1> USE DEF GroupWaits
<1>1. groupPage'.loading => \E j \in Pending(groupNet') : groupNet'[j].op = "groups"
  BY DEF Goes
<1>2. groupPage'.form # None =>
          /\ {"of", "channels", "touched", "saving", "n"} \subseteq DOMAIN groupPage'.form
          /\ groupPage'.form.saving => \E j \in Pending(groupNet') : GroupSaves(groupNet'[j], groupPage'.form.n)
  BY DEF Goes, Underway, GroupSaves
<1>3. \A j : GroupSaves(groupNet[j], groupPage.form.n)' <=> GroupSaves(groupNet'[j], groupPage'.form.n)
  BY DEF GroupSaves
<1> QED
  BY <1>1, <1>2, <1>3 DEF Goes

\* It holds at the start.
LEMMA GroupWaitsStart == GroupsInit => GroupWaits
<1> SUFFICES ASSUME GroupsInit PROVE GroupWaits
  OBVIOUS
<1>1. Goes(NoCalls, groupNet, {}) /\ Underway(groupNet, "groups", None)
  BY EmptyRoom, NoCallsIsNet, SendGoes DEF GroupsInit
<1> QED
  BY <1>1 DEF GroupsInit, GroupWaits, Goes, Underway

\* Every step keeps it.
LEMMA GroupWaitsStep == GroupWaits /\ [GroupsNext]_groupVars => GroupWaits'
<1> SUFFICES ASSUME GroupWaits, [GroupsNext]_groupVars PROVE GroupWaits'
  OBVIOUS
<1> USE DEF GroupWaits
<1> DEFINE Same == /\ DOMAIN groupPage' = DOMAIN groupPage /\ groupPage'.loading = groupPage.loading
                   /\ groupPage'.form = groupPage.form
<1>1. CASE UNCHANGED <<groupPage, groupNet>>
  BY <1>1, StayGoes, GroupWaitsKept
<1>2. ASSUME NEW g, OpenGroup(g) PROVE GroupWaits'
  <2>1. /\ DOMAIN groupPage' = DOMAIN groupPage /\ groupPage'.loading = groupPage.loading
        /\ {"of", "channels", "touched", "saving", "n"} \subseteq DOMAIN groupPage'.form
        /\ ~groupPage'.form.saving /\ groupNet' = groupNet
    BY <1>2 DEF OpenGroup, StepGroup, Pressed
  <2> QED
    BY <2>1, StayGoes, GroupWaitsKept
<1>3. CASE CloseGroup
  <2>1. /\ DOMAIN groupPage' = DOMAIN groupPage /\ groupPage'.loading = groupPage.loading
        /\ groupPage'.form = None /\ groupNet' = groupNet
    BY <1>3 DEF CloseGroup
  <2> QED
    BY <2>1, StayGoes, GroupWaitsKept
<1>4. ASSUME NEW field, NEW item, EditGroup(field, item) PROVE GroupWaits'
  <2> DEFINE ui == StepGroup
             one == [groupPage.form EXCEPT !.channels[field] = IF item \in @ THEN @ \ {item} ELSE @ \cup {item}]
             form == [one EXCEPT !.touched = @ \cup {field}]
  <2>1. groupPage.form # None /\ groupNet' = groupNet
    BY <1>4 DEF EditGroup
  <2>2. DOMAIN ui = DOMAIN groupPage /\ ui.loading = groupPage.loading /\ ui.form = groupPage.form
    BY DEF StepGroup, Pressed
  <2>3. DOMAIN form = DOMAIN groupPage.form /\ form.n = groupPage.form.n /\ form.saving = groupPage.form.saving
    BY <2>1
  <2>4. groupPage' = [ui EXCEPT !.form.channels[field] = IF item \in @ THEN @ \ {item} ELSE @ \cup {item},
                                !.form.touched = @ \cup {field}]
    BY <1>4, Zenon DEF EditGroup
  <2> HIDE DEF ui
  <2>5. DOMAIN groupPage' = DOMAIN ui /\ groupPage'.loading = ui.loading /\ groupPage'.form = form
    BY <2>2, <2>4
  <2> HIDE DEF form
  <2> QED
    BY <2>1, <2>2, <2>3, <2>5, StayGoes, GroupWaitsKept
<1>5. CASE SaveGroup
  <2> DEFINE form == groupPage.form
             op == IF form.of = None THEN "create" ELSE "save"
             arg == [id |-> form.of, channels |-> Clean(form.channels), touched |-> form.touched, n |-> form.n]
             next == [form EXCEPT !.saving = TRUE]
  <2>1. op \in {"create", "save"} /\ arg.n = groupPage.form.n
    OBVIOUS
  <2>2. groupPage.form # None /\ DOMAIN next = DOMAIN groupPage.form /\ next.n = groupPage.form.n
    BY <1>5 DEF SaveGroup
  <2>3. DOMAIN groupPage' = DOMAIN groupPage /\ groupPage'.loading = groupPage.loading /\ groupPage'.form = next
    BY <1>5 DEF SaveGroup, StepGroup, Pressed
  <2>4. groupNet' = Send(groupNet, op, arg) /\ Room(groupNet, 1)
    BY <1>5, Zenon DEF SaveGroup
  <2> HIDE DEF op, arg, next
  <2>5. Goes(groupNet, groupNet', {}) /\ Underway(groupNet', op, arg)
    BY <2>4, SendGoes
  <2> QED
    BY <2>1, <2>2, <2>3, <2>5, GroupWaitsKept
<1>6. ASSUME NEW g, DropGroup(g) PROVE GroupWaits'
  <2>1. Same
    BY <1>6 DEF DropGroup, StepGroup, Pressed
  <2>2. Goes(groupNet, groupNet', {})
    BY <1>6, SendGoes DEF DropGroup
  <2> QED
    BY <2>1, <2>2, GroupWaitsKept
<1>7. ASSUME NEW i \in Slot, ServeGroupList(i) \/ ServeGroupCreate(i) \/ ServeGroupSave(i) \/ ServeGroupDrop(i) \/ GroupCallFails(i)
      PROVE  GroupWaits'
  <2>1. Same
    BY <1>7 DEF ServeGroupList, ServeGroupCreate, ServeGroupSave, ServeGroupDrop, GroupCallFails, Missed
  <2>2. groupNet[i] # Free /\ (groupNet' = Fail(groupNet, i) \/ \E out : groupNet' = Reply(groupNet, i, out))
    BY <1>7, Zenon DEF ServeGroupList, ServeGroupCreate, ServeGroupSave, ServeGroupDrop, GroupCallFails, Sent, CanFail, Pending
  <2>3. Goes(groupNet, groupNet', {})
    BY <2>2, AnswerGoes
  <2> QED
    BY <2>1, <2>3, GroupWaitsKept
<1>8. ASSUME NEW i \in Slot, GroupListRead(i) PROVE GroupWaits'
  <2>1. DOMAIN groupPage' = DOMAIN groupPage /\ ~groupPage'.loading /\ groupPage'.form = groupPage.form
    BY <1>8 DEF GroupListRead
  <2>2. Goes(groupNet, groupNet', {i}) /\ groupNet[i].op = "groups"
    BY <1>8, EndGoes DEF GroupListRead, Settled, Ok, Err
  <2> QED
    BY <2>1, <2>2, GroupWaitsKept DEF GroupSaves
<1>9. ASSUME NEW i \in Slot, GroupDropped(i) PROVE GroupWaits'
  <2>1. Same
    BY <1>9 DEF GroupDropped
  <2>2. Goes(groupNet, groupNet', {i}) /\ groupNet[i].op = "drop"
    BY <1>9, EndGoes DEF GroupDropped, Settled, Ok, Err
  <2> QED
    BY <2>1, <2>2, GroupWaitsKept DEF GroupSaves
<1>10. ASSUME NEW i \in Slot, GroupSaved(i) PROVE GroupWaits'
  <2>1. groupNet[i].op \in {"create", "save"} /\ Goes(groupNet, groupNet', {i})
    <3>1. Ok(groupNet, i, "create") \/ Err(groupNet, i, "create") \/ Ok(groupNet, i, "save") \/ Err(groupNet, i, "save")
      BY <1>10, Zenon DEF GroupSaved
    <3>2. groupNet' = Done(groupNet, i) \/ \E op, arg : groupNet' = Then(groupNet, i, op, arg)
      BY <1>10, Zenon DEF GroupSaved
    <3>3. groupNet[i].op \in {"create", "save"}
      BY <3>1 DEF Ok, Err
    <3> QED
      BY <3>2, <3>3, EndGoes
  <2>2. CASE groupPage' = [groupPage EXCEPT !.form = None]
    <3>1. DOMAIN groupPage' = DOMAIN groupPage /\ groupPage'.loading = groupPage.loading /\ groupPage'.form = None
      BY <2>2
    <3> QED
      BY <2>1, <3>1, GroupWaitsKept DEF GroupSaves
  <2>3. CASE /\ groupPage.form # None /\ groupPage.form.n = groupNet[i].arg.n
             /\ groupPage' = [groupPage EXCEPT !.form.saving = FALSE]
    <3> DEFINE form == [groupPage.form EXCEPT !.saving = FALSE]
    <3>1. DOMAIN groupPage' = DOMAIN groupPage /\ groupPage'.loading = groupPage.loading /\ groupPage'.form = form
      BY <2>3
    <3>2. {"of", "channels", "touched", "saving", "n"} \subseteq DOMAIN form /\ ~form.saving
      BY <2>3
    <3> HIDE DEF form
    <3> QED
      BY <2>1, <3>1, <3>2, GroupWaitsKept DEF GroupSaves
  <2>4. CASE ~(groupPage.form # None /\ groupPage.form.n = groupNet[i].arg.n) /\ groupPage' = groupPage
    BY <2>1, <2>4, GroupWaitsKept DEF GroupSaves
  <2> QED
    BY <1>10, <2>2, <2>3, <2>4, Zenon DEF GroupSaved
<1> QED
  BY <1>1, <1>2, <1>3, <1>4, <1>5, <1>6, <1>7, <1>8, <1>9, <1>10, Zenon DEF GroupsNext, groupVars, groupServer

-----------------------------------------------------------------------------
(***************************************************************************)
(* Navigation: the editor.                                                 *)
(***************************************************************************)
NavWaits ==
    /\ {"items", "loading", "saving", "touched", "clicks", "calm"} \subseteq DOMAIN editor
    /\ IsNet(editorNet)
    /\ editor.loading => \E j \in Pending(editorNet) : editorNet[j].op = "load"
    /\ editor.saving => \E j \in Pending(editorNet) : editorNet[j].op = "save"

\* It is kept when every flag that is up still has a request on its way.
LEMMA NavWaitsKept ==
    ASSUME NavWaits, NEW gone, Goes(editorNet, editorNet', gone), DOMAIN editor' = DOMAIN editor,
           editor'.loading => editor.loading /\ \A i \in gone : editorNet[i].op # "load",
           editor'.saving => \/ editor.saving /\ \A i \in gone : editorNet[i].op # "save"
                             \/ \E arg : Underway(editorNet', "save", arg)
    PROVE  NavWaits'
  BY DEF NavWaits, Goes, Underway

\* It holds at the start.
LEMMA NavWaitsStart == NavInit => NavWaits
<1> SUFFICES ASSUME NavInit PROVE NavWaits
  OBVIOUS
<1>1. Goes(NoCalls, editorNet, {}) /\ Underway(editorNet, "load", None)
  BY EmptyRoom, NoCallsIsNet, SendGoes DEF NavInit
<1> QED
  BY <1>1 DEF NavInit, NavWaits, Goes, Underway

\* Every step keeps it.
LEMMA NavWaitsStep == NavWaits /\ [NavNext]_navVars => NavWaits'
<1> SUFFICES ASSUME NavWaits, [NavNext]_navVars PROVE NavWaits'
  OBVIOUS
<1> USE DEF NavWaits
<1> DEFINE Same == DOMAIN editor' = DOMAIN editor /\ editor'.loading = editor.loading /\ editor'.saving = editor.saving
<1>1. CASE UNCHANGED <<editor, editorNet>>
  BY <1>1, StayGoes, NavWaitsKept
<1>2. ASSUME NEW items, Draft(items) PROVE NavWaits'
  <2>1. Same /\ editorNet' = editorNet
    BY <1>2 DEF Draft, Pressed
  <2> QED
    BY <2>1, StayGoes, NavWaitsKept
<1>3. CASE \/ \E k \in DOMAIN editor.items :
                \/ SwitchType(k) \/ AddEntry(k) \/ RemoveItem(k)
                \/ \E label \in Label : Rename(k, label)
                \/ \E href \in Href : PointLink(k, href)
                \/ \E target \in 1..MaxItems : MoveItem(k, target)
                \/ \E c \in DOMAIN editor.items[k].items :
                      \/ RemoveEntry(k, c)
                      \/ \E label \in Label, href \in Href \cup {None} : UpdateEntry(k, c, Entry(label, href))
           \/ AddItem \/ ResetNav
  <2>1. \A k, item : UpdateItem(k, item) => \E items : Draft(items)
    BY Zenon DEF UpdateItem
  <2>2. \A k, entries : EditEntries(k, entries) => \E items : Draft(items)
    BY <2>1, Zenon DEF EditEntries
  <2>3. \A k : SwitchType(k) \/ AddEntry(k) \/ RemoveItem(k) => \E items : Draft(items)
    BY <2>1, <2>2, Zenon DEF SwitchType, AddEntry, RemoveItem
  <2>4. \A k, label, href, target : Rename(k, label) \/ PointLink(k, href) \/ MoveItem(k, target) => \E items : Draft(items)
    BY <2>1, Zenon DEF Rename, PointLink, MoveItem
  <2>5. \A k, c, entry : RemoveEntry(k, c) \/ UpdateEntry(k, c, entry) => \E items : Draft(items)
    BY <2>2, Zenon DEF RemoveEntry, UpdateEntry
  <2>6. AddItem \/ ResetNav => \E items : Draft(items)
    BY Zenon DEF AddItem, ResetNav
  <2>7. \E items : Draft(items)
    BY <1>3, <2>3, <2>4, <2>5, <2>6, Zenon
  <2> QED
    BY <1>2, <2>7, Zenon
<1>4. CASE SaveNav
  <2>1. DOMAIN editor' = DOMAIN editor /\ editor'.loading = editor.loading
    BY <1>4 DEF SaveNav, Pressed
  <2>2. Goes(editorNet, editorNet', {}) /\ \E arg : Underway(editorNet', "save", arg)
    BY <1>4, SendGoes DEF SaveNav
  <2> QED
    BY <2>1, <2>2, NavWaitsKept
<1>5. CASE MountBar \/ \E v \in Viewer, config \in {navConfig, <<>>} : OpenPortal(v, config)
  <2>1. Same /\ editorNet' = editorNet
    BY <1>5 DEF MountBar, OpenPortal
  <2> QED
    BY <2>1, StayGoes, NavWaitsKept
<1>6. ASSUME NEW i \in Slot, ServeNav(i) \/ ServeSaveNav(i) \/ NavCallFails(i) PROVE NavWaits'
  <2>1. Same
    BY <1>6 DEF ServeNav, ServeSaveNav, NavCallFails, Missed
  <2>2. editorNet[i] # Free /\ (editorNet' = Fail(editorNet, i) \/ \E out : editorNet' = Reply(editorNet, i, out))
    BY <1>6, Zenon DEF ServeNav, ServeSaveNav, NavCallFails, Sent, CanFail, Pending
  <2>3. Goes(editorNet, editorNet', {})
    BY <2>2, AnswerGoes
  <2> QED
    BY <2>1, <2>3, NavWaitsKept
<1>7. ASSUME NEW i \in Slot, NavRead(i) PROVE NavWaits'
  <2>1. DOMAIN editor' = DOMAIN editor /\ ~editor'.loading /\ editor'.saving = editor.saving
    BY <1>7 DEF NavRead
  <2>2. Goes(editorNet, editorNet', {i}) /\ editorNet[i].op = "load"
    BY <1>7, EndGoes DEF NavRead, Settled, Ok, Err
  <2> QED
    BY <2>1, <2>2, NavWaitsKept
<1>8. ASSUME NEW i \in Slot, NavSaved(i) PROVE NavWaits'
  <2>1. DOMAIN editor' = DOMAIN editor /\ ~editor'.saving /\ editor'.loading = editor.loading
    BY <1>8 DEF NavSaved
  <2>2. Goes(editorNet, editorNet', {i}) /\ editorNet[i].op = "save"
    BY <1>8, EndGoes DEF NavSaved, Settled, Ok, Err
  <2> QED
    BY <2>1, <2>2, NavWaitsKept
<1> QED
  BY <1>1, <1>3, <1>4, <1>5, <1>6, <1>7, <1>8, Zenon DEF NavNext, navVars

-----------------------------------------------------------------------------
(***************************************************************************)
(* Pages: the editor of one.                                               *)
(***************************************************************************)
\* A save is over when the history has been read after it, and so is a restore.
Saves(c) == c.op = "save" \/ (c.op = "versions" /\ c.arg = "save")
Restores(c) == c.op = "restore" \/ (c.op = "versions" /\ c.arg = "restore")

PageWaits ==
    /\ {"page", "draft", "versions", "preview", "saving", "restoring", "loading", "clicks", "calm"} \subseteq DOMAIN pageTab
    /\ IsNet(pageNet)
    /\ pageTab.loading => \E j \in Pending(pageNet) : pageNet[j].op = "load"
    /\ pageTab.saving => \E j \in Pending(pageNet) : Saves(pageNet[j])
    /\ pageTab.restoring # None => \E j \in Pending(pageNet) : Restores(pageNet[j])

\* It is kept when every flag that is up still has a request on its way.
LEMMA PageWaitsKept ==
    ASSUME PageWaits, NEW gone, Goes(pageNet, pageNet', gone), DOMAIN pageTab' = DOMAIN pageTab,
           pageTab'.loading => pageTab.loading /\ \A i \in gone : pageNet[i].op # "load",
           pageTab'.saving => \/ pageTab.saving /\ \A i \in gone : ~Saves(pageNet[i])
                              \/ \E arg : Underway(pageNet', "save", arg)
                              \/ Underway(pageNet', "versions", "save"),
           pageTab'.restoring # None => \/ pageTab.restoring # None /\ \A i \in gone : ~Restores(pageNet[i])
                                        \/ \E arg : Underway(pageNet', "restore", arg)
                                        \/ Underway(pageNet', "versions", "restore")
    PROVE  PageWaits'
<1> USE DEF PageWaits
<1>1. pageTab'.loading => \E j \in Pending(pageNet') : pageNet'[j].op = "load"
  BY DEF Goes
<1>2. pageTab'.saving => \E j \in Pending(pageNet') : Saves(pageNet'[j])
  BY DEF Goes, Underway, Saves
<1>3. pageTab'.restoring # None => \E j \in Pending(pageNet') : Restores(pageNet'[j])
  BY DEF Goes, Underway, Restores
<1>4. \A j : (Saves(pageNet[j])' <=> Saves(pageNet'[j])) /\ (Restores(pageNet[j])' <=> Restores(pageNet'[j]))
  BY DEF Saves, Restores
<1> QED
  BY <1>1, <1>2, <1>3, <1>4 DEF Goes

\* It holds at the start.
LEMMA PageWaitsStart == PageInit => PageWaits
<1> SUFFICES ASSUME PageInit PROVE PageWaits
  OBVIOUS
<1>1. Goes(NoCalls, pageNet, {}) /\ Underway(pageNet, "load", None)
  BY EmptyRoom, NoCallsIsNet, SendGoes DEF PageInit
<1> QED
  BY <1>1 DEF PageInit, NoPage, PageWaits, Goes, Underway

\* What the end of a handler leaves on the page.
LEMMA PageFreedFlags ==
    ASSUME NEW tab, {"loading", "saving", "restoring"} \subseteq DOMAIN tab, NEW op
    PROVE  /\ DOMAIN PageFreed(tab, op) = DOMAIN tab /\ PageFreed(tab, op).loading = tab.loading
           /\ op = "save" => ~PageFreed(tab, op).saving /\ PageFreed(tab, op).restoring = tab.restoring
           /\ op # "save" => PageFreed(tab, op).saving = tab.saving /\ PageFreed(tab, op).restoring = None
  BY DEF PageFreed

\* Every step keeps it.
LEMMA PageWaitsStep == PageWaits /\ [PageNext]_pageVars => PageWaits'
<1> SUFFICES ASSUME PageWaits, [PageNext]_pageVars PROVE PageWaits'
  OBVIOUS
<1> USE DEF PageWaits
<1> DEFINE Same == /\ DOMAIN pageTab' = DOMAIN pageTab /\ pageTab'.loading = pageTab.loading
                   /\ pageTab'.saving = pageTab.saving /\ pageTab'.restoring = pageTab.restoring
<1>1. CASE UNCHANGED <<pageTab, pageNet>>
  BY <1>1, StayGoes, PageWaitsKept
<1>2. CASE TokenRenewed
  <2>1. Same
    BY <1>2 DEF TokenRenewed, StepPage, Pressed
  <2>2. Goes(pageNet, pageNet', {})
    BY <1>2, SendGoes DEF TokenRenewed
  <2> QED
    BY <2>1, <2>2, PageWaitsKept
<1>3. ASSUME NEW draft, Edit(draft) PROVE PageWaits'
  <2>1. Same /\ pageNet' = pageNet
    BY <1>3 DEF Edit, StepPage, Pressed
  <2> QED
    BY <2>1, StayGoes, PageWaitsKept
<1>4. CASE \/ TogglePublished \/ DropLastTag
           \/ \E t \in PageTitle \cup {None} : TypeTitle(t)
           \/ \E t \in PageText : TypeContent(t)
           \/ \E t \in PageTag : AddTag(t) \/ DropTag(t)
  <2>1. \E draft : Edit(draft)
    BY <1>4, Zenon DEF TogglePublished, DropLastTag, TypeTitle, TypeContent, AddTag, DropTag
  <2> QED
    BY <1>3, <2>1, Zenon
<1>5. ASSUME NEW k, PreviewVersion(k) PROVE PageWaits'
  <2>1. Same /\ pageNet' = pageNet
    BY <1>5 DEF PreviewVersion, StepPage, Pressed
  <2> QED
    BY <2>1, StayGoes, PageWaitsKept
<1>6. CASE SavePage
  <2>1. DOMAIN pageTab' = DOMAIN pageTab /\ pageTab'.loading = pageTab.loading /\ pageTab'.restoring = pageTab.restoring
    BY <1>6 DEF SavePage, StepPage, Pressed
  <2>2. Goes(pageNet, pageNet', {}) /\ \E arg : Underway(pageNet', "save", arg)
    BY <1>6, SendGoes DEF SavePage
  <2> QED
    BY <2>1, <2>2, PageWaitsKept
<1>7. ASSUME NEW k, RestoreVersion(k) PROVE PageWaits'
  <2>1. DOMAIN pageTab' = DOMAIN pageTab /\ pageTab'.loading = pageTab.loading /\ pageTab'.saving = pageTab.saving
    BY <1>7 DEF RestoreVersion, StepPage, Pressed
  <2>2. Goes(pageNet, pageNet', {}) /\ \E arg : Underway(pageNet', "restore", arg)
    BY <1>7, SendGoes DEF RestoreVersion
  <2> QED
    BY <2>1, <2>2, PageWaitsKept
<1>8. ASSUME NEW i \in Slot, ServePage(i) \/ ServePageVersions(i) \/ BeginWrite(i) \/ CommitWrite(i) \/ PageCallFails(i)
      PROVE  PageWaits'
  <2>1. Same
    BY <1>8 DEF ServePage, ServePageVersions, BeginWrite, CommitWrite, PageCallFails, Missed
  <2>2. /\ pageNet[i] # Free
        /\ pageNet' = Fail(pageNet, i) \/ (\E out : pageNet' = Reply(pageNet, i, out)) \/ \E tx : pageNet' = Begin(pageNet, i, tx)
    BY <1>8, Zenon DEF ServePage, ServePageVersions, BeginWrite, CommitWrite, PageCallFails, Sent, Open, CanFail, Pending
  <2>3. Goes(pageNet, pageNet', {})
    BY <2>2, AnswerGoes
  <2> QED
    BY <2>1, <2>3, PageWaitsKept
<1>9. ASSUME NEW i \in Slot, PageRead(i) PROVE PageWaits'
  <2>1. /\ DOMAIN pageTab' = DOMAIN pageTab /\ ~pageTab'.loading
        /\ pageTab'.saving = pageTab.saving /\ pageTab'.restoring = pageTab.restoring
    BY <1>9 DEF PageRead
  <2>2. Goes(pageNet, pageNet', {i}) /\ pageNet[i].op = "load"
    BY <1>9, EndGoes DEF PageRead, Settled, Ok, Err
  <2> QED
    BY <2>1, <2>2, PageWaitsKept DEF Saves, Restores
<1>10. ASSUME NEW i \in Slot, PageWritten(i) PROVE PageWaits'
  <2>1. Same
    BY <1>10 DEF PageWritten
  <2>2. pageNet[i].op \in {"save", "restore"}
    BY <1>10 DEF PageWritten, Ok
  <2>3. Goes(pageNet, pageNet', {i}) /\ Underway(pageNet', "versions", pageNet[i].op)
    BY <1>10, EndGoes DEF PageWritten
  <2> QED
    BY <2>1, <2>2, <2>3, PageWaitsKept DEF Saves, Restores
<1>11. ASSUME NEW i \in Slot, PageVersionsRead(i) PROVE PageWaits'
  <2>1. PICK tab \in {[pageTab EXCEPT !.versions = pageNet[i].out], [pageTab EXCEPT !.calm = FALSE]} :
           pageTab' = PageFreed(tab, pageNet[i].arg)
    BY <1>11, Zenon DEF PageVersionsRead
  <2>2. /\ DOMAIN tab = DOMAIN pageTab /\ tab.loading = pageTab.loading
        /\ tab.saving = pageTab.saving /\ tab.restoring = pageTab.restoring
    OBVIOUS
  <2>3. /\ DOMAIN pageTab' = DOMAIN pageTab /\ pageTab'.loading = pageTab.loading
        /\ pageNet[i].arg = "save" => ~pageTab'.saving /\ pageTab'.restoring = pageTab.restoring
        /\ pageNet[i].arg # "save" => pageTab'.saving = pageTab.saving /\ pageTab'.restoring = None
    BY <2>1, <2>2, PageFreedFlags
  <2>4. Goes(pageNet, pageNet', {i}) /\ pageNet[i].op = "versions"
    BY <1>11, EndGoes DEF PageVersionsRead, Settled, Ok, Err
  <2> QED
    BY <2>3, <2>4, PageWaitsKept DEF Saves, Restores
<1>12. ASSUME NEW i \in Slot, WriteFailed(i) PROVE PageWaits'
  <2>1. pageNet[i].op \in {"save", "restore"} /\ pageTab' = PageFreed(pageTab, pageNet[i].op)
    BY <1>12 DEF WriteFailed, Err
  <2>2. /\ DOMAIN pageTab' = DOMAIN pageTab /\ pageTab'.loading = pageTab.loading
        /\ pageNet[i].op = "save" => ~pageTab'.saving /\ pageTab'.restoring = pageTab.restoring
        /\ pageNet[i].op # "save" => pageTab'.saving = pageTab.saving /\ pageTab'.restoring = None
    BY <2>1, PageFreedFlags
  <2>3. Goes(pageNet, pageNet', {i})
    BY <1>12, EndGoes DEF WriteFailed
  <2> QED
    BY <2>1, <2>2, <2>3, PageWaitsKept DEF Saves, Restores
<1> QED
  BY <1>1, <1>2, <1>4, <1>5, <1>6, <1>7, <1>8, <1>9, <1>10, <1>11, <1>12, Zenon DEF PageNext, pageVars, pageServer

-----------------------------------------------------------------------------
(***************************************************************************)
(* Audit: the list.                                                        *)
(***************************************************************************)
AuditWaits ==
    /\ {"url", "filters", "going", "back", "loading", "typing", "shown", "clicks", "calm"} \subseteq DOMAIN auditPage
    /\ IsNet(auditNet)
    /\ auditPage.loading => \E j \in Pending(auditNet) : auditNet[j].op = "audit"

\* It is kept when every flag that is up still has a request on its way.
LEMMA AuditWaitsKept ==
    ASSUME AuditWaits, NEW gone, Goes(auditNet, auditNet', gone), DOMAIN auditPage' = DOMAIN auditPage,
           auditPage'.loading => \/ auditPage.loading /\ gone = {}
                                 \/ \E arg : Underway(auditNet', "audit", arg)
    PROVE  AuditWaits'
  BY DEF AuditWaits, Goes, Underway

\* A page that is opened anew waits for its own request.
LEMMA OpenedWaits ==
    ASSUME NEW url, auditPage.loading, auditNet = Send(NoCalls, "audit", url),
           {"url", "filters", "going", "back", "loading", "typing", "shown", "clicks", "calm"} \subseteq DOMAIN auditPage
    PROVE  AuditWaits
<1>1. Goes(NoCalls, auditNet, {}) /\ Underway(auditNet, "audit", url)
  BY EmptyRoom, NoCallsIsNet, SendGoes
<1> QED
  BY <1>1 DEF AuditWaits, Goes, Underway

\* It holds at the start.
LEMMA AuditWaitsStart == AuditInit => AuditWaits
<1> SUFFICES ASSUME AuditInit PROVE AuditWaits
  OBVIOUS
<1>1. PICK n \in {1, 2} : auditPage = OpenAt(Address(n, NoAuditFilter))
  BY DEF AuditInit
<1> QED
  BY <1>1, OpenedWaits DEF AuditInit, OpenAt

\* The effect of load.
LEMMA ReloadWaits ==
    ASSUME AuditWaits, NEW ui, NEW url, NEW f, Reload(ui, url, f), Room(auditNet, 1),
           DOMAIN ui = DOMAIN auditPage, ui.loading = auditPage.loading
    PROVE  AuditWaits'
<1> DEFINE same == url.page = auditPage.url.page /\ f = auditPage.filters
<1>1. DOMAIN auditPage' = DOMAIN auditPage /\ auditPage'.loading = (auditPage.loading \/ ~same)
  BY DEF Reload, AuditWaits
<1>2. CASE same
  <2>1. auditNet' = auditNet
    BY <1>2 DEF Reload
  <2> QED
    BY <1>1, <1>2, <2>1, StayGoes, AuditWaitsKept DEF AuditWaits
<1>3. CASE ~same
  <2>1. \E arg : auditNet' = Send(auditNet, "audit", arg)
    BY <1>3 DEF Reload
  <2>2. Goes(auditNet, auditNet', {}) /\ \E arg : Underway(auditNet', "audit", arg)
    BY <2>1, SendGoes DEF AuditWaits
  <2> QED
    BY <1>1, <2>2, AuditWaitsKept
<1> QED
  BY <1>2, <1>3

\* Every step keeps it.
LEMMA AuditWaitsStep == AuditWaits /\ [AuditNext]_auditVars => AuditWaits'
<1> SUFFICES ASSUME AuditWaits, [AuditNext]_auditVars PROVE AuditWaits'
  OBVIOUS
<1> USE DEF AuditWaits
<1>1. CASE UNCHANGED <<auditPage, auditNet>>
  BY <1>1, Zenon
<1>2. ASSUME NEW f, SetFilters(f) PROVE AuditWaits'
  <2> DEFINE ui == Push(StepAudit, f)
  <2>1. DOMAIN ui = DOMAIN auditPage /\ ui.loading = auditPage.loading
    BY DEF Push, StepAudit, Pressed
  <2>2. Room(auditNet, 1) /\ Reload(ui, auditPage.url, f)
    BY <1>2 DEF SetFilters, PressAudit
  <2> HIDE DEF ui, AuditWaits
  <2> QED
    BY <2>1, <2>2, ReloadWaits
<1>3. CASE ClearAudit \/ \E a \in {"", "user"} : ChooseAction(a)
  <2>1. \E f : SetFilters(f)
    BY <1>3, Zenon DEF ClearAudit, ChooseAction
  <2> QED
    BY <1>2, <2>1, Zenon
<1>4. ASSUME NEW u \in {"", "a"}, TypeAuditUser(u) PROVE AuditWaits'
  <2> DEFINE ui == [StepAudit EXCEPT !.typing = TRUE]
  <2>1. DOMAIN ui = DOMAIN auditPage /\ ui.loading = auditPage.loading
    BY DEF StepAudit, Pressed
  <2>2. Room(auditNet, 1) /\ \E f : Reload(ui, auditPage.url, f)
    BY <1>4, Zenon DEF TypeAuditUser, PressAudit
  <2> HIDE DEF ui, AuditWaits
  <2> QED
    BY <2>1, <2>2, ReloadWaits
<1>5. CASE LeaveUser
  <2>1. DOMAIN auditPage' = DOMAIN auditPage /\ auditPage'.loading = auditPage.loading /\ auditNet' = auditNet
    BY <1>5 DEF LeaveUser, Push
  <2> QED
    BY <2>1, StayGoes, AuditWaitsKept
<1>6. CASE Arrive
  <2> DEFINE ui == [auditPage EXCEPT !.going = None, !.back = auditPage.url,
                       !.calm = @ /\ (Quiet(auditNet) \/ auditPage.going.page = auditPage.url.page)]
  <2>1. DOMAIN ui = DOMAIN auditPage /\ ui.loading = auditPage.loading
    OBVIOUS
  <2>2. Room(auditNet, 1) /\ Reload(ui, auditPage.going, auditPage.filters)
    BY <1>6 DEF Arrive
  <2> HIDE DEF ui, AuditWaits
  <2> QED
    BY <2>1, <2>2, ReloadWaits
<1>7. CASE GoBack
  <2> DEFINE ui == [StepAudit EXCEPT !.back = None, !.calm = FALSE]
  <2>1. DOMAIN ui = DOMAIN auditPage /\ ui.loading = auditPage.loading
    BY DEF StepAudit, Pressed
  <2>2. Room(auditNet, 1) /\ Reload(ui, auditPage.back, auditPage.filters)
    BY <1>7 DEF GoBack, PressAudit
  <2> HIDE DEF ui, AuditWaits
  <2> QED
    BY <2>1, <2>2, ReloadWaits
<1>8. ASSUME NEW n, FollowLink(n) PROVE AuditWaits'
  <2> DEFINE url == Address(n, auditPage.filters)
  <2>1. /\ auditPage'.loading
        /\ {"url", "filters", "going", "back", "loading", "typing", "shown", "clicks", "calm"} \subseteq DOMAIN auditPage'
    BY <1>8 DEF FollowLink, OpenAt
  <2>2. auditNet' = Send(NoCalls, "audit", url)
    BY <1>8 DEF FollowLink
  <2>3. Goes(NoCalls, auditNet', {}) /\ Underway(auditNet', "audit", url)
    BY <2>2, EmptyRoom, NoCallsIsNet, SendGoes
  <2> QED
    BY <2>1, <2>3 DEF Goes, Underway
<1>9. ASSUME NEW i \in Slot, ServeAudit(i) \/ AuditCallFails(i) PROVE AuditWaits'
  <2>1. DOMAIN auditPage' = DOMAIN auditPage /\ auditPage'.loading = auditPage.loading
    BY <1>9 DEF ServeAudit, AuditCallFails, Missed
  <2>2. Goes(auditNet, auditNet', {})
    BY <1>9, AnswerGoes DEF ServeAudit, AuditCallFails, Sent, CanFail, Pending
  <2> QED
    BY <2>1, <2>2, AuditWaitsKept
<1>10. ASSUME NEW i \in Slot, AuditRead(i) PROVE AuditWaits'
  <2>1. DOMAIN auditPage' = DOMAIN auditPage /\ ~auditPage'.loading
    BY <1>10 DEF AuditRead
  <2>2. Goes(auditNet, auditNet', {i})
    BY <1>10, EndGoes DEF AuditRead
  <2> QED
    BY <2>1, <2>2, AuditWaitsKept
<1> QED
  BY <1>1, <1>3, <1>4, <1>5, <1>6, <1>7, <1>8, <1>9, <1>10, Zenon DEF AuditNext, auditVars

-----------------------------------------------------------------------------
(***************************************************************************)
(* Changes: the feed and a row taken back.                                 *)
(***************************************************************************)
\* A row that is taken back waits for the revert, then for the feed read after it.
ChangeWaits ==
    /\ {"filters", "actor", "records", "loading", "reverting", "clicks", "calm"} \subseteq DOMAIN changePage
    /\ IsNet(changeNet)
    /\ changePage.loading => \E j \in Pending(changeNet) : changeNet[j].op \in Feeds
    /\ changePage.reverting # None => \E j \in Pending(changeNet) : changeNet[j].op \in {"revert", "reload"}

\* It is kept when every flag that is up still has a request on its way.
LEMMA ChangeWaitsKept ==
    ASSUME ChangeWaits, NEW gone, Goes(changeNet, changeNet', gone), DOMAIN changePage' = DOMAIN changePage,
           changePage'.loading => \/ changePage.loading /\ \A i \in gone : changeNet[i].op \notin Feeds
                                  \/ \E op \in Feeds : \E arg : Underway(changeNet', op, arg),
           changePage'.reverting # None =>
               \/ changePage.reverting # None /\ \A i \in gone : changeNet[i].op \notin {"revert", "reload"}
               \/ \E op \in {"revert", "reload"} : \E arg : Underway(changeNet', op, arg)
    PROVE  ChangeWaits'
  BY DEF ChangeWaits, Goes, Underway, Feeds

\* It holds at the start.
LEMMA ChangeWaitsStart == ChangesInit => ChangeWaits
<1> SUFFICES ASSUME ChangesInit PROVE ChangeWaits
  OBVIOUS
<1>1. Goes(NoCalls, changeNet, {}) /\ Underway(changeNet, "feed", NoFilters)
  BY EmptyRoom, NoCallsIsNet, SendGoes DEF ChangesInit
<1> QED
  BY <1>1 DEF ChangesInit, ChangeWaits, Goes, Underway, Feeds

\* Every step keeps it.
LEMMA ChangeWaitsStep == ChangeWaits /\ [ChangesNext]_changeVars => ChangeWaits'
<1> SUFFICES ASSUME ChangeWaits, [ChangesNext]_changeVars PROVE ChangeWaits'
  OBVIOUS
<1> USE DEF ChangeWaits
<1>1. CASE UNCHANGED <<changePage, changeNet>>
  BY <1>1, Zenon
<1>2. ASSUME NEW f, FilterBy(f) PROVE ChangeWaits'
  <2>1. DOMAIN changePage' = DOMAIN changePage /\ changePage'.reverting = changePage.reverting
    BY <1>2 DEF FilterBy, LoadFeed, StepChange, Pressed
  <2>2. Goes(changeNet, changeNet', {}) /\ \E op \in Feeds : \E arg : Underway(changeNet', op, arg)
    BY <1>2, SendGoes DEF FilterBy, PressChange, Feeds
  <2> QED
    BY <2>1, <2>2, ChangeWaitsKept
<1>3. CASE ApplyActor \/ \E by \in {"", "ai", "user"} : ChooseSource(by)
  BY <1>2, <1>3 DEF ApplyActor, ChooseSource
<1>4. ASSUME NEW a, TypeActor(a) PROVE ChangeWaits'
  <2>1. /\ DOMAIN changePage' = DOMAIN changePage /\ changePage'.loading = changePage.loading
        /\ changePage'.reverting = changePage.reverting /\ changeNet' = changeNet
    BY <1>4 DEF TypeActor, StepChange, Pressed
  <2> QED
    BY <2>1, StayGoes, ChangeWaitsKept
<1>5. CASE ClearChangeFilters
  <2>1. DOMAIN changePage' = DOMAIN changePage /\ changePage'.reverting = changePage.reverting
    BY <1>5 DEF ClearChangeFilters, LoadFeed, StepChange, Pressed
  <2>2. Goes(changeNet, changeNet', {}) /\ \E op \in Feeds : \E arg : Underway(changeNet', op, arg)
    BY <1>5, SendGoes DEF ClearChangeFilters, PressChange, Feeds
  <2> QED
    BY <2>1, <2>2, ChangeWaitsKept
<1>6. ASSUME NEW r, Revert(r) PROVE ChangeWaits'
  <2>1. DOMAIN changePage' = DOMAIN changePage /\ changePage'.loading = changePage.loading
    BY <1>6 DEF Revert, SendRevert, StepChange, Pressed
  <2>2. Goes(changeNet, changeNet', {}) /\ \E op \in {"revert", "reload"} : \E arg : Underway(changeNet', op, arg)
    BY <1>6, SendGoes DEF Revert, Unreverted, SendRevert, PressChange
  <2> QED
    BY <2>1, <2>2, ChangeWaitsKept
<1>7. ASSUME NEW i \in Slot, ServeFeed(i) \/ ServeRevert(i) \/ ChangeCallFails(i) PROVE ChangeWaits'
  <2>1. /\ DOMAIN changePage' = DOMAIN changePage /\ changePage'.loading = changePage.loading
        /\ changePage'.reverting = changePage.reverting
    BY <1>7 DEF ServeFeed, ServeRevert, ChangeCallFails, Missed
  <2>2. changeNet[i] # Free /\ (changeNet' = Fail(changeNet, i) \/ \E out : changeNet' = Reply(changeNet, i, out))
    BY <1>7, Zenon DEF ServeFeed, ServeRevert, ChangeCallFails, Sent, CanFail, Pending
  <2>3. Goes(changeNet, changeNet', {})
    BY <2>2, AnswerGoes
  <2> QED
    BY <2>1, <2>3, ChangeWaitsKept
<1>8. ASSUME NEW i \in Slot, FeedRead(i) PROVE ChangeWaits'
  <2>1. DOMAIN changePage' = DOMAIN changePage /\ ~changePage'.loading
    BY <1>8 DEF FeedRead
  <2>2. /\ changeNet[i].op \in Feeds
        /\ changeNet[i].op = "feed" => changePage'.reverting = changePage.reverting
        /\ changeNet[i].op = "reload" => changePage'.reverting = None
    BY <1>8 DEF FeedRead, Settled, Ok, Err, Feeds
  <2>3. Goes(changeNet, changeNet', {i})
    BY <1>8, EndGoes DEF FeedRead
  <2> QED
    BY <2>1, <2>2, <2>3, ChangeWaitsKept DEF Feeds
<1>9. ASSUME NEW i \in Slot, Reverted(i) PROVE ChangeWaits'
  <2>1. changeNet[i].op = "revert"
    BY <1>9 DEF Reverted, Settled, Ok, Err
  <2>2. CASE Ok(changeNet, i, "revert")
    <3>1. DOMAIN changePage' = DOMAIN changePage /\ changePage'.reverting = changePage.reverting
      BY <1>9, <2>2 DEF Reverted
    <3>2. \E arg : changeNet' = Then(changeNet, i, "reload", arg)
      BY <1>9, <2>2, Zenon DEF Reverted
    <3>3. Goes(changeNet, changeNet', {i}) /\ \E arg : Underway(changeNet', "reload", arg)
      BY <3>2, EndGoes
    <3> QED
      BY <2>1, <3>1, <3>3, ChangeWaitsKept DEF Feeds
  <2>3. CASE ~Ok(changeNet, i, "revert")
    <3>1. DOMAIN changePage' = DOMAIN changePage /\ changePage'.loading = changePage.loading /\ changePage'.reverting = None
      BY <1>9, <2>3 DEF Reverted
    <3>2. changeNet' = Done(changeNet, i)
      BY <1>9, <2>3, Zenon DEF Reverted
    <3>3. Goes(changeNet, changeNet', {i})
      BY <3>2, EndGoes
    <3> QED
      BY <2>1, <3>1, <3>3, ChangeWaitsKept DEF Feeds
  <2> QED
    BY <2>2, <2>3
<1> QED
  BY <1>1, <1>3, <1>4, <1>5, <1>6, <1>7, <1>8, <1>9 DEF ChangesNext, changeVars

-----------------------------------------------------------------------------
(***************************************************************************)
(* Deliveries: the list and its button.                                    *)
(***************************************************************************)
\* The rows wait for a load of either kind, the button for one of its own.
DeliveryWaits ==
    /\ {"filters", "list", "sources", "loading", "refreshing", "clicks", "calm"} \subseteq DOMAIN deliveryTab
    /\ IsNet(deliveryNet)
    /\ deliveryTab.loading => \E j \in Pending(deliveryNet) : deliveryNet[j].op \in DeliveryOps
    /\ deliveryTab.refreshing => \E j \in Pending(deliveryNet) : deliveryNet[j].op = "refresh"

\* It is kept when every flag that is up still has a request on its way.
LEMMA DeliveryWaitsKept ==
    ASSUME DeliveryWaits, NEW gone, Goes(deliveryNet, deliveryNet', gone), DOMAIN deliveryTab' = DOMAIN deliveryTab,
           deliveryTab'.loading => deliveryTab.loading /\ gone = {},
           deliveryTab'.refreshing => \/ deliveryTab.refreshing /\ \A i \in gone : deliveryNet[i].op # "refresh"
                                      \/ \E arg : Underway(deliveryNet', "refresh", arg)
    PROVE  DeliveryWaits'
  BY DEF DeliveryWaits, Goes, Underway

\* A load takes a free place.
LEMMA LoadGoes ==
    ASSUME NEW net, IsNet(net), NEW op, NEW f, Room(net, 1)
    PROVE  Goes(net, LoadDeliveries(net, op, f), {}) /\ Underway(LoadDeliveries(net, op, f), op, f)
<1> DEFINE i == CHOOSE j \in Slot \ Pending(net) : TRUE
           c == [Call(op, f) EXCEPT !.out = Unanswered]
<1>1. Slot \ Pending(net) # {}
  BY FS_EmptySet DEF Room
<1>2. i \in Slot \ Pending(net)
  BY <1>1
<1>3. c = [op |-> op, arg |-> f, st |-> "sent", out |-> Unanswered]
  BY DEF Call
<1>4. IsCall(c) /\ c # Free /\ c.op = op /\ c.arg = f
  BY <1>3 DEF IsCall, Free
<1>5. LoadDeliveries(net, op, f) = [net EXCEPT ![i] = c]
  BY DEF LoadDeliveries
<1> HIDE DEF i, c
<1>6. [net EXCEPT ![i] = c] = Put(net, i, c)
  BY DEF IsNet, Put
<1>7. i \in Slot
  BY <1>2
<1>8. net[i] = Free
  BY <1>2 DEF Pending
<1>9. Goes(net, Put(net, i, c), {}) /\ Underway(Put(net, i, c), c.op, c.arg)
  BY <1>4, <1>7, <1>8, PutGoes
<1> QED
  BY <1>4, <1>5, <1>6, <1>9

\* One of the two answers of a load comes in.
LEMMA AnswerKeeps ==
    ASSUME IsNet(deliveryNet), NEW i \in Slot, NEW field, NEW value, Answer(i, field, value)
    PROVE  Goes(deliveryNet, deliveryNet', {})
<1> DEFINE c == deliveryNet[i]
           out == [c.out EXCEPT ![field] = <<value>>]
           d == [c EXCEPT !.out = out]
<1>1. c # Free /\ IsCall(c)
  BY DEF Answer, Loading, Sent, IsNet
<1>2. d = [op |-> c.op, arg |-> c.arg, st |-> c.st, out |-> out] /\ c.st = "sent"
  BY <1>1 DEF IsCall, Answer, Loading, Sent
<1>3. deliveryNet' = [deliveryNet EXCEPT ![i].out[field] = <<value>>]
  BY DEF Answer
<1>4. IsCall(d) /\ d # Free /\ d.op = c.op /\ d.arg = c.arg
  BY <1>2 DEF IsCall, Free
<1> HIDE DEF d
<1>5. deliveryNet' = Put(deliveryNet, i, d)
  BY <1>3 DEF IsNet, Put, d
<1> QED
  BY <1>4, <1>5, PutGoes

\* It holds at the start.
LEMMA DeliveryWaitsStart == DeliveriesInit => DeliveryWaits
<1> SUFFICES ASSUME DeliveriesInit PROVE DeliveryWaits
  OBVIOUS
<1>1. Goes(NoCalls, deliveryNet, {}) /\ Underway(deliveryNet, "load", Everything)
  BY EmptyRoom, NoCallsIsNet, LoadGoes DEF DeliveriesInit
<1> QED
  BY <1>1 DEF DeliveriesInit, DeliveryWaits, Goes, Underway, DeliveryOps

\* Every step keeps it.
LEMMA DeliveryWaitsStep == DeliveryWaits /\ [DeliveriesNext]_deliveryVars => DeliveryWaits'
<1> SUFFICES ASSUME DeliveryWaits, [DeliveriesNext]_deliveryVars PROVE DeliveryWaits'
  OBVIOUS
<1> USE DEF DeliveryWaits
<1> DEFINE Same == /\ DOMAIN deliveryTab' = DOMAIN deliveryTab /\ deliveryTab'.loading = deliveryTab.loading
                   /\ deliveryTab'.refreshing = deliveryTab.refreshing
<1>1. CASE UNCHANGED <<deliveryTab, deliveryNet>>
  BY <1>1, Zenon
<1>2. ASSUME NEW t \in Trigger, NEW bad \in BOOLEAN, Attempt(t, bad) PROVE DeliveryWaits'
  <2>1. Same /\ deliveryNet' = deliveryNet
    BY <1>2 DEF Attempt
  <2> QED
    BY <2>1, StayGoes, DeliveryWaitsKept
<1>3. ASSUME NEW f, Narrow(f) PROVE DeliveryWaits'
  <2>1. Same
    BY <1>3 DEF Narrow, StepDelivery, Pressed
  <2>2. Goes(deliveryNet, deliveryNet', {})
    BY <1>3, LoadGoes DEF Narrow, PressDelivery
  <2> QED
    BY <2>1, <2>2, DeliveryWaitsKept
<1>4. CASE \/ \E st \in {AllOf, "sent", "failed"} : ByOutcome(st)
           \/ \E t \in Trigger \cup {AllOf} : ByTrigger(t)
  <2>1. \E f : Narrow(f)
    BY <1>4, Zenon DEF ByOutcome, ByTrigger
  <2> QED
    BY <1>3, <2>1, Zenon
<1>5. CASE Refresh
  <2>1. DOMAIN deliveryTab' = DOMAIN deliveryTab /\ deliveryTab'.loading = deliveryTab.loading
    BY <1>5 DEF Refresh, StepDelivery, Pressed
  <2>2. Goes(deliveryNet, deliveryNet', {}) /\ \E arg : Underway(deliveryNet', "refresh", arg)
    BY <1>5, LoadGoes DEF Refresh, PressDelivery
  <2> QED
    BY <2>1, <2>2, DeliveryWaitsKept
<1>6. ASSUME NEW i \in Slot, NEW field, NEW value, Answer(i, field, value) PROVE DeliveryWaits'
  <2>1. Same /\ Goes(deliveryNet, deliveryNet', {})
    BY <1>6, AnswerKeeps DEF Answer
  <2> QED
    BY <2>1, DeliveryWaitsKept
<1>7. ASSUME NEW i \in Slot, ServeDeliveries(i) \/ ServeSummary(i) \/ SummaryFails(i) PROVE DeliveryWaits'
  BY <1>6, <1>7, Zenon DEF ServeDeliveries, ServeSummary, SummaryFails
<1>8. ASSUME NEW i \in Slot, ListFails(i) \/ HistoryRead(i) PROVE DeliveryWaits'
  <2>1. /\ DOMAIN deliveryTab' = DOMAIN deliveryTab /\ ~deliveryTab'.loading
        /\ deliveryTab'.refreshing => deliveryTab.refreshing /\ deliveryNet[i].op # "refresh"
    BY <1>8 DEF ListFails, HistoryRead
  <2>2. Goes(deliveryNet, deliveryNet', {i})
    BY <1>8, EndGoes DEF ListFails, HistoryRead
  <2> QED
    BY <2>1, <2>2, DeliveryWaitsKept
<1> QED
  BY <1>1, <1>2, <1>4, <1>5, <1>7, <1>8 DEF DeliveriesNext, deliveryVars

-----------------------------------------------------------------------------
(***************************************************************************)
(* The console: a step of it is one of the page on display, and leaves the *)
(* variables of every other page as they are.                              *)
(***************************************************************************)
LEMMA ConsoleSteps ==
    /\ Init => /\ TreeInit /\ RowInit /\ DialogsInit /\ InvitesInit /\ UsersInit /\ RolesInit
               /\ ShareInit /\ ConnsInit /\ PipesInit /\ WarehousesInit /\ GroupsInit /\ NavInit
               /\ PageInit /\ AuditInit /\ ChangesInit /\ DeliveriesInit
    /\ [Next]_vars => /\ [TreeNext]_treeVars /\ [RowNext]_rowVars /\ [DialogsNext]_dialogVars
                      /\ [InvitesNext]_inviteVars /\ [UsersNext]_usersVars /\ [RolesNext]_roleVars
                      /\ [ShareNext]_shareVars /\ [ConnsNext]_connVars /\ [PipesNext]_pipeVars
                      /\ [WarehousesNext]_whVars /\ [GroupsNext]_groupVars /\ [NavNext]_navVars
                      /\ [PageNext]_pageVars /\ [AuditNext]_auditVars /\ [ChangesNext]_changeVars
                      /\ [DeliveriesNext]_deliveryVars
<1>1. Init => /\ TreeInit /\ RowInit /\ DialogsInit /\ InvitesInit /\ UsersInit /\ RolesInit
              /\ ShareInit /\ ConnsInit /\ PipesInit /\ WarehousesInit /\ GroupsInit /\ NavInit
              /\ PageInit /\ AuditInit /\ ChangesInit /\ DeliveriesInit
  BY DEF Init
<1>2. ASSUME [Next]_vars
      PROVE  /\ [TreeNext]_treeVars /\ [RowNext]_rowVars /\ [DialogsNext]_dialogVars
             /\ [InvitesNext]_inviteVars /\ [UsersNext]_usersVars /\ [RolesNext]_roleVars
             /\ [ShareNext]_shareVars /\ [ConnsNext]_connVars /\ [PipesNext]_pipeVars
             /\ [WarehousesNext]_whVars /\ [GroupsNext]_groupVars /\ [NavNext]_navVars
             /\ [PageNext]_pageVars /\ [AuditNext]_auditVars /\ [ChangesNext]_changeVars
             /\ [DeliveriesNext]_deliveryVars
  <2>1. CASE UNCHANGED vars
    BY <2>1 DEF vars
  <2>2. ASSUME NEW s \in Screens, Others(s)
        PROVE  /\ s # "tree" => UNCHANGED treeVars
               /\ s # "rows" => UNCHANGED rowVars
               /\ s # "keys" => UNCHANGED dialogVars
               /\ s # "invites" => UNCHANGED inviteVars
               /\ s # "users" => UNCHANGED usersVars
               /\ s # "roles" => UNCHANGED roleVars
               /\ s # "access" => UNCHANGED shareVars
               /\ s # "connections" => UNCHANGED connVars
               /\ s # "pipelines" => UNCHANGED pipeVars
               /\ s # "warehouses" => UNCHANGED whVars
               /\ s # "groups" => UNCHANGED groupVars
               /\ s # "navigation" => UNCHANGED navVars
               /\ s # "page" => UNCHANGED pageVars
               /\ s # "audit" => UNCHANGED auditVars
               /\ s # "changes" => UNCHANGED changeVars
               /\ s # "deliveries" => UNCHANGED deliveryVars
    BY <2>2, Zenon DEF Others
  <2>3. CASE Next
    <3>1. PICK s \in Screens : /\ Others(s)
                               /\ s = "tree" => TreeNext
                               /\ s = "rows" => RowNext
                               /\ s = "keys" => DialogsNext
                               /\ s = "invites" => InvitesNext
                               /\ s = "users" => UsersNext
                               /\ s = "roles" => RolesNext
                               /\ s = "access" => ShareNext
                               /\ s = "connections" => ConnsNext
                               /\ s = "pipelines" => PipesNext
                               /\ s = "warehouses" => WarehousesNext
                               /\ s = "groups" => GroupsNext
                               /\ s = "navigation" => NavNext
                               /\ s = "page" => PageNext
                               /\ s = "audit" => AuditNext
                               /\ s = "changes" => ChangesNext
                               /\ s = "deliveries" => DeliveriesNext
      BY <2>3, Zenon DEF Next, Screens
    <3> QED
      BY <2>2, <3>1
  <2> QED
    BY <1>2, <2>1, <2>3
<1> QED
  BY <1>1, <1>2

\* Every flag on every page has its request.
ConsoleWait ==
    /\ TreeWaits /\ RowWaits /\ DialogWaits /\ InviteWaits /\ UserWaits /\ RoleWaits
    /\ ShareWaits /\ ConnWaits /\ PipeWaits /\ WhWaits /\ GroupWaits /\ NavWaits
    /\ PageWaits /\ AuditWaits /\ ChangeWaits /\ DeliveryWaits /\ RoleTypes

LEMMA ConsoleWaitStart == Init => ConsoleWait
  BY ConsoleSteps, RoleTypesStart, TreeWaitsStart, RowWaitsStart, DialogWaitsStart, InviteWaitsStart, UserWaitsStart,
     RoleWaitsStart, ShareWaitsStart, ConnWaitsStart, PipeWaitsStart, WhWaitsStart,
     GroupWaitsStart, NavWaitsStart, PageWaitsStart, AuditWaitsStart, ChangeWaitsStart,
     DeliveryWaitsStart, Zenon
     DEF ConsoleWait

LEMMA ConsoleWaitStep == ConsoleWait /\ [Next]_vars => ConsoleWait'
<1> SUFFICES ASSUME ConsoleWait, [Next]_vars PROVE ConsoleWait'
  OBVIOUS
<1>1. /\ [TreeNext]_treeVars /\ [RowNext]_rowVars /\ [DialogsNext]_dialogVars
      /\ [InvitesNext]_inviteVars /\ [UsersNext]_usersVars /\ [RolesNext]_roleVars
      /\ [ShareNext]_shareVars /\ [ConnsNext]_connVars /\ [PipesNext]_pipeVars
      /\ [WarehousesNext]_whVars /\ [GroupsNext]_groupVars /\ [NavNext]_navVars
      /\ [PageNext]_pageVars /\ [AuditNext]_auditVars /\ [ChangesNext]_changeVars
      /\ [DeliveriesNext]_deliveryVars
  BY ConsoleSteps
<1>2. TreeWaits' /\ RowWaits' /\ DialogWaits' /\ InviteWaits' /\ UserWaits'
  BY <1>1, TreeWaitsStep, RowWaitsStep, DialogWaitsStep, InviteWaitsStep, UserWaitsStep DEF ConsoleWait
<1>3. RoleTypes'
  BY <1>1, RoleTypesStep DEF ConsoleWait, RoleWaits, RoleListFields
<1>4. RoleWaits' /\ ShareWaits' /\ ConnWaits' /\ PipeWaits' /\ WhWaits'
  BY <1>1, RoleWaitsStep, ShareWaitsStep, ConnWaitsStep, PipeWaitsStep, WhWaitsStep DEF ConsoleWait
<1>5. GroupWaits' /\ NavWaits' /\ PageWaits' /\ AuditWaits' /\ ChangeWaits' /\ DeliveryWaits'
  BY <1>1, GroupWaitsStep, NavWaitsStep, PageWaitsStep, AuditWaitsStep, ChangeWaitsStep, DeliveryWaitsStep
     DEF ConsoleWait
<1> QED
  BY <1>2, <1>3, <1>4, <1>5, Zenon DEF ConsoleWait

\* With nothing on its way, nothing waits.
LEMMA NothingWaits == ConsoleWait => NothingHangs
<1> SUFFICES ASSUME ConsoleWait PROVE NothingHangs
  OBVIOUS
<1>1. TreeSpinners
  BY DEF ConsoleWait, TreeWaits, ReadsFor, TreeSpinners, Of
<1>2. RowSpinners
  <2>1. RowWaits
    BY DEF ConsoleWait
  <2>2. ASSUME Quiet(rowNet) PROVE page.busy = {} /\ ~page.loading /\ page.reverting = None
    BY <2>1, <2>2 DEF RowWaits, Quiet
  <2>3. ASSUME Quiet(rowNet), page.revert # None PROVE ~page.revert.loading /\ ~page.revert.applying
    BY <2>1, <2>3 DEF RowWaits, Quiet
  <2> QED
    BY <2>2, <2>3 DEF RowSpinners
<1>3. DialogSpinners
  BY DEF ConsoleWait, DialogWaits, DialogSpinners, Quiet
<1>4. InviteSpinners
  BY DEF ConsoleWait, InviteWaits, InviteSpinners, Quiet
<1>5. UserSpinners
  BY DEF ConsoleWait, UserWaits, UserSpinners, Quiet
<1>6. RoleSpinners
  BY DEF ConsoleWait, RoleWaits, RoleListWaits, RoleEditWaits, RoleSpinners, Quiet
<1>7. ShareSpinners /\ ConnSpinners
  BY DEF ConsoleWait, ShareWaits, ShareSpinners, ConnWaits, ConnSpinners, Quiet
<1>8. PipeSpinners
  BY PipeCalls DEF ConsoleWait, PipeWaits, PipeSpinners, P!ConnSpinners, P!Quiet
<1>9. WhSpinners /\ GroupSpinners
  BY DEF ConsoleWait, WhWaits, WhSpinners, GroupWaits, GroupSpinners, Quiet
<1>10. NavSpinners /\ PageSpinners
  BY DEF ConsoleWait, NavWaits, NavSpinners, PageWaits, PageSpinners, Quiet, Of
<1>11. AuditSpinners /\ ChangeSpinners /\ DeliverySpinners
  BY DEF ConsoleWait, AuditWaits, AuditSpinners, ChangeWaits, ChangeSpinners, DeliveryWaits, DeliverySpinners, Quiet
<1> QED
  BY <1>1, <1>2, <1>3, <1>4, <1>5, <1>6, <1>7, <1>8, <1>9, <1>10, <1>11 DEF NothingHangs

\* No page of the console waits for ever, or holds a button for ever: once every request
\* has been answered or has failed, in whatever order, nothing on display says that it
\* waits.
THEOREM NoConsolePageHangs == Spec => []NothingHangs
<1>1. Spec => []ConsoleWait
  BY ConsoleWaitStart, ConsoleWaitStep, PTL DEF Spec
<1> QED
  BY <1>1, NothingWaits, PTL

===============================================================================
