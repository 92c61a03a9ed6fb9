------------------------------- MODULE NavConfig -------------------------------
(***************************************************************************)
(* The navigation of the portal: the editor of an administrator            *)
(* (admin/nav-config/page.tsx), what the API accepts of its drafts         *)
(* (routers/admin.py, schemas/nav_config.py) and the bar every user gets   *)
(* (layout/PortalNav.tsx, lib/navAccess.ts).  The editor keeps the whole   *)
(* list and saves it in one request, order included.                       *)
(***************************************************************************)
EXTENDS Calls, Sequences, SequencesExt

CONSTANTS
    LinkTarget,         \* what an entry can lead to
    OddTarget,      \* paths only the page lets through: an inner space, a long one
    At,             \* of a target: its section and the resource it names, if any
    Sections,       \* the sections switched off by a feature flag
    Listed,         \* those whose resources the layout knows: dashboards and pages
    Viewer,         \* users: [admin, features, resources]
    ItemLimit,      \* MAX_ITEMS and MAX_CHILDREN of the API, which the page does not know
    EntryLimit,
    FirstNavs,      \* what the page may find stored
    MaxItems,       \* bound: items of a draft
    MaxEntries,     \* bound: entries of a dropdown
    MaxNavClicks    \* bound: clicks of the administrator

VARIABLES
    navConfig,   \* the stored navigation; empty stands for the default
    editor,      \* the React state of the page
    bar,         \* what PortalNav was given when a user last opened the portal
    editorNet    \* the requests of the page

navVars == <<navConfig, editor, bar, editorNet>>

\* A target as typed or picked from the suggestions, with blanks around it or not;
\* None is an empty field.
Href == [to : LinkTarget, padded : BOOLEAN]

\* A label is left empty, or filled in; a long one has more than a hundred characters.
Label == {"", "short", "long"}

\* Of the users' default links none is odd.
ASSUME NavAssumption ==
    /\ None \notin Href /\ Viewer # {} /\ ItemLimit \in Nat /\ EntryLimit \in Nat
    /\ \A v \in Viewer : \A s \in {"home"} \cup v.features : s \notin OddTarget /\ None # [to |-> s, padded |-> FALSE]

\* The items a draft consists of, and those that are stored.
NavLink == [label : Label, href : Href \cup {None}]
NavItem ==
    [type : {"link"}, label : Label, href : Href \cup {None}, items : {<<>>}]
        \cup [type : {"dropdown"}, label : Label, href : {None}, items : Seq(NavLink)]

GoodHref == {href \in Href : ~href.padded /\ href.to \notin OddTarget}
StoredItem ==
    {item \in NavItem : IF item.type = "link" THEN item.href \in GoodHref
                        ELSE \A e \in Range(item.items) : e.href \in GoodHref}

ASSUME FirstNavsAssumption == FirstNavs \subseteq Seq(StoredItem)

Entry(label, href) == [label |-> label, href |-> href]
Fresh == Entry("", None)
LinkItem(label, href) == [type |-> "link", label |-> label, href |-> href, items |-> <<>>]
Dropdown(label, items) == [type |-> "dropdown", label |-> label, href |-> None, items |-> items]

NavInit ==
    /\ navConfig \in FirstNavs
    /\ editor = [items |-> <<>>, loading |-> TRUE, saving |-> FALSE, touched |-> FALSE, clicks |-> 0, calm |-> TRUE]
    /\ bar = [config |-> <<>>, mounted |-> FALSE, viewer |-> CHOOSE v \in Viewer : TRUE, access |-> None]
    /\ editorNet = Send(NoCalls, "load", None)

-----------------------------------------------------------------------------
(* Loading *)

ServeNav(i) ==
    /\ Sent(editorNet, i, "load")
    /\ editorNet' = Reply(editorNet, i, navConfig)
    /\ UNCHANGED <<navConfig, editor, bar>>

\* A failed load leaves an empty draft on the page.
NavRead(i) ==
    /\ Settled(editorNet, i, "load")
    /\ editor' = IF Ok(editorNet, i, "load") THEN [editor EXCEPT !.items = editorNet[i].out, !.loading = FALSE]
                 ELSE [editor EXCEPT !.loading = FALSE, !.calm = FALSE]
    /\ editorNet' = Done(editorNet, i)
    /\ UNCHANGED <<navConfig, bar>>

-----------------------------------------------------------------------------
(* Editing *)

Draft(items) ==
    /\ editor.clicks < MaxNavClicks /\ ~editor.loading /\ items # editor.items
    /\ editor' = [Pressed(editor, TRUE) EXCEPT !.items = items, !.touched = TRUE]
    /\ UNCHANGED <<navConfig, bar, editorNet>>

UpdateItem(k, item) == Draft([editor.items EXCEPT ![k] = item])

Rename(k, label) == UpdateItem(k, [editor.items[k] EXCEPT !.label = label])

\* The half that no longer applies goes.
SwitchType(k) ==
    LET item == editor.items[k]
    IN UpdateItem(k, IF item.type = "link" THEN Dropdown(item.label, <<Fresh>>) ELSE LinkItem(item.label, None))

PointLink(k, href) ==
    editor.items[k].type = "link" /\ UpdateItem(k, [editor.items[k] EXCEPT !.href = href])

EditEntries(k, items) == editor.items[k].type = "dropdown" /\ UpdateItem(k, [editor.items[k] EXCEPT !.items = items])
AddEntry(k) == Len(editor.items[k].items) < MaxEntries /\ EditEntries(k, Append(editor.items[k].items, Fresh))
UpdateEntry(k, c, entry) == EditEntries(k, [editor.items[k].items EXCEPT ![c] = entry])
RemoveEntry(k, c) == EditEntries(k, RemoveAt(editor.items[k].items, c))

RemoveItem(k) == Draft(RemoveAt(editor.items, k))
MoveItem(k, target) ==
    /\ target \in {k - 1, k + 1} \cap DOMAIN editor.items
    /\ Draft([editor.items EXCEPT ![k] = editor.items[target], ![target] = editor.items[k]])
AddItem == Len(editor.items) < MaxItems /\ \E item \in {LinkItem("", None), Dropdown("", <<Fresh>>)} :
                                                  Draft(Append(editor.items, item))
ResetNav == Draft(<<>>)

-----------------------------------------------------------------------------
(* Saving *)

\* validate: what the page has nothing to say about.
ItemFine(item) ==
    /\ item.label # ""
    /\ IF item.type = "link" THEN item.href # None
       ELSE item.items # <<>> /\ \A e \in Range(item.items) : e.label # "" /\ e.href # None
ValidNav(items) == \A item \in Range(items) : ItemFine(item)

\* NavConfigRequest, NavItem and NavLink of the API: the fields must fit the type
\* as well, a path must match the pattern, and nothing may be too long.
HrefFine(href) == href # None /\ href.to \notin OddTarget
ItemAccepted(item) ==
    /\ item.label = "short" /\ Len(item.items) <= EntryLimit
    /\ \A e \in Range(item.items) : e.label = "short" /\ HrefFine(e.href)
    /\ IF item.type = "link" THEN item.items = <<>> /\ HrefFine(item.href)
       ELSE item.items # <<>> /\ item.href = None
NavAccepted(items) == Len(items) <= ItemLimit /\ \A item \in Range(items) : ItemAccepted(item)

\* What the API stores: the hrefs it was sent, without the blanks.
Trimmed(href) == IF href = None THEN None ELSE [href EXCEPT !.padded = FALSE]
TrimmedEntries(entries) == [c \in DOMAIN entries |-> [entries[c] EXCEPT !.href = Trimmed(entries[c].href)]]
TrimmedItem(item) == [item EXCEPT !.href = Trimmed(item.href), !.items = TrimmedEntries(item.items)]
Stored(items) == [k \in DOMAIN items |-> TrimmedItem(items[k])]

\* The button is not disabled while a save is in flight.
SaveNav ==
    /\ editor.clicks < MaxNavClicks /\ ~editor.loading /\ ValidNav(editor.items) /\ Room(editorNet, 1)
    /\ editor' = [Pressed(editor, ~editor.saving) EXCEPT !.saving = TRUE]
    /\ editorNet' = Send(editorNet, "save", editor.items)
    /\ UNCHANGED <<navConfig, bar>>

\* Mutant of ServeSaveNav: the body is stored as it came.
ServeSaveNavRaw(i) ==
    /\ Sent(editorNet, i, "save")
    /\ IF NavAccepted(editorNet[i].arg)
       THEN navConfig' = editorNet[i].arg /\ editorNet' = Reply(editorNet, i, navConfig')
       ELSE editorNet' = Fail(editorNet, i) /\ UNCHANGED navConfig
    /\ UNCHANGED <<editor, bar>>

ServeSaveNav(i) ==
    /\ Sent(editorNet, i, "save")
    /\ IF NavAccepted(editorNet[i].arg)
       THEN navConfig' = Stored(editorNet[i].arg) /\ editorNet' = Reply(editorNet, i, navConfig')
       ELSE editorNet' = Fail(editorNet, i) /\ UNCHANGED navConfig
    /\ UNCHANGED <<editor, bar>>

\* The page takes the API's copy, and with it drops what was typed meanwhile.
NavSaved(i) ==
    /\ Settled(editorNet, i, "save")
    /\ LET free == [editor EXCEPT !.saving = FALSE]
       IN editor' = IF Ok(editorNet, i, "save") THEN [free EXCEPT !.items = editorNet[i].out, !.touched = FALSE]
                    ELSE free
    /\ editorNet' = Done(editorNet, i)
    /\ UNCHANGED <<navConfig, bar>>

NavCallFails(i) ==
    /\ CanFail(editorNet, i)
    /\ editorNet' = Fail(editorNet, i)
    /\ editor' = Missed(editor, editorNet, i)
    /\ UNCHANGED <<navConfig, bar>>

-----------------------------------------------------------------------------
(* The bar *)

\* A user opens the portal: the layout reads the settings, and what the user may
\* open when there is a navigation to filter.  A failed read stands for the
\* default navigation; one of the resources, for nothing the user may open.
OpenPortal(v, config) ==
    /\ config \in {navConfig, <<>>}
    /\ \E access \in IF config = <<>> THEN {None} ELSE {v.resources, {}} :
          bar' = [config |-> config, mounted |-> FALSE, viewer |-> v, access |-> access]
    /\ UNCHANGED <<navConfig, editor, editorNet>>

\* The configured items take over from the default ones after the first effect.
MountBar == ~bar.mounted /\ bar' = [bar EXCEPT !.mounted = TRUE] /\ UNCHANGED <<navConfig, editor, editorNet>>

\* isHrefAccessible.
Accessible(to) ==
    \/ At[to].section = "external"
    \/ bar.viewer.admin
    \/ /\ At[to].section # "admin"
       /\ At[to].section \in Sections =>
             /\ At[to].section \in bar.viewer.features
             /\ bar.access # None /\ At[to].section \in Listed => At[to].resource \in bar.access \cup {None}

\* A menu with nothing to open is left out.
Visible(item) ==
    IF item.type = "link" THEN item.href # None /\ Accessible(item.href.to)
    ELSE \E e \in Range(item.items) : Accessible(e.href.to)

\* Hrefs of the bar; the default links are those of the viewer's features.
DefaultLinks == {[to |-> s, padded |-> FALSE] : s \in {"home"} \cup bar.viewer.features}
BarLinks ==
    IF ~bar.mounted \/ bar.config = <<>> THEN DefaultLinks
    ELSE UNION {IF item.type = "link" THEN {item.href}
                ELSE {e.href : e \in {f \in Range(item.items) : Accessible(f.href.to)}} :
                item \in {x \in Range(bar.config) : Visible(x)}}

NavNext ==
    \/ \E k \in DOMAIN editor.items :
          \/ SwitchType(k) \/ AddEntry(k) \/ RemoveItem(k)
          \/ \E label \in Label : Rename(k, label)
          \/ \E href \in Href : PointLink(k, href)
          \/ \E target \in 1..MaxItems : MoveItem(k, target)
          \/ \E c \in DOMAIN editor.items[k].items :
                \/ RemoveEntry(k, c)
                \/ \E label \in Label, href \in Href \cup {None} : UpdateEntry(k, c, Entry(label, href))
    \/ AddItem \/ ResetNav \/ SaveNav \/ MountBar
    \/ \E v \in Viewer, config \in {navConfig, <<>>} : OpenPortal(v, config)
    \/ \E i \in Slot : ServeNav(i) \/ NavRead(i) \/ ServeSaveNav(i) \/ NavSaved(i) \/ NavCallFails(i)

-----------------------------------------------------------------------------
(* Correctness *)

\* The page trims nothing and the API trims everything: after an undisturbed save
\* or load, a draft nobody edited since is what is stored.
NavSavedShown == editor.calm /\ Quiet(editorNet) /\ ~editor.touched => editor.items = navConfig

\* What the page does not check and the API does: the lengths, and the pattern of a path.
Unchecked(item) ==
    \/ Len(item.items) > EntryLimit
    \/ \E x \in {item} \cup Range(item.items) :
          x.label = "long" \/ (x.href # None /\ x.href.to \in OddTarget)

\* The page checks before it sends, "so the API's shape check cannot fail on a
\* leftover field the editor is no longer showing".  Whatever the order of the edits,
\* the API refuses a draft for one of the things the page has no check for and for
\* nothing else: too many items or entries, a label or path too long, an odd path.
RefusedForLimits ==
    \A i \in Of(editorNet, {"save"}) :
        LET sent == editorNet[i].arg
        IN \/ NavAccepted(sent)
           \/ Len(sent) > ItemLimit
           \/ \E item \in Range(sent) : Unchecked(item)

\* Every link a user gets leads to a target as such, whoever looks at the bar and
\* whatever was drafted, refused or saved since the portal was opened.
BarLeadsSomewhere ==
    \A href \in BarLinks : href # None /\ ~href.padded /\ href.to \notin OddTarget

\* A button waits for its own save, and the page for its load.
NavSpinners ==
    /\ editor.saving => Of(editorNet, {"save"}) # {}
    /\ editor.loading => Of(editorNet, {"load"}) # {}

NavSpec == NavInit /\ [][NavNext]_navVars

-----------------------------------------------------------------------------
(* The inductive invariant behind NavigationWorks (see ConsoleProofs) *)

\* What the page asked for and what it sends.
NavCallFits(c) ==
    /\ c.op = "load" /\ c.st = "ok" => c.out \in Seq(StoredItem)
    /\ c.op = "save" => /\ c.arg \in Seq(NavItem) /\ ValidNav(c.arg)
                        /\ c.st = "ok" => c.out \in Seq(StoredItem)

\* A link has no entries and a dropdown no path, whatever the order of the edits;
\* and what is stored, and what the bar was given, has been trimmed and accepted.
NavInv ==
    /\ navConfig \in Seq(StoredItem) /\ bar.config \in Seq(StoredItem) /\ bar.viewer \in Viewer
    /\ editor.items \in Seq(NavItem)
    /\ \A i \in Pending(editorNet) : NavCallFits(editorNet[i])
===============================================================================
