------------------------------ MODULE PageEditor ------------------------------
(***************************************************************************)
(* The editor of a custom page (app/admin/pages/[id]/page.tsx) over the    *)
(* page and its snapshots (routers/pages.py).  The server's handlers await *)
(* between reading the page and committing, so two of them may overlap.    *)
(* Whether the preview is open is layout, and the dialog of the page's     *)
(* readers is ShareDialog.                                                 *)
(***************************************************************************)
EXTENDS Calls, Sequences, SequencesExt

CONSTANTS
    PageText,       \* contents
    PageTitle,      \* titles that are not blank
    PageTag,        \* tags
    MaxVersions,    \* bound: snapshots of the page
    MaxPageClicks   \* bound: steps of the administrator

VARIABLES
    pageRow,     \* the server's page
    snapshots,   \* its versions, oldest first
    lived,       \* every content the page has had
    pageTab,     \* the React state of the editor
    pageNet      \* its requests

pageVars == <<pageRow, snapshots, lived, pageTab, pageNet>>
pageServer == <<pageRow, snapshots, lived>>

\* None is an input that is blank.
NoDraft == [title |-> None, content |-> None, published |-> TRUE, tags |-> << >>]

NoPage == [page |-> None, draft |-> NoDraft, versions |-> << >>, preview |-> None,
           saving |-> FALSE, restoring |-> None, loading |-> TRUE, clicks |-> 0, calm |-> TRUE]

\* create_page snapshots the content the page starts with.
PageInit ==
    /\ \E title \in PageTitle, text \in PageText :
          /\ pageRow = [title |-> title, content |-> text, published |-> TRUE, tags |-> << >>]
          /\ snapshots = <<text>>
          /\ lived = {text}
    /\ pageTab = NoPage
    /\ pageNet = Send(NoCalls, "load", None)

PressPage ==
    /\ pageTab.clicks < MaxPageClicks /\ ~pageTab.loading /\ pageTab.page # None
    /\ UNCHANGED pageServer
StepPage == Pressed(pageTab, Quiet(pageNet))

\* The two requests of Promise.all.
ServePage(i) ==
    /\ Sent(pageNet, i, "load")
    /\ pageNet' = Begin(pageNet, i, pageRow)
    /\ UNCHANGED <<pageServer, pageTab>>

ServePageVersions(i) ==
    /\ \/ /\ Open(pageNet, i, "load")
          /\ pageNet' = Reply(pageNet, i, [page |-> pageNet[i].out, versions |-> snapshots])
       \/ /\ Sent(pageNet, i, "versions")
          /\ pageNet' = Reply(pageNet, i, snapshots)
    /\ UNCHANGED <<pageServer, pageTab>>

\* What is being edited is overwritten, whatever was typed.
PageRead(i) ==
    /\ Settled(pageNet, i, "load")
    /\ pageTab' = IF Ok(pageNet, i, "load")
                  THEN LET out == pageNet[i].out
                       IN [pageTab EXCEPT !.page = out.page, !.draft = out.page, !.versions = out.versions,
                                          !.loading = FALSE]
                  ELSE [pageTab EXCEPT !.loading = FALSE, !.calm = FALSE]
    /\ pageNet' = Done(pageNet, i)
    /\ UNCHANGED pageServer

\* A renewed access token runs the effect again, loaded or not.
TokenRenewed ==
    /\ pageTab.clicks < MaxPageClicks /\ Room(pageNet, 1)
    /\ pageTab' = StepPage
    /\ pageNet' = Send(pageNet, "load", None)
    /\ UNCHANGED pageServer

\* An input of the form is written.
Edit(draft) ==
    /\ PressPage /\ draft # pageTab.draft
    /\ pageTab' = [StepPage EXCEPT !.draft = draft]
    /\ UNCHANGED pageNet

TypeTitle(t) == Edit([pageTab.draft EXCEPT !.title = t])

TypeContent(t) == Edit([pageTab.draft EXCEPT !.content = t])

TogglePublished == Edit([pageTab.draft EXCEPT !.published = ~@])

\* Enter adds a tag that is not there, its cross removes it, Backspace the last one.
AddTag(t) == t \notin Range(pageTab.draft.tags) /\ Edit([pageTab.draft EXCEPT !.tags = Append(@, t)])

DropTag(t) == Edit([pageTab.draft EXCEPT !.tags = SelectSeq(@, LAMBDA u : u # t)])

DropLastTag == pageTab.draft.tags # << >> /\ Edit([pageTab.draft EXCEPT !.tags = Front(@)])

PreviewVersion(k) ==
    /\ PressPage
    /\ pageTab' = [StepPage EXCEPT !.preview = IF k = None THEN None ELSE pageTab.versions[k]]
    /\ UNCHANGED pageNet

\* A blank title is refused on the spot.
SavePage ==
    /\ PressPage /\ ~pageTab.saving /\ pageTab.draft.title # None /\ Room(pageNet, 1)
    /\ pageTab' = [StepPage EXCEPT !.saving = TRUE]
    /\ pageNet' = Send(pageNet, "save", pageTab.draft)

\* Only the version that is being restored is disabled.
RestoreVersion(k) ==
    /\ PressPage /\ pageTab.restoring # k /\ Room(pageNet, 1)
    /\ pageTab' = [StepPage EXCEPT !.restoring = k]
    /\ pageNet' = Send(pageNet, "restore", k)

BeginWrite(i) ==
    /\ \E op \in {"save", "restore"} : Sent(pageNet, i, op)
    /\ pageNet' = Begin(pageNet, i, pageRow)
    /\ UNCHANGED <<pageServer, pageTab>>

\* The page as the handler leaves it: a field is written when its new value
\* differs from the one the handler began with.
Written(i) ==
    LET begun == pageNet[i].out
        arg == pageNet[i].arg
        wanted == IF pageNet[i].op = "save" THEN arg ELSE [begun EXCEPT !.content = snapshots[arg]]
    IN [f \in DOMAIN pageRow |-> IF wanted[f] = begun[f] THEN pageRow[f] ELSE wanted[f]]

\* Mutant of CommitWrite: a restore takes no snapshot of what it overwrites.
CommitWriteBare(i) ==
    /\ \E op \in {"save", "restore"} : Open(pageNet, i, op)
    /\ Len(snapshots) < MaxVersions
    /\ pageRow' = Written(i)
    /\ snapshots' = IF pageNet[i].op = "save" THEN Append(snapshots, pageNet[i].out.content) ELSE snapshots
    /\ lived' = lived \cup {pageRow'.content}
    /\ pageNet' = Reply(pageNet, i, pageRow')
    /\ UNCHANGED pageTab

\* update_page, restore_version: the snapshot is of the content read at the start.
CommitWrite(i) ==
    /\ \E op \in {"save", "restore"} : Open(pageNet, i, op)
    /\ Len(snapshots) < MaxVersions
    /\ pageRow' = Written(i)
    /\ snapshots' = Append(snapshots, pageNet[i].out.content)
    /\ lived' = lived \cup {pageRow'.content}
    /\ pageNet' = Reply(pageNet, i, pageRow')
    /\ UNCHANGED pageTab

\* A restore replaces the content being edited; then both read the history again.
PageWritten(i) ==
    /\ \E op \in {"save", "restore"} : Ok(pageNet, i, op)
    /\ pageTab' = IF pageNet[i].op = "save" THEN [pageTab EXCEPT !.page = pageNet[i].out]
                  ELSE [pageTab EXCEPT !.page = pageNet[i].out, !.draft.content = pageNet[i].out.content, !.preview = None]
    /\ pageNet' = Then(pageNet, i, "versions", pageNet[i].op)
    /\ UNCHANGED pageServer

\* The "finally" of the handler that ended.
PageFreed(tab, op) == IF op = "save" THEN [tab EXCEPT !.saving = FALSE] ELSE [tab EXCEPT !.restoring = None]

PageVersionsRead(i) ==
    /\ Settled(pageNet, i, "versions")
    /\ pageTab' = IF Ok(pageNet, i, "versions")
                  THEN PageFreed([pageTab EXCEPT !.versions = pageNet[i].out], pageNet[i].arg)
                  ELSE PageFreed([pageTab EXCEPT !.calm = FALSE], pageNet[i].arg)
    /\ pageNet' = Done(pageNet, i)
    /\ UNCHANGED pageServer

WriteFailed(i) ==
    /\ \E op \in {"save", "restore"} : Err(pageNet, i, op)
    /\ pageTab' = PageFreed(pageTab, pageNet[i].op)
    /\ pageNet' = Done(pageNet, i)
    /\ UNCHANGED pageServer

PageCallFails(i) ==
    /\ CanFail(pageNet, i)
    /\ pageNet' = Fail(pageNet, i)
    /\ pageTab' = Missed(pageTab, pageNet, i)
    /\ UNCHANGED pageServer

PageNext ==
    \/ TokenRenewed \/ TogglePublished \/ SavePage \/ PreviewVersion(None)
    \/ \E t \in PageTitle \cup {None} : TypeTitle(t)
    \/ \E t \in PageText : TypeContent(t)
    \/ DropLastTag \/ \E t \in PageTag : AddTag(t) \/ DropTag(t)
    \/ \E k \in DOMAIN pageTab.versions : PreviewVersion(k) \/ RestoreVersion(k)
    \/ \E i \in Slot :
          \/ ServePage(i) \/ ServePageVersions(i) \/ PageRead(i) \/ BeginWrite(i) \/ CommitWrite(i)
          \/ PageWritten(i) \/ PageVersionsRead(i) \/ WriteFailed(i) \/ PageCallFails(i)

-----------------------------------------------------------------------------
(* Correctness *)

\* Once nothing is in flight the editor has the page and the versions the server
\* has; provided one thing was done at a time and no answer was lost.
PageShown ==
    pageTab.calm /\ Quiet(pageNet) /\ pageTab.page # None =>
        pageTab.page = pageRow /\ pageTab.versions = snapshots

\* "preserving the full revision history" (routers/pages.py:430): a content that
\* was replaced, by a save or by a restore, is among the versions; provided one
\* thing was done at a time.
RevisionsKept ==
    pageTab.calm => lived \subseteq Range(snapshots) \cup {pageRow.content}

\* The editor says that it waits only while it does.
PageSpinners ==
    Quiet(pageNet) => ~pageTab.loading /\ ~pageTab.saving /\ pageTab.restoring = None

PageSpec == PageInit /\ [][PageNext]_pageVars

-----------------------------------------------------------------------------
(* The inductive invariant behind RevisionsKept (see ConsoleProofs) *)

PageWrites == {"save", "restore"}

\* What a write has begun with was the page's, and is it still when one thing is
\* done at a time.
RevisionsInv ==
    /\ snapshots \in Seq(lived) /\ pageRow.content \in lived
    /\ \A i \in Of(pageNet, PageWrites) : pageNet[i].st = "open" =>
          pageNet[i].out.content \in lived /\ (pageTab.calm => pageNet[i].out = pageRow)
    /\ pageTab.calm => \A i, j \in Pending(pageNet) : i = j
    /\ RevisionsKept
===============================================================================
