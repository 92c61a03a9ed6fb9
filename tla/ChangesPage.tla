------------------------------ MODULE ChangesPage ------------------------------
(***************************************************************************)
(* The change history page (app/admin/changes/page.tsx) over the server's  *)
(* ledger (routers/changes.py, services/change_ledger.py).  The conditions *)
(* and the effects of a revert on the resources are ChangeLedger; here a   *)
(* change is whose it is, the action it was part of, and whether it was    *)
(* taken back.  The filters by type and by action behave like the one by   *)
(* source and the menu of types is a read of its own; both are left out.   *)
(***************************************************************************)
EXTENDS Calls

CONSTANTS
    FirstChanges,     \* the ledger when the page opens
    MaxChangeClicks   \* bound: clicks and words typed

\* Every entry is of some action of a user's, and no action is half taken back.
ASSUME ChangesAssumption ==
    /\ None \notin Nat /\ IsFiniteSet(FirstChanges)
    /\ \A c \in FirstChanges :
          /\ c = [id |-> c.id, by |-> c.by, actor |-> c.actor, corr |-> c.corr, of |-> c.of, reverted |-> c.reverted]
          /\ c.id \in Nat /\ c.reverted \in BOOLEAN
          /\ \E d \in FirstChanges : d.of = None /\ d.corr = c.corr
    /\ \A c, d \in FirstChanges : c.of = None /\ d.of = None =>
          (c.id = d.id => c.corr = d.corr) /\ (c.corr = d.corr => c.reverted = d.reverted)

VARIABLES
    changes,       \* the server's ledger
    changePage,    \* the React state of the page
    changeNet      \* its requests

changeVars == <<changes, changePage, changeNet>>

\* A feed read by an effect, and the one that ends a revert.
Feeds == {"feed", "reload"}

NoFilters == [by |-> "", actor |-> ""]

\* list_changes, _feed: with the number of entries of the action of each.
Feed(f) ==
    LET found == {c \in changes : (f.by # "" => c.by = f.by) /\ (f.actor # "" => c.actor = f.actor)}
    IN {[change |-> c, size |-> Cardinality({d \in changes : d.corr = c.corr})] : c \in found}

\* load, as of the render that holds these filters.
LoadFeed(ui, f) == [ui EXCEPT !.filters = f, !.loading = TRUE]

ChangesInit ==
    /\ changes = FirstChanges
    /\ changePage = [filters |-> NoFilters, actor |-> "", records |-> {}, loading |-> TRUE, reverting |-> None,
                     clicks |-> 0, calm |-> TRUE]
    /\ changeNet = Send(NoCalls, "feed", NoFilters)

PressChange == changePage.clicks < MaxChangeClicks /\ Room(changeNet, 1) /\ UNCHANGED changes
StepChange == Pressed(changePage, Quiet(changeNet))

-----------------------------------------------------------------------------
(* The filters *)

\* The effect of a filter that changes: the feed is read again.
FilterBy(f) ==
    /\ f # changePage.filters /\ PressChange
    /\ changePage' = LoadFeed(StepChange, f)
    /\ changeNet' = Send(changeNet, "feed", f)

ChooseSource(by) == FilterBy([changePage.filters EXCEPT !.by = by])

TypeActor(a) ==
    /\ PressChange /\ a # changePage.actor
    /\ changePage' = [StepChange EXCEPT !.actor = a]
    /\ UNCHANGED changeNet

\* Enter, or the focus leaves the box.
ApplyActor == FilterBy([changePage.filters EXCEPT !.actor = changePage.actor])

\* clearFilters: the box is emptied with the filters.
ClearChangeFilters ==
    /\ changePage.filters # NoFilters /\ PressChange
    /\ changePage' = [LoadFeed(StepChange, NoFilters) EXCEPT !.actor = ""]
    /\ changeNet' = Send(changeNet, "feed", NoFilters)

-----------------------------------------------------------------------------
(* The feed *)

ServeFeed(i) ==
    /\ \E op \in Feeds : Sent(changeNet, i, op)
    /\ changeNet' = Reply(changeNet, i, Feed(changeNet[i].arg))
    /\ UNCHANGED <<changes, changePage>>

\* The answers come in any order; a failure empties the page.
FeedRead(i) ==
    /\ \E op \in Feeds :
          /\ Settled(changeNet, i, op)
          /\ changePage' = [changePage EXCEPT !.records = IF Ok(changeNet, i, op) THEN changeNet[i].out ELSE {},
                                              !.loading = FALSE, !.calm = @ /\ Ok(changeNet, i, op),
                                              !.reverting = IF op = "reload" THEN None ELSE @]
    /\ changeNet' = Done(changeNet, i)
    /\ UNCHANGED changes

Unreverted(r) ==
    /\ PressChange /\ ~changePage.loading /\ changePage.reverting = None
    /\ r \in changePage.records /\ ~r.change.reverted

SendRevert(r, group) ==
    /\ changePage' = [StepChange EXCEPT !.reverting = r.change.id]
    /\ changeNet' = Send(changeNet, "revert", [change |-> r.change, group |-> group, filters |-> changePage.filters])

\* Mutant of Revert: only what the assistant did is taken back as a whole.
RevertBySource(r) == Unreverted(r) /\ SendRevert(r, r.change.by = "ai")

\* revert: "Group revert whenever the action wrote more than one row".
Revert(r) == Unreverted(r) /\ SendRevert(r, r.size > 1)

\* revert_change, revert_correlation: what is not taken back yet is, each entry
\* with an entry of its own under the same action; nothing left to do is a 409.
ServeRevert(i) ==
    /\ Sent(changeNet, i, "revert")
    /\ LET arg == changeNet[i].arg
           back == {c \in changes : ~c.reverted /\ IF arg.group THEN c.corr = arg.change.corr ELSE c.id = arg.change.id}
           fresh(c) == Cardinality(changes) + Cardinality({d \in back : d.id <= c.id})
           inverse(c) == [id |-> fresh(c), by |-> "user", actor |-> "a", corr |-> c.corr, of |-> c.id, reverted |-> FALSE]
       IN IF back = {} THEN changeNet' = Fail(changeNet, i) /\ UNCHANGED changes
          ELSE /\ changes' = (changes \ back) \cup {[c EXCEPT !.reverted = TRUE] : c \in back}
                                             \cup {inverse(c) : c \in back}
               /\ changeNet' = Reply(changeNet, i, None)
    /\ UNCHANGED changePage

\* "await load()" with the filters of the click, or the error and no more.
Reverted(i) ==
    /\ Settled(changeNet, i, "revert")
    /\ IF Ok(changeNet, i, "revert")
       THEN /\ changePage' = [changePage EXCEPT !.loading = TRUE]
            /\ changeNet' = Then(changeNet, i, "reload", changeNet[i].arg.filters)
       ELSE /\ changePage' = [changePage EXCEPT !.reverting = None]
            /\ changeNet' = Done(changeNet, i)
    /\ UNCHANGED changes

ChangeCallFails(i) ==
    /\ CanFail(changeNet, i)
    /\ changeNet' = Fail(changeNet, i)
    /\ changePage' = Missed(changePage, changeNet, i)
    /\ UNCHANGED changes

ChangesNext ==
    \/ \E by \in {"", "ai", "user"} : ChooseSource(by)
    \/ \E a \in {"", "a"} : TypeActor(a)
    \/ ApplyActor \/ ClearChangeFilters
    \/ \E r \in changePage.records : Revert(r)
    \/ \E i \in Slot : ServeFeed(i) \/ FeedRead(i) \/ ServeRevert(i) \/ Reverted(i) \/ ChangeCallFails(i)

-----------------------------------------------------------------------------
(* Correctness *)

\* Once nothing is in flight the page shows the changes the server finds for the
\* filters it shows, taken back or not as they are; provided one thing was done
\* at a time and no answer was lost.
FeedShown ==
    changePage.calm /\ Quiet(changeNet) => changePage.records = Feed(changePage.filters)

\* "reverting only the parent row would bring it back stripped" (page.tsx:122):
\* whatever is clicked, and whatever is answered when, the page never leaves the
\* changes of one action some taken back and some not.
NoHalfRevert ==
    \A c, d \in changes : c.of = None /\ d.of = None /\ c.corr = d.corr => c.reverted = d.reverted

\* The page says it is loading, and holds the buttons, only while it waits.
ChangeSpinners == Quiet(changeNet) => ~changePage.loading /\ changePage.reverting = None

ChangesSpec == ChangesInit /\ [][ChangesNext]_changeVars

-----------------------------------------------------------------------------
(* The inductive invariant behind NoHalfRevert (see ConsoleProofs) *)

\* The one entry its action wrote.
OnlyEntry(c) == \A d \in changes : d.of = None => (d.corr = c.corr <=> d.id = c.id)

\* A record that says it stands alone does, whenever it was read.
RecordsOk(rs) == \A r \in rs : r.size > 1 \/ OnlyEntry(r.change)

ChangesInv ==
    /\ IsFiniteSet(changes) /\ NoHalfRevert
    /\ \A c \in changes : \E d \in changes : d.of = None /\ d.corr = c.corr
    /\ \A c, d \in changes : c.of = None /\ d.of = None /\ c.id = d.id => c.corr = d.corr
    /\ RecordsOk(changePage.records)
    /\ \A i \in Pending(changeNet) :
          /\ \A op \in Feeds : Ok(changeNet, i, op) => RecordsOk(changeNet[i].out)
          /\ changeNet[i].op = "revert" => changeNet[i].arg.group \/ OnlyEntry(changeNet[i].arg.change)
===============================================================================
