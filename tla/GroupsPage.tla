------------------------------- MODULE GroupsPage ------------------------------
(***************************************************************************)
(* The notification groups page (app/admin/notification-groups/page.tsx)   *)
(* and its form, over the groups the server stores                         *)
(* (routers/pipeline_notifications.py).  A group bundles the destinations  *)
(* of its channels: one channel of webhooks stands for Slack, Teams and    *)
(* Google Chat and one of people for email and SMS.  Who can be picked and *)
(* the name are left out.                                                  *)
(***************************************************************************)
EXTENDS Calls

CONSTANTS
    Webhook,           \* addresses
    Blank,             \* a webhook row that is still empty
    Person,            \* recipients
    MaxGroups,         \* bound: groups ever created
    MaxGroupClicks     \* bound: clicks of the user

Channels == {"hooks", "people"}

GroupChannels == [Channels -> SUBSET (Webhook \cup Person \cup {Blank})]
GroupRow == [id : Nat, channels : GroupChannels]

\* What is sent of a form.
GroupBody == [id : {None} \cup Nat, channels : GroupChannels, touched : SUBSET Channels, n : Nat]

ASSUME GroupsAssumption == Blank \notin Webhook

VARIABLES
    groups,        \* the server's groups
    groupsMade,    \* the number of groups ever inserted
    groupPage,     \* the React state of the page and of its form
    groupNet       \* its requests

groupVars == <<groups, groupsMade, groupPage, groupNet>>
groupServer == <<groups, groupsMade>>

NoDestinations == [hooks |-> {}, people |-> {}]

\* What the one stored group may hold when the page opens.
StoredGroups == {[hooks |-> Webhook, people |-> Person], [hooks |-> {}, people |-> Person]}

GroupsInit ==
    /\ \E ch \in StoredGroups : groups = {[id |-> 1, channels |-> ch]}
    /\ groupsMade = 1
    /\ groupPage = [rows |-> {}, loading |-> TRUE, form |-> None, clicks |-> 0, calm |-> TRUE]
    /\ groupNet = Send(NoCalls, "groups", None)

PressGroup == groupPage.clicks < MaxGroupClicks /\ UNCHANGED groupServer
StepGroup == Pressed(groupPage, Quiet(groupNet))

ServeGroupList(i) ==
    /\ Sent(groupNet, i, "groups")
    /\ groupNet' = Reply(groupNet, i, groups)
    /\ UNCHANGED <<groupServer, groupPage>>

GroupListRead(i) ==
    /\ Settled(groupNet, i, "groups")
    /\ groupPage' = IF Ok(groupNet, i, "groups")
                    THEN [groupPage EXCEPT !.rows = groupNet[i].out, !.loading = FALSE]
                    ELSE [groupPage EXCEPT !.loading = FALSE, !.calm = FALSE]
    /\ groupNet' = Done(groupNet, i)
    /\ UNCHANGED groupServer

-----------------------------------------------------------------------------
(* The form *)

\* openNew, and the pencil of a row: the form starts from what the row holds.
OpenGroup(g) ==
    /\ PressGroup /\ groupPage.form = None /\ ~groupPage.loading /\ g \in groupPage.rows \cup {None}
    /\ groupPage' = [StepGroup EXCEPT !.form = [of |-> IF g = None THEN None ELSE g.id,
                                                channels |-> IF g = None THEN NoDestinations ELSE g.channels,
                                                touched |-> {}, saving |-> FALSE, n |-> groupPage.clicks]]
    /\ UNCHANGED groupNet

\* Escape and the backdrop close the form while it is being saved, too.
CloseGroup ==
    /\ groupPage.form # None
    /\ groupPage' = [groupPage EXCEPT !.form = None]
    /\ UNCHANGED <<groupServer, groupNet>>

\* One row of webhooks, or one person, is added or taken out.
EditGroup(field, item) ==
    /\ PressGroup /\ groupPage.form # None
    /\ groupPage' = [StepGroup EXCEPT
                       !.form.channels[field] = IF item \in @ THEN @ \ {item} ELSE @ \cup {item},
                       !.form.touched = @ \cup {field}]
    /\ UNCHANGED groupNet

Clean(channels) == [channels EXCEPT !.hooks = @ \ {Blank}]

\* handleSave: the button, being given disabled, does not wait for a save.
SaveGroup ==
    /\ PressGroup /\ groupPage.form # None /\ Room(groupNet, 1)
    /\ LET form == groupPage.form
       IN /\ groupNet' = Send(groupNet, IF form.of = None THEN "create" ELSE "save",
                              [id |-> form.of, channels |-> Clean(form.channels), touched |-> form.touched, n |-> form.n])
          /\ groupPage' = [StepGroup EXCEPT !.form.saving = TRUE]

ServeGroupCreate(i) ==
    /\ Sent(groupNet, i, "create") /\ groupsMade < MaxGroups
    /\ groupsMade' = groupsMade + 1
    /\ groups' = groups \cup {[id |-> groupsMade + 1, channels |-> groupNet[i].arg.channels]}
    /\ groupNet' = Reply(groupNet, i, None)
    /\ UNCHANGED groupPage

\* update_group: "group.channels = data.channels", whole.
ServeGroupSave(i) ==
    /\ Sent(groupNet, i, "save")
    /\ LET arg == groupNet[i].arg
           row == {g \in groups : g.id = arg.id}
       IN /\ groups' = IF row = {} THEN groups ELSE (groups \ row) \cup {[id |-> arg.id, channels |-> arg.channels]}
          /\ groupNet' = IF row = {} THEN Fail(groupNet, i) ELSE Reply(groupNet, i, None)
    /\ UNCHANGED <<groupsMade, groupPage>>

\* onSaved, onClose: the list is read again and the form on screen closes,
\* whichever it is; a failure frees its own.
GroupSaved(i) ==
    /\ \E op \in {"create", "save"} :
          \/ /\ Ok(groupNet, i, op)
             /\ groupPage' = [groupPage EXCEPT !.form = None]
             /\ groupNet' = Then(groupNet, i, "groups", None)
          \/ /\ Err(groupNet, i, op)
             /\ groupPage' = IF groupPage.form # None /\ groupPage.form.n = groupNet[i].arg.n
                             THEN [groupPage EXCEPT !.form.saving = FALSE] ELSE groupPage
             /\ groupNet' = Done(groupNet, i)
    /\ UNCHANGED groupServer

DropGroup(g) ==
    /\ PressGroup /\ groupPage.form = None /\ ~groupPage.loading /\ g \in groupPage.rows /\ Room(groupNet, 1)
    /\ groupPage' = StepGroup
    /\ groupNet' = Send(groupNet, "drop", g.id)

ServeGroupDrop(i) ==
    /\ Sent(groupNet, i, "drop")
    /\ LET row == {g \in groups : g.id = groupNet[i].arg}
       IN /\ groups' = groups \ row
          /\ groupNet' = IF row = {} THEN Fail(groupNet, i) ELSE Reply(groupNet, i, None)
    /\ UNCHANGED <<groupsMade, groupPage>>

GroupDropped(i) ==
    /\ Settled(groupNet, i, "drop")
    /\ groupPage' = IF Ok(groupNet, i, "drop")
                    THEN [groupPage EXCEPT !.rows = {g \in @ : g.id # groupNet[i].arg}] ELSE groupPage
    /\ groupNet' = Done(groupNet, i)
    /\ UNCHANGED groupServer

GroupCallFails(i) ==
    /\ CanFail(groupNet, i)
    /\ groupNet' = Fail(groupNet, i)
    /\ groupPage' = Missed(groupPage, groupNet, i)
    /\ UNCHANGED groupServer

GroupsNext ==
    \/ \E g \in groupPage.rows : OpenGroup(g) \/ DropGroup(g)
    \/ OpenGroup(None) \/ CloseGroup \/ SaveGroup
    \/ \E w \in Webhook \cup {Blank} : EditGroup("hooks", w)
    \/ \E p \in Person : EditGroup("people", p)
    \/ \E i \in Slot :
          \/ ServeGroupList(i) \/ GroupListRead(i) \/ ServeGroupCreate(i) \/ ServeGroupSave(i) \/ GroupSaved(i)
          \/ ServeGroupDrop(i) \/ GroupDropped(i) \/ GroupCallFails(i)

-----------------------------------------------------------------------------
(* Correctness *)

\* Once nothing is in flight the page lists the groups there are, with their
\* destinations; provided one thing was done at a time and no answer was lost.
GroupsMatch == groupPage.calm /\ Quiet(groupNet) /\ ~groupPage.loading => groupPage.rows = groups

\* A group is saved whole, so the form must carry what it does not show changed:
\* a destination goes only by a change of its own channel in that form; provided
\* one thing was done at a time.
DestinationsKept ==
    [][\A g \in groups, h \in groups' :
          groupPage.calm /\ g.id = h.id =>
              \A f \in DOMAIN g.channels :
                 g.channels[f] # h.channels[f] =>
                    \E i \in Slot : Sent(groupNet, i, "save") /\ groupNet[i].arg.id = g.id /\ f \in groupNet[i].arg.touched
      ]_groupVars

\* The page and the form say that they wait only while they do.
GroupSpinners ==
    Quiet(groupNet) => ~groupPage.loading /\ (groupPage.form # None => ~groupPage.form.saving)

GroupsSpec == GroupsInit /\ [][GroupsNext]_groupVars

-----------------------------------------------------------------------------
(* The inductive invariant behind DestinationsKept (see ConsoleProofs) *)

\* Outside the touched channels these are the ones of every group with that id.
SameChannels(among, channels, id, touched) ==
    \A g \in among : g.id = id => \A f \in Channels \ touched : channels[f] = g.channels[f]

RowsAgree == \A row \in groupPage.rows, g \in groups : row.id = g.id => row = g

\* The answer that is followed by another read of the list, and that read.
Refreshing(c) == (c.op \in {"create", "save"} /\ c.st = "ok") \/ c.op = "groups"

\* What is sent differs from the group in the channels touched, and so does the form.
SendFits(c) ==
    LET form == groupPage.form
    IN /\ c.op = "groups" /\ c.st = "ok" => c.out = groups
       /\ c.op \in {"create", "save"} /\ form # None => form.of = c.arg.id
       /\ c.op = "save" => /\ SameChannels(groups, c.arg.channels, c.arg.id, c.arg.touched)
                           /\ form # None => form.touched = c.arg.touched

FormFits ==
    LET form == groupPage.form
    IN form # None /\ form.of # None => SameChannels(groups, form.channels, form.of, form.touched)

\* One thing at a time: the rows on display are the server's until a save has been
\* answered and the list is read again.
DestinationsInv ==
    /\ \A g \in groups : g.id \in 1..groupsMade /\ Blank \notin g.channels.hooks
    /\ \A g, h \in groups : g.id = h.id => g = h
    /\ groupPage.calm =>
          /\ \A i, j \in Pending(groupNet) : i = j
          /\ RowsAgree \/ \E i \in Pending(groupNet) : Refreshing(groupNet[i])
          /\ FormFits
          /\ \A i \in Pending(groupNet) : SendFits(groupNet[i])
===============================================================================
