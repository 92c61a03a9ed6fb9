----------------------------- MODULE AdminConsole -----------------------------
(***************************************************************************)
(* The administration pages of the console.  They share the requests' code *)
(* (Calls) and a session but no state of the browser: what one shows dies  *)
(* with it when the administrator leaves.  So a behaviour here is one of   *)
(* any of them: the page is picked at the start, its administrator, its    *)
(* server and the network between them take the steps, and the rest of the *)
(* console stays as it is.                                                 *)
(***************************************************************************)
EXTENDS DictTree, DictRows, DictDialogs, Invites, UsersTable, RoleEditor, ShareDialog, ProviderPage,
        DataPipelines, Warehouses, GroupsPage, NavConfig, PageEditor, AuditPage, ChangesPage, Deliveries

VARIABLE screen   \* the page on display

Screens ==
    {"tree", "rows", "keys", "invites", "users", "roles", "access", "connections", "pipelines",
     "warehouses", "groups", "navigation", "page", "audit", "changes", "deliveries"}

vars == <<screen, treeVars, rowVars, dialogVars, inviteVars, usersVars, roleVars, shareVars, connVars, pipeVars,
          whVars, groupVars, navVars, pageVars, auditVars, changeVars, deliveryVars>>

\* Only the page on display starts in each of its states, the others in one.
Init ==
    /\ screen \in Screens
    /\ TreeInit /\ RowInit /\ DialogsInit /\ InvitesInit /\ UsersInit /\ RolesInit /\ ShareInit
    /\ ConnsInit /\ PipesInit /\ ChangesInit /\ DeliveriesInit
    /\ WarehousesInit /\ (screen = "warehouses" \/ \A w \in whs : ~w.default)
    /\ GroupsInit /\ (screen = "groups" \/ groups = {[id |-> 1, channels |-> CHOOSE ch \in StoredGroups : TRUE]})
    /\ NavInit /\ (screen = "navigation" \/ navConfig = CHOOSE n \in FirstNavs : TRUE)
    /\ PageInit /\ (screen = "page" \/ (lived = {CHOOSE t \in PageText : TRUE}
                                         /\ pageRow.title = CHOOSE t \in PageTitle : TRUE))
    /\ AuditInit /\ (screen = "audit" \/ auditPage.url.page = 1)

\* A step of page s.
Others(s) ==
    /\ UNCHANGED screen
    /\ IF s = "tree" THEN TRUE ELSE UNCHANGED treeVars
    /\ IF s = "rows" THEN TRUE ELSE UNCHANGED rowVars
    /\ IF s = "keys" THEN TRUE ELSE UNCHANGED dialogVars
    /\ IF s = "invites" THEN TRUE ELSE UNCHANGED inviteVars
    /\ IF s = "users" THEN TRUE ELSE UNCHANGED usersVars
    /\ IF s = "roles" THEN TRUE ELSE UNCHANGED roleVars
    /\ IF s = "access" THEN TRUE ELSE UNCHANGED shareVars
    /\ IF s = "connections" THEN TRUE ELSE UNCHANGED connVars
    /\ IF s = "pipelines" THEN TRUE ELSE UNCHANGED pipeVars
    /\ IF s = "warehouses" THEN TRUE ELSE UNCHANGED whVars
    /\ IF s = "groups" THEN TRUE ELSE UNCHANGED groupVars
    /\ IF s = "navigation" THEN TRUE ELSE UNCHANGED navVars
    /\ IF s = "page" THEN TRUE ELSE UNCHANGED pageVars
    /\ IF s = "audit" THEN TRUE ELSE UNCHANGED auditVars
    /\ IF s = "changes" THEN TRUE ELSE UNCHANGED changeVars
    /\ IF s = "deliveries" THEN TRUE ELSE UNCHANGED deliveryVars

Next ==
    \/ screen = "tree" /\ TreeNext /\ Others("tree")
    \/ screen = "rows" /\ RowNext /\ Others("rows")
    \/ screen = "keys" /\ DialogsNext /\ Others("keys")
    \/ screen = "invites" /\ InvitesNext /\ Others("invites")
    \/ screen = "users" /\ UsersNext /\ Others("users")
    \/ screen = "roles" /\ RolesNext /\ Others("roles")
    \/ screen = "access" /\ ShareNext /\ Others("access")
    \/ screen = "connections" /\ ConnsNext /\ Others("connections")
    \/ screen = "pipelines" /\ PipesNext /\ Others("pipelines")
    \/ screen = "warehouses" /\ WarehousesNext /\ Others("warehouses")
    \/ screen = "groups" /\ GroupsNext /\ Others("groups")
    \/ screen = "navigation" /\ NavNext /\ Others("navigation")
    \/ screen = "page" /\ PageNext /\ Others("page")
    \/ screen = "audit" /\ AuditNext /\ Others("audit")
    \/ screen = "changes" /\ ChangesNext /\ Others("changes")
    \/ screen = "deliveries" /\ DeliveriesNext /\ Others("deliveries")

Spec == Init /\ [][Next]_vars

-----------------------------------------------------------------------------
(* Correctness *)

\* What a page of the console shows was drawn from an answer and then corrected by
\* hand, or asked for again, after each change.  Once nothing is in flight, the page
\* on display shows what the server has; provided one thing was done at a time and
\* no answer was lost (each page says what it needs of that).  The links among it
\* work, and no list is said to be empty that is not.
ListsMatch ==
    /\ HiddenMatches /\ RowsMatch /\ KeysMatch /\ AnswersMatch /\ UsersMatch
    /\ ConnsMatch /\ PipesMatch /\ WarehousesMatch /\ RolesMatch /\ GroupsMatch
    /\ NavSavedShown /\ PageShown /\ AuditShown /\ FeedShown /\ DeliveriesShown
    /\ ShownLinkWorks /\ EmptyMeansNone

\* A form is saved whole, so it must carry what the administrator does not change in
\* it.  Four do: the secret of a connection left blank stays, the grants of a role
\* whose ticks are left alone, the destinations of the channels a group's form does
\* not show, and the roles of a shared resource that were neither ticked nor unticked.
\* (Two things do not stay: the dialog that shares a resource drops the grants to
\* single users, as UntoggledRolesKept says; and the form of a user sends one role,
\* so a user who had several keeps the first or the one picked, see SaveUser.)
EditsKeepTheRest == SecretKept /\ GrantsKept /\ DestinationsKept /\ []UntoggledRolesKept

\* What the editor of the navigation sends is refused for lengths and odd paths only,
\* which it has no check for; and what the API lets through leads every user somewhere.
NavigationWorks == RefusedForLimits /\ BarLeadsSomewhere

\* No page waits for ever, or holds a button for ever: once every request has been
\* answered or has failed, in whatever order, nothing on display says that it waits.
NothingHangs ==
    /\ TreeSpinners /\ RowSpinners /\ DialogSpinners /\ InviteSpinners /\ UserSpinners /\ RoleSpinners
    /\ ShareSpinners /\ ConnSpinners /\ PipeSpinners /\ WhSpinners /\ GroupSpinners /\ NavSpinners
    /\ PageSpinners /\ AuditSpinners /\ ChangeSpinners /\ DeliverySpinners
===============================================================================
