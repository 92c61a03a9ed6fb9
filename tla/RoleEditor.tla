------------------------------ MODULE RoleEditor ------------------------------
(***************************************************************************)
(* The roles page (app/admin/roles/page.tsx) and the editor of one role    *)
(* (app/admin/roles/[id]/page.tsx, PermissionMatrix.tsx), over the roles   *)
(* the server stores (services/user.py).  Of a role the permissions and    *)
(* whether it is a system role are kept.                                   *)
(***************************************************************************)
EXTENDS Calls

CONSTANTS
    Permission,     \* permission keys
    MaxRoles,       \* bound: roles ever created
    MaxRoleClicks   \* bound: steps of the administrator

VARIABLES
    roleRows,    \* the server's roles
    rolesMade,   \* the number of roles ever inserted
    roleTab,     \* the React state of the page on screen
    roleNet      \* the requests

roleVars == <<roleRows, rolesMade, roleTab, roleNet>>
roleServer == <<roleRows, rolesMade>>

RoleRow(id, system, perms) == [id |-> id, system |-> system, perms |-> perms]

\* What the server stores of a role, and the state of the editor that shows one.
RoleType == [id : Nat, system : BOOLEAN, perms : SUBSET Permission]
RoleEdit == [of : Nat \cup {None}, role : RoleType \cup {None}, assigned : SUBSET Permission,
             touched : SUBSET Permission, catalogue : BOOLEAN, saving : BOOLEAN, loading : BOOLEAN, n : Nat]

\* No editor open is told from an open one.
ASSUME RolesAssumption == None \notin RoleEdit

\* The list; n tells its mounts apart.
RoleListPage(n) == [rows |-> {}, loading |-> TRUE, deleting |-> None, n |-> n]

RolesInit ==
    /\ roleRows = {RoleRow(1, TRUE, Permission), RoleRow(2, FALSE, Permission)}
    /\ rolesMade = 2
    /\ roleTab = [list |-> RoleListPage(0), edit |-> None, clicks |-> 0, calm |-> TRUE]
    /\ roleNet = Send(NoCalls, "roles", [n |-> 0])

PressRole == roleTab.clicks < MaxRoleClicks /\ UNCHANGED roleServer
StepRole == Pressed(roleTab, Quiet(roleNet))

OnRoleList(i) == roleTab.edit = None /\ roleTab.list.n = roleNet[i].arg.n
OnRole(i) == roleTab.edit # None /\ roleTab.edit.n = roleNet[i].arg.n

-----------------------------------------------------------------------------
(* The list *)

ServeRoles(i) ==
    /\ Sent(roleNet, i, "roles")
    /\ roleNet' = Reply(roleNet, i, roleRows)
    /\ UNCHANGED <<roleServer, roleTab>>

RolesRead(i) ==
    /\ Settled(roleNet, i, "roles")
    /\ roleTab' = IF ~OnRoleList(i) THEN roleTab
                  ELSE IF Ok(roleNet, i, "roles")
                  THEN [roleTab EXCEPT !.list.rows = roleNet[i].out, !.list.loading = FALSE]
                  ELSE [roleTab EXCEPT !.list.loading = FALSE, !.calm = FALSE]
    /\ roleNet' = Done(roleNet, i)
    /\ UNCHANGED roleServer

DropRole(r) ==
    /\ PressRole /\ roleTab.edit = None /\ ~roleTab.list.loading /\ r \in roleTab.list.rows /\ ~r.system
    /\ roleTab.list.deleting # r.id /\ Room(roleNet, 1)
    /\ roleTab' = [StepRole EXCEPT !.list.deleting = r.id]
    /\ roleNet' = Send(roleNet, "drop", [id |-> r.id, n |-> roleTab.list.n])

ServeDropRole(i) ==
    /\ Sent(roleNet, i, "drop")
    /\ LET row == {r \in roleRows : r.id = roleNet[i].arg.id /\ ~r.system}
       IN /\ roleRows' = roleRows \ row
          /\ roleNet' = IF row = {} THEN Fail(roleNet, i) ELSE Reply(roleNet, i, None)
    /\ UNCHANGED <<rolesMade, roleTab>>

RoleDropped(i) ==
    /\ Settled(roleNet, i, "drop")
    /\ roleTab' = IF ~OnRoleList(i) THEN roleTab
                  ELSE IF Ok(roleNet, i, "drop")
                  THEN [roleTab EXCEPT !.list.deleting = None, !.list.rows = {r \in @ : r.id # roleNet[i].arg.id}]
                  ELSE [roleTab EXCEPT !.list.deleting = None]
    /\ roleNet' = Done(roleNet, i)
    /\ UNCHANGED roleServer

-----------------------------------------------------------------------------
(* The editor *)

EditorOf(id) == [of |-> id, role |-> None, assigned |-> {}, touched |-> {}, catalogue |-> FALSE,
                 saving |-> FALSE, loading |-> id # None, n |-> roleTab.clicks]

\* loadPermissions of a new role; loadExisting waits for role and catalogue together.
LoadRole(id) == Send(roleNet, IF id = None THEN "catalogue" ELSE "role", [id |-> id, n |-> roleTab.clicks])

OpenRole(id) ==
    /\ PressRole /\ roleTab.edit = None /\ ~roleTab.list.loading /\ Room(roleNet, 1)
    /\ id = None \/ \E r \in roleTab.list.rows : r.id = id
    /\ roleTab' = [StepRole EXCEPT !.edit = EditorOf(id)]
    /\ roleNet' = LoadRole(id)

ServeRole(i) ==
    /\ \/ Sent(roleNet, i, "catalogue") /\ roleNet' = Reply(roleNet, i, None)
       \/ /\ Sent(roleNet, i, "role")
          /\ LET row == {r \in roleRows : r.id = roleNet[i].arg.id}
             IN roleNet' = IF row = {} THEN Fail(roleNet, i) ELSE Reply(roleNet, i, CHOOSE r \in row : TRUE)
    /\ UNCHANGED <<roleServer, roleTab>>

\* A new role without a catalogue has no matrix, and can be created so.
CatalogueRead(i) ==
    /\ Settled(roleNet, i, "catalogue")
    /\ roleTab' = IF OnRole(i) /\ Ok(roleNet, i, "catalogue") THEN [roleTab EXCEPT !.edit.catalogue = TRUE] ELSE roleTab
    /\ roleNet' = Done(roleNet, i)
    /\ UNCHANGED roleServer

\* What is being edited is overwritten, whatever was ticked.
RoleRead(i) ==
    /\ Ok(roleNet, i, "role")
    /\ roleTab' = IF OnRole(i)
                  THEN [roleTab EXCEPT !.edit.role = roleNet[i].out, !.edit.assigned = roleNet[i].out.perms,
                                       !.edit.touched = {}, !.edit.catalogue = TRUE, !.edit.loading = FALSE]
                  ELSE roleTab
    /\ roleNet' = Done(roleNet, i)
    /\ UNCHANGED roleServer

\* Any session object that differs runs the effect again.
SessionRenewed ==
    /\ PressRole /\ roleTab.edit # None /\ Room(roleNet, 1)
    /\ roleTab' = StepRole
    /\ roleNet' = Send(roleNet, IF roleTab.edit.of = None THEN "catalogue" ELSE "role",
                       [id |-> roleTab.edit.of, n |-> roleTab.edit.n])

ReadOnly == roleTab.edit.role # None /\ roleTab.edit.role.system

TogglePermission(p) ==
    /\ PressRole /\ roleTab.edit # None /\ ~roleTab.edit.loading /\ roleTab.edit.catalogue /\ ~ReadOnly
    /\ roleTab' = [StepRole EXCEPT !.edit.assigned = IF p \in @ THEN @ \ {p} ELSE @ \cup {p},
                                   !.edit.touched = @ \cup {p}]
    /\ UNCHANGED roleNet

SaveRole ==
    /\ PressRole /\ roleTab.edit # None /\ ~roleTab.edit.loading /\ ~ReadOnly /\ ~roleTab.edit.saving
    /\ Room(roleNet, 1)
    /\ roleTab' = [StepRole EXCEPT !.edit.saving = TRUE]
    /\ roleNet' = Send(roleNet, IF roleTab.edit.of = None THEN "create" ELSE "save",
                       [id |-> roleTab.edit.of, perms |-> roleTab.edit.assigned,
                        touched |-> roleTab.edit.touched, n |-> roleTab.edit.n])

ServeCreateRole(i) ==
    /\ Sent(roleNet, i, "create") /\ rolesMade < MaxRoles
    /\ rolesMade' = rolesMade + 1
    /\ roleRows' = roleRows \cup {RoleRow(rolesMade + 1, FALSE, roleNet[i].arg.perms)}
    /\ roleNet' = Reply(roleNet, i, None)
    /\ UNCHANGED roleTab

\* update_role: every grant is deleted and those of the body are inserted.
ServeSaveRole(i) ==
    /\ Sent(roleNet, i, "save")
    /\ LET arg == roleNet[i].arg
           row == {r \in roleRows : r.id = arg.id /\ ~r.system}
       IN /\ roleRows' = (roleRows \ row) \cup {RoleRow(r.id, FALSE, arg.perms) : r \in row}
          /\ roleNet' = IF row = {} THEN Fail(roleNet, i) ELSE Reply(roleNet, i, None)
    /\ UNCHANGED <<rolesMade, roleTab>>

\* router.push('/admin/roles'): from whatever page is shown by then, and the list
\* is mounted anew and read again.
ToRoles(i) ==
    /\ roleTab' = [roleTab EXCEPT !.edit = None, !.list = RoleListPage(roleTab.clicks)]
    /\ roleNet' = Then(roleNet, i, "roles", [n |-> roleTab.clicks])

\* After a save, and after a role that could not be loaded.
RoleSettled(i) ==
    /\ \/ /\ \E op \in {"create", "save"} : Ok(roleNet, i, op)
          /\ ToRoles(i)
       \/ /\ \E op \in {"create", "save"} : Err(roleNet, i, op)
          /\ roleTab' = IF OnRole(i) THEN [roleTab EXCEPT !.edit.saving = FALSE] ELSE roleTab
          /\ roleNet' = Done(roleNet, i)
       \/ Err(roleNet, i, "role") /\ ToRoles(i)
    /\ UNCHANGED roleServer

\* Cancel, Back to Roles.
LeaveRole ==
    /\ PressRole /\ roleTab.edit # None /\ ~roleTab.edit.loading /\ Room(roleNet, 1)
    /\ roleTab' = [StepRole EXCEPT !.edit = None, !.list = RoleListPage(roleTab.clicks)]
    /\ roleNet' = Send(roleNet, "roles", [n |-> roleTab.clicks])

RoleCallFails(i) ==
    /\ CanFail(roleNet, i)
    /\ roleNet' = Fail(roleNet, i)
    /\ roleTab' = Missed(roleTab, roleNet, i)
    /\ UNCHANGED roleServer

RolesNext ==
    \/ \E r \in roleTab.list.rows : DropRole(r) \/ OpenRole(r.id)
    \/ OpenRole(None) \/ SessionRenewed \/ SaveRole \/ LeaveRole
    \/ \E p \in Permission : TogglePermission(p)
    \/ \E i \in Slot :
          \/ ServeRoles(i) \/ RolesRead(i) \/ ServeDropRole(i) \/ RoleDropped(i) \/ ServeRole(i) \/ CatalogueRead(i)
          \/ RoleRead(i) \/ ServeCreateRole(i) \/ ServeSaveRole(i) \/ RoleSettled(i) \/ RoleCallFails(i)

-----------------------------------------------------------------------------
(* Correctness *)

\* Once nothing is in flight the list shows the roles there are, with their
\* permissions; provided one thing was done at a time and no answer was lost.
RolesMatch ==
    roleTab.calm /\ Quiet(roleNet) /\ roleTab.edit = None => roleTab.list.rows = roleRows

\* A save replaces every grant of a role, so the form must carry those it does not
\* change: a role loses or gains a permission only by its tick; provided one
\* thing was done at a time.
GrantsKept ==
    [][\A r \in roleRows, q \in roleRows' :
          roleTab.calm /\ r.id = q.id =>
              \A p \in Permission : (p \in r.perms) # (p \in q.perms) =>
                  \E i \in Slot : Sent(roleNet, i, "save") /\ roleNet[i].arg.id = r.id
                                   /\ p \in roleNet[i].arg.touched]_roleVars

\* The page on screen says that it waits only while it does.
RoleSpinners ==
    Quiet(roleNet) =>
        /\ roleTab.edit = None => ~roleTab.list.loading /\ roleTab.list.deleting = None
        /\ roleTab.edit # None => ~roleTab.edit.loading /\ ~roleTab.edit.saving

RolesSpec == RolesInit /\ [][RolesNext]_roleVars

-----------------------------------------------------------------------------
(* The inductive invariant behind GrantsKept (see ConsoleProofs) *)

\* But for the ticks touched these are the permissions of every role with that id.
SameGrants(among, perms, id, touched) ==
    \A r \in among : r.id = id => \A p \in Permission \ touched : (p \in perms) = (p \in r.perms)

\* The role on its way to the editor, and what is on its way from it.
RoleCallFits(c) ==
    LET edit == roleTab.edit
    IN /\ c.op \in {"role", "create", "save"} /\ edit # None => edit.of = c.arg.id
       /\ c.op = "role" /\ c.st = "ok" => SameGrants(roleRows, c.out.perms, c.arg.id, {})
       /\ c.op = "save" => /\ SameGrants(roleRows, c.arg.perms, c.arg.id, c.arg.touched)
                           /\ edit # None => edit.touched = c.arg.touched

EditFits ==
    LET edit == roleTab.edit
    IN edit # None /\ edit.of # None /\ ~edit.loading => SameGrants(roleRows, edit.assigned, edit.of, edit.touched)

\* One thing at a time: the ticks of the editor, the role on its way to it and what
\* is on its way from it are the role's but for the ticks touched.
GrantsInv ==
    /\ \A r \in roleRows : r.id \in 1..rolesMade
    /\ \A r, q \in roleRows : r.id = q.id => r = q
    /\ roleTab.calm =>
          /\ \A i, j \in Pending(roleNet) : i = j
          /\ EditFits
          /\ \A i \in Pending(roleNet) : RoleCallFits(roleNet[i])
===============================================================================
