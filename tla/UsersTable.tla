------------------------------ MODULE UsersTable ------------------------------
(***************************************************************************)
(* The table of users and its dialogs (components/admin/UsersClient.tsx)   *)
(* over the accounts of the organisation (services/user.py).  Invitations, *)
(* on the same page, are in Invites.                                       *)
(*                                                                         *)
(* The dialogs cover the page.  Cancel is not disabled while a dialog      *)
(* saves, and the reply of a dialog that was cancelled still runs its      *)
(* onSaved and onClose.                                                    *)
(***************************************************************************)
EXTENDS Calls, Sequences

CONSTANTS
    Role,           \* the roles one can give
    MaxAccounts,    \* bound: accounts of the organisation
    PageSize,       \* 25 in the code
    MaxUserClicks   \* bound: clicks of the administrator

VARIABLES
    accounts,   \* the server: users and user_roles, in the order of their ids
    users,      \* the React state of the table
    userDialog, \* the dialog on screen, None when there is none
    usersNet    \* the requests

usersVars == <<accounts, users, userDialog, usersNet>>

Account(id, name, roles) ==
    [id |-> id, name |-> name, roles |-> roles, active |-> TRUE, totp |-> TRUE]

\* get_users: items and total of one page.
PageOf(p) ==
    [items |-> {accounts[k] : k \in {j \in DOMAIN accounts : (j - 1) \div PageSize = p - 1}},
     total |-> Len(accounts), page |-> p]

UsersInit ==
    /\ accounts = <<Account(1, None, Role)>>
    /\ users = [shown |-> PageOf(1), loading |-> FALSE, clicks |-> 0, calm |-> TRUE]
    /\ userDialog = None
    /\ usersNet = NoCalls

UserPress ==
    /\ users.clicks < MaxUserClicks
    /\ users' = Pressed(users, Quiet(usersNet))
    /\ UNCHANGED accounts

\* prev.map(u => u.id === id ? change(u) : u)
Rows(id, change) ==
    [users EXCEPT !.shown.items = {IF u.id = id THEN change[u] ELSE u : u \in @}]

-----------------------------------------------------------------------------
(* Pages of the table *)

TotalPages == (users.shown.total + PageSize - 1) \div PageSize

\* Previous and Next
TurnPage(p) ==
    /\ userDialog = None /\ p \in {users.shown.page - 1, users.shown.page + 1}
    /\ p >= 1 /\ p <= TotalPages /\ ~users.loading
    /\ users.clicks < MaxUserClicks /\ Room(usersNet, 1)
    /\ users' = [Pressed(users, Quiet(usersNet)) EXCEPT !.loading = TRUE]
    /\ usersNet' = Send(usersNet, "users", p)
    /\ UNCHANGED <<accounts, userDialog>>

ServeUsers(i) ==
    /\ Sent(usersNet, i, "users")
    /\ usersNet' = Reply(usersNet, i, PageOf(usersNet[i].arg))
    /\ UNCHANGED <<accounts, users, userDialog>>

UsersRead(i) ==
    /\ Settled(usersNet, i, "users")
    /\ users' = IF Ok(usersNet, i, "users")
                THEN [users EXCEPT !.shown = usersNet[i].out, !.loading = FALSE]
                ELSE [users EXCEPT !.loading = FALSE, !.calm = FALSE]
    /\ usersNet' = Done(usersNet, i)
    /\ UNCHANGED <<accounts, userDialog>>

-----------------------------------------------------------------------------
(* Dialogs *)

\* Buttons of a row, and Create User above the table (with user None).
OpenUserDialog(kind, u) ==
    /\ userDialog = None
    /\ kind = "deactivate" => u.active
    /\ UserPress
    /\ userDialog' = [kind |-> kind, user |-> u, saving |-> FALSE, n |-> users.clicks]
    /\ UNCHANGED usersNet

CancelUserDialog ==
    /\ userDialog # None
    /\ userDialog' = None
    /\ UNCHANGED <<accounts, users, usersNet>>

Submit(kind, op, arg) ==
    /\ userDialog # None /\ userDialog.kind = kind /\ ~userDialog.saving
    /\ UserPress /\ Room(usersNet, 1)
    /\ userDialog' = [userDialog EXCEPT !.saving = TRUE]
    /\ usersNet' = Send(usersNet, op, [form |-> arg, id |-> IF userDialog.user = None THEN None
                                                          ELSE userDialog.user.id,
                                       n |-> userDialog.n])

\* onClose sets the page's state, whichever dialog of the kind is open by then;
\* a failure stays within the dialog that met it.
Closed(kind) == IF userDialog # None /\ userDialog.kind = kind THEN None ELSE userDialog
Freed(i) == IF userDialog # None /\ userDialog.n = usersNet[i].arg.n
            THEN [userDialog EXCEPT !.saving = FALSE] ELSE userDialog

-----------------------------------------------------------------------------
(* Editing: the profile, then the roles *)

\* What the form can hold: it starts from the row, and a user with several roles
\* is shown with the first of them.
UserForms == [name : {None, "n"}, active : BOOLEAN, role : Role \cup {None}]

SaveUser(form) == Submit("edit", "profile", form)

\* update_user: None is skipped; the reply has the roles of the moment.
ServeProfile(i) ==
    /\ Sent(usersNet, i, "profile")
    /\ LET id == usersNet[i].arg.id
           form == usersNet[i].arg.form
       IN accounts' = [accounts EXCEPT ![id].active = form.active,
                                       ![id].name = IF form.name = None THEN @ ELSE form.name]
    /\ usersNet' = Reply(usersNet, i, accounts'[usersNet[i].arg.id])
    /\ UNCHANGED <<users, userDialog>>

ProfileSaved(i) ==
    /\ \/ /\ Ok(usersNet, i, "profile")
          /\ usersNet' = Then(usersNet, i, "roles", [usersNet[i].arg EXCEPT !.form =
                            [row |-> usersNet[i].out, role |-> usersNet[i].arg.form.role]])
          /\ UNCHANGED userDialog
       \/ /\ Err(usersNet, i, "profile")
          /\ userDialog' = Freed(i)
          /\ usersNet' = Done(usersNet, i)
    /\ UNCHANGED <<accounts, users>>

RoleSet(r) == {r} \ {None}

\* assign_roles: the roles given replace the ones there are.
ServeRoleNames(i) ==
    /\ Sent(usersNet, i, "roles")
    /\ accounts' = [accounts EXCEPT ![usersNet[i].arg.id].roles = RoleSet(usersNet[i].arg.form.role)]
    /\ usersNet' = Reply(usersNet, i, None)
    /\ UNCHANGED <<users, userDialog>>

\* The profile stays changed, and the table without it, when the second request
\* fails.
RolesSaved(i) ==
    /\ \/ /\ Ok(usersNet, i, "roles")
          /\ users' = LET form == usersNet[i].arg.form
                      IN Rows(usersNet[i].arg.id, [u \in users.shown.items |-> [form.row EXCEPT !.roles = RoleSet(form.role)]])
          /\ userDialog' = Closed("edit")
       \/ /\ Err(usersNet, i, "roles")
          /\ users' = [users EXCEPT !.calm = FALSE]
          /\ userDialog' = Freed(i)
    /\ usersNet' = Done(usersNet, i)
    /\ UNCHANGED accounts

-----------------------------------------------------------------------------
(* The other dialogs *)

\* The address has been typed again to confirm.
DeleteUser == Submit("deactivate", "deactivate", None)

ServeDeactivate(i) ==
    /\ Sent(usersNet, i, "deactivate")
    /\ accounts' = [accounts EXCEPT ![usersNet[i].arg.id].active = FALSE]
    /\ usersNet' = Reply(usersNet, i, None)
    /\ UNCHANGED <<users, userDialog>>

UserDeleted(i) ==
    /\ \/ /\ Ok(usersNet, i, "deactivate")
          /\ users' = Rows(usersNet[i].arg.id, [u \in users.shown.items |-> [u EXCEPT !.active = FALSE]])
          /\ userDialog' = Closed("deactivate")
       \/ /\ Err(usersNet, i, "deactivate")
          /\ userDialog' = Freed(i) /\ UNCHANGED users
    /\ usersNet' = Done(usersNet, i)
    /\ UNCHANGED accounts

\* Short passwords and ones typed differently go nowhere.
SetPassword == Submit("password", "password", None)

ServePassword(i) ==
    /\ Sent(usersNet, i, "password")
    /\ usersNet' = Reply(usersNet, i, None)
    /\ UNCHANGED <<accounts, users, userDialog>>

PasswordSet(i) ==
    /\ Settled(usersNet, i, "password")
    /\ userDialog' = IF Ok(usersNet, i, "password") THEN Closed("password") ELSE Freed(i)
    /\ usersNet' = Done(usersNet, i)
    /\ UNCHANGED <<accounts, users>>

\* The address may be taken, as the server alone can tell.
CreateUser(form) == Submit("create", "create", form)
NewUsers == [taken : BOOLEAN, role : Role \cup {None}]

ServeCreate(i) ==
    /\ Sent(usersNet, i, "create")
    /\ LET form == usersNet[i].arg.form
       IN IF form.taken
          THEN usersNet' = Fail(usersNet, i) /\ UNCHANGED accounts
          ELSE /\ Len(accounts) < MaxAccounts
               /\ accounts' = Append(accounts, Account(Len(accounts) + 1, None, RoleSet(form.role)))
               /\ usersNet' = Reply(usersNet, i, None)
    /\ UNCHANGED <<users, userDialog>>

\* onCreated reads the first page again.
UserCreated(i) ==
    /\ \/ /\ Ok(usersNet, i, "create")
          /\ users' = [users EXCEPT !.loading = TRUE]
          /\ userDialog' = Closed("create")
          /\ usersNet' = Then(usersNet, i, "users", 1)
       \/ /\ Err(usersNet, i, "create")
          /\ userDialog' = Freed(i)
          /\ usersNet' = Done(usersNet, i)
          /\ UNCHANGED users
    /\ UNCHANGED accounts

-----------------------------------------------------------------------------
(* Buttons of a row that act at once *)

PressRow(op, u) ==
    /\ userDialog = None /\ UserPress /\ Room(usersNet, 1)
    /\ usersNet' = Send(usersNet, op, [id |-> u.id])
    /\ UNCHANGED userDialog

ResetTotp(u) == u.totp /\ PressRow("totp", u)
Activate(u) == ~u.active /\ PressRow("activate", u)

ServeTotp(i) ==
    /\ Sent(usersNet, i, "totp")
    /\ accounts' = [accounts EXCEPT ![usersNet[i].arg.id].totp = FALSE]
    /\ usersNet' = Reply(usersNet, i, None)
    /\ UNCHANGED <<users, userDialog>>

TotpReset(i) ==
    /\ Settled(usersNet, i, "totp")
    /\ users' = IF Ok(usersNet, i, "totp")
                THEN Rows(usersNet[i].arg.id, [u \in users.shown.items |-> [u EXCEPT !.totp = FALSE]]) ELSE users
    /\ usersNet' = Done(usersNet, i)
    /\ UNCHANGED <<accounts, userDialog>>

ServeActivate(i) ==
    /\ Sent(usersNet, i, "activate")
    /\ accounts' = [accounts EXCEPT ![usersNet[i].arg.id].active = TRUE]
    /\ usersNet' = Reply(usersNet, i, None)
    /\ UNCHANGED <<users, userDialog>>

Activated(i) ==
    /\ Settled(usersNet, i, "activate")
    /\ users' = IF Ok(usersNet, i, "activate")
                THEN Rows(usersNet[i].arg.id, [u \in users.shown.items |-> [u EXCEPT !.active = TRUE]]) ELSE users
    /\ usersNet' = Done(usersNet, i)
    /\ UNCHANGED <<accounts, userDialog>>

UserCallFails(i) ==
    /\ CanFail(usersNet, i)
    /\ usersNet' = Fail(usersNet, i)
    /\ users' = Missed(users, usersNet, i)
    /\ UNCHANGED <<accounts, userDialog>>

UsersNext ==
    \/ \E p \in 1..MaxAccounts : TurnPage(p)
    \/ OpenUserDialog("create", None) \/ CancelUserDialog
    \/ \E u \in users.shown.items :
          ResetTotp(u) \/ Activate(u) \/ \E k \in {"edit", "deactivate", "password"} : OpenUserDialog(k, u)
    \/ \E f \in UserForms : SaveUser(f)
    \/ \E f \in NewUsers : CreateUser(f)
    \/ DeleteUser \/ SetPassword
    \/ \E i \in Slot :
          \/ ServeUsers(i) \/ UsersRead(i) \/ ServeProfile(i) \/ ProfileSaved(i)
          \/ ServeRoleNames(i) \/ RolesSaved(i) \/ ServeDeactivate(i) \/ UserDeleted(i)
          \/ ServePassword(i) \/ PasswordSet(i) \/ ServeCreate(i) \/ UserCreated(i)
          \/ ServeTotp(i) \/ TotpReset(i) \/ ServeActivate(i) \/ Activated(i) \/ UserCallFails(i)

-----------------------------------------------------------------------------
(* Correctness *)

\* Once nothing is in flight, the table shows its page as the server has it:
\* the roles after the two requests of an edit, a new user's page count, and
\* what the buttons changed; provided one thing was done at a time and no half
\* of an edit failed.
UsersMatch ==
    users.calm /\ Quiet(usersNet) => users.shown = PageOf(users.shown.page)

\* A spinner is waiting for a request of its own.
UserSpinners ==
    Quiet(usersNet) => ~users.loading /\ (userDialog # None => ~userDialog.saving)
===============================================================================
