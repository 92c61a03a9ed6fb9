------------------------------ MODULE ShareDialog ------------------------------
(***************************************************************************)
(* The dialog that shares a resource with roles                            *)
(* (admin/ShareResourceDialog.tsx), which five administration pages open   *)
(* over a resource of theirs, and the grants behind it                     *)
(* (routers/data_pipelines.py and its like).  Single users can be granted  *)
(* access too, which the dialog neither shows nor sends back.              *)
(***************************************************************************)
EXTENDS Calls

CONSTANTS
    Shared,          \* the resources of the page
    Reader,          \* the roles one can share with
    Member,          \* users who were granted access themselves
    MaxShareClicks   \* bound: clicks of the administrator

VARIABLES
    grants,    \* the server: the roles and users each resource is shared with
    share,     \* the React state of the dialog, None when it is closed
    shareLog,  \* clicks; calm: read and not overtaken; the resource whose dialog
               \* was opened last, the grants before that, the roles toggled since
    shareNet   \* the requests

shareVars == <<grants, share, shareLog, shareNet>>

ShareInit ==
    /\ grants = [s \in Shared |-> Reader \cup Member]
    /\ share = None
    /\ shareLog = [clicks |-> 0, calm |-> TRUE, of |-> None, before |-> grants, toggled |-> {}]
    /\ shareNet = NoCalls

\* The effect of the dialog asks for the roles granted and for all roles; both
\* are needed, and one request stands for the two.
OpenShare(s) ==
    /\ share = None /\ shareLog.clicks < MaxShareClicks /\ Room(shareNet, 1)
    /\ share' = [of |-> s, roles |-> {}, loading |-> TRUE, listed |-> FALSE, saving |-> FALSE,
                 n |-> shareLog.clicks]
    /\ shareLog' = [Pressed(shareLog, Quiet(shareNet)) EXCEPT !.of = s, !.before = grants, !.toggled = {}]
    /\ shareNet' = Send(shareNet, "perms", [of |-> s, n |-> shareLog.clicks])
    /\ UNCHANGED grants

\* The page takes the roles of the answer, whether or not it has the users as well.
ServePerms(i) ==
    /\ Sent(shareNet, i, "perms")
    /\ shareNet' = Reply(shareNet, i, grants[shareNet[i].arg.of] \cap Reader)
    /\ UNCHANGED <<grants, share, shareLog>>

Mine(i) == share # None /\ share.n = shareNet[i].arg.n

\* A failure leaves no role selected and Save enabled.
PermsRead(i) ==
    /\ Settled(shareNet, i, "perms")
    /\ share' = IF ~Mine(i) THEN share
                ELSE IF Err(shareNet, i, "perms") THEN [share EXCEPT !.loading = FALSE]
                ELSE [share EXCEPT !.loading = FALSE, !.listed = TRUE, !.roles = shareNet[i].out]
    /\ shareLog' = [shareLog EXCEPT !.calm = @ /\ Ok(shareNet, i, "perms")]
    /\ shareNet' = Done(shareNet, i)
    /\ UNCHANGED grants

\* The cross is never disabled.
CloseShare ==
    /\ share # None
    /\ share' = None
    /\ UNCHANGED <<grants, shareLog, shareNet>>

\* toggleRole: the boxes are those of the roles listed.
ToggleRole(r) ==
    /\ share # None /\ ~share.loading /\ share.listed /\ shareLog.clicks < MaxShareClicks
    /\ share' = [share EXCEPT !.roles = IF r \in @ THEN @ \ {r} ELSE @ \cup {r}]
    /\ shareLog' = [shareLog EXCEPT !.clicks = @ + 1, !.toggled = @ \cup {r}]
    /\ UNCHANGED <<grants, shareNet>>

\* handleSave: the roles selected, and "user_ids: []".
SaveShare ==
    /\ share # None /\ ~share.saving /\ ~share.loading
    /\ shareLog.clicks < MaxShareClicks /\ Room(shareNet, 1)
    /\ share' = [share EXCEPT !.saving = TRUE]
    /\ shareLog' = Pressed(shareLog, Quiet(shareNet))
    /\ shareNet' = Send(shareNet, "grant", share)
    /\ UNCHANGED grants

\* set_pipeline_permissions and its like delete every grant of the resource, those of
\* users too, and add the roles they were given.
ServeGrant(i) ==
    /\ Sent(shareNet, i, "grant")
    /\ grants' = [grants EXCEPT ![shareNet[i].arg.of] = shareNet[i].arg.roles]
    /\ shareNet' = Reply(shareNet, i, None)
    /\ UNCHANGED <<share, shareLog>>

\* onClose closes the dialog on screen, whichever resource it is for by then.
Granted(i) ==
    /\ Settled(shareNet, i, "grant")
    /\ share' = IF Ok(shareNet, i, "grant") THEN None
                ELSE IF Mine(i) THEN [share EXCEPT !.saving = FALSE] ELSE share
    /\ shareNet' = Done(shareNet, i)
    /\ UNCHANGED <<grants, shareLog>>

ShareCallFails(i) ==
    /\ CanFail(shareNet, i)
    /\ shareNet' = Fail(shareNet, i)
    /\ UNCHANGED <<grants, share, shareLog>>

ShareNext ==
    \/ \E s \in Shared : OpenShare(s)
    \/ \E r \in Reader : ToggleRole(r)
    \/ CloseShare \/ SaveShare
    \/ \E i \in Slot :
          ServePerms(i) \/ PermsRead(i) \/ ServeGrant(i) \/ Granted(i) \/ ShareCallFails(i)

-----------------------------------------------------------------------------
(* Correctness *)

\* A selection that differs from what was granted before in the toggled roles only.
Toggled(roles, before, toggled) == \A r \in Reader : ((r \in roles) # (r \in before)) => r \in toggled

\* Of the roles, saving a selection changes the access of those that were ticked or
\* unticked in this dialog and of no other, and on no other resource; provided the
\* grants could be read and nothing was opened over a save in flight.  The users who
\* had been granted access themselves all lose it, though nobody was shown them.
UntoggledRolesKept ==
    shareLog.calm =>
        \A s \in Shared : grants[s] # shareLog.before[s] =>
            /\ s = shareLog.of
            /\ Toggled(grants[s], shareLog.before[s], shareLog.toggled)
            /\ grants[s] \subseteq Reader

\* A spinner is waiting for a request of its own.
ShareSpinners == Quiet(shareNet) /\ share # None => ~share.loading /\ ~share.saving

ShareSpec == ShareInit /\ [][ShareNext]_shareVars

-----------------------------------------------------------------------------
(* The inductive invariant behind UntoggledRolesKept (see ConsoleProofs) *)

\* Nothing has been toggled or granted while the grants are read.
ReadFits(c) ==
    c.op = "perms" =>
        /\ c.arg.of = shareLog.of /\ shareLog.toggled = {} /\ grants = shareLog.before
        /\ share # None => share.loading
        /\ c.st = "ok" => c.out = shareLog.before[shareLog.of] \cap Reader

\* A selection on its way, or on the screen once the grants are read, differs
\* from those by what was toggled.
GrantFits(c) ==
    c.op = "grant" =>
        /\ c.arg.of = shareLog.of
        /\ Toggled(c.arg.roles, shareLog.before[shareLog.of], shareLog.toggled)
        /\ c.arg.roles \subseteq Reader

ScreenFits ==
    share # None =>
        /\ share.of = shareLog.of
        /\ ~share.loading => /\ Toggled(share.roles, shareLog.before[shareLog.of], shareLog.toggled)
                             /\ share.roles \subseteq Reader

\* All that, and one request at most, when one thing is done at a time.
SelectionInv ==
    shareLog.calm =>
        /\ \A i, j \in Pending(shareNet) : i = j
        /\ UntoggledRolesKept /\ ScreenFits
        /\ \A i \in Pending(shareNet) : ReadFits(shareNet[i]) /\ GrantFits(shareNet[i])
===============================================================================
