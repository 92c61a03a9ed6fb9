------------------------------- MODULE Invites -------------------------------
(***************************************************************************)
(* Invitations: the table and the dialog of the users page                 *)
(* (components/admin/UsersClient.tsx), the page an invitee opens from the  *)
(* link (app/(auth)/accept-invite/page.tsx) and the server between them    *)
(* (services/invites.py).                                                  *)
(*                                                                         *)
(* The server mails the link inside the transaction that issues it, so a   *)
(* transaction that invites or resends stays open for as long as the mail  *)
(* server takes; the rows it has written are locked until it commits.      *)
(***************************************************************************)
EXTENDS Calls, Sequences

CONSTANTS
    Email,            \* the addresses one can invite
    MaxInvites,       \* bound: invitation rows ever inserted
    MaxTokens,        \* bound: tokens ever minted
    MaxInviteClicks   \* bound: clicks of the administrator

VARIABLES
    invites,      \* user_invites: the committed rows
    members,      \* the accounts made for each address, by id of their invitation
    minted,       \* invitations and tokens issued so far; ids revoked
    console,      \* the React state of the users page
    consoleNet,   \* its requests
    guest,        \* the React state of the invitee's page
    guestNet      \* its requests

inviteVars == <<invites, members, minted, console, consoleNet, guest, guestNet>>
serverState == <<invites, members, minted>>
guestState == <<guest, guestNet>>

ASSUME InvitesAssumption == Email # {}

InvitesInit ==
    /\ invites = {[id |-> 1, email |-> CHOOSE e \in Email : TRUE, token |-> 1,
                   accepted |-> FALSE, expired |-> FALSE]}
    /\ members = [e \in Email |-> <<>>]
    /\ minted = [ids |-> 1, tokens |-> 1, revoked |-> {}]
    /\ console = [rows |-> {}, loading |-> TRUE, dialog |-> None, resending |-> None,
                  clicks |-> 0, calm |-> TRUE]
    /\ consoleNet = Send(NoCalls, "list", None)
    /\ guest = [token |-> None, preview |-> None, saving |-> FALSE, success |-> FALSE]
    /\ guestNet = NoCalls

Status(r) == IF r.accepted THEN "accepted" ELSE IF r.expired THEN "expired" ELSE "pending"

\* Rows written by a transaction that has not committed.
Locked(r) ==
    \E i \in Slot : \/ Open(consoleNet, i, "invite") /\ r.id \in consoleNet[i].out.gone
                    \/ Open(consoleNet, i, "resend") /\ r.id = consoleNet[i].arg.id

ConsoleClick == console.clicks < MaxInviteClicks /\ UNCHANGED <<serverState, guestState>>
PressConsole(ui) == [ui EXCEPT !.clicks = @ + 1, !.calm = @ /\ Quiet(consoleNet)]

-----------------------------------------------------------------------------
(* The list of invitations *)

ServeInvites(i) ==
    /\ Sent(consoleNet, i, "list")
    /\ consoleNet' = Reply(consoleNet, i, invites)
    /\ UNCHANGED <<serverState, console, guestState>>

InvitesRead(i) ==
    /\ \/ Ok(consoleNet, i, "list") /\ console' = [console EXCEPT !.rows = consoleNet[i].out, !.loading = FALSE]
       \/ Err(consoleNet, i, "list") /\ console' = [console EXCEPT !.loading = FALSE, !.calm = FALSE]
    /\ consoleNet' = Done(consoleNet, i)
    /\ UNCHANGED <<serverState, guestState>>

-----------------------------------------------------------------------------
(* Inviting *)

\* The dialog can be closed and opened again while it sends.
OpenInvite ==
    /\ console.dialog = None /\ ConsoleClick
    /\ console' = [console EXCEPT !.clicks = @ + 1,
                                  !.dialog = [n |-> console.clicks, sending |-> FALSE, created |-> None]]
    /\ UNCHANGED consoleNet

CloseInvite ==
    /\ console.dialog # None
    /\ console' = [console EXCEPT !.dialog = None]
    /\ UNCHANGED <<serverState, consoleNet, guestState>>

SendInvite(e) ==
    /\ console.dialog # None /\ ~console.dialog.sending /\ console.dialog.created = None
    /\ ConsoleClick /\ Room(consoleNet, 1)
    /\ console' = [PressConsole(console) EXCEPT !.dialog.sending = TRUE]
    /\ consoleNet' = Send(consoleNet, "invite", [email |-> e, n |-> console.dialog.n])

\* Those that a new invitation to the address deletes.
InviteSupersedes(e) == {r.id : r \in {s \in invites : s.email = e /\ ~s.accepted}}

\* create_invite: the address must be free; its open invitations go, a row with
\* a new token comes; then the mail is sent.  A deletion waits for row locks.
BeginInvite(i) ==
    /\ Sent(consoleNet, i, "invite")
    /\ LET e == consoleNet[i].arg.email
       IN IF members[e] # <<>>
          THEN consoleNet' = Fail(consoleNet, i) /\ UNCHANGED minted
          ELSE /\ minted.ids < MaxInvites /\ minted.tokens < MaxTokens
               /\ \A r \in invites : r.id \in InviteSupersedes(e) => ~Locked(r)
               /\ minted' = [minted EXCEPT !.ids = @ + 1, !.tokens = @ + 1]
               /\ consoleNet' = Begin(consoleNet, i,
                      [gone |-> InviteSupersedes(e),
                       row |-> [id |-> minted.ids + 1, email |-> e, token |-> minted.tokens + 1,
                                accepted |-> FALSE, expired |-> FALSE]])
    /\ UNCHANGED <<invites, members, console, guestState>>

CommitInvite(i) ==
    /\ Open(consoleNet, i, "invite")
    /\ LET tx == consoleNet[i].out
       IN /\ invites' = {r \in invites : r.id \notin tx.gone} \cup {tx.row}
          /\ consoleNet' = Reply(consoleNet, i, tx.row)
    /\ UNCHANGED <<members, minted, console, guestState>>

\* The dialog shows the link, and the list is read again.
Invited(i) ==
    /\ LET mine == console.dialog # None /\ console.dialog.n = consoleNet[i].arg.n
       IN \/ /\ Ok(consoleNet, i, "invite")
             /\ console' = [console EXCEPT !.loading = TRUE,
                               !.dialog = IF mine THEN [@ EXCEPT !.sending = FALSE, !.created = consoleNet[i].out]
                                          ELSE @]
             /\ consoleNet' = Then(consoleNet, i, "list", None)
          \/ /\ Err(consoleNet, i, "invite")
             /\ console' = IF mine THEN [console EXCEPT !.dialog.sending = FALSE] ELSE console
             /\ consoleNet' = Done(consoleNet, i)
    /\ UNCHANGED <<serverState, guestState>>

-----------------------------------------------------------------------------
(* Resending and revoking *)

PressResend(r) ==
    /\ console.dialog = None /\ r \in console.rows /\ Status(r) # "accepted" /\ ~console.loading
    /\ r.id # console.resending /\ ConsoleClick /\ Room(consoleNet, 1)
    /\ console' = [PressConsole(console) EXCEPT !.resending = r.id]
    /\ consoleNet' = Send(consoleNet, "resend", [id |-> r.id])

\* load_invite, refresh_invite: a new token is written before the mail goes out.
BeginResend(i) ==
    /\ Sent(consoleNet, i, "resend")
    /\ LET known == {r \in invites : r.id = consoleNet[i].arg.id /\ ~r.accepted}
       IN IF known = {}
          THEN consoleNet' = Fail(consoleNet, i) /\ UNCHANGED minted
          ELSE /\ minted.tokens < MaxTokens /\ \A r \in known : ~Locked(r)
               /\ minted' = [minted EXCEPT !.tokens = @ + 1]
               /\ consoleNet' = Begin(consoleNet, i, minted.tokens + 1)
    /\ UNCHANGED <<invites, members, console, guestState>>

CommitResend(i) ==
    /\ Open(consoleNet, i, "resend")
    /\ LET id == consoleNet[i].arg.id
           fresh(r) == IF r.id = id THEN [r EXCEPT !.token = consoleNet[i].out, !.expired = FALSE] ELSE r
       IN /\ invites' = {fresh(r) : r \in invites}
          /\ consoleNet' = Reply(consoleNet, i, CHOOSE r \in invites' : r.id = id)
    /\ UNCHANGED <<members, minted, console, guestState>>

\* The row is replaced; finally frees the button, whichever row it is for.
Resent(i) ==
    /\ \/ /\ Ok(consoleNet, i, "resend")
          /\ console' = [console EXCEPT !.resending = None,
                             !.rows = {IF r.id = consoleNet[i].arg.id THEN consoleNet[i].out ELSE r : r \in @}]
       \/ /\ Err(consoleNet, i, "resend")
          /\ console' = [console EXCEPT !.resending = None]
    /\ consoleNet' = Done(consoleNet, i)
    /\ UNCHANGED <<serverState, guestState>>

PressRevoke(r) ==
    /\ console.dialog = None /\ r \in console.rows /\ Status(r) # "accepted" /\ ~console.loading
    /\ ConsoleClick /\ Room(consoleNet, 1)
    /\ console' = PressConsole(console)
    /\ consoleNet' = Send(consoleNet, "revoke", [id |-> r.id])

ServeRevoke(i) ==
    /\ Sent(consoleNet, i, "revoke")
    /\ LET known == {r \in invites : r.id = consoleNet[i].arg.id /\ ~r.accepted}
       IN /\ \A r \in known : ~Locked(r)
          /\ invites' = invites \ known
          /\ minted' = [minted EXCEPT !.revoked = @ \cup {r.id : r \in known}]
          /\ consoleNet' = IF known = {} THEN Fail(consoleNet, i) ELSE Reply(consoleNet, i, None)
    /\ UNCHANGED <<members, console, guestState>>

Revoked(i) ==
    /\ \/ /\ Ok(consoleNet, i, "revoke")
          /\ console' = [console EXCEPT !.rows = {r \in @ : r.id # consoleNet[i].arg.id}]
       \/ Err(consoleNet, i, "revoke") /\ UNCHANGED console
    /\ consoleNet' = Done(consoleNet, i)
    /\ UNCHANGED <<serverState, guestState>>

-----------------------------------------------------------------------------
(* The invitee *)

\* Opening a link from a mail: any token of a transaction that got as far as
\* the mail.  The page asks what the invitation is for.
Mailed == {r.token : r \in invites} \cup
          {consoleNet[i].out : i \in {j \in Slot : Open(consoleNet, j, "resend")}} \cup
          {consoleNet[i].out.row.token : i \in {j \in Slot : Open(consoleNet, j, "invite")}}

OpenLink(k) ==
    /\ guest.token = None /\ k \in Mailed /\ Room(guestNet, 1)
    /\ guest' = [guest EXCEPT !.token = k]
    /\ guestNet' = Send(guestNet, "preview", k)
    /\ UNCHANGED <<serverState, console, consoleNet>>

ServePreviewInvite(i) ==
    /\ Sent(guestNet, i, "preview")
    /\ LET r == {s \in invites : s.token = guestNet[i].arg}
       IN guestNet' = IF r = {} THEN Fail(guestNet, i)
                      ELSE Reply(guestNet, i, Status(CHOOSE s \in r : TRUE))
    /\ UNCHANGED <<serverState, console, consoleNet, guest>>

PreviewedInvite(i) ==
    /\ Ok(guestNet, i, "preview") \/ Err(guestNet, i, "preview")
    /\ guest' = [guest EXCEPT !.preview = IF Ok(guestNet, i, "preview") THEN guestNet[i].out ELSE "invalid"]
    /\ guestNet' = Done(guestNet, i)
    /\ UNCHANGED <<serverState, console, consoleNet>>

\* The form is there only for a pending invitation.
SubmitAccept ==
    /\ guest.preview = "pending" /\ ~guest.saving /\ ~guest.success /\ Room(guestNet, 1)
    /\ guest' = [guest EXCEPT !.saving = TRUE]
    /\ guestNet' = Send(guestNet, "accept", guest.token)
    /\ UNCHANGED <<serverState, console, consoleNet>>

\* accept_invite up to its commit: the row is loaded by token and must be
\* pending, the address free.
BeginAccept(i) ==
    /\ Sent(guestNet, i, "accept")
    /\ LET r == {s \in invites : s.token = guestNet[i].arg /\ Status(s) = "pending"
                                 /\ members[s.email] = <<>>}
       IN guestNet' = IF r = {} THEN Fail(guestNet, i) ELSE Begin(guestNet, i, CHOOSE s \in r : TRUE)
    /\ UNCHANGED <<serverState, console, consoleNet, guest>>

\* Mutant of CommitAccept: the row is not looked at again.
CommitAcceptBlindly(i) ==
    /\ Open(guestNet, i, "accept")
    /\ LET r == guestNet[i].out
       IN /\ invites' = {IF s.id = r.id THEN [s EXCEPT !.accepted = TRUE] ELSE s : s \in invites}
          /\ members' = [members EXCEPT ![r.email] = Append(@, r.id)]
          /\ guestNet' = Reply(guestNet, i, None)
    /\ UNCHANGED <<minted, console, consoleNet, guest>>

\* The flush and commit: users.email is unique, and an UPDATE of a row that has
\* been deleted meanwhile matches nothing and fails; one that is locked waits.
CommitAccept(i) ==
    /\ Open(guestNet, i, "accept")
    /\ LET r == guestNet[i].out
           there == {s \in invites : s.id = r.id}
       IN /\ \A s \in there : ~Locked(s)
          /\ IF there = {} \/ members[r.email] # <<>>
             THEN guestNet' = Fail(guestNet, i) /\ UNCHANGED <<invites, members>>
             ELSE /\ invites' = {IF s.id = r.id THEN [s EXCEPT !.accepted = TRUE] ELSE s : s \in invites}
                  /\ members' = [members EXCEPT ![r.email] = Append(@, r.id)]
                  /\ guestNet' = Reply(guestNet, i, None)
    /\ UNCHANGED <<minted, console, consoleNet, guest>>

Accepted(i) ==
    /\ Ok(guestNet, i, "accept") \/ Err(guestNet, i, "accept")
    /\ guest' = [guest EXCEPT !.saving = FALSE, !.success = Ok(guestNet, i, "accept")]
    /\ guestNet' = Done(guestNet, i)
    /\ UNCHANGED <<serverState, console, consoleNet>>

\* The page is left, and a link can be opened again.
LeaveGuestPage ==
    /\ guest.token # None /\ Quiet(guestNet)
    /\ guest' = [guest EXCEPT !.token = None, !.preview = None, !.success = FALSE]
    /\ UNCHANGED <<serverState, console, consoleNet, guestNet>>

-----------------------------------------------------------------------------

\* A week passes for an invitation.
Expire(r) ==
    /\ r \in invites /\ ~r.expired /\ ~Locked(r)
    /\ invites' = (invites \ {r}) \cup {[r EXCEPT !.expired = TRUE]}
    /\ console' = [console EXCEPT !.calm = FALSE]
    /\ UNCHANGED <<members, minted, consoleNet, guestState>>

\* CreateUserDialog: an account that no invitation led to (id 0).
CreateMember(e) ==
    /\ members[e] = <<>>
    /\ members' = [members EXCEPT ![e] = <<0>>]
    /\ UNCHANGED <<invites, minted, console, consoleNet, guestState>>

\* A transaction that cannot commit is rolled back, its mail notwithstanding;
\* a connection fails before the server acts, or after it has.
ConsoleCallFails(i) ==
    /\ i \in Pending(consoleNet) /\ consoleNet[i].st # "err"
    /\ consoleNet' = Fail(consoleNet, i)
    /\ console' = [console EXCEPT !.calm = @ /\ consoleNet[i].st # "ok"]
    /\ UNCHANGED <<serverState, guestState>>

InvitesNext ==
    \/ OpenInvite \/ CloseInvite \/ SubmitAccept \/ LeaveGuestPage
    \/ \E e \in Email : SendInvite(e) \/ CreateMember(e)
    \/ \E r \in console.rows : PressResend(r) \/ PressRevoke(r)
    \/ \E r \in invites : Expire(r)
    \/ \E k \in 1..MaxTokens : OpenLink(k)
    \/ \E i \in Slot :
          \/ ServeInvites(i) \/ InvitesRead(i) \/ BeginInvite(i) \/ CommitInvite(i) \/ Invited(i)
          \/ BeginResend(i) \/ CommitResend(i) \/ Resent(i) \/ ServeRevoke(i) \/ Revoked(i)
          \/ ServePreviewInvite(i) \/ PreviewedInvite(i)
          \/ BeginAccept(i) \/ CommitAccept(i) \/ Accepted(i) \/ ConsoleCallFails(i)

InvitesSpec == InvitesInit /\ [][InvitesNext]_inviteVars

-----------------------------------------------------------------------------
(* Correctness *)

\* An invitation "dies the moment it is accepted" (services/invites.py:3) or is
\* revoked: an address gets one account at most, whichever links, dialogs and
\* invitations lead to it, and none through an invitation revoked before.
OneAccount ==
    \A e \in Email : /\ Len(members[e]) <= 1
                     /\ \A j \in DOMAIN members[e] : members[e][j] \notin minted.revoked

\* The links an administrator can copy out of the table are those that work:
\* once nothing is in flight, a pending row shown is the server's, with the
\* token it has now; provided one thing was done at a time and no invitation
\* was accepted or ran out since the list was read.
ShownLinkWorks ==
    console.calm /\ Quiet(consoleNet) =>
        \A r \in console.rows : Status(r) = "pending" =>
            \E s \in invites : s.id = r.id /\ s.token = r.token

\* A spinner is waiting for a request of its own.
InviteSpinners ==
    /\ Quiet(consoleNet) => /\ console.resending = None /\ ~console.loading
                            /\ console.dialog # None => ~console.dialog.sending
    /\ Quiet(guestNet) => ~guest.saving

-----------------------------------------------------------------------------
(* The inductive invariant behind the OneAccount (see ConsoleProofs) *)

InviteRow == [id: Nat, email: Email, token: Nat, accepted: BOOLEAN, expired: BOOLEAN]

\* The ids the accounts were made from.
Joined == {members[e][1] : e \in {f \in Email : members[f] # <<>>}}

\* Nobody joined by a row that is still open, nor by one that was revoked, and
\* no row that was revoked is there.
JoinedInv ==
    /\ \A e \in Email : members[e] = <<>> \/ \E n \in 0..minted.ids : members[e] = <<n>>
    /\ \A n \in Joined : n \notin minted.revoked /\ \A s \in invites : s.id = n => s.accepted
    /\ \A s \in invites : /\ s.id <= minted.ids /\ s.id # 0 /\ s.id \notin minted.revoked
                          /\ \A t \in invites : s.id = t.id => s = t
    /\ minted.revoked \subseteq 1..minted.ids

\* The row of an invitation on its way, which nothing else knows yet.
NewInvite(i) ==
    LET row == consoleNet[i].out.row
    IN /\ row \in InviteRow /\ row.id <= minted.ids /\ row.id # 0
       /\ row.id \notin minted.revoked /\ row.id \notin Joined
       /\ \A s \in invites : s.id # row.id
       /\ \A j \in Slot : Open(consoleNet, j, "invite") /\ consoleNet[j].out.row.id = row.id => i = j

OneAccountInv ==
    /\ invites \subseteq InviteRow
    /\ minted = [ids |-> minted.ids, tokens |-> minted.tokens, revoked |-> minted.revoked]
    /\ minted.ids \in Nat /\ minted.tokens \in Nat
    /\ members = [e \in Email |-> members[e]]
    /\ JoinedInv
    /\ consoleNet = [i \in Slot |-> consoleNet[i]]
    /\ \A i \in Pending(consoleNet) :
          LET c == consoleNet[i]
          IN /\ c = [op |-> c.op, arg |-> c.arg, st |-> c.st, out |-> c.out]
             /\ c.op = "invite" => c.arg.email \in Email
             /\ Open(consoleNet, i, "invite") => NewInvite(i)
             /\ Open(consoleNet, i, "resend") => c.out \in Nat
===============================================================================
