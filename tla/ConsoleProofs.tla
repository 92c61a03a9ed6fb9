------------------------------ MODULE ConsoleProofs ------------------------------
(***************************************************************************)
(* What the administration pages promise, for any number of requests in    *)
(* flight, of clicks and of rows.  Each part takes one page, with the      *)
(* table of its requests read slot by slot (CallsProofs), and proves of    *)
(* the page's own specification what the last part carries over to the     *)
(* console.                                                                *)
(***************************************************************************)
EXTENDS AdminConsole, CallsProofs

-----------------------------------------------------------------------------
(***************************************************************************)
(* Invitations: nobody joins twice, and nobody by an invitation that was   *)
(* revoked.  The invariant is OneAccountInv of Invites.                    *)
(***************************************************************************)
\* A call of the users page that carries no invitation on its way.
Harmless(c) ==
    /\ IsCall(c)
    /\ c.op = "invite" => c.arg.email \in Email
    /\ ~(c.op = "invite" /\ c.st = "open")
    /\ c.op = "resend" /\ c.st = "open" => c.out \in Nat

ConsoleInv ==
    /\ consoleNet = [i \in Slot |-> consoleNet[i]]
    /\ \A i \in Pending(consoleNet) :
          LET c == consoleNet[i]
          IN /\ c = [op |-> c.op, arg |-> c.arg, st |-> c.st, out |-> c.out]
             /\ c.op = "invite" => c.arg.email \in Email
             /\ Open(consoleNet, i, "invite") => NewInvite(i)
             /\ Open(consoleNet, i, "resend") => c.out \in Nat

RowsInv ==
    /\ invites \subseteq InviteRow
    /\ minted = [ids |-> minted.ids, tokens |-> minted.tokens, revoked |-> minted.revoked]
    /\ minted.ids \in Nat /\ minted.tokens \in Nat
    /\ members = [e \in Email |-> members[e]]
    /\ JoinedInv

LEMMA InvParts == OneAccountInv <=> RowsInv /\ ConsoleInv
  BY DEF OneAccountInv, RowsInv, ConsoleInv

LEMMA InvPartsNext == OneAccountInv' <=> RowsInv' /\ ConsoleInv'
  BY DEF OneAccountInv, RowsInv, ConsoleInv

LEMMA ConsoleIsNet == ConsoleInv => IsNet(consoleNet)
  BY DEF ConsoleInv, IsNet, IsCall, Pending

LEMMA InvImplies == OneAccountInv => OneAccount
<1> SUFFICES ASSUME OneAccountInv, NEW e \in Email
             PROVE  /\ Len(members[e]) <= 1
                    /\ \A j \in DOMAIN members[e] : members[e][j] \notin minted.revoked
  BY DEF OneAccount
<1>1. CASE members[e] = <<>>
  BY <1>1
<1>2. CASE members[e] # <<>>
  <2>1. PICK n \in 0..minted.ids : members[e] = <<n>>
    BY <1>2 DEF OneAccountInv, JoinedInv
  <2>2. n \in Joined
    <3>1. members[e][1] = n
      BY <2>1
    <3> QED
      BY <1>2, <3>1 DEF Joined
  <2>3. n \notin minted.revoked
    BY <2>2 DEF OneAccountInv, JoinedInv
  <2> QED
    BY <2>1, <2>3
<1> QED
  BY <1>1, <1>2

LEMMA InvInit == InvitesInit => OneAccountInv
<1> SUFFICES ASSUME InvitesInit PROVE OneAccountInv
  OBVIOUS
<1>1. (CHOOSE e \in Email : TRUE) \in Email
  BY InvitesAssumption
<1>2. Joined = {}
  BY DEF InvitesInit, Joined
<1>3. RowsInv
  BY <1>1, <1>2 DEF InvitesInit, RowsInv, JoinedInv, InviteRow
<1>4. PICK k : consoleNet = Put(NoCalls, k, Call("list", None))
  BY NoCallsIsNet, Sending DEF InvitesInit
<1>5. ConsoleInv
  BY <1>4 DEF ConsoleInv, Put, NoCalls, Pending, Call, Open
<1> QED
  BY <1>3, <1>5, InvParts

\* A step that leaves the tables alone, or moves them so that an invitation on
\* its way is still unknown to them, and puts harmless calls into slots.
LEMMA CallsKept ==
    ASSUME OneAccountInv, minted.ids <= minted'.ids, minted'.ids \in Nat,
           NEW i, NEW c, consoleNet' = Put(consoleNet, i, c), c = Free \/ Harmless(c),
           \A j \in Slot \ {i} : Open(consoleNet, j, "invite") =>
              LET row == consoleNet[j].out.row
              IN row.id \notin minted'.revoked /\ row.id \notin Joined' /\ \A s \in invites' : s.id # row.id
    PROVE  ConsoleInv'
<1>1. \A j \in Slot : consoleNet'[j] = IF j = i THEN c ELSE consoleNet[j]
  BY DEF Put
<1>2. consoleNet' = [j \in Slot |-> consoleNet'[j]]
  BY DEF Put
<1>3. ASSUME NEW j \in Slot, j # i, Open(consoleNet, j, "invite") PROVE NewInvite(j)'
  <2>1. consoleNet[j] # Free /\ NewInvite(j) /\ consoleNet'[j] = consoleNet[j]
    BY <1>1, <1>3 DEF OneAccountInv, Open, Pending
  <2>2. consoleNet[j].out.row \in InviteRow /\ consoleNet[j].out.row.id \in Nat
    BY <2>1 DEF NewInvite, InviteRow
  <2>3. consoleNet[j].out.row.id <= minted'.ids
    BY <2>1, <2>2 DEF NewInvite, OneAccountInv
  <2>4. \A k \in Slot : Open(consoleNet, k, "invite")' => Open(consoleNet, k, "invite") /\ consoleNet'[k] = consoleNet[k]
    BY <1>1 DEF Open, Harmless
  <2> QED
    BY <1>3, <2>1, <2>2, <2>3, <2>4 DEF NewInvite
<1>4. ASSUME NEW j \in Slot, consoleNet'[j] # Free
      PROVE  LET d == consoleNet'[j]
             IN /\ d = [op |-> d.op, arg |-> d.arg, st |-> d.st, out |-> d.out]
                /\ d.op = "invite" => d.arg.email \in Email
                /\ Open(consoleNet, j, "invite")' => NewInvite(j)'
                /\ Open(consoleNet, j, "resend")' => d.out \in Nat
  <2>1. CASE j = i
    BY <1>1, <1>4, <2>1 DEF Harmless, IsCall, Open
  <2>2. CASE j # i
    BY <1>1, <1>3, <1>4, <2>2 DEF OneAccountInv, Open, Pending
  <2> QED
    BY <2>1, <2>2
<1> QED
  BY <1>2, <1>4 DEF ConsoleInv, Pending

\* A step of the pages: the tables stay as they are.
LEMMA InvitePageStep ==
    ASSUME OneAccountInv, UNCHANGED serverState,
           consoleNet' = consoleNet \/ \E i, c : consoleNet' = Put(consoleNet, i, c) /\ (c = Free \/ Harmless(c))
    PROVE  OneAccountInv'
<1>1. invites' = invites /\ members' = members /\ minted' = minted
  BY DEF serverState
<1>2. Joined' = Joined
  BY <1>1 DEF Joined
<1>3. RowsInv'
  BY <1>1, <1>2, InvParts DEF RowsInv, JoinedInv
<1>4. CASE consoleNet' = consoleNet
  <2>1. ConsoleInv'
    BY <1>1, <1>2, <1>4, InvParts DEF ConsoleInv, NewInvite, Open, Pending
  <2> QED
    BY <1>3, <2>1, InvPartsNext
<1>5. ASSUME NEW i, NEW c, consoleNet' = Put(consoleNet, i, c), c = Free \/ Harmless(c) PROVE OneAccountInv'
  <2>1. \A j \in Slot : Open(consoleNet, j, "invite") => NewInvite(j)
    BY DEF OneAccountInv, Open, Pending
  <2>2. minted.ids <= minted'.ids /\ minted'.ids \in Nat
    BY <1>1 DEF OneAccountInv
  <2>3. ConsoleInv'
    BY <1>1, <1>2, <1>5, <2>1, <2>2, CallsKept DEF NewInvite
  <2> QED
    BY <1>3, <2>3, InvPartsNext
<1> QED
  BY <1>4, <1>5

-----------------------------------------------------------------------------
(* What the operators of Calls put into a slot *)

LEMMA Answered ==
    ASSUME OneAccountInv, NEW i \in Slot, consoleNet[i] # Free
    PROVE  /\ \E c : Fail(consoleNet, i) = Put(consoleNet, i, c) /\ Harmless(c)
           /\ \A out : \E c : Reply(consoleNet, i, out) = Put(consoleNet, i, c) /\ Harmless(c)
           /\ Done(consoleNet, i) = Put(consoleNet, i, Free)
           /\ \E c : Then(consoleNet, i, "list", None) = Put(consoleNet, i, c) /\ Harmless(c)
<1>1. IsNet(consoleNet)
  BY ConsoleIsNet, InvParts
<1>2. consoleNet[i].op = "invite" => consoleNet[i].arg.email \in Email
  BY DEF OneAccountInv, Pending
<1> DEFINE d(st, out) == [op |-> consoleNet[i].op, arg |-> consoleNet[i].arg, st |-> st, out |-> out]
<1>3. \A out : Harmless(d("ok", out)) /\ Harmless(d("err", out))
  BY <1>2 DEF Harmless, IsCall
<1>4. Fail(consoleNet, i) = Put(consoleNet, i, d("err", consoleNet[i].out))
  BY <1>1, Answering
<1>5. \A out : Reply(consoleNet, i, out) = Put(consoleNet, i, d("ok", out))
  BY <1>1, Answering
<1>6. Harmless(Call("list", None))
  BY DEF Harmless, IsCall, Call
<1>7. Done(consoleNet, i) = Put(consoleNet, i, Free) /\ Then(consoleNet, i, "list", None) = Put(consoleNet, i, Call("list", None))
  BY <1>1, Ending
<1> HIDE DEF d
<1> QED
  BY <1>3, <1>4, <1>5, <1>6, <1>7

LEMMA InviteAsked ==
    ASSUME OneAccountInv
    PROVE  /\ \A e \in Email : \A n : \E i, c :
                 Send(consoleNet, "invite", [email |-> e, n |-> n]) = Put(consoleNet, i, c) /\ Harmless(c)
           /\ \A arg, op : op \in {"resend", "revoke"} =>
                 \E i, c : Send(consoleNet, op, arg) = Put(consoleNet, i, c) /\ Harmless(c)
<1>1. IsNet(consoleNet)
  BY ConsoleIsNet, InvParts
<1>2. ASSUME NEW e \in Email, NEW n PROVE Harmless(Call("invite", [email |-> e, n |-> n]))
  BY DEF Harmless, IsCall, Call
<1>3. ASSUME NEW arg, NEW op \in {"resend", "revoke"} PROVE Harmless(Call(op, arg))
  BY DEF Harmless, IsCall, Call
<1>4. \A op, arg : \E i : Send(consoleNet, op, arg) = Put(consoleNet, i, Call(op, arg))
  BY <1>1, Sending
<1> QED
  BY <1>2, <1>3, <1>4

-----------------------------------------------------------------------------
(* The steps of the server *)

\* An invitation that begins: its row has a new id.
LEMMA BeginInviteKeeps == ASSUME OneAccountInv, NEW i \in Slot, BeginInvite(i) PROVE OneAccountInv'
<1> DEFINE e == consoleNet[i].arg.email
           row == [id |-> minted.ids + 1, email |-> e, token |-> minted.tokens + 1,
                   accepted |-> FALSE, expired |-> FALSE]
           tx == [gone |-> InviteSupersedes(e), row |-> row]
           c == [op |-> consoleNet[i].op, arg |-> consoleNet[i].arg, st |-> "open", out |-> tx]
<1>1. /\ consoleNet[i] # Free /\ consoleNet[i].op = "invite"
      /\ invites' = invites /\ members' = members
  BY DEF BeginInvite, Sent
<1>2. CASE consoleNet' = Fail(consoleNet, i) /\ minted' = minted
  BY <1>1, <1>2, Answered, InvitePageStep DEF serverState
<1>3. CASE consoleNet' = Begin(consoleNet, i, tx) /\ minted' = [minted EXCEPT !.ids = @ + 1, !.tokens = @ + 1]
  <2>1. e \in Email
    BY <1>1 DEF OneAccountInv, Pending
  <2>2. minted' = [ids |-> minted.ids + 1, tokens |-> minted.tokens + 1, revoked |-> minted.revoked]
    <3>1. minted = [ids |-> minted.ids, tokens |-> minted.tokens, revoked |-> minted.revoked]
      BY DEF OneAccountInv
    <3> QED
      BY <1>3, <3>1
  <2>3. minted.ids \in Nat /\ minted.tokens \in Nat
    BY DEF OneAccountInv
  <2>4. Joined' = Joined
    BY <1>1 DEF Joined
  <2>5. minted.ids + 1 \notin Joined
    <3>1. ASSUME NEW f \in Email, members[f] # <<>> PROVE members[f][1] \in 0..minted.ids
      BY <3>1 DEF OneAccountInv, JoinedInv
    <3> QED
      BY <2>3, <3>1 DEF Joined
  <2>6. JoinedInv'
    <3>1. \A f \in Email : members'[f] = <<>> \/ \E n \in 0..minted'.ids : members'[f] = <<n>>
      BY <1>1, <2>2, <2>3 DEF OneAccountInv, JoinedInv
    <3>2. \A s \in invites : s.id \in Nat
      BY DEF OneAccountInv, InviteRow
    <3>3. minted'.revoked \subseteq 1..minted'.ids
      BY <2>2, <2>3 DEF OneAccountInv, JoinedInv
    <3> QED
      BY <1>1, <2>2, <2>3, <2>4, <3>1, <3>2, <3>3 DEF OneAccountInv, JoinedInv
  <2>7. RowsInv'
    BY <1>1, <2>2, <2>3, <2>6 DEF OneAccountInv, RowsInv
  <2>8. IsNet(consoleNet)
    BY ConsoleIsNet, InvParts
  <2>9. consoleNet' = Put(consoleNet, i, c)
    BY <1>1, <1>3, <2>8, Answering
  <2>10. \A s \in invites : s.id \in Nat /\ s.id <= minted.ids
    BY DEF OneAccountInv, InviteRow, JoinedInv
  <2>11. minted.ids + 1 \notin minted.revoked
    BY <2>3 DEF OneAccountInv, JoinedInv
  <2>12. \A j \in Slot \ {i} : consoleNet'[j] = consoleNet[j]
    BY <2>9 DEF Put
  <2>13. consoleNet'[i] = c
    BY <2>9 DEF Put
  <2>14. \A j \in Slot \ {i} : Open(consoleNet, j, "invite")' =>
            /\ Open(consoleNet, j, "invite") /\ NewInvite(j)
            /\ consoleNet[j].out.row.id \in Nat /\ consoleNet[j].out.row.id <= minted.ids
    BY <2>12 DEF Open, OneAccountInv, Pending, NewInvite, InviteRow
  <2>15. row \in InviteRow /\ row.id = minted.ids + 1
    BY <2>1, <2>3 DEF InviteRow
  <2>16. NewInvite(i)'
    <3> HIDE DEF row
    <3>1. consoleNet'[i].out.row = row
      BY <2>13
    <3>2. \A j \in Slot : Open(consoleNet, j, "invite")' /\ consoleNet'[j].out.row.id = row.id => i = j
      BY <2>3, <2>12, <2>14, <2>15
    <3>3. row.id <= minted'.ids /\ row.id # 0 /\ row.id \notin minted'.revoked /\ row.id \notin Joined'
      BY <2>2, <2>3, <2>4, <2>5, <2>11, <2>15
    <3>4. \A s \in invites' : s.id # row.id
      BY <1>1, <2>3, <2>10, <2>15
    <3> QED
      BY <2>15, <3>1, <3>2, <3>3, <3>4 DEF NewInvite
  <2>17. ASSUME NEW j \in Slot \ {i}, Open(consoleNet, j, "invite")' PROVE NewInvite(j)'
    <3>1. \A k \in Slot : Open(consoleNet, k, "invite")' /\ consoleNet'[k].out.row.id = consoleNet[j].out.row.id => j = k
      <4> HIDE DEF row
      <4>1. ASSUME NEW k \in Slot, k # i, Open(consoleNet, k, "invite")',
                   consoleNet'[k].out.row.id = consoleNet[j].out.row.id
            PROVE  j = k
        BY <2>12, <2>14, <2>17, <4>1 DEF NewInvite
      <4>2. consoleNet'[i].out.row.id # consoleNet[j].out.row.id
        BY <2>3, <2>13, <2>14, <2>15, <2>17
      <4> QED
        BY <4>1, <4>2
    <3> QED
      BY <1>1, <2>2, <2>3, <2>4, <2>12, <2>14, <2>17, <3>1 DEF NewInvite
  <2>18. ConsoleInv'
    <3>1. consoleNet' = [j \in Slot |-> consoleNet'[j]]
      BY <2>9 DEF Put
    <3>2. ASSUME NEW j \in Slot, consoleNet'[j] # Free
          PROVE  LET d == consoleNet'[j]
                 IN /\ d = [op |-> d.op, arg |-> d.arg, st |-> d.st, out |-> d.out]
                    /\ d.op = "invite" => d.arg.email \in Email
                    /\ Open(consoleNet, j, "invite")' => NewInvite(j)'
                    /\ Open(consoleNet, j, "resend")' => d.out \in Nat
      <4>1. CASE j = i
        BY <1>1, <2>1, <2>13, <2>16, <4>1 DEF Open
      <4>2. CASE j # i
        BY <2>12, <2>17, <3>2, <4>2 DEF OneAccountInv, Open, Pending
      <4> QED
        BY <4>1, <4>2
    <3> QED
      BY <3>1, <3>2 DEF ConsoleInv, Pending
  <2> QED
    BY <2>7, <2>18, InvPartsNext
<1> QED
  BY <1>2, <1>3 DEF BeginInvite
\* A step that answers the call in slot i, moves the rows and leaves the
\* accounts and the counters alone.
LEMMA AnsweringStep ==
    ASSUME OneAccountInv, NEW i, NEW c, consoleNet' = Put(consoleNet, i, c), c = Free \/ Harmless(c),
           RowsInv', minted'.ids = minted.ids,
           \A j \in Slot \ {i} : Open(consoleNet, j, "invite") =>
              LET row == consoleNet[j].out.row
              IN row.id \notin minted'.revoked /\ row.id \notin Joined' /\ \A s \in invites' : s.id # row.id
    PROVE  OneAccountInv'
<1>1. minted.ids <= minted'.ids /\ minted'.ids \in Nat
  BY DEF OneAccountInv
<1>2. ConsoleInv'
  BY <1>1, CallsKept
<1> QED
  BY <1>2, InvPartsNext

\* Another invitation on its way is not the one in slot i, and nobody knows it.
LEMMA OthersNew ==
    ASSUME OneAccountInv, NEW j \in Slot, Open(consoleNet, j, "invite")
    PROVE  NewInvite(j)
  BY DEF OneAccountInv, Open, Pending

LEMMA CommitInviteKeeps == ASSUME OneAccountInv, NEW i \in Slot, CommitInvite(i) PROVE OneAccountInv'
<1> DEFINE row == consoleNet[i].out.row
<1>1. /\ members' = members /\ minted' = minted /\ NewInvite(i) /\ consoleNet[i] # Free
      /\ Open(consoleNet, i, "invite")
  BY OthersNew DEF CommitInvite, Open
<1>2. \A s \in invites' : s \in invites \/ s = row
  BY DEF CommitInvite
<1>3. Joined' = Joined
  BY <1>1 DEF Joined
<1>4. /\ row \in InviteRow /\ row.id <= minted.ids /\ row.id # 0
      /\ row.id \notin minted.revoked /\ row.id \notin Joined
      /\ \A s \in invites : s.id # row.id
  BY <1>1 DEF NewInvite
<1> HIDE DEF row
<1>5. JoinedInv'
  <2>1. \A n \in Joined' : n \notin minted'.revoked /\ \A s \in invites' : s.id = n => s.accepted
    BY <1>1, <1>2, <1>3, <1>4 DEF OneAccountInv, JoinedInv
  <2>2. \A s \in invites' : /\ s.id <= minted'.ids /\ s.id # 0 /\ s.id \notin minted'.revoked
                             /\ \A t \in invites' : s.id = t.id => s = t
    BY <1>1, <1>2, <1>4 DEF OneAccountInv, JoinedInv
  <2> QED
    BY <1>1, <2>1, <2>2 DEF OneAccountInv, JoinedInv
<1>6. RowsInv'
  BY <1>1, <1>2, <1>4, <1>5 DEF OneAccountInv, RowsInv
<1>7. PICK c : consoleNet' = Put(consoleNet, i, c) /\ Harmless(c)
  BY <1>1, Answered DEF CommitInvite
<1>8. ASSUME NEW j \in Slot \ {i}, Open(consoleNet, j, "invite")
      PROVE  /\ consoleNet[j].out.row.id \notin minted'.revoked /\ consoleNet[j].out.row.id \notin Joined'
             /\ \A s \in invites' : s.id # consoleNet[j].out.row.id
  <2>1. NewInvite(j)
    BY <1>8, OthersNew
  <2>2. row.id # consoleNet[j].out.row.id
    BY <1>1, <1>8, <2>1 DEF NewInvite, row
  <2> QED
    BY <1>1, <1>2, <1>3, <2>1, <2>2 DEF NewInvite
<1> QED
  BY <1>1, <1>6, <1>7, <1>8, AnsweringStep

LEMMA BeginResendKeeps == ASSUME OneAccountInv, NEW i \in Slot, BeginResend(i) PROVE OneAccountInv'
<1>1. /\ consoleNet[i] # Free /\ consoleNet[i].op = "resend"
      /\ invites' = invites /\ members' = members
  BY DEF BeginResend, Sent
<1>2. CASE consoleNet' = Fail(consoleNet, i) /\ minted' = minted
  BY <1>1, <1>2, Answered, InvitePageStep DEF serverState
<1>3. CASE consoleNet' = Begin(consoleNet, i, minted.tokens + 1) /\ minted' = [minted EXCEPT !.tokens = @ + 1]
  <2> DEFINE c == [op |-> consoleNet[i].op, arg |-> consoleNet[i].arg, st |-> "open", out |-> minted.tokens + 1]
  <2>1. minted = [ids |-> minted.ids, tokens |-> minted.tokens, revoked |-> minted.revoked]
    BY DEF OneAccountInv
  <2>2. minted' = [ids |-> minted.ids, tokens |-> minted.tokens + 1, revoked |-> minted.revoked]
    BY <1>3, <2>1
  <2>3. Joined' = Joined
    BY <1>1 DEF Joined
  <2>4. JoinedInv'
    BY <1>1, <2>2, <2>3 DEF OneAccountInv, JoinedInv
  <2>5. RowsInv'
    BY <1>1, <2>2, <2>4 DEF OneAccountInv, RowsInv
  <2>6. IsNet(consoleNet)
    BY ConsoleIsNet, InvParts
  <2>7. consoleNet' = Put(consoleNet, i, c)
    BY <1>1, <1>3, <2>6, Answering
  <2>8. Harmless(c)
    BY <1>1 DEF Harmless, IsCall, OneAccountInv
  <2> HIDE DEF c
  <2>9. \A j \in Slot \ {i} : Open(consoleNet, j, "invite") =>
           LET row == consoleNet[j].out.row
           IN row.id \notin minted'.revoked /\ row.id \notin Joined' /\ \A s \in invites' : s.id # row.id
    BY <1>1, <2>2, <2>3, OthersNew DEF NewInvite
  <2> QED
    BY <2>2, <2>5, <2>7, <2>8, <2>9, AnsweringStep
<1> QED
  BY <1>2, <1>3 DEF BeginResend

\* The rows after an edit that keeps ids and addresses, and opens no row that
\* was accepted.
LEMMA RowsEdited ==
    ASSUME OneAccountInv, members' = members, minted' = minted, invites' \subseteq InviteRow,
           \A s \in invites' : \E r \in invites : s.id = r.id /\ (r.accepted => s.accepted),
           \A s, t \in invites' : s.id = t.id => s = t
    PROVE  /\ RowsInv' /\ Joined' = Joined
           /\ \A j \in Slot : Open(consoleNet, j, "invite") =>
                LET row == consoleNet[j].out.row
                IN row.id \notin minted'.revoked /\ row.id \notin Joined' /\ \A s \in invites' : s.id # row.id
<1>1. Joined' = Joined
  BY DEF Joined
<1>2. JoinedInv'
  <2>1. \A n \in Joined' : n \notin minted'.revoked /\ \A s \in invites' : s.id = n => s.accepted
    BY <1>1 DEF OneAccountInv, JoinedInv
  <2>2. \A s \in invites' : s.id <= minted'.ids /\ s.id # 0 /\ s.id \notin minted'.revoked
    BY DEF OneAccountInv, JoinedInv
  <2> QED
    BY <2>1, <2>2 DEF OneAccountInv, JoinedInv
<1>3. RowsInv'
  BY <1>2 DEF OneAccountInv, RowsInv
<1> QED
  BY <1>1, <1>3, OthersNew DEF NewInvite

LEMMA CommitResendKeeps == ASSUME OneAccountInv, NEW i \in Slot, CommitResend(i) PROVE OneAccountInv'
<1> DEFINE fresh(r) == IF r.id = consoleNet[i].arg.id
                       THEN [r EXCEPT !.token = consoleNet[i].out, !.expired = FALSE] ELSE r
<1>1. /\ members' = members /\ minted' = minted /\ consoleNet[i] # Free /\ consoleNet[i].out \in Nat
      /\ invites' = {fresh(r) : r \in invites}
  BY DEF CommitResend, Open, OneAccountInv, Pending
<1>2. \A r \in invites : fresh(r) \in InviteRow /\ fresh(r).id = r.id /\ (r.accepted => fresh(r).accepted)
  BY <1>1 DEF InviteRow, OneAccountInv
<1>3. \A r, q \in invites : r.id = q.id => r = q
  BY DEF OneAccountInv, JoinedInv
<1> HIDE DEF fresh
<1>4. /\ invites' \subseteq InviteRow
      /\ \A s \in invites' : \E r \in invites : s.id = r.id /\ (r.accepted => s.accepted)
      /\ \A s, t \in invites' : s.id = t.id => s = t
  BY <1>1, <1>2, <1>3
<1>5. PICK c : consoleNet' = Put(consoleNet, i, c) /\ Harmless(c)
  BY <1>1, Answered DEF CommitResend
<1> QED
  BY <1>1, <1>4, <1>5, RowsEdited, AnsweringStep

\* A row that is revoked was not joined by: the row of a member is accepted.
LEMMA RevokeKeeps == ASSUME OneAccountInv, NEW i \in Slot, ServeRevoke(i) PROVE OneAccountInv'
<1> DEFINE known == {r \in invites : r.id = consoleNet[i].arg.id /\ ~r.accepted}
           ids == {r.id : r \in known}
<1>1. /\ members' = members /\ consoleNet[i] # Free /\ invites' = invites \ known
      /\ minted' = [minted EXCEPT !.revoked = @ \cup ids]
  BY DEF ServeRevoke, Sent
<1>2. minted' = [ids |-> minted.ids, tokens |-> minted.tokens, revoked |-> minted.revoked \cup ids]
  <2>1. minted = [ids |-> minted.ids, tokens |-> minted.tokens, revoked |-> minted.revoked]
    BY DEF OneAccountInv
  <2> QED
    BY <1>1, <2>1
<1>3. \A n \in ids : \E r \in invites : r.id = n /\ ~r.accepted /\ r \in known
  OBVIOUS
<1>4. \A r \in invites : r.id \in Nat
  BY DEF OneAccountInv, InviteRow
<1>5. Joined' = Joined
  BY <1>1 DEF Joined
<1> HIDE DEF known, ids
<1>6. JoinedInv'
  <2>1. \A n \in Joined' : n \notin minted'.revoked /\ \A s \in invites' : s.id = n => s.accepted
    BY <1>1, <1>2, <1>3, <1>5 DEF OneAccountInv, JoinedInv
  <2>2. \A s \in invites' : /\ s.id <= minted'.ids /\ s.id # 0 /\ s.id \notin minted'.revoked
                             /\ \A t \in invites' : s.id = t.id => s = t
    BY <1>1, <1>2, <1>3 DEF OneAccountInv, JoinedInv
  <2>3. minted'.revoked \subseteq 1..minted'.ids
    <3>1. ids \subseteq 1..minted.ids
      BY <1>3, <1>4 DEF OneAccountInv, JoinedInv
    <3> QED
      BY <1>2, <3>1 DEF OneAccountInv, JoinedInv
  <2> QED
    BY <1>1, <1>2, <2>1, <2>2, <2>3 DEF OneAccountInv, JoinedInv
<1>7. RowsInv'
  BY <1>1, <1>2, <1>6 DEF OneAccountInv, RowsInv
<1>8. PICK c : consoleNet' = Put(consoleNet, i, c) /\ Harmless(c)
  BY <1>1, Answered DEF ServeRevoke
<1>9. ASSUME NEW j \in Slot, Open(consoleNet, j, "invite")
      PROVE  LET row == consoleNet[j].out.row
             IN row.id \notin minted'.revoked /\ row.id \notin Joined' /\ \A s \in invites' : s.id # row.id
  BY <1>1, <1>2, <1>3, <1>5, <1>9, OthersNew DEF NewInvite
<1> QED
  BY <1>2, <1>7, <1>8, <1>9, AnsweringStep

\* A step of the tables that sends and answers nothing at the console.
LEMMA TablesStep ==
    ASSUME OneAccountInv, consoleNet' = consoleNet, minted' = minted, RowsInv',
           \A j \in Slot : Open(consoleNet, j, "invite") =>
              LET row == consoleNet[j].out.row
              IN row.id \notin Joined' /\ \A s \in invites' : s.id # row.id
    PROVE  OneAccountInv'
<1>1. \A j \in Slot : Open(consoleNet, j, "invite")' => NewInvite(j)'
  BY OthersNew DEF NewInvite, Open
<1>2. ConsoleInv'
  BY <1>1 DEF ConsoleInv, OneAccountInv, Pending, Open
<1> QED
  BY <1>2, InvPartsNext

\* An account made from row n of address f: the address had none.
LEMMA Joining ==
    ASSUME OneAccountInv, NEW f \in Email, members[f] = <<>>, NEW n, members' = [members EXCEPT ![f] = <<n>>]
    PROVE  /\ \A m \in Joined' : m \in Joined \/ m = n
           /\ \A e \in Email : e # f => members'[e] = members[e]
           /\ members'[f] = <<n>>
           /\ members' = [e \in Email |-> members'[e]]
<1>1. /\ \A e \in Email : members'[e] = IF e = f THEN <<n>> ELSE members[e]
      /\ members' = [e \in Email |-> members'[e]]
  BY DEF OneAccountInv
<1>2. <<n>>[1] = n
  OBVIOUS
<1> QED
  BY <1>1, <1>2 DEF Joined

\* The row is looked at again at the commit, and is there, and was not revoked.
LEMMA CommitAcceptKeeps == ASSUME OneAccountInv, NEW i \in Slot, CommitAccept(i) PROVE OneAccountInv'
<1> DEFINE r == guestNet[i].out
           there == {s \in invites : s.id = r.id}
           edit(s) == IF s.id = r.id THEN [s EXCEPT !.accepted = TRUE] ELSE s
<1>1. minted' = minted /\ consoleNet' = consoleNet
  BY DEF CommitAccept
<1>2. CASE UNCHANGED <<invites, members>>
  BY <1>1, <1>2, InvitePageStep DEF serverState
<1>3. CASE /\ there # {} /\ members[r.email] = <<>>
           /\ invites' = {edit(s) : s \in invites}
           /\ members' = [members EXCEPT ![r.email] = Append(@, r.id)]
  <2>1. PICK t \in invites : t.id = r.id
    BY <1>3
  <2>2. t.id \in Nat /\ t.id <= minted.ids /\ t.id # 0 /\ t.id \notin minted.revoked
    BY DEF OneAccountInv, InviteRow, JoinedInv
  <2>3. \A s \in invites : edit(s) \in InviteRow /\ edit(s).id = s.id /\ (s.accepted => edit(s).accepted)
    BY DEF InviteRow, OneAccountInv
  <2>4. \A s \in invites : s.id = r.id => edit(s).accepted
    BY DEF InviteRow, OneAccountInv
  <2> HIDE DEF edit
  <2>5. \A s \in invites' : s \in InviteRow /\ \E q \in invites : s = edit(q) /\ s.id = q.id /\ (q.accepted => s.accepted)
    BY <1>3, <2>3
  <2>6. /\ \A m \in Joined' : m \in Joined \/ m = r.id
        /\ \A e \in Email : members'[e] = members[e] \/ members'[e] = <<r.id>>
        /\ members' = [e \in Email |-> members'[e]]
    <3>1. CASE r.email \in Email
      <4>1. Append(members[r.email], r.id) = <<r.id>>
        BY <1>3
      <4>2. members' = [members EXCEPT ![r.email] = <<r.id>>]
        BY <1>3, <4>1
      <4> QED
        BY <1>3, <3>1, <4>2, Joining
    <3>2. CASE r.email \notin Email
      <4>1. members' = members
        BY <1>3, <3>2 DEF OneAccountInv
      <4> QED
        BY <4>1 DEF Joined, OneAccountInv
    <3> QED
      BY <3>1, <3>2
  <2>7. JoinedInv'
    <3>1. \A e \in Email : members'[e] = <<>> \/ \E n \in 0..minted'.ids : members'[e] = <<n>>
      BY <1>1, <2>1, <2>2, <2>6 DEF OneAccountInv, JoinedInv
    <3>2. \A n \in Joined' : n \notin minted'.revoked /\ \A s \in invites' : s.id = n => s.accepted
      BY <1>1, <2>1, <2>2, <2>4, <2>5, <2>6 DEF OneAccountInv, JoinedInv
    <3>3. \A s \in invites' : s.id <= minted'.ids /\ s.id # 0 /\ s.id \notin minted'.revoked
      BY <1>1, <2>5 DEF OneAccountInv, JoinedInv
    <3>4. \A s, q \in invites' : s.id = q.id => s = q
      BY <2>5 DEF OneAccountInv, JoinedInv
    <3> QED
      BY <1>1, <3>1, <3>2, <3>3, <3>4 DEF OneAccountInv, JoinedInv
  <2>8. RowsInv'
    BY <1>1, <2>5, <2>6, <2>7 DEF OneAccountInv, RowsInv
  <2>9. ASSUME NEW j \in Slot, Open(consoleNet, j, "invite")
        PROVE  /\ consoleNet[j].out.row.id \notin Joined'
               /\ \A s \in invites' : s.id # consoleNet[j].out.row.id
    BY <2>1, <2>5, <2>6, <2>9, OthersNew DEF NewInvite
  <2> QED
    BY <1>1, <2>8, <2>9, TablesStep
<1> QED
  BY <1>2, <1>3 DEF CommitAccept

LEMMA ExpireKeeps == ASSUME OneAccountInv, NEW r \in invites, Expire(r) PROVE OneAccountInv'
<1>1. /\ members' = members /\ minted' = minted /\ consoleNet' = consoleNet
      /\ invites' = (invites \ {r}) \cup {[r EXCEPT !.expired = TRUE]}
  BY DEF Expire
<1> DEFINE q == [r EXCEPT !.expired = TRUE]
<1>2. q \in InviteRow /\ q.id = r.id /\ q.accepted = r.accepted
  BY DEF OneAccountInv, InviteRow
<1> HIDE DEF q
<1>3. /\ invites' \subseteq InviteRow
      /\ \A s \in invites' : \E t \in invites : s.id = t.id /\ (t.accepted => s.accepted)
  BY <1>1, <1>2 DEF OneAccountInv, q
<1>4. \A s, t \in invites' : s.id = t.id => s = t
  <2>1. \A s, t \in invites : s.id = t.id => s = t
    BY DEF OneAccountInv, JoinedInv
  <2>2. invites' = (invites \ {r}) \cup {q}
    BY <1>1 DEF q
  <2> QED
    BY <1>2, <2>1, <2>2
<1> QED
  BY <1>1, <1>3, <1>4, RowsEdited, TablesStep

LEMMA CreateMemberKeeps == ASSUME OneAccountInv, NEW f \in Email, CreateMember(f) PROVE OneAccountInv'
<1>1. invites' = invites /\ minted' = minted /\ consoleNet' = consoleNet
  BY DEF CreateMember
<1>2. /\ \A m \in Joined' : m \in Joined \/ m = 0
      /\ \A e \in Email : members'[e] = members[e] \/ members'[e] = <<0>>
      /\ members' = [e \in Email |-> members'[e]]
  BY Joining DEF CreateMember
<1>3. JoinedInv'
  <2>1. \A e \in Email : members'[e] = <<>> \/ \E n \in 0..minted'.ids : members'[e] = <<n>>
    BY <1>1, <1>2 DEF OneAccountInv, JoinedInv
  <2>2. \A n \in Joined' : n \notin minted'.revoked /\ \A s \in invites' : s.id = n => s.accepted
    BY <1>1, <1>2 DEF OneAccountInv, JoinedInv
  <2> QED
    BY <1>1, <2>1, <2>2 DEF OneAccountInv, JoinedInv
<1>4. RowsInv'
  BY <1>1, <1>2, <1>3 DEF OneAccountInv, RowsInv
<1>5. ASSUME NEW j \in Slot, Open(consoleNet, j, "invite")
      PROVE  /\ consoleNet[j].out.row.id \notin Joined'
             /\ \A s \in invites' : s.id # consoleNet[j].out.row.id
  BY <1>1, <1>2, <1>5, OthersNew DEF NewInvite
<1> QED
  BY <1>1, <1>4, <1>5, TablesStep

-----------------------------------------------------------------------------
(* The steps of the pages *)

\* The console sends, reads an answer or loses a call; the invitee's page does
\* whatever it does short of accepting.
LEMMA PagesKeep ==
    ASSUME OneAccountInv, UNCHANGED serverState,
           \/ UNCHANGED consoleNet
           \/ \E e \in Email : SendInvite(e)
           \/ \E r \in console.rows : PressResend(r) \/ PressRevoke(r)
           \/ \E i \in Slot : \/ ServeInvites(i) \/ InvitesRead(i) \/ Invited(i) \/ Resent(i)
                             \/ Revoked(i) \/ ConsoleCallFails(i)
    PROVE  OneAccountInv'
<1>1. CASE UNCHANGED consoleNet
  BY <1>1, InvitePageStep
<1>2. ASSUME NEW e \in Email, SendInvite(e) PROVE OneAccountInv'
  BY <1>2, InviteAsked, InvitePageStep DEF SendInvite
<1>3. ASSUME NEW r \in console.rows, PressResend(r) \/ PressRevoke(r) PROVE OneAccountInv'
  BY <1>3, InviteAsked, InvitePageStep DEF PressResend, PressRevoke
<1>4. ASSUME NEW i \in Slot,
             \/ ServeInvites(i) \/ InvitesRead(i) \/ Invited(i) \/ Resent(i) \/ Revoked(i) \/ ConsoleCallFails(i)
      PROVE  OneAccountInv'
  <2>1. consoleNet[i] # Free
    BY <1>4 DEF ServeInvites, InvitesRead, Invited, Resent, Revoked, ConsoleCallFails, Sent, Ok, Err, Pending
  <2>2. \/ \E out : consoleNet' = Reply(consoleNet, i, out)
        \/ consoleNet' = Fail(consoleNet, i)
        \/ consoleNet' = Done(consoleNet, i)
        \/ consoleNet' = Then(consoleNet, i, "list", None)
    BY <1>4 DEF ServeInvites, InvitesRead, Invited, Resent, Revoked, ConsoleCallFails
  <2>3. \E c : consoleNet' = Put(consoleNet, i, c) /\ (c = Free \/ Harmless(c))
    BY <2>1, <2>2, Answered
  <2> QED
    BY <2>3, InvitePageStep
<1> QED
  BY <1>1, <1>2, <1>3, <1>4

-----------------------------------------------------------------------------

LEMMA InvNext == OneAccountInv /\ [InvitesNext]_inviteVars => OneAccountInv'
<1> SUFFICES ASSUME OneAccountInv, [InvitesNext]_inviteVars PROVE OneAccountInv'
  OBVIOUS
<1>1. CASE UNCHANGED inviteVars
  BY <1>1, PagesKeep DEF inviteVars, serverState
<1>2. CASE OpenInvite \/ CloseInvite \/ SubmitAccept \/ LeaveGuestPage \/ \E k \in 1..MaxTokens : OpenLink(k)
  BY <1>2, PagesKeep DEF OpenInvite, CloseInvite, SubmitAccept, LeaveGuestPage, OpenLink, ConsoleClick, serverState
<1>3. CASE \E e \in Email : SendInvite(e)
  BY <1>3, PagesKeep DEF SendInvite, ConsoleClick, serverState
<1>4. CASE \E e \in Email : CreateMember(e)
  BY <1>4, CreateMemberKeeps
<1>5. CASE \E r \in console.rows : PressResend(r) \/ PressRevoke(r)
  BY <1>5, PagesKeep DEF PressResend, PressRevoke, ConsoleClick, serverState
<1>6. CASE \E r \in invites : Expire(r)
  BY <1>6, ExpireKeeps
<1>7. ASSUME NEW i \in Slot,
             \/ ServeInvites(i) \/ InvitesRead(i) \/ Invited(i) \/ Resent(i) \/ Revoked(i) \/ ConsoleCallFails(i)
      PROVE  OneAccountInv'
  <2>1. UNCHANGED serverState
    BY <1>7 DEF ServeInvites, InvitesRead, Invited, Resent, Revoked, ConsoleCallFails, serverState
  <2> QED
    BY <1>7, <2>1, PagesKeep
<1>8. ASSUME NEW i \in Slot, ServePreviewInvite(i) \/ PreviewedInvite(i) \/ BeginAccept(i) \/ Accepted(i)
      PROVE  OneAccountInv'
  BY <1>8, PagesKeep DEF ServePreviewInvite, PreviewedInvite, BeginAccept, Accepted, serverState
<1>9. ASSUME NEW i \in Slot,
             \/ BeginInvite(i) \/ CommitInvite(i) \/ BeginResend(i) \/ CommitResend(i) \/ ServeRevoke(i)
             \/ CommitAccept(i)
      PROVE  OneAccountInv'
  BY <1>9, BeginInviteKeeps, CommitInviteKeeps, BeginResendKeeps, CommitResendKeeps, RevokeKeeps,
     CommitAcceptKeeps
<1> QED
  BY <1>1, <1>2, <1>3, <1>4, <1>5, <1>6, <1>7, <1>8, <1>9 DEF InvitesNext

\* Whatever links, dialogs, invitations and requests lead to it, an address gets
\* one account at most, and none through an invitation that was revoked before
\* (services/invites.py, accept_invite and delete_invite).
THEOREM OneAccountPerAddress == InvitesSpec => []OneAccount
<1>1. InvitesInit => OneAccountInv
  BY InvInit
<1>2. OneAccountInv /\ [InvitesNext]_inviteVars => OneAccountInv'
  BY InvNext
<1>3. OneAccountInv => OneAccount
  BY InvImplies
<1> QED
  BY <1>1, <1>2, <1>3, PTL DEF InvitesSpec

-----------------------------------------------------------------------------
(***************************************************************************)
(* The change history page: no action is left half taken back.  The        *)
(* invariant is ChangesInv of ChangesPage.  A revert of one entry is sent  *)
(* for a record that says its action wrote nothing else; the record may be *)
(* old by then, but the entries an action wrote never change: a revert     *)
(* adds entries that are about another one.                                *)
(***************************************************************************)
IsChange(c) ==
    /\ {"id", "corr", "of", "reverted"} \subseteq DOMAIN c
    /\ c.id \in Nat /\ c.reverted \in BOOLEAN

IsChangePage(ui) == "records" \in DOMAIN ui

ChangeShape ==
    /\ IsNet(changeNet) /\ IsChangePage(changePage)
    /\ \A c \in changes : IsChange(c)

\* What a call of the page carries: the records read, or the entry to take back.
GoodChangeCall(c) ==
    /\ c.op \in Feeds /\ c.st = "ok" => RecordsOk(c.out)
    /\ c.op = "revert" => c.arg.group \/ OnlyEntry(c.arg.change)

\* The ledger's part of ChangesInv.
GoodLedger ==
    /\ IsFiniteSet(changes) /\ NoHalfRevert
    /\ \A c \in changes : \E d \in changes : d.of = None /\ d.corr = c.corr
    /\ \A c, d \in changes : c.of = None /\ d.of = None /\ c.id = d.id => c.corr = d.corr

LEMMA ChangesInvParts ==
    ASSUME ChangeShape
    PROVE  ChangesInv <=> /\ GoodLedger /\ RecordsOk(changePage.records)
                          /\ \A i \in Slot : changeNet[i] # Free => GoodChangeCall(changeNet[i])
  BY DEF ChangesInv, GoodLedger, GoodChangeCall, Pending, Ok

LEMMA ChangesInvPartsNext ==
    ASSUME ChangeShape'
    PROVE  ChangesInv' <=> /\ GoodLedger' /\ RecordsOk(changePage.records)'
                           /\ \A i \in Slot : changeNet'[i] # Free => GoodChangeCall(changeNet[i])'
  BY DEF ChangesInv, GoodLedger, GoodChangeCall, Pending, Ok

LEMMA ChangesInitInv == ChangesInit => ChangeShape /\ ChangesInv
<1> SUFFICES ASSUME ChangesInit PROVE ChangeShape /\ ChangesInv
  OBVIOUS
<1>1. PICK k : changeNet = Put(NoCalls, k, Call("feed", NoFilters))
  BY NoCallsIsNet, Sending DEF ChangesInit
<1>2. ChangeShape
  <2>1. IsNet(changeNet)
    BY <1>1, NoCallsIsNet, CallIsCall, PutIsNet
  <2>2. IsChangePage(changePage)
    BY DEF ChangesInit, IsChangePage
  <2>3. ASSUME NEW c \in changes PROVE IsChange(c)
    <3>1. /\ c = [id |-> c.id, by |-> c.by, actor |-> c.actor, corr |-> c.corr, of |-> c.of, reverted |-> c.reverted]
          /\ c.id \in Nat /\ c.reverted \in BOOLEAN
      BY ChangesAssumption DEF ChangesInit
    <3>2. DOMAIN c = {"id", "by", "actor", "corr", "of", "reverted"}
      BY <3>1
    <3> QED
      BY <3>1, <3>2 DEF IsChange
  <2> QED
    BY <2>1, <2>2, <2>3 DEF ChangeShape
<1>3. GoodLedger
  BY ChangesAssumption DEF ChangesInit, GoodLedger, NoHalfRevert
<1>4. RecordsOk(changePage.records)
  BY DEF ChangesInit, RecordsOk
<1>5. \A i \in Slot : changeNet[i] # Free => GoodChangeCall(changeNet[i])
  BY <1>1 DEF Put, NoCalls, Call, GoodChangeCall
<1> QED
  BY <1>2, <1>3, <1>4, <1>5, ChangesInvParts

\* A step of the page that leaves the ledger alone and puts a good call, or
\* nothing, into one slot.
LEMMA ChangesPageStep ==
    ASSUME ChangeShape, ChangesInv, UNCHANGED changes, IsChangePage(changePage'),
           RecordsOk(changePage'.records),
           \/ changeNet' = changeNet
           \/ \E i, c : changeNet' = Put(changeNet, i, c) /\ (c # Free => IsCall(c) /\ GoodChangeCall(c))
    PROVE  ChangeShape' /\ ChangesInv'
<1>1. IsNet(changeNet')
  BY PutIsNet DEF ChangeShape
<1>2. ChangeShape'
  BY <1>1 DEF ChangeShape
<1>3. GoodLedger' /\ RecordsOk(changePage.records)'
  BY ChangesInvParts DEF GoodLedger, NoHalfRevert, RecordsOk, OnlyEntry
<1>4. \A i \in Slot : changeNet'[i] # Free => GoodChangeCall(changeNet'[i])
  BY ChangesInvParts DEF Put
<1>5. \A c : GoodChangeCall(c) => GoodChangeCall(c)'
  BY DEF GoodChangeCall, RecordsOk, OnlyEntry
<1> QED
  BY <1>2, <1>3, <1>4, <1>5, ChangesInvPartsNext DEF GoodChangeCall, RecordsOk, OnlyEntry

\* What the feed says of an entry that stands alone is so.
LEMMA FeedIsOk ==
    ASSUME ChangeShape, ChangesInv, NEW f
    PROVE  RecordsOk(Feed(f))
<1> SUFFICES ASSUME NEW r \in Feed(f), ~(r.size > 1) PROVE OnlyEntry(r.change)
  BY DEF RecordsOk
<1>0. GoodLedger
  BY ChangesInvParts
<1>1. PICK c \in changes : r = [change |-> c, size |-> Cardinality({d \in changes : d.corr = c.corr})]
  BY DEF Feed
<1> DEFINE S == {d \in changes : d.corr = c.corr}
<1>2. IsFiniteSet(S) /\ Cardinality(S) \in Nat
  BY <1>0, FS_Subset, FS_CardinalityType DEF GoodLedger
<1>3. ASSUME NEW d \in S PROVE d = c
  <2>1. {c, d} \in SUBSET S
    OBVIOUS
  <2>2. Cardinality({c, d}) <= 1
    <3>1. Cardinality({c, d}) <= Cardinality(S) /\ Cardinality(S) <= 1
      BY <1>1, <1>2, <2>1, FS_Subset
    <3>2. Cardinality({c, d}) \in Nat
      BY <1>2, <2>1, FS_Subset, FS_CardinalityType
    <3> QED
      BY <1>2, <3>1, <3>2
  <2>3. IsFiniteSet({c}) /\ Cardinality({c}) = 1 /\ {c} \cup {d} = {c, d}
    BY FS_Singleton
  <2>4. d \notin {c} => Cardinality({c, d}) = 2
    BY <2>3, FS_AddElement, SMTT(40)
  <2> QED
    BY <2>2, <2>4
<1>4. c.of = None
  BY <1>0, <1>3 DEF GoodLedger
<1> QED
  BY <1>0, <1>1, <1>3, <1>4 DEF GoodLedger, OnlyEntry

\* The entries a revert in slot i takes back.
TakenBack(i) ==
    {c \in changes : ~c.reverted /\ IF changeNet[i].arg.group THEN c.corr = changeNet[i].arg.change.corr
                                    ELSE c.id = changeNet[i].arg.change.id}

\* A revert takes some entries back and adds one about each: the other entries,
\* and what each is an entry of, stay.
RevertEffect(i) ==
    /\ \A e \in changes' :
          /\ IsChange(e)
          /\ \E c \in changes : e.corr = c.corr /\
                \/ e.of \in Nat
                \/ e.of = c.of /\ e.id = c.id /\ e.reverted = (c.reverted \/ c \in TakenBack(i))
    /\ \A c \in changes : \E e \in changes' : e.corr = c.corr /\ e.of = c.of /\ e.id = c.id
    /\ IsFiniteSet(changes')

LEMMA RevertDoes ==
    ASSUME ChangeShape, ChangesInv, NEW i \in Slot, ServeRevert(i), TakenBack(i) # {}
    PROVE  RevertEffect(i) /\ changeNet' = Reply(changeNet, i, None)
<1> DEFINE back == TakenBack(i)
           fresh(c) == Cardinality(changes) + Cardinality({d \in back : d.id <= c.id})
           inverse(c) == [id |-> fresh(c), by |-> "user", actor |-> "a", corr |-> c.corr, of |-> c.id, reverted |-> FALSE]
           undone(c) == [c EXCEPT !.reverted = TRUE]
<1>1. /\ changes' = (changes \ back) \cup {undone(c) : c \in back} \cup {inverse(c) : c \in back}
      /\ changeNet' = Reply(changeNet, i, None)
  BY DEF ServeRevert, TakenBack
<1>2. IsFiniteSet(changes) /\ back \subseteq changes
  BY ChangesInvParts DEF TakenBack, GoodLedger
<1>3. ASSUME NEW c \in changes
      PROVE  /\ IsChange(undone(c)) /\ undone(c).corr = c.corr /\ undone(c).of = c.of /\ undone(c).id = c.id
             /\ undone(c).reverted = TRUE
  BY DEF ChangeShape, IsChange
<1>4. ASSUME NEW c \in back
      PROVE  IsChange(inverse(c)) /\ inverse(c).corr = c.corr /\ inverse(c).of \in Nat
  <2>1. fresh(c) \in Nat
    <3>1. {d \in back : d.id <= c.id} \in SUBSET changes
      BY <1>2
    <3>2. Cardinality(changes) \in Nat /\ Cardinality({d \in back : d.id <= c.id}) \in Nat
      BY <1>2, <3>1, FS_Subset, FS_CardinalityType
    <3> QED
      BY <3>2
  <2>2. c.id \in Nat
    BY <1>2 DEF ChangeShape, IsChange
  <2> HIDE DEF fresh
  <2> QED
    BY <2>1, <2>2 DEF IsChange
<1>5. ASSUME NEW e \in changes'
      PROVE  /\ IsChange(e)
             /\ \E c \in changes : e.corr = c.corr /\
                   \/ e.of \in Nat
                   \/ e.of = c.of /\ e.id = c.id /\ e.reverted = (c.reverted \/ c \in back)
  <2> HIDE DEF inverse, undone, back
  <2>1. CASE e \in changes \ back
    <3>1. IsChange(e) /\ e \in changes /\ e.reverted \in BOOLEAN
      BY <2>1 DEF ChangeShape, IsChange
    <3> QED
      BY <2>1, <3>1
  <2>2. CASE e \in {undone(c) : c \in back}
    <3>1. PICK c \in back : e = undone(c)
      BY <2>2
    <3> QED
      BY <1>2, <1>3, <3>1
  <2>3. CASE e \in {inverse(c) : c \in back}
    BY <1>2, <1>4, <2>3
  <2> QED
    BY <1>1, <2>1, <2>2, <2>3
<1>6. ASSUME NEW c \in changes
      PROVE  \E e \in changes' : e.corr = c.corr /\ e.of = c.of /\ e.id = c.id
  <2> HIDE DEF inverse, undone, back
  <2>1. CASE c \in back
    BY <1>1, <1>3, <2>1
  <2>2. CASE c \notin back
    BY <1>1, <2>2
  <2> QED
    BY <2>1, <2>2
<1>7. IsFiniteSet(changes')
  <2>1. IsFiniteSet(back) /\ IsFiniteSet(changes \ back)
    BY <1>2, FS_Subset
  <2> HIDE DEF inverse, undone, back
  <2>2. IsFiniteSet({undone(c) : c \in back})
    <3>1. [c \in back |-> undone(c)] \in Surjection(back, {undone(c) : c \in back})
      BY DEF Surjection
    <3> QED
      BY <2>1, <3>1, FS_Surjection
  <2>3. IsFiniteSet({inverse(c) : c \in back})
    <3>1. [c \in back |-> inverse(c)] \in Surjection(back, {inverse(c) : c \in back})
      BY DEF Surjection
    <3> QED
      BY <2>1, <3>1, FS_Surjection
  <2>4. IsFiniteSet((changes \ back) \cup {undone(c) : c \in back})
    BY <2>1, <2>2, FS_Union
  <2> QED
    BY <1>1, <2>3, <2>4, FS_Union
<1> QED
  BY <1>1, <1>5, <1>6, <1>7 DEF RevertEffect

LEMMA RevertStep ==
    ASSUME ChangeShape, ChangesInv, NEW i \in Slot, ServeRevert(i)
    PROVE  ChangeShape' /\ ChangesInv'
<1>0. changePage' = changePage /\ changeNet[i] # Free /\ changeNet[i].op = "revert" /\ IsNet(changeNet)
  BY DEF ServeRevert, Sent, ChangeShape
<1> DEFINE answer(st, out) == [op |-> changeNet[i].op, arg |-> changeNet[i].arg, st |-> st, out |-> out]
<1>1. \A st, out : IsCall(answer(st, out)) /\ GoodChangeCall(answer(st, out))
  BY <1>0, ChangesInvParts DEF IsCall, GoodChangeCall, Feeds
<1>2. CASE TakenBack(i) = {}
  <2>1. changes' = changes /\ changeNet' = Fail(changeNet, i)
    BY <1>2 DEF ServeRevert, TakenBack
  <2>2. changeNet' = Put(changeNet, i, answer("err", changeNet[i].out))
    BY <1>0, <2>1, Answering
  <2> QED
    BY <1>0, <1>1, <2>1, <2>2, ChangesInvParts, ChangesPageStep DEF ChangeShape
<1>3. CASE TakenBack(i) # {}
  <2>1. RevertEffect(i)
    BY <1>3, RevertDoes
  <2>2. changeNet' = Put(changeNet, i, answer("ok", None))
    BY <1>0, <1>3, RevertDoes, Answering
  <2>3. ChangeShape'
    <3>1. IsNet(changeNet')
      BY <1>0, <1>1, <2>2, PutIsNet
    <3> QED
      BY <1>0, <2>1, <3>1 DEF ChangeShape, RevertEffect
  <2>4. GoodLedger
    BY ChangesInvParts
  <2>5. ASSUME NEW e \in changes', e.of = None
        PROVE  \E c \in changes : /\ c.of = None /\ c.corr = e.corr /\ c.id = e.id
                                  /\ e.reverted = (c.reverted \/ c \in TakenBack(i))
    BY <2>1, <2>5, ChangesAssumption DEF RevertEffect
  <2>6. \A c : OnlyEntry(c) => OnlyEntry(c)'
    BY <2>5 DEF OnlyEntry
  <2>7. NoHalfRevert'
    <3> SUFFICES ASSUME NEW e \in changes', NEW g \in changes', e.of = None, g.of = None, e.corr = g.corr
                 PROVE  e.reverted = g.reverted
      BY DEF NoHalfRevert
    <3>1. PICK c \in changes : c.of = None /\ c.corr = e.corr /\ c.id = e.id /\ e.reverted = (c.reverted \/ c \in TakenBack(i))
      BY <2>5
    <3>2. PICK d \in changes : d.of = None /\ d.corr = g.corr /\ d.id = g.id /\ g.reverted = (d.reverted \/ d \in TakenBack(i))
      BY <2>5
    <3>3. c.reverted = d.reverted
      BY <2>4, <3>1, <3>2 DEF GoodLedger, NoHalfRevert
    <3>4. c \in TakenBack(i) <=> d \in TakenBack(i)
      <4>1. changeNet[i].arg.group \/ OnlyEntry(changeNet[i].arg.change)
        BY <1>0, ChangesInvParts DEF GoodChangeCall
      <4>2. CASE changeNet[i].arg.group
        BY <3>1, <3>2, <3>3, <4>2 DEF TakenBack
      <4>3. CASE ~changeNet[i].arg.group
        BY <3>1, <3>2, <3>3, <4>1, <4>3 DEF TakenBack, OnlyEntry
      <4> QED
        BY <4>2, <4>3
    <3> QED
      BY <3>1, <3>2, <3>3, <3>4
  <2>8. GoodLedger'
    <3>1. IsFiniteSet(changes')
      BY <2>1 DEF RevertEffect
    <3>2. ASSUME NEW e \in changes' PROVE \E d \in changes' : d.of = None /\ d.corr = e.corr
      <4>1. PICK c \in changes : e.corr = c.corr
        BY <2>1 DEF RevertEffect
      <4>2. PICK d \in changes : d.of = None /\ d.corr = c.corr
        BY <2>4 DEF GoodLedger
      <4> QED
        BY <2>1, <4>1, <4>2 DEF RevertEffect
    <3>3. \A e, g \in changes' : e.of = None /\ g.of = None /\ e.id = g.id => e.corr = g.corr
      BY <2>4, <2>5 DEF GoodLedger
    <3> QED
      BY <2>7, <3>1, <3>2, <3>3 DEF GoodLedger
  <2>9. RecordsOk(changePage.records)'
    BY <1>0, <2>6, ChangesInvParts DEF RecordsOk
  <2>10. ASSUME NEW j \in Slot, changeNet'[j] # Free PROVE GoodChangeCall(changeNet[j])'
    <3>1. GoodChangeCall(changeNet'[j])
      BY <1>1, <2>2, <2>10, ChangesInvParts DEF Put
    <3> QED
      BY <2>6, <3>1 DEF GoodChangeCall, RecordsOk
  <2> QED
    BY <2>3, <2>8, <2>9, <2>10, ChangesInvPartsNext
<1> QED
  BY <1>2, <1>3

\* The user's steps: each keeps the form of the page and sends a read of the feed,
\* a revert, or nothing.
LEMMA ChangesUserStep ==
    ASSUME ChangeShape, ChangesInv,
           \/ \E by : ChooseSource(by)
           \/ \E a : TypeActor(a)
           \/ ApplyActor
           \/ ClearChangeFilters
           \/ \E r \in changePage.records : Revert(r)
    PROVE  ChangeShape' /\ ChangesInv'
<1>0. IsChangePage(changePage) /\ IsNet(changeNet) /\ RecordsOk(changePage.records)
  BY ChangesInvParts DEF ChangeShape
<1>1. IsChangePage(StepChange) /\ StepChange.records = changePage.records
  BY <1>0 DEF IsChangePage, StepChange, Pressed
<1>2. ASSUME NEW f, NEW ui, IsChangePage(ui)
      PROVE  IsChangePage(LoadFeed(ui, f)) /\ LoadFeed(ui, f).records = ui.records
  BY <1>2 DEF IsChangePage, LoadFeed
<1>3. \A op, arg : \E k : Send(changeNet, op, arg) = Put(changeNet, k, Call(op, arg)) /\ IsCall(Call(op, arg))
  BY <1>0, Sending, CallIsCall
<1>4. \A arg : GoodChangeCall(Call("feed", arg))
  BY DEF Call, GoodChangeCall
<1>5. ASSUME NEW f, FilterBy(f) PROVE ChangeShape' /\ ChangesInv'
  <2>1. changes' = changes /\ changePage' = LoadFeed(StepChange, f) /\ changeNet' = Send(changeNet, "feed", f)
    BY <1>5 DEF FilterBy, PressChange
  <2>2. IsChangePage(changePage') /\ changePage'.records = changePage.records
    BY <1>1, <1>2, <2>1
  <2> QED
    BY <1>0, <1>3, <1>4, <2>1, <2>2, ChangesPageStep
<1>6. ASSUME NEW by, ChooseSource(by) PROVE ChangeShape' /\ ChangesInv'
  BY <1>5, <1>6 DEF ChooseSource
<1>7. ASSUME NEW a, TypeActor(a) PROVE ChangeShape' /\ ChangesInv'
  <2>1. changes' = changes /\ changeNet' = changeNet /\ changePage' = [StepChange EXCEPT !.actor = a]
    BY <1>7 DEF TypeActor, PressChange
  <2>2. IsChangePage(changePage') /\ changePage'.records = changePage.records
    BY <1>1, <2>1 DEF IsChangePage
  <2> QED
    BY <1>0, <2>1, <2>2, ChangesPageStep
<1>8. CASE ApplyActor
  BY <1>5, <1>8 DEF ApplyActor
<1>9. CASE ClearChangeFilters
  <2>1. /\ changes' = changes /\ changeNet' = Send(changeNet, "feed", NoFilters)
        /\ changePage' = [LoadFeed(StepChange, NoFilters) EXCEPT !.actor = ""]
    BY <1>9 DEF ClearChangeFilters, PressChange
  <2>2. IsChangePage(changePage') /\ changePage'.records = changePage.records
    BY <1>1, <1>2, <2>1 DEF IsChangePage
  <2> QED
    BY <1>0, <1>3, <1>4, <2>1, <2>2, ChangesPageStep
<1>10. ASSUME NEW r \in changePage.records, Revert(r) PROVE ChangeShape' /\ ChangesInv'
  <2> DEFINE arg == [change |-> r.change, group |-> r.size > 1, filters |-> changePage.filters]
  <2>1. /\ changes' = changes /\ changeNet' = Send(changeNet, "revert", arg)
        /\ changePage' = [StepChange EXCEPT !.reverting = r.change.id]
    BY <1>10 DEF Revert, Unreverted, SendRevert, PressChange
  <2>2. IsChangePage(changePage') /\ changePage'.records = changePage.records
    BY <1>1, <2>1 DEF IsChangePage
  <2>3. GoodChangeCall(Call("revert", arg))
    BY <1>0 DEF RecordsOk, GoodChangeCall, Call, Feeds
  <2> QED
    BY <1>0, <1>3, <2>1, <2>2, <2>3, ChangesPageStep
<1> QED
  BY <1>6, <1>7, <1>8, <1>9, <1>10

\* The answers, but for the one of a revert that is done.
LEMMA ChangesAnswerStep ==
    ASSUME ChangeShape, ChangesInv, NEW i \in Slot,
           ServeFeed(i) \/ FeedRead(i) \/ Reverted(i) \/ ChangeCallFails(i)
    PROVE  ChangeShape' /\ ChangesInv'
<1>0. /\ IsChangePage(changePage) /\ IsNet(changeNet) /\ RecordsOk(changePage.records)
      /\ changeNet[i] # Free => GoodChangeCall(changeNet[i])
  BY ChangesInvParts DEF ChangeShape
<1> DEFINE answer(st, out) == [op |-> changeNet[i].op, arg |-> changeNet[i].arg, st |-> st, out |-> out]
<1>1. CASE ServeFeed(i)
  <2>1. PICK op \in Feeds : Sent(changeNet, i, op)
    BY <1>1 DEF ServeFeed
  <2>2. changeNet' = Put(changeNet, i, answer("ok", Feed(changeNet[i].arg)))
    BY <1>0, <1>1, <2>1, Answering DEF ServeFeed, Sent
  <2>3. GoodChangeCall(answer("ok", Feed(changeNet[i].arg))) /\ IsCall(answer("ok", Feed(changeNet[i].arg)))
    BY <1>0, <2>1, FeedIsOk DEF GoodChangeCall, IsCall, Sent, Feeds
  <2> QED
    BY <1>0, <1>1, <2>2, <2>3, ChangesPageStep DEF ServeFeed
<1>2. CASE FeedRead(i)
  <2>1. PICK op \in Feeds :
           /\ Settled(changeNet, i, op)
           /\ changePage' = [changePage EXCEPT !.records = IF Ok(changeNet, i, op) THEN changeNet[i].out ELSE {},
                                               !.loading = FALSE, !.calm = @ /\ Ok(changeNet, i, op),
                                               !.reverting = IF op = "reload" THEN None ELSE @]
    BY <1>2 DEF FeedRead
  <2>2. changeNet' = Put(changeNet, i, Free) /\ changes' = changes
    BY <1>0, <1>2, Ending DEF FeedRead
  <2>3. IsChangePage(changePage') /\ changePage'.records = IF Ok(changeNet, i, op) THEN changeNet[i].out ELSE {}
    BY <1>0, <2>1 DEF IsChangePage
  <2>4. RecordsOk(changePage'.records)
    BY <1>0, <2>1, <2>3 DEF RecordsOk, GoodChangeCall, Ok
  <2> QED
    BY <2>2, <2>3, <2>4, ChangesPageStep
<1>3. CASE Reverted(i)
  <2>1. changes' = changes /\ IsChangePage(changePage') /\ changePage'.records = changePage.records
    BY <1>0, <1>3 DEF Reverted, IsChangePage
  <2>2. \/ changeNet' = Put(changeNet, i, Free)
        \/ changeNet' = Put(changeNet, i, Call("reload", changeNet[i].arg.filters))
    BY <1>0, <1>3, Ending DEF Reverted
  <2>3. \A arg : GoodChangeCall(Call("reload", arg)) /\ IsCall(Call("reload", arg))
    BY CallIsCall DEF Call, GoodChangeCall
  <2> QED
    BY <1>0, <2>1, <2>2, <2>3, ChangesPageStep
<1>4. CASE ChangeCallFails(i)
  <2>1. changeNet[i] # Free
    BY <1>4 DEF ChangeCallFails, CanFail, Pending
  <2>2. changeNet' = Put(changeNet, i, answer("err", changeNet[i].out))
    BY <1>0, <1>4, <2>1, Answering DEF ChangeCallFails
  <2>3. GoodChangeCall(answer("err", changeNet[i].out)) /\ IsCall(answer("err", changeNet[i].out))
    BY <1>0, <2>1 DEF GoodChangeCall, IsCall
  <2>4. changes' = changes /\ IsChangePage(changePage') /\ changePage'.records = changePage.records
    BY <1>0, <1>4 DEF ChangeCallFails, Missed, IsChangePage
  <2> QED
    BY <1>0, <2>2, <2>3, <2>4, ChangesPageStep
<1> QED
  BY <1>1, <1>2, <1>3, <1>4

LEMMA ChangesStep == ChangeShape /\ ChangesInv /\ [ChangesNext]_changeVars => ChangeShape' /\ ChangesInv'
<1> SUFFICES ASSUME ChangeShape, ChangesInv, [ChangesNext]_changeVars PROVE ChangeShape' /\ ChangesInv'
  OBVIOUS
<1>1. CASE UNCHANGED changeVars
  BY <1>1, ChangesInvParts, ChangesPageStep DEF changeVars, ChangeShape
<1>2. CASE ChangesNext
  BY <1>2, ChangesUserStep, ChangesAnswerStep, RevertStep DEF ChangesNext
<1> QED
  BY <1>1, <1>2

\* "reverting only the parent row would bring it back stripped" (page.tsx:122):
\* whatever is clicked and whatever is answered when, the page never leaves the
\* changes of one action some taken back and some not.
THEOREM ActionsRevertWhole == ChangesSpec => []NoHalfRevert
<1>1. ChangeShape /\ ChangesInv => NoHalfRevert
  BY DEF ChangesInv
<1> QED
  BY <1>1, ChangesInitInv, ChangesStep, PTL DEF ChangesSpec

-----------------------------------------------------------------------------
(***************************************************************************)
(* The editor of a custom page: no revision is lost.  The invariant is     *)
(* RevisionsInv of PageEditor.  A save or a restore adds the content it    *)
(* read when it began to the versions; with one request in flight that is  *)
(* the content it replaces.                                                *)
(***************************************************************************)
PageShape == IsNet(pageNet) /\ "calm" \in DOMAIN pageTab /\ "content" \in DOMAIN pageRow

\* A write that has begun, as RevisionsInv says it.
GoodPageCall(c) ==
    c.op \in PageWrites /\ c.st = "open" => c.out.content \in lived /\ (pageTab.calm => c.out = pageRow)

\* The server's part of RevisionsInv.
GoodRevisions == snapshots \in Seq(lived) /\ pageRow.content \in lived /\ RevisionsKept

LEMMA RevisionsInvParts ==
    RevisionsInv <=> /\ GoodRevisions
                     /\ \A i \in Slot : pageNet[i] # Free => GoodPageCall(pageNet[i])
                     /\ pageTab.calm => OneCall(pageNet)
  BY DEF RevisionsInv, GoodRevisions, GoodPageCall, OneCall, Of, Pending

LEMMA RevisionsInvPartsNext ==
    RevisionsInv' <=> /\ GoodRevisions'
                      /\ \A i \in Slot : pageNet'[i] # Free => GoodPageCall(pageNet[i])'
                      /\ pageTab'.calm => OneCall(pageNet')
  BY DEF RevisionsInv, GoodRevisions, GoodPageCall, OneCall, Of, Pending

LEMMA PageInitInv == PageInit => PageShape /\ RevisionsInv
<1> SUFFICES ASSUME PageInit PROVE PageShape /\ RevisionsInv
  OBVIOUS
<1>1. PICK k : pageNet = Put(NoCalls, k, Call("load", None))
  BY NoCallsIsNet, Sending DEF PageInit
<1>2. PICK title \in PageTitle, text \in PageText :
         /\ pageRow = [title |-> title, content |-> text, published |-> TRUE, tags |-> << >>]
         /\ snapshots = <<text>> /\ lived = {text}
  BY DEF PageInit
<1>3. IsNet(pageNet) /\ OneCall(pageNet)
  BY <1>1, NoCallsIsNet, CallIsCall, PutIsNet, OneCallKept DEF Quiet, Pending, NoCalls
<1>4. PageShape
  BY <1>2, <1>3 DEF PageShape, PageInit, NoPage
<1>5. GoodRevisions
  BY <1>2 DEF GoodRevisions, RevisionsKept
<1>6. \A i \in Slot : pageNet[i] # Free => GoodPageCall(pageNet[i])
  BY <1>1 DEF Put, NoCalls, Call, GoodPageCall
<1> QED
  BY <1>3, <1>4, <1>5, <1>6, RevisionsInvParts

\* A step of the editor that leaves the page alone: a handler starts, and it was
\* the only one if the editor is still calm, or a call is answered.
LEMMA PageTabStep ==
    ASSUME PageShape, RevisionsInv, UNCHANGED pageServer, "calm" \in DOMAIN pageTab',
           pageTab'.calm => pageTab.calm,
           \/ pageNet' = pageNet
           \/ \E i, c : /\ pageNet' = Put(pageNet, i, c)
                        /\ pageTab'.calm => Quiet(pageNet) \/ i \in Pending(pageNet)
                        /\ c # Free => IsCall(c) /\ GoodPageCall(c)
    PROVE  PageShape' /\ RevisionsInv'
<1>0. pageRow' = pageRow /\ snapshots' = snapshots /\ lived' = lived /\ IsNet(pageNet)
  BY DEF pageServer, PageShape
<1>1. PageShape'
  BY <1>0, PutIsNet DEF PageShape
<1>2. GoodRevisions'
  BY <1>0, RevisionsInvParts DEF GoodRevisions, RevisionsKept
<1>3. \A i \in Slot : pageNet'[i] # Free => GoodPageCall(pageNet'[i])
  BY RevisionsInvParts DEF Put
<1>4. \A i \in Slot : pageNet'[i] # Free => GoodPageCall(pageNet[i])'
  BY <1>0, <1>3 DEF GoodPageCall
<1>5. pageTab'.calm => OneCall(pageNet')
  BY <1>0, RevisionsInvParts, OneCallKept
<1> QED
  BY <1>1, <1>2, <1>4, <1>5, RevisionsInvPartsNext

LEMMA PageUserStep ==
    ASSUME PageShape, RevisionsInv,
           \/ TokenRenewed \/ SavePage
           \/ \E draft : Edit(draft)
           \/ \E k : PreviewVersion(k) \/ RestoreVersion(k)
    PROVE  PageShape' /\ RevisionsInv'
<1>0. /\ "calm" \in DOMAIN StepPage /\ (StepPage.calm => pageTab.calm /\ Quiet(pageNet)) /\ IsNet(pageNet)
      /\ "calm" \in DOMAIN pageTab
  BY DEF PageShape, StepPage, Pressed
<1>1. \A op, arg : \E k : Send(pageNet, op, arg) = Put(pageNet, k, Call(op, arg)) /\ IsCall(Call(op, arg))
                          /\ GoodPageCall(Call(op, arg))
  BY <1>0, Sending, CallIsCall DEF GoodPageCall, Call
<1>2. CASE TokenRenewed
  BY <1>0, <1>1, <1>2, PageTabStep DEF TokenRenewed
<1>3. CASE SavePage
  <2>1. "calm" \in DOMAIN pageTab' /\ pageTab'.calm = StepPage.calm /\ UNCHANGED pageServer
    BY <1>0, <1>3 DEF SavePage, PressPage
  <2> QED
    BY <1>0, <1>1, <1>3, <2>1, PageTabStep DEF SavePage
<1>4. ASSUME NEW draft, Edit(draft) PROVE PageShape' /\ RevisionsInv'
  <2>1. "calm" \in DOMAIN pageTab' /\ pageTab'.calm = StepPage.calm /\ UNCHANGED pageServer
    BY <1>0, <1>4 DEF Edit, PressPage
  <2> QED
    BY <1>0, <1>4, <2>1, PageTabStep DEF Edit
<1>5. ASSUME NEW k, PreviewVersion(k) PROVE PageShape' /\ RevisionsInv'
  <2>1. "calm" \in DOMAIN pageTab' /\ pageTab'.calm = StepPage.calm /\ UNCHANGED pageServer
    BY <1>0, <1>5 DEF PreviewVersion, PressPage
  <2> QED
    BY <1>0, <1>5, <2>1, PageTabStep DEF PreviewVersion
<1>6. ASSUME NEW k, RestoreVersion(k) PROVE PageShape' /\ RevisionsInv'
  <2>1. "calm" \in DOMAIN pageTab' /\ pageTab'.calm = StepPage.calm /\ UNCHANGED pageServer
    BY <1>0, <1>6 DEF RestoreVersion, PressPage
  <2> QED
    BY <1>0, <1>1, <1>6, <2>1, PageTabStep DEF RestoreVersion
<1> QED
  BY <1>2, <1>3, <1>4, <1>5, <1>6

\* The answers, and the failures, but for the write itself.
LEMMA PageAnswerStep ==
    ASSUME PageShape, RevisionsInv, NEW i \in Slot,
           \/ ServePage(i) \/ ServePageVersions(i) \/ PageRead(i) \/ BeginWrite(i) \/ PageWritten(i)
           \/ PageVersionsRead(i) \/ WriteFailed(i) \/ PageCallFails(i)
    PROVE  PageShape' /\ RevisionsInv'
<1> DEFINE answer(st, out) == [op |-> pageNet[i].op, arg |-> pageNet[i].arg, st |-> st, out |-> out]
<1>0. IsNet(pageNet) /\ "calm" \in DOMAIN pageTab /\ "content" \in DOMAIN pageRow /\ pageRow.content \in lived
  BY RevisionsInvParts DEF PageShape, GoodRevisions
<1>1. i \in Pending(pageNet)
  BY DEF ServePage, ServePageVersions, PageRead, BeginWrite, PageWritten, PageVersionsRead, WriteFailed,
         PageCallFails, CanFail, Sent, Open, Settled, Ok, Err, Pending
<1>2. /\ \A out : Reply(pageNet, i, out) = Put(pageNet, i, answer("ok", out))
      /\ Fail(pageNet, i) = Put(pageNet, i, answer("err", pageNet[i].out))
      /\ \A tx : Begin(pageNet, i, tx) = Put(pageNet, i, answer("open", tx))
      /\ Done(pageNet, i) = Put(pageNet, i, Free)
      /\ \A op, arg : Then(pageNet, i, op, arg) = Put(pageNet, i, Call(op, arg))
  BY <1>0, <1>1, Answering, Ending DEF Pending
<1>3. \A st, out : IsCall(answer(st, out)) /\ (st # "open" => GoodPageCall(answer(st, out)))
  BY DEF IsCall, GoodPageCall
<1>4. ASSUME pageTab' = pageTab, UNCHANGED pageServer,
             NEW st, NEW out, pageNet' = Put(pageNet, i, answer(st, out)), GoodPageCall(answer(st, out))
      PROVE  PageShape' /\ RevisionsInv'
  <2>1. IsCall(answer(st, out))
    BY <1>3
  <2> HIDE DEF answer
  <2> QED
    BY <1>0, <1>1, <1>4, <2>1, PageTabStep
<1>5. ASSUME "calm" \in DOMAIN pageTab', pageTab'.calm => pageTab.calm, UNCHANGED pageServer,
             pageNet' = Put(pageNet, i, Free)
      PROVE  PageShape' /\ RevisionsInv'
  BY <1>1, <1>5, PageTabStep
<1>6. \A tab, op : "calm" \in DOMAIN tab => "calm" \in DOMAIN PageFreed(tab, op) /\ PageFreed(tab, op).calm = tab.calm
  BY DEF PageFreed
<1>7. CASE ServePage(i)
  <2>1. GoodPageCall(answer("open", pageRow))
    BY <1>0, <1>7 DEF ServePage, Sent, GoodPageCall, PageWrites
  <2> QED
    BY <1>2, <1>4, <1>7, <2>1 DEF ServePage
<1>8. CASE ServePageVersions(i)
  <2>1. PICK out : pageNet' = Reply(pageNet, i, out)
    BY <1>8 DEF ServePageVersions
  <2>2. pageNet' = Put(pageNet, i, answer("ok", out)) /\ GoodPageCall(answer("ok", out))
    BY <1>2, <1>3, <2>1
  <2> QED
    BY <1>4, <1>8, <2>2 DEF ServePageVersions
<1>9. CASE PageRead(i)
  <2>1. "calm" \in DOMAIN pageTab' /\ (pageTab'.calm => pageTab.calm)
    BY <1>0, <1>9 DEF PageRead
  <2> QED
    BY <1>2, <1>5, <1>9, <2>1 DEF PageRead
<1>10. CASE BeginWrite(i)
  <2>1. GoodPageCall(answer("open", pageRow))
    BY <1>0 DEF GoodPageCall
  <2> QED
    BY <1>2, <1>4, <1>10, <2>1 DEF BeginWrite
<1>11. CASE PageWritten(i)
  <2>1. "calm" \in DOMAIN pageTab' /\ (pageTab'.calm => pageTab.calm)
    BY <1>0, <1>11 DEF PageWritten
  <2>2. pageNet' = Put(pageNet, i, Call("versions", pageNet[i].op))
    BY <1>2, <1>11 DEF PageWritten
  <2>3. IsCall(Call("versions", pageNet[i].op)) /\ GoodPageCall(Call("versions", pageNet[i].op))
    BY CallIsCall DEF Call, GoodPageCall
  <2> QED
    BY <1>1, <1>11, <2>1, <2>2, <2>3, PageTabStep DEF PageWritten
<1>12. CASE PageVersionsRead(i)
  <2>1. "calm" \in DOMAIN pageTab' /\ (pageTab'.calm => pageTab.calm)
    <3>1. CASE Ok(pageNet, i, "versions")
      BY <1>0, <1>6, <1>12, <3>1 DEF PageVersionsRead
    <3>2. CASE ~Ok(pageNet, i, "versions")
      BY <1>0, <1>6, <1>12, <3>2 DEF PageVersionsRead
    <3> QED
      BY <3>1, <3>2
  <2> QED
    BY <1>2, <1>5, <1>12, <2>1 DEF PageVersionsRead
<1>13. CASE WriteFailed(i)
  <2>1. "calm" \in DOMAIN pageTab' /\ pageTab'.calm = pageTab.calm
    BY <1>0, <1>6, <1>13 DEF WriteFailed
  <2> QED
    BY <1>2, <1>5, <1>13, <2>1 DEF WriteFailed
<1>14. CASE PageCallFails(i)
  <2>1. "calm" \in DOMAIN pageTab' /\ (pageTab'.calm => pageTab.calm) /\ UNCHANGED pageServer
    BY <1>0, <1>14 DEF PageCallFails, Missed
  <2>2. pageNet' = Put(pageNet, i, answer("err", pageNet[i].out)) /\ GoodPageCall(answer("err", pageNet[i].out))
    BY <1>2, <1>3, <1>14 DEF PageCallFails
  <2>3. IsCall(answer("err", pageNet[i].out))
    BY <1>3
  <2> QED
    BY <1>1, <2>1, <2>2, <2>3, PageTabStep
<1> QED
  BY <1>7, <1>8, <1>9, <1>10, <1>11, <1>12, <1>13, <1>14

\* The write: the versions gain what it began with, which is what it replaces.
LEMMA PageWriteStep ==
    ASSUME PageShape, RevisionsInv, NEW i \in Slot, CommitWrite(i)
    PROVE  PageShape' /\ RevisionsInv'
<1> DEFINE before == pageNet[i].out.content
           answer == [op |-> pageNet[i].op, arg |-> pageNet[i].arg, st |-> "ok", out |-> pageRow']
<1>0. /\ IsNet(pageNet) /\ "calm" \in DOMAIN pageTab /\ "content" \in DOMAIN pageRow
      /\ snapshots \in Seq(lived) /\ pageRow.content \in lived /\ RevisionsKept
      /\ pageTab.calm => OneCall(pageNet)
      /\ \A j \in Slot : pageNet[j] # Free => GoodPageCall(pageNet[j])
  BY RevisionsInvParts DEF PageShape, GoodRevisions
<1>1. i \in Pending(pageNet) /\ pageNet[i].op \in PageWrites /\ pageNet[i].st = "open"
  BY DEF CommitWrite, Open, Pending, PageWrites
<1>2. before \in lived /\ (pageTab.calm => pageNet[i].out = pageRow)
  BY <1>0, <1>1 DEF GoodPageCall, Pending
<1>3. /\ pageTab' = pageTab /\ snapshots' = Append(snapshots, before) /\ lived' = lived \cup {pageRow'.content}
      /\ pageRow' = Written(i) /\ pageNet' = Reply(pageNet, i, pageRow')
  BY DEF CommitWrite
<1>4. pageNet' = Put(pageNet, i, answer) /\ IsCall(answer) /\ answer.st = "ok"
  BY <1>0, <1>1, <1>3, Answering DEF IsCall, Pending
<1>5. PageShape'
  <2>1. "content" \in DOMAIN pageRow'
    BY <1>0, <1>3 DEF Written
  <2>2. IsNet(pageNet')
    BY <1>0, <1>4, PutIsNet
  <2> QED
    BY <1>0, <1>3, <2>1, <2>2 DEF PageShape
<1>6. snapshots' \in Seq(lived') /\ Range(snapshots) \cup {before} \subseteq Range(snapshots')
  <2>1. snapshots \in Seq(lived') /\ before \in lived'
    BY <1>0, <1>2, <1>3, SeqGrows
  <2> QED
    BY <1>3, <2>1, SeqAppended DEF Range
<1>7. GoodRevisions'
  <2>1. pageTab'.calm => lived' \subseteq Range(snapshots') \cup {pageRow'.content}
    BY <1>0, <1>2, <1>3, <1>6 DEF RevisionsKept
  <2> QED
    BY <1>3, <1>6, <2>1 DEF GoodRevisions, RevisionsKept
<1>8. pageTab'.calm => OneCall(pageNet')
  BY <1>0, <1>1, <1>3, <1>4, OneCallKept
<1>9. ASSUME NEW j \in Slot, pageNet'[j] # Free PROVE GoodPageCall(pageNet[j])'
  <2>1. CASE j = i
    <3>1. pageNet'[j].st = "ok"
      BY <1>4, <2>1 DEF Put
    <3> QED
      BY <3>1 DEF GoodPageCall
  <2>2. CASE j # i
    <3>1. pageNet'[j] = pageNet[j] /\ j \in Pending(pageNet)
      BY <1>4, <1>9, <2>2 DEF Put, Pending
    <3>2. ~pageTab'.calm
      BY <1>0, <1>1, <1>3, <2>2, <3>1 DEF OneCall
    <3> QED
      BY <1>0, <1>3, <3>1, <3>2 DEF GoodPageCall, Pending
  <2> QED
    BY <2>1, <2>2
<1> QED
  BY <1>5, <1>7, <1>8, <1>9, RevisionsInvPartsNext

LEMMA PageStep == PageShape /\ RevisionsInv /\ [PageNext]_pageVars => PageShape' /\ RevisionsInv'
<1> SUFFICES ASSUME PageShape, RevisionsInv, [PageNext]_pageVars PROVE PageShape' /\ RevisionsInv'
  OBVIOUS
<1>1. CASE UNCHANGED pageVars
  BY <1>1, PageTabStep DEF pageVars, pageServer, PageShape
<1>2. CASE PageNext
  <2>1. ASSUME \/ TogglePublished \/ DropLastTag \/ \E t : TypeTitle(t) \/ TypeContent(t) \/ AddTag(t) \/ DropTag(t)
        PROVE  \E draft : Edit(draft)
    BY <2>1 DEF TogglePublished, DropLastTag, TypeTitle, TypeContent, AddTag, DropTag
  <2> QED
    BY <1>2, <2>1, PageUserStep, PageAnswerStep, PageWriteStep DEF PageNext
<1> QED
  BY <1>1, <1>2

\* "preserving the full revision history" (routers/pages.py:430): a content that
\* was replaced, by a save or by a restore, is among the versions; provided one
\* thing was done at a time.
THEOREM RevisionsAreKept == PageSpec => []RevisionsKept
<1>1. PageShape /\ RevisionsInv => RevisionsKept
  BY DEF RevisionsInv
<1> QED
  BY <1>1, PageInitInv, PageStep, PTL DEF PageSpec

-----------------------------------------------------------------------------
(***************************************************************************)
(* The connections: a secret that is left blank is kept.                   *)
(***************************************************************************)
\* Every connection has an id of its own.
ConnIds ==
    /\ made \in Nat
    /\ \A c \in conns : {"id", "config", "secret"} \subseteq DOMAIN c /\ c.id \in 1..made
    /\ \A c, d \in conns : c.id = d.id => c = d

\* What a step makes of the rows.
LEMMA ConnStep ==
    ASSUME ConnIds, [ConnsNext]_connVars
    PROVE  ConnIds' /\ \A c \in conns : c.secret => \A d \in conns' : d.id = c.id => d.secret
<1> DEFINE Fewer == conns' \subseteq conns /\ made' = made
<1>1. CASE Fewer
  BY <1>1 DEF ConnIds
<1>2. ASSUME NEW i \in Slot, CommitCreate(i)
      PROVE  ConnIds' /\ \A c \in conns : c.secret => \A d \in conns' : d.id = c.id => d.secret
  <2> DEFINE row == [id |-> made + 1, provider |-> connNet[i].arg.provider,
                     config |-> connNet[i].arg.config, secret |-> connNet[i].arg.secret]
  <2>1. conns' = conns \cup {row} /\ made' = made + 1
    BY <1>2 DEF CommitCreate
  <2>2. row.id = made + 1 /\ {"id", "config", "secret"} \subseteq DOMAIN row
    OBVIOUS
  <2> HIDE DEF row
  <2>3. \A c \in conns : c.id \in 1..(made + 1) /\ c.id # made + 1
    BY DEF ConnIds
  <2> QED
    BY <2>1, <2>2, <2>3 DEF ConnIds
<1>3. ASSUME NEW i \in Slot, ServeUpdate(i)
      PROVE  ConnIds' /\ \A c \in conns : c.secret => \A d \in conns' : d.id = c.id => d.secret
  <2> DEFINE arg == connNet[i].arg
             new(c) == IF c.id # arg.id THEN c ELSE [c EXCEPT !.config = arg.config, !.secret = @ \/ arg.secret]
  <2>1. conns' = {new(c) : c \in conns} /\ made' = made
    BY <1>3 DEF ServeUpdate
  <2>2. ASSUME NEW c \in conns
        PROVE  /\ new(c).id = c.id /\ {"id", "config", "secret"} \subseteq DOMAIN new(c)
               /\ c.secret => new(c).secret
    <3>1. {"id", "config", "secret"} \subseteq DOMAIN c
      BY DEF ConnIds
    <3> HIDE DEF arg
    <3> QED
      BY <3>1
  <2> HIDE DEF new
  <2> QED
    BY <2>1, <2>2 DEF ConnIds
<1>4. Fewer \/ \E i \in Slot : CommitCreate(i) \/ ServeUpdate(i)
  <2>1. ASSUME NEW c, DeleteConn(c) \/ TestConn(c) \/ OpenForm(c) PROVE Fewer
    BY <2>1 DEF DeleteConn, TestConn, OpenForm, PressConn
  <2>2. ASSUME NEW p, NEW s, NEW k, SubmitForm(p, s, k) PROVE Fewer
    BY <2>2 DEF SubmitForm, PressConn
  <2>3. ASSUME CloseForm \/ UNCHANGED connVars PROVE Fewer
    BY <2>3 DEF CloseForm, connVars
  <2>4. ASSUME NEW i \in Slot, \/ ServeConns(i) \/ ConnsRead(i) \/ ServeConnDelete(i) \/ ConnDeleted(i) \/ ServeTest(i)
                               \/ ConnTested(i) \/ BeginCreate(i) \/ ConnSaved(i) \/ ConnCallFails(i)
        PROVE  Fewer
    BY <2>4 DEF ServeConns, ConnsRead, ServeConnDelete, ConnDeleted, ServeTest, ConnTested, BeginCreate, ConnSaved,
                ConnCallFails
  <2> HIDE DEF Fewer
  <2> QED
    BY <2>1, <2>2, <2>3, <2>4, Zenon DEF ConnsNext
<1> QED
  BY <1>1, <1>2, <1>3, <1>4

\* "Blank means keep the stored secret" (ProviderConnectionForm.tsx:118): a
\* connection that has had a secret has one ever after, in whatever order forms of
\* it are saved.
THEOREM SecretsAreKept == ConnsSpec => SecretKept
<1>1. ConnsInit => ConnIds
  BY DEF ConnsInit, ConnIds
<1>2. ASSUME ConnIds, [ConnsNext]_connVars
      PROVE  /\ ConnIds'
             /\ [\A c \in conns : c.secret => \A d \in conns' : d.id = c.id => d.secret]_connVars
  BY <1>2, ConnStep
<1> QED
  BY <1>1, <1>2, PTL DEF ConnsSpec, SecretKept

-----------------------------------------------------------------------------
(***************************************************************************)
(* The editor of a role: a role loses or gains a permission only by its    *)
(* tick.  The invariant is GrantsInv of RoleEditor.                        *)
(***************************************************************************)
EditorOk(e) == {"of", "role", "assigned", "touched", "catalogue", "saving", "loading", "n"} \subseteq DOMAIN e

RoleTab == {"list", "edit", "clicks", "calm"} \subseteq DOMAIN roleTab /\ roleTab.clicks \in Nat

RoleShape ==
    /\ IsNet(roleNet) /\ rolesMade \in Nat /\ RoleTab
    /\ roleTab.edit # None => EditorOk(roleTab.edit)
    /\ \A j \in Slot : roleNet[j] # Free => (roleNet[j].op = "create" => roleNet[j].arg.id = None)

RoleIds ==
    /\ \A r \in roleRows : r.id \in 1..rolesMade
    /\ \A r, q \in roleRows : r.id = q.id => r = q

\* What holds when one thing is done at a time.
RoleCalm ==
    /\ OneCall(roleNet) /\ EditFits
    /\ \A i \in Pending(roleNet) : RoleCallFits(roleNet[i])

RoleInv == RoleShape /\ RoleIds /\ (roleTab.calm => RoleCalm)

LEMMA RoleInvHolds == RoleInv => GrantsInv
  BY DEF RoleInv, RoleIds, RoleCalm, GrantsInv, OneCall

LEMMA RoleInitInv == RolesInit => RoleInv
<1> SUFFICES ASSUME RolesInit PROVE RoleInv
  OBVIOUS
<1> DEFINE c == Call("roles", [n |-> 0])
<1>0. c.op = "roles" /\ IsCall(c)
  BY CallIsCall DEF Call
<1>1. PICK k : roleNet = Put(NoCalls, k, c)
  BY NoCallsIsNet, Sending DEF RolesInit
<1> HIDE DEF c
<1>2. \A j \in Slot : roleNet[j] # Free => roleNet[j] = c
  BY <1>1 DEF Put, NoCalls
<1>3. /\ roleRows = {RoleRow(1, TRUE, Permission), RoleRow(2, FALSE, Permission)} /\ rolesMade = 2
      /\ roleTab = [list |-> RoleListPage(0), edit |-> None, clicks |-> 0, calm |-> TRUE]
  BY DEF RolesInit
<1>4. RoleShape
  <2>1. IsNet(roleNet)
    BY <1>0, <1>1, NoCallsIsNet, PutIsNet
  <2> QED
    BY <1>0, <1>2, <1>3, <2>1 DEF RoleShape, RoleTab
<1>5. RoleIds
  <2> DEFINE a == RoleRow(1, TRUE, Permission)
             b == RoleRow(2, FALSE, Permission)
  <2>1. a.id = 1 /\ b.id = 2
    BY Zenon DEF RoleRow
  <2>2. roleRows = {a, b} /\ rolesMade = 2
    BY <1>3
  <2> HIDE DEF a, b
  <2>3. \A r \in roleRows : r.id \in 1..rolesMade
    BY <2>1, <2>2
  <2>4. \A r, q \in roleRows : r.id = q.id => r = q
    BY <2>1, <2>2
  <2> QED
    BY <2>3, <2>4 DEF RoleIds
<1>6. OneCall(roleNet)
  BY <1>1 DEF OneCall, Pending, Put, NoCalls
<1>7. EditFits
  BY <1>3 DEF EditFits
<1>8. \A i \in Pending(roleNet) : RoleCallFits(roleNet[i])
  BY <1>0, <1>2 DEF RoleCallFits, Pending
<1> QED
  BY <1>4, <1>5, <1>6, <1>7, <1>8 DEF RoleInv, RoleCalm

\* A tick, and nothing at all.
LEMMA RoleTickStep ==
    ASSUME RoleInv, UNCHANGED roleVars \/ \E p \in Permission : TogglePermission(p)
    PROVE  RoleInv'
<1>0. RoleShape /\ RoleIds /\ RoleTab
  BY DEF RoleInv, RoleShape
<1>1. CASE UNCHANGED roleVars
  BY <1>1 DEF RoleInv, roleVars, RoleShape, RoleTab, RoleIds, RoleCalm, EditFits, RoleCallFits, Pending
<1>2. ASSUME NEW p \in Permission, TogglePermission(p) PROVE RoleInv'
  <2> DEFINE edit == roleTab.edit
             a == IF p \in edit.assigned THEN edit.assigned \ {p} ELSE edit.assigned \cup {p}
             e == [edit EXCEPT !.assigned = a, !.touched = @ \cup {p}]
  <2>1. /\ edit # None /\ EditorOk(edit) /\ ~edit.loading
        /\ roleNet' = roleNet /\ roleRows' = roleRows /\ rolesMade' = rolesMade
    BY <1>0, <1>2 DEF TogglePermission, RoleShape, PressRole, roleServer
  <2>2. EditorOk(e) /\ e.of = edit.of /\ e.loading = edit.loading /\ e.assigned = a /\ e.touched = edit.touched \cup {p}
    <3> HIDE DEF edit, a
    <3> QED
      BY <2>1 DEF EditorOk
  <2>3. RoleTab' /\ roleTab'.edit = e /\ (roleTab'.calm => roleTab.calm /\ Quiet(roleNet))
    <3>1. /\ {"list", "edit", "clicks", "calm"} \subseteq DOMAIN StepRole /\ StepRole.edit = edit /\ StepRole.clicks \in Nat
          /\ StepRole.calm => roleTab.calm /\ Quiet(roleNet)
      BY <1>0, Pressing DEF StepRole, RoleTab
    <3>2. roleTab' = [StepRole EXCEPT !.edit = e]
      <4>1. roleTab' = [StepRole EXCEPT !.edit.assigned = IF p \in @ THEN @ \ {p} ELSE @ \cup {p},
                                        !.edit.touched = @ \cup {p}]
        BY <1>2 DEF TogglePermission
      <4> HIDE DEF edit
      <4> QED
        BY <3>1, <4>1
    <3> HIDE DEF e
    <3> QED
      BY <3>1, <3>2 DEF RoleTab
  <2> HIDE DEF e
  <2>4. RoleShape' /\ RoleIds'
    BY <1>0, <2>1, <2>2, <2>3 DEF RoleShape, RoleIds
  <2>5. ASSUME roleTab'.calm PROVE RoleCalm'
    <3>1. Pending(roleNet) = {} /\ EditFits /\ OneCall(roleNet)
      BY <2>3, <2>5 DEF Quiet, RoleInv, RoleCalm
    <3>2. EditFits'
      BY <2>1, <2>2, <2>3, <3>1 DEF EditFits, SameGrants
    <3> QED
      BY <2>1, <3>1, <3>2 DEF RoleCalm, Pending
  <2> QED
    BY <2>4, <2>5 DEF RoleInv
<1> QED
  BY <1>1, <1>2

\* A request is sent: of the list, of the editor, or of the session's effect.
LEMMA RoleSendStep ==
    ASSUME RoleInv, \/ SaveRole \/ SessionRenewed \/ LeaveRole
                    \/ (\E r \in roleTab.list.rows : DropRole(r)) \/ \E id : OpenRole(id)
    PROVE  RoleInv'
<1> DEFINE edit == roleTab.edit
<1>0. RoleShape /\ RoleIds /\ RoleTab /\ IsNet(roleNet) /\ roleRows' = roleRows /\ rolesMade' = rolesMade
  BY DEF RoleInv, RoleShape, SaveRole, SessionRenewed, LeaveRole, DropRole, OpenRole, PressRole, roleServer
<1>a. edit # None => EditorOk(edit)
  BY <1>0 DEF RoleShape
<1>b. /\ {"list", "edit", "clicks", "calm"} \subseteq DOMAIN StepRole /\ StepRole.edit = edit /\ StepRole.clicks \in Nat
      /\ StepRole.calm => roleTab.calm /\ Quiet(roleNet)
  BY <1>0, Pressing DEF StepRole, RoleTab
<1>1. PICK k, c :
          /\ k \in Slot \ Pending(roleNet)
          /\ roleNet' = Put(roleNet, k, c) /\ IsCall(c) /\ c.st = "sent"
          /\ RoleTab' /\ (roleTab'.calm => roleTab.calm /\ Quiet(roleNet))
          /\ roleTab'.edit # None => EditorOk(roleTab'.edit)
          /\ c.op = "create" => c.arg.id = None
          /\ \/ /\ c.op \in {"roles", "drop"} /\ roleTab'.edit = None
             \/ /\ c.op \in {"catalogue", "role"} /\ (c.op = "role" => roleTab'.edit.of = c.arg.id)
                /\ \/ roleTab'.edit = edit
                   \/ roleTab'.edit.loading \/ roleTab'.edit.of = None
             \/ /\ c.op \in {"create", "save"} /\ edit # None /\ ~edit.loading /\ c.arg.id = edit.of
                /\ c.op = "save" => edit.of # None /\ c.arg.perms = edit.assigned /\ c.arg.touched = edit.touched
                /\ roleTab'.edit.of = edit.of /\ roleTab'.edit.loading = edit.loading
                /\ roleTab'.edit.assigned = edit.assigned /\ roleTab'.edit.touched = edit.touched
  <2>1. CASE SaveRole
    <3> DEFINE arg == [id |-> edit.of, perms |-> edit.assigned, touched |-> edit.touched, n |-> edit.n]
               c == Call(IF edit.of = None THEN "create" ELSE "save", arg)
               e == [edit EXCEPT !.saving = TRUE]
    <3>1. edit # None /\ ~edit.loading /\ roleTab' = [StepRole EXCEPT !.edit.saving = TRUE]
      BY <2>1 DEF SaveRole
    <3>2. PICK k \in Slot \ Pending(roleNet) : roleNet' = Put(roleNet, k, c)
      BY <1>0, <2>1, SendingIntoRoom DEF SaveRole
    <3>3. /\ IsCall(c) /\ c.st = "sent" /\ c.op = (IF edit.of = None THEN "create" ELSE "save")
          /\ c.arg.id = edit.of /\ c.arg.perms = edit.assigned /\ c.arg.touched = edit.touched
      BY CallIsCall DEF Call
    <3> HIDE DEF c, edit
    <3>4. roleTab' = [StepRole EXCEPT !.edit = e]
      BY <1>b, <3>1
    <3>5. EditorOk(e) /\ e.of = edit.of /\ e.loading = edit.loading /\ e.assigned = edit.assigned /\ e.touched = edit.touched
      BY <1>a, <3>1 DEF EditorOk
    <3> HIDE DEF e
    <3>6. RoleTab' /\ roleTab'.edit = e /\ (roleTab'.calm => roleTab.calm /\ Quiet(roleNet))
      BY <1>b, <3>4 DEF RoleTab
    <3>7. (c.op = "create" => c.arg.id = None) /\ (c.op = "save" => edit.of # None) /\ c.op \in {"create", "save"}
      BY <3>3
    <3> QED
      BY <3>1, <3>2, <3>3, <3>5, <3>6, <3>7
  <2>2. CASE SessionRenewed
    <3> DEFINE c == Call(IF edit.of = None THEN "catalogue" ELSE "role", [id |-> edit.of, n |-> edit.n])
    <3>1. edit # None /\ roleTab' = StepRole
      BY <2>2 DEF SessionRenewed
    <3>2. PICK k \in Slot \ Pending(roleNet) : roleNet' = Put(roleNet, k, c)
      BY <1>0, <2>2, SendingIntoRoom DEF SessionRenewed
    <3>3. /\ IsCall(c) /\ c.st = "sent" /\ c.op = (IF edit.of = None THEN "catalogue" ELSE "role") /\ c.arg.id = edit.of
      BY CallIsCall DEF Call
    <3> HIDE DEF c
    <3>4. c.op \in {"catalogue", "role"} /\ c.op # "create"
      BY <3>3
    <3> QED
      BY <1>a, <1>b, <3>1, <3>2, <3>3, <3>4 DEF RoleTab
  <2>3. CASE LeaveRole
    <3> DEFINE c == Call("roles", [n |-> roleTab.clicks])
    <3>1. roleTab' = [StepRole EXCEPT !.edit = None, !.list = RoleListPage(roleTab.clicks)]
      BY <2>3 DEF LeaveRole
    <3>2. PICK k \in Slot \ Pending(roleNet) : roleNet' = Put(roleNet, k, c)
      BY <1>0, <2>3, SendingIntoRoom DEF LeaveRole
    <3>3. IsCall(c) /\ c.st = "sent" /\ c.op = "roles"
      BY CallIsCall DEF Call
    <3> HIDE DEF c, edit
    <3>4. RoleTab' /\ roleTab'.edit = None /\ (roleTab'.calm => roleTab.calm /\ Quiet(roleNet))
      BY <1>b, <3>1 DEF RoleTab
    <3> QED
      BY <3>2, <3>3, <3>4
  <2>4. ASSUME NEW r \in roleTab.list.rows, DropRole(r)
        PROVE  \E k \in Slot \ Pending(roleNet) :
                  /\ roleNet' = Put(roleNet, k, Call("drop", [id |-> r.id, n |-> roleTab.list.n]))
                  /\ RoleTab' /\ roleTab'.edit = None /\ (roleTab'.calm => roleTab.calm /\ Quiet(roleNet))
    <3>1. roleTab' = [StepRole EXCEPT !.list.deleting = r.id] /\ edit = None
      BY <2>4 DEF DropRole
    <3>2. PICK k \in Slot \ Pending(roleNet) : roleNet' = Put(roleNet, k, Call("drop", [id |-> r.id, n |-> roleTab.list.n]))
      BY <1>0, <2>4, SendingIntoRoom DEF DropRole
    <3>3. RoleTab' /\ roleTab'.edit = None /\ (roleTab'.calm => roleTab.calm /\ Quiet(roleNet))
      BY <1>b, <3>1 DEF RoleTab
    <3> QED
      BY <3>2, <3>3
  <2>5. ASSUME NEW id, OpenRole(id)
        PROVE  \E k \in Slot \ Pending(roleNet) : \E c :
                  /\ roleNet' = Put(roleNet, k, c) /\ IsCall(c) /\ c.st = "sent"
                  /\ RoleTab' /\ (roleTab'.calm => roleTab.calm /\ Quiet(roleNet))
                  /\ EditorOk(roleTab'.edit)
                  /\ c.op \in {"catalogue", "role"} /\ (c.op = "role" => roleTab'.edit.of = c.arg.id)
                  /\ roleTab'.edit.loading \/ roleTab'.edit.of = None
    <3> DEFINE c == Call(IF id = None THEN "catalogue" ELSE "role", [id |-> id, n |-> roleTab.clicks])
               e == EditorOf(id)
    <3>1. roleTab' = [StepRole EXCEPT !.edit = e]
      BY <2>5 DEF OpenRole
    <3>2. PICK k \in Slot \ Pending(roleNet) : roleNet' = Put(roleNet, k, c)
      BY <1>0, <2>5, SendingIntoRoom DEF OpenRole, LoadRole
    <3>3. IsCall(c) /\ c.st = "sent" /\ c.op \in {"catalogue", "role"} /\ c.arg.id = id
      BY CallIsCall DEF Call
    <3>4. EditorOk(e) /\ e.of = id /\ (e.loading \/ id = None)
      BY DEF EditorOk, EditorOf
    <3> HIDE DEF c, edit, e
    <3>5. RoleTab' /\ roleTab'.edit = e /\ (roleTab'.calm => roleTab.calm /\ Quiet(roleNet))
      BY <1>b, <3>1 DEF RoleTab
    <3> QED
      BY <3>2, <3>3, <3>4, <3>5
  <2>6. \A r : /\ Call("drop", [id |-> r.id, n |-> roleTab.list.n]).op = "drop"
               /\ Call("drop", [id |-> r.id, n |-> roleTab.list.n]).st = "sent"
    BY DEF Call
  <2> HIDE DEF edit
  <2>7. ASSUME NEW r \in roleTab.list.rows, DropRole(r)
        PROVE  \E k \in Slot \ Pending(roleNet) : \E c :
                  /\ roleNet' = Put(roleNet, k, c) /\ IsCall(c) /\ c.st = "sent" /\ c.op = "drop"
                  /\ RoleTab' /\ roleTab'.edit = None /\ (roleTab'.calm => roleTab.calm /\ Quiet(roleNet))
    BY <2>4, <2>6, <2>7, CallIsCall
  <2>8. "drop" # "create" /\ "role" # "create" /\ "catalogue" # "create"
    OBVIOUS
  <2> QED
    BY <2>1, <2>2, <2>3, <2>5, <2>7, <2>8
<1> HIDE DEF edit
<1>2. RoleShape' /\ RoleIds'
  <2>1. IsNet(roleNet')
    BY <1>0, <1>1, PutIsNet
  <2>2. \A j \in Slot : roleNet'[j] # Free => (roleNet'[j].op = "create" => roleNet'[j].arg.id = None)
    BY <1>0, <1>1 DEF RoleShape, Put
  <2> QED
    BY <1>0, <1>1, <2>1, <2>2 DEF RoleShape, RoleIds
<1>3. ASSUME roleTab'.calm PROVE RoleCalm'
  <2>1. Pending(roleNet) = {} /\ EditFits
    BY <1>1, <1>3 DEF Quiet, RoleInv, RoleCalm
  <2>2. OneCall(roleNet')
    BY <1>0, <1>1, <1>3, OneCallKept
  <2>3. \A j \in Pending(roleNet') : roleNet'[j] = c
    BY <1>1, <2>1 DEF Pending, Put
  <2>4. EditFits'
    BY <1>0, <1>1, <2>1 DEF EditFits, edit
  <2>5. c.op = "save" => SameGrants(roleRows, c.arg.perms, c.arg.id, c.arg.touched)
    BY <1>1, <2>1 DEF EditFits, edit
  <2>6. \A j \in Pending(roleNet') : RoleCallFits(roleNet[j])'
    BY <1>0, <1>1, <2>3, <2>5 DEF RoleCallFits, edit
  <2> QED
    BY <2>2, <2>4, <2>6 DEF RoleCalm
<1> QED
  BY <1>2, <1>3 DEF RoleInv

\* The server answers, or the connection breaks.
LEMMA RoleServerStep ==
    ASSUME RoleInv, NEW i \in Slot,
           \/ ServeRoles(i) \/ ServeDropRole(i) \/ ServeRole(i) \/ ServeCreateRole(i) \/ ServeSaveRole(i)
           \/ RoleCallFails(i)
    PROVE  RoleInv'
<1> DEFINE c == roleNet[i]
           ok(out) == [op |-> c.op, arg |-> c.arg, st |-> "ok", out |-> out]
           err == [op |-> c.op, arg |-> c.arg, st |-> "err", out |-> c.out]
           new == RoleRow(c.arg.id, FALSE, c.arg.perms)
           added == RoleRow(rolesMade + 1, FALSE, c.arg.perms)
<1>0. /\ RoleShape /\ RoleIds /\ RoleTab /\ IsNet(roleNet) /\ i \in Pending(roleNet) /\ c # Free /\ rolesMade \in Nat
      /\ \A r \in roleRows : r.id \in 1..rolesMade
      /\ \A r, q \in roleRows : r.id = q.id => r = q
  BY DEF RoleInv, RoleShape, RoleIds, ServeRoles, ServeDropRole, ServeRole, ServeCreateRole, ServeSaveRole,
         RoleCallFails, Sent, CanFail, Pending
<1>1. /\ RoleTab' /\ roleTab'.edit = roleTab.edit /\ (roleTab'.calm => roleTab.calm)
  <2>1. CASE RoleCallFails(i)
    BY <1>0, <2>1 DEF RoleCallFails, Missed, RoleTab
  <2>2. CASE roleTab' = roleTab
    BY <1>0, <2>2 DEF RoleTab
  <2> QED
    BY <2>1, <2>2 DEF ServeRoles, ServeDropRole, ServeRole, ServeCreateRole, ServeSaveRole
<1>a. /\ \A out : Reply(roleNet, i, out) = Put(roleNet, i, ok(out)) /\ IsCall(ok(out))
      /\ Fail(roleNet, i) = Put(roleNet, i, err) /\ IsCall(err)
      /\ \A out : ok(out).op = c.op /\ ok(out).arg = c.arg /\ ok(out).st = "ok" /\ ok(out).out = out
      /\ err.op = c.op /\ err.arg = c.arg /\ err.st = "err"
  BY <1>0, Answering DEF IsCall
<1>b. new.id = c.arg.id /\ new.perms = c.arg.perms /\ added.id = rolesMade + 1
  BY Zenon DEF RoleRow
<1> HIDE DEF ok, err
<1>2. PICK d : /\ roleNet' = Put(roleNet, i, d) /\ IsCall(d) /\ d.op = c.op /\ d.arg = c.arg
               /\ \/ /\ roleRows' \subseteq roleRows /\ rolesMade' = rolesMade
                     /\ c.op = "role" => roleRows' = roleRows
                     /\ c.op = "role" /\ d.st = "ok" => d.out \in roleRows /\ d.out.id = c.arg.id
                  \/ /\ c.op = "create" /\ rolesMade' = rolesMade + 1
                     /\ roleRows' = roleRows \cup {added}
                  \/ /\ c.op = "save" /\ rolesMade' = rolesMade
                     /\ \A q \in roleRows' : \/ q \in roleRows
                                             \/ q = new
                                                /\ \E r \in roleRows : r.id = c.arg.id
                     /\ (\E q \in roleRows' : q \notin roleRows) => \A r \in roleRows : r.id = c.arg.id => r \notin roleRows' \/ r = new
  <2>1. CASE ServeRoles(i)
    <3>1. roleNet' = Put(roleNet, i, ok(roleRows)) /\ c.op = "roles" /\ roleRows' = roleRows /\ rolesMade' = rolesMade
      BY <1>a, <2>1 DEF ServeRoles, Sent, roleServer
    <3> QED
      BY <1>a, <3>1
  <2>2. CASE ServeDropRole(i)
    <3>1. /\ c.op = "drop" /\ roleRows' \subseteq roleRows /\ rolesMade' = rolesMade
          /\ roleNet' = Fail(roleNet, i) \/ roleNet' = Reply(roleNet, i, None)
      BY <2>2 DEF ServeDropRole, Sent
    <3> QED
      BY <1>a, <3>1
  <2>3. CASE ServeRole(i)
    <3> DEFINE row == {r \in roleRows : r.id = c.arg.id}
    <3>1. /\ roleRows' = roleRows /\ rolesMade' = rolesMade
          /\ \/ c.op = "catalogue" /\ roleNet' = Reply(roleNet, i, None)
             \/ c.op = "role" /\ roleNet' = IF row = {} THEN Fail(roleNet, i) ELSE Reply(roleNet, i, CHOOSE r \in row : TRUE)
      BY <2>3 DEF ServeRole, Sent, roleServer
    <3>2. CASE c.op = "catalogue"
      BY <1>a, <3>1, <3>2
    <3>3. CASE c.op = "role" /\ row = {}
      BY <1>a, <3>1, <3>3
    <3>4. CASE c.op = "role" /\ row # {}
      <4>1. PICK r \in row : roleNet' = Put(roleNet, i, ok(r))
        BY <1>a, <3>1, <3>4
      <4> QED
        BY <1>a, <3>1, <3>4, <4>1
    <3> QED
      BY <3>1, <3>2, <3>3, <3>4
  <2>4. CASE ServeCreateRole(i)
    <3>1. /\ roleNet' = Put(roleNet, i, ok(None)) /\ c.op = "create" /\ rolesMade' = rolesMade + 1
          /\ roleRows' = roleRows \cup {added}
      BY <1>a, <2>4 DEF ServeCreateRole, Sent
    <3> QED
      BY <1>a, <3>1
  <2>5. CASE ServeSaveRole(i)
    <3> DEFINE row == {r \in roleRows : r.id = c.arg.id /\ ~r.system}
    <3>1. /\ c.op = "save" /\ rolesMade' = rolesMade
          /\ roleRows' = (roleRows \ row) \cup {RoleRow(r.id, FALSE, c.arg.perms) : r \in row}
          /\ roleNet' = Fail(roleNet, i) \/ roleNet' = Reply(roleNet, i, None)
      BY <2>5 DEF ServeSaveRole, Sent
    <3>3. \A q \in roleRows' : \/ q \in roleRows
                               \/ q = new /\ \E r \in row : TRUE
      BY <3>1
    <3>4. \A r \in row : r \notin roleRows' \/ r = new
      BY <3>1
    <3>5. (\E q \in roleRows' : q \notin roleRows) =>
              \A r \in roleRows : r.id = c.arg.id => r \in row
      BY <1>0, <3>3
    <3>6. \A r \in row : r \in roleRows /\ r.id = c.arg.id
      OBVIOUS
    <3> HIDE DEF row, c, new
    <3>7. /\ \A q \in roleRows' : q \in roleRows \/ (q = new /\ \E r \in roleRows : r.id = c.arg.id)
          /\ (\E q \in roleRows' : q \notin roleRows) =>
                 \A r \in roleRows : r.id = c.arg.id => r \notin roleRows' \/ r = new
      BY <3>3, <3>4, <3>5, <3>6
    <3>8. \E d : roleNet' = Put(roleNet, i, d) /\ IsCall(d) /\ d.op = c.op /\ d.arg = c.arg
      BY <1>a, <3>1
    <3> QED
      BY <3>1, <3>7, <3>8
  <2>6. CASE RoleCallFails(i)
    <3>1. roleNet' = Put(roleNet, i, err) /\ roleRows' = roleRows /\ rolesMade' = rolesMade
      BY <1>a, <2>6 DEF RoleCallFails, roleServer
    <3> QED
      BY <1>a, <3>1
  <2> QED
    BY <2>1, <2>2, <2>3, <2>4, <2>5, <2>6
<1> HIDE DEF c, new, added
<1>3. RoleIds' /\ rolesMade' \in Nat
  <2>1. CASE roleRows' \subseteq roleRows /\ rolesMade' = rolesMade
    BY <1>0, <2>1 DEF RoleIds
  <2>2. CASE rolesMade' = rolesMade + 1 /\ roleRows' = roleRows \cup {added}
    <3>1. \A r \in roleRows : r.id \in 1..(rolesMade + 1) /\ r.id # rolesMade + 1
      BY <1>0
    <3> QED
      BY <1>0, <1>b, <2>2, <3>1 DEF RoleIds
  <2>3. CASE /\ rolesMade' = rolesMade
             /\ \A q \in roleRows' : \/ q \in roleRows
                                     \/ q = new /\ \E r \in roleRows : r.id = c.arg.id
             /\ (\E q \in roleRows' : q \notin roleRows) =>
                    \A r \in roleRows : r.id = c.arg.id => r \notin roleRows' \/ r = new
    <3>1. \A q \in roleRows' : q.id \in 1..rolesMade
      BY <1>0, <1>b, <2>3
    <3>2. \A r, q \in roleRows' : r.id = q.id => r = q
      BY <1>0, <1>b, <2>3
    <3> QED
      BY <1>0, <2>3, <3>1, <3>2 DEF RoleIds
  <2> QED
    BY <1>2, <2>1, <2>2, <2>3
<1>4. RoleShape'
  <2>1. IsNet(roleNet')
    BY <1>0, <1>2, PutIsNet
  <2>2. \A j \in Slot : roleNet'[j] # Free => (roleNet'[j].op = "create" => roleNet'[j].arg.id = None)
    BY <1>0, <1>2 DEF RoleShape, Put, Pending, c
  <2> QED
    BY <1>0, <1>1, <1>3, <2>1, <2>2 DEF RoleShape
<1>5. ASSUME roleTab'.calm PROVE RoleCalm'
  <2>0. OneCall(roleNet) /\ EditFits /\ RoleCallFits(c)
    BY <1>0, <1>1, <1>5 DEF RoleInv, RoleCalm, c
  <2>1. OneCall(roleNet')
    BY <1>0, <1>2, <2>0, OneCallKept
  <2>2. \A j \in Pending(roleNet') : roleNet'[j] = d
    BY <1>0, <1>2, <2>0 DEF OneCall, Pending, Put
  <2>3. EditFits'
    <3>1. CASE roleRows' \subseteq roleRows
      BY <1>1, <2>0, <3>1 DEF EditFits, SameGrants
    <3>2. CASE c.op = "create"
      <4>1. c.arg.id = None
        BY <1>0, <3>2 DEF RoleShape, Pending, c
      <4> QED
        BY <1>1, <2>0, <3>2, <4>1 DEF EditFits, RoleCallFits
    <3>3. CASE c.op = "save" /\ \A q \in roleRows' : \/ q \in roleRows
                                                     \/ q = new
                                                        /\ \E r \in roleRows : r.id = c.arg.id
      BY <1>1, <1>b, <2>0, <3>3 DEF EditFits, RoleCallFits, SameGrants
    <3> QED
      BY <1>2, <3>1, <3>2, <3>3
  <2>4. RoleCallFits(d)'
    <3>1. c.op = "save" => SameGrants(roleRows', c.arg.perms, c.arg.id, c.arg.touched)
      BY <1>2, <1>b, <2>0 DEF RoleCallFits, SameGrants
    <3>2. c.op = "role" /\ d.st = "ok" => SameGrants(roleRows', d.out.perms, c.arg.id, {})
      BY <1>0, <1>2 DEF SameGrants
    <3> QED
      BY <1>1, <1>2, <2>0, <3>1, <3>2 DEF RoleCallFits
  <2> QED
    BY <2>1, <2>2, <2>3, <2>4 DEF RoleCalm
<1> QED
  BY <1>3, <1>4, <1>5 DEF RoleInv

\* The answers reach the list or the editor.
LEMMA RoleAnswerStep ==
    ASSUME RoleInv, NEW i \in Slot,
           RolesRead(i) \/ RoleDropped(i) \/ CatalogueRead(i) \/ RoleRead(i) \/ RoleSettled(i)
    PROVE  RoleInv'
<1> DEFINE c == roleNet[i]
           edit == roleTab.edit
           read == Call("roles", [n |-> roleTab.clicks])
<1>0. /\ RoleShape /\ RoleIds /\ RoleTab /\ IsNet(roleNet) /\ i \in Pending(roleNet) /\ c # Free
      /\ roleRows' = roleRows /\ rolesMade' = rolesMade
  BY DEF RoleInv, RoleShape, RolesRead, RoleDropped, CatalogueRead, RoleRead, RoleSettled, ToRoles, Settled, Ok, Err,
         Pending, roleServer
<1>a. edit # None => EditorOk(edit)
  BY <1>0 DEF RoleShape
<1>b. /\ Done(roleNet, i) = Put(roleNet, i, Free)
      /\ Then(roleNet, i, "roles", [n |-> roleTab.clicks]) = Put(roleNet, i, read)
      /\ IsCall(read) /\ read.op = "roles"
  BY <1>0, Ending, CallIsCall DEF Call
<1> HIDE DEF read
<1>1. /\ RoleTab' /\ (roleTab'.calm => roleTab.calm)
      /\ roleTab'.edit # None => EditorOk(roleTab'.edit)
      /\ \/ roleTab'.edit = None
         \/ /\ edit # None /\ roleTab'.edit.of = edit.of
            /\ \/ /\ roleTab'.edit.loading = edit.loading /\ roleTab'.edit.assigned = edit.assigned
                  /\ roleTab'.edit.touched = edit.touched
               \/ c.op = "role" /\ c.st = "ok" /\ roleTab'.edit.assigned = c.out.perms /\ roleTab'.edit.touched = {}
      /\ roleNet' = Put(roleNet, i, Free) \/ roleNet' = Put(roleNet, i, read)
  <2>1. CASE RolesRead(i) \/ RoleDropped(i)
    <3>1. /\ roleNet' = Put(roleNet, i, Free)
          /\ \/ roleTab' = roleTab
             \/ roleTab' = [roleTab EXCEPT !.list.rows = c.out, !.list.loading = FALSE]
             \/ roleTab' = [roleTab EXCEPT !.list.loading = FALSE, !.calm = FALSE]
             \/ roleTab' = [roleTab EXCEPT !.list.deleting = None, !.list.rows = {r \in @ : r.id # c.arg.id}]
             \/ roleTab' = [roleTab EXCEPT !.list.deleting = None]
      BY <1>b, <2>1 DEF RolesRead, RoleDropped
    <3>2. RoleTab' /\ roleTab'.edit = edit /\ (roleTab'.calm => roleTab.calm)
      <4> HIDE DEF c
      <4> QED
        BY <1>0, <3>1 DEF RoleTab
    <3>3. edit = None \/ edit # None
      OBVIOUS
    <3> QED
      BY <1>a, <3>1, <3>2, <3>3
  <2>2. CASE CatalogueRead(i)
    <3>1. /\ roleNet' = Put(roleNet, i, Free)
          /\ \/ roleTab' = roleTab
             \/ edit # None /\ roleTab' = [roleTab EXCEPT !.edit.catalogue = TRUE]
      BY <1>b, <2>2 DEF CatalogueRead, OnRole
    <3>2. CASE roleTab' = roleTab
      BY <1>0, <1>a, <3>1, <3>2 DEF RoleTab
    <3>3. CASE edit # None /\ roleTab' = [roleTab EXCEPT !.edit.catalogue = TRUE]
      <4> DEFINE e == [edit EXCEPT !.catalogue = TRUE]
      <4>1. RoleTab' /\ roleTab'.edit = e /\ roleTab'.calm = roleTab.calm
        BY <1>0, <3>3 DEF RoleTab
      <4>2. EditorOk(e) /\ e.of = edit.of /\ e.loading = edit.loading /\ e.assigned = edit.assigned /\ e.touched = edit.touched
        <5> HIDE DEF edit
        <5> QED
          BY <1>a, <3>3 DEF EditorOk
      <4> HIDE DEF e
      <4> QED
        BY <3>1, <3>3, <4>1, <4>2
    <3> QED
      BY <3>1, <3>2, <3>3
  <2>3. CASE RoleRead(i)
    <3>0. c.op = "role" /\ c.st = "ok"
      BY <2>3 DEF RoleRead, Ok
    <3>1. /\ roleNet' = Put(roleNet, i, Free)
          /\ \/ roleTab' = roleTab
             \/ /\ edit # None
                /\ roleTab' = [roleTab EXCEPT !.edit.role = c.out, !.edit.assigned = c.out.perms,
                                              !.edit.touched = {}, !.edit.catalogue = TRUE, !.edit.loading = FALSE]
      BY <1>b, <2>3 DEF RoleRead, OnRole
    <3>2. CASE roleTab' = roleTab
      BY <1>0, <1>a, <3>1, <3>2 DEF RoleTab
    <3>3. CASE /\ edit # None
               /\ roleTab' = [roleTab EXCEPT !.edit.role = c.out, !.edit.assigned = c.out.perms,
                                             !.edit.touched = {}, !.edit.catalogue = TRUE, !.edit.loading = FALSE]
      <4> DEFINE e == [edit EXCEPT !.role = c.out, !.assigned = c.out.perms, !.touched = {},
                                   !.catalogue = TRUE, !.loading = FALSE]
      <4>1. RoleTab' /\ roleTab'.edit = e /\ roleTab'.calm = roleTab.calm
        <5> HIDE DEF c
        <5> QED
          BY <1>0, <3>3 DEF RoleTab
      <4>2. EditorOk(e) /\ e.of = edit.of /\ e.assigned = c.out.perms /\ e.touched = {}
        <5> HIDE DEF edit, c
        <5> QED
          BY <1>a, <3>3 DEF EditorOk
      <4> HIDE DEF e
      <4> QED
        BY <3>0, <3>1, <3>3, <4>1, <4>2
    <3> QED
      BY <3>1, <3>2, <3>3
  <2>4. CASE RoleSettled(i)
    <3>1. \/ /\ roleTab' = [roleTab EXCEPT !.edit = None, !.list = RoleListPage(roleTab.clicks)]
             /\ roleNet' = Put(roleNet, i, read)
          \/ /\ roleNet' = Put(roleNet, i, Free)
             /\ roleTab' = roleTab \/ (edit # None /\ roleTab' = [roleTab EXCEPT !.edit.saving = FALSE])
      BY <1>b, <2>4 DEF RoleSettled, ToRoles, OnRole
    <3>2. CASE roleTab' = roleTab
      BY <1>0, <1>a, <3>1, <3>2 DEF RoleTab
    <3>3. CASE roleTab' = [roleTab EXCEPT !.edit = None, !.list = RoleListPage(roleTab.clicks)]
      BY <1>0, <3>1, <3>3 DEF RoleTab
    <3>4. CASE edit # None /\ roleTab' = [roleTab EXCEPT !.edit.saving = FALSE]
      <4> DEFINE e == [edit EXCEPT !.saving = FALSE]
      <4>1. RoleTab' /\ roleTab'.edit = e /\ roleTab'.calm = roleTab.calm
        BY <1>0, <3>4 DEF RoleTab
      <4>2. EditorOk(e) /\ e.of = edit.of /\ e.loading = edit.loading /\ e.assigned = edit.assigned /\ e.touched = edit.touched
        <5> HIDE DEF edit
        <5> QED
          BY <1>a, <3>4 DEF EditorOk
      <4>3. roleNet' = Put(roleNet, i, Free) \/ roleNet' = Put(roleNet, i, read)
        BY <3>1
      <4> HIDE DEF e
      <4> QED
        BY <3>4, <4>1, <4>2, <4>3
    <3> QED
      BY <3>1, <3>2, <3>3, <3>4
  <2> QED
    BY <2>1, <2>2, <2>3, <2>4
<1> HIDE DEF c, edit
<1>2. RoleShape' /\ RoleIds'
  <2>1. IsNet(roleNet')
    BY <1>0, <1>1, <1>b, PutIsNet
  <2>2. \A j \in Slot : roleNet'[j] # Free => (roleNet'[j].op = "create" => roleNet'[j].arg.id = None)
    BY <1>0, <1>1, <1>b DEF RoleShape, Put
  <2> QED
    BY <1>0, <1>1, <2>1, <2>2 DEF RoleShape, RoleIds
<1>3. ASSUME roleTab'.calm PROVE RoleCalm'
  <2>0. OneCall(roleNet) /\ EditFits /\ RoleCallFits(c)
    BY <1>0, <1>1, <1>3 DEF RoleInv, RoleCalm, c
  <2>1. OneCall(roleNet')
    BY <1>0, <1>1, <2>0, OneCallKept
  <2>2. \A j \in Pending(roleNet') : roleNet'[j] = read
    BY <1>0, <1>1, <2>0 DEF OneCall, Pending, Put
  <2>3. EditFits'
    BY <1>0, <1>1, <2>0 DEF EditFits, RoleCallFits, edit
  <2>4. \A j \in Pending(roleNet') : RoleCallFits(roleNet[j])'
    BY <1>b, <2>2 DEF RoleCallFits
  <2> QED
    BY <2>1, <2>3, <2>4 DEF RoleCalm
<1> QED
  BY <1>2, <1>3 DEF RoleInv

\* Every step of the page keeps its invariant.
LEMMA RoleStep ==
    ASSUME RoleInv, [RolesNext]_roleVars
    PROVE  RoleInv'
<1>1. CASE UNCHANGED roleVars \/ \E p \in Permission : TogglePermission(p)
  BY <1>1, RoleTickStep
<1>2. CASE \/ SaveRole \/ SessionRenewed \/ LeaveRole
           \/ (\E r \in roleTab.list.rows : DropRole(r)) \/ \E id : OpenRole(id)
  BY <1>2, RoleSendStep
<1>3. ASSUME NEW i \in Slot, \/ ServeRoles(i) \/ ServeDropRole(i) \/ ServeRole(i) \/ ServeCreateRole(i)
                             \/ ServeSaveRole(i) \/ RoleCallFails(i)
      PROVE  RoleInv'
  BY <1>3, RoleServerStep
<1>4. ASSUME NEW i \in Slot, RolesRead(i) \/ RoleDropped(i) \/ CatalogueRead(i) \/ RoleRead(i) \/ RoleSettled(i)
      PROVE  RoleInv'
  BY <1>4, RoleAnswerStep
<1> QED
  BY <1>1, <1>2, <1>3, <1>4, Zenon DEF RolesNext

\* What a role loses or gains by a step was ticked in the editor it was saved from.
LEMMA RoleChanges ==
    ASSUME RoleInv, [RolesNext]_roleVars, NEW r \in roleRows, NEW q \in roleRows', roleTab.calm, r.id = q.id,
           NEW p \in Permission, (p \in r.perms) # (p \in q.perms)
    PROVE  \E i \in Slot : Sent(roleNet, i, "save") /\ roleNet[i].arg.id = r.id /\ p \in roleNet[i].arg.touched
<1>1. RoleShape /\ RoleIds /\ RoleCalm /\ r.id \in 1..rolesMade /\ rolesMade \in Nat
  BY DEF RoleInv, RoleIds, RoleShape
<1>2. q \notin roleRows
  BY <1>1 DEF RoleIds
<1>3. PICK i \in Slot : ServeCreateRole(i) \/ ServeSaveRole(i)
  <2>1. roleRows' \subseteq roleRows \/ \E i \in Slot : ServeCreateRole(i) \/ ServeSaveRole(i)
    <3>1. ASSUME NEW x, DropRole(x) \/ OpenRole(x) \/ TogglePermission(x) PROVE roleRows' = roleRows
      BY <3>1 DEF DropRole, OpenRole, TogglePermission, PressRole, roleServer
    <3>2. ASSUME SessionRenewed \/ SaveRole \/ LeaveRole \/ UNCHANGED roleVars PROVE roleRows' = roleRows
      BY <3>2 DEF SessionRenewed, SaveRole, LeaveRole, PressRole, roleServer, roleVars
    <3>3. ASSUME NEW i \in Slot, \/ ServeRoles(i) \/ RolesRead(i) \/ ServeDropRole(i) \/ RoleDropped(i) \/ ServeRole(i)
                                 \/ CatalogueRead(i) \/ RoleRead(i) \/ RoleSettled(i) \/ RoleCallFails(i)
          PROVE  roleRows' \subseteq roleRows
      BY <3>3 DEF ServeRoles, RolesRead, ServeDropRole, RoleDropped, ServeRole, CatalogueRead, RoleRead, RoleSettled,
                  RoleCallFails, roleServer
    <3> QED
      BY <3>1, <3>2, <3>3, Zenon DEF RolesNext
  <2> QED
    BY <1>2, <2>1
<1>4. CASE ServeCreateRole(i)
  <2>1. q = RoleRow(rolesMade + 1, FALSE, roleNet[i].arg.perms)
    BY <1>2, <1>4 DEF ServeCreateRole
  <2>2. q.id = rolesMade + 1
    BY <2>1, Zenon DEF RoleRow
  <2> QED
    BY <1>1, <2>2
<1>5. CASE ServeSaveRole(i)
  <2> DEFINE arg == roleNet[i].arg
  <2>1. PICK s \in roleRows : s.id = arg.id /\ q = RoleRow(s.id, FALSE, arg.perms)
    BY <1>2, <1>5 DEF ServeSaveRole
  <2>2. q.id = s.id /\ q.perms = arg.perms
    BY <2>1, Zenon DEF RoleRow
  <2>3. Sent(roleNet, i, "save") /\ RoleCallFits(roleNet[i]) /\ roleNet[i].op = "save"
    BY <1>1, <1>5 DEF ServeSaveRole, RoleCalm, Sent, Pending
  <2>4. SameGrants(roleRows, arg.perms, arg.id, arg.touched)
    BY <2>3 DEF RoleCallFits
  <2>5. p \in arg.touched
    BY <2>1, <2>2, <2>4, ZenonT(60) DEF SameGrants
  <2> QED
    BY <2>1, <2>2, <2>3, <2>5
<1> QED
  BY <1>3, <1>4, <1>5

\* A role loses or gains a permission only by a save of the editor in which that
\* permission was ticked; provided one thing was done at a time.
THEOREM GrantsAreKept == RolesSpec => GrantsKept
<1>1. ASSUME RoleInv, [RolesNext]_roleVars
      PROVE  [\A r \in roleRows, q \in roleRows' :
                roleTab.calm /\ r.id = q.id =>
                    \A p \in Permission : (p \in r.perms) # (p \in q.perms) =>
                        \E i \in Slot : Sent(roleNet, i, "save") /\ roleNet[i].arg.id = r.id
                                         /\ p \in roleNet[i].arg.touched]_roleVars
  BY <1>1, RoleChanges
<1> QED
  BY <1>1, RoleInitInv, RoleStep, PTL DEF RolesSpec, GrantsKept

-----------------------------------------------------------------------------
(***************************************************************************)
(* The notification groups: a destination goes only by a change of its own *)
(* channel.  The invariant is DestinationsInv of GroupsPage.               *)
(***************************************************************************)
GroupFormOk(f) ==
    /\ {"of", "channels", "touched", "saving", "n"} \subseteq DOMAIN f
    /\ f.of \in {None} \cup Nat /\ f.channels \in GroupChannels /\ f.touched \subseteq Channels /\ f.n \in Nat

GroupSent(c) ==
    /\ c.op = "groups" => c.arg = None /\ (c.st = "sent" => c.out = None) /\ (c.st = "ok" => c.out \subseteq GroupRow)
    /\ c.op = "create" => c.arg.id = None
    /\ c.op \in {"create", "save"} => c.arg \in GroupBody /\ Blank \notin c.arg.channels.hooks

GroupTab == {"rows", "loading", "form", "clicks", "calm"} \subseteq DOMAIN groupPage

GroupShape ==
    /\ IsNet(groupNet) /\ groupsMade \in Nat /\ GroupTab /\ groupPage.clicks \in Nat
    /\ groups \cup groupPage.rows \subseteq GroupRow
    /\ groupPage.form # None => GroupFormOk(groupPage.form)
    /\ \A j \in Slot : groupNet[j] # Free => GroupSent(groupNet[j])

GroupIds ==
    /\ \A g \in groups : g.id \in 1..groupsMade /\ Blank \notin g.channels.hooks
    /\ \A g, h \in groups : g.id = h.id => g = h

\* What holds when one thing is done at a time.
GroupCalm ==
    /\ OneCall(groupNet)
    /\ RowsAgree \/ \E i \in Pending(groupNet) : Refreshing(groupNet[i])
    /\ FormFits
    /\ \A i \in Pending(groupNet) : SendFits(groupNet[i])

GroupInv == GroupShape /\ GroupIds /\ (groupPage.calm => GroupCalm)

LEMMA GroupInvHolds == GroupInv => DestinationsInv
  BY DEF GroupInv, GroupIds, GroupCalm, DestinationsInv, OneCall

LEMMA GroupInitInv == GroupsInit => GroupInv
<1> SUFFICES ASSUME GroupsInit PROVE GroupInv
  OBVIOUS
<1> DEFINE c == Call("groups", None)
<1>0. c.op = "groups" /\ c.st = "sent" /\ IsCall(c)
  BY CallIsCall DEF Call
<1>1. PICK k : groupNet = Put(NoCalls, k, c)
  BY NoCallsIsNet, Sending DEF GroupsInit
<1> HIDE DEF c
<1>2. PICK ch \in StoredGroups : groups = {[id |-> 1, channels |-> ch]}
  BY DEF GroupsInit
<1>3. ch \in GroupChannels /\ Blank \notin ch.hooks
  <2>1. PICK hooks \in SUBSET Webhook : ch = [hooks |-> hooks, people |-> Person]
    BY DEF StoredGroups
  <2>2. Blank \notin hooks
    BY GroupsAssumption
  <2>3. ch = [f \in Channels |-> IF f = "hooks" THEN hooks ELSE Person]
    BY <2>1 DEF Channels
  <2> QED
    BY <2>1, <2>2, <2>3 DEF GroupChannels
<1>4. \A j \in Slot : groupNet[j] # Free => groupNet[j] = c
  BY <1>1 DEF Put, NoCalls
<1>5. groupPage = [rows |-> {}, loading |-> TRUE, form |-> None, clicks |-> 0, calm |-> TRUE] /\ groupsMade = 1
  BY DEF GroupsInit
<1>6. GroupShape
  <2>1. IsNet(groupNet)
    BY <1>0, <1>1, NoCallsIsNet, PutIsNet
  <2>2. c.arg = None /\ c.out = None
    BY DEF c, Call
  <2>3. groups \subseteq GroupRow
    BY <1>2, <1>3 DEF GroupRow
  <2> QED
    BY <1>0, <1>4, <1>5, <2>1, <2>2, <2>3 DEF GroupShape, GroupTab, GroupSent
<1>7. GroupIds
  BY <1>2, <1>3, <1>5 DEF GroupIds
<1>8. OneCall(groupNet)
  BY <1>1 DEF OneCall, Pending, Put, NoCalls
<1>9. RowsAgree /\ FormFits /\ \A i \in Pending(groupNet) : SendFits(groupNet[i])
  BY <1>0, <1>4, <1>5 DEF RowsAgree, FormFits, SendFits, Pending
<1> QED
  BY <1>6, <1>7, <1>8, <1>9 DEF GroupInv, GroupCalm

\* A form opens or closes, or a channel of it is changed.
LEMMA GroupUserStep ==
    ASSUME GroupInv, \/ UNCHANGED groupVars \/ CloseGroup \/ (\E g \in groupPage.rows \cup {None} : OpenGroup(g))
                     \/ \E f \in Channels : \E x \in Webhook \cup Person \cup {Blank} : EditGroup(f, x)
    PROVE  GroupInv'
<1>0. GroupShape /\ GroupIds /\ GroupTab
  BY DEF GroupInv, GroupShape
<1>1. CASE UNCHANGED groupVars
  BY <1>1 DEF GroupInv, groupVars, GroupShape, GroupTab, GroupIds, GroupCalm, RowsAgree, FormFits, SendFits, Pending
<1>2. groupNet' = groupNet /\ groups' = groups /\ groupsMade' = groupsMade
  BY DEF groupVars, CloseGroup, OpenGroup, EditGroup, PressGroup, groupServer
<1>3. CASE CloseGroup
  <2>1. /\ GroupTab' /\ groupPage'.rows = groupPage.rows /\ groupPage'.form = None /\ groupPage'.calm = groupPage.calm
        /\ groupPage'.clicks = groupPage.clicks
    BY <1>0, <1>3 DEF CloseGroup, GroupTab
  <2>2. GroupShape' /\ GroupIds'
    BY <1>0, <1>2, <2>1 DEF GroupShape, GroupIds
  <2>3. groupPage'.calm => GroupCalm'
    BY <1>2, <2>1 DEF GroupInv, GroupCalm, RowsAgree, FormFits, SendFits, Pending
  <2> QED
    BY <2>2, <2>3 DEF GroupInv
<1>4. ASSUME NEW g \in groupPage.rows \cup {None}, OpenGroup(g) PROVE GroupInv'
  <2> DEFINE f == [of |-> IF g = None THEN None ELSE g.id,
                   channels |-> IF g = None THEN NoDestinations ELSE g.channels,
                   touched |-> {}, saving |-> FALSE, n |-> groupPage.clicks]
  <2>1. /\ GroupTab' /\ groupPage'.rows = groupPage.rows /\ groupPage'.form = f
        /\ groupPage'.clicks \in Nat
        /\ groupPage'.calm => groupPage.calm /\ Quiet(groupNet)
    <3>1. groupPage' = [StepGroup EXCEPT !.form = f]
      BY <1>4 DEF OpenGroup
    <3>2. /\ {"rows", "loading", "form", "clicks", "calm"} \subseteq DOMAIN StepGroup
          /\ StepGroup.rows = groupPage.rows /\ StepGroup.clicks \in Nat
          /\ StepGroup.calm => groupPage.calm /\ Quiet(groupNet)
      BY <1>0, Pressing DEF StepGroup, GroupTab, GroupShape
    <3> HIDE DEF f
    <3> QED
      BY <3>1, <3>2 DEF GroupTab
  <2>2. GroupFormOk(f)
    <3>1. NoDestinations \in GroupChannels
      <4>1. NoDestinations = [h \in Channels |-> {}]
        BY DEF NoDestinations, Channels
      <4> QED
        BY <4>1 DEF GroupChannels
    <3>2. groupPage.clicks \in Nat /\ groupPage.rows \subseteq GroupRow
      BY <1>0 DEF GroupShape
    <3>3. g # None => g.id \in Nat /\ g.channels \in GroupChannels
      BY <3>2 DEF GroupRow
    <3> QED
      BY <3>1, <3>2, <3>3 DEF GroupFormOk
  <2>3. g # None => f.of = g.id /\ f.channels = g.channels /\ g \in groupPage.rows
    OBVIOUS
  <2>4. g = None => f.of = None
    OBVIOUS
  <2> HIDE DEF f
  <2>5. GroupShape' /\ GroupIds'
    BY <1>0, <1>2, <2>1, <2>2 DEF GroupShape, GroupIds
  <2>6. ASSUME groupPage'.calm PROVE GroupCalm'
    <3>1. Pending(groupNet) = {} /\ RowsAgree /\ OneCall(groupNet)
      BY <2>1, <2>6 DEF Quiet, GroupInv, GroupCalm
    <3>2. RowsAgree'
      BY <1>2, <2>1, <3>1 DEF RowsAgree
    <3>3. FormFits'
      BY <1>2, <2>1, <2>3, <2>4, <3>1 DEF FormFits, SameChannels, RowsAgree
    <3> QED
      BY <1>2, <3>1, <3>2, <3>3 DEF GroupCalm, Pending
  <2> QED
    BY <2>5, <2>6 DEF GroupInv
<1>5. ASSUME NEW field \in Channels, NEW x \in Webhook \cup Person \cup {Blank}, EditGroup(field, x) PROVE GroupInv'
  <2> DEFINE form == groupPage.form
  <2>1. form # None /\ GroupFormOk(form)
    BY <1>0, <1>5 DEF EditGroup, GroupShape
  <2>2. /\ GroupTab' /\ groupPage'.rows = groupPage.rows
        /\ groupPage'.clicks \in Nat
        /\ groupPage'.calm => groupPage.calm /\ Quiet(groupNet)
        /\ groupPage'.form # None => GroupFormOk(groupPage'.form)
        /\ groupPage'.form.of = form.of /\ groupPage'.form.touched = form.touched \cup {field}
        /\ \A h \in Channels \ {field} : groupPage'.form.channels[h] = form.channels[h]
    <3> DEFINE v == IF x \in form.channels[field] THEN form.channels[field] \ {x} ELSE form.channels[field] \cup {x}
               f2 == [[form EXCEPT !.channels = [@ EXCEPT ![field] = v]] EXCEPT !.touched = @ \cup {field}]
    <3>1. /\ {"rows", "loading", "form", "clicks", "calm"} \subseteq DOMAIN StepGroup
          /\ StepGroup.rows = groupPage.rows /\ StepGroup.form = form /\ StepGroup.clicks \in Nat
          /\ StepGroup.calm => groupPage.calm /\ Quiet(groupNet)
      BY <1>0, Pressing DEF StepGroup, GroupTab, GroupShape
    <3>2. groupPage' = [StepGroup EXCEPT !.form = f2]
      <4>1. groupPage' = [StepGroup EXCEPT
                       !.form.channels[field] = IF x \in @ THEN @ \ {x} ELSE @ \cup {x},
                       !.form.touched = @ \cup {field}]
        BY <1>5 DEF EditGroup
      <4> HIDE DEF form
      <4>2. groupPage' = [[StepGroup EXCEPT !.form.channels[field] = v] EXCEPT !.form.touched = @ \cup {field}]
        BY <3>1, <4>1
      <4> HIDE DEF v
      <4> QED
        BY <3>1, <4>2
    <3>3. /\ GroupFormOk(f2) /\ f2.of = form.of /\ f2.touched = form.touched \cup {field}
          /\ \A h \in Channels \ {field} : f2.channels[h] = form.channels[h]
      <4>0. v \in SUBSET (Webhook \cup Person \cup {Blank})
        BY <2>1 DEF GroupFormOk, GroupChannels
      <4> HIDE DEF form, v
      <4>1. /\ [form.channels EXCEPT ![field] = v] \in GroupChannels
            /\ \A h \in Channels \ {field} : [form.channels EXCEPT ![field] = v][h] = form.channels[h]
        BY <2>1, <4>0 DEF GroupFormOk, GroupChannels
      <4>2. /\ {"of", "channels", "touched", "saving", "n"} \subseteq DOMAIN f2
            /\ f2.channels = [form.channels EXCEPT ![field] = v] /\ f2.of = form.of /\ f2.n = form.n
            /\ f2.touched = form.touched \cup {field}
        BY <2>1 DEF GroupFormOk
      <4> HIDE DEF f2
      <4> QED
        BY <2>1, <4>1, <4>2 DEF GroupFormOk
    <3> HIDE DEF f2, form
    <3> QED
      BY <3>1, <3>2, <3>3 DEF GroupTab
  <2>3. GroupShape' /\ GroupIds'
    BY <1>0, <1>2, <2>2 DEF GroupShape, GroupIds
  <2>4. ASSUME groupPage'.calm PROVE GroupCalm'
    <3>1. Pending(groupNet) = {} /\ RowsAgree /\ FormFits /\ OneCall(groupNet)
      BY <2>2, <2>4 DEF Quiet, GroupInv, GroupCalm
    <3>2. RowsAgree'
      BY <1>2, <2>2, <3>1 DEF RowsAgree
    <3>3. FormFits'
      BY <1>2, <2>1, <2>2, <3>1 DEF FormFits, SameChannels
    <3> QED
      BY <1>2, <3>1, <3>2, <3>3 DEF GroupCalm, Pending
  <2> QED
    BY <2>3, <2>4 DEF GroupInv
<1> QED
  BY <1>1, <1>3, <1>4, <1>5

\* The form is saved.
LEMMA GroupSaveStep ==
    ASSUME GroupInv, SaveGroup
    PROVE  GroupInv'
<1> DEFINE form == groupPage.form
           arg == [id |-> form.of, channels |-> Clean(form.channels), touched |-> form.touched, n |-> form.n]
           c == Call(IF form.of = None THEN "create" ELSE "save", arg)
<1>0. /\ GroupShape /\ GroupIds /\ GroupTab /\ IsNet(groupNet) /\ form # None /\ GroupFormOk(form)
      /\ groups' = groups /\ groupsMade' = groupsMade
  BY DEF GroupInv, GroupShape, SaveGroup, PressGroup, groupServer
<1>1. PICK k \in Slot \ Pending(groupNet) : groupNet' = Put(groupNet, k, c)
  BY <1>0, SendingIntoRoom DEF SaveGroup
<1>2. /\ IsCall(c) /\ c.st = "sent" /\ c.op = (IF form.of = None THEN "create" ELSE "save")
      /\ c.arg.id = form.of /\ c.arg.touched = form.touched /\ c.arg.channels = Clean(form.channels)
  BY CallIsCall DEF Call
<1>3. /\ c.arg \in GroupBody /\ Blank \notin c.arg.channels.hooks
      /\ \A g \in groups, f \in Channels : g.channels[f] = form.channels[f] => c.arg.channels[f] = form.channels[f]
  <2> HIDE DEF form
  <2>1. Clean(form.channels) = [f \in Channels |-> IF f = "hooks" THEN form.channels[f] \ {Blank} ELSE form.channels[f]]
    BY <1>0 DEF Clean, GroupFormOk, GroupChannels, Channels
  <2>2. "hooks" \in Channels
    BY DEF Channels
  <2>3. \A g \in groups : Blank \notin g.channels["hooks"]
    BY <1>0 DEF GroupIds
  <2>4. c.arg.channels \in GroupChannels /\ c.arg.channels["hooks"] = form.channels["hooks"] \ {Blank}
    <3>1. c.arg.channels = [f \in Channels |-> IF f = "hooks" THEN form.channels[f] \ {Blank} ELSE form.channels[f]]
      BY <1>2, <2>1
    <3> HIDE DEF c, arg
    <3> QED
      BY <1>0, <2>2, <3>1 DEF GroupFormOk, GroupChannels
  <2>5. c.arg = [id |-> form.of, channels |-> c.arg.channels, touched |-> form.touched, n |-> form.n]
    BY DEF c, Call
  <2> HIDE DEF c, arg
  <2>6. c.arg \in GroupBody
    BY <1>0, <2>4, <2>5 DEF GroupFormOk, GroupBody
  <2>7. \A g \in groups, f \in Channels : g.channels[f] = form.channels[f] => c.arg.channels[f] = form.channels[f]
    <3> SUFFICES ASSUME NEW g \in groups, NEW f \in Channels, g.channels[f] = form.channels[f]
                 PROVE  c.arg.channels[f] = form.channels[f]
      OBVIOUS
    <3>1. c.arg.channels = [x \in Channels |-> IF x = "hooks" THEN form.channels[x] \ {Blank} ELSE form.channels[x]]
      BY <1>2, <2>1
    <3>2. CASE f = "hooks"
      <4>1. c.arg.channels["hooks"] = form.channels["hooks"] \ {Blank}
        BY <2>4
      <4>2. Blank \notin form.channels["hooks"]
        BY <2>3, <3>2
      <4> QED
        BY <3>2, <4>1, <4>2
    <3>3. CASE f # "hooks"
      BY <3>1, <3>3
    <3> QED
      BY <3>2, <3>3
  <2> QED
    BY <2>4, <2>6, <2>7
<1> HIDE DEF c, arg
<1>4. /\ GroupTab' /\ groupPage'.rows = groupPage.rows
      /\ groupPage'.clicks \in Nat
      /\ groupPage'.calm => groupPage.calm /\ Quiet(groupNet)
      /\ GroupFormOk(groupPage'.form) /\ groupPage'.form.of = form.of
      /\ groupPage'.form.touched = form.touched /\ groupPage'.form.channels = form.channels
  <2>1. groupPage' = [StepGroup EXCEPT !.form.saving = TRUE]
    BY DEF SaveGroup
  <2>2. /\ {"rows", "loading", "form", "clicks", "calm"} \subseteq DOMAIN StepGroup
        /\ StepGroup.rows = groupPage.rows /\ StepGroup.form = form /\ StepGroup.clicks \in Nat
        /\ StepGroup.calm => groupPage.calm /\ Quiet(groupNet)
    BY <1>0, Pressing DEF StepGroup, GroupTab, GroupShape
  <2> HIDE DEF form
  <2>3. /\ GroupTab' /\ groupPage'.rows = StepGroup.rows /\ groupPage'.calm = StepGroup.calm
        /\ groupPage'.clicks = StepGroup.clicks
        /\ groupPage'.form = [form EXCEPT !.saving = TRUE]
    BY <2>1, <2>2 DEF GroupTab
  <2>4. /\ GroupFormOk([form EXCEPT !.saving = TRUE])
        /\ [form EXCEPT !.saving = TRUE].of = form.of /\ [form EXCEPT !.saving = TRUE].touched = form.touched
        /\ [form EXCEPT !.saving = TRUE].channels = form.channels
    BY <1>0 DEF GroupFormOk
  <2> QED
    BY <2>2, <2>3, <2>4
<1> HIDE DEF form
<1>5. GroupShape' /\ GroupIds'
  <2>1. \A j \in Slot : groupNet'[j] # Free => GroupSent(groupNet[j])'
    <3>1. GroupSent(c)
      BY <1>2, <1>3 DEF GroupSent, form
    <3> QED
      BY <1>0, <1>1, <3>1 DEF GroupShape, GroupSent, Put
  <2>2. IsNet(groupNet')
    BY <1>0, <1>1, <1>2, PutIsNet
  <2> QED
    BY <1>0, <1>4, <2>1, <2>2 DEF GroupShape, GroupIds
<1>6. ASSUME groupPage'.calm PROVE GroupCalm'
  <2>1. Pending(groupNet) = {} /\ RowsAgree /\ FormFits
    BY <1>4, <1>6 DEF Quiet, GroupInv, GroupCalm
  <2>2. OneCall(groupNet')
    BY <1>0, <1>1, <1>4, <1>6, OneCallKept
  <2>3. \A j \in Pending(groupNet') : groupNet'[j] = c
    BY <1>1, <2>1 DEF Pending, Put
  <2>4. RowsAgree' /\ FormFits'
    BY <1>0, <1>4, <2>1 DEF RowsAgree, FormFits, SameChannels, form
  <2>5. c.op = "save" => SameChannels(groups, c.arg.channels, c.arg.id, c.arg.touched)
    <3>1. c.op = "save" => form.of # None
      BY <1>2
    <3> QED
      BY <1>0, <1>2, <1>3, <2>1, <3>1 DEF FormFits, SameChannels, form
  <2>6. \A j \in Pending(groupNet') : SendFits(groupNet[j])'
    BY <1>0, <1>2, <1>4, <2>3, <2>5 DEF SendFits, form
  <2> QED
    BY <2>2, <2>4, <2>6 DEF GroupCalm
<1> QED
  BY <1>5, <1>6 DEF GroupInv

\* A group is dropped.
LEMMA GroupDropStep ==
    ASSUME GroupInv, NEW g \in groupPage.rows, DropGroup(g)
    PROVE  GroupInv'
<1> DEFINE c == Call("drop", g.id)
<1>0. /\ GroupShape /\ GroupIds /\ GroupTab /\ IsNet(groupNet) /\ groupPage.form = None
      /\ groups' = groups /\ groupsMade' = groupsMade
  BY DEF GroupInv, GroupShape, DropGroup, PressGroup, groupServer
<1>1. PICK k \in Slot \ Pending(groupNet) : groupNet' = Put(groupNet, k, c)
  BY <1>0, SendingIntoRoom DEF DropGroup
<1>2. IsCall(c) /\ c.op = "drop"
  BY CallIsCall DEF Call
<1> HIDE DEF c
<1>3. /\ GroupTab' /\ groupPage'.rows = groupPage.rows /\ groupPage'.form = None
      /\ groupPage'.clicks \in Nat
      /\ groupPage'.calm => groupPage.calm /\ Quiet(groupNet)
  BY <1>0, Pressing DEF DropGroup, StepGroup, GroupTab, GroupShape
<1>4. GroupShape' /\ GroupIds'
  <2>1. \A j \in Slot : groupNet'[j] # Free => GroupSent(groupNet[j])'
    BY <1>0, <1>1, <1>2 DEF GroupShape, GroupSent, Put
  <2>2. IsNet(groupNet')
    BY <1>0, <1>1, <1>2, PutIsNet
  <2> QED
    BY <1>0, <1>3, <2>1, <2>2 DEF GroupShape, GroupIds
<1>5. ASSUME groupPage'.calm PROVE GroupCalm'
  <2>1. Pending(groupNet) = {} /\ RowsAgree
    BY <1>3, <1>5 DEF Quiet, GroupInv, GroupCalm
  <2>2. OneCall(groupNet')
    BY <1>0, <1>1, <1>3, <1>5, OneCallKept
  <2>3. \A j \in Pending(groupNet') : groupNet'[j] = c
    BY <1>1, <2>1 DEF Pending, Put
  <2>4. RowsAgree' /\ FormFits'
    BY <1>0, <1>3, <2>1 DEF RowsAgree, FormFits
  <2>5. SendFits(c)'
    BY <1>2 DEF SendFits
  <2> QED
    BY <2>2, <2>3, <2>4, <2>5 DEF GroupCalm
<1> QED
  BY <1>4, <1>5 DEF GroupInv

\* The server answers, or the connection breaks.
LEMMA GroupServerStep ==
    ASSUME GroupInv, NEW i \in Slot,
           ServeGroupList(i) \/ ServeGroupCreate(i) \/ ServeGroupSave(i) \/ ServeGroupDrop(i) \/ GroupCallFails(i)
    PROVE  GroupInv'
<1> DEFINE c == groupNet[i]
<1>0. /\ GroupShape /\ GroupIds /\ GroupTab /\ IsNet(groupNet) /\ i \in Pending(groupNet) /\ c # Free /\ GroupSent(c)
      /\ groupsMade \in Nat
  BY DEF GroupInv, GroupShape, ServeGroupList, ServeGroupCreate, ServeGroupSave, ServeGroupDrop, GroupCallFails,
         Sent, CanFail, Pending
<1>1. /\ GroupTab' /\ groupPage'.rows = groupPage.rows /\ groupPage'.form = groupPage.form
      /\ groupPage'.clicks = groupPage.clicks
      /\ groupPage'.calm => groupPage.calm /\ c.st = "sent"
  <2>1. CASE GroupCallFails(i)
    BY <1>0, <2>1 DEF GroupCallFails, Missed, GroupTab
  <2>2. CASE ServeGroupList(i) \/ ServeGroupCreate(i) \/ ServeGroupSave(i) \/ ServeGroupDrop(i)
    BY <1>0, <2>2 DEF ServeGroupList, ServeGroupCreate, ServeGroupSave, ServeGroupDrop, Sent, GroupTab
  <2> QED
    BY <2>1, <2>2
<1>2. PICK d : /\ groupNet' = Put(groupNet, i, d) /\ IsCall(d) /\ d.op = c.op /\ d.arg = c.arg
               /\ \/ d.st = "err" /\ d.out = c.out /\ groups' = groups /\ groupsMade' = groupsMade
                  \/ d.st = "ok" /\ c.op = "groups" /\ d.out = groups /\ groups' = groups /\ groupsMade' = groupsMade
                  \/ /\ d.st = "ok" /\ d.out = None /\ c.op = "create" /\ groupsMade' = groupsMade + 1
                     /\ groups' = groups \cup {[id |-> groupsMade + 1, channels |-> c.arg.channels]}
                  \/ /\ d.st = "ok" /\ d.out = None /\ c.op = "save" /\ groupsMade' = groupsMade
                     /\ \E g \in groups : g.id = c.arg.id
                     /\ groups' = (groups \ {g \in groups : g.id = c.arg.id})
                                     \cup {[id |-> c.arg.id, channels |-> c.arg.channels]}
                  \/ c.op = "drop" /\ groups' \subseteq groups /\ groupsMade' = groupsMade
  <2> DEFINE ok(out) == [op |-> c.op, arg |-> c.arg, st |-> "ok", out |-> out]
             err == [op |-> c.op, arg |-> c.arg, st |-> "err", out |-> c.out]
  <2>0. /\ \A out : Reply(groupNet, i, out) = Put(groupNet, i, ok(out)) /\ IsCall(ok(out))
        /\ Fail(groupNet, i) = Put(groupNet, i, err) /\ IsCall(err)
    BY <1>0, Answering DEF IsCall
  <2>a. /\ \A out : ok(out).op = c.op /\ ok(out).arg = c.arg /\ ok(out).st = "ok" /\ ok(out).out = out
        /\ err.op = c.op /\ err.arg = c.arg /\ err.st = "err" /\ err.out = c.out
    OBVIOUS
  <2> HIDE DEF ok, err
  <2>1. CASE ServeGroupList(i)
    <3>1. groupNet' = Put(groupNet, i, ok(groups)) /\ c.op = "groups" /\ groups' = groups /\ groupsMade' = groupsMade
      BY <2>0, <2>1 DEF ServeGroupList, Sent, groupServer
    <3> QED
      BY <2>0, <2>a, <3>1
  <2>2. CASE ServeGroupCreate(i)
    <3>1. /\ groupNet' = Put(groupNet, i, ok(None)) /\ c.op = "create" /\ groupsMade' = groupsMade + 1
          /\ groups' = groups \cup {[id |-> groupsMade + 1, channels |-> c.arg.channels]}
      BY <2>0, <2>2 DEF ServeGroupCreate, Sent
    <3> QED
      BY <2>0, <2>a, <3>1
  <2>3. CASE ServeGroupSave(i)
    <3> DEFINE row == {g \in groups : g.id = c.arg.id}
    <3>1. /\ c.op = "save" /\ groupsMade' = groupsMade
          /\ groups' = IF row = {} THEN groups ELSE (groups \ row) \cup {[id |-> c.arg.id, channels |-> c.arg.channels]}
          /\ groupNet' = IF row = {} THEN Fail(groupNet, i) ELSE Reply(groupNet, i, None)
      BY <2>3 DEF ServeGroupSave, Sent
    <3>2. CASE row = {}
      BY <2>0, <2>a, <3>1, <3>2
    <3>3. CASE row # {}
      <4>1. groupNet' = Put(groupNet, i, ok(None)) /\ groups' = (groups \ row) \cup {[id |-> c.arg.id, channels |-> c.arg.channels]}
        BY <2>0, <3>1, <3>3
      <4>2. \E g \in groups : g.id = c.arg.id
        BY <3>3
      <4> QED
        BY <2>0, <2>a, <3>1, <4>1, <4>2
    <3> QED
      BY <3>2, <3>3
  <2>4. CASE ServeGroupDrop(i)
    <3>1. /\ c.op = "drop" /\ groupsMade' = groupsMade /\ groups' \subseteq groups
          /\ groupNet' = Fail(groupNet, i) \/ groupNet' = Reply(groupNet, i, None)
      BY <2>4 DEF ServeGroupDrop, Sent
    <3> QED
      BY <2>0, <2>a, <3>1
  <2>5. CASE GroupCallFails(i)
    <3>1. groupNet' = Put(groupNet, i, err) /\ groups' = groups /\ groupsMade' = groupsMade
      BY <2>0, <2>5 DEF GroupCallFails, groupServer
    <3> QED
      BY <2>0, <2>a, <3>1
  <2> QED
    BY <2>1, <2>2, <2>3, <2>4, <2>5
<1> HIDE DEF c
<1>3. GroupIds' /\ groupsMade' \in Nat /\ groups' \subseteq GroupRow
  <2>0. /\ \A g \in groups : g.id \in 1..groupsMade /\ Blank \notin g.channels.hooks /\ g \in GroupRow
        /\ \A g, h \in groups : g.id = h.id => g = h
        /\ c.op \in {"create", "save"} => c.arg.channels \in GroupChannels /\ Blank \notin c.arg.channels.hooks
    BY <1>0 DEF GroupIds, GroupShape, GroupSent, GroupBody
  <2>1. CASE groups' \subseteq groups /\ groupsMade' = groupsMade
    BY <1>0, <2>0, <2>1 DEF GroupIds
  <2>2. CASE c.op = "create" /\ groupsMade' = groupsMade + 1
             /\ groups' = groups \cup {[id |-> groupsMade + 1, channels |-> c.arg.channels]}
    <3>1. \A g \in groups : g.id \in 1..(groupsMade + 1) /\ g.id # groupsMade + 1
      BY <1>0, <2>0
    <3> QED
      BY <1>0, <2>0, <2>2, <3>1 DEF GroupIds, GroupRow
  <2>3. CASE c.op = "save" /\ groupsMade' = groupsMade
             /\ (\E g \in groups : g.id = c.arg.id)
             /\ groups' = (groups \ {g \in groups : g.id = c.arg.id}) \cup {[id |-> c.arg.id, channels |-> c.arg.channels]}
    BY <1>0, <2>0, <2>3 DEF GroupIds, GroupRow
  <2> QED
    BY <1>2, <2>1, <2>2, <2>3
<1>4. GroupShape'
  <2>1. IsNet(groupNet')
    BY <1>0, <1>2, PutIsNet
  <2>2. \A j \in Slot : groupNet'[j] # Free => GroupSent(groupNet[j])'
    <3>1. GroupSent(d)
      BY <1>0, <1>2 DEF GroupSent, GroupShape
    <3> QED
      BY <1>0, <1>2, <3>1 DEF GroupShape, GroupSent, Put
  <2> QED
    BY <1>0, <1>1, <1>3, <2>1, <2>2 DEF GroupShape
<1>5. ASSUME groupPage'.calm PROVE GroupCalm'
  <2>0. /\ OneCall(groupNet) /\ FormFits /\ SendFits(c)
        /\ RowsAgree \/ c.op = "groups"
    BY <1>0, <1>1, <1>5 DEF GroupInv, GroupCalm, OneCall, Refreshing, c
  <2>1. OneCall(groupNet')
    BY <1>0, <1>2, <2>0, OneCallKept
  <2>2. \A j \in Pending(groupNet') : groupNet'[j] = d
    BY <1>0, <1>2, <2>0 DEF OneCall, Pending, Put
  <2>3. FormFits'
    <3>1. CASE groups' \subseteq groups
      BY <1>1, <2>0, <3>1 DEF FormFits, SameChannels
    <3>2. CASE c.op = "create"
      BY <1>0, <1>1, <2>0, <3>2 DEF FormFits, SendFits, GroupSent
    <3>3. CASE c.op = "save" /\ (\E g \in groups : g.id = c.arg.id)
               /\ groups' = (groups \ {g \in groups : g.id = c.arg.id}) \cup {[id |-> c.arg.id, channels |-> c.arg.channels]}
      BY <1>1, <2>0, <3>3 DEF FormFits, SendFits, SameChannels
    <3> QED
      BY <1>2, <3>1, <3>2, <3>3
  <2>4. SendFits(d)'
    <3>1. c.op = "save" => SameChannels(groups', c.arg.channels, c.arg.id, c.arg.touched)
      BY <1>2, <2>0 DEF SendFits, SameChannels
    <3> QED
      BY <1>1, <1>2, <2>0, <3>1 DEF SendFits
  <2>5. RowsAgree' \/ (d # Free /\ Refreshing(d))
    <3>1. CASE groups' = groups /\ c.op # "groups"
      BY <1>1, <2>0, <3>1 DEF RowsAgree
    <3>2. CASE c.op = "groups"
      <4>1. d.arg = None /\ d.st \in {"ok", "err"} /\ d.out \in {None} \cup SUBSET GroupRow
        BY <1>0, <1>1, <1>2, <1>5, <3>2 DEF GroupSent, GroupShape
      <4>2. d = [op |-> "groups", arg |-> None, st |-> d.st, out |-> d.out]
        BY <1>2, <3>2, <4>1 DEF IsCall
      <4> QED
        BY <1>2, <3>2, <4>1, <4>2 DEF Refreshing, Free
    <3>3. CASE c.op \in {"create", "save"} /\ d.st = "ok" /\ d.out = None
      <4>1. d # Free
        BY <3>3 DEF Free
      <4> QED
        BY <1>2, <3>3, <4>1 DEF Refreshing
    <3>4. CASE c.op = "drop" /\ groups' \subseteq groups
      BY <1>1, <2>0, <3>4 DEF RowsAgree
    <3> QED
      BY <1>2, <3>1, <3>2, <3>3, <3>4
  <2>6. d # Free => i \in Pending(groupNet') /\ groupNet'[i] = d
    BY <1>2 DEF Pending, Put
  <2> QED
    BY <2>1, <2>2, <2>3, <2>4, <2>5, <2>6 DEF GroupCalm
<1> QED
  BY <1>3, <1>4, <1>5 DEF GroupInv

\* The answers reach the page.
LEMMA GroupAnswerStep ==
    ASSUME GroupInv, NEW i \in Slot, GroupListRead(i) \/ GroupSaved(i) \/ GroupDropped(i)
    PROVE  GroupInv'
<1> DEFINE c == groupNet[i]
           read == Call("groups", None)
<1>0. /\ GroupShape /\ GroupIds /\ GroupTab /\ IsNet(groupNet) /\ i \in Pending(groupNet) /\ c # Free /\ GroupSent(c)
      /\ groups' = groups /\ groupsMade' = groupsMade /\ groupPage.clicks \in Nat
  BY DEF GroupInv, GroupShape, GroupListRead, GroupSaved, GroupDropped, Settled, Ok, Err, Pending, groupServer
<1>1. read # Free /\ IsCall(read) /\ read.op = "groups" /\ read.st = "sent" /\ GroupSent(read)
  BY CallIsCall DEF Call, GroupSent
<1>2. /\ GroupTab' /\ groupPage'.clicks = groupPage.clicks
      /\ groupPage'.form = groupPage.form \/ groupPage'.form = None
         \/ (groupPage.form # None /\ groupPage'.form = [groupPage.form EXCEPT !.saving = FALSE])
      /\ groupPage'.calm => groupPage.calm /\ ~(c.op = "groups" /\ c.st # "ok")
      /\ \/ groupPage'.rows \subseteq groupPage.rows
         \/ c.op = "groups" /\ c.st = "ok" /\ groupPage'.rows = c.out
      /\ \/ /\ c.op = "groups" \/ c.st # "ok" \/ c.op \notin {"create", "save"}
            /\ groupNet' = Put(groupNet, i, Free)
         \/ c.op \in {"create", "save"} /\ c.st = "ok" /\ groupNet' = Put(groupNet, i, read)
      /\ c.op = "groups" /\ c.st = "ok" => groupPage'.rows = c.out
  <2>0. Done(groupNet, i) = Put(groupNet, i, Free) /\ Then(groupNet, i, "groups", None) = Put(groupNet, i, read)
    BY <1>0, Ending
  <2> HIDE DEF read
  <2>1. CASE GroupListRead(i)
    <3>1. c.op = "groups" /\ (c.st = "ok" \/ c.st = "err") /\ (Ok(groupNet, i, "groups") <=> c.st = "ok")
      BY <1>0, <2>1 DEF GroupListRead, Settled, Ok, Err
    <3>2. groupPage' = IF c.st = "ok" THEN [groupPage EXCEPT !.rows = c.out, !.loading = FALSE]
                       ELSE [groupPage EXCEPT !.loading = FALSE, !.calm = FALSE]
      BY <2>1, <3>1 DEF GroupListRead
    <3>3. groupNet' = Put(groupNet, i, Free)
      BY <2>0, <2>1 DEF GroupListRead
    <3> HIDE DEF c
    <3> QED
      BY <1>0, <3>1, <3>2, <3>3 DEF GroupTab
  <2>2. CASE GroupDropped(i)
    <3>1. c.op = "drop" /\ groupNet' = Put(groupNet, i, Free)
      BY <1>0, <2>0, <2>2 DEF GroupDropped, Settled, Ok, Err
    <3>2. groupPage' = groupPage \/ groupPage' = [groupPage EXCEPT !.rows = {g \in @ : g.id # c.arg}]
      BY <2>2 DEF GroupDropped
    <3> HIDE DEF c
    <3> QED
      BY <1>0, <3>1, <3>2 DEF GroupTab
  <2>3. CASE GroupSaved(i)
    <3>1. \/ /\ c.op \in {"create", "save"} /\ c.st = "ok"
             /\ groupPage' = [groupPage EXCEPT !.form = None] /\ groupNet' = Put(groupNet, i, read)
          \/ /\ c.op \in {"create", "save"} /\ c.st = "err" /\ groupNet' = Put(groupNet, i, Free)
             /\ groupPage' = groupPage \/ (groupPage.form # None /\ groupPage' = [groupPage EXCEPT !.form.saving = FALSE])
      BY <2>0, <2>3 DEF GroupSaved, Ok, Err
    <3> HIDE DEF c
    <3> QED
      BY <1>0, <3>1 DEF GroupTab
  <2> QED
    BY <2>1, <2>2, <2>3
<1> HIDE DEF c, read
<1>3. /\ groupPage'.form # None => GroupFormOk(groupPage'.form) /\ groupPage.form # None
      /\ groupPage'.form # None => /\ groupPage'.form.of = groupPage.form.of
                                   /\ groupPage'.form.channels = groupPage.form.channels
                                   /\ groupPage'.form.touched = groupPage.form.touched
  <2>1. CASE groupPage'.form = groupPage.form \/ groupPage'.form = None
    BY <1>0, <2>1 DEF GroupShape
  <2>2. ASSUME groupPage.form # None, groupPage'.form = [groupPage.form EXCEPT !.saving = FALSE]
        PROVE  /\ GroupFormOk(groupPage'.form)
               /\ groupPage'.form.of = groupPage.form.of
               /\ groupPage'.form.channels = groupPage.form.channels
               /\ groupPage'.form.touched = groupPage.form.touched
    <3>1. GroupFormOk(groupPage.form)
      BY <1>0, <2>2 DEF GroupShape
    <3> QED
      BY <2>2, <3>1 DEF GroupFormOk
  <2> QED
    BY <1>2, <2>1, <2>2
<1>4. GroupShape' /\ GroupIds'
  <2>1. IsNet(groupNet')
    BY <1>0, <1>1, <1>2, PutIsNet
  <2>2. \A j \in Slot : groupNet'[j] # Free => GroupSent(groupNet[j])'
    BY <1>0, <1>1, <1>2 DEF GroupShape, GroupSent, Put
  <2>3. groups' \cup groupPage'.rows \subseteq GroupRow
    BY <1>0, <1>2 DEF GroupShape, GroupSent
  <2> QED
    BY <1>0, <1>2, <1>3, <2>1, <2>2, <2>3 DEF GroupShape, GroupIds
<1>5. ASSUME groupPage'.calm PROVE GroupCalm'
  <2>0. /\ OneCall(groupNet) /\ FormFits /\ SendFits(c)
        /\ RowsAgree \/ Refreshing(c)
    BY <1>0, <1>2, <1>5 DEF GroupInv, GroupCalm, OneCall, c
  <2>1. OneCall(groupNet')
    BY <1>0, <1>2, <2>0, OneCallKept
  <2>2. \A j \in Pending(groupNet') : groupNet'[j] = read
    BY <1>0, <1>2, <2>0 DEF OneCall, Pending, Put
  <2>3. FormFits'
    BY <1>0, <1>3, <2>0 DEF FormFits
  <2>4. SendFits(read)'
    BY <1>1 DEF SendFits, read
  <2>5. RowsAgree' \/ \E j \in Pending(groupNet') : Refreshing(groupNet'[j])
    <3>1. CASE c.op \in {"create", "save"} /\ c.st = "ok" /\ groupNet' = Put(groupNet, i, read)
      BY <1>0, <1>1, <3>1 DEF Pending, Put, Refreshing
    <3>2. CASE c.op = "groups"
      BY <1>0, <1>2, <1>5, <2>0, <3>2 DEF RowsAgree, SendFits, GroupIds
    <3>3. CASE RowsAgree /\ c.op # "groups"
      BY <1>0, <1>2, <3>3 DEF RowsAgree
    <3> QED
      BY <1>2, <2>0, <3>1, <3>2, <3>3 DEF Refreshing
  <2> QED
    BY <2>1, <2>2, <2>3, <2>4, <2>5 DEF GroupCalm
<1> QED
  BY <1>4, <1>5 DEF GroupInv

\* Every step of the page keeps its invariant.
LEMMA GroupStep ==
    ASSUME GroupInv, [GroupsNext]_groupVars
    PROVE  GroupInv'
<1>1. CASE \/ UNCHANGED groupVars \/ CloseGroup \/ (\E g \in groupPage.rows \cup {None} : OpenGroup(g))
           \/ \E f \in Channels : \E x \in Webhook \cup Person \cup {Blank} : EditGroup(f, x)
  BY <1>1, GroupUserStep
<1>2. CASE SaveGroup
  BY <1>2, GroupSaveStep
<1>3. ASSUME NEW g \in groupPage.rows, DropGroup(g) PROVE GroupInv'
  BY <1>3, GroupDropStep
<1>4. ASSUME NEW i \in Slot, ServeGroupList(i) \/ ServeGroupCreate(i) \/ ServeGroupSave(i) \/ ServeGroupDrop(i) \/ GroupCallFails(i)
      PROVE  GroupInv'
  BY <1>4, GroupServerStep
<1>5. ASSUME NEW i \in Slot, GroupListRead(i) \/ GroupSaved(i) \/ GroupDropped(i) PROVE GroupInv'
  BY <1>5, GroupAnswerStep
<1>6. ASSUME (\E w \in Webhook \cup {Blank} : EditGroup("hooks", w)) \/ (\E p \in Person : EditGroup("people", p))
      PROVE  \E f \in Channels : \E x \in Webhook \cup Person \cup {Blank} : EditGroup(f, x)
  <2>1. "hooks" \in Channels /\ "people" \in Channels
    BY DEF Channels
  <2> QED
    BY <1>6, <2>1, Zenon
<1>7. ASSUME (\E g \in groupPage.rows : OpenGroup(g)) \/ OpenGroup(None)
      PROVE  \E g \in groupPage.rows \cup {None} : OpenGroup(g)
  BY <1>7, Zenon
<1> QED
  BY <1>1, <1>2, <1>3, <1>4, <1>5, <1>6, <1>7, Zenon DEF GroupsNext

\* What a group loses or gains by a step was changed in the form it was saved from.
LEMMA GroupChanges ==
    ASSUME GroupInv, [GroupsNext]_groupVars, NEW g \in groups, NEW h \in groups', groupPage.calm, g.id = h.id,
           NEW f \in DOMAIN g.channels, g.channels[f] # h.channels[f]
    PROVE  \E i \in Slot : Sent(groupNet, i, "save") /\ groupNet[i].arg.id = g.id /\ f \in groupNet[i].arg.touched
<1>1. GroupShape /\ GroupIds /\ GroupCalm /\ g.id \in Nat /\ g.id <= groupsMade /\ f \in Channels
  <2>1. g \in GroupRow /\ g.id \in 1..groupsMade /\ groupsMade \in Nat /\ GroupShape /\ GroupIds /\ GroupCalm
    BY DEF GroupInv, GroupShape, GroupIds
  <2>2. DOMAIN g.channels = Channels
    BY <2>1 DEF GroupRow, GroupChannels
  <2> QED
    BY <2>1, <2>2
<1>2. h \notin groups
  BY <1>1 DEF GroupIds
<1>3. PICK i \in Slot : ServeGroupCreate(i) \/ ServeGroupSave(i)
  <2>1. groups' \subseteq groups \/ \E i \in Slot : ServeGroupCreate(i) \/ ServeGroupSave(i)
    <3>1. ASSUME NEW x, OpenGroup(x) \/ DropGroup(x) PROVE groups' = groups
      BY <3>1 DEF OpenGroup, DropGroup, PressGroup, groupServer
    <3>2. ASSUME CloseGroup \/ SaveGroup \/ UNCHANGED groupVars PROVE groups' = groups
      BY <3>2 DEF CloseGroup, SaveGroup, PressGroup, groupServer, groupVars
    <3>3. ASSUME NEW k, NEW x, EditGroup(k, x) PROVE groups' = groups
      BY <3>3 DEF EditGroup, PressGroup, groupServer
    <3>4. ASSUME NEW i \in Slot, \/ ServeGroupList(i) \/ GroupListRead(i) \/ GroupSaved(i) \/ ServeGroupDrop(i)
                                 \/ GroupDropped(i) \/ GroupCallFails(i)
          PROVE  groups' \subseteq groups
      BY <3>4 DEF ServeGroupList, GroupListRead, GroupSaved, ServeGroupDrop, GroupDropped, GroupCallFails, groupServer
    <3> QED
      BY <3>1, <3>2, <3>3, <3>4, Zenon DEF GroupsNext
  <2> QED
    BY <1>2, <2>1
<1>4. CASE ServeGroupCreate(i)
  <2>1. h.id = groupsMade + 1
    BY <1>2, <1>4 DEF ServeGroupCreate
  <2>2. groupsMade \in Nat
    BY <1>1 DEF GroupShape
  <2> QED
    BY <1>1, <2>1, <2>2
<1>5. CASE ServeGroupSave(i)
  <2> DEFINE arg == groupNet[i].arg
  <2>1. Sent(groupNet, i, "save") /\ h = [id |-> arg.id, channels |-> arg.channels]
    BY <1>2, <1>5 DEF ServeGroupSave
  <2>2. SendFits(groupNet[i]) /\ groupNet[i].op = "save"
    BY <1>1, <2>1 DEF GroupCalm, Sent, Pending
  <2>3. SameChannels(groups, arg.channels, arg.id, arg.touched)
    BY <2>2 DEF SendFits
  <2>4. f \in arg.touched
    BY <1>1, <2>1, <2>3 DEF SameChannels
  <2> QED
    BY <2>1, <2>4
<1> QED
  BY <1>3, <1>4, <1>5

\* A group loses or gains the destinations of a channel only by a save of a form
\* in which that channel was changed; provided one thing was done at a time.
THEOREM DestinationsAreKept == GroupsSpec => DestinationsKept
<1>1. ASSUME GroupInv, [GroupsNext]_groupVars
      PROVE  [\A g \in groups, h \in groups' :
                groupPage.calm /\ g.id = h.id =>
                    \A f \in DOMAIN g.channels :
                       g.channels[f] # h.channels[f] =>
                          \E i \in Slot : Sent(groupNet, i, "save") /\ groupNet[i].arg.id = g.id
                                           /\ f \in groupNet[i].arg.touched]_groupVars
  BY <1>1, GroupChanges
<1> QED
  BY <1>1, GroupInitInv, GroupStep, PTL DEF GroupsSpec, DestinationsKept

-----------------------------------------------------------------------------
(***************************************************************************)
(* The dialog that shares a resource: of the roles, saving its selection   *)
(* changes those that were ticked or unticked there.  The invariant is     *)
(* SelectionInv of ShareDialog.                                            *)
(***************************************************************************)
ShareFormOk(f) == {"of", "roles", "loading", "listed", "saving", "n"} \subseteq DOMAIN f

ShareShape ==
    /\ IsNet(shareNet) /\ grants = [s \in Shared |-> grants[s]]
    /\ {"clicks", "calm", "of", "before", "toggled"} \subseteq DOMAIN shareLog
    /\ share # None => ShareFormOk(share)

ShareInv == ShareShape /\ SelectionInv

LEMMA ShareInitInv == ShareInit => ShareInv
<1> SUFFICES ASSUME ShareInit PROVE ShareInv
  OBVIOUS
<1>1. \A i \in Slot : shareNet[i] = Free
  BY DEF ShareInit, NoCalls
<1>2. Pending(shareNet) = {}
  BY <1>1 DEF Pending
<1>3. ShareShape
  BY NoCallsIsNet DEF ShareInit, ShareShape
<1>4. UntoggledRolesKept /\ ScreenFits
  BY DEF ScreenFits, ShareInit, UntoggledRolesKept
<1> QED
  BY <1>2, <1>3, <1>4 DEF ShareInv, SelectionInv

\* The invariant holds again once its parts do and the only request is c.
LEMMA ShareBack ==
    ASSUME ShareShape', OneCall(shareNet'), UntoggledRolesKept', ScreenFits',
           \A j \in Pending(shareNet') : ReadFits(shareNet[j])' /\ GrantFits(shareNet[j])'
    PROVE  ShareInv'
  BY DEF ShareInv, SelectionInv, OneCall

\* The dialog opens.
LEMMA OpenShareStep ==
    ASSUME ShareInv, NEW s \in Shared, OpenShare(s)
    PROVE  ShareInv'
<1> DEFINE arg == [of |-> s, n |-> shareLog.clicks]
           c == Call("perms", arg)
           f == [of |-> s, roles |-> {}, loading |-> TRUE, listed |-> FALSE, saving |-> FALSE, n |-> shareLog.clicks]
<1>0. ShareShape /\ IsNet(shareNet)
  BY DEF ShareInv, ShareShape
<1>1. c.op = "perms" /\ c.arg.of = s /\ c.st = "sent" /\ IsCall(c)
  BY CallIsCall DEF Call
<1>2. PICK k \in Slot \ Pending(shareNet) : shareNet' = Put(shareNet, k, c)
  BY <1>0, SendingIntoRoom DEF OpenShare
<1>3. share' = f /\ ShareFormOk(f) /\ f.of = s /\ f.loading = TRUE
  BY DEF OpenShare, ShareFormOk
<1>4. grants' = grants
  BY DEF OpenShare
<1>5. /\ {"clicks", "calm", "of", "before", "toggled"} \subseteq DOMAIN shareLog'
      /\ shareLog'.of = s /\ shareLog'.before = grants /\ shareLog'.toggled = {}
      /\ shareLog'.calm => Quiet(shareNet)
  <2> DEFINE log == Pressed(shareLog, Quiet(shareNet))
  <2>1. {"clicks", "calm", "of", "before", "toggled"} \subseteq DOMAIN log /\ (log.calm => Quiet(shareNet))
    BY <1>0 DEF ShareShape, Pressed
  <2>2. shareLog' = [log EXCEPT !.of = s, !.before = grants, !.toggled = {}]
    BY DEF OpenShare
  <2> HIDE DEF log
  <2> QED
    BY <2>1, <2>2
<1> HIDE DEF c, f, arg
<1>6. ShareShape'
  BY <1>0, <1>1, <1>2, <1>3, <1>4, <1>5, PutIsNet DEF ShareShape, ShareFormOk
<1>7. ASSUME shareLog'.calm
      PROVE  /\ OneCall(shareNet') /\ UntoggledRolesKept' /\ ScreenFits'
             /\ \A j \in Pending(shareNet') : ReadFits(shareNet[j])' /\ GrantFits(shareNet[j])'
  <2>1. OneCall(shareNet')
    BY <1>0, <1>2, <1>5, <1>7, OneCallKept
  <2>2. \A j \in Pending(shareNet') : shareNet'[j] = c
    BY <1>2, <1>5, <1>7 DEF Pending, Put, Quiet
  <2>3. UntoggledRolesKept'
    BY <1>4, <1>5 DEF UntoggledRolesKept
  <2>4. ScreenFits'
    BY <1>3, <1>5 DEF ScreenFits
  <2>5. \A j \in Pending(shareNet') : ReadFits(shareNet[j])'
    BY <1>1, <1>3, <1>4, <1>5, <2>2 DEF ReadFits
  <2>6. \A j \in Pending(shareNet') : GrantFits(shareNet[j])'
    BY <1>1, <2>2 DEF GrantFits
  <2> QED
    BY <2>1, <2>3, <2>4, <2>5, <2>6
<1> QED
  BY <1>6, <1>7, ShareBack DEF ShareInv, SelectionInv

\* A selection is saved.
LEMMA SaveShareStep ==
    ASSUME ShareInv, SaveShare
    PROVE  ShareInv'
<1> DEFINE c == Call("grant", share)
<1>0. ShareShape /\ IsNet(shareNet)
  BY DEF ShareInv, ShareShape
<1>1. c.op = "grant" /\ c.arg = share /\ IsCall(c)
  BY CallIsCall DEF Call
<1>2. PICK k \in Slot \ Pending(shareNet) : shareNet' = Put(shareNet, k, c)
  BY <1>0, SendingIntoRoom DEF SaveShare
<1>3. share # None /\ ~share.loading /\ ShareFormOk(share) /\ grants' = grants
  BY <1>0 DEF SaveShare, ShareShape
<1>4. ShareFormOk(share') /\ share'.of = share.of /\ share'.roles = share.roles /\ share'.loading = share.loading
  BY <1>3 DEF SaveShare, ShareFormOk
<1>5. /\ {"clicks", "calm", "of", "before", "toggled"} \subseteq DOMAIN shareLog'
      /\ shareLog'.of = shareLog.of /\ shareLog'.before = shareLog.before /\ shareLog'.toggled = shareLog.toggled
      /\ shareLog'.calm => shareLog.calm /\ Quiet(shareNet)
  BY <1>0 DEF SaveShare, ShareShape, Pressed
<1> HIDE DEF c
<1>6. ShareShape'
  BY <1>0, <1>1, <1>2, <1>3, <1>4, <1>5, PutIsNet DEF ShareShape, ShareFormOk
<1>7. ASSUME shareLog'.calm
      PROVE  /\ OneCall(shareNet') /\ UntoggledRolesKept' /\ ScreenFits'
             /\ \A j \in Pending(shareNet') : ReadFits(shareNet[j])' /\ GrantFits(shareNet[j])'
  <2>0. UntoggledRolesKept /\ ScreenFits /\ shareLog.calm
    BY <1>5, <1>7 DEF ShareInv, SelectionInv
  <2>1. OneCall(shareNet')
    BY <1>0, <1>2, <1>5, <1>7, OneCallKept
  <2>2. \A j \in Pending(shareNet') : shareNet'[j] = c
    BY <1>2, <1>5, <1>7 DEF Pending, Put, Quiet
  <2>3. UntoggledRolesKept'
    BY <1>3, <1>5, <2>0 DEF UntoggledRolesKept
  <2>4. ScreenFits'
    BY <1>3, <1>4, <1>5, <2>0 DEF ScreenFits
  <2>5. \A j \in Pending(shareNet') : ReadFits(shareNet[j])'
    BY <1>1, <2>2 DEF ReadFits
  <2>6. \A j \in Pending(shareNet') : GrantFits(shareNet[j])'
    BY <1>1, <1>3, <1>5, <2>0, <2>2 DEF GrantFits, ScreenFits
  <2> QED
    BY <2>1, <2>3, <2>4, <2>5, <2>6
<1> QED
  BY <1>6, <1>7, ShareBack DEF ShareInv, SelectionInv

\* The other clicks, and nothing at all.
LEMMA ShareUserStep ==
    ASSUME ShareInv, UNCHANGED shareVars \/ CloseShare \/ \E r \in Reader : ToggleRole(r)
    PROVE  ShareInv'
<1>0. ShareShape
  BY DEF ShareInv
<1>1. CASE UNCHANGED shareVars
  BY <1>1 DEF ShareInv, ShareShape, shareVars, SelectionInv, UntoggledRolesKept, ScreenFits, ReadFits, GrantFits,
              Pending, ShareFormOk
<1>2. CASE CloseShare
  <2>1. share' = None /\ grants' = grants /\ shareLog' = shareLog /\ shareNet' = shareNet
    BY <1>2 DEF CloseShare
  <2> QED
    BY <2>1 DEF ShareInv, ShareShape, SelectionInv, UntoggledRolesKept, ScreenFits, ReadFits, GrantFits, Pending,
                ShareFormOk
<1>3. ASSUME NEW r \in Reader, ToggleRole(r) PROVE ShareInv'
  <2>1. share # None /\ ~share.loading /\ ShareFormOk(share) /\ grants' = grants /\ shareNet' = shareNet
    BY <1>0, <1>3 DEF ToggleRole, ShareShape
  <2>2. /\ ShareFormOk(share') /\ share'.of = share.of /\ share'.loading = share.loading
        /\ share'.roles = IF r \in share.roles THEN share.roles \ {r} ELSE share.roles \cup {r}
    BY <1>3, <2>1 DEF ToggleRole, ShareFormOk
  <2>3. /\ {"clicks", "calm", "of", "before", "toggled"} \subseteq DOMAIN shareLog'
        /\ shareLog'.of = shareLog.of /\ shareLog'.before = shareLog.before
        /\ shareLog'.toggled = shareLog.toggled \cup {r} /\ shareLog'.calm = shareLog.calm
    BY <1>0, <1>3 DEF ToggleRole, ShareShape
  <2>4. ShareShape'
    BY <1>0, <2>1, <2>2, <2>3 DEF ShareShape, ShareFormOk
  <2>5. ASSUME shareLog'.calm
        PROVE  /\ OneCall(shareNet') /\ UntoggledRolesKept' /\ ScreenFits'
               /\ \A j \in Pending(shareNet') : ReadFits(shareNet[j])' /\ GrantFits(shareNet[j])'
    <3>0. /\ OneCall(shareNet) /\ UntoggledRolesKept /\ ScreenFits
          /\ \A j \in Pending(shareNet) : ReadFits(shareNet[j]) /\ GrantFits(shareNet[j])
      BY <2>3, <2>5 DEF ShareInv, SelectionInv, OneCall
    <3>1. UntoggledRolesKept'
      BY <2>1, <2>3, <3>0 DEF UntoggledRolesKept, Toggled
    <3>2. ScreenFits'
      BY <2>1, <2>2, <2>3, <3>0 DEF ScreenFits, Toggled
    <3>3. \A j \in Pending(shareNet) : ReadFits(shareNet[j])'
      BY <2>1, <3>0 DEF ReadFits
    <3>4. \A j \in Pending(shareNet) : GrantFits(shareNet[j])'
      BY <2>1, <2>3, <3>0 DEF GrantFits, Toggled
    <3>5. OneCall(shareNet') /\ Pending(shareNet') = Pending(shareNet)
      BY <2>1, <3>0
    <3> QED
      BY <3>1, <3>2, <3>3, <3>4, <3>5
  <2> QED
    BY <2>4, <2>5, ShareBack DEF ShareInv, SelectionInv
<1> QED
  BY <1>1, <1>2, <1>3

\* The server answers, or the connection breaks.
LEMMA ShareServerStep ==
    ASSUME ShareInv, NEW i \in Slot, ServePerms(i) \/ ServeGrant(i) \/ ShareCallFails(i)
    PROVE  ShareInv'
<1> DEFINE c == shareNet[i]
<1>0. ShareShape /\ IsNet(shareNet) /\ i \in Pending(shareNet) /\ c # Free /\ IsCall(c) /\ share' = share /\ shareLog' = shareLog
  BY DEF ShareInv, ShareShape, IsNet, ServePerms, ServeGrant, ShareCallFails, Sent, CanFail, Pending
<1>1. PICK d : /\ shareNet' = Put(shareNet, i, d) /\ IsCall(d) /\ d.op = c.op /\ d.arg = c.arg
               /\ d.st = "ok" /\ c.op = "perms" => d.out = grants[c.arg.of] \cap Reader
  <2>1. CASE ServePerms(i)
    <3> DEFINE d == [op |-> c.op, arg |-> c.arg, st |-> "ok", out |-> grants[c.arg.of] \cap Reader]
    <3>1. shareNet' = Put(shareNet, i, d)
      BY <1>0, <2>1, Answering DEF ServePerms
    <3> QED
      BY <3>1 DEF IsCall
  <2>2. CASE ServeGrant(i)
    <3> DEFINE d == [op |-> c.op, arg |-> c.arg, st |-> "ok", out |-> None]
    <3>1. shareNet' = Put(shareNet, i, d) /\ c.op = "grant"
      BY <1>0, <2>2, Answering DEF ServeGrant, Sent
    <3> QED
      BY <3>1 DEF IsCall
  <2>3. CASE ShareCallFails(i)
    <3> DEFINE d == [op |-> c.op, arg |-> c.arg, st |-> "err", out |-> c.out]
    <3>1. shareNet' = Put(shareNet, i, d)
      BY <1>0, <2>3, Answering DEF ShareCallFails
    <3> QED
      BY <3>1 DEF IsCall
  <2> QED
    BY <2>1, <2>2, <2>3
<1>2. \/ grants' = grants
      \/ c.op = "grant" /\ grants' = [grants EXCEPT ![c.arg.of] = c.arg.roles]
  BY DEF ServePerms, ServeGrant, ShareCallFails, Sent
<1> HIDE DEF c
<1>3. ShareShape'
  BY <1>0, <1>1, <1>2, PutIsNet DEF ShareShape
<1>4. ASSUME shareLog'.calm
      PROVE  /\ OneCall(shareNet') /\ UntoggledRolesKept' /\ ScreenFits'
             /\ \A j \in Pending(shareNet') : ReadFits(shareNet[j])' /\ GrantFits(shareNet[j])'
  <2>0. OneCall(shareNet) /\ UntoggledRolesKept /\ ScreenFits /\ ReadFits(c) /\ GrantFits(c) /\ shareLog.calm
    BY <1>0, <1>4 DEF ShareInv, SelectionInv, OneCall, c
  <2>1. OneCall(shareNet')
    BY <1>0, <1>1, <2>0, OneCallKept
  <2>2. \A j \in Pending(shareNet') : shareNet'[j] = d
    BY <1>0, <1>1, <2>0 DEF OneCall, Pending, Put
  <2>3. ScreenFits'
    BY <1>0, <2>0 DEF ScreenFits
  <2>4. UntoggledRolesKept'
    <3>1. CASE grants' = grants
      BY <3>1, <1>0, <2>0 DEF UntoggledRolesKept
    <3>2. CASE c.op = "grant" /\ grants' = [grants EXCEPT ![c.arg.of] = c.arg.roles]
      <4>1. /\ c.arg.of = shareLog.of /\ c.arg.roles \subseteq Reader
            /\ Toggled(c.arg.roles, shareLog.before[shareLog.of], shareLog.toggled)
        BY <3>2, <2>0 DEF GrantFits
      <4>2. \A s \in Shared : grants'[s] = IF s = shareLog.of THEN c.arg.roles ELSE grants[s]
        BY <3>2, <4>1, <1>0 DEF ShareShape
      <4> QED
        BY <1>0, <2>0, <4>1, <4>2 DEF UntoggledRolesKept, Toggled
    <3> QED
      BY <1>2, <3>1, <3>2
  <2>5. \A j \in Pending(shareNet') : ReadFits(shareNet[j])'
    BY <1>0, <1>1, <1>2, <2>0, <2>2 DEF ReadFits
  <2>6. \A j \in Pending(shareNet') : GrantFits(shareNet[j])'
    BY <1>0, <1>1, <2>0, <2>2 DEF GrantFits
  <2> QED
    BY <2>1, <2>3, <2>4, <2>5, <2>6
<1> QED
  BY <1>3, <1>4, ShareBack DEF ShareInv, SelectionInv

\* The answers reach the dialog.
LEMMA ShareAnswerStep ==
    ASSUME ShareInv, NEW i \in Slot, PermsRead(i) \/ Granted(i)
    PROVE  ShareInv'
<1> DEFINE c == shareNet[i]
<1>0. ShareShape /\ IsNet(shareNet) /\ i \in Pending(shareNet) /\ c # Free /\ grants' = grants
  BY DEF ShareInv, ShareShape, PermsRead, Granted, Settled, Ok, Err, Pending
<1>1. shareNet' = Put(shareNet, i, Free)
  BY <1>0, Ending DEF PermsRead, Granted
<1>2. /\ {"clicks", "calm", "of", "before", "toggled"} \subseteq DOMAIN shareLog'
      /\ shareLog'.of = shareLog.of /\ shareLog'.before = shareLog.before /\ shareLog'.toggled = shareLog.toggled
      /\ shareLog'.calm => shareLog.calm /\ (c.op = "perms" => c.st = "ok")
  <2>1. CASE PermsRead(i)
    BY <1>0, <2>1 DEF PermsRead, ShareShape, Ok
  <2>2. CASE Granted(i)
    BY <1>0, <2>2 DEF Granted, ShareShape, Settled, Ok, Err
  <2> QED
    BY <2>1, <2>2
<1>3. \/ share' = None \/ share' = share
      \/ /\ share # None /\ share' # None /\ ShareFormOk(share') /\ share'.of = share.of
         /\ \/ share'.loading = share.loading /\ share'.roles = share.roles
            \/ c.op = "perms" /\ c.st = "ok" /\ share'.roles = c.out
            \/ c.op = "perms" /\ c.st = "err"
  <2>1. CASE share = None
    BY <2>1 DEF PermsRead, Granted, Mine
  <2>2. CASE share # None
    <3>1. ShareFormOk(share)
      BY <1>0, <2>2 DEF ShareShape
    <3>2. CASE PermsRead(i)
      <4>1. c.op = "perms" /\ (c.st = "ok" \/ c.st = "err") /\ (Err(shareNet, i, "perms") <=> c.st = "err")
        BY <3>2 DEF PermsRead, Settled, Ok, Err
      <4>2. CASE c.st = "err"
        <5>1. share' = share \/ share' = [share EXCEPT !.loading = FALSE]
          BY <3>2, <4>1, <4>2 DEF PermsRead
        <5> QED
          BY <2>2, <3>1, <4>1, <4>2, <5>1 DEF ShareFormOk
      <4>3. CASE c.st = "ok"
        <5>1. share' = share \/ share' = [share EXCEPT !.loading = FALSE, !.listed = TRUE, !.roles = c.out]
          BY <3>2, <4>1, <4>3 DEF PermsRead
        <5> QED
          BY <2>2, <3>1, <4>1, <4>3, <5>1 DEF ShareFormOk
      <4> QED
        BY <4>1, <4>2, <4>3
    <3>3. CASE Granted(i)
      <4>1. share' = None \/ share' = share \/ share' = [share EXCEPT !.saving = FALSE]
        BY <3>3 DEF Granted
      <4> QED
        BY <2>2, <3>1, <4>1 DEF ShareFormOk
    <3> QED
      BY <3>2, <3>3
  <2> QED
    BY <2>1, <2>2
<1> HIDE DEF c
<1>4. ShareShape'
  BY <1>0, <1>1, <1>2, <1>3, PutIsNet DEF ShareShape, ShareFormOk
<1>5. ASSUME shareLog'.calm
      PROVE  /\ OneCall(shareNet') /\ UntoggledRolesKept' /\ ScreenFits'
             /\ \A j \in Pending(shareNet') : ReadFits(shareNet[j])' /\ GrantFits(shareNet[j])'
  <2>0. OneCall(shareNet) /\ UntoggledRolesKept /\ ScreenFits /\ ReadFits(c) /\ shareLog.calm
    BY <1>0, <1>2, <1>5 DEF ShareInv, SelectionInv, OneCall, c
  <2>1. \A j \in Pending(shareNet') : FALSE
    BY <1>0, <1>1, <2>0 DEF OneCall, Pending, Put
  <2>2. UntoggledRolesKept'
    BY <1>0, <1>2, <2>0 DEF UntoggledRolesKept
  <2>3. ScreenFits'
    BY <1>2, <1>3, <1>5, <2>0 DEF ScreenFits, ReadFits, Toggled
  <2> QED
    BY <2>1, <2>2, <2>3 DEF OneCall
<1> QED
  BY <1>4, <1>5, ShareBack DEF ShareInv, SelectionInv

\* Every step of the dialog keeps its invariant.
LEMMA ShareStep ==
    ASSUME ShareInv, [ShareNext]_shareVars
    PROVE  ShareInv'
<1>1. ASSUME NEW s \in Shared, OpenShare(s) PROVE ShareInv'
  BY <1>1, OpenShareStep
<1>2. CASE SaveShare
  BY <1>2, SaveShareStep
<1>3. CASE UNCHANGED shareVars \/ CloseShare \/ \E r \in Reader : ToggleRole(r)
  BY <1>3, ShareUserStep
<1>4. ASSUME NEW i \in Slot, ServePerms(i) \/ ServeGrant(i) \/ ShareCallFails(i) PROVE ShareInv'
  BY <1>4, ShareServerStep
<1>5. ASSUME NEW i \in Slot, PermsRead(i) \/ Granted(i) PROVE ShareInv'
  BY <1>5, ShareAnswerStep
<1> QED
  BY <1>1, <1>2, <1>3, <1>4, <1>5, Zenon DEF ShareNext

\* Of the roles, saving a selection changes the access of those that were ticked or
\* unticked in that dialog and of no other, however the requests of the dialogs
\* opened one after the other are answered or lost; grants to single users do not
\* survive it.
THEOREM UntickedRolesAreKept == ShareSpec => []UntoggledRolesKept
<1>1. ShareInv => UntoggledRolesKept
  BY DEF ShareInv, SelectionInv, UntoggledRolesKept
<1> QED
  BY <1>1, ShareInitInv, ShareStep, PTL DEF ShareSpec

-----------------------------------------------------------------------------
(***************************************************************************)
(* The navigation.  The invariant is NavInv of NavConfig.                  *)
(***************************************************************************)

\* A list stays one of the same things when one of them is replaced, taken out or
\* added, and when each becomes another thing.
LEMMA ListEdits ==
    ASSUME NEW S, NEW s \in Seq(S)
    PROVE  /\ <<>> \in Seq(S)
           /\ \A x \in S : <<x>> \in Seq(S) /\ Append(s, x) \in Seq(S)
           /\ \A k \in DOMAIN s : s[k] \in S /\ RemoveAt(s, k) \in Seq(S)
           /\ \A k \in DOMAIN s, x \in S : [s EXCEPT ![k] = x] \in Seq(S)
           /\ Range(s) \subseteq S
<1>1. /\ <<>> \in Seq(S) /\ Len(s) \in Nat /\ DOMAIN s = 1..Len(s)
      /\ \A x \in S : <<x>> \in Seq(S) /\ Append(s, x) \in Seq(S)
      /\ \A k \in 1..Len(s) : s[k] \in S
      /\ \A k \in 1..Len(s), x \in S : [s EXCEPT ![k] = x] \in Seq(S)
  OBVIOUS
<1>2. ASSUME NEW k \in 1..Len(s) PROVE RemoveAt(s, k) \in Seq(S)
  <2>1. SubSeq(s, 1, k - 1) \in Seq(S)
    BY <1>1
  <2>2. SubSeq(s, k + 1, Len(s)) \in Seq(S)
    BY <1>1
  <2>3. RemoveAt(s, k) = SubSeq(s, 1, k - 1) \o SubSeq(s, k + 1, Len(s))
    BY DEF RemoveAt
  <2> QED
    BY <2>1, <2>2, <2>3
<1>3. Range(s) \subseteq S
  BY <1>1 DEF Range
<1> QED
  BY <1>1, <1>2, <1>3

\* The parts of an item, and what an edit of one of them leaves.
LEMMA NavItems ==
    /\ \A label \in Label, href \in Href \cup {None} : Entry(label, href) \in NavLink
    /\ \A label \in Label, href \in Href \cup {None} : LinkItem(label, href) \in NavItem
    /\ \A label \in Label, items \in Seq(NavLink) : Dropdown(label, items) \in NavItem
    /\ \A item \in NavItem :
          /\ item.type \in {"link", "dropdown"} /\ item.label \in Label
          /\ item.items \in Seq(NavLink) /\ item.href \in Href \cup {None}
          /\ item.type = "link" => item.items = <<>>
          /\ item.type = "dropdown" => item.href = None
          /\ \A label \in Label : [item EXCEPT !.label = label] \in NavItem
          /\ item.type = "link" => \A href \in Href : [item EXCEPT !.href = href] \in NavItem
          /\ item.type = "dropdown" => \A items \in Seq(NavLink) : [item EXCEPT !.items = items] \in NavItem
<1>1. <<>> \in Seq(NavLink)
  OBVIOUS
<1>2. \A label \in Label, href \in Href \cup {None} : Entry(label, href) \in NavLink
  BY DEF Entry, NavLink
<1>3. \A label \in Label, href \in Href \cup {None} : LinkItem(label, href) \in NavItem
  BY DEF LinkItem, NavItem
<1>4. \A label \in Label, items \in Seq(NavLink) : Dropdown(label, items) \in NavItem
  BY DEF Dropdown, NavItem
<1> DEFINE links == [type : {"link"}, label : Label, href : Href \cup {None}, items : {<<>>}]
           menus == [type : {"dropdown"}, label : Label, href : {None}, items : Seq(NavLink)]
<1>5. NavItem = links \cup menus
  BY DEF NavItem
<1>6. ASSUME NEW item \in links
      PROVE  /\ item.type = "link" /\ item.label \in Label /\ item.items = <<>> /\ item.href \in Href \cup {None}
             /\ \A label \in Label : [item EXCEPT !.label = label] \in links
             /\ \A href \in Href : [item EXCEPT !.href = href] \in links
  OBVIOUS
<1>7. ASSUME NEW item \in menus
      PROVE  /\ item.type = "dropdown" /\ item.label \in Label /\ item.items \in Seq(NavLink) /\ item.href = None
             /\ \A label \in Label : [item EXCEPT !.label = label] \in menus
             /\ \A items \in Seq(NavLink) : [item EXCEPT !.items = items] \in menus
  OBVIOUS
<1> HIDE DEF links, menus
<1> QED
  BY <1>1, <1>2, <1>3, <1>4, <1>5, <1>6, <1>7

\* What the API makes of a list it accepts.
LEMMA NavStoring ==
    ASSUME NEW items \in Seq(NavItem), NavAccepted(items)
    PROVE  Stored(items) \in Seq(StoredItem)
<1>1. Len(items) \in Nat /\ DOMAIN items = 1..Len(items) /\ \A k \in 1..Len(items) : items[k] \in NavItem
  OBVIOUS
<1>a. ASSUME NEW href \in Href, href # None, href.to \notin OddTarget PROVE Trimmed(href) \in GoodHref
  <2>1. Trimmed(href) = [href EXCEPT !.padded = FALSE]
    BY <1>a DEF Trimmed
  <2> DEFINE h == [href EXCEPT !.padded = FALSE]
  <2>2. h \in Href /\ h.to = href.to
    BY DEF Href
  <2>3. ~h.padded
    <3>1. "padded" \in DOMAIN href
      BY DEF Href
    <3>2. h.padded = FALSE
      BY <3>1
    <3> QED
      BY <3>2, Zenon
  <2> HIDE DEF h
  <2>4. h \in GoodHref
    BY <1>a, <2>2, <2>3 DEF GoodHref
  <2> QED
    BY <2>1, <2>4 DEF h
<1>2. ASSUME NEW k \in 1..Len(items) PROVE TrimmedItem(items[k]) \in StoredItem
  <2> DEFINE item == items[k]
             one == [item EXCEPT !.href = Trimmed(item.href)]
             cut == TrimmedEntries(item.items)
             two == [one EXCEPT !.items = cut]
  <2>1. /\ item \in NavItem /\ item \in Range(items)
        /\ \A e \in Range(item.items) : HrefFine(e.href)
        /\ IF item.type = "link" THEN item.items = <<>> /\ HrefFine(item.href)
           ELSE item.items # <<>> /\ item.href = None
    <3>1. item \in NavItem /\ item \in Range(items)
      BY <1>1 DEF Range
    <3> QED
      BY <3>1 DEF NavAccepted, ItemAccepted
  <2>2. TrimmedItem(item) = two
    BY Zenon DEF TrimmedItem
  <2>3. /\ item.type \in {"link", "dropdown"} /\ item.label \in Label
        /\ item.items \in Seq(NavLink) /\ item.href \in Href \cup {None}
    BY <2>1, NavItems
  <2>4. cut \in Seq(NavLink) /\ DOMAIN cut = DOMAIN item.items /\ \A c \in DOMAIN cut : cut[c].href \in GoodHref
    <3>1. /\ Len(item.items) \in Nat /\ DOMAIN item.items = 1..Len(item.items)
          /\ \A c \in DOMAIN item.items : item.items[c] \in NavLink /\ item.items[c] \in Range(item.items)
      BY <2>3 DEF Range
    <3>2. ASSUME NEW c \in DOMAIN item.items
          PROVE  /\ [item.items[c] EXCEPT !.href = Trimmed(item.items[c].href)] \in NavLink
                 /\ [item.items[c] EXCEPT !.href = Trimmed(item.items[c].href)].href \in GoodHref
      <4> DEFINE e == item.items[c]
      <4>1. e \in NavLink /\ HrefFine(e.href)
        BY <2>1, <3>1
      <4>2. Trimmed(e.href) \in GoodHref
        <5>1. e.href \in Href \cup {None} /\ e.href # None /\ e.href.to \notin OddTarget
          BY <4>1 DEF HrefFine, NavLink
        <5> HIDE DEF e
        <5> QED
          BY <1>a, <5>1
      <4> HIDE DEF e
      <4>3. [e EXCEPT !.href = Trimmed(e.href)] \in NavLink /\ [e EXCEPT !.href = Trimmed(e.href)].href \in GoodHref
        BY <4>1, <4>2 DEF NavLink, GoodHref
      <4> QED
        BY <4>3 DEF e
    <3> HIDE DEF item
    <3>3. cut \in [1..Len(item.items) -> NavLink] /\ \A c \in DOMAIN cut : cut[c].href \in GoodHref
      BY <3>1, <3>2 DEF TrimmedEntries
    <3> HIDE DEF cut
    <3> QED
      BY <3>1, <3>3
  <2> HIDE DEF cut
  <2>5. \A e \in Range(cut) : e.href \in GoodHref
    BY <2>4 DEF Range
  <2>6. CASE item.type = "link"
    <3>1. item.items = <<>> /\ Trimmed(item.href) \in GoodHref
      BY <1>a, <2>1, <2>3, <2>6 DEF HrefFine
    <3>2. cut = <<>>
      BY <2>4, <3>1
    <3>3. item \in [type : {"link"}, label : Label, href : Href \cup {None}, items : {<<>>}]
      BY <2>1, <2>6 DEF NavItem
    <3> HIDE DEF item
    <3>4. one \in [type : {"link"}, label : Label, href : Href \cup {None}, items : {<<>>}] /\ one.href \in GoodHref
      BY <3>1, <3>3 DEF GoodHref
    <3> HIDE DEF one
    <3>5. two \in [type : {"link"}, label : Label, href : Href \cup {None}, items : {<<>>}] /\ two.href \in GoodHref
      BY <3>2, <3>4
    <3> HIDE DEF two
    <3>6. two \in NavItem /\ two.type = "link" /\ two.href \in GoodHref
      BY <3>5 DEF NavItem
    <3> QED
      BY <2>2, <3>6 DEF StoredItem, item
  <2>7. CASE item.type = "dropdown"
    <3>1. item.href = None /\ Trimmed(item.href) = None
      BY <2>1, <2>7 DEF Trimmed
    <3>2. item \in [type : {"dropdown"}, label : Label, href : {None}, items : Seq(NavLink)]
      BY <2>1, <2>7 DEF NavItem
    <3> HIDE DEF item
    <3>3. one \in [type : {"dropdown"}, label : Label, href : {None}, items : Seq(NavLink)]
      BY <3>1, <3>2
    <3> HIDE DEF one
    <3>4. two \in [type : {"dropdown"}, label : Label, href : {None}, items : Seq(NavLink)] /\ two.items = cut
      BY <2>4, <3>3
    <3> HIDE DEF two
    <3>5. two \in NavItem /\ two.type = "dropdown" /\ \A e \in Range(two.items) : e.href \in GoodHref
      BY <2>5, <3>4 DEF NavItem
    <3> QED
      BY <2>2, <3>5 DEF StoredItem, item
  <2> QED
    BY <2>3, <2>6, <2>7
<1> DEFINE out == Stored(items)
<1>3. out \in [1..Len(items) -> StoredItem]
  BY <1>1, <1>2 DEF Stored
<1> HIDE DEF out
<1>4. out \in Seq(StoredItem)
  BY <1>1, <1>3
<1> QED
  BY <1>4 DEF out

\* The invariant says what it is for.
LEMMA NavInvWorks == NavInv => NavigationWorks
<1> SUFFICES ASSUME NavInv PROVE NavigationWorks
  OBVIOUS
<1>1. RefusedForLimits
  <2> SUFFICES ASSUME NEW i \in Of(editorNet, {"save"}), NEW sent, sent = editorNet[i].arg,
                      ~NavAccepted(sent), ~(Len(sent) > ItemLimit)
               PROVE  \E item \in Range(sent) : Unchecked(item)
    BY DEF RefusedForLimits
  <2>1. sent \in Seq(NavItem) /\ ValidNav(sent)
    BY DEF NavInv, NavCallFits, Of
  <2>2. Range(sent) \subseteq NavItem
    BY <2>1, ListEdits
  <2>3. PICK item \in Range(sent) : ~ItemAccepted(item)
    BY <2>1, NavAssumption DEF NavAccepted
  <2>4. /\ item.type \in {"link", "dropdown"} /\ item.label \in Label
        /\ item.items \in Seq(NavLink) /\ Range(item.items) \subseteq NavLink
        /\ item.type = "link" => item.items = <<>>
        /\ item.type = "dropdown" => item.href = None
    <3>1. /\ item.type \in {"link", "dropdown"} /\ item.label \in Label
          /\ item.items \in Seq(NavLink)
          /\ item.type = "link" => item.items = <<>>
          /\ item.type = "dropdown" => item.href = None
      BY <2>2, NavItems
    <3> QED
      BY <3>1, ListEdits
  <2>5. ItemFine(item)
    BY <2>1 DEF ValidNav
  <2>6. Range(<<>>) = {}
    BY DEF Range
  <2> SUFFICES ASSUME ~Unchecked(item) PROVE FALSE
    OBVIOUS
  <2>9. /\ Len(item.items) \in Nat /\ Len(item.items) <= EntryLimit
        /\ \A x \in {item} \cup Range(item.items) : x.label # "long" /\ (x.href = None \/ x.href.to \notin OddTarget)
    BY <2>4, NavAssumption DEF Unchecked
  <2>7. CASE item.type = "link"
    BY <2>3, <2>4, <2>5, <2>6, <2>7, <2>9 DEF ItemFine, ItemAccepted, HrefFine, Label
  <2>8. CASE item.type = "dropdown"
    <3>1. \A e \in Range(item.items) : e.label = "short" /\ HrefFine(e.href)
      BY <2>4, <2>5, <2>8, <2>9 DEF ItemFine, HrefFine, NavLink, Label
    <3> QED
      BY <2>3, <2>4, <2>5, <2>8, <2>9, <3>1 DEF ItemFine, ItemAccepted, Label
  <2> QED
    BY <2>4, <2>7, <2>8
<1>2. BarLeadsSomewhere
  <2> SUFFICES ASSUME NEW href \in BarLinks PROVE href # None /\ ~href.padded /\ href.to \notin OddTarget
    BY DEF BarLeadsSomewhere
  <2>1. bar.config \in Seq(StoredItem) /\ bar.viewer \in Viewer
    BY DEF NavInv
  <2>2. Range(bar.config) \subseteq StoredItem
    BY <2>1, ListEdits
  <2>3. ASSUME NEW g \in GoodHref PROVE g # None /\ ~g.padded /\ g.to \notin OddTarget
    BY NavAssumption DEF GoodHref
  <2>4. CASE href \in DefaultLinks
    BY <2>1, <2>4, NavAssumption DEF DefaultLinks
  <2>5. CASE href \notin DefaultLinks
    <3>1. PICK item \in Range(bar.config) :
              href \in (IF item.type = "link" THEN {item.href}
                        ELSE {e.href : e \in {f \in Range(item.items) : Accessible(f.href.to)}})
      BY <2>5 DEF BarLinks
    <3>2. href \in GoodHref
      BY <2>2, <3>1 DEF StoredItem
    <3> QED
      BY <2>3, <3>2
  <2> QED
    BY <2>4, <2>5
<1> QED
  BY <1>1, <1>2 DEF NavigationWorks

NavShape ==
    /\ IsNet(editorNet) /\ editor.clicks \in Nat
    /\ {"items", "loading", "saving", "touched", "clicks", "calm"} \subseteq DOMAIN editor
    /\ {"config", "mounted", "viewer", "access"} \subseteq DOMAIN bar

NavOk == NavShape /\ NavInv

LEMMA NavInitInv == NavInit => NavOk
<1> SUFFICES ASSUME NavInit PROVE NavOk
  OBVIOUS
<1> DEFINE c == Call("load", None)
<1>0. c.op = "load" /\ c.st = "sent" /\ IsCall(c)
  BY CallIsCall DEF Call
<1>1. PICK k : editorNet = Put(NoCalls, k, c)
  BY NoCallsIsNet, Sending DEF NavInit
<1> HIDE DEF c
<1>2. IsNet(editorNet)
  BY <1>0, <1>1, NoCallsIsNet, PutIsNet
<1>3. \A j \in Pending(editorNet) : editorNet[j] = c
  BY <1>1 DEF Put, NoCalls, Pending
<1>4. NavShape
  BY <1>2 DEF NavShape, NavInit
<1>5. \A j \in Pending(editorNet) : NavCallFits(editorNet[j])
  BY <1>0, <1>3 DEF NavCallFits
<1>6. <<>> \in Seq(StoredItem) /\ <<>> \in Seq(NavItem)
  OBVIOUS
<1>7. editor.items = <<>> /\ bar.config = <<>> /\ bar.viewer \in Viewer
  BY NavAssumption DEF NavInit
<1>8. navConfig \in Seq(StoredItem)
  BY FirstNavsAssumption DEF NavInit
<1> QED
  BY <1>4, <1>5, <1>6, <1>7, <1>8 DEF NavOk, NavInv

\* The administrator edits the draft.
LEMMA NavDraftStep ==
    ASSUME NavOk, NEW items \in Seq(NavItem), Draft(items)
    PROVE  NavOk'
<1> DEFINE p == Pressed(editor, TRUE)
           e == [p EXCEPT !.items = items, !.touched = TRUE]
<1>1. /\ DOMAIN p = DOMAIN editor /\ p.clicks \in Nat
      /\ {"items", "loading", "saving", "touched", "clicks", "calm"} \subseteq DOMAIN p
  <2>1. /\ editor.clicks \in Nat /\ {"clicks", "calm"} \subseteq DOMAIN editor
        /\ {"items", "loading", "saving", "touched", "clicks", "calm"} \subseteq DOMAIN editor
    BY DEF NavOk, NavShape
  <2>2. DOMAIN p = DOMAIN editor /\ p.clicks \in Nat
    BY <2>1, Pressing
  <2> QED
    BY <2>1, <2>2
<1>2. editor' = e /\ navConfig' = navConfig /\ bar' = bar /\ editorNet' = editorNet
  BY DEF Draft
<1> HIDE DEF p
<1>3. {"items", "loading", "saving", "touched", "clicks", "calm"} \subseteq DOMAIN e /\ e.items = items /\ e.clicks \in Nat
  BY <1>1
<1> HIDE DEF e
<1>4. NavShape'
  BY <1>2, <1>3 DEF NavOk, NavShape
<1>5. NavInv'
  BY <1>2, <1>3 DEF NavOk, NavInv, NavCallFits, Pending
<1> QED
  BY <1>4, <1>5 DEF NavOk

LEMMA NavEditStep ==
    ASSUME NavOk,
           \/ AddItem \/ ResetNav
           \/ \E k \in DOMAIN editor.items :
                 \/ SwitchType(k) \/ AddEntry(k) \/ RemoveItem(k)
                 \/ \E label \in Label : Rename(k, label)
                 \/ \E href \in Href : PointLink(k, href)
                 \/ \E target \in 1..MaxItems : MoveItem(k, target)
                 \/ \E c \in DOMAIN editor.items[k].items :
                       \/ RemoveEntry(k, c)
                       \/ \E label \in Label, href \in Href \cup {None} : UpdateEntry(k, c, Entry(label, href))
    PROVE  NavOk'
<1> DEFINE items == editor.items
<1>1. items \in Seq(NavItem)
  BY DEF NavOk, NavInv
<1>a. Fresh \in NavLink /\ FALSE \in BOOLEAN /\ None \in Href \cup {None}
  <2>1. "" \in Label /\ None \in Href \cup {None}
    BY DEF Label
  <2> QED
    BY <2>1, NavItems DEF Fresh
<1>b. <<Fresh>> \in Seq(NavLink) /\ \A s \in Seq(NavLink) : Append(s, Fresh) \in Seq(NavLink)
  BY <1>a, ListEdits
<1>2. CASE AddItem
  <2>1. PICK item \in {LinkItem("", None), Dropdown("", <<Fresh>>)} : Draft(Append(items, item))
    BY <1>2 DEF AddItem
  <2>2. item \in NavItem
    <3>1. "" \in Label /\ None \in Href \cup {None}
      BY DEF Label
    <3> QED
      BY <1>b, <2>1, <3>1, NavItems
  <2> HIDE DEF items
  <2>3. Append(items, item) \in Seq(NavItem)
    BY <1>1, <2>2, ListEdits
  <2> QED
    BY <2>1, <2>3, NavDraftStep
<1>3. CASE ResetNav
  <2>1. <<>> \in Seq(NavItem)
    OBVIOUS
  <2> QED
    BY <1>3, <2>1, NavDraftStep DEF ResetNav
<1>4. ASSUME NEW k \in DOMAIN items, NEW item \in NavItem, UpdateItem(k, item) PROVE NavOk'
  <2>1. [items EXCEPT ![k] = item] \in Seq(NavItem)
    <3> HIDE DEF items
    <3> QED
      BY <1>1, ListEdits
  <2> QED
    BY <1>4, <2>1, NavDraftStep DEF UpdateItem
<1>5. ASSUME NEW k \in DOMAIN items
      PROVE  /\ items[k] \in NavItem
             /\ items[k].type \in {"link", "dropdown"} /\ items[k].label \in Label
             /\ items[k].items \in Seq(NavLink)
             /\ \A label \in Label : [items[k] EXCEPT !.label = label] \in NavItem
             /\ items[k].type = "link" => \A href \in Href : [items[k] EXCEPT !.href = href] \in NavItem
             /\ items[k].type = "dropdown" => \A s \in Seq(NavLink) : [items[k] EXCEPT !.items = s] \in NavItem
  <2>1. items[k] \in NavItem
    BY <1>1, ListEdits
  <2> HIDE DEF items
  <2> QED
    BY <2>1, NavItems
<1>6. ASSUME NEW k \in DOMAIN items, NEW s \in Seq(NavLink), EditEntries(k, s) PROVE NavOk'
  <2>1. items[k].type = "dropdown" /\ UpdateItem(k, [items[k] EXCEPT !.items = s])
    BY <1>6 DEF EditEntries
  <2> HIDE DEF items
  <2> QED
    BY <1>4, <1>5, <2>1
<1>7. ASSUME NEW k \in DOMAIN items, NEW label \in Label, Rename(k, label) PROVE NavOk'
  BY <1>4, <1>5, <1>7 DEF Rename
<1>8. ASSUME NEW k \in DOMAIN items, NEW href \in Href, PointLink(k, href) PROVE NavOk'
  BY <1>4, <1>5, <1>8 DEF PointLink
<1>9. ASSUME NEW k \in DOMAIN items, SwitchType(k) PROVE NavOk'
  <2> DEFINE item == IF items[k].type = "link" THEN Dropdown(items[k].label, <<Fresh>>) ELSE LinkItem(items[k].label, None)
  <2>1. UpdateItem(k, item)
    BY <1>9 DEF SwitchType
  <2>2. item \in NavItem
    BY <1>5, <1>a, <1>b, NavItems
  <2> QED
    BY <1>4, <2>1, <2>2
<1>10. ASSUME NEW k \in DOMAIN items, AddEntry(k) PROVE NavOk'
  BY <1>10, <1>5, <1>6, <1>b DEF AddEntry
<1>11. ASSUME NEW k \in DOMAIN items, NEW c \in DOMAIN items[k].items, NEW e \in NavLink,
              RemoveEntry(k, c) \/ UpdateEntry(k, c, e)
       PROVE  NavOk'
  <2> DEFINE s == items[k].items
  <2>1. s \in Seq(NavLink)
    BY <1>5
  <2>2. EditEntries(k, RemoveAt(s, c)) \/ EditEntries(k, [s EXCEPT ![c] = e])
    BY <1>11 DEF RemoveEntry, UpdateEntry
  <2>3. RemoveAt(s, c) \in Seq(NavLink) /\ [s EXCEPT ![c] = e] \in Seq(NavLink)
    <3>1. c \in DOMAIN s
      OBVIOUS
    <3> HIDE DEF s
    <3> QED
      BY <2>1, <3>1, ListEdits
  <2> QED
    BY <1>6, <2>2, <2>3
<1>12. ASSUME NEW k \in DOMAIN items, RemoveItem(k) PROVE NavOk'
  <2>1. RemoveAt(items, k) \in Seq(NavItem)
    BY <1>1, ListEdits
  <2> QED
    BY <1>12, <2>1, NavDraftStep DEF RemoveItem
<1>13. ASSUME NEW k \in DOMAIN items, NEW target, MoveItem(k, target) PROVE NavOk'
  <2> DEFINE one == [items EXCEPT ![k] = items[target]]
  <2>1. target \in DOMAIN items /\ Draft([one EXCEPT ![target] = items[k]])
    BY <1>13 DEF MoveItem
  <2>2. items[k] \in NavItem /\ items[target] \in NavItem
    BY <1>5, <2>1
  <2>3. one \in Seq(NavItem) /\ DOMAIN one = DOMAIN items
    <3> HIDE DEF items
    <3> QED
      BY <1>1, <2>2, ListEdits
  <2> HIDE DEF one, items
  <2>4. [one EXCEPT ![target] = items[k]] \in Seq(NavItem)
    BY <2>1, <2>2, <2>3, ListEdits
  <2> QED
    BY <2>1, <2>4, NavDraftStep
<1>14. \A label \in Label, href \in Href \cup {None} : Entry(label, href) \in NavLink
  BY NavItems
<1> QED
  BY <1>2, <1>3, <1>7, <1>8, <1>9, <1>10, <1>11, <1>12, <1>13, <1>14, <1>a, Zenon

\* The page sends and takes answers, and the API reads and stores.
LEMMA NavSaveStep ==
    ASSUME NavOk, SaveNav
    PROVE  NavOk'
<1> DEFINE p == Pressed(editor, ~editor.saving)
           e == [p EXCEPT !.saving = TRUE]
           c == Call("save", editor.items)
<1>0. NavShape /\ NavInv /\ IsNet(editorNet)
  BY DEF NavOk, NavShape
<1>1. /\ DOMAIN p = DOMAIN editor /\ p.clicks \in Nat /\ p.items = editor.items
      /\ {"items", "loading", "saving", "touched", "clicks", "calm"} \subseteq DOMAIN p
  <2>1. /\ editor.clicks \in Nat /\ {"clicks", "calm"} \subseteq DOMAIN editor
        /\ {"items", "loading", "saving", "touched", "clicks", "calm"} \subseteq DOMAIN editor
    BY <1>0 DEF NavShape
  <2>2. DOMAIN p = DOMAIN editor /\ p.clicks \in Nat /\ p["items"] = editor["items"]
    BY <2>1, Pressing
  <2> QED
    BY <2>1, <2>2
<1>2. editor' = e /\ navConfig' = navConfig /\ bar' = bar /\ ValidNav(editor.items)
  BY DEF SaveNav
<1>3. PICK k : editorNet' = Put(editorNet, k, c)
  BY <1>0, Sending DEF SaveNav
<1>4. c.op = "save" /\ c.st = "sent" /\ c.arg = editor.items /\ IsCall(c)
  BY CallIsCall DEF Call
<1> HIDE DEF p, c
<1>5. {"items", "loading", "saving", "touched", "clicks", "calm"} \subseteq DOMAIN e /\ e.items = editor.items /\ e.clicks \in Nat
  BY <1>1
<1> HIDE DEF e
<1>6. IsNet(editorNet')
  BY <1>0, <1>3, <1>4, PutIsNet
<1>7. NavShape'
  BY <1>0, <1>2, <1>5, <1>6 DEF NavShape
<1>8. NavCallFits(c)
  BY <1>0, <1>2, <1>4 DEF NavInv, NavCallFits
<1>9. \A j \in Pending(editorNet') : NavCallFits(editorNet'[j])
  BY <1>0, <1>3, <1>8 DEF NavInv, Pending, Put
<1>10. NavInv'
  BY <1>0, <1>2, <1>5, <1>9 DEF NavInv
<1> QED
  BY <1>7, <1>10 DEF NavOk

LEMMA NavServerStep ==
    ASSUME NavOk, NEW i \in Slot, ServeNav(i) \/ ServeSaveNav(i) \/ NavCallFails(i)
    PROVE  NavOk'
<1> DEFINE c == editorNet[i]
           ok(out) == [op |-> c.op, arg |-> c.arg, st |-> "ok", out |-> out]
           err == [op |-> c.op, arg |-> c.arg, st |-> "err", out |-> c.out]
<1>0. NavShape /\ NavInv /\ IsNet(editorNet) /\ i \in Pending(editorNet) /\ c # Free /\ bar' = bar /\ NavCallFits(c)
  BY DEF NavOk, NavShape, NavInv, ServeNav, ServeSaveNav, NavCallFails, Sent, CanFail, Pending
<1>a. /\ \A out : Reply(editorNet, i, out) = Put(editorNet, i, ok(out)) /\ IsCall(ok(out))
      /\ Fail(editorNet, i) = Put(editorNet, i, err) /\ IsCall(err)
      /\ \A out : ok(out).op = c.op /\ ok(out).arg = c.arg /\ ok(out).st = "ok" /\ ok(out).out = out
      /\ err.op = c.op /\ err.arg = c.arg /\ err.st = "err"
  BY <1>0, Answering DEF IsCall
<1> HIDE DEF ok, err
<1>1. /\ {"items", "loading", "saving", "touched", "clicks", "calm"} \subseteq DOMAIN editor'
      /\ editor'.clicks \in Nat /\ editor'.items = editor.items
  <2>1. CASE NavCallFails(i)
    BY <1>0, <2>1 DEF NavShape, NavCallFails, Missed
  <2>2. CASE editor' = editor
    BY <1>0, <2>2 DEF NavShape
  <2> QED
    BY <2>1, <2>2 DEF ServeNav, ServeSaveNav
<1>2. PICK d : /\ editorNet' = Put(editorNet, i, d) /\ IsCall(d)
               /\ navConfig' \in Seq(StoredItem) /\ NavCallFits(d)
  <2>1. CASE ServeNav(i)
    <3>1. editorNet' = Put(editorNet, i, ok(navConfig)) /\ navConfig' = navConfig /\ c.op = "load"
      BY <1>a, <2>1 DEF ServeNav, Sent
    <3>2. NavCallFits(ok(navConfig))
      BY <1>0, <1>a, <3>1 DEF NavCallFits, NavInv
    <3> QED
      BY <1>0, <1>a, <3>1, <3>2 DEF NavInv
  <2>2. ASSUME ServeSaveNav(i), NavAccepted(c.arg)
        PROVE  \E d : /\ editorNet' = Put(editorNet, i, d) /\ IsCall(d)
                      /\ navConfig' \in Seq(StoredItem) /\ NavCallFits(d)
    <3>1. c.op = "save" /\ editorNet' = Put(editorNet, i, ok(Stored(c.arg))) /\ navConfig' = Stored(c.arg)
      BY <1>a, <2>2 DEF ServeSaveNav, Sent
    <3>2. c.arg \in Seq(NavItem) /\ ValidNav(c.arg)
      BY <1>0, <3>1 DEF NavCallFits
    <3>3. Stored(c.arg) \in Seq(StoredItem)
      BY <2>2, <3>2, NavStoring
    <3>4. NavCallFits(ok(Stored(c.arg)))
      BY <1>a, <3>1, <3>2, <3>3 DEF NavCallFits
    <3> QED
      BY <1>a, <3>1, <3>3, <3>4
  <2>3. ASSUME (ServeSaveNav(i) /\ ~NavAccepted(c.arg)) \/ NavCallFails(i)
        PROVE  \E d : /\ editorNet' = Put(editorNet, i, d) /\ IsCall(d)
                      /\ navConfig' \in Seq(StoredItem) /\ NavCallFits(d)
    <3>1. editorNet' = Put(editorNet, i, err) /\ navConfig' = navConfig
      BY <1>a, <2>3 DEF ServeSaveNav, NavCallFails
    <3>2. NavCallFits(err)
      BY <1>0, <1>a DEF NavCallFits
    <3> QED
      BY <1>0, <1>a, <3>1, <3>2 DEF NavInv
  <2> QED
    BY <2>1, <2>2, <2>3
<1>3. IsNet(editorNet')
  BY <1>0, <1>2, PutIsNet
<1>4. \A j \in Pending(editorNet') : NavCallFits(editorNet'[j])
  BY <1>0, <1>2 DEF NavInv, Pending, Put
<1>5. NavShape' /\ NavInv'
  BY <1>0, <1>1, <1>2, <1>3, <1>4 DEF NavShape, NavInv
<1> QED
  BY <1>5 DEF NavOk

LEMMA NavAnswerStep ==
    ASSUME NavOk, NEW i \in Slot, NavRead(i) \/ NavSaved(i)
    PROVE  NavOk'
<1> DEFINE c == editorNet[i]
<1>0. /\ NavShape /\ NavInv /\ IsNet(editorNet) /\ NavCallFits(c) /\ Done(editorNet, i) = Put(editorNet, i, Free)
      /\ editorNet' = Done(editorNet, i) /\ bar' = bar /\ navConfig' = navConfig
  BY Ending DEF NavOk, NavShape, NavInv, NavRead, NavSaved, Settled, Ok, Err, Pending
<1>1. \A s \in Seq(StoredItem) : s \in Seq(NavItem)
  BY SeqGrows DEF StoredItem
<1>2. /\ {"items", "loading", "saving", "touched", "clicks", "calm"} \subseteq DOMAIN editor'
      /\ editor'.clicks \in Nat /\ editor'.items \in Seq(NavItem)
  <2>1. CASE NavRead(i)
    <3>1. \/ editor' = [editor EXCEPT !.items = c.out, !.loading = FALSE] /\ c.out \in Seq(NavItem)
          \/ editor' = [editor EXCEPT !.loading = FALSE, !.calm = FALSE]
      BY <1>0, <1>1, <2>1 DEF NavRead, Ok, NavCallFits
    <3> HIDE DEF c
    <3> QED
      BY <1>0, <3>1 DEF NavShape, NavInv
  <2>2. CASE NavSaved(i)
    <3> DEFINE free == [editor EXCEPT !.saving = FALSE]
    <3>1. \/ editor' = [free EXCEPT !.items = c.out, !.touched = FALSE] /\ c.out \in Seq(NavItem)
          \/ editor' = free
      BY <1>0, <1>1, <2>2 DEF NavSaved, Ok, NavCallFits
    <3>2. /\ {"items", "loading", "saving", "touched", "clicks", "calm"} \subseteq DOMAIN free
          /\ free.clicks \in Nat /\ free.items \in Seq(NavItem)
      BY <1>0 DEF NavShape, NavInv
    <3> HIDE DEF c, free
    <3> QED
      BY <3>1, <3>2
  <2> QED
    BY <2>1, <2>2
<1>3. IsNet(editorNet')
  BY <1>0, PutIsNet
<1>4. \A j \in Pending(editorNet') : NavCallFits(editorNet'[j])
  BY <1>0 DEF NavInv, Pending, Put
<1>5. NavShape' /\ NavInv'
  BY <1>0, <1>2, <1>3, <1>4 DEF NavShape, NavInv
<1> QED
  BY <1>5 DEF NavOk

\* A user opens the portal, and the bar takes over.
LEMMA NavBarStep ==
    ASSUME NavOk, MountBar \/ \E v \in Viewer, config \in {navConfig, <<>>} : OpenPortal(v, config)
    PROVE  NavOk'
<1>0. NavShape /\ NavInv /\ editor' = editor /\ editorNet' = editorNet /\ navConfig' = navConfig
  BY DEF NavOk, MountBar, OpenPortal
<1>1. /\ {"config", "mounted", "viewer", "access"} \subseteq DOMAIN bar'
      /\ bar'.config \in Seq(StoredItem) /\ bar'.viewer \in Viewer
  <2>1. CASE MountBar
    BY <1>0, <2>1 DEF MountBar, NavShape, NavInv
  <2>2. ASSUME NEW v \in Viewer, NEW config \in {navConfig, <<>>}, OpenPortal(v, config)
        PROVE  /\ {"config", "mounted", "viewer", "access"} \subseteq DOMAIN bar'
               /\ bar'.config \in Seq(StoredItem) /\ bar'.viewer \in Viewer
    <3>1. PICK access : bar' = [config |-> config, mounted |-> FALSE, viewer |-> v, access |-> access]
      BY <2>2, Zenon DEF OpenPortal
    <3>2. config \in Seq(StoredItem)
      <4>1. navConfig \in Seq(StoredItem)
        BY <1>0 DEF NavInv
      <4>2. <<>> \in Seq(StoredItem)
        OBVIOUS
      <4> QED
        BY <4>1, <4>2, Zenon
    <3> QED
      BY <3>1, <3>2
  <2> QED
    BY <2>1, <2>2
<1>2. NavShape' /\ NavInv'
  BY <1>0, <1>1 DEF NavShape, NavInv, NavCallFits, Pending
<1> QED
  BY <1>2 DEF NavOk

LEMMA NavStep ==
    ASSUME NavOk, [NavNext]_navVars
    PROVE  NavOk'
<1>1. CASE UNCHANGED navVars
  BY <1>1 DEF navVars, NavOk, NavShape, NavInv, NavCallFits, Pending
<1>2. CASE NavNext
  <2>1. ASSUME NEW i \in Slot, ServeNav(i) \/ ServeSaveNav(i) \/ NavCallFails(i) PROVE NavOk'
    BY <2>1, NavServerStep
  <2>2. ASSUME NEW i \in Slot, NavRead(i) \/ NavSaved(i) PROVE NavOk'
    BY <2>2, NavAnswerStep
  <2> QED
    BY <1>2, <2>1, <2>2, NavEditStep, NavSaveStep, NavBarStep, Zenon DEF NavNext
<1> QED
  BY <1>1, <1>2

\* The API refuses a draft the page sends for its lengths and for odd paths, which the
\* page does not check, and for nothing else; and every link a user gets leads
\* somewhere, whatever was drafted, refused or saved meanwhile.
THEOREM NavigationIsSound == NavSpec => [](RefusedForLimits /\ BarLeadsSomewhere)
<1>1. NavOk => RefusedForLimits /\ BarLeadsSomewhere
  BY NavInvWorks DEF NavOk, NavigationWorks
<1> QED
  BY <1>1, NavInitInv, NavStep, PTL DEF NavSpec

-----------------------------------------------------------------------------
(***************************************************************************)
(* The console: a step of it is one of the page on display, and leaves the *)
(* variables of every other page as they are.                              *)
(***************************************************************************)
LEMMA ConsoleRefines ==
    /\ Init => /\ InvitesInit /\ ChangesInit /\ PageInit
               /\ ConnsInit /\ RolesInit /\ GroupsInit /\ ShareInit /\ NavInit
    /\ [Next]_vars => /\ [InvitesNext]_inviteVars /\ [ChangesNext]_changeVars /\ [PageNext]_pageVars
                      /\ [ConnsNext]_connVars /\ [RolesNext]_roleVars /\ [GroupsNext]_groupVars
                      /\ [ShareNext]_shareVars /\ [NavNext]_navVars
<1>1. Init => /\ InvitesInit /\ ChangesInit /\ PageInit
              /\ ConnsInit /\ RolesInit /\ GroupsInit /\ ShareInit /\ NavInit
  BY DEF Init
<1>2. ASSUME [Next]_vars
      PROVE  /\ [InvitesNext]_inviteVars /\ [ChangesNext]_changeVars /\ [PageNext]_pageVars
             /\ [ConnsNext]_connVars /\ [RolesNext]_roleVars /\ [GroupsNext]_groupVars
             /\ [ShareNext]_shareVars /\ [NavNext]_navVars
  <2>1. CASE UNCHANGED vars
    BY <2>1 DEF vars
  <2>2. ASSUME NEW s \in Screens, Others(s)
        PROVE  /\ s # "invites" => UNCHANGED inviteVars
               /\ s # "changes" => UNCHANGED changeVars
               /\ s # "page" => UNCHANGED pageVars
               /\ s # "connections" => UNCHANGED connVars
               /\ s # "roles" => UNCHANGED roleVars
               /\ s # "groups" => UNCHANGED groupVars
               /\ s # "access" => UNCHANGED shareVars
               /\ s # "navigation" => UNCHANGED navVars
    BY <2>2, Zenon DEF Others
  <2>3. CASE Next
    <3>1. PICK s \in Screens : /\ Others(s)
                               /\ s = "invites" => InvitesNext
                               /\ s = "changes" => ChangesNext
                               /\ s = "page" => PageNext
                               /\ s = "connections" => ConnsNext
                               /\ s = "roles" => RolesNext
                               /\ s = "groups" => GroupsNext
                               /\ s = "access" => ShareNext
                               /\ s = "navigation" => NavNext
      BY <2>3, Zenon DEF Next, Screens
    <3> QED
      BY <2>2, <3>1
  <2> QED
    BY <1>2, <2>1, <2>3
<1> QED
  BY <1>1, <1>2

LEMMA ConsoleIsItsPages ==
    Spec => /\ InvitesSpec /\ ChangesSpec /\ PageSpec
            /\ ConnsSpec /\ RolesSpec /\ GroupsSpec /\ ShareSpec /\ NavSpec
  BY ConsoleRefines, PTL
     DEF Spec, InvitesSpec, ChangesSpec, PageSpec, ConnsSpec, RolesSpec, GroupsSpec, ShareSpec, NavSpec

\* In the console an address gets one account at most, none through a revoked
\* invitation; no action is left half reverted; no revision of a page is lost; and a
\* navigation is refused for lengths and odd paths only, and leads users somewhere.
THEOREM ConsoleKeepsItsPromises == Spec => [](OneAccount /\ NoHalfRevert /\ RevisionsKept /\ NavigationWorks)
<1>1. NavigationWorks <=> RefusedForLimits /\ BarLeadsSomewhere
  BY DEF NavigationWorks
<1> QED
  BY <1>1, ConsoleIsItsPages, OneAccountPerAddress, ActionsRevertWhole, RevisionsAreKept, NavigationIsSound, PTL

\* Four things that a form saved whole keeps when they are not changed in it: the
\* secret left blank, the permissions not ticked, the destinations of other channels,
\* the roles of a shared resource whose boxes were left alone.  The grants to single
\* users are none of them, nor are the further roles of a user.
THEOREM EditsAreKept == Spec => EditsKeepTheRest
  BY ConsoleIsItsPages, SecretsAreKept, GrantsAreKept, DestinationsAreKept, UntickedRolesAreKept, PTL
     DEF EditsKeepTheRest

===============================================================================
