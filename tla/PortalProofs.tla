------------------------------- MODULE PortalProofs ------------------------------
(***************************************************************************)
(* What the pages on which people work promise, for any number of requests *)
(* in flight, of clicks and of rows.  As in ConsoleProofs each part takes  *)
(* one page, and the last carries the results over to the portal.          *)
(***************************************************************************)
EXTENDS Portal, CallsProofs

-----------------------------------------------------------------------------
(***************************************************************************)
(* The dashboards page: settings a dashboard has embedded can be restored. *)
(* The invariant is HistoryInv of BoardsTable; the argument is that of the *)
(* editor above, with rows that come and go.                               *)
(***************************************************************************)
BoardsShape ==
    /\ IsNet(boardsNet) /\ "calm" \in DOMAIN boardPage
    /\ \A b \in boards : {"id", "content", "versions"} \subseteq DOMAIN b

GoodBoards ==
    /\ boardsMade \in 1..MaxBoards /\ DOMAIN written = 1..MaxBoards
    /\ \A b \in boards :
          b.id \in 1..boardsMade /\ b.content \in written[b.id] /\ b.versions \in Seq(SettingsOf(written[b.id]))
    /\ \A b, d \in boards : b.id = d.id => b = d
    /\ SettingsRestorable

\* An update that has begun, as HistoryInv says it.
GoodBoardCall(c) ==
    c.op \in BoardUpdates /\ c.st = "open" =>
        /\ c.arg.id \in 1..boardsMade /\ c.out \in written[c.arg.id]
        /\ boardPage.calm => \A b \in BoardRow(c.arg.id) : b.content = c.out

LEMMA HistoryInvParts ==
    HistoryInv <=> /\ GoodBoards
                   /\ \A i \in Slot : boardsNet[i] # Free => GoodBoardCall(boardsNet[i])
                   /\ boardPage.calm => OneCall(boardsNet)
  BY DEF HistoryInv, GoodBoards, GoodBoardCall, OneCall, Of, Pending

LEMMA HistoryInvPartsNext ==
    HistoryInv' <=> /\ GoodBoards'
                    /\ \A i \in Slot : boardsNet'[i] # Free => GoodBoardCall(boardsNet[i])'
                    /\ boardPage'.calm => OneCall(boardsNet')
  BY DEF HistoryInv, GoodBoards, GoodBoardCall, OneCall, Of, Pending

LEMMA BoardsInitInv == BoardsInit => BoardsShape /\ HistoryInv
<1> SUFFICES ASSUME BoardsInit PROVE BoardsShape /\ HistoryInv
  OBVIOUS
<1>1. PICK c \in BoardContent : boards = {Board(1, c)} /\ written = [k \in 1..MaxBoards |-> {c}]
  BY DEF BoardsInit
<1>2. boardsNet = NoCalls /\ boardsMade = 1 /\ boardPage = [rows |-> boards, dialog |-> None, clicks |-> 0, calm |-> TRUE]
  BY DEF BoardsInit
<1>3. BoardsShape
  BY <1>1, <1>2, NoCallsIsNet DEF BoardsShape, Board
<1>4. GoodBoards
  <2>1. 1 \in 1..MaxBoards
    BY BoardsAssumption
  <2>2. written[1] = {c} /\ DOMAIN written = 1..MaxBoards
    BY <1>1, <2>1
  <2>3. \A b \in boards : b.id = 1 /\ b.content = c /\ b.versions = << >>
    BY <1>1 DEF Board
  <2>4. \A b, d \in boards : b = d
    BY <1>1
  <2>5. \A b \in boards : \A w \in written[b.id] : w.settings = b.content.settings
    BY <2>2, <2>3
  <2>6. \A b \in boards : b.id \in 1..1 /\ b.content \in written[b.id] /\ b.versions \in Seq(SettingsOf(written[b.id]))
    <3>1. 1 \in 1..1 /\ \A S : << >> \in Seq(S)
      OBVIOUS
    <3> QED
      BY <2>2, <2>3, <3>1
  <2> QED
    BY <1>2, <2>1, <2>2, <2>4, <2>5, <2>6 DEF GoodBoards, SettingsRestorable
<1>5. OneCall(boardsNet) /\ \A i \in Slot : boardsNet[i] = Free
  BY <1>2 DEF OneCall, NoCalls, Pending
<1> QED
  BY <1>3, <1>4, <1>5, HistoryInvParts

\* A step that leaves the rows alone: a handler starts, and it was the only one if
\* the page is still calm, or a call is answered.
LEMMA BoardsPageStep ==
    ASSUME BoardsShape, HistoryInv, UNCHANGED boardsServer, "calm" \in DOMAIN boardPage',
           boardPage'.calm => boardPage.calm,
           \/ boardsNet' = boardsNet
           \/ \E i, c : /\ boardsNet' = Put(boardsNet, i, c)
                        /\ boardPage'.calm => Quiet(boardsNet) \/ i \in Pending(boardsNet)
                        /\ c # Free => IsCall(c) /\ GoodBoardCall(c)
    PROVE  BoardsShape' /\ HistoryInv'
<1>0. boards' = boards /\ boardsMade' = boardsMade /\ written' = written /\ IsNet(boardsNet)
  BY DEF boardsServer, BoardsShape
<1>1. BoardsShape'
  BY <1>0, PutIsNet DEF BoardsShape
<1>2. GoodBoards'
  BY <1>0, HistoryInvParts DEF GoodBoards, SettingsRestorable
<1>3. \A i \in Slot : boardsNet'[i] # Free => GoodBoardCall(boardsNet'[i])
  BY HistoryInvParts DEF Put
<1>4. \A i \in Slot : boardsNet'[i] # Free => GoodBoardCall(boardsNet[i])'
  BY <1>0, <1>3 DEF GoodBoardCall, BoardRow
<1>5. boardPage'.calm => OneCall(boardsNet')
  BY <1>0, HistoryInvParts, OneCallKept
<1> QED
  BY <1>1, <1>2, <1>4, <1>5, HistoryInvPartsNext

LEMMA BoardsUserStep ==
    ASSUME BoardsShape, HistoryInv,
           \/ \E b : ToggleActive(b) \/ OpenHistoryOf(b) \/ \E k : OpenBoardsDialog(k, b)
           \/ CloseBoardsDialog \/ DropBoard
           \/ \E c : SubmitBoard(c)
           \/ \E v : RestoreBoard(v)
    PROVE  BoardsShape' /\ HistoryInv'
<1>0. /\ "calm" \in DOMAIN StepBoards /\ (StepBoards.calm => boardPage.calm /\ Quiet(boardsNet)) /\ IsNet(boardsNet)
      /\ "calm" \in DOMAIN boardPage
  BY DEF BoardsShape, StepBoards, Pressed
<1>1. \A op, arg : \E k : Send(boardsNet, op, arg) = Put(boardsNet, k, Call(op, arg)) /\ IsCall(Call(op, arg))
                          /\ GoodBoardCall(Call(op, arg))
  BY <1>0, Sending, CallIsCall DEF GoodBoardCall, Call
<1>2. ASSUME "calm" \in DOMAIN boardPage', boardPage'.calm = StepBoards.calm, UNCHANGED boardsServer,
             NEW op, NEW arg, boardsNet' = Send(boardsNet, op, arg)
      PROVE  BoardsShape' /\ HistoryInv'
  BY <1>0, <1>1, <1>2, BoardsPageStep
<1>3. ASSUME NEW b, ToggleActive(b) PROVE BoardsShape' /\ HistoryInv'
  BY <1>0, <1>2, <1>3 DEF ToggleActive, PressBoards
<1>4. ASSUME NEW b, OpenHistoryOf(b) PROVE BoardsShape' /\ HistoryInv'
  BY <1>0, <1>2, <1>4 DEF OpenHistoryOf, PressBoards
<1>5. ASSUME NEW b, NEW k, OpenBoardsDialog(k, b) PROVE BoardsShape' /\ HistoryInv'
  <2>1. "calm" \in DOMAIN boardPage' /\ boardPage'.calm = boardPage.calm
    BY <1>0, <1>5 DEF OpenBoardsDialog
  <2> QED
    BY <1>5, <2>1, BoardsPageStep DEF OpenBoardsDialog
<1>6. CASE CloseBoardsDialog
  <2>1. "calm" \in DOMAIN boardPage' /\ boardPage'.calm = boardPage.calm
    BY <1>0, <1>6 DEF CloseBoardsDialog
  <2> QED
    BY <1>6, <2>1, BoardsPageStep DEF CloseBoardsDialog
<1>7. CASE DropBoard
  BY <1>0, <1>2, <1>7 DEF DropBoard, PressBoards
<1>8. ASSUME NEW c, SubmitBoard(c) PROVE BoardsShape' /\ HistoryInv'
  <2>1. "calm" \in DOMAIN boardPage' /\ boardPage'.calm = StepBoards.calm /\ UNCHANGED boardsServer
    BY <1>0, <1>8 DEF SubmitBoard, PressBoards
  <2>2. \E op, arg : boardsNet' = Send(boardsNet, op, arg)
    BY <1>8 DEF SubmitBoard
  <2> QED
    BY <1>2, <2>1, <2>2
<1>9. ASSUME NEW v, RestoreBoard(v) PROVE BoardsShape' /\ HistoryInv'
  <2>1. "calm" \in DOMAIN boardPage' /\ boardPage'.calm = StepBoards.calm /\ UNCHANGED boardsServer
    BY <1>0, <1>9 DEF RestoreBoard, PressBoards
  <2> QED
    BY <1>2, <1>9, <2>1 DEF RestoreBoard
<1> QED
  BY <1>3, <1>4, <1>5, <1>6, <1>7, <1>8, <1>9

\* The page's side of the answers, and the server's that change no row.
LEMMA BoardsAnswerStep ==
    ASSUME BoardsShape, HistoryInv, NEW i \in Slot,
           \/ ServeBoards(i) \/ BoardsRead(i) \/ Toggled(i) \/ BoardDropped(i) \/ BoardFormSettled(i)
           \/ ServeVersions(i) \/ VersionsRead(i) \/ BoardRestored(i) \/ BoardsCallFails(i)
           \/ \E op \in BoardUpdates : BeginBoardUpdate(i, op)
    PROVE  BoardsShape' /\ HistoryInv'
<1> DEFINE answer(st, out) == [op |-> boardsNet[i].op, arg |-> boardsNet[i].arg, st |-> st, out |-> out]
<1>0. IsNet(boardsNet) /\ "calm" \in DOMAIN boardPage /\ GoodBoards
  BY HistoryInvParts DEF BoardsShape
<1>1. i \in Pending(boardsNet)
  BY DEF ServeBoards, BoardsRead, Toggled, BoardDropped, BoardFormSettled, ServeVersions, VersionsRead,
         BoardRestored, BoardsCallFails, BeginBoardUpdate, CanFail, Sent, Settled, Ok, Err, Pending
<1>2. /\ \A out : Reply(boardsNet, i, out) = Put(boardsNet, i, answer("ok", out))
      /\ Fail(boardsNet, i) = Put(boardsNet, i, answer("err", boardsNet[i].out))
      /\ \A tx : Begin(boardsNet, i, tx) = Put(boardsNet, i, answer("open", tx))
      /\ Done(boardsNet, i) = Put(boardsNet, i, Free)
      /\ \A op, arg : Then(boardsNet, i, op, arg) = Put(boardsNet, i, Call(op, arg))
  BY <1>0, <1>1, Answering, Ending DEF Pending
<1>3. \A st, out : IsCall(answer(st, out)) /\ (st # "open" => GoodBoardCall(answer(st, out)))
  BY DEF IsCall, GoodBoardCall
<1>4. ASSUME "calm" \in DOMAIN boardPage', boardPage'.calm => boardPage.calm, UNCHANGED boardsServer,
             NEW st, NEW out, boardsNet' = Put(boardsNet, i, answer(st, out)), GoodBoardCall(answer(st, out))
      PROVE  BoardsShape' /\ HistoryInv'
  <2>1. IsCall(answer(st, out))
    BY <1>3
  <2> HIDE DEF answer
  <2> QED
    BY <1>0, <1>1, <1>4, <2>1, BoardsPageStep
<1>5. ASSUME "calm" \in DOMAIN boardPage', boardPage'.calm => boardPage.calm, UNCHANGED boardsServer,
             \/ boardsNet' = Done(boardsNet, i)
             \/ boardsNet' = Then(boardsNet, i, "boards", None)
      PROVE  BoardsShape' /\ HistoryInv'
  <2>1. IsCall(Call("boards", None)) /\ GoodBoardCall(Call("boards", None))
    BY CallIsCall DEF Call, GoodBoardCall
  <2> QED
    BY <1>1, <1>2, <1>5, <2>1, BoardsPageStep
<1>6. CASE ServeBoards(i)
  BY <1>0, <1>2, <1>3, <1>4, <1>6 DEF ServeBoards
<1>7. CASE BoardsRead(i)
  <2>1. "calm" \in DOMAIN boardPage' /\ (boardPage'.calm => boardPage.calm)
    BY <1>0, <1>7 DEF BoardsRead
  <2> QED
    BY <1>5, <1>7, <2>1 DEF BoardsRead
<1>8. CASE Toggled(i)
  <2>1. "calm" \in DOMAIN boardPage' /\ boardPage'.calm = boardPage.calm
    BY <1>0, <1>8 DEF Toggled
  <2> QED
    BY <1>5, <1>8, <2>1 DEF Toggled
<1>9. CASE BoardDropped(i)
  <2>1. "calm" \in DOMAIN boardPage' /\ boardPage'.calm = boardPage.calm
    BY <1>0, <1>9 DEF BoardDropped
  <2> QED
    BY <1>5, <1>9, <2>1 DEF BoardDropped
<1>10. CASE BoardFormSettled(i)
  <2>1. "calm" \in DOMAIN boardPage' /\ boardPage'.calm = boardPage.calm /\ UNCHANGED boardsServer
    BY <1>0, <1>10 DEF BoardFormSettled
  <2> QED
    BY <1>5, <1>10, <2>1 DEF BoardFormSettled
<1>11. CASE ServeVersions(i)
  <2>1. UNCHANGED boardsServer /\ boardPage' = boardPage
    BY <1>11 DEF ServeVersions
  <2>2. \/ boardsNet' = Put(boardsNet, i, answer("err", boardsNet[i].out))
        \/ \E out : boardsNet' = Put(boardsNet, i, answer("ok", out))
    BY <1>2, <1>11 DEF ServeVersions
  <2> HIDE DEF answer
  <2> QED
    BY <1>0, <1>3, <1>4, <2>1, <2>2
<1>12. CASE VersionsRead(i)
  <2>1. "calm" \in DOMAIN boardPage' /\ boardPage'.calm = boardPage.calm
    BY <1>0, <1>12 DEF VersionsRead
  <2> QED
    BY <1>5, <1>12, <2>1 DEF VersionsRead
<1>13. CASE BoardRestored(i)
  <2>1. "calm" \in DOMAIN boardPage' /\ boardPage'.calm = boardPage.calm /\ UNCHANGED boardsServer
    BY <1>0, <1>13 DEF BoardRestored
  <2> QED
    BY <1>5, <1>13, <2>1 DEF BoardRestored
<1>14. CASE BoardsCallFails(i)
  <2>1. "calm" \in DOMAIN boardPage' /\ (boardPage'.calm => boardPage.calm) /\ UNCHANGED boardsServer
    BY <1>0, <1>14 DEF BoardsCallFails, Missed
  <2>2. boardsNet' = Put(boardsNet, i, answer("err", boardsNet[i].out))
    BY <1>2, <1>14 DEF BoardsCallFails
  <2> HIDE DEF answer
  <2> QED
    BY <1>3, <1>4, <2>1, <2>2
<1>15. ASSUME NEW op \in BoardUpdates, BeginBoardUpdate(i, op) PROVE BoardsShape' /\ HistoryInv'
  <2> DEFINE k == boardsNet[i].arg.id
             row == CHOOSE b \in BoardRow(k) : TRUE
  <2>1. UNCHANGED boardsServer /\ boardPage' = boardPage
    BY <1>15 DEF BeginBoardUpdate
  <2>2. CASE BoardRow(k) = {}
    <3>1. boardsNet' = Put(boardsNet, i, answer("err", boardsNet[i].out))
      BY <1>2, <1>15, <2>2 DEF BeginBoardUpdate
    <3> HIDE DEF answer
    <3> QED
      BY <1>0, <1>3, <1>4, <2>1, <3>1
  <2>3. CASE BoardRow(k) # {}
    <3>1. boardsNet' = Put(boardsNet, i, answer("open", row.content))
      BY <1>2, <1>15, <2>3 DEF BeginBoardUpdate
    <3>2. row \in BoardRow(k)
      BY <2>3
    <3> HIDE DEF row
    <3>3. row \in boards /\ row.id = k /\ \A b \in BoardRow(k) : b = row
      BY <1>0, <3>2 DEF BoardRow, GoodBoards
    <3>4. k \in 1..boardsMade /\ row.content \in written[k]
      BY <1>0, <3>3 DEF GoodBoards
    <3>5. GoodBoardCall(answer("open", row.content))
      BY <3>3, <3>4 DEF GoodBoardCall
    <3> HIDE DEF answer
    <3> QED
      BY <1>0, <1>4, <2>1, <3>1, <3>5
  <2> QED
    BY <2>2, <2>3
<1> QED
  BY <1>6, <1>7, <1>8, <1>9, <1>10, <1>11, <1>12, <1>13, <1>14, <1>15

\* The calls that have begun are still good when rows go, when they appear under
\* new numbers, and when the one row changes that the answered call was about.
LEMMA BoardsServed ==
    ASSUME BoardsShape, HistoryInv, boardPage' = boardPage, NEW i \in Pending(boardsNet),
           NEW c, boardsNet' = Put(boardsNet, i, c), IsCall(c), c.st # "open",
           GoodBoards', \A b \in boards' : {"id", "content", "versions"} \subseteq DOMAIN b,
           boardsMade <= boardsMade', \A k \in 1..boardsMade : written[k] \subseteq written'[k]
    PROVE  BoardsShape' /\ HistoryInv'
<1>0. IsNet(boardsNet) /\ (boardPage.calm => OneCall(boardsNet)) /\ boardsMade \in Nat /\ boardsMade' \in Nat
  BY HistoryInvParts DEF BoardsShape, GoodBoards
<1>1. BoardsShape'
  BY <1>0, PutIsNet DEF BoardsShape
<1>2. boardPage'.calm => OneCall(boardsNet')
  BY <1>0, OneCallKept
<1>3. ASSUME NEW j \in Slot, boardsNet'[j] # Free PROVE GoodBoardCall(boardsNet[j])'
  <2>1. CASE j = i
    <3>1. boardsNet'[j].st # "open"
      BY <2>1 DEF Put
    <3> QED
      BY <3>1 DEF GoodBoardCall
  <2>2. CASE j # i
    <3>1. boardsNet'[j] = boardsNet[j] /\ j \in Pending(boardsNet) /\ GoodBoardCall(boardsNet[j])
      BY <1>3, <2>2, HistoryInvParts DEF Put, Pending
    <3>2. ~boardPage'.calm
      BY <1>0, <2>2, <3>1 DEF OneCall
    <3>3. \A k \in 1..boardsMade : k \in 1..boardsMade'
      BY <1>0
    <3> QED
      BY <3>1, <3>2, <3>3 DEF GoodBoardCall
  <2> QED
    BY <2>1, <2>2
<1> QED
  BY <1>1, <1>2, <1>3, HistoryInvPartsNext

LEMMA BoardDropStep ==
    ASSUME BoardsShape, HistoryInv, NEW i \in Slot, ServeDropBoard(i)
    PROVE  BoardsShape' /\ HistoryInv'
<1> DEFINE answer(st, out) == [op |-> boardsNet[i].op, arg |-> boardsNet[i].arg, st |-> st, out |-> out]
<1>0. IsNet(boardsNet) /\ GoodBoards /\ i \in Pending(boardsNet)
  BY HistoryInvParts DEF BoardsShape, ServeDropBoard, Sent, Pending
<1>1. boards' \subseteq boards /\ boardsMade' = boardsMade /\ written' = written /\ boardPage' = boardPage
  BY DEF ServeDropBoard
<1>2. \/ boardsNet' = Put(boardsNet, i, answer("err", boardsNet[i].out))
      \/ boardsNet' = Put(boardsNet, i, answer("ok", None))
  BY <1>0, Answering DEF ServeDropBoard, Pending
<1>3. GoodBoards'
  BY <1>0, <1>1 DEF GoodBoards, SettingsRestorable
<1>4. \A st, out : IsCall(answer(st, out)) /\ answer(st, out).st = st
  BY DEF IsCall
<1>5. boardsMade <= boardsMade' /\ \A b \in boards' : {"id", "content", "versions"} \subseteq DOMAIN b
  BY <1>0, <1>1 DEF BoardsShape, GoodBoards
<1> HIDE DEF answer
<1> QED
  BY <1>0, <1>1, <1>2, <1>3, <1>4, <1>5, BoardsServed

LEMMA BoardNewStep ==
    ASSUME BoardsShape, HistoryInv, NEW i \in Slot, ServeNewBoard(i)
    PROVE  BoardsShape' /\ HistoryInv'
<1> DEFINE answer(st, out) == [op |-> boardsNet[i].op, arg |-> boardsNet[i].arg, st |-> st, out |-> out]
           n == boardsMade + 1
           c == boardsNet[i].arg.content
           new == Board(n, c)
<1>0. IsNet(boardsNet) /\ GoodBoards /\ i \in Pending(boardsNet)
  BY HistoryInvParts DEF BoardsShape, ServeNewBoard, Sent, Pending
<1>1. /\ boards' = boards \cup {new} /\ boardsMade' = n /\ written' = [written EXCEPT ![n] = {c}]
      /\ boardPage' = boardPage /\ boardsNet' = Put(boardsNet, i, answer("ok", None)) /\ boardsMade < MaxBoards
  BY <1>0, Answering DEF ServeNewBoard, Pending
<1>2. boardsMade \in 1..MaxBoards /\ DOMAIN written = 1..MaxBoards /\ MaxBoards \in Nat
  BY <1>0, BoardsAssumption DEF GoodBoards
<1>3. n \in 1..MaxBoards /\ n \notin 1..boardsMade /\ \A k \in 1..boardsMade : k \in 1..n /\ k # n
  BY <1>1, <1>2
<1>4. new.id = n /\ new.content = c /\ new.versions = << >> /\ {"id", "content", "versions"} \subseteq DOMAIN new
  BY DEF Board
<1>5. DOMAIN written' = 1..MaxBoards /\ written'[n] = {c} /\ \A k \in 1..boardsMade : written'[k] = written[k]
  BY <1>1, <1>2, <1>3
<1> HIDE DEF new, c, n, answer
<1>6. GoodBoards'
  <2>1. \A b \in boards : b.id \in 1..boardsMade /\ b.content \in written[b.id] /\ b.versions \in Seq(SettingsOf(written[b.id]))
    BY <1>0 DEF GoodBoards
  <2>2. \A b \in boards' : b = new \/ b \in boards
    BY <1>1
  <2>3. ASSUME NEW b \in boards'
        PROVE  b.id \in 1..boardsMade' /\ b.content \in written'[b.id] /\ b.versions \in Seq(SettingsOf(written'[b.id]))
    <3>1. CASE b = new
      <4>1. \A S : << >> \in Seq(S)
        OBVIOUS
      <4>2. n \in 1..n
        BY <1>2, <1>3
      <4> QED
        BY <1>1, <1>4, <1>5, <3>1, <4>1, <4>2, ZenonT(60)
    <3>2. CASE b \in boards
      BY <1>1, <1>3, <1>5, <2>1, <3>2
    <3> QED
      BY <2>2, <3>1, <3>2
  <2>4. \A b, d \in boards' : b.id = d.id => b = d
    BY <1>0, <1>3, <1>4, <2>1, <2>2 DEF GoodBoards
  <2>5. SettingsRestorable'
    <3> SUFFICES ASSUME boardPage.calm, NEW b \in boards', NEW w \in written'[b.id]
                 PROVE  w.settings = b.content.settings \/ \E v \in DOMAIN b.versions : b.versions[v] = w.settings
      BY <1>1 DEF SettingsRestorable
    <3>1. CASE b = new
      BY <1>4, <1>5, <3>1
    <3>2. CASE b \in boards
      BY <1>0, <1>5, <2>1, <3>2 DEF GoodBoards, SettingsRestorable
    <3> QED
      BY <2>2, <3>1, <3>2
  <2>6. boardsMade' \in 1..MaxBoards
    BY <1>1, <1>3
  <2> QED
    BY <1>5, <2>3, <2>4, <2>5, <2>6 DEF GoodBoards
<1>7. IsCall(answer("ok", None)) /\ answer("ok", None).st # "open"
  BY DEF answer, IsCall
<1>8. boardsMade <= boardsMade'
  BY <1>1, <1>2 DEF n
<1>9. \A b \in boards' : {"id", "content", "versions"} \subseteq DOMAIN b
  BY <1>1, <1>4 DEF BoardsShape
<1> QED
  BY <1>0, <1>1, <1>5, <1>6, <1>7, <1>8, <1>9, BoardsServed

\* An update: the row gains the snapshot taken when it began.
LEMMA BoardUpdateStep ==
    ASSUME BoardsShape, HistoryInv, NEW i \in Slot, NEW op \in BoardUpdates, NEW content, NEW active,
           CommitBoardUpdate(i, op, content, active)
    PROVE  BoardsShape' /\ HistoryInv'
<1> DEFINE answer(st, out) == [op |-> boardsNet[i].op, arg |-> boardsNet[i].arg, st |-> st, out |-> out]
           k == boardsNet[i].arg.id
           before == boardsNet[i].out
           upd(b) == BoardUpdated(b, before, content[b], active[b])
           new == {upd(b) : b \in BoardRow(k)}
           now == {b.content : b \in new}
<1>0. IsNet(boardsNet) /\ GoodBoards /\ i \in Pending(boardsNet) /\ GoodBoardCall(boardsNet[i])
  BY HistoryInvParts DEF BoardsShape, CommitBoardUpdate, Open, Pending
<1>1. /\ boards' = (boards \ BoardRow(k)) \cup new /\ boardsMade' = boardsMade /\ boardPage' = boardPage
      /\ written' = [written EXCEPT ![k] = @ \cup now]
  BY DEF CommitBoardUpdate
<1>2. \/ boardsNet' = Put(boardsNet, i, answer("err", boardsNet[i].out))
      \/ boardsNet' = Put(boardsNet, i, answer("ok", None))
  BY <1>0, Answering DEF CommitBoardUpdate, Pending
<1>3. /\ k \in 1..boardsMade /\ before \in written[k]
      /\ boardPage.calm => \A b \in BoardRow(k) : b.content = before
  BY <1>0 DEF GoodBoardCall, CommitBoardUpdate, Open
<1>4. boardsMade \in 1..MaxBoards /\ DOMAIN written = 1..MaxBoards /\ k \in 1..MaxBoards
  BY <1>0, <1>3, BoardsAssumption DEF GoodBoards
<1>5. /\ DOMAIN written' = 1..MaxBoards /\ written'[k] = written[k] \cup now
      /\ \A m \in 1..boardsMade : m # k => written'[m] = written[m]
      /\ \A m \in 1..boardsMade : written[m] \subseteq written'[m]
  BY <1>1, <1>4
<1>6. \A b \in boards : {"id", "content", "versions"} \subseteq DOMAIN b
  BY DEF BoardsShape
<1>7. ASSUME NEW b \in BoardRow(k)
      PROVE  /\ {"id", "content", "versions"} \subseteq DOMAIN upd(b)
             /\ upd(b).id = k /\ upd(b).content = content[b] /\ upd(b).versions = Append(b.versions, before.settings)
  <2>1. upd(b) = [b EXCEPT !.content = content[b], !.active = active[b], !.versions = Append(b.versions, before.settings)]
    BY DEF BoardUpdated
  <2>2. {"id", "content", "versions"} \subseteq DOMAIN b /\ b.id = k
    BY <1>6 DEF BoardRow
  <2> HIDE DEF upd, k, before
  <2> QED
    BY <2>1, <2>2
<1>8. \A b \in BoardRow(k) : b \in boards /\ b.id = k
  BY DEF BoardRow
<1> HIDE DEF answer, k, before, upd
<1>9. ASSUME NEW e \in boards'
      PROVE  \/ e \in boards /\ e.id # k
             \/ \E b \in BoardRow(k) : e = upd(b)
  BY <1>1 DEF BoardRow
<1>10. ASSUME NEW b \in BoardRow(k)
       PROVE  /\ upd(b).content \in written'[k] /\ upd(b).versions \in Seq(SettingsOf(written'[k]))
              /\ \A v \in DOMAIN b.versions : v \in DOMAIN upd(b).versions /\ upd(b).versions[v] = b.versions[v]
              /\ \E v \in DOMAIN upd(b).versions : upd(b).versions[v] = before.settings
  <2>1. b.versions \in Seq(SettingsOf(written'[k])) /\ before.settings \in SettingsOf(written'[k])
    <3>1. SettingsOf(written[k]) \subseteq SettingsOf(written'[k]) /\ before.settings \in SettingsOf(written[k])
      BY <1>3, <1>5 DEF SettingsOf
    <3> QED
      BY <1>0, <1>8, <3>1, SeqGrows DEF GoodBoards
  <2>2. upd(b).content \in now
    OBVIOUS
  <2> HIDE DEF new
  <2>3. /\ Append(b.versions, before.settings) \in Seq(SettingsOf(written'[k]))
        /\ \A v \in DOMAIN b.versions :
              v \in DOMAIN Append(b.versions, before.settings) /\ Append(b.versions, before.settings)[v] = b.versions[v]
        /\ \E v \in DOMAIN Append(b.versions, before.settings) :
              Append(b.versions, before.settings)[v] = before.settings
    BY <2>1, SeqAppended
  <2> QED
    BY <1>5, <1>7, <2>2, <2>3
<1>11. GoodBoards'
  <2>1. ASSUME NEW e \in boards'
        PROVE  e.id \in 1..boardsMade' /\ e.content \in written'[e.id] /\ e.versions \in Seq(SettingsOf(written'[e.id]))
    <3>1. CASE e \in boards /\ e.id # k
      BY <1>0, <1>1, <1>5, <3>1 DEF GoodBoards
    <3>2. ASSUME NEW b \in BoardRow(k), e = upd(b)
          PROVE  e.id \in 1..boardsMade' /\ e.content \in written'[e.id] /\ e.versions \in Seq(SettingsOf(written'[e.id]))
      BY <1>1, <1>3, <1>7, <1>10, <3>2
    <3> QED
      BY <1>9, <3>1, <3>2
  <2>2. ASSUME NEW e \in boards', NEW f \in boards', e.id = f.id PROVE e = f
    <3>1. CASE e.id # k
      BY <1>0, <1>7, <1>9, <2>2, <3>1 DEF GoodBoards
    <3>2. CASE e.id = k
      <4>1. \A b, d \in BoardRow(k) : b = d
        BY <1>0, <1>8 DEF GoodBoards
      <4>2. PICK b \in BoardRow(k) : e = upd(b)
        BY <1>9, <3>2
      <4>3. PICK d \in BoardRow(k) : f = upd(d)
        BY <1>9, <2>2, <3>2
      <4> QED
        BY <4>1, <4>2, <4>3
    <3> QED
      BY <3>1, <3>2
  <2>3. SettingsRestorable'
    <3> SUFFICES ASSUME boardPage.calm, NEW e \in boards', NEW w \in written'[e.id]
                 PROVE  w.settings = e.content.settings \/ \E v \in DOMAIN e.versions : e.versions[v] = w.settings
      BY <1>1 DEF SettingsRestorable
    <3>1. CASE e \in boards /\ e.id # k
      <4>1. w \in written[e.id]
        BY <1>0, <1>5, <3>1 DEF GoodBoards
      <4> QED
        BY <1>0, <3>1, <4>1 DEF GoodBoards, SettingsRestorable
    <3>2. ASSUME NEW b \in BoardRow(k), e = upd(b)
          PROVE  w.settings = e.content.settings \/ \E v \in DOMAIN e.versions : e.versions[v] = w.settings
      <4>1. w \in written[k] \/ w \in now
        BY <1>5, <1>7, <3>2
      <4>2. CASE w \in now
        <5>1. PICK d \in BoardRow(k) : w = upd(d).content
          BY <4>2
        <5>2. d = b
          BY <1>0, <1>8 DEF GoodBoards
        <5> QED
          BY <3>2, <5>1, <5>2
      <4>3. CASE w \in written[k]
        <5>1. w.settings = b.content.settings \/ \E v \in DOMAIN b.versions : b.versions[v] = w.settings
          BY <1>0, <1>8, <4>3 DEF GoodBoards, SettingsRestorable
        <5>2. b.content = before
          BY <1>3
        <5> QED
          BY <1>10, <3>2, <5>1, <5>2
      <4> QED
        BY <4>1, <4>2, <4>3
    <3> QED
      BY <1>9, <3>1, <3>2
  <2> HIDE DEF new
  <2> QED
    BY <1>1, <1>4, <1>5, <2>1, <2>2, <2>3 DEF GoodBoards
<1>12. \A st, out : IsCall(answer(st, out)) /\ answer(st, out).st = st
  BY DEF IsCall, answer
<1>13. \A e \in boards' : {"id", "content", "versions"} \subseteq DOMAIN e
  BY <1>6, <1>7, <1>9
<1>14. boardsMade <= boardsMade'
  BY <1>1, <1>4
<1> QED
  BY <1>0, <1>1, <1>2, <1>5, <1>11, <1>12, <1>13, <1>14, BoardsServed

LEMMA BoardsStep == BoardsShape /\ HistoryInv /\ [BoardsNext]_boardsVars => BoardsShape' /\ HistoryInv'
<1> SUFFICES ASSUME BoardsShape, HistoryInv, [BoardsNext]_boardsVars PROVE BoardsShape' /\ HistoryInv'
  OBVIOUS
<1>1. CASE UNCHANGED boardsVars
  BY <1>1, BoardsPageStep DEF boardsVars, boardsServer, BoardsShape
<1>2. ASSUME NEW i \in Slot, BeginToggle(i) \/ BeginEdit(i) \/ BeginRestore(i)
      PROVE  \E op \in BoardUpdates : BeginBoardUpdate(i, op)
  BY <1>2 DEF BeginToggle, BeginEdit, BeginRestore, BoardUpdates
<1>3. ASSUME NEW i \in Slot, CommitToggle(i) \/ CommitEdit(i) \/ CommitRestore(i)
      PROVE  \E op \in BoardUpdates : \E content, active : CommitBoardUpdate(i, op, content, active)
  BY <1>3 DEF CommitToggle, CommitEdit, CommitRestore, BoardUpdates
<1>4. CASE BoardsNext
  <2>1. \/ \E b : ToggleActive(b) \/ OpenHistoryOf(b) \/ \E k : OpenBoardsDialog(k, b)
        \/ CloseBoardsDialog \/ DropBoard
        \/ \E c : SubmitBoard(c)
        \/ \E v : RestoreBoard(v)
        \/ \E i \in Slot :
              \/ ServeBoards(i) \/ BoardsRead(i) \/ Toggled(i) \/ BoardDropped(i) \/ BoardFormSettled(i)
              \/ ServeVersions(i) \/ VersionsRead(i) \/ BoardRestored(i) \/ BoardsCallFails(i)
              \/ \E op \in BoardUpdates : BeginBoardUpdate(i, op)
              \/ \E op \in BoardUpdates : \E content, active : CommitBoardUpdate(i, op, content, active)
              \/ ServeDropBoard(i) \/ ServeNewBoard(i)
    BY <1>2, <1>3, <1>4 DEF BoardsNext
  <2> QED
    BY <2>1, BoardsUserStep, BoardsAnswerStep, BoardUpdateStep, BoardDropStep, BoardNewStep
<1> QED
  BY <1>1, <1>4

\* Whatever settings a dashboard has embedded are the ones it embeds now or one of
\* its snapshots, when one thing was done at a time; the connection they were
\* embedded over is in no snapshot, and is not among what is kept.
THEOREM EmbeddedSettingsAreKept == BoardsSpec => []SettingsRestorable
<1>1. BoardsShape /\ HistoryInv => SettingsRestorable
  BY DEF HistoryInv
<1> QED
  BY <1>1, BoardsInitInv, BoardsStep, PTL DEF BoardsSpec

-----------------------------------------------------------------------------
(***************************************************************************)
(* A report and the form of its filters.  The invariants are those of      *)
(* EmbedView: RefreshInv and FiltersInv are about the token on its way or  *)
(* on display, UntouchedInv about the form and what it asks and saves.     *)
(***************************************************************************)
ReportOk(page) ==
    /\ {"mounted", "data", "error", "loading"} \subseteq DOMAIN page
    /\ page.mounted \in BOOLEAN /\ page.data \in EmbedToken \cup {None}

TimersOk(timers) == timers \in [ref : BOOLEAN, lost : Nat]

FormOk(form) ==
    /\ {"rows", "loading", "saving", "touched", "n"} \subseteq DOMAIN form
    /\ form.rows \in Seq(FilterRow) /\ form.loading \in BOOLEAN /\ form.touched \in BOOLEAN

EmbedCallOk(c) ==
    /\ c.op = "load" /\ c.st = "ok" => c.out \in Seq(FilterRow)
    /\ c.op = "save" => c.arg.rows \in Seq(FilterRow) /\ c.arg.touched \in BOOLEAN
    /\ c.op = "token" /\ c.st = "ok" => c.out \in EmbedToken \cup EmbedRefusal

EmbedShape ==
    /\ IsNet(embedNet) /\ "calm" \in DOMAIN embedLog /\ {"page", "timers"} \subseteq DOMAIN embed
    /\ ReportOk(embed.page) /\ TimersOk(embed.timers) /\ filterRows \in Seq(FilterRow)
    /\ rowForm # None => FormOk(rowForm)
    /\ \A i \in Slot : embedNet[i] # Free => EmbedCallOk(embedNet[i])

EmbedInv == EmbedShape /\ RefreshInv /\ FiltersInv /\ UntouchedInv

\* What the filters of the row come to when the token is issued.
LEMMA ResolvedIsComplete ==
    ASSUME NEW rows \in Seq(FilterRow)
    PROVE  /\ Resolved(rows) \subseteq [to : FilterTarget, value : Value \cup {None}]
           /\ {r \in Resolved(rows) : r.value # None} = Complete(rows)
<1>1. \A q \in Range(rows) : q \in FilterRow
  <2>1. \A k \in DOMAIN rows : rows[k] \in FilterRow
    OBVIOUS
  <2> QED
    BY <2>1 DEF Range
<1>2. Resolved(rows) \subseteq [to : FilterTarget, value : Value \cup {None}]
  BY <1>1 DEF Resolved, FilterRow
<1>3. {r \in Resolved(rows) : r.value # None} = Complete(rows)
  BY DEF Resolved, Complete
<1> QED
  BY <1>2, <1>3

LEMMA EmbedInitInv == EmbedInit => EmbedInv
<1> SUFFICES ASSUME EmbedInit PROVE EmbedInv
  OBVIOUS
<1>1. PICK t \in FilterTarget, v \in Value, k \in {"static", "attribute"} : filterRows = <<Row(t, k, v)>>
  BY DEF EmbedInit
<1>2. filterRows \in Seq(FilterRow)
  <2>1. Row(t, k, v) \in FilterRow
    BY DEF Row, FilterRow
  <2> QED
    BY <1>1, <2>1
<1>3. \A i \in Slot : embedNet[i] = Free
  BY DEF EmbedInit, NoCalls
<1>4. ReportOk(embed.page) /\ TimersOk(embed.timers) /\ {"page", "timers"} \subseteq DOMAIN embed
  BY DEF EmbedInit, NoReport, NoTimers, ReportOk, TimersOk
<1>5. EmbedShape
  BY <1>2, <1>3, <1>4, NoCallsIsNet DEF EmbedInit, EmbedShape
<1>6. Tokens = {} /\ FormCalls = {}
  BY <1>3 DEF Tokens, FormCalls, Of, Pending
<1>7. embed.timers.lost = 0 /\ embed.timers.ref = FALSE /\ embed.page.mounted = FALSE /\ current = FALSE /\ rowForm = None
  BY DEF EmbedInit, NoReport, NoTimers
<1> QED
  BY <1>5, <1>6, <1>7 DEF EmbedInv, RefreshInv, FiltersInv, UntouchedInv

\* What one slot's change means for the calls of either kind.
LEMMA EmbedCallsPut ==
    ASSUME IsNet(embedNet), NEW i, NEW c, embedNet' = Put(embedNet, i, c)
    PROVE  /\ \A j \in Slot : embedNet'[j] = IF j = i THEN c ELSE embedNet[j]
           /\ Tokens' = {j \in Tokens : j # i} \cup {j \in Slot : j = i /\ c # Free /\ c.op = "token"}
           /\ FormCalls' = {j \in FormCalls : j # i} \cup {j \in Slot : j = i /\ c # Free /\ c.op \in {"load", "save"}}
  BY DEF Put, Tokens, FormCalls, Of, Pending

LEMMA QuietHasNone == Quiet(embedNet) => Tokens = {} /\ FormCalls = {}
  BY DEF Quiet, Tokens, FormCalls, Of

\* The shape after a slot has changed.
LEMMA EmbedShapeKept ==
    ASSUME EmbedShape, "calm" \in DOMAIN embedLog', {"page", "timers"} \subseteq DOMAIN embed',
           ReportOk(embed'.page), TimersOk(embed'.timers), filterRows' \in Seq(FilterRow), rowForm' # None => FormOk(rowForm'),
           \/ embedNet' = embedNet
           \/ \E i, c : embedNet' = Put(embedNet, i, c) /\ (c # Free => IsCall(c) /\ EmbedCallOk(c))
    PROVE  EmbedShape'
<1>1. IsNet(embedNet')
  BY PutIsNet DEF EmbedShape
<1>2. \A j \in Slot : embedNet'[j] # Free => EmbedCallOk(embedNet'[j])
  BY DEF EmbedShape, Put
<1>3. /\ \A page : ReportOk(page)' <=> ReportOk(page)
      /\ \A timers : TimersOk(timers)' <=> TimersOk(timers)
      /\ \A form : FormOk(form)' <=> FormOk(form)
      /\ \A c : EmbedCallOk(c)' <=> EmbedCallOk(c)
  BY DEF ReportOk, TimersOk, FormOk, EmbedCallOk
<1> QED
  BY <1>1, <1>2, <1>3 DEF EmbedShape

\* What the form does leaves the report alone.
LEMMA ReportUndisturbed ==
    ASSUME EmbedInv, embed' = embed, embedLog'.calm => embedLog.calm,
           current' => current /\ filterRows' = filterRows,
           \/ embedNet' = embedNet
           \/ \E i, c : /\ embedNet' = Put(embedNet, i, c)
                        /\ embedLog'.calm => Quiet(embedNet) \/ i \in FormCalls
                        /\ c # Free => c.op \in {"load", "save"}
    PROVE  RefreshInv' /\ FiltersInv'
<1>1. embedLog'.calm => Tokens' = Tokens /\ \A j \in Tokens : embedNet'[j] = embedNet[j]
  <2>1. CASE embedNet' = embedNet
    BY <2>1 DEF Tokens, Of, Pending
  <2>2. ASSUME NEW i, NEW c, embedNet' = Put(embedNet, i, c), embedLog'.calm,
               Quiet(embedNet) \/ i \in FormCalls, c # Free => c.op \in {"load", "save"}
        PROVE  Tokens' = Tokens /\ \A j \in Tokens : embedNet'[j] = embedNet[j]
    <3>1. i \notin Tokens
      BY <2>2, QuietHasNone DEF Tokens, FormCalls, Of
    <3>2. IsNet(embedNet) /\ Tokens \subseteq Slot
      BY DEF EmbedInv, EmbedShape, Tokens, Of, Pending
    <3> QED
      BY <2>2, <3>1, <3>2, EmbedCallsPut
  <2> QED
    BY <2>1, <2>2
<1>2. NoneShown' = NoneShown
  BY DEF NoneShown
<1>3. RefreshInv'
  BY <1>1, <1>2 DEF EmbedInv, RefreshInv
<1>4. FiltersInv'
  <2> SUFFICES ASSUME embedLog'.calm, current' PROVE FiltersInv'
    BY DEF FiltersInv
  <2>1. embedLog.calm /\ current /\ filterRows' = filterRows /\ Tokens' = Tokens
    BY <1>1
  <2>2. \A j \in Tokens : Ok(embedNet, j, "token")' => Ok(embedNet, j, "token")
    BY <1>1 DEF Ok
  <2> QED
    BY <1>1, <1>2, <2>1, <2>2 DEF EmbedInv, FiltersInv
<1> QED
  BY <1>3, <1>4

\* What the report does leaves the form alone.
LEMMA FormUndisturbed ==
    ASSUME EmbedInv, rowForm' = rowForm, filterRows' = filterRows, embedLog'.calm => embedLog.calm,
           \/ embedNet' = embedNet
           \/ \E i, c : embedNet' = Put(embedNet, i, c) /\ (c # Free => c.op = "token")
    PROVE  UntouchedInv'
<1>1. FormCalls' \subseteq FormCalls /\ \A j \in FormCalls' : embedNet'[j] = embedNet[j]
  <2>1. CASE embedNet' = embedNet
    BY <2>1 DEF FormCalls, Of, Pending
  <2>2. ASSUME NEW i, NEW c, embedNet' = Put(embedNet, i, c), c # Free => c.op = "token"
        PROVE  FormCalls' \subseteq FormCalls /\ \A j \in FormCalls' : embedNet'[j] = embedNet[j]
    <3>1. IsNet(embedNet) /\ FormCalls' \subseteq Slot
      BY DEF EmbedInv, EmbedShape, FormCalls, Of, Pending
    <3> QED
      BY <2>2, <3>1, EmbedCallsPut
  <2> QED
    BY <2>1, <2>2
<1>2. \A j \in FormCalls' : /\ Ok(embedNet, j, "load")' => Ok(embedNet, j, "load")
                            /\ Sent(embedNet, j, "save")' => Sent(embedNet, j, "save")
  BY <1>1 DEF Ok, Sent
<1> QED
  BY <1>1, <1>2 DEF EmbedInv, UntouchedInv

\* The administrator's steps on the form.
LEMMA FormUserStep ==
    ASSUME EmbedInv, OpenRows \/ CloseRows \/ SaveRows \/ \E rows \in Seq(FilterRow) : SetRows(rows)
    PROVE  EmbedInv'
<1>0. /\ EmbedShape /\ IsNet(embedNet) /\ "calm" \in DOMAIN embedLog /\ {"page", "timers"} \subseteq DOMAIN embed
      /\ ReportOk(embed.page) /\ TimersOk(embed.timers) /\ filterRows \in Seq(FilterRow)
      /\ rowForm # None => FormOk(rowForm)
  BY DEF EmbedInv, EmbedShape
<1>1. ASSUME PressEmbed
      PROVE  /\ "calm" \in DOMAIN embedLog' /\ (embedLog'.calm => embedLog.calm /\ Quiet(embedNet))
             /\ filterRows' = filterRows /\ current' = current
  BY <1>0, <1>1 DEF PressEmbed, Pressed, embedServer
<1>2. \A op, arg : \E k : Send(embedNet, op, arg) = Put(embedNet, k, Call(op, arg)) /\ IsCall(Call(op, arg))
  BY <1>0, Sending, CallIsCall
<1>3. \A op, arg : Call(op, arg).op = op /\ Call(op, arg).arg = arg /\ Call(op, arg).st = "sent"
  BY DEF Call
<1>4. \A s : << >> \in Seq(s)
  OBVIOUS
<1>5. CASE OpenRows
  <2>1. embed' = embed /\ "calm" \in DOMAIN embedLog' /\ (embedLog'.calm => embedLog.calm /\ Quiet(embedNet))
        /\ filterRows' = filterRows /\ current' = current
    BY <1>1, <1>5 DEF OpenRows
  <2>2. FormOk(rowForm') /\ rowForm'.loading = TRUE /\ rowForm'.touched = FALSE
    BY <1>4, <1>5 DEF OpenRows, FormOk
  <2>3. PICK k : embedNet' = Put(embedNet, k, Call("load", [n |-> embedLog.clicks]))
    BY <1>2, <1>5 DEF OpenRows
  <2>4. IsCall(Call("load", [n |-> embedLog.clicks])) /\ EmbedCallOk(Call("load", [n |-> embedLog.clicks]))
    BY <1>2, <1>3 DEF EmbedCallOk
  <2>5. EmbedShape'
    BY <1>0, <2>1, <2>2, <2>3, <2>4, EmbedShapeKept
  <2>6. RefreshInv' /\ FiltersInv'
    BY <1>3, <2>1, <2>3, ReportUndisturbed
  <2>7. UntouchedInv'
    <3> SUFFICES ASSUME embedLog'.calm PROVE UntouchedInv'
      BY DEF UntouchedInv
    <3>1. \A j \in FormCalls' : j = k /\ embedNet'[j] = Call("load", [n |-> embedLog.clicks])
      BY <1>0, <2>1, <2>3, EmbedCallsPut, QuietHasNone
    <3> QED
      BY <1>3, <2>2, <3>1 DEF UntouchedInv, Ok, Sent
  <2> QED
    BY <2>5, <2>6, <2>7 DEF EmbedInv
<1>6. CASE CloseRows
  <2>1. /\ embed' = embed /\ embedLog' = embedLog /\ filterRows' = filterRows /\ current' = current
        /\ rowForm' = None /\ embedNet' = embedNet
    BY <1>6 DEF CloseRows, embedServer
  <2>2. EmbedShape'
    BY <1>0, <2>1, EmbedShapeKept
  <2>3. RefreshInv' /\ FiltersInv'
    BY <2>1, ReportUndisturbed
  <2>4. FormCalls' = FormCalls /\ \A j : Ok(embedNet, j, "load")' = Ok(embedNet, j, "load")
                               /\ Sent(embedNet, j, "save")' = Sent(embedNet, j, "save")
    BY <2>1 DEF FormCalls, Of, Pending, Ok, Sent
  <2>5. UntouchedInv'
    BY <2>1, <2>4 DEF EmbedInv, UntouchedInv
  <2> QED
    BY <2>2, <2>3, <2>5 DEF EmbedInv
<1>7. CASE SaveRows
  <2> DEFINE arg == [rows |-> rowForm.rows, touched |-> rowForm.touched, n |-> rowForm.n]
  <2>1. embed' = embed /\ "calm" \in DOMAIN embedLog' /\ (embedLog'.calm => embedLog.calm /\ Quiet(embedNet))
        /\ filterRows' = filterRows /\ current' = current
    BY <1>1, <1>7 DEF SaveRows
  <2>2. /\ FormOk(rowForm) /\ FormOk(rowForm') /\ ~rowForm.loading
        /\ rowForm'.rows = rowForm.rows /\ rowForm'.loading = rowForm.loading /\ rowForm'.touched = rowForm.touched
    BY <1>0, <1>7 DEF SaveRows, FormOk
  <2>3. PICK k : embedNet' = Put(embedNet, k, Call("save", arg))
    BY <1>2, <1>7 DEF SaveRows
  <2>4. IsCall(Call("save", arg)) /\ EmbedCallOk(Call("save", arg))
    BY <1>2, <1>3, <2>2 DEF EmbedCallOk, FormOk
  <2>5. EmbedShape'
    BY <1>0, <2>1, <2>2, <2>3, <2>4, EmbedShapeKept
  <2>6. RefreshInv' /\ FiltersInv'
    BY <1>3, <2>1, <2>3, ReportUndisturbed
  <2>7. UntouchedInv'
    <3> SUFFICES ASSUME embedLog'.calm PROVE UntouchedInv'
      BY DEF UntouchedInv
    <3>1. \A j \in FormCalls' : j = k /\ embedNet'[j] = Call("save", arg)
      BY <1>0, <2>1, <2>3, EmbedCallsPut, QuietHasNone
    <3>2. rowForm # None /\ (~rowForm.touched => rowForm.rows = filterRows)
      BY <1>7, <2>1, <2>2 DEF EmbedInv, UntouchedInv, SaveRows
    <3> QED
      BY <1>3, <2>1, <2>2, <3>1, <3>2 DEF UntouchedInv, Ok, Sent
  <2> QED
    BY <2>5, <2>6, <2>7 DEF EmbedInv
<1>8. ASSUME NEW rows \in Seq(FilterRow), SetRows(rows) PROVE EmbedInv'
  <2>1. embed' = embed /\ "calm" \in DOMAIN embedLog' /\ (embedLog'.calm => embedLog.calm /\ Quiet(embedNet))
        /\ filterRows' = filterRows /\ current' = current /\ embedNet' = embedNet
    BY <1>1, <1>8 DEF SetRows
  <2>2. FormOk(rowForm') /\ rowForm'.touched = TRUE
    BY <1>0, <1>8 DEF SetRows, FormOk
  <2>3. EmbedShape'
    BY <1>0, <2>1, <2>2, EmbedShapeKept
  <2>4. RefreshInv' /\ FiltersInv'
    BY <2>1, ReportUndisturbed
  <2>5. embedLog'.calm => FormCalls' = {}
    BY <2>1, QuietHasNone DEF FormCalls, Of, Pending
  <2>6. UntouchedInv'
    BY <2>2, <2>5 DEF UntouchedInv
  <2> QED
    BY <2>3, <2>4, <2>6 DEF EmbedInv
<1> QED
  BY <1>5, <1>6, <1>7, <1>8

\* The answers the form waits for.
LEMMA FormAnswerStep ==
    ASSUME EmbedInv, NEW i \in Slot, ServeRows(i) \/ RowsRead(i) \/ ServeSaveRows(i) \/ RowsSaved(i)
    PROVE  EmbedInv'
<1> DEFINE answer(st, out) == [op |-> embedNet[i].op, arg |-> embedNet[i].arg, st |-> st, out |-> out]
           arg == embedNet[i].arg
<1>0. /\ EmbedShape /\ IsNet(embedNet) /\ "calm" \in DOMAIN embedLog /\ {"page", "timers"} \subseteq DOMAIN embed
      /\ ReportOk(embed.page) /\ TimersOk(embed.timers) /\ filterRows \in Seq(FilterRow)
      /\ rowForm # None => FormOk(rowForm)
  BY DEF EmbedInv, EmbedShape
<1>1. i \in FormCalls /\ embedNet[i] # Free /\ EmbedCallOk(embedNet[i])
  BY DEF EmbedInv, EmbedShape, ServeRows, RowsRead, ServeSaveRows, RowsSaved, Sent, Settled, Ok, Err,
         FormCalls, Of, Pending
<1>2. /\ \A out : Reply(embedNet, i, out) = Put(embedNet, i, answer("ok", out))
      /\ Done(embedNet, i) = Put(embedNet, i, Free)
  BY <1>0, <1>1, Answering, Ending
<1>3. embedLog.calm => \A j \in FormCalls : j = i
  BY <1>1 DEF EmbedInv, UntouchedInv
<1>4. \A st, out : answer(st, out).op = embedNet[i].op /\ answer(st, out).st = st
                   /\ answer(st, out).arg = arg /\ answer(st, out).out = out /\ IsCall(answer(st, out))
  BY DEF IsCall
<1> HIDE DEF answer
\* Once the call is over none is left, if one thing is done at a time.
<1>5. ASSUME embedNet' = Put(embedNet, i, Free), embedLog.calm PROVE FormCalls' = {}
  BY <1>0, <1>3, <1>5, EmbedCallsPut
<1>6. ASSUME NEW st, NEW out, embedNet' = Put(embedNet, i, answer(st, out)), embedLog.calm
      PROVE  \A j \in FormCalls' : j = i /\ embedNet'[j] = answer(st, out)
  BY <1>0, <1>3, <1>6, EmbedCallsPut
<1>7. CASE ServeRows(i)
  <2>1. /\ embed' = embed /\ embedLog' = embedLog /\ filterRows' = filterRows /\ current' = current
        /\ rowForm' = rowForm /\ embedNet' = Put(embedNet, i, answer("ok", filterRows)) /\ embedNet[i].op = "load"
    BY <1>2, <1>7 DEF ServeRows, Sent, embedServer
  <2>2. EmbedCallOk(answer("ok", filterRows))
    BY <1>0, <1>4, <2>1 DEF EmbedCallOk
  <2>3. EmbedShape'
    BY <1>0, <1>4, <2>1, <2>2, EmbedShapeKept
  <2>4. RefreshInv' /\ FiltersInv'
    BY <1>1, <1>4, <2>1, ReportUndisturbed
  <2>5. UntouchedInv'
    BY <1>4, <1>6, <2>1 DEF EmbedInv, UntouchedInv, Ok, Sent
  <2> QED
    BY <2>3, <2>4, <2>5 DEF EmbedInv
<1>8. CASE RowsRead(i)
  <2>1. /\ embed' = embed /\ filterRows' = filterRows /\ current' = current
        /\ embedNet' = Put(embedNet, i, Free) /\ embedNet[i].op = "load"
    BY <1>2, <1>8 DEF RowsRead, Settled, Ok, Err, embedServer
  <2>2. "calm" \in DOMAIN embedLog' /\ (embedLog'.calm => embedLog.calm /\ Ok(embedNet, i, "load"))
    BY <1>0, <1>8 DEF RowsRead
  <2>3. \/ rowForm' = rowForm
        \/ rowForm # None /\ rowForm' = [rowForm EXCEPT !.loading = FALSE] /\ ~Ok(embedNet, i, "load")
        \/ rowForm # None /\ rowForm' = [rowForm EXCEPT !.loading = FALSE, !.rows = embedNet[i].out] /\ Ok(embedNet, i, "load")
    BY <1>8 DEF RowsRead, MyRows
  <2>4. Ok(embedNet, i, "load") => embedNet[i].out \in Seq(FilterRow)
    BY <1>1 DEF EmbedCallOk, Ok
  <2>5. rowForm' # None => FormOk(rowForm')
    BY <1>0, <2>3, <2>4 DEF FormOk
  <2>6. EmbedShape'
    BY <1>0, <2>1, <2>2, <2>5, EmbedShapeKept
  <2>7. RefreshInv' /\ FiltersInv'
    BY <1>1, <2>1, <2>2, ReportUndisturbed
  <2>8. embedLog'.calm => (rowForm' # None /\ ~rowForm'.loading /\ ~rowForm'.touched => rowForm'.rows = filterRows)
    <3> SUFFICES ASSUME embedLog'.calm, rowForm' # None, ~rowForm'.loading, ~rowForm'.touched
                 PROVE  rowForm'.rows = filterRows
      OBVIOUS
    <3>1. embedNet[i].out = filterRows
      BY <1>1, <2>2 DEF EmbedInv, UntouchedInv
    <3> QED
      BY <1>0, <2>2, <2>3, <3>1 DEF EmbedInv, UntouchedInv, FormOk
  <2>9. UntouchedInv'
    BY <1>5, <2>1, <2>2, <2>8 DEF UntouchedInv
  <2> QED
    BY <2>6, <2>7, <2>9 DEF EmbedInv
<1>9. CASE ServeSaveRows(i)
  <2>1. /\ embed' = embed /\ embedLog' = embedLog /\ rowForm' = rowForm /\ filterRows' = arg.rows
        /\ current' = (current /\ filterRows' = filterRows)
        /\ embedNet' = Put(embedNet, i, answer("ok", None)) /\ Sent(embedNet, i, "save")
    BY <1>2, <1>9 DEF ServeSaveRows
  <2>2. arg.rows \in Seq(FilterRow) /\ arg.touched \in BOOLEAN /\ EmbedCallOk(answer("ok", None))
    BY <1>1, <1>4, <2>1 DEF EmbedCallOk, Sent
  <2>3. EmbedShape'
    BY <1>0, <1>4, <2>1, <2>2, EmbedShapeKept
  <2>4. RefreshInv' /\ FiltersInv'
    <3>1. current' => current /\ filterRows' = filterRows
      BY <2>1
    <3> QED
      BY <1>1, <1>4, <2>1, <3>1, ReportUndisturbed DEF Sent
  <2>5. UntouchedInv'
    <3> SUFFICES ASSUME embedLog.calm PROVE UntouchedInv'
      BY <2>1 DEF UntouchedInv
    <3>1. IF arg.touched THEN rowForm = None \/ rowForm.touched ELSE arg.rows = filterRows
      BY <1>1, <2>1 DEF EmbedInv, UntouchedInv
    <3>2. rowForm # None /\ ~rowForm.loading /\ ~rowForm.touched => rowForm.rows = filterRows'
      BY <2>1, <3>1 DEF EmbedInv, UntouchedInv
    <3>3. \A j \in FormCalls' : j = i /\ ~Ok(embedNet, j, "load")' /\ ~Sent(embedNet, j, "save")'
      BY <1>4, <1>6, <2>1 DEF Ok, Sent
    <3> QED
      BY <2>1, <3>2, <3>3 DEF UntouchedInv
  <2> QED
    BY <2>3, <2>4, <2>5 DEF EmbedInv
<1>10. CASE RowsSaved(i)
  <2>1. /\ embed' = embed /\ embedLog' = embedLog /\ filterRows' = filterRows /\ current' = current
        /\ embedNet' = Put(embedNet, i, Free)
    BY <1>2, <1>10 DEF RowsSaved, embedServer
  <2>2. rowForm' = None \/ rowForm' = rowForm \/ (rowForm # None /\ rowForm' = [rowForm EXCEPT !.saving = FALSE])
    BY <1>10 DEF RowsSaved, MyRows
  <2>3. rowForm' # None => /\ FormOk(rowForm') /\ rowForm # None /\ rowForm'.rows = rowForm.rows
                           /\ rowForm'.loading = rowForm.loading /\ rowForm'.touched = rowForm.touched
    BY <1>0, <2>2 DEF FormOk
  <2>4. EmbedShape'
    BY <1>0, <2>1, <2>3, EmbedShapeKept
  <2>5. RefreshInv' /\ FiltersInv'
    BY <1>1, <2>1, ReportUndisturbed
  <2>6. UntouchedInv'
    BY <1>5, <2>1, <2>3 DEF EmbedInv, UntouchedInv
  <2> QED
    BY <2>4, <2>5, <2>6 DEF EmbedInv
<1> QED
  BY <1>7, <1>8, <1>9, <1>10

\* The connection fails; if the page is still calm it did so on the way out.
LEMMA EmbedFailStep ==
    ASSUME EmbedInv, NEW i \in Slot, EmbedCallFails(i)
    PROVE  EmbedInv'
<1> DEFINE failed == [op |-> embedNet[i].op, arg |-> embedNet[i].arg, st |-> "err", out |-> embedNet[i].out]
<1>0. EmbedShape /\ IsNet(embedNet) /\ "calm" \in DOMAIN embedLog /\ embedNet[i] # Free /\ EmbedCallOk(embedNet[i])
  BY DEF EmbedInv, EmbedShape, EmbedCallFails, CanFail, Pending
<1>1. /\ embed' = embed /\ rowForm' = rowForm /\ filterRows' = filterRows /\ current' = current
      /\ embedNet' = Put(embedNet, i, failed)
  BY <1>0, Answering DEF EmbedCallFails, embedServer
<1>2. "calm" \in DOMAIN embedLog' /\ (embedLog'.calm => embedLog.calm)
  BY <1>0 DEF EmbedCallFails, Missed
<1>3. failed.op = embedNet[i].op /\ failed.arg = embedNet[i].arg /\ failed.st = "err" /\ IsCall(failed) /\ EmbedCallOk(failed)
  BY <1>0 DEF IsCall, EmbedCallOk
<1> HIDE DEF failed
<1>4. EmbedShape'
  BY <1>0, <1>1, <1>2, <1>3, EmbedShapeKept DEF EmbedShape
<1>5. \A j \in Slot : embedNet'[j] = IF j = i THEN failed ELSE embedNet[j]
  BY <1>1 DEF Put
<1>6. Tokens' \subseteq Tokens /\ Tokens \subseteq Tokens' /\ FormCalls' \subseteq FormCalls
  <2>1. failed # Free
    BY <1>3 DEF Free
  <2> QED
    BY <1>0, <1>3, <1>5, <2>1 DEF Tokens, FormCalls, Of, Pending
<1>7. ASSUME NEW j \in Slot, NEW op
      PROVE  /\ Ok(embedNet, j, op)' => Ok(embedNet, j, op) /\ embedNet'[j] = embedNet[j]
             /\ Sent(embedNet, j, op)' => Sent(embedNet, j, op) /\ embedNet'[j] = embedNet[j]
  <2>1. j = i => embedNet'[j].st = "err"
    BY <1>3, <1>5
  <2>2. j # i => embedNet'[j] = embedNet[j]
    BY <1>5
  <2> QED
    BY <2>1, <2>2 DEF Ok, Sent
<1>8. Tokens \subseteq Slot /\ FormCalls \subseteq Slot /\ NoneShown' = NoneShown
  BY <1>1 DEF Tokens, FormCalls, Of, Pending, NoneShown
<1>9. RefreshInv'
  BY <1>1, <1>2, <1>6, <1>8 DEF EmbedInv, RefreshInv
<1>10. FiltersInv'
  BY <1>1, <1>2, <1>6, <1>7, <1>8 DEF EmbedInv, FiltersInv
<1>11. UntouchedInv'
  BY <1>1, <1>2, <1>6, <1>7, <1>8 DEF EmbedInv, UntouchedInv
<1> QED
  BY <1>4, <1>9, <1>10, <1>11 DEF EmbedInv

\* A token is asked for, by the page that is open with none planned and none on
\* its way if one thing is done at a time.
LEMMA TokenAsked ==
    ASSUME EmbedInv, Room(embedNet, 1), FetchToken,
           rowForm' = rowForm, filterRows' = filterRows,
           "calm" \in DOMAIN embedLog', embedLog'.calm => embedLog.calm /\ Tokens = {},
           {"page", "timers"} \subseteq DOMAIN embed', ReportOk(embed'.page), TimersOk(embed'.timers),
           embedLog'.calm => /\ embed'.page.mounted /\ embed'.page.error = None
                             /\ ~embed'.timers.ref /\ embed'.timers.lost = 0
    PROVE  EmbedInv'
<1> DEFINE c == Call("token", None)
<1>0. EmbedShape /\ IsNet(embedNet) /\ filterRows \in Seq(FilterRow) /\ (rowForm # None => FormOk(rowForm))
  BY DEF EmbedInv, EmbedShape
<1>1. PICK k \in Slot : embedNet' = Put(embedNet, k, c)
  BY <1>0, SendingIntoRoom DEF FetchToken
<1>2. c.op = "token" /\ c.st = "sent" /\ IsCall(c) /\ EmbedCallOk(c) /\ c # Free
  BY CallIsCall DEF Call, EmbedCallOk
<1> HIDE DEF c
<1>3. EmbedShape'
  BY <1>0, <1>1, <1>2, EmbedShapeKept
<1>4. UntouchedInv'
  BY <1>1, <1>2, FormUndisturbed
<1>5. embedLog'.calm => Tokens' = {k} /\ embedNet'[k] = c
  BY <1>0, <1>1, <1>2, EmbedCallsPut
<1>6. RefreshInv'
  BY <1>5 DEF RefreshInv
<1>7. FiltersInv'
  <2> SUFFICES ASSUME embedLog'.calm, current' PROVE FiltersInv'
    BY DEF FiltersInv
  <2>1. ~Ok(embedNet, k, "token")'
    BY <1>2, <1>5 DEF Ok
  <2> QED
    BY <1>5, <2>1 DEF FiltersInv
<1> QED
  BY <1>3, <1>4, <1>6, <1>7 DEF EmbedInv

\* What becomes of the timers when one fires or the effect is cleaned up.
LEMMA TimersCleared ==
    ASSUME NEW timers, TimersOk(timers)
    PROVE  /\ TimersOk(ClearRef(timers)) /\ ClearRef(timers).ref = FALSE /\ ClearRef(timers).lost = timers.lost
           /\ timers.lost > 0 => TimersOk([timers EXCEPT !.lost = @ - 1])
<1>1. ClearRef(timers) = [ref |-> FALSE, lost |-> timers.lost]
  <2>1. ASSUME NEW x PROVE [timers EXCEPT !.ref = x] = [ref |-> x, lost |-> timers.lost]
    BY DEF TimersOk
  <2> QED
    BY <2>1 DEF ClearRef
<1>2. [timers EXCEPT !.lost = @ - 1] = [ref |-> timers.ref, lost |-> timers.lost - 1]
  BY DEF TimersOk
<1>3. timers.ref \in BOOLEAN /\ timers.lost \in Nat
  BY DEF TimersOk
<1>4. timers.lost > 0 => [ref |-> timers.ref, lost |-> timers.lost - 1] \in [ref : BOOLEAN, lost : Nat]
  BY <1>3
<1>5. [ref |-> FALSE, lost |-> timers.lost] \in [ref : BOOLEAN, lost : Nat]
  BY <1>3
<1> QED
  BY <1>1, <1>2, <1>4, <1>5 DEF TimersOk

\* The viewer's steps.
LEMMA ViewerStep ==
    ASSUME EmbedInv, OpenEmbed \/ LeaveReport \/ SessionChanged \/ RefreshDue \/ RetryReport
    PROVE  EmbedInv'
<1>0. /\ EmbedShape /\ IsNet(embedNet) /\ "calm" \in DOMAIN embedLog /\ {"page", "timers"} \subseteq DOMAIN embed
      /\ ReportOk(embed.page) /\ TimersOk(embed.timers) /\ filterRows \in Seq(FilterRow)
      /\ rowForm # None => FormOk(rowForm)
  BY DEF EmbedInv, EmbedShape
<1>1. ASSUME PressEmbed
      PROVE  /\ "calm" \in DOMAIN embedLog' /\ (embedLog'.calm => embedLog.calm /\ Tokens = {} /\ FormCalls = {})
             /\ filterRows' = filterRows /\ current' = current
  BY <1>0, <1>1, QuietHasNone DEF PressEmbed, Pressed, embedServer
<1>2. /\ TimersOk(ClearRef(embed.timers)) /\ ClearRef(embed.timers).ref = FALSE
      /\ ClearRef(embed.timers).lost = embed.timers.lost
  BY <1>0, TimersCleared
<1>3. /\ ReportOk(Fetching(embed.page)) /\ Fetching(embed.page).error = None
      /\ Fetching(embed.page).mounted = embed.page.mounted
  BY <1>0 DEF ReportOk, Fetching
<1>4. embedLog.calm => embed.timers.lost = 0 /\ (embed.timers.ref => Tokens = {} /\ embed.page.mounted)
  BY DEF EmbedInv, RefreshInv
<1>5. CASE OpenEmbed
  <2>1. /\ Room(embedNet, 1) /\ FetchToken /\ rowForm' = rowForm /\ filterRows' = filterRows
        /\ "calm" \in DOMAIN embedLog' /\ (embedLog'.calm => embedLog.calm /\ Tokens = {}) /\ ~embed.page.mounted
    BY <1>1, <1>5 DEF OpenEmbed
  <2>2. /\ embed'.page = [NoReport EXCEPT !.mounted = TRUE] /\ embed'.timers = embed.timers
        /\ {"page", "timers"} \subseteq DOMAIN embed'
    BY <1>0, <1>5 DEF OpenEmbed
  <2>3. ReportOk(embed'.page) /\ embed'.page.mounted /\ embed'.page.error = None
    BY <2>2 DEF NoReport, ReportOk
  <2>4. embedLog'.calm => embed.timers.lost = 0 /\ ~embed.timers.ref
    BY <1>4, <2>1
  <2> QED
    BY <1>0, <2>1, <2>2, <2>3, <2>4, TokenAsked
<1>6. CASE LeaveReport
  <2>1. /\ embedNet' = embedNet /\ rowForm' = rowForm /\ filterRows' = filterRows /\ current' = current
        /\ "calm" \in DOMAIN embedLog' /\ (embedLog'.calm => embedLog.calm /\ Tokens = {})
    BY <1>1, <1>6 DEF LeaveReport
  <2>2. /\ embed'.page = [NoReport EXCEPT !.left = TRUE] /\ embed'.timers = ClearRef(embed.timers)
        /\ {"page", "timers"} \subseteq DOMAIN embed'
    BY <1>6 DEF LeaveReport
  <2>3. ReportOk(embed'.page) /\ embed'.page.mounted = FALSE
    BY <2>2 DEF NoReport, ReportOk
  <2>4. EmbedShape'
    BY <1>0, <1>2, <2>1, <2>2, <2>3, EmbedShapeKept
  <2>5. UntouchedInv'
    BY <2>1, FormUndisturbed
  <2>6. embedLog'.calm => Tokens' = {}
    BY <2>1 DEF Tokens, Of, Pending
  <2>7. RefreshInv'
    BY <1>2, <1>4, <2>1, <2>2, <2>3, <2>6 DEF RefreshInv
  <2>8. FiltersInv'
    BY <2>1, <2>3, <2>6 DEF FiltersInv
  <2> QED
    BY <2>4, <2>5, <2>7, <2>8 DEF EmbedInv
<1>7. CASE SessionChanged
  <2>1. /\ Room(embedNet, 1) /\ FetchToken /\ rowForm' = rowForm /\ filterRows' = filterRows
        /\ "calm" \in DOMAIN embedLog' /\ (embedLog'.calm => embedLog.calm /\ Tokens = {}) /\ embed.page.mounted
    BY <1>1, <1>7 DEF SessionChanged
  <2>2. /\ embed'.page = Fetching(embed.page) /\ embed'.timers = ClearRef(embed.timers)
        /\ {"page", "timers"} \subseteq DOMAIN embed'
    BY <1>7 DEF SessionChanged
  <2> QED
    BY <1>2, <1>3, <1>4, <2>1, <2>2, TokenAsked
<1>8. CASE RefreshDue
  <2>1. /\ Room(embedNet, 1) /\ FetchToken /\ rowForm' = rowForm /\ filterRows' = filterRows /\ embedLog' = embedLog
    BY <1>8 DEF RefreshDue, embedServer
  <2>2. /\ {"page", "timers"} \subseteq DOMAIN embed' /\ embed'.page = Fetching(embed.page)
        /\ \/ embed.timers.ref /\ embed'.timers = ClearRef(embed.timers)
           \/ embed.timers.lost > 0 /\ embed'.timers = [embed.timers EXCEPT !.lost = @ - 1]
    BY <1>8 DEF RefreshDue
  <2>3. TimersOk(embed'.timers)
    BY <1>0, <1>2, <2>2, TimersCleared
  <2>4. embedLog.calm => /\ Tokens = {} /\ embed.page.mounted /\ ~embed'.timers.ref /\ embed'.timers.lost = 0
    BY <1>0, <1>2, <1>4, <2>2 DEF TimersOk
  <2> QED
    BY <1>0, <1>3, <2>1, <2>2, <2>3, <2>4, TokenAsked
<1>9. CASE RetryReport
  <2>1. /\ Room(embedNet, 1) /\ FetchToken /\ rowForm' = rowForm /\ filterRows' = filterRows
        /\ "calm" \in DOMAIN embedLog' /\ (embedLog'.calm => embedLog.calm /\ Tokens = {})
        /\ embed.page.mounted /\ NoneShown
    BY <1>1, <1>9 DEF RetryReport
  <2>2. /\ embed'.page = [Fetching(embed.page) EXCEPT !.loading = TRUE] /\ embed'.timers = embed.timers
        /\ {"page", "timers"} \subseteq DOMAIN embed'
    BY <1>0, <1>9 DEF RetryReport
  <2>3. ReportOk(embed'.page) /\ embed'.page.mounted /\ embed'.page.error = None
    BY <1>3, <2>1, <2>2 DEF ReportOk
  <2>4. embedLog'.calm => embed.timers.lost = 0 /\ ~embed.timers.ref
    BY <2>1 DEF EmbedInv, RefreshInv
  <2> QED
    BY <1>0, <2>1, <2>2, <2>3, <2>4, TokenAsked
<1> QED
  BY <1>5, <1>6, <1>7, <1>8, <1>9

\* A token is a token, a refusal none, and None neither.
LEMMA TokensTold ==
    /\ \A out \in EmbedToken : out # None /\ out.error = None /\ out.long \in BOOLEAN
    /\ \A out \in EmbedRefusal : out.error # None
    /\ "failed" # None
  BY EmbedAssumption DEF EmbedToken, EmbedRefusal

\* The server issues a token with the filters that are stored, or refuses.
LEMMA ServeTokenStep ==
    ASSUME EmbedInv, NEW i \in Slot, ServeToken(i)
    PROVE  EmbedInv'
<1> DEFINE answer(out) == [op |-> embedNet[i].op, arg |-> embedNet[i].arg, st |-> "ok", out |-> out]
<1>0. /\ EmbedShape /\ IsNet(embedNet) /\ "calm" \in DOMAIN embedLog /\ filterRows \in Seq(FilterRow)
      /\ embedNet[i] # Free /\ EmbedCallOk(embedNet[i]) /\ embedNet[i].op = "token" /\ i \in Tokens
  BY DEF EmbedInv, EmbedShape, ServeToken, Sent, Tokens, Of, Pending
<1>1. embed' = embed /\ embedLog' = embedLog /\ rowForm' = rowForm /\ filterRows' = filterRows
  BY DEF ServeToken
<1>2. PICK out : /\ embedNet' = Put(embedNet, i, answer(out))
                 /\ \/ /\ out \in EmbedToken /\ FiltersOf(out) = Complete(filterRows)
                    \/ out \in EmbedRefusal /\ current' = current
  <2>1. \A out : Reply(embedNet, i, out) = Put(embedNet, i, answer(out))
    BY <1>0, Answering
  <2> HIDE DEF answer
  <2>2. CASE Admitted /\ access.report
    <3>1. PICK long \in BOOLEAN : embedNet' = Reply(embedNet, i, [error |-> None, rows |-> Resolved(filterRows), long |-> long])
      BY <2>2 DEF ServeToken
    <3> DEFINE out == [error |-> None, rows |-> Resolved(filterRows), long |-> long]
    <3>2. out \in EmbedToken
      BY <1>0, ResolvedIsComplete DEF EmbedToken
    <3>3. FiltersOf(out) = Complete(filterRows)
      BY <1>0, ResolvedIsComplete DEF FiltersOf
    <3> QED
      BY <2>1, <3>1, <3>2, <3>3
  <2>3. CASE ~(Admitted /\ access.report)
    <3>1. PICK e \in {"config", "denied"} : embedNet' = Reply(embedNet, i, [error |-> e]) /\ current' = current
      BY <2>3 DEF ServeToken
    <3>2. [error |-> e] \in EmbedRefusal
      BY DEF EmbedRefusal
    <3> QED
      BY <2>1, <3>1, <3>2
  <2> QED
    BY <2>2, <2>3
<1>3. /\ answer(out).op = "token" /\ IsCall(answer(out)) /\ answer(out) # Free
      /\ answer(out).out = out /\ EmbedCallOk(answer(out))
  BY <1>0, <1>2 DEF IsCall, EmbedCallOk, Free
<1> HIDE DEF answer
<1>4. EmbedShape'
  BY <1>0, <1>1, <1>2, <1>3, EmbedShapeKept DEF EmbedShape
<1>5. UntouchedInv'
  BY <1>1, <1>2, <1>3, FormUndisturbed
<1>6. Tokens' = Tokens /\ NoneShown' = NoneShown /\ embedNet'[i] = answer(out)
  <2> DEFINE c == answer(out)
  <2>0. c # Free /\ c.op = "token" /\ embedNet' = Put(embedNet, i, c)
    BY <1>2, <1>3
  <2> HIDE DEF c
  <2>1. Tokens' = Tokens
    <3>1. Tokens' = {j \in Tokens : j # i} \cup {j \in Slot : j = i /\ c # Free /\ c.op = "token"}
      BY <1>0, <2>0, EmbedCallsPut
    <3>2. {j \in Slot : j = i /\ c # Free /\ c.op = "token"} = {i}
      BY <2>0
    <3> QED
      BY <1>0, <3>1, <3>2
  <2>2. embedNet'[i] = answer(out)
    BY <1>0, <2>0, EmbedCallsPut DEF c
  <2> QED
    BY <1>1, <2>1, <2>2 DEF NoneShown
<1>7. RefreshInv'
  BY <1>1, <1>6 DEF EmbedInv, RefreshInv
<1>8. FiltersInv'
  <2> SUFFICES ASSUME embedLog'.calm, current' PROVE FiltersInv'
    BY DEF FiltersInv
  <2>1. \A j \in Tokens' : j = i
    BY <1>0, <1>1, <1>6 DEF EmbedInv, RefreshInv
  <2>2. out.error = None => FiltersOf(out) = Complete(filterRows)
    BY <1>2, TokensTold
  <2> QED
    BY <1>0, <1>1, <1>3, <1>6, <2>1, <2>2 DEF FiltersInv
<1> QED
  BY <1>4, <1>5, <1>7, <1>8 DEF EmbedInv

\* The viewer's page takes the answer and plans the next refresh.
LEMMA TokenReadStep ==
    ASSUME EmbedInv, NEW i \in Slot, TokenRead(i)
    PROVE  EmbedInv'
<1> DEFINE out == embedNet[i].out
           error == IF Err(embedNet, i, "token") THEN "failed" ELSE out.error
           plans == error = None /\ out.long
           page == embed.page
           timers == embed.timers
<1>0. /\ EmbedShape /\ IsNet(embedNet) /\ "calm" \in DOMAIN embedLog /\ filterRows \in Seq(FilterRow)
      /\ ReportOk(page) /\ TimersOk(timers) /\ (rowForm # None => FormOk(rowForm))
      /\ embedNet[i] # Free /\ EmbedCallOk(embedNet[i]) /\ embedNet[i].op = "token" /\ i \in Tokens
  BY DEF EmbedInv, EmbedShape, TokenRead, Settled, Ok, Err, Tokens, Of, Pending
<1>1. /\ embedLog' = embedLog /\ rowForm' = rowForm /\ filterRows' = filterRows /\ current' = current
      /\ embedNet' = Put(embedNet, i, Free)
  BY <1>0, Ending DEF TokenRead, embedServer
<1>2. /\ {"page", "timers"} \subseteq DOMAIN embed'
      /\ embed'.page = IF ~page.mounted THEN page
                       ELSE IF error = None THEN [page EXCEPT !.data = out, !.loading = FALSE]
                       ELSE [page EXCEPT !.error = error, !.loading = FALSE]
  BY DEF TokenRead
<1>12. embed'.timers = IF plans THEN [ref |-> TRUE, lost |-> timers.lost + IF timers.ref THEN 1 ELSE 0] ELSE timers
  BY DEF TokenRead
<1>3. error = None => out \in EmbedToken /\ out # None /\ out.long \in BOOLEAN /\ Ok(embedNet, i, "token")
  <2>1. Err(embedNet, i, "token") => error # None
    BY TokensTold
  <2>2. Ok(embedNet, i, "token") => out \in EmbedToken \cup EmbedRefusal /\ ~Err(embedNet, i, "token")
    BY <1>0 DEF EmbedCallOk, Ok, Err
  <2> QED
    BY <2>1, <2>2, TokensTold DEF TokenRead, Settled
<1> HIDE DEF error, out
<1>4. ReportOk(embed'.page)
  BY <1>0, <1>2, <1>3 DEF ReportOk
<1>5. TimersOk(embed'.timers)
  BY <1>0, <1>12 DEF TimersOk
<1>6. EmbedShape'
  BY <1>0, <1>1, <1>2, <1>4, <1>5, EmbedShapeKept
<1>7. UntouchedInv'
  BY <1>1, FormUndisturbed
<1>8. ASSUME embedLog.calm
      PROVE  /\ Tokens' = {} /\ page.mounted /\ page.error = None
             /\ timers.ref = FALSE /\ timers.lost = 0
  <2>1. Tokens' = {}
    BY <1>0, <1>1, <1>8, EmbedCallsPut DEF EmbedInv, RefreshInv
  <2> QED
    BY <1>0, <1>8, <2>1 DEF EmbedInv, RefreshInv, TimersOk
<1>9. ASSUME embedLog.calm
      PROVE  /\ embed'.page.mounted
             /\ NoneShown' = (error # None)
             /\ error = None => embed'.page.data = out
  <2>1. CASE error = None
    <3>1. embed'.page = [page EXCEPT !.data = out, !.loading = FALSE]
      BY <1>2, <1>8, <1>9, <2>1
    <3>2. embed'.page.mounted = page.mounted /\ embed'.page.error = None /\ embed'.page.data = out
      BY <1>0, <1>8, <1>9, <3>1 DEF ReportOk
    <3> QED
      BY <1>3, <1>8, <1>9, <2>1, <3>2 DEF NoneShown
  <2>2. CASE error # None
    <3>1. embed'.page = [page EXCEPT !.error = error, !.loading = FALSE]
      BY <1>2, <1>8, <1>9, <2>2
    <3>2. embed'.page.mounted = page.mounted /\ embed'.page.error = error
      BY <1>0, <3>1 DEF ReportOk
    <3> QED
      BY <1>8, <1>9, <2>2, <3>2 DEF NoneShown
  <2> QED
    BY <2>1, <2>2
<1>10. RefreshInv'
  <2> SUFFICES ASSUME embedLog.calm PROVE RefreshInv'
    BY <1>1 DEF RefreshInv
  <2>0. embed'.timers = IF plans THEN [ref |-> TRUE, lost |-> 0] ELSE timers
    <3>1. timers.ref = FALSE /\ timers.lost = 0
      BY <1>8
    <3>2. (IF timers.ref THEN 1 ELSE 0) = 0
      BY <3>1
    <3>3. timers.lost + (IF timers.ref THEN 1 ELSE 0) = 0
      BY <3>1, <3>2
    <3> QED
      BY <1>12, <3>3
  <2>1. embed'.timers.lost = 0
    BY <1>8, <2>0
  <2>2. embed'.timers.ref = (embed'.page.mounted /\ ~NoneShown' /\ embed'.page.data.long)
    <3>1. CASE error = None
      <4>1. NoneShown' = FALSE /\ embed'.page.mounted /\ embed'.page.data.long = out.long /\ out.long \in BOOLEAN
        BY <1>3, <1>9, <3>1
      <4>2. embed'.timers.ref = out.long
        <5>1. out.long = TRUE => embed'.timers.ref = TRUE
          BY <2>0, <3>1
        <5>2. out.long = FALSE => embed'.timers.ref = FALSE
          BY <1>8, <2>0
        <5> QED
          BY <1>3, <3>1, <5>1, <5>2
      <4> QED
        BY <1>9, <4>1, <4>2
    <3>2. CASE error # None
      <4>1. NoneShown' = TRUE
        BY <1>9, <3>2
      <4> QED
        BY <1>8, <2>0, <3>2, <4>1
    <3> QED
      BY <3>1, <3>2
  <2> QED
    BY <1>8, <2>1, <2>2 DEF RefreshInv
<1>11. FiltersInv'
  <2> SUFFICES ASSUME embedLog.calm, current PROVE FiltersInv'
    BY <1>1 DEF FiltersInv
  <2>1. error = None => FiltersOf(out) = Complete(filterRows)
    <3>1. error = None => out.error = None
      BY <1>3, TokensTold
    <3> QED
      BY <1>0, <1>3, <3>1 DEF EmbedInv, FiltersInv, out
  <2> QED
    BY <1>1, <1>8, <1>9, <2>1 DEF FiltersInv
<1> QED
  BY <1>6, <1>7, <1>10, <1>11 DEF EmbedInv

\* Whatever the form is made to hold is a list of filters.
LEMMA RowsEdited ==
    ASSUME EmbedInv, EmbedNext,
           \/ AddRow
           \/ \E k \in 1..MaxRows :
                 \/ RemoveRow(k) \/ \E t \in FilterTarget : SetTarget(k, t)
                 \/ \E kind \in {"static", "attribute"} : SetKind(k, kind)
                 \/ \E v \in Value : SetValue(k, v)
    PROVE  \E rows \in Seq(FilterRow) : SetRows(rows)
<1> DEFINE rows == rowForm.rows
<1>0. rowForm # None => rows \in Seq(FilterRow)
  BY DEF EmbedInv, EmbedShape, FormOk
<1> HIDE DEF rows
<1>1. ASSUME NEW k, OnRow(k)
      PROVE  /\ rows \in Seq(FilterRow) /\ k \in 1..Len(rows)
             /\ rows[k] \in FilterRow /\ rows = [j \in 1..Len(rows) |-> rows[j]]
  BY <1>0, <1>1 DEF OnRow, rows
\* One row is replaced.
<1>2. ASSUME NEW k, OnRow(k), NEW r \in FilterRow
      PROVE  [rows EXCEPT ![k] = r] \in Seq(FilterRow)
  BY <1>1, <1>2
<1>3. CASE AddRow
  <2>1. NewRow \in FilterRow
    BY DEF NewRow, Row, FilterRow
  <2>2. Append(rows, NewRow) \in Seq(FilterRow) /\ SetRows(Append(rows, NewRow))
    BY <1>0, <1>3, <2>1 DEF AddRow, rows
  <2> QED
    BY <2>2
<1>4. ASSUME NEW k \in 1..MaxRows, RemoveRow(k) PROVE \E s \in Seq(FilterRow) : SetRows(s)
  <2>1. OnRow(k) /\ SetRows(RemoveAt(rows, k))
    BY <1>4 DEF RemoveRow, rows
  <2>2. RemoveAt(rows, k) \in Seq(FilterRow)
    <3>1. SubSeq(rows, 1, k - 1) \in Seq(FilterRow) /\ SubSeq(rows, k + 1, Len(rows)) \in Seq(FilterRow)
      BY <1>1, <2>1
    <3> QED
      BY <3>1 DEF RemoveAt
  <2> QED
    BY <2>1, <2>2
<1>5. ASSUME NEW k \in 1..MaxRows, NEW t \in FilterTarget, SetTarget(k, t) PROVE \E s \in Seq(FilterRow) : SetRows(s)
  <2>1. OnRow(k) /\ SetRows([rows EXCEPT ![k].to = t])
    BY <1>5 DEF SetTarget, rows
  <2>2. [rows[k] EXCEPT !.to = t] \in FilterRow
    BY <1>1, <2>1 DEF FilterRow
  <2> QED
    BY <1>2, <2>1, <2>2
<1>6. ASSUME NEW k \in 1..MaxRows, NEW kind \in {"static", "attribute"}, SetKind(k, kind)
      PROVE  \E s \in Seq(FilterRow) : SetRows(s)
  <2>1. OnRow(k) /\ SetRows([rows EXCEPT ![k].kind = kind, ![k].value = None])
    BY <1>6 DEF SetKind, rows
  <2>2. [[rows[k] EXCEPT !.kind = kind] EXCEPT !.value = None] \in FilterRow
    BY <1>1, <2>1 DEF FilterRow
  <2>3. [rows EXCEPT ![k].kind = kind, ![k].value = None] =
            [rows EXCEPT ![k] = [[rows[k] EXCEPT !.kind = kind] EXCEPT !.value = None]]
    BY <1>1, <2>1
  <2> QED
    BY <1>2, <2>1, <2>2, <2>3
<1>7. ASSUME NEW k \in 1..MaxRows, NEW v \in Value, SetValue(k, v) PROVE \E s \in Seq(FilterRow) : SetRows(s)
  <2>1. OnRow(k) /\ SetRows([rows EXCEPT ![k].value = v])
    BY <1>7 DEF SetValue, rows
  <2>2. [rows[k] EXCEPT !.value = v] \in FilterRow
    BY <1>1, <2>1 DEF FilterRow
  <2> QED
    BY <1>2, <2>1, <2>2
<1> QED
  BY <1>3, <1>4, <1>5, <1>6, <1>7

LEMMA EmbedStep == EmbedInv /\ [EmbedNext]_embedVars => EmbedInv'
<1> SUFFICES ASSUME EmbedInv, [EmbedNext]_embedVars PROVE EmbedInv'
  OBVIOUS
<1>1. CASE EmbedNext
  <2>1. CASE OpenRows \/ CloseRows \/ SaveRows
    BY <2>1, FormUserStep
  <2>2. CASE \/ AddRow
             \/ \E k \in 1..MaxRows :
                   \/ RemoveRow(k) \/ \E t \in FilterTarget : SetTarget(k, t)
                   \/ \E kind \in {"static", "attribute"} : SetKind(k, kind)
                   \/ \E v \in Value : SetValue(k, v)
    BY <1>1, <2>2, RowsEdited, FormUserStep
  <2>3. CASE OpenEmbed \/ LeaveReport \/ SessionChanged \/ RefreshDue \/ RetryReport
    BY <2>3, ViewerStep
  <2>4. ASSUME NEW i \in Slot, ServeRows(i) \/ RowsRead(i) \/ ServeSaveRows(i) \/ RowsSaved(i) PROVE EmbedInv'
    BY <2>4, FormAnswerStep
  <2>5. ASSUME NEW i \in Slot, ServeToken(i) \/ TokenRead(i) \/ EmbedCallFails(i) PROVE EmbedInv'
    BY <2>5, ServeTokenStep, TokenReadStep, EmbedFailStep
  <2> QED
    BY <1>1, <2>1, <2>2, <2>3, <2>4, <2>5 DEF EmbedNext
<1>2. CASE UNCHANGED embedVars
  <2>1. /\ embed' = embed /\ embedLog' = embedLog /\ rowForm' = rowForm /\ filterRows' = filterRows
        /\ current' = current /\ embedNet' = embedNet
    BY <1>2 DEF embedVars
  <2>2. EmbedShape /\ filterRows \in Seq(FilterRow)
    BY DEF EmbedInv, EmbedShape
  <2>3. EmbedShape'
    BY <2>1, <2>2, EmbedShapeKept DEF EmbedShape
  <2>4. RefreshInv' /\ FiltersInv' /\ UntouchedInv'
    BY <2>1, ReportUndisturbed, FormUndisturbed
  <2> QED
    BY <2>3, <2>4 DEF EmbedInv
<1> QED
  BY <1>1, <1>2

\* A report on show has one refresh of its token planned and a page that is gone
\* has none (PowerBIEmbed.tsx), whatever form is open, saved or loading meanwhile.
THEOREM OneRefreshIsPlanned == EmbedSpec => []OneRefresh
<1>1. EmbedInv => OneRefresh
  BY QuietHasNone DEF EmbedInv, RefreshInv, OneRefresh
<1> QED
  BY <1>1, EmbedInitInv, EmbedStep, PTL DEF EmbedSpec

\* A report on show is filtered by what is stored, row by row, while nothing else
\* has been stored since its token was issued (services/embedders/powerbi.py).
THEOREM ReportsAreFiltered == EmbedSpec => []RowsFiltered
<1>1. EmbedInv => RowsFiltered
  BY QuietHasNone DEF EmbedInv, FiltersInv, RowsFiltered
<1> QED
  BY <1>1, EmbedInitInv, EmbedStep, PTL DEF EmbedSpec

\* The filters of a dashboard change only by the save of a form in which they were
\* edited (DashboardCreator.tsx), however the load and the saves are answered.
THEOREM FiltersAreKept == EmbedSpec => FiltersKept
<1> DEFINE Kept == filterRows' # filterRows /\ embedLog.calm =>
                       \E i \in Slot : Sent(embedNet, i, "save") /\ embedNet[i].arg.touched
<1>1. EmbedInv /\ [EmbedNext]_embedVars => [Kept]_embedVars
  <2> SUFFICES ASSUME EmbedInv, EmbedNext, filterRows' # filterRows, embedLog.calm
               PROVE  \E i \in Slot : Sent(embedNet, i, "save") /\ embedNet[i].arg.touched
    OBVIOUS
  <2>1. PICK i \in Slot : ServeSaveRows(i)
    BY DEF EmbedNext, OpenRows, CloseRows, AddRow, SaveRows, RemoveRow, SetTarget, SetKind, SetValue, SetRows,
           OpenEmbed, LeaveReport, SessionChanged, RefreshDue, RetryReport, PressEmbed, embedServer,
           ServeRows, RowsRead, RowsSaved, ServeToken, TokenRead, EmbedCallFails
  <2>2. /\ Sent(embedNet, i, "save") /\ embedNet[i].arg.rows # filterRows
        /\ i \in FormCalls /\ embedNet[i].arg.touched \in BOOLEAN
    BY <2>1 DEF EmbedInv, EmbedShape, EmbedCallOk, ServeSaveRows, Sent, FormCalls, Of, Pending
  <2> QED
    BY <2>2 DEF EmbedInv, UntouchedInv
<1> QED
  BY <1>1, EmbedInitInv, EmbedStep, PTL DEF EmbedSpec, FiltersKept

-----------------------------------------------------------------------------
(***************************************************************************)
(* The form of a dashboard: what is saved from it.  MetadataInv and        *)
(* CoherentInv of DashboardForm are the invariants; the first holds of     *)
(* every order of answers, the second of one thing done at a time.         *)
(***************************************************************************)
SettingsOk(settings) == settings = Settings(settings.workspace, settings.report, settings.url)
RowOk(row) == row.conn \in BiConn \cup {None} /\ SettingsOk(row.settings)

DashFormOk(f) ==
    /\ {"edit", "n", "loading", "saving", "conn", "mode", "workspaces", "workspace", "reports", "report", "listing",
        "reading", "error", "orig", "touched"} \subseteq DOMAIN f
    /\ f.conn \in BiConn \cup {None} /\ f.n \in Nat /\ f.edit \in BOOLEAN /\ f.touched \in BOOLEAN
    /\ SettingsOk(f.orig)

DashCallOk(c) ==
    /\ c.op = "board" => c.arg.n \in Nat /\ (c.st = "ok" => RowOk(c.out))
    /\ c.op = "reports" => c.arg.conn \in BiConn \cup {None}
    /\ c.op = "save" => c.arg.conn \in BiConn \cup {None} /\ SettingsOk(c.arg.settings) /\ SettingsOk(c.arg.orig)

DashShape ==
    /\ IsNet(boardNet) /\ {"clicks", "calm"} \subseteq DOMAIN boardLog /\ boardLog.clicks \in Nat
    /\ RowOk(board)
    /\ boardForm # None => DashFormOk(boardForm)
    /\ \A i \in Slot : boardNet[i] # Free => DashCallOk(boardNet[i])

DashInv == DashShape /\ MetadataInv /\ CoherentInv

\* Two states of a form that hold the same choices.
SameChoices(f, g) ==
    /\ g.edit = f.edit /\ g.n = f.n /\ g.conn = f.conn /\ g.mode = f.mode /\ g.workspace = f.workspace
    /\ g.report = f.report /\ g.orig = f.orig /\ g.touched = f.touched

\* The effects choose nothing.
LEMMA PickerEffects ==
    ASSUME NEW f, DashFormOk(f)
    PROVE  /\ DashFormOk(Listing(f)) /\ SameChoices(f, Listing(f)) /\ Listing(f).reports = f.reports
           /\ DashFormOk(Reading(f)) /\ SameChoices(f, Reading(f))
           /\ Reading(f).reports = IF f.workspace # None THEN {} ELSE f.reports
<1>1. DashFormOk(Listing(f)) /\ SameChoices(f, Listing(f)) /\ Listing(f).reports = f.reports
  BY DEF Listing, DashFormOk, SameChoices
<1>2. DashFormOk(Reading(f)) /\ SameChoices(f, Reading(f))
  BY DEF Reading, DashFormOk, SameChoices
<1>3. Reading(f).reports = IF f.workspace # None THEN {} ELSE f.reports
  BY DEF Reading, Reads, DashFormOk
<1> QED
  BY <1>1, <1>2, <1>3

\* What the effects ask for.
LEMMA PickerAsks ==
    ASSUME NEW f, DashFormOk(f), NEW net, IsNet(net)
    PROVE  /\ \E c : \/ AskWorkspaces(f, net) = net
                     \/ \E k : AskWorkspaces(f, net) = Put(net, k, c) /\ c.op = "workspaces" /\ IsCall(c) /\ DashCallOk(c)
           /\ \/ f.workspace = None /\ AskReports(f, net) = net
              \/ \E k, c : /\ AskReports(f, net) = Put(net, k, c) /\ c.op = "reports" /\ c.st = "sent"
                           /\ c.arg.conn = f.conn /\ c.arg.workspace = f.workspace /\ IsCall(c) /\ DashCallOk(c)
<1>1. \A op, arg : \E k : Send(net, op, arg) = Put(net, k, Call(op, arg)) /\ IsCall(Call(op, arg))
  BY Sending, CallIsCall
<1>2. \A op, arg : Call(op, arg).op = op /\ Call(op, arg).arg = arg /\ Call(op, arg).st = "sent"
  BY DEF Call
<1>3. \E c : \/ AskWorkspaces(f, net) = net
             \/ \E k : AskWorkspaces(f, net) = Put(net, k, c) /\ c.op = "workspaces" /\ IsCall(c) /\ DashCallOk(c)
  BY <1>1, <1>2 DEF AskWorkspaces, DashCallOk
<1>4. \/ f.workspace = None /\ AskReports(f, net) = net
      \/ \E k, c : /\ AskReports(f, net) = Put(net, k, c) /\ c.op = "reports" /\ c.st = "sent"
                   /\ c.arg.conn = f.conn /\ c.arg.workspace = f.workspace /\ IsCall(c) /\ DashCallOk(c)
  <2> DEFINE arg == [conn |-> f.conn, workspace |-> f.workspace, n |-> f.n]
             c == Call("reports", arg)
  <2>1. c.op = "reports" /\ c.st = "sent" /\ c.arg.conn = f.conn /\ c.arg.workspace = f.workspace
        /\ IsCall(c) /\ DashCallOk(c)
    BY <1>1, <1>2 DEF DashCallOk, DashFormOk
  <2>2. f.workspace # None => \E k : AskReports(f, net) = Put(net, k, c)
    BY <1>1 DEF AskReports, Reads
  <2>3. f.workspace = None => AskReports(f, net) = net
    BY DEF AskReports, Reads
  <2> HIDE DEF c
  <2> QED
    BY <2>1, <2>2, <2>3
<1> QED
  BY <1>3, <1>4

LEMMA DashInitInv == BoardInit => DashInv
<1> SUFFICES ASSUME BoardInit PROVE DashInv
  OBVIOUS
<1>1. \A i \in Slot : boardNet[i] = Free
  BY DEF BoardInit, NoCalls
<1>2. RowOk(board) /\ NoReportAlone(board.settings)
  <2>1. \A w, r, u : SettingsOk(Settings(w, r, u)) /\ Settings(w, r, u).workspace = w /\ Settings(w, r, u).report = r
    BY DEF SettingsOk, Settings
  <2>2. CASE \E c \in BiConn, old \in BOOLEAN :
                board = [type |-> "powerbi", conn |-> c,
                         settings |-> Settings(<<c, 1>>, <<c, 1>>, IF old THEN None ELSE <<c, 1>>)]
    <3>1. PICK c \in BiConn, old \in BOOLEAN :
                board = [type |-> "powerbi", conn |-> c,
                         settings |-> Settings(<<c, 1>>, <<c, 1>>, IF old THEN None ELSE <<c, 1>>)]
      BY <2>2
    <3>2. board.conn = c /\ board.settings = Settings(<<c, 1>>, <<c, 1>>, IF old THEN None ELSE <<c, 1>>)
      BY <3>1
    <3> QED
      BY <2>1, <3>2 DEF RowOk, NoReportAlone
  <2>3. CASE board = [type |-> "page", conn |-> None, settings |-> Settings(None, None, <<None, 1>>)]
    <3>1. board.conn = None /\ board.settings = Settings(None, None, <<None, 1>>)
      BY <2>3
    <3> QED
      BY <2>1, <3>1 DEF RowOk, NoReportAlone
  <2> QED
    BY <2>2, <2>3 DEF BoardInit
<1>3. boardForm = None /\ {"clicks", "calm"} \subseteq DOMAIN boardLog /\ boardLog.clicks \in Nat /\ IsNet(boardNet)
  BY NoCallsIsNet DEF BoardInit
<1>4. Of(boardNet, {"board"}) = {} /\ Of(boardNet, {"reports"}) = {} /\ Of(boardNet, {"board", "reports"}) = {}
      /\ Of(boardNet, {"save"}) = {} /\ Saves = {}
  BY <1>1 DEF Of, Pending, Saves
<1> QED
  BY <1>1, <1>2, <1>3, <1>4 DEF DashInv, DashShape, MetadataInv, CoherentInv, MetadataKept, SavedCoherent

\* The shape after a step that leaves good calls in the table.
LEMMA DashShapeKept ==
    ASSUME DashShape, {"clicks", "calm"} \subseteq DOMAIN boardLog', boardLog'.clicks \in Nat, RowOk(board'),
           boardForm' # None => DashFormOk(boardForm'), IsNet(boardNet'),
           \A j \in Slot : boardNet'[j] # Free => boardNet'[j] = boardNet[j] \/ DashCallOk(boardNet'[j])
    PROVE  DashShape'
<1>1. /\ \A f : DashFormOk(f)' <=> DashFormOk(f)
      /\ \A r : RowOk(r)' <=> RowOk(r)
      /\ \A c : DashCallOk(c)' <=> DashCallOk(c)
  BY DEF DashFormOk, RowOk, DashCallOk, SettingsOk, Settings
<1>2. \A j \in Slot : boardNet'[j] # Free => DashCallOk(boardNet'[j])
  BY DEF DashShape
<1> QED
  BY <1>1, <1>2 DEF DashShape

\* Call c is call d, answered no further with rows or reports than that.
DashKept(c, d) ==
    /\ d # Free /\ c.op = d.op /\ c.arg = d.arg
    /\ c.op \in {"board", "reports"} /\ c.st = "ok" => d.st = "ok" /\ c.out = d.out

\* Most steps leave the choices of the form and the calls about them alone.
LEMMA DashUndisturbed ==
    ASSUME DashInv, boardLog'.clicks \in Nat, boardLog'.clicks >= boardLog.clicks, boardLog'.calm => boardLog.calm,
           boardLog'.calm => NoReportAlone(board'.settings),
           boardForm' # None => boardForm # None /\ SameChoices(boardForm, boardForm') /\ boardForm'.reports = boardForm.reports,
           \A j \in Slot : boardNet'[j] # Free => boardNet'[j].op = "workspaces" \/ DashKept(boardNet'[j], boardNet[j])
    PROVE  MetadataInv' /\ CoherentInv'
<1>0. /\ boardForm # None => DashFormOk(boardForm)
      /\ boardLog.clicks \in Nat
      /\ \A j \in Slot : boardNet[j] # Free => DashCallOk(boardNet[j])
  BY DEF DashInv, DashShape
<1>1. \A ops : "workspaces" \notin ops => \A j \in Of(boardNet, ops)' :
                  j \in Of(boardNet, ops) /\ DashKept(boardNet'[j], boardNet[j])
  BY DEF Of, Pending, DashKept
<1>2. \A j \in Of(boardNet, {"board"})' : j \in Of(boardNet, {"board"}) /\ DashKept(boardNet'[j], boardNet[j]) /\ j \in Slot
  BY <1>1 DEF Of, Pending
<1>3. \A j \in Of(boardNet, {"reports"})' : j \in Of(boardNet, {"reports"}) /\ DashKept(boardNet'[j], boardNet[j]) /\ j \in Slot
  BY <1>1 DEF Of, Pending
<1>4. \A j \in Of(boardNet, {"board", "reports"})' : j \in Of(boardNet, {"board", "reports"})
  BY <1>1
<1>5. Saves' \subseteq Saves
  BY <1>1 DEF Saves, DashKept
<1>6. MetadataInv'
  <2>1. MetadataKept'
    BY <1>5 DEF DashInv, MetadataInv, MetadataKept
  <2>2. boardForm' # None =>
          /\ boardForm'.n < boardLog'.clicks
          /\ ~boardForm'.edit => boardForm'.orig = NoSettings
          /\ ~boardForm'.touched /\ boardForm'.conn # None /\ boardForm'.mode = "powerbi" =>
                /\ boardForm'.edit
                /\ boardForm'.workspace = boardForm'.orig.workspace /\ boardForm'.report = boardForm'.orig.report
    BY <1>0 DEF DashInv, MetadataInv, SameChoices, DashFormOk
  <2>3. \A j \in Of(boardNet, {"board"})' : boardNet'[j].arg.n < boardLog'.clicks /\ (MineBoard(j)' => boardForm'.edit)
    <3> SUFFICES ASSUME NEW j \in Of(boardNet, {"board"})'
                 PROVE  boardNet'[j].arg.n < boardLog'.clicks /\ (MineBoard(j)' => boardForm'.edit)
      OBVIOUS
    <3>1. j \in Of(boardNet, {"board"}) /\ boardNet'[j].arg = boardNet[j].arg /\ boardNet[j].arg.n \in Nat
      BY <1>0, <1>2 DEF DashKept, Of, Pending, DashCallOk
    <3>2. boardNet[j].arg.n < boardLog.clicks /\ (MineBoard(j) => boardForm.edit)
      BY <3>1 DEF DashInv, MetadataInv
    <3>3. MineBoard(j)' => MineBoard(j)
      BY <3>1 DEF MineBoard, SameChoices
    <3> QED
      BY <1>0, <3>1, <3>2, <3>3 DEF SameChoices, MineBoard
  <2> QED
    BY <2>1, <2>2, <2>3 DEF MetadataInv, NoSettings, Settings
<1>7. CoherentInv'
  <2> SUFFICES ASSUME boardLog'.calm PROVE CoherentInv'
    BY DEF CoherentInv
  <2>1. /\ \A s : NoReportAlone(s)' <=> NoReportAlone(s)
        /\ \A r, w, c : Listed(r, w, c)' <=> Listed(r, w, c)
    BY DEF NoReportAlone, Listed, Workspaces, Owner
  <2>2. SavedCoherent'
    BY <1>5 DEF DashInv, CoherentInv, SavedCoherent, NoSettings, Settings
  <2>3. boardForm' # None =>
              /\ NoReportAlone(boardForm') /\ NoReportAlone(boardForm'.orig)
              /\ None \notin boardForm'.reports
              /\ boardForm'.workspace # None => Listed(boardForm'.reports, boardForm'.workspace, boardForm'.conn)
    BY DEF DashInv, CoherentInv, SameChoices, NoReportAlone
  <2>4. \A i, j \in Of(boardNet, {"board", "reports"})' : i = j
    BY <1>4 DEF DashInv, CoherentInv
  <2>5. \A i \in Of(boardNet, {"board"})' : Ok(boardNet, i, "board")' => NoReportAlone(boardNet'[i].out.settings)
    <3>1. \A i \in Of(boardNet, {"board"})' :
             Ok(boardNet, i, "board")' => Ok(boardNet, i, "board") /\ boardNet'[i].out = boardNet[i].out
      BY <1>2 DEF Ok, DashKept
    <3> QED
      BY <1>2, <3>1 DEF DashInv, CoherentInv
  <2>6. \A i \in Of(boardNet, {"reports"})' :
              /\ None \notin Workspaces(Owner(boardNet'[i].arg.conn))
              /\ boardForm' # None =>
                    boardNet'[i].arg.workspace = boardForm'.workspace /\ boardNet'[i].arg.conn = boardForm'.conn
              /\ Ok(boardNet, i, "reports")' => Listed(boardNet'[i].out, boardNet'[i].arg.workspace, boardNet'[i].arg.conn)
    <3> SUFFICES ASSUME NEW i \in Of(boardNet, {"reports"})'
                 PROVE  /\ None \notin Workspaces(Owner(boardNet'[i].arg.conn))
                        /\ boardForm' # None =>
                              boardNet'[i].arg.workspace = boardForm'.workspace /\ boardNet'[i].arg.conn = boardForm'.conn
                        /\ Ok(boardNet, i, "reports")' =>
                              Listed(boardNet'[i].out, boardNet'[i].arg.workspace, boardNet'[i].arg.conn)
      OBVIOUS
    <3>1. i \in Of(boardNet, {"reports"}) /\ boardNet'[i].arg = boardNet[i].arg
      BY <1>3 DEF DashKept
    <3>2. Ok(boardNet, i, "reports")' => Ok(boardNet, i, "reports") /\ boardNet'[i].out = boardNet[i].out
      BY <1>3 DEF Ok, DashKept
    <3> QED
      BY <3>1, <3>2 DEF DashInv, CoherentInv, SameChoices
  <2>7. \A s \in Saves' : NoReportAlone(s.settings) /\ NoReportAlone(s.orig)
    BY <1>5 DEF DashInv, CoherentInv
  <2> QED
    BY <2>1, <2>2, <2>3, <2>4, <2>5, <2>6, <2>7 DEF CoherentInv
<1> QED
  BY <1>6, <1>7

LEMMA DashQuiet == Quiet(boardNet) => Saves = {} /\ \A j \in Slot : boardNet[j] = Free
  BY DEF Quiet, Saves, Of, Pending

\* What a click does besides.
LEMMA DashPress ==
    ASSUME DashInv, PressBoard
    PROVE  /\ board' = board /\ {"clicks", "calm"} \subseteq DOMAIN boardLog'
           /\ boardLog'.clicks = boardLog.clicks + 1 /\ boardLog.clicks \in Nat
           /\ boardLog'.calm => boardLog.calm /\ Quiet(boardNet)
  BY DEF DashInv, DashShape, PressBoard, Pressed

LEMMA DashParts ==
    DashInv => /\ DashShape /\ IsNet(boardNet) /\ {"clicks", "calm"} \subseteq DOMAIN boardLog /\ boardLog.clicks \in Nat
               /\ RowOk(board) /\ (boardForm # None => DashFormOk(boardForm))
               /\ \A i \in Slot : boardNet[i] # Free => DashCallOk(boardNet[i])
               /\ boardLog.calm => NoReportAlone(board.settings)
  BY DEF DashInv, DashShape, CoherentInv

\* A form opens, with nothing of an earlier one but its calls.
LEMMA OpenBoardStep ==
    ASSUME DashInv, NEW edit \in BOOLEAN, OpenBoard(edit)
    PROVE  DashInv'
<1> DEFINE f == NewForm(edit)
           bc == Call("board", [n |-> boardLog.clicks])
<1>0. PressBoard /\ boardForm' = Listing(f)
  BY DEF OpenBoard
<1>1. /\ DashFormOk(f) /\ f.edit = edit /\ f.n = boardLog.clicks /\ f.conn = None /\ f.workspace = None
      /\ f.report = None /\ f.orig = NoSettings /\ f.reports = {} /\ f.touched = FALSE
  BY DashParts DEF NewForm, DashFormOk, SettingsOk, NoSettings, Settings
<1>2. bc.op = "board" /\ bc.arg.n = boardLog.clicks /\ bc.st = "sent" /\ IsCall(bc) /\ DashCallOk(bc)
  BY DashParts, CallIsCall DEF Call, DashCallOk
<1>3. /\ IsNet(boardNet')
      /\ \E k : \A j \in Slot : boardNet'[j] # Free =>
            \/ boardNet'[j] = boardNet[j]
            \/ boardNet'[j].op = "workspaces" /\ DashCallOk(boardNet'[j])
            \/ edit /\ j = k /\ boardNet'[j] = bc
  <2> DEFINE net == AskWorkspaces(f, boardNet)
  <2>1. boardNet' = IF edit THEN Send(net, "board", [n |-> boardLog.clicks]) ELSE net
    BY DEF OpenBoard
  <2> HIDE DEF f, net
  <2>2. /\ IsNet(net)
        /\ \A j \in Slot : net[j] # Free => \/ net[j] = boardNet[j]
                                            \/ net[j].op = "workspaces" /\ DashCallOk(net[j])
    <3>1. CASE net = boardNet
      BY <3>1, DashParts
    <3>2. ASSUME NEW k, NEW c, net = Put(boardNet, k, c), c.op = "workspaces" /\ IsCall(c) /\ DashCallOk(c)
          PROVE  /\ IsNet(net)
                 /\ \A j \in Slot : net[j] # Free => \/ net[j] = boardNet[j]
                                                     \/ net[j].op = "workspaces" /\ DashCallOk(net[j])
      BY <3>2, DashParts, PutIsNet DEF Put
    <3> QED
      BY <1>1, <3>1, <3>2, DashParts, PickerAsks DEF net
  <2>3. CASE edit
    <3>1. PICK k : boardNet' = Put(net, k, bc)
      BY <2>1, <2>2, <2>3, Sending
    <3> HIDE DEF bc
    <3>2. IsNet(boardNet')
      BY <1>2, <2>2, <3>1, PutIsNet
    <3>3. \A j \in Slot : boardNet'[j] = IF j = k THEN bc ELSE net[j]
      BY <3>1 DEF Put
    <3> QED
      BY <2>2, <2>3, <3>2, <3>3
  <2>4. CASE ~edit
    BY <2>1, <2>2, <2>4
  <2> QED
    BY <2>3, <2>4
<1> HIDE DEF f, bc
<1>4. PICK k : \A j \in Slot : boardNet'[j] # Free =>
            \/ boardNet'[j] = boardNet[j]
            \/ boardNet'[j].op = "workspaces" /\ DashCallOk(boardNet'[j])
            \/ edit /\ j = k /\ boardNet'[j] = bc
  BY <1>3
<1>5. /\ DashFormOk(boardForm') /\ boardForm'.edit = edit /\ boardForm'.n = boardLog.clicks /\ boardForm'.conn = None
      /\ boardForm'.workspace = None /\ boardForm'.report = None /\ boardForm'.orig = NoSettings
      /\ boardForm'.reports = {}
  BY <1>0, <1>1, PickerEffects DEF SameChoices
<1>6. DashShape'
  BY <1>0, <1>2, <1>3, <1>4, <1>5, DashPress, DashParts, DashShapeKept
<1>7. Saves' \subseteq Saves
  BY <1>2, <1>4 DEF Saves, Of, Pending
<1>8. MetadataInv'
  <2>1. MetadataKept'
    BY <1>7 DEF DashInv, MetadataInv, MetadataKept
  <2>2. \A j \in Of(boardNet, {"board"})' : boardNet'[j].arg.n < boardLog'.clicks /\ (MineBoard(j)' => boardForm'.edit)
    <3> SUFFICES ASSUME NEW j \in Of(boardNet, {"board"})'
                 PROVE  boardNet'[j].arg.n < boardLog'.clicks /\ (MineBoard(j)' => boardForm'.edit)
      OBVIOUS
    <3>1. boardNet'[j] = boardNet[j] \/ (edit /\ boardNet'[j] = bc)
      BY <1>4 DEF Of, Pending
    <3>2. CASE edit /\ boardNet'[j] = bc
      BY <1>0, <1>2, <1>5, <3>2, DashPress
    <3>3. CASE boardNet'[j] = boardNet[j]
      <4>1. boardNet[j].arg.n < boardLog.clicks /\ boardNet[j].arg.n \in Nat
        BY <3>3, DashParts DEF DashInv, MetadataInv, Of, Pending, DashCallOk
      <4> QED
        BY <1>0, <1>5, <3>3, <4>1, DashPress DEF MineBoard
    <3> QED
      BY <3>1, <3>2, <3>3
  <2> QED
    BY <1>0, <1>5, <2>1, <2>2, DashPress DEF MetadataInv, NoSettings, Settings
<1>9. CoherentInv'
  <2> SUFFICES ASSUME boardLog'.calm PROVE CoherentInv'
    BY DEF CoherentInv
  <2>1. boardLog.calm /\ Saves = {} /\ (\A j \in Slot : boardNet[j] = Free) /\ board' = board
    BY <1>0, DashPress, DashQuiet
  <2>2. \A j \in Slot : boardNet'[j] # Free => boardNet'[j].op = "workspaces" \/ (j = k /\ boardNet'[j] = bc)
    BY <1>4, <2>1
  <2>3. /\ Of(boardNet, {"reports"})' = {}
        /\ \A i \in Of(boardNet, {"board", "reports"})' : i = k
        /\ \A i \in Of(boardNet, {"board"})' : ~Ok(boardNet, i, "board")'
    BY <1>2, <2>2 DEF Of, Pending, Ok
  <2>4. NoReportAlone(boardForm') /\ NoReportAlone(boardForm'.orig)
    BY <1>5 DEF NoReportAlone, NoSettings, Settings
  <2>5. SavedCoherent' /\ Saves' = {}
    BY <1>7, <2>1 DEF SavedCoherent
  <2>6. NoReportAlone(board'.settings)
    BY <2>1, DashParts
  <2> QED
    BY <1>5, <2>3, <2>4, <2>5, <2>6 DEF CoherentInv, NoReportAlone
<1> QED
  BY <1>6, <1>8, <1>9 DEF DashInv

\* The choices made in the form and the save of them.
LEMMA DashChoiceStep ==
    ASSUME DashInv,
           \/ \E c \in BiConn \cup {None} : ChooseConn(c)
           \/ \E c \in BiConn : \E w \in Workspaces(c) : ChooseWorkspace(w) \/ ChooseReport(w)
    PROVE  DashInv'
<1>1. ASSUME NEW c \in BiConn \cup {None}, ChooseConn(c) PROVE DashInv'
  <2> DEFINE f == [boardForm EXCEPT !.conn = c, !.mode = "powerbi", !.workspaces = {}, !.workspace = None,
                                    !.report = None, !.touched = TRUE]
  <2>0. boardForm # None /\ DashFormOk(boardForm) /\ PressBoard
    BY <1>1, DashParts DEF ChooseConn, OnForm
  <2>1. /\ DashFormOk(f) /\ f.touched = TRUE /\ f.workspace = None /\ f.report = None /\ f.edit = boardForm.edit
        /\ f.n = boardForm.n /\ f.orig = boardForm.orig /\ f.reports = boardForm.reports
    BY <2>0 DEF DashFormOk
  <2>2. boardForm' = Listing(f) /\ boardNet' = AskWorkspaces(f, boardNet)
    BY <1>1 DEF ChooseConn
  <2> HIDE DEF f
  <2>3. /\ DashFormOk(boardForm') /\ boardForm'.touched = TRUE /\ boardForm'.workspace = None
        /\ boardForm'.report = None /\ boardForm'.edit = boardForm.edit
        /\ boardForm'.n = boardForm.n /\ boardForm'.orig = boardForm.orig /\ boardForm'.reports = boardForm.reports
    BY <2>1, <2>2, PickerEffects DEF SameChoices
  <2>4. /\ IsNet(boardNet')
        /\ \A j \in Slot : boardNet'[j] # Free => \/ boardNet'[j] = boardNet[j]
                                                  \/ boardNet'[j].op = "workspaces" /\ DashCallOk(boardNet'[j])
    <3>1. CASE boardNet' = boardNet
      BY <3>1, DashParts
    <3>2. ASSUME NEW k, NEW d, boardNet' = Put(boardNet, k, d), d.op = "workspaces" /\ IsCall(d) /\ DashCallOk(d)
          PROVE  /\ IsNet(boardNet')
                 /\ \A j \in Slot : boardNet'[j] # Free => \/ boardNet'[j] = boardNet[j]
                                                           \/ boardNet'[j].op = "workspaces" /\ DashCallOk(boardNet'[j])
      BY <3>2, DashParts, PutIsNet DEF Put
    <3> QED
      BY <2>1, <2>2, <3>1, <3>2, DashParts, PickerAsks
  <2>5. DashShape'
    BY <2>0, <2>3, <2>4, DashPress, DashParts, DashShapeKept
  <2>6. \A j \in Slot : boardNet'[j] # Free /\ boardNet'[j].op # "workspaces" => boardNet'[j] = boardNet[j]
    BY <2>4
  <2>7. Saves' \subseteq Saves
    BY <2>6 DEF Saves, Of, Pending
  <2>8. MetadataInv'
    <3>1. MetadataKept'
      BY <2>7 DEF DashInv, MetadataInv, MetadataKept
    <3>2. \A j \in Of(boardNet, {"board"})' : boardNet'[j].arg.n < boardLog'.clicks /\ (MineBoard(j)' => boardForm'.edit)
      <4> SUFFICES ASSUME NEW j \in Of(boardNet, {"board"})'
                   PROVE  boardNet'[j].arg.n < boardLog'.clicks /\ (MineBoard(j)' => boardForm'.edit)
        OBVIOUS
      <4>1. boardNet'[j] = boardNet[j] /\ j \in Of(boardNet, {"board"})
        BY <2>6 DEF Of, Pending
      <4>2. boardNet[j].arg.n < boardLog.clicks /\ boardNet[j].arg.n \in Nat /\ (MineBoard(j) => boardForm.edit)
        BY <4>1, DashParts DEF DashInv, MetadataInv, Of, Pending, DashCallOk
      <4> QED
        BY <2>0, <2>3, <4>1, <4>2, DashPress DEF MineBoard
    <3>3. boardForm'.n < boardLog'.clicks /\ (~boardForm'.edit => boardForm'.orig = NoSettings)
      BY <2>0, <2>3, DashPress DEF DashInv, MetadataInv, DashFormOk
    <3> QED
      BY <2>3, <3>1, <3>2, <3>3 DEF MetadataInv, NoSettings, Settings
  <2>9. CoherentInv'
    <3> SUFFICES ASSUME boardLog'.calm PROVE CoherentInv'
      BY DEF CoherentInv
    <3>1. boardLog.calm /\ Saves = {} /\ (\A j \in Slot : boardNet[j] = Free) /\ board' = board
      BY <2>0, DashPress, DashQuiet
    <3>2. Of(boardNet, {"board"})' = {} /\ Of(boardNet, {"reports"})' = {} /\ Of(boardNet, {"board", "reports"})' = {}
      BY <2>6, <3>1 DEF Of, Pending
    <3>3. None \notin boardForm'.reports /\ NoReportAlone(boardForm') /\ NoReportAlone(boardForm'.orig)
      BY <2>0, <2>3, <3>1 DEF DashInv, CoherentInv, NoReportAlone
    <3>4. NoReportAlone(board'.settings)
      BY <3>1, DashParts
    <3>5. SavedCoherent' /\ Saves' = {}
      BY <2>7, <3>1 DEF SavedCoherent
    <3> QED
      BY <2>3, <3>2, <3>3, <3>4, <3>5 DEF CoherentInv, NoReportAlone
  <2> QED
    BY <2>5, <2>8, <2>9 DEF DashInv
<1>2. ASSUME NEW c \in BiConn, NEW w \in Workspaces(c), ChooseWorkspace(w) PROVE DashInv'
  <2> DEFINE f == [boardForm EXCEPT !.workspace = w, !.report = None, !.touched = TRUE]
  <2>0. boardForm # None /\ DashFormOk(boardForm) /\ PressBoard /\ w # None
    BY <1>2, DashParts, BoardFormAssumption DEF ChooseWorkspace, OnForm
  <2>1. /\ DashFormOk(f) /\ f.touched = TRUE /\ f.workspace = w /\ f.report = None /\ f.edit = boardForm.edit
        /\ f.n = boardForm.n /\ f.orig = boardForm.orig /\ f.conn = boardForm.conn
    BY <2>0 DEF DashFormOk
  <2>2. boardForm' = Reading(f) /\ boardNet' = AskReports(f, boardNet)
    BY <1>2 DEF ChooseWorkspace
  <2> HIDE DEF f
  <2>3. /\ DashFormOk(boardForm') /\ boardForm'.touched = TRUE /\ boardForm'.workspace = w
        /\ boardForm'.report = None /\ boardForm'.edit = boardForm.edit /\ boardForm'.conn = boardForm.conn
        /\ boardForm'.n = boardForm.n /\ boardForm'.orig = boardForm.orig /\ boardForm'.reports = {}
    BY <2>0, <2>1, <2>2, PickerEffects DEF SameChoices
  <2>4. PICK k, d : /\ boardNet' = Put(boardNet, k, d) /\ d.op = "reports" /\ d.st = "sent"
                    /\ d.arg.conn = boardForm.conn /\ d.arg.workspace = w /\ IsCall(d) /\ DashCallOk(d)
    <3>1. f.workspace # None
      BY <2>0, <2>1
    <3>2. \E k, d : /\ AskReports(f, boardNet) = Put(boardNet, k, d) /\ d.op = "reports" /\ d.st = "sent"
                    /\ d.arg.conn = f.conn /\ d.arg.workspace = f.workspace /\ IsCall(d) /\ DashCallOk(d)
      BY <2>1, <3>1, DashParts, PickerAsks
    <3> QED
      BY <2>1, <2>2, <3>2
  <2>5. IsNet(boardNet') /\ \A j \in Slot : boardNet'[j] = IF j = k THEN d ELSE boardNet[j]
    BY <2>4, DashParts, PutIsNet DEF Put
  <2>6. DashShape'
    BY <2>0, <2>3, <2>4, <2>5, DashPress, DashParts, DashShapeKept
  <2>7. Saves' \subseteq Saves
    BY <2>4, <2>5 DEF Saves, Of, Pending
  <2>8. MetadataInv'
    <3>1. MetadataKept'
      BY <2>7 DEF DashInv, MetadataInv, MetadataKept
    <3>2. \A j \in Of(boardNet, {"board"})' : boardNet'[j].arg.n < boardLog'.clicks /\ (MineBoard(j)' => boardForm'.edit)
      <4> SUFFICES ASSUME NEW j \in Of(boardNet, {"board"})'
                   PROVE  boardNet'[j].arg.n < boardLog'.clicks /\ (MineBoard(j)' => boardForm'.edit)
        OBVIOUS
      <4>1. boardNet'[j] = boardNet[j] /\ j \in Of(boardNet, {"board"})
        BY <2>4, <2>5 DEF Of, Pending
      <4>2. boardNet[j].arg.n < boardLog.clicks /\ boardNet[j].arg.n \in Nat /\ (MineBoard(j) => boardForm.edit)
        BY <4>1, DashParts DEF DashInv, MetadataInv, Of, Pending, DashCallOk
      <4> QED
        BY <2>0, <2>3, <4>1, <4>2, DashPress DEF MineBoard
    <3>3. boardForm'.n < boardLog'.clicks /\ (~boardForm'.edit => boardForm'.orig = NoSettings)
      BY <2>0, <2>3, DashPress DEF DashInv, MetadataInv, DashFormOk
    <3> QED
      BY <2>3, <3>1, <3>2, <3>3 DEF MetadataInv, NoSettings, Settings
  <2>9. CoherentInv'
    <3> SUFFICES ASSUME boardLog'.calm PROVE CoherentInv'
      BY DEF CoherentInv
    <3>1. boardLog.calm /\ Saves = {} /\ (\A j \in Slot : boardNet[j] = Free) /\ board' = board
      BY <2>0, DashPress, DashQuiet
    <3>2. \A ops : \A j \in Of(boardNet, ops)' : j = k /\ boardNet'[j] = d
      BY <2>5, <3>1 DEF Of, Pending
    <3>3. NoReportAlone(boardForm') /\ NoReportAlone(boardForm'.orig)
      BY <2>0, <2>3, <3>1 DEF DashInv, CoherentInv, NoReportAlone
    <3>4. NoReportAlone(board'.settings)
      BY <3>1, DashParts
    <3>5. SavedCoherent' /\ Saves' = {}
      BY <2>7, <3>1 DEF SavedCoherent
    <3>6. None \notin Workspaces(Owner(boardForm.conn)) /\ Listed({}, w, boardForm.conn)
      BY <2>0, BoardFormAssumption DEF DashFormOk, Owner, Listed
    <3>7. \A i \in Of(boardNet, {"board"})' : FALSE
      BY <2>4, <3>2 DEF Of
    <3>8. \A i \in Of(boardNet, {"reports"})' :
              /\ boardNet'[i].arg.workspace = boardForm'.workspace /\ boardNet'[i].arg.conn = boardForm'.conn
              /\ ~Ok(boardNet, i, "reports")'
      BY <2>3, <2>4, <3>2 DEF Ok
    <3> QED
      BY <2>0, <2>3, <3>2, <3>3, <3>4, <3>5, <3>6, <3>7, <3>8 DEF CoherentInv, NoReportAlone, Listed, Owner, Workspaces
  <2> QED
    BY <2>6, <2>8, <2>9 DEF DashInv
<1>3. ASSUME NEW r, ChooseReport(r) PROVE DashInv'
  <2>0. boardForm # None /\ DashFormOk(boardForm) /\ PressBoard /\ boardForm.workspace # None /\ boardNet' = boardNet
    BY <1>3, DashParts DEF ChooseReport, OnForm
  <2>1. /\ DashFormOk(boardForm') /\ boardForm'.touched = TRUE /\ boardForm'.workspace = boardForm.workspace
        /\ boardForm'.edit = boardForm.edit /\ boardForm'.conn = boardForm.conn
        /\ boardForm'.n = boardForm.n /\ boardForm'.orig = boardForm.orig /\ boardForm'.reports = boardForm.reports
    BY <1>3, <2>0 DEF ChooseReport, DashFormOk
  <2>2. DashShape'
    BY <2>0, <2>1, DashPress, DashParts, DashShapeKept
  <2>3. Saves' = Saves /\ Of(boardNet, {"board"})' = Of(boardNet, {"board"})
        /\ Of(boardNet, {"reports"})' = Of(boardNet, {"reports"})
        /\ Of(boardNet, {"board", "reports"})' = Of(boardNet, {"board", "reports"})
    BY <2>0 DEF Saves, Of, Pending
  <2>4. MetadataInv'
    <3>1. MetadataKept'
      BY <2>3 DEF DashInv, MetadataInv, MetadataKept
    <3>2. \A j \in Of(boardNet, {"board"}) : boardNet[j].arg.n < boardLog'.clicks /\ (MineBoard(j)' => boardForm'.edit)
      <4> SUFFICES ASSUME NEW j \in Of(boardNet, {"board"})
                   PROVE  boardNet[j].arg.n < boardLog'.clicks /\ (MineBoard(j)' => boardForm'.edit)
        OBVIOUS
      <4>2. boardNet[j].arg.n < boardLog.clicks /\ boardNet[j].arg.n \in Nat /\ (MineBoard(j) => boardForm.edit)
        BY DashParts DEF DashInv, MetadataInv, Of, Pending, DashCallOk
      <4> QED
        BY <2>0, <2>1, <4>2, DashPress DEF MineBoard
    <3>3. boardForm'.n < boardLog'.clicks /\ (~boardForm'.edit => boardForm'.orig = NoSettings)
      BY <2>0, <2>1, DashPress DEF DashInv, MetadataInv, DashFormOk
    <3> QED
      BY <2>0, <2>1, <2>3, <3>1, <3>2, <3>3 DEF MetadataInv, NoSettings, Settings
  <2>5. CoherentInv'
    <3> SUFFICES ASSUME boardLog'.calm PROVE CoherentInv'
      BY DEF CoherentInv
    <3>1. boardLog.calm /\ Saves = {} /\ (\A j \in Slot : boardNet[j] = Free) /\ board' = board
      BY <2>0, DashPress, DashQuiet
    <3>2. Of(boardNet, {"board"}) = {} /\ Of(boardNet, {"reports"}) = {} /\ Of(boardNet, {"board", "reports"}) = {}
      BY <3>1 DEF Of, Pending
    <3>3. /\ None \notin boardForm'.reports /\ NoReportAlone(boardForm') /\ NoReportAlone(boardForm'.orig)
          /\ Listed(boardForm'.reports, boardForm'.workspace, boardForm'.conn)
      BY <2>0, <2>1, <3>1 DEF DashInv, CoherentInv, NoReportAlone
    <3>4. NoReportAlone(board'.settings)
      BY <3>1, DashParts
    <3>5. SavedCoherent' /\ Saves' = {}
      BY <2>3, <3>1 DEF SavedCoherent
    <3> QED
      BY <2>1, <2>3, <3>2, <3>3, <3>4, <3>5 DEF CoherentInv, NoReportAlone, Listed, Owner, Workspaces
  <2> QED
    BY <2>2, <2>4, <2>5 DEF DashInv
<1> QED
  BY <1>1, <1>2, <1>3

\* What a form hands to the server.
LEMMA SaveBoardStep ==
    ASSUME DashInv, SaveBoard
    PROVE  DashInv'
<1> DEFINE s == [conn |-> boardForm.conn, settings |-> Picked(boardForm), n |-> boardForm.n, orig |-> boardForm.orig,
                 touched |-> boardForm.touched]
           d == Call("save", s)
           f == boardForm
<1>0. f # None /\ DashFormOk(f) /\ PressBoard /\ CanSave(f)
  BY DashParts DEF SaveBoard, OnForm
<1>1. DashFormOk(boardForm') /\ SameChoices(f, boardForm') /\ boardForm'.reports = f.reports
  <2>1. boardForm' = [boardForm EXCEPT !.saving = TRUE]
    BY DEF SaveBoard
  <2> QED
    BY <1>0, <2>1 DEF DashFormOk, SameChoices
<1>2. SettingsOk(Picked(f)) /\ SettingsOk(f.orig)
  BY <1>0 DEF Picked, DashFormOk, SettingsOk, Settings, NoSettings
<1>3. /\ s.conn = f.conn /\ s.settings = Picked(f) /\ s.orig = f.orig /\ s.touched = f.touched
      /\ d.op = "save" /\ d.st = "sent" /\ d.arg = s /\ IsCall(d) /\ DashCallOk(d)
  BY <1>0, <1>2, CallIsCall DEF Call, DashCallOk, DashFormOk
<1>4. PICK k : boardNet' = Put(boardNet, k, d)
  BY DashParts, Sending DEF SaveBoard
<1> HIDE DEF s, d
<1>5. IsNet(boardNet') /\ \A j \in Slot : boardNet'[j] = IF j = k THEN d ELSE boardNet[j]
  BY <1>3, <1>4, DashParts, PutIsNet, ZenonT(40) DEF Put
<1>6. DashShape'
  BY <1>0, <1>1, <1>3, <1>5, DashPress, DashParts, DashShapeKept
<1>7. Saves' \subseteq Saves \cup {s}
  BY <1>3, <1>5 DEF Saves, Of, Pending
<1>8. MetadataInv'
  <2>1. MetadataKept'
    <3>1. s.touched \/ [s.settings EXCEPT !.url = None] = [s.orig EXCEPT !.url = None]
      <4> SUFFICES ASSUME ~f.touched PROVE [Picked(f) EXCEPT !.url = None] = [f.orig EXCEPT !.url = None]
        BY <1>3
      <4>1. f.edit /\ f.workspace = f.orig.workspace /\ f.report = f.orig.report
        BY <1>0 DEF DashInv, MetadataInv, CanSave
      <4>2. [f.orig EXCEPT !.url = None] = Settings(f.orig.workspace, f.orig.report, None)
        BY <1>2 DEF SettingsOk, Settings
      <4>3. [Settings(f.workspace, f.report, f.report) EXCEPT !.url = None] = Settings(f.workspace, f.report, None)
        BY DEF Settings
      <4> QED
        BY <4>1, <4>2, <4>3 DEF Picked
    <3> QED
      BY <1>7, <3>1 DEF DashInv, MetadataInv, MetadataKept
  <2>2. \A j \in Of(boardNet, {"board"})' : boardNet'[j].arg.n < boardLog'.clicks /\ (MineBoard(j)' => boardForm'.edit)
    <3> SUFFICES ASSUME NEW j \in Of(boardNet, {"board"})'
                 PROVE  boardNet'[j].arg.n < boardLog'.clicks /\ (MineBoard(j)' => boardForm'.edit)
      OBVIOUS
    <3>1. boardNet'[j] = boardNet[j] /\ j \in Of(boardNet, {"board"})
      BY <1>3, <1>5 DEF Of, Pending
    <3>2. boardNet[j].arg.n < boardLog.clicks /\ boardNet[j].arg.n \in Nat /\ (MineBoard(j) => boardForm.edit)
      BY <3>1, DashParts DEF DashInv, MetadataInv, Of, Pending, DashCallOk
    <3> QED
      BY <1>0, <1>1, <3>1, <3>2, DashPress DEF MineBoard, SameChoices
  <2>3. boardForm'.n < boardLog'.clicks /\ (~boardForm'.edit => boardForm'.orig = NoSettings)
    BY <1>0, <1>1, DashPress DEF DashInv, MetadataInv, DashFormOk, SameChoices
  <2>4. ~boardForm'.touched /\ boardForm'.conn # None /\ boardForm'.mode = "powerbi" =>
           /\ boardForm'.edit
           /\ boardForm'.workspace = boardForm'.orig.workspace /\ boardForm'.report = boardForm'.orig.report
    BY <1>0, <1>1 DEF DashInv, MetadataInv, SameChoices
  <2> QED
    BY <2>1, <2>2, <2>3, <2>4 DEF MetadataInv, NoSettings, Settings
<1>9. CoherentInv'
  <2> SUFFICES ASSUME boardLog'.calm PROVE CoherentInv'
    BY DEF CoherentInv
  <2>1. boardLog.calm /\ Saves = {} /\ (\A j \in Slot : boardNet[j] = Free) /\ board' = board
    BY <1>0, DashPress, DashQuiet
  <2>2. Of(boardNet, {"board"})' = {} /\ Of(boardNet, {"reports"})' = {} /\ Of(boardNet, {"board", "reports"})' = {}
    BY <1>3, <1>5, <2>1 DEF Of, Pending
  <2>3. /\ NoReportAlone(f) /\ NoReportAlone(f.orig) /\ None \notin f.reports
        /\ f.workspace # None => Listed(f.reports, f.workspace, f.conn)
        /\ ~f.edit => f.orig = NoSettings
    BY <1>0, <2>1 DEF DashInv, CoherentInv, MetadataInv
  <2>4. CASE f.report \in f.reports
    <3>1. s.settings = Settings(f.workspace, f.report, f.report) /\ f.workspace # None
      BY <1>3, <2>3, <2>4 DEF Picked, NoReportAlone
    <3>2. f.report = f.workspace /\ f.workspace \in Workspaces(f.conn)
      BY <1>0, <2>3, <2>4, <3>1 DEF Listed, Owner, CanSave
    <3>3. f.report[1] = f.conn
      BY <3>2 DEF Workspaces
    <3>4. /\ s.settings.report = f.report /\ s.settings.workspace = f.workspace /\ s.settings # NoSettings
      BY <3>1 DEF Settings, NoSettings
    <3> QED
      <4>1. NoReportAlone(s.settings) /\ NoReportAlone(s.orig)
        BY <1>3, <2>3, <3>1, <3>4 DEF NoReportAlone
      <4>2. SavedCoherent'
        BY <1>3, <1>7, <2>1, <3>2, <3>3, <3>4 DEF SavedCoherent, NoSettings, Settings
      <4>3. \A x \in Saves' : NoReportAlone(x.settings) /\ NoReportAlone(x.orig)
        BY <1>7, <2>1, <4>1
      <4>4. NoReportAlone(board'.settings)
        BY <2>1, DashParts
      <4> QED
        BY <1>1, <2>2, <2>3, <4>2, <4>3, <4>4 DEF CoherentInv, SameChoices, NoReportAlone, Listed, Owner, Workspaces
  <2>5. CASE f.report \notin f.reports
    <3>1. s.settings = s.orig
      BY <1>3, <2>3, <2>5 DEF Picked
    <3>2. NoReportAlone(s.settings) /\ NoReportAlone(s.orig)
      BY <1>3, <2>3, <3>1
    <3>3. SavedCoherent'
      BY <1>7, <2>1, <3>1 DEF SavedCoherent
    <3>4. \A x \in Saves' : NoReportAlone(x.settings) /\ NoReportAlone(x.orig)
      BY <1>7, <2>1, <3>2
    <3>5. NoReportAlone(board'.settings)
      BY <2>1, DashParts
    <3> QED
      BY <1>1, <2>2, <2>3, <3>3, <3>4, <3>5 DEF CoherentInv, SameChoices, NoReportAlone, Listed, Owner, Workspaces
  <2> QED
    BY <2>4, <2>5
<1> QED
  BY <1>6, <1>8, <1>9 DEF DashInv

\* The table after the answer to call i, or its end.
DashTable(i) ==
    \/ \E st, out : boardNet' = Put(boardNet, i, [op |-> boardNet[i].op, arg |-> boardNet[i].arg, st |-> st, out |-> out])
                    /\ (boardNet[i].op = "board" /\ st = "ok" => RowOk(out))
                    /\ (boardNet[i].op \in {"board", "reports"} => st # "ok")
    \/ boardNet' = Put(boardNet, i, Free)

LEMMA DashAnswered ==
    ASSUME DashInv, NEW i \in Slot, boardNet[i] # Free, DashTable(i)
    PROVE  /\ IsNet(boardNet')
           /\ \A j \in Slot : boardNet'[j] # Free => (boardNet'[j] = boardNet[j] \/ DashCallOk(boardNet'[j]))
           /\ \A j \in Slot : boardNet'[j] # Free => boardNet'[j].op = "workspaces" \/ DashKept(boardNet'[j], boardNet[j])
<1>0. IsNet(boardNet) /\ DashCallOk(boardNet[i])
  BY DashParts
<1>1. CASE boardNet' = Put(boardNet, i, Free)
  BY <1>0, <1>1, PutIsNet DEF Put, DashKept
<1>2. ASSUME NEW st, NEW out,
             boardNet' = Put(boardNet, i, [op |-> boardNet[i].op, arg |-> boardNet[i].arg, st |-> st, out |-> out]),
             boardNet[i].op = "board" /\ st = "ok" => RowOk(out),
             boardNet[i].op \in {"board", "reports"} => st # "ok"
      PROVE  /\ IsNet(boardNet')
             /\ \A j \in Slot : boardNet'[j] # Free => (boardNet'[j] = boardNet[j] \/ DashCallOk(boardNet'[j]))
             /\ \A j \in Slot : boardNet'[j] # Free => boardNet'[j].op = "workspaces" \/ DashKept(boardNet'[j], boardNet[j])
  <2> DEFINE c == [op |-> boardNet[i].op, arg |-> boardNet[i].arg, st |-> st, out |-> out]
  <2>1. c.op = boardNet[i].op /\ c.arg = boardNet[i].arg /\ c.st = st /\ c.out = out /\ IsCall(c)
    BY DEF IsCall
  <2>2. boardNet' = Put(boardNet, i, c)
    BY <1>2
  <2> HIDE DEF c
  <2>3. DashCallOk(c) /\ DashKept(c, boardNet[i])
    BY <1>0, <1>2, <2>1 DEF DashCallOk, DashKept
  <2>4. IsNet(boardNet') /\ \A j \in Slot : boardNet'[j] = IF j = i THEN c ELSE boardNet[j]
    BY <1>0, <2>1, <2>2, PutIsNet DEF Put
  <2> QED
    BY <2>3, <2>4 DEF DashKept
<1> QED
  BY <1>1, <1>2 DEF DashTable

LEMMA DashReplied ==
    ASSUME DashInv, NEW i \in Slot, boardNet[i] # Free,
           \/ boardNet' = Fail(boardNet, i)
           \/ boardNet[i].op \notin {"board", "reports"} /\ \E out : boardNet' = Reply(boardNet, i, out)
    PROVE  DashTable(i)
<1>0. IsNet(boardNet)
  BY DashParts
<1>1. CASE boardNet' = Fail(boardNet, i)
  <2>1. boardNet' = Put(boardNet, i, [op |-> boardNet[i].op, arg |-> boardNet[i].arg, st |-> "err", out |-> boardNet[i].out])
    BY <1>0, <1>1, Answering
  <2>2. "err" # "ok"
    OBVIOUS
  <2> QED
    BY <2>1, <2>2, Zenon DEF DashTable
<1>2. ASSUME boardNet[i].op \notin {"board", "reports"}, NEW out, boardNet' = Reply(boardNet, i, out)
      PROVE  DashTable(i)
  <2>1. boardNet' = Put(boardNet, i, [op |-> boardNet[i].op, arg |-> boardNet[i].arg, st |-> "ok", out |-> out])
    BY <1>0, <1>2, Answering
  <2> QED
    BY <1>2, <2>1, Zenon DEF DashTable
<1> QED
  BY <1>1, <1>2

\* The steps that choose nothing and answer the form nothing it did not have.
LEMMA DashQuietStep ==
    ASSUME DashInv,
           \/ CloseBoard \/ RetryWorkspaces
           \/ \E i \in Slot : \/ ServeWorkspaces(i) \/ WorkspacesRead(i) \/ ServeSaveBoard(i) \/ BoardSaved(i)
                              \/ BoardCallFails(i)
    PROVE  DashInv'
<1>0. /\ DashShape /\ IsNet(boardNet) /\ {"clicks", "calm"} \subseteq DOMAIN boardLog /\ boardLog.clicks \in Nat
      /\ RowOk(board) /\ (boardForm # None => DashFormOk(boardForm))
      /\ \A i \in Slot : boardNet[i] # Free => DashCallOk(boardNet[i])
      /\ boardLog.calm => NoReportAlone(board.settings)
  BY DashParts
<1>1. CASE CloseBoard
  <2>1. boardForm' = None /\ board' = board /\ boardLog' = boardLog /\ boardNet' = boardNet
    BY <1>1 DEF CloseBoard
  <2>2. \A j \in Slot : boardNet'[j] # Free => DashKept(boardNet'[j], boardNet[j])
    BY <2>1 DEF DashKept
  <2>3. MetadataInv' /\ CoherentInv'
    BY <1>0, <2>1, <2>2, DashUndisturbed
  <2>4. DashShape'
    BY <1>0, <2>1, DashShapeKept
  <2> QED
    BY <2>3, <2>4 DEF DashInv
<1>2. CASE RetryWorkspaces
  <2> DEFINE d == Call("workspaces", [conn |-> boardForm.conn, n |-> boardForm.n])
  <2>1. d.op = "workspaces" /\ IsCall(d) /\ DashCallOk(d)
    BY CallIsCall DEF Call, DashCallOk
  <2>2. PICK k : boardNet' = Put(boardNet, k, d)
    BY <1>0, <1>2, Sending DEF RetryWorkspaces
  <2> HIDE DEF d
  <2>3. IsNet(boardNet') /\ \A j \in Slot : boardNet'[j] = IF j = k THEN d ELSE boardNet[j]
    BY <1>0, <2>1, <2>2, PutIsNet DEF Put
  <2>4. boardForm # None /\ DashFormOk(boardForm) /\ PressBoard
    BY <1>0, <1>2 DEF RetryWorkspaces, OnForm
  <2>5. boardForm' = [boardForm EXCEPT !.listing = TRUE, !.error = FALSE]
    BY <1>2 DEF RetryWorkspaces
  <2>6. DashFormOk(boardForm') /\ SameChoices(boardForm, boardForm') /\ boardForm'.reports = boardForm.reports
    BY <2>4, <2>5 DEF DashFormOk, SameChoices
  <2>7. \A j \in Slot : boardNet'[j] # Free => boardNet'[j].op = "workspaces" \/ DashKept(boardNet'[j], boardNet[j])
    BY <2>1, <2>3 DEF DashKept
  <2>8. MetadataInv' /\ CoherentInv'
    BY <1>0, <2>4, <2>6, <2>7, DashPress, DashUndisturbed
  <2>9. DashShape'
    BY <1>0, <2>1, <2>3, <2>4, <2>6, DashPress, DashShapeKept
  <2> QED
    BY <2>8, <2>9 DEF DashInv
<1>3. ASSUME NEW i \in Slot, ServeWorkspaces(i) PROVE DashInv'
  <2>1. /\ boardNet[i] # Free /\ boardNet[i].op = "workspaces" /\ board' = board /\ boardForm' = boardForm
        /\ boardLog' = boardLog
    BY <1>3 DEF ServeWorkspaces, Sent
  <2>2. DashTable(i)
    <3>1. PICK out : boardNet' = Reply(boardNet, i, out)
      BY <1>3 DEF ServeWorkspaces
    <3> QED
      BY <2>1, <3>1, DashReplied
  <2> QED
    BY <1>0, <2>1, <2>2, DashAnswered, DashUndisturbed, DashShapeKept DEF DashInv, SameChoices
<1>4. ASSUME NEW i \in Slot, WorkspacesRead(i) PROVE DashInv'
  <2>1. /\ boardNet[i] # Free /\ board' = board /\ boardLog' = boardLog /\ boardNet' = Done(boardNet, i)
    BY <1>4 DEF WorkspacesRead, Settled, Ok, Err
  <2>2. DashTable(i)
    BY <1>0, <2>1, Ending DEF DashTable
  <2>3. /\ boardForm' = boardForm
        \/ /\ boardForm # None
           /\ \/ boardForm' = [boardForm EXCEPT !.listing = FALSE, !.workspaces = boardNet[i].out]
              \/ boardForm' = [boardForm EXCEPT !.listing = FALSE, !.error = TRUE]
    BY <1>4 DEF WorkspacesRead, MineBoard
  <2>4. boardForm' # None => /\ boardForm # None /\ SameChoices(boardForm, boardForm')
                             /\ boardForm'.reports = boardForm.reports /\ DashFormOk(boardForm')
    BY <1>0, <2>3 DEF DashFormOk, SameChoices
  <2> QED
    BY <1>0, <2>1, <2>2, <2>4, DashAnswered, DashUndisturbed, DashShapeKept DEF DashInv
<1>5. ASSUME NEW i \in Slot, ServeSaveBoard(i) PROVE DashInv'
  <2>1. /\ boardNet[i] # Free /\ boardNet[i].op = "save" /\ boardForm' = boardForm /\ boardLog' = boardLog
        /\ board' = [type |-> "powerbi", conn |-> boardNet[i].arg.conn, settings |-> boardNet[i].arg.settings]
    BY <1>5 DEF ServeSaveBoard, Sent
  <2>2. DashTable(i)
    <3>1. PICK out : boardNet' = Reply(boardNet, i, out)
      BY <1>5 DEF ServeSaveBoard
    <3> QED
      BY <2>1, <3>1, DashReplied
  <2>3. RowOk(board')
    BY <1>0, <2>1 DEF DashCallOk, RowOk
  <2>4. boardLog.calm => NoReportAlone(board'.settings)
    <3>1. boardNet[i].arg \in Saves
      BY <2>1 DEF Saves, Of, Pending
    <3> QED
      BY <2>1, <3>1 DEF DashInv, CoherentInv
  <2> QED
    BY <1>0, <2>1, <2>2, <2>3, <2>4, DashAnswered, DashUndisturbed, DashShapeKept DEF DashInv, SameChoices
<1>6. ASSUME NEW i \in Slot, BoardSaved(i) PROVE DashInv'
  <2>1. /\ boardNet[i] # Free /\ board' = board /\ boardLog' = boardLog /\ boardNet' = Done(boardNet, i)
    BY <1>6 DEF BoardSaved, Settled, Ok, Err
  <2>2. DashTable(i)
    BY <1>0, <2>1, Ending DEF DashTable
  <2>3. \/ boardForm' = boardForm \/ boardForm' = None
        \/ boardForm # None /\ boardForm' = [boardForm EXCEPT !.saving = FALSE]
    BY <1>6 DEF BoardSaved, MineBoard
  <2>4. boardForm' # None => /\ boardForm # None /\ SameChoices(boardForm, boardForm')
                             /\ boardForm'.reports = boardForm.reports /\ DashFormOk(boardForm')
    BY <1>0, <2>3 DEF DashFormOk, SameChoices
  <2> QED
    BY <1>0, <2>1, <2>2, <2>4, DashAnswered, DashUndisturbed, DashShapeKept DEF DashInv
<1>7. ASSUME NEW i \in Slot, BoardCallFails(i) PROVE DashInv'
  <2>1. /\ boardNet[i] # Free /\ board' = board /\ boardForm' = boardForm /\ boardNet' = Fail(boardNet, i)
        /\ {"clicks", "calm"} \subseteq DOMAIN boardLog' /\ boardLog'.clicks = boardLog.clicks
        /\ boardLog'.calm => boardLog.calm
    BY <1>0, <1>7 DEF BoardCallFails, CanFail, Pending, Missed
  <2>2. DashTable(i)
    BY <2>1, DashReplied
  <2> QED
    BY <1>0, <2>1, <2>2, DashAnswered, DashUndisturbed, DashShapeKept DEF DashInv, SameChoices
<1> QED
  BY <1>1, <1>2, <1>3, <1>4, <1>5, <1>6, <1>7

\* The server answers with the row, or with the reports of the workspace.
LEMMA DashServeStep ==
    ASSUME DashInv, NEW i \in Slot, ServeBoard(i) \/ ServeBiReports(i)
    PROVE  DashInv'
<1>0. /\ DashShape /\ IsNet(boardNet) /\ {"clicks", "calm"} \subseteq DOMAIN boardLog /\ boardLog.clicks \in Nat
      /\ RowOk(board) /\ (boardForm # None => DashFormOk(boardForm))
      /\ \A j \in Slot : boardNet[j] # Free => DashCallOk(boardNet[j])
      /\ boardLog.calm => NoReportAlone(board.settings)
  BY DashParts
<1>1. board' = board /\ boardForm' = boardForm /\ boardLog' = boardLog /\ boardNet[i] # Free
  BY DEF ServeBoard, ServeBiReports, Sent
<1>2. CASE ServeBiReports(i) /\ boardNet' = Fail(boardNet, i)
  <2>1. DashTable(i)
    BY <1>1, <1>2, DashReplied
  <2> QED
    BY <1>0, <1>1, <2>1, DashAnswered, DashUndisturbed, DashShapeKept DEF DashInv, SameChoices
<1>3. ASSUME NEW out, boardNet' = Reply(boardNet, i, out),
             \/ boardNet[i].op = "board" /\ out = board
             \/ boardNet[i].op = "reports" /\ Listed(out, boardNet[i].arg.workspace, boardNet[i].arg.conn)
      PROVE  DashInv'
  <2> DEFINE d == [op |-> boardNet[i].op, arg |-> boardNet[i].arg, st |-> "ok", out |-> out]
  <2>1. d.op = boardNet[i].op /\ d.arg = boardNet[i].arg /\ d.st = "ok" /\ d.out = out /\ IsCall(d)
    BY DEF IsCall
  <2>2. boardNet' = Put(boardNet, i, d)
    BY <1>0, <1>1, <1>3, Answering
  <2> HIDE DEF d
  <2>3. DashCallOk(d)
    BY <1>0, <1>1, <1>3, <2>1 DEF DashCallOk
  <2>4. IsNet(boardNet') /\ \A j \in Slot : boardNet'[j] = IF j = i THEN d ELSE boardNet[j]
    BY <1>0, <2>1, <2>2, PutIsNet DEF Put
  <2>5. DashShape'
    BY <1>0, <1>1, <2>3, <2>4, DashShapeKept
  <2>6. \A ops : \A j \in Of(boardNet, ops)' :
           /\ j \in Of(boardNet, ops) /\ j \in Slot /\ boardNet[j] # Free /\ boardNet[j].op \in ops
           /\ boardNet'[j].op = boardNet[j].op /\ boardNet'[j].arg = boardNet[j].arg
           /\ boardNet'[j] = boardNet[j] \/ (j = i /\ boardNet'[j] = d)
    BY <1>1, <2>1, <2>4 DEF Of, Pending
  <2>7. Saves' \subseteq Saves
    BY <2>6 DEF Saves
  <2>8. MetadataInv'
    <3>1. MetadataKept'
      BY <2>7 DEF DashInv, MetadataInv, MetadataKept
    <3>2. \A j \in Of(boardNet, {"board"})' : boardNet'[j].arg.n < boardLog'.clicks /\ (MineBoard(j)' => boardForm'.edit)
      BY <1>1, <2>6 DEF DashInv, MetadataInv, MineBoard
    <3> QED
      BY <1>1, <3>1, <3>2 DEF DashInv, MetadataInv, NoSettings, Settings
  <2>9. CoherentInv'
    <3> SUFFICES ASSUME boardLog'.calm PROVE CoherentInv'
      BY DEF CoherentInv
    <3>1. /\ \A s : NoReportAlone(s)' <=> NoReportAlone(s)
          /\ \A r, w, c : Listed(r, w, c)' <=> Listed(r, w, c)
      BY DEF NoReportAlone, Listed, Workspaces, Owner
    <3>2. SavedCoherent' /\ \A s \in Saves' : NoReportAlone(s.settings) /\ NoReportAlone(s.orig)
      BY <1>1, <2>7 DEF DashInv, CoherentInv, SavedCoherent, NoSettings, Settings
    <3>3. \A j, k \in Of(boardNet, {"board", "reports"})' : j = k
      BY <1>1, <2>6 DEF DashInv, CoherentInv
    <3>4. \A j \in Of(boardNet, {"board"})' : Ok(boardNet, j, "board")' => NoReportAlone(boardNet'[j].out.settings)
      <4> SUFFICES ASSUME NEW j \in Of(boardNet, {"board"})', Ok(boardNet, j, "board")'
                   PROVE  NoReportAlone(boardNet'[j].out.settings)
        OBVIOUS
      <4>1. CASE boardNet'[j] = boardNet[j]
        BY <1>1, <2>6, <4>1 DEF DashInv, CoherentInv, Ok
      <4>2. CASE j = i /\ boardNet'[j] = d
        <5>1. out = board
          BY <1>3, <2>6, <4>2
        <5> QED
          BY <1>0, <1>1, <2>1, <4>2, <5>1
      <4> QED
        BY <2>6, <4>1, <4>2
    <3>5. \A j \in Of(boardNet, {"reports"})' :
              /\ None \notin Workspaces(Owner(boardNet'[j].arg.conn))
              /\ boardForm' # None =>
                    boardNet'[j].arg.workspace = boardForm'.workspace /\ boardNet'[j].arg.conn = boardForm'.conn
              /\ Ok(boardNet, j, "reports")' => Listed(boardNet'[j].out, boardNet'[j].arg.workspace, boardNet'[j].arg.conn)
      <4> SUFFICES ASSUME NEW j \in Of(boardNet, {"reports"})'
                   PROVE  /\ None \notin Workspaces(Owner(boardNet'[j].arg.conn))
                          /\ boardForm' # None =>
                                boardNet'[j].arg.workspace = boardForm'.workspace /\ boardNet'[j].arg.conn = boardForm'.conn
                          /\ Ok(boardNet, j, "reports")' =>
                                Listed(boardNet'[j].out, boardNet'[j].arg.workspace, boardNet'[j].arg.conn)
        OBVIOUS
      <4>1. j \in Of(boardNet, {"reports"}) /\ boardNet'[j].arg = boardNet[j].arg
        BY <2>6
      <4>2. Ok(boardNet, j, "reports")' => Listed(boardNet'[j].out, boardNet'[j].arg.workspace, boardNet'[j].arg.conn)
        <5>1. CASE boardNet'[j] = boardNet[j]
          BY <1>1, <4>1, <5>1 DEF DashInv, CoherentInv, Ok
        <5>2. CASE j = i /\ boardNet'[j] = d
          <6>1. Listed(out, boardNet[i].arg.workspace, boardNet[i].arg.conn)
            BY <1>3, <2>6, <5>2
          <6> QED
            BY <2>1, <5>2, <6>1
        <5> QED
          BY <2>6, <5>1, <5>2
      <4> QED
        BY <1>1, <4>1, <4>2 DEF DashInv, CoherentInv
    <3>6. /\ NoReportAlone(board.settings)
          /\ boardForm # None =>
              /\ NoReportAlone(boardForm) /\ NoReportAlone(boardForm.orig)
              /\ None \notin boardForm.reports
              /\ boardForm.workspace # None => Listed(boardForm.reports, boardForm.workspace, boardForm.conn)
      BY <1>1 DEF DashInv, CoherentInv
    <3> QED
      BY <1>1, <3>1, <3>2, <3>3, <3>4, <3>5, <3>6 DEF CoherentInv
  <2> QED
    BY <2>5, <2>8, <2>9 DEF DashInv
<1>4. ServeBoard(i) => boardNet[i].op = "board" /\ \E out : boardNet' = Reply(boardNet, i, out) /\ out = board
  BY DEF ServeBoard, Sent
<1>5. ServeBiReports(i) =>
          /\ boardNet[i].op = "reports"
          /\ \/ boardNet' = Fail(boardNet, i)
             \/ \E out : boardNet' = Reply(boardNet, i, out)
                         /\ Listed(out, boardNet[i].arg.workspace, boardNet[i].arg.conn)
  BY DEF ServeBiReports, Sent, Listed, Owner
<1> QED
  BY <1>2, <1>3, <1>4, <1>5

\* The reports of the workspace arrive.
LEMMA BiReportsReadStep ==
    ASSUME DashInv, NEW i \in Slot, BiReportsRead(i)
    PROVE  DashInv'
<1>0. /\ DashShape /\ IsNet(boardNet) /\ {"clicks", "calm"} \subseteq DOMAIN boardLog /\ boardLog.clicks \in Nat
      /\ RowOk(board) /\ (boardForm # None => DashFormOk(boardForm))
      /\ \A j \in Slot : boardNet[j] # Free => DashCallOk(boardNet[j])
      /\ boardLog.calm => NoReportAlone(board.settings)
  BY DashParts
<1>1. board' = board /\ boardLog' = boardLog /\ boardNet[i] # Free /\ boardNet' = Done(boardNet, i)
  BY DEF BiReportsRead, Settled, Ok, Err
<1>2. DashTable(i)
  BY <1>0, <1>1, Ending DEF DashTable
<1>3. /\ IsNet(boardNet')
      /\ \A j \in Slot : boardNet'[j] # Free => boardNet'[j] = boardNet[j] \/ DashCallOk(boardNet'[j])
      /\ \A j \in Slot : boardNet'[j] # Free => boardNet'[j].op = "workspaces" \/ DashKept(boardNet'[j], boardNet[j])
  BY <1>1, <1>2, DashAnswered
<1>4. CASE boardForm' = boardForm \/ (boardForm # None /\ boardForm' = [boardForm EXCEPT !.reading = FALSE, !.error = TRUE])
  <2>1. boardForm' # None => /\ boardForm # None /\ SameChoices(boardForm, boardForm')
                             /\ boardForm'.reports = boardForm.reports /\ DashFormOk(boardForm')
    BY <1>0, <1>4 DEF DashFormOk, SameChoices
  <2> QED
    BY <1>0, <1>1, <1>3, <2>1, DashUndisturbed, DashShapeKept DEF DashInv
<1>5. CASE /\ boardForm # None /\ Ok(boardNet, i, "reports")
           /\ boardForm' = [boardForm EXCEPT !.reading = FALSE, !.reports = boardNet[i].out]
  <2> DEFINE out == boardNet[i].out
  <2>1. DashFormOk(boardForm') /\ SameChoices(boardForm, boardForm') /\ boardForm'.reports = out
    BY <1>0, <1>5 DEF DashFormOk, SameChoices
  <2>2. boardNet' = Put(boardNet, i, Free)
    BY <1>0, <1>1, Ending
  <2>3. \A j \in Slot : boardNet'[j] = IF j = i THEN Free ELSE boardNet[j]
    BY <2>2 DEF Put
  <2>4. \A ops : \A j \in Of(boardNet, ops)' : j \in Of(boardNet, ops) /\ boardNet'[j] = boardNet[j]
    BY <2>3 DEF Of, Pending
  <2>5. Saves' \subseteq Saves
    BY <2>4 DEF Saves
  <2>6. DashShape'
    BY <1>0, <1>1, <1>3, <2>1, DashShapeKept
  <2>7. MetadataInv'
    <3>1. MetadataKept'
      BY <2>5 DEF DashInv, MetadataInv, MetadataKept
    <3>2. \A j \in Of(boardNet, {"board"})' : boardNet'[j].arg.n < boardLog'.clicks /\ (MineBoard(j)' => boardForm'.edit)
      <4> SUFFICES ASSUME NEW j \in Of(boardNet, {"board"})'
                   PROVE  boardNet'[j].arg.n < boardLog'.clicks /\ (MineBoard(j)' => boardForm'.edit)
        OBVIOUS
      <4>1. boardNet[j].arg.n < boardLog.clicks /\ (MineBoard(j) => boardForm.edit) /\ boardNet'[j] = boardNet[j]
        BY <2>4 DEF DashInv, MetadataInv
      <4> QED
        BY <1>1, <1>5, <2>1, <4>1 DEF MineBoard, SameChoices
    <3>3. /\ boardForm'.n < boardLog'.clicks
          /\ ~boardForm'.edit => boardForm'.orig = NoSettings
          /\ ~boardForm'.touched /\ boardForm'.conn # None /\ boardForm'.mode = "powerbi" =>
                /\ boardForm'.edit
                /\ boardForm'.workspace = boardForm'.orig.workspace /\ boardForm'.report = boardForm'.orig.report
      BY <1>1, <1>5, <2>1 DEF DashInv, MetadataInv, SameChoices
    <3> QED
      BY <3>1, <3>2, <3>3 DEF MetadataInv, NoSettings, Settings
  <2>8. CoherentInv'
    <3> SUFFICES ASSUME boardLog'.calm PROVE CoherentInv'
      BY DEF CoherentInv
    <3>1. i \in Of(boardNet, {"reports"})
      BY <1>5 DEF Of, Pending, Ok
    <3>2. /\ boardNet[i].arg.workspace = boardForm.workspace /\ boardNet[i].arg.conn = boardForm.conn
          /\ Listed(out, boardForm.workspace, boardForm.conn) /\ None \notin Workspaces(Owner(boardForm.conn))
      BY <1>1, <1>5, <3>1 DEF DashInv, CoherentInv
    <3>3. None \notin out
      BY <3>2 DEF Listed
    <3>4. SavedCoherent' /\ \A s \in Saves' : NoReportAlone(s.settings) /\ NoReportAlone(s.orig)
      BY <1>1, <2>5 DEF DashInv, CoherentInv, SavedCoherent, NoSettings, Settings
    <3>5. NoReportAlone(boardForm') /\ NoReportAlone(boardForm'.orig)
      BY <1>1, <1>5, <2>1 DEF DashInv, CoherentInv, NoReportAlone, SameChoices
    <3>6. \A j, k \in Of(boardNet, {"board", "reports"})' : j = k
      BY <1>1, <2>4 DEF DashInv, CoherentInv
    <3>7. \A j \in Of(boardNet, {"board"})' : Ok(boardNet, j, "board")' => NoReportAlone(boardNet'[j].out.settings)
      BY <1>1, <2>4 DEF DashInv, CoherentInv, Ok
    <3>8. \A j \in Of(boardNet, {"reports"})' : FALSE
      <4> SUFFICES ASSUME NEW j \in Of(boardNet, {"reports"})' PROVE FALSE
        OBVIOUS
      <4>1. j \in Of(boardNet, {"board", "reports"}) /\ i \in Of(boardNet, {"board", "reports"}) /\ j # i
        BY <2>3, <2>4, <3>1 DEF Of, Pending
      <4> QED
        BY <1>1, <4>1 DEF DashInv, CoherentInv
    <3>9. NoReportAlone(board.settings)
      BY <1>0, <1>1
    <3>10. Listed(boardForm'.reports, boardForm'.workspace, boardForm'.conn)
      BY <2>1, <3>2 DEF SameChoices
    <3> QED
      BY <1>1, <2>1, <3>3, <3>4, <3>5, <3>6, <3>7, <3>8, <3>9, <3>10 DEF CoherentInv, NoReportAlone, Listed, Owner, Workspaces
  <2> QED
    BY <2>6, <2>7, <2>8 DEF DashInv
<1> QED
  BY <1>4, <1>5 DEF BiReportsRead, MineBoard

\* What the row shows makes a form of its own.
LEMMA FormOfRow ==
    ASSUME DashInv, boardForm # None, NEW row, RowOk(row)
    PROVE  /\ DashFormOk(FormOf(row)) /\ FormOf(row).n = boardForm.n /\ FormOf(row).edit = boardForm.edit
           /\ FormOf(row).conn = row.conn /\ FormOf(row).orig = row.settings
           /\ FormOf(row).mode = "powerbi" => FormOf(row).workspace = row.settings.workspace
                                              /\ FormOf(row).report = row.settings.report
           /\ \/ FormOf(row).workspace = row.settings.workspace /\ FormOf(row).report = row.settings.report
              \/ FormOf(row).workspace = boardForm.workspace /\ FormOf(row).report = boardForm.report
           /\ FormOf(row).reports = boardForm.reports
<1>0. DashFormOk(boardForm)
  BY DashParts
<1> DEFINE f == [boardForm EXCEPT !.loading = FALSE, !.conn = row.conn, !.orig = row.settings,
                                  !.mode = IF row.type = "powerbi" THEN "powerbi" ELSE "public"]
<1>1. /\ DashFormOk(f) /\ f.n = boardForm.n /\ f.edit = boardForm.edit /\ f.conn = row.conn /\ f.orig = row.settings
      /\ f.mode = (IF row.type = "powerbi" THEN "powerbi" ELSE "public")
      /\ f.workspace = boardForm.workspace /\ f.report = boardForm.report /\ f.reports = boardForm.reports
  BY <1>0 DEF DashFormOk, RowOk
<1>2. FormOf(row) = IF row.type = "powerbi"
                    THEN [f EXCEPT !.workspace = row.settings.workspace, !.report = row.settings.report] ELSE f
  BY DEF FormOf
<1> HIDE DEF f
<1>3. CASE row.type = "powerbi"
  <2>1. FormOf(row) = [f EXCEPT !.workspace = row.settings.workspace, !.report = row.settings.report]
    BY <1>2, <1>3
  <2> QED
    BY <1>1, <2>1 DEF DashFormOk
<1>4. CASE row.type # "powerbi"
  BY <1>1, <1>2, <1>4
<1> QED
  BY <1>3, <1>4

\* The row arrives: the form shows it and asks for the lists of its pickers.
LEMMA BoardReadStep ==
    ASSUME DashInv, NEW i \in Slot, BoardRead(i)
    PROVE  DashInv'
<1>0. /\ DashShape /\ IsNet(boardNet) /\ {"clicks", "calm"} \subseteq DOMAIN boardLog /\ boardLog.clicks \in Nat
      /\ RowOk(board) /\ (boardForm # None => DashFormOk(boardForm))
      /\ \A j \in Slot : boardNet[j] # Free => DashCallOk(boardNet[j])
      /\ boardLog.calm => NoReportAlone(board.settings)
  BY DashParts
<1>1. /\ board' = board /\ boardNet[i] # Free /\ boardNet[i].op = "board"
      /\ boardLog' = [boardLog EXCEPT !.calm = @ /\ Ok(boardNet, i, "board")]
  BY DEF BoardRead, Settled, Ok, Err
<1>2. /\ {"clicks", "calm"} \subseteq DOMAIN boardLog' /\ boardLog'.clicks = boardLog.clicks
      /\ boardLog'.calm => boardLog.calm /\ Ok(boardNet, i, "board")
  BY <1>0, <1>1
<1> DEFINE net == Done(boardNet, i)
<1>3. /\ net = Put(boardNet, i, Free) /\ IsNet(net)
      /\ \A j \in Slot : net[j] = IF j = i THEN Free ELSE boardNet[j]
  <2>1. net = Put(boardNet, i, Free)
    BY <1>0, Ending
  <2> HIDE DEF net
  <2> QED
    BY <1>0, <2>1, PutIsNet DEF Put
<1>4. CASE /\ boardNet' = net
           /\ boardForm' = boardForm \/ (boardForm # None /\ boardForm' = [boardForm EXCEPT !.loading = FALSE])
  <2>1. DashTable(i)
    BY <1>3, <1>4 DEF DashTable
  <2>2. boardForm' # None => /\ boardForm # None /\ SameChoices(boardForm, boardForm')
                             /\ boardForm'.reports = boardForm.reports /\ DashFormOk(boardForm')
    BY <1>0, <1>4 DEF DashFormOk, SameChoices
  <2> QED
    BY <1>0, <1>1, <1>2, <2>1, <2>2, DashAnswered, DashUndisturbed, DashShapeKept DEF DashInv
<1>5. CASE /\ MineBoard(i) /\ Ok(boardNet, i, "board")
           /\ boardForm' = Reading(Listing(FormOf(boardNet[i].out)))
           /\ boardNet' = AskReports(FormOf(boardNet[i].out), AskWorkspaces(FormOf(boardNet[i].out), net))
  <2> DEFINE row == boardNet[i].out
             f == FormOf(row)
             asked == AskWorkspaces(f, net)
  <2>1. boardForm # None /\ RowOk(row) /\ i \in Of(boardNet, {"board"})
    BY <1>0, <1>1, <1>5 DEF MineBoard, DashCallOk, Of, Pending, Ok
  <2>2. /\ boardForm.n < boardLog.clicks /\ boardForm.edit
        /\ boardLog.calm => NoReportAlone(boardForm) /\ NoReportAlone(row.settings)
    BY <1>5, <2>1 DEF DashInv, MetadataInv, CoherentInv
  <2>3. /\ DashFormOk(f) /\ f.n = boardForm.n /\ f.edit = boardForm.edit
        /\ f.conn = row.conn /\ f.orig = row.settings
        /\ f.mode = "powerbi" => f.workspace = row.settings.workspace /\ f.report = row.settings.report
        /\ \/ f.workspace = row.settings.workspace /\ f.report = row.settings.report
           \/ f.workspace = boardForm.workspace /\ f.report = boardForm.report
        /\ f.reports = boardForm.reports
    BY <2>1, FormOfRow
  <2>4. boardForm' = Reading(Listing(f)) /\ boardNet' = AskReports(f, asked)
    BY <1>5
  <2> HIDE DEF f, row, net, asked
  <2>5. /\ DashFormOk(boardForm') /\ SameChoices(f, boardForm')
        /\ boardForm'.reports = IF f.workspace # None THEN {} ELSE f.reports
    <3>1. DashFormOk(Listing(f)) /\ SameChoices(f, Listing(f)) /\ Listing(f).reports = f.reports
      BY <2>3, PickerEffects
    <3>2. /\ DashFormOk(boardForm') /\ SameChoices(Listing(f), boardForm')
          /\ boardForm'.reports = IF Listing(f).workspace # None THEN {} ELSE Listing(f).reports
      BY <2>4, <3>1, PickerEffects
    <3> QED
      BY <3>1, <3>2 DEF SameChoices
  <2>6. /\ IsNet(asked)
        /\ \A j \in Slot : asked[j] # Free =>
              \/ j # i /\ asked[j] = boardNet[j]
              \/ asked[j].op = "workspaces" /\ DashCallOk(asked[j])
    <3>1. CASE asked = net
      BY <1>3, <3>1
    <3>2. ASSUME NEW k, NEW c, asked = Put(net, k, c), c.op = "workspaces" /\ IsCall(c) /\ DashCallOk(c)
          PROVE  /\ IsNet(asked)
                 /\ \A j \in Slot : asked[j] # Free =>
                       \/ j # i /\ asked[j] = boardNet[j]
                       \/ asked[j].op = "workspaces" /\ DashCallOk(asked[j])
      BY <1>3, <3>2, PutIsNet DEF Put
    <3> QED
      BY <1>3, <2>3, <3>1, <3>2, PickerAsks DEF asked
  <2>7. PICK k, d :
           /\ \/ f.workspace = None /\ boardNet' = asked
              \/ /\ boardNet' = Put(asked, k, d) /\ d.op = "reports" /\ d.st = "sent"
                 /\ d.arg.conn = f.conn /\ d.arg.workspace = f.workspace /\ IsCall(d) /\ DashCallOk(d)
    BY <2>3, <2>4, <2>6, PickerAsks
  <2>8. /\ IsNet(boardNet')
        /\ \A j \in Slot : boardNet'[j] # Free =>
              \/ j # i /\ boardNet'[j] = boardNet[j]
              \/ boardNet'[j].op = "workspaces" /\ DashCallOk(boardNet'[j])
              \/ /\ j = k /\ boardNet'[j] = d /\ d.op = "reports" /\ d.st = "sent"
                 /\ d.arg.conn = f.conn /\ d.arg.workspace = f.workspace /\ DashCallOk(d)
    <3>1. CASE f.workspace = None /\ boardNet' = asked
      BY <2>6, <3>1
    <3>2. CASE /\ boardNet' = Put(asked, k, d) /\ d.op = "reports" /\ d.st = "sent"
               /\ d.arg.conn = f.conn /\ d.arg.workspace = f.workspace /\ IsCall(d) /\ DashCallOk(d)
      BY <2>6, <3>2, PutIsNet, ZenonT(40) DEF Put
    <3> QED
      BY <2>7, <3>1, <3>2
  <2>9. DashShape'
    BY <1>0, <1>1, <1>2, <2>5, <2>8, DashShapeKept
  <2>10. /\ \A j \in Of(boardNet, {"board"})' : j # i /\ boardNet'[j] = boardNet[j] /\ j \in Of(boardNet, {"board"})
         /\ \A j \in Of(boardNet, {"save"})' : boardNet'[j] = boardNet[j] /\ j \in Of(boardNet, {"save"})
    BY <2>8 DEF Of, Pending
  <2>11. Saves' \subseteq Saves
    BY <2>10 DEF Saves
  <2>12. MetadataInv'
    <3>1. MetadataKept'
      BY <2>11 DEF DashInv, MetadataInv, MetadataKept
    <3>2. \A j \in Of(boardNet, {"board"})' : boardNet'[j].arg.n < boardLog'.clicks /\ (MineBoard(j)' => boardForm'.edit)
      BY <1>2, <2>2, <2>3, <2>5, <2>10 DEF DashInv, MetadataInv, SameChoices
    <3>3. /\ boardForm'.n < boardLog'.clicks
          /\ boardForm'.edit
          /\ boardForm'.mode = "powerbi" =>
                boardForm'.workspace = boardForm'.orig.workspace /\ boardForm'.report = boardForm'.orig.report
      BY <1>2, <2>2, <2>3, <2>5 DEF SameChoices
    <3> QED
      BY <3>1, <3>2, <3>3 DEF MetadataInv, NoSettings, Settings
  <2>13. CoherentInv'
    <3> SUFFICES ASSUME boardLog'.calm PROVE CoherentInv'
      BY DEF CoherentInv
    <3>0. boardLog.calm
      BY <1>2
    <3>1. \A j \in Of(boardNet, {"board", "reports"}) : j = i
      <4>1. i \in Of(boardNet, {"board", "reports"})
        BY <2>1 DEF Of
      <4> QED
        BY <3>0, <4>1 DEF DashInv, CoherentInv
    <3>2. \A j \in Of(boardNet, {"board"})' : FALSE
      BY <2>10, <3>1 DEF Of
    <3>3. \A j \in Of(boardNet, {"board", "reports"})' :
             /\ j = k /\ boardNet'[j] = d /\ d.op = "reports" /\ d.st = "sent"
             /\ d.arg.conn = f.conn /\ d.arg.workspace = f.workspace
      <4> SUFFICES ASSUME NEW j \in Of(boardNet, {"board", "reports"})'
                   PROVE  /\ j = k /\ boardNet'[j] = d /\ d.op = "reports" /\ d.st = "sent"
                          /\ d.arg.conn = f.conn /\ d.arg.workspace = f.workspace
        OBVIOUS
      <4>1. j \in Slot /\ boardNet'[j] # Free /\ boardNet'[j].op \in {"board", "reports"}
        BY DEF Of, Pending
      <4>2. ~(j # i /\ boardNet'[j] = boardNet[j])
        BY <3>1, <4>1 DEF Of, Pending
      <4> QED
        BY <2>8, <4>1, <4>2
    <3>4. SavedCoherent' /\ \A s \in Saves' : NoReportAlone(s.settings) /\ NoReportAlone(s.orig)
      BY <3>0, <2>11 DEF DashInv, CoherentInv, SavedCoherent, NoSettings, Settings
    <3>5. NoReportAlone(boardForm') /\ NoReportAlone(boardForm'.orig)
      BY <2>2, <2>3, <2>5, <3>0 DEF NoReportAlone, SameChoices
    <3>6. /\ None \notin boardForm'.reports
          /\ boardForm'.workspace # None => Listed(boardForm'.reports, boardForm'.workspace, boardForm'.conn)
      BY <2>1, <2>3, <2>5, <3>0 DEF DashInv, CoherentInv, SameChoices, Listed
    <3>7. None \notin Workspaces(Owner(f.conn))
      BY <2>3, BoardFormAssumption DEF DashFormOk, Owner
    <3>8. \A j \in Of(boardNet, {"reports"})' :
              /\ None \notin Workspaces(Owner(boardNet'[j].arg.conn))
              /\ boardNet'[j].arg.workspace = boardForm'.workspace /\ boardNet'[j].arg.conn = boardForm'.conn
              /\ ~Ok(boardNet, j, "reports")'
      <4>1. \A j \in Of(boardNet, {"reports"})' : j \in Of(boardNet, {"board", "reports"})'
        BY DEF Of
      <4> QED
        BY <2>5, <3>3, <3>7, <4>1 DEF SameChoices, Ok
    <3>9. NoReportAlone(board.settings)
      BY <1>0, <3>0
    <3> QED
      BY <1>1, <3>2, <3>3, <3>4, <3>5, <3>6, <3>8, <3>9 DEF CoherentInv, NoReportAlone, Listed, Owner, Workspaces
  <2> QED
    BY <2>9, <2>12, <2>13 DEF DashInv
<1> QED
  BY <1>4, <1>5 DEF BoardRead, Settled, MineBoard, Ok, Err

LEMMA DashStep ==
    ASSUME DashInv, [BoardNext]_boardVars
    PROVE  DashInv'
<1>1. CASE UNCHANGED boardVars
  <2>0. board' = board /\ boardForm' = boardForm /\ boardLog' = boardLog /\ boardNet' = boardNet
    BY <1>1 DEF boardVars
  <2>1. MetadataInv' /\ CoherentInv'
    <3>1. \A j \in Slot : boardNet'[j] # Free => DashKept(boardNet'[j], boardNet[j])
      BY <2>0 DEF DashKept
    <3> QED
      BY <2>0, <3>1, DashParts, DashUndisturbed DEF SameChoices
  <2>2. DashShape'
    BY <2>0, DashParts, DashShapeKept
  <2> QED
    BY <2>1, <2>2 DEF DashInv
<1>2. CASE BoardNext
  <2>1. CASE \E e \in BOOLEAN : OpenBoard(e)
    BY <2>1, OpenBoardStep
  <2>2. CASE CloseBoard \/ RetryWorkspaces
    BY <2>2, DashQuietStep
  <2>3. CASE SaveBoard
    BY <2>3, SaveBoardStep
  <2>4. CASE ChooseConn(None)
             \/ \E c \in BiConn : ChooseConn(c) \/ \E w \in Workspaces(c) : ChooseWorkspace(w) \/ ChooseReport(w)
    BY <2>4, DashChoiceStep
  <2>5. ASSUME NEW i \in Slot,
               \/ ServeBoard(i) \/ BoardRead(i) \/ ServeWorkspaces(i) \/ WorkspacesRead(i) \/ ServeBiReports(i)
               \/ BiReportsRead(i) \/ ServeSaveBoard(i) \/ BoardSaved(i) \/ BoardCallFails(i)
        PROVE  DashInv'
    BY <2>5, DashServeStep, BoardReadStep, BiReportsReadStep, DashQuietStep
  <2> QED
    BY <1>2, <2>1, <2>2, <2>3, <2>4, <2>5 DEF BoardNext
<1> QED
  BY <1>1, <1>2

LEMMA DashInvariant == BoardSpec => []DashInv
<1>1. BoardInit => DashInv
  BY DashInitInv
<1>2. DashInv /\ [BoardNext]_boardVars => DashInv'
  BY DashStep
<1> QED
  BY <1>1, <1>2, PTL DEF BoardSpec

\* "so metadata (name, role, description) can be updated without wiping" what is
\* embedded, whatever the pickers' lists answer and in whatever order
\* (DashboardCreator.tsx:400).
THEOREM SavesKeepMetadata == BoardSpec => []MetadataKept
<1>1. DashInv => MetadataKept
  BY DEF DashInv, MetadataInv
<1> QED
  BY <1>1, DashInvariant, PTL

\* What is saved is of the connection it is saved with, and the report is of its
\* workspace, for any number of connections, choices and requests, when the lists
\* were awaited before each choice.
THEOREM SavesAreCoherent == BoardSpec => []SavedCoherent
<1>1. DashInv => SavedCoherent
  <2> SUFFICES ASSUME DashInv PROVE SavedCoherent
    OBVIOUS
  <2>1. CASE boardLog.calm
    BY <2>1 DEF DashInv, CoherentInv
  <2>2. CASE ~boardLog.calm
    BY <2>2 DEF SavedCoherent
  <2> QED
    BY <2>1, <2>2
<1> QED
  BY <1>1, DashInvariant, PTL

-----------------------------------------------------------------------------
(***************************************************************************)
(* The condition checks: the threshold, shown as minutes, hours or days,   *)
(* comes back as it was.  The invariant is BodiesInv of Conditions: every  *)
(* check that reaches a form is one that a form can have made.             *)
(***************************************************************************)
CheckCallOk(c) ==
    /\ c.op \in {"toggle", "create", "edit"} => CheckOk(c.arg)
    /\ c.op = "checks" /\ c.st = "ok" => \A x \in c.out : CheckOk(x)

CheckListOk(list) ==
    /\ {"rows", "loading", "warehouses", "editing", "saving", "checking", "clicks", "calm"} \subseteq DOMAIN list
    /\ \A c \in list.rows : CheckOk(c)
    /\ list.editing # None => /\ "row" \in DOMAIN list.editing
                              /\ list.editing.row # None => CheckOk(list.editing.row)

CheckInv ==
    /\ IsNet(checkNet) /\ CheckListOk(checkList)
    /\ \A c \in checks : CheckOk(c)
    /\ \A i \in Slot : checkNet[i] # Free => CheckCallOk(checkNet[i])

\* CheckInv is BodiesInv and the shape of the variables.
LEMMA CheckInvIsBodiesInv == CheckInv => BodiesInv
  BY DEF CheckInv, CheckListOk, CheckCallOk, BodiesInv, Of, Pending, Ok

FieldsOk(f) ==
    /\ f = [kind |-> f.kind, value |-> f.value, unit |-> f.unit, pipeline |-> f.pipeline, table |-> f.table]
    /\ f.kind \in {"pipeline_idle", "data_freshness"} /\ f.value \in Int /\ f.unit \in {"minutes", "hours", "days"}

\* What is sent of a form that can be sent.
LEMMA PayloadIsBody ==
    ASSUME NEW f, FieldsOk(f), ValidCheck(f)
    PROVE  BodyOk(Payload(f))
<1>1. UnitMinutes[f.unit] \in {1, 60, 1440} /\ f.value \in Nat \ {0}
  BY DEF FieldsOk, UnitMinutes, ValidCheck
<1>2. f.value * UnitMinutes[f.unit] \in Nat \ {0}
  BY <1>1
<1>3. /\ Payload(f).kind = f.kind /\ Payload(f).minutes = f.value * UnitMinutes[f.unit]
      /\ Payload(f).pipeline = (IF f.kind = "pipeline_idle" THEN f.pipeline ELSE None)
      /\ Payload(f).table = (IF f.kind = "data_freshness" THEN f.table ELSE None)
  BY DEF Payload
<1>4. Payload(f) = [kind |-> Payload(f).kind, minutes |-> Payload(f).minutes, pipeline |-> Payload(f).pipeline,
                    table |-> Payload(f).table]
  BY DEF Payload
<1> QED
  BY <1>2, <1>3, <1>4 DEF BodyOk, FieldsOk, ValidCheck

\* Splitting a threshold into its largest whole unit loses nothing.
LEMMA SplitIsWhole ==
    ASSUME NEW m \in Nat \ {0}
    PROVE  /\ SplitThreshold(m).value \in Nat \ {0} /\ SplitThreshold(m).unit \in {"minutes", "hours", "days"}
           /\ SplitThreshold(m).value * UnitMinutes[SplitThreshold(m).unit] = m
<1>1. CASE m >= 1440 /\ m % 1440 = 0
  <2>1. SplitThreshold(m) = [value |-> m \div 1440, unit |-> "days"] /\ UnitMinutes["days"] = 1440
    BY <1>1 DEF SplitThreshold, UnitMinutes
  <2>2. m \div 1440 \in Nat \ {0} /\ (m \div 1440) * 1440 = m
    BY <1>1
  <2> QED
    BY <2>1, <2>2
<1>2. CASE ~(m >= 1440 /\ m % 1440 = 0) /\ m >= 60 /\ m % 60 = 0
  <2>1. SplitThreshold(m) = [value |-> m \div 60, unit |-> "hours"] /\ UnitMinutes["hours"] = 60
    BY <1>2 DEF SplitThreshold, UnitMinutes
  <2>2. m \div 60 \in Nat \ {0} /\ (m \div 60) * 60 = m
    BY <1>2
  <2> QED
    BY <2>1, <2>2
<1>3. CASE ~(m >= 1440 /\ m % 1440 = 0) /\ ~(m >= 60 /\ m % 60 = 0)
  <2>1. SplitThreshold(m) = [value |-> m, unit |-> "minutes"] /\ UnitMinutes["minutes"] = 1
    BY <1>3 DEF SplitThreshold, UnitMinutes
  <2> QED
    BY <2>1
<1> QED
  BY <1>1, <1>2, <1>3

\* The form of a check, sent as it is.
LEMMA FormOfCheck ==
    ASSUME NEW c, CheckOk(c)
    PROVE  FieldsOk(ToForm(c)) /\ ValidCheck(ToForm(c)) /\ Payload(ToForm(c)) = c.body
<1> DEFINE t == SplitThreshold(c.body.minutes)
<1>1. t.value \in Nat \ {0} /\ t.unit \in {"minutes", "hours", "days"} /\ t.value * UnitMinutes[t.unit] = c.body.minutes
  BY SplitIsWhole DEF CheckOk, BodyOk
<1>2. ToForm(c) = [kind |-> c.body.kind, value |-> t.value, unit |-> t.unit,
                   pipeline |-> c.body.pipeline, table |-> c.body.table]
  BY DEF ToForm
<1> HIDE DEF t
<1>3. FieldsOk(ToForm(c))
  BY <1>1, <1>2 DEF FieldsOk, CheckOk, BodyOk
<1>4. ValidCheck(ToForm(c))
  BY <1>1, <1>2 DEF ValidCheck, CheckOk, BodyOk
<1>5. Payload(ToForm(c)) = [kind |-> c.body.kind, minutes |-> c.body.minutes, pipeline |-> c.body.pipeline,
                            table |-> c.body.table]
  BY <1>1, <1>2 DEF Payload, CheckOk, BodyOk
<1> QED
  BY <1>3, <1>4, <1>5 DEF CheckOk, BodyOk

\* Whatever field is typed into.
LEMMA PatchesAreFields ==
    ASSUME NEW f, FieldsOk(f), NEW g \in Patches(f)
    PROVE  FieldsOk(g)
<1>0. DOMAIN UnitMinutes = {"minutes", "hours", "days"}
  BY DEF UnitMinutes
<1>1. CASE g = f
  BY <1>1
<1>2. ASSUME NEW t \in [value : Amount, unit : DOMAIN UnitMinutes], g = [f EXCEPT !.value = t.value, !.unit = t.unit]
      PROVE  FieldsOk(g)
  BY <1>0, <1>2, ConditionsAssumption DEF FieldsOk
<1>3. ASSUME NEW t \in WatchedTable, g = [f EXCEPT !.kind = "data_freshness", !.table = t]
      PROVE  FieldsOk(g)
  BY <1>3 DEF FieldsOk
<1>4. ASSUME NEW p \in Pipeline \cup {None}, g = [f EXCEPT !.kind = "pipeline_idle", !.pipeline = p]
      PROVE  FieldsOk(g)
  BY <1>4 DEF FieldsOk
<1> DEFINE Amounts == {[f EXCEPT !.value = t.value, !.unit = t.unit] : t \in [value : Amount, unit : DOMAIN UnitMinutes]}
           Tables == {[f EXCEPT !.kind = "data_freshness", !.table = t] : t \in WatchedTable}
           Pipelines == {[f EXCEPT !.kind = "pipeline_idle", !.pipeline = p] : p \in Pipeline \cup {None}}
<1>5. g \in {f} \cup Amounts \cup Tables \cup Pipelines
  BY DEF Patches
<1>6. g \in Amounts => FieldsOk(g)
  BY <1>2
<1>7. g \in Tables => FieldsOk(g)
  BY <1>3
<1>8. g \in Pipelines => FieldsOk(g)
  BY <1>4
<1> HIDE DEF Amounts, Tables, Pipelines
<1> QED
  BY <1>1, <1>5, <1>6, <1>7, <1>8

LEMMA EmptyFormIsFields == FieldsOk(EmptyForm)
  BY DEF FieldsOk, EmptyForm

\* The switch of a check is none of its body.
LEMMA SwitchedIsCheck ==
    ASSUME NEW c, CheckOk(c)
    PROVE  /\ \A b : CheckOk([c EXCEPT !.enabled = b])
           /\ \A k : CheckOk([c EXCEPT !.id = k])
           /\ \A b : BodyOk(b) => CheckOk([c EXCEPT !.body = b])
<1>1. \A b : [c EXCEPT !.enabled = b].body = c.body /\ DOMAIN [c EXCEPT !.enabled = b] = DOMAIN c
  BY DEF CheckOk
<1>2. \A k : [c EXCEPT !.id = k].body = c.body /\ DOMAIN [c EXCEPT !.id = k] = DOMAIN c
  BY DEF CheckOk
<1>3. \A b : [c EXCEPT !.body = b].body = b /\ DOMAIN [c EXCEPT !.body = b] = DOMAIN c
  BY DEF CheckOk
<1> QED
  BY <1>1, <1>2, <1>3, Zenon DEF CheckOk

\* A step that leaves good checks everywhere.
LEMMA CheckInvKept ==
    ASSUME CheckInv, CheckListOk(checkList'), \A c \in checks' : CheckOk(c),
           \/ checkNet' = checkNet
           \/ \E i, c : checkNet' = Put(checkNet, i, c) /\ (c # Free => IsCall(c) /\ CheckCallOk(c))
    PROVE  CheckInv'
<1>1. /\ \A c : CheckOk(c)' <=> CheckOk(c)
      /\ \A c : CheckCallOk(c)' <=> CheckCallOk(c)
      /\ \A list : CheckListOk(list)' <=> CheckListOk(list)
  BY DEF CheckOk, BodyOk, CheckCallOk, CheckListOk
<1>2. IsNet(checkNet')
  BY PutIsNet DEF CheckInv
<1>3. \A j \in Slot : checkNet'[j] # Free => CheckCallOk(checkNet'[j])
  BY DEF CheckInv, Put
<1> QED
  BY <1>1, <1>2, <1>3 DEF CheckInv

\* What the requests of the section may be.
LEMMA CheckCalls ==
    ASSUME CheckInv
    PROVE  /\ \A op, arg : (op \in {"toggle", "create", "edit"} => CheckOk(arg)) =>
                 \E k, c : Send(checkNet, op, arg) = Put(checkNet, k, c) /\ IsCall(c) /\ CheckCallOk(c)
           /\ \A i \in Slot : /\ Done(checkNet, i) = Put(checkNet, i, Free)
                             /\ \E c : Then(checkNet, i, "checks", None) = Put(checkNet, i, c) /\ IsCall(c) /\ CheckCallOk(c)
           /\ \A i \in Slot : checkNet[i] # Free =>
                 /\ \E c : Fail(checkNet, i) = Put(checkNet, i, c) /\ IsCall(c) /\ CheckCallOk(c)
                 /\ \A out : (checkNet[i].op = "checks" => \A x \in out : CheckOk(x)) =>
                       \E c : Reply(checkNet, i, out) = Put(checkNet, i, c) /\ IsCall(c) /\ CheckCallOk(c)
<1>0. IsNet(checkNet) /\ \A i \in Slot : checkNet[i] # Free => CheckCallOk(checkNet[i])
  BY DEF CheckInv
<1>1. ASSUME NEW op, NEW arg, op \in {"toggle", "create", "edit"} => CheckOk(arg)
      PROVE  /\ \E k, c : Send(checkNet, op, arg) = Put(checkNet, k, c) /\ IsCall(c) /\ CheckCallOk(c)
             /\ \A i \in Slot : \E c : Then(checkNet, i, op, arg) = Put(checkNet, i, c) /\ IsCall(c) /\ CheckCallOk(c)
  <2> DEFINE c == Call(op, arg)
  <2>1. IsCall(c) /\ c.op = op /\ c.arg = arg /\ c.st = "sent"
    BY CallIsCall DEF Call
  <2>2. \E k : Send(checkNet, op, arg) = Put(checkNet, k, c)
    BY <1>0, Sending
  <2>3. \A i \in Slot : Then(checkNet, i, op, arg) = Put(checkNet, i, c)
    BY <1>0, Ending
  <2> HIDE DEF c
  <2>4. CheckCallOk(c)
    BY <1>1, <2>1 DEF CheckCallOk
  <2> QED
    BY <2>1, <2>2, <2>3, <2>4
<1>2. \A i \in Slot : Done(checkNet, i) = Put(checkNet, i, Free)
  BY <1>0, Ending
<1>3. ASSUME NEW i \in Slot, checkNet[i] # Free
      PROVE  /\ \E c : Fail(checkNet, i) = Put(checkNet, i, c) /\ IsCall(c) /\ CheckCallOk(c)
             /\ \A out : (checkNet[i].op = "checks" => \A x \in out : CheckOk(x)) =>
                   \E c : Reply(checkNet, i, out) = Put(checkNet, i, c) /\ IsCall(c) /\ CheckCallOk(c)
  <2> DEFINE c(st, out) == [op |-> checkNet[i].op, arg |-> checkNet[i].arg, st |-> st, out |-> out]
  <2>1. \A st, out : /\ IsCall(c(st, out)) /\ c(st, out).op = checkNet[i].op /\ c(st, out).arg = checkNet[i].arg
                     /\ c(st, out).st = st /\ c(st, out).out = out
    BY DEF IsCall
  <2>2. Fail(checkNet, i) = Put(checkNet, i, c("err", checkNet[i].out)) /\ \A out : Reply(checkNet, i, out) = Put(checkNet, i, c("ok", out))
    BY <1>0, <1>3, Answering
  <2> HIDE DEF c
  <2>3. CheckCallOk(c("err", checkNet[i].out))
    BY <1>0, <1>3, <2>1 DEF CheckCallOk
  <2>4. \A out : (checkNet[i].op = "checks" => \A x \in out : CheckOk(x)) => CheckCallOk(c("ok", out))
    BY <1>0, <1>3, <2>1 DEF CheckCallOk
  <2> QED
    BY <2>1, <2>2, <2>3, <2>4
<1>4. \A i \in Slot : \E c : Then(checkNet, i, "checks", None) = Put(checkNet, i, c) /\ IsCall(c) /\ CheckCallOk(c)
  BY <1>1
<1>5. \A op, arg : (op \in {"toggle", "create", "edit"} => CheckOk(arg)) =>
          \E k, c : Send(checkNet, op, arg) = Put(checkNet, k, c) /\ IsCall(c) /\ CheckCallOk(c)
  BY <1>1, Zenon
<1> QED
  BY <1>2, <1>3, <1>4, <1>5, Zenon

LEMMA ChecksInitInv == ChecksInit => CheckInv
<1> SUFFICES ASSUME ChecksInit PROVE CheckInv
  OBVIOUS
<1>1. PICK v \in Amount : v >= 1 /\ checks = {[id |-> 1, body |-> Payload([EmptyForm EXCEPT !.value = v]), enabled |-> TRUE]}
  BY DEF ChecksInit
<1> DEFINE f == [EmptyForm EXCEPT !.value = v]
<1>2. FieldsOk(f) /\ ValidCheck(f)
  BY <1>1, ConditionsAssumption DEF EmptyForm, FieldsOk, ValidCheck
<1> HIDE DEF f
<1>3. \A c \in checks : CheckOk(c)
  BY <1>1, <1>2, PayloadIsBody DEF CheckOk, f
<1>4. CheckListOk(checkList)
  BY DEF ChecksInit, CheckListOk
<1>5. PICK k : checkNet = Put(NoCalls, k, Call("checks", None))
  BY NoCallsIsNet, Sending DEF ChecksInit
<1> DEFINE c == Call("checks", None)
<1>6. IsCall(c) /\ CheckCallOk(c)
  BY CallIsCall DEF Call, CheckCallOk
<1>7. IsNet(checkNet) /\ \A i \in Slot : checkNet[i] # Free => checkNet[i] = c
  <2> HIDE DEF c
  <2>1. checkNet = Put(NoCalls, k, c)
    BY <1>5 DEF c
  <2> QED
    BY <1>6, <2>1, NoCallsIsNet, PutIsNet DEF Put, NoCalls
<1> QED
  BY <1>3, <1>4, <1>6, <1>7 DEF CheckInv

\* The clicks on the list and in the form.
LEMMA CheckUserStep ==
    ASSUME CheckInv,
           \/ \E c \in checkList.rows : ToggleCheck(c) \/ DeleteCheck(c) \/ RunCheck(c) \/ OpenCheckForm(c)
           \/ OpenCheckForm(None) \/ CloseCheckForm
           \/ /\ checkList.editing # None
              /\ \E f \in Patches(IF checkList.editing.row = None THEN EmptyForm ELSE ToForm(checkList.editing.row)) :
                    SubmitCheck(f)
    PROVE  CheckInv'
<1>0. CheckListOk(checkList) /\ \A c \in checks : CheckOk(c)
  BY DEF CheckInv
<1>s. /\ CheckListOk(StepCheck) /\ StepCheck.rows = checkList.rows /\ StepCheck.editing = checkList.editing
  BY <1>0 DEF CheckListOk, StepCheck, Pressed
<1>1. ASSUME NEW c \in checkList.rows, ToggleCheck(c) PROVE CheckInv'
  <2>1. checks' = checks /\ checkNet' = Send(checkNet, "toggle", [c EXCEPT !.enabled = ~@])
    BY <1>1 DEF ToggleCheck, OnCheckRow, PressCheck, checksServer
  <2>2. CheckOk([c EXCEPT !.enabled = ~@])
    BY <1>0, SwitchedIsCheck DEF CheckListOk
  <2>3. \E k, d : checkNet' = Put(checkNet, k, d) /\ IsCall(d) /\ CheckCallOk(d)
    BY <2>1, <2>2, CheckCalls
  <2>4. CheckListOk(checkList')
    <3> DEFINE rows == {IF x.id = c.id THEN [x EXCEPT !.enabled = ~@] ELSE x : x \in checkList.rows}
    <3>1. \A x \in rows : CheckOk(x)
      BY <1>0, SwitchedIsCheck DEF CheckListOk
    <3>2. checkList' = [StepCheck EXCEPT !.rows = rows]
      BY <1>1, <1>s DEF ToggleCheck
    <3> HIDE DEF rows
    <3> QED
      BY <1>s, <3>1, <3>2 DEF CheckListOk
  <2> QED
    BY <1>0, <2>1, <2>3, <2>4, CheckInvKept
<1>2. ASSUME NEW c \in checkList.rows, DeleteCheck(c) PROVE CheckInv'
  <2>1. checks' = checks /\ checkNet' = Send(checkNet, "delete", c.id) /\ checkList' = StepCheck
    BY <1>2 DEF DeleteCheck, OnCheckRow, PressCheck, checksServer
  <2>2. \E k, d : checkNet' = Put(checkNet, k, d) /\ IsCall(d) /\ CheckCallOk(d)
    BY <2>1, CheckCalls
  <2> QED
    BY <1>0, <1>s, <2>1, <2>2, CheckInvKept
<1>3. ASSUME NEW c \in checkList.rows, RunCheck(c) PROVE CheckInv'
  <2>1. /\ checks' = checks /\ checkNet' = Send(checkNet, "check", c.id)
        /\ checkList' = [StepCheck EXCEPT !.checking = c.id]
    BY <1>3 DEF RunCheck, OnCheckRow, PressCheck, checksServer
  <2>2. \E k, d : checkNet' = Put(checkNet, k, d) /\ IsCall(d) /\ CheckCallOk(d)
    BY <2>1, CheckCalls
  <2>3. CheckListOk(checkList')
    BY <1>s, <2>1 DEF CheckListOk
  <2> QED
    BY <1>0, <2>1, <2>2, <2>3, CheckInvKept
<1>4. ASSUME NEW c, c # None => c \in checkList.rows, OpenCheckForm(c) PROVE CheckInv'
  <2>1. /\ checks' = checks
        /\ checkNet' = IF checkList.warehouses THEN checkNet ELSE Send(checkNet, "warehouses", None)
        /\ checkList' = [checkList EXCEPT !.clicks = @ + 1, !.editing = [row |-> c, n |-> checkList.clicks]]
    BY <1>4 DEF OpenCheckForm, PressCheck, checksServer
  <2>2. checkNet' = checkNet \/ \E k, d : checkNet' = Put(checkNet, k, d) /\ IsCall(d) /\ CheckCallOk(d)
    BY <2>1, CheckCalls
  <2>3. CheckListOk(checkList')
    <3>1. c # None => CheckOk(c)
      BY <1>0, <1>4 DEF CheckListOk
    <3> QED
      BY <1>0, <2>1, <3>1 DEF CheckListOk
  <2> QED
    BY <1>0, <2>1, <2>2, <2>3, CheckInvKept
<1>5. CASE CloseCheckForm
  <2>1. checks' = checks /\ checkNet' = checkNet /\ checkList' = [checkList EXCEPT !.editing = None]
    BY <1>5 DEF CloseCheckForm, checksServer
  <2>2. CheckListOk(checkList')
    BY <1>0, <2>1 DEF CheckListOk
  <2> QED
    BY <1>0, <2>1, <2>2, CheckInvKept
<1>6. ASSUME checkList.editing # None,
             NEW f \in Patches(IF checkList.editing.row = None THEN EmptyForm ELSE ToForm(checkList.editing.row)),
             SubmitCheck(f)
      PROVE  CheckInv'
  <2> DEFINE row == checkList.editing.row
             calm == \A i \in Pending(checkNet) : checkNet[i].op = "warehouses"
  <2>1. row # None => CheckOk(row)
    BY <1>0, <1>6 DEF CheckListOk
  <2>2. FieldsOk(f)
    <3>1. FieldsOk(IF row = None THEN EmptyForm ELSE ToForm(row))
      BY <2>1, EmptyFormIsFields, FormOfCheck
    <3> QED
      BY <1>6, <3>1, PatchesAreFields
  <2>3. BodyOk(Payload(f))
    BY <1>6, <2>2, PayloadIsBody DEF SubmitCheck
  <2>4. checks' = checks
    BY <1>6 DEF SubmitCheck, PressCheck, checksServer
  <2>5. \E k, d : checkNet' = Put(checkNet, k, d) /\ IsCall(d) /\ CheckCallOk(d)
    <3>1. CASE row = None
      <4> DEFINE made == [id |-> None, body |-> Payload(f), enabled |-> TRUE]
      <4>1. checkNet' = Send(checkNet, "create", made)
        BY <1>6, <3>1 DEF SubmitCheck
      <4>2. CheckOk(made)
        BY <2>3 DEF CheckOk
      <4> HIDE DEF made
      <4> QED
        BY <4>1, <4>2, CheckCalls
    <3>2. CASE row # None
      <4> DEFINE edited == [row EXCEPT !.body = Payload(f)]
      <4>1. checkNet' = Send(checkNet, "edit", edited)
        BY <1>6, <3>2 DEF SubmitCheck
      <4>2. CheckOk(edited)
        BY <2>1, <2>3, <3>2, SwitchedIsCheck
      <4> HIDE DEF edited
      <4> QED
        BY <4>1, <4>2, CheckCalls
    <3> QED
      BY <3>1, <3>2
  <2>6. CheckListOk(checkList')
    <3>1. checkList' = [Pressed(checkList, calm) EXCEPT !.saving = TRUE]
      BY <1>6 DEF SubmitCheck
    <3> HIDE DEF calm
    <3> QED
      BY <1>0, <3>1 DEF CheckListOk, Pressed
  <2> QED
    BY <1>0, <2>4, <2>5, <2>6, CheckInvKept
<1> QED
  BY <1>1, <1>2, <1>3, <1>4, <1>5, <1>6

\* The server's answers, and what the section does with them.
LEMMA CheckAnswerStep ==
    ASSUME CheckInv, NEW i \in Slot,
           \/ ServeChecks(i) \/ ChecksRead(i) \/ CheckToggled(i) \/ ServeDeleteCheck(i) \/ CheckDeleted(i)
           \/ ServeRunCheck(i) \/ CheckRan(i) \/ ServeWarehouseNames(i) \/ WarehouseNamesRead(i)
           \/ ServeCreateCheck(i) \/ ServeEditCheck(i) \/ CheckSaved(i) \/ CheckCallFails(i)
    PROVE  CheckInv'
<1>0. /\ CheckListOk(checkList) /\ (\A c \in checks : CheckOk(c))
      /\ \A j \in Slot : checkNet[j] # Free => CheckCallOk(checkNet[j])
  BY DEF CheckInv
<1>1. CASE ServeChecks(i)
  <2>1. /\ checks' = checks /\ checkList' = checkList /\ checkNet[i] # Free /\ checkNet' = Reply(checkNet, i, checks)
    BY <1>1 DEF ServeChecks, Sent, checksServer
  <2>2. \E k, d : checkNet' = Put(checkNet, k, d) /\ IsCall(d) /\ CheckCallOk(d)
    BY <1>0, <2>1, CheckCalls
  <2> QED
    BY <1>0, <2>1, <2>2, CheckInvKept
<1>2. CASE ChecksRead(i)
  <2>1. checks' = checks /\ checkNet' = Put(checkNet, i, Free)
    BY <1>2, CheckCalls DEF ChecksRead, checksServer
  <2>2. CheckListOk(checkList')
    <3>1. CASE Ok(checkNet, i, "checks")
      <4>1. checkList' = [checkList EXCEPT !.rows = checkNet[i].out, !.loading = FALSE]
        BY <1>2, <3>1 DEF ChecksRead
      <4>2. \A c \in checkNet[i].out : CheckOk(c)
        BY <1>0, <3>1 DEF Ok, CheckCallOk
      <4> QED
        BY <1>0, <4>1, <4>2 DEF CheckListOk
    <3>2. CASE ~Ok(checkNet, i, "checks")
      <4>1. checkList' = [checkList EXCEPT !.loading = FALSE, !.calm = FALSE]
        BY <1>2, <3>2 DEF ChecksRead
      <4> QED
        BY <1>0, <4>1 DEF CheckListOk
    <3> QED
      BY <3>1, <3>2
  <2> QED
    BY <1>0, <2>1, <2>2, CheckInvKept
<1>3. CASE CheckToggled(i)
  <2>1. checks' = checks /\ checkNet' = Put(checkNet, i, Free)
    BY <1>3, CheckCalls DEF CheckToggled, checksServer
  <2>2. CheckListOk(checkList')
    <3> DEFINE arg == checkNet[i].arg
               rows == {IF x.id = arg.id THEN [x EXCEPT !.enabled = ~arg.enabled] ELSE x : x \in checkList.rows}
    <3>1. \A x \in rows : CheckOk(x)
      BY <1>0, SwitchedIsCheck DEF CheckListOk
    <3>2. checkList' = checkList \/ checkList' = [checkList EXCEPT !.rows = rows]
      BY <1>0, <1>3 DEF CheckToggled, CheckListOk
    <3> HIDE DEF rows
    <3> QED
      BY <1>0, <3>1, <3>2 DEF CheckListOk
  <2> QED
    BY <1>0, <2>1, <2>2, CheckInvKept
<1>4. CASE ServeDeleteCheck(i)
  <2>1. /\ \A c \in checks' : c \in checks
        /\ checkList' = checkList /\ checkNet[i] # Free /\ checkNet[i].op = "delete"
        /\ checkNet' = Fail(checkNet, i) \/ checkNet' = Reply(checkNet, i, None)
    BY <1>4 DEF ServeDeleteCheck, Sent
  <2>2. \E k, d : checkNet' = Put(checkNet, k, d) /\ IsCall(d) /\ CheckCallOk(d)
    BY <2>1, CheckCalls
  <2> QED
    BY <1>0, <2>1, <2>2, CheckInvKept
<1>5. CASE CheckDeleted(i)
  <2>1. /\ checks' = checks /\ checkList' = checkList
        /\ checkNet' = Then(checkNet, i, "checks", None) \/ checkNet' = Done(checkNet, i)
    BY <1>5 DEF CheckDeleted, checksServer
  <2>2. \E k, d : checkNet' = Put(checkNet, k, d) /\ (d # Free => IsCall(d) /\ CheckCallOk(d))
    <3>1. CASE checkNet' = Done(checkNet, i)
      BY <3>1, CheckCalls
    <3>2. CASE checkNet' = Then(checkNet, i, "checks", None)
      BY <3>2, CheckCalls
    <3> QED
      BY <2>1, <3>1, <3>2
  <2> QED
    BY <1>0, <2>1, <2>2, CheckInvKept
<1>6. CASE ServeRunCheck(i) \/ ServeWarehouseNames(i)
  <2>1. /\ checks' = checks
        /\ checkList' = checkList /\ checkNet[i] # Free /\ checkNet[i].op # "checks"
        /\ checkNet' = Fail(checkNet, i) \/ checkNet' = Reply(checkNet, i, None)
    BY <1>6 DEF ServeRunCheck, ServeWarehouseNames, Sent, checksServer
  <2>2. \E k, d : checkNet' = Put(checkNet, k, d) /\ IsCall(d) /\ CheckCallOk(d)
    BY <2>1, CheckCalls
  <2> QED
    BY <1>0, <2>1, <2>2, CheckInvKept
<1>7. CASE CheckRan(i)
  <2>1. /\ checks' = checks /\ checkList' = [checkList EXCEPT !.checking = None]
        /\ checkNet' = Then(checkNet, i, "checks", None) \/ checkNet' = Done(checkNet, i)
    BY <1>7 DEF CheckRan, checksServer
  <2>2. \E k, d : checkNet' = Put(checkNet, k, d) /\ (d # Free => IsCall(d) /\ CheckCallOk(d))
    <3>1. CASE checkNet' = Done(checkNet, i)
      BY <3>1, CheckCalls
    <3>2. CASE checkNet' = Then(checkNet, i, "checks", None)
      BY <3>2, CheckCalls
    <3> QED
      BY <2>1, <3>1, <3>2
  <2>3. CheckListOk(checkList')
    BY <1>0, <2>1 DEF CheckListOk
  <2> QED
    BY <1>0, <2>1, <2>2, <2>3, CheckInvKept
<1>8. CASE WarehouseNamesRead(i)
  <2>1. /\ checks' = checks /\ checkList' = [checkList EXCEPT !.warehouses = TRUE] /\ checkNet' = Put(checkNet, i, Free)
    BY <1>8, CheckCalls DEF WarehouseNamesRead, checksServer
  <2>2. CheckListOk(checkList')
    BY <1>0, <2>1 DEF CheckListOk
  <2> QED
    BY <1>0, <2>1, <2>2, CheckInvKept
<1>9. CASE ServeCreateCheck(i)
  <2>1. /\ checkNet[i] # Free /\ checkNet[i].op = "create" /\ checkList' = checkList
        /\ checks' = checks \cup {[checkNet[i].arg EXCEPT !.id = checksMade + 1]}
        /\ checkNet' = Reply(checkNet, i, None)
    BY <1>9 DEF ServeCreateCheck, Sent
  <2>2. \A c \in checks' : CheckOk(c)
    <3>1. CheckOk(checkNet[i].arg)
      BY <1>0, <2>1 DEF CheckCallOk
    <3>2. CheckOk([checkNet[i].arg EXCEPT !.id = checksMade + 1])
      BY <3>1, SwitchedIsCheck
    <3> QED
      BY <1>0, <2>1, <3>2
  <2>3. \E k, d : checkNet' = Put(checkNet, k, d) /\ IsCall(d) /\ CheckCallOk(d)
    BY <2>1, CheckCalls
  <2> QED
    BY <1>0, <2>1, <2>2, <2>3, CheckInvKept
<1>10. CASE ServeEditCheck(i)
  <2>1. /\ checkNet[i] # Free /\ checkNet[i].op \in {"edit", "toggle"} /\ checkList' = checkList
        /\ \A c \in checks' : c \in checks \/ c = checkNet[i].arg
        /\ checkNet' = Fail(checkNet, i) \/ checkNet' = Reply(checkNet, i, None)
    BY <1>10 DEF ServeEditCheck, Sent
  <2>2. \A c \in checks' : CheckOk(c)
    BY <1>0, <2>1 DEF CheckCallOk
  <2>3. \E k, d : checkNet' = Put(checkNet, k, d) /\ IsCall(d) /\ CheckCallOk(d)
    BY <2>1, CheckCalls
  <2> QED
    BY <1>0, <2>1, <2>2, <2>3, CheckInvKept
<1>11. CASE CheckSaved(i)
  <2>1. /\ checks' = checks
        /\ checkList' = [checkList EXCEPT !.editing = None, !.saving = FALSE] \/ checkList' = [checkList EXCEPT !.saving = FALSE]
        /\ checkNet' = Then(checkNet, i, "checks", None) \/ checkNet' = Done(checkNet, i)
    BY <1>11 DEF CheckSaved, checksServer
  <2>2. \E k, d : checkNet' = Put(checkNet, k, d) /\ (d # Free => IsCall(d) /\ CheckCallOk(d))
    <3>1. CASE checkNet' = Done(checkNet, i)
      BY <3>1, CheckCalls
    <3>2. CASE checkNet' = Then(checkNet, i, "checks", None)
      BY <3>2, CheckCalls
    <3> QED
      BY <2>1, <3>1, <3>2
  <2>3. CheckListOk(checkList')
    BY <1>0, <2>1 DEF CheckListOk
  <2> QED
    BY <1>0, <2>1, <2>2, <2>3, CheckInvKept
<1>12. CASE CheckCallFails(i)
  <2>1. /\ checks' = checks /\ checkNet[i] # Free /\ checkNet' = Fail(checkNet, i)
        /\ checkList' = Missed(checkList, checkNet, i)
    BY <1>12 DEF CheckCallFails, CanFail, Pending, checksServer
  <2>2. \E k, d : checkNet' = Put(checkNet, k, d) /\ IsCall(d) /\ CheckCallOk(d)
    BY <2>1, CheckCalls
  <2>3. CheckListOk(checkList')
    BY <1>0, <2>1 DEF CheckListOk, Missed
  <2> QED
    BY <1>0, <2>1, <2>2, <2>3, CheckInvKept
<1> QED
  BY <1>1, <1>2, <1>3, <1>4, <1>5, <1>6, <1>7, <1>8, <1>9, <1>10, <1>11, <1>12

LEMMA ChecksStep == CheckInv /\ [ChecksNext]_checkVars => CheckInv'
<1> SUFFICES ASSUME CheckInv, [ChecksNext]_checkVars PROVE CheckInv'
  OBVIOUS
<1>1. CASE UNCHANGED checkVars
  BY <1>1, CheckInvKept DEF checkVars, CheckInv
<1>2. CASE ChecksNext
  BY <1>2, CheckUserStep, CheckAnswerStep DEF ChecksNext
<1> QED
  BY <1>1, <1>2

\* A field of a check that is not touched stays as it was, for any number of minutes:
\* the threshold comes back from the form's minutes, hours or days the same.
THEOREM ThresholdsComeBack == ChecksSpec => []UntouchedIsKept
<1>1. ChecksInit => CheckInv
  BY ChecksInitInv
<1>2. CheckInv /\ [ChecksNext]_checkVars => CheckInv'
  BY ChecksStep
<1>3. CheckInv => UntouchedIsKept
  BY FormOfCheck DEF CheckInv, CheckListOk, UntouchedIsKept
<1> QED
  BY <1>1, <1>2, <1>3, PTL DEF ChecksSpec

-----------------------------------------------------------------------------
(***************************************************************************)
(* The session and the second factor.  The invariant is AuthInv of SignIn: *)
(* at most one sign-in, one sign-out and one step of an enrolment are on   *)
(* their way, each from the page it belongs to, and what they carry fits   *)
(* the account.                                                            *)
(***************************************************************************)
TabOk(ui) ==
    /\ {"at", "visit", "pending", "submitting", "sess", "was", "signingOut", "enabled", "qr", "verifying", "disabling",
        "clicks", "calm"} \subseteq DOMAIN ui
    /\ ui.clicks \in Nat

AuthShape ==
    /\ IsNet(authNet) /\ TabOk(tab)
    /\ {"required", "admin", "totp", "secret", "made", "app"} \subseteq DOMAIN account /\ account.made \in Nat

AuthCalm == LoginFits /\ SignOutFits /\ EnrolmentFits /\ FactorFits /\ FlagFits

AuthCalls == \A j \in Pending(authNet) : AuthCallFits(authNet[j])

AuthOk ==
    /\ AuthShape /\ cookie \in Session \cup {None} /\ clock \in Nat /\ AuthCalls
    /\ tab.calm => AuthCalm

\* The invariant says what it is for.
LEMMA AuthOkWorks == AuthOk => EnrolledAppWorks /\ MfaStopsRedirecting /\ OneSignOut
<1> SUFFICES ASSUME AuthOk PROVE EnrolledAppWorks /\ MfaStopsRedirecting /\ OneSignOut
  OBVIOUS
<1>1. EnrolledAppWorks
  BY DEF AuthOk, AuthCalm, FactorFits, EnrolledAppWorks, Of, Enrolment
<1>2. MfaStopsRedirecting
  BY DEF AuthOk, AuthCalm, FlagFits, MfaStopsRedirecting, Of, Clean
<1>3. ASSUME tab.calm PROVE Cardinality(Of(authNet, {"signout"})) <= 1
  <2> DEFINE S == Of(authNet, {"signout"})
  <2>1. \A i, j \in S : i = j
    BY <1>3 DEF AuthOk, AuthCalm, SignOutFits, OneOf
  <2> HIDE DEF S
  <2>2. ASSUME S = {} PROVE Cardinality(S) <= 1
    <3>1. Cardinality(S) = 0
      BY <2>2, FS_EmptySet, Zenon
    <3> QED
      BY <3>1
  <2>3. ASSUME S # {} PROVE Cardinality(S) <= 1
    <3>1. PICK i \in S : TRUE
      BY <2>3
    <3>2. S = {i}
      BY <2>1, <3>1
    <3>3. Cardinality(S) = 1
      BY <3>2, FS_Singleton, Zenon
    <3> QED
      BY <3>3
  <2> QED
    BY <2>2, <2>3 DEF S
<1> QED
  BY <1>1, <1>2, <1>3 DEF OneSignOut

\* Sessions are not the absence of one.
LEMMA Sessions ==
    /\ None \notin Session /\ Gone \notin Session
    /\ \A now \in Nat : Fresh(now) \in Session /\ (account.totp => ~Fresh(now).mfa)
    /\ \A ok \in BOOLEAN : clock \in Nat => Exchanged(ok) \in Session /\ ~Exchanged(ok).mfa
<1>1. None \notin Session
  BY SessionAssumption
<1>2. Gone \notin Session
  <2>1. SUFFICES ASSUME Gone \in Session PROVE FALSE
    OBVIOUS
  <2>2. "mfa" \in DOMAIN Gone
    BY <2>1 DEF Session
  <2> QED
    BY <2>2 DEF Gone
<1>3. ASSUME NEW now \in Nat PROVE Fresh(now) \in Session /\ (account.totp => ~Fresh(now).mfa)
  <2>1. now + Life \in Int
    BY DEF Life
  <2>2. (account.required /\ ~account.totp) \in BOOLEAN
    BY Zenon
  <2> DEFINE m == account.required /\ ~account.totp
             x == now + Life
  <2>3. Fresh(now) = [mfa |-> m, exp |-> x, api |-> TRUE, refresh |-> TRUE, err |-> FALSE]
    BY DEF Fresh
  <2>4. account.totp => ~m
    BY Zenon
  <2> HIDE DEF m, x
  <2>5. [mfa |-> m, exp |-> x, api |-> TRUE, refresh |-> TRUE, err |-> FALSE].mfa = m
    BY Zenon
  <2>6. [mfa |-> m, exp |-> x, api |-> TRUE, refresh |-> TRUE, err |-> FALSE] \in Session
    BY <2>1, <2>2, Zenon DEF Session, m, x
  <2>7. account.totp => ~[mfa |-> m, exp |-> x, api |-> TRUE, refresh |-> TRUE, err |-> FALSE].mfa
    BY <2>4, <2>5, Zenon
  <2> QED
    BY <2>3, <2>6, <2>7, Zenon
<1>4. ASSUME NEW ok \in BOOLEAN, clock \in Nat PROVE Exchanged(ok) \in Session /\ ~Exchanged(ok).mfa
  <2>1. clock + Life \in Int
    BY <1>4 DEF Life
  <2> DEFINE x == clock + Life
  <2> HIDE DEF x
  <2>2. [mfa |-> FALSE, exp |-> x, api |-> ok, refresh |-> FALSE, err |-> FALSE] \in Session
    BY <2>1, Zenon DEF Session, x
  <2>3. ~[mfa |-> FALSE, exp |-> x, api |-> ok, refresh |-> FALSE, err |-> FALSE].mfa
    BY Zenon
  <2> QED
    BY <2>2, <2>3, Zenon DEF Exchanged, x
<1> QED
  BY <1>1, <1>2, <1>3, <1>4

\* What the watcher's effect leaves of the tab.
LEMMA TabWatched ==
    ASSUME NEW p, TabOk(p)
    PROVE  TabOk(Watched(p)) /\ \A f \in DOMAIN p \ {"was"} : Watched(p)[f] = p[f]
<1> DEFINE w == Watching(p.at) /\ (p.was \/ SignedIn(p))
<1>1. Watched(p) = [p EXCEPT !.was = w]
  BY DEF Watched
<1> HIDE DEF w
<1>2. DOMAIN [p EXCEPT !.was = w] = DOMAIN p /\ \A f \in DOMAIN p \ {"was"} : [p EXCEPT !.was = w][f] = p[f]
  OBVIOUS
<1>3. "clicks" \in DOMAIN p \ {"was"}
  BY DEF TabOk
<1> QED
  BY <1>1, <1>2, <1>3 DEF TabOk

\* What a loaded page keeps of the tab.
LEMMA PageShown ==
    ASSUME NEW ui, TabOk(ui), NEW at, NEW enabled
    PROVE  /\ TabOk(NewPage(ui, at, enabled))
           /\ NewPage(ui, at, enabled).at = at /\ NewPage(ui, at, enabled).enabled = enabled
           /\ NewPage(ui, at, enabled).sess = ui.sess /\ NewPage(ui, at, enabled).calm = ui.calm
           /\ NewPage(ui, at, enabled).signingOut = (ui.signingOut /\ Watching(ui.at) /\ Watching(at))
<1> DEFINE page == NewPage(ui, at, enabled)
           out == ui.signingOut /\ Watching(ui.at) /\ Watching(at)
           p == [ui EXCEPT !.at = at, !.visit = ui.visit + 1, !.enabled = enabled, !.qr = None, !.verifying = FALSE,
                           !.disabling = FALSE, !.pending = FALSE, !.submitting = FALSE, !.signingOut = out]
<1>1. page = Watched(p)
  BY DEF NewPage
<1> HIDE DEF out
<1>2. /\ DOMAIN p = DOMAIN ui /\ p.at = at /\ p.enabled = enabled
      /\ p.sess = ui.sess /\ p.calm = ui.calm /\ p.clicks = ui.clicks /\ p.signingOut = out
  BY DEF TabOk
<1> HIDE DEF p, page
<1>3. TabOk(p)
  BY <1>2 DEF TabOk
<1>4. TabOk(page) /\ \A f \in DOMAIN p \ {"was"} : page[f] = p[f]
  BY <1>1, <1>3, TabWatched
<1>5. /\ page.at = p.at /\ page.enabled = p.enabled
      /\ page.sess = p.sess /\ page.calm = p.calm /\ page.signingOut = p.signingOut
  BY <1>3, <1>4 DEF TabOk
<1>6. page.at = at /\ page.enabled = enabled /\ page.sess = ui.sess /\ page.calm = ui.calm /\ page.signingOut = out
  BY <1>2, <1>5
<1> QED
  BY <1>4, <1>6 DEF page, out

\* What is left of the tab by a click.
LEMMA TabClick ==
    ASSUME TabOk(tab), NEW calm
    PROVE  /\ TabOk(Click(calm)) /\ (Click(calm).calm => tab.calm /\ calm)
           /\ \A f \in DOMAIN tab \ {"clicks", "calm"} : Click(calm)[f] = tab[f]
           /\ DOMAIN Click(calm) = DOMAIN tab
<1>1. tab.clicks \in Nat /\ {"clicks", "calm"} \subseteq DOMAIN tab
  BY DEF TabOk
<1> QED
  BY <1>1, Pressing DEF Click, TabOk

\* A step after which the account, the cookie and the page on display are as before:
\* at most one request goes that has nothing to tell, or takes a free place.
LEMMA AuthMildStep ==
    ASSUME AuthOk, account' = account, cookie' = cookie, clock' \in Nat, TabOk(tab'),
           tab'.at = tab.at, tab'.visit = tab.visit, tab'.sess = tab.sess, tab'.enabled = tab.enabled,
           tab'.calm => tab.calm, tab.signingOut => tab'.signingOut,
           NEW i \in Slot, NEW d, authNet' = Put(authNet, i, d),
           \/ d = authNet[i]
           \/ /\ authNet[i] # Free /\ tab'.calm =>
                    authNet[i].op # "update" /\ (authNet[i].op \in {"enable", "disable"} => authNet[i].st # "ok")
              /\ d # Free =>
                    /\ IsCall(d) /\ d.st = "sent"
                    /\ d.op \in {"api", "signout", "precheck", "signin", "session"}
                    /\ d.op = "signout" => tab'.signingOut /\ Watching(tab.at) /\ ~tab.signingOut
                    /\ d.op \in {"precheck", "signin"} =>
                          tab'.submitting /\ tab.at = "login" /\ (tab.calm => \A j \in Of(authNet, {"precheck", "signin"}) : j = i)
                    /\ d.op = "session" => d.arg.cookie = cookie /\ (tab'.calm => Of(authNet, {"enable", "update"}) = {}),
           \/ tab.submitting => tab'.submitting
           \/ d = Free /\ authNet[i] # Free /\ authNet[i].op \in {"precheck", "signin"}
    PROVE  AuthOk'
<1>0. /\ AuthShape /\ IsNet(authNet) /\ AuthCalls /\ cookie \in Session \cup {None} /\ (tab.calm => AuthCalm)
      /\ \A j \in Slot : authNet[j] # Free => IsCall(authNet[j])
  BY DEF AuthOk, AuthShape, IsNet
<1>1. d # Free => IsCall(d)
  BY <1>0
<1>2. AuthShape'
  <2>1. IsNet(authNet')
    BY <1>0, <1>1, PutIsNet
  <2> QED
    BY <1>0, <2>1 DEF AuthShape
<1>3. \A j \in Slot : authNet'[j] = IF j = i THEN d ELSE authNet[j]
  BY DEF Put
<1>4. AuthCalls'
  <2>1. d # Free => AuthCallFits(d)
    BY <1>0 DEF AuthCallFits, AuthCalls, Pending
  <2>2. \A j \in Pending(authNet') : AuthCallFits(authNet'[j])
    BY <1>0, <1>3, <2>1 DEF AuthCalls, Pending
  <2> QED
    BY <2>2 DEF AuthCalls, AuthCallFits
<1>5. ASSUME tab'.calm PROVE AuthCalm'
  <2>0. tab.calm /\ LoginFits /\ SignOutFits /\ EnrolmentFits /\ FactorFits /\ FlagFits
    BY <1>0, <1>5 DEF AuthCalm
  <2>1. LoginFits'
    <3>1. \A j \in Of(authNet', {"precheck", "signin"}) : j = i \/ j \in Of(authNet, {"precheck", "signin"})
      BY <1>3 DEF Of, Pending
    <3>2. OneOf({"precheck", "signin"})'
      BY <1>3, <2>0, <3>1 DEF LoginFits, OneOf, Of, Pending
    <3>3. Of(authNet', {"precheck", "signin"}) # {} => tab'.at = "login" /\ tab'.submitting
      BY <1>3, <2>0, <3>1 DEF LoginFits, OneOf, Of, Pending
    <3>4. SignedIn(tab') => cookie' # None
      BY <2>0 DEF LoginFits, SignedIn
    <3> QED
      BY <3>2, <3>3, <3>4 DEF LoginFits
  <2>2. SignOutFits'
    BY <1>3, <2>0 DEF SignOutFits, OneOf, Of, Pending, Watching
  <2>3. EnrolmentFits'
    <3> DEFINE E == Enrolment \cup {"update"}
    <3>1. /\ \A j \in Of(authNet', E) : j \in Of(authNet, E) /\ authNet'[j] = authNet[j]
          /\ \A j \in Of(authNet', Enrolment) : j \in Of(authNet, Enrolment)
          /\ \A j \in Of(authNet', {"update"}) : j \in Of(authNet, {"update"})
          /\ \A j \in Of(authNet, {"enable", "update"}) : j \in Of(authNet, E)
      BY <1>3 DEF Of, Pending, Enrolment
    <3>2. \A j \in Of(authNet', {"session"}) :
             \/ j \in Of(authNet, {"session"}) /\ authNet'[j] = authNet[j]
             \/ /\ authNet'[j].arg.cookie = cookie /\ authNet'[j].st = "sent"
                /\ Of(authNet, {"enable", "update"}) = {}
      BY <1>3, <1>5 DEF Of, Pending
    <3>3. OneOf(E)'
      BY <2>0, <3>1 DEF EnrolmentFits, OneOf
    <3>4. \A k \in Of(authNet', E), j \in Of(authNet', {"session"}) :
             /\ authNet'[k].op \notin {"enable", "update"} /\ authNet'[j].arg.cookie # None
             /\ authNet'[j].st = "ok" => authNet'[j].out # None
      <4> SUFFICES ASSUME NEW k \in Of(authNet', E), NEW j \in Of(authNet', {"session"})
                   PROVE  /\ authNet'[k].op \notin {"enable", "update"} /\ authNet'[j].arg.cookie # None
                          /\ authNet'[j].st = "ok" => authNet'[j].out # None
        OBVIOUS
      <4>1. k \in Of(authNet, E) /\ authNet'[k] = authNet[k] /\ cookie # None
        BY <2>0, <3>1 DEF EnrolmentFits
      <4>2. CASE j \in Of(authNet, {"session"}) /\ authNet'[j] = authNet[j]
        BY <2>0, <4>1, <4>2 DEF EnrolmentFits
      <4>3. CASE /\ authNet'[j].arg.cookie = cookie /\ authNet'[j].st = "sent"
                 /\ Of(authNet, {"enable", "update"}) = {}
        BY <4>1, <4>3 DEF Of
      <4> QED
        BY <3>2, <4>2, <4>3
    <3>5. \A j \in Of(authNet', {"update"}) :
             /\ authNet'[j].arg.cookie # None
             /\ authNet'[j].st = "ok" => authNet'[j].out # None /\ ~authNet'[j].out.mfa
      BY <2>0, <3>1 DEF EnrolmentFits, Of
    <3>6. /\ Of(authNet', E) # {} => cookie' # None /\ tab'.sess # Gone /\ tab'.at # "login"
          /\ \A j \in Of(authNet', Enrolment) : tab'.at = "security" /\ authNet'[j].arg.visit = tab'.visit
      BY <2>0, <3>1 DEF EnrolmentFits, Of
    <3> QED
      BY <3>3, <3>4, <3>5, <3>6 DEF EnrolmentFits
  <2>4. FactorFits'
    <3>1. /\ \A j \in Of(authNet', Enrolment) : j \in Of(authNet, Enrolment) /\ authNet'[j] = authNet[j]
          /\ \A op \in Enrolment : \A j \in Of(authNet', {op}) : j \in Of(authNet, {op}) /\ authNet'[j] = authNet[j]
      BY <1>3 DEF Of, Pending, Enrolment
    <3>2. (\A j \in Of(authNet', {"enable", "disable"}) : authNet'[j].st # "ok") =>
              \A j \in Of(authNet, {"enable", "disable"}) : authNet[j].st # "ok"
      BY <1>3, <1>5 DEF Of, Pending
    <3> QED
      BY <2>0, <3>1, <3>2 DEF FactorFits, Enrolment
  <2>5. FlagFits'
    <3>1. (\A j \in Of(authNet', {"enable"}) : authNet'[j].st # "ok") =>
              \A j \in Of(authNet, {"enable"}) : authNet[j].st # "ok"
      BY <1>3, <1>5 DEF Of, Pending
    <3>2. Of(authNet', {"update"}) = {} => Of(authNet, {"update"}) = {}
      BY <1>3, <1>5 DEF Of, Pending
    <3>3. \A j \in Of(authNet', {"session", "signin"}) :
             \/ j \in Of(authNet, {"session", "signin"}) /\ authNet'[j] = authNet[j]
             \/ authNet'[j].st = "sent" /\ (authNet'[j].op = "session" => authNet'[j].arg.cookie = cookie)
      BY <1>3 DEF Of, Pending
    <3>4. \A j \in Of(authNet', {"session"}) :
             \/ j \in Of(authNet, {"session"}) /\ authNet'[j] = authNet[j]
             \/ authNet'[j].arg.cookie = cookie
      BY <1>3 DEF Of, Pending
    <3> QED
      BY <2>0, <3>1, <3>2, <3>3, <3>4 DEF FlagFits, Clean
  <2> QED
    BY <2>1, <2>2, <2>3, <2>4, <2>5 DEF AuthCalm
<1> QED
  BY <1>0, <1>2, <1>4, <1>5 DEF AuthOk

\* Nothing, or only the form or the clock, is touched.
LEMMA AuthStill ==
    ASSUME AuthOk, account' = account, cookie' = cookie, clock' \in Nat, authNet' = authNet, TabOk(tab'),
           tab'.at = tab.at, tab'.visit = tab.visit, tab'.sess = tab.sess, tab'.enabled = tab.enabled,
           tab'.calm => tab.calm, tab'.signingOut = tab.signingOut, tab'.submitting = tab.submitting
    PROVE  AuthOk'
<1>1. 1 \in Slot
  BY CallsAssumption DEF Slot
<1>2. authNet' = Put(authNet, 1, authNet[1])
  BY DEF AuthOk, AuthShape, IsNet, Put
<1> QED
  BY <1>1, <1>2, AuthMildStep

\* A handler ends, or hears that it may not go on.
LEMMA AuthFinishStep ==
    ASSUME AuthOk, NEW i \in Slot, authNet[i] # Free, NEW ui, TabOk(ui), Finish(i, ui), OnTab,
           authNet[i].op \notin {"update", "precheck", "signin"},
           authNet[i].op \in {"enable", "disable"} => authNet[i].st # "ok",
           ui.at = tab.at, ui.visit = tab.visit, ui.sess = tab.sess, ui.enabled = tab.enabled,
           ui.calm = tab.calm, ui.signingOut = tab.signingOut, ui.submitting = tab.submitting
    PROVE  AuthOk'
<1> DEFINE out == Call("signout", None)
           w == [ui EXCEPT !.signingOut = TRUE]
<1>0. IsNet(authNet) /\ account' = account /\ cookie' = cookie /\ clock' \in Nat
  BY DEF AuthOk, AuthShape, OnTab
<1>1. Done(authNet, i) = Put(authNet, i, Free) /\ Then(authNet, i, "signout", None) = Put(authNet, i, out)
  BY <1>0, Ending
<1>2. out.op = "signout" /\ out.st = "sent" /\ IsCall(out)
  BY CallIsCall DEF Call
<1> HIDE DEF out
<1>3. /\ TabOk(w) /\ w.at = ui.at /\ w.visit = ui.visit /\ w.sess = ui.sess /\ w.enabled = ui.enabled
      /\ w.calm = ui.calm /\ w.submitting = ui.submitting
  BY DEF TabOk
<1>4. w.signingOut
  <2>1. w.signingOut = TRUE
    BY DEF TabOk
  <2> QED
    BY <2>1, Zenon
<1> HIDE DEF w
<1>5. CASE tab' = w /\ authNet' = Put(authNet, i, out) /\ Watching(tab.at) /\ ~tab.signingOut
  BY <1>0, <1>2, <1>3, <1>4, <1>5, AuthMildStep
<1>6. CASE tab' = ui /\ authNet' = Put(authNet, i, Free)
  BY <1>0, <1>6, AuthMildStep
<1> QED
  BY <1>1, <1>5, <1>6, Zenon DEF Finish, w

\* The login form, and what the session asks.
LEMMA AuthFormStep ==
    ASSUME AuthOk,
           \/ (\E right \in BOOLEAN : SubmitLogin(right)) \/ (\E code : SubmitCode(code))
           \/ OtherAccount \/ PollSession \/ WatchError \/ CallApi \/ Tick \/ UNCHANGED authVars
    PROVE  AuthOk'
<1>0. /\ IsNet(authNet) /\ TabOk(tab) /\ clock \in Nat /\ cookie \in Session \cup {None} /\ (tab.calm => LoginFits)
      /\ TabOk(Click(TRUE)) /\ (Click(TRUE).calm => tab.calm) /\ DOMAIN Click(TRUE) = DOMAIN tab
      /\ \A f \in DOMAIN tab \ {"clicks", "calm"} : Click(TRUE)[f] = tab[f]
  BY TabClick DEF AuthOk, AuthShape, AuthCalm
<1>a. \A op, arg : Call(op, arg).op = op /\ Call(op, arg).arg = arg /\ Call(op, arg).st = "sent" /\ IsCall(Call(op, arg))
  BY CallIsCall DEF Call
<1> DEFINE k == Click(TRUE)
           s == [k EXCEPT !.submitting = TRUE]
<1>b. /\ TabOk(k) /\ k.at = tab.at /\ k.visit = tab.visit /\ k.sess = tab.sess /\ k.enabled = tab.enabled
      /\ k.signingOut = tab.signingOut /\ k.submitting = tab.submitting /\ (k.calm => tab.calm)
  BY <1>0 DEF TabOk
<1> HIDE DEF k
<1>c. /\ TabOk(s) /\ s.at = tab.at /\ s.visit = tab.visit /\ s.sess = tab.sess /\ s.enabled = tab.enabled
      /\ s.signingOut = tab.signingOut /\ s.submitting = TRUE /\ (s.calm => tab.calm)
  BY <1>b DEF TabOk
<1>d. s.submitting
  BY <1>c, Zenon
<1> HIDE DEF s
<1>1. ASSUME NEW op \in {"precheck", "signin"}, NEW arg, CanClick("login"), ~tab.submitting, Room(authNet, 1),
             tab' = s, authNet' = Send(authNet, op, arg), OnTab
      PROVE  AuthOk'
  <2>1. PICK i \in Slot \ Pending(authNet) : authNet' = Put(authNet, i, Call(op, arg))
    BY <1>0, <1>1, SendingIntoRoom
  <2>2. tab.calm => Of(authNet, {"precheck", "signin"}) = {}
    BY <1>0, <1>1 DEF LoginFits
  <2>3. tab.at = "login" /\ authNet[i] = Free
    BY <1>1, <2>1 DEF CanClick, Pending
  <2> DEFINE d == Call(op, arg)
  <2>4. IsCall(d) /\ d.st = "sent" /\ d.op = op
    BY <1>a
  <2> HIDE DEF d
  <2>5. authNet' = Put(authNet, i, d) /\ account' = account /\ cookie' = cookie /\ clock' \in Nat
    BY <1>0, <1>1, <2>1 DEF OnTab, d
  <2> QED
    BY <1>1, <1>c, <1>d, <2>2, <2>3, <2>4, <2>5, AuthMildStep
<1>2. ASSUME NEW right \in BOOLEAN, SubmitLogin(right) PROVE AuthOk'
  BY <1>1, <1>2 DEF SubmitLogin, s, k
<1>3. ASSUME NEW code, SubmitCode(code) PROVE AuthOk'
  BY <1>1, <1>3 DEF SubmitCode, s, k
<1>4. CASE OtherAccount
  <2> DEFINE o == [k EXCEPT !.pending = FALSE]
  <2>1. /\ TabOk(o) /\ o.at = tab.at /\ o.visit = tab.visit /\ o.sess = tab.sess /\ o.enabled = tab.enabled
        /\ o.signingOut = tab.signingOut /\ o.submitting = tab.submitting /\ (o.calm => tab.calm)
    BY <1>b DEF TabOk
  <2>2. tab' = o /\ authNet' = authNet /\ account' = account /\ cookie' = cookie /\ clock' \in Nat
    BY <1>0, <1>4 DEF OtherAccount, OnTab, k
  <2> HIDE DEF o
  <2> QED
    BY <2>1, <2>2, AuthStill
<1>5. CASE PollSession
  <2> DEFINE q == tab.calm /\ Of(authNet, {"enable", "update"}) = {}
             p == [tab EXCEPT !.calm = q]
             d == Call("session", [cookie |-> cookie, forced |-> FALSE, visit |-> 0])
  <2>1. tab' = p /\ account' = account /\ cookie' = cookie /\ clock' \in Nat
    BY <1>0, <1>5 DEF PollSession, OnTab
  <2>2. PICK i \in Slot \ Pending(authNet) : authNet' = Put(authNet, i, d)
    BY <1>0, <1>5, SendingIntoRoom DEF PollSession, AskSession
  <2>3. q => tab.calm /\ Of(authNet, {"enable", "update"}) = {}
    OBVIOUS
  <2>4. IsCall(d) /\ d.st = "sent" /\ d.op = "session" /\ d.arg.cookie = cookie
    BY <1>a
  <2>5. authNet[i] = Free
    BY <2>2 DEF Pending
  <2> HIDE DEF q, d
  <2>6. /\ TabOk(p) /\ p.at = tab.at /\ p.visit = tab.visit /\ p.sess = tab.sess /\ p.enabled = tab.enabled
        /\ p.signingOut = tab.signingOut /\ p.submitting = tab.submitting /\ p.calm = q
    BY <1>0 DEF TabOk
  <2>7. p.calm => tab.calm /\ Of(authNet, {"enable", "update"}) = {}
    BY <2>3, <2>6, Zenon
  <2> HIDE DEF p
  <2> QED
    BY <2>1, <2>2, <2>4, <2>5, <2>6, <2>7, AuthMildStep
<1>6. CASE WatchError
  <2> DEFINE d == Call("signout", None)
             p == [tab EXCEPT !.signingOut = TRUE]
  <2>1. /\ tab' = p /\ account' = account /\ cookie' = cookie /\ clock' \in Nat
        /\ Watching(tab.at) /\ ~tab.signingOut
    BY <1>0, <1>6 DEF WatchError, SignOut, OnTab
  <2>2. PICK i \in Slot \ Pending(authNet) : authNet' = Put(authNet, i, d)
    BY <1>0, <1>6, SendingIntoRoom DEF WatchError, SignOut
  <2>3. IsCall(d) /\ d.st = "sent" /\ d.op = "signout"
    BY <1>a
  <2>4. authNet[i] = Free
    BY <2>2 DEF Pending
  <2> HIDE DEF d
  <2>5. /\ TabOk(p) /\ p.at = tab.at /\ p.visit = tab.visit /\ p.sess = tab.sess /\ p.enabled = tab.enabled
        /\ p.signingOut = TRUE /\ p.submitting = tab.submitting /\ p.calm = tab.calm
    BY <1>0 DEF TabOk
  <2>6. p.signingOut
    BY <2>5, Zenon
  <2> HIDE DEF p
  <2> QED
    BY <2>1, <2>2, <2>3, <2>4, <2>5, <2>6, AuthMildStep
<1>7. CASE CallApi
  <2> DEFINE d == Call("api", tab.sess)
  <2>1. tab' = k /\ account' = account /\ cookie' = cookie /\ clock' \in Nat
    BY <1>0, <1>7 DEF CallApi, OnTab, k
  <2>2. PICK i \in Slot \ Pending(authNet) : authNet' = Put(authNet, i, d)
    BY <1>0, <1>7, SendingIntoRoom DEF CallApi
  <2>3. IsCall(d) /\ d.st = "sent" /\ d.op = "api"
    BY <1>a
  <2>4. authNet[i] = Free
    BY <2>2 DEF Pending
  <2> HIDE DEF d
  <2> QED
    BY <1>b, <2>1, <2>2, <2>3, <2>4, AuthMildStep
<1>8. CASE Tick \/ UNCHANGED authVars
  <2>1. tab' = tab /\ authNet' = authNet /\ account' = account /\ cookie' = cookie /\ clock' \in Nat
    BY <1>0, <1>8 DEF Tick, authVars
  <2> QED
    BY <1>0, <2>1, AuthStill
<1> QED
  BY <1>2, <1>3, <1>4, <1>5, <1>6, <1>7, <1>8

\* An answer of the login form, one that is lost, and one that says to leave.
LEMMA AuthHeardStep ==
    ASSUME AuthOk, NEW i \in Slot,
           \/ Prechecked(i) \/ SignInFailed(i) \/ CallDropped(i) \/ ApiAnswered(i) \/ SetUpRead(i)
           \/ Enabled(i) /\ Err(authNet, i, "enable")
           \/ Disabled(i) /\ Err(authNet, i, "disable")
    PROVE  AuthOk'
<1> DEFINE c == authNet[i]
           s == [tab EXCEPT !.submitting = FALSE]
<1>0. /\ IsNet(authNet) /\ TabOk(tab) /\ clock \in Nat /\ (tab.calm => LoginFits)
      /\ c # Free /\ i \in Pending(authNet) /\ c.op \notin {"update"} /\ account' = account /\ cookie' = cookie /\ clock' \in Nat
  BY DEF AuthOk, AuthShape, AuthCalm, Prechecked, SignInFailed, CallDropped, ApiAnswered, SetUpRead, Enabled, Disabled,
         OnTab, Settled, Ok, Err, Pending
<1>a. \A op, arg : Call(op, arg).op = op /\ Call(op, arg).arg = arg /\ Call(op, arg).st = "sent" /\ IsCall(Call(op, arg))
  BY CallIsCall DEF Call
<1>b. /\ Done(authNet, i) = Put(authNet, i, Free)
      /\ \A op, arg : Then(authNet, i, op, arg) = Put(authNet, i, Call(op, arg))
  BY <1>0, Ending
<1>c. /\ TabOk(s) /\ s.at = tab.at /\ s.visit = tab.visit /\ s.sess = tab.sess /\ s.enabled = tab.enabled
      /\ s.signingOut = tab.signingOut /\ s.calm = tab.calm
  BY <1>0 DEF TabOk
<1>1. CASE Prechecked(i)
  <2> DEFINE p == [tab EXCEPT !.submitting = FALSE, !.pending = c.out = "code"]
             d == Call("signin", c.arg)
  <2>1. /\ c.op = "precheck"
        /\ \/ tab' = p /\ authNet' = Put(authNet, i, Free)
           \/ tab' = tab /\ authNet' = Put(authNet, i, d)
    <3>1. c.op = "precheck"
      BY <1>1 DEF Prechecked, Settled, Ok, Err
    <3>2. \/ tab' = p /\ authNet' = Done(authNet, i)
          \/ tab' = tab /\ authNet' = Then(authNet, i, "signin", c.arg)
      BY <1>1, Zenon DEF Prechecked
    <3>3. Done(authNet, i) = Put(authNet, i, Free) /\ Then(authNet, i, "signin", c.arg) = Put(authNet, i, d)
      BY <1>b
    <3> HIDE DEF p, d
    <3> QED
      BY <3>1, <3>2, <3>3
  <2>2. CASE tab' = p /\ authNet' = Put(authNet, i, Free)
    <3> HIDE DEF c
    <3>1. /\ TabOk(p) /\ p.at = tab.at /\ p.visit = tab.visit /\ p.sess = tab.sess /\ p.enabled = tab.enabled
          /\ p.signingOut = tab.signingOut /\ p.calm = tab.calm
      BY <1>0 DEF TabOk
    <3> HIDE DEF p
    <3> QED
      BY <1>0, <2>1, <2>2, <3>1, AuthMildStep DEF c
  <2>3. CASE tab' = tab /\ authNet' = Put(authNet, i, d)
    <3>1. IsCall(d) /\ d.st = "sent" /\ d.op = "signin"
      BY <1>a
    <3> HIDE DEF d
    <3>2. CASE tab.calm
      <4>1. tab.submitting /\ tab.at = "login" /\ \A j \in Of(authNet, {"precheck", "signin"}) : j = i
        BY <1>0, <2>1, <3>2 DEF LoginFits, OneOf, Of
      <4> QED
        BY <1>0, <2>1, <2>3, <3>1, <4>1, AuthMildStep
    <3>3. CASE ~tab.calm
      <4>1. IsNet(authNet')
        BY <1>0, <2>3, <3>1, PutIsNet
      <4>2. AuthCalls'
        <5>1. \A j \in Pending(authNet') : AuthCallFits(authNet'[j])
          BY <1>0, <2>3, <3>1 DEF AuthOk, AuthCalls, AuthCallFits, Pending, Put
        <5> QED
          BY <5>1 DEF AuthCalls, AuthCallFits
      <4> QED
        BY <1>0, <2>3, <3>3, <4>1, <4>2 DEF AuthOk, AuthShape
    <3> QED
      BY <3>2, <3>3
  <2> QED
    BY <2>1, <2>2, <2>3
<1>2. CASE SignInFailed(i)
  <2>1. c.op = "signin" /\ tab' = s /\ authNet' = Put(authNet, i, Free)
    BY <1>2, <1>b DEF SignInFailed, Err
  <2> HIDE DEF s
  <2> QED
    BY <1>0, <1>c, <2>1, AuthMildStep
<1>3. CASE CallDropped(i)
  <2>1. c.op \in {"session", "signout"} /\ tab' = tab /\ authNet' = Put(authNet, i, Free)
    BY <1>3, <1>b DEF CallDropped, Err
  <2> QED
    BY <1>0, <2>1, AuthMildStep
<1>4. CASE ApiAnswered(i)
  <2>1. c.op = "api" /\ Finish(i, tab) /\ OnTab
    BY <1>4 DEF ApiAnswered, Settled, Ok, Err
  <2> QED
    BY <1>0, <2>1, AuthFinishStep
<1>5. CASE SetUpRead(i)
  <2> DEFINE q == [tab EXCEPT !.qr = c.out]
  <2>1. c.op = "setup" /\ OnTab /\ (Finish(i, tab) \/ Finish(i, q))
    BY <1>5, Zenon DEF SetUpRead, OnPageOf, Settled, Ok, Err
  <2>2. /\ TabOk(q) /\ q.at = tab.at /\ q.visit = tab.visit /\ q.sess = tab.sess /\ q.enabled = tab.enabled
        /\ q.calm = tab.calm /\ q.signingOut = tab.signingOut /\ q.submitting = tab.submitting
    <3> HIDE DEF c
    <3> QED
      BY <1>0 DEF TabOk
  <2> HIDE DEF q
  <2> QED
    BY <1>0, <2>1, <2>2, AuthFinishStep
<1>6. CASE Enabled(i) /\ Err(authNet, i, "enable")
  <2> DEFINE q == [tab EXCEPT !.verifying = FALSE]
  <2>1. c.op = "enable" /\ c.st # "ok" /\ OnTab /\ (Finish(i, tab) \/ Finish(i, q))
    BY <1>6, Zenon DEF Enabled, OnPageOf, Ok, Err
  <2>2. /\ TabOk(q) /\ q.at = tab.at /\ q.visit = tab.visit /\ q.sess = tab.sess /\ q.enabled = tab.enabled
        /\ q.calm = tab.calm /\ q.signingOut = tab.signingOut /\ q.submitting = tab.submitting
    BY <1>0 DEF TabOk
  <2> HIDE DEF q
  <2> QED
    BY <1>0, <2>1, <2>2, AuthFinishStep
<1>7. CASE Disabled(i) /\ Err(authNet, i, "disable")
  <2> DEFINE q == [tab EXCEPT !.disabling = FALSE]
  <2>1. c.op = "disable" /\ c.st # "ok" /\ OnTab /\ (Finish(i, tab) \/ Finish(i, q))
    BY <1>7, Zenon DEF Disabled, OnPageOf, Ok, Err
  <2>2. /\ TabOk(q) /\ q.at = tab.at /\ q.visit = tab.visit /\ q.sess = tab.sess /\ q.enabled = tab.enabled
        /\ q.calm = tab.calm /\ q.signingOut = tab.signingOut /\ q.submitting = tab.submitting
    BY <1>0 DEF TabOk
  <2> HIDE DEF q
  <2> QED
    BY <1>0, <2>1, <2>2, AuthFinishStep
<1> QED
  BY <1>1, <1>2, <1>3, <1>4, <1>5, <1>6, <1>7

\* The server answers, or the connection breaks.
LEMMA AuthServerStep ==
    ASSUME AuthOk, NEW i \in Slot,
           \/ ServePrecheck(i) \/ ServeSignIn(i) \/ ServeSession(i) \/ ServeApi(i) \/ ServeSignOut(i)
           \/ ServeSetUp(i) \/ ServeEnable(i) \/ ServeDisable(i) \/ AuthCallFails(i)
    PROVE  AuthOk'
<1> DEFINE c == authNet[i]
           ok(out) == [op |-> c.op, arg |-> c.arg, st |-> "ok", out |-> out]
           err == [op |-> c.op, arg |-> c.arg, st |-> "err", out |-> c.out]
<1>0. /\ AuthShape /\ IsNet(authNet) /\ TabOk(tab) /\ AuthCalls /\ i \in Pending(authNet) /\ c # Free /\ AuthCallFits(c)
      /\ cookie \in Session \cup {None} /\ clock \in Nat /\ cookie' = cookie /\ clock' = clock
      /\ tab.calm => LoginFits /\ SignOutFits /\ EnrolmentFits /\ FactorFits /\ FlagFits
  BY DEF AuthOk, AuthShape, AuthCalm, AuthCalls, ServePrecheck, ServeSignIn, ServeSession, ServeApi, ServeSignOut,
         ServeSetUp, ServeEnable, ServeDisable, AuthCallFails, Sent, CanFail, Pending, OnTab
<1>a. /\ \A out : Reply(authNet, i, out) = Put(authNet, i, ok(out)) /\ IsCall(ok(out))
      /\ Fail(authNet, i) = Put(authNet, i, err) /\ IsCall(err)
      /\ \A out : ok(out).op = c.op /\ ok(out).arg = c.arg /\ ok(out).st = "ok" /\ ok(out).out = out
      /\ err.op = c.op /\ err.arg = c.arg /\ err.st = "err"
  BY <1>0, Answering DEF IsCall
<1>b. \E d : /\ Deny(authNet, i) = Put(authNet, i, d) /\ IsCall(d) /\ d.op = c.op /\ d.arg = c.arg /\ d.st = "err"
  <2> DEFINE d == [err EXCEPT !.out = 401]
             f == Fail(authNet, i)
  <2>1. d = [op |-> c.op, arg |-> c.arg, st |-> "err", out |-> 401]
    <3> HIDE DEF c
    <3> QED
      OBVIOUS
  <2>2. f[i] = err /\ f = Put(authNet, i, err)
    BY <1>a DEF Put
  <2> HIDE DEF f, err
  <2>3. [f EXCEPT ![i].out = 401] = Put(authNet, i, d)
    BY <2>2 DEF Put
  <2>4. Deny(authNet, i) = Put(authNet, i, d)
    BY <2>3 DEF Deny, f
  <2> QED
    BY <2>1, <2>4 DEF IsCall
<1> HIDE DEF ok, err
<1>1. /\ TabOk(tab') /\ tab'.at = tab.at /\ tab'.visit = tab.visit /\ tab'.sess = tab.sess /\ tab'.enabled = tab.enabled
      /\ tab'.signingOut = tab.signingOut /\ tab'.submitting = tab.submitting
      /\ tab'.calm => tab.calm /\ c.st = "sent"
  <2>1. CASE AuthCallFails(i)
    <3> DEFINE q == tab.calm /\ c.st = "sent"
    <3>1. tab' = [tab EXCEPT !.calm = q] /\ (q => tab.calm /\ c.st = "sent")
      BY <2>1 DEF AuthCallFails, Missed
    <3> HIDE DEF q
    <3>2. /\ TabOk(tab') /\ tab'.at = tab.at /\ tab'.visit = tab.visit /\ tab'.sess = tab.sess
          /\ tab'.enabled = tab.enabled /\ tab'.signingOut = tab.signingOut /\ tab'.submitting = tab.submitting
          /\ tab'.calm = q
      BY <1>0, <3>1 DEF TabOk
    <3> QED
      BY <3>1, <3>2, Zenon
  <2>2. CASE tab' = tab /\ c.st = "sent"
    BY <1>0, <2>2
  <2> QED
    BY <2>1, <2>2 DEF ServePrecheck, ServeSignIn, ServeSession, ServeApi, ServeSignOut, ServeSetUp, ServeEnable,
                      ServeDisable, Sent
<1>2. PICK d : /\ authNet' = Put(authNet, i, d) /\ IsCall(d) /\ d.op = c.op /\ d.arg = c.arg /\ d.st \in {"ok", "err"}
               /\ AuthShape' \/ account' = account
               /\ c.op = "session" /\ d.st = "ok" =>
                     /\ d.out \in Session \cup {None} /\ (c.arg.cookie # None => d.out # None)
                     /\ Clean(c.arg.cookie) => Clean(d.out)
               /\ c.op = "update" /\ d.st = "ok" =>
                     /\ d.out \in Session \cup {None} /\ (c.arg.cookie # None => d.out # None /\ ~d.out.mfa)
               /\ c.op = "signin" /\ d.st = "ok" => d.out \in Session /\ (account.totp => ~d.out.mfa)
               /\ \/ account' = account /\ (d.st = "ok" => c.op \notin {"enable", "disable"})
                  \/ /\ {"required", "admin", "totp", "secret", "made", "app"} \subseteq DOMAIN account'
                     /\ account'.made \in Nat
                     /\ \/ c.op = "setup" /\ account'.totp = account.totp
                        \/ c.op = "enable" /\ d.st = "ok" /\ account'.totp = TRUE /\ account'.app = account'.secret
                        \/ c.op = "disable" /\ d.st = "ok" /\ account'.totp = FALSE
  <2> DEFINE Fine(d) ==
               /\ authNet' = Put(authNet, i, d) /\ IsCall(d) /\ d.op = c.op /\ d.arg = c.arg /\ d.st \in {"ok", "err"}
               /\ AuthShape' \/ account' = account
               /\ c.op = "session" /\ d.st = "ok" =>
                     /\ d.out \in Session \cup {None} /\ (c.arg.cookie # None => d.out # None)
                     /\ Clean(c.arg.cookie) => Clean(d.out)
               /\ c.op = "update" /\ d.st = "ok" =>
                     /\ d.out \in Session \cup {None} /\ (c.arg.cookie # None => d.out # None /\ ~d.out.mfa)
               /\ c.op = "signin" /\ d.st = "ok" => d.out \in Session /\ (account.totp => ~d.out.mfa)
               /\ \/ account' = account /\ (d.st = "ok" => c.op \notin {"enable", "disable"})
                  \/ /\ {"required", "admin", "totp", "secret", "made", "app"} \subseteq DOMAIN account'
                     /\ account'.made \in Nat
                     /\ \/ c.op = "setup" /\ account'.totp = account.totp
                        \/ c.op = "enable" /\ d.st = "ok" /\ account'.totp = TRUE /\ account'.app = account'.secret
                        \/ c.op = "disable" /\ d.st = "ok" /\ account'.totp = FALSE
  <2>0. SUFFICES \E d : Fine(d)
    OBVIOUS
  <2>1. ASSUME NEW d, authNet' = Put(authNet, i, d), IsCall(d), d.op = c.op, d.arg = c.arg, account' = account,
               d.st \in {"ok", "err"}, d.st = "err" \/ c.op \in {"precheck", "api", "signout"}
        PROVE  Fine(d)
    BY <2>1
  <2>2. CASE ServePrecheck(i) \/ ServeApi(i) \/ ServeSignOut(i)
    <3>1. /\ c.op \in {"precheck", "api", "signout"} /\ account' = account
          /\ (\E out : authNet' = Reply(authNet, i, out)) \/ authNet' = Deny(authNet, i)
      BY <2>2, Zenon DEF ServePrecheck, ServeApi, ServeSignOut, Sent
    <3> HIDE DEF Fine, c
    <3>2. ASSUME NEW out, authNet' = Reply(authNet, i, out) PROVE \E d : Fine(d)
      BY <1>a, <2>1, <3>1, <3>2
    <3>3. CASE authNet' = Deny(authNet, i)
      BY <1>b, <2>1, <3>1, <3>3
    <3> QED
      BY <3>1, <3>2, <3>3
  <2>3. CASE AuthCallFails(i)
    <3>1. account' = account /\ authNet' = Fail(authNet, i)
      BY <2>3 DEF AuthCallFails, OnTab
    <3> HIDE DEF Fine, c
    <3> QED
      BY <1>a, <2>1, <3>1
  <2>4. CASE ServeSignIn(i)
    <3> DEFINE f == Fresh(clock)
    <3>1. /\ c.op = "signin" /\ account' = account
          /\ authNet' = Reply(authNet, i, f) \/ authNet' = Fail(authNet, i)
      BY <2>4, Zenon DEF ServeSignIn, Sent
    <3>2. f \in Session /\ (account.totp => ~f.mfa)
      BY <1>0, Sessions
    <3> HIDE DEF f
    <3>3. CASE authNet' = Fail(authNet, i)
      <4> HIDE DEF Fine, c
      <4> QED
        BY <1>a, <2>1, <3>1, <3>3
    <3>4. CASE authNet' = Reply(authNet, i, f)
      <4>1. Fine(ok(f))
        BY <1>a, <3>1, <3>2, <3>4
      <4> QED
        BY <4>1
    <3> QED
      BY <3>1, <3>3, <3>4
  <2>5. CASE ServeSession(i)
    <3> DEFINE k == c.arg.cookie
               token == Cleared(k, c.op)
               x == clock + Life
    <3>1. c.op \in {"session", "update"} /\ account' = account /\ k \in Session \cup {None}
      BY <1>0, <2>5 DEF ServeSession, Sent, AuthCallFits
    <3>2. CASE k = None
      <4>1. authNet' = Put(authNet, i, ok(None))
        BY <1>a, <2>5, <3>2 DEF ServeSession
      <4>2. Fine(ok(None))
        BY <1>a, <3>1, <3>2, <4>1 DEF Clean
      <4> QED
        BY <4>2
    <3>3. CASE k \in Session
      <4>1. PICK out \in {token, [token EXCEPT !.exp = x, !.api = TRUE, !.err = FALSE], [token EXCEPT !.err = TRUE]} :
                authNet' = Reply(authNet, i, out)
        <5>1. k # None
          BY <3>3, Sessions
        <5>2. \E up \in BOOLEAN : authNet' = Reply(authNet, i,
                  IF ~Renewing(k) THEN token
                  ELSE IF k.refresh /\ up THEN [token EXCEPT !.exp = x, !.api = TRUE, !.err = FALSE]
                  ELSE [token EXCEPT !.err = TRUE])
          BY <2>5, <5>1, Zenon DEF ServeSession
        <5> HIDE DEF token, k, x, c
        <5> QED
          BY <5>2, Zenon
      <4>2. token \in Session /\ (c.op = "session" => token = k) /\ (c.op = "update" => token.mfa = FALSE)
        <5> HIDE DEF k, c
        <5> QED
          BY <3>3 DEF Cleared, Session
      <4>3. x \in Int
        BY <1>0 DEF Life
      <4> HIDE DEF token, x
      <4>4. out \in Session /\ out.mfa = token.mfa
        BY <4>1, <4>2, <4>3 DEF Session
      <4>5. out # None
        BY <4>4, Sessions
      <4>6. (c.op = "session" => (Clean(k) => Clean(out))) /\ (c.op = "update" => ~out.mfa)
        <5>1. k # None
          BY <3>3, Sessions
        <5>2. ASSUME c.op = "session", Clean(k) PROVE Clean(out)
          <6>1. out.mfa = k.mfa
            BY <4>2, <4>4, <5>2
          <6> HIDE DEF k
          <6> QED
            BY <5>1, <5>2, <6>1, Zenon DEF Clean
        <5>3. ASSUME c.op = "update" PROVE ~out.mfa
          BY <4>2, <4>4, <5>3, Zenon
        <5> QED
          BY <5>2, <5>3
      <4>7. Fine(ok(out))
        BY <1>a, <3>1, <4>1, <4>4, <4>5, <4>6
      <4> QED
        BY <4>7
    <3> QED
      BY <3>1, <3>2, <3>3
  <2>6. CASE ServeSetUp(i)
    <3> DEFINE s == account.made + 1
               a == [account EXCEPT !.secret = s, !.made = s]
    <3>1. /\ c.op = "setup"
          /\ \/ authNet' = Deny(authNet, i) /\ account' = account
             \/ account' = a /\ \E out : authNet' = Reply(authNet, i, out)
      BY <2>6, Zenon DEF ServeSetUp, Sent
    <3>2. CASE authNet' = Deny(authNet, i) /\ account' = account
      <4> HIDE DEF Fine, c
      <4> QED
        BY <1>b, <2>1, <3>2
    <3>3. ASSUME NEW out, account' = a, authNet' = Reply(authNet, i, out) PROVE \E d : Fine(d)
      <4>0. s \in Nat
        BY <1>0 DEF AuthShape
      <4> HIDE DEF s
      <4>1. /\ {"required", "admin", "totp", "secret", "made", "app"} \subseteq DOMAIN a /\ a.made \in Nat
            /\ a.totp = account.totp
        BY <1>0, <4>0 DEF AuthShape
      <4> HIDE DEF a
      <4>2. IsNet(authNet')
        BY <1>0, <1>a, <3>3, PutIsNet
      <4>3. AuthShape'
        BY <1>1, <3>3, <4>1, <4>2 DEF AuthShape
      <4>4. Fine(ok(out))
        BY <1>a, <3>1, <3>3, <4>1, <4>3
      <4> QED
        BY <4>4
    <3> QED
      BY <3>1, <3>2, <3>3
  <2>7. CASE ServeEnable(i)
    <3> DEFINE code == c.arg.code
               a == [account EXCEPT !.totp = TRUE, !.app = code]
    <3>1. /\ c.op = "enable"
          /\ \/ (authNet' = Deny(authNet, i) \/ authNet' = Fail(authNet, i)) /\ account' = account
             \/ account' = a /\ authNet' = Reply(authNet, i, None) /\ code = account.secret
      <4>1. c.op = "enable"
        BY <2>7 DEF ServeEnable, Sent
      <4> DEFINE open == ~Unauthorised(c.arg.sess)
                 fits == open /\ account.secret # 0 /\ code = account.secret
      <4>2. /\ account' = IF fits THEN a ELSE account
            /\ authNet' = IF fits THEN Reply(authNet, i, None) ELSE IF open THEN Fail(authNet, i) ELSE Deny(authNet, i)
        BY <2>7, Zenon DEF ServeEnable
      <4>3. fits => code = account.secret
        OBVIOUS
      <4> HIDE DEF fits, open, a, c
      <4> QED
        BY <4>1, <4>2, <4>3, Zenon
    <3>2. CASE (authNet' = Deny(authNet, i) \/ authNet' = Fail(authNet, i)) /\ account' = account
      <4> HIDE DEF Fine, c
      <4> QED
        BY <1>a, <1>b, <2>1, <3>2
    <3>3. CASE account' = a /\ authNet' = Reply(authNet, i, None) /\ code = account.secret
      <4>1. /\ {"required", "admin", "totp", "secret", "made", "app"} \subseteq DOMAIN a /\ a.made \in Nat
            /\ a.totp = TRUE /\ a.app = code /\ a.secret = account.secret
        <5> HIDE DEF code
        <5> QED
          BY <1>0 DEF AuthShape
      <4> HIDE DEF a
      <4>2. IsNet(authNet')
        BY <1>0, <1>a, <3>3, PutIsNet
      <4>3. AuthShape'
        BY <1>1, <3>3, <4>1, <4>2 DEF AuthShape
      <4>4. Fine(ok(None))
        BY <1>a, <3>1, <3>3, <4>1, <4>3
      <4> QED
        BY <4>4
    <3> QED
      BY <3>1, <3>2, <3>3
  <2>8. CASE ServeDisable(i)
    <3> DEFINE a == [account EXCEPT !.totp = FALSE, !.secret = 0]
    <3>1. /\ c.op = "disable"
          /\ \/ authNet' = Deny(authNet, i) /\ account' = account
             \/ account' = a /\ authNet' = Reply(authNet, i, None)
      BY <2>8, Zenon DEF ServeDisable, Sent
    <3>2. CASE authNet' = Deny(authNet, i) /\ account' = account
      <4> HIDE DEF Fine, c
      <4> QED
        BY <1>b, <2>1, <3>2
    <3>3. CASE account' = a /\ authNet' = Reply(authNet, i, None)
      <4>1. /\ {"required", "admin", "totp", "secret", "made", "app"} \subseteq DOMAIN a /\ a.made \in Nat
            /\ a.totp = FALSE
        BY <1>0 DEF AuthShape
      <4> HIDE DEF a
      <4>2. IsNet(authNet')
        BY <1>0, <1>a, <3>3, PutIsNet
      <4>3. AuthShape'
        BY <1>1, <3>3, <4>1, <4>2 DEF AuthShape
      <4>4. Fine(ok(None))
        BY <1>a, <3>1, <3>3, <4>1, <4>3
      <4> QED
        BY <4>4
    <3> QED
      BY <3>1, <3>2, <3>3
  <2> QED
    BY <2>2, <2>3, <2>4, <2>5, <2>6, <2>7, <2>8
<1>3. AuthShape' /\ AuthCalls'
  <2>1. IsNet(authNet')
    BY <1>0, <1>2, PutIsNet
  <2>2. AuthShape'
    BY <1>0, <1>1, <1>2, <2>1 DEF AuthShape
  <2>3. AuthCallFits(d)
    BY <1>0, <1>2 DEF AuthCallFits
  <2>4. \A j \in Pending(authNet') : AuthCallFits(authNet'[j])
    BY <1>0, <1>2, <2>3 DEF AuthCalls, Pending, Put
  <2> QED
    BY <2>2, <2>4 DEF AuthCalls, AuthCallFits
<1>4. /\ \A ops : Of(authNet', ops) = Of(authNet, ops)
      /\ \A j \in Slot : j # i => authNet'[j] = authNet[j]
      /\ \A j \in Slot : authNet'[j] # Free => authNet'[j].op = authNet[j].op /\ authNet'[j].arg = authNet[j].arg
      /\ authNet'[i] = d
  <2>1. d # Free
    BY <1>2 DEF Free
  <2> QED
    BY <1>0, <1>2, <2>1 DEF Of, Pending, Put
<1>5. ASSUME tab'.calm PROVE AuthCalm'
  <2>0. /\ tab.calm /\ LoginFits /\ SignOutFits /\ EnrolmentFits /\ FactorFits /\ FlagFits /\ c.st = "sent"
        /\ \A ops : OneOf(ops)' <=> OneOf(ops)
    BY <1>0, <1>1, <1>4, <1>5 DEF OneOf
  <2>1. LoginFits'
    BY <1>0, <1>1, <1>4, <2>0 DEF LoginFits, SignedIn
  <2>2. SignOutFits'
    BY <1>0, <1>1, <1>4, <2>0, Zenon DEF SignOutFits
  <2>3. EnrolmentFits'
    <3>1. OneOf(Enrolment \cup {"update"})'
      BY <2>0 DEF EnrolmentFits
    <3>2. Of(authNet', Enrolment \cup {"update"}) # {} => cookie' # None /\ tab'.sess # Gone /\ tab'.at # "login"
      BY <1>0, <1>1, <1>4, <2>0 DEF EnrolmentFits
    <3>3. \A j \in Of(authNet', Enrolment) : tab'.at = "security" /\ authNet'[j].arg.visit = tab'.visit
      BY <1>0, <1>1, <1>4, <2>0 DEF EnrolmentFits, Of, Pending
    <3>4. \A k \in Of(authNet', Enrolment \cup {"update"}), j \in Of(authNet', {"session"}) :
             /\ authNet'[k].op \notin {"enable", "update"} /\ authNet'[j].arg.cookie # None
             /\ authNet'[j].st = "ok" => authNet'[j].out # None
      <4> SUFFICES ASSUME NEW k \in Of(authNet, Enrolment \cup {"update"}), NEW j \in Of(authNet, {"session"})
                   PROVE  /\ authNet'[k].op \notin {"enable", "update"} /\ authNet'[j].arg.cookie # None
                          /\ authNet'[j].st = "ok" => authNet'[j].out # None
        BY <1>4
      <4>1. /\ k \in Slot /\ j \in Slot /\ authNet[k] # Free /\ authNet[j] # Free /\ authNet[j].op = "session"
            /\ authNet[k].op \notin {"enable", "update"} /\ authNet[j].arg.cookie # None
            /\ authNet[j].st = "ok" => authNet[j].out # None
        BY <2>0 DEF EnrolmentFits, Of, Pending
      <4>2. authNet'[k].op = authNet[k].op /\ authNet'[j].arg = authNet[j].arg
        BY <1>0, <1>2, <1>4, <4>1
      <4>3. j = i => (authNet'[j].st = "ok" => authNet'[j].out # None)
        BY <1>2, <1>4, <4>1
      <4> QED
        BY <1>4, <4>1, <4>2, <4>3
    <3>5. \A j \in Of(authNet', {"update"}) :
             /\ authNet'[j].arg.cookie # None
             /\ authNet'[j].st = "ok" => authNet'[j].out # None /\ ~authNet'[j].out.mfa
      BY <1>2, <1>4, <2>0 DEF EnrolmentFits, Of, Pending
    <3> QED
      BY <3>1, <3>2, <3>3, <3>4, <3>5 DEF EnrolmentFits
  <2>4. \/ account' = account /\ (d.st = "ok" => c.op \notin {"enable", "disable"})
        \/ c.op = "setup" /\ account'.totp = account.totp
        \/ c.op = "enable" /\ d.st = "ok" /\ account'.totp = TRUE /\ account'.app = account'.secret
        \/ c.op = "disable" /\ d.st = "ok" /\ account'.totp = FALSE
    BY <1>2, Zenon
  <2>5. /\ c.op \in Enrolment => \A j \in Of(authNet, Enrolment) : j = i
        /\ \A op : c.op = op => i \in Of(authNet, {op})
    BY <1>0, <2>0 DEF EnrolmentFits, OneOf, Of, Enrolment
  <2>6. FactorFits'
    <3>1. account'.totp => account'.app = account'.secret
      <4>1. CASE c.op = "setup" /\ account'.totp = account.totp
        BY <2>0, <2>5, <4>1 DEF FactorFits
      <4> QED
        BY <2>0, <2>4, <4>1 DEF FactorFits
    <3>2. Of(authNet', {"setup"}) # {} => ~account'.totp
      <4>1. CASE c.op = "enable"
        <5>1. Of(authNet', {"setup"}) = {}
          <6> SUFFICES ASSUME NEW j \in Of(authNet, {"setup"}) PROVE FALSE
            BY <1>4
          <6>1. j \in Of(authNet, Enrolment) /\ authNet[j].op = "setup"
            BY DEF Of, Enrolment
          <6> QED
            BY <2>5, <4>1, <6>1 DEF Enrolment
        <5> QED
          BY <5>1
      <4> QED
        BY <1>4, <2>0, <2>4, <4>1 DEF FactorFits
    <3>3. \A j \in Of(authNet', {"enable"}) : authNet'[j].st = "ok" => account'.totp = TRUE
      <4> SUFFICES ASSUME NEW j \in Of(authNet, {"enable"}), authNet'[j].st = "ok" PROVE account'.totp = TRUE
        BY <1>4
      <4>1. j \in Of(authNet, Enrolment) /\ j \in Slot /\ authNet[j].op = "enable"
        BY DEF Of, Pending, Enrolment
      <4>2. CASE j = i
        BY <1>4, <2>4, <4>1, <4>2
      <4>3. CASE j # i
        <5>1. account.totp = TRUE
          BY <1>4, <2>0, <4>1, <4>3 DEF FactorFits
        <5>2. c.op \notin Enrolment
          BY <2>5, <4>1, <4>3
        <5> QED
          BY <2>4, <5>1, <5>2 DEF Enrolment
      <4> QED
        BY <4>2, <4>3
    <3>4. \A j \in Of(authNet', {"disable"}) : authNet'[j].st = "ok" => account'.totp = FALSE
      <4> SUFFICES ASSUME NEW j \in Of(authNet, {"disable"}), authNet'[j].st = "ok" PROVE account'.totp = FALSE
        BY <1>4
      <4>1. j \in Of(authNet, Enrolment) /\ j \in Slot /\ authNet[j].op = "disable"
        BY DEF Of, Pending, Enrolment
      <4>2. CASE j = i
        BY <1>4, <2>4, <4>1, <4>2
      <4>3. CASE j # i
        <5>1. account.totp = FALSE
          BY <1>4, <2>0, <4>1, <4>3 DEF FactorFits
        <5>2. c.op \notin Enrolment
          BY <2>5, <4>1, <4>3
        <5> QED
          BY <2>4, <5>1, <5>2 DEF Enrolment
      <4> QED
        BY <4>2, <4>3
    <3>5. tab'.at = "security" /\ (\A j \in Of(authNet', {"enable", "disable"}) : authNet'[j].st # "ok") =>
              tab'.enabled = account'.totp
      <4> SUFFICES ASSUME tab.at = "security", \A j \in Of(authNet, {"enable", "disable"}) : authNet'[j].st # "ok"
                   PROVE  tab.enabled = account'.totp
        BY <1>1, <1>4
      <4>1. \A j \in Of(authNet, {"enable", "disable"}) : authNet[j].st # "ok"
        BY <1>4, <2>0 DEF Of, Pending
      <4>2. tab.enabled = account.totp
        BY <2>0, <4>1 DEF FactorFits
      <4>3. c.op \in {"enable", "disable"} => d.st # "ok"
        BY <1>0, <1>4 DEF Of
      <4> QED
        BY <2>4, <4>2, <4>3
    <3> QED
      BY <3>1, <3>2, <3>3, <3>4, <3>5 DEF FactorFits
  <2>7. FlagFits'
    <3> SUFFICES ASSUME account'.totp, Of(authNet, {"update"}) = {},
                        \A j \in Of(authNet, {"enable"}) : authNet'[j].st # "ok"
                 PROVE  /\ Clean(cookie)
                        /\ \A j \in Of(authNet, {"session"}) : Clean(authNet'[j].arg.cookie)
                        /\ \A j \in Of(authNet, {"session", "signin"}) : authNet'[j].st = "ok" => Clean(authNet'[j].out)
      BY <1>0, <1>4 DEF FlagFits, Clean
    <3>1. account.totp /\ account' = account
      <4>1. c.op = "enable" => d.st # "ok"
        BY <1>4, <2>5
      <4>2. CASE c.op = "setup" /\ account'.totp = account.totp
        BY <2>0, <2>5, <4>2 DEF FactorFits
      <4>3. CASE c.op = "disable" /\ d.st = "ok" /\ account'.totp = FALSE
        BY <4>3
      <4> QED
        BY <2>4, <4>1, <4>2, <4>3
    <3>2. \A j \in Of(authNet, {"enable"}) : authNet[j].st # "ok"
      BY <1>4, <2>0 DEF Of, Pending
    <3>3. /\ Clean(cookie)
          /\ \A j \in Of(authNet, {"session"}) : Clean(authNet[j].arg.cookie)
          /\ \A j \in Of(authNet, {"session", "signin"}) : authNet[j].st = "ok" => Clean(authNet[j].out)
      BY <2>0, <3>1, <3>2 DEF FlagFits
    <3>4. \A j \in Of(authNet, {"session"}) : Clean(authNet'[j].arg.cookie)
      <4> SUFFICES ASSUME NEW j \in Of(authNet, {"session"}) PROVE Clean(authNet'[j].arg.cookie)
        OBVIOUS
      <4>1. authNet'[j].arg = authNet[j].arg
        BY <1>0, <1>2, <1>4 DEF Of, Pending
      <4> QED
        BY <3>3, <4>1
    <3>5. \A j \in Of(authNet, {"session", "signin"}) : authNet'[j].st = "ok" => Clean(authNet'[j].out)
      <4> SUFFICES ASSUME NEW j \in Of(authNet, {"session", "signin"}), authNet'[j].st = "ok" PROVE Clean(authNet'[j].out)
        OBVIOUS
      <4>1. CASE j # i
        BY <1>4, <3>3, <4>1 DEF Of, Pending
      <4>2. CASE j = i /\ c.op = "session"
        <5>1. Clean(c.arg.cookie) /\ authNet'[j] = d /\ d.st = "ok"
          BY <1>4, <3>3, <4>2 DEF Of
        <5> QED
          BY <1>2, <4>2, <5>1
      <4>3. CASE j = i /\ c.op = "signin"
        <5>1. authNet'[j] = d /\ d.st = "ok"
          BY <1>4, <4>3
        <5>2. ~d.out.mfa
          BY <1>2, <3>1, <4>3, <5>1
        <5> QED
          BY <5>1, <5>2 DEF Clean
      <4> QED
        BY <4>1, <4>2, <4>3 DEF Of
    <3> QED
      BY <3>3, <3>4, <3>5
  <2> QED
    BY <2>1, <2>2, <2>3, <2>6, <2>7 DEF AuthCalm
<1> QED
  BY <1>0, <1>3, <1>5 DEF AuthOk

\* What always holds of a step that puts one call, or none, into one place.
LEMMA AuthBasics ==
    ASSUME AuthOk, account' = account, cookie' \in Session \cup {None}, clock' \in Nat, TabOk(tab'),
           NEW net, IsNet(net), \A j \in Slot : net[j] # Free => net[j] = authNet[j],
           NEW i, NEW d, authNet' = Put(net, i, d), d # Free => IsCall(d) /\ AuthCallFits(d),
           tab'.calm => AuthCalm'
    PROVE  AuthOk'
<1>1. IsNet(authNet')
  BY PutIsNet
<1>2. AuthShape'
  BY <1>1 DEF AuthOk, AuthShape
<1>3. \A j \in Pending(authNet') : AuthCallFits(authNet'[j])
  BY DEF AuthOk, AuthCalls, Pending, Put
<1>4. AuthCalls'
  BY <1>3 DEF AuthCalls, AuthCallFits
<1> QED
  BY <1>2, <1>4 DEF AuthOk

\* A page is left with no sign-out and no step of an enrolment on its way.
LEMMA AuthMoveStep ==
    ASSUME AuthOk, account' = account, cookie' = cookie, clock' = clock, authNet' = authNet,
           NEW ui, TabOk(ui), ui.sess = tab.sess, NEW at, NEW enabled, tab' = NewPage(ui, at, enabled),
           ui.calm => /\ tab.calm /\ ~tab.signingOut /\ tab.at # "login" /\ Of(authNet, Enrolment) = {}
                      /\ at = "login" => cookie = None \/ tab.sess = Gone
                      /\ enabled = account.totp
    PROVE  AuthOk'
<1>0. /\ IsNet(authNet) /\ cookie \in Session \cup {None} /\ clock \in Nat
      /\ tab.calm => LoginFits /\ SignOutFits /\ EnrolmentFits /\ FactorFits /\ FlagFits
  BY DEF AuthOk, AuthShape, AuthCalm
<1>1. TabOk(tab') /\ tab'.at = at /\ tab'.enabled = enabled /\ tab'.sess = tab.sess /\ tab'.calm = ui.calm
  BY PageShown
<1>2. ASSUME tab'.calm PROVE AuthCalm'
  <2>0. /\ LoginFits /\ SignOutFits /\ EnrolmentFits /\ FactorFits /\ FlagFits
        /\ ~tab.signingOut /\ tab.at # "login" /\ Of(authNet, Enrolment) = {}
        /\ at = "login" => cookie = None \/ tab.sess = Gone
        /\ enabled = account.totp
    BY <1>0, <1>1, <1>2
  <2>1. LoginFits'
    BY <1>1, <2>0 DEF LoginFits, OneOf, SignedIn
  <2>2. SignOutFits'
    BY <1>1, <2>0 DEF SignOutFits, OneOf
  <2>3. EnrolmentFits'
    BY <1>1, <2>0 DEF EnrolmentFits, OneOf
  <2>4. FactorFits'
    BY <1>1, <2>0 DEF FactorFits
  <2>5. FlagFits'
    BY <2>0 DEF FlagFits, Clean
  <2> QED
    BY <2>1, <2>2, <2>3, <2>4, <2>5 DEF AuthCalm
<1>3. 1 \in Slot
  BY CallsAssumption DEF Slot
<1>4. authNet' = Put(authNet, 1, authNet[1]) /\ (authNet[1] # Free => IsCall(authNet[1]) /\ AuthCallFits(authNet[1]))
  BY <1>0, <1>3 DEF IsNet, Put, AuthOk, AuthCalls, Pending
<1> QED
  BY <1>0, <1>1, <1>2, <1>4, AuthBasics

\* The user goes to another page; the watcher leaves one.
LEMMA AuthLeaveStep ==
    ASSUME AuthOk, (\E to \in {"login", "home", "admin", "security"} : Navigate(to)) \/ WatchGone
    PROVE  AuthOk'
<1>0. TabOk(tab) /\ (tab.calm => EnrolmentFits)
  BY DEF AuthOk, AuthShape, AuthCalm
<1>1. ASSUME NEW to \in {"login", "home", "admin", "security"}, Navigate(to) PROVE AuthOk'
  <2> DEFINE calm == ~tab.signingOut /\ Of(authNet, Enrolment) = {}
             k == Click(calm)
             l == [k EXCEPT !.calm = FALSE]
  <2>1. /\ tab.at # "login" /\ account' = account /\ cookie' = cookie /\ clock' = clock /\ authNet' = authNet
        /\ tab' = NewPage(k, Land(to), account.totp) \/ tab' = NewPage(l, "security", FALSE)
    BY <1>1, Zenon DEF Navigate, ShowPage
  <2>2. Land(to) = "login" => cookie = None
    BY <1>1 DEF Land
  <2>3. (calm => ~tab.signingOut /\ Of(authNet, Enrolment) = {})
    OBVIOUS
  <2> HIDE DEF calm
  <2>4. TabOk(k) /\ k.sess = tab.sess /\ (k.calm => tab.calm /\ calm)
    BY <1>0, TabClick DEF TabOk
  <2> HIDE DEF k
  <2>5. TabOk(l) /\ l.sess = tab.sess /\ l.calm = FALSE
    BY <2>4 DEF TabOk
  <2>6. ~l.calm
    BY <2>5, Zenon
  <2> HIDE DEF l
  <2>7. CASE tab' = NewPage(k, Land(to), account.totp)
    BY <2>1, <2>2, <2>3, <2>4, <2>7, AuthMoveStep
  <2>8. CASE tab' = NewPage(l, "security", FALSE)
    BY <2>1, <2>5, <2>6, <2>8, AuthMoveStep
  <2> QED
    BY <2>1, <2>7, <2>8
<1>2. CASE WatchGone
  <2> DEFINE k == [tab EXCEPT !.signingOut = TRUE]
  <2>1. /\ Watching(tab.at) /\ tab.sess = Gone /\ ~tab.signingOut
        /\ account' = account /\ cookie' = cookie /\ clock' = clock /\ authNet' = authNet
        /\ tab' = NewPage(k, Land("login"), account.totp)
    BY <1>2 DEF WatchGone
  <2>2. TabOk(k) /\ k.sess = tab.sess /\ k.calm = tab.calm
    BY <1>0 DEF TabOk
  <2> HIDE DEF k
  <2>3. tab.calm => Of(authNet, Enrolment) = {}
    <3>1. Of(authNet, Enrolment) \subseteq Of(authNet, Enrolment \cup {"update"})
      BY DEF Of
    <3> QED
      BY <1>0, <2>1, <3>1 DEF EnrolmentFits
  <2>4. tab.at # "login"
    BY <2>1 DEF Watching
  <2> QED
    BY <2>1, <2>2, <2>3, <2>4, AuthMoveStep
<1> QED
  BY <1>1, <1>2

\* A page is loaded, and all there is on its way is the question for the session.
AuthLoaded ==
    /\ AuthShape /\ cookie \in Session \cup {None} /\ clock \in Nat
    /\ \E k : authNet = Put(NoCalls, k, Call("session", [cookie |-> cookie, forced |-> FALSE, visit |-> 0]))
    /\ SignedIn(tab) => cookie # None
    /\ tab.calm => /\ account.totp => account.app = account.secret /\ Clean(cookie)
                   /\ tab.at = "security" => tab.enabled = account.totp

LEMMA AuthLoadedOk == AuthLoaded => AuthOk
<1> SUFFICES ASSUME AuthLoaded PROVE AuthOk
  OBVIOUS
<1> DEFINE arg == [cookie |-> cookie, forced |-> FALSE, visit |-> 0]
           d == Call("session", arg)
<1>1. d.op = "session" /\ d.st = "sent" /\ d.arg = arg /\ arg.cookie = cookie
  BY DEF Call
<1>2. PICK k : authNet = Put(NoCalls, k, d)
  BY DEF AuthLoaded
<1> HIDE DEF d, arg
<1>3. \A j \in Pending(authNet) : authNet[j] = d
  BY <1>2 DEF Pending, Put, NoCalls
<1>4. AuthCalls
  BY <1>1, <1>3 DEF AuthCalls, AuthCallFits, AuthLoaded
<1>5. /\ Of(authNet, {"precheck", "signin"}) = {} /\ Of(authNet, {"signout"}) = {}
      /\ Of(authNet, Enrolment) = {} /\ Of(authNet, Enrolment \cup {"update"}) = {} /\ Of(authNet, {"update"}) = {}
      /\ \A op \in Enrolment : Of(authNet, {op}) = {}
  <2>1. \A j \in Pending(authNet) : authNet[j].op = "session"
    BY <1>1, <1>3
  <2> QED
    BY <2>1 DEF Of, Enrolment
<1>6. ASSUME tab.calm PROVE AuthCalm
  <2>1. LoginFits
    BY <1>5 DEF LoginFits, OneOf, AuthLoaded
  <2>2. SignOutFits /\ EnrolmentFits
    BY <1>5 DEF SignOutFits, EnrolmentFits, OneOf, Enrolment
  <2>3. FactorFits
    <3>1. Of(authNet, {"setup"}) = {} /\ Of(authNet, {"enable"}) = {} /\ Of(authNet, {"disable"}) = {}
      BY <1>5 DEF Enrolment
    <3> QED
      BY <1>6, <3>1 DEF FactorFits, AuthLoaded
  <2>4. FlagFits
    <3>1. \A j \in Of(authNet, {"session", "signin"}) : authNet[j].st # "ok" /\ authNet[j].arg.cookie = cookie
      BY <1>1, <1>3 DEF Of
    <3>2. \A j \in Of(authNet, {"session"}) : authNet[j].arg.cookie = cookie
      BY <1>1, <1>3 DEF Of
    <3> QED
      BY <1>6, <3>1, <3>2 DEF FlagFits, AuthLoaded
  <2> QED
    BY <2>1, <2>2, <2>3, <2>4 DEF AuthCalm
<1> QED
  BY <1>4, <1>6 DEF AuthOk, AuthLoaded

LEMMA AuthInitOk == SignInInit => AuthOk
<1> SUFFICES ASSUME SignInInit PROVE AuthLoaded
  BY AuthLoadedOk
<1>0. PICK required, admin, on \in BOOLEAN :
          account = [required |-> required, admin |-> admin, totp |-> on, secret |-> IF on THEN 1 ELSE 0, made |-> 1,
                     app |-> 1]
  BY DEF SignInInit
<1>1. /\ {"required", "admin", "totp", "secret", "made", "app"} \subseteq DOMAIN account /\ account.made \in Nat
      /\ account.totp => account.app = account.secret
  BY <1>0
<1>2. TabOk(Tab0) /\ Tab0.at = "login" /\ Tab0.sess = None
  BY DEF TabOk, Tab0
<1>3. clock \in Nat
  BY DEF SignInInit
<1>4. /\ cookie \in Session \cup {None} /\ (account.totp => Clean(cookie)) /\ TabOk(tab) /\ tab.sess = None
      /\ tab.at = "security" => tab.enabled = account.totp
  <2>1. CASE cookie = None /\ tab = Tab0
    BY <1>2, <2>1 DEF Clean
  <2>2. CASE cookie = Fresh(0) /\ tab = NewPage(Tab0, IF cookie.mfa THEN "security" ELSE "home", account.totp)
    <3>1. cookie \in Session /\ (account.totp => ~cookie.mfa)
      BY <2>2, Sessions
    <3> DEFINE at == IF cookie.mfa THEN "security" ELSE "home"
    <3>2. tab = NewPage(Tab0, at, account.totp)
      BY <2>2
    <3> HIDE DEF at
    <3>3. TabOk(tab) /\ tab.sess = None /\ tab.enabled = account.totp
      BY <1>2, <3>2, PageShown
    <3> QED
      BY <3>1, <3>3 DEF Clean
  <2> QED
    BY <2>1, <2>2 DEF SignInInit
<1>5. PICK k : authNet = Put(NoCalls, k, Call("session", [cookie |-> cookie, forced |-> FALSE, visit |-> 0]))
  BY NoCallsIsNet, Sending DEF SignInInit, AskSession
<1>6. IsNet(authNet)
  BY <1>5, NoCallsIsNet, CallIsCall, PutIsNet
<1> QED
  BY <1>1, <1>3, <1>4, <1>5, <1>6 DEF AuthLoaded, AuthShape, SignedIn

\* A sign-in by redirects, and a sign-out, load the page.
LEMMA AuthReloadStep ==
    ASSUME AuthOk,
           (\E exchanged \in BOOLEAN : SignInWithProvider(exchanged)) \/ (\E i \in Slot : SignedOut(i))
    PROVE  AuthOk'
<1>0. /\ AuthShape /\ TabOk(tab) /\ clock \in Nat /\ (tab.calm => FactorFits)
  BY DEF AuthOk, AuthShape, AuthCalm
<1>1. SUFFICES AuthLoaded'
  BY AuthLoadedOk, PTL
<1>2. /\ account' = account /\ clock' = clock
      /\ \E c : authNet' = AskSession(NoCalls, c) /\ c = cookie'
  BY DEF SignInWithProvider, SignedOut
<1>3. PICK k : authNet' = Put(NoCalls, k, Call("session", [cookie |-> cookie', forced |-> FALSE, visit |-> 0]))
  BY <1>2, NoCallsIsNet, Sending DEF AskSession
<1>4. IsNet(authNet')
  BY <1>3, NoCallsIsNet, CallIsCall, PutIsNet
<1>5. /\ cookie' \in Session \cup {None} /\ (cookie' # None => ~cookie'.mfa)
      /\ TabOk(tab') /\ (tab'.calm => tab.calm)
      /\ SignedIn(tab') => cookie' # None
      /\ tab'.at = "security" => tab'.enabled = account.totp
  <2>1. ASSUME NEW exchanged \in BOOLEAN, SignInWithProvider(exchanged)
        PROVE  /\ cookie' \in Session /\ ~cookie'.mfa
               /\ TabOk(tab') /\ (tab'.calm => tab.calm) /\ tab'.at = "home"
    <3> DEFINE ui == Click(TRUE)
    <3>1. cookie' = Exchanged(exchanged) /\ tab' = NewPage(ui, "home", account.totp)
      BY <2>1 DEF SignInWithProvider
    <3>2. TabOk(ui) /\ (ui.calm => tab.calm)
      BY <1>0, TabClick
    <3> HIDE DEF ui
    <3>3. TabOk(tab') /\ tab'.at = "home" /\ tab'.calm = ui.calm
      BY <3>1, <3>2, PageShown
    <3> QED
      BY <1>0, <3>1, <3>2, <3>3, Sessions
  <2>2. ASSUME NEW i \in Slot, SignedOut(i)
        PROVE  /\ cookie' = None /\ TabOk(tab') /\ tab'.calm = tab.calm /\ tab'.at = "login" /\ tab'.sess = None
    <3> DEFINE n == tab.clicks
               b == tab.calm
               v == tab.visit + 1
    <3>1. cookie' = None /\ tab' = [Tab0 EXCEPT !.clicks = n, !.calm = b, !.visit = v] /\ n \in Nat
      BY <1>0, <2>2 DEF SignedOut, TabOk
    <3> HIDE DEF n, b, v
    <3>2. TabOk(tab') /\ tab'.calm = b /\ tab'.at = "login" /\ tab'.sess = None
      BY <3>1 DEF TabOk, Tab0
    <3> QED
      BY <3>1, <3>2 DEF b
  <2>3. None \notin Session
    BY Sessions
  <2> QED
    BY <2>1, <2>2, <2>3 DEF SignedIn
<1>6. /\ {"required", "admin", "totp", "secret", "made", "app"} \subseteq DOMAIN account /\ account.made \in Nat
      /\ tab.calm => (account.totp => account.app = account.secret)
  BY <1>0 DEF AuthShape, FactorFits
<1>7. AuthShape'
  BY <1>2, <1>4, <1>5, <1>6 DEF AuthShape
<1> QED
  BY <1>0, <1>2, <1>3, <1>5, <1>6, <1>7 DEF AuthLoaded, Clean

\* The login form is answered with a session.
LEMMA AuthSignedInStep ==
    ASSUME AuthOk, NEW i \in Slot, SignedInNow(i)
    PROVE  AuthOk'
<1> DEFINE c == authNet[i]
           net == Put(authNet, i, Free)
           arg == [cookie |-> cookie', forced |-> FALSE, visit |-> 0]
           d == Call("session", arg)
           at == IF c.out.mfa THEN "security" ELSE "home"
<1>0. /\ IsNet(authNet) /\ TabOk(tab) /\ clock \in Nat /\ AuthCallFits(c) /\ c # Free /\ c.op = "signin" /\ c.st = "ok"
      /\ i \in Pending(authNet) /\ i \in Of(authNet, {"precheck", "signin"}) /\ i \in Of(authNet, {"session", "signin"})
      /\ tab.calm => LoginFits /\ SignOutFits /\ EnrolmentFits /\ FactorFits /\ FlagFits
  BY DEF AuthOk, AuthShape, AuthCalm, AuthCalls, SignedInNow, Ok, Pending, Of
<1>1. /\ cookie' = c.out /\ account' = account /\ clock' = clock /\ cookie' \in Session
      /\ tab' = NewPage(tab, at, account.totp)
  BY <1>0 DEF SignedInNow, AuthCallFits
<1>2. /\ TabOk(tab') /\ tab'.at = at /\ tab'.enabled = account.totp /\ tab'.sess = tab.sess /\ tab'.calm = tab.calm
      /\ at \in {"security", "home"}
  <2> HIDE DEF c
  <2>1. at \in {"security", "home"}
    OBVIOUS
  <2> HIDE DEF at
  <2> QED
    BY <1>0, <1>1, <2>1, PageShown
<1> HIDE DEF at
<1>3. d.op = "session" /\ d.st = "sent" /\ d.arg.cookie = cookie' /\ IsCall(d)
  BY CallIsCall DEF Call
<1>4. IsNet(net) /\ \A j \in Slot : net[j] # Free => net[j] = authNet[j] /\ j # i
  BY <1>0, PutIsNet DEF Put
<1>5. PICK k : authNet' = Put(net, k, d)
  <2>1. authNet' = AskSession(net, cookie')
    BY <1>0, Ending DEF SignedInNow
  <2> QED
    BY <1>4, <2>1, Sending DEF AskSession
<1> HIDE DEF d, net
<1>6. \A j \in Pending(authNet') :
         \/ authNet'[j] = d
         \/ j \in Pending(authNet) /\ j # i /\ authNet'[j] = authNet[j]
  BY <1>4, <1>5 DEF Pending, Put
<1>7. ASSUME tab'.calm PROVE AuthCalm'
  <2>0. /\ LoginFits /\ SignOutFits /\ EnrolmentFits /\ FactorFits /\ FlagFits
        /\ tab.at = "login" /\ \A j \in Of(authNet, {"precheck", "signin"}) : j = i
    BY <1>0, <1>2, <1>7 DEF LoginFits, OneOf
  <2>1. /\ Of(authNet, {"signout"}) = {} /\ Of(authNet, Enrolment \cup {"update"}) = {}
    BY <2>0 DEF SignOutFits, EnrolmentFits, Watching
  <2>2. \A j \in Pending(authNet') : authNet'[j].op \notin {"precheck", "signin", "signout", "update"} \cup Enrolment
    <3> SUFFICES ASSUME NEW j \in Pending(authNet')
                 PROVE  authNet'[j].op \notin {"precheck", "signin", "signout", "update"} \cup Enrolment
      OBVIOUS
    <3>1. CASE authNet'[j] = d
      BY <1>3, <3>1 DEF Enrolment
    <3>2. CASE j \in Pending(authNet) /\ j # i /\ authNet'[j] = authNet[j]
      BY <2>0, <2>1, <3>2 DEF Of
    <3> QED
      BY <1>6, <3>1, <3>2
  <2>3. LoginFits'
    <3>1. Of(authNet', {"precheck", "signin"}) = {}
      BY <2>2 DEF Of
    <3>2. cookie' # None
      BY <1>1, Sessions
    <3> QED
      BY <3>1, <3>2 DEF LoginFits, OneOf
  <2>4. SignOutFits'
    <3>1. Of(authNet', {"signout"}) = {}
      BY <2>2 DEF Of
    <3> QED
      BY <3>1 DEF SignOutFits, OneOf
  <2>5. EnrolmentFits'
    <3>1. /\ Of(authNet', Enrolment \cup {"update"}) = {} /\ Of(authNet', {"update"}) = {}
          /\ Of(authNet', Enrolment) = {}
      BY <2>2 DEF Of
    <3> QED
      BY <3>1 DEF EnrolmentFits, OneOf
  <2>6. FactorFits'
    <3>1. Of(authNet', {"setup"}) = {} /\ Of(authNet', {"enable"}) = {} /\ Of(authNet', {"disable"}) = {}
      BY <2>2 DEF Of, Enrolment
    <3>2. account.totp => account.app = account.secret
      BY <2>0 DEF FactorFits
    <3> QED
      BY <1>1, <1>2, <3>1, <3>2 DEF FactorFits
  <2>7. FlagFits'
    <3> SUFFICES ASSUME account.totp
                 PROVE  /\ Clean(cookie')
                        /\ \A j \in Of(authNet', {"session"}) : Clean(authNet'[j].arg.cookie)
                        /\ \A j \in Of(authNet', {"session", "signin"}) : authNet'[j].st = "ok" => Clean(authNet'[j].out)
      BY <1>1 DEF FlagFits, Clean
    <3>1. /\ Clean(c.out)
          /\ \A j \in Of(authNet, {"session"}) : Clean(authNet[j].arg.cookie)
          /\ \A j \in Of(authNet, {"session", "signin"}) : authNet[j].st = "ok" => Clean(authNet[j].out)
      <4>1. Of(authNet, {"update"}) = {} /\ Of(authNet, {"enable"}) = {}
        BY <2>1 DEF Of, Enrolment
      <4> QED
        BY <1>0, <2>0, <4>1 DEF FlagFits
    <3>2. Clean(cookie')
      BY <1>1, <3>1
    <3>3. \A j \in Of(authNet', {"session"}) : Clean(authNet'[j].arg.cookie)
      BY <1>3, <1>6, <3>1, <3>2 DEF Of
    <3>4. \A j \in Of(authNet', {"session", "signin"}) : authNet'[j].st = "ok" => Clean(authNet'[j].out)
      BY <1>3, <1>6, <3>1 DEF Of
    <3> QED
      BY <3>2, <3>3, <3>4
  <2> QED
    BY <2>3, <2>4, <2>5, <2>6, <2>7 DEF AuthCalm
<1>8. AuthCallFits(d)
  BY <1>1, <1>3 DEF AuthCallFits
<1> QED
  BY <1>0, <1>1, <1>2, <1>3, <1>4, <1>5, <1>7, <1>8, AuthBasics

\* A session is read, and goes with the cookie; or the cookie goes elsewhere.
LEMMA AuthSessionStep ==
    ASSUME AuthOk, SignOutElsewhere \/ \E i \in Slot : SessionRead(i)
    PROVE  AuthOk'
<1>0. /\ IsNet(authNet) /\ TabOk(tab) /\ clock \in Nat /\ AuthCalls
      /\ tab.calm => LoginFits /\ SignOutFits /\ EnrolmentFits /\ FactorFits /\ FlagFits
  BY DEF AuthOk, AuthShape, AuthCalm
<1>1. CASE SignOutElsewhere
  <2> DEFINE k == Click(FALSE)
  <2>1. tab' = k /\ cookie' = None /\ account' = account /\ authNet' = authNet /\ clock' = clock
    BY <1>1 DEF SignOutElsewhere
  <2>2. TabOk(k) /\ ~k.calm
    BY <1>0, TabClick
  <2> HIDE DEF k
  <2>3. AuthShape' /\ AuthCalls' /\ ~tab'.calm
    BY <2>1, <2>2 DEF AuthOk, AuthShape, AuthCalls, AuthCallFits
  <2> QED
    BY <1>0, <2>1, <2>3 DEF AuthOk
<1>2. ASSUME NEW i \in Slot, SessionRead(i) PROVE AuthOk'
  <2> DEFINE c == authNet[i]
             s == IF cookie' = None THEN Gone ELSE cookie'
             p == [tab EXCEPT !.sess = s]
  <2>1. /\ c # Free /\ c.op = "session" /\ c.st = "ok" /\ i \in Of(authNet, {"session"}) /\ i \in Of(authNet, {"session", "signin"})
        /\ cookie' = c.out /\ account' = account /\ clock' = clock /\ cookie' \in Session \cup {None}
        /\ tab' = Watched(p)
    BY <1>0, <1>2 DEF SessionRead, Ok, Of, Pending, AuthCalls, AuthCallFits
  <2>2. authNet' = Put(authNet, i, Free)
    BY <1>0, <1>2, Ending DEF SessionRead
  <2> HIDE DEF c, s
  <2>3. DOMAIN p = DOMAIN tab /\ p.sess = s /\ \A f \in DOMAIN tab \ {"sess"} : p[f] = tab[f]
    BY <1>0 DEF TabOk
  <2> HIDE DEF p
  <2>4. TabOk(p)
    BY <1>0, <2>3 DEF TabOk
  <2>5. TabOk(tab') /\ \A f \in DOMAIN p \ {"was"} : tab'[f] = p[f]
    BY <2>1, <2>4, TabWatched
  <2>6. /\ tab'.sess = s /\ tab'.at = tab.at /\ tab'.visit = tab.visit /\ tab'.enabled = tab.enabled
        /\ tab'.signingOut = tab.signingOut /\ tab'.submitting = tab.submitting /\ tab'.calm = tab.calm
    BY <1>0, <2>3, <2>4, <2>5 DEF TabOk
  <2>7. /\ \A ops : Of(authNet', ops) \subseteq Of(authNet, ops)
        /\ \A ops : "session" \notin ops => Of(authNet', ops) = Of(authNet, ops)
        /\ \A j \in Pending(authNet') : authNet'[j] = authNet[j]
    BY <2>1, <2>2 DEF Of, Pending, Put, c
  <2>8. ASSUME tab'.calm PROVE AuthCalm'
    <3>0. LoginFits /\ SignOutFits /\ EnrolmentFits /\ FactorFits /\ FlagFits
      BY <1>0, <2>6, <2>8
    <3>1. LoginFits'
      <4>1. OneOf({"precheck", "signin"})'
        BY <2>7, <3>0 DEF LoginFits, OneOf
      <4>2. Of(authNet', {"precheck", "signin"}) # {} => tab'.at = "login" /\ tab'.submitting
        BY <2>6, <2>7, <3>0 DEF LoginFits
      <4>3. SignedIn(tab') => cookie' # None
        BY <2>6 DEF SignedIn, s
      <4> QED
        BY <4>1, <4>2, <4>3 DEF LoginFits
    <3>2. SignOutFits'
      BY <2>6, <2>7, <3>0 DEF SignOutFits, OneOf
    <3>3. EnrolmentFits'
      <4>1. OneOf(Enrolment \cup {"update"})'
        BY <2>7, <3>0 DEF EnrolmentFits, OneOf
      <4>2. ASSUME Of(authNet', Enrolment \cup {"update"}) # {}
            PROVE  cookie' # None /\ tab'.sess # Gone /\ tab'.at # "login"
        <5>1. PICK k : k \in Of(authNet, Enrolment \cup {"update"})
          BY <2>7, <4>2
        <5>2. cookie' # None
          BY <2>1, <3>0, <5>1 DEF EnrolmentFits, c
        <5>3. tab'.sess # Gone
          BY <2>1, <2>6, <5>2, Sessions DEF s
        <5> QED
          BY <2>6, <3>0, <5>1, <5>2, <5>3 DEF EnrolmentFits
      <4>3. \A j \in Of(authNet', Enrolment) : tab'.at = "security" /\ authNet'[j].arg.visit = tab'.visit
        BY <2>6, <2>7, <3>0 DEF EnrolmentFits, Of
      <4>4. \A k \in Of(authNet', Enrolment \cup {"update"}), j \in Of(authNet', {"session"}) :
               /\ authNet'[k].op \notin {"enable", "update"} /\ authNet'[j].arg.cookie # None
               /\ authNet'[j].st = "ok" => authNet'[j].out # None
        BY <2>7, <3>0 DEF EnrolmentFits, Of
      <4>5. \A j \in Of(authNet', {"update"}) :
               /\ authNet'[j].arg.cookie # None
               /\ authNet'[j].st = "ok" => authNet'[j].out # None /\ ~authNet'[j].out.mfa
        BY <2>7, <3>0 DEF EnrolmentFits, Of
      <4> QED
        BY <4>1, <4>2, <4>3, <4>4, <4>5 DEF EnrolmentFits
    <3>4. FactorFits'
      <4>1. /\ Of(authNet', {"setup"}) = Of(authNet, {"setup"}) /\ Of(authNet', {"enable"}) = Of(authNet, {"enable"})
            /\ Of(authNet', {"disable"}) = Of(authNet, {"disable"})
            /\ Of(authNet', {"enable", "disable"}) = Of(authNet, {"enable", "disable"})
            /\ \A j \in Of(authNet', {"enable", "disable"}) : authNet'[j] = authNet[j]
        BY <2>7 DEF Of
      <4>2. \A j \in Of(authNet', {"enable"}) \cup Of(authNet', {"disable"}) : authNet'[j] = authNet[j]
        BY <2>7 DEF Of
      <4> QED
        BY <2>1, <2>6, <3>0, <4>1, <4>2 DEF FactorFits
    <3>5. FlagFits'
      <4> SUFFICES ASSUME account.totp, Of(authNet', {"update"}) = {},
                          \A j \in Of(authNet', {"enable"}) : authNet'[j].st # "ok"
                   PROVE  /\ Clean(cookie')
                          /\ \A j \in Of(authNet', {"session"}) : Clean(authNet'[j].arg.cookie)
                          /\ \A j \in Of(authNet', {"session", "signin"}) :
                                authNet'[j].st = "ok" => Clean(authNet'[j].out)
        BY <2>1 DEF FlagFits, Clean
      <4>1. Of(authNet, {"update"}) = {} /\ \A j \in Of(authNet, {"enable"}) : authNet[j].st # "ok"
        <5>1. Of(authNet', {"enable"}) = Of(authNet, {"enable"}) /\ Of(authNet', {"update"}) = Of(authNet, {"update"})
          BY <2>7
        <5> QED
          BY <2>7, <5>1 DEF Of
      <4>2. /\ \A j \in Of(authNet, {"session"}) : Clean(authNet[j].arg.cookie)
            /\ \A j \in Of(authNet, {"session", "signin"}) : authNet[j].st = "ok" => Clean(authNet[j].out)
        BY <3>0, <4>1 DEF FlagFits
      <4>3. Clean(cookie')
        BY <2>1, <4>2 DEF c
      <4> QED
        BY <2>7, <4>2, <4>3 DEF Of
    <3> QED
      BY <3>1, <3>2, <3>3, <3>4, <3>5 DEF AuthCalm
  <2> QED
    BY <1>0, <2>1, <2>2, <2>5, <2>8, AuthBasics
<1> QED
  BY <1>1, <1>2

\* A step of the enrolment is asked for.
LEMMA AuthEnrolStep ==
    ASSUME AuthOk, SetUp \/ Disable \/ \E code : Enable(code)
    PROVE  AuthOk'
<1> DEFINE calm == Of(authNet, Enrolment \cup {"session", "update"}) = {}
           k == Click(calm)
           visit == tab.visit
           sess == tab.sess
           d(op, code) == Call(op, [visit |-> visit, code |-> code, sess |-> sess])
<1>0. /\ IsNet(authNet) /\ TabOk(tab) /\ clock \in Nat /\ cookie \in Session \cup {None}
      /\ tab.calm => LoginFits /\ SignOutFits /\ EnrolmentFits /\ FactorFits /\ FlagFits
  BY DEF AuthOk, AuthShape, AuthCalm
<1>1. \A op, code : /\ d(op, code).op = op /\ d(op, code).st = "sent" /\ IsCall(d(op, code))
                    /\ d(op, code).arg.visit = tab.visit
  BY CallIsCall DEF Call
<1>2. EnrolClick = k
  BY DEF EnrolClick
<1>3. calm => Of(authNet, Enrolment) = {} /\ Of(authNet, {"session"}) = {} /\ Of(authNet, {"update"}) = {}
  BY DEF Of
<1> HIDE DEF calm
<1>4. /\ TabOk(k) /\ k.at = tab.at /\ k.visit = tab.visit /\ k.sess = tab.sess /\ k.enabled = tab.enabled
      /\ k.signingOut = tab.signingOut /\ k.submitting = tab.submitting /\ (k.calm => tab.calm /\ calm)
  BY <1>0, TabClick DEF TabOk
<1> HIDE DEF k
<1> DEFINE v == [k EXCEPT !.verifying = TRUE]
           x == [k EXCEPT !.disabling = TRUE]
<1>5. \A ui \in {k, v, x} :
         /\ TabOk(ui) /\ ui.at = tab.at /\ ui.visit = tab.visit /\ ui.sess = tab.sess /\ ui.enabled = tab.enabled
         /\ ui.signingOut = tab.signingOut /\ ui.submitting = tab.submitting /\ ui.calm = k.calm
  BY <1>4 DEF TabOk
<1> HIDE DEF v, x
<1>6. /\ SignedIn(tab) /\ tab.at = "security" /\ account' = account /\ cookie' = cookie /\ clock' = clock
      /\ tab' \in {k, v, x} /\ Room(authNet, 1)
      /\ \E op, code : /\ op \in Enrolment /\ (op = "setup" => ~tab.enabled)
                       /\ authNet' = Send(authNet, op, [visit |-> visit, code |-> code, sess |-> sess])
  <2>1. CASE SetUp
    BY <1>2, <2>1 DEF SetUp, Enrol, CanClick, OnTab, Enrolment
  <2>2. CASE Disable
    BY <1>2, <2>2 DEF Disable, Enrol, CanClick, OnTab, Enrolment, x
  <2>3. ASSUME NEW code, Enable(code)
        PROVE  /\ SignedIn(tab) /\ tab.at = "security" /\ account' = account /\ cookie' = cookie /\ clock' = clock
               /\ tab' = v /\ Room(authNet, 1)
               /\ authNet' = Send(authNet, "enable", [visit |-> visit, code |-> code, sess |-> sess])
    BY <1>2, <2>3 DEF Enable, Enrol, CanClick, OnTab, v
  <2> QED
    BY <2>1, <2>2, <2>3 DEF Enrolment
<1>7. PICK op, code : /\ op \in Enrolment /\ (op = "setup" => ~tab.enabled)
                      /\ authNet' = Send(authNet, op, [visit |-> visit, code |-> code, sess |-> sess])
  BY <1>6
<1> DEFINE c == d(op, code)
<1>8. PICK i \in Slot \ Pending(authNet) : authNet' = Put(authNet, i, c)
  BY <1>0, <1>6, <1>7, SendingIntoRoom
<1>9. c.op = op /\ op \in Enrolment /\ c.st = "sent" /\ IsCall(c) /\ c.arg.visit = tab.visit /\ c # Free
  BY <1>1, <1>7 DEF Free
<1> HIDE DEF d, c
<1>10. \A j \in Pending(authNet') : (j = i /\ authNet'[j] = c) \/ (j # i /\ j \in Pending(authNet) /\ authNet'[j] = authNet[j])
  BY <1>8 DEF Pending, Put
<1>11. /\ TabOk(tab') /\ tab'.at = tab.at /\ tab'.visit = tab.visit /\ tab'.sess = tab.sess /\ tab'.enabled = tab.enabled
       /\ tab'.signingOut = tab.signingOut /\ tab'.submitting = tab.submitting /\ (tab'.calm => tab.calm /\ calm)
  BY <1>4, <1>5, <1>6
<1>12. ASSUME tab'.calm PROVE AuthCalm'
  <2>0. /\ LoginFits /\ SignOutFits /\ EnrolmentFits /\ FactorFits /\ FlagFits
        /\ Of(authNet, Enrolment) = {} /\ Of(authNet, {"session"}) = {} /\ Of(authNet, {"update"}) = {}
    BY <1>0, <1>3, <1>11, <1>12
  <2>1. LoginFits'
    <3>1. \A j \in Of(authNet', {"precheck", "signin"}) : j \in Of(authNet, {"precheck", "signin"})
      BY <1>9, <1>10 DEF Of, Enrolment
    <3>2. SignedIn(tab') => cookie' # None
      BY <1>6, <1>11, <2>0 DEF LoginFits, SignedIn
    <3> QED
      BY <1>11, <2>0, <3>1, <3>2 DEF LoginFits, OneOf
  <2>2. SignOutFits'
    <3>1. \A j \in Of(authNet', {"signout"}) : j \in Of(authNet, {"signout"})
      BY <1>9, <1>10 DEF Of, Enrolment
    <3> QED
      BY <1>11, <2>0, <3>1 DEF SignOutFits, OneOf
  <2>3. EnrolmentFits'
    <3>1. \A j \in Of(authNet', Enrolment \cup {"update"}) : j = i /\ authNet'[j] = c
      BY <1>10, <2>0 DEF Of
    <3>2. Of(authNet', {"session"}) = {} /\ Of(authNet', {"update"}) = {}
      BY <1>9, <1>10, <2>0 DEF Of, Enrolment
    <3>3. cookie' # None /\ tab'.sess # Gone /\ tab'.at # "login" /\ tab'.at = "security"
      BY <1>6, <1>11, <2>0 DEF LoginFits, SignedIn
    <3>4. \A j \in Of(authNet', Enrolment) : authNet'[j].arg.visit = tab'.visit
      BY <1>9, <1>11, <3>1 DEF Of
    <3> QED
      BY <3>1, <3>2, <3>3, <3>4 DEF EnrolmentFits, OneOf
  <2>4. tab.enabled = account.totp
    BY <1>6, <2>0 DEF FactorFits, Of, Enrolment
  <2>5. FactorFits'
    <3>1. Of(authNet', {"setup"}) # {} => ~account.totp
      <4> SUFFICES ASSUME NEW j \in Of(authNet', {"setup"}) PROVE ~account.totp
        OBVIOUS
      <4>1. op = "setup"
        BY <1>9, <1>10, <2>0 DEF Of, Enrolment
      <4> QED
        BY <1>7, <2>4, <4>1
    <3>2. \A j \in Of(authNet', {"enable"}) \cup Of(authNet', {"disable"}) : authNet'[j].st # "ok"
      BY <1>9, <1>10, <2>0 DEF Of, Enrolment
    <3> QED
      BY <1>6, <1>11, <2>0, <2>4, <3>1, <3>2 DEF FactorFits
  <2>6. FlagFits'
    <3> SUFFICES ASSUME account.totp
                 PROVE  /\ Clean(cookie)
                        /\ \A j \in Of(authNet', {"session"}) : Clean(authNet'[j].arg.cookie)
                        /\ \A j \in Of(authNet', {"session", "signin"}) : authNet'[j].st = "ok" => Clean(authNet'[j].out)
      BY <1>6 DEF FlagFits, Clean
    <3>1. /\ Clean(cookie)
          /\ \A j \in Of(authNet, {"session"}) : Clean(authNet[j].arg.cookie)
          /\ \A j \in Of(authNet, {"session", "signin"}) : authNet[j].st = "ok" => Clean(authNet[j].out)
      BY <2>0 DEF FlagFits, Of, Enrolment
    <3>2. \A j \in Of(authNet', {"session"}) : j \in Of(authNet, {"session"}) /\ authNet'[j] = authNet[j]
      BY <1>9, <1>10 DEF Of, Enrolment
    <3>3. \A j \in Of(authNet', {"session", "signin"}) : j \in Of(authNet, {"session", "signin"}) /\ authNet'[j] = authNet[j]
      BY <1>9, <1>10 DEF Of, Enrolment
    <3> QED
      BY <3>1, <3>2, <3>3
  <2> QED
    BY <2>1, <2>2, <2>3, <2>5, <2>6 DEF AuthCalm
<1>13. AuthCallFits(c)
  BY <1>9 DEF AuthCallFits, Enrolment
<1> QED
  BY <1>0, <1>6, <1>8, <1>9, <1>11, <1>12, <1>13, AuthBasics

\* The factor is on: the page turns and asks for a session without the flag.
LEMMA AuthEnabledStep ==
    ASSUME AuthOk, NEW i \in Slot, Enabled(i), Ok(authNet, i, "enable")
    PROVE  AuthOk'
<1> DEFINE c == authNet[i]
           arg == [SessionCall(cookie, c.arg.sess.mfa) EXCEPT !.visit = c.arg.visit]
           d == Call("update", arg)
           p == [tab EXCEPT !.enabled = TRUE, !.qr = None]
<1>0. /\ IsNet(authNet) /\ TabOk(tab) /\ clock \in Nat /\ cookie \in Session \cup {None}
      /\ c # Free /\ c.op = "enable" /\ c.st = "ok"
      /\ i \in Of(authNet, {"enable"}) /\ i \in Of(authNet, Enrolment) /\ i \in Of(authNet, Enrolment \cup {"update"})
      /\ tab.calm => LoginFits /\ SignOutFits /\ EnrolmentFits /\ FactorFits /\ FlagFits
  BY DEF AuthOk, AuthShape, AuthCalm, Ok, Of, Pending, Enrolment
<1>1. /\ account' = account /\ cookie' = cookie /\ clock' = clock
      /\ tab' = (IF c.arg.visit = tab.visit THEN p ELSE tab)
      /\ authNet' = Put(authNet, i, d)
  <2>1. c.st # "err"
    BY <1>0
  <2>2. tab' = OnPageOf(i, p) /\ authNet' = AskUpdate(i) /\ OnTab
    BY <2>1 DEF Enabled, Err
  <2>3. authNet' = Then(authNet, i, "update", arg)
    BY <2>2 DEF AskUpdate
  <2>4. Then(authNet, i, "update", arg) = Put(authNet, i, Call("update", arg))
    BY <1>0, Ending
  <2> QED
    BY <2>2, <2>3, <2>4 DEF OnPageOf, OnTab
<1>2. arg.cookie = cookie
  <2> DEFINE forced == c.arg.sess.mfa
             visit == c.arg.visit
  <2> HIDE DEF forced, visit
  <2>1. [SessionCall(cookie, forced) EXCEPT !.visit = visit].cookie = cookie
    BY DEF SessionCall
  <2> QED
    BY <2>1 DEF forced, visit
<1>3. d.op = "update" /\ d.st = "sent" /\ d.arg.cookie = cookie /\ IsCall(d)
  <2> HIDE DEF arg
  <2> QED
    BY <1>2, CallIsCall DEF Call
<1> HIDE DEF d, arg
<1>4. /\ TabOk(p) /\ p.at = tab.at /\ p.visit = tab.visit /\ p.sess = tab.sess /\ p.enabled = TRUE
      /\ p.signingOut = tab.signingOut /\ p.submitting = tab.submitting /\ p.calm = tab.calm
  BY <1>0 DEF TabOk
<1> HIDE DEF p
<1>5. /\ TabOk(tab') /\ tab'.at = tab.at /\ tab'.visit = tab.visit /\ tab'.sess = tab.sess
      /\ tab'.signingOut = tab.signingOut /\ tab'.submitting = tab.submitting /\ tab'.calm = tab.calm
      /\ c.arg.visit = tab.visit => tab'.enabled = TRUE
  BY <1>0, <1>1, <1>4
<1> HIDE DEF c
<1>6. \A j \in Pending(authNet') : (j = i /\ authNet'[j] = d) \/ (j # i /\ j \in Pending(authNet) /\ authNet'[j] = authNet[j])
  BY <1>1 DEF Pending, Put
<1>7. ASSUME tab'.calm PROVE AuthCalm'
  <2>0. /\ LoginFits /\ SignOutFits /\ EnrolmentFits /\ FactorFits /\ FlagFits
        /\ \A j \in Of(authNet, Enrolment \cup {"update"}) : j = i
    BY <1>0, <1>5, <1>7 DEF EnrolmentFits, OneOf
  <2>1. LoginFits'
    <3>1. \A j \in Of(authNet', {"precheck", "signin"}) : j \in Of(authNet, {"precheck", "signin"})
      BY <1>3, <1>6 DEF Of
    <3> QED
      BY <1>1, <1>5, <2>0, <3>1 DEF LoginFits, OneOf, SignedIn
  <2>2. SignOutFits'
    <3>1. \A j \in Of(authNet', {"signout"}) : j \in Of(authNet, {"signout"})
      BY <1>3, <1>6 DEF Of
    <3> QED
      BY <1>5, <2>0, <3>1 DEF SignOutFits, OneOf
  <2>3. \A j \in Of(authNet', Enrolment \cup {"update"}) : j = i /\ authNet'[j] = d
    BY <1>6, <2>0 DEF Of
  <2>4. /\ Of(authNet', Enrolment) = {} /\ Of(authNet', {"setup"}) = {} /\ Of(authNet', {"enable"}) = {}
        /\ Of(authNet', {"disable"}) = {} /\ i \in Of(authNet', {"update"})
    <3>1. i \in Of(authNet', {"update"})
      <4>1. authNet'[i] = d /\ d # Free
        BY <1>1, <1>3 DEF Put, Free
      <4> QED
        BY <1>3, <4>1 DEF Of, Pending
    <3>2. \A j \in Pending(authNet') : authNet'[j].op \notin Enrolment
      <4> SUFFICES ASSUME NEW j \in Pending(authNet'), authNet'[j].op \in Enrolment PROVE FALSE
        OBVIOUS
      <4>1. authNet'[j] = d
        BY <2>3 DEF Of
      <4> QED
        BY <1>3, <4>1 DEF Enrolment
    <3> QED
      BY <3>1, <3>2 DEF Of, Enrolment
  <2>5. EnrolmentFits'
    <3>1. Of(authNet, {"session"}) = {}
      BY <1>0, <2>0 DEF EnrolmentFits, c
    <3>2. Of(authNet', {"session"}) = {}
      BY <1>3, <1>6, <3>1 DEF Of
    <3>3. cookie' # None /\ tab'.sess # Gone /\ tab'.at # "login"
      BY <1>0, <1>1, <1>5, <2>0 DEF EnrolmentFits
    <3>4. \A j \in Of(authNet', {"update"}) : authNet'[j].arg.cookie # None /\ authNet'[j].st # "ok"
      <4> SUFFICES ASSUME NEW j \in Of(authNet', {"update"}) PROVE authNet'[j].arg.cookie # None /\ authNet'[j].st # "ok"
        OBVIOUS
      <4>1. authNet'[j] = d
        BY <2>3 DEF Of
      <4> QED
        BY <1>1, <1>3, <3>3, <4>1
    <3> QED
      BY <2>3, <2>4, <3>2, <3>3, <3>4 DEF EnrolmentFits, OneOf
  <2>6. FactorFits'
    <3>1. account.totp = TRUE /\ (account.totp => account.app = account.secret)
      BY <1>0, <2>0 DEF FactorFits, c
    <3>2. tab'.enabled = TRUE
      BY <1>0, <1>5, <2>0 DEF EnrolmentFits, c
    <3> QED
      BY <1>1, <2>4, <3>1, <3>2 DEF FactorFits
  <2>7. FlagFits'
    BY <2>4 DEF FlagFits
  <2> QED
    BY <2>1, <2>2, <2>5, <2>6, <2>7 DEF AuthCalm
<1>8. AuthCallFits(d)
  BY <1>0, <1>3 DEF AuthCallFits
<1> QED
  BY <1>0, <1>1, <1>3, <1>5, <1>7, <1>8, AuthBasics

\* The factor is off.
LEMMA AuthDisabledStep ==
    ASSUME AuthOk, NEW i \in Slot, Disabled(i), Ok(authNet, i, "disable")
    PROVE  AuthOk'
<1> DEFINE c == authNet[i]
           f == [tab EXCEPT !.disabling = FALSE]
           p == [f EXCEPT !.enabled = FALSE]
<1>0. /\ IsNet(authNet) /\ TabOk(tab) /\ clock \in Nat /\ cookie \in Session \cup {None}
      /\ c # Free /\ c.op = "disable" /\ c.st = "ok"
      /\ i \in Of(authNet, {"disable"}) /\ i \in Of(authNet, Enrolment) /\ i \in Of(authNet, Enrolment \cup {"update"})
      /\ tab.calm => LoginFits /\ SignOutFits /\ EnrolmentFits /\ FactorFits /\ FlagFits
  BY DEF AuthOk, AuthShape, AuthCalm, Ok, Of, Pending, Enrolment
<1>1. /\ account' = account /\ cookie' = cookie /\ clock' = clock
      /\ tab' = (IF c.arg.visit = tab.visit THEN p ELSE tab)
      /\ authNet' = Put(authNet, i, Free)
  <2>1. Finish(i, IF c.arg.visit = tab.visit THEN p ELSE tab) /\ OnTab
    BY DEF Disabled, OnPageOf
  <2>2. c.st # "err"
    BY <1>0
  <2> HIDE DEF p
  <2>3. tab' = (IF c.arg.visit = tab.visit THEN p ELSE tab) /\ authNet' = Done(authNet, i)
    BY <2>1, <2>2, Zenon DEF Finish
  <2>4. Done(authNet, i) = Put(authNet, i, Free)
    BY <1>0, Ending
  <2> QED
    BY <2>1, <2>3, <2>4 DEF OnTab
<1>2. /\ TabOk(p) /\ p.at = tab.at /\ p.visit = tab.visit /\ p.sess = tab.sess /\ p.enabled = FALSE
      /\ p.signingOut = tab.signingOut /\ p.submitting = tab.submitting /\ p.calm = tab.calm
  BY <1>0 DEF TabOk
<1> HIDE DEF p, f
<1>3. /\ TabOk(tab') /\ tab'.at = tab.at /\ tab'.visit = tab.visit /\ tab'.sess = tab.sess
      /\ tab'.signingOut = tab.signingOut /\ tab'.submitting = tab.submitting /\ tab'.calm = tab.calm
      /\ c.arg.visit = tab.visit => tab'.enabled = FALSE
  BY <1>0, <1>1, <1>2
<1>4. \A j \in Pending(authNet') : j # i /\ j \in Pending(authNet) /\ authNet'[j] = authNet[j]
  BY <1>1 DEF Pending, Put
<1>5. ASSUME tab'.calm PROVE AuthCalm'
  <2>0. /\ LoginFits /\ SignOutFits /\ EnrolmentFits /\ FactorFits /\ FlagFits
        /\ \A j \in Of(authNet, Enrolment \cup {"update"}) : j = i
    BY <1>0, <1>3, <1>5 DEF EnrolmentFits, OneOf
  <2>1. \A ops : Of(authNet', ops) \subseteq Of(authNet, ops)
    BY <1>4 DEF Of
  <2>2. /\ Of(authNet', Enrolment \cup {"update"}) = {} /\ Of(authNet', {"update"}) = {} /\ Of(authNet', Enrolment) = {}
        /\ Of(authNet', {"setup"}) = {} /\ Of(authNet', {"enable"}) = {} /\ Of(authNet', {"disable"}) = {}
    <3>1. \A j \in Pending(authNet') : authNet'[j].op \notin Enrolment \cup {"update"}
      BY <1>4, <2>0 DEF Of
    <3> QED
      BY <3>1 DEF Of, Enrolment
  <2>3. LoginFits' /\ SignOutFits'
    BY <1>1, <1>3, <2>0, <2>1 DEF LoginFits, SignOutFits, OneOf, SignedIn
  <2>4. EnrolmentFits'
    BY <2>2 DEF EnrolmentFits, OneOf
  <2>5. account.totp = FALSE
    BY <1>0, <2>0 DEF FactorFits
  <2>6. tab'.enabled = FALSE
    BY <1>0, <1>3, <2>0 DEF EnrolmentFits
  <2>7. FactorFits' /\ FlagFits'
    BY <1>1, <2>2, <2>5, <2>6 DEF FactorFits, FlagFits
  <2> QED
    BY <2>3, <2>4, <2>7 DEF AuthCalm
<1> QED
  BY <1>0, <1>1, <1>3, <1>5, AuthBasics

\* update() is answered: the session goes with its cookie, and the user who was sent
\* to the security page is let out of it.
LEMMA AuthUpdatedStep ==
    ASSUME AuthOk, NEW i \in Slot, Updated(i)
    PROVE  AuthOk'
<1> DEFINE c == authNet[i]
           got == c.st = "ok" /\ c.out # None
           q == [tab EXCEPT !.verifying = FALSE]
           ready == IF c.arg.visit = tab.visit THEN q ELSE tab
           s == [ready EXCEPT !.sess = c.out]
           n == [ready EXCEPT !.calm = FALSE]
           u == IF got THEN s ELSE n
           read == Watched(u)
           land == Land("home")'
<1>0. /\ IsNet(authNet) /\ TabOk(tab) /\ clock \in Nat /\ cookie \in Session \cup {None} /\ AuthCallFits(c)
      /\ c # Free /\ c.op = "update" /\ i \in Pending(authNet)
      /\ i \in Of(authNet, {"update"}) /\ i \in Of(authNet, Enrolment \cup {"update"})
      /\ tab.calm => LoginFits /\ SignOutFits /\ EnrolmentFits /\ FactorFits /\ FlagFits
  BY DEF AuthOk, AuthShape, AuthCalm, AuthCalls, Updated, Settled, Ok, Err, Of, Pending, Enrolment
<1>1. /\ account' = account /\ clock' = clock /\ authNet' = Put(authNet, i, Free)
      /\ cookie' = (IF c.st = "ok" THEN c.out ELSE cookie)
      /\ tab' = read \/ tab' = NewPage(read, land, account.totp)
  <2>1. Ok(authNet, i, "update") <=> c.st = "ok"
    BY <1>0 DEF Ok
  <2>2. tab' = read \/ tab' = NewPage(read, land, account.totp)
    BY <2>1 DEF Updated, OnPageOf
  <2>3. authNet' = Put(authNet, i, Free)
    BY <1>0, Ending DEF Updated
  <2> HIDE DEF read, land
  <2> QED
    BY <2>1, <2>2, <2>3 DEF Updated
<1>2. cookie' \in Session \cup {None}
  BY <1>0, <1>1 DEF AuthCallFits
<1>3. /\ TabOk(q) /\ q.at = tab.at /\ q.visit = tab.visit /\ q.sess = tab.sess /\ q.enabled = tab.enabled
      /\ q.signingOut = tab.signingOut /\ q.submitting = tab.submitting /\ q.calm = tab.calm
  BY <1>0 DEF TabOk
<1> HIDE DEF q
<1>4. /\ TabOk(ready) /\ ready.at = tab.at /\ ready.enabled = tab.enabled
      /\ ready.signingOut = tab.signingOut /\ ready.submitting = tab.submitting /\ ready.calm = tab.calm
  BY <1>0, <1>3
<1> HIDE DEF ready, c
<1>5. /\ TabOk(s) /\ s.at = tab.at /\ s.enabled = tab.enabled /\ s.sess = c.out
      /\ s.signingOut = tab.signingOut /\ s.submitting = tab.submitting /\ s.calm = tab.calm
  BY <1>4 DEF TabOk
<1>6. TabOk(n) /\ n.calm = FALSE
  BY <1>4 DEF TabOk
<1> HIDE DEF s, n, got
<1>7. TabOk(u) /\ (got => u = s) /\ (~got => u.calm = FALSE)
  BY <1>5, <1>6
<1> HIDE DEF u
<1>8. /\ TabOk(read) /\ read.calm = u.calm /\ read.at = u.at /\ read.enabled = u.enabled /\ read.sess = u.sess
      /\ read.signingOut = u.signingOut /\ read.submitting = u.submitting
  BY <1>7, TabWatched DEF TabOk
<1> HIDE DEF read
<1>9. TabOk(tab') /\ tab'.calm = u.calm
  <2>1. CASE tab' = read
    BY <1>8, <2>1
  <2>2. CASE tab' = NewPage(read, land, account.totp)
    <3> HIDE DEF land
    <3> QED
      BY <1>8, <2>2, PageShown
  <2> QED
    BY <1>1, <2>1, <2>2
<1>10. ASSUME tab'.calm PROVE AuthCalm'
  <2>1. got /\ u = s
    <3>1. u.calm # FALSE
      BY <1>9, <1>10, Zenon
    <3> QED
      BY <1>7, <3>1
  <2>2. tab.calm
    BY <1>5, <1>9, <1>10, <2>1
  <2>3. /\ LoginFits /\ SignOutFits /\ EnrolmentFits /\ FactorFits /\ FlagFits
        /\ \A j \in Of(authNet, Enrolment \cup {"update"}) : j = i
    BY <1>0, <2>2 DEF EnrolmentFits, OneOf
  <2>4. cookie' = c.out /\ c.out \in Session /\ c.out # None /\ ~c.out.mfa /\ Of(authNet, {"session"}) = {}
        /\ tab.at # "login"
    <3>1. c.st = "ok" /\ c.out # None
      BY <2>1 DEF got
    <3> QED
      BY <1>0, <1>1, <1>2, <2>3, <3>1 DEF EnrolmentFits, c
  <2>5. land = "home"
    BY <2>4 DEF Land
  <2>6. /\ tab'.at \in {tab.at, "home"} /\ (tab'.at # "home" => tab'.at = tab.at /\ tab'.enabled = tab.enabled)
        /\ tab'.sess = c.out
    <3>1. CASE tab' = read
      BY <1>5, <1>8, <2>1, <3>1
    <3>2. CASE tab' = NewPage(read, land, account.totp)
      <4> HIDE DEF land
      <4>1. tab'.at = land /\ tab'.sess = read.sess
        BY <1>8, <3>2, PageShown
      <4> QED
        BY <1>5, <1>8, <2>1, <2>5, <4>1
    <3> QED
      BY <1>1, <3>1, <3>2
  <2>7. Watching(tab.at) /\ tab.signingOut => Watching(tab'.at) /\ tab'.signingOut
    <3>1. CASE tab' = read
      BY <1>5, <1>8, <2>1, <3>1
    <3>2. CASE tab' = NewPage(read, land, account.totp)
      <4> HIDE DEF land
      <4>1. tab'.at = land /\ tab'.signingOut = (read.signingOut /\ Watching(read.at) /\ Watching(land))
        BY <1>8, <3>2, PageShown
      <4>2. read.at = tab.at /\ read.signingOut = tab.signingOut /\ Watching(land)
        BY <1>5, <1>8, <2>1, <2>5 DEF Watching
      <4> QED
        BY <4>1, <4>2, Zenon
    <3> QED
      BY <1>1, <3>1, <3>2
  <2>8. \A j \in Pending(authNet') : j # i /\ j \in Pending(authNet) /\ authNet'[j] = authNet[j]
    BY <1>1 DEF Pending, Put
  <2>9. \A ops : Of(authNet', ops) \subseteq Of(authNet, ops)
    BY <2>8 DEF Of
  <2>10. /\ Of(authNet', Enrolment \cup {"update"}) = {} /\ Of(authNet', {"update"}) = {} /\ Of(authNet', Enrolment) = {}
         /\ Of(authNet', {"setup"}) = {} /\ Of(authNet', {"enable"}) = {} /\ Of(authNet', {"disable"}) = {}
         /\ Of(authNet', {"session"}) = {} /\ Of(authNet', {"precheck", "signin"}) = {}
    <3>1. \A j \in Pending(authNet') : authNet'[j].op \notin Enrolment \cup {"update", "session", "precheck", "signin"}
      BY <2>3, <2>4, <2>8 DEF LoginFits, Of
    <3> QED
      BY <3>1 DEF Of, Enrolment
  <2>11. LoginFits'
    BY <2>4, <2>10 DEF LoginFits, OneOf
  <2>12. SignOutFits'
    BY <2>3, <2>7, <2>9 DEF SignOutFits, OneOf
  <2>13. EnrolmentFits'
    BY <2>10 DEF EnrolmentFits, OneOf
  <2>14. FactorFits'
    <3>1. tab.at = "security" => tab.enabled = account.totp
      <4>1. \A j \in Of(authNet, {"enable", "disable"}) : authNet[j].st # "ok"
        BY <1>0, <2>3 DEF Of, Enrolment, c
      <4> QED
        BY <2>3, <4>1 DEF FactorFits
    <3>2. tab'.at = "security" => tab'.enabled = account.totp
      BY <2>6, <3>1
    <3>3. account.totp => account.app = account.secret
      BY <2>3 DEF FactorFits
    <3> QED
      BY <1>1, <2>10, <3>2, <3>3 DEF FactorFits
  <2>15. FlagFits'
    <3>1. Of(authNet', {"session", "signin"}) = {}
      BY <2>10 DEF Of
    <3> QED
      BY <2>4, <2>10, <3>1 DEF FlagFits, Clean
  <2> QED
    BY <2>11, <2>12, <2>13, <2>14, <2>15 DEF AuthCalm
<1>11. \A j \in Slot : authNet[j] # Free => authNet[j] = authNet[j]
  OBVIOUS
<1> QED
  BY <1>0, <1>1, <1>2, <1>9, <1>10, AuthBasics

LEMMA AuthStep == AuthOk /\ [SignInNext]_authVars => AuthOk'
<1> SUFFICES ASSUME AuthOk, [SignInNext]_authVars PROVE AuthOk'
  OBVIOUS
<1>1. CASE \/ \E to \in {"login", "home", "admin", "security"} : Navigate(to)
           \/ WatchGone
  BY <1>1, AuthLeaveStep
<1>2. CASE \/ \E right \in BOOLEAN : SubmitLogin(right)
           \/ \E code \in {0, account.app} : SubmitCode(code)
           \/ OtherAccount \/ PollSession \/ WatchError \/ CallApi \/ Tick \/ UNCHANGED authVars
  <2>1. ASSUME NEW code, SubmitCode(code) PROVE AuthOk'
    BY <2>1, AuthFormStep, Zenon
  <2> QED
    BY <1>2, <2>1, AuthFormStep
<1>3. CASE \E exchanged \in BOOLEAN : SignInWithProvider(exchanged)
  BY <1>3, AuthReloadStep
<1>4. CASE SetUp \/ Disable \/ \E code \in {0, tab.qr} : Enable(code)
  <2>1. ASSUME NEW code, Enable(code) PROVE AuthOk'
    BY <2>1, AuthEnrolStep, Zenon
  <2> QED
    BY <1>4, <2>1, AuthEnrolStep
<1>5. CASE SignOutElsewhere
  BY <1>5, AuthSessionStep
<1>6. ASSUME NEW i \in Slot,
             \/ ServePrecheck(i) \/ ServeSignIn(i) \/ ServeSession(i) \/ ServeApi(i) \/ ServeSignOut(i)
             \/ ServeSetUp(i) \/ ServeEnable(i) \/ ServeDisable(i) \/ AuthCallFails(i)
      PROVE  AuthOk'
  BY <1>6, AuthServerStep
<1>7. ASSUME NEW i \in Slot,
             \/ Prechecked(i) \/ SignInFailed(i) \/ CallDropped(i) \/ ApiAnswered(i) \/ SetUpRead(i)
      PROVE  AuthOk'
  BY <1>7, AuthHeardStep
<1>8. ASSUME NEW i \in Slot, SignedInNow(i) PROVE AuthOk'
  BY <1>8, AuthSignedInStep
<1>9. ASSUME NEW i \in Slot, SessionRead(i) PROVE AuthOk'
  BY <1>9, AuthSessionStep
<1>10. ASSUME NEW i \in Slot, SignedOut(i) PROVE AuthOk'
  BY <1>10, AuthReloadStep
<1>11. ASSUME NEW i \in Slot, Enabled(i) PROVE AuthOk'
  <2>1. Ok(authNet, i, "enable") \/ Err(authNet, i, "enable")
    BY <1>11 DEF Enabled
  <2> QED
    BY <1>11, <2>1, AuthEnabledStep, AuthHeardStep
<1>12. ASSUME NEW i \in Slot, Updated(i) PROVE AuthOk'
  BY <1>12, AuthUpdatedStep
<1>13. ASSUME NEW i \in Slot, Disabled(i) PROVE AuthOk'
  <2>1. Ok(authNet, i, "disable") \/ Err(authNet, i, "disable")
    BY <1>13 DEF Disabled, Settled
  <2> QED
    BY <1>13, <2>1, AuthDisabledStep, AuthHeardStep
<1> QED
  BY <1>1, <1>2, <1>3, <1>4, <1>5, <1>6, <1>7, <1>8, <1>9, <1>10, <1>11, <1>12, <1>13 DEF SignInNext

LEMMA AuthAlways == SignInSpec => []AuthOk
  BY AuthInitOk, AuthStep, PTL DEF SignInSpec

\* What is stored for an account with the second factor on is what the user's app
\* holds, and the security page says what is so (TotpEnrollment.tsx, routers/auth.py):
\* one step of an enrolment at a time is on its way, from the page on display.
THEOREM EnrolmentIsSound == SignInSpec => []EnrolledAppWorks
  BY AuthAlways, AuthOkWorks, PTL

\* Whoever has set up the factor is let out of the security page (lib/auth.ts,
\* middleware.ts): no session request carries an older cookie past update().
THEOREM FactorLetsThrough == SignInSpec => []MfaStopsRedirecting
  BY AuthAlways, AuthOkWorks, PTL

\* However many ways a session is found to have ended, the tab signs out once
\* (SessionExpiryWatcher.tsx).
THEOREM SignsOutOnce == SignInSpec => []OneSignOut
  BY AuthAlways, AuthOkWorks, PTL

-----------------------------------------------------------------------------
(***************************************************************************)
(* The portal: a step of it is one of the page on display, and leaves the  *)
(* variables of every other page as they are.                              *)
(***************************************************************************)
LEMMA PortalRefines ==
    /\ Init => BoardsInit /\ BoardInit /\ EmbedInit /\ ChecksInit /\ SignInInit
    /\ [Next]_vars => /\ [BoardsNext]_boardsVars /\ [BoardNext]_boardVars /\ [EmbedNext]_embedVars
                      /\ [ChecksNext]_checkVars /\ [SignInNext]_authVars
<1>1. Init => BoardsInit /\ BoardInit /\ EmbedInit /\ ChecksInit /\ SignInInit
  BY DEF Init
<1>2. ASSUME [Next]_vars
      PROVE  /\ [BoardsNext]_boardsVars /\ [BoardNext]_boardVars /\ [EmbedNext]_embedVars
             /\ [ChecksNext]_checkVars /\ [SignInNext]_authVars
  <2>1. CASE UNCHANGED vars
    BY <2>1 DEF vars
  <2>2. ASSUME NEW s \in Screens, Others(s)
        PROVE  /\ s # "boards" => UNCHANGED boardsVars
               /\ s # "board" => UNCHANGED boardVars
               /\ s # "embed" => UNCHANGED embedVars
               /\ s # "conditions" => UNCHANGED checkVars
               /\ s # "session" => UNCHANGED authVars
    BY <2>2, Zenon DEF Others
  <2>3. CASE Next
    <3>1. PICK s \in Screens : /\ Others(s)
                               /\ s = "boards" => BoardsNext
                               /\ s = "board" => BoardNext
                               /\ s = "embed" => EmbedNext
                               /\ s = "conditions" => ChecksNext
                               /\ s = "session" => SignInNext
      BY <2>3, Zenon DEF Next, Screens
    <3> QED
      BY <2>2, <3>1
  <2> QED
    BY <1>2, <2>1, <2>3
<1> QED
  BY <1>1, <1>2

LEMMA PortalIsItsPages == Spec => BoardsSpec /\ BoardSpec /\ EmbedSpec /\ ChecksSpec /\ SignInSpec
  BY PortalRefines, PTL DEF Spec, BoardsSpec, BoardSpec, EmbedSpec, ChecksSpec, SignInSpec

\* In the portal settings a dashboard has embedded can be restored, what is saved of it
\* is of its connection, a report on show is filtered by what is stored and has one
\* refresh planned, a second factor works and lets its user through, and a session
\* that has ended is left once.
THEOREM PortalKeepsItsPromises ==
    Spec => [](/\ SettingsRestorable /\ SavedCoherent /\ RowsFiltered /\ OneRefresh
               /\ EnrolledAppWorks /\ MfaStopsRedirecting /\ OneSignOut)
  BY PortalIsItsPages, EmbeddedSettingsAreKept, SavesAreCoherent, OneRefreshIsPlanned, ReportsAreFiltered,
     EnrolmentIsSound, FactorLetsThrough, SignsOutOnce, PTL

\* A form carries what the user does not change in it: the threshold of a check, what
\* a dashboard embeds, the filters of its viewers.
THEOREM FormsKeepTheRest == Spec => EditsKeepTheRest
<1>1. Spec => []UntouchedIsKept /\ []MetadataKept /\ FiltersKept
  BY PortalIsItsPages, ThresholdsComeBack, SavesKeepMetadata, FiltersAreKept, PTL
<1> QED
  BY <1>1 DEF EditsKeepTheRest

===============================================================================
