------------------------------ MODULE PortalWaits ------------------------------
(***************************************************************************)
(* No page of the portal waits for ever.  For each page an inductive       *)
(* invariant, the ...Waits of its section, says of every flag that makes   *)
(* something on display wait which request on its way will end it; so with *)
(* nothing on its way no flag is up.  A page's step lemma goes action by   *)
(* action: Goes says which requests a handler ends, Underway which it      *)
(* sends, and ...WaitsKept that the flags still up have a request among    *)
(* the rest.  The last section is about the table of reports, which stands *)
(* by itself (ReportsPage): at rest it shows what is so.                   *)
(***************************************************************************)
EXTENDS Portal, ReportsPage, CallsProofs

-----------------------------------------------------------------------------
(* The home page *)

HomeFields == {"on", "items", "favs", "loading", "filter", "only", "query", "view", "busy", "clicks", "calm"}
LoadFields == Kinds \cup {"favourites"}

\* The page loads while its one load is on its way, and nothing else is then; a star
\* that is busy is on the page and has its request.
HomeWaits ==
    /\ IsNet(homeNet) /\ HomeFields \subseteq DOMAIN home
    /\ home.loading => home.busy = {} /\ \E j \in Pending(homeNet) : homeNet[j].op = "load"
    /\ home.busy \subseteq {homeNet[j].arg : j \in {k \in Pending(homeNet) : homeNet[k].op # "load"}}
    /\ home.busy \subseteq Stars(home)

\* There is one load, for a page that is loading.
Loads(net) == {j \in Pending(net) : net[j].op = "load"}
OneLoad == (\A i, j \in Loads(homeNet) : i = j) /\ (Loads(homeNet) # {} => home.loading)

LEMMA HomeWaitsSpin == HomeWaits => HomeSpinners
<1> SUFFICES ASSUME HomeWaits PROVE HomeSpinners
  OBVIOUS
<1>1. home.busy \subseteq {homeNet[i].arg : i \in Pending(homeNet)} \cap Stars(home)
  BY DEF HomeWaits
<1> QED
  BY <1>1 DEF HomeWaits, HomeSpinners, Quiet

\* What the page keeps of its busy stars.
LEMMA OnPageStars ==
    ASSUME NEW ui, HomeFields \subseteq DOMAIN ui
    PROVE  /\ HomeFields \subseteq DOMAIN OnPage(ui) /\ OnPage(ui).loading = ui.loading
           /\ OnPage(ui).busy = ui.busy \cap Stars(ui) /\ Stars(OnPage(ui)) = Stars(ui)
<1>1. /\ HomeFields \subseteq DOMAIN OnPage(ui) /\ OnPage(ui).loading = ui.loading /\ OnPage(ui).busy = ui.busy \cap Stars(ui)
      /\ OnPage(ui).items = ui.items /\ OnPage(ui).favs = ui.favs /\ OnPage(ui).view = ui.view
      /\ OnPage(ui).filter = ui.filter /\ OnPage(ui).only = ui.only /\ OnPage(ui).query = ui.query
  BY DEF OnPage, HomeFields
<1>2. VisibleItems(OnPage(ui)) = VisibleItems(ui)
  BY <1>1 DEF VisibleItems
<1>3. Stars(OnPage(ui)) = Stars(ui)
  BY <1>1, <1>2 DEF Stars
<1> QED
  BY <1>1, <1>3

\* Pages that show the same draw the same stars.
LEMMA SameStars ==
    ASSUME NEW ui, NEW other, other.items = ui.items, other.favs = ui.favs, other.view = ui.view,
           other.filter = ui.filter, other.only = ui.only, other.query = ui.query
    PROVE  Stars(other) = Stars(ui)
<1>1. VisibleItems(other) = VisibleItems(ui)
  BY DEF VisibleItems
<1> QED
  BY <1>1 DEF Stars

\* It is kept when every flag that is up still has a request on its way.
LEMMA HomeWaitsKept ==
    ASSUME HomeWaits, NEW gone, Goes(homeNet, homeNet', gone), HomeFields \subseteq DOMAIN home', home'.busy \subseteq Stars(home)',
           home'.loading => home.loading /\ \A i \in gone : homeNet[i].op # "load",
           home'.loading => home'.busy = {},
           \A star \in home'.busy :
               \/ star \in home.busy /\ \A i \in gone : homeNet[i].arg # star
               \/ \E op \in {"add", "remove"} : Underway(homeNet', op, star)
    PROVE  HomeWaits'
<1>1. ASSUME NEW star \in home'.busy PROVE \E j \in Pending(homeNet') : homeNet'[j].op # "load" /\ homeNet'[j].arg = star
  <2>1. CASE star \in home.busy /\ \A i \in gone : homeNet[i].arg # star
    <3>1. PICK j \in Pending(homeNet) : homeNet[j].op # "load" /\ homeNet[j].arg = star
      BY <2>1 DEF HomeWaits
    <3> QED
      BY <2>1, <3>1 DEF Goes
  <2>2. ASSUME NEW op \in {"add", "remove"}, Underway(homeNet', op, star)
        PROVE  \E j \in Pending(homeNet') : homeNet'[j].op # "load" /\ homeNet'[j].arg = star
    BY <2>2 DEF Underway
  <2> QED
    BY <2>1, <2>2
<1>2. home'.busy \subseteq {homeNet'[j].arg : j \in {k \in Pending(homeNet') : homeNet'[k].op # "load"}}
  BY <1>1
<1>3. home'.loading => \E j \in Pending(homeNet') : homeNet'[j].op = "load"
  BY DEF HomeWaits, Goes
<1>4. IsNet(homeNet')
  BY DEF Goes
<1> QED
  BY <1>2, <1>3, <1>4 DEF HomeWaits

\* It holds at the start.
LEMMA HomeWaitsStart == HomeInit => HomeWaits /\ OneLoad
<1> SUFFICES ASSUME HomeInit PROVE HomeWaits /\ OneLoad
  OBVIOUS
<1> DEFINE net == Send(NoCalls, "load", None)
<1>1. IsNet(net) /\ Underway(net, "load", None) /\ homeNet = [net EXCEPT ![1].out = Unread]
  BY NoCallsIsNet, EmptyRoom, SendGoes DEF HomeInit, Goes
<1>2. 1 \in Slot
  BY CallsAssumption DEF Slot
<1>5. net = [j \in Slot |-> IF j = 1 THEN Call("load", None) ELSE Free]
  <2>1. PICK j \in Pending(net) : net[j].op = "load"
    BY <1>1 DEF Underway
  <2>2. j \in Slot \ Pending(NoCalls) /\ Slot \ Pending(NoCalls) = Slot
    BY <2>1 DEF Pending, NoCalls
  <2>3. \A k \in Slot : 1 <= k
    BY DEF Slot
  <2>4. (CHOOSE m \in Slot \ Pending(NoCalls) : \A k \in Slot \ Pending(NoCalls) : m <= k) = 1
    <3>1. \A m \in Slot : (\A k \in Slot : m <= k) => m = 1
      BY <1>2 DEF Slot
    <3> QED
      BY <1>2, <2>2, <2>3, <3>1
  <2>5. net = [NoCalls EXCEPT ![1] = Call("load", None)]
    BY <2>4 DEF Send
  <2> HIDE DEF net
  <2> QED
    BY <2>5 DEF NoCalls
<1>3. net[1] # Free /\ net[1].op = "load"
  <2> HIDE DEF net
  <2> QED
    BY <1>2, <1>5 DEF Call, Free
<1>6. \A j \in Pending(homeNet) : j = 1
  <2>1. \A m \in Slot \ Pending(NoCalls) : m \in Slot
    OBVIOUS
  <2>2. net = [j \in Slot |-> IF j = 1 THEN Call("load", None) ELSE Free]
    BY <1>5
  <2> HIDE DEF net
  <2> QED
    BY <1>1, <1>2, <2>2 DEF Pending
<1> HIDE DEF net
<1>4. /\ IsNet(homeNet) /\ \E j \in Pending(homeNet) : homeNet[j].op = "load"
  <2> DEFINE c == net[1]
             d == [op |-> c.op, arg |-> c.arg, st |-> c.st, out |-> Unread]
  <2>1. c = [op |-> c.op, arg |-> c.arg, st |-> c.st, out |-> c.out]
    BY <1>1, <1>2, <1>3 DEF IsNet, IsCall
  <2>2. homeNet = Put(net, 1, [c EXCEPT !.out = Unread])
    BY <1>1, <1>2 DEF IsNet, Put
  <2>3. [c EXCEPT !.out = Unread] = d
    <3> HIDE DEF c
    <3> QED
      BY <2>1
  <2>4. IsCall(d) /\ d.op = net[1].op /\ d.arg = net[1].arg
    BY DEF IsCall
  <2>5. d # Free
    BY <1>3 DEF Free
  <2> HIDE DEF d
  <2>6. Goes(net, Put(net, 1, d), {})
    BY <1>1, <1>2, <2>4, <2>5, PutGoes
  <2>7. homeNet = Put(net, 1, d)
    BY <2>2, <2>3
  <2> QED
    BY <1>1, <2>6, <2>7 DEF Goes, Underway
<1>7. /\ HomeFields \subseteq DOMAIN home /\ home.busy = {} /\ home.loading
  BY DEF HomeInit, HomeFields
<1> QED
  BY <1>4, <1>6, <1>7 DEF HomeWaits, OneLoad, Loads

\* One of the lists of the load comes in.
LEMMA AnsweredGoes ==
    ASSUME IsNet(homeNet), NEW i \in Slot, NEW list, NEW value, Answered(i, list, value)
    PROVE  Goes(homeNet, homeNet', {}) /\ Loads(homeNet') \subseteq Loads(homeNet)
<1> DEFINE c == homeNet[i]
           new == [c.out EXCEPT ![list] = value]
           d == [op |-> c.op, arg |-> c.arg, st |-> c.st, out |-> new]
<1>1. c # Free /\ c.op = "load" /\ homeNet' = [homeNet EXCEPT ![i].out[list] = value]
  BY DEF Answered, Sent
<1>2. c = [op |-> c.op, arg |-> c.arg, st |-> c.st, out |-> c.out]
  BY <1>1 DEF IsNet, IsCall
<1>3. homeNet' = Put(homeNet, i, [c EXCEPT !.out = new])
  BY <1>1 DEF IsNet, Put
<1>4. [c EXCEPT !.out = new] = d
  <2> HIDE DEF c, new
  <2> QED
    BY <1>2
<1>5. IsCall(d) /\ d.op = c.op /\ d.arg = c.arg /\ d # Free
  BY <1>1 DEF IsCall, Free
<1> HIDE DEF d
<1>6. Goes(homeNet, Put(homeNet, i, d), {}) /\ Loads(Put(homeNet, i, d)) \subseteq Loads(homeNet)
  <2>1. Loads(Put(homeNet, i, d)) \subseteq Loads(homeNet)
    BY <1>1 DEF Loads, Pending, Put
  <2> HIDE DEF c
  <2> QED
    BY <1>1, <1>5, <2>1, PutGoes DEF c
<1>7. homeNet' = Put(homeNet, i, d)
  BY <1>3, <1>4
<1> QED
  BY <1>6, <1>7

\* No second load.
LEMMA LoadsPut ==
    ASSUME NEW net, IsNet(net), NEW i, NEW c, c = Free \/ c.op # "load" \/ (i \in Slot /\ net[i] # Free /\ net[i].op = "load")
    PROVE  Loads(Put(net, i, c)) \subseteq Loads(net) /\ (c = Free => i \notin Loads(Put(net, i, c)))
  BY DEF Loads, Pending, Put

LEMMA OneLoadStep ==
    ASSUME HomeWaits, OneLoad, [HomeNext]_homeVars
    PROVE  OneLoad'
<1>0. IsNet(homeNet) /\ HomeFields \subseteq DOMAIN home
  BY DEF HomeWaits
<1>a. ASSUME home'.loading = home.loading, Loads(homeNet') \subseteq Loads(homeNet) PROVE OneLoad'
  BY <1>a DEF OneLoad, Loads, Pending
<1>1. CASE UNCHANGED homeVars
  BY <1>1, <1>a DEF homeVars
<1>2. ASSUME NEW ui, ui.loading = home.loading, HomeFields \subseteq DOMAIN ui, Show(ui) PROVE OneLoad'
  BY <1>a, <1>2, OnPageStars DEF Show
<1>3. ASSUME NEW k, ChooseKind(k) PROVE OneLoad'
  BY <1>0, <1>2, <1>3 DEF ChooseKind, StepHome, Pressed, HomeFields
<1>4. CASE FavouritesOnly
  BY <1>0, <1>2, <1>4 DEF FavouritesOnly, StepHome, Pressed, HomeFields
<1>5. ASSUME NEW q, TypeQuery(q) PROVE OneLoad'
  BY <1>0, <1>2, <1>5 DEF TypeQuery, StepHome, Pressed, HomeFields
<1>6. ASSUME NEW v, ChooseView(v) PROVE OneLoad'
  BY <1>0, <1>2, <1>6 DEF ChooseView, StepHome, Pressed, HomeFields
<1>7. ASSUME NEW star, ToggleFavourite(star) PROVE OneLoad'
  <2> DEFINE op == IF star.of \in home.favs THEN "remove" ELSE "add"
             calm == \A i \in Pending(homeNet) : homeNet[i].arg.of # star.of
             ui == Pressed(home, calm)
  <2>1. homeNet' = Send(homeNet, op, star) /\ home' = [ui EXCEPT !.busy = IF star.at = "list" THEN @ ELSE @ \cup {star}]
    BY <1>7 DEF ToggleFavourite
  <2> HIDE DEF calm
  <2>2. ui.loading = home.loading
    BY <1>0 DEF Pressed, HomeFields
  <2> HIDE DEF ui
  <2>3. home'.loading = home.loading
    BY <2>1, <2>2
  <2>4. PICK i : Send(homeNet, op, star) = Put(homeNet, i, Call(op, star))
    BY <1>0, Sending
  <2>5. Call(op, star).op # "load"
    BY DEF Call
  <2> QED
    BY <1>0, <1>a, <2>1, <2>3, <2>4, <2>5, LoadsPut
<1>8. ASSUME NEW i \in Slot, ServeFavourites(i) \/ \E k \in Kinds : ServeSection(i, k) PROVE OneLoad'
  <2>1. home' = home /\ \E list, value : Answered(i, list, value)
    BY <1>8 DEF ServeFavourites, ServeSection
  <2> QED
    BY <1>0, <1>a, <2>1, AnsweredGoes
<1>9. ASSUME NEW i \in Slot, NEW list, ListMissed(i, list) PROVE OneLoad'
  <2>1. home'.loading = home.loading
    BY <1>0, <1>9 DEF ListMissed, HomeFields
  <2> QED
    BY <1>0, <1>9, <1>a, <2>1, AnsweredGoes DEF ListMissed
<1>10. ASSUME NEW i \in Slot, HomeCallFails(i) \/ ServeAdd(i) \/ ServeRemove(i) PROVE OneLoad'
  <2>1. /\ home'.loading = home.loading
    BY <1>0, <1>10 DEF HomeCallFails, ServeAdd, ServeRemove, Missed, HomeFields
  <2>2. /\ homeNet[i] # Free /\ homeNet[i].op # "load"
        /\ homeNet' = Fail(homeNet, i) \/ homeNet' = Reply(homeNet, i, None)
    BY <1>10, Zenon DEF HomeCallFails, ServeAdd, ServeRemove, CanFail, Pending, Sent
  <2>3. PICK c : homeNet' = Put(homeNet, i, c) /\ c.op = homeNet[i].op
    <3> DEFINE fail == [op |-> homeNet[i].op, arg |-> homeNet[i].arg, st |-> "err", out |-> homeNet[i].out]
               reply == [op |-> homeNet[i].op, arg |-> homeNet[i].arg, st |-> "ok", out |-> None]
    <3>1. Fail(homeNet, i) = Put(homeNet, i, fail) /\ Reply(homeNet, i, None) = Put(homeNet, i, reply)
      BY <1>0, <2>2, Answering
    <3>2. fail.op = homeNet[i].op /\ reply.op = homeNet[i].op
      OBVIOUS
    <3> HIDE DEF fail, reply
    <3> QED
      BY <2>2, <3>1, <3>2
  <2> QED
    BY <1>0, <1>a, <2>1, <2>2, <2>3, LoadsPut
<1>11. ASSUME NEW i \in Slot, HomeRead(i) PROVE OneLoad'
  <2>1. homeNet' = Put(homeNet, i, Free) /\ i \in Loads(homeNet)
    BY <1>0, <1>11, Ending DEF HomeRead, Sent, Loads, Pending
  <2>2. Loads(homeNet') \subseteq Loads(homeNet) /\ i \notin Loads(homeNet')
    BY <1>0, <2>1, LoadsPut
  <2>3. Loads(homeNet') = {}
    BY <2>1, <2>2 DEF OneLoad
  <2> QED
    BY <2>3 DEF OneLoad, Loads, Pending
<1>12. ASSUME NEW i \in Slot, FavouriteToggled(i) PROVE OneLoad'
  <2> DEFINE star == homeNet[i].arg
             freed == [home EXCEPT !.busy = @ \ {star}]
             ui == IF Ok(homeNet, i, "add") THEN [freed EXCEPT !.favs = @ \cup {star.of}]
                   ELSE IF Ok(homeNet, i, "remove") THEN [freed EXCEPT !.favs = @ \ {star.of}]
                   ELSE freed
  <2>1. home' = OnPage(ui) /\ homeNet' = Put(homeNet, i, Free)
    BY <1>0, <1>12, Ending DEF FavouriteToggled
  <2>2. HomeFields \subseteq DOMAIN ui /\ ui.loading = home.loading
    BY <1>0 DEF HomeFields
  <2> HIDE DEF ui
  <2> QED
    BY <1>0, <1>a, <2>1, <2>2, OnPageStars, LoadsPut
<1> QED
  BY <1>1, <1>3, <1>4, <1>5, <1>6, <1>7, <1>8, <1>9, <1>10, <1>11, <1>12, Zenon DEF HomeNext

\* Every step keeps it.
LEMMA HomeWaitsStep == HomeWaits /\ OneLoad /\ [HomeNext]_homeVars => HomeWaits' /\ OneLoad'
<1> SUFFICES ASSUME HomeWaits, OneLoad, [HomeNext]_homeVars PROVE HomeWaits'
  BY OneLoadStep
<1>0. IsNet(homeNet) /\ Goes(homeNet, homeNet, {}) /\ HomeFields \subseteq DOMAIN home
  BY StayGoes DEF HomeWaits
<1>a. ASSUME home' = home, Goes(homeNet, homeNet', {}) PROVE HomeWaits'
  <2>1. HomeFields \subseteq DOMAIN home' /\ home'.busy \subseteq Stars(home)' /\ (home'.loading => home'.busy = {})
    BY <1>a DEF HomeWaits
  <2> QED
    BY <1>a, <2>1, HomeWaitsKept
<1>1. CASE UNCHANGED homeVars
  BY <1>0, <1>1, <1>a DEF homeVars
<1>2. ASSUME NEW ui, HomeFields \subseteq DOMAIN ui, ui.loading = home.loading, ui.busy = home.busy, Show(ui) PROVE HomeWaits'
  <2>1. homeNet' = homeNet /\ home' = OnPage(ui) /\ ~home.loading
    BY <1>2 DEF Show, PressHome
  <2>2. HomeFields \subseteq DOMAIN home' /\ ~home'.loading /\ home'.busy \subseteq home.busy /\ home'.busy \subseteq Stars(home)'
    BY <1>2, <2>1, OnPageStars
  <2> QED
    BY <1>0, <2>1, <2>2, HomeWaitsKept
<1>3. ASSUME NEW k, ChooseKind(k) PROVE HomeWaits'
  BY <1>0, <1>2, <1>3 DEF ChooseKind, StepHome, Pressed, HomeFields
<1>4. CASE FavouritesOnly
  BY <1>0, <1>2, <1>4 DEF FavouritesOnly, StepHome, Pressed, HomeFields
<1>5. ASSUME NEW q, TypeQuery(q) PROVE HomeWaits'
  BY <1>0, <1>2, <1>5 DEF TypeQuery, StepHome, Pressed, HomeFields
<1>6. ASSUME NEW v, ChooseView(v) PROVE HomeWaits'
  BY <1>0, <1>2, <1>6 DEF ChooseView, StepHome, Pressed, HomeFields
<1>7. ASSUME NEW star \in Stars(home), ToggleFavourite(star) PROVE HomeWaits'
  <2> DEFINE calm == \A i \in Pending(homeNet) : homeNet[i].arg.of # star.of
             ui == Pressed(home, calm)
             op == IF star.of \in home.favs THEN "remove" ELSE "add"
  <2>1. /\ home' = [ui EXCEPT !.busy = IF star.at = "list" THEN @ ELSE @ \cup {star}]
        /\ homeNet' = Send(homeNet, op, star) /\ Room(homeNet, 1) /\ ~home.loading
    BY <1>7 DEF ToggleFavourite, PressHome
  <2> HIDE DEF calm
  <2>2. /\ HomeFields \subseteq DOMAIN ui /\ ui.loading = home.loading /\ ui.busy = home.busy /\ ui.items = home.items
        /\ ui.favs = home.favs /\ ui.view = home.view /\ ui.filter = home.filter /\ ui.only = home.only /\ ui.query = home.query
    BY <1>0 DEF Pressed, HomeFields
  <2> HIDE DEF ui
  <2>3. /\ HomeFields \subseteq DOMAIN home' /\ home'.loading = home.loading /\ home'.busy \subseteq home.busy \cup {star}
        /\ home'.items = home.items /\ home'.favs = home.favs /\ home'.view = home.view
        /\ home'.filter = home.filter /\ home'.only = home.only /\ home'.query = home.query
    BY <2>1, <2>2 DEF HomeFields
  <2>4. Stars(home') = Stars(home) /\ Stars(home)' = Stars(home')
    <3>1. Stars(home') = Stars(home)
      BY <2>3, SameStars
    <3> QED
      BY <3>1 DEF Stars, VisibleItems
  <2>5. op \in {"add", "remove"} /\ Goes(homeNet, homeNet', {}) /\ Underway(homeNet', op, star)
    BY <1>0, <2>1, SendGoes
  <2> HIDE DEF op
  <2>6. home'.busy \subseteq Stars(home)'
    BY <2>3, <2>4 DEF HomeWaits
  <2> QED
    BY <2>1, <2>3, <2>5, <2>6, HomeWaitsKept
<1>8. ASSUME NEW i \in Slot, ServeFavourites(i) \/ \E k \in Kinds : ServeSection(i, k) PROVE HomeWaits'
  <2>1. home' = home /\ \E list, value : Answered(i, list, value)
    BY <1>8 DEF ServeFavourites, ServeSection
  <2> QED
    BY <1>0, <1>a, <2>1, AnsweredGoes
<1>9. ASSUME NEW i \in Slot, NEW list, ListMissed(i, list) PROVE HomeWaits'
  <2>1. home' = [home EXCEPT !.calm = FALSE] /\ Goes(homeNet, homeNet', {})
    BY <1>0, <1>9, AnsweredGoes DEF ListMissed
  <2>2. /\ HomeFields \subseteq DOMAIN home' /\ home'.loading = home.loading /\ home'.busy = home.busy
        /\ home'.items = home.items /\ home'.favs = home.favs /\ home'.view = home.view
        /\ home'.filter = home.filter /\ home'.only = home.only /\ home'.query = home.query
    BY <1>0, <2>1 DEF HomeFields
  <2>3. Stars(home') = Stars(home)
    BY <2>2, SameStars
  <2>4. Stars(home)' = Stars(home')
    BY DEF Stars, VisibleItems
  <2>5. home'.busy \subseteq Stars(home)' /\ (home'.loading => home'.busy = {})
    BY <2>2, <2>3, <2>4 DEF HomeWaits
  <2> QED
    BY <2>1, <2>2, <2>5, HomeWaitsKept
<1>10. ASSUME NEW i \in Slot, HomeCallFails(i) PROVE HomeWaits'
  <2>1. home' = Missed(home, homeNet, i) /\ Goes(homeNet, homeNet', {})
    BY <1>0, <1>10, AnswerGoes DEF HomeCallFails, CanFail, Pending
  <2>2. /\ HomeFields \subseteq DOMAIN home' /\ home'.loading = home.loading /\ home'.busy = home.busy
        /\ home'.items = home.items /\ home'.favs = home.favs /\ home'.view = home.view
        /\ home'.filter = home.filter /\ home'.only = home.only /\ home'.query = home.query
    BY <1>0, <2>1 DEF HomeFields, Missed
  <2>3. Stars(home') = Stars(home)
    BY <2>2, SameStars
  <2>4. Stars(home)' = Stars(home')
    BY DEF Stars, VisibleItems
  <2>5. home'.busy \subseteq Stars(home)' /\ (home'.loading => home'.busy = {})
    BY <2>2, <2>3, <2>4 DEF HomeWaits
  <2> QED
    BY <2>1, <2>2, <2>5, HomeWaitsKept
<1>11. ASSUME NEW i \in Slot, ServeAdd(i) \/ ServeRemove(i) PROVE HomeWaits'
  <2>1. /\ home' = home /\ homeNet[i] # Free
        /\ homeNet' = Fail(homeNet, i) \/ homeNet' = Reply(homeNet, i, None)
    BY <1>11, Zenon DEF ServeAdd, ServeRemove, Sent
  <2> QED
    BY <1>0, <1>a, <2>1, AnswerGoes
<1>12. ASSUME NEW i \in Slot, HomeRead(i) PROVE HomeWaits'
  <2> DEFINE items == UNION {homeNet[i].out[k] : k \in Kinds}
  <2>1. home' = [home EXCEPT !.items = items, !.loading = FALSE, !.favs = homeNet[i].out["favourites"]]
    BY <1>12 DEF HomeRead
  <2> HIDE DEF items
  <2>2. Goes(homeNet, homeNet', {i}) /\ i \in Loads(homeNet)
    BY <1>0, <1>12, EndGoes DEF HomeRead, Sent, Loads, Pending
  <2>3. home.busy = {}
    BY <2>2 DEF OneLoad, HomeWaits
  <2>4. HomeFields \subseteq DOMAIN home' /\ ~home'.loading /\ home'.busy = {}
    BY <1>0, <2>1, <2>3 DEF HomeFields
  <2> QED
    BY <2>2, <2>4, HomeWaitsKept
<1>13. ASSUME NEW i \in Slot, FavouriteToggled(i) PROVE HomeWaits'
  <2> DEFINE star == homeNet[i].arg
             freed == [home EXCEPT !.busy = @ \ {star}]
             ui == IF Ok(homeNet, i, "add") THEN [freed EXCEPT !.favs = @ \cup {star.of}]
                   ELSE IF Ok(homeNet, i, "remove") THEN [freed EXCEPT !.favs = @ \ {star.of}]
                   ELSE freed
  <2>1. home' = OnPage(ui) /\ Goes(homeNet, homeNet', {i}) /\ homeNet[i].op \in {"add", "remove"}
    BY <1>0, <1>13, EndGoes DEF FavouriteToggled, Settled, Ok, Err
  <2>2. HomeFields \subseteq DOMAIN ui /\ ui.loading = home.loading /\ ui.busy = home.busy \ {star}
    BY <1>0 DEF HomeFields
  <2> HIDE DEF ui
  <2>3. /\ HomeFields \subseteq DOMAIN home' /\ home'.loading = home.loading /\ home'.busy \subseteq home.busy \ {star}
        /\ home'.busy \subseteq Stars(home)'
    BY <2>1, <2>2, OnPageStars
  <2>4. \A k \in {i} : homeNet[k].op # "load" /\ \A s \in home'.busy : homeNet[k].arg # s
    BY <2>1, <2>3
  <2>5. home'.loading => home'.busy = {}
    BY <2>3 DEF HomeWaits
  <2> QED
    BY <2>1, <2>3, <2>4, <2>5, HomeWaitsKept
<1> QED
  BY <1>1, <1>3, <1>4, <1>5, <1>6, <1>7, <1>8, <1>9, <1>10, <1>11, <1>12, <1>13, Zenon DEF HomeNext

-----------------------------------------------------------------------------
(* The runs of a connection *)

\* A request for runs of the given reason.
RunsFor(net, why) == \E j \in Pending(net) : net[j].op = "runs" /\ net[j].arg.why = why

\* Each flag of the page of runs has its call, one of several kinds for some.
RunWaits ==
    /\ IsNet(runNet)
    /\ {"phase", "tab", "runs", "cursor", "failed", "days", "status", "expanded", "refreshing", "loadingMore",
        "defsLoading", "defsLoaded", "clicks", "calm"} \subseteq DOMAIN runPage
    /\ runPage.phase = "loading" => (\E j \in Pending(runNet) : runNet[j].op = "conn") \/ RunsFor(runNet, "mount")
    /\ runPage.refreshing =>
          RunsFor(runNet, "refresh") \/ \E j \in Pending(runNet) : runNet[j].op = "defs" /\ runNet[j].arg = "refresh"
    /\ runPage.loadingMore => RunsFor(runNet, "more")
    /\ runPage.defsLoading => \E j \in Pending(runNet) : runNet[j].op = "defs"
    /\ runPage.tab = "pipelines" => runPage.defsLoaded \/ runPage.defsLoading

\* A request for runs or for the pipelines among the calls that end.
EndsRuns(gone, why) == \E i \in gone : runNet[i].op = "runs" /\ runNet[i].arg.why = why
EndsDefs(gone) == \E i \in gone : runNet[i].op = "defs"

\* It is kept when every flag that is up still has a request on its way.
LEMMA RunWaitsKept ==
    ASSUME RunWaits, NEW gone, Goes(runNet, runNet', gone), DOMAIN runPage' = DOMAIN runPage,
           runPage'.phase = "loading" =>
               /\ runPage.phase = "loading"
               /\ \/ ~EndsRuns(gone, "mount") /\ \A i \in gone : runNet[i].op # "conn"
                  \/ \E arg : Underway(runNet', "runs", arg) /\ arg.why = "mount",
           runPage'.refreshing =>
               \/ runPage.refreshing /\ ~EndsRuns(gone, "refresh") /\ \A i \in gone : runNet[i].op # "defs" \/ runNet[i].arg # "refresh"
               \/ \E arg : Underway(runNet', "runs", arg) /\ arg.why = "refresh"
               \/ Underway(runNet', "defs", "refresh"),
           runPage'.loadingMore =>
               \/ runPage.loadingMore /\ ~EndsRuns(gone, "more")
               \/ \E arg : Underway(runNet', "runs", arg) /\ arg.why = "more",
           runPage'.defsLoading => (runPage.defsLoading /\ ~EndsDefs(gone)) \/ \E arg : Underway(runNet', "defs", arg),
           runPage'.tab = "pipelines" => runPage'.defsLoaded \/ runPage'.defsLoading
    PROVE  RunWaits'
<1>1. ASSUME NEW why, RunsFor(runNet, why), ~EndsRuns(gone, why) PROVE RunsFor(runNet', why)
  BY <1>1 DEF RunsFor, EndsRuns, Goes
<1>2. ASSUME NEW why, NEW arg, Underway(runNet', "runs", arg), arg.why = why PROVE RunsFor(runNet', why)
  BY <1>2 DEF RunsFor, Underway
<1>3. runPage'.phase = "loading" => (\E j \in Pending(runNet') : runNet'[j].op = "conn") \/ RunsFor(runNet', "mount")
  <2>1. CASE (\E j \in Pending(runNet) : runNet[j].op = "conn") /\ \A i \in gone : runNet[i].op # "conn"
    BY <2>1 DEF Goes
  <2> QED
    BY <1>1, <1>2, <2>1 DEF RunWaits
<1>4. runPage'.refreshing =>
          RunsFor(runNet', "refresh") \/ \E j \in Pending(runNet') : runNet'[j].op = "defs" /\ runNet'[j].arg = "refresh"
  <2>1. ASSUME NEW j \in Pending(runNet), runNet[j].op = "defs", runNet[j].arg = "refresh",
               \A i \in gone : runNet[i].op # "defs" \/ runNet[i].arg # "refresh"
        PROVE  \E k \in Pending(runNet') : runNet'[k].op = "defs" /\ runNet'[k].arg = "refresh"
    BY <2>1 DEF Goes
  <2>2. Underway(runNet', "defs", "refresh") => \E k \in Pending(runNet') : runNet'[k].op = "defs" /\ runNet'[k].arg = "refresh"
    BY DEF Underway
  <2> QED
    BY <1>1, <1>2, <2>1, <2>2 DEF RunWaits
<1>5. runPage'.loadingMore => RunsFor(runNet', "more")
  BY <1>1, <1>2 DEF RunWaits
<1>6. runPage'.defsLoading => \E j \in Pending(runNet') : runNet'[j].op = "defs"
  BY DEF RunWaits, Goes, EndsDefs, Underway
<1>7. IsNet(runNet')
  BY DEF Goes
<1>8. {"phase", "tab", "runs", "cursor", "failed", "days", "status", "expanded", "refreshing", "loadingMore",
       "defsLoading", "defsLoaded", "clicks", "calm"} \subseteq DOMAIN runPage'
  BY DEF RunWaits
<1> QED
  BY <1>3, <1>4, <1>5, <1>6, <1>7, <1>8, Zenon DEF RunWaits

\* What a handler of the page leaves as it is.
RunFlags ==
    /\ DOMAIN runPage' = DOMAIN runPage /\ runPage'.phase = runPage.phase /\ runPage'.refreshing = runPage.refreshing
    /\ runPage'.loadingMore = runPage.loadingMore /\ runPage'.defsLoading = runPage.defsLoading
    /\ runPage'.tab = runPage.tab /\ runPage'.defsLoaded = runPage.defsLoaded

\* Every request for runs is of one of four kinds.
RunWhys == {"mount", "refresh", "more", "days"}
RunKinds(net) == \A j \in Pending(net) : net[j].op = "runs" => net[j].arg.why \in RunWhys

LEMMA KindPut ==
    ASSUME NEW net, IsNet(net), RunKinds(net), NEW i, NEW c, c # Free /\ c.op = "runs" => c.arg.why \in RunWhys
    PROVE  RunKinds(Put(net, i, c))
  BY DEF RunKinds, Pending, Put, IsNet

LEMMA KindSent ==
    ASSUME NEW net, IsNet(net), RunKinds(net), NEW op, NEW arg, op = "runs" => arg.why \in RunWhys
    PROVE  RunKinds(Send(net, op, arg))
<1>1. PICK i : Send(net, op, arg) = Put(net, i, Call(op, arg))
  BY Sending
<1>2. Call(op, arg).op = op /\ Call(op, arg).arg = arg
  BY DEF Call
<1> QED
  BY <1>1, <1>2, KindPut

LEMMA KindAnswered ==
    ASSUME NEW net, IsNet(net), RunKinds(net), NEW i \in Slot, net[i] # Free
    PROVE  /\ RunKinds(Fail(net, i)) /\ RunKinds(Done(net, i))
           /\ \A out : RunKinds(Reply(net, i, out))
<1>1. ASSUME NEW st, NEW out PROVE RunKinds(Put(net, i, [op |-> net[i].op, arg |-> net[i].arg, st |-> st, out |-> out]))
  <2>1. net[i].op = "runs" => net[i].arg.why \in RunWhys
    BY DEF RunKinds, Pending
  <2> QED
    BY <2>1, KindPut
<1>2. RunKinds(Done(net, i))
  BY Ending, KindPut
<1>3. RunKinds(Fail(net, i))
  <2>1. RunKinds(Put(net, i, [op |-> net[i].op, arg |-> net[i].arg, st |-> "err", out |-> net[i].out]))
    BY <1>1
  <2> QED
    BY <2>1, Answering
<1>4. ASSUME NEW out PROVE RunKinds(Reply(net, i, out))
  <2>1. RunKinds(Put(net, i, [op |-> net[i].op, arg |-> net[i].arg, st |-> "ok", out |-> out]))
    BY <1>1
  <2>2. Reply(net, i, out) = Put(net, i, [op |-> net[i].op, arg |-> net[i].arg, st |-> "ok", out |-> out])
    BY Answering
  <2> QED
    BY <2>1, <2>2
<1> QED
  BY <1>2, <1>3, <1>4

\* It holds at the start.
LEMMA RunWaitsStart == RunsInit => RunWaits /\ RunKinds(runNet)
<1> SUFFICES ASSUME RunsInit PROVE RunWaits /\ RunKinds(runNet)
  OBVIOUS
<1>1. Underway(runNet, "conn", None) /\ IsNet(runNet)
  BY NoCallsIsNet, EmptyRoom, SendGoes DEF RunsInit, Goes
<1>2. RunKinds(runNet)
  <2>1. RunKinds(NoCalls)
    BY DEF RunKinds, NoCalls, Pending
  <2> QED
    BY <2>1, NoCallsIsNet, KindSent DEF RunsInit
<1> QED
  BY <1>1, <1>2 DEF RunsInit, RunWaits, Underway

LEMMA RunKindsStep == IsNet(runNet) /\ RunKinds(runNet) /\ [RunsNext]_runVars => RunKinds(runNet')
<1> SUFFICES ASSUME IsNet(runNet), RunKinds(runNet), [RunsNext]_runVars PROVE RunKinds(runNet')
  OBVIOUS
<1>0. ASSUME NEW why \in RunWhys, NEW days, NEW cursor
      PROVE  RunKinds(LoadRuns(runNet, why, days, cursor))
  BY <1>0, KindSent DEF LoadRuns
<1>1. CASE runNet' = runNet
  BY <1>1
<1>2. CASE LoadOlder \/ RefreshRuns \/ (\E d \in Window : ChooseDays(d)) \/ (\E t \in {"runs", "pipelines"} : OpenRunTab(t))
  <2>1. \/ \E why \in RunWhys : \E days, cursor : runNet' = LoadRuns(runNet, why, days, cursor)
        \/ \E why : runNet' = LoadDefs(runNet, why)
        \/ runNet' = runNet
    <3>1. CASE LoadOlder
      BY <3>1, Zenon DEF LoadOlder, RunWhys
    <3>2. CASE RefreshRuns
      BY <3>2, Zenon DEF RefreshRuns, RunWhys
    <3>3. ASSUME NEW d, ChooseDays(d) PROVE \E why \in RunWhys : \E days, cursor : runNet' = LoadRuns(runNet, why, days, cursor)
      BY <3>3, Zenon DEF ChooseDays, RunWhys
    <3>4. ASSUME NEW t, OpenRunTab(t) PROVE runNet' = runNet \/ \E why : runNet' = LoadDefs(runNet, why)
      BY <3>4, Zenon DEF OpenRunTab
    <3> QED
      BY <1>2, <3>1, <3>2, <3>3, <3>4
  <2>2. \A why : RunKinds(LoadDefs(runNet, why))
    BY KindSent DEF LoadDefs
  <2> QED
    BY <1>0, <2>1, <2>2
<1>3. ASSUME NEW i \in Slot, ServeConn(i) \/ ServeRuns(i) \/ ServeDefs(i) \/ RunCallFails(i) \/ RunsRead(i) \/ DefsRead(i)
      PROVE  RunKinds(runNet')
  <2>1. /\ runNet[i] # Free
        /\ runNet' = Fail(runNet, i) \/ runNet' = Done(runNet, i) \/ \E out : runNet' = Reply(runNet, i, out)
    BY <1>3, Zenon DEF ServeConn, ServeRuns, ServeDefs, RunCallFails, RunsRead, DefsRead, Sent, CanFail, Pending, Settled, Ok, Err
  <2> QED
    BY <2>1, KindAnswered
<1>4. ASSUME NEW i \in Slot, ConnShown(i) PROVE RunKinds(runNet')
  <2> DEFINE net == Done(runNet, i)
  <2>1. runNet[i] # Free /\ (runNet' = net \/ \E days : runNet' = LoadRuns(net, "mount", days, None))
    BY <1>4 DEF ConnShown, Settled, Ok, Err
  <2>2. RunKinds(net) /\ IsNet(net)
    BY <2>1, KindAnswered, EndGoes DEF Goes
  <2> HIDE DEF net
  <2>3. \A days : RunKinds(LoadRuns(net, "mount", days, None))
    BY <2>2, KindSent DEF LoadRuns, RunWhys
  <2> QED
    BY <2>1, <2>2, <2>3
<1>5. ASSUME NEW r, ToggleExpand(r) \/ ChooseRunStatus(r.status) \/ ChooseRunStatus(r) PROVE RunKinds(runNet')
  BY <1>5 DEF ToggleExpand, ChooseRunStatus
<1> QED
  BY <1>1, <1>2, <1>3, <1>4, <1>5, Zenon DEF RunsNext, runVars

\* Every step keeps it.
LEMMA RunWaitsStep == RunWaits /\ RunKinds(runNet) /\ [RunsNext]_runVars => RunWaits' /\ RunKinds(runNet')
<1> SUFFICES ASSUME RunWaits, RunKinds(runNet), [RunsNext]_runVars PROVE RunWaits'
  BY RunKindsStep DEF RunWaits
<1>0. IsNet(runNet) /\ Goes(runNet, runNet, {})
  BY StayGoes DEF RunWaits
<1>a. ASSUME RunFlags, Goes(runNet, runNet', {}) PROVE RunWaits'
  <2>1. ~EndsDefs({}) /\ \A why : ~EndsRuns({}, why)
    BY DEF EndsDefs, EndsRuns
  <2>2. runPage'.tab = "pipelines" => runPage'.defsLoaded \/ runPage'.defsLoading
    BY <1>a DEF RunFlags, RunWaits
  <2> QED
    BY <1>a, <2>1, <2>2, RunWaitsKept DEF RunFlags
<1>1. CASE UNCHANGED runVars
  <2>1. RunFlags /\ runNet' = runNet
    BY <1>1 DEF runVars, RunFlags
  <2> QED
    BY <1>0, <1>a, <2>1
<1>2. ASSUME NEW d, ChooseDays(d) PROVE RunWaits'
  <2>1. RunFlags
    BY <1>2 DEF ChooseDays, StepRuns, Pressed, RunFlags, RunWaits
  <2>2. Goes(runNet, runNet', {})
    BY <1>0, <1>2, SendGoes DEF ChooseDays, LoadRuns, PressRuns
  <2> QED
    BY <1>a, <2>1, <2>2
<1>3. CASE LoadOlder
  <2> DEFINE arg == [why |-> "more", days |-> runPage.days, cursor |-> runPage.cursor]
  <2>1. /\ DOMAIN runPage' = DOMAIN runPage /\ runPage'.phase = runPage.phase /\ runPage'.refreshing = runPage.refreshing
        /\ runPage'.defsLoading = runPage.defsLoading /\ runPage'.tab = runPage.tab /\ runPage'.defsLoaded = runPage.defsLoaded
    BY <1>3 DEF LoadOlder, StepRuns, Pressed, RunWaits
  <2>2. Goes(runNet, runNet', {}) /\ Underway(runNet', "runs", arg) /\ arg.why = "more"
    BY <1>0, <1>3, SendGoes DEF LoadOlder, LoadRuns, PressRuns
  <2>3. ~EndsDefs({}) /\ \A why : ~EndsRuns({}, why)
    BY DEF EndsDefs, EndsRuns
  <2>4. runPage'.tab = "pipelines" => runPage'.defsLoaded \/ runPage'.defsLoading
    BY <2>1 DEF RunWaits
  <2> HIDE DEF arg
  <2> QED
    BY <2>1, <2>2, <2>3, <2>4, RunWaitsKept
<1>4. CASE RefreshRuns
  <2>1. /\ DOMAIN runPage' = DOMAIN runPage /\ runPage'.phase = runPage.phase /\ runPage'.loadingMore = runPage.loadingMore
        /\ runPage'.tab = runPage.tab /\ runPage'.defsLoaded = runPage.defsLoaded
    BY <1>4 DEF RefreshRuns, StepRuns, Pressed, RunWaits
  <2>2. Room(runNet, 1)
    BY <1>4 DEF RefreshRuns, PressRuns
  <2>3. ~EndsDefs({}) /\ \A why : ~EndsRuns({}, why)
    BY DEF EndsDefs, EndsRuns
  <2>4. CASE runPage.tab = "runs"
    <3> DEFINE arg == [why |-> "refresh", days |-> runPage.days, cursor |-> None]
    <3>1. runPage'.defsLoading = runPage.defsLoading
      BY <1>4, <2>4 DEF RefreshRuns, StepRuns, Pressed, RunWaits
    <3>2. Goes(runNet, runNet', {}) /\ Underway(runNet', "runs", arg) /\ arg.why = "refresh"
      BY <1>0, <1>4, <2>2, <2>4, SendGoes DEF RefreshRuns, LoadRuns
    <3>3. runPage'.tab = "pipelines" => runPage'.defsLoaded \/ runPage'.defsLoading
      BY <2>1, <3>1 DEF RunWaits
    <3> HIDE DEF arg
    <3> QED
      BY <2>1, <2>3, <3>1, <3>2, <3>3, RunWaitsKept
  <2>5. CASE runPage.tab # "runs"
    <3>1. runPage'.defsLoading = TRUE
      BY <1>4, <2>5 DEF RefreshRuns, StepRuns, Pressed, RunWaits
    <3>2. Goes(runNet, runNet', {}) /\ Underway(runNet', "defs", "refresh")
      BY <1>0, <1>4, <2>2, <2>5, SendGoes DEF RefreshRuns, LoadDefs
    <3> QED
      BY <2>1, <2>3, <3>1, <3>2, RunWaitsKept
  <2> QED
    BY <2>4, <2>5
<1>5. ASSUME NEW t, OpenRunTab(t) PROVE RunWaits'
  <2>1. /\ DOMAIN runPage' = DOMAIN runPage /\ runPage'.phase = runPage.phase /\ runPage'.loadingMore = runPage.loadingMore
        /\ runPage'.refreshing = runPage.refreshing /\ runPage'.defsLoaded = runPage.defsLoaded /\ runPage'.tab = t
    BY <1>5 DEF OpenRunTab, StepRuns, Pressed, RunWaits
  <2>2. Room(runNet, 1)
    BY <1>5 DEF OpenRunTab, PressRuns
  <2>3. ~EndsDefs({}) /\ \A why : ~EndsRuns({}, why)
    BY DEF EndsDefs, EndsRuns
  <2>4. CASE t = "pipelines" /\ ~runPage.defsLoaded /\ ~runPage.defsLoading
    <3>1. runPage'.defsLoading = TRUE
      BY <1>5, <2>4 DEF OpenRunTab, StepRuns, Pressed, RunWaits
    <3>2. Goes(runNet, runNet', {}) /\ Underway(runNet', "defs", "tab")
      BY <1>0, <1>5, <2>2, <2>4, SendGoes DEF OpenRunTab, LoadDefs
    <3> QED
      BY <2>1, <2>3, <3>1, <3>2, RunWaitsKept
  <2>5. CASE ~(t = "pipelines" /\ ~runPage.defsLoaded /\ ~runPage.defsLoading)
    <3>1. runPage'.defsLoading = runPage.defsLoading /\ runNet' = runNet
      BY <1>5, <2>5 DEF OpenRunTab, RunWaits
    <3>2. runPage'.tab = "pipelines" => runPage'.defsLoaded \/ runPage'.defsLoading
      BY <2>1, <2>5, <3>1
    <3>3. Goes(runNet, runNet', {})
      BY <1>0, <3>1
    <3> QED
      BY <2>1, <2>3, <3>1, <3>2, <3>3, RunWaitsKept
  <2> QED
    BY <2>4, <2>5
<1>6. ASSUME NEW r, ToggleExpand(r) \/ ChooseRunStatus(r.status) \/ ChooseRunStatus(r) PROVE RunWaits'
  <2>1. RunFlags /\ runNet' = runNet
    BY <1>6 DEF ToggleExpand, ChooseRunStatus, RunFlags, RunWaits
  <2> QED
    BY <1>0, <1>a, <2>1
<1>7. ASSUME NEW i \in Slot, ServeConn(i) \/ ServeRuns(i) \/ ServeDefs(i) \/ RunCallFails(i) PROVE RunWaits'
  <2>1. RunFlags
    BY <1>7 DEF ServeConn, ServeRuns, ServeDefs, RunCallFails, Missed, RunFlags, RunWaits
  <2>2. /\ runNet[i] # Free
        /\ runNet' = Fail(runNet, i) \/ \E out : runNet' = Reply(runNet, i, out)
    BY <1>7, Zenon DEF ServeConn, ServeRuns, ServeDefs, RunCallFails, Sent, CanFail, Pending
  <2>3. Goes(runNet, runNet', {})
    BY <1>0, <2>2, AnswerGoes
  <2> QED
    BY <1>a, <2>1, <2>3
<1>8. ASSUME NEW i \in Slot, ConnShown(i) PROVE RunWaits'
  <2>1. runNet[i].op = "conn" /\ i \in Pending(runNet)
    BY <1>8 DEF ConnShown, Settled, Ok, Err, Pending
  <2>2. ~EndsDefs({i}) /\ \A why : ~EndsRuns({i}, why)
    BY <2>1 DEF EndsDefs, EndsRuns
  <2>3. \A k \in {i} : runNet[k].op # "defs"
    BY <2>1
  <2>4. CASE Ok(runNet, i, "conn")
    <3> DEFINE arg == [why |-> "mount", days |-> runPage.days, cursor |-> None]
               net == Done(runNet, i)
    <3>1. runPage' = runPage /\ runNet' = Send(net, "runs", arg) /\ arg.why = "mount"
      BY <1>8, <2>4 DEF ConnShown, LoadRuns
    <3>2. Goes(runNet, net, {i}) /\ Room(net, 1) /\ IsNet(net)
      BY <1>0, <2>1, EndGoes, RoomLeft DEF Goes
    <3> HIDE DEF net, arg
    <3>3. Goes(net, Send(net, "runs", arg), {}) /\ Underway(Send(net, "runs", arg), "runs", arg)
      BY <3>2, SendGoes
    <3>4. Goes(runNet, runNet', {i})
      <4>1. {i} \cup {} = {i}
        OBVIOUS
      <4> QED
        BY <3>1, <3>2, <3>3, <4>1, GoesOn
    <3>5. runPage'.tab = "pipelines" => runPage'.defsLoaded \/ runPage'.defsLoading
      BY <3>1 DEF RunWaits
    <3> QED
      BY <2>2, <2>3, <3>1, <3>3, <3>4, <3>5, RunWaitsKept
  <2>5. CASE ~Ok(runNet, i, "conn")
    <3>1. runPage' = [runPage EXCEPT !.phase = "gone"] /\ runNet' = Done(runNet, i)
      BY <1>8, <2>5 DEF ConnShown
    <3>2. /\ DOMAIN runPage' = DOMAIN runPage /\ runPage'.phase = "gone" /\ runPage'.refreshing = runPage.refreshing
          /\ runPage'.loadingMore = runPage.loadingMore /\ runPage'.defsLoading = runPage.defsLoading
          /\ runPage'.tab = runPage.tab /\ runPage'.defsLoaded = runPage.defsLoaded
      BY <3>1 DEF RunWaits
    <3>3. Goes(runNet, runNet', {i})
      BY <1>0, <3>1, EndGoes
    <3>4. runPage'.tab = "pipelines" => runPage'.defsLoaded \/ runPage'.defsLoading
      BY <3>2 DEF RunWaits
    <3> QED
      BY <2>2, <2>3, <3>2, <3>3, <3>4, RunWaitsKept
  <2> QED
    BY <2>4, <2>5
<1>9. ASSUME NEW i \in Slot, RunsRead(i) PROVE RunWaits'
  <2> DEFINE why == runNet[i].arg.why
             p == IF Ok(runNet, i, "runs") THEN WithRuns(runPage, why, runNet[i].out)
                  ELSE [runPage EXCEPT !.failed = TRUE, !.runs = IF why = "more" THEN @ ELSE <<>>]
  <2>1. runNet[i].op = "runs" /\ runPage' = RunsSettled(p, why) /\ Goes(runNet, runNet', {i})
    BY <1>0, <1>9, EndGoes DEF RunsRead, Settled, Ok, Err
  <2>2. /\ DOMAIN p = DOMAIN runPage /\ p.phase = runPage.phase /\ p.refreshing = runPage.refreshing
        /\ p.loadingMore = runPage.loadingMore /\ p.defsLoading = runPage.defsLoading
        /\ p.tab = runPage.tab /\ p.defsLoaded = runPage.defsLoaded
    BY DEF WithRuns, RunWaits
  <2>3. ~EndsDefs({i}) /\ (\A w : w # why => ~EndsRuns({i}, w)) /\ (\A k \in {i} : runNet[k].op \notin {"conn", "defs"})
    BY <2>1 DEF EndsDefs, EndsRuns
  <2>4. why \in RunWhys
    BY <2>1, <1>9 DEF RunKinds, RunsRead, Settled, Ok, Err, Pending
  <2>5. /\ DOMAIN runPage' = DOMAIN runPage /\ runPage'.phase = (IF why = "mount" THEN "ready" ELSE runPage.phase)
        /\ runPage'.refreshing = (IF why = "refresh" THEN FALSE ELSE runPage.refreshing)
        /\ runPage'.loadingMore = (IF why = "more" THEN FALSE ELSE runPage.loadingMore)
        /\ runPage'.defsLoading = runPage.defsLoading /\ runPage'.tab = runPage.tab /\ runPage'.defsLoaded = runPage.defsLoaded
    <3> HIDE DEF p, why
    <3> QED
      BY <2>1, <2>2, <2>4 DEF RunsSettled, RunWaits, RunWhys
  <2>6. runPage'.tab = "pipelines" => runPage'.defsLoaded \/ runPage'.defsLoading
    BY <2>5 DEF RunWaits
  <2> HIDE DEF p, why
  <2> QED
    BY <2>1, <2>3, <2>5, <2>6, RunWaitsKept
<1>10. ASSUME NEW i \in Slot, DefsRead(i) PROVE RunWaits'
  <2>1. runNet[i].op = "defs" /\ Goes(runNet, runNet', {i})
    BY <1>0, <1>10, EndGoes DEF DefsRead, Settled, Ok, Err
  <2>2. /\ DOMAIN runPage' = DOMAIN runPage /\ runPage'.phase = runPage.phase
        /\ runPage'.refreshing => runPage.refreshing /\ runNet[i].arg # "refresh"
        /\ runPage'.loadingMore = runPage.loadingMore /\ runPage'.defsLoading = FALSE /\ runPage'.defsLoaded = TRUE
    <3>1. CASE runNet[i].arg = "refresh"
      BY <1>10, <3>1 DEF DefsRead, RunWaits
    <3>2. CASE runNet[i].arg # "refresh"
      BY <1>10, <3>2 DEF DefsRead, RunWaits
    <3> QED
      BY <3>1, <3>2
  <2>3. \A why : ~EndsRuns({i}, why)
    BY <2>1 DEF EndsRuns
  <2>4. \A k \in {i} : runNet[k].op = "defs" /\ (runPage'.refreshing => runNet[k].arg # "refresh")
    BY <2>1, <2>2
  <2> QED
    BY <2>1, <2>2, <2>3, <2>4, RunWaitsKept
<1> QED
  BY <1>1, <1>2, <1>3, <1>4, <1>5, <1>6, <1>7, <1>8, <1>9, <1>10, Zenon DEF RunsNext

-----------------------------------------------------------------------------
(* The checks *)

CheckWaits ==
    /\ {"rows", "loading", "warehouses", "editing", "saving", "checking", "clicks", "calm"} \subseteq DOMAIN checkList
    /\ IsNet(checkNet)
    /\ checkList.loading => \E j \in Pending(checkNet) : checkNet[j].op = "checks"
    /\ checkList.saving => \E j \in Pending(checkNet) : checkNet[j].op \in {"create", "edit"}
    /\ checkList.checking # None => \E j \in Pending(checkNet) : checkNet[j].op = "check"

\* It is kept when every flag that is up still has a request on its way.
LEMMA CheckWaitsKept ==
    ASSUME CheckWaits, NEW gone, Goes(checkNet, checkNet', gone), DOMAIN checkList' = DOMAIN checkList,
           checkList'.loading => checkList.loading /\ \A i \in gone : checkNet[i].op # "checks",
           checkList'.saving => \/ checkList.saving /\ \A i \in gone : checkNet[i].op \notin {"create", "edit"}
                                \/ \E op \in {"create", "edit"} : \E arg : Underway(checkNet', op, arg),
           checkList'.checking # None => \/ checkList.checking # None /\ \A i \in gone : checkNet[i].op # "check"
                                         \/ \E arg : Underway(checkNet', "check", arg)
    PROVE  CheckWaits'
  BY DEF CheckWaits, Goes, Underway

\* It holds at the start.
LEMMA CheckWaitsStart == ChecksInit => CheckWaits
<1> SUFFICES ASSUME ChecksInit PROVE CheckWaits
  OBVIOUS
<1>1. Goes(NoCalls, checkNet, {}) /\ Underway(checkNet, "checks", None)
  BY EmptyRoom, NoCallsIsNet, SendGoes DEF ChecksInit
<1> QED
  BY <1>1 DEF ChecksInit, CheckWaits, Goes, Underway

\* Every step keeps it.
LEMMA CheckWaitsStep == CheckWaits /\ [ChecksNext]_checkVars => CheckWaits'
<1> SUFFICES ASSUME CheckWaits, [ChecksNext]_checkVars PROVE CheckWaits'
  OBVIOUS
<1> USE DEF CheckWaits
<1> DEFINE Same == /\ DOMAIN checkList' = DOMAIN checkList /\ checkList'.loading = checkList.loading
                   /\ checkList'.saving = checkList.saving /\ checkList'.checking = checkList.checking
<1>1. CASE UNCHANGED <<checkList, checkNet>>
  BY <1>1, Zenon
<1>2. ASSUME NEW c, ToggleCheck(c) \/ DeleteCheck(c) PROVE CheckWaits'
  <2>1. Same
    BY <1>2 DEF ToggleCheck, DeleteCheck, StepCheck, Pressed
  <2>2. Goes(checkNet, checkNet', {})
    BY <1>2, SendGoes DEF ToggleCheck, DeleteCheck, OnCheckRow, PressCheck
  <2> QED
    BY <2>1, <2>2, CheckWaitsKept
<1>3. ASSUME NEW c, RunCheck(c) PROVE CheckWaits'
  <2>1. /\ DOMAIN checkList' = DOMAIN checkList /\ checkList'.loading = checkList.loading
        /\ checkList'.saving = checkList.saving
    BY <1>3 DEF RunCheck, StepCheck, Pressed
  <2>2. Goes(checkNet, checkNet', {}) /\ \E arg : Underway(checkNet', "check", arg)
    BY <1>3, SendGoes DEF RunCheck, OnCheckRow, PressCheck
  <2> QED
    BY <2>1, <2>2, CheckWaitsKept
<1>4. ASSUME NEW c, OpenCheckForm(c) PROVE CheckWaits'
  <2>1. Same
    BY <1>4 DEF OpenCheckForm
  <2>2. Goes(checkNet, checkNet', {})
    BY <1>4, SendGoes, StayGoes DEF OpenCheckForm, PressCheck
  <2> QED
    BY <2>1, <2>2, CheckWaitsKept
<1>5. CASE CloseCheckForm
  <2>1. Same /\ checkNet' = checkNet
    BY <1>5 DEF CloseCheckForm
  <2> QED
    BY <2>1, StayGoes, CheckWaitsKept
<1>6. ASSUME NEW f, SubmitCheck(f) PROVE CheckWaits'
  <2>1. /\ DOMAIN checkList' = DOMAIN checkList /\ checkList'.loading = checkList.loading
        /\ checkList'.checking = checkList.checking
    BY <1>6 DEF SubmitCheck, Pressed
  <2>2. Goes(checkNet, checkNet', {}) /\ \E op \in {"create", "edit"} : \E arg : Underway(checkNet', op, arg)
    BY <1>6, SendGoes DEF SubmitCheck, PressCheck
  <2> QED
    BY <2>1, <2>2, CheckWaitsKept
<1>7. ASSUME NEW i \in Slot, \/ ServeChecks(i) \/ ServeDeleteCheck(i) \/ ServeRunCheck(i) \/ ServeWarehouseNames(i)
                             \/ ServeCreateCheck(i) \/ ServeEditCheck(i) \/ CheckCallFails(i)
      PROVE  CheckWaits'
  <2>1. Same
    BY <1>7 DEF ServeChecks, ServeDeleteCheck, ServeRunCheck, ServeWarehouseNames, ServeCreateCheck, ServeEditCheck,
                CheckCallFails, Missed
  <2>2. Goes(checkNet, checkNet', {})
    BY <1>7, AnswerGoes DEF ServeChecks, ServeDeleteCheck, ServeRunCheck, ServeWarehouseNames, ServeCreateCheck,
                            ServeEditCheck, CheckCallFails, Sent, CanFail, Pending
  <2> QED
    BY <2>1, <2>2, CheckWaitsKept
<1>8. ASSUME NEW i \in Slot, ChecksRead(i) PROVE CheckWaits'
  <2>1. /\ DOMAIN checkList' = DOMAIN checkList /\ ~checkList'.loading
        /\ checkList'.saving = checkList.saving /\ checkList'.checking = checkList.checking
    BY <1>8 DEF ChecksRead
  <2>2. Goes(checkNet, checkNet', {i}) /\ checkNet[i].op = "checks"
    BY <1>8, EndGoes DEF ChecksRead, Settled, Ok, Err
  <2> QED
    BY <2>1, <2>2, CheckWaitsKept
<1>9. ASSUME NEW i \in Slot, CheckToggled(i) \/ CheckDeleted(i) \/ WarehouseNamesRead(i) PROVE CheckWaits'
  <2>1. Same
    BY <1>9 DEF CheckToggled, CheckDeleted, WarehouseNamesRead
  <2>2. Goes(checkNet, checkNet', {i}) /\ checkNet[i].op \in {"toggle", "delete", "warehouses"}
    BY <1>9, EndGoes DEF CheckToggled, CheckDeleted, WarehouseNamesRead, Settled, Ok, Err
  <2> QED
    BY <2>1, <2>2, CheckWaitsKept
<1>10. ASSUME NEW i \in Slot, CheckRan(i) PROVE CheckWaits'
  <2>1. /\ DOMAIN checkList' = DOMAIN checkList /\ checkList'.loading = checkList.loading
        /\ checkList'.saving = checkList.saving /\ checkList'.checking = None
    BY <1>10 DEF CheckRan
  <2>2. Goes(checkNet, checkNet', {i}) /\ checkNet[i].op = "check"
    BY <1>10, EndGoes DEF CheckRan, Settled, Ok, Err
  <2> QED
    BY <2>1, <2>2, CheckWaitsKept
<1>11. ASSUME NEW i \in Slot, CheckSaved(i) PROVE CheckWaits'
  <2>1. /\ DOMAIN checkList' = DOMAIN checkList /\ checkList'.loading = checkList.loading
        /\ ~checkList'.saving /\ checkList'.checking = checkList.checking
    BY <1>11 DEF CheckSaved
  <2>2. Goes(checkNet, checkNet', {i}) /\ checkNet[i].op \in {"create", "edit"}
    <3>1. Ok(checkNet, i, "create") \/ Err(checkNet, i, "create") \/ Ok(checkNet, i, "edit") \/ Err(checkNet, i, "edit")
      BY <1>11, Zenon DEF CheckSaved
    <3>2. checkNet' = Done(checkNet, i) \/ \E op, arg : checkNet' = Then(checkNet, i, op, arg)
      BY <1>11, Zenon DEF CheckSaved
    <3>3. checkNet[i].op \in {"create", "edit"}
      BY <3>1 DEF Ok, Err
    <3> QED
      BY <3>2, <3>3, EndGoes
  <2> QED
    BY <2>1, <2>2, CheckWaitsKept
<1> QED
  BY <1>1, <1>2, <1>3, <1>4, <1>5, <1>6, <1>7, <1>8, <1>9, <1>10, <1>11 DEF ChecksNext, checkVars

-----------------------------------------------------------------------------
(* The notification settings *)

NotifWaits ==
    /\ {"config", "saved", "loading", "saving", "names", "onlyOverridden", "clicks", "calm"} \subseteq DOMAIN notifTab
    /\ IsNet(notifNet)
    /\ notifTab.loading => \E j \in Pending(notifNet) : notifNet[j].op = "config"
    /\ notifTab.saving => \E j \in Pending(notifNet) : notifNet[j].op = "save"

\* It is kept when every flag that is up still has a request on its way.
LEMMA NotifWaitsKept ==
    ASSUME NotifWaits, NEW gone, Goes(notifNet, notifNet', gone), DOMAIN notifTab' = DOMAIN notifTab,
           notifTab'.loading => notifTab.loading /\ \A i \in gone : notifNet[i].op # "config",
           notifTab'.saving => \/ notifTab.saving /\ \A i \in gone : notifNet[i].op # "save"
                               \/ \E arg : Underway(notifNet', "save", arg)
    PROVE  NotifWaits'
  BY DEF NotifWaits, Goes, Underway

\* It holds at the start.
LEMMA NotifWaitsStart == NotifInit => NotifWaits
<1> SUFFICES ASSUME NotifInit PROVE NotifWaits
  OBVIOUS
<1>1. Room(NoCalls, 1)
  BY EmptyRoom
<1>2. Goes(NoCalls, notifNet, {}) /\ Underway(notifNet, "config", None)
  BY <1>1, NoCallsIsNet, SendGoes DEF NotifInit
<1> QED
  BY <1>2 DEF NotifInit, NotifWaits, Goes, Underway

\* Every step keeps it.
LEMMA NotifWaitsStep == NotifWaits /\ [NotifNext]_notifVars => NotifWaits'
<1> SUFFICES ASSUME NotifWaits, [NotifNext]_notifVars PROVE NotifWaits'
  OBVIOUS
<1> USE DEF NotifWaits
<1>1. CASE UNCHANGED <<notifTab, notifNet>>
  BY <1>1, Zenon
<1>2. ASSUME NEW config, Update(config) PROVE NotifWaits'
  <2>1. /\ notifNet' = notifNet /\ DOMAIN notifTab' = DOMAIN notifTab
        /\ notifTab'.loading = notifTab.loading /\ notifTab'.saving = notifTab.saving
    BY <1>2 DEF Update, Pressed
  <2> QED
    BY <2>1, StayGoes, NotifWaitsKept
<1>3. CASE SwitchNotif \/ SwitchQuiet \/ DiscardNotif \/ (\E h \in Hour : SetFrom(h) \/ SetUntil(h))
           \/ \E p \in PipelineName, v \in {None, TRUE, FALSE} : SetOverride(p, v)
  BY <1>2, <1>3 DEF SwitchNotif, SwitchQuiet, DiscardNotif, SetFrom, SetUntil, SetOverride
<1>4. CASE FilterOverridden
  <2>1. /\ notifNet' = notifNet /\ DOMAIN notifTab' = DOMAIN notifTab
        /\ notifTab'.loading = notifTab.loading /\ notifTab'.saving = notifTab.saving
    BY <1>4 DEF FilterOverridden
  <2> QED
    BY <2>1, StayGoes, NotifWaitsKept
<1>5. CASE SaveNotif
  <2>1. DOMAIN notifTab' = DOMAIN notifTab /\ notifTab'.loading = notifTab.loading
    BY <1>5 DEF SaveNotif, Pressed
  <2>2. Goes(notifNet, notifNet', {}) /\ \E arg : Underway(notifNet', "save", arg)
    BY <1>5, SendGoes DEF SaveNotif
  <2> QED
    BY <2>1, <2>2, NotifWaitsKept
<1>6. ASSUME NEW i \in Slot, ServeConfig(i) \/ ServeNames(i) \/ ServeSaveNotif(i) \/ NotifCallFails(i) PROVE NotifWaits'
  <2>1. /\ DOMAIN notifTab' = DOMAIN notifTab
        /\ notifTab'.loading = notifTab.loading /\ notifTab'.saving = notifTab.saving
    BY <1>6 DEF ServeConfig, ServeNames, ServeSaveNotif, NotifCallFails, Missed
  <2>2. Goes(notifNet, notifNet', {})
    BY <1>6, AnswerGoes DEF ServeConfig, ServeNames, ServeSaveNotif, NotifCallFails, Sent, CanFail, Pending
  <2> QED
    BY <2>1, <2>2, NotifWaitsKept
<1>7. ASSUME NEW i \in Slot, ConfigRead(i) PROVE NotifWaits'
  <2>1. DOMAIN notifTab' = DOMAIN notifTab /\ ~notifTab'.loading /\ notifTab'.saving = notifTab.saving
    BY <1>7 DEF ConfigRead
  <2>2. Goes(notifNet, notifNet', {i}) /\ notifNet[i].op = "config"
    BY <1>7, EndGoes DEF ConfigRead, Settled, Ok, Err
  <2> QED
    BY <2>1, <2>2, NotifWaitsKept
<1>8. ASSUME NEW i \in Slot, NamesRead(i) PROVE NotifWaits'
  <2>1. /\ DOMAIN notifTab' = DOMAIN notifTab
        /\ notifTab'.loading = notifTab.loading /\ notifTab'.saving = notifTab.saving
    BY <1>8 DEF NamesRead
  <2>2. Goes(notifNet, notifNet', {i}) /\ notifNet[i].op = "names"
    BY <1>8, EndGoes DEF NamesRead, Settled, Ok, Err
  <2> QED
    BY <2>1, <2>2, NotifWaitsKept
<1>9. ASSUME NEW i \in Slot, NotifSaved(i) PROVE NotifWaits'
  <2>1. DOMAIN notifTab' = DOMAIN notifTab /\ notifTab'.loading = notifTab.loading /\ ~notifTab'.saving
    BY <1>9 DEF NotifSaved
  <2>2. Goes(notifNet, notifNet', {i}) /\ notifNet[i].op = "save"
    BY <1>9, EndGoes DEF NotifSaved, Settled, Ok, Err
  <2> QED
    BY <2>1, <2>2, NotifWaitsKept
<1> QED
  BY <1>1, <1>3, <1>4, <1>5, <1>6, <1>7, <1>8, <1>9 DEF NotifNext, notifVars

-----------------------------------------------------------------------------
(* The exports *)

\* The table of runs is loading while a list is asked for.
TableWaits ==
    /\ {"kind", "text", "filters", "rows", "loading", "clicks", "calm"} \subseteq DOMAIN runTable
    /\ IsNet(tableNet)
    /\ runTable.loading => \E j \in Pending(tableNet) : tableNet[j].op = "list"

\* It is kept when every flag that is up still has a request on its way.
LEMMA TableWaitsKept ==
    ASSUME TableWaits, NEW gone, Goes(tableNet, tableNet', gone), DOMAIN runTable' = DOMAIN runTable,
           runTable'.loading => runTable.loading,
           \/ ~runTable'.loading
           \/ \A i \in gone : tableNet[i].op # "list"
           \/ \E arg : Underway(tableNet', "list", arg)
    PROVE  TableWaits'
  BY DEF TableWaits, Goes, Underway

\* It holds at the start.
LEMMA TableWaitsStart == TablesInit => TableWaits
<1> SUFFICES ASSUME TablesInit PROVE TableWaits
  OBVIOUS
<1>1. Goes(NoCalls, tableNet, {}) /\ \E arg : Underway(tableNet, "list", arg)
  BY NoCallsIsNet, EmptyRoom, SendGoes DEF TablesInit, AskRuns
<1> QED
  BY <1>1 DEF TablesInit, TableWaits, Goes, Underway

\* Every step keeps it.
LEMMA TableWaitsStep == TableWaits /\ [TablesNext]_tableVars => TableWaits'
<1> SUFFICES ASSUME TableWaits, [TablesNext]_tableVars PROVE TableWaits'
  OBVIOUS
<1> USE DEF TableWaits
<1>1. CASE UNCHANGED <<runTable, tableNet>>
  BY <1>1, Zenon
<1>2. ASSUME NEW w \in Word, AnotherRun(w) PROVE TableWaits'
  <2>1. tableNet' = tableNet /\ DOMAIN runTable' = DOMAIN runTable /\ runTable'.loading = runTable.loading
    BY <1>2 DEF AnotherRun
  <2> QED
    BY <2>1, StayGoes, TableWaitsKept
<1>9. ASSUME NEW t \in Word \cup {NoText}, TypeSearch(t) PROVE TableWaits'
  <2>1. tableNet' = tableNet /\ DOMAIN runTable' = DOMAIN runTable /\ runTable'.loading = runTable.loading
    BY <1>9 DEF TypeSearch, StepLog, Pressed
  <2> QED
    BY <2>1, StayGoes, TableWaitsKept
<1>8. ASSUME NEW run \in runLog, RunGoesOn(run) PROVE TableWaits'
  <2>1. tableNet' = tableNet /\ DOMAIN runTable' = DOMAIN runTable /\ runTable'.loading = runTable.loading
    BY <1>8 DEF RunGoesOn
  <2> QED
    BY <2>1, StayGoes, TableWaitsKept
<1>3. CASE SearchSettles \/ ClearFilters \/ \E st \in {NoText, "running", "failed"} : ChooseStatus(st)
  <2>1. DOMAIN runTable' = DOMAIN runTable /\ runTable'.loading = runTable.loading
    BY <1>3 DEF SearchSettles, ClearFilters, ChooseStatus, NewFilters, StepLog, Pressed
  <2>2. Goes(tableNet, tableNet', {})
    BY <1>3, SendGoes DEF SearchSettles, ClearFilters, ChooseStatus, AskRuns, PressTable
  <2> QED
    BY <2>1, <2>2, TableWaitsKept
<1>4. CASE PollLog \/ \E run \in runTable.rows : CancelRun(run)
  <2>1. DOMAIN runTable' = DOMAIN runTable /\ runTable'.loading = runTable.loading
    BY <1>4 DEF PollLog, CancelRun, StepLog, Pressed
  <2>2. Goes(tableNet, tableNet', {})
    BY <1>4, SendGoes DEF PollLog, AskRuns, CancelRun, PressTable
  <2> QED
    BY <2>1, <2>2, TableWaitsKept
<1>5. ASSUME NEW i \in Slot, ServeRunList(i) \/ ServeCancel(i) \/ TableCallFails(i) PROVE TableWaits'
  <2>1. DOMAIN runTable' = DOMAIN runTable /\ runTable'.loading = runTable.loading
    BY <1>5 DEF ServeRunList, ServeCancel, TableCallFails, Missed
  <2>2. Goes(tableNet, tableNet', {})
    BY <1>5, AnswerGoes DEF ServeRunList, ServeCancel, TableCallFails, Sent, CanFail, Pending
  <2> QED
    BY <2>1, <2>2, TableWaitsKept
<1>6. ASSUME NEW i \in Slot, RowsListed(i) PROVE TableWaits'
  <2>1. DOMAIN runTable' = DOMAIN runTable /\ ~runTable'.loading
    BY <1>6 DEF RowsListed
  <2>2. Goes(tableNet, tableNet', {i})
    BY <1>6, EndGoes DEF RowsListed
  <2> QED
    BY <2>1, <2>2, TableWaitsKept
<1>7. ASSUME NEW i \in Slot, CancelAnswered(i) PROVE TableWaits'
  <2>1. DOMAIN runTable' = DOMAIN runTable /\ runTable'.loading = runTable.loading
    BY <1>7 DEF CancelAnswered
  <2>2. Goes(tableNet, tableNet', {i}) /\ tableNet[i].op = "cancel"
    BY <1>7, EndGoes DEF CancelAnswered, Settled, Ok, Err
  <2> QED
    BY <2>1, <2>2, TableWaitsKept
<1> QED
  BY <1>1, <1>2, <1>3, <1>4, <1>5, <1>6, <1>7, <1>8, <1>9 DEF TablesNext, tableVars

-----------------------------------------------------------------------------
(* The dashboards *)

\* A call that a dialog of the dashboards page waits for.
BoardsBusy(dialog, op, arg) ==
    /\ arg.n = dialog.n
    /\ \/ dialog.kind = "form" /\ op \in {"newboard", "editboard"}
       \/ dialog.kind = "history" /\ op = "versions"

BoardsWaits ==
    /\ {"rows", "dialog", "clicks", "calm"} \subseteq DOMAIN boardPage
    /\ IsNet(boardsNet)
    /\ boardPage.dialog # None =>
          /\ {"kind", "row", "n", "busy"} \subseteq DOMAIN boardPage.dialog
          /\ boardPage.dialog.kind = "history" => {"versions", "restoring"} \subseteq DOMAIN boardPage.dialog
          /\ boardPage.dialog.busy =>
                \E j \in Pending(boardsNet) : BoardsBusy(boardPage.dialog, boardsNet[j].op, boardsNet[j].arg)

\* It is kept when every flag that is up still has a request on its way.
LEMMA BoardsWaitsKept ==
    ASSUME BoardsWaits, NEW gone, Goes(boardsNet, boardsNet', gone), DOMAIN boardPage' = DOMAIN boardPage,
           \/ boardPage'.dialog = None
           \/ /\ boardPage.dialog # None /\ boardPage'.dialog # None
              /\ DOMAIN boardPage'.dialog = DOMAIN boardPage.dialog
              /\ boardPage'.dialog.kind = boardPage.dialog.kind /\ boardPage'.dialog.n = boardPage.dialog.n
              /\ boardPage'.dialog.busy =>
                   \/ /\ boardPage.dialog.busy
                      /\ \A i \in gone : ~BoardsBusy(boardPage.dialog, boardsNet[i].op, boardsNet[i].arg)
                   \/ \E op, arg : BoardsBusy(boardPage.dialog, op, arg) /\ Underway(boardsNet', op, arg)
    PROVE  BoardsWaits'
<1>1. CASE boardPage'.dialog = None
  BY <1>1 DEF BoardsWaits, Goes
<1>2. CASE boardPage'.dialog # None
  <2>1. \A op, arg : BoardsBusy(boardPage'.dialog, op, arg) <=> BoardsBusy(boardPage.dialog, op, arg)
    BY <1>2 DEF BoardsBusy
  <2>2. boardPage'.dialog.busy =>
            \E j \in Pending(boardsNet') : BoardsBusy(boardPage.dialog, boardsNet'[j].op, boardsNet'[j].arg)
    BY <1>2 DEF BoardsWaits, Goes, Underway
  <2> QED
    BY <1>2, <2>1, <2>2 DEF BoardsWaits, Goes
<1> QED
  BY <1>1, <1>2

\* It holds at the start.
LEMMA BoardsWaitsStart == BoardsInit => BoardsWaits
  BY NoCallsIsNet DEF BoardsInit, BoardsWaits

\* Every step keeps it.
LEMMA BoardsWaitsStep == BoardsWaits /\ [BoardsNext]_boardsVars => BoardsWaits'
<1> SUFFICES ASSUME BoardsWaits, [BoardsNext]_boardsVars PROVE BoardsWaits'
  OBVIOUS
<1> USE DEF BoardsWaits
<1> DEFINE Same == DOMAIN boardPage' = DOMAIN boardPage /\ boardPage'.dialog = boardPage.dialog
<1>0. ASSUME Same, NEW gone, Goes(boardsNet, boardsNet', gone),
             \A i \in gone : boardsNet[i].op \notin {"newboard", "editboard", "versions"}
      PROVE  BoardsWaits'
  BY <1>0, BoardsWaitsKept DEF BoardsBusy
<1>1. CASE UNCHANGED <<boardPage, boardsNet>>
  BY <1>1, StayGoes, <1>0
<1>2. ASSUME NEW b, ToggleActive(b) PROVE BoardsWaits'
  <2>1. Same
    BY <1>2 DEF ToggleActive, StepBoards, Pressed
  <2>2. Goes(boardsNet, boardsNet', {})
    BY <1>2, SendGoes DEF ToggleActive, PressBoards
  <2> QED
    BY <1>0, <2>1, <2>2
<1>3. ASSUME NEW b, OpenHistoryOf(b) PROVE BoardsWaits'
  <2>1. /\ DOMAIN boardPage' = DOMAIN boardPage
        /\ boardPage'.dialog = [kind |-> "history", row |-> b, n |-> boardPage.clicks,
                                busy |-> TRUE, versions |-> <<>>, restoring |-> None]
    BY <1>3 DEF OpenHistoryOf, StepBoards, Pressed
  <2>2. IsNet(boardsNet') /\ Underway(boardsNet', "versions", [id |-> b.id, n |-> boardPage.clicks])
    BY <1>3, SendGoes DEF OpenHistoryOf, PressBoards, Goes
  <2> QED
    BY <2>1, <2>2 DEF Underway, BoardsBusy
<1>4. ASSUME NEW kind \in {"form", "delete"}, NEW b, OpenBoardsDialog(kind, b) PROVE BoardsWaits'
  <2>1. /\ DOMAIN boardPage' = DOMAIN boardPage /\ boardsNet' = boardsNet
        /\ boardPage'.dialog = [kind |-> kind, row |-> b, n |-> boardPage.clicks, busy |-> FALSE]
    BY <1>4 DEF OpenBoardsDialog
  <2> QED
    BY <2>1
<1>5. CASE CloseBoardsDialog
  <2>1. DOMAIN boardPage' = DOMAIN boardPage /\ boardsNet' = boardsNet /\ boardPage'.dialog = None
    BY <1>5 DEF CloseBoardsDialog
  <2> QED
    BY <2>1
<1>6. CASE DropBoard
  <2>1. Same
    BY <1>6 DEF DropBoard, StepBoards, Pressed
  <2>2. Goes(boardsNet, boardsNet', {})
    BY <1>6, SendGoes DEF DropBoard, PressBoards
  <2> QED
    BY <1>0, <2>1, <2>2
<1>7. ASSUME NEW c, SubmitBoard(c) PROVE BoardsWaits'
  <2>1. /\ DOMAIN boardPage' = DOMAIN boardPage /\ boardPage.dialog # None /\ boardPage.dialog.kind = "form"
        /\ boardPage'.dialog = [boardPage.dialog EXCEPT !.busy = TRUE]
    BY <1>7 DEF SubmitBoard, BoardsDialog, StepBoards, Pressed
  <2>2. PICK op, arg : /\ op \in {"newboard", "editboard"} /\ arg.n = boardPage.dialog.n
                       /\ boardsNet' = Send(boardsNet, op, arg)
    BY <1>7 DEF SubmitBoard
  <2>3. IsNet(boardsNet') /\ Underway(boardsNet', op, arg)
    BY <1>7, <2>2, SendGoes DEF SubmitBoard, PressBoards, Goes
  <2>4. /\ {"kind", "row", "n", "busy"} \subseteq DOMAIN boardPage'.dialog
        /\ boardPage'.dialog.kind = "form" /\ boardPage'.dialog.n = boardPage.dialog.n
    BY <2>1
  <2> QED
    BY <2>1, <2>2, <2>3, <2>4 DEF Underway, BoardsBusy
<1>8. ASSUME NEW v, RestoreBoard(v) PROVE BoardsWaits'
  <2>1. /\ DOMAIN boardPage' = DOMAIN boardPage /\ boardPage.dialog # None /\ boardPage.dialog.kind = "history"
        /\ boardPage'.dialog = [boardPage.dialog EXCEPT !.restoring = v] /\ ~boardPage.dialog.busy
    BY <1>8 DEF RestoreBoard, BoardsDialog, StepBoards, Pressed
  <2>2. IsNet(boardsNet')
    BY <1>8, SendGoes DEF RestoreBoard, PressBoards, Goes
  <2> QED
    BY <2>1, <2>2
<1>9. ASSUME NEW i \in Slot, \/ ServeBoards(i) \/ BeginToggle(i) \/ CommitToggle(i) \/ ServeDropBoard(i) \/ ServeNewBoard(i)
                             \/ BeginEdit(i) \/ CommitEdit(i) \/ ServeVersions(i) \/ BeginRestore(i) \/ CommitRestore(i)
      PROVE  BoardsWaits'
  <2>1. boardPage' = boardPage
    <3>1. CASE BeginToggle(i) \/ BeginEdit(i) \/ BeginRestore(i)
      BY <3>1, Zenon DEF BeginToggle, BeginEdit, BeginRestore, BeginBoardUpdate
    <3>2. CASE CommitToggle(i) \/ CommitEdit(i) \/ CommitRestore(i)
      BY <3>2, Zenon DEF CommitToggle, CommitEdit, CommitRestore, CommitBoardUpdate
    <3>3. CASE ServeBoards(i) \/ ServeDropBoard(i) \/ ServeNewBoard(i) \/ ServeVersions(i)
      BY <3>3, Zenon DEF ServeBoards, ServeDropBoard, ServeNewBoard, ServeVersions
    <3> QED
      BY <1>9, <3>1, <3>2, <3>3
  <2>2. /\ boardsNet[i] # Free
        /\ \/ boardsNet' = Fail(boardsNet, i) \/ (\E out : boardsNet' = Reply(boardsNet, i, out))
           \/ \E tx : boardsNet' = Begin(boardsNet, i, tx)
    <3>1. ASSUME NEW op, BeginBoardUpdate(i, op)
          PROVE  boardsNet[i] # Free /\ (boardsNet' = Fail(boardsNet, i) \/ \E tx : boardsNet' = Begin(boardsNet, i, tx))
      BY <3>1, Zenon DEF BeginBoardUpdate, Sent
    <3>2. ASSUME NEW op, NEW content, NEW active, CommitBoardUpdate(i, op, content, active)
          PROVE  boardsNet[i] # Free /\ (boardsNet' = Fail(boardsNet, i) \/ \E out : boardsNet' = Reply(boardsNet, i, out))
      BY <3>2, Zenon DEF CommitBoardUpdate, Open
    <3>3. CASE BeginToggle(i) \/ BeginEdit(i) \/ BeginRestore(i)
      BY <3>1, <3>3 DEF BeginToggle, BeginEdit, BeginRestore
    <3>4. CASE CommitToggle(i) \/ CommitEdit(i) \/ CommitRestore(i)
      BY <3>2, <3>4 DEF CommitToggle, CommitEdit, CommitRestore
    <3>5. CASE ServeBoards(i) \/ ServeDropBoard(i) \/ ServeNewBoard(i) \/ ServeVersions(i)
      BY <3>5, Zenon DEF ServeBoards, ServeDropBoard, ServeNewBoard, ServeVersions, Sent
    <3> QED
      BY <1>9, <3>3, <3>4, <3>5
  <2>3. Goes(boardsNet, boardsNet', {})
    BY <2>2, AnswerGoes
  <2> QED
    BY <1>0, <2>1, <2>3
<1>10. ASSUME NEW i \in Slot, BoardsRead(i) \/ Toggled(i) PROVE BoardsWaits'
  <2>1. Same
    BY <1>10 DEF BoardsRead, Toggled
  <2>2. Goes(boardsNet, boardsNet', {i}) /\ boardsNet[i].op \in {"boards", "toggle"}
    BY <1>10, EndGoes DEF BoardsRead, Toggled, Settled, Ok, Err
  <2> QED
    BY <1>0, <2>1, <2>2
<1>11. ASSUME NEW i \in Slot, BoardDropped(i) PROVE BoardsWaits'
  <2>1. DOMAIN boardPage' = DOMAIN boardPage /\ boardPage'.dialog \in {boardPage.dialog, None}
    BY <1>11 DEF BoardDropped
  <2>2. Goes(boardsNet, boardsNet', {i}) /\ boardsNet[i].op = "dropboard"
    BY <1>11, EndGoes DEF BoardDropped, Settled, Ok, Err
  <2>3. CASE boardPage'.dialog = None
    BY <2>1, <2>2, <2>3, BoardsWaitsKept
  <2> QED
    BY <1>0, <2>1, <2>2, <2>3
<1>12. ASSUME NEW i \in Slot, BoardFormSettled(i) PROVE BoardsWaits'
  <2>1. Goes(boardsNet, boardsNet', {i}) /\ boardsNet[i].op \in {"newboard", "editboard"}
    <3>1. Ok(boardsNet, i, "newboard") \/ Err(boardsNet, i, "newboard") \/ Ok(boardsNet, i, "editboard") \/ Err(boardsNet, i, "editboard")
      BY <1>12, Zenon DEF BoardFormSettled
    <3>2. boardsNet' = Done(boardsNet, i) \/ \E op, arg : boardsNet' = Then(boardsNet, i, op, arg)
      BY <1>12, Zenon DEF BoardFormSettled
    <3>3. boardsNet[i].op \in {"newboard", "editboard"}
      BY <3>1 DEF Ok, Err
    <3> QED
      BY <3>2, <3>3, EndGoes
  <2>2. CASE BoardsDialog("form") /\ boardPage.dialog.n = boardsNet[i].arg.n
    <3>1. DOMAIN boardPage' = DOMAIN boardPage /\ (boardPage'.dialog = None \/ boardPage'.dialog = [boardPage.dialog EXCEPT !.busy = FALSE])
      BY <1>12, <2>2 DEF BoardFormSettled
    <3>2. boardPage.dialog # None
      BY <2>2 DEF BoardsDialog
    <3>3. CASE boardPage'.dialog = None
      BY <2>1, <3>1, <3>3, BoardsWaitsKept
    <3>4. CASE boardPage'.dialog = [boardPage.dialog EXCEPT !.busy = FALSE]
      BY <2>1, <3>1, <3>2, <3>4 DEF Goes
    <3> QED
      BY <3>1, <3>3, <3>4
  <2>3. CASE ~(BoardsDialog("form") /\ boardPage.dialog.n = boardsNet[i].arg.n)
    <3>1. DOMAIN boardPage' = DOMAIN boardPage /\ (boardPage'.dialog = None \/ boardPage'.dialog = boardPage.dialog)
      BY <1>12, <2>3 DEF BoardFormSettled
    <3>2. boardPage.dialog # None => ~BoardsBusy(boardPage.dialog, boardsNet[i].op, boardsNet[i].arg)
      BY <2>1, <2>3 DEF BoardsBusy, BoardsDialog
    <3> QED
      BY <2>1, <3>1, <3>2, BoardsWaitsKept
  <2> QED
    BY <2>2, <2>3
<1>13. ASSUME NEW i \in Slot, VersionsRead(i) PROVE BoardsWaits'
  <2>1. Goes(boardsNet, boardsNet', {i}) /\ boardsNet[i].op = "versions"
    BY <1>13, EndGoes DEF VersionsRead, Settled, Ok, Err
  <2>2. CASE MyHistory(i)
    <3>1. boardPage.dialog # None /\ {"kind", "row", "n", "busy", "versions"} \subseteq DOMAIN boardPage.dialog
      BY <2>2 DEF MyHistory, BoardsDialog
    <3>2. /\ DOMAIN boardPage' = DOMAIN boardPage /\ boardPage'.dialog.busy = FALSE
          /\ DOMAIN boardPage'.dialog = DOMAIN boardPage.dialog
          /\ boardPage'.dialog.kind = boardPage.dialog.kind
      <4>1. CASE Ok(boardsNet, i, "versions")
        BY <1>13, <2>2, <3>1, <4>1 DEF VersionsRead
      <4>2. CASE ~Ok(boardsNet, i, "versions")
        BY <1>13, <2>2, <3>1, <4>2 DEF VersionsRead
      <4> QED
        BY <4>1, <4>2
    <3> QED
      BY <2>1, <3>1, <3>2 DEF Goes
  <2>3. CASE ~MyHistory(i)
    <3>1. boardPage' = boardPage
      BY <1>13, <2>3 DEF VersionsRead
    <3>2. boardPage.dialog # None => ~BoardsBusy(boardPage.dialog, boardsNet[i].op, boardsNet[i].arg)
      BY <2>1, <2>3 DEF BoardsBusy, MyHistory, BoardsDialog
    <3> QED
      BY <2>1, <3>1, <3>2, BoardsWaitsKept
  <2> QED
    BY <2>2, <2>3
<1>14. ASSUME NEW i \in Slot, BoardRestored(i) PROVE BoardsWaits'
  <2>1. Goes(boardsNet, boardsNet', {i}) /\ boardsNet[i].op = "restore"
    <3>1. Ok(boardsNet, i, "restore") \/ Err(boardsNet, i, "restore")
      BY <1>14, Zenon DEF BoardRestored
    <3>2. boardsNet' = Done(boardsNet, i) \/ \E op, arg : boardsNet' = Then(boardsNet, i, op, arg)
      BY <1>14, Zenon DEF BoardRestored
    <3>3. boardsNet[i].op = "restore"
      BY <3>1 DEF Ok, Err
    <3> QED
      BY <3>2, <3>3, EndGoes
  <2>2. CASE boardPage'.dialog = None /\ DOMAIN boardPage' = DOMAIN boardPage
    BY <2>1, <2>2, BoardsWaitsKept
  <2>3. CASE boardPage' = [boardPage EXCEPT !.dialog.restoring = None] /\ MyHistory(i)
    <3>1. boardPage.dialog # None
      BY <2>3 DEF MyHistory, BoardsDialog
    <3>2. /\ DOMAIN boardPage' = DOMAIN boardPage /\ boardPage'.dialog = [boardPage.dialog EXCEPT !.restoring = None]
      BY <2>3
    <3>3. boardPage.dialog.busy => \E j \in Pending(boardsNet') : BoardsBusy(boardPage.dialog, boardsNet'[j].op, boardsNet'[j].arg)
      BY <2>1, <3>1 DEF Goes, BoardsBusy
    <3>4. /\ {"kind", "row", "n", "busy"} \subseteq DOMAIN boardPage'.dialog /\ boardPage'.dialog.busy = boardPage.dialog.busy
          /\ boardPage'.dialog.kind = boardPage.dialog.kind /\ boardPage'.dialog.n = boardPage.dialog.n
          /\ DOMAIN boardPage'.dialog = DOMAIN boardPage.dialog
      BY <3>1, <3>2
    <3>5. \A op, arg : BoardsBusy(boardPage'.dialog, op, arg) <=> BoardsBusy(boardPage.dialog, op, arg)
      BY <3>4 DEF BoardsBusy
    <3> QED
      BY <2>1, <3>1, <3>2, <3>3, <3>4, <3>5 DEF Goes
  <2>4. CASE Same
    BY <1>0, <2>1, <2>4
  <2>5. \/ boardPage'.dialog = None /\ DOMAIN boardPage' = DOMAIN boardPage
        \/ boardPage' = [boardPage EXCEPT !.dialog.restoring = None] /\ MyHistory(i)
        \/ Same
    BY <1>14 DEF BoardRestored
  <2> QED
    BY <2>2, <2>3, <2>4, <2>5
<1>15. ASSUME NEW i \in Slot, BoardsCallFails(i) PROVE BoardsWaits'
  <2>1. Same
    BY <1>15 DEF BoardsCallFails, Missed
  <2>2. Goes(boardsNet, boardsNet', {})
    BY <1>15, AnswerGoes DEF BoardsCallFails, CanFail, Pending
  <2> QED
    BY <1>0, <2>1, <2>2
<1> QED
  BY <1>1, <1>2, <1>3, <1>4, <1>5, <1>6, <1>7, <1>8, <1>9, <1>10, <1>11, <1>12, <1>13, <1>14, <1>15, Zenon DEF BoardsNext, boardsVars

-----------------------------------------------------------------------------
(* The form of a dashboard *)

\* A call for the n-th opening of a form.
AwaitsFor(net, op, n) == \E j \in Pending(net) : net[j].op = op /\ net[j].arg.n = n

\* Each flag of the form of a dashboard has its call.
BoardFits(f, net) ==
    /\ IsNet(net)
    /\ {"edit", "n", "loading", "saving", "conn", "mode", "workspaces", "workspace", "reports", "report",
        "listing", "reading", "error", "orig", "touched"} \subseteq DOMAIN f
    /\ f.loading => AwaitsFor(net, "board", f.n)
    /\ f.saving => AwaitsFor(net, "save", f.n)
    /\ f.listing => AwaitsFor(net, "workspaces", f.n)
    /\ f.reading => AwaitsFor(net, "reports", f.n)

BoardWaits ==
    /\ IsNet(boardNet) /\ {"clicks", "calm"} \subseteq DOMAIN boardLog
    /\ boardForm # None => BoardFits(boardForm, boardNet)

\* A call on its way stays while others come and go.
LEMMA AwaitsForGoes ==
    ASSUME NEW net, NEW next, NEW gone, Goes(net, next, gone), NEW op, NEW n, AwaitsFor(net, op, n),
           \A i \in gone : net[i].op # op \/ net[i].arg.n # n
    PROVE  AwaitsFor(next, op, n)
  BY DEF AwaitsFor, Goes

\* One that was sent is on its way.
LEMMA AskedAwaits ==
    ASSUME NEW net, NEW op, NEW arg, Underway(net, op, arg)
    PROVE  AwaitsFor(net, op, arg.n)
  BY DEF AwaitsFor, Underway

LEMMA BoardFitsKept ==
    ASSUME NEW f, NEW net, BoardFits(f, net), NEW g, NEW next, NEW gone, Goes(net, next, gone),
           DOMAIN g = DOMAIN f, g.n = f.n,
           g.loading => f.loading /\ \A i \in gone : net[i].op # "board" \/ net[i].arg.n # f.n,
           g.saving => f.saving /\ \A i \in gone : net[i].op # "save" \/ net[i].arg.n # f.n,
           g.listing => f.listing /\ \A i \in gone : net[i].op # "workspaces" \/ net[i].arg.n # f.n,
           g.reading => f.reading /\ \A i \in gone : net[i].op # "reports" \/ net[i].arg.n # f.n
    PROVE  BoardFits(g, next)
<1>1. IsNet(next)
  BY DEF Goes
<1> QED
  BY <1>1, AwaitsForGoes DEF BoardFits

\* The effects ask for what they say they wait for.
LEMMA ListsFits ==
    ASSUME NEW f, NEW net, BoardFits(f, net), Room(net, 1)
    PROVE  /\ BoardFits(Listing(f), AskWorkspaces(f, net)) /\ DOMAIN Listing(f) = DOMAIN f
           /\ Listing(f).n = f.n /\ Listing(f).conn = f.conn /\ Listing(f).workspace = f.workspace
<1> DEFINE arg == [conn |-> f.conn, n |-> f.n]
           g == [f EXCEPT !.listing = TRUE, !.error = FALSE]
<1>1. CASE ~Lists(f)
  BY <1>1 DEF Listing, AskWorkspaces
<1>2. CASE Lists(f)
  <2>1. AskWorkspaces(f, net) = Send(net, "workspaces", arg) /\ Listing(f) = g
    BY <1>2 DEF AskWorkspaces, Listing
  <2>2. Goes(net, Send(net, "workspaces", arg), {}) /\ Underway(Send(net, "workspaces", arg), "workspaces", arg)
    BY SendGoes DEF BoardFits
  <2>3. IsNet(Send(net, "workspaces", arg)) /\ AwaitsFor(Send(net, "workspaces", arg), "workspaces", f.n)
    BY <2>2, AskedAwaits DEF Goes
  <2>4. /\ DOMAIN g = DOMAIN f /\ g.n = f.n /\ g.loading = f.loading /\ g.saving = f.saving /\ g.reading = f.reading
        /\ g.conn = f.conn /\ g.workspace = f.workspace
    BY DEF BoardFits
  <2> HIDE DEF g, arg
  <2> QED
    BY <2>1, <2>2, <2>3, <2>4, AwaitsForGoes DEF BoardFits
<1> QED
  BY <1>1, <1>2

LEMMA ReadsFits ==
    ASSUME NEW f, NEW net, BoardFits(f, net), Room(net, 1)
    PROVE  BoardFits(Reading(f), AskReports(f, net))
<1> DEFINE arg == [conn |-> f.conn, workspace |-> f.workspace, n |-> f.n]
           g == [f EXCEPT !.reading = TRUE, !.reports = {}]
<1>1. CASE ~Reads(f)
  BY <1>1 DEF Reading, AskReports
<1>2. CASE Reads(f)
  <2>1. AskReports(f, net) = Send(net, "reports", arg) /\ Reading(f) = g
    BY <1>2 DEF AskReports, Reading
  <2>2. Goes(net, Send(net, "reports", arg), {}) /\ Underway(Send(net, "reports", arg), "reports", arg)
    BY SendGoes DEF BoardFits
  <2>3. IsNet(Send(net, "reports", arg)) /\ AwaitsFor(Send(net, "reports", arg), "reports", f.n)
    BY <2>2, AskedAwaits DEF Goes
  <2>4. DOMAIN g = DOMAIN f /\ g.n = f.n /\ g.loading = f.loading /\ g.saving = f.saving /\ g.listing = f.listing
    BY DEF BoardFits
  <2> HIDE DEF g, arg
  <2> QED
    BY <2>1, <2>2, <2>3, <2>4, AwaitsForGoes DEF BoardFits
<1> QED
  BY <1>1, <1>2

\* It is kept when every flag that is up still has a request on its way.
LEMMA BoardWaitsKept ==
    ASSUME BoardWaits, NEW gone, Goes(boardNet, boardNet', gone), DOMAIN boardLog' = DOMAIN boardLog,
           boardForm # None, DOMAIN boardForm' = DOMAIN boardForm, boardForm'.n = boardForm.n,
           boardForm'.loading => boardForm.loading /\ \A i \in gone : boardNet[i].op # "board" \/ boardNet[i].arg.n # boardForm.n,
           boardForm'.saving => boardForm.saving /\ \A i \in gone : boardNet[i].op # "save" \/ boardNet[i].arg.n # boardForm.n,
           boardForm'.listing =>
               boardForm.listing /\ \A i \in gone : boardNet[i].op # "workspaces" \/ boardNet[i].arg.n # boardForm.n,
           boardForm'.reading => boardForm.reading /\ \A i \in gone : boardNet[i].op # "reports" \/ boardNet[i].arg.n # boardForm.n
    PROVE  BoardWaits'
<1>1. BoardFits(boardForm, boardNet) /\ {"clicks", "calm"} \subseteq DOMAIN boardLog'
  BY DEF BoardWaits
<1>2. BoardFits(boardForm', boardNet')
  BY <1>1, BoardFitsKept
<1> QED
  BY <1>1, <1>2 DEF BoardWaits, Goes

\* It holds at the start.
LEMMA BoardWaitsStart == BoardInit => BoardWaits
  BY NoCallsIsNet DEF BoardInit, BoardWaits

LEMMA OpenBoardWaits ==
    ASSUME BoardWaits, NEW edit \in BOOLEAN, OpenBoard(edit)
    PROVE  BoardWaits'
<1> DEFINE n == boardLog.clicks
           f == NewForm(edit)
           new == AskWorkspaces(f, boardNet)
           arg == [n |-> n]
<1>1. /\ Room(boardNet, 2) /\ boardForm' = Listing(f) /\ DOMAIN boardLog' = DOMAIN boardLog
      /\ boardNet' = IF edit THEN Send(new, "board", arg) ELSE new
  BY DEF OpenBoard, PressBoard, Pressed, BoardWaits
<1>2. /\ {"edit", "n", "loading", "saving", "conn", "mode", "workspaces", "workspace", "reports", "report",
          "listing", "reading", "error", "orig", "touched"} \subseteq DOMAIN f
      /\ Lists(f) /\ f.n = n /\ f.loading = edit /\ ~f.saving /\ ~f.reading
  BY DEF NewForm, Lists
<1>3. new = Send(boardNet, "workspaces", [conn |-> f.conn, n |-> n]) /\ Listing(f) = [f EXCEPT !.listing = TRUE, !.error = FALSE]
  BY <1>2 DEF AskWorkspaces, Listing
<1> HIDE DEF f, new
<1>4. Room(boardNet, 1) /\ IsNet(boardNet)
  BY <1>1, RoomLeft DEF BoardWaits
<1>5. Goes(boardNet, new, {}) /\ Underway(new, "workspaces", [conn |-> f.conn, n |-> n])
  BY <1>3, <1>4, SendGoes
<1>6. IsNet(new) /\ AwaitsFor(new, "workspaces", n)
  BY <1>5, AskedAwaits DEF Goes
<1>7. Room(new, 1)
  <2>1. 1 \in Nat /\ 1 + 1 = 2
    OBVIOUS
  <2> QED
    BY <1>1, <1>3, <1>4, <2>1, RoomLeft
<1>8. Goes(new, Send(new, "board", arg), {}) /\ AwaitsFor(Send(new, "board", arg), "board", n)
  <2>1. Goes(new, Send(new, "board", arg), {}) /\ Underway(Send(new, "board", arg), "board", arg) /\ arg.n = n
    BY <1>6, <1>7, SendGoes
  <2> HIDE DEF arg
  <2> QED
    BY <2>1, AskedAwaits
<1>9. AwaitsFor(Send(new, "board", arg), "workspaces", n) /\ IsNet(Send(new, "board", arg))
  <2>1. \A k \in {} : new[k].op # "workspaces" \/ new[k].arg.n # n
    OBVIOUS
  <2> DEFINE next == Send(new, "board", arg)
  <2>2. Goes(new, next, {}) /\ AwaitsFor(new, "workspaces", n)
    BY <1>6, <1>8
  <2> HIDE DEF arg, n, next
  <2>3. AwaitsFor(next, "workspaces", n)
    BY <2>1, <2>2, AwaitsForGoes
  <2>4. IsNet(next)
    BY <2>2 DEF Goes
  <2> QED
    BY <2>3, <2>4 DEF next
<1>10. /\ {"edit", "n", "loading", "saving", "conn", "mode", "workspaces", "workspace", "reports", "report",
           "listing", "reading", "error", "orig", "touched"} \subseteq DOMAIN boardForm'
       /\ boardForm'.n = n /\ boardForm'.loading = edit /\ ~boardForm'.saving /\ ~boardForm'.reading
  BY <1>1, <1>2, <1>3
<1> HIDE DEF n, arg
<1> QED
  BY <1>1, <1>6, <1>8, <1>9, <1>10 DEF BoardWaits, BoardFits

LEMMA BoardReadWaits ==
    ASSUME BoardWaits, NEW i \in Slot, BoardRead(i)
    PROVE  BoardWaits'
<1> DEFINE net == Done(boardNet, i)
           f == FormOf(boardNet[i].out)
<1>1. /\ Settled(boardNet, i, "board") /\ Room(boardNet, 1) /\ DOMAIN boardLog' = DOMAIN boardLog
      /\ i \in Pending(boardNet) /\ boardNet[i].op = "board" /\ IsNet(boardNet)
  BY DEF BoardRead, Settled, Ok, Err, Pending, BoardWaits
<1>2. Goes(boardNet, net, {i}) /\ IsNet(net)
  BY <1>1, EndGoes DEF Goes
<1>3. CASE ~MineBoard(i)
  <2>1. boardForm' = boardForm /\ boardNet' = net
    BY <1>3 DEF BoardRead
  <2>2. boardForm # None => boardNet[i].arg.n # boardForm.n
    BY <1>3 DEF MineBoard
  <2> HIDE DEF net
  <2> QED
    BY <1>1, <1>2, <2>1, <2>2, BoardFitsKept DEF BoardWaits
<1>4. CASE MineBoard(i) /\ Err(boardNet, i, "board")
  <2>1. boardForm' = [boardForm EXCEPT !.loading = FALSE] /\ boardNet' = net /\ boardForm # None
    BY <1>4 DEF BoardRead, MineBoard
  <2>2. /\ DOMAIN boardForm' = DOMAIN boardForm /\ boardForm'.n = boardForm.n /\ ~boardForm'.loading
        /\ boardForm'.saving = boardForm.saving /\ boardForm'.listing = boardForm.listing /\ boardForm'.reading = boardForm.reading
    BY <2>1 DEF BoardWaits, BoardFits
  <2> HIDE DEF net
  <2> QED
    BY <1>1, <1>2, <2>1, <2>2, BoardFitsKept DEF BoardWaits
<1>5. CASE MineBoard(i) /\ ~Err(boardNet, i, "board")
  <2> DEFINE next == AskWorkspaces(f, net)
  <2>1. boardForm' = Reading(Listing(f)) /\ boardNet' = AskReports(f, next) /\ boardForm # None /\ BoardFits(boardForm, boardNet)
    BY <1>5 DEF BoardRead, MineBoard, BoardWaits
  <2>2. /\ DOMAIN f = DOMAIN boardForm /\ f.n = boardForm.n /\ ~f.loading
        /\ f.saving = boardForm.saving /\ f.listing = boardForm.listing /\ f.reading = boardForm.reading
    BY <2>1 DEF FormOf, BoardFits
  <2>3. Room(net, 2) /\ Room(net, 1)
    <3>1. Room(net, 1 + 1) /\ 1 \in Nat /\ 1 + 1 = 2
      BY <1>1, RoomLeft
    <3> QED
      BY <1>1, <3>1, RoomLeft
  <2> HIDE DEF f, net
  <2>4. BoardFits(f, net)
    BY <1>1, <1>2, <2>1, <2>2, BoardFitsKept
  <2>5. BoardFits(Listing(f), next) /\ Listing(f).n = f.n /\ Listing(f).conn = f.conn /\ Listing(f).workspace = f.workspace
    BY <2>3, <2>4, ListsFits
  <2>6. Room(next, 1)
    <3>1. CASE ~Lists(f)
      BY <2>3, <3>1 DEF AskWorkspaces
    <3>2. CASE Lists(f)
      <4>1. 1 \in Nat /\ 1 + 1 = 2
        OBVIOUS
      <4> QED
        BY <1>2, <2>3, <3>2, <4>1, RoomLeft DEF AskWorkspaces
    <3> QED
      BY <3>1, <3>2
  <2>7. AskReports(f, next) = AskReports(Listing(f), next)
    BY <2>5 DEF AskReports, Reads
  <2> HIDE DEF next
  <2>8. BoardFits(Reading(Listing(f)), AskReports(Listing(f), next))
    BY <2>5, <2>6, ReadsFits
  <2> QED
    BY <1>1, <2>1, <2>7, <2>8 DEF BoardWaits, BoardFits
<1> QED
  BY <1>3, <1>4, <1>5

\* Every step keeps it.
LEMMA BoardWaitsStep == BoardWaits /\ [BoardNext]_boardVars => BoardWaits'
<1> SUFFICES ASSUME BoardWaits, [BoardNext]_boardVars PROVE BoardWaits'
  OBVIOUS
<1>0. IsNet(boardNet)
  BY DEF BoardWaits
<1> DEFINE Same == boardForm' = boardForm /\ DOMAIN boardLog' = DOMAIN boardLog
<1>1. CASE UNCHANGED boardVars
  BY <1>1 DEF BoardWaits, boardVars
<1>2. ASSUME NEW e \in BOOLEAN, OpenBoard(e) PROVE BoardWaits'
  BY <1>2, OpenBoardWaits
<1>3. CASE CloseBoard
  BY <1>3 DEF CloseBoard, BoardWaits
<1>4. CASE RetryWorkspaces
  <2> DEFINE arg == [conn |-> boardForm.conn, n |-> boardForm.n]
  <2>1. /\ boardForm # None /\ BoardFits(boardForm, boardNet) /\ Room(boardNet, 1) /\ DOMAIN boardLog' = DOMAIN boardLog
        /\ boardForm' = [boardForm EXCEPT !.listing = TRUE, !.error = FALSE] /\ boardNet' = Send(boardNet, "workspaces", arg)
    BY <1>4 DEF RetryWorkspaces, OnForm, PressBoard, Pressed, BoardWaits
  <2>2. /\ DOMAIN boardForm' = DOMAIN boardForm /\ boardForm'.n = boardForm.n /\ boardForm'.loading = boardForm.loading
        /\ boardForm'.saving = boardForm.saving /\ boardForm'.reading = boardForm.reading
    BY <2>1 DEF BoardFits
  <2>3. Goes(boardNet, boardNet', {}) /\ Underway(boardNet', "workspaces", arg) /\ arg.n = boardForm.n
    BY <1>0, <2>1, SendGoes
  <2> HIDE DEF arg
  <2>4. IsNet(boardNet') /\ AwaitsFor(boardNet', "workspaces", boardForm.n)
    BY <2>3, AskedAwaits DEF Goes
  <2>5. BoardFits(boardForm', boardNet')
    BY <2>1, <2>2, <2>3, <2>4, AwaitsForGoes DEF BoardFits
  <2> QED
    BY <2>1, <2>4, <2>5 DEF BoardWaits
<1>5. ASSUME NEW c, ChooseConn(c) PROVE BoardWaits'
  <2> DEFINE f == [boardForm EXCEPT !.conn = c, !.mode = "powerbi", !.workspaces = {}, !.workspace = None,
                                    !.report = None, !.touched = TRUE]
  <2>1. /\ boardForm # None /\ BoardFits(boardForm, boardNet) /\ Room(boardNet, 1) /\ DOMAIN boardLog' = DOMAIN boardLog
        /\ boardForm' = Listing(f) /\ boardNet' = AskWorkspaces(f, boardNet)
    BY <1>5 DEF ChooseConn, OnForm, PressBoard, Pressed, BoardWaits
  <2>2. /\ DOMAIN f = DOMAIN boardForm /\ f.n = boardForm.n /\ f.loading = boardForm.loading
        /\ f.saving = boardForm.saving /\ f.listing = boardForm.listing /\ f.reading = boardForm.reading
    BY <2>1 DEF BoardFits
  <2> HIDE DEF f
  <2>3. BoardFits(f, boardNet)
    BY <1>0, <2>1, <2>2, StayGoes, BoardFitsKept
  <2> QED
    BY <2>1, <2>3, ListsFits DEF BoardWaits, BoardFits
<1>6. ASSUME NEW w, ChooseWorkspace(w) PROVE BoardWaits'
  <2> DEFINE f == [boardForm EXCEPT !.workspace = w, !.report = None, !.touched = TRUE]
  <2>1. /\ boardForm # None /\ BoardFits(boardForm, boardNet) /\ Room(boardNet, 1) /\ DOMAIN boardLog' = DOMAIN boardLog
        /\ boardForm' = Reading(f) /\ boardNet' = AskReports(f, boardNet)
    BY <1>6 DEF ChooseWorkspace, OnForm, PressBoard, Pressed, BoardWaits
  <2>2. /\ DOMAIN f = DOMAIN boardForm /\ f.n = boardForm.n /\ f.loading = boardForm.loading
        /\ f.saving = boardForm.saving /\ f.listing = boardForm.listing /\ f.reading = boardForm.reading
    BY <2>1 DEF BoardFits
  <2> HIDE DEF f
  <2>3. BoardFits(f, boardNet)
    BY <1>0, <2>1, <2>2, StayGoes, BoardFitsKept
  <2> QED
    BY <2>1, <2>3, ReadsFits DEF BoardWaits, BoardFits
<1>7. ASSUME NEW r, ChooseReport(r) PROVE BoardWaits'
  <2>1. /\ boardForm # None /\ BoardFits(boardForm, boardNet) /\ DOMAIN boardLog' = DOMAIN boardLog
        /\ boardForm' = [boardForm EXCEPT !.report = r, !.touched = TRUE] /\ boardNet' = boardNet
    BY <1>7 DEF ChooseReport, OnForm, PressBoard, Pressed, BoardWaits
  <2>2. /\ DOMAIN boardForm' = DOMAIN boardForm /\ boardForm'.n = boardForm.n /\ boardForm'.loading = boardForm.loading
        /\ boardForm'.saving = boardForm.saving /\ boardForm'.listing = boardForm.listing /\ boardForm'.reading = boardForm.reading
    BY <2>1 DEF BoardFits
  <2>3. Goes(boardNet, boardNet', {})
    BY <1>0, <2>1, StayGoes
  <2> QED
    BY <2>1, <2>2, <2>3, BoardWaitsKept
<1>8. CASE SaveBoard
  <2>1. PICK arg : /\ arg.n = boardForm.n /\ boardNet' = Send(boardNet, "save", arg)
    BY <1>8 DEF SaveBoard
  <2>2. /\ boardForm # None /\ BoardFits(boardForm, boardNet) /\ Room(boardNet, 1) /\ DOMAIN boardLog' = DOMAIN boardLog
        /\ boardForm' = [boardForm EXCEPT !.saving = TRUE]
    BY <1>8 DEF SaveBoard, OnForm, PressBoard, Pressed, BoardWaits
  <2>3. /\ DOMAIN boardForm' = DOMAIN boardForm /\ boardForm'.n = boardForm.n /\ boardForm'.loading = boardForm.loading
        /\ boardForm'.listing = boardForm.listing /\ boardForm'.reading = boardForm.reading
    BY <2>2 DEF BoardFits
  <2>4. Goes(boardNet, boardNet', {}) /\ Underway(boardNet', "save", arg)
    BY <1>0, <2>1, <2>2, SendGoes
  <2>5. IsNet(boardNet') /\ AwaitsFor(boardNet', "save", boardForm.n)
    BY <2>1, <2>4, AskedAwaits DEF Goes
  <2>6. BoardFits(boardForm', boardNet')
    BY <2>2, <2>3, <2>4, <2>5, AwaitsForGoes DEF BoardFits
  <2> QED
    BY <2>2, <2>5, <2>6 DEF BoardWaits
<1>9. ASSUME NEW i \in Slot, BoardRead(i) PROVE BoardWaits'
  BY <1>9, BoardReadWaits
<1>10. ASSUME NEW i \in Slot, ServeBoard(i) \/ ServeWorkspaces(i) \/ ServeBiReports(i) \/ ServeSaveBoard(i) \/ BoardCallFails(i)
       PROVE  BoardWaits'
  <2>1. Same
    BY <1>10 DEF ServeBoard, ServeWorkspaces, ServeBiReports, ServeSaveBoard, BoardCallFails, Missed
  <2>2. /\ boardNet[i] # Free
        /\ boardNet' = Fail(boardNet, i) \/ \E out : boardNet' = Reply(boardNet, i, out)
    BY <1>10, Zenon DEF ServeBoard, ServeWorkspaces, ServeBiReports, ServeSaveBoard, BoardCallFails, Sent, CanFail, Pending
  <2>3. Goes(boardNet, boardNet', {})
    BY <1>0, <2>2, AnswerGoes
  <2>4. CASE boardForm = None
    BY <2>1, <2>3, <2>4 DEF BoardWaits, Goes
  <2>5. CASE boardForm # None
    BY <2>1, <2>3, <2>5, BoardWaitsKept
  <2> QED
    BY <2>4, <2>5
<1>11. ASSUME NEW i \in Slot, WorkspacesRead(i) \/ BiReportsRead(i) \/ BoardSaved(i) PROVE BoardWaits'
  <2>1. Goes(boardNet, boardNet', {i}) /\ boardLog' = boardLog
    BY <1>0, <1>11, EndGoes DEF WorkspacesRead, BiReportsRead, BoardSaved
  <2>2. CASE boardForm' = None
    BY <2>1, <2>2 DEF BoardWaits, Goes
  <2>3. CASE boardForm' # None /\ ~MineBoard(i)
    <3>1. boardForm' = boardForm /\ boardNet[i].arg.n # boardForm.n
      BY <1>11, <2>3 DEF WorkspacesRead, BiReportsRead, BoardSaved, MineBoard
    <3>2. \A k \in {i} : boardNet[k].arg.n # boardForm.n
      BY <3>1
    <3> QED
      BY <2>1, <2>3, <3>1, <3>2, BoardWaitsKept
  <2>4. CASE boardForm' # None /\ MineBoard(i)
    <3>1. boardForm # None /\ BoardFits(boardForm, boardNet)
      BY <2>4 DEF MineBoard, BoardWaits
    <3>2. CASE WorkspacesRead(i)
      <4>1. boardNet[i].op = "workspaces"
        BY <3>2 DEF WorkspacesRead, Settled, Ok, Err
      <4>2. /\ DOMAIN boardForm' = DOMAIN boardForm /\ boardForm'.n = boardForm.n /\ boardForm'.loading = boardForm.loading
            /\ boardForm'.saving = boardForm.saving /\ ~boardForm'.listing /\ boardForm'.reading = boardForm.reading
        BY <2>4, <3>1, <3>2 DEF WorkspacesRead, BoardFits
      <4> QED
        BY <2>1, <3>1, <4>1, <4>2, BoardWaitsKept
    <3>3. CASE BiReportsRead(i)
      <4>1. boardNet[i].op = "reports"
        BY <3>3 DEF BiReportsRead, Settled, Ok, Err
      <4>2. /\ DOMAIN boardForm' = DOMAIN boardForm /\ boardForm'.n = boardForm.n /\ boardForm'.loading = boardForm.loading
            /\ boardForm'.saving = boardForm.saving /\ boardForm'.listing = boardForm.listing /\ ~boardForm'.reading
        BY <2>4, <3>1, <3>3 DEF BiReportsRead, BoardFits
      <4> QED
        BY <2>1, <3>1, <4>1, <4>2, BoardWaitsKept
    <3>4. CASE BoardSaved(i)
      <4>1. boardNet[i].op = "save"
        BY <3>4 DEF BoardSaved, Settled, Ok, Err
      <4>2. /\ DOMAIN boardForm' = DOMAIN boardForm /\ boardForm'.n = boardForm.n /\ boardForm'.loading = boardForm.loading
            /\ ~boardForm'.saving /\ boardForm'.listing = boardForm.listing /\ boardForm'.reading = boardForm.reading
        BY <2>4, <3>1, <3>4 DEF BoardSaved, BoardFits
      <4> QED
        BY <2>1, <3>1, <4>1, <4>2, BoardWaitsKept
    <3> QED
      BY <1>11, <3>2, <3>3, <3>4
  <2> QED
    BY <2>2, <2>3, <2>4
<1> QED
  BY <1>1, <1>2, <1>3, <1>4, <1>5, <1>6, <1>7, <1>8, <1>9, <1>10, <1>11, Zenon DEF BoardNext, boardVars

-----------------------------------------------------------------------------
(* A dashboard on show *)

\* Each flag of the form and of the page has its call.
EmbedWaits ==
    /\ IsNet(embedNet) /\ {"clicks", "calm"} \subseteq DOMAIN embedLog
    /\ {"page", "timers"} \subseteq DOMAIN embed /\ {"ref", "lost"} \subseteq DOMAIN embed.timers
    /\ {"mounted", "left", "data", "loading", "error"} \subseteq DOMAIN embed.page
    /\ embed.page.mounted /\ embed.page.loading => \E j \in Pending(embedNet) : embedNet[j].op = "token"
    /\ rowForm # None =>
          /\ {"rows", "loading", "saving", "touched", "n"} \subseteq DOMAIN rowForm
          /\ rowForm.loading => \E j \in Pending(embedNet) : embedNet[j].op = "load" /\ embedNet[j].arg.n = rowForm.n
          /\ rowForm.saving => \E j \in Pending(embedNet) : embedNet[j].op = "save" /\ embedNet[j].arg.n = rowForm.n

\* The page as it was, or no longer waiting.
PageKept(gone) ==
    /\ DOMAIN embed' = DOMAIN embed /\ DOMAIN embed'.page = DOMAIN embed.page /\ DOMAIN embed'.timers = DOMAIN embed.timers
    /\ embed'.page.mounted /\ embed'.page.loading =>
          \/ embed.page.mounted /\ embed.page.loading /\ \A i \in gone : embedNet[i].op # "token"
          \/ \E arg : Underway(embedNet', "token", arg)

RowFormKept(gone) ==
    rowForm' # None =>
        /\ rowForm # None /\ DOMAIN rowForm' = DOMAIN rowForm /\ rowForm'.n = rowForm.n
        /\ rowForm'.loading => rowForm.loading /\ \A i \in gone : embedNet[i].op # "load" \/ embedNet[i].arg.n # rowForm.n
        /\ rowForm'.saving =>
              \/ rowForm.saving /\ \A i \in gone : embedNet[i].op # "save" \/ embedNet[i].arg.n # rowForm.n
              \/ \E arg : Underway(embedNet', "save", arg) /\ arg.n = rowForm.n

LEMMA PageKeptWaits ==
    ASSUME EmbedWaits, NEW gone, Goes(embedNet, embedNet', gone), PageKept(gone)
    PROVE  /\ IsNet(embedNet')
           /\ {"page", "timers"} \subseteq DOMAIN embed' /\ {"ref", "lost"} \subseteq DOMAIN embed'.timers
           /\ {"mounted", "left", "data", "loading", "error"} \subseteq DOMAIN embed'.page
           /\ embed'.page.mounted /\ embed'.page.loading => \E j \in Pending(embedNet') : embedNet'[j].op = "token"
  BY DEF EmbedWaits, PageKept, Goes, Underway

LEMMA RowFormKeptWaits ==
    ASSUME EmbedWaits, NEW gone, Goes(embedNet, embedNet', gone), RowFormKept(gone), rowForm' # None
    PROVE  /\ {"rows", "loading", "saving", "touched", "n"} \subseteq DOMAIN rowForm'
           /\ rowForm'.loading => \E j \in Pending(embedNet') : embedNet'[j].op = "load" /\ embedNet'[j].arg.n = rowForm'.n
           /\ rowForm'.saving => \E j \in Pending(embedNet') : embedNet'[j].op = "save" /\ embedNet'[j].arg.n = rowForm'.n
  BY DEF EmbedWaits, RowFormKept, Goes, Underway

\* It is kept when every flag that is up still has a request on its way.
LEMMA EmbedWaitsKept ==
    ASSUME EmbedWaits, NEW gone, Goes(embedNet, embedNet', gone), DOMAIN embedLog' = DOMAIN embedLog,
           PageKept(gone), RowFormKept(gone)
    PROVE  EmbedWaits'
<1>1. {"clicks", "calm"} \subseteq DOMAIN embedLog'
  BY DEF EmbedWaits
<1> QED
  BY <1>1, PageKeptWaits, RowFormKeptWaits, Zenon DEF EmbedWaits

\* It holds at the start.
LEMMA EmbedWaitsStart == EmbedInit => EmbedWaits
<1> SUFFICES ASSUME EmbedInit PROVE EmbedWaits
  OBVIOUS
<1> QED
  BY NoCallsIsNet DEF EmbedInit, EmbedWaits, NoReport, NoTimers

\* Every step keeps it.
LEMMA EmbedWaitsStep == EmbedWaits /\ [EmbedNext]_embedVars => EmbedWaits'
<1> SUFFICES ASSUME EmbedWaits, [EmbedNext]_embedVars PROVE EmbedWaits'
  OBVIOUS
<1>0. IsNet(embedNet) /\ Goes(embedNet, embedNet, {})
  BY StayGoes DEF EmbedWaits
<1>a. ASSUME NEW gone, embed' = embed, \A i \in gone : embedNet[i].op # "token" PROVE PageKept(gone)
  BY <1>a DEF PageKept
<1>b. ASSUME NEW gone, rowForm' = rowForm, \A i \in gone : embedNet[i].op \notin {"load", "save"} PROVE RowFormKept(gone)
  BY <1>b DEF RowFormKept
<1>1. CASE UNCHANGED embedVars
  <2>1. embedNet' = embedNet /\ embed' = embed /\ rowForm' = rowForm /\ embedLog' = embedLog
    BY <1>1 DEF embedVars
  <2>2. PageKept({}) /\ RowFormKept({}) /\ Goes(embedNet, embedNet', {})
    BY <1>0, <1>a, <1>b, <2>1
  <2> QED
    BY <2>1, <2>2, EmbedWaitsKept
<1>2. CASE OpenRows
  <2> DEFINE n == embedLog.clicks
  <2>1. /\ embed' = embed /\ DOMAIN embedLog' = DOMAIN embedLog /\ Room(embedNet, 1)
        /\ rowForm' = [rows |-> << >>, loading |-> TRUE, saving |-> FALSE, touched |-> FALSE, n |-> n]
        /\ embedNet' = Send(embedNet, "load", [n |-> n])
    BY <1>2 DEF OpenRows, PressEmbed, Pressed
  <2>2. Goes(embedNet, embedNet', {}) /\ Underway(embedNet', "load", [n |-> n])
    BY <1>0, <2>1, SendGoes
  <2>3. PageKept({})
    BY <1>a, <2>1
  <2>4. /\ {"rows", "loading", "saving", "touched", "n"} \subseteq DOMAIN rowForm' /\ ~rowForm'.saving
        /\ \E j \in Pending(embedNet') : embedNet'[j].op = "load" /\ embedNet'[j].arg.n = rowForm'.n
    BY <2>1, <2>2 DEF Underway
  <2>5. {"clicks", "calm"} \subseteq DOMAIN embedLog'
    BY <2>1 DEF EmbedWaits
  <2> QED
    BY <2>2, <2>3, <2>4, <2>5, PageKeptWaits, Zenon DEF EmbedWaits
<1>3. CASE CloseRows
  <2>1. embedNet' = embedNet /\ embed' = embed /\ rowForm' = None /\ embedLog' = embedLog
    BY <1>3 DEF CloseRows
  <2>2. PageKept({}) /\ RowFormKept({}) /\ Goes(embedNet, embedNet', {})
    BY <1>0, <1>a, <2>1 DEF RowFormKept
  <2> QED
    BY <2>1, <2>2, EmbedWaitsKept
<1>4. ASSUME NEW rows, SetRows(rows) PROVE EmbedWaits'
  <2>1. /\ embedNet' = embedNet /\ embed' = embed /\ DOMAIN embedLog' = DOMAIN embedLog /\ rowForm # None
        /\ rowForm' = [rowForm EXCEPT !.rows = rows, !.touched = TRUE]
    BY <1>4 DEF SetRows, PressEmbed, Pressed
  <2>2. /\ DOMAIN rowForm' = DOMAIN rowForm /\ rowForm'.n = rowForm.n /\ rowForm'.loading = rowForm.loading
        /\ rowForm'.saving = rowForm.saving
    BY <2>1 DEF EmbedWaits
  <2>3. PageKept({}) /\ RowFormKept({}) /\ Goes(embedNet, embedNet', {})
    BY <1>0, <1>a, <2>1, <2>2 DEF RowFormKept
  <2> QED
    BY <2>1, <2>3, EmbedWaitsKept
<1>5. CASE SaveRows
  <2> DEFINE arg == [rows |-> rowForm.rows, touched |-> rowForm.touched, n |-> rowForm.n]
  <2>1. /\ embed' = embed /\ DOMAIN embedLog' = DOMAIN embedLog /\ Room(embedNet, 1) /\ rowForm # None
        /\ rowForm' = [rowForm EXCEPT !.saving = TRUE] /\ embedNet' = Send(embedNet, "save", arg)
    BY <1>5 DEF SaveRows, PressEmbed, Pressed
  <2>2. /\ DOMAIN rowForm' = DOMAIN rowForm /\ rowForm'.n = rowForm.n /\ rowForm'.loading = rowForm.loading
    BY <2>1 DEF EmbedWaits
  <2>3. Goes(embedNet, embedNet', {}) /\ Underway(embedNet', "save", arg) /\ arg.n = rowForm.n
    BY <1>0, <2>1, SendGoes
  <2> HIDE DEF arg
  <2>4. PageKept({}) /\ RowFormKept({})
    BY <1>a, <2>1, <2>2, <2>3 DEF RowFormKept
  <2> QED
    BY <2>1, <2>3, <2>4, EmbedWaitsKept
<1>6. CASE OpenEmbed
  <2>1. /\ rowForm' = rowForm /\ DOMAIN embedLog' = DOMAIN embedLog /\ Room(embedNet, 1)
        /\ embed' = [embed EXCEPT !.page = [NoReport EXCEPT !.mounted = TRUE]] /\ embedNet' = Send(embedNet, "token", None)
    BY <1>6 DEF OpenEmbed, PressEmbed, Pressed, FetchToken
  <2>2. Goes(embedNet, embedNet', {}) /\ Underway(embedNet', "token", None)
    BY <1>0, <2>1, SendGoes
  <2>3. /\ DOMAIN embed' = DOMAIN embed /\ {"mounted", "left", "data", "loading", "error"} \subseteq DOMAIN embed'.page
        /\ embed'.timers = embed.timers
    BY <2>1 DEF EmbedWaits, NoReport
  <2>4. RowFormKept({})
    BY <1>b, <2>1
  <2>5. {"clicks", "calm"} \subseteq DOMAIN embedLog'
    BY <2>1 DEF EmbedWaits
  <2>6. {"page", "timers"} \subseteq DOMAIN embed' /\ {"ref", "lost"} \subseteq DOMAIN embed'.timers
    BY <2>3 DEF EmbedWaits
  <2>7. IsNet(embedNet') /\ \E j \in Pending(embedNet') : embedNet'[j].op = "token"
    BY <2>2 DEF Goes, Underway
  <2> QED
    BY <2>2, <2>3, <2>4, <2>5, <2>6, <2>7, RowFormKeptWaits, Zenon DEF EmbedWaits
<1>7. CASE LeaveReport
  <2>1. /\ rowForm' = rowForm /\ DOMAIN embedLog' = DOMAIN embedLog /\ embedNet' = embedNet
        /\ embed' = [page |-> [NoReport EXCEPT !.left = TRUE], timers |-> ClearRef(embed.timers)]
    BY <1>7 DEF LeaveReport, PressEmbed, Pressed
  <2>2. /\ {"page", "timers"} \subseteq DOMAIN embed' /\ {"mounted", "left", "data", "loading", "error"} \subseteq DOMAIN embed'.page
        /\ {"ref", "lost"} \subseteq DOMAIN embed'.timers /\ ~embed'.page.mounted
    BY <2>1 DEF EmbedWaits, NoReport, ClearRef
  <2>3. {"clicks", "calm"} \subseteq DOMAIN embedLog'
    BY <2>1 DEF EmbedWaits
  <2>4. RowFormKept({}) /\ Goes(embedNet, embedNet', {})
    BY <1>0, <1>b, <2>1
  <2>5. IsNet(embedNet')
    BY <1>0, <2>1
  <2> QED
    BY <2>2, <2>3, <2>4, <2>5, RowFormKeptWaits, Zenon DEF EmbedWaits
<1>8. CASE SessionChanged \/ RefreshDue
  <2>1. PICK timers : embed' = [page |-> Fetching(embed.page), timers |-> timers] /\ DOMAIN timers = DOMAIN embed.timers
    BY <1>8 DEF SessionChanged, RefreshDue, ClearRef, EmbedWaits
  <2>2. /\ rowForm' = rowForm /\ DOMAIN embedLog' = DOMAIN embedLog /\ Room(embedNet, 1)
        /\ embedNet' = Send(embedNet, "token", None)
    BY <1>8 DEF SessionChanged, RefreshDue, PressEmbed, Pressed, FetchToken
  <2>3. Goes(embedNet, embedNet', {}) /\ Underway(embedNet', "token", None)
    BY <1>0, <2>2, SendGoes
  <2>4. /\ {"page", "timers"} \subseteq DOMAIN embed' /\ {"mounted", "left", "data", "loading", "error"} \subseteq DOMAIN embed'.page
        /\ {"ref", "lost"} \subseteq DOMAIN embed'.timers
    BY <2>1 DEF EmbedWaits, Fetching
  <2>5. {"clicks", "calm"} \subseteq DOMAIN embedLog'
    BY <2>2 DEF EmbedWaits
  <2>6. RowFormKept({})
    BY <1>b, <2>2
  <2>7. IsNet(embedNet') /\ \E j \in Pending(embedNet') : embedNet'[j].op = "token"
    BY <2>3 DEF Goes, Underway
  <2> QED
    BY <2>3, <2>4, <2>5, <2>6, <2>7, RowFormKeptWaits, Zenon DEF EmbedWaits
<1>9. CASE RetryReport
  <2>1. /\ rowForm' = rowForm /\ DOMAIN embedLog' = DOMAIN embedLog /\ Room(embedNet, 1)
        /\ embed' = [embed EXCEPT !.page = [Fetching(@) EXCEPT !.loading = TRUE]] /\ embedNet' = Send(embedNet, "token", None)
    BY <1>9 DEF RetryReport, PressEmbed, Pressed, FetchToken
  <2>2. Goes(embedNet, embedNet', {}) /\ Underway(embedNet', "token", None)
    BY <1>0, <2>1, SendGoes
  <2>3. /\ DOMAIN embed' = DOMAIN embed /\ DOMAIN embed'.page = DOMAIN embed.page /\ DOMAIN embed'.timers = DOMAIN embed.timers
    BY <2>1 DEF EmbedWaits, Fetching
  <2>4. RowFormKept({}) /\ PageKept({})
    BY <1>b, <2>1, <2>2, <2>3 DEF PageKept
  <2> QED
    BY <2>1, <2>2, <2>4, EmbedWaitsKept
<1>10. ASSUME NEW i \in Slot, ServeRows(i) \/ ServeSaveRows(i) \/ ServeToken(i) \/ EmbedCallFails(i) PROVE EmbedWaits'
  <2>1. rowForm' = rowForm /\ embed' = embed /\ DOMAIN embedLog' = DOMAIN embedLog
    BY <1>10 DEF ServeRows, ServeSaveRows, ServeToken, EmbedCallFails, Missed
  <2>2. /\ embedNet[i] # Free
        /\ embedNet' = Fail(embedNet, i) \/ \E out : embedNet' = Reply(embedNet, i, out)
    BY <1>10, Zenon DEF ServeRows, ServeSaveRows, ServeToken, EmbedCallFails, Sent, CanFail, Pending
  <2>3. Goes(embedNet, embedNet', {})
    BY <1>0, <2>2, AnswerGoes
  <2>4. RowFormKept({}) /\ PageKept({})
    BY <1>a, <1>b, <2>1
  <2> QED
    BY <2>1, <2>3, <2>4, EmbedWaitsKept
<1>11. ASSUME NEW i \in Slot, RowsRead(i) \/ RowsSaved(i) PROVE EmbedWaits'
  <2>1. Goes(embedNet, embedNet', {i}) /\ DOMAIN embedLog' = DOMAIN embedLog /\ embed' = embed
    BY <1>0, <1>11, EndGoes DEF RowsRead, RowsSaved
  <2>2. embedNet[i].op \in {"load", "save"}
    BY <1>11 DEF RowsRead, RowsSaved, Settled, Ok, Err
  <2>3. PageKept({i})
    BY <1>a, <2>1, <2>2
  <2>4. RowFormKept({i})
    <3>1. CASE rowForm' = None
      BY <3>1 DEF RowFormKept
    <3>2. CASE rowForm' # None /\ ~MyRows(i)
      <4>1. rowForm' = rowForm /\ embedNet[i].arg.n # rowForm.n
        BY <1>11, <3>2 DEF RowsRead, RowsSaved, MyRows
      <4> QED
        BY <3>2, <4>1 DEF RowFormKept
    <3>3. CASE rowForm' # None /\ MyRows(i) /\ RowsRead(i)
      <4>1. rowForm # None /\ {"rows", "loading", "saving", "touched", "n"} \subseteq DOMAIN rowForm
        BY <3>3 DEF MyRows, EmbedWaits
      <4>2. embedNet[i].op = "load"
        BY <3>3 DEF RowsRead, Settled, Ok, Err
      <4>3. DOMAIN rowForm' = DOMAIN rowForm /\ rowForm'.n = rowForm.n /\ ~rowForm'.loading /\ rowForm'.saving = rowForm.saving
        BY <3>3, <4>1 DEF RowsRead
      <4> QED
        BY <4>1, <4>2, <4>3 DEF RowFormKept
    <3>4. CASE rowForm' # None /\ MyRows(i) /\ RowsSaved(i)
      <4>1. rowForm # None /\ {"rows", "loading", "saving", "touched", "n"} \subseteq DOMAIN rowForm
        BY <3>4 DEF MyRows, EmbedWaits
      <4>2. embedNet[i].op = "save"
        BY <3>4 DEF RowsSaved, Settled, Ok, Err
      <4>3. DOMAIN rowForm' = DOMAIN rowForm /\ rowForm'.n = rowForm.n /\ ~rowForm'.saving /\ rowForm'.loading = rowForm.loading
        BY <3>4, <4>1 DEF RowsSaved
      <4> QED
        BY <4>1, <4>2, <4>3 DEF RowFormKept
    <3> QED
      BY <1>11, <3>1, <3>2, <3>3, <3>4
  <2> QED
    BY <2>1, <2>3, <2>4, EmbedWaitsKept
<1>12. ASSUME NEW i \in Slot, TokenRead(i) PROVE EmbedWaits'
  <2>1. Goes(embedNet, embedNet', {i}) /\ embedLog' = embedLog /\ rowForm' = rowForm /\ embedNet[i].op = "token"
    BY <1>0, <1>12, EndGoes DEF TokenRead, Settled, Ok, Err
  <2> DEFINE error == IF Err(embedNet, i, "token") THEN "failed" ELSE embedNet[i].out.error
             ref == [ref |-> TRUE, lost |-> embed.timers.lost + IF embed.timers.ref THEN 1 ELSE 0]
             page == IF ~embed.page.mounted THEN embed.page
                     ELSE IF error = None THEN [embed.page EXCEPT !.data = embedNet[i].out, !.loading = FALSE]
                     ELSE [embed.page EXCEPT !.error = error, !.loading = FALSE]
             timers == IF error = None /\ embedNet[i].out.long THEN ref ELSE embed.timers
  <2>2. embed' = [page |-> page, timers |-> timers]
    BY <1>12, Zenon DEF TokenRead
  <2>6. DOMAIN ref = {"ref", "lost"}
    OBVIOUS
  <2> HIDE DEF error, ref
  <2>7. {"mounted", "left", "data", "loading", "error"} \subseteq DOMAIN page /\ ~(page.mounted /\ page.loading)
    BY DEF EmbedWaits
  <2>8. {"ref", "lost"} \subseteq DOMAIN timers
    BY <2>6 DEF EmbedWaits
  <2> HIDE DEF page, timers
  <2>3. /\ {"page", "timers"} \subseteq DOMAIN embed' /\ {"mounted", "left", "data", "loading", "error"} \subseteq DOMAIN embed'.page
        /\ {"ref", "lost"} \subseteq DOMAIN embed'.timers /\ ~(embed'.page.mounted /\ embed'.page.loading)
    BY <2>2, <2>7, <2>8
  <2>4. RowFormKept({i})
    BY <1>b, <2>1
  <2>5. IsNet(embedNet') /\ {"clicks", "calm"} \subseteq DOMAIN embedLog'
    BY <2>1 DEF Goes, EmbedWaits
  <2> QED
    BY <2>1, <2>3, <2>4, <2>5, RowFormKeptWaits, Zenon DEF EmbedWaits
<1>13. CASE \/ AddRow
            \/ \E k \in 1..MaxRows : \/ RemoveRow(k) \/ \E t \in FilterTarget : SetTarget(k, t)
                                     \/ \E kind \in {"static", "attribute"} : SetKind(k, kind)
                                     \/ \E v \in Value : SetValue(k, v)
  BY <1>4, <1>13, Zenon DEF AddRow, RemoveRow, SetTarget, SetKind, SetValue
<1> QED
  BY <1>1, <1>2, <1>3, <1>5, <1>6, <1>7, <1>8, <1>9, <1>10, <1>11, <1>12, <1>13, Zenon DEF EmbedNext

-----------------------------------------------------------------------------
(* The session *)

AuthFields == {"at", "visit", "pending", "submitting", "sess", "was", "signingOut", "enabled", "qr", "verifying",
               "disabling", "clicks", "calm"}

\* A call of one of the kinds for the page on display.
ForVisit(net, ops, visit) == \E j \in Pending(net) : net[j].op \in ops /\ net[j].arg.visit = visit

\* Each flag of the tab has its call.
AuthWaits ==
    /\ IsNet(authNet) /\ AuthFields \subseteq DOMAIN tab
    /\ tab.submitting => \E j \in Pending(authNet) : authNet[j].op \in {"precheck", "signin"}
    /\ tab.verifying => ForVisit(authNet, {"enable", "update"}, tab.visit)
    /\ tab.disabling => ForVisit(authNet, {"disable"}, tab.visit)

\* A tab that waits for nothing.
AuthRests == AuthFields \subseteq DOMAIN tab' /\ ~tab'.submitting /\ ~tab'.verifying /\ ~tab'.disabling

LEMMA AuthRestsWaits == ASSUME IsNet(authNet'), AuthRests PROVE AuthWaits'
  BY DEF AuthWaits, AuthRests

LEMMA ForVisitGoes ==
    ASSUME NEW net, NEW next, NEW gone, Goes(net, next, gone), NEW ops, NEW visit, ForVisit(net, ops, visit),
           \A i \in gone : net[i].op \notin ops \/ net[i].arg.visit # visit
    PROVE  ForVisit(next, ops, visit)
  BY DEF ForVisit, Goes

LEMMA AskedForVisit ==
    ASSUME NEW net, NEW ops, NEW op \in ops, NEW arg, Underway(net, op, arg)
    PROVE  ForVisit(net, ops, arg.visit)
  BY DEF ForVisit, Underway

\* It is kept when every flag that is up still has a request on its way.
LEMMA AuthWaitsKept ==
    ASSUME AuthWaits, NEW gone, Goes(authNet, authNet', gone), AuthFields \subseteq DOMAIN tab', tab'.visit = tab.visit,
           tab'.submitting =>
               \/ tab.submitting /\ \A i \in gone : authNet[i].op \notin {"precheck", "signin"}
               \/ \E op \in {"precheck", "signin"} : \E arg : Underway(authNet', op, arg),
           tab'.verifying =>
               \/ tab.verifying /\ \A i \in gone : authNet[i].op \notin {"enable", "update"} \/ authNet[i].arg.visit # tab.visit
               \/ \E op \in {"enable", "update"} : \E arg : Underway(authNet', op, arg) /\ arg.visit = tab.visit,
           tab'.disabling =>
               \/ tab.disabling /\ \A i \in gone : authNet[i].op \notin {"disable"} \/ authNet[i].arg.visit # tab.visit
               \/ \E arg : Underway(authNet', "disable", arg) /\ arg.visit = tab.visit
    PROVE  AuthWaits'
<1>1. IsNet(authNet')
  BY DEF Goes
<1>2. tab'.submitting => \E j \in Pending(authNet') : authNet'[j].op \in {"precheck", "signin"}
  BY DEF AuthWaits, Goes, Underway
<1>3. tab'.verifying => ForVisit(authNet', {"enable", "update"}, tab'.visit)
  BY ForVisitGoes, AskedForVisit DEF AuthWaits
<1>4. tab'.disabling => ForVisit(authNet', {"disable"}, tab'.visit)
  BY ForVisitGoes, AskedForVisit DEF AuthWaits
<1> QED
  BY <1>1, <1>2, <1>3, <1>4, Zenon DEF AuthWaits

\* A page that opens waits for nothing; being watched changes no flag.
LEMMA WatchedFlags ==
    ASSUME NEW ui, AuthFields \subseteq DOMAIN ui
    PROVE  /\ DOMAIN Watched(ui) = DOMAIN ui /\ Watched(ui).visit = ui.visit /\ Watched(ui).submitting = ui.submitting
           /\ Watched(ui).verifying = ui.verifying /\ Watched(ui).disabling = ui.disabling
  BY DEF Watched, AuthFields

LEMMA NewPageRests ==
    ASSUME NEW ui, AuthFields \subseteq DOMAIN ui, NEW at, NEW enabled
    PROVE  /\ AuthFields \subseteq DOMAIN NewPage(ui, at, enabled)
           /\ ~NewPage(ui, at, enabled).submitting /\ ~NewPage(ui, at, enabled).verifying /\ ~NewPage(ui, at, enabled).disabling
<1> DEFINE out == ui.signingOut /\ Watching(ui.at) /\ Watching(at)
           new == [ui EXCEPT !.at = at, !.visit = @ + 1, !.enabled = enabled, !.qr = None, !.verifying = FALSE,
                             !.disabling = FALSE, !.pending = FALSE, !.submitting = FALSE, !.signingOut = out]
<1> HIDE DEF out
<1>1. DOMAIN new = DOMAIN ui /\ ~new.submitting /\ ~new.verifying /\ ~new.disabling
  <2>1. DOMAIN new = DOMAIN ui
    BY Zenon
  <2>2. "submitting" \in DOMAIN ui /\ "verifying" \in DOMAIN ui /\ "disabling" \in DOMAIN ui
    BY DEF AuthFields
  <2>3. new.submitting = FALSE
    BY <2>2
  <2>4. new.verifying = FALSE
    BY <2>2
  <2>5. new.disabling = FALSE
    BY <2>2
  <2> HIDE DEF new
  <2> QED
    BY <2>1, <2>3, <2>4, <2>5
<1> USE DEF out
<1>2. NewPage(ui, at, enabled) = Watched(new)
  BY DEF NewPage
<1> HIDE DEF new
<1> QED
  BY <1>1, <1>2, WatchedFlags

\* The first session request of a page.
LEMMA AskSessionIsNet ==
    /\ \A c : IsNet(AskSession(NoCalls, c))
    /\ \A net, c : IsNet(net) /\ Room(net, 1) => Goes(net, AskSession(net, c), {})
<1>1. \A net, c : IsNet(net) /\ Room(net, 1) => Goes(net, AskSession(net, c), {})
  BY SendGoes DEF AskSession
<1> QED
  BY <1>1, NoCallsIsNet, EmptyRoom DEF Goes

\* A refusal for want of a token is an answer like another.
LEMMA DenyGoes ==
    ASSUME NEW net, IsNet(net), NEW i \in Slot, net[i] # Free
    PROVE  Goes(net, Deny(net, i), {})
<1> DEFINE c == [op |-> net[i].op, arg |-> net[i].arg, st |-> "err", out |-> net[i].out]
           d == [op |-> net[i].op, arg |-> net[i].arg, st |-> "err", out |-> 401]
<1>1. Fail(net, i) = Put(net, i, c)
  BY Answering
<1>2. [c EXCEPT !.out = 401] = d
  OBVIOUS
<1>3. Deny(net, i) = Put(net, i, d)
  <2> HIDE DEF c, d
  <2> QED
    BY <1>1, <1>2 DEF Deny, Put
<1>4. IsCall(d) /\ d.op = net[i].op /\ d.arg = net[i].arg /\ d # Free
  BY DEF IsCall, Free
<1> HIDE DEF d
<1> QED
  BY <1>3, <1>4, PutGoes

\* It holds at the start.
LEMMA AuthWaitsStart == SignInInit => AuthWaits
<1> SUFFICES ASSUME SignInInit PROVE AuthWaits
  OBVIOUS
<1>1. IsNet(authNet)
  BY AskSessionIsNet DEF SignInInit
<1>2. AuthFields \subseteq DOMAIN Tab0 /\ ~Tab0.submitting /\ ~Tab0.verifying /\ ~Tab0.disabling
  BY DEF Tab0, AuthFields
<1>3. AuthFields \subseteq DOMAIN tab /\ ~tab.submitting /\ ~tab.verifying /\ ~tab.disabling
  BY <1>2, NewPageRests DEF SignInInit
<1> QED
  BY <1>1, <1>3 DEF AuthWaits

\* The handler of an answer that may be a refusal.
LEMMA FinishWaits ==
    ASSUME AuthWaits, NEW i \in Pending(authNet), NEW ui, Finish(i, ui), AuthFields \subseteq DOMAIN ui, ui.visit = tab.visit,
           authNet[i].op \notin {"precheck", "signin"}, ui.submitting = tab.submitting,
           ui.verifying => tab.verifying /\ (authNet[i].op \notin {"enable", "update"} \/ authNet[i].arg.visit # tab.visit),
           ui.disabling => tab.disabling /\ (authNet[i].op \notin {"disable"} \/ authNet[i].arg.visit # tab.visit)
    PROVE  AuthWaits'
<1>1. i \in Slot /\ IsNet(authNet)
  BY DEF Pending, AuthWaits
<1>2. Goes(authNet, authNet', {i})
  BY <1>1, EndGoes DEF Finish
<1>3. /\ AuthFields \subseteq DOMAIN tab' /\ tab'.visit = tab.visit /\ tab'.submitting = ui.submitting
      /\ tab'.verifying = ui.verifying /\ tab'.disabling = ui.disabling
  BY DEF Finish, AuthFields
<1>4. \A k \in {i} : /\ authNet[k].op \notin {"precheck", "signin"}
                     /\ ui.verifying => authNet[k].op \notin {"enable", "update"} \/ authNet[k].arg.visit # tab.visit
                     /\ ui.disabling => authNet[k].op \notin {"disable"} \/ authNet[k].arg.visit # tab.visit
  OBVIOUS
<1> QED
  BY <1>2, <1>3, <1>4, AuthWaitsKept

\* Every step keeps it.
LEMMA AuthWaitsStep == AuthWaits /\ [SignInNext]_authVars => AuthWaits'
<1> SUFFICES ASSUME AuthWaits, [SignInNext]_authVars PROVE AuthWaits'
  OBVIOUS
<1>0. IsNet(authNet) /\ Goes(authNet, authNet, {}) /\ AuthFields \subseteq DOMAIN tab
  BY StayGoes DEF AuthWaits
<1> DEFINE Same == /\ AuthFields \subseteq DOMAIN tab' /\ tab'.visit = tab.visit /\ tab'.submitting = tab.submitting
                   /\ tab'.verifying = tab.verifying /\ tab'.disabling = tab.disabling
<1>a. ASSUME Same, Goes(authNet, authNet', {}) PROVE AuthWaits'
  BY <1>a, AuthWaitsKept
<1>b. ASSUME NEW i \in Slot, Same, Goes(authNet, authNet', {i}), authNet[i].op \in {"session", "signout", "api", "setup"}
      PROVE  AuthWaits'
  <2>1. \A k \in {i} : authNet[k].op \notin {"precheck", "signin", "enable", "update", "disable"}
    BY <1>b
  <2> QED
    BY <1>b, <2>1, AuthWaitsKept
<1>c. ASSUME NEW calm PROVE /\ DOMAIN Click(calm) = DOMAIN tab /\ Click(calm).visit = tab.visit
                            /\ Click(calm).submitting = tab.submitting /\ Click(calm).verifying = tab.verifying
                            /\ Click(calm).disabling = tab.disabling
  BY <1>0 DEF Click, Pressed, AuthFields
<1>1. CASE UNCHANGED <<tab, authNet>>
  BY <1>0, <1>1, <1>a
<1>2. ASSUME NEW to, Navigate(to) PROVE AuthWaits'
  <2>1. authNet' = authNet
    BY <1>2 DEF Navigate
  <2>2. PICK ui, at, enabled : tab' = NewPage(ui, at, enabled) /\ AuthFields \subseteq DOMAIN ui
    <3> DEFINE ui == Click(~tab.signingOut /\ Of(authNet, Enrolment) = {})
    <3>1. AuthFields \subseteq DOMAIN ui /\ AuthFields \subseteq DOMAIN [ui EXCEPT !.calm = FALSE]
      BY <1>0, <1>c
    <3>2. ShowPage(ui, to)
      BY <1>2 DEF Navigate
    <3> HIDE DEF ui
    <3> QED
      BY <3>1, <3>2 DEF ShowPage
  <2> QED
    BY <1>0, <2>1, <2>2, NewPageRests, AuthRestsWaits DEF AuthRests
<1>3. ASSUME NEW right, SubmitLogin(right) PROVE AuthWaits'
  <2> DEFINE arg == [right |-> right, code |-> None]
  <2>1. /\ AuthFields \subseteq DOMAIN tab' /\ tab'.visit = tab.visit /\ tab'.verifying = tab.verifying /\ tab'.disabling = tab.disabling
    BY <1>0, <1>3, <1>c DEF SubmitLogin, AuthFields
  <2>2. Goes(authNet, authNet', {}) /\ Underway(authNet', "precheck", arg)
    BY <1>0, <1>3, SendGoes DEF SubmitLogin
  <2> HIDE DEF arg
  <2> QED
    BY <2>1, <2>2, AuthWaitsKept
<1>4. ASSUME NEW code, SubmitCode(code) PROVE AuthWaits'
  <2> DEFINE arg == [right |-> TRUE, code |-> code]
  <2>1. /\ AuthFields \subseteq DOMAIN tab' /\ tab'.visit = tab.visit /\ tab'.verifying = tab.verifying /\ tab'.disabling = tab.disabling
    BY <1>0, <1>4, <1>c DEF SubmitCode, AuthFields
  <2>2. Goes(authNet, authNet', {}) /\ Underway(authNet', "signin", arg)
    BY <1>0, <1>4, SendGoes DEF SubmitCode
  <2> HIDE DEF arg
  <2> QED
    BY <2>1, <2>2, AuthWaitsKept
<1>5. ASSUME NEW exchanged, SignInWithProvider(exchanged) PROVE AuthWaits'
  <2>1. tab' = NewPage(Click(TRUE), "home", account.totp) /\ IsNet(authNet')
    BY <1>5, AskSessionIsNet DEF SignInWithProvider
  <2> QED
    BY <1>0, <1>c, <2>1, NewPageRests, AuthRestsWaits DEF AuthRests
<1>6. ASSUME NEW code, Enable(code) PROVE AuthWaits'
  <2> DEFINE arg == [visit |-> tab.visit, code |-> code, sess |-> tab.sess]
  <2>1. /\ AuthFields \subseteq DOMAIN tab' /\ tab'.visit = tab.visit /\ tab'.submitting = tab.submitting /\ tab'.disabling = tab.disabling
    BY <1>0, <1>6, <1>c DEF Enable, Enrol, EnrolClick, AuthFields
  <2>2. Goes(authNet, authNet', {}) /\ Underway(authNet', "enable", arg) /\ arg.visit = tab.visit
    BY <1>0, <1>6, SendGoes DEF Enable, Enrol
  <2> HIDE DEF arg
  <2> QED
    BY <2>1, <2>2, AuthWaitsKept
<1>7. CASE Disable
  <2> DEFINE arg == [visit |-> tab.visit, code |-> None, sess |-> tab.sess]
  <2>1. /\ AuthFields \subseteq DOMAIN tab' /\ tab'.visit = tab.visit /\ tab'.submitting = tab.submitting /\ tab'.verifying = tab.verifying
    BY <1>0, <1>7, <1>c DEF Disable, Enrol, EnrolClick, AuthFields
  <2>2. Goes(authNet, authNet', {}) /\ Underway(authNet', "disable", arg) /\ arg.visit = tab.visit
    BY <1>0, <1>7, SendGoes DEF Disable, Enrol
  <2> HIDE DEF arg
  <2> QED
    BY <2>1, <2>2, AuthWaitsKept
<1>8. CASE SetUp
  <2>1. Same
    BY <1>0, <1>8, <1>c DEF SetUp, Enrol, EnrolClick
  <2>2. Goes(authNet, authNet', {})
    BY <1>0, <1>8, SendGoes DEF SetUp, Enrol
  <2> QED
    BY <2>1, <2>2, <1>a
<1>9. CASE OtherAccount \/ SignOutElsewhere
  <2>1. Same /\ authNet' = authNet
    BY <1>0, <1>9, <1>c DEF OtherAccount, SignOutElsewhere, AuthFields
  <2> QED
    BY <1>0, <1>a, <2>1
<1>10. CASE PollSession
  <2>1. Same
    BY <1>0, <1>10 DEF PollSession, AuthFields
  <2>2. Goes(authNet, authNet', {})
    BY <1>0, <1>10, AskSessionIsNet DEF PollSession
  <2> QED
    BY <2>1, <2>2, <1>a
<1>11. CASE WatchError \/ CallApi
  <2>1. Same
    BY <1>0, <1>11, <1>c DEF WatchError, SignOut, CallApi, AuthFields
  <2>2. Goes(authNet, authNet', {})
    BY <1>0, <1>11, SendGoes DEF WatchError, SignOut, CallApi
  <2> QED
    BY <2>1, <2>2, <1>a
<1>12. CASE WatchGone
  <2> DEFINE ui == [tab EXCEPT !.signingOut = TRUE]
  <2>1. tab' = NewPage(ui, Land("login"), account.totp) /\ authNet' = authNet /\ AuthFields \subseteq DOMAIN ui
    BY <1>0, <1>12 DEF WatchGone
  <2> HIDE DEF ui
  <2> QED
    BY <1>0, <2>1, NewPageRests, AuthRestsWaits DEF AuthRests
<1>13. ASSUME NEW i \in Slot, ServePrecheck(i) \/ ServeSignIn(i) \/ ServeSession(i) \/ ServeApi(i) \/ ServeSignOut(i) \/ ServeSetUp(i)
                              \/ ServeEnable(i) \/ ServeDisable(i) \/ AuthCallFails(i)
       PROVE  AuthWaits'
  <2>1. Same
    <3>1. CASE AuthCallFails(i)
      BY <1>0, <3>1 DEF AuthCallFails, Missed, AuthFields
    <3>2. CASE ~AuthCallFails(i)
      <4>1. tab' = tab
        BY <1>13, <3>2, Zenon DEF ServePrecheck, ServeSignIn, ServeSession, ServeApi, ServeSignOut, ServeSetUp, ServeEnable, ServeDisable
      <4> QED
        BY <1>0, <4>1
    <3> QED
      BY <3>1, <3>2
  <2>2. /\ authNet[i] # Free
        /\ authNet' = Fail(authNet, i) \/ authNet' = Deny(authNet, i) \/ \E out : authNet' = Reply(authNet, i, out)
    <3>1. CASE ServePrecheck(i) \/ ServeSignIn(i) \/ ServeApi(i) \/ ServeSignOut(i) \/ AuthCallFails(i)
      BY <3>1, Zenon DEF ServePrecheck, ServeSignIn, ServeApi, ServeSignOut, AuthCallFails, Sent, CanFail, Pending
    <3>2. CASE ServeSession(i)
      BY <3>2, Zenon DEF ServeSession, Sent
    <3>3. CASE ServeSetUp(i) \/ ServeDisable(i)
      BY <3>3, Zenon DEF ServeSetUp, ServeDisable, Sent
    <3>4. CASE ServeEnable(i)
      BY <3>4, Zenon DEF ServeEnable, Sent
    <3> QED
      BY <1>13, <3>1, <3>2, <3>3, <3>4
  <2>3. Goes(authNet, authNet', {})
    BY <1>0, <2>2, AnswerGoes, DenyGoes
  <2> QED
    BY <1>a, <2>1, <2>3
<1>14. ASSUME NEW i \in Slot, Prechecked(i) PROVE AuthWaits'
  <2>1. authNet[i].op = "precheck"
    BY <1>14 DEF Prechecked, Settled, Ok, Err
  <2>2. \A k \in {i} : authNet[k].op = "precheck"
    BY <2>1
  <2>3. CASE Ok(authNet, i, "precheck") /\ authNet[i].out # "in"
    <3>1. /\ AuthFields \subseteq DOMAIN tab' /\ tab'.visit = tab.visit /\ ~tab'.submitting
          /\ tab'.verifying = tab.verifying /\ tab'.disabling = tab.disabling
      BY <1>0, <1>14, <2>3 DEF Prechecked, AuthFields
    <3>2. Goes(authNet, authNet', {i})
      BY <1>0, <1>14, <2>3, EndGoes DEF Prechecked
    <3> QED
      BY <2>2, <3>1, <3>2, AuthWaitsKept
  <2>4. CASE ~(Ok(authNet, i, "precheck") /\ authNet[i].out # "in")
    <3>1. Same
      BY <1>0, <1>14, <2>4 DEF Prechecked
    <3>2. Goes(authNet, authNet', {i}) /\ Underway(authNet', "signin", authNet[i].arg)
      BY <1>0, <1>14, <2>4, EndGoes DEF Prechecked
    <3> QED
      BY <2>2, <3>1, <3>2, AuthWaitsKept
  <2> QED
    BY <2>3, <2>4
<1>15. ASSUME NEW i \in Slot, SignedInNow(i) PROVE AuthWaits'
  <2>1. PICK at, enabled, c : tab' = NewPage(tab, at, enabled) /\ authNet' = AskSession(Done(authNet, i), c)
    BY <1>15, Zenon DEF SignedInNow
  <2>2. IsNet(Done(authNet, i)) /\ Room(Done(authNet, i), 1)
    BY <1>0, <1>15, EndGoes, RoomLeft DEF Goes, SignedInNow, Ok, Pending
  <2>3. IsNet(authNet')
    BY <2>1, <2>2, AskSessionIsNet DEF Goes
  <2> QED
    BY <1>0, <2>1, <2>3, NewPageRests, AuthRestsWaits DEF AuthRests
<1>16. ASSUME NEW i \in Slot, SignInFailed(i) PROVE AuthWaits'
  <2>1. /\ AuthFields \subseteq DOMAIN tab' /\ tab'.visit = tab.visit /\ ~tab'.submitting
        /\ tab'.verifying = tab.verifying /\ tab'.disabling = tab.disabling
    BY <1>0, <1>16 DEF SignInFailed, AuthFields
  <2>2. Goes(authNet, authNet', {i})
    BY <1>0, <1>16, EndGoes DEF SignInFailed
  <2>3. \A k \in {i} : authNet[k].op = "signin"
    BY <1>16 DEF SignInFailed, Err
  <2> QED
    BY <2>1, <2>2, <2>3, AuthWaitsKept
<1>17. ASSUME NEW i \in Slot, SessionRead(i) PROVE AuthWaits'
  <2> DEFINE ui == [tab EXCEPT !.sess = IF cookie' = None THEN Gone ELSE cookie']
  <2>1. tab' = Watched(ui)
    BY <1>17 DEF SessionRead
  <2>2. /\ DOMAIN ui = DOMAIN tab /\ ui.visit = tab.visit /\ ui.submitting = tab.submitting /\ ui.verifying = tab.verifying
        /\ ui.disabling = tab.disabling
    BY <1>0 DEF AuthFields
  <2> HIDE DEF ui
  <2>3. Same
    BY <1>0, <2>1, <2>2, WatchedFlags
  <2>4. Goes(authNet, authNet', {i}) /\ authNet[i].op = "session"
    BY <1>0, <1>17, EndGoes DEF SessionRead, Ok
  <2> QED
    BY <1>b, <2>3, <2>4
<1>18. ASSUME NEW i \in Slot, CallDropped(i) PROVE AuthWaits'
  <2>1. Goes(authNet, authNet', {i}) /\ authNet[i].op \in {"session", "signout"} /\ tab' = tab
    BY <1>0, <1>18, EndGoes DEF CallDropped, Err
  <2>2. Same
    BY <1>0, <2>1
  <2> QED
    BY <1>b, <2>1, <2>2
<1>19. ASSUME NEW i \in Slot, ApiAnswered(i) PROVE AuthWaits'
  <2>1. i \in Pending(authNet) /\ authNet[i].op = "api" /\ Finish(i, tab)
    BY <1>19 DEF ApiAnswered, Settled, Ok, Err, Pending
  <2> QED
    BY <1>0, <2>1, FinishWaits
<1>20. ASSUME NEW i \in Slot, SignedOut(i) PROVE AuthWaits'
  <2>1. tab' = [Tab0 EXCEPT !.clicks = tab.clicks, !.calm = tab.calm, !.visit = tab.visit + 1] /\ IsNet(authNet')
    BY <1>20, AskSessionIsNet DEF SignedOut
  <2>2. AuthRests
    BY <2>1 DEF AuthRests, Tab0, AuthFields
  <2> QED
    BY <2>1, <2>2, AuthRestsWaits
<1>21. ASSUME NEW i \in Slot, SetUpRead(i) PROVE AuthWaits'
  <2> DEFINE ui == OnPageOf(i, IF Ok(authNet, i, "setup") THEN [tab EXCEPT !.qr = authNet[i].out] ELSE tab)
  <2>1. i \in Pending(authNet) /\ authNet[i].op = "setup" /\ Finish(i, ui)
    BY <1>21 DEF SetUpRead, Settled, Ok, Err, Pending
  <2>2. /\ AuthFields \subseteq DOMAIN ui /\ ui.visit = tab.visit /\ ui.submitting = tab.submitting /\ ui.verifying = tab.verifying
        /\ ui.disabling = tab.disabling
    BY <1>0 DEF AuthFields, OnPageOf
  <2> HIDE DEF ui
  <2> QED
    BY <2>1, <2>2, FinishWaits
<1>22. ASSUME NEW i \in Slot, Enabled(i) PROVE AuthWaits'
  <2>1. i \in Pending(authNet) /\ authNet[i].op = "enable"
    BY <1>22 DEF Enabled, Ok, Err, Pending
  <2>2. CASE Err(authNet, i, "enable")
    <3> DEFINE ui == OnPageOf(i, [tab EXCEPT !.verifying = FALSE])
    <3>1. Finish(i, ui)
      BY <1>22, <2>2 DEF Enabled, Err, Ok
    <3>2. /\ AuthFields \subseteq DOMAIN ui /\ ui.visit = tab.visit /\ ui.submitting = tab.submitting
          /\ ui.verifying => tab.verifying /\ authNet[i].arg.visit # tab.visit
          /\ ui.disabling = tab.disabling
      BY <1>0 DEF AuthFields, OnPageOf
    <3> HIDE DEF ui
    <3> QED
      BY <2>1, <3>1, <3>2, FinishWaits
  <2>3. CASE ~Err(authNet, i, "enable")
    <3> DEFINE arg == [SessionCall(cookie, authNet[i].arg.sess.mfa) EXCEPT !.visit = authNet[i].arg.visit]
    <3>1. tab' = OnPageOf(i, [tab EXCEPT !.enabled = TRUE, !.qr = None]) /\ authNet' = Then(authNet, i, "update", arg)
      BY <1>22, <2>3 DEF Enabled, AskUpdate
    <3>2. arg.visit = authNet[i].arg.visit
      BY DEF SessionCall
    <3>3. Same
      BY <1>0, <3>1 DEF OnPageOf, AuthFields
    <3> HIDE DEF arg
    <3>4. Goes(authNet, authNet', {i}) /\ Underway(authNet', "update", arg)
      BY <1>0, <3>1, EndGoes
    <3>5. \A k \in {i} : authNet[k].op = "enable" /\ authNet[k].arg.visit = arg.visit
      BY <2>1, <3>2
    <3> QED
      BY <3>3, <3>4, <3>5, AuthWaitsKept
  <2> QED
    BY <2>2, <2>3
<1>23. ASSUME NEW i \in Slot, Updated(i) PROVE AuthWaits'
  <2> DEFINE got == Ok(authNet, i, "update") /\ authNet[i].out # None
             ready == OnPageOf(i, [tab EXCEPT !.verifying = FALSE])
             ui == IF got THEN [ready EXCEPT !.sess = authNet[i].out] ELSE [ready EXCEPT !.calm = FALSE]
  <2>1. /\ authNet[i].op = "update" /\ Goes(authNet, authNet', {i})
        /\ tab' = Watched(ui) \/ \E at, enabled : tab' = NewPage(Watched(ui), at, enabled)
    BY <1>0, <1>23, EndGoes DEF Updated, Settled, Ok, Err
  <2>2. /\ AuthFields \subseteq DOMAIN ready /\ ready.visit = tab.visit /\ ready.submitting = tab.submitting
        /\ ready.verifying => tab.verifying /\ authNet[i].arg.visit # tab.visit
        /\ ready.disabling = tab.disabling
    BY <1>0 DEF AuthFields, OnPageOf
  <2> HIDE DEF ready, got
  <2>3. /\ AuthFields \subseteq DOMAIN ui /\ ui.visit = tab.visit /\ ui.submitting = tab.submitting
        /\ ui.verifying => tab.verifying /\ authNet[i].arg.visit # tab.visit
        /\ ui.disabling = tab.disabling
    BY <2>2 DEF AuthFields
  <2> HIDE DEF ui
  <2>4. \A k \in {i} : authNet[k].op = "update" /\ (ui.verifying => authNet[k].arg.visit # tab.visit)
    BY <2>1, <2>3
  <2>5. CASE tab' = Watched(ui)
    <3>1. /\ AuthFields \subseteq DOMAIN tab' /\ tab'.visit = tab.visit /\ tab'.submitting = tab.submitting
          /\ tab'.verifying = ui.verifying /\ tab'.disabling = tab.disabling
      BY <2>3, <2>5, WatchedFlags
    <3> QED
      BY <2>1, <2>3, <2>4, <3>1, AuthWaitsKept
  <2>6. ASSUME NEW at, NEW enabled, tab' = NewPage(Watched(ui), at, enabled) PROVE AuthWaits'
    <3>1. AuthFields \subseteq DOMAIN Watched(ui)
      BY <2>3, WatchedFlags
    <3>2. AuthRests
      BY <2>6, <3>1, NewPageRests DEF AuthRests
    <3> QED
      BY <2>1, <3>2, AuthRestsWaits DEF Goes
  <2> QED
    BY <2>1, <2>5, <2>6
<1>24. ASSUME NEW i \in Slot, Disabled(i) PROVE AuthWaits'
  <2> DEFINE freed == [tab EXCEPT !.disabling = FALSE]
             ui == OnPageOf(i, IF Ok(authNet, i, "disable") THEN [freed EXCEPT !.enabled = FALSE] ELSE freed)
  <2>1. i \in Pending(authNet) /\ authNet[i].op = "disable" /\ Finish(i, ui)
    BY <1>24 DEF Disabled, Settled, Ok, Err, Pending
  <2>2. /\ AuthFields \subseteq DOMAIN ui /\ ui.visit = tab.visit /\ ui.submitting = tab.submitting
        /\ ui.disabling => tab.disabling /\ authNet[i].arg.visit # tab.visit
        /\ ui.verifying = tab.verifying
    BY <1>0 DEF AuthFields, OnPageOf
  <2> HIDE DEF ui
  <2> QED
    BY <2>1, <2>2, FinishWaits
<1>25. CASE Tick
  BY <1>1, <1>25 DEF Tick
<1> HIDE DEF Same
<1> QED
  BY <1>1, <1>2, <1>3, <1>4, <1>5, <1>6, <1>7, <1>8, <1>9, <1>10, <1>11, <1>12, <1>13, <1>14, <1>15, <1>16, <1>17, <1>18,
     <1>19, <1>20, <1>21, <1>22, <1>23, <1>24, <1>25, Zenon DEF SignInNext, authVars

-----------------------------------------------------------------------------
(* The profile *)

\* A call of an upload: of the image, then of the session.
Uploads(op, arg) == op = "upload" \/ (op = "session" /\ arg.by = "upload")

ProfileWaits ==
    /\ {"profile", "fields", "loading", "saving", "uploading", "typed", "changing", "clicks", "calm"} \subseteq DOMAIN profileUi
    /\ IsNet(profileNet)
    /\ profileUi.loading => \E j \in Pending(profileNet) : profileNet[j].op = "load"
    /\ profileUi.saving => \E j \in Pending(profileNet) : profileNet[j].op = "save"
    /\ profileUi.changing => \E j \in Pending(profileNet) : profileNet[j].op = "password"
    /\ profileUi.uploading => \E j \in Pending(profileNet) : Uploads(profileNet[j].op, profileNet[j].arg)

\* It is kept when every flag that is up still has a request on its way.
LEMMA ProfileWaitsKept ==
    ASSUME ProfileWaits, NEW gone, Goes(profileNet, profileNet', gone), DOMAIN profileUi' = DOMAIN profileUi,
           profileUi'.loading => profileUi.loading /\ \A i \in gone : profileNet[i].op # "load",
           profileUi'.saving => \/ profileUi.saving /\ \A i \in gone : profileNet[i].op # "save"
                                \/ \E arg : Underway(profileNet', "save", arg),
           profileUi'.changing => \/ profileUi.changing /\ \A i \in gone : profileNet[i].op # "password"
                                  \/ \E arg : Underway(profileNet', "password", arg),
           profileUi'.uploading => \/ /\ profileUi.uploading
                                      /\ \A i \in gone : ~Uploads(profileNet[i].op, profileNet[i].arg)
                                   \/ \E op, arg : Uploads(op, arg) /\ Underway(profileNet', op, arg)
    PROVE  ProfileWaits'
  BY DEF ProfileWaits, Goes, Underway, Uploads

\* It holds at the start.
LEMMA ProfileWaitsStart == ProfileInit => ProfileWaits
<1> SUFFICES ASSUME ProfileInit PROVE ProfileWaits
  OBVIOUS
<1>1. Goes(NoCalls, profileNet, {}) /\ Underway(profileNet, "load", None)
  BY EmptyRoom, NoCallsIsNet, SendGoes DEF ProfileInit
<1> QED
  BY <1>1 DEF ProfileInit, NoProfile, ProfileWaits, Goes, Underway

\* Every step keeps it.
LEMMA ProfileWaitsStep == ProfileWaits /\ [ProfileNext]_profileVars => ProfileWaits'
<1> SUFFICES ASSUME ProfileWaits, [ProfileNext]_profileVars PROVE ProfileWaits'
  OBVIOUS
<1> USE DEF ProfileWaits
<1> DEFINE Same == /\ DOMAIN profileUi' = DOMAIN profileUi /\ profileUi'.loading = profileUi.loading
                   /\ profileUi'.saving = profileUi.saving /\ profileUi'.changing = profileUi.changing
                   /\ profileUi'.uploading = profileUi.uploading
<1>1. CASE UNCHANGED <<profileUi, profileNet>>
  BY <1>1, Zenon
<1>2. CASE AccessRenewed \/ RemoveAvatar
  <2>1. Same
    BY <1>2 DEF AccessRenewed, RemoveAvatar, ProfileStep, Pressed
  <2>2. Goes(profileNet, profileNet', {})
    BY <1>2, SendGoes DEF AccessRenewed, RemoveAvatar
  <2> QED
    BY <2>1, <2>2, ProfileWaitsKept
<1>3. ASSUME NEW d, TypeDetails(d) PROVE ProfileWaits'
  <2>1. Same /\ profileNet' = profileNet
    BY <1>3 DEF TypeDetails, ProfileStep, Pressed
  <2> QED
    BY <2>1, StayGoes, ProfileWaitsKept
<1>4. ASSUME NEW old, NEW new, NEW confirm, TypePasswords(old, new, confirm) PROVE ProfileWaits'
  <2>1. Same /\ profileNet' = profileNet
    BY <1>4 DEF TypePasswords, ProfileStep, Pressed
  <2> QED
    BY <2>1, StayGoes, ProfileWaitsKept
<1>5. CASE SaveDetails
  <2>1. /\ DOMAIN profileUi' = DOMAIN profileUi /\ profileUi'.loading = profileUi.loading
        /\ profileUi'.changing = profileUi.changing /\ profileUi'.uploading = profileUi.uploading
    BY <1>5 DEF SaveDetails, ProfileStep, Pressed
  <2>2. Goes(profileNet, profileNet', {}) /\ \E arg : Underway(profileNet', "save", arg)
    BY <1>5, SendGoes DEF SaveDetails
  <2> QED
    BY <2>1, <2>2, ProfileWaitsKept
<1>6. CASE UploadAvatar
  <2>1. /\ DOMAIN profileUi' = DOMAIN profileUi /\ profileUi'.loading = profileUi.loading
        /\ profileUi'.changing = profileUi.changing /\ profileUi'.saving = profileUi.saving
    BY <1>6 DEF UploadAvatar, ProfileStep, Pressed
  <2>2. Goes(profileNet, profileNet', {}) /\ Underway(profileNet', "upload", None) /\ Uploads("upload", None)
    BY <1>6, SendGoes DEF UploadAvatar, Uploads
  <2> QED
    BY <2>1, <2>2, ProfileWaitsKept
<1>7. CASE ChangePassword
  <2>1. /\ DOMAIN profileUi' = DOMAIN profileUi /\ profileUi'.loading = profileUi.loading
        /\ profileUi'.uploading = profileUi.uploading /\ profileUi'.saving = profileUi.saving
    BY <1>7 DEF ChangePassword, ProfileStep, Pressed
  <2>2. Goes(profileNet, profileNet', {}) /\ \E arg : Underway(profileNet', "password", arg)
    BY <1>7, SendGoes DEF ChangePassword
  <2> QED
    BY <2>1, <2>2, ProfileWaitsKept
<1>8. ASSUME NEW i \in Slot, \/ ServeProfile(i) \/ ServeDetails(i) \/ StoreImage(i) \/ CommitAvatar(i)
                             \/ ServeRemoval(i) \/ ServeSessionUpdate(i)
      PROVE  ProfileWaits'
  <2>1. profileUi' = profileUi
    BY <1>8 DEF ServeProfile, ServeDetails, StoreImage, CommitAvatar, ServeRemoval, ServeSessionUpdate
  <2>2. Goes(profileNet, profileNet', {})
    BY <1>8, AnswerGoes DEF ServeProfile, ServeDetails, StoreImage, CommitAvatar, ServeRemoval, ServeSessionUpdate,
                            Sent, Open
  <2> QED
    BY <2>1, <2>2, ProfileWaitsKept
<1>9. ASSUME NEW i \in Slot, ServePasswordChange(i) \/ ProfileCallFails(i) PROVE ProfileWaits'
  <2>1. Same
    BY <1>9 DEF ServePasswordChange, ProfileCallFails, Missed
  <2>2. Goes(profileNet, profileNet', {})
    BY <1>9, AnswerGoes DEF ServePasswordChange, ProfileCallFails, Sent, CanFail, Pending
  <2> QED
    BY <2>1, <2>2, ProfileWaitsKept
<1>10. ASSUME NEW i \in Slot, ProfileRead(i) PROVE ProfileWaits'
  <2>1. /\ DOMAIN profileUi' = DOMAIN profileUi /\ ~profileUi'.loading /\ profileUi'.saving = profileUi.saving
        /\ profileUi'.changing = profileUi.changing /\ profileUi'.uploading = profileUi.uploading
    BY <1>10 DEF ProfileRead, Applied
  <2>2. Goes(profileNet, profileNet', {i}) /\ profileNet[i].op = "load"
    BY <1>10, EndGoes DEF ProfileRead, Settled, Ok, Err
  <2> QED
    BY <2>1, <2>2, ProfileWaitsKept DEF Uploads
<1>11. ASSUME NEW i \in Slot, DetailsSaved(i) PROVE ProfileWaits'
  <2>1. /\ DOMAIN profileUi' = DOMAIN profileUi /\ profileUi'.loading = profileUi.loading /\ ~profileUi'.saving
        /\ profileUi'.changing = profileUi.changing /\ profileUi'.uploading = profileUi.uploading
    BY <1>11 DEF DetailsSaved, Applied
  <2>2. Goes(profileNet, profileNet', {i}) /\ profileNet[i].op = "save"
    BY <1>11, EndGoes DEF DetailsSaved, Settled, Ok, Err
  <2> QED
    BY <2>1, <2>2, ProfileWaitsKept DEF Uploads
<1>12. ASSUME NEW i \in Slot, PasswordChanged(i) PROVE ProfileWaits'
  <2>1. /\ DOMAIN profileUi' = DOMAIN profileUi /\ profileUi'.loading = profileUi.loading /\ ~profileUi'.changing
        /\ profileUi'.saving = profileUi.saving /\ profileUi'.uploading = profileUi.uploading
    BY <1>12 DEF PasswordChanged
  <2>2. Goes(profileNet, profileNet', {i}) /\ profileNet[i].op = "password"
    BY <1>12, EndGoes DEF PasswordChanged, Settled, Ok, Err
  <2> QED
    BY <2>1, <2>2, ProfileWaitsKept DEF Uploads
<1>13. ASSUME NEW i \in Slot, AvatarAnswered(i) PROVE ProfileWaits'
  <2>1. Same /\ profileNet[i].op \in {"upload", "remove"}
    BY <1>13 DEF AvatarAnswered, Ok
  <2>2. PICK arg : arg.by = profileNet[i].op /\ Goes(profileNet, profileNet', {i}) /\ Underway(profileNet', "session", arg)
    <3>1. [by |-> profileNet[i].op, avatar |-> profileNet[i].out].by = profileNet[i].op
      OBVIOUS
    <3> QED
      BY <1>13, <3>1, EndGoes DEF AvatarAnswered
  <2>3. CASE profileNet[i].op = "upload"
    <3>1. Uploads("session", arg)
      BY <2>2, <2>3 DEF Uploads
    <3> QED
      BY <2>1, <2>2, <2>3, <3>1, ProfileWaitsKept
  <2>4. CASE profileNet[i].op = "remove"
    BY <2>1, <2>2, <2>4, ProfileWaitsKept DEF Uploads
  <2> QED
    BY <2>1, <2>3, <2>4
<1>14. ASSUME NEW i \in Slot, SessionUpdated(i) \/ AvatarFailed(i) PROVE ProfileWaits'
  <2>1. /\ DOMAIN profileUi' = DOMAIN profileUi /\ profileUi'.loading = profileUi.loading
        /\ profileUi'.saving = profileUi.saving /\ profileUi'.changing = profileUi.changing
        /\ profileUi'.uploading => profileUi.uploading /\ ~Uploads(profileNet[i].op, profileNet[i].arg)
    BY <1>14 DEF SessionUpdated, AvatarFailed, UploadEnded, Uploads, Settled, Ok, Err
  <2>2. Goes(profileNet, profileNet', {i}) /\ profileNet[i].op \in {"session", "upload", "remove"}
    BY <1>14, EndGoes DEF SessionUpdated, AvatarFailed, Settled, Ok, Err
  <2> QED
    BY <2>1, <2>2, ProfileWaitsKept
<1> QED
  BY <1>1, <1>2, <1>3, <1>4, <1>5, <1>6, <1>7, <1>8, <1>9, <1>10, <1>11, <1>12, <1>13, <1>14 DEF ProfileNext, profileVars

-----------------------------------------------------------------------------
(* The portal *)

\* Every flag on every page has its request.
PortalWait ==
    /\ HomeWaits /\ OneLoad /\ RunWaits /\ RunKinds(runNet) /\ CheckWaits /\ NotifWaits /\ TableWaits
    /\ BoardsWaits /\ BoardWaits /\ EmbedWaits /\ AuthWaits /\ ProfileWaits

LEMMA PortalWaitStart == Init => PortalWait
<1> SUFFICES ASSUME Init PROVE PortalWait
  OBVIOUS
<1>1. HomeInit /\ RunsInit /\ ChecksInit /\ NotifInit /\ TablesInit /\ BoardsInit /\ BoardInit /\ EmbedInit /\ SignInInit
      /\ ProfileInit
  BY DEF Init
<1> QED
  BY <1>1, HomeWaitsStart, RunWaitsStart, CheckWaitsStart, NotifWaitsStart, TableWaitsStart, BoardsWaitsStart,
     BoardWaitsStart, EmbedWaitsStart, AuthWaitsStart, ProfileWaitsStart, Zenon DEF PortalWait

\* A step of the portal is one of each page, or leaves the page alone.
LEMMA PortalSteps ==
    ASSUME [Next]_vars
    PROVE  /\ [HomeNext]_homeVars /\ [RunsNext]_runVars /\ [ChecksNext]_checkVars /\ [NotifNext]_notifVars
           /\ [TablesNext]_tableVars /\ [BoardsNext]_boardsVars /\ [BoardNext]_boardVars /\ [EmbedNext]_embedVars
           /\ [SignInNext]_authVars /\ [ProfileNext]_profileVars
<1>1. CASE UNCHANGED vars
  BY <1>1 DEF vars
<1>2. ASSUME NEW s \in Screens, Others(s)
      PROVE  /\ s # "home" => UNCHANGED homeVars
             /\ s # "runs" => UNCHANGED runVars
             /\ s # "conditions" => UNCHANGED checkVars
             /\ s # "notifications" => UNCHANGED notifVars
             /\ s # "exports" => UNCHANGED tableVars
             /\ s # "boards" => UNCHANGED boardsVars
             /\ s # "board" => UNCHANGED boardVars
             /\ s # "embed" => UNCHANGED embedVars
             /\ s # "session" => UNCHANGED authVars
             /\ s # "profile" => UNCHANGED profileVars
  BY <1>2, Zenon DEF Others
<1>3. CASE Next
  <2>1. PICK s \in Screens : /\ Others(s)
                             /\ s = "home" => HomeNext
                             /\ s = "runs" => RunsNext
                             /\ s = "conditions" => ChecksNext
                             /\ s = "notifications" => NotifNext
                             /\ s = "exports" => TablesNext
                             /\ s = "boards" => BoardsNext
                             /\ s = "board" => BoardNext
                             /\ s = "embed" => EmbedNext
                             /\ s = "session" => SignInNext
                             /\ s = "profile" => ProfileNext
    BY <1>3, Zenon DEF Next, Screens
  <2> QED
    BY <1>2, <2>1
<1> QED
  BY <1>1, <1>3

LEMMA PortalWaitStep == PortalWait /\ [Next]_vars => PortalWait'
<1> SUFFICES ASSUME PortalWait, [Next]_vars PROVE PortalWait'
  OBVIOUS
<1>1. /\ [HomeNext]_homeVars /\ [RunsNext]_runVars /\ [ChecksNext]_checkVars /\ [NotifNext]_notifVars
      /\ [TablesNext]_tableVars /\ [BoardsNext]_boardsVars /\ [BoardNext]_boardVars /\ [EmbedNext]_embedVars
      /\ [SignInNext]_authVars /\ [ProfileNext]_profileVars
  BY PortalSteps
<1>2. HomeWaits' /\ OneLoad' /\ RunWaits' /\ RunKinds(runNet')
  BY <1>1, HomeWaitsStep, RunWaitsStep DEF PortalWait
<1>3. CheckWaits' /\ NotifWaits' /\ TableWaits' /\ ProfileWaits'
  BY <1>1, CheckWaitsStep, NotifWaitsStep, TableWaitsStep, ProfileWaitsStep DEF PortalWait
<1>4. BoardsWaits' /\ BoardWaits' /\ EmbedWaits' /\ AuthWaits'
  BY <1>1, BoardsWaitsStep, BoardWaitsStep, EmbedWaitsStep, AuthWaitsStep DEF PortalWait
<1>5. RunKinds(runNet)'
  BY <1>2 DEF RunKinds, Pending
<1> QED
  BY <1>2, <1>3, <1>4, <1>5, Zenon DEF PortalWait

\* With nothing on its way, nothing waits.
LEMMA NothingWaits == PortalWait => NothingHangs
<1> SUFFICES ASSUME PortalWait PROVE NothingHangs
  OBVIOUS
<1>1. HomeSpinners
  BY HomeWaitsSpin DEF PortalWait
<1>2. RunSpinners
  BY DEF PortalWait, RunWaits, RunSpinners, RunsFor, Quiet
<1>3. CheckSpinners /\ NotifSpinners /\ TableSpinners
  BY DEF PortalWait, CheckWaits, CheckSpinners, NotifWaits, NotifSpinners, TableWaits, TableSpinners, Quiet
<1>4. ProfileSpinners
  BY DEF PortalWait, ProfileWaits, ProfileSpinners, Quiet
<1>5. BoardsSpinners
  BY DEF PortalWait, BoardsWaits, BoardsSpinners, Quiet
<1>6. BoardSpinners
  BY DEF PortalWait, BoardWaits, BoardFits, BoardSpinners, AwaitsFor, Quiet
<1>7. EmbedSpinners
  BY DEF PortalWait, EmbedWaits, EmbedSpinners, Quiet
<1>8. AuthSpinners
  <2>1. AuthWaits
    BY DEF PortalWait
  <2>2. tab.submitting => Of(authNet, {"precheck", "signin"}) # {}
    BY <2>1 DEF AuthWaits, Of
  <2>3. tab.verifying => Of(authNet, {"enable", "update"}) # {}
    BY <2>1 DEF AuthWaits, ForVisit, Of
  <2>4. tab.disabling => Of(authNet, {"disable"}) # {}
    BY <2>1 DEF AuthWaits, ForVisit, Of
  <2> QED
    BY <2>2, <2>3, <2>4 DEF AuthSpinners
<1> QED
  BY <1>1, <1>2, <1>3, <1>4, <1>5, <1>6, <1>7, <1>8 DEF NothingHangs

\* No page of the portal waits for ever, or holds a button for ever: once every request
\* has been answered or has failed, in whatever order, nothing on display says that it
\* waits.
THEOREM NoPageHangs == Spec => []NothingHangs
<1>1. Spec => []PortalWait
  BY PortalWaitStart, PortalWaitStep, PTL DEF Spec
<1> QED
  BY <1>1, NothingWaits, PTL

-----------------------------------------------------------------------------
(* The table of reports *)

JobRow == [report : ReportId \cup {None}, st : RunStatus]

\* The fields of the page that the proof is about.
ReportTab ==
    /\ {"rows", "latest", "loading", "busy", "dialog", "fails", "clicks", "calm"} \subseteq DOMAIN reportPage
    /\ reportPage.clicks \in Nat

ReportInd ==
    /\ ReportTab
    /\ reportPage.calm => CalmTable /\ IsNet(reportNet)

-----------------------------------------------------------------------------
(* The newest run *)

RunsOf(r) == {k \in DOMAIN jobs : jobs[k].report = r}

NewestId(r) == CHOOSE j \in RunsOf(r) : \A h \in RunsOf(r) : h <= j

\* NewestRun by its place in the log.
LEMMA NewestIs ==
    ASSUME jobs \in Seq(JobRow), NEW r
    PROVE  /\ RunsOf(r) = {} => NewestRun(r) = None
           /\ RunsOf(r) # {} =>
                /\ NewestId(r) \in RunsOf(r) /\ \A h \in RunsOf(r) : h <= NewestId(r)
                /\ NewestRun(r) = [id |-> NewestId(r), st |-> jobs[NewestId(r)].st]
                /\ NewestRun(r) # None
<1>1. ASSUME RunsOf(r) # {}
      PROVE  NewestId(r) \in RunsOf(r) /\ \A h \in RunsOf(r) : h <= NewestId(r)
  <2>1. Len(jobs) \in Nat /\ RunsOf(r) \subseteq 1..Len(jobs)
    BY DEF RunsOf
  <2>2. \E m \in RunsOf(r) : \A k \in RunsOf(r) : k <= m
    BY <1>1, <2>1, NewestExists
  <2> QED
    BY <2>2 DEF NewestId
<1>2. ASSUME RunsOf(r) # {}
      PROVE  /\ NewestRun(r) = [id |-> NewestId(r), st |-> jobs[NewestId(r)].st]
             /\ NewestRun(r) # None
  <2>1. NewestRun(r) = [id |-> NewestId(r), st |-> jobs[NewestId(r)].st]
    BY <1>2 DEF NewestRun, NewestId, RunsOf
  <2>2. NewestId(r) \in Nat /\ jobs[NewestId(r)] \in JobRow
    BY <1>1, <1>2 DEF RunsOf
  <2>3. jobs[NewestId(r)].st \in RunStatus
    BY <2>2 DEF JobRow
  <2> QED
    BY <2>1, <2>2, <2>3, ReportsAssumption
<1> QED
  BY <1>1, <1>2 DEF NewestRun, RunsOf

\* A run that goes on stays the newest of its report, and what followed it follows it.
LEMMA WorkFollows ==
    ASSUME jobs \in Seq(JobRow), NEW k, WorkRun(k)
    PROVE  /\ jobs' \in Seq(JobRow)
           /\ \A known, r : Follows(known, r) => Follows(known, r)'
<1>0. /\ k \in DOMAIN jobs /\ InFlight(jobs[k]) /\ Len(jobs) \in Nat /\ DOMAIN jobs = 1..Len(jobs)
      /\ \A j \in DOMAIN jobs : jobs[j] \in JobRow
  BY DEF WorkRun
<1> DEFINE row == [jobs[k] EXCEPT !.st = IF @ = "pending" THEN "running" ELSE "completed"]
<1>1. row \in JobRow /\ row.report = jobs[k].report
  BY <1>0 DEF JobRow, RunStatus
<1>2. jobs' = [jobs EXCEPT ![k] = row]
  BY DEF WorkRun
<1> HIDE DEF row
<1>3. jobs' \in Seq(JobRow) /\ DOMAIN jobs' = DOMAIN jobs
  BY <1>0, <1>1, <1>2
<1>4. \A j \in DOMAIN jobs : jobs'[j].report = jobs[j].report /\ (j # k => jobs'[j] = jobs[j])
  BY <1>0, <1>1, <1>2
<1>5. \A r : RunsOf(r)' = RunsOf(r) /\ NewestId(r)' = NewestId(r)
  BY <1>3, <1>4 DEF RunsOf, NewestId
<1>6. ASSUME NEW known, NEW r, Follows(known, r) PROVE Follows(known, r)'
  <2>1. CASE RunsOf(r) = {}
    <3>1. NewestRun(r) = None /\ NewestRun(r)' = None
      BY <1>3, <1>5, <2>1, NewestIs, ZenonT(40) DEF NewestRun, RunsOf
    <3> QED
      BY <1>6, <3>1 DEF Follows
  <2>2. CASE RunsOf(r) # {}
    <3>1. /\ NewestRun(r) = [id |-> NewestId(r), st |-> jobs[NewestId(r)].st]
          /\ NewestRun(r) # None /\ NewestId(r) \in DOMAIN jobs
      BY <2>2, NewestIs DEF RunsOf
    <3>2. /\ NewestRun(r)' = [id |-> NewestId(r), st |-> jobs'[NewestId(r)].st]
          /\ NewestRun(r)' # None
      <4>1. NewestRun(r)' = [id |-> NewestId(r), st |-> jobs'[NewestId(r)].st]
        BY <1>5, <2>2 DEF NewestRun, NewestId, RunsOf
      <4>2. NewestId(r) \in Nat /\ jobs'[NewestId(r)] \in JobRow
        BY <1>0, <1>3, <3>1
      <4>3. jobs'[NewestId(r)].st \in RunStatus
        BY <4>2 DEF JobRow
      <4> QED
        BY <4>1, <4>2, <4>3, ReportsAssumption
    <3>3. CASE NewestId(r) = k /\ known = NewestRun(r)
      <4>1. InFlight(known)
        BY <1>0, <3>1, <3>3 DEF InFlight
      <4> QED
        BY <3>1, <3>2, <3>3, <4>1 DEF Follows
    <3>4. CASE NewestId(r) # k /\ known = NewestRun(r)
      BY <1>4, <3>1, <3>2, <3>4 DEF Follows
    <3>5. CASE known # NewestRun(r)
      BY <1>6, <3>1, <3>2, <3>5 DEF Follows
    <3> QED
      BY <3>3, <3>4, <3>5
  <2> QED
    BY <2>1, <2>2
<1> QED
  BY <1>3, <1>6

\* A run that is added is the newest of its report, and the others keep theirs.
LEMMA AddedRun ==
    ASSUME jobs \in Seq(JobRow), NEW id \in ReportId, jobs' = Append(jobs, Job(id))
    PROVE  /\ jobs' \in Seq(JobRow)
           /\ NewestRun(id)' = [id |-> Len(jobs) + 1, st |-> "pending"]
           /\ \A r : r # id => NewestRun(r)' = NewestRun(r)
<1>1. Job(id) \in JobRow
  BY DEF Job, JobRow, RunStatus
<1>2. /\ jobs' \in Seq(JobRow) /\ Len(jobs) \in Nat /\ DOMAIN jobs = 1..Len(jobs)
      /\ DOMAIN jobs' = 1..(Len(jobs) + 1) /\ jobs'[Len(jobs) + 1] = Job(id)
      /\ \A j \in 1..Len(jobs) : jobs'[j] = jobs[j]
  BY <1>1
<1>3. ASSUME NEW r, r # id PROVE NewestRun(r)' = NewestRun(r)
  <2>1. RunsOf(r)' = RunsOf(r)
    BY <1>2, <1>3 DEF RunsOf, Job
  <2>2. NewestId(r)' = NewestId(r)
    BY <2>1 DEF NewestId
  <2>3. RunsOf(r) # {} => NewestId(r) \in 1..Len(jobs)
    BY <1>2, NewestIs DEF RunsOf
  <2>4. CASE RunsOf(r) = {}
    BY <2>1, <2>4 DEF NewestRun, RunsOf
  <2>5. CASE RunsOf(r) # {}
    <3>1. NewestRun(r) = [id |-> NewestId(r), st |-> jobs[NewestId(r)].st]
      BY <2>5 DEF NewestRun, NewestId, RunsOf
    <3>2. NewestRun(r)' = [id |-> NewestId(r), st |-> jobs'[NewestId(r)].st]
      BY <2>1, <2>2, <2>5 DEF NewestRun, NewestId, RunsOf
    <3> QED
      BY <1>2, <2>3, <2>5, <3>1, <3>2
  <2> QED
    BY <2>4, <2>5
<1>4. NewestRun(id)' = [id |-> Len(jobs) + 1, st |-> "pending"]
  <2>1. Len(jobs) + 1 \in RunsOf(id)' /\ \A h \in RunsOf(id)' : h <= Len(jobs) + 1
    BY <1>2 DEF RunsOf, Job
  <2>2. NewestId(id)' = Len(jobs) + 1
    <3> DEFINE S == RunsOf(id)'
               n == Len(jobs) + 1
    <3>1. S \subseteq Nat /\ n \in S /\ \A h \in S : h <= n
      BY <1>2, <2>1 DEF RunsOf
    <3>2. NewestId(id)' = CHOOSE j \in S : \A h \in S : h <= j
      BY DEF NewestId
    <3> HIDE DEF S, n
    <3>3. \A j \in S : (\A h \in S : h <= j) => j = n
      BY <3>1
    <3> QED
      BY <3>1, <3>2, <3>3 DEF n
  <2>3. NewestRun(id)' = [id |-> NewestId(id)', st |-> jobs'[NewestId(id)'].st]
    BY <2>1 DEF NewestRun, NewestId, RunsOf
  <2> QED
    BY <1>2, <2>2, <2>3 DEF Job
<1> QED
  BY <1>2, <1>3, <1>4

\* The runs of a report that is deleted are cut off from it.
LEMMA CutRuns ==
    ASSUME jobs \in Seq(JobRow), NEW id,
           jobs' = [k \in DOMAIN jobs |-> IF jobs[k].report = id THEN [jobs[k] EXCEPT !.report = None] ELSE jobs[k]]
    PROVE  /\ jobs' \in Seq(JobRow)
           /\ \A r \in ReportId : r # id => NewestRun(r)' = NewestRun(r)
<1>1. Len(jobs) \in Nat /\ DOMAIN jobs = 1..Len(jobs) /\ DOMAIN jobs' = DOMAIN jobs
  OBVIOUS
<1>2. \A k \in DOMAIN jobs : /\ jobs'[k] \in JobRow /\ jobs'[k].st = jobs[k].st
                             /\ jobs[k].report # id => jobs'[k] = jobs[k]
                             /\ jobs[k].report = id => jobs'[k].report = None
  <2> SUFFICES ASSUME NEW k \in DOMAIN jobs
               PROVE  /\ jobs'[k] \in JobRow /\ jobs'[k].st = jobs[k].st
                      /\ jobs[k].report # id => jobs'[k] = jobs[k]
                      /\ jobs[k].report = id => jobs'[k].report = None
    OBVIOUS
  <2>1. jobs[k] \in JobRow
    BY <1>1
  <2>2. jobs'[k] = IF jobs[k].report = id THEN [jobs[k] EXCEPT !.report = None] ELSE jobs[k]
    OBVIOUS
  <2> QED
    BY <2>1, <2>2 DEF JobRow
<1>3. jobs' \in Seq(JobRow)
  BY <1>1, <1>2
<1>4. ASSUME NEW r \in ReportId, r # id PROVE NewestRun(r)' = NewestRun(r)
  <2>1. RunsOf(r)' = RunsOf(r)
    BY <1>1, <1>2, <1>4, ReportsAssumption DEF RunsOf
  <2>2. NewestId(r)' = NewestId(r)
    BY <2>1 DEF NewestId
  <2>3. CASE RunsOf(r) = {}
    BY <2>1, <2>3 DEF NewestRun, RunsOf
  <2>4. CASE RunsOf(r) # {}
    <3>1. NewestRun(r) = [id |-> NewestId(r), st |-> jobs[NewestId(r)].st] /\ NewestId(r) \in DOMAIN jobs
      BY <2>4, NewestIs DEF RunsOf
    <3>2. NewestRun(r)' = [id |-> NewestId(r), st |-> jobs'[NewestId(r)].st]
      BY <2>1, <2>2, <2>4 DEF NewestRun, NewestId, RunsOf
    <3> QED
      BY <1>2, <3>1, <3>2
  <2> QED
    BY <2>3, <2>4
<1> QED
  BY <1>3, <1>4

-----------------------------------------------------------------------------
(* The calls *)

\* The two lists are asked for in two free slots.
LEMMA BothSent ==
    ASSUME NEW net, IsNet(net), Room(net, 2)
    PROVE  \E i, j \in Slot \ Pending(net) :
              i # j /\ LoadReports(net) = Put(Put(net, i, Call("reports", None)), j, Call("jobs", None))
  BY TwoSent DEF LoadReports

\* What the call in slot i becomes is all that changes.
LEMMA CallPut ==
    ASSUME NEW net, NEW i \in Slot, NEW c
    PROVE  /\ Put(net, i, c)[i] = c /\ \A j \in Slot \ {i} : Put(net, i, c)[j] = net[j]
           /\ Pending(Put(net, i, c)) = (IF c = Free THEN Pending(net) \ {i} ELSE Pending(net) \cup {i})
  BY DEF Put, Pending

\* A call that is not for a list has the wire for itself.
LEMMA Alone ==
    ASSUME CalmTable, NEW i \in Pending(reportNet), reportNet[i].op \notin {"reports", "jobs"}
    PROVE  Pending(reportNet) = {i}
  BY DEF CalmTable

\* Two calls in flight are for the two lists.
LEMMA TheOther ==
    ASSUME CalmTable, NEW i \in Pending(reportNet), NEW j \in Pending(reportNet), i # j
    PROVE  /\ reportNet[i].op = "reports" => reportNet[j].op = "jobs"
           /\ reportNet[i].op = "jobs" => reportNet[j].op = "reports"
  BY DEF CalmTable

-----------------------------------------------------------------------------
(* The steps *)

\* Init asks for both lists.
LEMMA ReportsStart == ReportsInit => ReportInd
<1> SUFFICES ASSUME ReportsInit PROVE ReportInd
  OBVIOUS
<1>1. ReportTab
  BY DEF ReportsInit, ReportTab
<1>2. Room(NoCalls, 2)
  <2>1. Pending(NoCalls) = {}
    BY DEF Pending, NoCalls
  <2> QED
    BY <2>1, AllFree, ReportsAssumption
<1>3. PICK i, j \in Slot \ Pending(NoCalls) :
         i # j /\ reportNet = Put(Put(NoCalls, i, Call("reports", None)), j, Call("jobs", None))
  BY <1>2, NoCallsIsNet, BothSent DEF ReportsInit
<1>4. IsNet(reportNet) /\ Pending(reportNet) = {i, j}
      /\ reportNet[i] = Call("reports", None) /\ reportNet[j] = Call("jobs", None)
  <2>1. IsNet(reportNet)
    BY <1>3, NoCallsIsNet, PutIsNet, CallIsCall
  <2>2. Pending(NoCalls) = {}
    BY DEF Pending, NoCalls
  <2>3. Call("reports", None) # Free /\ Call("jobs", None) # Free
    BY CallIsCall
  <2> QED
    BY <1>3, <2>1, <2>2, <2>3 DEF Put, Pending
<1>5. CalmTable
  <2>1. \A r \in reports : r.id \in ReportId
    BY ReportsAssumption DEF ReportsInit, ReportId
  <2>2. jobs \in Seq([report : ReportId \cup {None}, st : RunStatus]) /\ reportsMade \in 1..MaxReports
        /\ DOMAIN reportPage.latest = ReportId
    BY ReportsAssumption DEF ReportsInit, NoRuns
  <2>3. \A k \in {i, j} : ReportCallFits(reportNet[k])
    BY <1>4 DEF ReportCallFits, Call
  <2>4. ~KeepsRows(reportNet[i]) /\ ~KeepsLatest(reportNet[j])
        /\ reportNet[i].op = "reports" /\ reportNet[j].op = "jobs"
    BY <1>4 DEF KeepsRows, KeepsLatest, Call
  <2> QED
    BY <1>4, <2>1, <2>2, <2>3, <2>4 DEF CalmTable
<1> QED
  BY <1>1, <1>4, <1>5 DEF ReportInd

\* A click, with nothing in flight before it, sends one call.
LEMMA Clicked ==
    ASSUME ReportInd, NEW i \in Slot \ Pending(reportNet), NEW c, IsCall(c), c # Free,
           reportNet' = Put(reportNet, i, c), c.st = "sent",
           c.op \in {"run", "drop", "create", "save"},
           c.op = "run" /\ reportPage.calm => c.arg \in ReportId,
           c.op = "create" => reportsMade < MaxReports,
           UNCHANGED reportServer, reportPage'.rows = reportPage.rows, reportPage'.latest = reportPage.latest,
           reportPage'.calm => reportPage.calm /\ Quiet(reportNet)
    PROVE  reportPage'.calm => CalmTable' /\ IsNet(reportNet)'
<1> SUFFICES ASSUME reportPage'.calm PROVE CalmTable' /\ IsNet(reportNet)'
  OBVIOUS
<1>1. CalmTable /\ IsNet(reportNet) /\ Pending(reportNet) = {}
  BY DEF ReportInd, Quiet
<1>2. Pending(reportNet)' = {i} /\ reportNet'[i] = c /\ IsNet(reportNet)'
  BY <1>1, CallPut, PutIsNet
<1>3. reportPage.rows = reports /\ AllFollow(reportPage.latest)
  BY <1>1 DEF CalmTable
<1>4. AllFollow(reportPage.latest)' /\ reports' = reports /\ jobs' = jobs /\ reportsMade' = reportsMade
  <2>1. reports' = reports /\ jobs' = jobs /\ reportsMade' = reportsMade
    BY DEF reportServer
  <2>2. \A r : NewestRun(r)' = NewestRun(r)
    BY <2>1 DEF NewestRun
  <2> QED
    BY <1>3, <2>1, <2>2 DEF AllFollow, Follows
<1>5. ReportCallFits(c)'
  BY <1>1 DEF ReportCallFits, ReportInd, reportServer
<1> QED
  BY <1>1, <1>2, <1>3, <1>4, <1>5 DEF CalmTable

\* What the page does with its dialog leaves the table alone.
LEMMA Undisturbed ==
    ASSUME CalmTable, UNCHANGED <<reportServer, reportNet>>,
           reportPage'.rows = reportPage.rows, reportPage'.latest = reportPage.latest
    PROVE  CalmTable'
<1>1. reports' = reports /\ jobs' = jobs /\ reportsMade' = reportsMade /\ reportNet' = reportNet
  BY DEF reportServer
<1>2. \A known : AllFollow(known)' <=> AllFollow(known)
  BY <1>1 DEF AllFollow, Follows, NewestRun
<1>3. \A c : ReportCallFits(c)' <=> ReportCallFits(c)
  BY <1>1, <1>2 DEF ReportCallFits
<1> QED
  BY <1>1, <1>2, <1>3, ZenonT(60) DEF CalmTable, Pending, KeepsRows, KeepsLatest

\* The clicks on the table and in the dialog (handleRun, handleDelete, handleSave).
LEMMA ReportUserStep ==
    ASSUME ReportInd,
           \/ \E r \in reportPage.rows : RunReport(r) \/ DropReport(r) \/ OpenReport(r)
           \/ OpenReport(None) \/ CloseReport
           \/ \E b \in ReportBody : SaveReport(b)
    PROVE  ReportInd'
<1>0. ReportTab
  BY DEF ReportInd
<1>1. /\ {"rows", "latest", "loading", "busy", "dialog", "fails", "clicks", "calm"} \subseteq DOMAIN StepReport
      /\ StepReport.rows = reportPage.rows /\ StepReport.latest = reportPage.latest /\ StepReport.clicks \in Nat
      /\ StepReport.calm => reportPage.calm /\ Quiet(reportNet)
  BY <1>0, Pressing DEF StepReport, ReportTab
<1>2. ASSUME reportPage'.calm => reportPage.calm, ReportTab',
             reportPage'.calm => CalmTable' /\ IsNet(reportNet)'
      PROVE  ReportInd'
  BY <1>2 DEF ReportInd
<1>3. ASSUME NEW r \in reportPage.rows, RunReport(r) PROVE ReportInd'
  <2>1. /\ ReportTab' /\ reportPage'.rows = reportPage.rows /\ reportPage'.latest = reportPage.latest
        /\ reportPage'.calm => reportPage.calm /\ Quiet(reportNet)
    BY <1>1, <1>3 DEF RunReport, ReportTab
  <2>2. CASE ~reportPage.calm
    BY <2>1, <2>2 DEF ReportInd
  <2>3. CASE reportPage.calm /\ ~Quiet(reportNet)
    BY <2>1, <2>3 DEF ReportInd
  <2>4. CASE reportPage.calm /\ Quiet(reportNet)
    <3>1. CalmTable /\ IsNet(reportNet) /\ reportPage.rows = reports
      BY <2>4 DEF ReportInd, CalmTable, Quiet
    <3>2. PICK k \in Slot \ Pending(reportNet) : reportNet' = Put(reportNet, k, Call("run", r.id))
      BY <1>3, <3>1, SendingIntoRoom DEF RunReport, OnReportRow, PressReport
    <3>3. r.id \in ReportId
      BY <1>3, <3>1 DEF CalmTable
    <3>4. UNCHANGED reportServer
      BY <1>3 DEF RunReport, OnReportRow, PressReport
    <3> QED
      BY <2>1, <3>2, <3>3, <3>4, CallIsCall, Clicked DEF Call, ReportInd
  <2> QED
    BY <2>2, <2>3, <2>4
<1>4. ASSUME NEW r \in reportPage.rows, DropReport(r) PROVE ReportInd'
  <2>1. /\ ReportTab' /\ reportPage'.rows = reportPage.rows /\ reportPage'.latest = reportPage.latest
        /\ reportPage'.calm => reportPage.calm /\ Quiet(reportNet)
    BY <1>1, <1>4 DEF DropReport, ReportTab
  <2>2. CASE ~(reportPage.calm /\ Quiet(reportNet))
    BY <2>1, <2>2 DEF ReportInd
  <2>3. CASE reportPage.calm /\ Quiet(reportNet)
    <3>1. IsNet(reportNet)
      BY <2>3 DEF ReportInd
    <3>2. PICK k \in Slot \ Pending(reportNet) : reportNet' = Put(reportNet, k, Call("drop", r.id))
      BY <1>4, <3>1, SendingIntoRoom DEF DropReport, OnReportRow, PressReport
    <3>3. UNCHANGED reportServer
      BY <1>4 DEF DropReport, OnReportRow, PressReport
    <3> QED
      BY <2>1, <3>2, <3>3, CallIsCall, Clicked DEF Call, ReportInd
  <2> QED
    BY <2>2, <2>3
<1>5. ASSUME NEW b \in ReportBody, SaveReport(b) PROVE ReportInd'
  <2> DEFINE id == reportPage.dialog.report
             arg == [id |-> id, body |-> b, n |-> reportPage.dialog.n]
             op == IF id = None THEN "create" ELSE "save"
  <2>1. /\ ReportTab' /\ reportPage'.rows = reportPage.rows /\ reportPage'.latest = reportPage.latest
        /\ reportPage'.calm => reportPage.calm /\ Quiet(reportNet)
    <3>1. reportPage' = [StepReport EXCEPT !.dialog.saving = TRUE]
      BY <1>5 DEF SaveReport
    <3> QED
      BY <1>1, <3>1 DEF ReportTab
  <2>2. CASE ~(reportPage.calm /\ Quiet(reportNet))
    BY <2>1, <2>2 DEF ReportInd
  <2>3. CASE reportPage.calm /\ Quiet(reportNet)
    <3>1. IsNet(reportNet) /\ CalmTable
      BY <2>3 DEF ReportInd
    <3>2. PICK k \in Slot \ Pending(reportNet) : reportNet' = Put(reportNet, k, Call(op, arg))
      <4>1. reportNet' = Send(reportNet, op, arg) /\ Room(reportNet, 1)
        BY <1>5 DEF SaveReport, PressReport
      <4> HIDE DEF op, arg
      <4> QED
        BY <3>1, <4>1, SendingIntoRoom
    <3>3. UNCHANGED reportServer
      BY <1>5 DEF SaveReport, PressReport
    <3>4. id = None => reportsMade < MaxReports
      <4>1. Cardinality(Of(reportNet, {"create"})) = 0
        <5>1. Of(reportNet, {"create"}) = {}
          BY <2>3 DEF Of, Quiet
        <5> QED
          BY <5>1, FS_EmptySet
      <4> QED
        BY <1>5, <3>1, <4>1 DEF SaveReport, ReportsLeft, CalmTable
    <3>5. Call(op, arg).op \in {"create", "save"} /\ Call(op, arg).st = "sent"
          /\ (Call(op, arg).op = "create" => id = None)
      BY DEF Call
    <3>6. IsCall(Call(op, arg)) /\ Call(op, arg) # Free
      BY CallIsCall
    <3> DEFINE c == Call(op, arg)
    <3> HIDE DEF c
    <3>7. reportPage'.calm => CalmTable' /\ IsNet(reportNet)'
      BY <2>1, <3>2, <3>3, <3>4, <3>5, <3>6, Clicked DEF c
    <3> QED
      BY <2>1, <3>7 DEF ReportInd
  <2> QED
    BY <2>2, <2>3
<1>6. ASSUME \/ \E r \in reportPage.rows : OpenReport(r)
             \/ OpenReport(None) \/ CloseReport
      PROVE  ReportInd'
  <2>1. PICK d : reportPage' = [reportPage EXCEPT !.dialog = d]
    BY <1>6 DEF OpenReport, CloseReport
  <2>2. /\ ReportTab' /\ reportPage'.rows = reportPage.rows /\ reportPage'.latest = reportPage.latest
        /\ reportPage'.calm = reportPage.calm
    BY <1>0, <2>1 DEF ReportTab
  <2>3. UNCHANGED <<reportServer, reportNet>>
    BY <1>6 DEF OpenReport, CloseReport
  <2> QED
    BY <2>2, <2>3, Undisturbed DEF ReportInd
<1> QED
  BY <1>3, <1>4, <1>5, <1>6

\* Runs start and end while the page looks elsewhere, and the interval fires.
LEMMA ReportWorldStep ==
    ASSUME ReportInd,
           (\E r \in reports : RunBySchedule(r)) \/ (\E k \in 1..MaxJobs : WorkRun(k)) \/ Poll
    PROVE  ReportInd'
<1>0. ReportTab
  BY DEF ReportInd
<1>1. ASSUME NEW r \in reports, RunBySchedule(r) PROVE ReportInd'
  <2>1. reportPage' = [reportPage EXCEPT !.calm = FALSE]
    BY <1>1 DEF RunBySchedule
  <2>2. ReportTab' /\ reportPage'.calm = FALSE
    BY <1>0, <2>1 DEF ReportTab
  <2> QED
    BY <2>2 DEF ReportInd
<1>2. ASSUME NEW k \in 1..MaxJobs, WorkRun(k) PROVE ReportInd'
  <2>1. /\ reports' = reports /\ reportsMade' = reportsMade /\ reportPage' = reportPage /\ reportNet' = reportNet
    BY <1>2 DEF WorkRun
  <2>2. ASSUME reportPage.calm PROVE CalmTable'
    <3>0. CalmTable
      BY <2>2 DEF ReportInd
    <3>1. jobs \in Seq(JobRow)
      BY <3>0 DEF CalmTable, JobRow
    <3>2. jobs' \in Seq(JobRow) /\ \A known, r : Follows(known, r) => Follows(known, r)'
      BY <1>2, <3>1, WorkFollows
    <3>3. \A known : AllFollow(known) => AllFollow(known)'
      BY <2>1, <3>2 DEF AllFollow
    <3>4. \A c : ReportCallFits(c) => ReportCallFits(c)'
      BY <2>1, <3>3 DEF ReportCallFits
    <3>5. AllFollow(reportPage.latest) => AllFollow(reportPage.latest)'
      BY <2>1, <3>2 DEF AllFollow
    <3> QED
      BY <2>1, <3>0, <3>2, <3>4, <3>5 DEF CalmTable, Pending, KeepsRows, KeepsLatest, JobRow
  <2> QED
    BY <2>1, <2>2 DEF ReportInd, ReportTab
<1>3. ASSUME Poll PROVE ReportInd'
  <2>1. /\ reportPage' = [reportPage EXCEPT !.calm = @ /\ Quiet(reportNet)] /\ Room(reportNet, 2)
        /\ reportNet' = LoadReports(reportNet)
        /\ reports' = reports /\ jobs' = jobs /\ reportsMade' = reportsMade
    BY <1>3 DEF Poll, reportServer
  <2>2. /\ ReportTab' /\ reportPage'.rows = reportPage.rows /\ reportPage'.latest = reportPage.latest
        /\ reportPage'.calm = (reportPage.calm /\ Quiet(reportNet))
    BY <1>0, <2>1 DEF ReportTab
  <2>3. ASSUME reportPage.calm, Quiet(reportNet) PROVE CalmTable' /\ IsNet(reportNet)'
    <3>0. CalmTable /\ IsNet(reportNet)
      BY <2>3 DEF ReportInd
    <3>1. PICK i, j \in Slot \ Pending(reportNet) :
             i # j /\ reportNet' = Put(Put(reportNet, i, Call("reports", None)), j, Call("jobs", None))
      BY <2>1, <3>0, BothSent
    <3>2. /\ IsNet(reportNet)' /\ Pending(reportNet)' = {i, j}
          /\ reportNet'[i] = Call("reports", None) /\ reportNet'[j] = Call("jobs", None)
      <4>1. IsNet(reportNet)'
        BY <3>0, <3>1, PutIsNet, CallIsCall
      <4>2. Call("reports", None) # Free /\ Call("jobs", None) # Free
        BY CallIsCall
      <4> QED
        BY <2>3, <3>1, <4>1, <4>2 DEF Put, Pending, Quiet
    <3>3. \A k \in {i, j} : ReportCallFits(reportNet[k])'
      BY <3>2 DEF ReportCallFits, Call
    <3>4. /\ reportNet'[i].op = "reports" /\ reportNet'[j].op = "jobs"
      BY <3>2 DEF Call
    <3>5. ~KeepsRows(reportNet'[i]) /\ ~KeepsLatest(reportNet'[j])
      BY <3>4 DEF KeepsRows, KeepsLatest
    <3> QED
      BY <2>1, <2>2, <3>0, <3>2, <3>3, <3>4, <3>5 DEF CalmTable
  <2> QED
    BY <2>2, <2>3 DEF ReportInd
<1> QED
  BY <1>1, <1>2, <1>3

\* A failure leaves the call with nothing to bring (ApiError).
LEMMA ReportFailStep ==
    ASSUME ReportInd, NEW i \in Slot, ReportCallFails(i)
    PROVE  ReportInd'
<1> DEFINE missed == [reportPage EXCEPT !.calm = @ /\ reportNet[i].st = "sent"]
<1>0. ReportTab
  BY DEF ReportInd
<1>1. /\ i \in Pending(reportNet) /\ reportNet' = Fail(reportNet, i)
      /\ reportPage' = [missed EXCEPT !.fails = @ + 1]
      /\ reports' = reports /\ jobs' = jobs /\ reportsMade' = reportsMade
  BY DEF ReportCallFails, CanFail, Missed, reportServer
<1>2. /\ DOMAIN missed = DOMAIN reportPage /\ missed.rows = reportPage.rows /\ missed.latest = reportPage.latest
      /\ missed.clicks = reportPage.clicks /\ missed.calm = (reportPage.calm /\ reportNet[i].st = "sent")
  BY <1>0 DEF ReportTab
<1> HIDE DEF missed
<1>3. /\ ReportTab' /\ reportPage'.rows = reportPage.rows /\ reportPage'.latest = reportPage.latest
      /\ reportPage'.calm = missed.calm
  BY <1>0, <1>1, <1>2 DEF ReportTab
<1>4. ASSUME reportPage.calm, reportNet[i].st = "sent" PROVE CalmTable' /\ IsNet(reportNet)'
  <2> DEFINE c == [op |-> reportNet[i].op, arg |-> reportNet[i].arg, st |-> "err", out |-> reportNet[i].out]
  <2>0. CalmTable /\ IsNet(reportNet) /\ reportNet[i] # Free
    BY <1>1, <1>4 DEF ReportInd, Pending
  <2>1. reportNet' = Put(reportNet, i, c)
    BY <1>1, <2>0, Answering
  <2>2. IsCall(c) /\ c # Free /\ c.op = reportNet[i].op /\ c.st = "err" /\ c.arg = reportNet[i].arg
    BY DEF IsCall, Free
  <2> HIDE DEF c
  <2>3. /\ IsNet(reportNet)' /\ Pending(reportNet)' = Pending(reportNet) /\ reportNet'[i] = c
        /\ \A j \in Slot \ {i} : reportNet'[j] = reportNet[j]
    <3>1. IsNet(reportNet)'
      BY <2>0, <2>1, <2>2, PutIsNet
    <3> QED
      BY <1>1, <2>1, <2>2, <3>1 DEF Put, Pending
  <2>4. \A k : ReportCallFits(k)' <=> ReportCallFits(k)
    <3>1. \A known : AllFollow(known)' <=> AllFollow(known)
      BY <1>1 DEF AllFollow, Follows, NewestRun
    <3> QED
      BY <1>1, <1>3, <3>1 DEF ReportCallFits
  <2>5. ReportCallFits(c)
    BY <1>1, <2>0, <2>2 DEF CalmTable, ReportCallFits
  <2>6. (KeepsRows(c) <=> KeepsRows(reportNet[i])) /\ (KeepsLatest(c) <=> KeepsLatest(reportNet[i]))
    BY <1>4, <2>2 DEF KeepsRows, KeepsLatest
  <2>7. AllFollow(reportPage.latest)' <=> AllFollow(reportPage.latest)
    <3>1. \A r : NewestRun(r)' = NewestRun(r)
      BY <1>1 DEF NewestRun
    <3> QED
      BY <1>1, <1>3, <3>1 DEF AllFollow, Follows
  <2>8. \A j \in Pending(reportNet) : /\ reportNet'[j].op = reportNet[j].op /\ ReportCallFits(reportNet'[j])
                                      /\ KeepsRows(reportNet'[j]) <=> KeepsRows(reportNet[j])
                                      /\ KeepsLatest(reportNet'[j]) <=> KeepsLatest(reportNet[j])
    BY <2>0, <2>2, <2>3, <2>5, <2>6 DEF CalmTable, Pending
  <2>9. /\ (\A j \in Pending(reportNet)' : KeepsRows(reportNet'[j])) => reportPage'.rows = reports'
        /\ (\A j \in Pending(reportNet)' : KeepsLatest(reportNet'[j])) => AllFollow(reportPage.latest)'
    BY <1>1, <1>3, <2>0, <2>3, <2>7, <2>8 DEF CalmTable
  <2>10. \A j \in Pending(reportNet)' : ReportCallFits(reportNet[j])'
    BY <2>3, <2>4, <2>8
  <2>11. (\A j \in Pending(reportNet) : KeepsRows(reportNet[j]))' <=> \A j \in Pending(reportNet)' : KeepsRows(reportNet'[j])
    BY DEF KeepsRows
  <2>12. (\A j \in Pending(reportNet) : KeepsLatest(reportNet[j]))' <=> \A j \in Pending(reportNet)' : KeepsLatest(reportNet'[j])
    BY DEF KeepsLatest
  <2>13. \A j, k \in Pending(reportNet)' : j = k \/ {reportNet'[j].op, reportNet'[k].op} = {"reports", "jobs"}
    BY <2>0, <2>3, <2>8, ZenonT(60) DEF CalmTable
  <2> QED
    BY <1>1, <1>3, <2>0, <2>3, <2>9, <2>10, <2>11, <2>12, <2>13 DEF CalmTable
<1> QED
  BY <1>2, <1>3, <1>4 DEF ReportInd

-----------------------------------------------------------------------------
(* The server acts *)

\* The server's steps change nothing of the page.
LEMMA ServedPage ==
    ASSUME ReportInd, reportPage' = reportPage, reportPage.calm => CalmTable' /\ IsNet(reportNet)'
    PROVE  ReportInd'
  BY DEF ReportInd, ReportTab

\* What is known does not change when neither the reports nor the runs do.
LEMMA SameRuns ==
    ASSUME reports' = reports, jobs' = jobs
    PROVE  \A known : AllFollow(known)' <=> AllFollow(known)
<1>1. \A r : NewestRun(r)' = NewestRun(r)
  BY DEF NewestRun
<1> QED
  BY <1>1 DEF AllFollow, Follows

\* A list is read from the tables as they are (list_reports, list_jobs).
LEMMA ListServed ==
    ASSUME ReportInd, NEW i \in Slot, ServeReports(i) \/ ServeJobs(i)
    PROVE  ReportInd'
<1> DEFINE out == IF reportNet[i].op = "reports" THEN reports ELSE [r \in ReportId |-> NewestRun(r)]
           c == [op |-> reportNet[i].op, arg |-> reportNet[i].arg, st |-> "ok", out |-> out]
<1>1. /\ reportNet[i] # Free /\ reportNet[i].op \in {"reports", "jobs"} /\ reportNet[i].st = "sent"
      /\ reportNet' = Reply(reportNet, i, out) /\ reportPage' = reportPage
      /\ reports' = reports /\ jobs' = jobs /\ reportsMade' = reportsMade
  BY DEF ServeReports, ServeJobs, Sent, reportServer
<1>2. ASSUME reportPage.calm PROVE CalmTable' /\ IsNet(reportNet)'
  <2>0. CalmTable /\ IsNet(reportNet) /\ i \in Pending(reportNet)
    BY <1>1, <1>2 DEF ReportInd, Pending
  <2>1. reportNet' = Put(reportNet, i, c)
    BY <1>1, <2>0, Answering
  <2>2. /\ IsCall(c) /\ c # Free /\ c.op = reportNet[i].op /\ c.st = "ok"
        /\ c.out = (IF c.op = "reports" THEN reports ELSE [r \in ReportId |-> NewestRun(r)])
    BY DEF IsCall, Free
  <2> HIDE DEF c
  <2>3. /\ IsNet(reportNet)' /\ Pending(reportNet)' = Pending(reportNet) /\ reportNet'[i] = c
        /\ \A j \in Slot \ {i} : reportNet'[j] = reportNet[j]
    <3>1. IsNet(reportNet)'
      BY <2>0, <2>1, <2>2, PutIsNet
    <3> QED
      BY <2>0, <2>1, <2>2, <3>1 DEF Put, Pending
  <2>4. AllFollow([r \in ReportId |-> NewestRun(r)])
    BY <2>0 DEF AllFollow, Follows, CalmTable
  <2>5. ReportCallFits(c)
    BY <1>1, <2>0, <2>2, <2>4 DEF ReportCallFits
  <2>6. (KeepsRows(c) <=> KeepsRows(reportNet[i])) /\ (KeepsLatest(c) <=> KeepsLatest(reportNet[i]))
    BY <1>1, <2>2 DEF KeepsRows, KeepsLatest
  <2>7. \A k : ReportCallFits(k)' <=> ReportCallFits(k)
    BY <1>1, SameRuns DEF ReportCallFits
  <2>8. AllFollow(reportPage.latest)' <=> AllFollow(reportPage.latest)
    <3>1. \A r : NewestRun(r)' = NewestRun(r)
      BY <1>1 DEF NewestRun
    <3> QED
      BY <1>1, <3>1 DEF AllFollow, Follows
  <2>9. \A j \in Pending(reportNet) : /\ reportNet'[j].op = reportNet[j].op /\ ReportCallFits(reportNet'[j])
                                      /\ KeepsRows(reportNet'[j]) <=> KeepsRows(reportNet[j])
                                      /\ KeepsLatest(reportNet'[j]) <=> KeepsLatest(reportNet[j])
    BY <2>0, <2>2, <2>3, <2>5, <2>6 DEF CalmTable, Pending
  <2>10. /\ (\A j \in Pending(reportNet)' : KeepsRows(reportNet'[j])) => reportPage'.rows = reports'
         /\ (\A j \in Pending(reportNet)' : KeepsLatest(reportNet'[j])) => AllFollow(reportPage.latest)'
    BY <1>1, <2>0, <2>3, <2>8, <2>9 DEF CalmTable
  <2>11. \A j \in Pending(reportNet)' : ReportCallFits(reportNet[j])'
    BY <2>3, <2>7, <2>9
  <2>12. /\ (\A j \in Pending(reportNet) : KeepsRows(reportNet[j]))' <=> \A j \in Pending(reportNet)' : KeepsRows(reportNet'[j])
         /\ (\A j \in Pending(reportNet) : KeepsLatest(reportNet[j]))' <=> \A j \in Pending(reportNet)' : KeepsLatest(reportNet'[j])
    BY DEF KeepsRows, KeepsLatest
  <2>13. \A j, k \in Pending(reportNet)' : j = k \/ {reportNet'[j].op, reportNet'[k].op} = {"reports", "jobs"}
    BY <2>0, <2>3, <2>9, ZenonT(60) DEF CalmTable
  <2> QED
    BY <1>1, <2>0, <2>3, <2>10, <2>11, <2>12, <2>13 DEF CalmTable
<1> QED
  BY <1>1, <1>2, ServedPage

\* An answer to the only call in flight, whatever the server has done.
LEMMA AloneServed ==
    ASSUME CalmTable, IsNet(reportNet), NEW i \in Pending(reportNet), Pending(reportNet) = {i},
           NEW c, IsCall(c), c # Free, reportNet' = Put(reportNet, i, c),
           reportPage' = reportPage, reportsMade' \in 1..MaxReports, \A r \in reports' : r.id \in ReportId,
           jobs' \in Seq(JobRow), ReportCallFits(c)',
           KeepsRows(c) => reportPage.rows = reports',
           KeepsLatest(c) => \A r \in reports' : Follows(reportPage.latest[r.id], r.id)'
    PROVE  CalmTable' /\ IsNet(reportNet)'
<1>1. IsNet(reportNet)' /\ Pending(reportNet)' = {i} /\ reportNet'[i] = c
  <2>1. IsNet(reportNet)'
    BY PutIsNet
  <2> QED
    BY <2>1 DEF Put, Pending
<1>2. KeepsLatest(c) => AllFollow(reportPage.latest)'
  BY DEF CalmTable, AllFollow
<1>3. DOMAIN reportPage'.latest = ReportId
  BY DEF CalmTable
<1>4. /\ (\A j \in Pending(reportNet) : KeepsRows(reportNet[j]))' => KeepsRows(c)
      /\ (\A j \in Pending(reportNet) : KeepsLatest(reportNet[j]))' => KeepsLatest(c)
  BY <1>1 DEF KeepsRows, KeepsLatest
<1>5. \A j, k \in Pending(reportNet)' : j = k
  BY <1>1
<1>6. \A j \in Pending(reportNet)' : ReportCallFits(reportNet[j])'
  BY <1>1
<1> QED
  BY <1>1, <1>2, <1>3, <1>4, <1>5, <1>6 DEF CalmTable, JobRow

\* What is known before the only call in flight, which was just sent, is served.
LEMMA SentAlone ==
    ASSUME ReportInd, reportPage.calm, NEW i \in Slot, NEW op \in {"run", "drop", "create", "save"}, Sent(reportNet, i, op)
    PROVE  /\ CalmTable /\ IsNet(reportNet) /\ i \in Pending(reportNet) /\ Pending(reportNet) = {i}
           /\ reportNet[i] # Free /\ ReportCallFits(reportNet[i])
           /\ reportPage.rows = reports /\ AllFollow(reportPage.latest) /\ jobs \in Seq(JobRow)
           /\ reportsMade \in 1..MaxReports /\ \A r \in reports : r.id \in ReportId
<1>1. CalmTable /\ IsNet(reportNet) /\ i \in Pending(reportNet) /\ reportNet[i] # Free
  BY DEF ReportInd, Sent, Pending
<1>2. Pending(reportNet) = {i}
  BY <1>1, Alone DEF Sent
<1>3. KeepsRows(reportNet[i]) /\ KeepsLatest(reportNet[i])
  BY DEF Sent, KeepsRows, KeepsLatest
<1> QED
  BY <1>1, <1>2, <1>3 DEF CalmTable, JobRow

\* The call that takes the place of one that is served, or refused.
LEMMA Replied ==
    ASSUME NEW i \in Slot, IsNet(reportNet), reportNet[i] # Free, NEW out, reportNet' = Reply(reportNet, i, out)
    PROVE  \E c : /\ reportNet' = Put(reportNet, i, c) /\ IsCall(c) /\ c # Free
                  /\ c.op = reportNet[i].op /\ c.arg = reportNet[i].arg /\ c.st = "ok" /\ c.out = out
<1> DEFINE c == [op |-> reportNet[i].op, arg |-> reportNet[i].arg, st |-> "ok", out |-> out]
<1>1. /\ IsCall(c) /\ c # Free
      /\ c.op = reportNet[i].op /\ c.arg = reportNet[i].arg /\ c.st = "ok" /\ c.out = out
  BY DEF IsCall, Free
<1>2. reportNet' = Put(reportNet, i, c)
  BY Answering
<1> HIDE DEF c
<1> QED
  BY <1>1, <1>2

LEMMA Refused ==
    ASSUME NEW i \in Slot, IsNet(reportNet), reportNet[i] # Free, reportNet' = Fail(reportNet, i)
    PROVE  \E c : /\ reportNet' = Put(reportNet, i, c) /\ IsCall(c) /\ c # Free
                  /\ c.op = reportNet[i].op /\ c.arg = reportNet[i].arg /\ c.st = "err"
<1> DEFINE c == [op |-> reportNet[i].op, arg |-> reportNet[i].arg, st |-> "err", out |-> reportNet[i].out]
<1>1. /\ IsCall(c) /\ c # Free
      /\ c.op = reportNet[i].op /\ c.arg = reportNet[i].arg /\ c.st = "err"
  BY DEF IsCall, Free
<1>2. reportNet' = Put(reportNet, i, c)
  BY Answering
<1> HIDE DEF c
<1> QED
  BY <1>1, <1>2

\* What is known is kept up with a run that is added by putting it there.
LEMMA AddedFollows ==
    ASSUME jobs \in Seq(JobRow), NEW CONSTANT c, c.arg \in ReportId, jobs' = Append(jobs, Job(c.arg)),
           reports' = reports, reportPage' = reportPage,
           AllFollow(reportPage.latest), \A r \in reports : r.id \in ReportId,
           c.out = [id |-> Len(jobs) + 1, st |-> "pending"]
    PROVE  AllFollow([reportPage.latest EXCEPT ![c.arg] = c.out])'
<1> DEFINE known == [reportPage.latest EXCEPT ![c.arg] = c.out]
<1>1. NewestRun(c.arg)' = c.out /\ \A r : r # c.arg => NewestRun(r)' = NewestRun(r)
  BY AddedRun
<1>2. /\ DOMAIN known = ReportId /\ known[c.arg] = c.out /\ known' = known
      /\ \A r \in ReportId : r # c.arg => known[r] = reportPage.latest[r]
  BY DEF AllFollow
<1> HIDE DEF known
<1>3. ASSUME NEW CONSTANT r \in reports PROVE Follows(known[r.id], r.id)'
  <2>1. CASE r.id = c.arg
    BY <1>1, <1>2, <2>1 DEF Follows
  <2>2. CASE r.id # c.arg
    <3>1. /\ known[r.id] = reportPage.latest[r.id] /\ NewestRun(r.id)' = NewestRun(r.id)
          /\ Follows(reportPage.latest[r.id], r.id)
      BY <1>1, <1>2, <2>2 DEF AllFollow
    <3> QED
      BY <1>2, <3>1 DEF Follows
  <2> QED
    BY <2>1, <2>2
<1>4. AllFollow(known)' <=> DOMAIN known' = ReportId /\ \A r \in reports' : Follows(known[r.id], r.id)'
  BY DEF AllFollow
<1>5. AllFollow(known)'
  BY <1>2, <1>3, <1>4
<1> QED
  BY <1>5 DEF known

\* run_report_now: the run that is queued is the newest of its report.
LEMMA RunServed ==
    ASSUME ReportInd, NEW i \in Slot, ServeRun(i)
    PROVE  ReportInd'
<1>1. /\ reportPage' = reportPage /\ reports' = reports /\ reportsMade' = reportsMade /\ Sent(reportNet, i, "run")
  BY DEF ServeRun
<1>2. ASSUME reportPage.calm PROVE CalmTable' /\ IsNet(reportNet)'
  <2> DEFINE id == reportNet[i].arg
  <2>0. /\ CalmTable /\ IsNet(reportNet) /\ i \in Pending(reportNet) /\ Pending(reportNet) = {i}
        /\ reportNet[i] # Free /\ id \in ReportId /\ DOMAIN reportPage.latest = ReportId
        /\ reportPage.rows = reports /\ AllFollow(reportPage.latest) /\ jobs \in Seq(JobRow)
        /\ reportsMade \in 1..MaxReports /\ \A r \in reports : r.id \in ReportId
    BY <1>1, <1>2, SentAlone DEF ReportCallFits, Sent, AllFollow
  <2>1. CASE ActiveJobs(id) # {} \/ id \notin {p.id : p \in reports}
    <3>1. reportNet' = Fail(reportNet, i) /\ jobs' = jobs
      BY <2>1 DEF ServeRun
    <3>2. PICK c : /\ reportNet' = Put(reportNet, i, c) /\ IsCall(c) /\ c # Free
                   /\ c.op = "run" /\ c.arg = id /\ c.st = "err"
      BY <1>1, <2>0, <3>1, Refused DEF Sent
    <3>3. ReportCallFits(c)'
      BY <2>0, <3>2 DEF ReportCallFits
    <3>4. \A r \in reports' : Follows(reportPage.latest[r.id], r.id)'
      <4>1. \A r : NewestRun(r)' = NewestRun(r)
        BY <3>1 DEF NewestRun
      <4> QED
        BY <1>1, <2>0, <4>1 DEF AllFollow, Follows
    <3> QED
      BY <1>1, <2>0, <3>1, <3>2, <3>3, <3>4, AloneServed
  <2>2. CASE ~(ActiveJobs(id) # {} \/ id \notin {p.id : p \in reports})
    <3> DEFINE out == [id |-> Len(jobs) + 1, st |-> "pending"]
    <3>1. reportNet' = Reply(reportNet, i, out) /\ jobs' = Append(jobs, Job(id))
      BY <2>2 DEF ServeRun
    <3>2. PICK c : /\ reportNet' = Put(reportNet, i, c) /\ IsCall(c) /\ c # Free
                   /\ c.op = "run" /\ c.arg = id /\ c.st = "ok" /\ c.out = out
      <4> HIDE DEF out
      <4> QED
        BY <1>1, <2>0, <3>1, Replied DEF Sent
    <3> HIDE DEF id
    <3>3. jobs' \in Seq(JobRow)
      BY <2>0, <3>1, AddedRun
    <3>4. AllFollow([reportPage.latest EXCEPT ![c.arg] = c.out])'
      BY <1>1, <2>0, <3>1, <3>2, AddedFollows
    <3>5. ReportCallFits(c)'
      BY <1>1, <2>0, <3>2, <3>4 DEF ReportCallFits
    <3>6. ~KeepsLatest(c)
      BY <3>2 DEF KeepsLatest
    <3> QED
      BY <1>1, <2>0, <3>2, <3>3, <3>5, <3>6, AloneServed
  <2> QED
    BY <2>1, <2>2
<1> QED
  BY <1>1, <1>2, ServedPage

\* delete_report: the row goes, its runs are cut off.
LEMMA DropServed ==
    ASSUME ReportInd, NEW i \in Slot, ServeDropReport(i)
    PROVE  ReportInd'
<1> DEFINE id == reportNet[i].arg
           row == {r \in reports : r.id = id}
<1>1. /\ reportPage' = reportPage /\ reports' = reports \ row /\ reportsMade' = reportsMade /\ Sent(reportNet, i, "drop")
      /\ jobs' = IF row = {} THEN jobs
                 ELSE [k \in DOMAIN jobs |-> IF jobs[k].report = id THEN [jobs[k] EXCEPT !.report = None] ELSE jobs[k]]
      /\ reportNet' = IF row = {} THEN Fail(reportNet, i) ELSE Reply(reportNet, i, None)
  BY DEF ServeDropReport
<1>2. ASSUME reportPage.calm PROVE CalmTable' /\ IsNet(reportNet)'
  <2>0. /\ CalmTable /\ IsNet(reportNet) /\ i \in Pending(reportNet) /\ Pending(reportNet) = {i}
        /\ reportNet[i] # Free /\ DOMAIN reportPage.latest = ReportId
        /\ reportPage.rows = reports /\ AllFollow(reportPage.latest) /\ jobs \in Seq(JobRow)
        /\ reportsMade \in 1..MaxReports /\ \A r \in reports : r.id \in ReportId
    BY <1>1, <1>2, SentAlone DEF AllFollow
  <2>1. PICK c : /\ reportNet' = Put(reportNet, i, c) /\ IsCall(c) /\ c # Free
                 /\ c.op = "drop" /\ c.arg = id /\ c.st = (IF row = {} THEN "err" ELSE "ok")
    <3> HIDE DEF row
    <3>1. CASE row = {}
      BY <1>1, <2>0, <3>1, Refused DEF Sent
    <3>2. CASE row # {}
      BY <1>1, <2>0, <3>2, Replied DEF Sent
    <3> QED
      BY <3>1, <3>2
  <2>2. jobs' \in Seq(JobRow) /\ \A r \in ReportId : r # id \/ row = {} => NewestRun(r)' = NewestRun(r)
    <3>1. CASE row = {}
      BY <1>1, <2>0, <3>1 DEF NewestRun
    <3>2. CASE row # {}
      <4> HIDE DEF id, row
      <4> QED
        BY <1>1, <2>0, <3>2, CutRuns
    <3> QED
      BY <3>1, <3>2
  <2>3. \A r \in reports' : r \in reports /\ r.id \in ReportId /\ (r.id # id \/ row = {})
    BY <1>1, <2>0
  <2>4. \A r \in reports' : Follows(reportPage.latest[r.id], r.id)'
    <3> HIDE DEF id, row
    <3> QED
      BY <1>1, <2>0, <2>2, <2>3 DEF AllFollow, Follows
  <2>5. ReportCallFits(c)'
    BY <1>1, <2>0, <2>1 DEF ReportCallFits
  <2>6. KeepsRows(c) => reportPage.rows = reports'
    BY <1>1, <2>0, <2>1 DEF KeepsRows
  <2> HIDE DEF id, row
  <2> QED
    BY <1>1, <2>0, <2>1, <2>2, <2>3, <2>4, <2>5, <2>6, AloneServed
<1> QED
  BY <1>1, <1>2, ServedPage

\* create_report and update_report.
LEMMA SaveServed ==
    ASSUME ReportInd, NEW i \in Slot, ServeCreateReport(i) \/ ServeSaveReport(i)
    PROVE  ReportInd'
<1> DEFINE arg == reportNet[i].arg
           row == {r \in reports : r.id = arg.id}
<1>1. ASSUME ServeCreateReport(i), reportPage.calm PROVE CalmTable' /\ IsNet(reportNet)'
  <2>0. /\ CalmTable /\ IsNet(reportNet) /\ i \in Pending(reportNet) /\ Pending(reportNet) = {i}
        /\ reportNet[i] # Free /\ reportsMade < MaxReports /\ jobs \in Seq(JobRow)
        /\ reportsMade \in 1..MaxReports /\ \A r \in reports : r.id \in ReportId
    BY <1>1, SentAlone DEF ServeCreateReport, ReportCallFits, Sent
  <2>1. /\ reportPage' = reportPage /\ jobs' = jobs /\ reportsMade' = reportsMade + 1
        /\ reports' = reports \cup {[id |-> reportsMade + 1, body |-> arg.body]}
        /\ reportNet' = Reply(reportNet, i, None) /\ Sent(reportNet, i, "create")
    BY <1>1 DEF ServeCreateReport
  <2>2. PICK c : /\ reportNet' = Put(reportNet, i, c) /\ IsCall(c) /\ c # Free /\ c.op = "create" /\ c.st = "ok"
    BY <2>0, <2>1, Replied DEF Sent
  <2>3. ReportCallFits(c)' /\ ~KeepsRows(c) /\ ~KeepsLatest(c)
    BY <2>2 DEF ReportCallFits, KeepsRows, KeepsLatest
  <2>4. reportsMade' \in 1..MaxReports /\ \A r \in reports' : r.id \in ReportId
    BY <2>0, <2>1, ReportsAssumption DEF ReportId
  <2> QED
    BY <2>0, <2>1, <2>2, <2>3, <2>4, AloneServed
<1>2. ASSUME ServeSaveReport(i), reportPage.calm PROVE CalmTable' /\ IsNet(reportNet)'
  <2>0. /\ CalmTable /\ IsNet(reportNet) /\ i \in Pending(reportNet) /\ Pending(reportNet) = {i}
        /\ reportNet[i] # Free /\ jobs \in Seq(JobRow) /\ reportPage.rows = reports /\ AllFollow(reportPage.latest)
        /\ reportsMade \in 1..MaxReports /\ \A r \in reports : r.id \in ReportId
    BY <1>2, SentAlone DEF ServeSaveReport
  <2>1. /\ reportPage' = reportPage /\ jobs' = jobs /\ reportsMade' = reportsMade /\ Sent(reportNet, i, "save")
        /\ reports' = IF row = {} THEN reports ELSE (reports \ row) \cup {[id |-> arg.id, body |-> arg.body]}
        /\ reportNet' = IF row = {} THEN Fail(reportNet, i) ELSE Reply(reportNet, i, None)
    BY <1>2 DEF ServeSaveReport
  <2>2. PICK c : /\ reportNet' = Put(reportNet, i, c) /\ IsCall(c) /\ c # Free
                 /\ c.op = "save" /\ c.st = (IF row = {} THEN "err" ELSE "ok")
    <3> HIDE DEF row
    <3>1. CASE row = {}
      BY <2>0, <2>1, <3>1, Refused DEF Sent
    <3>2. CASE row # {}
      BY <2>0, <2>1, <3>2, Replied DEF Sent
    <3> QED
      BY <3>1, <3>2
  <2>3. ReportCallFits(c)' /\ (row # {} => ~KeepsRows(c) /\ ~KeepsLatest(c))
    BY <2>2 DEF ReportCallFits, KeepsRows, KeepsLatest
  <2>4. \A r \in reports' : r.id \in ReportId
    <3>1. row # {} => arg.id \in ReportId
      BY <2>0
    <3> QED
      BY <2>0, <2>1, <3>1
  <2>5. row = {} => \A r \in reports' : Follows(reportPage.latest[r.id], r.id)'
    <3>1. row = {} => reports' = reports /\ \A r : NewestRun(r)' = NewestRun(r)
      BY <2>1 DEF NewestRun
    <3> HIDE DEF row
    <3> QED
      BY <2>0, <2>1, <3>1 DEF AllFollow, Follows
  <2> HIDE DEF row, arg
  <2> QED
    BY <2>0, <2>1, <2>2, <2>3, <2>4, <2>5, AloneServed
<1>3. reportPage' = reportPage
  BY DEF ServeCreateReport, ServeSaveReport
<1> QED
  BY <1>1, <1>2, <1>3, ServedPage

-----------------------------------------------------------------------------
(* The answers are handled *)

\* What has to be seen to when the handler of a call has nothing more to ask.
LEMMA Handled ==
    ASSUME CalmTable, IsNet(reportNet), NEW i \in Pending(reportNet), reportNet' = Done(reportNet, i),
           UNCHANGED reportServer, DOMAIN reportPage'.latest = ReportId,
           \A j \in Pending(reportNet) \ {i} : ReportCallFits(reportNet[j])',
           (\A j \in Pending(reportNet) \ {i} : KeepsRows(reportNet[j])) => reportPage'.rows = reports,
           (\A j \in Pending(reportNet) \ {i} : KeepsLatest(reportNet[j])) => AllFollow(reportPage'.latest)
    PROVE  CalmTable' /\ IsNet(reportNet)'
<1>1. i \in Slot /\ reportNet' = Put(reportNet, i, Free)
  BY Ending DEF Pending
<1>2. /\ IsNet(reportNet)' /\ Pending(reportNet)' = Pending(reportNet) \ {i}
      /\ \A j \in Slot \ {i} : reportNet'[j] = reportNet[j]
  <2>1. IsNet(reportNet)'
    BY <1>1, PutIsNet
  <2> QED
    BY <1>1, <2>1 DEF Put, Pending
<1>3. Pending(reportNet)' \subseteq Slot \ {i}
  BY <1>2 DEF Pending
<1>4. reports' = reports /\ jobs' = jobs /\ reportsMade' = reportsMade
  BY DEF reportServer
<1>5. AllFollow(reportPage.latest)' <=> AllFollow(reportPage'.latest)
  <2>1. \A r : NewestRun(r)' = NewestRun(r)
    BY <1>4 DEF NewestRun
  <2> QED
    BY <1>4, <2>1 DEF AllFollow, Follows
<1>6. \A j \in Pending(reportNet)' : /\ KeepsRows(reportNet[j])' <=> KeepsRows(reportNet[j])
                                     /\ KeepsLatest(reportNet[j])' <=> KeepsLatest(reportNet[j])
  BY <1>2, <1>3 DEF KeepsRows, KeepsLatest
<1>7. \A j, k \in Pending(reportNet)' : j = k \/ {reportNet'[j].op, reportNet'[k].op} = {"reports", "jobs"}
  <2>1. \A j \in Pending(reportNet)' : j \in Pending(reportNet) /\ reportNet'[j] = reportNet[j]
    BY <1>2, <1>3
  <2>2. \A j, k \in Pending(reportNet) : j = k \/ {reportNet[j].op, reportNet[k].op} = {"reports", "jobs"}
    BY DEF CalmTable
  <2> QED
    BY <2>1, <2>2
<1>8. /\ (\A j \in Pending(reportNet) : KeepsRows(reportNet[j]))' => reportPage'.rows = reports'
      /\ (\A j \in Pending(reportNet) : KeepsLatest(reportNet[j]))' => AllFollow(reportPage.latest)'
  BY <1>2, <1>4, <1>5, <1>6
<1>9. \A j \in Pending(reportNet)' : ReportCallFits(reportNet[j])'
  BY <1>2
<1> QED
  BY <1>2, <1>4, <1>7, <1>8, <1>9 DEF CalmTable

\* The answer that is handled, and the other one there may be.
LEMMA CallsThere ==
    ASSUME ReportInd, reportPage.calm, NEW i \in Slot, reportNet[i] # Free
    PROVE  CalmTable /\ IsNet(reportNet) /\ i \in Pending(reportNet) /\ ReportCallFits(reportNet[i])
  BY DEF ReportInd, CalmTable, Pending

\* What an answer on its way brings does not change with the rows or what is known,
\* but for the answers to runs and deletions.
LEMMA ListFits ==
    ASSUME UNCHANGED reportServer, NEW CONSTANT c, c.op \in {"reports", "jobs"}, ReportCallFits(c)
    PROVE  ReportCallFits(c)'
<1>1. reports' = reports /\ jobs' = jobs /\ reportsMade' = reportsMade
  BY DEF reportServer
<1>2. \A known : AllFollow(known)' <=> AllFollow(known)
  BY <1>1, SameRuns
<1> QED
  BY <1>1, <1>2 DEF ReportCallFits

\* loadReports.
LEMMA ReportsWereRead ==
    ASSUME ReportInd, NEW i \in Slot, ReportsRead(i)
    PROVE  ReportInd'
<1>1. /\ reportNet[i] # Free /\ reportNet[i].op = "reports" /\ reportNet[i].st \in {"ok", "err"}
      /\ reportNet' = Done(reportNet, i) /\ UNCHANGED reportServer
  BY DEF ReportsRead, Settled, Ok, Err
<1>2. CASE reportNet[i].st = "ok"
  <2>1. reportPage' = [reportPage EXCEPT !.rows = reportNet[i].out, !.loading = FALSE]
    BY <1>1, <1>2 DEF ReportsRead, Ok
  <2>2. /\ ReportTab' /\ reportPage'.calm = reportPage.calm
        /\ reportPage'.rows = reportNet[i].out /\ reportPage'.latest = reportPage.latest
    BY <2>1 DEF ReportInd, ReportTab
  <2>3. ASSUME reportPage.calm PROVE CalmTable' /\ IsNet(reportNet)'
    <3>1. CalmTable /\ IsNet(reportNet) /\ i \in Pending(reportNet) /\ ReportCallFits(reportNet[i])
      BY <1>1, <2>3, CallsThere
    <3>2. \A j \in Pending(reportNet) \ {i} : reportNet[j].op = "jobs" /\ ReportCallFits(reportNet[j])
      BY <1>1, <3>1, TheOther DEF CalmTable
    <3>3. \A j \in Pending(reportNet) \ {i} : ReportCallFits(reportNet[j])'
      <4> SUFFICES ASSUME NEW j \in Pending(reportNet) \ {i} PROVE ReportCallFits(reportNet[j])'
        OBVIOUS
      <4>1. reportNet'[j] = reportNet[j]
        BY <1>1, <3>1 DEF Done, IsNet, Pending
      <4> QED
        BY <1>1, <3>2, <4>1, ListFits
    <3>4. reportPage'.rows = reports
      BY <1>1, <1>2, <2>2, <3>1 DEF ReportCallFits
    <3>5. (\A j \in Pending(reportNet) \ {i} : KeepsLatest(reportNet[j])) => AllFollow(reportPage'.latest)
      <4>1. KeepsLatest(reportNet[i])
        BY <1>1 DEF KeepsLatest
      <4> QED
        BY <2>2, <3>1, <4>1 DEF CalmTable
    <3>6. DOMAIN reportPage'.latest = ReportId
      BY <2>2, <3>1 DEF CalmTable
    <3> QED
      BY <1>1, <3>1, <3>3, <3>4, <3>5, <3>6, Handled
  <2> QED
    BY <2>2, <2>3 DEF ReportInd
<1>3. CASE reportNet[i].st = "err"
  <2>1. reportPage' = [reportPage EXCEPT !.loading = FALSE, !.calm = FALSE]
    BY <1>1, <1>3 DEF ReportsRead, Ok
  <2> QED
    BY <2>1 DEF ReportInd, ReportTab
<1> QED
  BY <1>1, <1>2, <1>3

\* loadLatestRuns.
LEMMA JobsWereRead ==
    ASSUME ReportInd, NEW i \in Slot, JobsRead(i)
    PROVE  ReportInd'
<1>1. /\ reportNet[i] # Free /\ reportNet[i].op = "jobs" /\ reportNet[i].st \in {"ok", "err"}
      /\ reportNet' = Done(reportNet, i) /\ UNCHANGED reportServer
  BY DEF JobsRead, Settled, Ok, Err
<1>2. CASE reportNet[i].st = "ok"
  <2>1. reportPage' = [reportPage EXCEPT !.latest = reportNet[i].out]
    BY <1>1, <1>2 DEF JobsRead, Ok
  <2>2. /\ ReportTab' /\ reportPage'.calm = reportPage.calm
        /\ reportPage'.latest = reportNet[i].out /\ reportPage'.rows = reportPage.rows
    BY <2>1 DEF ReportInd, ReportTab
  <2>3. ASSUME reportPage.calm PROVE CalmTable' /\ IsNet(reportNet)'
    <3>1. CalmTable /\ IsNet(reportNet) /\ i \in Pending(reportNet) /\ ReportCallFits(reportNet[i])
      BY <1>1, <2>3, CallsThere
    <3>2. \A j \in Pending(reportNet) \ {i} : reportNet[j].op = "reports" /\ ReportCallFits(reportNet[j])
      BY <1>1, <3>1, TheOther DEF CalmTable
    <3>3. \A j \in Pending(reportNet) \ {i} : ReportCallFits(reportNet[j])'
      <4> SUFFICES ASSUME NEW j \in Pending(reportNet) \ {i} PROVE ReportCallFits(reportNet[j])'
        OBVIOUS
      <4>1. reportNet'[j] = reportNet[j]
        BY <1>1, <3>1 DEF Done, IsNet, Pending
      <4> QED
        BY <1>1, <3>2, <4>1, ListFits
    <3>4. AllFollow(reportPage'.latest) /\ DOMAIN reportPage'.latest = ReportId
      BY <1>1, <1>2, <2>2, <3>1 DEF ReportCallFits, AllFollow
    <3>5. (\A j \in Pending(reportNet) \ {i} : KeepsRows(reportNet[j])) => reportPage'.rows = reports
      <4>1. KeepsRows(reportNet[i])
        BY <1>1 DEF KeepsRows
      <4> QED
        BY <2>2, <3>1, <4>1 DEF CalmTable
    <3> QED
      BY <1>1, <3>1, <3>3, <3>4, <3>5, Handled
  <2> QED
    BY <2>2, <2>3 DEF ReportInd
<1>3. CASE reportNet[i].st = "err"
  <2>1. reportPage' = [reportPage EXCEPT !.calm = FALSE]
    BY <1>1, <1>3 DEF JobsRead, Ok
  <2> QED
    BY <2>1 DEF ReportInd, ReportTab
<1> QED
  BY <1>1, <1>2, <1>3

\* handleRun's answer: the run is put in the row.
LEMMA RunWasStarted ==
    ASSUME ReportInd, NEW i \in Slot, RunStarted(i)
    PROVE  ReportInd'
<1> DEFINE p == [reportPage EXCEPT !.busy = None]
           id == reportNet[i].arg
<1>1. /\ reportNet[i] # Free /\ reportNet[i].op = "run" /\ reportNet[i].st \in {"ok", "err"}
      /\ reportNet' = Done(reportNet, i) /\ UNCHANGED reportServer
      /\ reportPage' = IF reportNet[i].st = "ok" THEN [p EXCEPT !.latest[id] = reportNet[i].out] ELSE p
  BY DEF RunStarted, Settled, Ok, Err
<1>2. /\ DOMAIN p = DOMAIN reportPage /\ p.rows = reportPage.rows /\ p.latest = reportPage.latest
      /\ p.calm = reportPage.calm /\ p.clicks = reportPage.clicks
  BY DEF ReportInd, ReportTab
<1> HIDE DEF p
<1>3. /\ DOMAIN reportPage' = DOMAIN reportPage /\ reportPage'.rows = reportPage.rows
      /\ reportPage'.calm = reportPage.calm /\ reportPage'.clicks = reportPage.clicks
      /\ reportPage'.latest = IF reportNet[i].st = "ok" THEN [reportPage.latest EXCEPT ![id] = reportNet[i].out]
                              ELSE reportPage.latest
  <2>1. {"rows", "latest", "loading", "busy", "dialog", "fails", "clicks", "calm"} \subseteq DOMAIN p
    BY <1>2 DEF ReportInd, ReportTab
  <2> HIDE DEF id
  <2>2. CASE reportNet[i].st = "ok"
    <3>1. reportPage' = [p EXCEPT !.latest[id] = reportNet[i].out]
      BY <1>1, <2>2
    <3>2. /\ DOMAIN reportPage' = DOMAIN p /\ reportPage'.rows = p.rows /\ reportPage'.calm = p.calm
          /\ reportPage'.clicks = p.clicks /\ reportPage'.latest = [p.latest EXCEPT ![id] = reportNet[i].out]
      BY <2>1, <3>1
    <3> QED
      BY <1>2, <2>2, <3>2
  <2>3. CASE reportNet[i].st # "ok"
    BY <1>1, <1>2, <2>3
  <2> QED
    BY <2>2, <2>3
<1>4. ASSUME reportPage.calm PROVE CalmTable' /\ IsNet(reportNet)'
  <2>1. CalmTable /\ IsNet(reportNet) /\ i \in Pending(reportNet) /\ ReportCallFits(reportNet[i])
    BY <1>1, <1>4, CallsThere
  <2>2. Pending(reportNet) = {i} /\ Pending(reportNet) \ {i} = {}
    BY <1>1, <2>1, Alone
  <2>3. reportPage'.rows = reports
    BY <1>1, <1>3, <2>1, <2>2 DEF CalmTable, KeepsRows
  <2>4. AllFollow(reportPage'.latest) /\ DOMAIN reportPage'.latest = ReportId
    <3>1. CASE reportNet[i].st = "ok"
      BY <1>1, <1>3, <2>1, <3>1 DEF ReportCallFits, AllFollow
    <3>2. CASE reportNet[i].st = "err"
      BY <1>1, <1>3, <2>1, <2>2, <3>2 DEF CalmTable, KeepsLatest
    <3> QED
      BY <1>1, <3>1, <3>2
  <2> QED
    BY <1>1, <2>1, <2>2, <2>3, <2>4, Handled
<1> QED
  BY <1>3, <1>4 DEF ReportInd, ReportTab

\* handleDelete's answer: the row goes.
LEMMA ReportWasDropped ==
    ASSUME ReportInd, NEW i \in Slot, ReportDropped(i)
    PROVE  ReportInd'
<1> DEFINE rest == {r \in reportPage.rows : r.id # reportNet[i].arg}
<1>1. /\ reportNet[i] # Free /\ reportNet[i].op = "drop" /\ reportNet[i].st \in {"ok", "err"}
      /\ reportNet' = Done(reportNet, i) /\ UNCHANGED reportServer
      /\ reportPage' = IF reportNet[i].st = "ok" THEN [reportPage EXCEPT !.rows = rest] ELSE reportPage
  BY DEF ReportDropped, Settled, Ok, Err
<1>2. /\ ReportTab' /\ reportPage'.latest = reportPage.latest /\ reportPage'.calm = reportPage.calm
      /\ reportPage'.rows = IF reportNet[i].st = "ok" THEN rest ELSE reportPage.rows
  <2> HIDE DEF rest
  <2> QED
    BY <1>1 DEF ReportInd, ReportTab
<1>3. ASSUME reportPage.calm PROVE CalmTable' /\ IsNet(reportNet)'
  <2>1. CalmTable /\ IsNet(reportNet) /\ i \in Pending(reportNet) /\ ReportCallFits(reportNet[i])
    BY <1>1, <1>3, CallsThere
  <2>2. Pending(reportNet) = {i} /\ Pending(reportNet) \ {i} = {}
    BY <1>1, <2>1, Alone
  <2>3. AllFollow(reportPage'.latest) /\ DOMAIN reportPage'.latest = ReportId
    BY <1>1, <1>2, <2>1, <2>2 DEF CalmTable, KeepsLatest
  <2>4. reportPage'.rows = reports
    <3>1. CASE reportNet[i].st = "ok"
      BY <1>1, <1>2, <2>1, <3>1 DEF ReportCallFits
    <3>2. CASE reportNet[i].st = "err"
      BY <1>1, <1>2, <2>1, <2>2, <3>2 DEF CalmTable, KeepsRows
    <3> QED
      BY <1>1, <3>1, <3>2
  <2> QED
    BY <1>1, <2>1, <2>2, <2>3, <2>4, Handled
<1> QED
  BY <1>2, <1>3 DEF ReportInd

\* With nothing else in flight, both lists are on their way.
LEMMA BothAsked ==
    ASSUME CalmTable, UNCHANGED reportServer, NEW net, IsNet(net), Pending(net) = {}, reportNet' = LoadReports(net),
           DOMAIN reportPage'.latest = ReportId
    PROVE  CalmTable' /\ IsNet(reportNet)'
<1>1. Room(net, 2)
  BY AllFree, ReportsAssumption
<1>2. PICK i, j \in Slot \ Pending(net) :
         i # j /\ reportNet' = Put(Put(net, i, Call("reports", None)), j, Call("jobs", None))
  BY <1>1, BothSent
<1>3. /\ IsNet(reportNet)' /\ Pending(reportNet)' = {i, j}
      /\ reportNet'[i] = Call("reports", None) /\ reportNet'[j] = Call("jobs", None)
  <2>1. IsNet(reportNet)'
    BY <1>2, PutIsNet, CallIsCall
  <2>2. Call("reports", None) # Free /\ Call("jobs", None) # Free
    BY CallIsCall
  <2> QED
    BY <1>2, <2>1, <2>2 DEF Put, Pending
<1>4. \A k \in {i, j} : ReportCallFits(reportNet[k])'
  BY <1>3 DEF ReportCallFits, Call
<1>5. ~KeepsRows(reportNet[i])' /\ ~KeepsLatest(reportNet[j])'
      /\ reportNet'[i].op = "reports" /\ reportNet'[j].op = "jobs"
  BY <1>3 DEF KeepsRows, KeepsLatest, Call
<1>6. reports' = reports /\ jobs' = jobs /\ reportsMade' = reportsMade
  BY DEF reportServer
<1> QED
  BY <1>3, <1>4, <1>5, <1>6 DEF CalmTable

\* onSaved: the lists are read again; a failure frees the dialog.
LEMMA ReportWasSaved ==
    ASSUME ReportInd, NEW i \in Slot, ReportSaved(i)
    PROVE  ReportInd'
<1>1. /\ reportNet[i] # Free /\ reportNet[i].op \in {"create", "save"} /\ UNCHANGED reportServer
      /\ \/ reportNet[i].st = "ok" /\ reportNet' = LoadReports(Done(reportNet, i))
         \/ reportNet[i].st = "err" /\ reportNet' = Done(reportNet, i)
  BY DEF ReportSaved, Ok, Err
<1>2. /\ ReportTab' /\ reportPage'.latest = reportPage.latest /\ reportPage'.calm = reportPage.calm
      /\ reportPage'.rows = reportPage.rows
  BY DEF ReportSaved, ReportInd, ReportTab
<1>3. ASSUME reportPage.calm PROVE CalmTable' /\ IsNet(reportNet)'
  <2>1. CalmTable /\ IsNet(reportNet) /\ i \in Pending(reportNet) /\ ReportCallFits(reportNet[i])
    BY <1>1, <1>3, CallsThere
  <2>2. Pending(reportNet) = {i} /\ Pending(reportNet) \ {i} = {} /\ DOMAIN reportPage'.latest = ReportId
    <3>1. DOMAIN reportPage'.latest = ReportId
      BY <1>2, <2>1 DEF CalmTable
    <3> QED
      BY <1>1, <2>1, <3>1, Alone
  <2>3. CASE reportNet[i].st = "ok"
    <3>1. IsNet(Done(reportNet, i)) /\ Pending(Done(reportNet, i)) = {}
      <4>1. Done(reportNet, i) = Put(reportNet, i, Free)
        BY <2>1, Ending
      <4> QED
        BY <2>1, <2>2, <4>1, PutIsNet DEF Put, Pending
    <3> QED
      BY <1>1, <2>1, <2>2, <2>3, <3>1, BothAsked
  <2>4. CASE reportNet[i].st = "err"
    <3>1. reportPage'.rows = reports /\ AllFollow(reportPage'.latest)
      BY <1>1, <1>2, <2>1, <2>2, <2>4 DEF CalmTable, KeepsRows, KeepsLatest
    <3> QED
      BY <1>1, <2>1, <2>2, <2>4, <3>1, Handled
  <2> QED
    BY <1>1, <2>3, <2>4
<1> QED
  BY <1>2, <1>3 DEF ReportInd

-----------------------------------------------------------------------------
(* The theorem *)

LEMMA ReportStep == ReportInd /\ [ReportsNext]_reportVars => ReportInd'
<1> SUFFICES ASSUME ReportInd, [ReportsNext]_reportVars PROVE ReportInd'
  OBVIOUS
<1>1. CASE UNCHANGED reportVars
  BY <1>1, Undisturbed DEF reportVars, reportServer, ReportInd, ReportTab
<1>2. CASE \/ \E r \in reports : RunBySchedule(r)
           \/ \E k \in 1..MaxJobs : WorkRun(k)
           \/ Poll
  BY <1>2, ReportWorldStep
<1>3. CASE \/ \E r \in reportPage.rows : RunReport(r) \/ DropReport(r) \/ OpenReport(r)
           \/ OpenReport(None) \/ CloseReport
           \/ \E b \in ReportBody : SaveReport(b)
  BY <1>3, ReportUserStep
<1>4. CASE \E i \in Slot : ReportAnswers(i) \/ ReportCallFails(i)
  <2> SUFFICES ASSUME NEW i \in Slot, ReportAnswers(i) \/ ReportCallFails(i) PROVE ReportInd'
    BY <1>4
  <2>1. CASE ReportCallFails(i)
    BY <2>1, ReportFailStep
  <2>2. CASE ServeReports(i) \/ ServeJobs(i)
    BY <2>2, ListServed
  <2>3. CASE ServeRun(i)
    BY <2>3, RunServed
  <2>4. CASE ServeDropReport(i)
    BY <2>4, DropServed
  <2>5. CASE ServeCreateReport(i) \/ ServeSaveReport(i)
    BY <2>5, SaveServed
  <2>6. CASE ReportsRead(i)
    BY <2>6, ReportsWereRead
  <2>7. CASE JobsRead(i)
    BY <2>7, JobsWereRead
  <2>8. CASE RunStarted(i)
    BY <2>8, RunWasStarted
  <2>9. CASE ReportDropped(i)
    BY <2>9, ReportWasDropped
  <2>10. CASE ReportSaved(i)
    BY <2>10, ReportWasSaved
  <2> QED
    BY <2>1, <2>2, <2>3, <2>4, <2>5, <2>6, <2>7, <2>8, <2>9, <2>10 DEF ReportAnswers
<1> QED
  BY <1>1, <1>2, <1>3, <1>4 DEF ReportsNext

\* With nothing in flight, the table is as CalmTable says.
LEMMA ReportIndMatches == ReportInd => ReportsMatch
<1> SUFFICES ASSUME ReportInd, reportPage.calm, Quiet(reportNet),
                    \A r \in ReportId : ~InFlight(reportPage.latest[r])
             PROVE  reportPage.rows = reports /\ \A r \in reports : reportPage.latest[r.id] = NewestRun(r.id)
  BY DEF ReportsMatch
<1>1. CalmTable /\ Pending(reportNet) = {}
  BY DEF ReportInd, Quiet
<1>2. reportPage.rows = reports /\ AllFollow(reportPage.latest) /\ \A r \in reports : r.id \in ReportId
  BY <1>1 DEF CalmTable
<1> QED
  BY <1>2 DEF AllFollow, Follows

\* The table of the exports page, at rest and with no run in flight, shows the
\* reports there are and the newest run of each (ReportsTable.tsx, loadReports,
\* loadLatestRuns, handleRun, handleDelete and onSaved), however many reports,
\* runs and requests there are.
THEOREM ReportsAreShown == ReportsSpec => []ReportsMatch
<1>1. ReportsInit => ReportInd
  BY ReportsStart
<1>2. ReportInd /\ [ReportsNext]_reportVars => ReportInd'
  BY ReportStep
<1>3. ReportInd => ReportsMatch
  BY ReportIndMatches
<1> QED
  BY <1>1, <1>2, <1>3, PTL DEF ReportsSpec
===============================================================================
