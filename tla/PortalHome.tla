------------------------------- MODULE PortalHome ------------------------------
(***************************************************************************)
(* The home page of the portal (home/PortalHomeClient.tsx) and the user's  *)
(* favourites on the server (routers/favorites.py).  A resource may be on  *)
(* the page twice, as a card of the strip of favourites and in the grid or *)
(* the list below; each card waits for its own request only and the list   *)
(* waits for none.                                                         *)
(***************************************************************************)
EXTENDS Calls

CONSTANTS
    Resource,        \* what can be opened, by type: dashboards, pages, ...
    Kind,            \* the type of each
    MaxHomeClicks    \* bound: clicks of the user

VARIABLES
    favourites,    \* the server's favourites of the user
    home,          \* the React state of the page and of its cards
    homeNet        \* its requests

homeVars == <<favourites, home, homeNet>>

Kinds == {Kind[x] : x \in Resource}
Everywhere == "all"

\* A load is answered list by list: resources by type, and the favourites.
Unread == [k \in Kinds \cup {"favourites"} |-> None]

\* Sections are switched off by their features.
HomeInit ==
    /\ favourites \in SUBSET Resource
    /\ \E on \in SUBSET Kinds :
          home = [on |-> on, items |-> {}, favs |-> {}, loading |-> TRUE, filter |-> Everywhere, only |-> FALSE,
                  query |-> None, view |-> "card", busy |-> {}, clicks |-> 0, calm |-> TRUE]
    /\ homeNet = [Send(NoCalls, "load", None) EXCEPT ![1].out = Unread]

PressHome == home.clicks < MaxHomeClicks /\ ~home.loading /\ UNCHANGED favourites
StepHome == Pressed(home, TRUE)

-----------------------------------------------------------------------------
(* Loading *)

Answered(i, list, value) ==
    /\ Sent(homeNet, i, "load") /\ homeNet[i].out[list] = None
    /\ homeNet' = [homeNet EXCEPT ![i].out[list] = value]
    /\ UNCHANGED favourites

\* A section that is off is not asked for.
ServeSection(i, k) ==
    /\ Answered(i, k, IF k \in home.on THEN {x \in Resource : Kind[x] = k} ELSE {})
    /\ UNCHANGED home
ServeFavourites(i) == Answered(i, "favourites", favourites) /\ UNCHANGED home

\* Every list has its own catch, which makes it empty.
ListMissed(i, list) == Answered(i, list, {}) /\ home' = [home EXCEPT !.calm = FALSE]

HomeRead(i) ==
    /\ Sent(homeNet, i, "load")
    /\ \A list \in DOMAIN Unread : homeNet[i].out[list] # None
    /\ home' = [home EXCEPT !.items = UNION {homeNet[i].out[k] : k \in Kinds}, !.loading = FALSE,
                            !.favs = homeNet[i].out["favourites"]]
    /\ homeNet' = Done(homeNet, i)
    /\ UNCHANGED favourites

-----------------------------------------------------------------------------
(* What is shown *)

VisibleItems(ui) ==
    {x \in ui.items : /\ ui.filter \in {Everywhere, Kind[x]}
                      /\ ui.only => x \in ui.favs
                      /\ ui.query \in {None, x}}

Cards(at, items) == [at : {at}, of : items]

\* The stars on the page: of the strip, and of the grid or list.
Stars(ui) ==
    Cards("strip", ui.items \cap ui.favs)
    \cup Cards(IF ui.view = "card" THEN "grid" ELSE "list", VisibleItems(ui))

\* A card that leaves the page takes its wait with it: one that comes back later
\* is new.
OnPage(ui) == [ui EXCEPT !.busy = @ \cap Stars(ui)]

AvailableFilters == {Everywhere} \cup home.on

Show(changed) == PressHome /\ home' = OnPage(changed) /\ UNCHANGED homeNet

ChooseKind(k) == k \in AvailableFilters \ {home.filter} /\ Show([StepHome EXCEPT !.filter = k])

FavouritesOnly == Show([StepHome EXCEPT !.only = ~@])

\* A text that one resource matches, or none any more.
TypeQuery(q) == q # home.query /\ Show([StepHome EXCEPT !.query = q])

ChooseView(v) == v # home.view /\ Show([StepHome EXCEPT !.view = v])

-----------------------------------------------------------------------------
(* Favourites *)

\* toggleFavorite: what it asks for depends on what the page shows.  "calm" goes
\* when a star is clicked while a request for the same resource is in flight.
ToggleFavourite(star) ==
    /\ PressHome /\ Room(homeNet, 1) /\ star \in Stars(home) \ home.busy
    /\ home' = [Pressed(home, \A i \in Pending(homeNet) : homeNet[i].arg.of # star.of)
                  EXCEPT !.busy = IF star.at = "list" THEN @ ELSE @ \cup {star}]
    /\ homeNet' = Send(homeNet, IF star.of \in home.favs THEN "remove" ELSE "add", star)

\* add_favorite: 409 when it is one already; remove_favorite: 404 when it is not.
ServeAdd(i) ==
    /\ Sent(homeNet, i, "add")
    /\ LET x == homeNet[i].arg.of
       IN /\ homeNet' = IF x \in favourites THEN Fail(homeNet, i) ELSE Reply(homeNet, i, None)
          /\ favourites' = favourites \cup {x}
    /\ UNCHANGED home

ServeRemove(i) ==
    /\ Sent(homeNet, i, "remove")
    /\ LET x == homeNet[i].arg.of
       IN /\ homeNet' = IF x \notin favourites THEN Fail(homeNet, i) ELSE Reply(homeNet, i, None)
          /\ favourites' = favourites \ {x}
    /\ UNCHANGED home

\* setFavorites goes by the state of the moment of the answer; finally frees the
\* card, if it is still there.
FavouriteToggled(i) ==
    /\ \E op \in {"add", "remove"} : Settled(homeNet, i, op)
    /\ LET star == homeNet[i].arg
           freed == [home EXCEPT !.busy = @ \ {star}]
       IN home' = OnPage(IF Ok(homeNet, i, "add") THEN [freed EXCEPT !.favs = @ \cup {star.of}]
                         ELSE IF Ok(homeNet, i, "remove") THEN [freed EXCEPT !.favs = @ \ {star.of}]
                         ELSE freed)
    /\ homeNet' = Done(homeNet, i)
    /\ UNCHANGED favourites

HomeCallFails(i) ==
    /\ CanFail(homeNet, i) /\ homeNet[i].op # "load"
    /\ homeNet' = Fail(homeNet, i)
    /\ home' = Missed(home, homeNet, i)
    /\ UNCHANGED favourites

HomeNext ==
    \/ \E k \in AvailableFilters : ChooseKind(k)
    \/ FavouritesOnly
    \/ \E q \in Resource \cup {None} : TypeQuery(q)
    \/ \E v \in {"card", "list"} : ChooseView(v)
    \/ \E star \in Stars(home) : ToggleFavourite(star)
    \/ \E i \in Slot :
          \/ \E k \in Kinds : ServeSection(i, k)
          \/ ServeFavourites(i) \/ HomeRead(i) \/ ServeAdd(i) \/ ServeRemove(i) \/ FavouriteToggled(i) \/ HomeCallFails(i)
          \/ \E list \in DOMAIN Unread : ListMissed(i, list)

-----------------------------------------------------------------------------
(* Correctness *)

\* Stars of different resources can be clicked at any time, one before the other
\* is answered and the answers in any order: once nothing is in flight the page
\* stars what the server does.  Provided no resource was clicked while a request
\* of its own was in flight, and no answer was lost.
StarsMatch == home.calm /\ Quiet(homeNet) /\ ~home.loading => home.favs = favourites

\* A star that cannot be clicked is on the page and waits for its own request.
HomeSpinners ==
    /\ Quiet(homeNet) => ~home.loading
    /\ home.busy \subseteq {homeNet[i].arg : i \in Pending(homeNet)} \cap Stars(home)
===============================================================================
