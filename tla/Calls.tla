-------------------------------- MODULE Calls --------------------------------
(***************************************************************************)
(* The requests a browser tab has in flight (lib/api.ts, createClientFetch *)
(* and apiFetch).  A handler sends a request and goes on when its reply    *)
(* is in; until then every other handler, timer and effect of the page may *)
(* run.  No request is ever aborted and nothing orders the replies, so a   *)
(* reply is taken whenever it comes, whatever the page shows by then.  A   *)
(* reply is an error when the server refuses (ApiError) or when the        *)
(* connection fails before the server does anything.                       *)
(***************************************************************************)
EXTENDS Integers, FiniteSets

CONSTANTS
    None,      \* null, undefined, nothing
    MaxCalls   \* bound: requests of one tab in flight at the same time

ASSUME CallsAssumption == MaxCalls \in Nat \ {0}

Slot == 1..MaxCalls

\* A place no call takes.
Free == [op |-> "none", arg |-> None, st |-> "none", out |-> None]

NoCalls == [i \in Slot |-> Free]

Pending(net) == {i \in Slot : net[i] # Free}

Quiet(net) == Pending(net) = {}

\* The calls of the given kinds that are in flight.
Of(net, ops) == {i \in Pending(net) : net[i].op \in ops}

Room(net, n) == Cardinality(Slot \ Pending(net)) >= n

Call(op, arg) == [op |-> op, arg |-> arg, st |-> "sent", out |-> None]

\* fetch(...): the request takes the first free place.
Send(net, op, arg) ==
    LET i == CHOOSE j \in Slot \ Pending(net) : \A k \in Slot \ Pending(net) : j <= k
    IN [net EXCEPT ![i] = Call(op, arg)]

\* The handler awaits another request after the reply to call i.
Then(net, i, op, arg) == [net EXCEPT ![i] = Call(op, arg)]

Sent(net, i, op) == net[i] # Free /\ net[i].op = op /\ net[i].st = "sent"

\* The server has begun: its handler awaits something before it commits.
Begin(net, i, tx) == [net EXCEPT ![i].st = "open", ![i].out = tx]
Open(net, i, op) == net[i] # Free /\ net[i].op = op /\ net[i].st = "open"

\* res.ok: the body is parsed and handed to the awaiting handler.
Reply(net, i, out) == [net EXCEPT ![i].st = "ok", ![i].out = out]

\* throw new ApiError(...), or the TypeError of a failed connection.
Fail(net, i) == [net EXCEPT ![i].st = "err"]

Ok(net, i, op) == net[i] # Free /\ net[i].op = op /\ net[i].st = "ok"
Err(net, i, op) == net[i] # Free /\ net[i].op = op /\ net[i].st = "err"

Settled(net, i, op) == Ok(net, i, op) \/ Err(net, i, op)

\* The promise is settled and nothing follows it.
Done(net, i) == [net EXCEPT ![i] = Free]

\* The connection fails before the server acts, or after it has.
CanFail(net, i) == i \in Pending(net) /\ net[i].st # "err"

\* A handler of the page starts.  Every page counts the user's steps in "clicks"
\* and remembers in "calm" whether all went one after the other so far.
Pressed(ui, calm) == [ui EXCEPT !.clicks = @ + 1, !.calm = @ /\ calm]

\* An answer that was already on its way did not arrive.
Missed(ui, net, i) == [ui EXCEPT !.calm = @ /\ net[i].st = "sent"]

===============================================================================
