------------------------------- MODULE Deliveries ------------------------------
(***************************************************************************)
(* The delivery history under a pipeline connection                        *)
(* (components/pipelines/DeliveryHistory.tsx) over the alerts the server   *)
(* has attempted (routers/pipeline_notifications.py).  Of an attempt the   *)
(* model keeps what triggered it and whether a destination failed; none is *)
(* a week old.  A load is two requests that are answered separately: the   *)
(* list, and the summary its source filter is made of, which may fail      *)
(* without the list failing.                                               *)
(***************************************************************************)
EXTENDS Calls

CONSTANTS
    Trigger,             \* what an alert can be about
    AllOf,               \* a filter that is not set
    FirstDeliveries,     \* the attempts when the page opens
    MaxDeliveries,       \* bound: alerts attempted
    MaxDeliveryClicks    \* bound: clicks of the user

VARIABLES
    deliveries,      \* the server's attempts
    deliveryTab,     \* the React state of the component
    deliveryNet      \* its loads

deliveryVars == <<deliveries, deliveryTab, deliveryNet>>

DeliveryOps == {"load", "refresh"}

\* "Had failures", "Fully delivered", by trigger.
Narrowed(f) ==
    {d \in deliveries : /\ f.status # AllOf => d.failed = (f.status = "failed")
                        /\ f.source # AllOf => d.source = f.source}

\* notification_summary: the triggers of the last seven days.
BySource == {d.source : d \in deliveries}

Unanswered == [list |-> None, summary |-> None]

\* The two requests of a load, with the filters of the render it belongs to.
LoadDeliveries(net, op, f) == LET i == CHOOSE j \in Slot \ Pending(net) : TRUE
                              IN [net EXCEPT ![i] = [Call(op, f) EXCEPT !.out = Unanswered]]

Everything == [status |-> AllOf, source |-> AllOf]

DeliveriesInit ==
    /\ deliveries = FirstDeliveries
    /\ deliveryTab = [filters |-> Everything, list |-> {}, sources |-> {}, loading |-> TRUE, refreshing |-> FALSE,
                      clicks |-> 0, calm |-> TRUE]
    /\ deliveryNet = LoadDeliveries(NoCalls, "load", Everything)

PressDelivery == deliveryTab.clicks < MaxDeliveryClicks /\ Room(deliveryNet, 1) /\ UNCHANGED deliveries
StepDelivery == Pressed(deliveryTab, Quiet(deliveryNet))

\* An alert goes out.
Attempt(t, bad) ==
    /\ Cardinality(deliveries) < MaxDeliveries
    /\ deliveries' = deliveries \cup
         {[id |-> Cardinality(deliveries) + 1, source |-> t, failed |-> bad]}
    /\ deliveryTab' = [deliveryTab EXCEPT !.calm = FALSE]
    /\ UNCHANGED deliveryNet

-----------------------------------------------------------------------------
(* The filters and the button *)

\* setStatus, setSource, and the effect of load.
Narrow(f) ==
    /\ PressDelivery /\ f # deliveryTab.filters
    /\ deliveryTab' = [StepDelivery EXCEPT !.filters = f]
    /\ deliveryNet' = LoadDeliveries(deliveryNet, "load", f)

ByOutcome(st) == Narrow([deliveryTab.filters EXCEPT !.status = st])

\* "sourceOptions.length > 1": the select is there only for two sources or more,
\* whatever it is set to.
ByTrigger(t) ==
    /\ Cardinality(deliveryTab.sources) > 1 /\ t \in deliveryTab.sources \cup {AllOf}
    /\ Narrow([deliveryTab.filters EXCEPT !.source = t])

Refresh ==
    /\ PressDelivery /\ ~deliveryTab.refreshing
    /\ deliveryTab' = [StepDelivery EXCEPT !.refreshing = TRUE]
    /\ deliveryNet' = LoadDeliveries(deliveryNet, "refresh", deliveryTab.filters)

-----------------------------------------------------------------------------
(* The answers *)

Loading(i) == \E op \in DeliveryOps : Sent(deliveryNet, i, op)

Answer(i, field, value) ==
    /\ Loading(i) /\ deliveryNet[i].out[field] = None
    /\ deliveryNet' = [deliveryNet EXCEPT ![i].out[field] = <<value>>]
    /\ UNCHANGED <<deliveries, deliveryTab>>

ServeDeliveries(i) == Loading(i) /\ Answer(i, "list", Narrowed(deliveryNet[i].arg))
ServeSummary(i) == Answer(i, "summary", BySource)

\* ".catch(() => null)": without a summary there are no sources.
SummaryFails(i) == Answer(i, "summary", {})

\* Promise.all rejects as soon as the list does: the list is emptied, the
\* summary stays as it was.
ListFails(i) ==
    /\ Loading(i) /\ deliveryNet[i].out.list = None
    /\ deliveryTab' = [deliveryTab EXCEPT !.list = {}, !.loading = FALSE, !.calm = FALSE,
                                          !.refreshing = @ /\ deliveryNet[i].op # "refresh"]
    /\ deliveryNet' = Done(deliveryNet, i)
    /\ UNCHANGED deliveries

\* Both are in.
HistoryRead(i) ==
    /\ Loading(i) /\ \A field \in DOMAIN Unanswered : deliveryNet[i].out[field] # None
    /\ deliveryTab' = [deliveryTab EXCEPT !.list = deliveryNet[i].out.list[1], !.sources = deliveryNet[i].out.summary[1],
                                          !.loading = FALSE, !.refreshing = @ /\ deliveryNet[i].op # "refresh"]
    /\ deliveryNet' = Done(deliveryNet, i)
    /\ UNCHANGED deliveries

DeliveriesNext ==
    \/ \E t \in Trigger, bad \in BOOLEAN : Attempt(t, bad)
    \/ \E st \in {AllOf, "sent", "failed"} : ByOutcome(st)
    \/ \E t \in Trigger \cup {AllOf} : ByTrigger(t)
    \/ Refresh
    \/ \E i \in Slot :
          ServeDeliveries(i) \/ ServeSummary(i) \/ SummaryFails(i) \/ ListFails(i) \/ HistoryRead(i)

-----------------------------------------------------------------------------
(* Correctness *)

\* Once nothing is in flight the history shows the attempts the server finds for
\* the filters it shows; provided one thing was done at a time, the list did not
\* fail and no alert went out meanwhile.
DeliveriesShown ==
    deliveryTab.calm /\ Quiet(deliveryNet) => deliveryTab.list = Narrowed(deliveryTab.filters)

\* The rows and the button say that they wait only while they do.
DeliverySpinners == Quiet(deliveryNet) => ~deliveryTab.loading /\ ~deliveryTab.refreshing
===============================================================================
