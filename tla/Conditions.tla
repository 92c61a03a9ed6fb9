------------------------------ MODULE Conditions ------------------------------
(***************************************************************************)
(* The condition checks of a pipeline connection                           *)
(* (pipelines/ConditionChecksSection.tsx, notificationTypes.ts) over the   *)
(* server's rows (routers/pipeline_notifications.py): "no run for so long" *)
(* and "no fresh data for so long".  Name, schema, column, groups, message *)
(* and frequency travel as the table does and are left out; so is the      *)
(* state of the alert, which the condition checker keeps.                  *)
(***************************************************************************)
EXTENDS Calls

CONSTANTS
    Pipeline, WatchedTable,   \* what a check can be about
    Amount,            \* the numbers typed as a threshold
    MaxChecks,         \* bound: checks ever created
    MaxCheckClicks     \* bound: clicks of the administrator

ASSUME ConditionsAssumption == Amount \subseteq Int

VARIABLES
    checks,       \* the server's rows
    checksMade,   \* the number of rows ever inserted
    checkList,    \* the React state of the section, with the form on screen
    checkNet      \* its requests

checkVars == <<checks, checksMade, checkList, checkNet>>
checksServer == <<checks, checksMade>>

-----------------------------------------------------------------------------
(* The form *)

UnitMinutes == [minutes |-> 1, hours |-> 60, days |-> 1440]

\* "Split minutes into the largest whole unit"
SplitThreshold(m) ==
    IF m >= 1440 /\ m % 1440 = 0 THEN [value |-> m \div 1440, unit |-> "days"]
    ELSE IF m >= 60 /\ m % 60 = 0 THEN [value |-> m \div 60, unit |-> "hours"]
    ELSE [value |-> m, unit |-> "minutes"]

EmptyForm == [kind |-> "pipeline_idle", value |-> 6, unit |-> "hours", pipeline |-> None, table |-> None]

ToForm(c) ==
    LET t == SplitThreshold(c.body.minutes)
    IN [kind |-> c.body.kind, value |-> t.value, unit |-> t.unit,
        pipeline |-> c.body.pipeline, table |-> c.body.table]

\* The fields of the form: the type, the threshold, and what the type is about.
Patches(f) ==
    {f} \cup {[f EXCEPT !.value = t.value, !.unit = t.unit] : t \in [value : Amount, unit : DOMAIN UnitMinutes]}
        \cup {[f EXCEPT !.kind = "data_freshness", !.table = t] : t \in WatchedTable}
        \cup {[f EXCEPT !.kind = "pipeline_idle", !.pipeline = p] : p \in Pipeline \cup {None}}

\* handleSubmit: what must be there is; what belongs to the other type is not sent.
ValidCheck(f) == f.value >= 1 /\ (f.kind = "data_freshness" => f.table # None)
Payload(f) ==
    [kind |-> f.kind, minutes |-> f.value * UnitMinutes[f.unit],
     pipeline |-> IF f.kind = "pipeline_idle" THEN f.pipeline ELSE None,
     table |-> IF f.kind = "data_freshness" THEN f.table ELSE None]

-----------------------------------------------------------------------------
(* The list *)

ChecksInit ==
    /\ \E m \in {Payload([EmptyForm EXCEPT !.value = v]) : v \in {n \in Amount : n >= 1}} :
          checks = {[id |-> 1, body |-> m, enabled |-> TRUE]}
    /\ checksMade = 1
    /\ checkList = [rows |-> {}, loading |-> TRUE, warehouses |-> FALSE, editing |-> None,
                    saving |-> FALSE, checking |-> None, clicks |-> 0, calm |-> TRUE]
    /\ checkNet = Send(NoCalls, "checks", None)

PressCheck ==
    /\ checkList.clicks < MaxCheckClicks /\ Room(checkNet, 1)
    /\ UNCHANGED checksServer
StepCheck == Pressed(checkList, Quiet(checkNet))

\* The buttons of a row, which no form covers.
OnCheckRow(c) == PressCheck /\ checkList.editing = None /\ ~checkList.loading /\ c \in checkList.rows

CheckRow(k) == {c \in checks : c.id = k}

ServeChecks(i) ==
    /\ Sent(checkNet, i, "checks")
    /\ checkNet' = Reply(checkNet, i, checks)
    /\ UNCHANGED <<checksServer, checkList>>

\* load
ChecksRead(i) ==
    /\ Settled(checkNet, i, "checks")
    /\ checkList' = IF Ok(checkNet, i, "checks")
                    THEN [checkList EXCEPT !.rows = checkNet[i].out, !.loading = FALSE]
                    ELSE [checkList EXCEPT !.loading = FALSE, !.calm = FALSE]
    /\ checkNet' = Done(checkNet, i)
    /\ UNCHANGED checksServer

\* handleToggle: the switch turns at once, and the row as it is on screen is sent.
ToggleCheck(c) ==
    /\ OnCheckRow(c)
    /\ checkList' = [StepCheck EXCEPT !.rows = {IF x.id = c.id THEN [x EXCEPT !.enabled = ~@] ELSE x : x \in @}]
    /\ checkNet' = Send(checkNet, "toggle", [c EXCEPT !.enabled = ~@])

\* A failure turns the switch back to where it was at the click.
CheckToggled(i) ==
    /\ Settled(checkNet, i, "toggle")
    /\ LET arg == checkNet[i].arg
       IN checkList' = IF Ok(checkNet, i, "toggle") THEN checkList
                       ELSE [checkList EXCEPT !.rows = {IF x.id = arg.id THEN [x EXCEPT !.enabled = ~arg.enabled]
                                                        ELSE x : x \in @}]
    /\ checkNet' = Done(checkNet, i)
    /\ UNCHANGED checksServer

DeleteCheck(c) ==
    /\ OnCheckRow(c)
    /\ checkList' = StepCheck
    /\ checkNet' = Send(checkNet, "delete", c.id)

ServeDeleteCheck(i) ==
    /\ Sent(checkNet, i, "delete")
    /\ LET row == CheckRow(checkNet[i].arg)
       IN /\ checks' = checks \ row
          /\ checkNet' = IF row = {} THEN Fail(checkNet, i) ELSE Reply(checkNet, i, None)
    /\ UNCHANGED <<checksMade, checkList>>

\* A deletion that worked is followed by a read of the list.
CheckDeleted(i) ==
    /\ Settled(checkNet, i, "delete")
    /\ checkNet' = IF Ok(checkNet, i, "delete") THEN Then(checkNet, i, "checks", None) ELSE Done(checkNet, i)
    /\ UNCHANGED <<checksServer, checkList>>

\* handleCheck: a dry run; while one runs no other can be started.
RunCheck(c) ==
    /\ OnCheckRow(c) /\ checkList.checking = None
    /\ checkList' = [StepCheck EXCEPT !.checking = c.id]
    /\ checkNet' = Send(checkNet, "check", c.id)

ServeRunCheck(i) ==
    /\ Sent(checkNet, i, "check")
    /\ checkNet' = IF CheckRow(checkNet[i].arg) = {} THEN Fail(checkNet, i) ELSE Reply(checkNet, i, None)
    /\ UNCHANGED <<checksServer, checkList>>

CheckRan(i) ==
    /\ Settled(checkNet, i, "check")
    /\ checkList' = [checkList EXCEPT !.checking = None]
    /\ checkNet' = IF Ok(checkNet, i, "check") THEN Then(checkNet, i, "checks", None) ELSE Done(checkNet, i)
    /\ UNCHANGED checksServer

-----------------------------------------------------------------------------
(* Creating and editing a check *)

\* openForm: the warehouses are asked for as long as none were read.
OpenCheckForm(c) ==
    /\ PressCheck /\ checkList.editing = None
    /\ c # None => OnCheckRow(c)
    /\ checkList' = [checkList EXCEPT !.clicks = @ + 1, !.editing = [row |-> c, n |-> checkList.clicks]]
    /\ checkNet' = IF checkList.warehouses THEN checkNet ELSE Send(checkNet, "warehouses", None)

ServeWarehouseNames(i) ==
    /\ Sent(checkNet, i, "warehouses")
    /\ checkNet' = Reply(checkNet, i, None)
    /\ UNCHANGED <<checksServer, checkList>>

WarehouseNamesRead(i) ==
    /\ Settled(checkNet, i, "warehouses")
    /\ checkList' = [checkList EXCEPT !.warehouses = TRUE]
    /\ checkNet' = Done(checkNet, i)
    /\ UNCHANGED checksServer

CloseCheckForm ==
    /\ checkList.editing # None
    /\ checkList' = [checkList EXCEPT !.editing = None]
    /\ UNCHANGED <<checksServer, checkNet>>

\* handleSave: "saving" is the section's, so a save that is still on its way from
\* a form that was closed holds the next one back.
SubmitCheck(f) ==
    /\ PressCheck /\ checkList.editing # None /\ ~checkList.saving /\ ValidCheck(f)
    /\ checkList' = [Pressed(checkList, \A i \in Pending(checkNet) : checkNet[i].op = "warehouses")
                        EXCEPT !.saving = TRUE]
    /\ LET row == checkList.editing.row
       IN checkNet' = IF row = None
                      THEN Send(checkNet, "create", [id |-> None, body |-> Payload(f), enabled |-> TRUE])
                      ELSE Send(checkNet, "edit", [row EXCEPT !.body = Payload(f)])

ServeCreateCheck(i) ==
    /\ Sent(checkNet, i, "create") /\ checksMade < MaxChecks
    /\ checksMade' = checksMade + 1
    /\ checks' = checks \cup {[checkNet[i].arg EXCEPT !.id = checksMade + 1]}
    /\ checkNet' = Reply(checkNet, i, None)
    /\ UNCHANGED checkList

\* update_condition writes the whole row it is sent.
ServeEditCheck(i) ==
    /\ \E op \in {"edit", "toggle"} : Sent(checkNet, i, op)
    /\ LET row == CheckRow(checkNet[i].arg.id)
       IN /\ checks' = IF row = {} THEN checks ELSE (checks \ row) \cup {checkNet[i].arg}
          /\ checkNet' = IF row = {} THEN Fail(checkNet, i) ELSE Reply(checkNet, i, None)
    /\ UNCHANGED <<checksMade, checkList>>

\* Success closes the form, whichever it is by then, and reads the list again.
CheckSaved(i) ==
    /\ \E op \in {"create", "edit"} :
          \/ /\ Ok(checkNet, i, op)
             /\ checkList' = [checkList EXCEPT !.editing = None, !.saving = FALSE]
             /\ checkNet' = Then(checkNet, i, "checks", None)
          \/ /\ Err(checkNet, i, op)
             /\ checkList' = [checkList EXCEPT !.saving = FALSE]
             /\ checkNet' = Done(checkNet, i)
    /\ UNCHANGED checksServer

CheckCallFails(i) ==
    /\ CanFail(checkNet, i)
    /\ checkNet' = Fail(checkNet, i)
    /\ checkList' = Missed(checkList, checkNet, i)
    /\ UNCHANGED checksServer

ChecksNext ==
    \/ \E c \in checkList.rows : ToggleCheck(c) \/ DeleteCheck(c) \/ RunCheck(c) \/ OpenCheckForm(c)
    \/ OpenCheckForm(None) \/ CloseCheckForm
    \/ /\ checkList.editing # None
       /\ \E f \in Patches(IF checkList.editing.row = None THEN EmptyForm ELSE ToForm(checkList.editing.row)) :
             SubmitCheck(f)
    \/ \E i \in Slot :
          \/ ServeChecks(i) \/ ChecksRead(i) \/ CheckToggled(i) \/ ServeDeleteCheck(i) \/ CheckDeleted(i)
          \/ ServeRunCheck(i) \/ CheckRan(i) \/ ServeWarehouseNames(i) \/ WarehouseNamesRead(i)
          \/ ServeCreateCheck(i) \/ ServeEditCheck(i) \/ CheckSaved(i) \/ CheckCallFails(i)

-----------------------------------------------------------------------------
(* Correctness *)

\* Once nothing is in flight, the list shows the checks the server has; provided
\* one thing was done at a time and the last read did not fail.
ChecksMatch == checkList.calm /\ Quiet(checkNet) => checkList.rows = checks

\* An edit in which a field is not touched leaves it as it was: the threshold,
\* which is shown as a number of minutes, hours or days, comes back the same.
UntouchedIsKept == \A c \in checkList.rows : ValidCheck(ToForm(c)) /\ Payload(ToForm(c)) = c.body

\* A spinner is waiting for a request of its own.
CheckSpinners == Quiet(checkNet) => ~checkList.loading /\ ~checkList.saving /\ checkList.checking = None

ChecksSpec == ChecksInit /\ [][ChecksNext]_checkVars

-----------------------------------------------------------------------------
(* The inductive invariant behind UntouchedIsKept (see PortalProofs) *)

\* What a form can have made of a check: a whole number of minutes, and nothing of
\* the other type.
BodyOk(b) ==
    /\ b = [kind |-> b.kind, minutes |-> b.minutes, pipeline |-> b.pipeline, table |-> b.table]
    /\ b.minutes \in Nat \ {0}
    /\ \/ b.kind = "pipeline_idle" /\ b.table = None
       \/ b.kind = "data_freshness" /\ b.table # None /\ b.pipeline = None

CheckOk(c) == {"id", "body", "enabled"} \subseteq DOMAIN c /\ BodyOk(c.body)

\* So is every check there is, on the server, on display, in a form or on its way.
BodiesInv ==
    /\ \A c \in checks \cup checkList.rows : CheckOk(c)
    /\ checkList.editing # None /\ checkList.editing.row # None => CheckOk(checkList.editing.row)
    /\ \A i \in Of(checkNet, {"toggle", "create", "edit"}) : CheckOk(checkNet[i].arg)
    /\ \A i \in Of(checkNet, {"checks"}) : Ok(checkNet, i, "checks") => \A c \in checkNet[i].out : CheckOk(c)
===============================================================================
