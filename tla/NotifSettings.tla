----------------------------- MODULE NotifSettings -----------------------------
(***************************************************************************)
(* The notification settings of a pipeline connection                      *)
(* (pipelines/PipelineNotificationsTab.tsx), with the overrides of single  *)
(* pipelines (pipelines/PipelineOverridesSection.tsx), over the server's   *)
(* one row (routers/pipeline_notifications.py).  Of the settings the model *)
(* keeps a switch, the quiet hours and the overrides of one switch; the    *)
(* others travel as the switch does.                                       *)
(***************************************************************************)
EXTENDS Calls

CONSTANTS
    PipelineName,     \* the pipelines the provider reports
    Hour,             \* the hours a bound of the quiet hours is set to
    Absent,           \* a field that the answer does not have: undefined
    MaxNotifClicks    \* bound: clicks of the administrator

VARIABLES
    notif,      \* the server's row, None before the first save
    notifTab,   \* the React state of the tab
    notifNet    \* its requests

notifVars == <<notif, notifTab, notifNet>>

NoOverrides == [p \in PipelineName |-> None]

\* get_config before the first save: the defaults, which have no quiet hours at all.
Unsaved == [enabled |-> FALSE, from |-> Absent, until |-> Absent, overrides |-> NoOverrides]

\* What the poller goes by.
StoredPrefs == IF notif = None THEN [Unsaved EXCEPT !.from = None, !.until = None] ELSE notif

SavedBefore == [enabled |-> TRUE, from |-> None, until |-> None, overrides |-> NoOverrides]

NotifInit ==
    /\ notif \in {None, SavedBefore}
    /\ notifTab = [config |-> None, saved |-> None, loading |-> TRUE, saving |-> FALSE, names |-> FALSE,
                   onlyOverridden |-> FALSE, clicks |-> 0, calm |-> TRUE]
    /\ notifNet = Send(NoCalls, "config", None)

\* The form is on screen once the settings are there.
OnNotif == notifTab.config # None /\ ~notifTab.loading /\ notifTab.clicks < MaxNotifClicks

IsDirty == notifTab.config # notifTab.saved

OverrideCount == Cardinality({p \in PipelineName : notifTab.config.overrides[p] # None})

\* !== null holds of what is missing, too.
QuietHoursOn == notifTab.config.from # None /\ notifTab.config.until # None

-----------------------------------------------------------------------------
(* Loading *)

ServeConfig(i) ==
    /\ Sent(notifNet, i, "config")
    /\ notifNet' = Reply(notifNet, i, IF notif = None THEN Unsaved ELSE notif)
    /\ UNCHANGED <<notif, notifTab>>

\* load: a failure takes the place of the form for good.
ConfigRead(i) ==
    /\ Settled(notifNet, i, "config")
    /\ IF Ok(notifNet, i, "config")
       THEN /\ notifTab' = [notifTab EXCEPT !.config = notifNet[i].out, !.saved = notifNet[i].out, !.loading = FALSE]
            /\ notifNet' = Then(notifNet, i, "names", None)
       ELSE notifTab' = [notifTab EXCEPT !.loading = FALSE] /\ notifNet' = Done(notifNet, i)
    /\ UNCHANGED notif

ServeNames(i) ==
    /\ Sent(notifNet, i, "names")
    /\ notifNet' = Reply(notifNet, i, None)
    /\ UNCHANGED <<notif, notifTab>>

NamesRead(i) ==
    /\ Settled(notifNet, i, "names")
    /\ notifTab' = [notifTab EXCEPT !.names = Ok(notifNet, i, "names")]
    /\ notifNet' = Done(notifNet, i)
    /\ UNCHANGED notif

-----------------------------------------------------------------------------
(* Changing the form: nothing is disabled while a save is on its way *)

Update(config) ==
    /\ OnNotif /\ config # notifTab.config
    /\ notifTab' = [Pressed(notifTab, ~notifTab.saving) EXCEPT !.config = config]
    /\ UNCHANGED <<notif, notifNet>>

SwitchNotif == Update([notifTab.config EXCEPT !.enabled = ~@])

SwitchQuiet ==
    Update(IF QuietHoursOn THEN [notifTab.config EXCEPT !.from = None, !.until = None]
           ELSE [notifTab.config EXCEPT !.from = 22, !.until = 6])

\* The two bounds, on screen while the quiet hours are on.
SetFrom(h) == OnNotif /\ QuietHoursOn /\ Update([notifTab.config EXCEPT !.from = h])
SetUntil(h) == OnNotif /\ QuietHoursOn /\ Update([notifTab.config EXCEPT !.until = h])

\* The pipelines listed: with the filter on, those that have an override.
ListedPipelines ==
    {p \in PipelineName : notifTab.names
                          /\ (notifTab.onlyOverridden => notifTab.config.overrides[p] # None)}

\* patch, setOverride: an override with nothing left in it is dropped.
SetOverride(p, v) == OnNotif /\ p \in ListedPipelines /\ Update([notifTab.config EXCEPT !.overrides[p] = v])

\* The button of the filter is disabled while there is no override.
FilterOverridden ==
    /\ OnNotif /\ notifTab.names /\ OverrideCount > 0
    /\ notifTab' = [notifTab EXCEPT !.clicks = @ + 1, !.onlyOverridden = ~@]
    /\ UNCHANGED <<notif, notifNet>>

\* Disabled while saving.
DiscardNotif == OnNotif /\ ~notifTab.saving /\ IsDirty /\ Update(notifTab.saved)

-----------------------------------------------------------------------------
(* Saving *)

\* handleSave.  The button at the end of the form is given disabled as well as
\* isLoading and stays live while a save is on its way.
SaveNotif ==
    /\ OnNotif /\ IsDirty /\ Room(notifNet, 1)
    /\ notifTab' = [Pressed(notifTab, Quiet(notifNet)) EXCEPT !.saving = TRUE]
    /\ notifNet' = Send(notifNet, "save", notifTab.config)
    /\ UNCHANGED notif

\* upsert_config: "A half-set window would silently never trigger; treat it as off".
ServeSaveNotif(i) ==
    /\ Sent(notifNet, i, "save")
    /\ LET arg == notifNet[i].arg
           both == {arg.from, arg.until} \cap {None, Absent} = {}
           row == IF both THEN arg ELSE [arg EXCEPT !.from = None, !.until = None]
       IN notif' = row /\ notifNet' = Reply(notifNet, i, row)
    /\ UNCHANGED notifTab

\* The answer takes the place of the form, whatever was typed since.
NotifSaved(i) ==
    /\ Settled(notifNet, i, "save")
    /\ LET out == notifNet[i].out
       IN notifTab' = IF Ok(notifNet, i, "save")
                      THEN [notifTab EXCEPT !.config = out, !.saved = out, !.saving = FALSE]
                      ELSE [notifTab EXCEPT !.saving = FALSE]
    /\ notifNet' = Done(notifNet, i)
    /\ UNCHANGED notif

NotifCallFails(i) ==
    /\ CanFail(notifNet, i)
    /\ notifNet' = Fail(notifNet, i)
    /\ notifTab' = Missed(notifTab, notifNet, i)
    /\ UNCHANGED notif

NotifNext ==
    \/ SwitchNotif \/ SwitchQuiet \/ FilterOverridden \/ DiscardNotif \/ SaveNotif
    \/ \E h \in Hour : SetFrom(h) \/ SetUntil(h)
    \/ \E p \in PipelineName, v \in {None, TRUE, FALSE} : SetOverride(p, v)
    \/ \E i \in Slot :
          \/ ServeConfig(i) \/ ConfigRead(i) \/ ServeNames(i) \/ NamesRead(i)
          \/ ServeSaveNotif(i) \/ NotifSaved(i) \/ NotifCallFails(i)

-----------------------------------------------------------------------------
(* Correctness *)

\* "All changes saved" (PipelineNotificationsTab.tsx:594): what the form then
\* shows is what the server has, save for quiet hours that were never set;
\* provided one thing was done at a time and no answer was lost.
AllChangesSaved ==
    notifTab.config # None /\ ~IsDirty /\ notifTab.calm /\ Quiet(notifNet) =>
        StoredPrefs = IF notifTab.config.from = Absent THEN [notifTab.config EXCEPT !.from = None, !.until = None]
                 ELSE notifTab.config

\* A spinner is waiting for a request of its own.
NotifSpinners == Quiet(notifNet) => ~notifTab.loading /\ ~notifTab.saving
===============================================================================
