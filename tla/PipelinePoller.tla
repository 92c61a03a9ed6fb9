---------------------------- MODULE PipelinePoller ----------------------------
(***************************************************************************)
(* The poller that every replica runs (services/pipeline_poller.py): it    *)
(* asks the providers for the runs of each connection, sends an alert for  *)
(* each that has finished, and then checks the conditions                  *)
(* (services/condition_checker.py) and announces those that have tripped   *)
(* or recovered.  A Redis lock keeps the replicas' ticks apart, as long as *)
(* it lives and Redis does.                                                *)
(*                                                                         *)
(* A step ends where the code awaits; what a tick has loaded is in its     *)
(* record and grows old there.  Moments of time are reduced to what they   *)
(* are compared with: whether a cadence is due, whether the interval of    *)
(* the throttle has passed, whether the hour is a quiet one.               *)
(***************************************************************************)
EXTENDS Naturals, FiniteSets

CONSTANTS
    Poller,      \* the replicas
    Conn,        \* the connections, with one configuration each
    Cond,        \* the conditions; the groups hear of recoveries too
    Runs,        \* bound: runs ever started at the providers
    ConnOf,      \* the connection of a run
    KeyOf,       \* its pipeline and outcome, [pipeline, kind]
    Settings,    \* what may be saved: [enabled, wants (keys), holds (kinds), throttle]
    MaxListed,   \* the newest runs a provider lists
    MaxTracked,  \* _MAX_TRACKED_RUN_IDS
    MaxMishaps   \* bound: see Mishap

Run == 1..Runs

ASSUME PollerAssumption ==
    /\ Runs \in Nat /\ MaxMishaps \in Nat /\ MaxListed \in Nat /\ MaxTracked \in Nat
    /\ MaxListed <= MaxTracked
    /\ ConnOf \in [Run -> Conn]
    /\ \A q, r \in Run : KeyOf[q] = KeyOf[r] => ConnOf[q] = ConnOf[r]

VARIABLES
    runs,      \* the providers: how many runs were started, which have finished
    configs,   \* pipeline_notification_configs; stamps: keys alerted within the interval
    conds,     \* notification_conditions
    world,     \* the conditions whose source is idle, and the clock on the wall
    lock,      \* the key pipeline_poller:lock exists
    loop,      \* where the loop of each replica is, and what its tick has loaded
    past       \* history: alerts sent, runs decided about, keys alerted within the
               \* interval, what was last announced of each condition, mishaps

vars == <<runs, configs, conds, world, lock, loop, past>>

Asleep == [at |-> "asleep", todo |-> <<>>, conn |-> "none", new |-> {}, left |-> {}, added |-> {},
           checks |-> <<>>, cond |-> "none", flip |-> FALSE]

Init ==
    /\ runs = [started |-> 0, finished |-> {}]
    /\ configs \in [Conn -> {[set |-> s, first |-> TRUE, due |-> TRUE, seen |-> {}, stamps |-> {}] : s \in Settings}]
    /\ conds = [c \in Cond |-> [due |-> TRUE, triggered |-> FALSE]]
    /\ world = [idle |-> {}, quiet |-> FALSE]
    /\ lock = FALSE
    /\ loop = [p \in Poller |-> Asleep]
    /\ past = [alerts |-> [r \in Run |-> 0], decided |-> {}, recent |-> {},
               told |-> [c \in Cond |-> FALSE], mishaps |-> 0]

-----------------------------------------------------------------------------
(* Mishaps: a tick that starts while another is under way, dies, or cannot  *)
(* commit; a run forgotten that the provider still lists.                   *)

Inside(p) == loop[p].at \notin {"asleep", "dead"}

Mishap(n) == [past EXCEPT !.mishaps = @ + n]
Bearable(n) == past.mishaps + n <= MaxMishaps

\* The step of p that leaves it with record l.
At(p, l) == loop' = [loop EXCEPT ![p] = l]
Drop(f, x) == [y \in DOMAIN f \ {x} |-> f[y]]

-----------------------------------------------------------------------------
(* run_poller_loop *)

\* SET NX with an expiry; a Redis that cannot be reached counts as a lock taken.
StartTick(p) ==
    /\ loop[p].at = "asleep"
    /\ \/ ~lock /\ lock' = TRUE
       \/ UNCHANGED lock
    /\ LET n == IF \E q \in Poller : Inside(q) THEN 1 ELSE 0
       IN Bearable(n) /\ past' = Mishap(n)
    /\ At(p, [Asleep EXCEPT !.at = "started"])
    /\ UNCHANGED <<runs, configs, conds, world>>

\* The configurations that are enabled and due, as they are now.
ReadConfigs(p) ==
    /\ loop[p].at = "started"
    /\ At(p, [loop[p] EXCEPT !.at = "polling",
                             !.todo = [c \in {d \in Conn : configs[d].due /\ configs[d].set.enabled} |-> configs[c]]])
    /\ UNCHANGED <<runs, configs, conds, world, lock, past>>

-----------------------------------------------------------------------------
(* _process_config *)

\* list_runs: the newest runs, whatever their state.
Listed(c) ==
    LET all == {r \in 1..runs.started : ConnOf[r] = c}
    IN {r \in all : Cardinality({q \in all : q > r}) < MaxListed}

\* should_suppress, quiet hours first: what is held does not use up the interval.
Loud(rs, set) == {r \in rs : KeyOf[r] \in set.wants /\ ~(world.quiet /\ KeyOf[r].kind \in set.holds)}

\* Seeded fault: the throttle asks the row, not the copy that grows with the poll.
PlannedByRow(rs, cfg) == {{r \in rs : cfg.set.throttle => KeyOf[r] \notin cfg.stamps}}

\* And the throttle, which sees the alerts queued earlier in the same poll.
Planned(rs, cfg) ==
    IF ~cfg.set.throttle THEN {rs}
    ELSE {s \in SUBSET rs :
            /\ \A q, r \in s : KeyOf[q] = KeyOf[r] => q = r
            /\ \A r \in rs : KeyOf[r] \in cfg.stamps <=> ~ \E q \in s : KeyOf[q] = KeyOf[r]}

\* The first poll of a configuration only remembers what it finds.
FetchRuns(p, c) ==
    /\ loop[p].at = "polling" /\ c \in DOMAIN loop[p].todo
    /\ LET cfg == loop[p].todo[c]
           new == {r \in Listed(c) \cap runs.finished : r \notin cfg.seen}
       IN \E plan \in IF cfg.first THEN {{}} ELSE Planned(Loud(new, cfg.set), cfg) :
            /\ At(p, [loop[p] EXCEPT !.at = "sending", !.conn = c, !.new = new, !.left = plan,
                                     !.added = {KeyOf[r] : r \in plan}])
            /\ past' = [past EXCEPT !.decided = @ \cup (new \ plan)]
    /\ UNCHANGED <<runs, configs, conds, world, lock>>

\* The provider does not answer: the configuration stays due.
FetchFails(p, c) ==
    /\ loop[p].at = "polling" /\ c \in DOMAIN loop[p].todo
    /\ At(p, [loop[p] EXCEPT !.todo = Drop(@, c)])
    /\ UNCHANGED <<runs, configs, conds, world, lock, past>>

\* Seeded fault: an error while sending leaves the loop over the alerts.
SendStops(p, r) ==
    /\ loop[p].at = "sending" /\ r \in loop[p].left
    /\ At(p, [loop[p] EXCEPT !.left = {}])
    /\ past' = [past EXCEPT !.alerts[r] = @ + 1, !.decided = @ \cup {r}, !.recent = @ \cup {KeyOf[r]}]
    /\ UNCHANGED <<runs, configs, conds, world, lock>>

\* send_to_groups; a destination that cannot be reached is recorded and not retried.
SendAlert(p, r) ==
    /\ loop[p].at = "sending" /\ r \in loop[p].left
    /\ At(p, [loop[p] EXCEPT !.left = @ \ {r}])
    /\ past' = [past EXCEPT !.alerts[r] = @ + 1, !.decided = @ \cup {r}, !.recent = @ \cup {KeyOf[r]}]
    /\ UNCHANGED <<runs, configs, conds, world, lock>>

\* Seeded fault: the slice keeps the head of the list.
RememberedHead(seen, new) ==
    {kept \in SUBSET (seen \cup new) :
        /\ seen \subseteq kept
        /\ Cardinality(kept) = MaxTracked \/ (Cardinality(kept) < MaxTracked /\ kept = seen \cup new)}

\* "([*seen, *new_ids])[-_MAX_TRACKED_RUN_IDS:]": the new ones are kept, and as many
\* of the others as there is room for, in no order.
Remembered(seen, new) ==
    {kept \in SUBSET (seen \cup new) :
        /\ new \subseteq kept
        /\ Cardinality(kept) = MaxTracked \/ (Cardinality(kept) < MaxTracked /\ kept = seen \cup new)}

\* What was loaded at the start of the tick is written back with what is new; a
\* column whose value has not changed is not written.
CommitPoll(p) ==
    /\ loop[p].at = "sending" /\ loop[p].left = {}
    /\ LET l == loop[p]
           cfg == l.todo[l.conn]
           row == configs[l.conn]
       IN /\ \E kept \in Remembered(cfg.seen, l.new) :
                /\ \E seen \in IF l.new = {} THEN {kept, row.seen} ELSE {kept} :
                     configs' = [configs EXCEPT ![l.conn] =
                        [row EXCEPT !.first = FALSE, !.due = FALSE, !.seen = seen,
                                    !.stamps = IF l.added = {} THEN @ ELSE cfg.stamps \cup l.added]]
                /\ LET n == Cardinality((cfg.seen \ kept) \cap Listed(l.conn))
                   IN Bearable(n) /\ past' = Mishap(n)
          /\ At(p, [Asleep EXCEPT !.at = "polling", !.todo = Drop(l.todo, l.conn)])
    /\ UNCHANGED <<runs, conds, world, lock>>

\* An error that escapes ends the tick: no other connection is polled, and no
\* condition checked.
CommitFails(p) ==
    /\ loop[p].at = "sending" /\ loop[p].left = {} /\ Bearable(1)
    /\ past' = Mishap(1)
    /\ At(p, Asleep)
    /\ UNCHANGED <<runs, configs, conds, world, lock>>

-----------------------------------------------------------------------------
(* check_due_conditions *)

ReadConditions(p) ==
    /\ loop[p].at = "polling" /\ DOMAIN loop[p].todo = {}
    /\ At(p, [Asleep EXCEPT !.at = "checking",
                            !.checks = [c \in {d \in Cond : conds[d].due} |-> conds[c].triggered]])
    /\ UNCHANGED <<runs, configs, conds, world, lock, past>>

\* evaluate_condition and, when it answers, the comparison of _apply_result.
Probe(p, c) ==
    /\ loop[p].at = "checking" /\ c \in DOMAIN loop[p].checks
    /\ LET flip == (c \in world.idle) # loop[p].checks[c]
       IN At(p, [loop[p] EXCEPT !.at = IF flip THEN "announcing" ELSE "checked", !.cond = c, !.flip = flip])
    /\ UNCHANGED <<runs, configs, conds, world, lock, past>>

\* "A broken probe is not a trigger", nor a recovery.
ProbeFails(p, c) ==
    /\ loop[p].at = "checking" /\ c \in DOMAIN loop[p].checks
    /\ At(p, [loop[p] EXCEPT !.at = "checked", !.cond = c])
    /\ UNCHANGED <<runs, configs, conds, world, lock, past>>

Announce(p) ==
    /\ loop[p].at = "announcing"
    /\ At(p, [loop[p] EXCEPT !.at = "checked"])
    /\ past' = [past EXCEPT !.told[loop[p].cond] = ~loop[p].checks[loop[p].cond]]
    /\ UNCHANGED <<runs, configs, conds, world, lock>>

\* Seeded fault: the flag is set only on the way to "triggered".
CommitTripOnly(p) ==
    /\ loop[p].at = "checked"
    /\ LET l == loop[p]
       IN /\ conds' = [conds EXCEPT ![l.cond] = [due |-> FALSE, triggered |-> l.flip \/ @.triggered]]
          /\ At(p, [Asleep EXCEPT !.at = "checking", !.checks = Drop(l.checks, l.cond)])
    /\ UNCHANGED <<runs, configs, world, lock, past>>

CommitCheck(p) ==
    /\ loop[p].at = "checked"
    /\ LET l == loop[p]
       IN /\ conds' = [conds EXCEPT ![l.cond] =
                          [due |-> FALSE, triggered |-> IF l.flip THEN ~l.checks[l.cond] ELSE @.triggered]]
          /\ At(p, [Asleep EXCEPT !.at = "checking", !.checks = Drop(l.checks, l.cond)])
    /\ UNCHANGED <<runs, configs, world, lock, past>>

\* The rollback expires every row of the session, and reading the next one ends
\* the tick.
CheckFails(p) ==
    /\ loop[p].at = "checked" /\ Bearable(1)
    /\ past' = Mishap(1)
    /\ At(p, Asleep)
    /\ UNCHANGED <<runs, configs, conds, world, lock>>

EndTick(p) ==
    /\ loop[p].at = "checking" /\ DOMAIN loop[p].checks = {}
    /\ At(p, Asleep)
    /\ UNCHANGED <<runs, configs, conds, world, lock, past>>

-----------------------------------------------------------------------------
(* Administrators, processes, time and the providers *)

\* upsert_config leaves alone what the poller keeps in the row.
SaveConfig(c, s) ==
    /\ configs[c].set # s
    /\ configs' = [configs EXCEPT ![c].set = s]
    /\ UNCHANGED <<runs, conds, world, lock, loop, past>>

Crash(p) ==
    /\ Inside(p) /\ Bearable(1)
    /\ past' = Mishap(1)
    /\ At(p, [Asleep EXCEPT !.at = "dead"])
    /\ UNCHANGED <<runs, configs, conds, world, lock>>

Restart(p) ==
    /\ loop[p].at = "dead"
    /\ At(p, Asleep)
    /\ UNCHANGED <<runs, configs, conds, world, lock, past>>

\* 55 seconds, however long the tick takes.
LockExpires ==
    /\ lock /\ lock' = FALSE
    /\ UNCHANGED <<runs, configs, conds, world, loop, past>>

PollDue(c) ==
    /\ ~configs[c].due
    /\ configs' = [configs EXCEPT ![c].due = TRUE]
    /\ UNCHANGED <<runs, conds, world, lock, loop, past>>

CheckDue(c) ==
    /\ ~conds[c].due
    /\ conds' = [conds EXCEPT ![c].due = TRUE]
    /\ UNCHANGED <<runs, configs, world, lock, loop, past>>

Aged(rows, k) == [c \in DOMAIN rows |-> [rows[c] EXCEPT !.stamps = @ \ {k}]]

\* min_interval_minutes after the last alert of k, which no sending outlasts.
IntervalPasses(k) ==
    /\ k \in past.recent
    /\ \A p \in Poller : \A r \in loop[p].left : KeyOf[r] # k
    /\ past' = [past EXCEPT !.recent = @ \ {k}]
    /\ configs' = Aged(configs, k)
    /\ loop' = [p \in Poller |-> [loop[p] EXCEPT !.added = @ \ {k}, !.todo = Aged(@, k)]]
    /\ UNCHANGED <<runs, conds, world, lock>>

RunStarts ==
    /\ runs.started < Runs
    /\ runs' = [runs EXCEPT !.started = @ + 1]
    /\ UNCHANGED <<configs, conds, world, lock, loop, past>>

RunFinishes(r) ==
    /\ r <= runs.started /\ r \notin runs.finished
    /\ runs' = [runs EXCEPT !.finished = @ \cup {r}]
    /\ UNCHANGED <<configs, conds, world, lock, loop, past>>

QuietHours ==
    /\ world' = [world EXCEPT !.quiet = ~@]
    /\ UNCHANGED <<runs, configs, conds, lock, loop, past>>

SourceChanges(c) ==
    /\ world' = [world EXCEPT !.idle = IF c \in @ THEN @ \ {c} ELSE @ \cup {c}]
    /\ UNCHANGED <<runs, configs, conds, lock, loop, past>>

-----------------------------------------------------------------------------

Tick(p) ==
    \/ ReadConfigs(p) \/ CommitPoll(p) \/ ReadConditions(p) \/ Announce(p) \/ CommitCheck(p) \/ EndTick(p)
    \/ \E r \in Run : SendAlert(p, r)
    \/ \E c \in Conn : FetchRuns(p, c) \/ FetchFails(p, c)
    \/ \E c \in Cond : Probe(p, c) \/ ProbeFails(p, c)

Next ==
    \/ \E p \in Poller : StartTick(p) \/ Tick(p) \/ CommitFails(p) \/ CheckFails(p) \/ Crash(p) \/ Restart(p)
    \/ \E c \in Conn : PollDue(c) \/ \E s \in Settings : SaveConfig(c, s)
    \/ \E c \in Cond : CheckDue(c) \/ SourceChanges(c)
    \/ \E r \in Run : RunFinishes(r) \/ IntervalPasses(KeyOf[r])
    \/ LockExpires \/ RunStarts \/ QuietHours

Spec == Init /\ [][Next]_vars

-----------------------------------------------------------------------------
(* Correctness *)

\* "so nothing is sent twice" (pipeline_poller.py:9), and what that is worth when
\* something goes wrong: a run is alerted once more for each mishap at most.
AlertedOnce == \A r \in Run : past.alerts[r] <= 1 + past.mishaps

\* Alerts go out before the run is remembered, never after: of a run that a poll has
\* remembered as handled, and that no poll will look at again therefore, it was
\* decided that nobody is told, or somebody was; whatever dies, overlaps or fails to
\* commit.  (It is about runs that a poll has seen finished.  One that leaves the
\* provider's list, a hundred runs of two days, before that is never decided about.)
RememberedIsDecided == \A c \in Conn : configs[c].seen \subseteq past.decided

\* "at most one alert per (pipeline, outcome) per min_interval_minutes"
\* (alert_suppression.py:6), also between the runs of one poll and across changes
\* of the settings, as long as there was no mishap.
OneAlertPerInterval ==
    [][\A p \in Poller : \A r \in loop[p].left :
          /\ past.mishaps = 0 /\ past.alerts'[r] # past.alerts[r]
          /\ loop[p].todo[loop[p].conn].set.throttle
          => KeyOf[r] \notin past.recent]_vars

\* "one notification when a condition trips and one on recovery"
\* (condition_checker.py:10): what the groups heard last of a condition is what it
\* is, except between an announcement and its commit, or after a mishap.
ToldMatches ==
    past.mishaps = 0 =>
        \A c \in Cond : past.told[c] = conds[c].triggered
                        \/ \E p \in Poller : loop[p].at = "checked" /\ loop[p].cond = c /\ loop[p].flip
===============================================================================
