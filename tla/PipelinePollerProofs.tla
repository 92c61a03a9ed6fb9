------------------------- MODULE PipelinePollerProofs -------------------------
(***************************************************************************)
(* What the alerts of PipelinePoller promise for every number of replicas, *)
(* connections and runs, with proofs.                                      *)
(***************************************************************************)
EXTENDS PipelinePoller, FiniteSetTheorems, TLAPS

Key == {KeyOf[r] : r \in Run}

Config == [set : Settings, first : BOOLEAN, due : BOOLEAN, seen : SUBSET Run, stamps : SUBSET Key]

\* What a tick has loaded.
Todo == UNION {[D -> Config] : D \in SUBSET Conn}
Checks == UNION {[D -> BOOLEAN] : D \in SUBSET Cond}

Loop ==
    [at : {"asleep", "dead", "started", "polling", "sending", "checking", "announcing", "checked"},
     todo : Todo, conn : Conn \cup {"none"}, new : SUBSET Run, left : SUBSET Run, added : SUBSET Key,
     checks : Checks, cond : Cond \cup {"none"}, flip : BOOLEAN]

Past == [alerts : [Run -> Nat], decided : SUBSET Run, recent : SUBSET Key, told : [Cond -> BOOLEAN], mishaps : Nat]

\* What is on hand was loaded, and what is not at hand is empty.
Placed(l) ==
    /\ l.at = "sending" => l.conn \in DOMAIN l.todo
    /\ l.at \in {"announcing", "checked"} => l.cond \in DOMAIN l.checks
    /\ l.at \notin {"polling", "sending"} => DOMAIN l.todo = {}
    /\ l.at \notin {"checking", "announcing", "checked"} => DOMAIN l.checks = {}
    /\ l.at # "sending" => l.left = {}
    /\ l.at \notin {"announcing", "checked"} => ~l.flip
    /\ l.at = "announcing" => l.flip

TypeOK ==
    /\ runs \in [started : 0..Runs, finished : SUBSET Run]
    /\ configs \in [Conn -> Config]
    /\ conds \in [Cond -> [due : BOOLEAN, triggered : BOOLEAN]]
    /\ world \in [idle : SUBSET Cond, quiet : BOOLEAN]
    /\ lock \in BOOLEAN
    /\ loop \in [Poller -> Loop]
    /\ past \in Past
    /\ \A p \in Poller : Placed(loop[p])

\* What a loop has on hand and will remember, D is decided about.
Known(l, D) ==
    /\ \A c \in DOMAIN l.todo : l.todo[c].seen \subseteq D
    /\ l.at = "sending" => l.new \ l.left \subseteq D

SeenInv == RememberedIsDecided /\ \A p \in Poller : Known(loop[p], past.decided)

\* The lock has kept the ticks apart.
OneInside == \A p, q \in Poller : Inside(p) /\ Inside(q) => p = q

ToldInv ==
    past.mishaps = 0 =>
       /\ OneInside
       /\ ToldMatches
       /\ \A p \in Poller :
             /\ \A c \in DOMAIN loop[p].checks : loop[p].checks[c] = conds[c].triggered
             /\ loop[p].at = "checked" /\ loop[p].flip => past.told[loop[p].cond] = ~loop[p].checks[loop[p].cond]

\* Key k is about to be stamped on the row of c.
Carries(l, k, c) == l.at = "sending" /\ l.conn = c /\ k \in l.added

\* What is left to send was planned for this connection, and may be sent.
Sendable(l, rows, recent) ==
    /\ \A c \in DOMAIN l.todo : l.todo[c].stamps = rows[c].stamps
    /\ \A r \in l.left : ConnOf[r] = l.conn /\ KeyOf[r] \in l.added
    /\ l.at = "sending" /\ l.todo[l.conn].set.throttle =>
          \A r \in l.left : KeyOf[r] \notin recent /\ \A q \in l.left : KeyOf[q] = KeyOf[r] => q = r

StampInv ==
    past.mishaps = 0 =>
       /\ OneInside
       /\ \A p \in Poller : Sendable(loop[p], configs, past.recent)
       /\ \A r \in Run : KeyOf[r] \in past.recent =>
             \/ KeyOf[r] \in configs[ConnOf[r]].stamps
             \/ \E p \in Poller : Carries(loop[p], KeyOf[r], ConnOf[r])

\* Run r was alerted by l, which will remember it.
Keeps(l, r) == l.at = "sending" /\ l.conn = ConnOf[r] /\ r \in l.new \ l.left

\* What l has loaded is what is stored, and what it will send nobody was told.
Fresh(l, rows, alerts) ==
    /\ \A c \in DOMAIN l.todo : l.todo[c].seen = rows[c].seen
    /\ \A r \in l.left : r \in l.new /\ ConnOf[r] = l.conn /\ alerts[r] = 0 /\ r \in 1..runs.started

\* Run r is news to nobody.
Gone(r, rows) == r \in 1..runs.started /\ (r \in rows[ConnOf[r]].seen \/ r \notin Listed(ConnOf[r]))

OnceInv ==
    past.mishaps = 0 =>
       /\ OneInside
       /\ \A p \in Poller : Fresh(loop[p], configs, past.alerts)
       /\ \A r \in Run : \/ past.alerts[r] = 0
                         \/ past.alerts[r] = 1 /\ Gone(r, configs)
                         \/ past.alerts[r] = 1 /\ r \in 1..runs.started /\ \E p \in Poller : Keeps(loop[p], r)

-----------------------------------------------------------------------------
(* Tables of what was loaded *)

LEMMA NothingLoaded == <<>> \in Todo /\ <<>> \in Checks /\ DOMAIN <<>> = {}
<1>1. <<>> = [c \in {} |-> TRUE]
  OBVIOUS
<1>2. [c \in {} |-> TRUE] \in [{} -> Config] /\ [c \in {} |-> TRUE] \in [{} -> BOOLEAN]
  OBVIOUS
<1> QED
  BY <1>1, <1>2 DEF Todo, Checks

LEMMA TodoEntry == ASSUME NEW f \in Todo, NEW c \in DOMAIN f PROVE c \in Conn /\ f[c] \in Config
  BY DEF Todo

LEMMA ChecksEntry == ASSUME NEW f \in Checks, NEW c \in DOMAIN f PROVE c \in Cond /\ f[c] \in BOOLEAN
  BY DEF Checks

LEMMA TodoDrop == ASSUME NEW f \in Todo, NEW c PROVE Drop(f, c) \in Todo
<1>1. PICK D \in SUBSET Conn : f \in [D -> Config]
  BY DEF Todo
<1>2. Drop(f, c) \in [D \ {c} -> Config]
  BY <1>1 DEF Drop
<1> QED
  BY <1>2 DEF Todo

LEMMA ChecksDrop == ASSUME NEW f \in Checks, NEW c PROVE Drop(f, c) \in Checks
<1>1. PICK D \in SUBSET Cond : f \in [D -> BOOLEAN]
  BY DEF Checks
<1>2. Drop(f, c) \in [D \ {c} -> BOOLEAN]
  BY <1>1 DEF Drop
<1> QED
  BY <1>2 DEF Checks

LEMMA AsleepIsLoop == Asleep \in Loop /\ Placed(Asleep) /\ Asleep.at = "asleep"
  BY NothingLoaded DEF Asleep, Loop, Placed

-----------------------------------------------------------------------------
(* Types *)

LEMMA InitTypes == Init => TypeOK
<1> SUFFICES ASSUME Init PROVE TypeOK
  OBVIOUS
<1>1. runs \in [started : 0..Runs, finished : SUBSET Run]
  BY PollerAssumption DEF Init
<1>2. configs \in [Conn -> Config]
  <2>1. \A s \in Settings : [set |-> s, first |-> TRUE, due |-> TRUE, seen |-> {}, stamps |-> {}] \in Config
    BY DEF Config
  <2> QED
    BY <2>1 DEF Init
<1>3. loop \in [Poller -> Loop]
  BY AsleepIsLoop DEF Init
<1>4. past \in Past
  BY DEF Init, Past
<1> QED
  BY <1>1, <1>2, <1>3, <1>4, AsleepIsLoop DEF Init, TypeOK

\* A step of one loop keeps the records of the others.
LEMMA AtLoop ==
    ASSUME TypeOK, NEW p \in Poller, NEW l \in Loop, Placed(l), At(p, l)
    PROVE  /\ loop' \in [Poller -> Loop]
           /\ \A q \in Poller : loop'[q] = IF q = p THEN l ELSE loop[q]
           /\ \A q \in Poller : Placed(loop'[q])
  BY DEF TypeOK, At

LEMMA ListedIsFinite == ASSUME TypeOK, NEW S \in SUBSET Run PROVE IsFiniteSet(S) /\ Cardinality(S) \in Nat
<1>1. IsFiniteSet(Run)
  BY PollerAssumption, FS_Interval DEF Run
<1> QED
  BY <1>1, FS_Subset, FS_CardinalityType

LEMMA MishapType == ASSUME TypeOK, NEW n \in Nat PROVE Mishap(n) \in Past
<1>1. past \in Past /\ past.mishaps + n \in Nat
  BY DEF TypeOK, Past
<1> QED
  BY <1>1 DEF Past, Mishap

-----------------------------------------------------------------------------

LEMMA MishapBy == ASSUME TypeOK, NEW n \in Nat, past' = Mishap(n) PROVE past' \in Past
  BY MishapType

LEMMA TickTypes == ASSUME TypeOK, NEW p \in Poller, Tick(p) PROVE TypeOK'
<1> DEFINE l == loop[p]
<1>0. l \in Loop /\ Placed(l)
  BY DEF TypeOK
<1>1. CASE ReadConfigs(p)
  <2> DEFINE due == {d \in Conn : configs[d].due /\ configs[d].set.enabled}
             todo == [c \in due |-> configs[c]]
             step == [l EXCEPT !.at = "polling", !.todo = todo]
  <2>1. todo \in [due -> Config] /\ due \in SUBSET Conn
    BY DEF TypeOK
  <2>2. todo \in Todo
    BY <2>1 DEF Todo
  <2>3. step \in Loop /\ Placed(step)
    BY <1>0, <1>1, <2>2 DEF Loop, Placed, ReadConfigs
  <2>4. At(p, step)
    BY <1>1 DEF ReadConfigs
  <2> HIDE DEF step
  <2> QED
    BY <1>1, <2>3, <2>4, AtLoop DEF ReadConfigs, TypeOK
<1>2. CASE CommitPoll(p)
  <2> DEFINE c == l.conn
             cfg == l.todo[c]
             row == configs[c]
             step == [Asleep EXCEPT !.at = "polling", !.todo = Drop(l.todo, c)]
  <2>0. c \in Conn /\ cfg \in Config
    BY <1>0, <1>2, TodoEntry DEF CommitPoll, Placed, Loop
  <2>1. PICK kept \in Remembered(cfg.seen, l.new) :
          /\ \E seen \in IF l.new = {} THEN {kept, row.seen} ELSE {kept} :
               configs' = [configs EXCEPT ![c] = [row EXCEPT !.first = FALSE, !.due = FALSE, !.seen = seen,
                         !.stamps = IF l.added = {} THEN @ ELSE cfg.stamps \cup l.added]]
          /\ past' = Mishap(Cardinality((cfg.seen \ kept) \cap Listed(c)))
    BY <1>2 DEF CommitPoll
  <2>2. kept \in SUBSET Run
    BY <1>0, <2>0 DEF Remembered, Loop, Config
  <2>3. configs' \in [Conn -> Config]
    <3>1. PICK seen \in IF l.new = {} THEN {kept, row.seen} ELSE {kept} :
            configs' = [configs EXCEPT ![c] = [row EXCEPT !.first = FALSE, !.due = FALSE, !.seen = seen,
                         !.stamps = IF l.added = {} THEN @ ELSE cfg.stamps \cup l.added]]
      BY <2>1
    <3>2. seen \in SUBSET Run /\ l.added \in SUBSET Key /\ cfg.stamps \in SUBSET Key /\ row \in Config
      BY <1>0, <2>0, <2>2, <3>1 DEF TypeOK, Config, Loop
    <3>3. [row EXCEPT !.first = FALSE, !.due = FALSE, !.seen = seen,
                      !.stamps = IF l.added = {} THEN @ ELSE cfg.stamps \cup l.added] \in Config
      BY <3>2 DEF Config
    <3> QED
      BY <2>0, <3>1, <3>3 DEF TypeOK
  <2>4. past' \in Past
    BY <2>0, <2>1, ListedIsFinite, MishapType DEF Config
  <2>5. step \in Loop /\ Placed(step)
    BY <1>0, TodoDrop, AsleepIsLoop DEF Loop, Placed
  <2>6. At(p, step)
    BY <1>2 DEF CommitPoll
  <2> HIDE DEF step
  <2> QED
    BY <1>2, <2>3, <2>4, <2>5, <2>6, AtLoop DEF CommitPoll, TypeOK
<1>3. CASE ReadConditions(p)
  <2> DEFINE due == {d \in Cond : conds[d].due}
             checks == [c \in due |-> conds[c].triggered]
             step == [Asleep EXCEPT !.at = "checking", !.checks = checks]
  <2>1. checks \in [due -> BOOLEAN] /\ due \in SUBSET Cond
    BY DEF TypeOK
  <2>2. checks \in Checks
    BY <2>1 DEF Checks
  <2>3. step \in Loop /\ Placed(step)
    BY <2>2, AsleepIsLoop DEF Loop, Placed
  <2>4. At(p, step)
    BY <1>3 DEF ReadConditions
  <2> HIDE DEF step
  <2> QED
    BY <1>3, <2>3, <2>4, AtLoop DEF ReadConditions, TypeOK
<1>4. CASE Announce(p)
  <2> DEFINE step == [l EXCEPT !.at = "checked"]
  <2>1. step \in Loop /\ Placed(step)
    BY <1>0, <1>4 DEF Loop, Placed, Announce
  <2>2. past' \in Past
    <3>1. l.cond \in Cond /\ l.checks[l.cond] \in BOOLEAN
      BY <1>0, <1>4, ChecksEntry DEF Announce, Placed, Loop
    <3> QED
      BY <1>4, <3>1 DEF Announce, TypeOK, Past
  <2>3. At(p, step)
    BY <1>4 DEF Announce
  <2> HIDE DEF step
  <2> QED
    BY <1>4, <2>1, <2>2, <2>3, AtLoop DEF Announce, TypeOK
<1>5. CASE CommitCheck(p)
  <2> DEFINE step == [Asleep EXCEPT !.at = "checking", !.checks = Drop(l.checks, l.cond)]
  <2>0. l.cond \in Cond /\ l.checks[l.cond] \in BOOLEAN
    BY <1>0, <1>5, ChecksEntry DEF CommitCheck, Placed, Loop
  <2>1. step \in Loop /\ Placed(step)
    BY <1>0, ChecksDrop, AsleepIsLoop DEF Loop, Placed
  <2>2. conds' \in [Cond -> [due : BOOLEAN, triggered : BOOLEAN]]
    <3>1. conds' = [conds EXCEPT ![l.cond] =
                      [due |-> FALSE, triggered |-> IF l.flip THEN ~l.checks[l.cond] ELSE @.triggered]]
      BY <1>5 DEF CommitCheck
    <3>2. (IF l.flip THEN ~l.checks[l.cond] ELSE conds[l.cond].triggered) \in BOOLEAN
      BY <2>0 DEF TypeOK
    <3> QED
      BY <2>0, <3>1, <3>2 DEF TypeOK
  <2>3. At(p, step)
    BY <1>5 DEF CommitCheck
  <2> HIDE DEF step
  <2> QED
    BY <1>5, <2>1, <2>2, <2>3, AtLoop DEF CommitCheck, TypeOK
<1>6. CASE EndTick(p)
  BY <1>6, AsleepIsLoop, AtLoop DEF EndTick, TypeOK
<1>7. ASSUME NEW r \in Run, SendAlert(p, r) PROVE TypeOK'
  <2> DEFINE step == [l EXCEPT !.left = @ \ {r}]
  <2>1. step \in Loop /\ Placed(step)
    BY <1>0 DEF Loop, Placed
  <2>2. past' \in Past
    <3>1. KeyOf[r] \in Key
      BY DEF Key
    <3>2. [past.alerts EXCEPT ![r] = @ + 1] \in [Run -> Nat]
      BY DEF TypeOK, Past
    <3> QED
      BY <1>7, <3>1, <3>2 DEF SendAlert, TypeOK, Past
  <2>3. At(p, step)
    BY <1>7 DEF SendAlert
  <2> HIDE DEF step
  <2> QED
    BY <1>7, <2>1, <2>2, <2>3, AtLoop DEF SendAlert, TypeOK
<1>8. ASSUME NEW c \in Conn, FetchRuns(p, c) PROVE TypeOK'
  <2> DEFINE cfg == l.todo[c]
             new == {r \in Listed(c) \cap runs.finished : r \notin cfg.seen}
  <2>1. PICK plan \in IF cfg.first THEN {{}} ELSE Planned(Loud(new, cfg.set), cfg) :
          /\ At(p, [l EXCEPT !.at = "sending", !.conn = c, !.new = new, !.left = plan,
                             !.added = {KeyOf[r] : r \in plan}])
          /\ past' = [past EXCEPT !.decided = @ \cup (new \ plan)]
    BY <1>8 DEF FetchRuns
  <2> DEFINE step == [l EXCEPT !.at = "sending", !.conn = c, !.new = new, !.left = plan,
                               !.added = {KeyOf[r] : r \in plan}]
  <2>2. new \in SUBSET Run /\ plan \in SUBSET new
    <3>1. new \in SUBSET Run /\ Loud(new, cfg.set) \in SUBSET new
      BY DEF TypeOK, Loud
    <3>2. \A s \in Planned(Loud(new, cfg.set), cfg) : s \in SUBSET Loud(new, cfg.set)
      BY DEF Planned
    <3> QED
      BY <2>1, <3>1, <3>2
  <2>3. {KeyOf[r] : r \in plan} \in SUBSET Key
    BY <2>2 DEF Key
  <2>4. step \in Loop /\ Placed(step)
    BY <1>0, <1>8, <2>2, <2>3 DEF Loop, Placed, FetchRuns
  <2>5. past' \in Past
    BY <2>1, <2>2 DEF TypeOK, Past
  <2>6. At(p, step)
    BY <2>1
  <2> HIDE DEF step
  <2> QED
    BY <1>8, <2>4, <2>5, <2>6, AtLoop DEF FetchRuns, TypeOK
<1>9. ASSUME NEW c \in Conn, FetchFails(p, c) PROVE TypeOK'
  <2> DEFINE step == [l EXCEPT !.todo = Drop(@, c)]
  <2>1. step \in Loop /\ Placed(step)
    BY <1>0, <1>9, TodoDrop DEF Loop, Placed, FetchFails
  <2>2. At(p, step)
    BY <1>9 DEF FetchFails
  <2> HIDE DEF step
  <2> QED
    BY <1>9, <2>1, <2>2, AtLoop DEF FetchFails, TypeOK
<1>10. ASSUME NEW c \in Cond, Probe(p, c) PROVE TypeOK'
  <2> DEFINE flip == (c \in world.idle) # l.checks[c]
             step == [l EXCEPT !.at = IF flip THEN "announcing" ELSE "checked", !.cond = c, !.flip = flip]
  <2>1. flip \in BOOLEAN
    OBVIOUS
  <2>2. At(p, step) /\ c \in DOMAIN l.checks /\ l.at = "checking"
    BY <1>10 DEF Probe
  <2> HIDE DEF flip
  <2>3. step \in Loop /\ Placed(step)
    BY <1>0, <2>1, <2>2 DEF Loop, Placed
  <2> HIDE DEF step
  <2> QED
    BY <1>10, <2>2, <2>3, AtLoop DEF Probe, TypeOK
<1>11. ASSUME NEW c \in Cond, ProbeFails(p, c) PROVE TypeOK'
  <2> DEFINE step == [l EXCEPT !.at = "checked", !.cond = c]
  <2>1. step \in Loop /\ Placed(step)
    BY <1>0, <1>11 DEF Loop, Placed, ProbeFails
  <2>2. At(p, step)
    BY <1>11 DEF ProbeFails
  <2> HIDE DEF step
  <2> QED
    BY <1>11, <2>1, <2>2, AtLoop DEF ProbeFails, TypeOK
<1> QED
  BY <1>1, <1>2, <1>3, <1>4, <1>5, <1>6, <1>7, <1>8, <1>9, <1>10, <1>11 DEF Tick

LEMMA AgedTodo == ASSUME NEW f \in Todo, NEW k PROVE Aged(f, k) \in Todo
<1>1. PICK D \in SUBSET Conn : f \in [D -> Config]
  BY DEF Todo
<1>2. \A c \in D : [f[c] EXCEPT !.stamps = @ \ {k}] \in Config
  BY <1>1 DEF Config
<1>3. Aged(f, k) \in [D -> Config]
  BY <1>1, <1>2 DEF Aged
<1> QED
  BY <1>3 DEF Todo

LEMMA StepTypes == TypeOK /\ [Next]_vars => TypeOK'
<1> SUFFICES ASSUME TypeOK, [Next]_vars PROVE TypeOK'
  OBVIOUS
<1>1. ASSUME NEW p \in Poller, StartTick(p) PROVE TypeOK'
  <2> DEFINE step == [Asleep EXCEPT !.at = "started"]
  <2>1. step \in Loop /\ Placed(step)
    BY AsleepIsLoop DEF Loop, Placed
  <2>2. At(p, step) /\ lock' \in BOOLEAN
    BY <1>1 DEF StartTick, TypeOK
  <2>3. past' \in Past
    BY <1>1, MishapBy DEF StartTick
  <2> HIDE DEF step
  <2> QED
    BY <1>1, <2>1, <2>2, <2>3, AtLoop DEF StartTick, TypeOK
<1>2. ASSUME NEW p \in Poller, Tick(p) PROVE TypeOK'
  BY <1>2, TickTypes
<1>3. ASSUME NEW p \in Poller, CommitFails(p) PROVE TypeOK'
  BY <1>3, AsleepIsLoop, AtLoop, MishapBy DEF CommitFails, TypeOK
<1>4. ASSUME NEW p \in Poller, CheckFails(p) PROVE TypeOK'
  BY <1>4, AsleepIsLoop, AtLoop, MishapBy DEF CheckFails, TypeOK
<1>5. ASSUME NEW p \in Poller, Crash(p) PROVE TypeOK'
  <2> DEFINE step == [Asleep EXCEPT !.at = "dead"]
  <2>1. step \in Loop /\ Placed(step)
    BY AsleepIsLoop DEF Loop, Placed
  <2>2. At(p, step) /\ past' \in Past
    BY <1>5, MishapBy DEF Crash
  <2> HIDE DEF step
  <2> QED
    BY <1>5, <2>1, <2>2, AtLoop DEF Crash, TypeOK
<1>6. ASSUME NEW p \in Poller, Restart(p) PROVE TypeOK'
  BY <1>6, AsleepIsLoop, AtLoop DEF Restart, TypeOK
<1>7. ASSUME NEW c \in Conn, PollDue(c) PROVE TypeOK'
  BY <1>7, ZenonT(40) DEF PollDue, TypeOK, Config
<1>8. ASSUME NEW c \in Conn, NEW s \in Settings, SaveConfig(c, s) PROVE TypeOK'
  BY <1>8, ZenonT(40) DEF SaveConfig, TypeOK, Config
<1>9. ASSUME NEW c \in Cond, CheckDue(c) PROVE TypeOK'
  BY <1>9 DEF CheckDue, TypeOK
<1>10. ASSUME NEW c \in Cond, SourceChanges(c) PROVE TypeOK'
  BY <1>10 DEF SourceChanges, TypeOK
<1>11. ASSUME NEW r \in Run, RunFinishes(r) PROVE TypeOK'
  BY <1>11 DEF RunFinishes, TypeOK
<1>12. ASSUME NEW k \in Key, IntervalPasses(k) PROVE TypeOK'
  <2> DEFINE aged(l) == [l EXCEPT !.added = @ \ {k}, !.todo = Aged(@, k)]
  <2>1. configs' \in [Conn -> Config]
    <3>1. configs' = [c \in Conn |-> [configs[c] EXCEPT !.stamps = @ \ {k}]]
      BY <1>12 DEF IntervalPasses, Aged, TypeOK
    <3>2. \A c \in Conn : [configs[c] EXCEPT !.stamps = @ \ {k}] \in Config
      BY DEF TypeOK, Config
    <3> QED
      BY <3>1, <3>2
  <2>2. \A p \in Poller : aged(loop[p]) \in Loop /\ Placed(aged(loop[p]))
    <3> SUFFICES ASSUME NEW p \in Poller PROVE aged(loop[p]) \in Loop /\ Placed(aged(loop[p]))
      OBVIOUS
    <3> DEFINE l == loop[p]
    <3>1. l \in Loop /\ Placed(l)
      BY DEF TypeOK
    <3>2. Aged(l.todo, k) \in Todo /\ DOMAIN Aged(l.todo, k) = DOMAIN l.todo
      BY <3>1, AgedTodo DEF Loop, Aged
    <3> HIDE DEF l
    <3> QED
      BY <3>1, <3>2 DEF Loop, Placed, l
  <2>3. loop' = [p \in Poller |-> aged(loop[p])]
    BY <1>12 DEF IntervalPasses
  <2>4. past' \in Past
    BY <1>12 DEF IntervalPasses, TypeOK, Past
  <2>5. UNCHANGED <<runs, conds, world, lock>>
    BY <1>12 DEF IntervalPasses
  <2> HIDE DEF aged
  <2>6. loop' \in [Poller -> Loop] /\ \A p \in Poller : Placed(loop'[p])
    BY <2>2, <2>3
  <2> QED
    BY <2>1, <2>4, <2>5, <2>6 DEF TypeOK
<1>13. CASE LockExpires
  BY <1>13 DEF LockExpires, TypeOK
<1>14. CASE RunStarts
  <2>1. runs' \in [started : 0..Runs, finished : SUBSET Run]
    <3>1. runs.started + 1 \in 0..Runs
      BY <1>14, PollerAssumption DEF RunStarts, TypeOK
    <3> QED
      BY <1>14, <3>1 DEF RunStarts, TypeOK
  <2> QED
    BY <1>14, <2>1 DEF RunStarts, TypeOK
<1>15. CASE QuietHours
  BY <1>15 DEF QuietHours, TypeOK
<1>16. CASE UNCHANGED vars
  BY <1>16 DEF vars, TypeOK
<1> QED
  BY <1>1, <1>2, <1>3, <1>4, <1>5, <1>6, <1>7, <1>8, <1>9, <1>10, <1>11, <1>12, <1>13, <1>14, <1>15, <1>16
  DEF Next, Key

\* Every variable keeps its type, and what a tick has on hand is what it has loaded.
THEOREM TypeCorrect == Spec => []TypeOK
<1> QED
  BY InitTypes, StepTypes, PTL DEF Spec

-----------------------------------------------------------------------------
(* No run is forgotten *)

LEMMA LoopAt ==
    ASSUME TypeOK, NEW p \in Poller, NEW l, At(p, l)
    PROVE  \A q \in Poller : loop'[q] = IF q = p THEN l ELSE loop[q]
  BY DEF TypeOK, At

LEMMA KnownAt ==
    ASSUME TypeOK, SeenInv, NEW p \in Poller, NEW l, At(p, l),
           past.decided \subseteq past'.decided, Known(l, past'.decided)
    PROVE  \A q \in Poller : Known(loop'[q], past'.decided)
<1>1. \A q \in Poller : Known(loop[q], past'.decided)
  BY DEF SeenInv, Known
<1> QED
  BY <1>1, LoopAt

LEMMA AsleepKnown == ASSUME NEW D, NEW at, at # "sending" PROVE Known([Asleep EXCEPT !.at = at], D)
  BY AsleepIsLoop DEF Loop, Placed, Known

LEMMA TickSeen == ASSUME TypeOK, SeenInv, NEW p \in Poller, Tick(p) PROVE SeenInv'
<1> DEFINE l == loop[p]
           D == past.decided
<1>0. l \in Loop /\ Placed(l) /\ Known(l, D)
  BY DEF TypeOK, SeenInv
<1>1. CASE ReadConfigs(p)
  <2> DEFINE todo == [c \in {d \in Conn : configs[d].due /\ configs[d].set.enabled} |-> configs[c]]
             step == [l EXCEPT !.at = "polling", !.todo = todo]
  <2>1. Known(step, D)
    BY <1>0 DEF Loop, Known, SeenInv, RememberedIsDecided
  <2>2. At(p, step)
    BY <1>1 DEF ReadConfigs
  <2> HIDE DEF step
  <2> QED
    BY <1>1, <2>1, <2>2, KnownAt DEF ReadConfigs, SeenInv, RememberedIsDecided
<1>2. CASE CommitPoll(p)
  <2> DEFINE c == l.conn
             cfg == l.todo[c]
             row == configs[c]
             step == [Asleep EXCEPT !.at = "polling", !.todo = Drop(l.todo, c)]
  <2>1. PICK kept \in Remembered(cfg.seen, l.new) :
          /\ \E seen \in IF l.new = {} THEN {kept, row.seen} ELSE {kept} :
               configs' = [configs EXCEPT ![c] = [row EXCEPT !.first = FALSE, !.due = FALSE, !.seen = seen,
                         !.stamps = IF l.added = {} THEN @ ELSE cfg.stamps \cup l.added]]
          /\ past' = Mishap(Cardinality((cfg.seen \ kept) \cap Listed(c)))
    BY <1>2 DEF CommitPoll
  <2>2. PICK seen \in IF l.new = {} THEN {kept, row.seen} ELSE {kept} :
               configs' = [configs EXCEPT ![c] = [row EXCEPT !.first = FALSE, !.due = FALSE, !.seen = seen,
                         !.stamps = IF l.added = {} THEN @ ELSE cfg.stamps \cup l.added]]
    BY <2>1
  <2>3. c \in DOMAIN l.todo /\ c \in Conn /\ row \in Config
    BY <1>0, <1>2, TodoEntry DEF CommitPoll, Placed, Loop, TypeOK
  <2>4. cfg.seen \subseteq D /\ l.new \subseteq D
    BY <1>0, <1>2, <2>3 DEF CommitPoll, Known
  <2>5. seen \subseteq D
    BY <2>2, <2>3, <2>4 DEF Remembered, SeenInv, RememberedIsDecided
  <2>6. past'.decided = D
    BY <2>1 DEF Mishap, TypeOK, Past
  <2>7. RememberedIsDecided'
    BY <2>2, <2>3, <2>5, <2>6 DEF TypeOK, Config, SeenInv, RememberedIsDecided
  <2>8. Known(step, D)
    BY <1>0, AsleepIsLoop DEF Known, Loop, Drop
  <2>9. At(p, step)
    BY <1>2 DEF CommitPoll
  <2> HIDE DEF step
  <2> QED
    BY <2>6, <2>7, <2>8, <2>9, KnownAt DEF SeenInv
<1>3. CASE ReadConditions(p)
  <2> DEFINE checks == [c \in {d \in Cond : conds[d].due} |-> conds[c].triggered]
             step == [Asleep EXCEPT !.at = "checking", !.checks = checks]
  <2>1. Known(step, D)
    BY AsleepIsLoop DEF Loop, Placed, Known
  <2>2. At(p, step)
    BY <1>3 DEF ReadConditions
  <2> HIDE DEF step
  <2> QED
    BY <1>3, <2>1, <2>2, KnownAt DEF ReadConditions, SeenInv, RememberedIsDecided
<1>4. CASE Announce(p)
  <2> DEFINE step == [l EXCEPT !.at = "checked"]
  <2>1. Known(step, D)
    BY <1>0 DEF Loop, Known
  <2>2. At(p, step)
    BY <1>4 DEF Announce
  <2>3. past'.decided = D
    BY <1>4 DEF Announce, TypeOK, Past
  <2> HIDE DEF step
  <2> QED
    BY <1>4, <2>1, <2>2, <2>3, KnownAt DEF Announce, SeenInv, RememberedIsDecided
<1>5. CASE CommitCheck(p)
  <2> DEFINE step == [Asleep EXCEPT !.at = "checking", !.checks = Drop(l.checks, l.cond)]
  <2>1. Known(step, D)
    BY AsleepIsLoop DEF Loop, Placed, Known
  <2>2. At(p, step)
    BY <1>5 DEF CommitCheck
  <2> HIDE DEF step
  <2> QED
    BY <1>5, <2>1, <2>2, KnownAt DEF CommitCheck, SeenInv, RememberedIsDecided
<1>6. CASE EndTick(p)
  <2>1. Known(Asleep, D)
    BY AsleepIsLoop DEF Placed, Known
  <2> QED
    BY <1>6, <2>1, KnownAt DEF EndTick, SeenInv, RememberedIsDecided
<1>7. ASSUME NEW r \in Run, SendAlert(p, r) PROVE SeenInv'
  <2> DEFINE step == [l EXCEPT !.left = @ \ {r}]
  <2>1. past'.decided = D \cup {r}
    BY <1>7 DEF SendAlert, TypeOK, Past
  <2>2. Known(step, D \cup {r})
    BY <1>0 DEF Loop, Known
  <2>3. At(p, step)
    BY <1>7 DEF SendAlert
  <2> HIDE DEF step
  <2> QED
    BY <1>7, <2>1, <2>2, <2>3, KnownAt DEF SendAlert, SeenInv, RememberedIsDecided
<1>8. ASSUME NEW c \in Conn, FetchRuns(p, c) PROVE SeenInv'
  <2> DEFINE cfg == l.todo[c]
             new == {r \in Listed(c) \cap runs.finished : r \notin cfg.seen}
  <2>1. PICK plan \in IF cfg.first THEN {{}} ELSE Planned(Loud(new, cfg.set), cfg) :
          /\ At(p, [l EXCEPT !.at = "sending", !.conn = c, !.new = new, !.left = plan,
                             !.added = {KeyOf[r] : r \in plan}])
          /\ past' = [past EXCEPT !.decided = @ \cup (new \ plan)]
    BY <1>8 DEF FetchRuns
  <2> DEFINE step == [l EXCEPT !.at = "sending", !.conn = c, !.new = new, !.left = plan,
                               !.added = {KeyOf[r] : r \in plan}]
  <2>2. past'.decided = D \cup (new \ plan)
    BY <2>1 DEF TypeOK, Past
  <2>3. Known(step, D \cup (new \ plan))
    BY <1>0 DEF Loop, Known
  <2>4. At(p, step)
    BY <2>1
  <2> HIDE DEF step
  <2> QED
    BY <1>8, <2>2, <2>3, <2>4, KnownAt DEF FetchRuns, SeenInv, RememberedIsDecided
<1>9. ASSUME NEW c \in Conn, FetchFails(p, c) PROVE SeenInv'
  <2> DEFINE step == [l EXCEPT !.todo = Drop(@, c)]
  <2>1. Known(step, D)
    BY <1>0 DEF Known, Loop, Drop
  <2>2. At(p, step)
    BY <1>9 DEF FetchFails
  <2> HIDE DEF step
  <2> QED
    BY <1>9, <2>1, <2>2, KnownAt DEF FetchFails, SeenInv, RememberedIsDecided
<1>10. ASSUME NEW c \in Cond, Probe(p, c) PROVE SeenInv'
  <2> DEFINE flip == (c \in world.idle) # l.checks[c]
             step == [l EXCEPT !.at = IF flip THEN "announcing" ELSE "checked", !.cond = c, !.flip = flip]
  <2>1. At(p, step)
    BY <1>10 DEF Probe
  <2> HIDE DEF flip
  <2>2. Known(step, D)
    BY <1>0 DEF Loop, Known
  <2> HIDE DEF step
  <2> QED
    BY <1>10, <2>1, <2>2, KnownAt DEF Probe, SeenInv, RememberedIsDecided
<1>11. ASSUME NEW c \in Cond, ProbeFails(p, c) PROVE SeenInv'
  <2> DEFINE step == [l EXCEPT !.at = "checked", !.cond = c]
  <2>1. Known(step, D)
    BY <1>0 DEF Loop, Known
  <2>2. At(p, step)
    BY <1>11 DEF ProbeFails
  <2> HIDE DEF step
  <2> QED
    BY <1>11, <2>1, <2>2, KnownAt DEF ProbeFails, SeenInv, RememberedIsDecided
<1> QED
  BY <1>1, <1>2, <1>3, <1>4, <1>5, <1>6, <1>7, <1>8, <1>9, <1>10, <1>11 DEF Tick

LEMMA StepSeen == TypeOK /\ SeenInv /\ [Next]_vars => SeenInv'
<1> SUFFICES ASSUME TypeOK, SeenInv, [Next]_vars PROVE SeenInv'
  OBVIOUS
<1>0. \A n \in Nat : Mishap(n).decided = past.decided
  BY DEF Mishap, TypeOK, Past
<1>a. \A D : Known(Asleep, D)
  BY AsleepIsLoop DEF Placed, Known
<1>1. ASSUME NEW p \in Poller, StartTick(p) PROVE SeenInv'
  BY <1>0, <1>1, AsleepKnown, KnownAt DEF StartTick, SeenInv, RememberedIsDecided
<1>2. ASSUME NEW p \in Poller, Tick(p) PROVE SeenInv'
  BY <1>2, TickSeen
<1>3. ASSUME NEW p \in Poller, CommitFails(p) \/ CheckFails(p) PROVE SeenInv'
  BY <1>0, <1>a, <1>3, KnownAt DEF CommitFails, CheckFails, SeenInv, RememberedIsDecided
<1>4. ASSUME NEW p \in Poller, Crash(p) PROVE SeenInv'
  BY <1>0, <1>4, AsleepKnown, KnownAt DEF Crash, SeenInv, RememberedIsDecided
<1>5. ASSUME NEW p \in Poller, Restart(p) PROVE SeenInv'
  BY <1>a, <1>5, KnownAt DEF Restart, SeenInv, RememberedIsDecided
<1>6. ASSUME NEW c \in Conn, PollDue(c) PROVE SeenInv'
  BY <1>6 DEF PollDue, TypeOK, Config, SeenInv, RememberedIsDecided
<1>7. ASSUME NEW c \in Conn, NEW s \in Settings, SaveConfig(c, s) PROVE SeenInv'
  BY <1>7 DEF SaveConfig, TypeOK, Config, SeenInv, RememberedIsDecided
<1>8. ASSUME NEW k \in Key, IntervalPasses(k) PROVE SeenInv'
  <2>1. past'.decided = past.decided
    BY <1>8 DEF IntervalPasses, TypeOK, Past
  <2>2. \A c \in Conn : configs'[c].seen = configs[c].seen
    BY <1>8 DEF IntervalPasses, Aged, TypeOK, Config
  <2>3. ASSUME NEW p \in Poller PROVE Known(loop'[p], past.decided)
    <3>1. loop[p] \in Loop /\ Known(loop[p], past.decided)
      BY DEF TypeOK, SeenInv
    <3>2. loop'[p] = [loop[p] EXCEPT !.added = @ \ {k}, !.todo = Aged(@, k)]
      BY <1>8 DEF IntervalPasses
    <3>3. \A c \in DOMAIN loop[p].todo : Aged(loop[p].todo, k)[c].seen = loop[p].todo[c].seen
      BY <3>1, TodoEntry DEF Aged, Loop, Config
    <3> QED
      BY <3>1, <3>2, <3>3 DEF Loop, Known, Aged
  <2> QED
    BY <2>1, <2>2, <2>3 DEF SeenInv, RememberedIsDecided
<1>9. CASE UNCHANGED <<configs, loop, past>>
  BY <1>9 DEF SeenInv, RememberedIsDecided
<1> QED
  BY <1>1, <1>2, <1>3, <1>4, <1>5, <1>6, <1>7, <1>8, <1>9
  DEF Next, Key, CheckDue, SourceChanges, RunFinishes, LockExpires, RunStarts, QuietHours, vars

\* Of a run that is remembered as handled, somebody was told or it was decided that
\* nobody is, whatever dies, overlaps, fails to commit or is forgotten.  A run that
\* no poll has seen finished is not remembered, and not promised anything here.
THEOREM RememberedRunsAreDecided == Spec => []RememberedIsDecided
<1>1. Init => SeenInv
  <2> SUFFICES ASSUME Init PROVE SeenInv
    OBVIOUS
  <2>1. \A p \in Poller : loop[p] = Asleep
    BY DEF Init
  <2>2. \A c \in Conn : configs[c].seen = {}
    BY DEF Init
  <2> QED
    BY <2>1, <2>2, AsleepIsLoop DEF SeenInv, RememberedIsDecided, Known, Placed
<1>2. SeenInv => RememberedIsDecided
  BY DEF SeenInv
<1> QED
  BY <1>1, <1>2, StepSeen, TypeCorrect, PTL DEF Spec

-----------------------------------------------------------------------------
(* As long as the ticks do not overlap *)

\* A behaviour without a mishap so far had none before, and its ticks do not overlap.
LEMMA CalmBefore ==
    ASSUME TypeOK, NEW n \in Nat, past' = Mishap(n), past'.mishaps = 0
    PROVE  n = 0 /\ past.mishaps = 0
<1>1. past \in Past /\ past'.mishaps = past.mishaps + n
  BY DEF TypeOK, Past, Mishap
<1> QED
  BY <1>1 DEF Past

\* Inside a tick, every other loop sleeps with nothing on hand.
LEMMA OthersRest ==
    ASSUME TypeOK, OneInside, NEW p \in Poller, Inside(p)
    PROVE  \A q \in Poller \ {p} : /\ loop[q].at \in {"asleep", "dead"} /\ loop[q].left = {}
                                   /\ DOMAIN loop[q].todo = {} /\ DOMAIN loop[q].checks = {}
  BY DEF TypeOK, OneInside, Inside, Placed

LEMMA OneInsideAt ==
    ASSUME TypeOK, OneInside, NEW p \in Poller, Inside(p), NEW l, At(p, l)
    PROVE  OneInside'
  BY LoopAt DEF OneInside, Inside

LEMMA TickCalm == ASSUME TypeOK, NEW p \in Poller, Tick(p) PROVE Inside(p) /\ (past'.mishaps = 0 => past.mishaps = 0)
<1>1. Inside(p)
  BY DEF Tick, Inside, ReadConfigs, CommitPoll, ReadConditions, Announce, CommitCheck, EndTick, SendAlert,
         FetchRuns, FetchFails, Probe, ProbeFails
<1>2. CASE CommitPoll(p)
  <2>1. PICK kept \in Remembered(loop[p].todo[loop[p].conn].seen, loop[p].new) :
          past' = Mishap(Cardinality((loop[p].todo[loop[p].conn].seen \ kept) \cap Listed(loop[p].conn)))
    BY <1>2 DEF CommitPoll
  <2>2. (loop[p].todo[loop[p].conn].seen \ kept) \cap Listed(loop[p].conn) \in SUBSET Run
    BY PollerAssumption DEF Listed, TypeOK, Run
  <2> QED
    BY <1>1, <2>1, <2>2, ListedIsFinite, CalmBefore
<1>3. CASE ~CommitPoll(p)
  <2>1. past'.mishaps = past.mishaps
    BY <1>3 DEF Tick, ReadConfigs, ReadConditions, Announce, CommitCheck, EndTick, SendAlert,
                FetchRuns, FetchFails, Probe, ProbeFails, TypeOK, Past
  <2> QED
    BY <1>1, <2>1
<1> QED
  BY <1>2, <1>3

LEMMA StepOneInside ==
    ASSUME TypeOK, past.mishaps = 0 => OneInside, [Next]_vars, past'.mishaps = 0
    PROVE  past.mishaps = 0 /\ OneInside'
<1>1. ASSUME NEW p \in Poller, StartTick(p) PROVE past.mishaps = 0 /\ OneInside'
  <2> DEFINE n == IF \E q \in Poller : Inside(q) THEN 1 ELSE 0
  <2>1. past' = Mishap(n) /\ n \in Nat
    BY <1>1 DEF StartTick
  <2>2. past.mishaps = 0 /\ \A q \in Poller : ~Inside(q)
    BY <2>1, CalmBefore
  <2> QED
    BY <1>1, <2>2, LoopAt DEF StartTick, OneInside, Inside
<1>2. ASSUME NEW p \in Poller, Tick(p) PROVE past.mishaps = 0 /\ OneInside'
  <2>1. Inside(p) /\ past.mishaps = 0
    BY <1>2, TickCalm
  <2>2. \E l : At(p, l)
    BY <1>2 DEF Tick, ReadConfigs, CommitPoll, ReadConditions, Announce, CommitCheck, EndTick, SendAlert,
                FetchRuns, FetchFails, Probe, ProbeFails
  <2> QED
    BY <2>1, <2>2, OneInsideAt
<1>3. ASSUME NEW p \in Poller, CommitFails(p) \/ CheckFails(p) \/ Crash(p) PROVE FALSE
  BY <1>3, CalmBefore DEF CommitFails, CheckFails, Crash
<1>4. ASSUME NEW p \in Poller, Restart(p) PROVE past.mishaps = 0 /\ OneInside'
  BY <1>4, LoopAt, AsleepIsLoop DEF Restart, OneInside, Inside
<1>5. ASSUME NEW k \in Key, IntervalPasses(k) PROVE past.mishaps = 0 /\ OneInside'
  <2>1. past'.mishaps = past.mishaps
    BY <1>5 DEF IntervalPasses, TypeOK, Past
  <2>2. \A p \in Poller : loop'[p].at = loop[p].at
    BY <1>5, ZenonT(40) DEF IntervalPasses, TypeOK, Loop
  <2> QED
    BY <2>1, <2>2 DEF OneInside, Inside
<1>6. CASE UNCHANGED <<loop, past>>
  BY <1>6 DEF OneInside, Inside
<1> QED
  BY <1>1, <1>2, <1>3, <1>4, <1>5, <1>6
  DEF Next, Key, PollDue, SaveConfig, CheckDue, SourceChanges, RunFinishes, LockExpires, RunStarts, QuietHours, vars

-----------------------------------------------------------------------------
(* What the groups heard of a condition *)

\* What was heard of c is what it is, but for a change that l is about to write.
Heard(c, l, row, said) == said.told[c] = row[c].triggered \/ (l.at = "checked" /\ l.cond = c /\ l.flip)

LEMMA ToldAt ==
    ASSUME TypeOK, OneInside, NEW p \in Poller, Inside(p), NEW l, At(p, l),
           \A c \in DOMAIN l.checks : l.checks[c] = conds'[c].triggered,
           l.at = "checked" /\ l.flip => past'.told[l.cond] = ~l.checks[l.cond],
           \A c \in Cond : Heard(c, l, conds', past')
    PROVE  ToldInv'
<1>1. \A q \in Poller : loop'[q] = IF q = p THEN l ELSE loop[q]
  BY LoopAt
<1>2. ToldMatches'
  BY <1>1 DEF ToldMatches, Heard
<1>3. ASSUME NEW q \in Poller
      PROVE  /\ \A c \in DOMAIN loop'[q].checks : loop'[q].checks[c] = conds'[c].triggered
             /\ loop'[q].at = "checked" /\ loop'[q].flip
                => past'.told[loop'[q].cond] = ~loop'[q].checks[loop'[q].cond]
  <2>1. CASE q = p
    BY <1>1, <2>1
  <2>2. CASE q # p
    BY <1>1, <2>2, OthersRest
  <2> QED
    BY <2>1, <2>2
<1> QED
  BY <1>2, <1>3, OneInsideAt DEF ToldInv

LEMMA TickTold == ASSUME TypeOK, ToldInv, NEW p \in Poller, Tick(p), past'.mishaps = 0 PROVE ToldInv'
<1> DEFINE l == loop[p]
<1>0. /\ l \in Loop /\ Placed(l) /\ past.mishaps = 0 /\ Inside(p) /\ OneInside
      /\ \A c \in DOMAIN l.checks : l.checks[c] = conds[c].triggered
      /\ l.at = "checked" /\ l.flip => past.told[l.cond] = ~l.checks[l.cond]
  BY TickCalm DEF TypeOK, ToldInv
<1>a. \A c \in Cond : Heard(c, l, conds, past)
  BY <1>0, OthersRest DEF ToldInv, ToldMatches, Heard
<1>b. loop' = [loop EXCEPT ![p] = loop'[p]] /\ TypeOK'
  BY TickTypes DEF Tick, ReadConfigs, CommitPoll, ReadConditions, Announce, CommitCheck, EndTick, SendAlert,
     FetchRuns, FetchFails, Probe, ProbeFails, At, TypeOK
<1>1. CASE /\ l.at \in {"started", "polling", "sending"} /\ loop'[p].at \in {"asleep", "polling", "sending"}
           /\ UNCHANGED conds /\ past'.told = past.told
  <2>1. DOMAIN loop'[p].checks = {} /\ loop'[p].at # "checked"
    BY <1>1, <1>b DEF TypeOK, Placed
  <2>2. \A c \in Cond : Heard(c, loop'[p], conds', past')
    BY <1>1, <1>a DEF Heard
  <2> QED
    BY <1>0, <1>b, <2>1, <2>2, ToldAt DEF At
<1>2. CASE ReadConditions(p)
  <2> DEFINE checks == [c \in {d \in Cond : conds[d].due} |-> conds[c].triggered]
             step == [Asleep EXCEPT !.at = "checking", !.checks = checks]
  <2>1. At(p, step) /\ UNCHANGED <<conds, past>> /\ l.at = "polling"
    BY <1>2 DEF ReadConditions
  <2>2. step.checks = checks /\ step.at = "checking"
    BY AsleepIsLoop DEF Loop
  <2>3. \A c \in DOMAIN checks : checks[c] = conds[c].triggered
    OBVIOUS
  <2> HIDE DEF step, checks
  <2>4. \A c \in Cond : Heard(c, step, conds', past')
    BY <1>a, <2>1 DEF Heard
  <2> QED
    BY <1>0, <2>1, <2>2, <2>3, <2>4, ToldAt
<1>3. CASE Announce(p)
  <2> DEFINE step == [l EXCEPT !.at = "checked"]
  <2>1. At(p, step) /\ UNCHANGED conds /\ l.at = "announcing" /\ l.flip
        /\ past' = [past EXCEPT !.told[l.cond] = ~l.checks[l.cond]]
    BY <1>0, <1>3 DEF Announce, Placed
  <2>2. step.checks = l.checks /\ step.at = "checked" /\ step.cond = l.cond /\ step.flip = l.flip
    BY <1>0 DEF Loop
  <2>3. l.cond \in Cond
    BY <1>0, <2>1, ChecksEntry DEF Placed, Loop
  <2>4. past'.told = [past.told EXCEPT ![l.cond] = ~l.checks[l.cond]] /\ past.told \in [Cond -> BOOLEAN]
    BY <2>1 DEF TypeOK, Past
  <2> HIDE DEF step
  <2>5. \A c \in Cond : Heard(c, step, conds', past')
    BY <1>a, <2>1, <2>2, <2>4 DEF Heard
  <2>6. past'.told[step.cond] = ~step.checks[step.cond]
    BY <2>2, <2>3, <2>4
  <2> QED
    BY <1>0, <2>1, <2>2, <2>5, <2>6, ToldAt
<1>4. CASE CommitCheck(p)
  <2> DEFINE step == [Asleep EXCEPT !.at = "checking", !.checks = Drop(l.checks, l.cond)]
  <2>1. At(p, step) /\ UNCHANGED past /\ l.at = "checked"
    BY <1>4 DEF CommitCheck
  <2>2. step.checks = Drop(l.checks, l.cond) /\ step.at = "checking"
    BY AsleepIsLoop DEF Loop
  <2>3. l.cond \in Cond /\ l.cond \in DOMAIN l.checks
    BY <1>0, <2>1, ChecksEntry DEF Placed, Loop
  <2>4. \A c \in Cond : conds'[c].triggered = IF c = l.cond /\ l.flip THEN ~l.checks[c] ELSE conds[c].triggered
    BY <1>4, <2>3 DEF CommitCheck, TypeOK
  <2> HIDE DEF step
  <2>5. \A c \in Cond : Heard(c, step, conds', past')
    BY <1>0, <1>a, <2>1, <2>4 DEF Heard
  <2>6. \A c \in DOMAIN step.checks : step.checks[c] = conds'[c].triggered
    BY <1>0, <2>2, <2>4, ChecksEntry DEF Drop, Loop
  <2> QED
    BY <1>0, <2>1, <2>2, <2>5, <2>6, ToldAt
<1>5. CASE EndTick(p)
  <2>1. At(p, Asleep) /\ UNCHANGED <<conds, past>> /\ l.at = "checking"
    BY <1>5 DEF EndTick
  <2>2. DOMAIN Asleep.checks = {} /\ Asleep.at = "asleep"
    BY AsleepIsLoop DEF Placed
  <2>3. \A c \in Cond : Heard(c, Asleep, conds', past')
    BY <1>a, <2>1 DEF Heard
  <2> QED
    BY <1>0, <2>1, <2>2, <2>3, ToldAt
<1>6. ASSUME NEW c \in Cond, Probe(p, c) PROVE ToldInv'
  <2> DEFINE flip == (c \in world.idle) # l.checks[c]
             step == [l EXCEPT !.at = IF flip THEN "announcing" ELSE "checked", !.cond = c, !.flip = flip]
  <2>1. At(p, step) /\ UNCHANGED <<conds, past>> /\ l.at = "checking"
    BY <1>6 DEF Probe
  <2> HIDE DEF flip
  <2>2. step.checks = l.checks /\ (step.at = "checked" => ~step.flip)
    BY <1>0 DEF Loop
  <2> HIDE DEF step
  <2>3. \A d \in Cond : Heard(d, step, conds', past')
    BY <1>a, <2>1 DEF Heard
  <2> QED
    BY <1>0, <2>1, <2>2, <2>3, ToldAt
<1>7. ASSUME NEW c \in Cond, ProbeFails(p, c) PROVE ToldInv'
  <2> DEFINE step == [l EXCEPT !.at = "checked", !.cond = c]
  <2>1. At(p, step) /\ UNCHANGED <<conds, past>> /\ l.at = "checking"
    BY <1>7 DEF ProbeFails
  <2>2. step.checks = l.checks /\ ~step.flip
    BY <1>0, <2>1 DEF Loop, Placed
  <2> HIDE DEF step
  <2>3. \A d \in Cond : Heard(d, step, conds', past')
    BY <1>a, <2>1 DEF Heard
  <2> QED
    BY <1>0, <2>1, <2>2, <2>3, ToldAt
<1>8. CASE ReadConfigs(p) \/ CommitPoll(p) \/ \E c \in Conn : FetchRuns(p, c) \/ FetchFails(p, c)
  <2>1. /\ l.at \in {"started", "polling", "sending"} /\ UNCHANGED conds
        /\ past'.told = past.told
    BY <1>8 DEF ReadConfigs, CommitPoll, FetchRuns, FetchFails, Mishap, TypeOK, Past
  <2>2. ReadConfigs(p) => loop'[p].at = "polling"
    BY <1>0 DEF ReadConfigs, At, TypeOK, Loop
  <2>3. CommitPoll(p) => loop'[p].at = "polling"
    BY AsleepIsLoop DEF CommitPoll, At, TypeOK, Loop
  <2>4. \A c \in Conn : FetchRuns(p, c) => loop'[p].at = "sending"
    BY <1>0 DEF FetchRuns, At, TypeOK, Loop
  <2>5. \A c \in Conn : FetchFails(p, c) => loop'[p].at = "polling"
    BY <1>0 DEF FetchFails, At, TypeOK, Loop
  <2>6. loop'[p].at \in {"polling", "sending"}
    BY <1>8, <2>2, <2>3, <2>4, <2>5
  <2> QED
    BY <1>1, <2>1, <2>6
<1>9. ASSUME NEW r \in Run, SendAlert(p, r) PROVE ToldInv'
  <2>1. l.at = "sending" /\ UNCHANGED conds /\ past'.told = past.told
    BY <1>9 DEF SendAlert, TypeOK, Past
  <2> DEFINE step == [l EXCEPT !.left = @ \ {r}]
  <2>2. At(p, step) /\ step.at = "sending"
    BY <1>0, <1>9, <2>1 DEF SendAlert, Loop
  <2> HIDE DEF step
  <2> QED
    BY <1>1, <2>1, <2>2, LoopAt
<1> QED
  BY <1>2, <1>3, <1>4, <1>5, <1>6, <1>7, <1>8, <1>9 DEF Tick

LEMMA StepTold == TypeOK /\ ToldInv /\ [Next]_vars => ToldInv'
<1> SUFFICES ASSUME TypeOK, ToldInv, [Next]_vars, past'.mishaps = 0 PROVE ToldInv'
  BY DEF ToldInv
<1>0. past.mishaps = 0 /\ OneInside /\ OneInside'
  BY StepOneInside DEF ToldInv
<1>1. ASSUME NEW p \in Poller, Tick(p) PROVE ToldInv'
  BY <1>1, TickTold
<1>2. ASSUME NEW p \in Poller, NEW l, At(p, l), DOMAIN l.checks = {}, l.at # "checked", ~Inside(p),
             UNCHANGED conds, past'.told = past.told
      PROVE  ToldInv'
  <2>1. \A q \in Poller : loop'[q] = IF q = p THEN l ELSE loop[q]
    BY <1>2, LoopAt
  <2>2. loop[p].at # "checked"
    BY <1>2 DEF Inside
  <2>3. ToldMatches'
    BY <1>0, <1>2, <2>1, <2>2 DEF ToldInv, ToldMatches
  <2> QED
    BY <1>0, <1>2, <2>1, <2>3 DEF ToldInv
<1>3. ASSUME NEW p \in Poller, StartTick(p) PROVE ToldInv'
  <2> DEFINE step == [Asleep EXCEPT !.at = "started"]
  <2>1. At(p, step) /\ UNCHANGED conds /\ ~Inside(p)
    BY <1>3 DEF StartTick, Inside
  <2>2. past'.told = past.told
    BY <1>3 DEF StartTick, Mishap, TypeOK, Past
  <2>3. DOMAIN step.checks = {} /\ step.at = "started"
    BY AsleepIsLoop DEF Loop, Placed
  <2> HIDE DEF step
  <2> QED
    BY <1>2, <2>1, <2>2, <2>3
<1>4. ASSUME NEW p \in Poller, Restart(p) PROVE ToldInv'
  BY <1>2, <1>4, AsleepIsLoop DEF Restart, Placed, Inside
<1>5. ASSUME NEW p \in Poller, CommitFails(p) \/ CheckFails(p) \/ Crash(p) PROVE FALSE
  BY <1>5, CalmBefore DEF CommitFails, CheckFails, Crash
<1>6. ASSUME NEW c \in Cond, CheckDue(c) PROVE ToldInv'
  <2>1. \A d \in Cond : conds'[d].triggered = conds[d].triggered
    BY <1>6 DEF CheckDue, TypeOK
  <2>2. \A p \in Poller : DOMAIN loop[p].checks \in SUBSET Cond
    BY ChecksEntry DEF TypeOK, Loop
  <2>3. ToldMatches'
    BY <1>0, <1>6, <2>1 DEF CheckDue, ToldInv, ToldMatches
  <2> QED
    BY <1>0, <1>6, <2>1, <2>2, <2>3 DEF CheckDue, ToldInv
<1>7. ASSUME NEW k \in Key, IntervalPasses(k) PROVE ToldInv'
  <2>1. past'.told = past.told /\ UNCHANGED conds
    BY <1>7 DEF IntervalPasses, TypeOK, Past
  <2>2. \A p \in Poller : /\ loop'[p].at = loop[p].at /\ loop'[p].checks = loop[p].checks
                          /\ loop'[p].cond = loop[p].cond /\ loop'[p].flip = loop[p].flip
    BY <1>7, ZenonT(40) DEF IntervalPasses, TypeOK, Loop
  <2>3. ToldMatches'
    BY <1>0, <2>1, <2>2 DEF ToldInv, ToldMatches
  <2> QED
    BY <1>0, <2>1, <2>2, <2>3 DEF ToldInv
<1>8. CASE UNCHANGED <<loop, past, conds>>
  BY <1>0, <1>8 DEF ToldInv, ToldMatches
<1> QED
  BY <1>1, <1>3, <1>4, <1>5, <1>6, <1>7, <1>8
  DEF Next, Key, PollDue, SaveConfig, SourceChanges, RunFinishes, LockExpires, RunStarts, QuietHours, vars

\* The groups last heard of a condition what it is, except between an announcement
\* and its commit, for every number of replicas, as long as their ticks do not overlap,
\* none is cut short and every commit succeeds.
THEOREM GroupsHeardIt == Spec => []ToldMatches
<1>1. Init => ToldInv
  <2> SUFFICES ASSUME Init PROVE ToldInv
    OBVIOUS
  <2>1. \A p \in Poller : loop[p] = Asleep
    BY DEF Init
  <2>2. ToldMatches
    BY DEF Init, ToldMatches
  <2> QED
    BY <2>1, <2>2, AsleepIsLoop DEF ToldInv, OneInside, Inside, Placed
<1>2. ToldInv => ToldMatches
  BY DEF ToldInv, ToldMatches
<1> QED
  BY <1>1, <1>2, StepTold, TypeCorrect, PTL DEF Spec

-----------------------------------------------------------------------------
(* One alert per interval *)

\* Whatever was alerted within the interval is on its row, or l carries it there.
Noted(l, rows, recent) ==
    \A r \in Run : KeyOf[r] \in recent => KeyOf[r] \in rows[ConnOf[r]].stamps \/ Carries(l, KeyOf[r], ConnOf[r])

LEMMA StampAt ==
    ASSUME TypeOK, OneInside, NEW p \in Poller, Inside(p), NEW l, At(p, l),
           Sendable(l, configs', past'.recent), Noted(l, configs', past'.recent)
    PROVE  StampInv'
<1>1. \A q \in Poller : loop'[q] = IF q = p THEN l ELSE loop[q]
  BY LoopAt
<1>2. \A q \in Poller : Sendable(loop'[q], configs', past'.recent)
  <2>1. \A q \in Poller \ {p} : Sendable(loop[q], configs', past'.recent)
    BY OthersRest DEF Sendable
  <2> QED
    BY <1>1, <2>1
<1>3. \A r \in Run : KeyOf[r] \in past'.recent =>
         \/ KeyOf[r] \in configs'[ConnOf[r]].stamps
         \/ \E q \in Poller : Carries(loop'[q], KeyOf[r], ConnOf[r])
  BY <1>1 DEF Noted
<1> QED
  BY <1>2, <1>3, OneInsideAt DEF StampInv

LEMMA TickStamps == ASSUME TypeOK, StampInv, NEW p \in Poller, Tick(p), past'.mishaps = 0 PROVE StampInv'
<1> DEFINE l == loop[p]
           recent == past.recent
<1>0. /\ l \in Loop /\ Placed(l) /\ past.mishaps = 0 /\ Inside(p) /\ OneInside
      /\ Sendable(l, configs, recent)
  BY TickCalm DEF TypeOK, StampInv
<1>a. Noted(l, configs, recent)
  BY <1>0, OthersRest DEF StampInv, Noted, Carries
<1>b. loop' = [loop EXCEPT ![p] = loop'[p]] /\ TypeOK'
  BY TickTypes DEF Tick, ReadConfigs, CommitPoll, ReadConditions, Announce, CommitCheck, EndTick, SendAlert,
     FetchRuns, FetchFails, Probe, ProbeFails, At, TypeOK
<1>1. CASE ReadConfigs(p)
  <2> DEFINE todo == [c \in {d \in Conn : configs[d].due /\ configs[d].set.enabled} |-> configs[c]]
             step == [l EXCEPT !.at = "polling", !.todo = todo]
  <2>1. At(p, step) /\ UNCHANGED <<configs, past>> /\ l.at = "started"
    BY <1>1 DEF ReadConfigs
  <2>2. step.todo = todo /\ step.left = {} /\ step.at = "polling"
    BY <1>0, <2>1 DEF Loop, Placed
  <2>3. \A c \in DOMAIN todo : todo[c].stamps = configs[c].stamps
    OBVIOUS
  <2> HIDE DEF step, todo
  <2>4. Sendable(step, configs', past'.recent)
    BY <2>1, <2>2, <2>3 DEF Sendable
  <2>5. Noted(step, configs', past'.recent)
    BY <1>a, <2>1 DEF Noted, Carries
  <2> QED
    BY <1>0, <2>1, <2>4, <2>5, StampAt
<1>2. CASE CommitPoll(p)
  <2> DEFINE c == l.conn
             cfg == l.todo[c]
             row == configs[c]
             step == [Asleep EXCEPT !.at = "polling", !.todo = Drop(l.todo, c)]
  <2>1. PICK kept \in Remembered(cfg.seen, l.new) :
          /\ \E seen \in IF l.new = {} THEN {kept, row.seen} ELSE {kept} :
               configs' = [configs EXCEPT ![c] = [row EXCEPT !.first = FALSE, !.due = FALSE, !.seen = seen,
                         !.stamps = IF l.added = {} THEN @ ELSE cfg.stamps \cup l.added]]
          /\ past' = Mishap(Cardinality((cfg.seen \ kept) \cap Listed(c)))
    BY <1>2 DEF CommitPoll
  <2>2. past'.recent = recent
    BY <2>1 DEF Mishap, TypeOK, Past
  <2>3. c \in DOMAIN l.todo /\ c \in Conn /\ row \in Config
    BY <1>0, <1>2, TodoEntry DEF CommitPoll, Placed, Loop, TypeOK
  <2>4. cfg.stamps = row.stamps
    BY <1>0, <2>3 DEF Sendable
  <2>5. \A d \in Conn : configs'[d].stamps = IF d = c THEN row.stamps \cup l.added ELSE configs[d].stamps
    <3>1. PICK seen \in IF l.new = {} THEN {kept, row.seen} ELSE {kept} :
             configs' = [configs EXCEPT ![c] = [row EXCEPT !.first = FALSE, !.due = FALSE, !.seen = seen,
                         !.stamps = IF l.added = {} THEN @ ELSE cfg.stamps \cup l.added]]
      BY <2>1
    <3> DEFINE stamps == IF l.added = {} THEN row.stamps ELSE cfg.stamps \cup l.added
    <3>2. stamps = row.stamps \cup l.added
      BY <2>4
    <3>3. configs'[c].stamps = stamps /\ \A d \in Conn \ {c} : configs'[d] = configs[d]
      BY <2>3, <3>1 DEF TypeOK, Config
    <3> QED
      BY <3>2, <3>3
  <2>6. At(p, step) /\ l.at = "sending" /\ l.left = {}
    BY <1>2 DEF CommitPoll
  <2>7. step.todo = Drop(l.todo, c) /\ step.left = {} /\ step.at = "polling"
    BY AsleepIsLoop DEF Loop, Placed
  <2> HIDE DEF step
  <2>8. Sendable(step, configs', past'.recent)
    <3>1. \A d \in DOMAIN Drop(l.todo, c) : d \in Conn /\ Drop(l.todo, c)[d].stamps = configs[d].stamps /\ d # c
      BY <1>0, TodoEntry DEF Drop, Sendable, Loop
    <3> QED
      BY <2>5, <2>7, <3>1 DEF Sendable
  <2>9. Noted(step, configs', past'.recent)
    <3>1. \A r \in Run : ConnOf[r] \in Conn
      BY PollerAssumption
    <3> QED
      BY <1>a, <2>2, <2>5, <3>1 DEF Noted, Carries
  <2> QED
    BY <1>0, <2>6, <2>8, <2>9, StampAt
<1>3. ASSUME NEW r \in Run, SendAlert(p, r) PROVE StampInv'
  <2> DEFINE step == [l EXCEPT !.left = @ \ {r}]
  <2>1. At(p, step) /\ UNCHANGED configs /\ l.at = "sending" /\ r \in l.left
    BY <1>3 DEF SendAlert
  <2>2. past'.recent = recent \cup {KeyOf[r]}
    BY <1>3 DEF SendAlert, TypeOK, Past
  <2>3. /\ step.todo = l.todo /\ step.left = l.left \ {r} /\ step.at = "sending"
        /\ step.conn = l.conn /\ step.added = l.added
    BY <1>0, <2>1 DEF Loop
  <2> HIDE DEF step
  <2>4. Sendable(step, configs', past'.recent)
    BY <1>0, <2>1, <2>2, <2>3 DEF Sendable
  <2>5. Noted(step, configs', past'.recent)
    <3>1. \A q \in Run : KeyOf[q] = KeyOf[r] => ConnOf[q] = l.conn /\ KeyOf[q] \in l.added
      BY <1>0, <2>1, PollerAssumption DEF Sendable
    <3> QED
      BY <1>a, <2>1, <2>2, <2>3, <3>1 DEF Noted, Carries
  <2> QED
    BY <1>0, <2>1, <2>4, <2>5, StampAt
<1>4. ASSUME NEW c \in Conn, FetchRuns(p, c) PROVE StampInv'
  <2> DEFINE cfg == l.todo[c]
             new == {r \in Listed(c) \cap runs.finished : r \notin cfg.seen}
             loud == Loud(new, cfg.set)
  <2>1. PICK plan \in IF cfg.first THEN {{}} ELSE Planned(loud, cfg) :
          /\ At(p, [l EXCEPT !.at = "sending", !.conn = c, !.new = new, !.left = plan,
                             !.added = {KeyOf[r] : r \in plan}])
          /\ past' = [past EXCEPT !.decided = @ \cup (new \ plan)]
    BY <1>4 DEF FetchRuns
  <2> DEFINE step == [l EXCEPT !.at = "sending", !.conn = c, !.new = new, !.left = plan,
                               !.added = {KeyOf[r] : r \in plan}]
  <2>2. past'.recent = recent /\ UNCHANGED configs /\ l.at = "polling" /\ c \in DOMAIN l.todo
    BY <1>4, <2>1 DEF FetchRuns, TypeOK, Past
  <2>3. /\ step.todo = l.todo /\ step.left = plan /\ step.at = "sending"
        /\ step.conn = c /\ step.added = {KeyOf[r] : r \in plan}
    BY <1>0 DEF Loop
  <2>4. \A r \in loud : r \in Run /\ ConnOf[r] = c
    BY PollerAssumption DEF Loud, Listed, TypeOK, Run
  <2>5. At(p, step)
    BY <2>1
  <2> HIDE DEF step
  <2>6. plan \subseteq loud
    BY <2>1 DEF Planned
  <2>7. cfg.set.throttle => \A r \in plan : KeyOf[r] \notin cfg.stamps /\ \A q \in plan : KeyOf[q] = KeyOf[r] => q = r
    <3>1. CASE cfg.first
      <4>1. plan = {}
        BY <2>1, <3>1
      <4> QED
        BY <4>1
    <3>2. CASE ~cfg.first
      <4>1. plan \in Planned(loud, cfg)
        BY <2>1, <3>2
      <4> HIDE DEF loud, cfg
      <4> QED
        BY <2>6, <4>1 DEF Planned
    <3> QED
      BY <3>1, <3>2
  <2>8. \A r \in plan : KeyOf[r] \in recent => KeyOf[r] \in cfg.stamps
    <3>1. cfg.stamps = configs[c].stamps
      BY <1>0, <2>2 DEF Sendable
    <3> HIDE DEF cfg, new, loud
    <3> QED
      BY <1>a, <2>2, <2>4, <2>6, <3>1 DEF Noted, Carries
  <2>9. Sendable(step, configs', past'.recent)
    <3>1. \A d \in DOMAIN l.todo : l.todo[d].stamps = configs[d].stamps
      BY <1>0 DEF Sendable
    <3>2. \A r \in plan : ConnOf[r] = c /\ KeyOf[r] \in step.added
      BY <2>3, <2>4, <2>6
    <3>3. cfg.set.throttle => \A r \in plan : KeyOf[r] \notin recent /\ \A q \in plan : KeyOf[q] = KeyOf[r] => q = r
      BY <2>7, <2>8
    <3> HIDE DEF new, loud
    <3> QED
      BY <2>2, <2>3, <3>1, <3>2, <3>3 DEF Sendable
  <2>10. Noted(step, configs', past'.recent)
    BY <1>a, <2>2 DEF Noted, Carries
  <2> QED
    BY <1>0, <2>5, <2>9, <2>10, StampAt
<1>5. ASSUME NEW c \in Conn, FetchFails(p, c) PROVE StampInv'
  <2> DEFINE step == [l EXCEPT !.todo = Drop(@, c)]
  <2>1. At(p, step) /\ UNCHANGED <<configs, past>> /\ l.at = "polling"
    BY <1>5 DEF FetchFails
  <2>2. step.todo = Drop(l.todo, c) /\ step.left = {} /\ step.at = "polling"
    BY <1>0, <2>1 DEF Loop, Placed
  <2> HIDE DEF step
  <2>3. Sendable(step, configs', past'.recent)
    BY <1>0, <2>1, <2>2 DEF Sendable, Drop
  <2>4. Noted(step, configs', past'.recent)
    BY <1>a, <2>1 DEF Noted, Carries
  <2> QED
    BY <1>0, <2>1, <2>3, <2>4, StampAt
<1>6. CASE l.at # "sending" /\ loop'[p].at \notin {"polling", "sending"} /\ UNCHANGED configs /\ past'.recent = recent
  <2>1. DOMAIN loop'[p].todo = {} /\ loop'[p].left = {}
    BY <1>6, <1>b DEF TypeOK, Placed
  <2>2. Sendable(loop'[p], configs', past'.recent)
    BY <1>6, <2>1 DEF Sendable
  <2>3. Noted(loop'[p], configs', past'.recent)
    BY <1>6, <1>a DEF Noted, Carries
  <2> QED
    BY <1>0, <1>b, <2>2, <2>3, StampAt DEF At
<1>7. CASE ReadConditions(p)
  <2>1. loop'[p].at = "checking"
    BY <1>7, AsleepIsLoop DEF ReadConditions, At, TypeOK, Loop
  <2> QED
    BY <1>6, <1>7, <2>1 DEF ReadConditions
<1>8. CASE Announce(p)
  <2>1. loop'[p].at = "checked" /\ past'.recent = recent
    BY <1>0, <1>8 DEF Announce, At, TypeOK, Loop, Past
  <2> QED
    BY <1>6, <1>8, <2>1 DEF Announce
<1>9. CASE CommitCheck(p)
  <2>1. loop'[p].at = "checking"
    BY <1>9, AsleepIsLoop DEF CommitCheck, At, TypeOK, Loop
  <2> QED
    BY <1>6, <1>9, <2>1 DEF CommitCheck
<1>10. CASE EndTick(p)
  <2>1. loop'[p].at = "asleep"
    BY <1>10, AsleepIsLoop DEF EndTick, At, TypeOK
  <2> QED
    BY <1>6, <1>10, <2>1 DEF EndTick
<1>11. ASSUME NEW c \in Cond, Probe(p, c) PROVE StampInv'
  <2>1. loop'[p].at \in {"announcing", "checked"}
    BY <1>0, <1>11 DEF Probe, At, TypeOK, Loop
  <2> QED
    BY <1>6, <1>11, <2>1 DEF Probe
<1>12. ASSUME NEW c \in Cond, ProbeFails(p, c) PROVE StampInv'
  <2>1. loop'[p].at = "checked"
    BY <1>0, <1>12 DEF ProbeFails, At, TypeOK, Loop
  <2> QED
    BY <1>6, <1>12, <2>1 DEF ProbeFails
<1> QED
  BY <1>1, <1>2, <1>3, <1>4, <1>5, <1>7, <1>8, <1>9, <1>10, <1>11, <1>12 DEF Tick

LEMMA StepStamps == TypeOK /\ StampInv /\ [Next]_vars => StampInv'
<1> SUFFICES ASSUME TypeOK, StampInv, [Next]_vars, past'.mishaps = 0 PROVE StampInv'
  BY DEF StampInv
<1>0. past.mishaps = 0 /\ OneInside /\ OneInside'
  BY StepOneInside DEF StampInv
<1>1. ASSUME NEW p \in Poller, Tick(p) PROVE StampInv'
  BY <1>1, TickStamps
<1>2. ASSUME NEW p \in Poller, NEW l, At(p, l), DOMAIN l.todo = {}, l.left = {}, l.at # "sending", ~Inside(p),
             UNCHANGED configs, past'.recent = past.recent
      PROVE  StampInv'
  <2>1. \A q \in Poller : loop'[q] = IF q = p THEN l ELSE loop[q]
    BY <1>2, LoopAt
  <2>2. loop[p].at # "sending"
    BY <1>2 DEF Inside
  <2>3. \A q \in Poller : Sendable(loop'[q], configs', past'.recent)
    <3>1. Sendable(l, configs, past.recent)
      BY <1>2 DEF Sendable
    <3> QED
      BY <1>0, <1>2, <2>1, <3>1 DEF StampInv
  <2>4. \A q \in Poller : \A k, c : Carries(loop[q], k, c) => Carries(loop'[q], k, c)
    BY <2>1, <2>2 DEF Carries
  <2> QED
    BY <1>0, <1>2, <2>3, <2>4 DEF StampInv
<1>3. ASSUME NEW p \in Poller, StartTick(p) PROVE StampInv'
  <2> DEFINE step == [Asleep EXCEPT !.at = "started"]
  <2>1. At(p, step) /\ UNCHANGED configs /\ ~Inside(p)
    BY <1>3 DEF StartTick, Inside
  <2>2. past'.recent = past.recent
    BY <1>3 DEF StartTick, Mishap, TypeOK, Past
  <2>3. DOMAIN step.todo = {} /\ step.left = {} /\ step.at = "started"
    BY AsleepIsLoop DEF Loop, Placed
  <2> HIDE DEF step
  <2> QED
    BY <1>2, <2>1, <2>2, <2>3
<1>4. ASSUME NEW p \in Poller, Restart(p) PROVE StampInv'
  BY <1>2, <1>4, AsleepIsLoop DEF Restart, Placed, Inside
<1>5. ASSUME NEW p \in Poller, CommitFails(p) \/ CheckFails(p) \/ Crash(p) PROVE FALSE
  BY <1>5, CalmBefore DEF CommitFails, CheckFails, Crash
<1>6. ASSUME NEW c \in Conn, PollDue(c) \/ \E s \in Settings : SaveConfig(c, s) PROVE StampInv'
  <2>1. UNCHANGED <<loop, past>> /\ \A d \in Conn : configs'[d].stamps = configs[d].stamps
    <3>1. PollDue(c) => \A d \in Conn : configs'[d].stamps = configs[d].stamps
      BY DEF PollDue, TypeOK, Config
    <3>2. \A s \in Settings : SaveConfig(c, s) => \A d \in Conn : configs'[d].stamps = configs[d].stamps
      BY DEF SaveConfig, TypeOK, Config
    <3> QED
      BY <1>6, <3>1, <3>2 DEF PollDue, SaveConfig
  <2>2. \A p \in Poller : DOMAIN loop[p].todo \in SUBSET Conn
    BY TodoEntry DEF TypeOK, Loop
  <2>3. \A p \in Poller : Sendable(loop'[p], configs', past'.recent)
    BY <1>0, <2>1, <2>2 DEF StampInv, Sendable
  <2>4. \A r \in Run : ConnOf[r] \in Conn
    BY PollerAssumption
  <2> QED
    BY <1>0, <2>1, <2>3, <2>4 DEF StampInv
<1>7. ASSUME NEW k \in Key, IntervalPasses(k) PROVE StampInv'
  <2>1. past'.recent = past.recent \ {k}
    BY <1>7 DEF IntervalPasses, TypeOK, Past
  <2>2. \A c \in Conn : configs'[c].stamps = configs[c].stamps \ {k}
    BY <1>7 DEF IntervalPasses, Aged, TypeOK, Config
  <2>3. ASSUME NEW p \in Poller
        PROVE  /\ loop'[p].at = loop[p].at /\ loop'[p].conn = loop[p].conn /\ loop'[p].left = loop[p].left
               /\ loop'[p].added = loop[p].added \ {k} /\ loop'[p].todo = Aged(loop[p].todo, k)
    BY <1>7 DEF IntervalPasses, TypeOK, Loop
  <2>4. ASSUME NEW p \in Poller PROVE Sendable(loop'[p], configs', past'.recent)
    <3> DEFINE l == loop[p]
    <3>1. l \in Loop /\ Placed(l) /\ Sendable(l, configs, past.recent)
      BY <1>0 DEF TypeOK, StampInv
    <3>2. \A c \in DOMAIN l.todo : /\ c \in Conn
                                   /\ Aged(l.todo, k)[c].stamps = l.todo[c].stamps \ {k}
                                   /\ Aged(l.todo, k)[c].set = l.todo[c].set
      BY <3>1, TodoEntry DEF Aged, Loop, Config
    <3>3. DOMAIN Aged(l.todo, k) = DOMAIN l.todo
      BY DEF Aged
    <3>4. \A r \in l.left : KeyOf[r] # k
      BY <1>7 DEF IntervalPasses
    <3>5. \A c \in DOMAIN loop'[p].todo : loop'[p].todo[c].stamps = configs'[c].stamps
      <4>1. \A c \in DOMAIN l.todo : l.todo[c].stamps = configs[c].stamps
        BY <3>1 DEF Sendable
      <4>2. loop'[p].todo = Aged(l.todo, k)
        BY <2>3
      <4> HIDE DEF l
      <4> QED
        BY <2>2, <3>2, <3>3, <4>1, <4>2
    <3>6. \A r \in loop'[p].left : ConnOf[r] = loop'[p].conn /\ KeyOf[r] \in loop'[p].added
      BY <2>3, <3>1, <3>4 DEF Sendable
    <3>7. loop'[p].at = "sending" => loop'[p].todo[loop'[p].conn].set = l.todo[l.conn].set
      BY <2>3, <3>1, <3>2 DEF Placed
    <3> HIDE DEF l
    <3> QED
      BY <2>1, <2>3, <3>1, <3>5, <3>6, <3>7 DEF Sendable, l
  <2>5. ASSUME NEW r \in Run, KeyOf[r] \in past'.recent
        PROVE  \/ KeyOf[r] \in configs'[ConnOf[r]].stamps
               \/ \E p \in Poller : Carries(loop'[p], KeyOf[r], ConnOf[r])
    <3>1. KeyOf[r] \in past.recent /\ KeyOf[r] # k /\ ConnOf[r] \in Conn
      BY <2>1, <2>5, PollerAssumption
    <3> QED
      BY <1>0, <2>2, <2>3, <3>1 DEF StampInv, Carries
  <2> QED
    BY <1>0, <2>4, <2>5 DEF StampInv
<1>8. CASE UNCHANGED <<loop, past, configs>>
  BY <1>0, <1>8 DEF StampInv
<1> QED
  BY <1>1, <1>3, <1>4, <1>5, <1>6, <1>7, <1>8
  DEF Next, Key, CheckDue, SourceChanges, RunFinishes, LockExpires, RunStarts, QuietHours, vars

\* No pipeline and outcome is alerted twice within the interval, in one poll or in
\* several, across changes of the settings and for every number of replicas, as long as
\* the ticks do not overlap, none is cut short and every commit succeeds.
THEOREM AlertsAreSpaced == Spec => OneAlertPerInterval
<1>1. Init => StampInv
  <2> SUFFICES ASSUME Init PROVE StampInv
    OBVIOUS
  <2>1. \A p \in Poller : loop[p] = Asleep
    BY DEF Init
  <2>2. past.recent = {}
    BY DEF Init
  <2> QED
    BY <2>1, <2>2, AsleepIsLoop DEF StampInv, OneInside, Inside, Placed, Sendable
<1>2. TypeOK /\ StampInv =>
        \A p \in Poller : \A r \in loop[p].left :
           past.mishaps = 0 /\ loop[p].todo[loop[p].conn].set.throttle => KeyOf[r] \notin past.recent
  BY DEF TypeOK, StampInv, Sendable, Placed
<1>3. TypeOK /\ StampInv /\ [Next]_vars =>
        [\A p \in Poller : \A r \in loop[p].left :
           /\ past.mishaps = 0 /\ past.alerts'[r] # past.alerts[r]
           /\ loop[p].todo[loop[p].conn].set.throttle
           => KeyOf[r] \notin past.recent]_vars
  BY <1>2
<1> QED
  BY <1>1, <1>3, StepStamps, TypeCorrect, PTL DEF Spec, OneAlertPerInterval

-----------------------------------------------------------------------------
(* One alert per run *)

Settled(l, rows, alerts) ==
    \A r \in Run : \/ alerts[r] = 0
                   \/ alerts[r] = 1 /\ Gone(r, rows)
                   \/ alerts[r] = 1 /\ r \in 1..runs.started /\ Keeps(l, r)

LEMMA OnceAt ==
    ASSUME TypeOK, OneInside, NEW p \in Poller, Inside(p), NEW l, At(p, l), UNCHANGED runs,
           Fresh(l, configs', past'.alerts), Settled(l, configs', past'.alerts)
    PROVE  OnceInv'
<1>1. \A q \in Poller : loop'[q] = IF q = p THEN l ELSE loop[q]
  BY LoopAt
<1>2. \A q \in Poller : Fresh(loop'[q], configs', past'.alerts)
  <2>1. \A q \in Poller \ {p} : Fresh(loop[q], configs', past'.alerts)
    BY OthersRest DEF Fresh
  <2> QED
    BY <1>1, <2>1
<1>3. \A q \in Poller : Fresh(loop[q], configs, past.alerts)' <=> Fresh(loop'[q], configs', past'.alerts)
  BY DEF Fresh
<1>4. \A r \in Run : Gone(r, configs)' <=> Gone(r, configs')
  BY DEF Gone, Listed
<1>5. \A r \in Run : \/ past'.alerts[r] = 0
                     \/ past'.alerts[r] = 1 /\ Gone(r, configs')
                     \/ past'.alerts[r] = 1 /\ r \in 1..runs'.started /\ \E q \in Poller : Keeps(loop'[q], r)
  BY <1>1 DEF Settled
<1> QED
  BY <1>2, <1>3, <1>4, <1>5, OneInsideAt DEF OnceInv

LEMMA TickOnce == ASSUME TypeOK, OnceInv, NEW p \in Poller, Tick(p), past'.mishaps = 0 PROVE OnceInv'
<1> DEFINE l == loop[p]
           alerts == past.alerts
<1>0. /\ l \in Loop /\ Placed(l) /\ past.mishaps = 0 /\ Inside(p) /\ OneInside
      /\ Fresh(l, configs, alerts)
  BY TickCalm DEF TypeOK, OnceInv
<1>a. Settled(l, configs, alerts)
  BY <1>0, OthersRest DEF OnceInv, Settled, Keeps
<1>b. loop' = [loop EXCEPT ![p] = loop'[p]] /\ TypeOK' /\ UNCHANGED runs
  BY TickTypes DEF Tick, ReadConfigs, CommitPoll, ReadConditions, Announce, CommitCheck, EndTick, SendAlert,
     FetchRuns, FetchFails, Probe, ProbeFails, At, TypeOK
<1>1. CASE ReadConfigs(p)
  <2> DEFINE todo == [c \in {d \in Conn : configs[d].due /\ configs[d].set.enabled} |-> configs[c]]
             step == [l EXCEPT !.at = "polling", !.todo = todo]
  <2>1. At(p, step) /\ UNCHANGED <<configs, past>> /\ l.at = "started"
    BY <1>1 DEF ReadConfigs
  <2>2. step.todo = todo /\ step.left = {} /\ step.at = "polling"
    BY <1>0, <2>1 DEF Loop, Placed
  <2>3. \A c \in DOMAIN todo : todo[c].seen = configs[c].seen
    OBVIOUS
  <2> HIDE DEF step, todo
  <2>4. Fresh(step, configs', past'.alerts)
    BY <2>1, <2>2, <2>3 DEF Fresh
  <2>5. Settled(step, configs', past'.alerts)
    BY <1>a, <2>1 DEF Settled, Keeps
  <2> QED
    BY <1>0, <1>b, <2>1, <2>4, <2>5, OnceAt
<1>2. CASE CommitPoll(p)
  <2> DEFINE c == l.conn
             cfg == l.todo[c]
             row == configs[c]
             step == [Asleep EXCEPT !.at = "polling", !.todo = Drop(l.todo, c)]
  <2>1. PICK kept \in Remembered(cfg.seen, l.new) :
          /\ \E seen \in IF l.new = {} THEN {kept, row.seen} ELSE {kept} :
               configs' = [configs EXCEPT ![c] = [row EXCEPT !.first = FALSE, !.due = FALSE, !.seen = seen,
                         !.stamps = IF l.added = {} THEN @ ELSE cfg.stamps \cup l.added]]
          /\ past' = Mishap(Cardinality((cfg.seen \ kept) \cap Listed(c)))
    BY <1>2 DEF CommitPoll
  <2>2. PICK seen \in IF l.new = {} THEN {kept, row.seen} ELSE {kept} :
               configs' = [configs EXCEPT ![c] = [row EXCEPT !.first = FALSE, !.due = FALSE, !.seen = seen,
                         !.stamps = IF l.added = {} THEN @ ELSE cfg.stamps \cup l.added]]
    BY <2>1
  <2>3. c \in DOMAIN l.todo /\ c \in Conn /\ row \in Config /\ cfg \in Config
    BY <1>0, <1>2, TodoEntry DEF CommitPoll, Placed, Loop, TypeOK
  <2>4. cfg.seen = row.seen
    BY <1>0, <2>3 DEF Fresh
  <2>5. \A d \in Conn : configs'[d].seen = IF d = c THEN seen ELSE configs[d].seen
    BY <2>2, <2>3 DEF TypeOK, Config
  <2>6. (cfg.seen \ kept) \cap Listed(c) = {} /\ past'.alerts = alerts
    <3>1. (cfg.seen \ kept) \cap Listed(c) \in SUBSET Run
      BY <2>3 DEF Config
    <3>2. Cardinality((cfg.seen \ kept) \cap Listed(c)) = 0
      BY <2>1, <3>1, ListedIsFinite, CalmBefore
    <3>3. past'.alerts = alerts
      BY <2>1 DEF Mishap, TypeOK, Past
    <3> QED
      BY <3>1, <3>2, <3>3, ListedIsFinite, FS_EmptySet
  <2>7. l.new \subseteq seen /\ \A r \in row.seen : r \in seen \/ r \notin Listed(c)
    BY <2>2, <2>4, <2>6 DEF Remembered
  <2>8. At(p, step) /\ l.at = "sending"
    BY <1>2 DEF CommitPoll
  <2>9. step.todo = Drop(l.todo, c) /\ step.left = {} /\ step.at = "polling"
    BY AsleepIsLoop DEF Loop, Placed
  <2> HIDE DEF step
  <2>10. Fresh(step, configs', past'.alerts)
    <3>1. \A d \in DOMAIN Drop(l.todo, c) : d \in Conn /\ Drop(l.todo, c)[d].seen = configs[d].seen /\ d # c
      BY <1>0, TodoEntry DEF Drop, Fresh, Loop
    <3> QED
      BY <2>5, <2>9, <3>1 DEF Fresh
  <2>11. Settled(step, configs', past'.alerts)
    <3>1. \A r \in Run : ConnOf[r] \in Conn
      BY PollerAssumption
    <3> QED
      BY <1>a, <2>5, <2>6, <2>7, <3>1 DEF Settled, Keeps, Gone
  <2> QED
    BY <1>0, <1>b, <2>8, <2>10, <2>11, OnceAt
<1>3. ASSUME NEW r \in Run, SendAlert(p, r) PROVE OnceInv'
  <2> DEFINE step == [l EXCEPT !.left = @ \ {r}]
  <2>1. At(p, step) /\ UNCHANGED configs /\ l.at = "sending" /\ r \in l.left
    BY <1>3 DEF SendAlert
  <2>2. past'.alerts = [alerts EXCEPT ![r] = @ + 1] /\ alerts \in [Run -> Nat]
    BY <1>3 DEF SendAlert, TypeOK, Past
  <2>3. /\ step.todo = l.todo /\ step.left = l.left \ {r} /\ step.at = "sending"
        /\ step.conn = l.conn /\ step.new = l.new
    BY <1>0, <2>1 DEF Loop
  <2> HIDE DEF step
  <2>4. \A q \in Run : past'.alerts[q] = IF q = r THEN 1 ELSE alerts[q]
    BY <1>0, <2>1, <2>2 DEF Fresh
  <2>5. Fresh(step, configs', past'.alerts)
    BY <1>0, <2>1, <2>3, <2>4 DEF Fresh, Loop
  <2>6. Settled(step, configs', past'.alerts)
    <3>1. r \in 1..runs.started /\ Keeps(step, r)
      BY <1>0, <2>1, <2>3 DEF Fresh, Keeps
    <3>2. \A q \in Run : Keeps(l, q) => Keeps(step, q)
      BY <2>3 DEF Keeps
    <3> QED
      BY <1>a, <2>1, <2>4, <3>1, <3>2 DEF Settled
  <2> QED
    BY <1>0, <1>b, <2>1, <2>5, <2>6, OnceAt
<1>4. ASSUME NEW c \in Conn, FetchRuns(p, c) PROVE OnceInv'
  <2> DEFINE cfg == l.todo[c]
             new == {r \in Listed(c) \cap runs.finished : r \notin cfg.seen}
             loud == Loud(new, cfg.set)
  <2>1. PICK plan \in IF cfg.first THEN {{}} ELSE Planned(loud, cfg) :
          /\ At(p, [l EXCEPT !.at = "sending", !.conn = c, !.new = new, !.left = plan,
                             !.added = {KeyOf[r] : r \in plan}])
          /\ past' = [past EXCEPT !.decided = @ \cup (new \ plan)]
    BY <1>4 DEF FetchRuns
  <2> DEFINE step == [l EXCEPT !.at = "sending", !.conn = c, !.new = new, !.left = plan,
                               !.added = {KeyOf[r] : r \in plan}]
  <2>2. past'.alerts = alerts /\ UNCHANGED configs /\ l.at = "polling" /\ c \in DOMAIN l.todo
    BY <1>4, <2>1 DEF FetchRuns, TypeOK, Past
  <2>3. step.todo = l.todo /\ step.left = plan /\ step.new = new /\ step.conn = c
    BY <1>0 DEF Loop
  <2>4. At(p, step)
    BY <2>1
  <2> HIDE DEF step
  <2>5. plan \subseteq new
    BY <2>1 DEF Planned, Loud
  <2>6. \A r \in new : r \in Run /\ ConnOf[r] = c /\ r \in 1..runs.started /\ r \in Listed(c) /\ r \notin configs[c].seen
    <3>1. cfg.seen = configs[c].seen
      BY <1>0, <2>2 DEF Fresh
    <3> QED
      BY <3>1 DEF Listed, TypeOK
  <2> HIDE DEF new, cfg, loud
  <2>7. \A r \in plan : alerts[r] = 0
    BY <1>a, <2>2, <2>5, <2>6 DEF Settled, Gone, Keeps
  <2>8. Fresh(step, configs', past'.alerts)
    BY <1>0, <2>2, <2>3, <2>5, <2>6, <2>7 DEF Fresh
  <2>9. Settled(step, configs', past'.alerts)
    BY <1>a, <2>2 DEF Settled, Keeps
  <2> QED
    BY <1>0, <1>b, <2>4, <2>8, <2>9, OnceAt
<1>5. ASSUME NEW c \in Conn, FetchFails(p, c) PROVE OnceInv'
  <2> DEFINE step == [l EXCEPT !.todo = Drop(@, c)]
  <2>1. At(p, step) /\ UNCHANGED <<configs, past>> /\ l.at = "polling"
    BY <1>5 DEF FetchFails
  <2>2. step.todo = Drop(l.todo, c) /\ step.left = {} /\ step.at = "polling"
    BY <1>0, <2>1 DEF Loop, Placed
  <2> HIDE DEF step
  <2>3. Fresh(step, configs', past'.alerts)
    BY <1>0, <2>1, <2>2 DEF Fresh, Drop
  <2>4. Settled(step, configs', past'.alerts)
    BY <1>a, <2>1 DEF Settled, Keeps
  <2> QED
    BY <1>0, <1>b, <2>1, <2>3, <2>4, OnceAt
<1>6. CASE l.at # "sending" /\ loop'[p].at \notin {"polling", "sending"} /\ UNCHANGED configs /\ past'.alerts = alerts
  <2>1. DOMAIN loop'[p].todo = {} /\ loop'[p].left = {}
    BY <1>6, <1>b DEF TypeOK, Placed
  <2>2. Fresh(loop'[p], configs', past'.alerts)
    BY <1>6, <2>1 DEF Fresh
  <2>3. Settled(loop'[p], configs', past'.alerts)
    BY <1>6, <1>a DEF Settled, Keeps
  <2> QED
    BY <1>0, <1>b, <2>2, <2>3, OnceAt DEF At
<1>7. CASE ReadConditions(p)
  <2>1. loop'[p].at = "checking"
    BY <1>7, AsleepIsLoop DEF ReadConditions, At, TypeOK, Loop
  <2> QED
    BY <1>6, <1>7, <2>1 DEF ReadConditions
<1>8. CASE Announce(p)
  <2>1. loop'[p].at = "checked" /\ past'.alerts = alerts
    BY <1>0, <1>8 DEF Announce, At, TypeOK, Loop, Past
  <2> QED
    BY <1>6, <1>8, <2>1 DEF Announce
<1>9. CASE CommitCheck(p)
  <2>1. loop'[p].at = "checking"
    BY <1>9, AsleepIsLoop DEF CommitCheck, At, TypeOK, Loop
  <2> QED
    BY <1>6, <1>9, <2>1 DEF CommitCheck
<1>10. CASE EndTick(p)
  <2>1. loop'[p].at = "asleep"
    BY <1>10, AsleepIsLoop DEF EndTick, At, TypeOK
  <2> QED
    BY <1>6, <1>10, <2>1 DEF EndTick
<1>11. ASSUME NEW c \in Cond, Probe(p, c) PROVE OnceInv'
  <2>1. loop'[p].at \in {"announcing", "checked"}
    BY <1>0, <1>11 DEF Probe, At, TypeOK, Loop
  <2> QED
    BY <1>6, <1>11, <2>1 DEF Probe
<1>12. ASSUME NEW c \in Cond, ProbeFails(p, c) PROVE OnceInv'
  <2>1. loop'[p].at = "checked"
    BY <1>0, <1>12 DEF ProbeFails, At, TypeOK, Loop
  <2> QED
    BY <1>6, <1>12, <2>1 DEF ProbeFails
<1> QED
  BY <1>1, <1>2, <1>3, <1>4, <1>5, <1>7, <1>8, <1>9, <1>10, <1>11, <1>12 DEF Tick

\* A run that is no longer listed, because newer ones are, is never listed again.
LEMMA ListMovesOn ==
    ASSUME TypeOK, RunStarts, NEW r \in 1..runs.started, NEW c, r \notin Listed(c)
    PROVE  r \notin Listed(c)'
<1> DEFINE all == {q \in 1..runs.started : ConnOf[q] = c}
           all2 == {q \in 1..runs'.started : ConnOf[q] = c}
           newer == {q \in all : q > r}
           newer2 == {q \in all2 : q > r}
<1>1. runs'.started = runs.started + 1 /\ runs.started \in Nat /\ runs'.started \in 0..Runs
  BY PollerAssumption DEF RunStarts, TypeOK
<1>2. newer \subseteq newer2 /\ newer2 \in SUBSET Run /\ newer \in SUBSET Run
  BY <1>1, PollerAssumption DEF Run
<1>3. Cardinality(newer) <= Cardinality(newer2) /\ Cardinality(newer) \in Nat /\ Cardinality(newer2) \in Nat
  BY <1>2, ListedIsFinite, FS_Subset
<1>4. Listed(c) = {q \in all : Cardinality({x \in all : x > q}) < MaxListed}
  BY DEF Listed
<1>5. Listed(c)' = {q \in all2 : Cardinality({x \in all2 : x > q}) < MaxListed}
  BY DEF Listed
<1>6. CASE r \notin all
  <2>1. r \notin all2
    BY <1>6
  <2> QED
    BY <1>5, <2>1
<1>7. CASE r \in all
  <2>1. ~(Cardinality(newer) < MaxListed)
    BY <1>4, <1>7
  <2>2. ~(Cardinality(newer2) < MaxListed)
    BY <1>3, <2>1, PollerAssumption
  <2> HIDE DEF all2
  <2> QED
    BY <1>5, <2>2
<1> QED
  BY <1>6, <1>7

LEMMA StepOnce == TypeOK /\ OnceInv /\ [Next]_vars => OnceInv'
<1> SUFFICES ASSUME TypeOK, OnceInv, [Next]_vars, past'.mishaps = 0 PROVE OnceInv'
  BY DEF OnceInv
<1>0. past.mishaps = 0 /\ OneInside /\ OneInside'
  BY StepOneInside DEF OnceInv
<1>1. ASSUME NEW p \in Poller, Tick(p) PROVE OnceInv'
  BY <1>1, TickOnce
<1>2. ASSUME NEW p \in Poller, NEW l, At(p, l), DOMAIN l.todo = {}, l.left = {}, ~Inside(p),
             UNCHANGED <<runs, configs>>, past'.alerts = past.alerts
      PROVE  OnceInv'
  <2>1. \A q \in Poller : loop'[q] = IF q = p THEN l ELSE loop[q]
    BY <1>2, LoopAt
  <2>2. \A q \in Poller : Fresh(loop'[q], configs', past'.alerts)
    <3>1. Fresh(l, configs, past.alerts)
      BY <1>2 DEF Fresh
    <3> QED
      BY <1>0, <1>2, <2>1, <3>1 DEF OnceInv
  <2>3. \A q \in Poller, r \in Run : Keeps(loop[q], r) => Keeps(loop'[q], r)
    BY <1>2, <2>1 DEF Keeps, Inside
  <2>4. \A q \in Poller : Fresh(loop[q], configs, past.alerts)'
    BY <1>2, <2>2 DEF Fresh
  <2>5. \A r \in Run : Gone(r, configs) => Gone(r, configs)'
    BY <1>2 DEF Gone, Listed
  <2> QED
    BY <1>0, <1>2, <2>3, <2>4, <2>5 DEF OnceInv
<1>3. ASSUME NEW p \in Poller, StartTick(p) PROVE OnceInv'
  <2> DEFINE step == [Asleep EXCEPT !.at = "started"]
  <2>1. At(p, step) /\ UNCHANGED <<runs, configs>> /\ ~Inside(p)
    BY <1>3 DEF StartTick, Inside
  <2>2. past'.alerts = past.alerts
    BY <1>3 DEF StartTick, Mishap, TypeOK, Past
  <2>3. DOMAIN step.todo = {} /\ step.left = {}
    BY AsleepIsLoop DEF Loop, Placed
  <2> HIDE DEF step
  <2> QED
    BY <1>2, <2>1, <2>2, <2>3
<1>4. ASSUME NEW p \in Poller, Restart(p) PROVE OnceInv'
  BY <1>2, <1>4, AsleepIsLoop DEF Restart, Placed, Inside
<1>5. ASSUME NEW p \in Poller, CommitFails(p) \/ CheckFails(p) \/ Crash(p) PROVE FALSE
  BY <1>5, CalmBefore DEF CommitFails, CheckFails, Crash
<1>6. ASSUME past'.alerts = past.alerts,
             \A d \in Conn : configs'[d].seen = configs[d].seen,
             \A p \in Poller : /\ loop'[p].at = loop[p].at /\ loop'[p].conn = loop[p].conn
                               /\ loop'[p].new = loop[p].new /\ loop'[p].left = loop[p].left
                               /\ DOMAIN loop'[p].todo = DOMAIN loop[p].todo
                               /\ \A c \in DOMAIN loop[p].todo : loop'[p].todo[c].seen = loop[p].todo[c].seen,
             runs'.started = runs.started
      PROVE  OnceInv'
  <2>1. \A p \in Poller : DOMAIN loop[p].todo \in SUBSET Conn
    BY TodoEntry DEF TypeOK, Loop
  <2>2. \A p \in Poller : Fresh(loop[p], configs, past.alerts)'
    BY <1>0, <1>6, <2>1 DEF OnceInv, Fresh
  <2>3. \A r \in Run : ConnOf[r] \in Conn
    BY PollerAssumption
  <2>4. \A r \in Run : Gone(r, configs) => Gone(r, configs)'
    BY <1>6, <2>3 DEF Gone, Listed
  <2>5. \A p \in Poller, r \in Run : Keeps(loop[p], r) => Keeps(loop'[p], r)
    BY <1>6 DEF Keeps
  <2> QED
    BY <1>0, <1>6, <2>2, <2>4, <2>5 DEF OnceInv
<1>7. ASSUME NEW c \in Conn, PollDue(c) PROVE OnceInv'
  BY <1>6, <1>7 DEF PollDue, TypeOK, Config
<1>8. ASSUME NEW c \in Conn, NEW s \in Settings, SaveConfig(c, s) PROVE OnceInv'
  BY <1>6, <1>8 DEF SaveConfig, TypeOK, Config
<1>9. ASSUME NEW k \in Key, IntervalPasses(k) PROVE OnceInv'
  <2>1. past'.alerts = past.alerts
    BY <1>9 DEF IntervalPasses, TypeOK, Past
  <2>2. \A d \in Conn : configs'[d].seen = configs[d].seen
    BY <1>9 DEF IntervalPasses, Aged, TypeOK, Config
  <2>3. ASSUME NEW p \in Poller
        PROVE  /\ loop'[p].at = loop[p].at /\ loop'[p].conn = loop[p].conn
               /\ loop'[p].new = loop[p].new /\ loop'[p].left = loop[p].left
               /\ loop'[p].todo = Aged(loop[p].todo, k)
    BY <1>9, ZenonT(40) DEF IntervalPasses, TypeOK, Loop
  <2>4. ASSUME NEW p \in Poller
        PROVE  /\ DOMAIN Aged(loop[p].todo, k) = DOMAIN loop[p].todo
               /\ \A c \in DOMAIN loop[p].todo : Aged(loop[p].todo, k)[c].seen = loop[p].todo[c].seen
    <3>1. loop[p].todo \in Todo
      BY DEF TypeOK, Loop
    <3> QED
      BY <3>1, TodoEntry DEF Aged, Config
  <2>5. UNCHANGED runs
    BY <1>9 DEF IntervalPasses
  <2> QED
    BY <1>6, <2>1, <2>2, <2>3, <2>4, <2>5
<1>10. ASSUME NEW r \in Run, RunFinishes(r) PROVE OnceInv'
  BY <1>6, <1>10 DEF RunFinishes, TypeOK
<1>11. CASE RunStarts
  <2>1. runs'.started = runs.started + 1 /\ runs.started \in Nat /\ UNCHANGED <<loop, past, configs>>
    BY <1>11, PollerAssumption DEF RunStarts, TypeOK
  <2>2. \A r : r \in 1..runs.started => r \in 1..runs'.started
    BY <2>1
  <2>3. \A p \in Poller : Fresh(loop[p], configs, past.alerts)'
    BY <1>0, <2>1, <2>2 DEF OnceInv, Fresh
  <2>4. \A r \in Run : Gone(r, configs) => Gone(r, configs)'
    BY <1>11, <2>1, <2>2, ListMovesOn DEF Gone
  <2> QED
    BY <1>0, <2>1, <2>2, <2>3, <2>4 DEF OnceInv
<1>12. CASE UNCHANGED <<loop, past, configs, runs>>
  BY <1>6, <1>12
<1> QED
  BY <1>1, <1>3, <1>4, <1>5, <1>7, <1>8, <1>9, <1>10, <1>11, <1>12
  DEF Next, Key, CheckDue, SourceChanges, LockExpires, QuietHours, vars

\* "so nothing is sent twice" (pipeline_poller.py:9): a run is alerted once at most, for
\* every number of replicas, connections and runs, as long as the ticks do not overlap,
\* none is cut short, every commit succeeds, and no run still listed is forgotten.
THEOREM NothingSentTwice == Spec => [](past.mishaps = 0 => AlertedOnce)
<1>1. Init => OnceInv
  <2> SUFFICES ASSUME Init PROVE OnceInv
    OBVIOUS
  <2>1. \A p \in Poller : loop[p] = Asleep
    BY DEF Init
  <2>2. \A r \in Run : past.alerts[r] = 0
    BY DEF Init
  <2> QED
    BY <2>1, <2>2, AsleepIsLoop DEF OnceInv, OneInside, Inside, Placed, Fresh
<1>2. OnceInv => (past.mishaps = 0 => AlertedOnce)
  BY DEF OnceInv, AlertedOnce
<1> QED
  BY <1>1, <1>2, StepOnce, TypeCorrect, PTL DEF Spec
===============================================================================
