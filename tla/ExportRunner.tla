----------------------------- MODULE ExportRunner -----------------------------
(***************************************************************************)
(* The export worker (services/export_runner.py) and the requests that     *)
(* race with it (routers/exports.py): one run-log row per execution of a   *)
(* SQL report, the stored result files, the worker loop of every API       *)
(* replica, and the Redis lock that is meant to keep the loops apart.      *)
(*                                                                         *)
(* A step ends where the code awaits: a SELECT and the COMMIT that acts on *)
(* what it returned are two steps.  Durations are flags that time raises:  *)
(* `late' (started_at is older than STUCK_JOB_TIMEOUT), expires = "past",  *)
(* `aged' (created_at is older than the retention window).                 *)
(***************************************************************************)
EXTENDS Naturals, FiniteSets

CONSTANTS
    Worker,      \* API replicas, each with one export loop
    Report,      \* saved SQL reports
    Scheduled,   \* the reports that carry a cron expression
    Request,     \* concurrent HTTP requests
    NoReport,    \* NULL schedule_id
    MaxJobs,     \* bound: rows ever inserted
    MaxCrashes,  \* bound: process deaths
    ClaimLimit,  \* _MAX_JOBS_PER_TICK
    UseRedis,    \* is a Redis server deployed and reachable
    May          \* what the environment may do, a subset of Hazard

Hazard == {"cancel", "leave", "storage_fail", "slow_tick"}

ASSUME ConstantAssumption ==
    /\ IsFiniteSet(Worker) /\ IsFiniteSet(Report) /\ Scheduled \subseteq Report
    /\ NoReport \notin Report
    /\ MaxJobs \in Nat /\ MaxCrashes \in Nat /\ ClaimLimit \in Nat \ {0}
    /\ UseRedis \in BOOLEAN
    /\ May \subseteq Hazard

JobId == 1..MaxJobs
NoJob == 0

Active == {"pending", "running"}
Status == Active \cup {"completed", "failed", "none"}   \* "none": no such row

\* file 0: NULL file_path; file n: the path stored by the job's n-th run.
Row == [status: Status, report: Report \cup {NoReport}, file: Nat,
        expires: {"null", "live", "past"}, late: BOOLEAN, aged: BOOLEAN,
        cancelled: BOOLEAN]   \* error_message is "Cancelled."

NoRow == [status |-> "none", report |-> NoReport, file |-> 0, expires |-> "null",
          late |-> FALSE, aged |-> FALSE, cancelled |-> FALSE]
NewRow(r) == [NoRow EXCEPT !.status = "pending", !.report = r]

PC == {"asleep", "reaping", "enqueue", "enqueuing", "claim", "next", "query",
       "deliver", "purging", "stale", "down"}

\* list: the ORM objects the current phase loaded (stuck, claimed or expired
\* jobs); due: the schedules it loaded; todo: the paths still to be deleted.
Work == {v \in [pc: PC, list: SUBSET JobId, due: SUBSET Report,
                 todo: SUBSET (JobId \X Nat), job: JobId \cup {NoJob}, run: Nat] :
           v.pc \in {"query", "deliver"} => v.job \in JobId}

Asleep == [pc |-> "asleep", list |-> {}, due |-> {}, todo |-> {}, job |-> NoJob, run |-> 0]

NoRequest == [op |-> "none"]
RequestState == [op: {"none"}] \cup [op: {"cancel"}, job: JobId]
                \cup [op: {"run_now"}, report: Report]

VARIABLES
    rows,      \* export_jobs
    nextId,    \* its identity column
    reports,   \* ids present in export_schedules
    files,     \* object storage: <<job, run>> under exports/job_<id>/
    ran,       \* history: how often each job's query was started
    work,      \* the loop of each replica
    lock,      \* the key export_worker:lock exists
    req,       \* each request between its read and its commit
    crashes    \* history: process deaths so far

vars == <<rows, nextId, reports, files, ran, work, lock, req, crashes>>
dbVars == <<rows, nextId, reports>>

-------------------------------------------------------------------------------
Exists(j) == rows[j].status # "none"
\* Seeded fault: running jobs are claimed too.
PendingOrRunning == {j \in JobId : rows[j].status \in Active}

Pending == {j \in JobId : rows[j].status = "pending"}
ActiveOf(r) == {j \in JobId : rows[j].report = r /\ rows[j].status \in Active}

MidTick(w) == work[w].pc \notin {"asleep", "down"}
Held(j) == \E w \in Worker : j \in work[w].list \/ work[w].job = j

FreshIds(k) == nextId .. (nextId + k - 1)
Insert(k, f) ==   \* f maps each of the next k ids to the report it runs
    /\ rows' = [j \in JobId |-> IF j \in FreshIds(k) THEN NewRow(f[j]) ELSE rows[j]]
    /\ nextId' = nextId + k

Room(k) == nextId + k <= MaxJobs + 1

Becomes(w, loop) == work' = [work EXCEPT ![w] = loop]
Abort(w) == Becomes(w, Asleep) /\ UNCHANGED rows

\* Seeded fault: a status ck_export_jobs_status does not know.
FailedAsError(row) == [row EXCEPT !.status = "error", !.cancelled = FALSE]

Failed(row) == [row EXCEPT !.status = "failed", !.cancelled = FALSE]

-------------------------------------------------------------------------------
(***************************************************************************)
(* One tick of a replica's loop.                                           *)
(***************************************************************************)

\* A tick begins: reap_stuck_jobs' SELECT has returned `stuck'.
Tick(w, stuck) ==
    /\ work[w].pc = "asleep"
    /\ lock' = UseRedis
    /\ Becomes(w, [work[w] EXCEPT !.pc = IF stuck = {} THEN "enqueue" ELSE "reaping",
                                  !.list = stuck])
    /\ UNCHANGED <<dbVars, files, ran, req, crashes>>

Stuck == {j \in JobId : rows[j].status = "running" /\ rows[j].late}

\* Seeded faults: the lock is not consulted; nothing is reaped; the reaper
\* looks at started_at alone.
WakeUpUnlocked(w) == Tick(w, Stuck)
WakeUpNoReap(w) == (UseRedis => ~lock) /\ Tick(w, {})
WakeUpAnyLate(w) == (UseRedis => ~lock) /\ Tick(w, {j \in JobId : rows[j].late})

\* SET NX EX; without Redis the lock is always acquired.  A replica that does
\* not get the lock sleeps again.
WakeUp(w) ==
    /\ UseRedis => ~lock
    /\ Tick(w, Stuck)

\* Writes what the SELECT returned, whatever happened to the rows since; an
\* UPDATE that finds no row raises StaleDataError and ends the tick.
ReapCommit(w) ==
    /\ work[w].pc = "reaping"
    /\ IF \A j \in work[w].list : Exists(j)
       THEN /\ rows' = [j \in JobId |->
                          IF j \in work[w].list THEN Failed(rows[j]) ELSE rows[j]]
            /\ Becomes(w, [work[w] EXCEPT !.pc = "enqueue", !.list = {}])
       ELSE Abort(w)
    /\ UNCHANGED <<nextId, reports, files, ran, lock, req, crashes>>

\* Which schedules are due is module ReportSchedule's concern: any may be.
ReadDue(w) ==
    /\ work[w].pc = "enqueue"
    /\ \E due \in SUBSET (Scheduled \cap reports) :
         Becomes(w, [work[w] EXCEPT !.pc = IF due = {} THEN "claim" ELSE "enqueuing",
                              !.due = due])
    /\ UNCHANGED <<dbVars, files, ran, lock, req, crashes>>

\* One transaction for all due schedules: if one of them is gone the foreign
\* key rejects the commit and the tick ends.  (Bound: without room for the new
\* rows the tick goes on as if nothing had been due.)
EnqueueDue(w) ==
    LET due == work[w].due
        k == Cardinality(due) IN
    /\ work[w].pc = "enqueuing"
    /\ \/ /\ due \subseteq reports /\ Room(k)
          /\ \E f \in [FreshIds(k) -> due] :
               /\ \A r \in due : \E j \in FreshIds(k) : f[j] = r
               /\ Insert(k, f)
          /\ Becomes(w, [work[w] EXCEPT !.pc = "claim", !.due = {}])
       \/ /\ due \subseteq reports /\ ~Room(k)
          /\ Becomes(w, [work[w] EXCEPT !.pc = "claim", !.due = {}])
          /\ UNCHANGED <<rows, nextId>>
       \/ /\ ~(due \subseteq reports)
          /\ Abort(w) /\ UNCHANGED nextId
    /\ UNCHANGED <<reports, files, ran, lock, req, crashes>>

\* Seeded fault: the newest pending jobs first.
ClaimNewest(w) ==
    /\ work[w].pc = "claim"
    /\ Becomes(w, [work[w] EXCEPT !.pc = "next",
                     !.list = {j \in Pending :
                                 Cardinality({k \in Pending : k > j}) < ClaimLimit}])
    /\ UNCHANGED <<dbVars, files, ran, lock, req, crashes>>

\* The oldest pending jobs, read once per tick and not marked as claimed.
ClaimPending(w) ==
    /\ work[w].pc = "claim"
    /\ Becomes(w, [work[w] EXCEPT !.pc = "next",
                  !.list = {j \in Pending :
                                 Cardinality({k \in Pending : k < j}) < ClaimLimit}])
    /\ UNCHANGED <<dbVars, files, ran, lock, req, crashes>>

\* run_job marks the row running without looking at what it says by now.
StartRun(w) ==
    /\ work[w].pc = "next"
    /\ \E j \in work[w].list :
         /\ \A k \in work[w].list : j <= k
         /\ IF Exists(j)
            THEN /\ rows' = [rows EXCEPT ![j] = [@ EXCEPT !.status = "running", !.late = FALSE]]
                 /\ ran' = [ran EXCEPT ![j] = @ + 1]
                 /\ Becomes(w, [work[w] EXCEPT !.pc = "query", !.job = j,
                               !.run = ran[j] + 1, !.list = @ \ {j}])
            ELSE Abort(w) /\ UNCHANGED ran
    /\ UNCHANGED <<nextId, reports, files, lock, req, crashes>>

\* run_job's last commit, with the row it leaves.
Settle(w, row) ==
    LET j == work[w].job IN
    IF Exists(j)
    THEN /\ rows' = [rows EXCEPT ![j] = row]
         /\ Becomes(w, [work[w] EXCEPT !.pc = "next", !.job = NoJob, !.run = 0])
    ELSE Abort(w)

\* The query, its serialisation or the store raised.
QueryFails(w) ==
    /\ work[w].pc = "query"
    /\ Settle(w, Failed(rows[work[w].job]))
    /\ UNCHANGED <<nextId, reports, files, ran, lock, req, crashes>>

\* Seeded fault: the path is recorded, nothing is stored.
QueryReturnsUnstored(w) ==
    /\ work[w].pc = "query"
    /\ Becomes(w, [work[w] EXCEPT !.pc = "deliver"])
    /\ UNCHANGED <<dbVars, files, ran, lock, req, crashes>>

\* The rows arrived: serialised and stored.  Delivery is awaited next.
QueryReturns(w) ==
    /\ work[w].pc = "query"
    /\ files' = files \cup {<<work[w].job, work[w].run>>}
    /\ Becomes(w, [work[w] EXCEPT !.pc = "deliver"])
    /\ UNCHANGED <<dbVars, ran, lock, req, crashes>>

\* A failed delivery or a truncated result only leaves a note.  Without a note
\* error_message is set to the NULL it was loaded with, which writes nothing.
FinishRun(w) ==
    LET j == work[w].job IN
    /\ work[w].pc = "deliver"
    /\ \E noted \in BOOLEAN :
         Settle(w, [rows[j] EXCEPT !.status = "completed", !.file = work[w].run,
                      !.expires = "live", !.cancelled = @ /\ ~noted])
    /\ UNCHANGED <<nextId, reports, files, ran, lock, req, crashes>>

\* The claimed list is done; purge_expired_results' SELECT returned `expired'.
Purge(w, expired, paths) ==
    /\ work[w].pc = "next" /\ work[w].list = {}
    /\ Becomes(w, [work[w] EXCEPT !.pc = IF expired = {} THEN "stale" ELSE "purging",
                                  !.list = expired, !.todo = paths])
    /\ UNCHANGED <<dbVars, files, ran, lock, req, crashes>>

PathsOf(S) == {<<j, rows[j].file>> : j \in {k \in S : rows[k].file # 0}}
Expired == {j \in JobId : rows[j].expires = "past"}

\* Seeded fault: the files are forgotten.
ReadExpiredForgets(w) == Purge(w, Expired, {})

ReadExpired(w) == Purge(w, Expired, PathsOf(Expired))

\* delete_result swallows a storage error and leaves the file.
PurgeFile(w) ==
    /\ work[w].pc = "purging"
    /\ \E f \in work[w].todo :
         /\ Becomes(w, [work[w] EXCEPT !.todo = @ \ {f}])
         /\ \/ files' = files \ {f}
            \/ "storage_fail" \in May /\ UNCHANGED files
    /\ UNCHANGED <<dbVars, ran, lock, req, crashes>>

PurgeRows(w) ==
    /\ work[w].pc = "purging" /\ work[w].todo = {}
    /\ rows' = [j \in JobId |-> IF j \in work[w].list THEN NoRow ELSE rows[j]]
    /\ Becomes(w, [work[w] EXCEPT !.pc = "stale", !.list = {}])
    /\ UNCHANGED <<nextId, reports, files, ran, lock, req, crashes>>

\* One DELETE for aged runs that never produced a result.
Retire(w, statuses) ==
    /\ work[w].pc = "stale"
    /\ rows' = [j \in JobId |->
                  IF /\ rows[j].expires = "null" /\ rows[j].aged
                     /\ rows[j].status \in statuses
                  THEN NoRow ELSE rows[j]]
    /\ Becomes(w, Asleep)
    /\ UNCHANGED <<nextId, reports, files, ran, lock, req, crashes>>

\* Seeded faults: whatever the status; only completed runs.
PurgeStaleAny(w) == Retire(w, Status)
PurgeStaleCompleted(w) == Retire(w, {"completed"})

PurgeStale(w) == Retire(w, {"failed", "completed"})

WorkerStep(w) ==
    \/ WakeUp(w) \/ ReapCommit(w) \/ ReadDue(w) \/ EnqueueDue(w)
    \/ ClaimPending(w) \/ StartRun(w) \/ QueryFails(w) \/ QueryReturns(w)
    \/ FinishRun(w) \/ ReadExpired(w) \/ PurgeFile(w) \/ PurgeRows(w)
    \/ PurgeStale(w)

\* A deploy, a scale-in or a kill: everything in memory is lost, the lock key
\* and whatever was committed or stored stay.
Crash(w) ==
    /\ work[w].pc # "down" /\ crashes < MaxCrashes
    /\ Becomes(w, [Asleep EXCEPT !.pc = "down"])
    /\ crashes' = crashes + 1
    /\ UNCHANGED <<dbVars, files, ran, lock, req>>

Restart(w) ==
    /\ work[w].pc = "down"
    /\ Becomes(w, [work[w] EXCEPT !.pc = "asleep"])
    /\ UNCHANGED <<dbVars, files, ran, lock, req, crashes>>

-------------------------------------------------------------------------------
(***************************************************************************)
(* Requests: each reads, then commits what it decided.                     *)
(***************************************************************************)
CancelRead(q, j) ==
    /\ "cancel" \in May /\ req[q].op = "none"
    /\ rows[j].status \in Active                       \* else 404 or 409
    /\ req' = [req EXCEPT ![q] = [op |-> "cancel", job |-> j]]
    /\ UNCHANGED <<dbVars, files, ran, work, lock, crashes>>

CancelCommit(q) ==
    LET j == req[q].job IN
    /\ req[q].op = "cancel"
    /\ rows' = IF Exists(j)
               THEN [rows EXCEPT ![j] = [@ EXCEPT !.status = "failed", !.cancelled = TRUE]]
               ELSE rows                               \* 500
    /\ req' = [req EXCEPT ![q] = NoRequest]
    /\ UNCHANGED <<nextId, reports, files, ran, work, lock, crashes>>

RunNowRead(q, r) ==
    /\ req[q].op = "none" /\ r \in reports
    /\ ActiveOf(r) = {}                                \* else 409
    /\ req' = [req EXCEPT ![q] = [op |-> "run_now", report |-> r]]
    /\ UNCHANGED <<dbVars, files, ran, work, lock, crashes>>

\* The foreign key rejects the insert when the report is gone.
RunNowCommit(q) ==
    LET r == req[q].report IN
    /\ req[q].op = "run_now"
    /\ IF r \in reports /\ Room(1)
       THEN Insert(1, [j \in FreshIds(1) |-> r])
       ELSE UNCHANGED <<rows, nextId>>
    /\ req' = [req EXCEPT ![q] = NoRequest]
    /\ UNCHANGED <<reports, files, ran, work, lock, crashes>>

\* clear_schedule_links and the DELETE share one transaction.
DeleteReport(r) ==
    /\ r \in reports
    /\ reports' = reports \ {r}
    /\ rows' = [j \in JobId |->
                  IF rows[j].report = r THEN [rows[j] EXCEPT !.report = NoReport] ELSE rows[j]]
    /\ UNCHANGED <<nextId, files, ran, work, lock, req, crashes>>

\* The owner's account is deleted for good: both tables cascade.
DeleteUser ==
    /\ "leave" \in May
    /\ reports # {} \/ \E j \in JobId : Exists(j)
    /\ reports' = {}
    /\ rows' = [j \in JobId |-> NoRow]
    /\ UNCHANGED <<nextId, files, ran, work, lock, req, crashes>>

RequestStep ==
    \/ \E q \in Request :
         \/ CancelCommit(q) \/ RunNowCommit(q)
         \/ \E j \in JobId : CancelRead(q, j)
         \/ \E r \in Report : RunNowRead(q, r)
    \/ \E r \in Report : DeleteReport(r)
    \/ DeleteUser

-------------------------------------------------------------------------------
(***************************************************************************)
(* Time.  The lock outlives a tick unless ticks may be slow; the retention *)
(* window (30 days) outlives every tick, so a row a loop still holds does  *)
(* not reach it.                                                           *)
(***************************************************************************)
LockExpires ==
    /\ lock
    /\ "slow_tick" \in May \/ \A w \in Worker : ~MidTick(w)
    /\ lock' = FALSE
    /\ UNCHANGED <<dbVars, files, ran, work, req, crashes>>

BecomeLate(j) ==
    /\ rows[j].status = "running" /\ ~rows[j].late
    /\ rows' = [rows EXCEPT ![j] = [@ EXCEPT !.late = TRUE]]
    /\ UNCHANGED <<nextId, reports, files, ran, work, lock, req, crashes>>

Expire(j) ==
    /\ rows[j].expires = "live" /\ ~Held(j)
    /\ rows' = [rows EXCEPT ![j] = [@ EXCEPT !.expires = "past"]]
    /\ UNCHANGED <<nextId, reports, files, ran, work, lock, req, crashes>>

AgeOut(j) ==
    /\ Exists(j) /\ ~rows[j].aged /\ ~Held(j)
    /\ rows' = [rows EXCEPT ![j] = [@ EXCEPT !.aged = TRUE]]
    /\ UNCHANGED <<nextId, reports, files, ran, work, lock, req, crashes>>

TimeStep == LockExpires \/ \E j \in JobId : BecomeLate(j) \/ Expire(j) \/ AgeOut(j)

-------------------------------------------------------------------------------
Init ==
    /\ rows = [j \in JobId |-> NoRow]
    /\ nextId = 1
    /\ reports = Report
    /\ files = {}
    /\ ran = [j \in JobId |-> 0]
    /\ work = [w \in Worker |-> Asleep]
    /\ lock = FALSE
    /\ req = [q \in Request |-> NoRequest]
    /\ crashes = 0

Next ==
    \/ \E w \in Worker : WorkerStep(w) \/ Crash(w) \/ Restart(w)
    \/ RequestStep
    \/ TimeStep

Spec == Init /\ [][Next]_vars

\* The event loop of every replica keeps going (run_export_worker_loop swallows
\* every error), a dead replica is replaced, and time passes.
Fairness ==
    /\ \A w \in Worker : WF_vars(WorkerStep(w)) /\ WF_vars(Restart(w))
    /\ WF_vars(LockExpires)
    /\ \A j \in JobId : WF_vars(BecomeLate(j)) /\ WF_vars(Expire(j)) /\ WF_vars(AgeOut(j))

FairSpec == Spec /\ Fairness

-------------------------------------------------------------------------------
TypeOK ==
    /\ rows \in [JobId -> Row]
    /\ nextId \in 1..(MaxJobs + 1)
    /\ reports \subseteq Report
    /\ files \subseteq JobId \X Nat
    /\ ran \in [JobId -> Nat]
    /\ work \in [Worker -> Work]
    /\ lock \in BOOLEAN
    /\ req \in [Request -> RequestState]
    /\ crashes \in 0..MaxCrashes

\* The answer of download_export_content.
DownloadStatus(j) ==
    CASE ~Exists(j) -> 404
      [] rows[j].status \in Active \cup {"failed"} -> 409
      [] rows[j].status = "completed" /\ <<j, rows[j].file>> \notin files -> 410
      [] OTHER -> 200

\* A completed run can be downloaded until its window closes: whatever loops,
\* cancels, reapers and crashes did, the path on the row leads to a stored file
\* (download_export_content).
DownloadAvailable ==
    \A j \in JobId :
        rows[j].status = "completed" /\ rows[j].expires = "live"
            => DownloadStatus(j) = 200

\* Retention removes neither a run that has not finished nor a result whose
\* window is open, although purge_expired_results deletes by the ids it
\* selected before it deleted the files.
PurgeTakesOnlyExpired ==
    [][~(DeleteUser) => \A j \in JobId :
          Exists(j) /\ ~Exists(j)' =>
              \/ rows[j].expires = "past"
              \/ rows[j].aged /\ rows[j].status \notin Active]_vars

\* "One run per job": the query of a job is started at most once, however many
\* replicas poll the table.
OneRunPerJob == \A j \in JobId : ran[j] <= 1

\* A recorded outcome is final: once completed or failed, a run changes no more
\* until retention removes it.
OutcomeIsFinal ==
    [][\A j \in JobId :
          rows[j].status \in {"completed", "failed"}
              => rows'[j].status \in {rows[j].status, "none"}]_vars

\* As long as no process has died, every stored file is reachable from its row,
\* or is about to be: otherwise retention will never find it.
NoOrphanFile ==
    crashes = 0 => \A f \in files :
        \/ rows[f[1]].file = f[2]
        \/ \E w \in Worker : work[w].pc = "deliver" /\ <<work[w].job, work[w].run>> = f

\* The result of a cancelled run is discarded (cancel_export_job).
CancelledHasNoResult ==
    \A j \in JobId : ~(rows[j].status = "completed" /\ rows[j].cancelled)

\* A run is queued, started oldest first, settled once and then removed.
Phase(j) ==
    IF Exists(j) THEN rows[j].status ELSE IF j < nextId THEN "gone" ELSE "absent"
Log == INSTANCE RunLog WITH log <- [j \in JobId |-> Phase(j)]
ImplementsRunLog == Log!FairSpec

\* A queued or running job reaches an outcome: what a dead loop leaves behind
\* the reaper of a later tick finds.
EveryRunSettles ==
    \A j \in JobId : rows[j].status \in Active ~> rows[j].status \notin Active

\* The run log does not grow without bound: every outcome is purged.
EveryRunIsPurged ==
    \A j \in JobId : rows[j].status \in {"completed", "failed"} ~> rows[j].status = "none"

\* A started job is never queued again, so even unsynchronised replicas start it
\* at most once each.
AtMostOncePerReplica == \A j \in JobId : ran[j] <= Cardinality(Worker)

-------------------------------------------------------------------------------
(***************************************************************************)
(* The inductive invariants behind the theorems of ExportRunnerProofs.     *)
(***************************************************************************)
HoldsClaim(w, j) ==
    \/ work[w].pc \in {"next", "query", "deliver"} /\ j \in work[w].list
    \/ work[w].pc \in {"query", "deliver"} /\ work[w].job = j

\* Ids are handed out once, and every loop works on ids handed out before.
FreshInv ==
    /\ \A j \in JobId : IF Exists(j) THEN j < nextId ELSE rows[j].expires = "null"
    /\ \A w \in Worker :
         /\ \A j \in work[w].list : j < nextId
         /\ work[w].job < nextId
         /\ work[w].pc # "purging" => work[w].todo = {}

\* What the run log says about storage.
StorageInv ==
    /\ \A j \in JobId :
         /\ rows[j].status = "pending" => rows[j].expires = "null"
         /\ rows[j].expires = "live" => <<j, rows[j].file>> \in files
    /\ \A w \in Worker :
         work[w].pc = "deliver" => <<work[w].job, work[w].run>> \in files

\* A claimed job has not expired, and a job being purged is claimed by no loop.
PurgeInv ==
    /\ \A w \in Worker, j \in JobId : HoldsClaim(w, j) => rows[j].expires # "past"
    /\ \A w \in Worker : work[w].pc = "purging" =>
         /\ \A f \in work[w].todo : f[1] \in work[w].list
         /\ \A j \in work[w].list :
              /\ rows[j].expires = "past" \/ ~Exists(j)
              /\ \A v \in Worker : ~HoldsClaim(v, j)

ResultInv == FreshInv /\ StorageInv /\ PurgeInv

\* When only one loop can be inside a tick: one replica, or a lock that is not
\* lost before the tick ends.
Exclusive ==
    \/ UseRedis /\ "slow_tick" \notin May
    \/ \A v, w \in Worker : v = w

TickInv ==
    /\ \A v, w \in Worker : MidTick(v) /\ MidTick(w) => v = w
    /\ UseRedis /\ "slow_tick" \notin May => \A w \in Worker : MidTick(w) => lock

\* Whatever is still queued or claimed has not been started.
RunInv ==
    /\ \A j \in JobId :
         /\ ran[j] <= 1
         /\ rows[j].status = "pending" \/ j >= nextId => ran[j] = 0
    /\ \A w \in Worker : work[w].pc \in {"next", "query", "deliver"} =>
         \A j \in work[w].list : ran[j] = 0

OnceInv == FreshInv /\ TickInv /\ RunInv

\* The jobs a loop has claimed and not started.
Unstarted(v) == IF v.pc \in {"next", "query", "deliver"} THEN v.list ELSE {}

\* Every start a job has seen or may still see was claimed by a loop of its own.
ReplicaInv ==
    \A j \in JobId :
        /\ rows[j].status = "pending" \/ j >= nextId => ran[j] = 0
        /\ ran[j] + Cardinality({w \in Worker : j \in Unstarted(work[w])})
              <= Cardinality(Worker)

\* When one loop at a time is inside a tick and nobody cancels, the rows a loop
\* works on have not moved on since it read them, and it has claimed every
\* queued job older than one it claimed.
OutcomeInv ==
    /\ \A q \in Request : req[q].op # "cancel"
    /\ \A j \in JobId :
         rows[j].expires # "null" => rows[j].status \in {"completed", "failed"}
    /\ \A w \in Worker :
         /\ work[w].pc = "reaping" =>
              \A j \in work[w].list : rows[j].status \in {"running", "none"}
         /\ work[w].pc \in {"query", "deliver"} =>
              rows[work[w].job].status \in {"running", "none"}
         /\ \A j \in Unstarted(work[w]) :
              /\ rows[j].status \in {"pending", "none"}
              /\ \A k \in Pending : k < j => k \in work[w].list

LogInv == OnceInv /\ OutcomeInv

\* What a stored file is to the row and to the loops, when every job runs once
\* and only retention removes rows.
OrphanInv ==
    /\ \A j \in JobId : rows[j].file # 0 => rows[j].expires # "null"
    /\ \A f \in files : f[2] = 1
    /\ \A w \in Worker :
         /\ work[w].pc \in {"query", "deliver"} => work[w].run = 1
         /\ \A j \in JobId : HoldsClaim(w, j) => Exists(j)
         /\ work[w].pc = "purging" /\ crashes = 0 =>
              \A f \in files : f[1] \in work[w].list => f \in work[w].todo
    /\ NoOrphanFile

FileInv == OnceInv /\ OrphanInv
===============================================================================
