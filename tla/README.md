# Verification of the Power BI platform

TLA+ specifications of the parts of this repository whose correctness depends
on the order in which things happen: the background workers of the server, the
tables they share with HTTP requests, the undo history, and the pages of the
front end, each of which keeps a copy of what the server has and corrects it by
hand. Every specification is model-checked with TLC on small instances, and the
invariants that matter most are proved with TLAPS for all instances.

Paths below are relative to `src/`; `services/`, `routers/`, `schemas/` and
`models/` are those of `api/app/`, and `app/`, `components/` and `lib/` those of
`application/src/`.

## 1. The system

A Next.js front end (`application/`) talks to a FastAPI back end (`api/app/`),
which keeps all state in one SQL database, stores files through fsspec and uses
Redis, when there is one, for locks and rate limits. One API process is an
asyncio event loop that serves requests and runs two endless tasks
(`main.lifespan`): the **pipeline poller** and the **export worker**. Azure
Container Apps runs one replica of it, or up to three when Redis is deployed
(`deploy/azure/main.bicep`).

On the server everything concurrent follows from this: requests and the two
loops of every replica interleave at each `await`, they share nothing but the
database, Redis and the object store, no row carries a version number, and no
statement locks a row for later. A handler that reads, decides and writes may
therefore act on what is no longer so. A process may be killed at any await.

In the browser there is one thread and no shared store: a page keeps what it
has read in `useState`, sends its requests through `createClientFetch`
(`lib/api.ts`), and goes on when the answer is in. No request is aborted,
nothing orders the answers, timers and effects run between them, and after a
change most pages do not read again but correct their copy. A page is therefore
right when its copy, corrected by every answer in whatever order, is what the
server has.

| Component | State it keeps | Operations | What is hard about it |
|---|---|---|---|
| **Export worker and run log** `services/export_runner.py`, `routers/exports.py`, `services/export_generator.py` | `export_jobs` (status, file, expiry), stored files, the key `export_worker:lock` | a tick reaps, enqueues, claims, runs and purges; requests queue, cancel and download runs and delete reports | several loops at once, a lock that expires, a job list that is stale when used, files and rows that must agree, crashes mid-run |
| **Change ledger** `services/change_ledger.py`, `services/mutation_registry.py`, `routers/changes.py` | `change_ledger` entries with snapshots, the rows they describe | log create/update/delete, revert one entry, revert a whole change, purge after 90 days | inverse entries that can be reverted again, conflicts, order within a group, identities that change when a row is recreated |
| **Pipeline poller** `services/pipeline_poller.py`, `services/condition_checker.py`, `services/alert_suppression.py` | runs handled, times of the last alerts, flags of the conditions, the key `pipeline_poller:lock` | poll a provider, decide about new runs, send, remember; check conditions, announce, remember | sending precedes the commit that remembers it; a bounded, unordered memory; one lock by time; a throttle within one batch; quiet hours |
| **Invitations and users** `services/invites.py`, `services/user.py`, `routers/admin.py`, `components/admin/UsersClient.tsx` | invitations with tokens, accounts, roles | invite, supersede, resend, revoke, accept; edit, deactivate, create | a mail inside an open transaction; accepting races with revoking; an edit that is two requests |
| **Data dictionary** `app/admin/data-dictionary/page.tsx`, `routers/data_dict.py` | tables hidden, rows with descriptions and keys, a log of the fields | hide, edit, populate, revert to a moment, search | optimistic changes with roll-backs that overlap; answers for a table left since |
| **Connections and sharing** `app/admin/bi-connections`, `data-pipelines`, `warehouses`, `components/admin/ShareResourceDialog.tsx` and their routers | connections with secrets, the default warehouse, grants | create, test, set default, delete, share | secrets that are never shown and must survive a save; grants replaced as a list |
| **Navigation and pages** `app/admin/nav-config`, `app/admin/pages/[id]`, `schemas/nav_config.py`, `routers/pages.py` | the navigation tree, pages with versions | edit, validate twice, filter for the user; save, publish, restore | two validators that must agree; a history that must lose nothing |
| **Audit and changes pages** `app/admin/audit`, `app/admin/changes`, `components/pipelines/DeliveryHistory.tsx` | filters in the address and in the form, a page of records | filter, page, revert | answers out of order, filters that leave one on a page beyond the last |
| **Notifications pages** `components/pipelines/*`, `app/admin/notification-groups`, `routers/pipeline_notifications.py` | settings, overrides, quiet hours, condition checks, groups | edit, save whole, toggle | forms that show less than they save |
| **Dashboards and embedding** `components/dashboards/*`, `app/admin/dashboards`, `routers/dashboards.py`, `routers/embed.py`, `services/embedders/powerbi.py` | dashboards with versions and filters, embed tokens | create, edit, toggle, restore, embed, renew | dependent lists answered in any order; a timer that renews the token; filters resolved for the viewer |
| **Pipelines and home pages** `app/(platform)/pipelines/[id]`, `app/(platform)/home`, `routers/favorites.py` | pages of runs, a tree of them; favourites | load more, switch window, expand, star | runs whose parent is on another page; stars in flight together |
| **Exports pages** `components/exports/*` | the latest run of each report, the run log, filters | run, poll, edit, cancel, filter | polling that stops by itself; a debounce that races a filter |
| **Profile** `components/settings/ProfileForm.tsx`, `routers/users.py`, `services/avatars.py` | details, avatar with its image and its copy in the session, password | edit, upload, remove, change the password | an image that is stored before the row names it; a cookie that keeps a copy |
| **Session** `lib/auth.ts`, `middleware.ts`, `components/auth/*`, `components/settings/TotpEnrollment.tsx`, `routers/auth.py` | a signed cookie, the second factor | sign in, renew, expire, sign out, enrol, disable | a flag that lives in the cookie and an answer computed from an older one |
| **Schedules** `services/cron.py` | none | parse, match, due | slots missed and slots seen twice |
| **Dispatcher** `services/notifications/` | rate-limit keys | deliver by preference | one key for all channels |
| **Permissions**, **SQL guard and query execution**, **settings, search, audit writing, secrets, storage** | grants; none; single or append-only rows | | no decision rests on an earlier read |

How they interact. Requests and loops meet in tables: `run_report_now` queues
a row that `claim_pending_jobs` picks up; `cancel_export_job` writes a row that
`run_job` will write again; `delete_report` removes the schedule a tick has
just read; `upsert_config` writes the row a poll has loaded. The ledger is
called by every router that changes configuration and writes those tables
itself when something is reverted. Deleting a user cascades through most
tables. A page meets the server in requests only, and another page never.

## 2. Correctness, component by component

* **Export worker.** A completed run can be downloaded until its window
  closes; retention takes nothing else; a job runs once; an outcome is final;
  every job settles and every outcome is purged; no file is stored that no row
  names.
* **Change ledger.** Reverting an entry restores what it describes, or refuses;
  a change is undone at most once; reverting a whole change restores the state
  before it; the newest entry of a row says what is in it.
* **Pipeline poller.** No run is remembered as handled before it was decided
  about, whatever crashes; none is alerted twice when nothing goes wrong, and only once
  more for each thing that does; no two alerts of a kind within the interval;
  the groups know the state of every condition.
* **Pages.** Once nothing is in flight, what is on display is what the server
  has. A form that is saved whole leaves alone what it does not show and what
  was not changed in it; two forms do not (section 4). Nothing on display waits
  for ever.
* **Invitations.** An address gets one account, and none through an invitation
  that was revoked.
* **Histories.** Every content a page has had and all settings a dashboard has
  had can be restored. The changes of one action are taken back together.
* **Navigation.** The API refuses a draft its editor accepts for a length or an
  odd path only, which the editor does not check, and no link of the bar leads
  nowhere.
* **Embedding.** A report is shown with all filters of its viewer and no other,
  and its token is renewed by one timer, planned exactly while it is on show.
* **Session.** The app that was enrolled is the one the server knows; whoever
  has enrolled is let go; a tab signs out once.

## 3. Modules

```
RunLog <-- refines -- ExportRunner <-- EXTENDS -- ExportRunnerProofs
                      ChangeLedger <-- EXTENDS -- ChangeLedgerProofs
                    PipelinePoller <-- EXTENDS -- MCPipelinePoller, PipelinePollerProofs

Calls <-- EXTENDS -- every page below, CallsProofs

AdminConsole  composes  DictTree DictRows DictDialogs Invites UsersTable RoleEditor ShareDialog
  (MCAdminConsole)      ProviderPage DataPipelines Warehouses GroupsPage NavConfig PageEditor
                        AuditPage ChangesPage Deliveries
Portal        composes  PortalHome PipelineRuns Conditions NotifSettings RunTables BoardsTable
  (MCPortal)            DashboardForm EmbedView SignIn ProfileForm
ReportsPage   by itself, since it has fairness (MCReportsPage)

AdminConsole, CallsProofs         <-- EXTENDS -- ConsoleProofs, ConsoleWaits
Portal, CallsProofs               <-- EXTENDS -- PortalProofs
Portal, ReportsPage, CallsProofs  <-- EXTENDS -- PortalWaits
```

| Module | What it is |
|---|---|
| `ExportRunner` | the export worker of every replica, the requests that race with it, crashes and time |
| `RunLog` | the abstract run log: submit, start oldest first, complete or fail once, remove |
| `ChangeLedger` | the ledger, the revert engine, the 90-day purge, and the rows they act on |
| `PipelinePoller` | the poller of every replica with the checks of conditions, crashes and time |
| `Calls` | the requests of one browser tab: sent, begun by the server, answered, failed, in any order |
| `DictTree`, `DictRows`, `DictDialogs` | the data dictionary page: tree and hidden tables; rows, histories and reverts; dialogs of keys and search |
| `Invites`, `UsersTable`, `RoleEditor` | invitations with invitees and the server's transactions; the table of users; the roles |
| `ProviderPage`, `DataPipelines`, `Warehouses`, `ShareDialog` | the connections of three kinds (the second is an instance of the first) and the dialog that shares one |
| `NavConfig`, `PageEditor` | the navigation from the draft to the bar; a page with its versions |
| `AuditPage`, `ChangesPage`, `Deliveries` | the audit log, the change feed with its reverts, the delivery history |
| `GroupsPage`, `NotifSettings`, `Conditions` | groups of recipients, the settings of a pipeline, its condition checks |
| `BoardsTable`, `DashboardForm`, `EmbedView` | dashboards with versions, their form, and row filters from the form to the embedded report |
| `PipelineRuns`, `PortalHome` | the run history of a pipeline, the home page with its stars |
| `ReportsPage`, `RunTables` | the table of reports that polls, the run log under its filters |
| `SignIn`, `ProfileForm` | session cookie, sign-in, expiry, sign-out, second factor; the profile with its avatar and password |
| `AdminConsole`, `Portal` | the pages side by side: a behaviour is one of any of them, and the properties that all share are stated once |
| `MC*` | the instances for TLC: model values, what the pages find on the server, symmetry |
| `*Proofs`, `*Waits` | the theorems of section 5 |

A definition marked *seeded fault* or *mutant* is used by no specification: it
is the form a plausible mistake would give the definition below it, kept to
show that some property notices.

### 3.1 ExportRunner

A step ends where the code awaits something that lets another task in: a
`SELECT` and the `COMMIT` that acts on its answer are two steps, everything
between two awaits is one. What a task remembers across an await is in its
record, so it can be stale.

| State | In the code |
|---|---|
| `rows`, `nextId` | table `export_jobs` and its identity column. `file`: `file_path`; `expires`: `expires_at` (null, open, over); `late`: `started_at` older than `STUCK_JOB_TIMEOUT`; `aged`: `created_at` older than the retention window; `cancelled`: the error message a cancel leaves |
| `reports` | ids present in `export_schedules` |
| `files` | the object store, one path per job and run |
| `work` | per replica, where `export_tick` is and what it has loaded: the claimed list, the due schedules, the paths still to delete |
| `lock` | the key `export_worker:lock` exists |
| `req` | a request between its read and its commit |
| `ran`, `crashes` | history only |

| Actions | In the code |
|---|---|
| `WakeUp`, `ReapCommit`, `ReadDue`, `EnqueueDue`, `ClaimPending`, `StartRun`, `QueryFails`, `QueryReturns`, `FinishRun`, `ReadExpired`, `PurgeFile`, `PurgeRows`, `PurgeStale` | one tick: `run_export_worker_loop`, `reap_stuck_jobs`, `enqueue_due_schedules`, `claim_pending_jobs`, `run_job` (three steps: marked running, query and store, recorded), `purge_expired_results` (four) |
| `CancelRead`, `CancelCommit` | `cancel_export_job`, `cancel_job` |
| `RunNowRead`, `RunNowCommit` | `run_report_now` |
| `DeleteReport`, `DeleteUser` | `delete_report` with `clear_schedule_links`; `delete_user_permanently` and its cascades |
| `Crash`, `Restart` | a replica is killed and replaced: its record is lost; rows, files and the lock stay |
| `LockExpires`, `BecomeLate`, `Expire`, `AgeOut` | time |

An exception that escapes a tick ends it (`Abort`): an `UPDATE` of a row that
is gone, a foreign key that rejects a job of a deleted report. `May` names what
the environment does in an instance: `cancel`, `leave` (a user is deleted for
good), `storage_fail` (a deletion in the object store fails and is swallowed),
`slow_tick` (the lock may run out while its holder is inside the tick).

Abstracted: a query is success or failure after any time; which scheduled
reports are due at a tick is any subset; formats, delivery and file contents
are left out, a failed delivery only leaves a note. No tick lasts as long as the
retention window, so a row that a loop holds does not reach it.

### 3.2 RunLog

The log of runs as the repository's README describes it to a user. `Phase`
maps a row to it: an id not handed out yet is *absent*, one whose row is gone
is *gone*. The mapping is checked with fairness, so it says both that the
worker takes no step the log forbids (no start out of order, no second
outcome, no removal of an unfinished run) and that it starts, settles and
removes every run.

### 3.3 ChangeLedger

Three kinds of row stand for what the engine treats differently: dashboards
(unique slug, grants that go with them), the navigation (one row that names
dashboards inside JSON), SQL reports (no unique key, and a column that the
export worker writes). A dashboard's grants are a table of their own. Rows name
others in foreign keys: a grant its dashboard and the user or role it is for, a
dashboard its creator and its BI connection, a report its author. Users, roles
and connections keep no history, so one that is deleted does not come back.

| State | In the code |
|---|---|
| `rows`, `nextRow` | the four tables with a history and their identity columns; the tables of users and roles (`"principal"`, one table) and of BI connections. `refs`: the dashboards a row names; `who`: the users and roles it names; `conn`: its connection |
| `ledger`, `nextEntry` | `change_ledger`: type, row id, action, snapshots before and after, group (`correlation_id`), `reverted_at`, `revert_of_id`, and whether it is older than 90 days |
| `req` | a revert between reading the entries, loading the rows they describe, and committing |

| Actions | In the code |
|---|---|
| `CreateDashboard`, `CreateReport`, `Update`, `SetPermissions`, `SetNav`, `DeleteDashboard`, `DeleteReport` | the handlers in `routers/dashboards.py`, `routers/exports.py`, `routers/admin.py`, with the entries they log |
| `ScheduledRun` | the export worker stamps `last_run_at` without an entry |
| `DeletePrincipal`, `DeleteConnection` | `delete_user_permanently` and `delete_role` with `services/principal_cleanup.py`; `delete_bi_connection`, which a dashboard's foreign key refuses. No entry is written |
| `RevertRead`, `RevertLoad`, `RevertCommit` | `revert_change` and `revert_correlation`: filter, order, conflict check, restore or recreate under a new id, remap parents and navigation, `_record_inverse`; any failure rolls everything back |
| `AgeOut`, `Purge` | 90 days pass; `_purge_expired` on loading the feed |

`May` chooses what callers do: `overlap` (other handlers run between the steps
of a revert), `force`, `piecemeal` (one entry of a group reverted alone),
`share`, `reports`, `age`, and `both` (a dashboard that is there from the
beginning names users and a connection, not only one of them).

Abstracted: filters of a dashboard behave like the grants it was created with
and are left out; custom pages and data dictionary entries behave like
dashboards without children and are left out; a report's warehouse connection is
left out; users and roles are one table, and `Parents` bounds them and the
connections; the organisation's settings row exists; the rows of one group are loaded in one step; a commit for which the
instance has no room behaves like a rollback; no request lasts a retention
window.

### 3.4 PipelinePoller

Cut into steps like the worker. What a tick has loaded is in its record, which
is why a commit that overlaps another writes back an old list.

| State | In the code |
|---|---|
| `runs` | the providers: runs started, runs that have ended |
| `configs` | `pipeline_notification_configs`. `set`: what an administrator saves; `first`: `last_polled_at` is null; `due`: the cadence has passed; `seen`: `notified_run_ids`; `stamps`: the keys of `last_alert_at` younger than the interval |
| `conds` | `notification_conditions`: `due`, and `triggered` for `is_triggered` |
| `world` | which conditions have an idle source now, and whether it is a quiet hour |
| `lock` | the key `pipeline_poller:lock` exists |
| `loop` | per replica, where the tick is and what it has loaded: configurations to poll, the runs of the present one that are new and those to alert, the conditions to check |
| `past` | history only: alerts sent, runs decided about, keys alerted within the interval, what was announced last, mishaps |

| Actions | In the code |
|---|---|
| `StartTick`, `ReadConfigs`, `EndTick` | `run_poller_loop`, `poll_tick` |
| `FetchRuns` (with `Listed`, `Loud`, `Planned`), `FetchFails`, `SendAlert`, `CommitPoll` (with `Remembered`), `CommitFails` | `_process_config`, `should_suppress` |
| `ReadConditions`, `Probe`, `ProbeFails`, `Announce`, `CommitCheck`, `CheckFails` | `check_due_conditions`, `evaluate_condition`, `_apply_result` |
| `SaveConfig` | `upsert_config` |
| `Crash`, `Restart`, `LockExpires`, `PollDue`, `CheckDue`, `IntervalPasses`, `QuietHours` | processes and time |
| `RunStarts`, `RunFinishes`, `SourceChanges` | the providers |

A **mishap** is a tick that starts while another is under way (the lock lives 55
seconds, and a Redis that is down counts as a lock taken), one that dies, a
commit that fails, or a handled run that is cut from the memory while the
provider still lists it. `MaxMishaps` bounds them, and the properties say what
each one costs.

Abstracted: a provider lists its `MaxListed` newest runs in any state (the code
asks for 100 of the last two days); the memory (1000) is at least as long; a
destination that cannot be reached, or a user's own subscription, is part of
`SendAlert`; every condition announces recoveries; no interval of the throttle
ends while an alert of its own key is waiting to be sent.

### 3.5 The pages

Every page is a module over `Calls`. Its variables are the server's rows as far
as the page can tell them apart, the React state of the page in one record, and
the requests of the tab. A click is an action that changes the state at once
and sends a request; the server's handler is an action (two, when it awaits
something between reading and committing); an answer that is in is an action
that goes on where the handler awaited. `…CallFails` fails any request, before
or after the server has acted. Effects that run after a change are part of the
action that makes it; timers are actions.

Every click counts against a bound (`Max…Clicks`), and `MaxCalls` bounds the
requests of a tab in flight together.

**calm.** The pages promise little to whoever clicks while something is in
flight, and the code shows that it means to: most buttons are disabled while
their own request is under way. Each page therefore keeps in `calm` whether so
far its user has done one thing at a time and no answer was lost after the
server had acted, each in the weakest form that the page needs. Everything else
still happens in those behaviours: requests that are refused or do not arrive,
effects and timers that send requests of their own, answers in any order where
one click sends several or several clicks are allowed together (hiding several
tables, editing several rows, several stars), renewed sessions, dialogs
cancelled while they save. `NothingHangs`, `NoHalfRevert`, `OneAccount`,
`NavigationWorks`, `NoRunLost`, `RunFollowed`, and the parts of
`EditsKeepTheRest` about connections, checks and what a dashboard embeds ask for
no calm at all.

The properties that all pages share are conjunctions, so that each run asks one
question of all pages on display:

| Property | In `AdminConsole` | In `Portal` |
|---|---|---|
| `ListsMatch`: what is shown is what is stored | `HiddenMatches` `RowsMatch` `KeysMatch` `AnswersMatch` `UsersMatch` `ConnsMatch` `PipesMatch` `WarehousesMatch` `RolesMatch` `GroupsMatch` `NavSavedShown` `PageShown` `AuditShown` `FeedShown` `DeliveriesShown` `ShownLinkWorks` `EmptyMeansNone` | `StarsMatch` `RunsMatch` `ChecksMatch` `AllChangesSaved` `RunsShown` `BoardsMatch` `ProfileMatches` `AvatarStored` |
| `EditsKeepTheRest`: what a form does not show, or was not changed in it, stays | `SecretKept` `GrantsKept` `DestinationsKept` `UntoggledRolesKept` | `UntouchedIsKept` `MetadataKept` `FiltersKept` |
| `NothingHangs`: nothing on display waits without a request | one `…Spinners` per page | one `…Spinners` per page |
| `NavigationWorks` | `RefusedForLimits` `BarLeadsSomewhere` | |

## 4. Runs

Each finishes well within five minutes with two workers. States are distinct
states of the complete graph.

| Run | Checks | Shows | States |
|---|---|---|---|
| `ExportReplicas` | `TypeOK` `DownloadAvailable` `AtMostOncePerReplica` `PurgeTakesOnlyExpired` | two loops with nothing between them: results stay downloadable and retention takes only what is over, even so | 217 779 |
| `ExportLog` | `OneRunPerJob` `NoOrphanFile` `OutcomeIsFinal` `ImplementsRunLog` `EveryRunSettles` `EveryRunIsPurged` | with a lock that outlives its tick, and through a crash, the worker implements the run log, runs nothing twice and makes progress | 96 072 |
| `LedgerSerial` | `TypeOK` `DeletionCanBeUndone` `ComesBackIntact` | delete, undo, redo of a shared, linked dashboard, six entries deep, while accounts, roles and connections are deleted | 1 300 364 |
| `LedgerForced` | `LedgerIsCurrent` `UndoneOnce` `LedgerInv` | history and rows agree under forced and partial reverts, ageing and purges | 1 588 833 |
| `AdminConsole` | `ListsMatch` `OneAccount` `RevisionsKept` `NoHalfRevert` `NavigationWorks` `NothingHangs` `EditsKeepTheRest` | sixteen pages of the administration, each with its server and its network | 443 261 |
| `Portal` | `ListsMatch` `NoRunLost` `SettingsRestorable` `SavedCoherent` `RowsFiltered` `OneRefresh` `EnrolledAppWorks` `MfaStopsRedirecting` `OneSignOut` `NothingHangs` `EditsKeepTheRest` | ten pages people work on | 1 024 616 |
| `FollowRuns` | `ReportsMatch` `RunFollowed` | every run the reports page shows in flight is followed to its end, unless a list of before the run takes it off the page | 264 364 |
| `Alerts` | `AlertedOnce` `RememberedIsDecided` `ToldMatches` `OneAlertPerInterval` | two replicas poll one connection and check one condition, with one mishap of any kind | 1 718 690 |

**Bounds.** Two replicas are all that a property of ours distinguishes: each
fault of a worker takes one loop that holds stale data and one that overtakes
it. Two jobs make "oldest first" and a backlog beyond the claim limit (1 in
`ExportLog`) meaningful. One crash at every point, together with a restart,
reaches the reaper and the orphaned lock. In the ledger two rows per table are
the deleted dashboard and its successor; six entries are a deletion of three
rows and their inverses, three are a change, its undo and the undo of the undo.
One account or one connection (`Parents`) is what a row names and what is
deleted before the undo, one of them being enough to refuse it; `LedgerForced` has none, and the theorem covers what
`LedgerIsCurrent` says of a report whose author is deleted. `Room` and `LogRoom`
are the guards that enforce the bounds; where a guard
refuses, the request ends without effect or the tick goes on as if nothing were
due, so a bound never blocks a loop.

In `Alerts` three runs of one pipeline, one that succeeds and two that fail,
make a batch in which the throttle lets one alert through and holds the other;
a memory of two, over a list of two, is as short as the code allows it to be,
and forgets; one mishap at every point shows what each kind costs. Runs and
conditions meet in the tick only, so a behaviour starts runs or changes
sources (`focus`); in `FollowRuns` it opens the dialog over a run, or keeps to
the table with two. The settings are everything throttled with quiet hours, and
failures only, on or off.

On a page two items, two requests in flight and two to four clicks are what
its hazards take: one answer that overtakes another, and a click in between.
Where three steps must follow one another (a version restored twice, a second
enrolment, a third warehouse) the bound says so. The fifty items and entries of
the navigation are one of each: `FirstNavs` starts from none, from a link, and
from a menu that is full, so that one click more is one entry too many; a draft
of two complete items takes more clicks than there are, and is left to the
theorem. Pages share no state, so their
graphs add up instead of multiplying; `AdminConsole` and `Portal` start one of
them and let the others stand still.

Deadlock is checked in the runs of the worker and of the ledger. The runs of
the pages and `Alerts` stop where the bounded clicks, runs and mishaps are used
up, so it is not checked there.

**Fairness.** `ExportLog`: weak fairness of every loop's step, because
`run_export_worker_loop` swallows every exception and sleeps no longer than 30
seconds; of a restart, because the platform replaces dead replicas; and of
time. Nothing is assumed of requests. Queries are assumed to end, which
`EXPORT_QUERY_TIMEOUT_SECONDS` enforces. The run excludes cancels and deleted
users, which the abstract log does not have: it is the worker's own progress
that it is about. `FollowRuns`: the worker ends every run (what `ExportLog`
shows), the interval of the page fires (`setInterval`), and a request that does
not fail is answered and its answer handled; polls may fail, be late and be
reordered, `MaxFails` times in all.

### Where the code departs from what it says

Each of these runs checks one property, and its counterexample is the behaviour
described.

| Run | Violates | What happens |
|---|---|---|
| `ExportSlowTick` | `OneRunPerJob` | The lock lives 25 s and is not renewed, a tick runs up to five queries of up to five minutes: a second replica claims and starts a job that is running. `main.py` says the lock prevents exactly this. |
| `ExportCancel` | `CancelledHasNoResult` | A run cancelled during its query ends completed and downloadable, with the message "Cancelled." still on it. The handler says its result is discarded. |
| `LedgerTwice` | `UndoneOnce` | Two concurrent reverts of one entry both pass the check and both act; a deleted report, which has no unique key, comes back twice. |
| `LedgerFeed` | `FeedLoads` | The purge deletes an old entry that a younger one has undone; the foreign key refuses, and the feed fails for the organisation until the younger one is 90 days old. |

The same models have further behaviours that no run is about. On the server:

* Two concurrent presses of Run both queue a run (`routers/exports.py:768`),
  and so does a slot that falls due meanwhile. The repository's README says
  "One run per report at a time".
* A run that another replica's reaper has failed after 30 minutes turns
  completed when its query returns (`services/export_runner.py:106`), and a
  process that dies between the store and the commit leaves a file no row
  names: `NoOrphanFile` is about processes that live, and `OutcomeIsFinal` is
  checked under the lock only.
* The row of an expired result is purged with its file, so a download answers
  404 where the repository's README says 410; 410 is answered only between the
  two deletions.
* A scheduled run stamps `last_run_at`, and the conflict check compares it
  (`services/change_ledger.py:348`), so an earlier edit of the report can be
  undone by force only, although the snapshot is said to be "reduced to the
  fields a caller can actually have changed" (line 109).
* Undoing the creation of a dashboard deletes it with its grants but records
  the dashboard alone, so undoing that undo brings it back without them; and it
  does not prune the navigation (`services/mutation_registry.py:224`).
* A user, a role or a BI connection that is deleted after a dashboard that names
  it cannot be brought back, and neither can the dashboard, since
  `models/dashboard.py:36-63` has foreign keys for all of them: recreating the
  rows fails at `services/change_ledger.py:367`, the whole change is refused with
  409, and will be. One grant to one such user is enough. `DeletionCanBeUndone`
  is about the deletions of which all that is named is still there.
* A report goes with its author's account by the cascade, without an entry: the
  feed goes on showing it as it was (`models/export.py:82`). `LedgerIsCurrent`
  leaves such reports out.
* The inverse entry of a navigation change is taken before its ids are
  remapped and names the old id (`services/change_ledger.py:477`), so it can
  be undone by force only. `LedgerIsCurrent` is therefore about dashboards and
  reports.
* A run is alerted again after any mishap (`AlertedOnce` counts them), among
  them the eviction of a run that is still listed: the memory is cut from a list
  that starts with an unordered set (`services/pipeline_poller.py:262`).
* A finished run that leaves the provider's list before a poll has seen it
  finished is never decided about: a poll asks for a hundred runs of two days
  (`services/pipeline_poller.py:169`), whatever its cadence and however long the
  provider did not answer. `RememberedIsDecided` is about the runs that a poll
  has seen finished.
* A run that ends in a quiet hour is remembered before its alert is held
  (`services/pipeline_poller.py:198`): no later poll sends it.
* A commit that fails while conditions are checked is rolled back, which
  expires every row of the session; reading the next condition ends the tick,
  although "one bad condition must not stop the rest"
  (`services/condition_checker.py:325`). The announcement is sent again at the
  next check.
* Superseding deletes the open invitations it sees: two administrators who
  invite one address at once leave two links that work
  (`services/invites.py:131`). `OneAccount` holds all the same.
* The default warehouse is cleared and set in two statements
  (`routers/warehouses.py:348`): two requests can leave two.
* Two writes of a page or of a dashboard that overlap copy the same content
  into the history (`routers/pages.py:440`, `routers/dashboards.py:333`): the
  one in between is lost.
* The snapshots of a dashboard leave out its BI connection, for which their table
  has a column (`routers/dashboards.py:330`, `:732`; `models/dashboard.py:98`). A
  restore puts the older settings back over whatever connection the dashboard
  has by then, so one whose connection was changed cannot be put back as it was,
  although the page says that "the current configuration will be saved as a new
  version first" (`app/admin/dashboards/page.tsx:78`). `SettingsRestorable` is
  about the settings.
* The API takes the grants of a resource as one list: every `PUT …/permissions`
  deletes all of them, those to single users included (`routers/dashboards.py:502`,
  `pages.py:621`, `data_pipelines.py:404`, `warehouses.py:447`,
  `data_dict.py:549`). The dialog shows roles only and sends `user_ids: []`
  (`ShareResourceDialog.tsx:76`), so whoever saves it takes access from users
  that were never shown. `UntoggledRolesKept` says so.
* Who may open a dashboard is read with `scalar_one_or_none` over the grants to
  the user and to the user's roles (`routers/embed.py:85`): a viewer who has
  both gets a server error.
* A second enrolment stores its secret on a row whose second factor is on
  (`routers/auth.py:275`); the page offers it only when its status could not be
  read.

On the pages, whatever happens:

* The form of a user has one role and sends one (`UsersClient.tsx:332`, `:354`): a
  user who had several loses the others with any edit.
* The editor of the navigation checks neither the hundred characters of a label
  nor the length of a path nor the fifty items and entries
  (`nav-config/page.tsx:87`; `schemas/nav_config.py:23`, `:51`, `:72`): what is too
  long is refused with 422, as are odd paths. `RefusedForLimits` says that
  nothing else is.
* An answer of the run list that was read before a run began, and comes late,
  takes the run off its row; if it was the only one in flight the polling stops
  (`ReportsTable.tsx:99`, `:114`), and its end is not shown before the lists are
  read again. `RunFollowed` makes that exception. The list has 200 runs
  (`:92`), which the model takes to be enough.
* A dashboard that is moved to another connection, and whose content is not
  chosen again, is saved with the settings of the old one
  (`DashboardCreator.tsx:415`): `SavedCoherent` is about content that was chosen.

And on the pages, when calm is broken or a read has failed:

* The dictionary takes the rows or the tree of whatever table or warehouse was
  asked for last to be answered (`page.tsx:1190`, `:1177`); the audit log and a
  filtered run log the same (`audit/page.tsx:188`, `RunHistory.tsx:83`); a poll
  answered after a deletion brings the report back (`ReportsTable.tsx:122`).
* A list that cannot be read is taken to be empty, and what is saved from it
  replaces what is stored: the navigation (`nav-config/page.tsx:376`), the
  grants of a resource (`ShareResourceDialog.tsx:56`), a dashboard
  (`DashboardCreator.tsx:267`), the stars (`PortalHomeClient.tsx:257`).
* An edit made while a save is on its way is dropped when its answer comes
  (`PipelineNotificationsTab.tsx:179`); a renewed session loads a page again
  over what was typed (`pages/[id]/page.tsx:93`).
* A toggle turns over whatever the row shows when its answer comes
  (`dashboards/page.tsx:205`), or sends the row whole as it was listed
  (`ConditionChecksSection.tsx:436`).
* An edit of a user is two requests; when the second is refused the table keeps
  the old profile (`UsersClient.tsx:357`).
* The renewal of a token that is on its way when the page is left plans one
  more (`PowerBIEmbed.tsx:58`); a filter whose value is empty for the viewer is
  dropped, and the report shows every row (`PowerBIEmbed.tsx:88`).
* A refresh of the session that fails for a moment ends it for good
  (`lib/auth.ts:193`).
* `disabled ?? isLoading` (`components/ui/Button.tsx:61`) leaves a button alive
  while its save is running when `disabled` is given and false; the pages that
  pass both are modelled so.

## 5. Proofs

TLAPS checks these for every value of the constants: any number of replicas,
reports, requests, jobs, rows, entries, connections, runs, addresses, links,
clicks and requests in flight, and every setting of `May`, unless a hypothesis
in the last column says otherwise.

| Theorem | States | Assumes besides |
|---|---|---|
| **`ExportRunnerProofs`** | | |
| `TypeCorrect` | `Spec => []TypeOK` | |
| `ResultsAgree` | `Spec => [](TypeOK /\ ResultInv)` | |
| `DownloadsWork` | `Spec => []DownloadAvailable` | |
| `RetentionIsSafe` | `Spec => PurgeTakesOnlyExpired` | |
| `RunsOnce` | `Spec => []OneRunPerJob` | `Exclusive`: one replica, or a lock that is not lost inside a tick |
| `StartsBounded` | `Spec => []AtMostOncePerReplica` | |
| `LogRefined` | `Spec => Log!Spec`: each step is a step of `RunLog` or none | `Exclusive`, nobody cancels, no account is deleted |
| `OutcomesAreFinal` | `Spec => OutcomeIsFinal` | `Exclusive`, nobody cancels |
| `FilesAreFound` | `Spec => []NoOrphanFile` | `Exclusive`, no account is deleted, the storage answers |
| **`ChangeLedgerProofs`** | | |
| `LedgerTypeCorrect` | `Spec => []TypeOK` | |
| `StampsAgree` | `Spec => []LedgerInv` | |
| `UndoneAtMostOnce` | `Spec => []UndoneOnce` | `Serial`: reverts do not overlap |
| `HistoryIsComplete` | `Spec => []LedgerIsCurrent` | requests do not overlap |
| `DeletionsCanBeUndone` | `Spec => []DeletionCanBeUndone` | |
| `DeletedComesBackIntact` | `Spec => ComesBackIntact` | |
| **`PipelinePollerProofs`** | | |
| `TypeCorrect` | `Spec => []TypeOK` | |
| `RememberedRunsAreDecided` | `Spec => []RememberedIsDecided` | |
| `GroupsHeardIt` | `Spec => []ToldMatches` | |
| `AlertsAreSpaced` | `Spec => OneAlertPerInterval` | |
| `NothingSentTwice` | `Spec => [](past.mishaps = 0 => AlertedOnce)` | |
| **`ConsoleProofs`** | | |
| `OneAccountPerAddress` | `InvitesSpec => []OneAccount` | |
| `ActionsRevertWhole` | `ChangesSpec => []NoHalfRevert` | |
| `RevisionsAreKept` | `PageSpec => []RevisionsKept` | |
| `SecretsAreKept` | `ConnsSpec => SecretKept` | |
| `GrantsAreKept` | `RolesSpec => GrantsKept` | |
| `DestinationsAreKept` | `GroupsSpec => DestinationsKept` | |
| `UntickedRolesAreKept` | `ShareSpec => []UntoggledRolesKept` | |
| `NavigationIsSound` | `NavSpec => [](RefusedForLimits /\ BarLeadsSomewhere)` | |
| `ConsoleKeepsItsPromises` | `Spec => [](OneAccount /\ NoHalfRevert /\ RevisionsKept /\ NavigationWorks)` of `AdminConsole` | |
| `EditsAreKept` | `Spec => EditsKeepTheRest` of `AdminConsole` | |
| **`ConsoleWaits`** | | |
| `NoConsolePageHangs` | `Spec => []NothingHangs` of `AdminConsole` | |
| **`PortalProofs`** | | |
| `EmbeddedSettingsAreKept` | `BoardsSpec => []SettingsRestorable` | |
| `OneRefreshIsPlanned` | `EmbedSpec => []OneRefresh` | |
| `ReportsAreFiltered` | `EmbedSpec => []RowsFiltered` | |
| `FiltersAreKept` | `EmbedSpec => FiltersKept` | |
| `SavesKeepMetadata` | `BoardSpec => []MetadataKept` | |
| `SavesAreCoherent` | `BoardSpec => []SavedCoherent` | |
| `ThresholdsComeBack` | `ChecksSpec => []UntouchedIsKept` | |
| `EnrolmentIsSound` | `SignInSpec => []EnrolledAppWorks` | |
| `FactorLetsThrough` | `SignInSpec => []MfaStopsRedirecting` | |
| `SignsOutOnce` | `SignInSpec => []OneSignOut` | |
| `PortalKeepsItsPromises` | the seven invariants above that `Portal` checks, of `Spec` of `Portal` | |
| `FormsKeepTheRest` | `Spec => EditsKeepTheRest` of `Portal` | |
| **`PortalWaits`** | | |
| `NoPageHangs` | `Spec => []NothingHangs` of `Portal` | |
| `ReportsAreShown` | `ReportsSpec => []ReportsMatch` | |

**Assumptions on constants** are named where the constants are declared, and
TLC evaluates each in a run. They say that bounds are natural numbers
(`ConstantAssumption`, `LedgerAssumption`, `PollerAssumption`,
`CallsAssumption`, `BoardsAssumption`, `AuditAssumption`), that what stands for
`null` is none of the values it is told apart from (`EmbedAssumption`,
`BoardFormAssumption`, `RolesAssumption`, `DialogsAssumption`,
`SessionAssumption`, `GroupsAssumption`, `NavAssumption`), and what the data is
that a page finds: changes of which every action wrote at least one
(`ChangesAssumption`), a navigation the API would have stored
(`FirstNavsAssumption`), thresholds that are integers (`ConditionsAssumption`),
an address to invite (`InvitesAssumption`), and room for the two requests that
the table of reports sends together (`ReportsAssumption`).

### The server

**Results and retention.** That a completed run can be downloaded is not
inductive: the loop that deletes a file read the row earlier. `ResultInv` adds
what makes it so. `FreshInv`: ids are handed out once, and every loop works on
ids handed out before, so an insert disturbs no loop. `StorageInv`: an open
window implies a stored file, and a loop about to record a result has stored
it. `PurgeInv`: a claimed job has not expired, and a job being purged is over
or gone and claimed by no loop; so neither can a purge take what a run is about
to write, nor a run bring back what a purge has loaded. The same facts give
`RetentionIsSafe`, of the step that deletes.

**One run.** `OnceInv` is `FreshInv`, `TickInv` (at most one loop is inside a
tick, and under Redis it holds the lock) and `RunInv` (what is queued or
claimed has not been started). `ExportSlowTick` shows that `Exclusive` cannot
be dropped. Without it `ReplicaInv` still counts: what a job has been started,
together with the loops that have claimed it and not started it, is no more
than there are replicas, since a loop claims only what is queued and what is
queued was never started.

**The run log.** `LogInv` adds `OutcomeInv` to `OnceInv`: the rows a loop works
on have not moved on since it read them, so a reaper fails only what runs and
a result is recorded only of what runs; and a loop has claimed every queued job
older than one it claimed, which is what starting in order takes. A cancel, or
a row that goes with its owner, breaks the first; hence the hypotheses.
`ExportCancel` is what a cancel does. `FileInv` adds `OrphanInv`: with one run
per job there is one file per job, its row names it or the loop that stored it
is about to record it, and a purge deletes all files of the rows it takes.

**Ledger.** `LedgerInv` has three parts that need each other. `HistoryInv`:
ids follow time, an inverse follows what it undoes and is not outlived by it,
age respects order. `StampInv`: an entry is stamped exactly when an entry that
undid it is present. `SnapshotInv`: entries have the snapshots their action
needs, and what a request has loaded is there. It is preserved because a
commit adds inverse and stamp in one transaction for the entries that are still
there, and a purge passes the foreign key only if it takes every inverse of what
it takes. `UndoneOnce` needs `RevertInv` as well: an entry that a request is
about to undo is not stamped, which is what `LedgerTwice` breaks. The type
theorem is long: that a recreated row with remapped ids is a row within the
table follows from counting the recreations before it, which `Room` bounds.

**Undoing a deletion.** `CurrentInv` says that what is left to undo of a group
holds one dashboard or report at most (`GroupsInv`), so that no inverse is
overtaken by another of its own commit, and that what a request has loaded is
still what the table holds (`LoadedInv`), which takes requests that do not
overlap. For
`DeletionCanBeUndone`, in every interleaving, `UndoInv` keeps that ids are
never used again and inverses stay in the group of what they undo (`KinInv`),
that the group of a deletion has the shape the handler gave it
(`DeletionsInv`: the deletion first, then its grants and its link), and that a
dashboard has had one slug in all snapshots and rows (`IdentityInv`, a function
that exists and is stored nowhere). Rows keep what they name (`Sound`): no step
but the deletion itself takes away a user, role or connection, and that takes
the names of it along.
`ComesBackIntact` follows from these for the step that reverts the group.

**Alerts.** `SeenInv`: every row's memory, every memory a tick has loaded, and
every new run that its tick is through with, has been decided about. It holds
of all steps because a tick writes back no more than what it had loaded and
what it has sent or chosen not to send; crashes only forget. The other three
theorems are about behaviours without a mishap, in which one loop at a time is
inside a tick (`OneInside`). `ToldInv`: what a tick has loaded of a condition
is still so, and the announcement is one step ahead of the flag at most.
`StampInv`: the keys alerted within the interval are those stamped in the row,
or those the tick under way will stamp; a planned alert is of a key stamped in
neither, and no two planned are of one key. `OnceInv`: what has been alerted
and is still listed is in the memory, or about to be; what is planned was never
alerted; and a run that has left the list does not come back to it, since runs
are only ever added in front.

### The pages

`CallsProofs` has what every page needs of its requests: what sending,
answering and ending one leave of the others (`Put`), which requests a handler
ends and which it sends (`Goes`, `Underway`), and when there is room for
another.

A theorem of a page is about the specification of that page alone.
`ConsoleIsItsPages` and `PortalIsItsPages` carry it to the composition: every
step of `AdminConsole` or `Portal` is a step of one page and leaves the others
alone, so a behaviour of the whole is a behaviour of each.

**Accounts.** An account is made by the commit of an acceptance, which
deletes the invitation, or by an administrator; both look for the address
first. `OneAccountInv` says that ids of invitations are handed out once and are
never those of an invitation somebody has joined by or that was revoked, also
not the id a transaction that is still open is about to write. So an invitation
can neither come back nor let anybody in twice.

**Reverts and histories.** `ChangesInv`: a record that says it stands alone
does, whenever it was read, since only reverts are added; so a revert of one
change is of an action that wrote one. `RevisionsInv` and `HistoryInv`: what an
open write has begun with is what the row holds still, so the copy it puts into
the history is what it replaces: the content of a page, the settings of a
dashboard.

**Forms.** Each invariant follows a value from the row through the answer, the
form and the request back to the row, and says that on every leg it differs at
most where the user touched it: `GrantsInv` of a role's permissions,
`DestinationsInv` of a group, `SelectionInv` of a sharing dialog, `UntouchedInv`
of the filters, `MetadataInv` of what a dashboard embeds, `BodiesInv` of a
check. The thresholds need arithmetic besides: a number of minutes shown in the
largest unit that divides it comes back as itself. `CoherentInv`: the reports
on show, or on their way, are those of the workspace and connection selected.
`NavInv`: whatever the order of the edits, a link has no entries and a dropdown
no path; then the two validators differ only in what the page does not look at:
lengths, and paths with odd characters.

**Embedding and session.** `RefreshInv`: the one token on its way, if any, is
for the report on display and no renewal is planned meanwhile; with none on its
way one is planned exactly while a report is shown. `FiltersInv`: while no
others were stored since, the token issued last carries the filters, on its way
or on display. `AuthInv` has one part for each thing a tab does: at most one
sign-in, one sign-out and one step of an enrolment are on their way, each from
the page it belongs to, and what they carry fits the account.

**Waiting.** That nothing waits for ever is stated for the moment when nothing
is in flight: `NothingHangs` says that no flag is up then. The invariants of the
`…Waits` modules, one for each page, say of every flag which request in flight
ends it, by its kind and by the number of the visit, dialog, form or row it was
sent for; a request from an earlier visit does not count. A handler may take a
flag's request away only if it drops the flag or sends another, in every
branch, the refused ones included. `PortalWait` and `ConsoleWait` are their
conjunctions. They ask for no calm: clicks, answers and failures may come in
any order. Two pages needed types besides (`RoleTypes`; what is on a user's
dialog).

**The table of reports.** `ReportsInv`, while one thing was done at a time: two
requests in flight are for the two lists; every answer on its way fits the
server; if no answer is about to replace the rows they are the server's; and
what is known of a report's latest run is its newest run, or was while that run
was in flight. A poll may therefore be late without being wrong, because the
run it shows in flight keeps the interval going. `NewestExists`, that a
non-empty set of places of a list has a last one, is by well-founded induction
on finite subsets.

**Only model-checked.**

* `ImplementsRunLog`, as far as the fairness of the log goes, `EveryRunSettles`,
  `EveryRunIsPurged`, `RunFollowed`: liveness under fairness is beyond the
  prover. That the steps refine the log is `LogRefined`.
* `AlertedOnce` beyond behaviours without mishaps: counting what each one costs
  needs sums over the loops.
* `NoRunLost`: the tree is built level by level by a recursive function, and
  what it contains is an induction over its depth.
* `ListsMatch`, of both compositions: twenty-five agreements of a screen with a
  table, each under the calm its page needs. What they compare is a few rows
  with a few rows, for which the instances have all cases.

## 6. Not modelled

* **Schedules** (`services/cron.py`): `ExportRunner` lets any scheduled report
  be due at any tick, which includes every answer of `is_due`. What is left is
  a calendar, which unit tests enumerate. It does answer yes at both ticks of a
  matching minute (`cron.py:183`), whatever `last_run_at` says.
* **Dispatcher** (`services/notifications/dispatcher.py`): the rate-limit key
  names user and event but no channel and is taken before the delivery
  (line 93), so a second channel is always limited and a failed delivery uses
  up the window; one call is enough to see either.
* **Permissions**: a function of the grants, read afresh for every request;
  `EmbedView` and `NavConfig` have what depends on who looks.
* **SQL guard, query building, cron text**: parsing of text, without state.
* **Settings, favourites on the server, search, audit writing,
  secrets, storage**: single or append-only writes on which no later decision
  depends.
* **The home page flag and the rest of the clean-up behind a deleted user or
  role** (`routers/pages.py:660`, `services/principal_cleanup.py`): one handler
  each; the pages that call them take the answer as an outcome. The flag has the
  shape of the default warehouse, which `Warehouses` has. `ChangeLedger` has the
  clean-up as far as dashboards, their grants and reports go.
* **Field logs of the dictionary** (`routers/data_dict.py`): what a revert to a
  moment writes is an outcome of the server. Populating writes fields without
  logging them, so a replay may give what never was (line 1460).
* **Secrets inside settings**: the key of a Snowflake or BigQuery connection and
  the SFTP password of a report travel in settings that are sent whole, without
  them, and are lost on an edit (`warehouses/page.tsx:252`,
  `routers/exports.py:646`). Settings are opaque in the models; one request is
  enough to see it.
* **Front end, the rest**: pages that draw one answer (the overview, the
  sidebar, the palette), forms of one request (sign-in settings, a new
  page), the template editor, the test-send and preview panels, downloads,
  `components/admin/WarehouseConnectionCard.tsx` and `PipelineConnectorCard.tsx`,
  the filter panel of a dashboard (never shown), and the branches for providers
  that are not registered (`services/bi_providers/__init__.py:3`).
* **The database itself** is assumed to do what read committed isolation and
  declared constraints promise, Redis `SET NX EX` to be atomic, and clocks of
  replicas to agree within the margins of their timeouts.
