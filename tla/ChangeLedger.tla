----------------------------- MODULE ChangeLedger -----------------------------
(***************************************************************************)
(* The change ledger (services/change_ledger.py, routers/changes.py): each *)
(* change to a configuration row leaves an entry with the row before and   *)
(* after it, from which it can be undone.  The rows are those of three     *)
(* registered resources that differ in what the revert engine must do:     *)
(* dashboards (unique slug; their grants cascade), the navigation (one row *)
(* that holds dashboard ids inside JSON) and SQL reports (no unique key,   *)
(* and a column the export worker writes).  Rows name users, roles and BI  *)
(* connections, whose own tables keep no history and which can be deleted. *)
(*                                                                         *)
(* A revert awaits between reading the entries, loading the rows they      *)
(* describe and committing; these are three steps.  Any other handler is   *)
(* one.                                                                    *)
(***************************************************************************)
EXTENDS Naturals, FiniteSets

CONSTANTS
    Slug,        \* dashboard slugs, unique per organisation
    Value,       \* what a caller can change in a dashboard or a report
    Request,     \* concurrent revert requests
    Null,        \* no row, no entry, NULL
    MaxRows,     \* bound: rows ever inserted per table
    MaxEntries,  \* bound: ledger entries ever written
    MaxRuns,     \* bound: scheduled runs of a report
    Parents,     \* bound: ids of the users and roles, and of the connections, rows can name
    May          \* what the callers do, a subset of Habit

\* Other handlers run between two steps of a revert; reverts are forced; one
\* entry of several that belong together is reverted alone; dashboards are
\* shared, and rows written that name users, roles and connections; there are
\* reports; entries outlive RETENTION_DAYS; a dashboard from before the retention
\* window names users and its connection, not only one of them.
Habit == {"overlap", "force", "piecemeal", "share", "reports", "age", "both"}

Type == {"dashboard", "dashboard_permission", "report", "org_settings"}
Table == Type \cup {"principal", "bi_connection"}   \* users and roles are one table here
RowId == 1..MaxRows
EntryId == 1..MaxEntries
NavRow == 1   \* the organisation's only org_settings row

\* refs: the dashboard a grant is for, the dashboards the navigation links to;
\* who: who created a dashboard, has a grant, wrote a report; conn: a dashboard's
\* connection (empty: none, or one that stays);
\* runs: a report's last_run_at, which the export worker stamps.
Row == [slug: Slug \cup {Null}, value: Value \cup {Null}, refs: SUBSET RowId,
        who: SUBSET RowId, conn: SUBSET RowId, runs: 0..MaxRuns]

Action == {"create", "update", "delete"}
Snapshot == Row \cup {Null}
Entry == [type: Type, rid: RowId, action: Action, before: Snapshot, after: Snapshot,
          group: EntryId, reverted: BOOLEAN, of: EntryId \cup {0}, old: BOOLEAN]

ASSUME LedgerAssumption ==
    /\ MaxRows \in Nat \ {0} /\ MaxEntries \in Nat /\ MaxRuns \in Nat
    /\ Null \notin Row \cup Entry
    /\ May \subseteq Habit /\ Parents \subseteq RowId

VARIABLES
    rows,      \* [Table -> [RowId -> Row or Null]]
    nextRow,   \* the identity column of each table with a history
    ledger,    \* change_ledger
    nextEntry, \* its identity column
    req        \* each revert request between two of its awaits

vars == <<rows, nextRow, ledger, nextEntry, req>>
ledgerVars == <<ledger, nextEntry>>

Idle == [op |-> "none"]
RequestState ==
    [op: {"none"}] \cup [op: {"read"}, ids: SUBSET EntryId, force: BOOLEAN]
    \cup [op: {"loaded"}, ids: SUBSET EntryId, seen: [EntryId -> Snapshot]]

-------------------------------------------------------------------------------
Empty == [slug |-> Null, value |-> Null, refs |-> {}, who |-> {}, conn |-> {}, runs |-> 0]
Exists(t, i) == rows[t][i] # Null
Present(t) == {i \in RowId : Exists(t, i)}
Logged == {e \in EntryId : ledger[e] # Null}
Grants(d) == {g \in Present("dashboard_permission") : d \in rows["dashboard_permission"][g].refs}
Nav == rows["org_settings"][NavRow]
Namable == {{}} \cup {{p} : p \in Parents}
Named(t) == {{}} \cup {{i} : i \in IF "share" \in May THEN Present(t) ELSE {}}
Group(e) == {f \in Logged : ledger[f].group = ledger[e].group}

Room(t, k) == nextRow[t] + k <= MaxRows + 1
LogRoom(k) == nextEntry + k <= MaxEntries + 1

\* The sequences in which the members of S can be processed, one after another.
Orders(S) == {s \in [1..Cardinality(S) -> S] : \A x \in S : \E i \in DOMAIN s : s[i] = x}

\* Seeded fault: the group is not recorded.
NewEntryUngrouped(t, i, action, before, after, group) ==
    [type |-> t, rid |-> i, action |-> action, before |-> before, after |-> after,
     group |-> 0, reverted |-> FALSE, of |-> 0, old |-> FALSE]

NewEntry(t, i, action, before, after, group) ==
    [type |-> t, rid |-> i, action |-> action, before |-> before, after |-> after,
     group |-> group, reverted |-> FALSE, of |-> 0, old |-> FALSE]

\* _add_entry, for the k entries of one logical action.
Log(k, new) ==
    /\ LogRoom(k)
    /\ ledger' = [e \in EntryId |->
                    IF e \in nextEntry..(nextEntry + k - 1) THEN new[e - nextEntry + 1] ELSE ledger[e]]
    /\ nextEntry' = nextEntry + k

LogOne(t, i, action, before, after) ==
    Log(1, [n \in 1..1 |-> NewEntry(t, i, action, before, after, nextEntry)])

Put(t, i, row) == rows' = [rows EXCEPT ![t] = [@ EXCEPT ![i] = row]]

\* Whoever else is at work while a request is between two of its awaits.
Alone == "overlap" \in May \/ \A q \in Request : req[q].op = "none"

-------------------------------------------------------------------------------
(***************************************************************************)
(* What administrators, report authors and the export worker do.           *)
(***************************************************************************)
Insert(t, row) ==
    /\ Alone /\ Room(t, 1)
    /\ Put(t, nextRow[t], row)
    /\ nextRow' = [nextRow EXCEPT ![t] = @ + 1]
    /\ LogOne(t, nextRow[t], "create", Null, row)
    /\ UNCHANGED req

CreateDashboard(s, v, who, conn) ==
    /\ \A d \in Present("dashboard") : rows["dashboard"][d].slug # s
    /\ who \in Named("principal") /\ conn \in Named("bi_connection")
    /\ Insert("dashboard", [Empty EXCEPT !.slug = s, !.value = v, !.who = who, !.conn = conn])

CreateReport(v, who) ==
    /\ who \in Named("principal")
    /\ Insert("report", [Empty EXCEPT !.value = v, !.who = who])

\* update_dashboard, restore_dashboard_version, update_report.
Update(t, i, v, conn) ==
    LET row == [rows[t][i] EXCEPT !.value = v, !.conn = conn] IN
    /\ Alone /\ Exists(t, i)
    /\ conn = rows[t][i].conn \/ (t = "dashboard" /\ conn \in Named("bi_connection"))
    /\ Put(t, i, row)
    /\ LogOne(t, i, "update", rows[t][i], row)
    /\ UNCHANGED <<nextRow, req>>

\* Replaces the grants of a dashboard.  Sharing leaves no ledger entry.
SetPermissions(d, n, who) ==
    LET fresh == nextRow["dashboard_permission"] .. (nextRow["dashboard_permission"] + n - 1) IN
    /\ Alone /\ Exists("dashboard", d) /\ Room("dashboard_permission", n)
    /\ who \in Named("principal")
    /\ rows' = [rows EXCEPT !["dashboard_permission"] =
                  [g \in RowId |-> IF g \in fresh THEN [Empty EXCEPT !.refs = {d}, !.who = who]
                                   ELSE IF g \in Grants(d) THEN Null ELSE @[g]]]
    /\ nextRow' = [nextRow EXCEPT !["dashboard_permission"] = @ + n]
    /\ UNCHANGED <<ledgerVars, req>>

SetNav(links) ==
    LET row == [Nav EXCEPT !.refs = links] IN
    /\ Alone
    /\ Put("org_settings", NavRow, row)
    /\ LogOne("org_settings", NavRow, "update", Nav, row)
    /\ UNCHANGED <<nextRow, req>>

\* The dashboard, its grants and the navigation without its link, each with an
\* entry, all in one group.
DeleteDashboard(d) ==
    LET grants == Grants(d)
        k == Cardinality(grants)
        linked == d \in Nav.refs
        pruned == [Nav EXCEPT !.refs = @ \ {d}]
        entry(t, i, action, after) == NewEntry(t, i, action, rows[t][i], after, nextEntry) IN
    /\ Alone /\ Exists("dashboard", d)
    /\ \E s \in Orders(grants) :
         Log(IF linked THEN k + 2 ELSE k + 1,
             [n \in 1..(k + 2) |->
                IF n = 1 THEN entry("dashboard", d, "delete", Null)
                ELSE IF n = k + 2 THEN entry("org_settings", NavRow, "update", pruned)
                ELSE entry("dashboard_permission", s[n - 1], "delete", Null)])
    /\ rows' = [rows EXCEPT !["dashboard"] = [@ EXCEPT ![d] = Null],
                            !["dashboard_permission"] = [g \in RowId |-> IF g \in grants THEN Null ELSE @[g]],
                            !["org_settings"] = [@ EXCEPT ![NavRow] = pruned]]
    /\ UNCHANGED <<nextRow, req>>

DeleteReport(r) ==
    /\ Alone /\ Exists("report", r)
    /\ Put("report", r, Null)
    /\ LogOne("report", r, "delete", rows["report"][r], Null)
    /\ UNCHANGED <<nextRow, req>>

\* enqueue_due_schedules stamps last_run_at, with no entry.
ScheduledRun(r) ==
    /\ Alone /\ Exists("report", r) /\ rows["report"][r].runs < MaxRuns
    /\ Put("report", r, [rows["report"][r] EXCEPT !.runs = @ + 1])
    /\ UNCHANGED <<nextRow, ledgerVars, req>>

\* delete_role, delete_user_permanently: its grants go, and a user's reports by
\* the cascade; what it created stays, created by no one.  No entry is written.
Without(p, t, row) ==
    IF row = Null \/ p \notin row.who THEN row
    ELSE IF t \in {"dashboard_permission", "report"} THEN Null
    ELSE [row EXCEPT !.who = @ \ {p}]

DeletePrincipal(p) ==
    /\ Alone /\ Exists("principal", p)
    /\ rows' = [t \in Table |-> [i \in RowId |->
                  IF t = "principal" /\ i = p THEN Null ELSE Without(p, t, rows[t][i])]]
    /\ UNCHANGED <<nextRow, ledgerVars, req>>

\* delete_bi_connection; the foreign key of a dashboard refuses it.
DeleteConnection(c) ==
    /\ Alone /\ Exists("bi_connection", c)
    /\ \A t \in Type : \A i \in Present(t) : c \notin rows[t][i].conn
    /\ Put("bi_connection", c, Null)
    /\ UNCHANGED <<nextRow, ledgerVars, req>>

-------------------------------------------------------------------------------
(***************************************************************************)
(* Reverting one entry, or what is left to revert of its group.            *)
(***************************************************************************)
Pending(e) == {f \in Group(e) : ~ledger[f].reverted}

\* revert_change, or revert_correlation for a group of several.
RevertRead(q, ids, force) ==
    /\ req[q].op = "none" /\ Alone
    /\ ids # {}                                          \* else 409
    /\ force => "force" \in May
    /\ req' = [req EXCEPT ![q] = [op |-> "read", ids |-> ids, force |-> force]]
    /\ UNCHANGED <<rows, nextRow, ledgerVars>>

Reverts(e) ==
    {Pending(e)} \cup {{f} : f \in IF "piecemeal" \in May THEN Pending(e) ELSE {}}

Answer(q) == req' = [req EXCEPT ![q] = Idle]

\* The row an entry describes; a restored row has no predecessor to load.
Target(e) == IF ledger[e].action = "delete" THEN Null ELSE rows[ledger[e].type][ledger[e].rid]

\* Timestamps the database maintains are left out of the comparison (and of
\* Row); last_run_at is not.
Conflict(e, seen, force) ==
    /\ ledger[e].action = "update"
    /\ seen[e] = Null \/ (~force /\ seen[e] # ledger[e].after)

RevertLoad(q) ==
    LET ids == req[q].ids
        seen == [e \in EntryId |-> IF e \in ids /\ e \in Logged THEN Target(e) ELSE Null] IN
    /\ req[q].op = "read"
    /\ IF \E e \in ids \cap Logged : Conflict(e, seen, req[q].force)
       THEN Answer(q)                                                    \* 409
       ELSE req' = [req EXCEPT ![q] = [op |-> "loaded", ids |-> ids, seen |-> seen]]
    /\ UNCHANGED <<rows, nextRow, ledgerVars>>

\* Seeded fault: newest first, children of a deleted dashboard before it.
BeforeNewestFirst(e, f) == f < e

\* Creates are undone newest first, then updates, then deletes oldest first.
Before(e, f) ==
    LET rank(a) == CASE a = "create" -> 1 [] a = "update" -> 2 [] a = "delete" -> 3
        m == rank(ledger[e].action)
        n == rank(ledger[f].action) IN
    \/ m < n
    \/ m = n /\ IF m = 1 THEN f < e ELSE e < f

InOrder(ids) == {s \in Orders(ids) : \A i, j \in DOMAIN s : i < j => Before(s[i], s[j])}

Deletes(s) == {i \in DOMAIN s : ledger[s[i]].action = "delete"}
NewId(s, i) ==
    nextRow[ledger[s[i]].type]
      + Cardinality({j \in Deletes(s) : j < i /\ ledger[s[j]].type = ledger[s[i]].type})

Restorations(s, t) == Cardinality({i \in Deletes(s) : ledger[s[i]].type = t})

\* id_maps["dashboard"], as far as the first n entries have filled it.
Remap(s, n, ids) ==
    LET moved == {i \in Deletes(s) : i <= n /\ ledger[s[i]].type = "dashboard"} IN
    (ids \ {ledger[s[i]].rid : i \in moved})
      \cup {NewId(s, i) : i \in {j \in moved : ledger[s[j]].rid \in ids}}

\* The row entry s[i] brings back: parent_fks remapped.
Recreated(s, i) ==
    LET e == ledger[s[i]] IN
    IF e.type = "dashboard_permission"
    THEN [e.before EXCEPT !.refs = Remap(s, i - 1, @)] ELSE e.before

\* Seeded fault: restored as it was, links included.
RestoredUnmapped(s, i, seen) == ledger[s[i]].before

\* The ORM writes the columns that differ from what was loaded; the navigation
\* follows the ids of the whole group.
Restored(s, i, seen) ==
    LET e == ledger[s[i]]
        now == rows[e.type][e.rid]
        refs == IF e.type = "org_settings" THEN Remap(s, Cardinality(DOMAIN s), e.before.refs)
                ELSE e.before.refs IN
    [slug |-> IF seen.slug = e.before.slug THEN now.slug ELSE e.before.slug,
     value |-> IF seen.value = e.before.value THEN now.value ELSE e.before.value,
     refs |-> IF seen.refs = e.before.refs /\ refs = e.before.refs THEN now.refs ELSE refs,
     who |-> IF seen.who = e.before.who THEN now.who ELSE e.before.who,
     conn |-> IF seen.conn = e.before.conn THEN now.conn ELSE e.before.conn,
     runs |-> IF seen.runs = e.before.runs THEN now.runs ELSE e.before.runs]

\* The tables once the entries s are undone: rows taken away (a dashboard's
\* grants by the cascade), rows restored, rows inserted.
Undone(s, seen) ==
    LET taken == {i \in DOMAIN s : ledger[s[i]].action = "create" /\ seen[s[i]] # Null}
        updated == {i \in DOMAIN s : ledger[s[i]].action = "update"}
        gone(t, r) ==
            \E i \in taken :
              \/ ledger[s[i]].type = t /\ ledger[s[i]].rid = r
              \/ /\ t = "dashboard_permission" /\ ledger[s[i]].type = "dashboard"
                 /\ r \in Grants(ledger[s[i]].rid)
        at(S, t, r) == {i \in S : ledger[s[i]].type = t /\ ledger[s[i]].rid = r}
        new(t, r) == {i \in Deletes(s) : ledger[s[i]].type = t /\ NewId(s, i) = r} IN
    [t \in Table |-> [r \in RowId |->
       IF gone(t, r) THEN Null
       ELSE IF at(updated, t, r) # {} /\ rows[t][r] # Null
            THEN LET i == CHOOSE j \in at(updated, t, r) : TRUE IN Restored(s, i, seen[s[i]])
       ELSE IF new(t, r) # {} THEN Recreated(s, CHOOSE j \in new(t, r) : TRUE)
       ELSE rows[t][r]]]

\* What the database enforces on them: unique slugs and the foreign keys.
Has(tables, t) == {i \in RowId : tables[t][i] # Null}
KeysHold(tables, row) ==
    /\ row.who \subseteq Has(tables, "principal")
    /\ row.conn \subseteq Has(tables, "bi_connection")

Sound(tables) ==
    /\ \A d, e \in Has(tables, "dashboard") :
         tables["dashboard"][d].slug = tables["dashboard"][e].slug => d = e
    /\ \A g \in Has(tables, "dashboard_permission") :
         tables["dashboard_permission"][g].refs \subseteq Has(tables, "dashboard")
    /\ \A t \in Type : \A i \in Has(tables, t) : KeysHold(tables, tables[t][i])

\* Every statement of the transaction goes through: a row with a column to write
\* is still there (else StaleDataError).
Commits(s, seen) ==
    /\ \A t \in Type : Room(t, Restorations(s, t))
    /\ \A i \in DOMAIN s : ledger[s[i]].action = "update" =>
         rows[ledger[s[i]].type][ledger[s[i]].rid] # Null \/ seen[s[i]] = ledger[s[i]].before
    /\ Sound(Undone(s, seen))

\* _record_inverse: what undid entry s[i].
InverseOf(s, i, seen) ==
    LET id == s[i]
        e == ledger[id]
        inverse(action, before, after, rid) ==
            [NewEntry(e.type, rid, action, before, after, e.group) EXCEPT !.of = id] IN
    CASE e.action = "create" -> inverse("delete", IF seen[id] = Null THEN e.after ELSE seen[id], Null, e.rid)
      [] e.action = "update" -> inverse("update", seen[id], e.before, e.rid)
      [] e.action = "delete" -> inverse("create", Null, Recreated(s, i), NewId(s, i))

\* Seeded faults: only the one, only the other.
RecordStamps(s, seen) ==
    /\ ledger' = [e \in EntryId |->
         IF \E i \in DOMAIN s : s[i] = e THEN [ledger[e] EXCEPT !.reverted = TRUE] ELSE ledger[e]]
    /\ UNCHANGED nextEntry
RecordInverses(s, seen) ==
    /\ ledger' = [e \in EntryId |->
         IF e \in nextEntry..(nextEntry + Cardinality(DOMAIN s) - 1)
         THEN InverseOf(s, e - nextEntry + 1, seen) ELSE ledger[e]]
    /\ nextEntry' = nextEntry + Cardinality(DOMAIN s)

\* Stamps the entries and appends their inverses.
Record(s, seen) ==
    /\ ledger' = [e \in EntryId |->
         IF e \in nextEntry..(nextEntry + Cardinality(DOMAIN s) - 1)
           THEN InverseOf(s, e - nextEntry + 1, seen)
         ELSE IF \E i \in DOMAIN s : s[i] = e THEN [ledger[e] EXCEPT !.reverted = TRUE]
         ELSE ledger[e]]
    /\ nextEntry' = nextEntry + Cardinality(DOMAIN s)

\* One transaction; any error rolls all of it back, and so does running out of
\* one of the bounds.
RevertCommit(q) ==
    LET ids == req[q].ids
        seen == req[q].seen IN
    /\ req[q].op = "loaded"
    /\ IF ids \subseteq Logged /\ LogRoom(Cardinality(ids))
       THEN \E s \in InOrder(ids) :
              IF Commits(s, seen)
              THEN /\ rows' = Undone(s, seen)
                   /\ nextRow' = [t \in Type |-> nextRow[t] + Restorations(s, t)]
                   /\ Record(s, seen)
              ELSE UNCHANGED <<rows, nextRow, ledgerVars>>              \* 409 or 500
       ELSE UNCHANGED <<rows, nextRow, ledgerVars>>                     \* 500
    /\ Answer(q)

-------------------------------------------------------------------------------
(***************************************************************************)
(* Retention.                                                              *)
(***************************************************************************)
\* No request takes as long as the retention window.
AgeOut(e) ==
    /\ \A q \in Request : req[q].op = "none"
    /\ "age" \in May /\ e \in Logged /\ ~ledger[e].old
    /\ \A f \in Logged : f < e => ledger[f].old
    /\ ledger' = [ledger EXCEPT ![e] = [@ EXCEPT !.old = TRUE]]
    /\ UNCHANGED <<rows, nextRow, nextEntry, req>>

Old == {e \in Logged : ledger[e].old}

\* The foreign key of revert_of_id, which has no ON DELETE, rejects the purge.
PurgeBlocked == \E f \in Logged \ Old : ledger[f].of \in Old

\* Seeded fault: the undone change goes, what undid it stays.
PurgeUndone ==
    /\ ledger' = [e \in EntryId |-> IF e \in Old THEN Null ELSE ledger[e]]
    /\ UNCHANGED <<rows, nextRow, nextEntry, req>>

\* GET /changes and POST /changes/purge: _purge_expired.
Purge ==
    /\ ledger' = IF PurgeBlocked THEN ledger                             \* 500
                 ELSE [e \in EntryId |-> IF e \in Old THEN Null ELSE ledger[e]]
    /\ UNCHANGED <<rows, nextRow, nextEntry, req>>

-------------------------------------------------------------------------------
NoRows(people, conns) ==
    [t \in Table |-> [i \in RowId |->
       IF \/ t = "org_settings" /\ i = NavRow
          \/ t = "principal" /\ i \in people
          \/ t = "bi_connection" /\ i \in conns
       THEN Empty ELSE Null]]

\* A dashboard from before the retention window, shared or not, linked or not, and
\* what it and its grant name.
Older(s, v, shared, links, people, conns) ==
    LET who == people \cap {1} IN
    [NoRows(people, conns) EXCEPT
       !["dashboard"] = [@ EXCEPT ![1] =
          [Empty EXCEPT !.slug = s, !.value = v, !.who = who, !.conn = conns \cap {1}]],
       !["dashboard_permission"] =
          IF shared THEN [@ EXCEPT ![1] = [Empty EXCEPT !.refs = {1}, !.who = who]] ELSE @,
       !["org_settings"] = [@ EXCEPT ![NavRow] = [Empty EXCEPT !.refs = links]]]

Init ==
    /\ \/ rows = NoRows({}, {})
       \/ \E s \in Slug, v \in Value :
            \/ \E shared \in BOOLEAN, links \in SUBSET {1} : rows = Older(s, v, shared, links, {}, {})
            \/ \E people, conns \in SUBSET Parents :
                 /\ "both" \in May \/ people = {} \/ conns = {}
                 /\ rows = Older(s, v, TRUE, {1}, people, conns)
    /\ nextRow = [t \in Type |-> IF Exists(t, 1) THEN 2 ELSE 1]
    /\ ledger = [e \in EntryId |-> Null]
    /\ nextEntry = 1
    /\ req = [q \in Request |-> Idle]

CallerStep ==
    \/ \E v \in Value, who, conn \in Namable :
         \/ \E s \in Slug : CreateDashboard(s, v, who, conn)
         \/ "reports" \in May /\ CreateReport(v, who)
         \/ \E t \in {"dashboard", "report"}, i \in RowId : Update(t, i, v, conn)
    \/ \E d \in RowId :
         \/ \E n \in 0..1, who \in Namable : "share" \in May /\ SetPermissions(d, n, who)
         \/ DeleteDashboard(d) \/ DeleteReport(d) \/ ScheduledRun(d)
         \/ DeletePrincipal(d) \/ DeleteConnection(d)
    \/ \E links \in SUBSET Present("dashboard") : SetNav(links)

RevertStep(q) ==
    \/ \E e \in Logged : \E ids \in Reverts(e), force \in BOOLEAN : RevertRead(q, ids, force)
    \/ RevertLoad(q)
    \/ RevertCommit(q)

Next ==
    \/ CallerStep
    \/ \E q \in Request : RevertStep(q)
    \/ Purge
    \/ \E e \in EntryId : AgeOut(e)

Spec == Init /\ [][Next]_vars

-------------------------------------------------------------------------------
TypeOK ==
    /\ rows \in [Table -> [RowId -> Snapshot]]
    /\ nextRow \in [Type -> 1..(MaxRows + 1)]
    /\ ledger \in [EntryId -> Entry \cup {Null}]
    /\ nextEntry \in 1..(MaxEntries + 1)
    /\ req \in [Request -> RequestState]

Newest(e) ==
    \A f \in Logged :
       ledger[f].type = ledger[e].type /\ ledger[f].rid = ledger[e].rid => f <= e

People == Present("principal")

\* What callers see in a row: not the last run, nor a creator whose account is gone.
ByCaller(row, people) ==
    IF row = Null THEN Null ELSE [row EXCEPT !.runs = 0, !.who = @ \cap people]

\* Entry x says what is in the row; a report goes along with its author's
\* account, which leaves no entry.
Tells(x, row, people) ==
    \/ ByCaller(row, people) = ByCaller(x.after, people)
    \/ x.type = "report" /\ x.after # Null /\ ~(x.after.who \subseteq people)

\* No change is missing from the history: the newest entry of a dashboard or a
\* report says what a caller sees in it now, however often changes were undone,
\* redone and forced (log_create, log_update, log_delete, _record_inverse), as
\* long as the report's author has an account.
LedgerIsCurrent ==
    \A e \in Logged :
       ledger[e].type \in {"dashboard", "report"} /\ Newest(e) =>
          Tells(ledger[e], rows[ledger[e].type][ledger[e].rid], People)

\* "This change has already been reverted": a change is undone at most once.
UndoneOnce == \A e, f \in Logged : ledger[e].of = ledger[f].of /\ ledger[e].of # 0 => e = f

\* A dashboard deletion nothing of which was undone can be undone as long as its
\* slug is free, the navigation was not edited since, and the creator, the
\* connection and the users and roles its rows name are still there: no order of
\* the entries and no dashboard id that has changed stands in the way.  Of those
\* that are named only one has to be deleted meanwhile, and the undo is refused
\* for good ("would violate a data constraint", revert_correlation).
DeletionCanBeUndone ==
    \A e \in Logged :
       LET group == Group(e) IN
       /\ ledger[e].type = "dashboard" /\ ledger[e].action = "delete" /\ ledger[e].of = 0
       /\ Pending(e) = group
       /\ \A d \in Present("dashboard") : rows["dashboard"][d].slug # ledger[e].before.slug
       /\ \A f \in group : ledger[f].action = "update" => Target(f) = ledger[f].after
       /\ \A f \in group : ledger[f].action # "create" => KeysHold(rows, ledger[f].before)
       /\ \A t \in Type : Room(t, Cardinality({f \in group : ledger[f].type = t}))
       => \A s \in InOrder(group) : Commits(s, [f \in EntryId |-> IF f \in group THEN Target(f) ELSE Null])

\* A deleted dashboard whose whole group is undone at once comes back as it was:
\* with each grant, and with its link, both under its new id ("reverting the
\* delete restores the link along with the resource", mutation_registry.py).
ComesBackIntact ==
    [][\A e \in Logged :
          LET group == {f \in Group(e) : ledger[f].of = 0}
              of(t) == {f \in group : ledger[f].type = t} IN
          /\ ledger[e].type = "dashboard" /\ ledger[e].action = "delete"
          /\ ledger[e].of = 0
          /\ \A f \in Group(e) : ~ledger[f].reverted /\ ledger'[f] # Null /\ ledger'[f].reverted
          => \E n \in RowId :
               /\ ~Exists("dashboard", n) /\ rows'["dashboard"][n] = ledger[e].before
               /\ Cardinality(Grants(n)') = Cardinality(of("dashboard_permission"))
               /\ of("org_settings") # {} => n \in Nav'.refs]_vars

\* "Enforces the 90-day retention window by purging expired rows on load"
\* (global_feed): the feed can do so, and so can be read.
FeedLoads == ~PurgeBlocked

-------------------------------------------------------------------------------
(***************************************************************************)
(* The inductive invariants behind the theorems of ChangeLedgerProofs.     *)
(***************************************************************************)
\* Ids are handed out in the order of time, and the foreign key of revert_of_id
\* holds: an inverse follows what it undoes and is not outlived by it.
HistoryInv ==
    /\ \A e \in Logged :
         /\ e < nextEntry
         /\ ledger[e].of < e
         /\ ledger[e].of # 0 => ledger[e].of \in Logged
    /\ \A e, f \in Logged : e < f /\ ledger[f].old => ledger[e].old

\* An entry is marked reverted exactly when the entry that undid it is there.
StampInv ==
    \A e \in Logged : ledger[e].reverted <=> \E f \in Logged : ledger[f].of = e

\* Snapshots are there where the engine counts on them, and the navigation is
\* never created or deleted.
SnapshotInv ==
    /\ Nav # Null
    /\ \A e \in Logged :
         /\ ledger[e].action # "create" => ledger[e].before # Null
         /\ ledger[e].action # "delete" => ledger[e].after # Null
         /\ ledger[e].type = "org_settings" => ledger[e].action = "update" /\ ledger[e].rid = NavRow
    /\ \A q \in Request :
         /\ req[q].op # "none" => \A e \in req[q].ids : e < nextEntry
         /\ req[q].op = "loaded" =>
              \A e \in req[q].ids \cap Logged : ledger[e].action = "update" => req[q].seen[e] # Null

LedgerInv == HistoryInv /\ StampInv /\ SnapshotInv

\* One revert at a time.
Serial == "overlap" \notin May \/ \A p, q \in Request : p = q

\* What a revert under way means to undo has not been undone.
RevertInv ==
    /\ \A q \in Request : req[q].op # "none" =>
         /\ \A e \in req[q].ids \cap Logged : ~ledger[e].reverted
         /\ \A p \in Request : req[p].op # "none" => p = q
    /\ UndoneOnce

Authored == {"dashboard", "report"}

\* What is left to undo of a group holds at most one dashboard or report.
GroupsInv ==
    /\ \A e \in Logged : ledger[e].group <= e
    /\ \A e, f \in Logged :
         /\ ledger[e].group = ledger[f].group
         /\ ledger[e].type \in Authored /\ ledger[f].type \in Authored
         /\ ~ledger[e].reverted /\ ~ledger[f].reverted
         => e = f

\* A revert undoes entries of one group, over the rows it has loaded.
LoadedInv ==
    \A q \in Request : req[q].op # "none" =>
       /\ \A e, f \in req[q].ids \cap Logged : ledger[e].group = ledger[f].group
       /\ req[q].op = "loaded" => \A e \in req[q].ids \cap Logged : req[q].seen[e] = Target(e)

CurrentInv == GroupsInv /\ LoadedInv /\ LedgerIsCurrent

\* Ids are never used again, and what an inverse undoes is of its own group.
KinInv ==
    /\ \A t \in Type, i \in RowId : Exists(t, i) => i < nextRow[t]
    /\ \A e \in Logged :
         /\ ledger[e].rid < nextRow[ledger[e].type] /\ ledger[e].group <= e
         /\ ledger[e].type = "dashboard_permission" => ledger[e].action # "update"
         /\ ledger[e].of # 0 => ledger[ledger[e].of].group = ledger[e].group
    /\ \A q \in Request : req[q].op # "none" =>
         \A e, f \in req[q].ids \cap Logged : ledger[e].group = ledger[f].group

\* With a deletion go its grants and its link, in that order.
DeletionsInv ==
    \A e \in Logged : \A f \in Group(e) \ {e} :
       /\ ledger[e].type = "dashboard" /\ ledger[e].action = "delete" /\ ledger[e].of = 0
       /\ ledger[f].of = 0
       => /\ e < f
          /\ \/ /\ ledger[f].type = "dashboard_permission" /\ ledger[f].action = "delete"
                /\ ledger[f].before.refs = {ledger[e].rid}
             \/ /\ ledger[f].type = "org_settings"
                /\ ledger[e].rid \in ledger[f].before.refs

\* A dashboard never changes its slug, and a grant is for one dashboard: in the
\* tables, in the history and in what a revert has loaded.
Known(slugOf, t, i, row) ==
    row # Null => /\ t = "dashboard" => row.slug = slugOf[i]
                  /\ t = "dashboard_permission" => \E d \in RowId : row.refs = {d}

Identity(slugOf) ==
    /\ \A t \in Type, i \in RowId : Known(slugOf, t, i, rows[t][i])
    /\ \A e \in Logged :
         /\ Known(slugOf, ledger[e].type, ledger[e].rid, ledger[e].before)
         /\ Known(slugOf, ledger[e].type, ledger[e].rid, ledger[e].after)
    /\ \A q \in Request : req[q].op = "loaded" =>
         \A e \in req[q].ids \cap Logged : Known(slugOf, ledger[e].type, ledger[e].rid, req[q].seen[e])

IdentityInv == \E slugOf \in [RowId -> Slug \cup {Null}] : Identity(slugOf)

UndoInv == Sound(rows) /\ KinInv /\ DeletionsInv /\ IdentityInv
===============================================================================
