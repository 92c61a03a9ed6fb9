-------------------------- MODULE ChangeLedgerProofs --------------------------
(***************************************************************************)
(* Theorems about ChangeLedger, for every number of rows, entries and      *)
(* requests and every setting of May (but where a theorem says otherwise). *)
(* First its types and the history it keeps of each row; then what that    *)
(* history says of the rows, and what undoing it does to them.             *)
(***************************************************************************)
EXTENDS ChangeLedger, TLAPS, FiniteSetTheorems

IInv == TypeOK /\ LedgerInv

USE DEF Table

-------------------------------------------------------------------------------
\* Rows, entries and requests that the actions start from are of their type.
LEMMA Values ==
    /\ Null \notin Row /\ Null \notin Entry
    /\ Empty \in Row
    /\ Idle \in RequestState
    /\ NavRow \in RowId /\ 1 \in RowId
  BY LedgerAssumption DEF Empty, Row, Idle, RequestState, NavRow, RowId

LEMMA NamableFits == \A who \in Namable : who \in SUBSET RowId
  BY LedgerAssumption DEF Namable

LEMMA EntryType ==
    ASSUME NEW t \in Type, NEW i \in RowId, NEW a \in Action, NEW b \in Snapshot,
           NEW c \in Snapshot, NEW g \in EntryId
    PROVE  /\ NewEntry(t, i, a, b, c, g) \in Entry
           /\ NewEntry(t, i, a, b, c, g).of = 0
           /\ ~NewEntry(t, i, a, b, c, g).reverted
           /\ ~NewEntry(t, i, a, b, c, g).old
           /\ NewEntry(t, i, a, b, c, g).type = t
           /\ NewEntry(t, i, a, b, c, g).rid = i
           /\ NewEntry(t, i, a, b, c, g).action = a
           /\ NewEntry(t, i, a, b, c, g).before = b
           /\ NewEntry(t, i, a, b, c, g).after = c
           /\ NewEntry(t, i, a, b, c, g).group = g
  BY DEF NewEntry, Entry

\* What is in the ledger is an entry, and every row is a row.
LEMMA Loaded ==
    ASSUME TypeOK
    PROVE  /\ \A e \in Logged : e \in EntryId /\ ledger[e] \in Entry
           /\ \A e \in EntryId : e \notin Logged => ledger[e] = Null
           /\ \A t \in Table, i \in RowId : Exists(t, i) => rows[t][i] \in Row
  BY DEF TypeOK, Logged, Exists, Snapshot

\* An enumeration of a finite set of entries or grants.
LEMMA Enumeration ==
    ASSUME NEW S, IsFiniteSet(S), NEW s \in Orders(S)
    PROVE  /\ Cardinality(S) \in Nat
           /\ DOMAIN s = 1..Cardinality(S)
           /\ Cardinality(DOMAIN s) = Cardinality(S)
           /\ IsFiniteSet(DOMAIN s)
           /\ \A i \in DOMAIN s : s[i] \in S
           /\ \A x \in S : \E i \in DOMAIN s : s[i] = x
<1>1. Cardinality(S) \in Nat
  BY FS_CardinalityType
<1>2. DOMAIN s = 1..Cardinality(S)
  BY DEF Orders
<1>3. IsFiniteSet(1..Cardinality(S)) /\ Cardinality(1..Cardinality(S)) = Cardinality(S)
  BY <1>1, FS_Interval
<1> QED
  BY <1>1, <1>2, <1>3 DEF Orders

LEMMA FiniteIds ==
    /\ \A S \in SUBSET EntryId : IsFiniteSet(S)
    /\ \A S \in SUBSET RowId : IsFiniteSet(S)
<1>1. IsFiniteSet(EntryId) /\ IsFiniteSet(RowId)
  BY LedgerAssumption, FS_Interval DEF EntryId, RowId
<1> QED
  BY <1>1, FS_Subset

-------------------------------------------------------------------------------
\* What the invariants ask of one entry.
Shaped(x) ==
    /\ x \in Entry
    /\ x.action # "create" => x.before # Null
    /\ x.action # "delete" => x.after # Null
    /\ x.type = "org_settings" => x.action = "update" /\ x.rid = NavRow

\* The k entries of one action join the ledger: it keeps its invariants.
LEMMA LogKeeps ==
    ASSUME TypeOK, HistoryInv, StampInv, \A e \in Logged : Shaped(ledger[e]),
           NEW k \in Nat, NEW new, Log(k, new),
           \A n \in 1..k : Shaped(new[n]) /\ new[n].of = 0 /\ ~new[n].reverted /\ ~new[n].old
    PROVE  /\ ledger' \in [EntryId -> Entry \cup {Null}]
           /\ nextEntry' \in 1..(MaxEntries + 1)
           /\ HistoryInv' /\ StampInv'
           /\ \A e \in Logged' : Shaped(ledger'[e])
           /\ \A e \in Logged : e \in Logged' /\ ledger'[e] = ledger[e]
           /\ \A e \in Logged' : e \in Logged \/ e >= nextEntry
<1> DEFINE fresh == nextEntry..(nextEntry + k - 1)
<1>1. nextEntry \in Nat \ {0} /\ nextEntry + k <= MaxEntries + 1 /\ nextEntry' = nextEntry + k
      /\ MaxEntries \in Nat
  BY LedgerAssumption DEF TypeOK, Log, LogRoom
<1>2. \A e \in EntryId : ledger'[e] = IF e \in fresh THEN new[e - nextEntry + 1] ELSE ledger[e]
  BY DEF Log
<1>3. fresh \subseteq EntryId /\ \A e \in fresh : e - nextEntry + 1 \in 1..k
  BY <1>1 DEF EntryId
<1>4. \A e \in fresh : /\ Shaped(ledger'[e]) /\ ledger'[e].of = 0
                       /\ ~ledger'[e].reverted /\ ~ledger'[e].old
  BY <1>2, <1>3
<1>5. \A e \in Logged : e \notin fresh /\ e < nextEntry /\ e \in EntryId
  BY <1>1 DEF HistoryInv, Logged, EntryId
<1>6. \A e \in EntryId \ fresh : ledger'[e] = ledger[e]
  BY <1>2
<1>7. Logged' = Logged \cup fresh
  <2>1. \A e \in fresh : ledger'[e] # Null
    BY <1>4, Values DEF Shaped
  <2> QED
    BY <2>1, <1>3, <1>5, <1>6 DEF Logged
<1>8. \A e \in Logged : ledger'[e] = ledger[e]
  BY <1>5, <1>6
<1> HIDE DEF fresh
<1>9. ledger' \in [EntryId -> Entry \cup {Null}]
  <2>1. DOMAIN ledger' = EntryId /\ ledger' = [e \in EntryId |-> ledger'[e]]
    BY DEF Log
  <2>2. \A e \in EntryId : ledger'[e] \in Entry \cup {Null}
    BY <1>4, <1>6 DEF Shaped, TypeOK
  <2> QED
    BY <2>1, <2>2
<1>10. nextEntry' \in 1..(MaxEntries + 1)
  BY <1>1
<1>11. \A e \in Logged' : e < nextEntry'
  <2>1. \A e \in fresh : e < nextEntry'
    BY <1>1 DEF fresh
  <2>2. \A e \in Logged : e < nextEntry'
    BY <1>1, <1>5 DEF EntryId
  <2> QED
    BY <2>1, <2>2, <1>7
<1>12. \A e \in fresh : e >= nextEntry
  BY <1>1 DEF fresh
<1>13. HistoryInv'
  <2>1. \A e \in Logged' : ledger'[e].of < e /\ (ledger'[e].of # 0 => ledger'[e].of \in Logged')
    <3>1. \A e \in Logged : ledger'[e].of < e /\ (ledger'[e].of # 0 => ledger'[e].of \in Logged')
      BY <1>7, <1>8 DEF HistoryInv
    <3>2. \A e \in fresh : 0 < e
      BY <1>1 DEF fresh
    <3> QED
      BY <3>1, <3>2, <1>4, <1>7
  <2>2. \A e, f \in Logged' : e < f /\ ledger'[f].old => ledger'[e].old
    <3> SUFFICES ASSUME NEW e \in Logged', NEW f \in Logged', e < f, ledger'[f].old
                 PROVE  ledger'[e].old
      OBVIOUS
    <3>1. f \in Logged
      BY <1>4, <1>7
    <3>2. e \in Logged
      <4>1. f \in Nat /\ f < nextEntry
        BY <3>1, <1>5 DEF EntryId
      <4>2. e \in EntryId
        BY <1>3, <1>5, <1>7
      <4>3. ~(e >= nextEntry)
        BY <4>1, <4>2, <1>1 DEF EntryId
      <4> QED
        BY <4>3, <1>7, <1>12
    <3> QED
      BY <3>1, <3>2, <1>8 DEF HistoryInv
  <2> QED
    BY <2>1, <2>2, <1>11 DEF HistoryInv
<1>14. StampInv'
  <2> SUFFICES ASSUME NEW e \in Logged'
               PROVE  ledger'[e].reverted <=> \E f \in Logged' : ledger'[f].of = e
    BY DEF StampInv
  <2>0. e # 0
    BY <1>1, <1>5, <1>7, <1>12, <1>3 DEF EntryId
  <2>1. (\E f \in Logged' : ledger'[f].of = e) <=> \E f \in Logged : ledger[f].of = e
    BY <2>0, <1>4, <1>7, <1>8
  <2>2. CASE e \in Logged
    BY <2>1, <2>2, <1>8 DEF StampInv
  <2>3. CASE e \in fresh
    <3>1. ~ledger'[e].reverted
      BY <2>3, <1>4
    <3>2. \A f \in Logged : ledger[f].of # e
      <4> SUFFICES ASSUME NEW f \in Logged, ledger[f].of = e PROVE FALSE
        OBVIOUS
      <4>1. e < f /\ f < nextEntry
        BY <1>5 DEF HistoryInv
      <4> QED
        BY <4>1, <1>1, <1>12, <2>3, <1>5, <1>3 DEF EntryId
    <3> QED
      BY <3>1, <3>2, <2>1
  <2> QED
    BY <2>2, <2>3, <1>7
<1> QED
  BY <1>4, <1>7, <1>8, <1>9, <1>10, <1>12, <1>13, <1>14

\* A caller's action, which leaves the requests alone.
LEMMA CallerKeeps ==
    ASSUME IInv, NEW k \in Nat, NEW new, Log(k, new),
           \A n \in 1..k : Shaped(new[n]) /\ new[n].of = 0 /\ ~new[n].reverted /\ ~new[n].old,
           rows' \in [Table -> [RowId -> Snapshot]], nextRow' \in [Type -> 1..(MaxRows + 1)],
           Nav' # Null, req' = req
    PROVE  IInv'
<1> USE DEF IInv, LedgerInv
<1>1. \A e \in Logged : Shaped(ledger[e])
  BY Loaded DEF Shaped, SnapshotInv
<1>2. /\ ledger' \in [EntryId -> Entry \cup {Null}]
      /\ nextEntry' \in 1..(MaxEntries + 1)
      /\ HistoryInv' /\ StampInv'
      /\ \A e \in Logged' : Shaped(ledger'[e])
      /\ \A e \in Logged : e \in Logged' /\ ledger'[e] = ledger[e]
      /\ \A e \in Logged' : e \in Logged \/ e >= nextEntry
  BY <1>1, LogKeeps
<1>3. nextEntry \in Nat /\ MaxEntries \in Nat /\ nextEntry' = nextEntry + k
  BY LedgerAssumption DEF TypeOK, Log
<1>4. TypeOK'
  BY <1>2 DEF TypeOK
<1>5. SnapshotInv'
  <2>1. ASSUME NEW q \in Request, req[q].op # "none", NEW e \in req[q].ids
        PROVE  e < nextEntry' /\ ~(e >= nextEntry)
    <3>1. e \in Nat /\ e < nextEntry
      BY <2>1 DEF TypeOK, RequestState, SnapshotInv, EntryId
    <3> QED
      BY <3>1, <1>3
  <2>2. ASSUME NEW q \in Request, req[q].op = "loaded", NEW e \in req[q].ids \cap Logged',
               ledger'[e].action = "update"
        PROVE  req[q].seen[e] # Null
    <3>1. e \in Logged
      BY <2>1, <2>2, <1>2
    <3> QED
      BY <3>1, <2>2, <1>2 DEF SnapshotInv
  <2> QED
    BY <2>1, <2>2, <1>2 DEF SnapshotInv, Shaped
<1> QED
  BY <1>2, <1>4, <1>5

LEMMA PutKeeps ==
    ASSUME TypeOK, NEW t \in Table, NEW i \in RowId, NEW row \in Snapshot, Put(t, i, row),
           Nav # Null, t = "org_settings" => row # Null
    PROVE  rows' \in [Table -> [RowId -> Snapshot]] /\ Nav' # Null
<1>1. rows[t] \in [RowId -> Snapshot] /\ rows["org_settings"] \in [RowId -> Snapshot]
  BY DEF TypeOK, Type
<1>2. [rows[t] EXCEPT ![i] = row] \in [RowId -> Snapshot]
  BY <1>1
<1>3. rows' = [rows EXCEPT ![t] = [rows[t] EXCEPT ![i] = row]]
  BY DEF Put
<1>4. rows' \in [Table -> [RowId -> Snapshot]]
  BY <1>2, <1>3 DEF TypeOK
<1>5. rows'["org_settings"] = IF t = "org_settings" THEN [rows[t] EXCEPT ![i] = row]
                              ELSE rows["org_settings"]
  BY <1>3 DEF TypeOK, Type
<1>6. Nav' # Null
  BY <1>1, <1>5, Values DEF Nav
<1> QED
  BY <1>4, <1>6

\* One row written, one entry.
LEMMA WriteKeeps ==
    ASSUME IInv, NEW t \in Type, NEW i \in RowId, NEW row \in Snapshot, Put(t, i, row),
           NEW a \in Action, NEW b \in Snapshot, LogOne(t, i, a, b, row),
           Shaped(NewEntry(t, i, a, b, row, nextEntry)),
           nextRow' \in [Type -> 1..(MaxRows + 1)], req' = req
    PROVE  IInv'
<1> DEFINE new == [n \in 1..1 |-> NewEntry(t, i, a, b, row, nextEntry)]
<1>1. Log(1, new)
  BY DEF LogOne
<1>2. nextEntry \in EntryId
  BY <1>1, LedgerAssumption DEF Log, LogRoom, IInv, TypeOK, EntryId
<1>3. \A n \in 1..1 : Shaped(new[n]) /\ new[n].of = 0 /\ ~new[n].reverted /\ ~new[n].old
  BY <1>2, EntryType
<1>4. rows' \in [Table -> [RowId -> Snapshot]] /\ Nav' # Null
  <2>1. t = "org_settings" => row # Null
    BY <1>2, EntryType DEF Shaped
  <2> QED
    BY <2>1, PutKeeps DEF IInv, LedgerInv, SnapshotInv
<1> HIDE DEF new
<1> QED
  BY <1>1, <1>3, <1>4, CallerKeeps

-------------------------------------------------------------------------------
\* The first row of a dashboard, of a report and of a grant.
LEMMA FreshRow ==
    ASSUME NEW row \in Row
    PROVE  /\ \A s \in Slug : [row EXCEPT !.slug = s] \in Row
           /\ \A v \in Value : [row EXCEPT !.value = v] \in Row
           /\ \A ids \in SUBSET RowId :
                [row EXCEPT !.refs = ids] \in Row /\ [row EXCEPT !.who = ids] \in Row
                /\ [row EXCEPT !.conn = ids] \in Row
  BY DEF Row

LEMMA FreshReport ==
    ASSUME NEW v \in Value, NEW who \in SUBSET RowId
    PROVE  [Empty EXCEPT !.value = v, !.who = who] \in Row
<1>1. PICK a : a = [Empty EXCEPT !.value = v]
  OBVIOUS
<1>2. a \in Row
  BY <1>1, Values, FreshRow
<1>3. [a EXCEPT !.who = who] \in Row
  BY <1>2, FreshRow
<1>4. [Empty EXCEPT !.value = v, !.who = who] = [a EXCEPT !.who = who]
  BY <1>1
<1> QED
  BY <1>3, <1>4

LEMMA FreshGrant ==
    ASSUME NEW d \in RowId, NEW who \in SUBSET RowId
    PROVE  [Empty EXCEPT !.refs = {d}, !.who = who] \in Row
<1>1. PICK a : a = [Empty EXCEPT !.refs = {d}]
  OBVIOUS
<1>2. a \in Row
  <2>1. {d} \in SUBSET RowId
    OBVIOUS
  <2> QED
    BY <1>1, <2>1, Values, FreshRow
<1>3. [a EXCEPT !.who = who] \in Row
  BY <1>2, FreshRow
<1>4. [Empty EXCEPT !.refs = {d}, !.who = who] = [a EXCEPT !.who = who]
  BY <1>1
<1> QED
  BY <1>3, <1>4

LEMMA FreshDashboard ==
    ASSUME NEW s \in Slug, NEW v \in Value, NEW who \in SUBSET RowId, NEW conn \in SUBSET RowId
    PROVE  [Empty EXCEPT !.slug = s, !.value = v, !.who = who, !.conn = conn] \in Row
<1>1. PICK a : a = [Empty EXCEPT !.slug = s]
  OBVIOUS
<1>2. PICK b : b = [a EXCEPT !.value = v]
  OBVIOUS
<1>3. PICK c : c = [b EXCEPT !.who = who]
  OBVIOUS
<1>4. a \in Row /\ b \in Row /\ c \in Row
  <2>1. a \in Row
    BY <1>1, Values, FreshRow
  <2>2. b \in Row
    BY <1>2, <2>1, FreshRow
  <2>3. c \in Row
    BY <1>3, <2>2, FreshRow
  <2> QED
    BY <2>1, <2>2, <2>3
<1>5. [c EXCEPT !.conn = conn] \in Row
  BY <1>4, FreshRow
<1>6. [Empty EXCEPT !.slug = s, !.value = v, !.who = who, !.conn = conn] = [c EXCEPT !.conn = conn]
  BY <1>1, <1>2, <1>3
<1> QED
  BY <1>5, <1>6

\* Caller actions, one lemma each.
LEMMA InsertKeeps ==
    ASSUME IInv, NEW t \in Type \ {"org_settings"}, NEW row \in Row, Insert(t, row)
    PROVE  IInv'
<1>1. nextRow[t] \in RowId /\ nextRow[t] + 1 \in 1..(MaxRows + 1)
  BY LedgerAssumption DEF Insert, Room, IInv, TypeOK, RowId
<1>2. nextRow' \in [Type -> 1..(MaxRows + 1)]
  BY <1>1 DEF Insert, IInv, TypeOK
<1>3. nextEntry \in EntryId
  BY LedgerAssumption DEF Insert, LogOne, Log, LogRoom, IInv, TypeOK, EntryId
<1>4. Null \in Snapshot /\ row \in Snapshot /\ "create" \in Action /\ row # Null
  BY Values DEF Snapshot, Action
<1>5. Shaped(NewEntry(t, nextRow[t], "create", Null, row, nextEntry))
  BY <1>1, <1>3, <1>4, EntryType DEF Shaped
<1>6. /\ Put(t, nextRow[t], row) /\ LogOne(t, nextRow[t], "create", Null, row)
      /\ req' = req
  BY DEF Insert
<1> QED
  BY <1>1, <1>2, <1>4, <1>5, <1>6, WriteKeeps

LEMMA UpdateKeeps ==
    ASSUME IInv, NEW t \in {"dashboard", "report"}, NEW i \in RowId, NEW v \in Value, NEW c \in SUBSET RowId,
           Update(t, i, v, c)
    PROVE  IInv'
<1> DEFINE row == [rows[t][i] EXCEPT !.value = v, !.conn = c]
<1>1. rows[t][i] \in Row /\ t \in Type
  BY Loaded DEF Update, IInv, Type
<1>2. row \in Row /\ row # Null /\ rows[t][i] # Null
  BY <1>1, Values DEF Row
<1>3. Put(t, i, row) /\ LogOne(t, i, "update", rows[t][i], row) /\ UNCHANGED <<nextRow, req>>
  BY DEF Update
<1>4. nextEntry \in EntryId
  BY <1>3, LedgerAssumption DEF LogOne, Log, LogRoom, IInv, TypeOK, EntryId
<1> HIDE DEF row
<1>5. row \in Snapshot /\ rows[t][i] \in Snapshot /\ "update" \in Action
  BY <1>1, <1>2 DEF Snapshot, Action
<1>6. Shaped(NewEntry(t, i, "update", rows[t][i], row, nextEntry))
  BY <1>1, <1>2, <1>4, <1>5, EntryType DEF Shaped
<1>7. nextRow' \in [Type -> 1..(MaxRows + 1)] /\ req' = req
  BY <1>3 DEF IInv, TypeOK
<1> QED
  BY <1>1, <1>3, <1>5, <1>6, <1>7, WriteKeeps

LEMMA SetNavKeeps ==
    ASSUME IInv, NEW links \in SUBSET RowId, SetNav(links)
    PROVE  IInv'
<1> DEFINE row == [Nav EXCEPT !.refs = links]
<1>1. Nav \in Row /\ Nav # Null /\ "org_settings" \in Type
  BY Loaded, Values DEF IInv, LedgerInv, SnapshotInv, Nav, Type, Exists
<1>2. row \in Row /\ row # Null
  BY <1>1, Values DEF Row
<1>3. Put("org_settings", NavRow, row) /\ LogOne("org_settings", NavRow, "update", Nav, row)
      /\ UNCHANGED <<nextRow, req>>
  BY DEF SetNav
<1>4. nextEntry \in EntryId
  BY <1>3, LedgerAssumption DEF LogOne, Log, LogRoom, IInv, TypeOK, EntryId
<1> HIDE DEF row
<1>5. row \in Snapshot /\ Nav \in Snapshot /\ "update" \in Action
  BY <1>1, <1>2 DEF Snapshot, Action
<1>6. Shaped(NewEntry("org_settings", NavRow, "update", Nav, row, nextEntry))
  BY <1>1, <1>2, <1>4, <1>5, EntryType, Values DEF Shaped
<1>7. nextRow' \in [Type -> 1..(MaxRows + 1)] /\ req' = req
  BY <1>3 DEF IInv, TypeOK
<1> QED
  BY <1>1, <1>3, <1>5, <1>6, <1>7, Values, WriteKeeps

LEMMA DeleteReportKeeps ==
    ASSUME IInv, NEW r \in RowId, DeleteReport(r)
    PROVE  IInv'
<1>1. rows["report"][r] \in Row /\ rows["report"][r] # Null /\ "report" \in Type
  BY Loaded DEF DeleteReport, IInv, Type, Exists
<1>2. Put("report", r, Null) /\ LogOne("report", r, "delete", rows["report"][r], Null)
      /\ UNCHANGED <<nextRow, req>>
  BY DEF DeleteReport
<1>3. nextEntry \in EntryId
  BY <1>2, LedgerAssumption DEF LogOne, Log, LogRoom, IInv, TypeOK, EntryId
<1>4. Null \in Snapshot /\ rows["report"][r] \in Snapshot /\ "delete" \in Action
  BY <1>1 DEF Snapshot, Action
<1>5. Shaped(NewEntry("report", r, "delete", rows["report"][r], Null, nextEntry))
  BY <1>1, <1>3, <1>4, EntryType DEF Shaped
<1>6. nextRow' \in [Type -> 1..(MaxRows + 1)] /\ req' = req
  BY <1>2 DEF IInv, TypeOK
<1> QED
  BY <1>1, <1>2, <1>4, <1>5, <1>6, WriteKeeps

\* An action that changes rows and nothing the ledger or a request holds.
LEMMA RowsKeep ==
    ASSUME IInv, rows' \in [Table -> [RowId -> Snapshot]], nextRow' \in [Type -> 1..(MaxRows + 1)],
           Nav' # Null, UNCHANGED <<ledgerVars, req>>
    PROVE  IInv'
<1>1. ledger' = ledger /\ nextEntry' = nextEntry /\ req' = req /\ Logged' = Logged
  BY DEF ledgerVars, Logged
<1>2. TypeOK'
  BY <1>1 DEF IInv, TypeOK
<1>3. HistoryInv' /\ StampInv' /\ SnapshotInv'
  BY <1>1 DEF IInv, LedgerInv, HistoryInv, StampInv, SnapshotInv
<1> QED
  BY <1>2, <1>3 DEF IInv, LedgerInv

LEMMA SetPermissionsKeeps ==
    ASSUME IInv, NEW d \in RowId, NEW n \in 0..1, NEW who \in SUBSET RowId, SetPermissions(d, n, who)
    PROVE  IInv'
<1> DEFINE t == "dashboard_permission"
           grant == [Empty EXCEPT !.refs = {d}, !.who = who]
           fresh == nextRow[t] .. (nextRow[t] + n - 1)
           table == [g \in RowId |-> IF g \in fresh THEN grant
                                     ELSE IF g \in Grants(d) THEN Null ELSE rows[t][g]]
<1>1. t \in Type /\ "org_settings" \in Type
  BY DEF Type
<1>2. grant \in Row
  BY FreshGrant
<1>3. table \in [RowId -> Snapshot]
  BY <1>1, <1>2 DEF IInv, TypeOK, Snapshot
<1>4. rows' = [rows EXCEPT ![t] = table] /\ nextRow' = [nextRow EXCEPT ![t] = @ + n]
      /\ UNCHANGED <<ledgerVars, req>> /\ Room(t, n)
  BY DEF SetPermissions
<1> HIDE DEF table
<1>5. rows' \in [Table -> [RowId -> Snapshot]] /\ Nav' # Null
  BY <1>1, <1>3, <1>4 DEF IInv, TypeOK, LedgerInv, SnapshotInv, Nav
<1>6. nextRow[t] + n \in 1..(MaxRows + 1)
  BY <1>1, <1>4, LedgerAssumption DEF IInv, TypeOK, Room
<1>7. nextRow' \in [Type -> 1..(MaxRows + 1)]
  BY <1>4, <1>6 DEF IInv, TypeOK
<1> QED
  BY <1>4, <1>5, <1>7, RowsKeep

LEMMA ScheduledRunKeeps ==
    ASSUME IInv, NEW r \in RowId, ScheduledRun(r)
    PROVE  IInv'
<1> DEFINE row == [rows["report"][r] EXCEPT !.runs = @ + 1]
<1>1. rows["report"][r] \in Row /\ "report" \in Type /\ rows["report"][r].runs < MaxRuns
  BY Loaded DEF ScheduledRun, IInv, Type, Exists
<1>2. row \in Snapshot
  BY <1>1, LedgerAssumption DEF Row, Snapshot
<1>3. Put("report", r, row) /\ UNCHANGED <<nextRow, ledgerVars, req>>
  BY DEF ScheduledRun
<1> HIDE DEF row
<1>4. rows' \in [Table -> [RowId -> Snapshot]] /\ Nav' # Null
  BY <1>1, <1>2, <1>3, PutKeeps DEF IInv, LedgerInv, SnapshotInv
<1>5. nextRow' \in [Type -> 1..(MaxRows + 1)]
  BY <1>3 DEF IInv, TypeOK
<1> QED
  BY <1>3, <1>4, <1>5, RowsKeep

\* What is left of a row that names an account that goes.
LEMMA WithoutRow ==
    ASSUME NEW p, NEW t, NEW row \in Row
    PROVE  LET left == Without(p, t, row) IN
           \/ left = Null /\ t \in {"dashboard_permission", "report"} /\ p \in row.who
           \/ /\ left \in Row /\ left # Null
              /\ left.slug = row.slug /\ left.value = row.value /\ left.refs = row.refs
              /\ left.conn = row.conn /\ left.who = row.who \ {p} /\ left.runs = row.runs
<1>1. PICK less : less = [row EXCEPT !.who = @ \ {p}]
  OBVIOUS
<1>2. /\ less \in Row /\ less.slug = row.slug /\ less.value = row.value /\ less.refs = row.refs
      /\ less.conn = row.conn /\ less.who = row.who \ {p} /\ less.runs = row.runs
  BY <1>1 DEF Row
<1>3. less # Null /\ row # Null
  BY <1>2, Values
<1>4. CASE p \notin row.who
  <2>1. Without(p, t, row) = row /\ row.who \ {p} = row.who
    BY <1>4 DEF Without
  <2> QED
    BY <1>3, <2>1
<1>5. CASE p \in row.who /\ t \in {"dashboard_permission", "report"}
  BY <1>5 DEF Without
<1>6. CASE p \in row.who /\ t \notin {"dashboard_permission", "report"}
  <2>1. Without(p, t, row) = less
    BY <1>1, <1>3, <1>6 DEF Without
  <2> QED
    BY <1>2, <1>3, <2>1
<1> QED
  BY <1>4, <1>5, <1>6

LEMMA DeletePrincipalKeeps ==
    ASSUME IInv, NEW p \in RowId, DeletePrincipal(p)
    PROVE  IInv'
<1>1. ASSUME NEW t \in Table, NEW i \in RowId PROVE Without(p, t, rows[t][i]) \in Snapshot
  <2>1. rows[t][i] \in Row \cup {Null}
    BY DEF IInv, TypeOK, Snapshot
  <2> QED
    BY <2>1, WithoutRow DEF Without, Snapshot
<1>2. rows' = [t \in Table |-> [i \in RowId |->
                IF t = "principal" /\ i = p THEN Null ELSE Without(p, t, rows[t][i])]]
      /\ UNCHANGED <<nextRow, ledgerVars, req>>
  BY DEF DeletePrincipal
<1>3. rows' \in [Table -> [RowId -> Snapshot]]
  BY <1>1, <1>2 DEF Snapshot
<1>4. Nav' # Null
  <2>1. Nav \in Row /\ Nav # Null /\ Nav' = Without(p, "org_settings", Nav)
    BY <1>2, Loaded, Values DEF Nav, Type, IInv, LedgerInv, SnapshotInv, Exists
  <2> QED
    BY <2>1, WithoutRow
<1>5. nextRow' \in [Type -> 1..(MaxRows + 1)]
  BY <1>2 DEF IInv, TypeOK
<1> QED
  BY <1>2, <1>3, <1>4, <1>5, RowsKeep

LEMMA DeleteConnectionKeeps ==
    ASSUME IInv, NEW c \in RowId, DeleteConnection(c)
    PROVE  IInv'
<1>1. Put("bi_connection", c, Null) /\ UNCHANGED <<nextRow, ledgerVars, req>> /\ Null \in Snapshot
  BY DEF DeleteConnection, Snapshot
<1>2. rows' \in [Table -> [RowId -> Snapshot]] /\ Nav' # Null
  BY <1>1, PutKeeps DEF IInv, LedgerInv, SnapshotInv
<1>3. nextRow' \in [Type -> 1..(MaxRows + 1)]
  BY <1>1 DEF IInv, TypeOK
<1> QED
  BY <1>1, <1>2, <1>3, RowsKeep

LEMMA DeleteDashboardKeeps ==
    ASSUME IInv, NEW d \in RowId, DeleteDashboard(d)
    PROVE  IInv'
<1> DEFINE grants == Grants(d)
           k == Cardinality(grants)
           pruned == [Nav EXCEPT !.refs = @ \ {d}]
           entry(t, i, action, after) == NewEntry(t, i, action, rows[t][i], after, nextEntry)
           new(s) == [n \in 1..(k + 2) |->
                        IF n = 1 THEN entry("dashboard", d, "delete", Null)
                        ELSE IF n = k + 2 THEN entry("org_settings", NavRow, "update", pruned)
                        ELSE entry("dashboard_permission", s[n - 1], "delete", Null)]
           kk == IF d \in Nav.refs THEN k + 2 ELSE k + 1
<1>1. PICK s \in Orders(grants) : Log(kk, new(s))
  BY DEF DeleteDashboard
<1>2. /\ grants \subseteq RowId /\ IsFiniteSet(grants)
      /\ \A g \in grants : rows["dashboard_permission"][g] # Null
  BY FiniteIds DEF Grants, Present, Exists
<1>3. k \in Nat /\ kk \in Nat /\ \A n \in 1..k : s[n] \in grants
  BY <1>2, Enumeration
<1>4. /\ rows' = [rows EXCEPT !["dashboard"] = [@ EXCEPT ![d] = Null],
                            !["dashboard_permission"] = [g \in RowId |-> IF g \in grants THEN Null ELSE @[g]],
                            !["org_settings"] = [@ EXCEPT ![NavRow] = pruned]]
      /\ UNCHANGED <<nextRow, req>>
  BY DEF DeleteDashboard
<1>5. rows["dashboard"][d] \in Row /\ \A g \in grants : rows["dashboard_permission"][g] \in Row
  BY <1>2, Loaded DEF DeleteDashboard, IInv, Exists, Type
<1>6. Nav \in Row /\ pruned \in Row
  <2>1. Nav \in Row
    BY Loaded, Values DEF IInv, LedgerInv, SnapshotInv, Nav, Type, Exists
  <2> QED
    BY <2>1 DEF Row
<1>7. nextEntry \in EntryId
  <2>1. kk >= 1 /\ nextEntry + kk <= MaxEntries + 1
    BY <1>1, <1>3 DEF Log, LogRoom
  <2> QED
    BY <2>1, <1>3, LedgerAssumption DEF IInv, TypeOK, EntryId
<1> HIDE DEF grants, pruned, k
<1>8. Null \in Snapshot /\ Row \subseteq Snapshot /\ {"delete", "update"} \subseteq Action
      /\ {"dashboard", "dashboard_permission", "org_settings"} \subseteq Type
  BY DEF Snapshot, Action, Type
<1>9. ASSUME NEW n \in 1..kk
      PROVE  Shaped(new(s)[n]) /\ new(s)[n].of = 0 /\ ~new(s)[n].reverted /\ ~new(s)[n].old
  <2>1. CASE n = 1
    <3>1. new(s)[n] = entry("dashboard", d, "delete", Null)
      BY <2>1, <1>3
    <3> QED
      BY <3>1, <1>5, <1>7, <1>8, Values, EntryType, SMTT(40) DEF Shaped
  <2>2. CASE n # 1 /\ n = k + 2
    <3>1. new(s)[n] = entry("org_settings", NavRow, "update", pruned)
      BY <2>2, <1>3
    <3>2. rows["org_settings"][NavRow] = Nav
      BY DEF Nav
    <3> QED
      BY <3>1, <3>2, <1>6, <1>7, <1>8, Values, EntryType, SMTT(40) DEF Shaped
  <2>3. CASE n # 1 /\ n # k + 2
    <3>1. n \in 1..(k + 2) /\ n - 1 \in 1..k
      BY <2>3, <1>3
    <3>2. new(s)[n] = entry("dashboard_permission", s[n - 1], "delete", Null)
      BY <2>3, <3>1
    <3>3. PICK g \in RowId : g = s[n - 1] /\ rows["dashboard_permission"][g] \in Row
      BY <3>1, <1>2, <1>3, <1>5
    <3>4. new(s)[n] = NewEntry("dashboard_permission", g, "delete", rows["dashboard_permission"][g],
                               Null, nextEntry)
      BY <3>2, <3>3
    <3>5. rows["dashboard_permission"][g] \in Snapshot /\ rows["dashboard_permission"][g] # Null
          /\ "dashboard_permission" \in Type /\ "delete" \in Action
      BY <3>3, <1>8, Values
    <3> DEFINE x == new(s)[n]
               before == rows["dashboard_permission"][g]
    <3> HIDE DEF before
    <3>6. /\ x \in Entry /\ x.of = 0 /\ ~x.reverted /\ ~x.old
          /\ x.type = "dashboard_permission" /\ x.action = "delete" /\ x.before = before
      BY <3>4, <3>5, <1>7, <1>8, EntryType DEF before
    <3> HIDE DEF x
    <3>7. Shaped(x) /\ x.of = 0 /\ ~x.reverted /\ ~x.old
      BY <3>5, <3>6 DEF Shaped, before
    <3> QED
      BY <3>7 DEF x
  <2> QED
    BY <2>1, <2>2, <2>3
<1>10. rows' \in [Table -> [RowId -> Snapshot]] /\ Nav' # Null
  <2>1. \A t \in Table : rows[t] \in [RowId -> Snapshot]
    BY DEF IInv, TypeOK
  <2>2. [rows["dashboard"] EXCEPT ![d] = Null] \in [RowId -> Snapshot]
    BY <2>1, <1>8
  <2>3. [g \in RowId |-> IF g \in grants THEN Null ELSE rows["dashboard_permission"][g]]
          \in [RowId -> Snapshot]
    BY <2>1, <1>8
  <2>4. [rows["org_settings"] EXCEPT ![NavRow] = pruned] \in [RowId -> Snapshot]
        /\ [rows["org_settings"] EXCEPT ![NavRow] = pruned][NavRow] = pruned
    BY <2>1, <1>6, <1>8, Values
  <2>5. rows' = [t \in Table |->
                   CASE t = "dashboard" -> [rows["dashboard"] EXCEPT ![d] = Null]
                     [] t = "dashboard_permission" ->
                          [g \in RowId |-> IF g \in grants THEN Null ELSE rows["dashboard_permission"][g]]
                     [] t = "org_settings" -> [rows["org_settings"] EXCEPT ![NavRow] = pruned]
                     [] OTHER -> rows[t]]
    BY <1>4, <1>8 DEF IInv, TypeOK
  <2>6. rows' \in [Table -> [RowId -> Snapshot]]
    BY <2>1, <2>2, <2>3, <2>4, <2>5
  <2>7. rows'["org_settings"] = [rows["org_settings"] EXCEPT ![NavRow] = pruned]
    BY <2>5, <1>8
  <2> QED
    BY <2>4, <2>6, <2>7, <1>6, Values DEF Nav
<1>11. nextRow' \in [Type -> 1..(MaxRows + 1)] /\ req' = req
  BY <1>4 DEF IInv, TypeOK
<1> HIDE DEF new, kk
<1> QED
  BY <1>1, <1>3, <1>9, <1>10, <1>11, CallerKeeps

-------------------------------------------------------------------------------
\* A request moves on by itself.
LEMMA RequestKeeps ==
    ASSUME IInv, NEW q \in Request, NEW r \in RequestState, req' = [req EXCEPT ![q] = r],
           UNCHANGED <<rows, nextRow, ledgerVars>>,
           r.op # "none" => \A e \in r.ids : e < nextEntry,
           r.op = "loaded" =>
              \A e \in r.ids \cap Logged : ledger[e].action = "update" => r.seen[e] # Null
    PROVE  IInv'
<1>1. /\ ledger' = ledger /\ nextEntry' = nextEntry /\ rows' = rows /\ nextRow' = nextRow
      /\ Logged' = Logged /\ Nav' = Nav
  BY DEF ledgerVars, Logged, Nav
<1>2. \A p \in Request : req'[p] = IF p = q THEN r ELSE req[p]
  BY DEF IInv, TypeOK
<1>3. TypeOK'
  BY <1>1 DEF IInv, TypeOK
<1>4. SnapshotInv'
  BY <1>1, <1>2 DEF IInv, LedgerInv, SnapshotInv
<1>5. HistoryInv' /\ StampInv'
  BY <1>1 DEF IInv, LedgerInv, HistoryInv, StampInv
<1> QED
  BY <1>3, <1>4, <1>5 DEF IInv, LedgerInv

LEMMA RevertReadKeeps ==
    ASSUME IInv, NEW q \in Request, NEW e \in Logged, NEW ids \in Reverts(e), NEW force \in BOOLEAN,
           RevertRead(q, ids, force)
    PROVE  IInv'
<1> DEFINE r == [op |-> "read", ids |-> ids, force |-> force]
<1>1. ids \subseteq Logged /\ ids \subseteq EntryId
  BY DEF Reverts, Pending, Group, Logged
<1>2. r \in RequestState /\ r.op = "read" /\ r.ids = ids
  BY <1>1 DEF RequestState
<1>3. \A f \in ids : f < nextEntry
  BY <1>1 DEF IInv, LedgerInv, HistoryInv
<1>4. req' = [req EXCEPT ![q] = r] /\ UNCHANGED <<rows, nextRow, ledgerVars>>
  BY DEF RevertRead
<1> HIDE DEF r
<1> QED
  BY <1>2, <1>3, <1>4, RequestKeeps

LEMMA RevertLoadKeeps ==
    ASSUME IInv, NEW q \in Request, RevertLoad(q)
    PROVE  IInv'
<1> DEFINE ids == req[q].ids
           seen == [e \in EntryId |-> IF e \in ids /\ e \in Logged THEN Target(e) ELSE Null]
           r == [op |-> "loaded", ids |-> ids, seen |-> seen]
<1>1. req[q] \in RequestState /\ req[q].op = "read" /\ UNCHANGED <<rows, nextRow, ledgerVars>>
  BY DEF IInv, TypeOK, RevertLoad
<1>2. CASE \E e \in ids \cap Logged : Conflict(e, seen, req[q].force)
  <2>1. req' = [req EXCEPT ![q] = Idle]
    BY <1>2 DEF RevertLoad, Answer
  <2> QED
    BY <2>1, <1>1, Values, RequestKeeps DEF Idle
<1>3. CASE \A e \in ids \cap Logged : ~Conflict(e, seen, req[q].force)
  <2>1. req' = [req EXCEPT ![q] = r]
    BY <1>3 DEF RevertLoad
  <2>2. ids \in SUBSET EntryId /\ \A e \in ids : e < nextEntry
    BY <1>1 DEF RequestState, IInv, LedgerInv, SnapshotInv
  <2>3. seen \in [EntryId -> Snapshot]
    <3>1. ASSUME NEW e \in Logged PROVE Target(e) \in Snapshot
      BY Loaded DEF Target, IInv, TypeOK, Entry, Snapshot
    <3> QED
      BY <3>1 DEF Snapshot
  <2>4. r \in RequestState
    BY <2>2, <2>3 DEF RequestState
  <2>5. \A e \in ids \cap Logged : ledger[e].action = "update" => seen[e] # Null
    BY <1>3 DEF Conflict
  <2>6. r.op = "loaded" /\ r.ids = ids /\ r.seen = seen
    OBVIOUS
  <2> HIDE DEF r, seen
  <2> QED
    BY <2>1, <2>2, <2>4, <2>5, <2>6, <1>1, RequestKeeps
<1> QED
  BY <1>2, <1>3

-------------------------------------------------------------------------------
\* Retention.
LEMMA AgeOutKeeps ==
    ASSUME IInv, NEW a \in EntryId, AgeOut(a)
    PROVE  IInv'
<1>1. a \in Logged /\ ledger[a] \in Entry /\ \A e \in Logged : ledger[e] \in Entry
  BY Loaded DEF AgeOut, IInv
<1>2. [ledger[a] EXCEPT !.old = TRUE] \in Entry
  BY <1>1 DEF Entry
<1>3. ledger' = [ledger EXCEPT ![a] = [ledger[a] EXCEPT !.old = TRUE]]
      /\ UNCHANGED <<rows, nextRow, nextEntry, req>>
      /\ \A f \in Logged : f < a => ledger[f].old
  BY DEF AgeOut
<1>4. ledger' \in [EntryId -> Entry \cup {Null}]
  BY <1>2, <1>3 DEF IInv, TypeOK
<1>5. Logged' = Logged
  BY <1>1, <1>2, <1>3, Values DEF Logged, IInv, TypeOK
<1>6. \A e \in Logged :
         /\ ledger'[e].of = ledger[e].of /\ ledger'[e].reverted = ledger[e].reverted
         /\ ledger'[e].action = ledger[e].action /\ ledger'[e].type = ledger[e].type
         /\ ledger'[e].rid = ledger[e].rid
         /\ ledger'[e].before = ledger[e].before /\ ledger'[e].after = ledger[e].after
         /\ e # a => ledger'[e].old = ledger[e].old
         /\ e = a => ledger'[e].old
  <2> TAKE e \in Logged
  <2>1. CASE e = a
    <3>1. ledger'[e] = [ledger[a] EXCEPT !.old = TRUE]
      BY <2>1, <1>1, <1>3 DEF IInv, TypeOK, Logged
    <3> QED
      BY <2>1, <3>1, <1>1 DEF Entry
  <2>2. CASE e # a
    BY <2>2, <1>3 DEF IInv, TypeOK, Logged
  <2> QED
    BY <2>1, <2>2
<1>7. TypeOK'
  BY <1>3, <1>4 DEF IInv, TypeOK
<1>8. HistoryInv'
  <2>1. \A e \in Logged' : /\ e < nextEntry' /\ ledger'[e].of < e
                           /\ ledger'[e].of # 0 => ledger'[e].of \in Logged'
    BY <1>3, <1>5, <1>6 DEF IInv, LedgerInv, HistoryInv
  <2>2. ASSUME NEW e \in Logged', NEW f \in Logged', e < f, ledger'[f].old
        PROVE  ledger'[e].old
    <3>1. CASE f = a
      BY <3>1, <2>2, <1>3, <1>5, <1>6
    <3>2. CASE f # a
      BY <3>2, <2>2, <1>5, <1>6 DEF IInv, LedgerInv, HistoryInv
    <3> QED
      BY <3>1, <3>2
  <2> QED
    BY <2>1, <2>2 DEF HistoryInv
<1>9. StampInv'
  BY <1>5, <1>6 DEF IInv, LedgerInv, StampInv
<1>10. SnapshotInv'
  BY <1>3, <1>5, <1>6 DEF IInv, LedgerInv, SnapshotInv, Nav
<1> QED
  BY <1>7, <1>8, <1>9, <1>10 DEF IInv, LedgerInv

LEMMA PurgeKeeps ==
    ASSUME IInv, Purge
    PROVE  IInv'
<1>1. UNCHANGED <<rows, nextRow, nextEntry, req>>
  BY DEF Purge
<1>2. CASE PurgeBlocked
  <2>1. ledger' = ledger
    BY <1>2 DEF Purge
  <2>2. UNCHANGED <<rows, nextRow, ledgerVars, req>>
    BY <2>1, <1>1 DEF ledgerVars
  <2> QED
    BY <2>2, RowsKeep DEF IInv, TypeOK, LedgerInv, SnapshotInv, Nav
<1>3. CASE ~PurgeBlocked
  <2>1. ledger' = [e \in EntryId |-> IF e \in Old THEN Null ELSE ledger[e]]
    BY <1>3 DEF Purge
  <2>2. Logged' = Logged \ Old /\ \A e \in Logged' : ledger'[e] = ledger[e]
    BY <2>1 DEF Logged
  <2>3. \A e \in Logged' : ledger[e].of \notin Old
    BY <2>2, <1>3 DEF PurgeBlocked
  <2>4. TypeOK'
    BY <2>1, <1>1 DEF IInv, TypeOK
  <2>5. HistoryInv'
    BY <1>1, <2>2, <2>3 DEF IInv, LedgerInv, HistoryInv
  <2>6. StampInv'
    <3> SUFFICES ASSUME NEW e \in Logged'
                 PROVE  ledger[e].reverted <=> \E f \in Logged' : ledger[f].of = e
      BY <2>2 DEF StampInv
    <3>1. ASSUME NEW f \in Logged, ledger[f].of = e PROVE f \in Logged'
      \* The inverse is younger than what it undid.
      <4>1. e < f /\ e \in Logged /\ e \notin Old
        BY <3>1, <2>2 DEF IInv, LedgerInv, HistoryInv
      <4>2. ~ledger[f].old
        BY <4>1, <3>1 DEF IInv, LedgerInv, HistoryInv, Old
      <4> QED
        BY <4>2, <3>1, <2>2 DEF Old
    <3> QED
      BY <3>1, <2>2 DEF IInv, LedgerInv, StampInv
  <2>7. SnapshotInv'
    BY <1>1, <2>2 DEF IInv, LedgerInv, SnapshotInv, Nav
  <2> QED
    BY <2>4, <2>5, <2>6, <2>7 DEF IInv, LedgerInv
<1> QED
  BY <1>2, <1>3

-------------------------------------------------------------------------------
\* The entries a revert undoes are stamped and their inverses appended.
LEMMA RecordKeeps ==
    ASSUME TypeOK, HistoryInv, StampInv, \A e \in Logged : Shaped(ledger[e]),
           NEW n \in Nat, NEW s, DOMAIN s = 1..n, \A i \in 1..n : s[i] \in Logged,
           nextEntry + n <= MaxEntries + 1,
           NEW seen, Record(s, seen),
           \A i \in 1..n : /\ Shaped(InverseOf(s, i, seen)) /\ InverseOf(s, i, seen).of = s[i]
                           /\ ~InverseOf(s, i, seen).reverted /\ ~InverseOf(s, i, seen).old
    PROVE  /\ ledger' \in [EntryId -> Entry \cup {Null}]
           /\ nextEntry' \in 1..(MaxEntries + 1) /\ nextEntry' = nextEntry + n
           /\ HistoryInv' /\ StampInv'
           /\ \A e \in Logged' : Shaped(ledger'[e])
           /\ \A e \in Logged : /\ e \in Logged' /\ ledger'[e].action = ledger[e].action
                                /\ ledger'[e].of = ledger[e].of
                                /\ (\A i \in 1..n : s[i] # e) => ledger'[e] = ledger[e]
           /\ \A e \in Logged' \ Logged :
                 /\ e >= nextEntry /\ ~ledger'[e].reverted
                 /\ e - nextEntry + 1 \in 1..n /\ ledger'[e].of = s[e - nextEntry + 1]
<1> DEFINE fresh == nextEntry..(nextEntry + n - 1)
           undone == {s[i] : i \in 1..n}
<1>1. nextEntry \in Nat \ {0} /\ MaxEntries \in Nat
  BY LedgerAssumption DEF TypeOK
<1>2. Cardinality(DOMAIN s) = n
  BY FS_Interval
<1>3. nextEntry' = nextEntry + n
  BY <1>2 DEF Record
<1>4. \A e \in EntryId : ledger'[e] = IF e \in fresh THEN InverseOf(s, e - nextEntry + 1, seen)
                                      ELSE IF e \in undone THEN [ledger[e] EXCEPT !.reverted = TRUE]
                                      ELSE ledger[e]
  <2>1. \A e \in EntryId : (\E i \in DOMAIN s : s[i] = e) <=> e \in undone
    OBVIOUS
  <2>2. ledger' = [e \in EntryId |->
          IF e \in nextEntry..(nextEntry + Cardinality(DOMAIN s) - 1)
            THEN InverseOf(s, e - nextEntry + 1, seen)
          ELSE IF \E i \in DOMAIN s : s[i] = e THEN [ledger[e] EXCEPT !.reverted = TRUE]
          ELSE ledger[e]]
    BY DEF Record
  <2> HIDE DEF undone
  <2> TAKE e \in EntryId
  <2>3. ledger'[e] = IF e \in nextEntry..(nextEntry + Cardinality(DOMAIN s) - 1)
            THEN InverseOf(s, e - nextEntry + 1, seen)
          ELSE IF \E i \in DOMAIN s : s[i] = e THEN [ledger[e] EXCEPT !.reverted = TRUE]
          ELSE ledger[e]
    BY <2>2
  <2> QED
    BY <2>1, <2>3, <1>2
<1>5. /\ fresh \subseteq EntryId
      /\ \A e \in fresh : e >= nextEntry /\ e < nextEntry' /\ e - nextEntry + 1 \in 1..n
  <2>1. n \in Nat /\ nextEntry + n <= MaxEntries + 1
    OBVIOUS
  <2>2. ASSUME NEW e \in fresh PROVE e \in EntryId /\ e >= nextEntry /\ e < nextEntry + n
    BY <2>1, <2>2, <1>1 DEF EntryId
  <2>3. ASSUME NEW e \in fresh PROVE e - nextEntry + 1 \in 1..n
    BY <2>1, <2>3, <1>1
  <2> QED
    BY <2>2, <2>3, <1>3
<1>6. \A i \in 1..n : nextEntry + i - 1 \in fresh /\ (nextEntry + i - 1) - nextEntry + 1 = i
  BY <1>1
<1>7. \A e \in Logged : e \notin fresh /\ e < nextEntry /\ e \in EntryId /\ e \in Nat
  BY <1>1 DEF HistoryInv, Logged, EntryId
<1> HIDE DEF fresh
<1>8. \A e \in fresh : /\ Shaped(ledger'[e]) /\ ledger'[e].of = s[e - nextEntry + 1]
                       /\ ~ledger'[e].reverted /\ ~ledger'[e].old
  <2> TAKE e \in fresh
  <2>1. PICK i \in 1..n : i = e - nextEntry + 1
    BY <1>5
  <2>2. ledger'[e] = InverseOf(s, i, seen)
    BY <2>1, <1>4, <1>5
  <2> QED
    BY <2>1, <2>2
<1>9. undone \subseteq Logged
  OBVIOUS
<1> HIDE DEF undone
<1>10. \A e \in undone : ledger'[e] = [ledger[e] EXCEPT !.reverted = TRUE]
  BY <1>4, <1>7, <1>9
<1>11. \A e \in EntryId \ (fresh \cup undone) : ledger'[e] = ledger[e]
  BY <1>4
<1>12. \A e \in Logged :
         /\ Shaped(ledger'[e])
         /\ ledger'[e].action = ledger[e].action /\ ledger'[e].of = ledger[e].of
         /\ ledger'[e].old = ledger[e].old
         /\ ledger'[e].reverted <=> e \in undone \/ ledger[e].reverted
         /\ e \notin undone => ledger'[e] = ledger[e]
  <2> TAKE e \in Logged
  <2>1. CASE e \in undone
    <3>1. ledger[e] \in Entry
      BY DEF Shaped
    <3>2. ledger'[e] = [ledger[e] EXCEPT !.reverted = TRUE]
      BY <2>1, <1>10
    <3>3. /\ ledger'[e] \in Entry /\ ledger'[e].reverted
          /\ ledger'[e].action = ledger[e].action /\ ledger'[e].of = ledger[e].of
          /\ ledger'[e].old = ledger[e].old /\ ledger'[e].type = ledger[e].type
          /\ ledger'[e].rid = ledger[e].rid /\ ledger'[e].before = ledger[e].before
          /\ ledger'[e].after = ledger[e].after
      BY <3>1, <3>2 DEF Entry
    <3> QED
      BY <2>1, <3>3 DEF Shaped
  <2>2. CASE e \notin undone
    BY <2>2, <1>7, <1>11
  <2> QED
    BY <2>1, <2>2
<1>13. Logged' = Logged \cup fresh
  <2>1. \A e \in Logged \cup fresh : ledger'[e] # Null
    BY <1>8, <1>12, Values DEF Shaped
  <2>2. \A e \in EntryId \ (Logged \cup fresh) : ledger'[e] = Null
    BY <1>9, <1>11 DEF Logged
  <2> QED
    BY <2>1, <2>2, <1>5, <1>7 DEF Logged
<1>14. ledger' \in [EntryId -> Entry \cup {Null}]
  <2>1. ledger' = [e \in EntryId |-> ledger'[e]]
    BY DEF Record
  <2>2. \A e \in EntryId : ledger'[e] \in Entry \cup {Null}
    BY <1>8, <1>9, <1>11, <1>12 DEF Shaped, TypeOK
  <2> QED
    BY <2>1, <2>2
<1>15. nextEntry' \in 1..(MaxEntries + 1)
  BY <1>1, <1>3
<1>16. \A e \in fresh : ledger'[e].of \in Logged /\ ledger'[e].of < e /\ ledger'[e].of \in undone
  <2> TAKE e \in fresh
  <2>1. ledger'[e].of \in Logged /\ ledger'[e].of \in undone
    BY <1>5, <1>8 DEF undone
  <2> QED
    BY <2>1, <1>1, <1>5, <1>7 DEF EntryId
<1>17. HistoryInv'
  <2>1. \A e \in Logged' : /\ e < nextEntry' /\ ledger'[e].of < e
                           /\ ledger'[e].of # 0 => ledger'[e].of \in Logged'
    <3>1. \A e \in Logged : e < nextEntry'
      BY <1>1, <1>3, <1>7
    <3>2. \A e \in Logged : /\ ledger'[e].of < e
                            /\ ledger'[e].of # 0 => ledger'[e].of \in Logged'
      BY <1>12, <1>13 DEF HistoryInv
    <3> QED
      BY <3>1, <3>2, <1>5, <1>13, <1>16
  <2>2. ASSUME NEW e \in Logged', NEW f \in Logged', e < f, ledger'[f].old
        PROVE  ledger'[e].old
    <3>1. f \in Logged /\ f < nextEntry /\ f \in Nat
      BY <2>2, <1>7, <1>8, <1>13
    <3>2. e \in EntryId
      BY <1>5, <1>7, <1>13
    <3>3. ~(e >= nextEntry)
      BY <3>1, <3>2, <2>2, <1>1 DEF EntryId
    <3>4. e \in Logged
      BY <3>3, <1>5, <1>13
    <3> QED
      BY <3>1, <3>4, <2>2, <1>12 DEF HistoryInv
  <2> QED
    BY <2>1, <2>2 DEF HistoryInv
<1>18. StampInv'
  <2> SUFFICES ASSUME NEW e \in Logged'
               PROVE  ledger'[e].reverted <=> \E f \in Logged' : ledger'[f].of = e
    BY DEF StampInv
  <2>1. CASE e \in fresh
    <3>1. ~ledger'[e].reverted /\ e >= nextEntry /\ e \in Nat
      BY <2>1, <1>5, <1>8 DEF EntryId
    <3>2. \A f \in Logged : ledger'[f].of # e
      <4> SUFFICES ASSUME NEW f \in Logged, ledger[f].of = e PROVE FALSE
        BY <1>12
      <4>1. e < f /\ f < nextEntry /\ f \in Nat
        BY <1>7 DEF HistoryInv
      <4> QED
        BY <4>1, <3>1, <1>1
    <3>3. \A f \in fresh : ledger'[f].of # e
      BY <2>1, <1>7, <1>16
    <3> QED
      BY <3>1, <3>2, <3>3, <1>13
  <2>2. CASE e \in undone
    <3>1. PICK i \in 1..n : s[i] = e
      BY <2>2 DEF undone
    <3>2. ledger'[nextEntry + i - 1].of = e /\ nextEntry + i - 1 \in Logged'
      BY <3>1, <1>6, <1>8, <1>13
    <3> QED
      BY <3>2, <2>2, <1>9, <1>12
  <2>3. CASE e \in Logged \ undone
    <3>1. \A f \in fresh : ledger'[f].of # e
      BY <2>3, <1>16
    <3>2. ledger[e].reverted <=> \E f \in Logged : ledger[f].of = e
      BY <2>3 DEF StampInv
    <3> QED
      BY <2>3, <3>1, <3>2, <1>12, <1>13
  <2> QED
    BY <2>1, <2>2, <2>3, <1>13
<1>19. \A e \in Logged' \ Logged :
          /\ e >= nextEntry /\ ~ledger'[e].reverted
          /\ e - nextEntry + 1 \in 1..n /\ ledger'[e].of = s[e - nextEntry + 1]
  BY <1>5, <1>8, <1>13
<1>20. \A e \in Logged : /\ e \in Logged' /\ ledger'[e].action = ledger[e].action
                         /\ ledger'[e].of = ledger[e].of
                         /\ (\A i \in 1..n : s[i] # e) => ledger'[e] = ledger[e]
  BY <1>12, <1>13 DEF undone
<1> QED
  BY <1>3, <1>8, <1>12, <1>13, <1>14, <1>15, <1>17, <1>18, <1>19, <1>20

-------------------------------------------------------------------------------
(***************************************************************************)
(* The commit of a revert.                                                 *)
(***************************************************************************)
Undoing(q, s) ==
    /\ req[q].op = "loaded"
    /\ req[q].ids \subseteq Logged
    /\ LogRoom(Cardinality(req[q].ids))
    /\ s \in InOrder(req[q].ids)
    /\ Commits(s, req[q].seen)

LEMMA UndoingFacts ==
    ASSUME IInv, NEW q \in Request, NEW s, Undoing(q, s)
    PROVE  LET n == Cardinality(req[q].ids) IN
           /\ n \in Nat /\ DOMAIN s = 1..n /\ Cardinality(DOMAIN s) = n
           /\ IsFiniteSet(DOMAIN s)
           /\ \A i \in 1..n : s[i] \in req[q].ids /\ s[i] \in Logged /\ ledger[s[i]] \in Entry
           /\ nextEntry + n <= MaxEntries + 1
           /\ req[q].seen \in [EntryId -> Snapshot]
<1>1. IsFiniteSet(req[q].ids)
  BY FiniteIds DEF Undoing, Logged
<1>2. s \in Orders(req[q].ids)
  BY DEF Undoing, InOrder
<1>3. \A i \in DOMAIN s : s[i] \in req[q].ids /\ s[i] \in Logged /\ ledger[s[i]] \in Entry
  BY <1>1, <1>2, Enumeration, Loaded DEF Undoing, IInv
<1>4. req[q].seen \in [EntryId -> Snapshot]
  BY DEF Undoing, IInv, TypeOK, RequestState
<1> QED
  BY <1>1, <1>2, <1>3, <1>4, Enumeration DEF Undoing, LogRoom

\* No entry comes twice in the order of a revert.
LEMMA InOrderInjective ==
    ASSUME IInv, NEW q \in Request, NEW s, Undoing(q, s),
           NEW i \in DOMAIN s, NEW j \in DOMAIN s, s[i] = s[j]
    PROVE  i = j
<1>1. i \in Nat /\ j \in Nat /\ s[i] \in Logged /\ ledger[s[i]].action \in Action
  BY UndoingFacts DEF Entry
<1>2. ~Before(s[i], s[i])
  BY <1>1 DEF Before, Action, Logged, EntryId
<1>3. ~(i < j) /\ ~(j < i)
  BY <1>2 DEF Undoing, InOrder
<1> QED
  BY <1>1, <1>3

\* The id a restored row gets is within the table's.
LEMMA NewIdType ==
    ASSUME IInv, NEW q \in Request, NEW s, Undoing(q, s), NEW i \in Deletes(s)
    PROVE  NewId(s, i) \in RowId
<1> DEFINE t == ledger[s[i]].type
           all == {j \in Deletes(s) : ledger[s[j]].type = t}
           earlier == {j \in Deletes(s) : j < i /\ ledger[s[j]].type = t}
<1>1. t \in Type /\ i \in Nat /\ Deletes(s) \subseteq DOMAIN s
  BY UndoingFacts DEF Deletes, Entry
<1>2. IsFiniteSet(all)
  BY <1>1, UndoingFacts, FS_Subset
<1>3. earlier \subseteq all /\ i \in all /\ i \notin earlier
  BY <1>1
<1>4. Cardinality(earlier) \in Nat /\ Cardinality(all) \in Nat
      /\ Cardinality(earlier) < Cardinality(all)
  <2>1. IsFiniteSet(earlier) /\ Cardinality(earlier) <= Cardinality(all)
        /\ (Cardinality(earlier) = Cardinality(all) => earlier = all)
    BY <1>2, <1>3, FS_Subset
  <2>2. Cardinality(earlier) \in Nat /\ Cardinality(all) \in Nat
    BY <2>1, <1>2, FS_CardinalityType
  <2> HIDE DEF earlier, all
  <2> QED
    BY <2>1, <2>2, <1>3
<1>5. Restorations(s, t) = Cardinality(all)
  BY DEF Restorations
<1>6. nextRow[t] + Cardinality(all) <= MaxRows + 1 /\ nextRow[t] \in Nat \ {0}
  BY <1>1, <1>5, LedgerAssumption DEF Undoing, Commits, Room, IInv, TypeOK
<1>7. NewId(s, i) = nextRow[t] + Cardinality(earlier)
  BY DEF NewId
<1> HIDE DEF all, earlier, t
<1> QED
  BY <1>4, <1>6, <1>7, LedgerAssumption DEF RowId

LEMMA RemapType ==
    ASSUME IInv, NEW q \in Request, NEW s, Undoing(q, s), NEW n, NEW refs \in SUBSET RowId
    PROVE  Remap(s, n, refs) \subseteq RowId
  BY NewIdType DEF Remap

\* What a deletion or an update leaves behind is a row again once undone.
LEMMA RecreatedType ==
    ASSUME IInv, NEW q \in Request, NEW s, Undoing(q, s), NEW i \in Deletes(s)
    PROVE  Recreated(s, i) \in Row
<1> DEFINE e == ledger[s[i]]
<1>1. i \in DOMAIN s /\ s[i] \in Logged /\ e \in Entry /\ e.action = "delete"
  BY UndoingFacts DEF Deletes
<1>2. e.before \in Row
  BY <1>1 DEF IInv, LedgerInv, SnapshotInv, Entry, Snapshot
<1>3. Remap(s, i - 1, e.before.refs) \in SUBSET RowId
  BY <1>2, RemapType DEF Row
<1>4. [e.before EXCEPT !.refs = Remap(s, i - 1, @)] \in Row
  BY <1>2, <1>3 DEF Row
<1> QED
  BY <1>2, <1>4 DEF Recreated

LEMMA RestoredType ==
    ASSUME IInv, NEW q \in Request, NEW s, Undoing(q, s), NEW i \in DOMAIN s,
           ledger[s[i]].action = "update", rows[ledger[s[i]].type][ledger[s[i]].rid] # Null, NEW seen
    PROVE  Restored(s, i, seen) \in Row
<1> DEFINE e == ledger[s[i]]
           now == rows[e.type][e.rid]
           refs == IF e.type = "org_settings" THEN Remap(s, Cardinality(DOMAIN s), e.before.refs)
                   ELSE e.before.refs
<1>1. s[i] \in Logged /\ e \in Entry /\ e.action = "update"
  BY UndoingFacts
<1>2. e.before \in Row
  BY <1>1 DEF IInv, LedgerInv, SnapshotInv, Entry, Snapshot
<1>3. now \in Row
  BY <1>1, Loaded DEF Entry, Exists, IInv
<1>4. refs \in SUBSET RowId
  BY <1>2, RemapType DEF Row
<1>5. Restored(s, i, seen) =
        [slug |-> IF seen.slug = e.before.slug THEN now.slug ELSE e.before.slug,
         value |-> IF seen.value = e.before.value THEN now.value ELSE e.before.value,
         refs |-> IF seen.refs = e.before.refs /\ refs = e.before.refs THEN now.refs ELSE refs,
         who |-> IF seen.who = e.before.who THEN now.who ELSE e.before.who,
         conn |-> IF seen.conn = e.before.conn THEN now.conn ELSE e.before.conn,
         runs |-> IF seen.runs = e.before.runs THEN now.runs ELSE e.before.runs]
  BY DEF Restored
<1> HIDE DEF e, now, refs
<1> QED
  BY <1>2, <1>3, <1>4, <1>5 DEF Row

LEMMA UndoneType ==
    ASSUME IInv, NEW q \in Request, NEW s, Undoing(q, s)
    PROVE  /\ Undone(s, req[q].seen) \in [Table -> [RowId -> Snapshot]]
           /\ Undone(s, req[q].seen)["org_settings"][NavRow] # Null
<1> DEFINE seen == req[q].seen
           taken == {i \in DOMAIN s : ledger[s[i]].action = "create" /\ seen[s[i]] # Null}
           updated == {i \in DOMAIN s : ledger[s[i]].action = "update"}
           gone(t, r) ==
             \E i \in taken :
               \/ ledger[s[i]].type = t /\ ledger[s[i]].rid = r
               \/ /\ t = "dashboard_permission" /\ ledger[s[i]].type = "dashboard"
                  /\ r \in Grants(ledger[s[i]].rid)
           at(S, t, r) == {i \in S : ledger[s[i]].type = t /\ ledger[s[i]].rid = r}
           new(t, r) == {i \in Deletes(s) : ledger[s[i]].type = t /\ NewId(s, i) = r}
           restored(t, r) == Restored(s, CHOOSE j \in at(updated, t, r) : TRUE,
                                      seen[s[CHOOSE j \in at(updated, t, r) : TRUE]])
           recreated(t, r) == Recreated(s, CHOOSE j \in new(t, r) : TRUE)
           row(t, r) ==
             IF gone(t, r) THEN Null
             ELSE IF at(updated, t, r) # {} /\ rows[t][r] # Null THEN restored(t, r)
             ELSE IF new(t, r) # {} THEN recreated(t, r)
             ELSE rows[t][r]
<1>1. Undone(s, seen) = [t \in Table |-> [r \in RowId |-> row(t, r)]]
  BY DEF Undone
<1>2. ASSUME NEW t \in Table, NEW r \in RowId, at(updated, t, r) # {}, rows[t][r] # Null
      PROVE  restored(t, r) \in Row
  <2> DEFINE i == CHOOSE j \in at(updated, t, r) : TRUE
  <2>1. i \in at(updated, t, r)
    BY <1>2
  <2>2. /\ i \in DOMAIN s /\ ledger[s[i]].action = "update"
        /\ ledger[s[i]].type = t /\ ledger[s[i]].rid = r
    BY <2>1
  <2> HIDE DEF i
  <2>3. Restored(s, i, seen[s[i]]) \in Row
    BY <2>2, <1>2, RestoredType
  <2> QED
    BY <2>3 DEF i
<1>3. ASSUME NEW t \in Table, NEW r \in RowId, new(t, r) # {}
      PROVE  recreated(t, r) \in Row
  <2>1. (CHOOSE j \in new(t, r) : TRUE) \in Deletes(s)
    BY <1>3
  <2> QED
    BY <2>1, RecreatedType
<1>4. \A t \in Table, r \in RowId : rows[t][r] \in Snapshot
  BY DEF IInv, TypeOK
<1>5. \A i \in DOMAIN s : ledger[s[i]].type = "org_settings" => ledger[s[i]].action = "update"
  BY UndoingFacts DEF IInv, LedgerInv, SnapshotInv
<1>6. ~gone("org_settings", NavRow) /\ new("org_settings", NavRow) = {}
  BY <1>5 DEF Deletes
<1>7. "org_settings" \in Type /\ NavRow \in RowId /\ rows["org_settings"][NavRow] # Null
  BY Values DEF Type, IInv, LedgerInv, SnapshotInv, Nav
<1> HIDE DEF gone, at, new, restored, recreated, updated
<1>8. \A t \in Table, r \in RowId : row(t, r) \in Snapshot
  BY <1>2, <1>3, <1>4 DEF Snapshot
<1>9. row("org_settings", NavRow) # Null
  BY <1>2, <1>6, <1>7, Values
<1> HIDE DEF row
<1> QED
  BY <1>1, <1>7, <1>8, <1>9

LEMMA InverseShaped ==
    ASSUME IInv, NEW q \in Request, NEW s, Undoing(q, s), NEW i \in DOMAIN s
    PROVE  LET x == InverseOf(s, i, req[q].seen) IN
           Shaped(x) /\ x.of = s[i] /\ ~x.reverted /\ ~x.old
<1> DEFINE seen == req[q].seen
           id == s[i]
           e == ledger[id]
           inverse(action, before, after, rid) ==
             [NewEntry(e.type, rid, action, before, after, e.group) EXCEPT !.of = id]
           x == InverseOf(s, i, seen)
<1>1. id \in Logged /\ id \in EntryId /\ id \in req[q].ids /\ e \in Entry
      /\ seen \in [EntryId -> Snapshot]
  BY UndoingFacts DEF Logged
<1>2. /\ e.action # "create" => e.before # Null
      /\ e.action # "delete" => e.after # Null
      /\ e.type = "org_settings" => e.action = "update" /\ e.rid = NavRow
      /\ e.action = "update" => seen[id] # Null
  BY <1>1 DEF Undoing, IInv, LedgerInv, SnapshotInv
<1>3. e.action \in Action /\ e.type \in Type /\ e.rid \in RowId /\ e.group \in EntryId
      /\ e.before \in Snapshot /\ e.after \in Snapshot /\ seen[id] \in Snapshot
      /\ Null \in Snapshot
  BY <1>1 DEF Entry, Snapshot
<1>4. ASSUME NEW a \in Action, NEW b \in Snapshot, NEW c \in Snapshot, NEW rid \in RowId,
             a # "create" => b # Null, a # "delete" => c # Null,
             e.type = "org_settings" => a = "update" /\ rid = NavRow
      PROVE  LET y == inverse(a, b, c, rid) IN
             Shaped(y) /\ y.of = id /\ ~y.reverted /\ ~y.old
  <2> DEFINE y == inverse(a, b, c, rid)
             z == NewEntry(e.type, rid, a, b, c, e.group)
  <2> HIDE DEF e, id
  <2>1. /\ z \in Entry /\ ~z.reverted /\ ~z.old /\ z.type = e.type /\ z.rid = rid
        /\ z.action = a /\ z.before = b /\ z.after = c
    BY <1>3, <1>4, EntryType
  <2>2. y = [z EXCEPT !.of = id]
    OBVIOUS
  <2> HIDE DEF z, y
  <2>3. /\ y \in Entry /\ y.of = id /\ ~y.reverted /\ ~y.old /\ y.type = e.type /\ y.rid = rid
        /\ y.action = a /\ y.before = b /\ y.after = c
    BY <2>1, <2>2, <1>1 DEF Entry
  <2>4. Shaped(y)
    BY <2>3, <1>4 DEF Shaped
  <2> QED
    BY <2>3, <2>4 DEF y, z
<1>5. CASE e.action = "create"
  <2> DEFINE b == IF seen[id] = Null THEN e.after ELSE seen[id]
  <2>1. x = inverse("delete", b, Null, e.rid)
    BY <1>5 DEF InverseOf
  <2>2. b \in Snapshot /\ b # Null /\ "delete" \in Action /\ e.type # "org_settings"
    BY <1>2, <1>3, <1>5 DEF Action
  <2> HIDE DEF b, inverse, x, e, seen
  <2> QED
    BY <2>1, <2>2, <1>3, <1>4 DEF x, seen
<1>6. CASE e.action = "update"
  <2>1. x = inverse("update", seen[id], e.before, e.rid)
    BY <1>6 DEF InverseOf
  <2>2. seen[id] # Null /\ e.before # Null /\ "update" \in Action
    BY <1>2, <1>6 DEF Action
  <2> HIDE DEF inverse, x, e, seen
  <2> QED
    BY <2>1, <2>2, <1>2, <1>3, <1>4 DEF x, seen
<1>7. CASE e.action = "delete"
  <2>1. x = inverse("create", Null, Recreated(s, i), NewId(s, i))
    BY <1>7 DEF InverseOf
  <2>2. i \in Deletes(s)
    BY <1>7 DEF Deletes
  <2>3. Recreated(s, i) \in Snapshot /\ Recreated(s, i) # Null /\ NewId(s, i) \in RowId
        /\ "create" \in Action /\ e.type # "org_settings"
    BY <2>2, <1>2, <1>7, RecreatedType, NewIdType, Values DEF Snapshot, Action
  <2> HIDE DEF inverse, x, e, seen
  <2> QED
    BY <2>1, <2>3, <1>3, <1>4 DEF x, seen
<1> QED
  BY <1>3, <1>5, <1>6, <1>7 DEF Action

\* What a committed revert does to the ledger, and that it keeps the invariant.
LEMMA CommitKeeps ==
    ASSUME IInv, NEW q \in Request, NEW s, Undoing(q, s),
           rows' = Undone(s, req[q].seen),
           nextRow' = [t \in Type |-> nextRow[t] + Restorations(s, t)],
           Record(s, req[q].seen), req' = [req EXCEPT ![q] = Idle]
    PROVE  /\ IInv'
           /\ \A e \in Logged : /\ e \in Logged' /\ ledger'[e].of = ledger[e].of
                                /\ e \notin req[q].ids => ledger'[e] = ledger[e]
           /\ \A e \in Logged' \ Logged :
                 /\ e - nextEntry + 1 \in DOMAIN s /\ ledger'[e].of = s[e - nextEntry + 1]
                 /\ e >= nextEntry
<1> DEFINE n == Cardinality(req[q].ids)
           seen == req[q].seen
<1>1. /\ n \in Nat /\ DOMAIN s = 1..n /\ \A i \in 1..n : s[i] \in Logged /\ s[i] \in req[q].ids
      /\ nextEntry + n <= MaxEntries + 1
  BY UndoingFacts
<1>2. \A e \in Logged : Shaped(ledger[e])
  BY Loaded DEF Shaped, IInv, LedgerInv, SnapshotInv
<1>3. \A i \in 1..n : /\ Shaped(InverseOf(s, i, seen)) /\ InverseOf(s, i, seen).of = s[i]
                      /\ ~InverseOf(s, i, seen).reverted /\ ~InverseOf(s, i, seen).old
  BY <1>1, InverseShaped
<1> HIDE DEF n
<1>4. /\ ledger' \in [EntryId -> Entry \cup {Null}]
      /\ nextEntry' \in 1..(MaxEntries + 1) /\ nextEntry' = nextEntry + n
      /\ HistoryInv' /\ StampInv'
      /\ \A e \in Logged' : Shaped(ledger'[e])
      /\ \A e \in Logged : /\ e \in Logged' /\ ledger'[e].action = ledger[e].action
                           /\ ledger'[e].of = ledger[e].of
                           /\ (\A i \in 1..n : s[i] # e) => ledger'[e] = ledger[e]
      /\ \A e \in Logged' \ Logged :
            /\ e >= nextEntry /\ ~ledger'[e].reverted
            /\ e - nextEntry + 1 \in 1..n /\ ledger'[e].of = s[e - nextEntry + 1]
  BY <1>1, <1>2, <1>3, RecordKeeps DEF IInv, LedgerInv
<1>5. rows' \in [Table -> [RowId -> Snapshot]] /\ Nav' # Null
  BY UndoneType DEF Nav
<1>6. nextRow' \in [Type -> 1..(MaxRows + 1)]
  <2>1. ASSUME NEW t \in Type PROVE nextRow[t] + Restorations(s, t) \in 1..(MaxRows + 1)
    <3>1. Restorations(s, t) \in Nat
      <4>1. IsFiniteSet({i \in Deletes(s) : ledger[s[i]].type = t})
        BY UndoingFacts, FS_Subset DEF Deletes
      <4> QED
        BY <4>1, FS_CardinalityType DEF Restorations
    <3>2. nextRow[t] + Restorations(s, t) <= MaxRows + 1 /\ nextRow[t] \in Nat \ {0}
          /\ MaxRows \in Nat
      BY LedgerAssumption DEF Undoing, Commits, Room, IInv, TypeOK
    <3> QED
      BY <3>1, <3>2
  <2> QED
    BY <2>1
<1>7. req' \in [Request -> RequestState]
      /\ \A p \in Request : req'[p] = IF p = q THEN Idle ELSE req[p]
  BY Values DEF IInv, TypeOK
<1>8. TypeOK'
  BY <1>4, <1>5, <1>6, <1>7 DEF TypeOK
<1>9. SnapshotInv'
  <2>1. ASSUME NEW p \in Request, req'[p].op # "none"
        PROVE  req'[p] = req[p] /\ req[p].ids \subseteq EntryId
               /\ \A e \in req[p].ids : e < nextEntry /\ e < nextEntry' /\ ~(e >= nextEntry)
    <3>1. req'[p] = req[p] /\ req[p].ids \subseteq EntryId
      BY <2>1, <1>7 DEF Idle, IInv, TypeOK, RequestState
    <3>2. \A e \in req[p].ids : e < nextEntry
      BY <2>1, <3>1 DEF IInv, LedgerInv, SnapshotInv
    <3>3. nextEntry \in Nat
      BY LedgerAssumption DEF IInv, TypeOK
    <3> QED
      BY <3>1, <3>2, <3>3, <1>1, <1>4 DEF EntryId
  <2>2. ASSUME NEW p \in Request, req'[p].op = "loaded", NEW e \in req'[p].ids \cap Logged',
               ledger'[e].action = "update"
        PROVE  req'[p].seen[e] # Null
    <3>1. req'[p] = req[p] /\ e \in Logged
      BY <2>1, <2>2, <1>4
    <3> QED
      BY <3>1, <2>2, <1>4 DEF IInv, LedgerInv, SnapshotInv
  <2> QED
    BY <2>1, <2>2, <1>4, <1>5 DEF SnapshotInv, Shaped
<1>10. \A e \in Logged : e \notin req[q].ids => ledger'[e] = ledger[e]
  BY <1>1, <1>4
<1> QED
  BY <1>1, <1>4, <1>8, <1>9, <1>10 DEF IInv, LedgerInv

\* A commit goes through, or only answers.
LEMMA CommitCases ==
    ASSUME NEW q \in Request, RevertCommit(q)
    PROVE  /\ req' = [req EXCEPT ![q] = Idle]
           /\ \/ UNCHANGED <<rows, nextRow, ledgerVars>>
              \/ \E s \in InOrder(req[q].ids) :
                   /\ Undoing(q, s)
                   /\ rows' = Undone(s, req[q].seen)
                   /\ nextRow' = [t \in Type |-> nextRow[t] + Restorations(s, t)]
                   /\ Record(s, req[q].seen)
  BY DEF RevertCommit, Undoing, Answer

LEMMA RevertCommitKeeps ==
    ASSUME IInv, NEW q \in Request, RevertCommit(q)
    PROVE  IInv'
<1>1. CASE UNCHANGED <<rows, nextRow, ledgerVars>>
  BY <1>1, CommitCases, RequestKeeps, Values DEF Idle
<1>2. CASE \E s \in InOrder(req[q].ids) :
             /\ Undoing(q, s)
             /\ rows' = Undone(s, req[q].seen)
             /\ nextRow' = [t \in Type |-> nextRow[t] + Restorations(s, t)]
             /\ Record(s, req[q].seen)
  BY <1>2, CommitCases, CommitKeeps
<1> QED
  BY <1>1, <1>2, CommitCases

-------------------------------------------------------------------------------
\* The tables a run starts from.
OldDashboard(s, v, people, conns) ==
    [Empty EXCEPT !.slug = s, !.value = v, !.who = people \cap {1}, !.conn = conns \cap {1}]
OldGrant(people) == [Empty EXCEPT !.refs = {1}, !.who = people \cap {1}]
FirstRow(t, i, s, v, shared, links, people, conns) ==
    CASE t = "dashboard" -> IF i = 1 THEN OldDashboard(s, v, people, conns) ELSE Null
      [] t = "dashboard_permission" -> IF shared /\ i = 1 THEN OldGrant(people) ELSE Null
      [] t = "org_settings" -> IF i = NavRow THEN [Empty EXCEPT !.refs = links] ELSE Null
      [] t = "principal" -> IF i \in people THEN Empty ELSE Null
      [] t = "bi_connection" -> IF i \in conns THEN Empty ELSE Null
      [] t = "report" -> Null

FirstRows(s, v, shared, links, people, conns) ==
    [t \in Table |-> [i \in RowId |-> FirstRow(t, i, s, v, shared, links, people, conns)]]

LEMMA OlderRows ==
    ASSUME NEW s, NEW v, NEW shared \in BOOLEAN, NEW links, NEW people, NEW conns
    PROVE  Older(s, v, shared, links, people, conns) = FirstRows(s, v, shared, links, people, conns)
<1> DEFINE none == NoRows(people, conns)
           dashboards == [none["dashboard"] EXCEPT ![1] = OldDashboard(s, v, people, conns)]
           grants == IF shared THEN [none["dashboard_permission"] EXCEPT ![1] = OldGrant(people)]
                     ELSE none["dashboard_permission"]
           navs == [none["org_settings"] EXCEPT ![NavRow] = [Empty EXCEPT !.refs = links]]
           row(t, i) == FirstRow(t, i, s, v, shared, links, people, conns)
<1>1. none = [t \in Table |-> [i \in RowId |->
                IF \/ t = "org_settings" /\ i = NavRow
                   \/ t = "principal" /\ i \in people
                   \/ t = "bi_connection" /\ i \in conns
                THEN Empty ELSE Null]]
  BY DEF NoRows
<1>2. Older(s, v, shared, links, people, conns) =
        [none EXCEPT !["dashboard"] = dashboards, !["dashboard_permission"] = grants,
                     !["org_settings"] = navs]
  BY <1>1 DEF Older, OldDashboard, OldGrant, Type
<1>3. dashboards = [i \in RowId |-> row("dashboard", i)]
  BY <1>1 DEF FirstRow, Type
<1>4. grants = [i \in RowId |-> row("dashboard_permission", i)]
  BY <1>1 DEF FirstRow, Type
<1>5. navs = [i \in RowId |-> row("org_settings", i)]
  BY <1>1 DEF FirstRow, Type
<1>6. /\ none["principal"] = [i \in RowId |-> row("principal", i)]
      /\ none["bi_connection"] = [i \in RowId |-> row("bi_connection", i)]
      /\ none["report"] = [i \in RowId |-> row("report", i)]
  BY <1>1 DEF FirstRow, Type
<1> HIDE DEF dashboards, grants, navs, row
<1>7. ASSUME NEW t \in Table
      PROVE  Older(s, v, shared, links, people, conns)[t] = [i \in RowId |-> row(t, i)]
  BY <1>1, <1>2, <1>3, <1>4, <1>5, <1>6 DEF Type
<1>8. DOMAIN none = Table
  BY <1>1
<1> HIDE DEF none
<1>9. Older(s, v, shared, links, people, conns) = [t \in Table |-> [i \in RowId |-> row(t, i)]]
  BY <1>2, <1>7, <1>8
<1> QED
  BY <1>9 DEF row, FirstRows

\* Every row a run starts from: none, or those of the older dashboard.
LEMMA InitRows ==
    ASSUME Init
    PROVE  \/ rows = NoRows({}, {})
           \/ \E s \in Slug, v \in Value, shared \in BOOLEAN, links \in SUBSET {1} :
                \E people, conns \in SUBSET RowId : rows = FirstRows(s, v, shared, links, people, conns)
<1>1. SUBSET Parents \subseteq SUBSET RowId /\ {} \in SUBSET RowId /\ TRUE \in BOOLEAN /\ {1} \in SUBSET {1}
  BY LedgerAssumption
<1>2. \/ rows = NoRows({}, {})
      \/ \E s \in Slug, v \in Value, shared \in BOOLEAN, links \in SUBSET {1} :
           \E people, conns \in SUBSET RowId : rows = Older(s, v, shared, links, people, conns)
  <2>1. ASSUME NEW s \in Slug, NEW v \in Value, NEW shared \in BOOLEAN, NEW links \in SUBSET {1},
               rows = Older(s, v, shared, links, {}, {})
        PROVE  \E people, conns \in SUBSET RowId : rows = Older(s, v, shared, links, people, conns)
    BY <1>1, <2>1
  <2>2. ASSUME NEW s \in Slug, NEW v \in Value, NEW people \in SUBSET Parents, NEW conns \in SUBSET Parents,
               rows = Older(s, v, TRUE, {1}, people, conns)
        PROVE  \E shared \in BOOLEAN, links \in SUBSET {1} :
                 \E ps, cs \in SUBSET RowId : rows = Older(s, v, shared, links, ps, cs)
    <3>1. people \in SUBSET RowId /\ conns \in SUBSET RowId
      BY <1>1
    <3> QED
      BY <1>1, <2>2, <3>1
  <2>3. \/ rows = NoRows({}, {})
        \/ \E s \in Slug, v \in Value :
             \/ \E shared \in BOOLEAN, links \in SUBSET {1} : rows = Older(s, v, shared, links, {}, {})
             \/ \E people, conns \in SUBSET Parents : rows = Older(s, v, TRUE, {1}, people, conns)
    BY DEF Init
  <2> QED
    BY <2>1, <2>2, <2>3
<1> QED
  BY <1>2, OlderRows

LEMMA InitEstablishes == Init => IInv
<1> SUFFICES ASSUME Init PROVE IInv
  OBVIOUS
<1>1. rows \in [Table -> [RowId -> Snapshot]] /\ Nav # Null
  <2>1. Empty \in Snapshot /\ Empty # Null /\ Null \in Snapshot /\ NavRow \in RowId
        /\ "org_settings" \in Type
    BY Values DEF Snapshot, Type
  <2>2. CASE rows = NoRows({}, {})
    BY <2>1, <2>2 DEF Nav, NoRows
  <2>3. ASSUME NEW s \in Slug, NEW v \in Value, NEW shared \in BOOLEAN, NEW links \in SUBSET {1},
               NEW people \in SUBSET RowId, NEW conns \in SUBSET RowId,
               rows = FirstRows(s, v, shared, links, people, conns)
        PROVE  rows \in [Table -> [RowId -> Snapshot]] /\ Nav # Null
    <3>1. 1 \in RowId /\ links \in SUBSET RowId /\ people \cap {1} \in SUBSET RowId
          /\ conns \cap {1} \in SUBSET RowId
      BY <2>3, Values
    <3>2. OldDashboard(s, v, people, conns) \in Row
      BY <2>3, <3>1, FreshDashboard DEF OldDashboard
    <3>3. OldGrant(people) \in Row
      BY <3>1, FreshGrant DEF OldGrant
    <3>4. [Empty EXCEPT !.refs = links] \in Row
      BY <3>1, Values DEF Row
    <3>5. \A t \in Table, i \in RowId : FirstRow(t, i, s, v, shared, links, people, conns) \in Snapshot
      BY <2>1, <3>2, <3>3, <3>4 DEF FirstRow, Snapshot, Type
    <3>6. Nav = [Empty EXCEPT !.refs = links]
      BY <2>1, <2>3 DEF Nav, FirstRow, FirstRows
    <3>7. rows \in [Table -> [RowId -> Snapshot]]
      BY <2>3, <3>5 DEF FirstRows
    <3>8. Nav # Null
      BY <3>4, <3>6, Values
    <3> QED
      BY <3>7, <3>8
  <2> QED
    BY <2>2, <2>3, InitRows
<1>2. nextRow \in [Type -> 1..(MaxRows + 1)] /\ nextEntry \in 1..(MaxEntries + 1)
  BY LedgerAssumption DEF Init
<1>3. Logged = {} /\ ledger \in [EntryId -> Entry \cup {Null}]
  BY DEF Init, Logged
<1>4. \A q \in Request : req[q].op = "none"
  BY DEF Init, Idle
<1>5. req \in [Request -> RequestState]
  BY Values DEF Init
<1>6. TypeOK
  BY <1>1, <1>2, <1>3, <1>5 DEF TypeOK
<1>7. LedgerInv
  BY <1>1, <1>3, <1>4 DEF LedgerInv, HistoryInv, StampInv, SnapshotInv
<1> QED
  BY <1>6, <1>7 DEF IInv

LEMMA NextKeeps == IInv /\ [Next]_vars => IInv'
<1> SUFFICES ASSUME IInv, [Next]_vars PROVE IInv'
  OBVIOUS
<1>1. ASSUME NEW v \in Value, NEW s \in Slug, NEW who \in SUBSET RowId, NEW conn \in SUBSET RowId,
             CreateDashboard(s, v, who, conn)
      PROVE  IInv'
  <2>1. [Empty EXCEPT !.slug = s, !.value = v, !.who = who, !.conn = conn] \in Row
    BY <1>1, FreshDashboard
  <2> QED
    BY <1>1, <2>1, InsertKeeps DEF CreateDashboard, Type
<1>2. ASSUME NEW v \in Value, NEW who \in SUBSET RowId, CreateReport(v, who) PROVE IInv'
  <2>1. [Empty EXCEPT !.value = v, !.who = who] \in Row
    BY <1>2, FreshReport
  <2> QED
    BY <1>2, <2>1, InsertKeeps DEF CreateReport, Type
<1>3. ASSUME CallerStep PROVE IInv'
  BY <1>1, <1>2, <1>3, UpdateKeeps, SetPermissionsKeeps, DeleteDashboardKeeps, DeleteReportKeeps,
     ScheduledRunKeeps, SetNavKeeps, DeletePrincipalKeeps, DeleteConnectionKeeps, NamableFits
  DEF CallerStep, Present
<1>4. ASSUME NEW q \in Request, RevertStep(q) PROVE IInv'
  BY <1>4, RevertReadKeeps, RevertLoadKeeps, RevertCommitKeeps DEF RevertStep
<1>5. CASE UNCHANGED vars
  BY <1>5, RowsKeep DEF vars, ledgerVars, IInv, TypeOK, LedgerInv, SnapshotInv, Nav
<1> QED
  BY <1>3, <1>4, <1>5, PurgeKeeps, AgeOutKeeps DEF Next

LEMMA LedgerInvariant == Spec => []IInv
<1> QED
  BY InitEstablishes, NextKeeps, PTL DEF Spec

\* The type invariant, for every number of rows, entries and requests.
THEOREM LedgerTypeCorrect == Spec => []TypeOK
<1>1. IInv => TypeOK
  BY DEF IInv
<1> QED
  BY <1>1, LedgerInvariant, PTL

\* An entry is stamped as reverted exactly when the entry that undid it is in the
\* ledger, through every interleaving of reverts, edits and purges; ids follow
\* time, and no entry outlives the one it undid (_revert_one, _purge_expired).
THEOREM StampsAgree == Spec => []LedgerInv
<1>1. IInv => LedgerInv
  BY DEF IInv
<1> QED
  BY <1>1, LedgerInvariant, PTL

-------------------------------------------------------------------------------
(***************************************************************************)
(* One revert at a time.                                                   *)
(***************************************************************************)
\* What every step but a commit leaves of the ledger: entries stamped as before,
\* and new ones that undo nothing.
Quiet ==
    \A e \in Logged' :
       \/ /\ e \in Logged
          /\ ledger'[e].of = ledger[e].of /\ ledger'[e].reverted = ledger[e].reverted
       \/ e >= nextEntry /\ ledger'[e].of = 0

LEMMA QuietKeeps ==
    ASSUME IInv, RevertInv, Quiet,
           \A q \in Request : req'[q].op # "none" =>
             /\ \A e \in req'[q].ids : e \in EntryId /\ e < nextEntry
             /\ \A e \in req'[q].ids \cap Logged : ~ledger[e].reverted
             /\ \A p \in Request : req'[p].op # "none" => p = q
    PROVE  RevertInv'
<1>1. nextEntry \in Nat
  BY LedgerAssumption DEF IInv, TypeOK
<1>2. UndoneOnce'
  BY DEF Quiet, UndoneOnce, RevertInv
<1>3. ASSUME NEW q \in Request, req'[q].op # "none", NEW e \in req'[q].ids \cap Logged'
      PROVE  ~ledger'[e].reverted
  <2>1. e \in Nat /\ ~(e >= nextEntry)
    BY <1>1, <1>3 DEF EntryId
  <2> QED
    BY <2>1, <1>3 DEF Quiet
<1> QED
  BY <1>2, <1>3 DEF RevertInv

LEMMA IdsPast ==
    ASSUME IInv, NEW q \in Request, req[q].op # "none"
    PROVE  \A e \in req[q].ids : e \in EntryId /\ e < nextEntry
  BY DEF IInv, TypeOK, RequestState, LedgerInv, SnapshotInv

LEMMA StepsAside ==
    ASSUME IInv, RevertInv, Quiet, req' = req
    PROVE  RevertInv'
<1>1. \A q \in Request : req'[q].op # "none" =>
         /\ \A e \in req'[q].ids : e \in EntryId /\ e < nextEntry
         /\ \A e \in req'[q].ids \cap Logged : ~ledger[e].reverted
         /\ \A p \in Request : req'[p].op # "none" => p = q
  BY IdsPast DEF RevertInv
<1> QED
  BY <1>1, QuietKeeps

LEMMA LogQuiet ==
    ASSUME IInv, NEW k \in Nat, NEW new, Log(k, new), \A n \in 1..k : new[n].of = 0
    PROVE  Quiet
<1> DEFINE fresh == nextEntry..(nextEntry + k - 1)
<1>1. nextEntry \in Nat
  BY LedgerAssumption DEF IInv, TypeOK
<1>2. \A e \in EntryId : ledger'[e] = IF e \in fresh THEN new[e - nextEntry + 1] ELSE ledger[e]
  BY DEF Log
<1>3. \A e \in fresh : e - nextEntry + 1 \in 1..k /\ e >= nextEntry
  BY <1>1
<1> HIDE DEF fresh
<1> QED
  BY <1>2, <1>3 DEF Quiet, Logged

LEMMA LogOneQuiet ==
    ASSUME IInv, NEW t, NEW i, NEW a, NEW b, NEW c, LogOne(t, i, a, b, c)
    PROVE  Quiet
<1> DEFINE new == [n \in 1..1 |-> NewEntry(t, i, a, b, c, nextEntry)]
<1>1. Log(1, new)
  BY DEF LogOne
<1>2. \A n \in 1..1 : new[n].of = 0
  BY DEF NewEntry
<1> HIDE DEF new
<1> QED
  BY <1>1, <1>2, LogQuiet

LEMMA DeletionQuiet ==
    ASSUME IInv, NEW d \in RowId, DeleteDashboard(d)
    PROVE  Quiet
<1> DEFINE k == Cardinality(Grants(d))
           pruned == [Nav EXCEPT !.refs = @ \ {d}]
           entry(t, i, action, after) == NewEntry(t, i, action, rows[t][i], after, nextEntry)
           new(s) == [n \in 1..(k + 2) |->
                        IF n = 1 THEN entry("dashboard", d, "delete", Null)
                        ELSE IF n = k + 2 THEN entry("org_settings", NavRow, "update", pruned)
                        ELSE entry("dashboard_permission", s[n - 1], "delete", Null)]
           kk == IF d \in Nav.refs THEN k + 2 ELSE k + 1
<1>1. PICK s \in Orders(Grants(d)) : Log(kk, new(s))
  BY DEF DeleteDashboard
<1>2. k \in Nat
  BY FiniteIds, FS_CardinalityType DEF Grants, Present
<1>3. \A t, i, a, c : entry(t, i, a, c).of = 0
  BY DEF NewEntry
<1> HIDE DEF k, pruned, entry
<1>4. \A n \in 1..kk : new(s)[n].of = 0
  BY <1>2, <1>3
<1>5. kk \in Nat
  BY <1>2
<1> HIDE DEF new, kk
<1> QED
  BY <1>1, <1>4, <1>5, LogQuiet

\* Steps that leave the ledger alone, and the two that only age it.
LEMMA RestQuiet ==
    ASSUME IInv, \/ UNCHANGED ledgerVars \/ Purge \/ \E a \in EntryId : AgeOut(a)
    PROVE  Quiet
<1>1. CASE UNCHANGED ledgerVars
  BY <1>1 DEF ledgerVars, Quiet, Logged
<1>2. CASE Purge
  BY <1>2 DEF Purge, Quiet, Logged
<1>3. ASSUME NEW a \in EntryId, AgeOut(a) PROVE Quiet
  <2>1. a \in Logged /\ ledger[a] \in Entry
    BY <1>3, Loaded DEF AgeOut, IInv
  <2>2. \A e \in EntryId : ledger'[e] = IF e = a THEN [ledger[a] EXCEPT !.old = TRUE] ELSE ledger[e]
    BY <1>3 DEF AgeOut, IInv, TypeOK
  <2>3. [ledger[a] EXCEPT !.old = TRUE].of = ledger[a].of
        /\ [ledger[a] EXCEPT !.old = TRUE].reverted = ledger[a].reverted
    BY <2>1 DEF Entry
  <2> QED
    BY <2>1, <2>2, <2>3 DEF Quiet, Logged
<1> QED
  BY <1>1, <1>2, <1>3

LEMMA CallersQuiet ==
    ASSUME IInv, CallerStep
    PROVE  Quiet /\ req' = req
<1>1. ASSUME NEW t, NEW i, NEW a, NEW b, NEW c, LogOne(t, i, a, b, c), req' = req
      PROVE  Quiet /\ req' = req
  BY <1>1, LogOneQuiet
<1>2. ASSUME NEW v \in Value, NEW who \in SUBSET RowId, NEW conn \in SUBSET RowId,
             \/ \E s \in Slug : CreateDashboard(s, v, who, conn)
             \/ CreateReport(v, who)
             \/ \E t \in {"dashboard", "report"}, i \in RowId : Update(t, i, v, conn)
      PROVE  Quiet /\ req' = req
  <2>1. ASSUME NEW t, NEW row, Insert(t, row) PROVE Quiet /\ req' = req
    BY <1>1, <2>1 DEF Insert
  <2>2. ASSUME NEW t, NEW i, Update(t, i, v, conn) PROVE Quiet /\ req' = req
    BY <1>1, <2>2 DEF Update
  <2> QED
    BY <1>2, <2>1, <2>2 DEF CreateDashboard, CreateReport
<1>3. ASSUME NEW d \in RowId,
             \/ \E n \in 0..1, who \in SUBSET RowId : "share" \in May /\ SetPermissions(d, n, who)
             \/ ScheduledRun(d) \/ DeletePrincipal(d) \/ DeleteConnection(d)
      PROVE  Quiet /\ req' = req
  BY <1>3, RestQuiet DEF SetPermissions, ScheduledRun, DeletePrincipal, DeleteConnection
<1>4. ASSUME NEW d \in RowId, DeleteReport(d) PROVE Quiet /\ req' = req
  BY <1>1, <1>4 DEF DeleteReport
<1>5. ASSUME NEW d \in RowId, DeleteDashboard(d) PROVE Quiet /\ req' = req
  <2>1. req' = req
    BY <1>5 DEF DeleteDashboard
  <2> QED
    BY <1>5, <2>1, DeletionQuiet
<1>6. ASSUME NEW links, SetNav(links) PROVE Quiet /\ req' = req
  BY <1>1, <1>6 DEF SetNav
<1> QED
  BY <1>2, <1>3, <1>4, <1>5, <1>6, NamableFits DEF CallerStep

LEMMA CallersAside ==
    ASSUME IInv, RevertInv, CallerStep
    PROVE  RevertInv'
  BY CallersQuiet, StepsAside

LEMMA RevertReadOnce ==
    ASSUME Serial, IInv, RevertInv, NEW q \in Request, NEW e \in Logged, NEW ids \in Reverts(e),
           NEW force \in BOOLEAN, RevertRead(q, ids, force)
    PROVE  RevertInv'
<1>1. ids \subseteq Logged /\ \A f \in ids : ~ledger[f].reverted
  BY DEF Reverts, Pending, Group
<1>2. \A f \in ids : f \in EntryId /\ f < nextEntry
  BY <1>1 DEF IInv, LedgerInv, HistoryInv, Logged
<1>3. Quiet
  BY RestQuiet DEF RevertRead
<1>4. \A p \in Request : p # q => req[p].op = "none"
  BY DEF RevertRead, Alone, Serial
<1>5. req' = [req EXCEPT ![q] = [op |-> "read", ids |-> ids, force |-> force]]
      /\ req \in [Request -> RequestState]
  BY DEF RevertRead, IInv, TypeOK
<1>6. \A p \in Request : req'[p] = IF p = q THEN [op |-> "read", ids |-> ids, force |-> force] ELSE req[p]
  BY <1>5
<1>7. \A p \in Request : req'[p].op # "none" => p = q /\ req'[p].ids = ids
  BY <1>4, <1>6
<1> QED
  BY <1>1, <1>2, <1>3, <1>7, QuietKeeps

LEMMA RevertLoadOnce ==
    ASSUME IInv, RevertInv, NEW q \in Request, RevertLoad(q)
    PROVE  RevertInv'
<1>1. Quiet
  BY RestQuiet DEF RevertLoad
<1>2. \A p \in Request : req'[p].op # "none" => req[p].op # "none" /\ req'[p].ids = req[p].ids
  BY DEF RevertLoad, Answer, Idle, IInv, TypeOK
<1> QED
  BY <1>1, <1>2, IdsPast, QuietKeeps DEF RevertInv

LEMMA RevertCommitOnce ==
    ASSUME IInv, RevertInv, NEW q \in Request, RevertCommit(q)
    PROVE  RevertInv'
<1>1. req[q].op = "loaded" /\ req' = [req EXCEPT ![q] = Idle]
  BY CommitCases DEF RevertCommit
<1>2. \A p \in Request : req'[p].op = "none"
  BY <1>1 DEF RevertInv, Idle, IInv, TypeOK
<1>3. CASE UNCHANGED <<rows, nextRow, ledgerVars>>
  <2>1. Quiet
    BY <1>3, RestQuiet
  <2> QED
    BY <2>1, <1>2, QuietKeeps
<1>4. ASSUME NEW s \in InOrder(req[q].ids), Undoing(q, s),
             rows' = Undone(s, req[q].seen),
             nextRow' = [t \in Type |-> nextRow[t] + Restorations(s, t)],
             Record(s, req[q].seen)
      PROVE  UndoneOnce'
  <2> SUFFICES ASSUME NEW e \in Logged', NEW f \in Logged',
                      ledger'[e].of = ledger'[f].of, ledger'[e].of # 0
               PROVE  e = f
    BY DEF UndoneOnce
  <2>1. /\ \A g \in Logged : g \in Logged' /\ ledger'[g].of = ledger[g].of
        /\ \A g \in Logged' \ Logged :
             g - nextEntry + 1 \in DOMAIN s /\ ledger'[g].of = s[g - nextEntry + 1]
    BY <1>1, <1>4, CommitKeeps
  <2>2. \A i \in DOMAIN s : s[i] \in Logged /\ ~ledger[s[i]].reverted
    BY <1>1, <1>4, UndoingFacts DEF RevertInv
  <2>3. ASSUME NEW g \in Logged, NEW h \in Logged' \ Logged PROVE ledger'[g].of # ledger'[h].of
    <3>1. PICK i \in DOMAIN s : ledger'[h].of = s[i]
      BY <2>1, <2>3
    <3>2. ~\E x \in Logged : ledger[x].of = s[i]
      BY <2>2, <3>1 DEF IInv, LedgerInv, StampInv
    <3> QED
      BY <3>1, <3>2, <2>1, <2>3
  <2>4. CASE e \in Logged /\ f \in Logged
    BY <2>1, <2>4 DEF RevertInv, UndoneOnce
  <2>5. CASE e \notin Logged /\ f \notin Logged
    <3>1. e - nextEntry + 1 = f - nextEntry + 1
      BY <2>1, <2>5, <1>4, InOrderInjective
    <3>2. e \in Nat /\ f \in Nat /\ nextEntry \in Nat
      BY LedgerAssumption DEF Logged, EntryId, IInv, TypeOK
    <3> QED
      BY <3>1, <3>2
  <2> QED
    BY <2>3, <2>4, <2>5
<1> QED
  BY <1>2, <1>3, <1>4, CommitCases DEF RevertInv

LEMMA OnceInvariant == ASSUME Serial PROVE Spec => [](IInv /\ RevertInv)
<1>1. Init => RevertInv
  BY DEF Init, Idle, RevertInv, UndoneOnce, Logged
<1>2. ASSUME IInv, RevertInv, [Next]_vars PROVE RevertInv'
  <2>1. ASSUME NEW q \in Request, RevertStep(q) PROVE RevertInv'
    BY <1>2, <2>1, RevertReadOnce, RevertLoadOnce, RevertCommitOnce DEF RevertStep
  <2>2. CASE UNCHANGED vars \/ Purge \/ \E a \in EntryId : AgeOut(a)
    <3>1. Quiet /\ req' = req
      BY <2>2, <1>2, RestQuiet DEF vars, ledgerVars, Purge, AgeOut
    <3> QED
      BY <3>1, <1>2, StepsAside
  <2> QED
    BY <1>2, <2>1, <2>2, CallersAside DEF Next
<1>3. IInv /\ RevertInv /\ [Next]_vars => RevertInv'
  BY <1>2
<1> QED
  BY <1>1, <1>3, LedgerInvariant, PTL DEF Spec

\* "This change has already been reverted": as long as reverts do not overlap,
\* no change is undone twice, whatever edits, forced reverts and purges lie in
\* between (revert_entry, revert_correlation).
THEOREM UndoneAtMostOnce == ASSUME Serial PROVE Spec => []UndoneOnce
<1>1. RevertInv => UndoneOnce
  BY DEF RevertInv
<1> QED
  BY <1>1, OnceInvariant, PTL

-------------------------------------------------------------------------------
(***************************************************************************)
(* What the history of ChangeLedger says of the rows, and what undoing it  *)
(* does to them: the history is complete while no other handler runs       *)
(* inside a revert; a deletion can be undone, and comes back intact,       *)
(* whatever runs when.                                                     *)
(***************************************************************************)
\* The ledger after each kind of step.
LEMMA LogShape ==
    ASSUME IInv, NEW k \in Nat, NEW new, Log(k, new), \A n \in 1..k : new[n] \in Entry
    PROVE  /\ \A e \in Logged : e \in Logged' /\ ledger'[e] = ledger[e] /\ e < nextEntry
           /\ \A n \in 1..k : /\ nextEntry + n - 1 \in Logged' \ Logged
                              /\ ledger'[nextEntry + n - 1] = new[n]
           /\ \A e \in Logged' \ Logged :
                /\ e >= nextEntry /\ e - nextEntry + 1 \in 1..k
                /\ ledger'[e] = new[e - nextEntry + 1]
<1> DEFINE fresh == nextEntry..(nextEntry + k - 1)
<1>1. nextEntry \in Nat \ {0} /\ nextEntry + k <= MaxEntries + 1 /\ MaxEntries \in Nat
  BY LedgerAssumption DEF IInv, TypeOK, Log, LogRoom
<1>2. \A e \in EntryId : ledger'[e] = IF e \in fresh THEN new[e - nextEntry + 1] ELSE ledger[e]
  BY DEF Log
<1>3. \A e \in fresh : e \in EntryId /\ e - nextEntry + 1 \in 1..k /\ e >= nextEntry
  BY <1>1 DEF EntryId
<1>4. \A n \in 1..k : nextEntry + n - 1 \in fresh /\ (nextEntry + n - 1) - nextEntry + 1 = n
  BY <1>1
<1>5. \A e \in Logged : e \in EntryId /\ e \notin fresh /\ e < nextEntry /\ ledger[e] # Null
  BY <1>1 DEF IInv, LedgerInv, HistoryInv, Logged, EntryId
<1> HIDE DEF fresh
<1>6. \A e \in fresh : ledger'[e] = new[e - nextEntry + 1] /\ ledger'[e] # Null
  BY <1>2, <1>3, Values
<1>7. \A e \in EntryId : e \in Logged' <=> e \in fresh \/ e \in Logged
  BY <1>2, <1>5, <1>6 DEF Logged
<1>8. \A e \in Logged : e \in Logged' /\ ledger'[e] = ledger[e] /\ e < nextEntry
  BY <1>2, <1>5, <1>7
<1>9. ASSUME NEW n \in 1..k
      PROVE  nextEntry + n - 1 \in Logged' \ Logged /\ ledger'[nextEntry + n - 1] = new[n]
  <2>1. nextEntry + n - 1 \in fresh
    BY <1>4
  <2>2. ledger'[nextEntry + n - 1] = new[(nextEntry + n - 1) - nextEntry + 1]
    BY <2>1, <1>6
  <2> QED
    BY <2>1, <2>2, <1>3, <1>4, <1>5, <1>7
<1>10. ASSUME NEW e \in Logged' \ Logged
       PROVE  /\ e >= nextEntry /\ e - nextEntry + 1 \in 1..k
              /\ ledger'[e] = new[e - nextEntry + 1]
  <2>1. e \in fresh
    BY <1>7 DEF Logged
  <2> QED
    BY <2>1, <1>3, <1>6
<1> QED
  BY <1>8, <1>9, <1>10

LEMMA LogOneShape ==
    ASSUME IInv, NEW t \in Type, NEW i \in RowId, NEW a \in Action, NEW b \in Snapshot,
           NEW c \in Snapshot, LogOne(t, i, a, b, c)
    PROVE  /\ \A e \in Logged : e \in Logged' /\ ledger'[e] = ledger[e] /\ e < nextEntry
           /\ nextEntry \in Logged' /\ nextEntry \in EntryId /\ Logged' = Logged \cup {nextEntry}
           /\ nextEntry \notin Logged
           /\ ledger'[nextEntry] = NewEntry(t, i, a, b, c, nextEntry)
<1> DEFINE x == NewEntry(t, i, a, b, c, nextEntry)
           new == [n \in 1..1 |-> x]
<1>1. Log(1, new)
  BY DEF LogOne
<1>2. nextEntry \in EntryId
  BY <1>1, LedgerAssumption DEF Log, LogRoom, IInv, TypeOK, EntryId
<1>3. x \in Entry
  BY <1>2, EntryType
<1> HIDE DEF x
<1>4. \A n \in 1..1 : new[n] \in Entry /\ new[n] = x
  BY <1>3
<1> HIDE DEF new
<1>5. /\ \A e \in Logged : e \in Logged' /\ ledger'[e] = ledger[e] /\ e < nextEntry
      /\ \A n \in 1..1 : /\ nextEntry + n - 1 \in Logged' \ Logged
                         /\ ledger'[nextEntry + n - 1] = new[n]
      /\ \A e \in Logged' \ Logged :
           /\ e >= nextEntry /\ e - nextEntry + 1 \in 1..1
           /\ ledger'[e] = new[e - nextEntry + 1]
  BY <1>1, <1>4, LogShape
<1>6. nextEntry + 1 - 1 = nextEntry /\ nextEntry \in Nat /\ 1 \in 1..1
  BY <1>2 DEF EntryId
<1>7. nextEntry \in Logged' \ Logged /\ ledger'[nextEntry] = x
  BY <1>4, <1>5, <1>6
<1>8. \A e \in Logged' \ Logged : e = nextEntry
  <2> TAKE e \in Logged' \ Logged
  <2>1. e \in Nat /\ e - nextEntry + 1 \in 1..1
    BY <1>5 DEF Logged, EntryId
  <2> QED
    BY <2>1, <1>6
<1> QED
  BY <1>2, <1>5, <1>7, <1>8 DEF x
\* A deletion leaves an entry for the dashboard, one for each of its grants and
\* one for the navigation if that had a link.
DashboardEntry(d) == NewEntry("dashboard", d, "delete", rows["dashboard"][d], Null, nextEntry)
GrantEntry(g) ==
    NewEntry("dashboard_permission", g, "delete", rows["dashboard_permission"][g], Null, nextEntry)
LinkEntry(d) == NewEntry("org_settings", NavRow, "update", Nav, [Nav EXCEPT !.refs = @ \ {d}], nextEntry)

LEMMA DeletionRows ==
    ASSUME IInv, NEW d \in RowId, DeleteDashboard(d)
    PROVE  /\ rows["dashboard"][d] \in Row
           /\ \A g \in Grants(d) : g \in RowId /\ rows["dashboard_permission"][g] \in Row
           /\ Nav \in Row /\ [Nav EXCEPT !.refs = @ \ {d}] \in Row
           /\ nextEntry \in EntryId
           /\ Cardinality(Grants(d)) \in Nat /\ IsFiniteSet(Grants(d))
<1>1. rows["dashboard"][d] \in Row
  BY Loaded DEF DeleteDashboard, IInv, Exists, Type
<1>2. \A g \in Grants(d) : g \in RowId /\ rows["dashboard_permission"][g] \in Row
  BY Loaded DEF Grants, Present, IInv, Exists, Type
<1>3. Nav \in Row
  BY Loaded, Values DEF IInv, LedgerInv, SnapshotInv, Nav, Type, Exists
<1>4. [Nav EXCEPT !.refs = @ \ {d}] \in Row
  BY <1>3 DEF Row
<1>5. Cardinality(Grants(d)) \in Nat /\ IsFiniteSet(Grants(d))
  BY FiniteIds, FS_CardinalityType DEF Grants, Present
<1>6. nextEntry \in EntryId
  <2> DEFINE k == Cardinality(Grants(d))
  <2>1. PICK kk \in {k + 1, k + 2} : LogRoom(kk)
    BY DEF DeleteDashboard, Log
  <2>2. k \in Nat
    BY <1>5
  <2> HIDE DEF k
  <2> QED
    BY <2>1, <2>2, LedgerAssumption DEF LogRoom, IInv, TypeOK, EntryId
<1> QED
  BY <1>1, <1>2, <1>3, <1>4, <1>5, <1>6

LEMMA DeletionShape ==
    ASSUME IInv, NEW d \in RowId, DeleteDashboard(d)
    PROVE  \E s \in Orders(Grants(d)) :
             LET k == Cardinality(Grants(d)) IN
             /\ \A e \in Logged : e \in Logged' /\ ledger'[e] = ledger[e] /\ e < nextEntry
             /\ nextEntry \in Logged' \ Logged /\ ledger'[nextEntry] = DashboardEntry(d)
             /\ \A n \in 1..k : /\ nextEntry + n \in Logged' \ Logged
                                /\ ledger'[nextEntry + n] = GrantEntry(s[n])
             /\ d \in Nav.refs => /\ nextEntry + k + 1 \in Logged' \ Logged
                                  /\ ledger'[nextEntry + k + 1] = LinkEntry(d)
             /\ \A e \in Logged' \ Logged :
                  \/ e = nextEntry
                  \/ \E n \in 1..k : e = nextEntry + n
                  \/ d \in Nav.refs /\ e = nextEntry + k + 1
<1> DEFINE k == Cardinality(Grants(d))
           entry(t, i, action, after) == NewEntry(t, i, action, rows[t][i], after, nextEntry)
           new(s) == [n \in 1..(k + 2) |->
                        IF n = 1 THEN entry("dashboard", d, "delete", Null)
                        ELSE IF n = k + 2 THEN entry("org_settings", NavRow, "update", [Nav EXCEPT !.refs = @ \ {d}])
                        ELSE entry("dashboard_permission", s[n - 1], "delete", Null)]
           kk == IF d \in Nav.refs THEN k + 2 ELSE k + 1
<1>1. PICK s \in Orders(Grants(d)) : Log(kk, new(s))
  BY DEF DeleteDashboard
<1>2. k \in Nat /\ kk \in Nat /\ \A n \in 1..k : s[n] \in Grants(d)
  <2>1. k \in Nat /\ IsFiniteSet(Grants(d))
    BY DeletionRows
  <2>2. \A n \in 1..k : s[n] \in Grants(d)
    BY <2>1, Enumeration
  <2> HIDE DEF k
  <2> QED
    BY <2>1, <2>2
<1>3. /\ new(s)[1] = DashboardEntry(d)
      /\ new(s)[k + 2] = LinkEntry(d)
      /\ \A n \in 2..(k + 1) : n - 1 \in 1..k /\ new(s)[n] = GrantEntry(s[n - 1])
  <2>1. 1 \in 1..(k + 2) /\ k + 2 \in 1..(k + 2) /\ k + 2 # 1
    BY <1>2
  <2>2. \A n \in 2..(k + 1) : n \in 1..(k + 2) /\ n - 1 \in 1..k /\ n # 1 /\ n # k + 2
    BY <1>2
  <2> QED
    BY <2>1, <2>2 DEF DashboardEntry, LinkEntry, GrantEntry, Nav
<1>4. Null \in Snapshot /\ Row \subseteq Snapshot /\ {"delete", "update"} \subseteq Action
      /\ {"dashboard", "dashboard_permission", "org_settings"} \subseteq Type
  BY DEF Snapshot, Action, Type
<1>5. DashboardEntry(d) \in Entry /\ LinkEntry(d) \in Entry /\ \A g \in Grants(d) : GrantEntry(g) \in Entry
  <2>1. DashboardEntry(d) \in Entry
    BY <1>4, DeletionRows, EntryType DEF DashboardEntry
  <2>2. LinkEntry(d) \in Entry
    <3>1. NavRow \in RowId
      BY Values
    <3> QED
      BY <3>1, <1>4, DeletionRows, EntryType DEF LinkEntry
  <2>3. ASSUME NEW g \in Grants(d) PROVE GrantEntry(g) \in Entry
    BY <1>4, DeletionRows, EntryType, ZenonT(40) DEF GrantEntry
  <2> QED
    BY <2>1, <2>2, <2>3
<1> HIDE DEF new
<1>6. \A n \in 1..kk : new(s)[n] \in Entry
  <2> TAKE n \in 1..kk
  <2>1. n = 1 \/ n = k + 2 \/ n \in 2..(k + 1)
    BY <1>2
  <2> QED
    BY <2>1, <1>2, <1>3, <1>5
<1>7. /\ \A e \in Logged : e \in Logged' /\ ledger'[e] = ledger[e] /\ e < nextEntry
      /\ \A n \in 1..kk : /\ nextEntry + n - 1 \in Logged' \ Logged
                          /\ ledger'[nextEntry + n - 1] = new(s)[n]
      /\ \A e \in Logged' \ Logged :
           /\ e >= nextEntry /\ e - nextEntry + 1 \in 1..kk
           /\ ledger'[e] = new(s)[e - nextEntry + 1]
  <2> DEFINE lines == new(s)
  <2>1. kk \in Nat /\ Log(kk, lines) /\ \A n \in 1..kk : lines[n] \in Entry
    BY <1>1, <1>2, <1>6
  <2> HIDE DEF kk, k, lines
  <2>2. /\ \A e \in Logged : e \in Logged' /\ ledger'[e] = ledger[e] /\ e < nextEntry
        /\ \A n \in 1..kk : /\ nextEntry + n - 1 \in Logged' \ Logged
                            /\ ledger'[nextEntry + n - 1] = lines[n]
        /\ \A e \in Logged' \ Logged :
             /\ e >= nextEntry /\ e - nextEntry + 1 \in 1..kk
             /\ ledger'[e] = lines[e - nextEntry + 1]
    BY <2>1, LogShape, ZenonT(60)
  <2> QED
    BY <2>2 DEF lines
<1>8. nextEntry \in Nat
  BY LedgerAssumption DEF IInv, TypeOK
<1> HIDE DEF k
<1>9. nextEntry \in Logged' \ Logged /\ ledger'[nextEntry] = DashboardEntry(d)
  <2>1. 1 \in 1..kk /\ nextEntry + 1 - 1 = nextEntry
    BY <1>2, <1>8
  <2> QED
    BY <2>1, <1>3, <1>7
<1>10. ASSUME NEW n \in 1..k
       PROVE  nextEntry + n \in Logged' \ Logged /\ ledger'[nextEntry + n] = GrantEntry(s[n])
  <2>1. n + 1 \in 1..kk /\ n + 1 \in 2..(k + 1) /\ nextEntry + (n + 1) - 1 = nextEntry + n
        /\ (n + 1) - 1 = n
    BY <1>2, <1>8
  <2>2. new(s)[n + 1] = GrantEntry(s[(n + 1) - 1])
    BY <2>1, <1>3
  <2> QED
    BY <2>1, <2>2, <1>7
<1>11. ASSUME d \in Nav.refs
       PROVE  nextEntry + k + 1 \in Logged' \ Logged /\ ledger'[nextEntry + k + 1] = LinkEntry(d)
  <2>1. k + 2 \in 1..kk /\ nextEntry + (k + 2) - 1 = nextEntry + k + 1
    BY <1>2, <1>8, <1>11
  <2>2. new(s)[k + 2] = LinkEntry(d)
    BY <1>3
  <2> QED
    BY <2>1, <2>2, <1>7
<1>12. ASSUME NEW e \in Logged' \ Logged
       PROVE  \/ e = nextEntry
              \/ \E n \in 1..k : e = nextEntry + n
              \/ d \in Nav.refs /\ e = nextEntry + k + 1
  <2>1. e \in Nat /\ e - nextEntry + 1 \in 1..kk
    BY <1>7 DEF Logged, EntryId
  <2>2. CASE e - nextEntry + 1 = 1
    BY <2>1, <2>2, <1>8
  <2>3. CASE e - nextEntry + 1 \in 2..(k + 1)
    <3>1. e - nextEntry \in 1..k /\ e = nextEntry + (e - nextEntry)
      BY <2>1, <2>3, <1>2, <1>8
    <3> QED
      BY <3>1
  <2>4. CASE e - nextEntry + 1 = k + 2 /\ d \in Nav.refs
    BY <2>1, <2>4, <1>2, <1>8
  <2> QED
    BY <2>1, <2>2, <2>3, <2>4, <1>2
<1>13. /\ \A e \in Logged : e \in Logged' /\ ledger'[e] = ledger[e] /\ e < nextEntry
       /\ nextEntry \in Logged' \ Logged /\ ledger'[nextEntry] = DashboardEntry(d)
       /\ \A n \in 1..k : /\ nextEntry + n \in Logged' \ Logged
                          /\ ledger'[nextEntry + n] = GrantEntry(s[n])
       /\ d \in Nav.refs => /\ nextEntry + k + 1 \in Logged' \ Logged
                            /\ ledger'[nextEntry + k + 1] = LinkEntry(d)
       /\ \A e \in Logged' \ Logged :
            \/ e = nextEntry
            \/ \E n \in 1..k : e = nextEntry + n
            \/ d \in Nav.refs /\ e = nextEntry + k + 1
  BY <1>7, <1>9, <1>10, <1>11, <1>12
<1> QED
  BY <1>13 DEF k

LEMMA CommitShape ==
    ASSUME IInv, NEW q \in Request, NEW s, Undoing(q, s), Record(s, req[q].seen)
    PROVE  LET ids == req[q].ids IN
           /\ \A e \in Logged :
                /\ e \in Logged' /\ e < nextEntry
                /\ ledger'[e] = IF e \in ids THEN [ledger[e] EXCEPT !.reverted = TRUE] ELSE ledger[e]
           /\ \A i \in DOMAIN s : /\ nextEntry + i - 1 \in Logged' \ Logged
                                  /\ ledger'[nextEntry + i - 1] = InverseOf(s, i, req[q].seen)
           /\ \A e \in Logged' \ Logged :
                /\ e >= nextEntry /\ e - nextEntry + 1 \in DOMAIN s
                /\ ledger'[e] = InverseOf(s, e - nextEntry + 1, req[q].seen)
<1> DEFINE n == Cardinality(req[q].ids)
           seen == req[q].seen
           fresh == nextEntry..(nextEntry + n - 1)
<1>1. /\ n \in Nat /\ DOMAIN s = 1..n /\ Cardinality(DOMAIN s) = n
      /\ \A i \in 1..n : s[i] \in req[q].ids /\ s[i] \in Logged
      /\ nextEntry + n <= MaxEntries + 1 /\ nextEntry \in Nat \ {0} /\ MaxEntries \in Nat
  BY UndoingFacts, LedgerAssumption DEF IInv, TypeOK
<1>2. \A e \in EntryId : (\E i \in DOMAIN s : s[i] = e) <=> e \in req[q].ids
  BY FiniteIds, Enumeration DEF Undoing, InOrder, Logged
<1>3. \A e \in EntryId : ledger'[e] =
         IF e \in fresh THEN InverseOf(s, e - nextEntry + 1, seen)
         ELSE IF e \in req[q].ids THEN [ledger[e] EXCEPT !.reverted = TRUE] ELSE ledger[e]
  <2> TAKE e \in EntryId
  <2>1. ledger'[e] =
         IF e \in nextEntry..(nextEntry + Cardinality(DOMAIN s) - 1)
           THEN InverseOf(s, e - nextEntry + 1, seen)
         ELSE IF \E i \in DOMAIN s : s[i] = e THEN [ledger[e] EXCEPT !.reverted = TRUE]
         ELSE ledger[e]
    BY DEF Record
  <2>2. Cardinality(DOMAIN s) = n
    BY <1>1
  <2> HIDE DEF n
  <2> QED
    BY <2>1, <2>2, <1>2
<1>4. \A e \in fresh : e \in EntryId /\ e - nextEntry + 1 \in 1..n /\ e >= nextEntry
  BY <1>1 DEF EntryId
<1>5. \A i \in 1..n : nextEntry + i - 1 \in fresh /\ (nextEntry + i - 1) - nextEntry + 1 = i
  BY <1>1
<1>6. \A e \in Logged : e \in EntryId /\ e \notin fresh /\ e < nextEntry
                        /\ ledger[e] \in Entry
  BY <1>1, Loaded DEF IInv, LedgerInv, HistoryInv, Logged, EntryId
<1> HIDE DEF fresh, n
<1>7. \A i \in 1..n : InverseOf(s, i, seen) # Null
  BY <1>1, InverseShaped, Values DEF Shaped
<1>8. \A e \in fresh : ledger'[e] = InverseOf(s, e - nextEntry + 1, seen) /\ ledger'[e] # Null
  BY <1>3, <1>4, <1>7
<1>9. \A e \in Logged :
         /\ ledger'[e] = IF e \in req[q].ids THEN [ledger[e] EXCEPT !.reverted = TRUE] ELSE ledger[e]
         /\ ledger'[e] # Null
  <2> TAKE e \in Logged
  <2>1. ledger'[e] = IF e \in req[q].ids THEN [ledger[e] EXCEPT !.reverted = TRUE] ELSE ledger[e]
    BY <1>3, <1>6
  <2>2. [ledger[e] EXCEPT !.reverted = TRUE] \in Entry /\ ledger[e] \in Entry
    BY <1>6 DEF Entry
  <2> QED
    BY <2>1, <2>2, Values
<1>10. \A e \in EntryId : e \in Logged' <=> e \in fresh \/ e \in Logged
  <2>1. \A e \in EntryId \ (fresh \cup Logged) : ledger'[e] = Null
    BY <1>3 DEF Undoing, Logged
  <2> QED
    BY <2>1, <1>8, <1>9 DEF Logged
<1>11. ASSUME NEW i \in DOMAIN s
       PROVE  nextEntry + i - 1 \in Logged' \ Logged
              /\ ledger'[nextEntry + i - 1] = InverseOf(s, i, seen)
  <2>1. i \in 1..n /\ nextEntry + i - 1 \in fresh
    BY <1>1, <1>5
  <2>2. ledger'[nextEntry + i - 1] = InverseOf(s, (nextEntry + i - 1) - nextEntry + 1, seen)
    BY <2>1, <1>8
  <2> QED
    BY <2>1, <2>2, <1>4, <1>5, <1>6, <1>10
<1>12. ASSUME NEW e \in Logged' \ Logged
       PROVE  /\ e >= nextEntry /\ e - nextEntry + 1 \in DOMAIN s
              /\ ledger'[e] = InverseOf(s, e - nextEntry + 1, seen)
  <2>1. e \in fresh
    BY <1>10 DEF Logged
  <2> QED
    BY <2>1, <1>1, <1>4, <1>8
<1> QED
  BY <1>6, <1>9, <1>10, <1>11, <1>12

-------------------------------------------------------------------------------
\* The entry that undoes s[i].
LEMMA InverseFields ==
    ASSUME IInv, NEW q \in Request, NEW s, Undoing(q, s), NEW i \in DOMAIN s
    PROVE  LET e == ledger[s[i]]
               seen == req[q].seen[s[i]]
               x == InverseOf(s, i, req[q].seen) IN
           /\ x.type = e.type /\ x.group = e.group /\ ~x.reverted /\ x.of = s[i]
           /\ e.action = "create" =>
                x.action = "delete" /\ x.rid = e.rid /\ x.after = Null
                /\ x.before = IF seen = Null THEN e.after ELSE seen
           /\ e.action = "update" =>
                x.action = "update" /\ x.rid = e.rid /\ x.before = seen /\ x.after = e.before
           /\ e.action = "delete" =>
                x.action = "create" /\ x.rid = NewId(s, i) /\ x.before = Null
                /\ x.after = Recreated(s, i)
<1> DEFINE seen == req[q].seen
           id == s[i]
           e == ledger[id]
           inverse(action, before, after, rid) ==
             [NewEntry(e.type, rid, action, before, after, e.group) EXCEPT !.of = id]
           x == InverseOf(s, i, seen)
<1>1. e.action \in Action
  BY UndoingFacts DEF Entry
<1>2. \A a, b, c, r :
         /\ inverse(a, b, c, r).type = e.type /\ inverse(a, b, c, r).group = e.group
         /\ ~inverse(a, b, c, r).reverted /\ inverse(a, b, c, r).of = id
         /\ inverse(a, b, c, r).action = a /\ inverse(a, b, c, r).rid = r
         /\ inverse(a, b, c, r).before = b /\ inverse(a, b, c, r).after = c
  BY DEF NewEntry
<1>3. /\ e.action = "create" =>
           x = inverse("delete", IF seen[id] = Null THEN e.after ELSE seen[id], Null, e.rid)
      /\ e.action = "update" => x = inverse("update", seen[id], e.before, e.rid)
      /\ e.action = "delete" => x = inverse("create", Null, Recreated(s, i), NewId(s, i))
  BY DEF InverseOf
<1> HIDE DEF inverse, x
<1>4. CASE e.action = "create"
  BY <1>2, <1>3, <1>4 DEF x
<1>5. CASE e.action = "update"
  BY <1>2, <1>3, <1>5 DEF x
<1>6. CASE e.action = "delete"
  BY <1>2, <1>3, <1>6 DEF x
<1> QED
  BY <1>1, <1>4, <1>5, <1>6 DEF Action

\* What becomes of row r of table t when the entries s are undone: taken away,
\* restored by one of At, brought back by one of New, or left alone.
Gone(s, seen, t, r) ==
    \E i \in DOMAIN s :
      /\ ledger[s[i]].action = "create" /\ seen[s[i]] # Null
      /\ \/ ledger[s[i]].type = t /\ ledger[s[i]].rid = r
         \/ /\ t = "dashboard_permission" /\ ledger[s[i]].type = "dashboard"
            /\ r \in Grants(ledger[s[i]].rid)
At(s, t, r) ==
    {i \in DOMAIN s : ledger[s[i]].action = "update" /\ ledger[s[i]].type = t /\ ledger[s[i]].rid = r}
New(s, t, r) == {i \in Deletes(s) : ledger[s[i]].type = t /\ NewId(s, i) = r}

LEMMA UndoneRow ==
    ASSUME NEW s, NEW seen, NEW t \in Table, NEW r \in RowId
    PROVE  /\ Gone(s, seen, t, r) => Undone(s, seen)[t][r] = Null
           /\ ~Gone(s, seen, t, r) /\ At(s, t, r) # {} /\ rows[t][r] # Null =>
                \E i \in At(s, t, r) : Undone(s, seen)[t][r] = Restored(s, i, seen[s[i]])
           /\ ~Gone(s, seen, t, r) /\ (At(s, t, r) = {} \/ rows[t][r] = Null) /\ New(s, t, r) # {} =>
                \E i \in New(s, t, r) : Undone(s, seen)[t][r] = Recreated(s, i)
           /\ ~Gone(s, seen, t, r) /\ (At(s, t, r) = {} \/ rows[t][r] = Null) /\ New(s, t, r) = {} =>
                Undone(s, seen)[t][r] = rows[t][r]
<1> DEFINE taken == {i \in DOMAIN s : ledger[s[i]].action = "create" /\ seen[s[i]] # Null}
           updated == {i \in DOMAIN s : ledger[s[i]].action = "update"}
           gone == \E i \in taken :
                     \/ ledger[s[i]].type = t /\ ledger[s[i]].rid = r
                     \/ /\ t = "dashboard_permission" /\ ledger[s[i]].type = "dashboard"
                        /\ r \in Grants(ledger[s[i]].rid)
           at == {i \in updated : ledger[s[i]].type = t /\ ledger[s[i]].rid = r}
           new == {i \in Deletes(s) : ledger[s[i]].type = t /\ NewId(s, i) = r}
<1>1. Undone(s, seen)[t][r] =
        IF gone THEN Null
        ELSE IF at # {} /\ rows[t][r] # Null
             THEN Restored(s, CHOOSE j \in at : TRUE, seen[s[CHOOSE j \in at : TRUE]])
        ELSE IF new # {} THEN Recreated(s, CHOOSE j \in new : TRUE)
        ELSE rows[t][r]
  BY DEF Undone
<1>2. gone <=> Gone(s, seen, t, r)
  BY DEF Gone
<1>3. at = At(s, t, r) /\ new = New(s, t, r)
  BY DEF At, New
<1> HIDE DEF gone, at, new
<1>4. /\ at # {} => (CHOOSE j \in at : TRUE) \in at
      /\ new # {} => (CHOOSE j \in new : TRUE) \in new
  OBVIOUS
<1> QED
  BY <1>1, <1>2, <1>3, <1>4

-------------------------------------------------------------------------------
(***************************************************************************)
(* The history is complete.                                                *)
(***************************************************************************)
\* A revert undoes at most one dashboard or report.
LEMMA AuthoredOnce ==
    ASSUME IInv, RevertInv, GroupsInv, LoadedInv, NEW q \in Request, NEW s, Undoing(q, s),
           NEW i \in DOMAIN s, NEW j \in DOMAIN s,
           ledger[s[i]].type \in Authored, ledger[s[j]].type \in Authored
    PROVE  i = j
<1>1. /\ s[i] \in req[q].ids \cap Logged /\ s[j] \in req[q].ids \cap Logged
      /\ req[q].op # "none"
  BY UndoingFacts DEF Undoing
<1>2. ledger[s[i]].group = ledger[s[j]].group
  BY <1>1 DEF LoadedInv
<1>3. ~ledger[s[i]].reverted /\ ~ledger[s[j]].reverted
  BY <1>1 DEF RevertInv
<1>4. s[i] = s[j]
  BY <1>1, <1>2, <1>3 DEF GroupsInv
<1> QED
  BY <1>4, InOrderInjective

\* Undone over the row it was loaded from, an update gives the row before it.
LEMMA RestoredExactly ==
    ASSUME IInv, LoadedInv, NEW q \in Request, NEW s, Undoing(q, s), NEW i \in DOMAIN s,
           ledger[s[i]].action = "update", ledger[s[i]].type # "org_settings"
    PROVE  LET e == ledger[s[i]] IN
           /\ rows[e.type][e.rid] # Null
           /\ Restored(s, i, req[q].seen[s[i]]) = e.before
<1> DEFINE e == ledger[s[i]]
           seen == req[q].seen[s[i]]
           now == rows[e.type][e.rid]
<1>1. s[i] \in req[q].ids \cap Logged /\ e \in Entry
  BY UndoingFacts
<1>2. seen = now /\ seen # Null
  BY <1>1 DEF Undoing, LoadedInv, Target, IInv, LedgerInv, SnapshotInv
<1>3. now \in Row /\ e.before \in Row
  BY <1>1, <1>2, Loaded DEF Exists, IInv, LedgerInv, SnapshotInv, Entry, Snapshot
<1>4. Restored(s, i, seen) =
        [slug |-> IF seen.slug = e.before.slug THEN now.slug ELSE e.before.slug,
         value |-> IF seen.value = e.before.value THEN now.value ELSE e.before.value,
         refs |-> IF seen.refs = e.before.refs /\ e.before.refs = e.before.refs THEN now.refs
                  ELSE e.before.refs,
         who |-> IF seen.who = e.before.who THEN now.who ELSE e.before.who,
         conn |-> IF seen.conn = e.before.conn THEN now.conn ELSE e.before.conn,
         runs |-> IF seen.runs = e.before.runs THEN now.runs ELSE e.before.runs]
  BY DEF Restored
<1> HIDE DEF e, seen, now
<1>5. Restored(s, i, seen) =
        [slug |-> e.before.slug, value |-> e.before.value, refs |-> e.before.refs,
         who |-> e.before.who, conn |-> e.before.conn, runs |-> e.before.runs]
  BY <1>2, <1>4
<1>6. Restored(s, i, seen) = e.before
  BY <1>3, <1>5 DEF Row
<1> QED
  BY <1>2, <1>6 DEF e, seen, now

\* A committed revert leaves each dashboard and report as the entry that records
\* it says, and touches no other.
LEMMA CommitRows ==
    ASSUME IInv, RevertInv, GroupsInv, LoadedInv, NEW q \in Request, NEW s, Undoing(q, s),
           NEW t \in Authored, NEW r \in RowId
    PROVE  LET table == Undone(s, req[q].seen)[t] IN
           \/ /\ table[r] = rows[t][r]
              /\ \A i \in DOMAIN s : ~(/\ InverseOf(s, i, req[q].seen).type = t
                                       /\ InverseOf(s, i, req[q].seen).rid = r)
           \/ \E i \in DOMAIN s :
                /\ InverseOf(s, i, req[q].seen).type = t /\ InverseOf(s, i, req[q].seen).rid = r
                /\ \A j \in DOMAIN s : InverseOf(s, j, req[q].seen).type = t => i = j
                /\ table[r] = InverseOf(s, i, req[q].seen).after
<1> DEFINE seen == req[q].seen
           row == Undone(s, seen)[t][r]
           inverse(i) == InverseOf(s, i, seen)
<1>0. t \in Type /\ t # "dashboard_permission" /\ t # "org_settings"
  BY DEF Authored, Type
<1>1. \A i \in DOMAIN s : /\ inverse(i).type = ledger[s[i]].type
                          /\ ledger[s[i]].action \in Action
                          /\ s[i] \in req[q].ids \cap Logged
  BY InverseFields, UndoingFacts DEF Entry
<1>2. \A i, j \in DOMAIN s : inverse(i).type = t /\ inverse(j).type = t => i = j
  BY <1>1, AuthoredOnce
<1>3. \A i \in DOMAIN s :
        /\ ledger[s[i]].action = "create" =>
             inverse(i).rid = ledger[s[i]].rid /\ inverse(i).after = Null
        /\ ledger[s[i]].action = "update" =>
             inverse(i).rid = ledger[s[i]].rid /\ inverse(i).after = ledger[s[i]].before
        /\ ledger[s[i]].action = "delete" =>
             inverse(i).rid = NewId(s, i) /\ inverse(i).after = Recreated(s, i)
  BY InverseFields
<1>4. /\ Gone(s, seen, t, r) <=>
           \E i \in DOMAIN s : ledger[s[i]].action = "create" /\ seen[s[i]] # Null
                               /\ ledger[s[i]].type = t /\ ledger[s[i]].rid = r
      /\ At(s, t, r) = {i \in DOMAIN s : ledger[s[i]].action = "update" /\ ledger[s[i]].type = t
                                         /\ ledger[s[i]].rid = r}
      /\ New(s, t, r) = {i \in DOMAIN s : ledger[s[i]].action = "delete" /\ ledger[s[i]].type = t
                                          /\ NewId(s, i) = r}
  BY <1>0 DEF Gone, At, New, Deletes
<1>5. \A i \in At(s, t, r) : rows[t][r] # Null /\ Restored(s, i, seen[s[i]]) = ledger[s[i]].before
  BY <1>0, <1>4, RestoredExactly
<1> HIDE DEF inverse
<1>6. ASSUME NEW i \in DOMAIN s, inverse(i).type = t, inverse(i).rid = r
      PROVE  row = inverse(i).after
  <2>1. CASE ledger[s[i]].action = "create"
    <3>1. inverse(i).after = Null /\ ledger[s[i]].type = t /\ ledger[s[i]].rid = r
      BY <2>1, <1>1, <1>3, <1>6
    <3>2. CASE seen[s[i]] # Null
      BY <3>1, <3>2, <2>1, <1>0, <1>4, UndoneRow
    <3>3. CASE seen[s[i]] = Null
      <4>1. rows[t][r] = Null
        BY <3>1, <3>3, <2>1, <1>1 DEF Undoing, LoadedInv, Target
      <4>2. ~Gone(s, seen, t, r) /\ At(s, t, r) = {} /\ New(s, t, r) = {}
        BY <3>3, <2>1, <1>1, <1>2, <1>4, <1>6
      <4> QED
        BY <4>1, <4>2, <3>1, <1>0, UndoneRow
    <3> QED
      BY <3>2, <3>3
  <2>2. CASE ledger[s[i]].action = "update"
    <3>1. i \in At(s, t, r) /\ inverse(i).after = ledger[s[i]].before
      BY <2>2, <1>1, <1>3, <1>4, <1>6
    <3>2. ~Gone(s, seen, t, r) /\ \A j \in At(s, t, r) : j = i
      BY <2>2, <1>1, <1>2, <1>4, <1>6
    <3> QED
      BY <3>1, <3>2, <1>0, <1>5, UndoneRow
  <2>3. CASE ledger[s[i]].action = "delete"
    <3>1. i \in New(s, t, r) /\ inverse(i).after = Recreated(s, i)
      BY <2>3, <1>1, <1>3, <1>4, <1>6
    <3>2. ~Gone(s, seen, t, r) /\ At(s, t, r) = {} /\ \A j \in New(s, t, r) : j = i
      BY <2>3, <1>1, <1>2, <1>4, <1>6
    <3> QED
      BY <3>1, <3>2, <1>0, UndoneRow
  <2> QED
    BY <2>1, <2>2, <2>3, <1>1 DEF Action
<1>7. ASSUME \A i \in DOMAIN s : ~(inverse(i).type = t /\ inverse(i).rid = r)
      PROVE  row = rows[t][r]
  <2>1. ~Gone(s, seen, t, r) /\ At(s, t, r) = {} /\ New(s, t, r) = {}
    BY <1>1, <1>3, <1>4, <1>7
  <2> QED
    BY <2>1, <1>0, UndoneRow
<1> HIDE DEF row
<1>8. \/ /\ row = rows[t][r]
         /\ \A i \in DOMAIN s : ~(inverse(i).type = t /\ inverse(i).rid = r)
      \/ \E i \in DOMAIN s :
           /\ inverse(i).type = t /\ inverse(i).rid = r
           /\ \A j \in DOMAIN s : inverse(j).type = t => i = j
           /\ row = inverse(i).after
  BY <1>2, <1>6, <1>7
<1> QED
  BY <1>8 DEF inverse, row

\* The users and roles stay what they are when a revert is committed.
LEMMA CommitPeople ==
    ASSUME IInv, NEW q \in Request, NEW s, Undoing(q, s), rows' = Undone(s, req[q].seen)
    PROVE  People' = People
<1>1. \A i \in DOMAIN s : ledger[s[i]].type # "principal"
  BY UndoingFacts DEF Entry, Type
<1>2. ASSUME NEW r \in RowId PROVE rows'["principal"][r] = rows["principal"][r]
  <2>1. /\ ~Gone(s, req[q].seen, "principal", r) /\ At(s, "principal", r) = {}
        /\ New(s, "principal", r) = {}
    BY <1>1 DEF Gone, At, New, Deletes
  <2> QED
    BY <2>1, UndoneRow
<1> QED
  BY <1>2 DEF People, Present, Exists

LEMMA SamePeople == ASSUME rows'["principal"] = rows["principal"] PROVE People' = People
  BY DEF People, Present, Exists

\* What an entry tells of a row it tells of one that looks the same.
LEMMA TellsStill ==
    ASSUME NEW x, NEW y, NEW row, NEW old, NEW people, Tells(x, old, people),
           ByCaller(row, people) = ByCaller(old, people), x.type = y.type, x.after = y.after
    PROVE  Tells(y, row, people)
  BY DEF Tells

\* A caller's action: entries of one new group, of which one at most is about a
\* dashboard or a report, and says what became of it.
LEMMA CallerCurrent ==
    ASSUME IInv, CurrentInv, People' = People,
           \A e \in Logged : e \in Logged' /\ ledger'[e] = ledger[e] /\ e < nextEntry,
           \A e \in Logged' \ Logged :
             /\ e >= nextEntry /\ ledger'[e].group = nextEntry
             /\ ledger'[e].type \in Authored =>
                  e = nextEntry
                  /\ ByCaller(rows'[ledger'[e].type][ledger'[e].rid], People) = ByCaller(ledger'[e].after, People),
           \A t \in Authored, r \in RowId :
             \/ ByCaller(rows'[t][r], People) = ByCaller(rows[t][r], People)
             \/ \E e \in Logged' \ Logged : ledger'[e].type = t /\ ledger'[e].rid = r,
           \A q \in Request : req'[q].op = "none"
    PROVE  CurrentInv'
<1>0. /\ nextEntry \in Nat
      /\ \A e \in Logged' : e \in Nat
      /\ \A e \in Logged : ledger[e].type \in Type /\ ledger[e].rid \in RowId /\ ledger[e].group < nextEntry
  <2>1. nextEntry \in Nat /\ \A e \in Logged' : e \in Nat
    BY LedgerAssumption DEF IInv, TypeOK, Logged, EntryId
  <2>2. \A e \in Logged : ledger[e] \in Entry /\ ledger[e].group <= e
    BY Loaded DEF IInv, CurrentInv, GroupsInv
  <2> QED
    BY <2>1, <2>2 DEF Entry, EntryId
<1>1. GroupsInv'
  <2>1. \A e \in Logged' : ledger'[e].group <= e
    BY <1>0 DEF CurrentInv, GroupsInv
  <2>2. ASSUME NEW e \in Logged', NEW f \in Logged', ledger'[e].group = ledger'[f].group,
               ledger'[e].type \in Authored, ledger'[f].type \in Authored,
               ~ledger'[e].reverted, ~ledger'[f].reverted
        PROVE  e = f
    <3>1. CASE e \in Logged /\ f \in Logged
      BY <2>2, <3>1 DEF CurrentInv, GroupsInv
    <3>2. CASE e \notin Logged /\ f \notin Logged
      BY <2>2, <3>2
    <3>3. CASE (e \in Logged) # (f \in Logged)
      BY <2>2, <3>3, <1>0
    <3> QED
      BY <3>1, <3>2, <3>3
  <2> QED
    BY <2>1, <2>2 DEF GroupsInv
<1>2. LoadedInv'
  BY DEF LoadedInv
<1>3. LedgerIsCurrent'
  <2> SUFFICES ASSUME NEW e \in Logged', ledger'[e].type \in Authored, Newest(e)'
               PROVE  Tells(ledger'[e], rows'[ledger'[e].type][ledger'[e].rid], People)
    BY DEF LedgerIsCurrent, Authored
  <2>1. CASE e \notin Logged
    BY <2>1 DEF Tells
  <2>2. CASE e \in Logged
    <3>1. ledger'[e] = ledger[e] /\ Newest(e)
      BY <2>2 DEF Newest
    <3>2. ~\E f \in Logged' \ Logged : ledger'[f].type = ledger[e].type /\ ledger'[f].rid = ledger[e].rid
      <4> SUFFICES ASSUME NEW f \in Logged' \ Logged, ledger'[f].type = ledger[e].type,
                          ledger'[f].rid = ledger[e].rid
                   PROVE  FALSE
        OBVIOUS
      <4>1. f <= e
        BY <3>1 DEF Newest
      <4> QED
        BY <4>1, <2>2, <1>0
    <3>3. ByCaller(rows'[ledger[e].type][ledger[e].rid], People) = ByCaller(rows[ledger[e].type][ledger[e].rid], People)
      BY <2>2, <3>1, <3>2, <1>0
    <3>4. Tells(ledger[e], rows[ledger[e].type][ledger[e].rid], People)
      BY <2>2, <3>1 DEF CurrentInv, LedgerIsCurrent, Authored
    <3> QED
      BY <3>1, <3>3, <3>4, TellsStill
  <2> QED
    BY <2>1, <2>2
<1> QED
  BY <1>1, <1>2, <1>3 DEF CurrentInv

\* One row written, one entry.
LEMMA WriteCurrent ==
    ASSUME IInv, CurrentInv, NEW t \in Type, NEW i \in RowId, NEW row \in Snapshot, Put(t, i, row),
           NEW a \in Action, NEW b \in Snapshot, LogOne(t, i, a, b, row),
           t # "principal", \A q \in Request : req'[q].op = "none"
    PROVE  CurrentInv'
<1>1. /\ \A e \in Logged : e \in Logged' /\ ledger'[e] = ledger[e] /\ e < nextEntry
      /\ nextEntry \in Logged' /\ nextEntry \in EntryId /\ Logged' = Logged \cup {nextEntry}
      /\ nextEntry \notin Logged
      /\ ledger'[nextEntry] = NewEntry(t, i, a, b, row, nextEntry)
  BY LogOneShape
<1>2. /\ ledger'[nextEntry].type = t /\ ledger'[nextEntry].rid = i
      /\ ledger'[nextEntry].after = row /\ ledger'[nextEntry].group = nextEntry
  BY <1>1, EntryType
<1>3. /\ rows'[t][i] = row
      /\ \A u \in Type, r \in RowId : u # t \/ r # i => rows'[u][r] = rows[u][r]
  BY DEF Put, IInv, TypeOK
<1>4. Authored \subseteq Type /\ nextEntry >= nextEntry
  BY LedgerAssumption DEF Authored, Type, IInv, TypeOK
<1>5. \A e \in Logged' \ Logged :
        /\ e >= nextEntry /\ ledger'[e].group = nextEntry
        /\ ledger'[e].type \in Authored =>
             e = nextEntry
             /\ ByCaller(rows'[ledger'[e].type][ledger'[e].rid], People) = ByCaller(ledger'[e].after, People)
  BY <1>1, <1>2, <1>3, <1>4
<1>6. \A u \in Authored, r \in RowId :
        \/ ByCaller(rows'[u][r], People) = ByCaller(rows[u][r], People)
        \/ \E e \in Logged' \ Logged : ledger'[e].type = u /\ ledger'[e].rid = r
  BY <1>1, <1>2, <1>3, <1>4
<1>7. People' = People
  BY SamePeople DEF Put, IInv, TypeOK
<1> QED
  BY <1>1, <1>5, <1>6, <1>7, CallerCurrent

\* A step that writes no entry and nothing in a dashboard or a report that a
\* caller sees.
LEMMA StillCurrent ==
    ASSUME IInv, CurrentInv, UNCHANGED ledgerVars,
           \A t \in Authored, r \in RowId : ByCaller(rows'[t][r], People) = ByCaller(rows[t][r], People),
           People' = People, LoadedInv'
    PROVE  CurrentInv'
<1>1. ledger' = ledger /\ Logged' = Logged /\ nextEntry' = nextEntry
  BY DEF ledgerVars, Logged
<1>2. \A e \in Logged : ledger[e].rid \in RowId
  BY Loaded DEF IInv, Entry
<1>3. LedgerIsCurrent'
  <2> SUFFICES ASSUME NEW e \in Logged, ledger[e].type \in Authored, Newest(e)
               PROVE  Tells(ledger[e], rows'[ledger[e].type][ledger[e].rid], People)
    BY <1>1 DEF LedgerIsCurrent, Authored, Newest
  <2>1. Tells(ledger[e], rows[ledger[e].type][ledger[e].rid], People)
    BY DEF CurrentInv, LedgerIsCurrent, Authored
  <2> QED
    BY <1>2, <2>1, TellsStill
<1>4. GroupsInv'
  BY <1>1 DEF CurrentInv, GroupsInv
<1> QED
  BY <1>3, <1>4 DEF CurrentInv

LEMMA AloneIdle ==
    ASSUME "overlap" \notin May, Alone
    PROVE  \A q \in Request : req[q].op = "none"
  BY DEF Alone

LEMMA Looks ==
    ASSUME NEW row \in Row, NEW people
    PROVE  /\ ByCaller(row, people) =
                [slug |-> row.slug, value |-> row.value, refs |-> row.refs, who |-> row.who \cap people,
                 conn |-> row.conn, runs |-> 0]
           /\ ByCaller(row, people) # Null
<1>1. row # Null /\ 0 \in 0..MaxRuns
  BY Values, LedgerAssumption
<1>2. ByCaller(row, people) =
        [slug |-> row.slug, value |-> row.value, refs |-> row.refs, who |-> row.who \cap people,
         conn |-> row.conn, runs |-> 0]
  BY <1>1 DEF ByCaller, Row
<1>3. ByCaller(row, people) \in Row
  BY <1>1, <1>2 DEF Row
<1> QED
  BY <1>2, <1>3, Values

\* An account goes: no dashboard looks any different, and a report goes with it.
LEMMA PrincipalCurrent ==
    ASSUME "overlap" \notin May, IInv, CurrentInv, NEW p \in RowId, DeletePrincipal(p)
    PROVE  CurrentInv'
<1>1. /\ UNCHANGED <<nextRow, ledgerVars, req>> /\ p \in People
      /\ \A t \in Table, i \in RowId :
            rows'[t][i] = IF t = "principal" /\ i = p THEN Null ELSE Without(p, t, rows[t][i])
  BY DEF DeletePrincipal, People, Present
<1>2. ledger' = ledger /\ Logged' = Logged /\ nextEntry' = nextEntry
      /\ \A q \in Request : req'[q].op = "none"
  BY <1>1, AloneIdle DEF ledgerVars, Logged, DeletePrincipal
<1>3. People' = People \ {p}
  <2>1. ASSUME NEW i \in RowId
        PROVE  rows'["principal"][i] # Null <=> i # p /\ rows["principal"][i] # Null
    <3>1. rows["principal"][i] \in Row \cup {Null}
      BY DEF IInv, TypeOK, Snapshot
    <3>2. rows'["principal"][i] = IF i = p THEN Null ELSE Without(p, "principal", rows["principal"][i])
      BY <1>1
    <3>3. CASE rows["principal"][i] = Null
      BY <3>2, <3>3 DEF Without
    <3>4. CASE rows["principal"][i] \in Row
      <4>1. Without(p, "principal", rows["principal"][i]) # Null /\ rows["principal"][i] # Null
        BY <3>4, WithoutRow, Values
      <4> QED
        BY <3>2, <4>1
    <3> QED
      BY <3>1, <3>3, <3>4
  <2> QED
    BY <2>1 DEF People, Present, Exists
<1>4. LedgerIsCurrent'
  <2> SUFFICES ASSUME NEW e \in Logged, ledger[e].type \in Authored, Newest(e)
               PROVE  Tells(ledger[e], rows'[ledger[e].type][ledger[e].rid], People \ {p})
    BY <1>2, <1>3 DEF LedgerIsCurrent, Authored, Newest
  <2> DEFINE x == ledger[e]
             row == rows[x.type][x.rid]
             new == rows'[x.type][x.rid]
  <2>1. /\ x.type \in {"dashboard", "report"} /\ x.rid \in RowId
        /\ x.after \in Row \cup {Null} /\ row \in Row \cup {Null}
    BY Loaded DEF IInv, TypeOK, Entry, Snapshot, Authored, Type
  <2>2. Tells(x, row, People)
    BY DEF CurrentInv, LedgerIsCurrent, Authored
  <2>3. new = Without(p, x.type, row)
    BY <1>1, <2>1 DEF Type
  <2> HIDE DEF x, row, new
  <2>4. ASSUME x.type = "report", x.after # Null, ~(x.after.who \subseteq People)
        PROVE  Tells(x, new, People \ {p})
    BY <2>4 DEF Tells
  <2>5. ASSUME ByCaller(row, People) = ByCaller(x.after, People)
        PROVE  Tells(x, new, People \ {p})
    <3>1. CASE row = Null
      <4>1. ByCaller(row, People) = Null /\ new = Null
        BY <3>1, <2>3 DEF ByCaller, Without
      <4>2. x.after = Null
        BY <4>1, <2>1, <2>5, Looks
      <4> QED
        BY <4>1, <4>2 DEF Tells
    <3>2. CASE row # Null
      <4>1. row \in Row /\ x.after \in Row
        <5>1. row \in Row
          BY <3>2, <2>1
        <5>2. x.after # Null
          BY <5>1, <2>5, Looks DEF ByCaller
        <5> QED
          BY <5>1, <5>2, <2>1
      <4>2. /\ row.slug = x.after.slug /\ row.value = x.after.value /\ row.refs = x.after.refs
            /\ row.conn = x.after.conn /\ row.who \cap People = x.after.who \cap People
        BY <4>1, <2>5, Looks
      <4>3. CASE p \notin row.who
        <5>1. new = row
          BY <4>3, <2>3 DEF Without
        <5>2. row.who \cap (People \ {p}) = x.after.who \cap (People \ {p})
          BY <4>2
        <5>3. ByCaller(row, People \ {p}) = ByCaller(x.after, People \ {p})
          BY <4>1, <4>2, <5>2, Looks
        <5> QED
          BY <5>1, <5>3 DEF Tells
      <4>4. CASE p \in row.who /\ x.type = "dashboard"
        <5>1. new = [row EXCEPT !.who = @ \ {p}]
          BY <3>2, <4>4, <2>3 DEF Without
        <5>2. /\ new \in Row /\ new.slug = row.slug /\ new.value = row.value /\ new.refs = row.refs
              /\ new.conn = row.conn /\ new.who = row.who \ {p}
          BY <4>1, <5>1 DEF Row
        <5>3. new.who \cap (People \ {p}) = x.after.who \cap (People \ {p})
          BY <4>2, <5>2
        <5>4. ByCaller(new, People \ {p}) = ByCaller(x.after, People \ {p})
          BY <4>1, <4>2, <5>2, <5>3, Looks
        <5> QED
          BY <5>4 DEF Tells
      <4>5. CASE p \in row.who /\ x.type = "report"
        <5>1. p \in x.after.who /\ x.after # Null
          BY <4>1, <4>2, <4>5, <1>1, Values
        <5> QED
          BY <5>1, <4>5 DEF Tells
      <4> QED
        BY <4>3, <4>4, <4>5, <2>1
    <3> QED
      BY <3>1, <3>2
  <2>6. Tells(x, new, People \ {p})
    BY <2>2, <2>4, <2>5 DEF Tells
  <2> QED
    BY <2>6 DEF x, new
<1>5. GroupsInv' /\ LoadedInv'
  BY <1>2 DEF CurrentInv, GroupsInv, LoadedInv
<1> QED
  BY <1>4, <1>5 DEF CurrentInv

LEMMA CallersCurrent ==
    ASSUME "overlap" \notin May, IInv, CurrentInv, CallerStep
    PROVE  CurrentInv'
<1>0. Null \in Snapshot /\ Row \subseteq Snapshot /\ {"create", "delete", "update"} \subseteq Action
      /\ Authored \subseteq Type /\ "org_settings" \in Type /\ "org_settings" \notin Authored
      /\ NavRow \in RowId /\ "dashboard_permission" \notin Authored /\ "principal" \notin Type
  BY Values DEF Snapshot, Action, Type, Authored
<1>1. ASSUME NEW t \in Authored, NEW row \in Row, Insert(t, row) PROVE CurrentInv'
  <2>1. nextRow[t] \in RowId
    BY <1>0, <1>1, LedgerAssumption DEF Insert, Room, IInv, TypeOK, RowId
  <2>2. /\ Put(t, nextRow[t], row) /\ LogOne(t, nextRow[t], "create", Null, row)
        /\ \A q \in Request : req'[q].op = "none"
    BY <1>1, AloneIdle DEF Insert
  <2> QED
    BY <1>0, <2>1, <2>2, WriteCurrent
<1>2. ASSUME NEW s \in Slug, NEW v \in Value, NEW who \in SUBSET RowId, NEW conn \in SUBSET RowId,
             CreateDashboard(s, v, who, conn)
      PROVE  CurrentInv'
  BY <1>1, <1>2, FreshDashboard DEF CreateDashboard, Authored
<1>3. ASSUME NEW v \in Value, NEW who \in SUBSET RowId, CreateReport(v, who) PROVE CurrentInv'
  BY <1>1, <1>3, FreshReport DEF CreateReport, Authored
<1>4. ASSUME NEW t \in Authored, NEW i \in RowId, NEW v \in Value, NEW c \in SUBSET RowId,
             Update(t, i, v, c)
      PROVE  CurrentInv'
  <2> DEFINE row == [rows[t][i] EXCEPT !.value = v, !.conn = c]
  <2>1. rows[t][i] \in Row
    BY <1>0, <1>4, Loaded DEF Update, IInv
  <2>2. row \in Row
    BY <2>1 DEF Row
  <2>3. /\ Put(t, i, row) /\ LogOne(t, i, "update", rows[t][i], row)
        /\ \A q \in Request : req'[q].op = "none"
    BY <1>4, AloneIdle DEF Update
  <2> HIDE DEF row
  <2> QED
    BY <1>0, <2>1, <2>2, <2>3, WriteCurrent
<1>5. ASSUME NEW d \in RowId, NEW n \in 0..1, NEW who \in SUBSET RowId, SetPermissions(d, n, who)
      PROVE  CurrentInv'
  <2>1. \A t \in Authored : rows'[t] = rows[t]
    BY <1>0, <1>5 DEF SetPermissions, IInv, TypeOK
  <2>2. UNCHANGED ledgerVars /\ \A q \in Request : req'[q].op = "none"
    BY <1>5, AloneIdle DEF SetPermissions
  <2>3. LoadedInv'
    BY <2>2 DEF LoadedInv
  <2>4. People' = People
    BY <1>5, SamePeople DEF SetPermissions, IInv, TypeOK, Type
  <2> QED
    BY <2>1, <2>2, <2>3, <2>4, StillCurrent
<1>6. ASSUME NEW d \in RowId, DeleteDashboard(d) PROVE CurrentInv'
  <2> DEFINE k == Cardinality(Grants(d))
  <2>1. PICK s \in Orders(Grants(d)) :
             /\ \A e \in Logged : e \in Logged' /\ ledger'[e] = ledger[e] /\ e < nextEntry
             /\ nextEntry \in Logged' \ Logged /\ ledger'[nextEntry] = DashboardEntry(d)
             /\ \A n \in 1..k : /\ nextEntry + n \in Logged' \ Logged
                                /\ ledger'[nextEntry + n] = GrantEntry(s[n])
             /\ d \in Nav.refs => /\ nextEntry + k + 1 \in Logged' \ Logged
                                  /\ ledger'[nextEntry + k + 1] = LinkEntry(d)
             /\ \A e \in Logged' \ Logged :
                  \/ e = nextEntry
                  \/ \E n \in 1..k : e = nextEntry + n
                  \/ d \in Nav.refs /\ e = nextEntry + k + 1
    BY <1>6, DeletionShape
  <2>2. k \in Nat /\ nextEntry \in Nat
    <3>1. k \in Nat
      BY <1>6, DeletionRows
    <3>2. nextEntry \in Nat
      BY LedgerAssumption DEF IInv, TypeOK
    <3> QED
      BY <3>1, <3>2
  <2>3. /\ DashboardEntry(d).group = nextEntry /\ DashboardEntry(d).type = "dashboard"
        /\ DashboardEntry(d).rid = d /\ DashboardEntry(d).after = Null
        /\ LinkEntry(d).group = nextEntry /\ LinkEntry(d).type = "org_settings"
        /\ \A g : GrantEntry(g).group = nextEntry /\ GrantEntry(g).type = "dashboard_permission"
    BY DEF DashboardEntry, LinkEntry, GrantEntry, NewEntry
  <2>4. /\ rows'["dashboard"][d] = Null
        /\ \A t \in Authored, r \in RowId : t # "dashboard" \/ r # d => rows'[t][r] = rows[t][r]
    BY <1>0, <1>6 DEF DeleteDashboard, IInv, TypeOK, Authored
  <2> HIDE DEF k
  <2>5. \A e \in Logged' \ Logged :
          /\ e >= nextEntry /\ ledger'[e].group = nextEntry
          /\ ledger'[e].type \in Authored =>
               e = nextEntry
               /\ ByCaller(rows'[ledger'[e].type][ledger'[e].rid], People) = ByCaller(ledger'[e].after, People)
    <3> TAKE e \in Logged' \ Logged
    <3>1. CASE e = nextEntry
      BY <3>1, <2>1, <2>2, <2>3, <2>4
    <3>2. ASSUME NEW n \in 1..k, e = nextEntry + n
          PROVE  e >= nextEntry /\ ledger'[e].group = nextEntry /\ ledger'[e].type \notin Authored
      BY <3>2, <2>1, <2>2, <2>3, <1>0
    <3>3. CASE d \in Nav.refs /\ e = nextEntry + k + 1
      BY <3>3, <2>1, <2>2, <2>3, <1>0
    <3> QED
      BY <3>1, <3>2, <3>3, <2>1
  <2>6. \A t \in Authored, r \in RowId :
          \/ ByCaller(rows'[t][r], People) = ByCaller(rows[t][r], People)
          \/ \E e \in Logged' \ Logged : ledger'[e].type = t /\ ledger'[e].rid = r
    BY <2>1, <2>3, <2>4
  <2>7. \A q \in Request : req'[q].op = "none"
    BY <1>6, AloneIdle DEF DeleteDashboard
  <2>8. People' = People
    BY <1>6, SamePeople DEF DeleteDashboard, IInv, TypeOK, Type
  <2> QED
    BY <2>1, <2>5, <2>6, <2>7, <2>8, CallerCurrent
<1>7. ASSUME NEW r \in RowId, DeleteReport(r) PROVE CurrentInv'
  <2>1. rows["report"][r] \in Row
    BY <1>7, Loaded DEF DeleteReport, IInv, Type, Exists
  <2>2. /\ Put("report", r, Null) /\ LogOne("report", r, "delete", rows["report"][r], Null)
        /\ \A q \in Request : req'[q].op = "none"
    BY <1>7, AloneIdle DEF DeleteReport
  <2> QED
    BY <1>0, <2>1, <2>2, WriteCurrent DEF Authored
<1>8. ASSUME NEW r \in RowId, ScheduledRun(r) PROVE CurrentInv'
  <2> DEFINE now == rows["report"][r]
             row == [now EXCEPT !.runs = @ + 1]
  <2>1. now \in Row /\ now # Null
    BY <1>8, Loaded DEF ScheduledRun, IInv, Type, Exists
  <2>2. row \in Row
    BY <2>1, <1>8, LedgerAssumption DEF Row, ScheduledRun
  <2>3. ByCaller(row, People) = ByCaller(now, People)
    BY <2>1, <2>2, Values DEF ByCaller, Row
  <2>4. Put("report", r, row) /\ UNCHANGED ledgerVars
        /\ \A q \in Request : req'[q].op = "none"
    BY <1>8, AloneIdle DEF ScheduledRun
  <2>5. \A t \in Authored, i \in RowId : ByCaller(rows'[t][i], People) = ByCaller(rows[t][i], People)
    <3>1. \A t \in Authored, i \in RowId :
            rows'[t][i] = IF t = "report" /\ i = r THEN row ELSE rows[t][i]
      BY <1>0, <2>4 DEF Put, IInv, TypeOK, Authored
    <3> HIDE DEF row
    <3> QED
      BY <3>1, <2>3
  <2>6. LoadedInv'
    BY <2>4 DEF LoadedInv
  <2> HIDE DEF row
  <2>7. People' = People
    BY <2>4, SamePeople DEF Put, IInv, TypeOK, Type
  <2> QED
    BY <2>4, <2>5, <2>6, <2>7, StillCurrent
<1>9. ASSUME NEW links \in SUBSET RowId, SetNav(links) PROVE CurrentInv'
  <2> DEFINE row == [Nav EXCEPT !.refs = links]
  <2>1. Nav \in Row
    BY Loaded, Values DEF IInv, LedgerInv, SnapshotInv, Nav, Type, Exists
  <2>2. row \in Row
    BY <2>1 DEF Row
  <2>3. /\ Put("org_settings", NavRow, row) /\ LogOne("org_settings", NavRow, "update", Nav, row)
        /\ \A q \in Request : req'[q].op = "none"
    BY <1>9, AloneIdle DEF SetNav
  <2> HIDE DEF row
  <2> QED
    BY <1>0, <2>1, <2>2, <2>3, WriteCurrent
<1>10. ASSUME NEW c \in RowId, DeleteConnection(c) PROVE CurrentInv'
  <2>1. Put("bi_connection", c, Null) /\ UNCHANGED ledgerVars
        /\ \A q \in Request : req'[q].op = "none"
    BY <1>10, AloneIdle DEF DeleteConnection
  <2>2. \A t \in Authored : rows'[t] = rows[t]
    BY <1>0, <2>1 DEF Put, IInv, TypeOK, Authored
  <2>3. People' = People
    BY <2>1, SamePeople DEF Put, IInv, TypeOK, Type
  <2>4. LoadedInv'
    BY <2>1 DEF LoadedInv
  <2> QED
    BY <2>1, <2>2, <2>3, <2>4, StillCurrent
<1> QED
  BY <1>2, <1>3, <1>4, <1>5, <1>6, <1>7, <1>8, <1>9, <1>10, PrincipalCurrent, NamableFits
  DEF CallerStep, Present, Authored

LEMMA RevertReadCurrent ==
    ASSUME IInv, CurrentInv, NEW q \in Request, NEW e \in Logged, NEW ids \in Reverts(e),
           NEW force \in BOOLEAN, RevertRead(q, ids, force)
    PROVE  CurrentInv'
<1>1. ids \subseteq Logged /\ \A f \in ids : ledger[f].group = ledger[e].group
  BY DEF Reverts, Pending, Group
<1>2. /\ UNCHANGED ledgerVars /\ Logged' = Logged /\ rows' = rows /\ ledger' = ledger
      /\ req \in [Request -> RequestState]
      /\ req' = [req EXCEPT ![q] = [op |-> "read", ids |-> ids, force |-> force]]
  BY DEF RevertRead, ledgerVars, Logged, IInv, TypeOK
<1>3. LoadedInv'
  <2> SUFFICES ASSUME NEW p \in Request, req'[p].op # "none"
               PROVE  /\ \A f, g \in req'[p].ids \cap Logged : ledger[f].group = ledger[g].group
                      /\ req'[p].op = "loaded" =>
                           \A f \in req'[p].ids \cap Logged : req'[p].seen[f] = Target(f)'
    BY <1>2 DEF LoadedInv
  <2>1. CASE p = q
    BY <2>1, <1>1, <1>2
  <2>2. CASE p # q
    BY <2>2, <1>2 DEF CurrentInv, LoadedInv, Target
  <2> QED
    BY <2>1, <2>2
<1> QED
  BY <1>2, <1>3, SamePeople, StillCurrent

LEMMA RevertLoadCurrent ==
    ASSUME IInv, CurrentInv, NEW q \in Request, RevertLoad(q)
    PROVE  CurrentInv'
<1> DEFINE ids == req[q].ids
           seen == [e \in EntryId |-> IF e \in ids /\ e \in Logged THEN Target(e) ELSE Null]
<1>1. /\ UNCHANGED ledgerVars /\ Logged' = Logged /\ rows' = rows /\ ledger' = ledger
      /\ req \in [Request -> RequestState] /\ req[q].op = "read"
      /\ \/ req' = [req EXCEPT ![q] = Idle]
         \/ req' = [req EXCEPT ![q] = [op |-> "loaded", ids |-> ids, seen |-> seen]]
  BY DEF RevertLoad, ledgerVars, Logged, IInv, TypeOK, Answer
<1>2. \A f \in ids \cap Logged : seen[f] = Target(f)
  BY DEF Logged
<1>3. \A f \in Logged : Target(f)' = Target(f)
  BY <1>1 DEF Target
<1> HIDE DEF seen
<1>4. LoadedInv'
  <2> SUFFICES ASSUME NEW p \in Request, req'[p].op # "none"
               PROVE  /\ \A f, g \in req'[p].ids \cap Logged : ledger[f].group = ledger[g].group
                      /\ req'[p].op = "loaded" =>
                           \A f \in req'[p].ids \cap Logged : req'[p].seen[f] = Target(f)
    BY <1>1, <1>3 DEF LoadedInv
  <2>1. CASE p = q
    <3>1. req'[p] = [op |-> "loaded", ids |-> ids, seen |-> seen]
      BY <2>1, <1>1 DEF Idle
    <3> QED
      BY <3>1, <1>1, <1>2 DEF CurrentInv, LoadedInv
  <2>2. CASE p # q
    BY <2>2, <1>1 DEF CurrentInv, LoadedInv
  <2> QED
    BY <2>1, <2>2
<1> QED
  BY <1>1, <1>4, SamePeople, StillCurrent

LEMMA CommitCurrent ==
    ASSUME IInv, RevertInv, CurrentInv, NEW q \in Request, NEW s, Undoing(q, s),
           rows' = Undone(s, req[q].seen), Record(s, req[q].seen),
           req' = [req EXCEPT ![q] = Idle], TypeOK'
    PROVE  CurrentInv'
<1> DEFINE ids == req[q].ids
           seen == req[q].seen
           inverse(i) == InverseOf(s, i, seen)
<1>1. /\ \A e \in Logged :
           /\ e \in Logged' /\ e < nextEntry
           /\ ledger'[e] = IF e \in ids THEN [ledger[e] EXCEPT !.reverted = TRUE] ELSE ledger[e]
      /\ \A i \in DOMAIN s : /\ nextEntry + i - 1 \in Logged' \ Logged
                             /\ ledger'[nextEntry + i - 1] = inverse(i)
      /\ \A e \in Logged' \ Logged :
           /\ e >= nextEntry /\ e - nextEntry + 1 \in DOMAIN s
           /\ ledger'[e] = inverse(e - nextEntry + 1)
  BY CommitShape
<1>2. \A i \in DOMAIN s : /\ inverse(i).type = ledger[s[i]].type
                          /\ inverse(i).group = ledger[s[i]].group
                          /\ s[i] \in ids \cap Logged
  BY InverseFields, UndoingFacts
<1>3. \A e \in Logged :
        /\ ledger[e] \in Entry /\ e \in Nat
        /\ ledger'[e].type = ledger[e].type /\ ledger'[e].rid = ledger[e].rid
        /\ ledger'[e].group = ledger[e].group /\ ledger'[e].after = ledger[e].after
        /\ ledger'[e].reverted <=> (e \in ids \/ ledger[e].reverted)
  <2> TAKE e \in Logged
  <2>1. ledger[e] \in Entry /\ e \in Nat
    BY Loaded DEF IInv, EntryId
  <2>2. CASE e \in ids
    <3>1. ledger'[e] = [ledger[e] EXCEPT !.reverted = TRUE]
      BY <2>2, <1>1
    <3> QED
      BY <2>1, <2>2, <3>1 DEF Entry
  <2>3. CASE e \notin ids
    BY <2>1, <2>3, <1>1
  <2> QED
    BY <2>2, <2>3
<1>4. nextEntry \in Nat /\ \A i \in DOMAIN s : i \in Nat
  BY UndoingFacts, LedgerAssumption DEF IInv, TypeOK
<1>5. \A e \in Logged' : e \in Nat
  BY DEF Logged, EntryId
<1> HIDE DEF inverse
<1>6. GroupsInv'
  <2>1. ASSUME NEW e \in Logged' PROVE ledger'[e].group <= e
    <3>1. CASE e \in Logged
      BY <3>1, <1>3 DEF CurrentInv, GroupsInv
    <3>2. CASE e \notin Logged
      <4>1. PICK i \in DOMAIN s : ledger'[e] = inverse(i)
        BY <3>2, <1>1
      <4>2. ledger'[e].group = ledger[s[i]].group /\ s[i] \in Logged
        BY <4>1, <1>2
      <4>3. ledger[s[i]].group <= s[i] /\ s[i] < nextEntry /\ s[i] \in Nat
        BY <4>2, <1>1, <1>3 DEF CurrentInv, GroupsInv
      <4>4. ledger[s[i]].group \in Nat
        BY <4>2, <1>3 DEF Entry, EntryId
      <4>5. e >= nextEntry /\ e \in Nat
        BY <3>2, <1>1, <1>5
      <4> QED
        BY <4>2, <4>3, <4>4, <4>5, <1>4
    <3> QED
      BY <3>1, <3>2
  <2>2. ASSUME NEW e \in Logged', NEW f \in Logged', ledger'[e].group = ledger'[f].group,
               ledger'[e].type \in Authored, ledger'[f].type \in Authored,
               ~ledger'[e].reverted, ~ledger'[f].reverted
        PROVE  e = f
    <3>1. CASE e \in Logged /\ f \in Logged
      BY <2>2, <3>1, <1>3 DEF CurrentInv, GroupsInv
    <3>2. ASSUME NEW g \in Logged, NEW h \in Logged' \ Logged, ledger'[g].group = ledger'[h].group,
                 ledger'[g].type \in Authored, ledger'[h].type \in Authored, ~ledger'[g].reverted
          PROVE  FALSE
      <4>1. PICK i \in DOMAIN s : ledger'[h] = inverse(i)
        BY <3>2, <1>1
      <4>2. /\ ledger[s[i]].type \in Authored /\ ledger[s[i]].group = ledger[g].group
            /\ ledger[g].type \in Authored /\ ~ledger[g].reverted /\ g \notin ids
            /\ s[i] \in ids \cap Logged
        BY <3>2, <4>1, <1>2, <1>3
      <4>3. ~ledger[s[i]].reverted
        BY <4>2 DEF RevertInv, Undoing
      <4> QED
        BY <4>2, <4>3 DEF CurrentInv, GroupsInv
    <3>3. CASE e \notin Logged /\ f \notin Logged
      <4> DEFINE i == e - nextEntry + 1
                 j == f - nextEntry + 1
      <4>1. i \in DOMAIN s /\ j \in DOMAIN s /\ ledger'[e] = inverse(i) /\ ledger'[f] = inverse(j)
        BY <3>3, <1>1
      <4>2. ledger[s[i]].type \in Authored /\ ledger[s[j]].type \in Authored
        BY <4>1, <2>2, <1>2
      <4>3. i = j
        BY <4>1, <4>2, AuthoredOnce DEF CurrentInv
      <4> QED
        BY <4>3, <1>4, <1>5
    <3> QED
      BY <2>2, <3>1, <3>2, <3>3
  <2> QED
    BY <2>1, <2>2 DEF GroupsInv
<1>7. \A p \in Request : req'[p].op = "none"
  BY DEF RevertInv, Undoing, Idle, IInv, TypeOK
<1>8. LoadedInv'
  BY <1>7 DEF LoadedInv
<1>9. LedgerIsCurrent'
  <2> SUFFICES ASSUME NEW e \in Logged', ledger'[e].type \in Authored, Newest(e)'
               PROVE  Tells(ledger'[e], rows'[ledger'[e].type][ledger'[e].rid], People)
    BY CommitPeople DEF LedgerIsCurrent, Authored
  <2> DEFINE t == ledger'[e].type
             r == ledger'[e].rid
  <2>1. r \in RowId
    BY DEF TypeOK, Logged, Entry
  <2>2. \/ /\ rows'[t][r] = rows[t][r]
           /\ \A i \in DOMAIN s : ~(inverse(i).type = t /\ inverse(i).rid = r)
        \/ \E i \in DOMAIN s :
             /\ inverse(i).type = t /\ inverse(i).rid = r
             /\ \A j \in DOMAIN s : inverse(j).type = t => i = j
             /\ rows'[t][r] = inverse(i).after
    BY <2>1, CommitRows DEF inverse, CurrentInv
  <2>3. CASE e \notin Logged
    <3>1. e - nextEntry + 1 \in DOMAIN s /\ ledger'[e] = inverse(e - nextEntry + 1)
      BY <2>3, <1>1
    <3>2. rows'[t][r] = ledger'[e].after
      BY <3>1, <2>2
    <3> QED
      BY <3>2 DEF Tells
  <2>4. CASE e \in Logged
    <3>1. \A i \in DOMAIN s : ~(inverse(i).type = t /\ inverse(i).rid = r)
      <4> SUFFICES ASSUME NEW i \in DOMAIN s, inverse(i).type = t, inverse(i).rid = r PROVE FALSE
        OBVIOUS
      <4>1. nextEntry + i - 1 \in Logged' \ Logged /\ ledger'[nextEntry + i - 1] = inverse(i)
        BY <1>1
      <4>2. nextEntry + i - 1 <= e
        BY <4>1 DEF Newest
      <4>3. nextEntry + i - 1 >= nextEntry
        BY <4>1, <1>1
      <4>4. e \in Nat /\ e < nextEntry /\ nextEntry \in Nat /\ i \in Nat
        BY <2>4, <1>1, <1>3, <1>4
      <4> QED
        BY <4>2, <4>3, <4>4
    <3>2. rows'[t][r] = rows[t][r]
      BY <3>1, <2>2
    <3>3. Newest(e) /\ t = ledger[e].type /\ r = ledger[e].rid /\ ledger'[e].after = ledger[e].after
      <4>1. t = ledger[e].type /\ r = ledger[e].rid /\ ledger'[e].after = ledger[e].after
        BY <2>4, <1>3
      <4>2. \A f \in Logged : ledger[f].type = ledger[e].type /\ ledger[f].rid = ledger[e].rid => f <= e
        BY <4>1, <1>1, <1>3 DEF Newest
      <4> QED
        BY <4>1, <4>2 DEF Newest
    <3>4. Tells(ledger[e], rows[t][r], People)
      BY <2>4, <3>3 DEF CurrentInv, LedgerIsCurrent, Authored
    <3> QED
      BY <3>2, <3>3, <3>4, TellsStill
  <2> QED
    BY <2>3, <2>4
<1> QED
  BY <1>6, <1>8, <1>9 DEF CurrentInv

LEMMA RevertCommitCurrent ==
    ASSUME "overlap" \notin May, IInv, RevertInv, CurrentInv, NEW q \in Request, RevertCommit(q)
    PROVE  CurrentInv'
<1>1. CASE UNCHANGED <<rows, nextRow, ledgerVars>>
  <2>1. rows' = rows /\ UNCHANGED ledgerVars
    BY <1>1
  <2>2. \A p \in Request : req'[p].op = "none"
    <3>1. req' = [req EXCEPT ![q] = Idle] /\ req[q].op = "loaded"
      BY CommitCases DEF RevertCommit
    <3> QED
      BY <3>1 DEF RevertInv, Idle, IInv, TypeOK
  <2>3. LoadedInv'
    BY <2>2 DEF LoadedInv
  <2>4. People' = People
    BY <2>1, SamePeople
  <2> QED
    BY <2>1, <2>3, <2>4, StillCurrent
<1>2. ASSUME NEW s \in InOrder(req[q].ids), Undoing(q, s), rows' = Undone(s, req[q].seen),
             nextRow' = [t \in Type |-> nextRow[t] + Restorations(s, t)], Record(s, req[q].seen)
      PROVE  CurrentInv'
  <2>1. req' = [req EXCEPT ![q] = Idle] /\ TypeOK'
    BY <1>2, CommitCases, CommitKeeps DEF IInv
  <2> QED
    BY <1>2, <2>1, CommitCurrent
<1> QED
  BY <1>1, <1>2, CommitCases

LEMMA PurgeCurrent ==
    ASSUME IInv, CurrentInv, Purge
    PROVE  CurrentInv'
<1>1. UNCHANGED <<rows, nextRow, nextEntry, req>>
  BY DEF Purge
<1>2. /\ Logged' \subseteq Logged /\ \A e \in Logged' : ledger'[e] = ledger[e]
      /\ \A e \in Logged \ Logged' : e \in Old
      /\ \A e \in Logged' : Logged' # Logged => e \notin Old
  BY DEF Purge, Logged
<1>3. GroupsInv'
  BY <1>2 DEF CurrentInv, GroupsInv
<1>4. \A e \in Logged' : Target(e)' = Target(e)
  BY <1>1, <1>2 DEF Target
<1>5. LoadedInv'
  BY <1>1, <1>2, <1>4 DEF CurrentInv, LoadedInv
<1>6. LedgerIsCurrent'
  <2> SUFFICES ASSUME NEW e \in Logged', ledger[e].type \in Authored, Newest(e)'
               PROVE  Tells(ledger[e], rows[ledger[e].type][ledger[e].rid], People)
    BY <1>1, <1>2 DEF LedgerIsCurrent, Authored, People, Present, Exists
  <2>1. Newest(e)
    \* What was purged is older than what was not.
    <3> SUFFICES ASSUME NEW f \in Logged, ledger[f].type = ledger[e].type, ledger[f].rid = ledger[e].rid
                 PROVE  f <= e
      BY DEF Newest
    <3>1. CASE f \in Logged'
      BY <3>1, <1>2 DEF Newest
    <3>2. CASE f \notin Logged'
      <4>1. ledger[f].old /\ ~ledger[e].old
        BY <3>2, <1>2 DEF Old
      <4>2. ~(e < f)
        BY <4>1, <1>2 DEF IInv, LedgerInv, HistoryInv
      <4> QED
        BY <4>2, <1>2 DEF Logged, EntryId
    <3> QED
      BY <3>1, <3>2
  <2> QED
    BY <2>1, <1>2 DEF CurrentInv, LedgerIsCurrent, Authored
<1> QED
  BY <1>3, <1>5, <1>6 DEF CurrentInv

LEMMA AgeOutCurrent ==
    ASSUME IInv, CurrentInv, NEW a \in EntryId, AgeOut(a)
    PROVE  CurrentInv'
<1>1. /\ UNCHANGED <<rows, nextRow, nextEntry, req>>
      /\ \A q \in Request : req'[q].op = "none"
  BY DEF AgeOut
<1>2. a \in Logged /\ ledger[a] \in Entry
  BY Loaded DEF AgeOut, IInv
<1>3. \A e \in EntryId : ledger'[e] = IF e = a THEN [ledger[a] EXCEPT !.old = TRUE] ELSE ledger[e]
  BY DEF AgeOut, IInv, TypeOK
<1>4. LET x == [ledger[a] EXCEPT !.old = TRUE] IN
      /\ x \in Entry /\ x.type = ledger[a].type /\ x.rid = ledger[a].rid /\ x.after = ledger[a].after
      /\ x.group = ledger[a].group /\ x.reverted = ledger[a].reverted
  BY <1>2 DEF Entry
<1>5. /\ Logged' = Logged
      /\ \A e \in Logged :
           /\ ledger'[e].type = ledger[e].type /\ ledger'[e].rid = ledger[e].rid
           /\ ledger'[e].after = ledger[e].after /\ ledger'[e].group = ledger[e].group
           /\ ledger'[e].reverted = ledger[e].reverted
  BY <1>2, <1>3, <1>4, Values DEF Logged
<1>6. GroupsInv'
  BY <1>5 DEF CurrentInv, GroupsInv
<1>7. LoadedInv'
  BY <1>1 DEF LoadedInv
<1>8. LedgerIsCurrent'
  <2> SUFFICES ASSUME NEW e \in Logged, ledger[e].type \in Authored, Newest(e)
               PROVE  Tells(ledger'[e], rows[ledger[e].type][ledger[e].rid], People)
    BY <1>1, <1>5 DEF LedgerIsCurrent, Authored, Newest, People, Present, Exists
  <2>1. Tells(ledger[e], rows[ledger[e].type][ledger[e].rid], People)
    BY DEF CurrentInv, LedgerIsCurrent, Authored
  <2> QED
    BY <1>5, <2>1, TellsStill
<1> QED
  BY <1>6, <1>7, <1>8 DEF CurrentInv

LEMMA CurrentInvariant == ASSUME "overlap" \notin May PROVE Spec => [](IInv /\ RevertInv /\ CurrentInv)
<1>1. Init => CurrentInv
  BY DEF Init, Idle, CurrentInv, GroupsInv, LoadedInv, LedgerIsCurrent, Logged
<1>2. ASSUME IInv, RevertInv, CurrentInv, [Next]_vars PROVE CurrentInv'
  <2>1. ASSUME NEW q \in Request, RevertStep(q) PROVE CurrentInv'
    BY <1>2, <2>1, RevertReadCurrent, RevertLoadCurrent, RevertCommitCurrent DEF RevertStep
  <2>2. CASE UNCHANGED vars
    <3>1. rows' = rows /\ ledger' = ledger /\ nextEntry' = nextEntry /\ req' = req /\ Logged' = Logged
      BY <2>2 DEF vars, Logged
    <3>2. LoadedInv'
      <4>1. \A e \in Logged : Target(e)' = Target(e)
        BY <3>1 DEF Target
      <4> QED
        BY <1>2, <3>1, <4>1 DEF CurrentInv, LoadedInv
    <3> QED
      BY <1>2, <3>1, <3>2, SamePeople, StillCurrent DEF ledgerVars
  <2> QED
    BY <1>2, <2>1, <2>2, CallersCurrent, PurgeCurrent, AgeOutCurrent DEF Next
<1>3. IInv /\ RevertInv /\ CurrentInv /\ [Next]_vars => CurrentInv'
  BY <1>2
<1>4. Spec => [](IInv /\ RevertInv)
  BY OnceInvariant DEF Serial
<1> QED
  BY <1>1, <1>3, <1>4, PTL DEF Spec

\* No change is missing from the history: as long as no other handler runs inside
\* a revert, the newest entry of a dashboard or a report says what a caller sees
\* in it, however often changes are undone, redone, forced, taken one by one out
\* of their group, or purged, and as long as the report's author has an account
\* (log_create, log_update, log_delete, _record_inverse).
THEOREM HistoryIsComplete == ASSUME "overlap" \notin May PROVE Spec => []LedgerIsCurrent
<1>1. CurrentInv => LedgerIsCurrent
  BY DEF CurrentInv
<1> QED
  BY <1>1, CurrentInvariant, PTL

-------------------------------------------------------------------------------
(***************************************************************************)
(* A deletion can be undone.                                               *)
(***************************************************************************)
\* The entries ids, undone in the order s, with room for what comes back.
Planned(ids, s) ==
    /\ ids \subseteq Logged
    /\ s \in InOrder(ids)
    /\ \A t \in Type : Room(t, Restorations(s, t))

LEMMA UndoingPlanned ==
    ASSUME NEW q \in Request, NEW s, Undoing(q, s)
    PROVE  Planned(req[q].ids, s)
  BY DEF Undoing, Planned, Commits

\* Each entry has its place in the order, and only one.
LEMMA OrderFacts ==
    ASSUME IInv, NEW ids, NEW s, ids \subseteq Logged, s \in InOrder(ids)
    PROVE  /\ IsFiniteSet(DOMAIN s) /\ Cardinality(DOMAIN s) = Cardinality(ids)
           /\ Deletes(s) \subseteq DOMAIN s /\ IsFiniteSet(Deletes(s))
           /\ \A i \in DOMAIN s : i \in Nat /\ s[i] \in ids /\ s[i] \in Logged /\ ledger[s[i]] \in Entry
           /\ \A e \in ids : \E i \in DOMAIN s : s[i] = e
           /\ \A i, j \in DOMAIN s : s[i] = s[j] => i = j
<1>1. s \in Orders(ids) /\ IsFiniteSet(ids)
  BY FiniteIds DEF InOrder, Logged
<1>2. /\ IsFiniteSet(DOMAIN s) /\ Cardinality(DOMAIN s) = Cardinality(ids)
      /\ DOMAIN s = 1..Cardinality(ids) /\ Cardinality(ids) \in Nat
      /\ \A i \in DOMAIN s : s[i] \in ids
      /\ \A e \in ids : \E i \in DOMAIN s : s[i] = e
  BY <1>1, Enumeration
<1>3. \A i \in DOMAIN s : i \in Nat /\ s[i] \in Logged /\ ledger[s[i]] \in Entry
  BY <1>2, Loaded DEF IInv
<1>4. ASSUME NEW i \in DOMAIN s, NEW j \in DOMAIN s, s[i] = s[j]
      PROVE  i = j
  <2>1. s[i] \in Nat /\ ledger[s[i]].action \in Action
    BY <1>3 DEF Logged, EntryId, Entry
  <2>2. ~Before(s[i], s[i])
    BY <2>1 DEF Before, Action
  <2>3. ~(i < j) /\ ~(j < i)
    BY <1>4, <2>2 DEF InOrder
  <2> QED
    BY <2>3, <1>3
<1>5. Deletes(s) \subseteq DOMAIN s /\ IsFiniteSet(Deletes(s))
  BY <1>2, FS_Subset DEF Deletes
<1> QED
  BY <1>2, <1>3, <1>4, <1>5

\* The rows that come back get ids of their own, never used before.
LEMMA NewIds ==
    ASSUME IInv, NEW ids, NEW s, Planned(ids, s), NEW i \in Deletes(s)
    PROVE  LET t == ledger[s[i]].type IN
           /\ t \in Type /\ NewId(s, i) \in RowId /\ NewId(s, i) \in Nat
           /\ nextRow[t] \in Nat /\ NewId(s, i) >= nextRow[t]
           /\ NewId(s, i) < nextRow[t] + Restorations(s, t)
           /\ \A j \in Deletes(s) : ledger[s[j]].type = t /\ NewId(s, j) = NewId(s, i) => i = j
<1> DEFINE t == ledger[s[i]].type
           all == {j \in Deletes(s) : ledger[s[j]].type = t}
           earlier(j) == {k \in Deletes(s) : k < j /\ ledger[s[k]].type = t}
<1>1. /\ t \in Type /\ IsFiniteSet(Deletes(s)) /\ Deletes(s) \subseteq DOMAIN s
      /\ \A j \in Deletes(s) : j \in Nat
  BY OrderFacts DEF Planned, Entry
<1>2. IsFiniteSet(all) /\ Cardinality(all) \in Nat
  BY <1>1, FS_Subset, FS_CardinalityType
<1>3. \A j \in Deletes(s) : IsFiniteSet(earlier(j)) /\ Cardinality(earlier(j)) \in Nat
  <2> TAKE j \in Deletes(s)
  <2>1. IsFiniteSet(earlier(j))
    BY <1>1, FS_Subset
  <2> HIDE DEF earlier
  <2> QED
    BY <2>1, FS_CardinalityType
<1>4. ASSUME NEW A, NEW B, IsFiniteSet(B), A \subseteq B, A # B,
             Cardinality(A) \in Nat, Cardinality(B) \in Nat
      PROVE  Cardinality(A) < Cardinality(B)
  <2>1. Cardinality(A) <= Cardinality(B) /\ Cardinality(A) # Cardinality(B)
    BY <1>4, FS_Subset
  <2> QED
    BY <2>1, <1>4
<1>5. \A j \in all : Cardinality(earlier(j)) < Cardinality(all)
  <2> TAKE j \in all
  <2>1. earlier(j) \subseteq all /\ earlier(j) # all
    BY <1>1
  <2> HIDE DEF earlier, all
  <2> QED
    BY <2>1, <1>2, <1>3, <1>4 DEF all
<1>6. \A j, k \in all : j < k => Cardinality(earlier(j)) < Cardinality(earlier(k))
  <2> SUFFICES ASSUME NEW j \in all, NEW k \in all, j < k
               PROVE  Cardinality(earlier(j)) < Cardinality(earlier(k))
    OBVIOUS
  <2>1. earlier(j) \subseteq earlier(k) /\ j \in earlier(k) /\ j \notin earlier(j)
    BY <1>1
  <2>2. j \in Deletes(s) /\ k \in Deletes(s)
    OBVIOUS
  <2> HIDE DEF earlier, all
  <2> QED
    BY <2>1, <2>2, <1>3, <1>4
<1>7. Restorations(s, t) = Cardinality(all) /\ \A j \in all : NewId(s, j) = nextRow[t] + Cardinality(earlier(j))
  BY DEF Restorations, NewId
<1>8. /\ nextRow[t] \in Nat \ {0} /\ MaxRows \in Nat
      /\ nextRow[t] + Cardinality(all) <= MaxRows + 1
  BY <1>1, <1>7, LedgerAssumption DEF Planned, Room, IInv, TypeOK
<1>9. i \in all /\ all \subseteq Deletes(s)
  OBVIOUS
<1> HIDE DEF all, earlier
<1>10. /\ NewId(s, i) \in RowId /\ NewId(s, i) \in Nat /\ NewId(s, i) >= nextRow[t]
       /\ NewId(s, i) < nextRow[t] + Restorations(s, t)
  BY <1>2, <1>3, <1>5, <1>7, <1>8, <1>9 DEF RowId
<1>11. ASSUME NEW j \in all, NewId(s, j) = NewId(s, i)
       PROVE  i = j
  <2>1. Cardinality(earlier(i)) = Cardinality(earlier(j))
    BY <1>3, <1>7, <1>8, <1>9, <1>11
  <2>2. ~(i < j) /\ ~(j < i)
    BY <2>1, <1>3, <1>6, <1>9
  <2> QED
    BY <2>2, <1>1, <1>9
<1> QED
  BY <1>1, <1>8, <1>10, <1>11 DEF all

\* A row that comes back is as it was brought back.
LEMMA NewRow ==
    ASSUME IInv, KinInv, NEW ids, NEW s, Planned(ids, s), NEW i \in Deletes(s), NEW seen
    PROVE  Undone(s, seen)[ledger[s[i]].type][NewId(s, i)] = Recreated(s, i)
<1> DEFINE t == ledger[s[i]].type
           r == NewId(s, i)
<1>1. /\ t \in Type /\ r \in RowId /\ r \in Nat /\ nextRow[t] \in Nat /\ r >= nextRow[t]
      /\ \A j \in Deletes(s) : ledger[s[j]].type = t /\ NewId(s, j) = r => i = j
  BY NewIds
<1>2. \A j \in DOMAIN s : /\ s[j] \in Logged /\ ledger[s[j]].rid \in Nat
                          /\ ledger[s[j]].rid < nextRow[ledger[s[j]].type]
  BY OrderFacts DEF Planned, KinInv, Entry, RowId
<1>3. ~Exists(t, r)
  BY <1>1 DEF KinInv
<1>4. \A j \in DOMAIN s : ~(ledger[s[j]].type = t /\ ledger[s[j]].rid = r)
  BY <1>1, <1>2
<1>5. ~Gone(s, seen, t, r)
  BY <1>3, <1>4 DEF Gone, Grants, Present
<1>6. At(s, t, r) = {}
  BY <1>4 DEF At
<1>7. i \in New(s, t, r) /\ \A j \in New(s, t, r) : i = j
  BY <1>1 DEF New
<1> HIDE DEF t, r
<1>8. Undone(s, seen)[t][r] = Recreated(s, i)
  BY <1>1, <1>5, <1>6, <1>7, UndoneRow
<1> QED
  BY <1>8 DEF t, r

\* No other row appears.
LEMMA OldRow ==
    ASSUME IInv, NEW ids, NEW s, Planned(ids, s), NEW t \in Type, NEW r \in RowId, NEW seen,
           \A i \in Deletes(s) : ledger[s[i]].type = t => NewId(s, i) # r
    PROVE  \/ Undone(s, seen)[t][r] = Null
           \/ Undone(s, seen)[t][r] = rows[t][r]
           \/ /\ rows[t][r] # Null
              /\ \E i \in At(s, t, r) : Undone(s, seen)[t][r] = Restored(s, i, seen[s[i]])
  BY UndoneRow DEF New

\* A deleted dashboard comes back as it was.
LEMMA DashboardBack ==
    ASSUME IInv, KinInv, NEW ids, NEW s, Planned(ids, s), NEW i \in Deletes(s), NEW seen,
           ledger[s[i]].type = "dashboard"
    PROVE  /\ Undone(s, seen)["dashboard"][NewId(s, i)] = ledger[s[i]].before
           /\ ledger[s[i]].before \in Row /\ ledger[s[i]].before # Null
<1>1. Recreated(s, i) = ledger[s[i]].before
  BY DEF Recreated
<1>2. s[i] \in Logged /\ ledger[s[i]] \in Entry /\ ledger[s[i]].action = "delete"
  BY OrderFacts DEF Planned, Deletes
<1>3. ledger[s[i]].before \in Row /\ ledger[s[i]].before # Null
  BY <1>2, Values DEF IInv, LedgerInv, SnapshotInv, Entry, Snapshot
<1> QED
  BY <1>1, <1>3, NewRow

\* The id map is one: no two rows come back for the same dashboard.
LEMMA MappedOnce ==
    ASSUME IInv, KinInv, NEW slugOf, Identity(slugOf), NEW ids, NEW s, Planned(ids, s), NEW seen,
           Sound(Undone(s, seen)), NEW i \in Deletes(s), NEW j \in Deletes(s),
           ledger[s[i]].type = "dashboard", ledger[s[j]].type = "dashboard",
           ledger[s[i]].rid = ledger[s[j]].rid
    PROVE  NewId(s, i) = NewId(s, j)
<1> DEFINE table == Undone(s, seen)["dashboard"]
<1>1. \A k \in Deletes(s) : ledger[s[k]].type = "dashboard" =>
         /\ NewId(s, k) \in RowId /\ table[NewId(s, k)] = ledger[s[k]].before
         /\ table[NewId(s, k)] # Null /\ table[NewId(s, k)].slug = slugOf[ledger[s[k]].rid]
  <2> SUFFICES ASSUME NEW k \in Deletes(s), ledger[s[k]].type = "dashboard"
               PROVE  /\ NewId(s, k) \in RowId /\ table[NewId(s, k)] = ledger[s[k]].before
                      /\ table[NewId(s, k)] # Null /\ table[NewId(s, k)].slug = slugOf[ledger[s[k]].rid]
    OBVIOUS
  <2>1. NewId(s, k) \in RowId /\ table[NewId(s, k)] = ledger[s[k]].before /\ ledger[s[k]].before # Null
    BY NewIds, DashboardBack
  <2>2. s[k] \in Logged
    BY OrderFacts DEF Planned
  <2> QED
    BY <2>1, <2>2 DEF Identity, Known
<1> QED
  BY <1>1 DEF Sound, Has

LEMMA RemapOne ==
    ASSUME IInv, KinInv, NEW slugOf, Identity(slugOf), NEW ids, NEW s, Planned(ids, s), NEW seen,
           Sound(Undone(s, seen)), NEW n, NEW d \in RowId
    PROVE  \E c \in RowId : Remap(s, n, {d}) = {c}
<1> DEFINE moved == {i \in Deletes(s) : i <= n /\ ledger[s[i]].type = "dashboard"}
           mine == {i \in moved : ledger[s[i]].rid = d}
<1>1. Remap(s, n, {d}) = ({d} \ {ledger[s[i]].rid : i \in moved}) \cup {NewId(s, i) : i \in mine}
  BY DEF Remap
<1>2. CASE mine = {}
  BY <1>1, <1>2
<1>3. ASSUME NEW i \in mine
      PROVE  \E c \in RowId : Remap(s, n, {d}) = {c}
  <2>1. \A j \in mine : NewId(s, j) = NewId(s, i)
    BY MappedOnce
  <2>2. {NewId(s, j) : j \in mine} = {NewId(s, i)}
    BY <2>1
  <2>3. {d} \ {ledger[s[j]].rid : j \in moved} = {}
    OBVIOUS
  <2>4. NewId(s, i) \in RowId
    BY NewIds
  <2> QED
    BY <1>1, <2>2, <2>3, <2>4
<1> QED
  BY <1>2, <1>3

\* A caller's action: ids it takes are new, entries it leaves are a group.
LEMMA CallerUndo ==
    ASSUME IInv, UndoInv, NEW slugOf, Identity(slugOf), NEW slugs \in [RowId -> Slug \cup {Null}],
           \A d \in RowId : d < nextRow["dashboard"] => slugs[d] = slugOf[d],
           \A t \in Type : nextRow[t] <= nextRow'[t] /\ nextRow'[t] \in Nat,
           \A e \in Logged : e \in Logged' /\ ledger'[e] = ledger[e] /\ e < nextEntry,
           \A e \in Logged' \ Logged :
             LET x == ledger'[e] IN
             /\ e >= nextEntry /\ x.group = nextEntry /\ x.of = 0
             /\ x.rid < nextRow'[x.type]
             /\ x.type = "dashboard_permission" => x.action # "update"
             /\ Known(slugs, x.type, x.rid, x.before) /\ Known(slugs, x.type, x.rid, x.after),
           \A e, f \in Logged' \ Logged :
             ledger'[e].type = "dashboard" /\ ledger'[e].action = "delete" /\ f # e =>
               /\ e < f
               /\ \/ /\ ledger'[f].type = "dashboard_permission" /\ ledger'[f].action = "delete"
                     /\ ledger'[f].before.refs = {ledger'[e].rid}
                  \/ /\ ledger'[f].type = "org_settings"
                     /\ ledger'[e].rid \in ledger'[f].before.refs,
           \A t \in Type, i \in RowId :
             rows'[t][i] # Null => i < nextRow'[t] /\ Known(slugs, t, i, rows'[t][i]),
           Sound(rows)', req' = req
    PROVE  UndoInv'
<1>0. /\ nextEntry \in Nat /\ \A e \in Logged' : e \in Nat
      /\ \A e \in Logged : /\ ledger[e].type \in Type /\ ledger[e].rid \in RowId /\ ledger[e].rid \in Nat
                           /\ ledger[e].group \in Nat /\ ledger[e].group <= e /\ ledger[e].group < nextEntry
                           /\ ledger[e].rid < nextRow[ledger[e].type]
      /\ \A t \in Type : nextRow[t] \in Nat
  <2>1. nextEntry \in Nat /\ (\A e \in Logged' : e \in Nat) /\ \A t \in Type : nextRow[t] \in Nat
    BY LedgerAssumption DEF IInv, TypeOK, Logged, EntryId
  <2>2. \A e \in Logged : ledger[e] \in Entry /\ ledger[e].group <= e /\ ledger[e].rid < nextRow[ledger[e].type]
    BY Loaded DEF IInv, UndoInv, KinInv
  <2> QED
    BY <2>1, <2>2 DEF Entry, EntryId, RowId
<1>1. \A q \in Request : req[q].op # "none" => req[q].ids \cap Logged' = req[q].ids \cap Logged
  <2> SUFFICES ASSUME NEW q \in Request, req[q].op # "none", NEW e \in req[q].ids, e \in Logged'
               PROVE  e \in Logged
    OBVIOUS
  <2>1. e < nextEntry
    BY IdsPast
  <2> QED
    BY <2>1, <1>0
<1>2. \A e \in Logged : \A x : Known(slugOf, ledger[e].type, ledger[e].rid, x) =>
                               Known(slugs, ledger[e].type, ledger[e].rid, x)
  BY <1>0 DEF Known
<1>3. KinInv'
  <2>1. \A t \in Type, i \in RowId : Exists(t, i)' => i < nextRow'[t]
    BY DEF Exists
  <2>2. ASSUME NEW e \in Logged'
        PROVE  /\ ledger'[e].rid < nextRow'[ledger'[e].type] /\ ledger'[e].group <= e
               /\ ledger'[e].type = "dashboard_permission" => ledger'[e].action # "update"
               /\ ledger'[e].of # 0 => ledger'[ledger'[e].of].group = ledger'[e].group
    <3>1. CASE e \in Logged
      <4>1. ledger'[e].rid < nextRow'[ledger'[e].type]
        BY <3>1, <1>0
      <4>2. ledger'[e].of # 0 => ledger'[e].of \in Logged
        BY <3>1 DEF IInv, LedgerInv, HistoryInv
      <4> QED
        BY <3>1, <4>1, <4>2 DEF UndoInv, KinInv
    <3>2. CASE e \notin Logged
      BY <3>2
    <3> QED
      BY <3>1, <3>2
  <2>3. \A q \in Request : req'[q].op # "none" =>
          \A e, f \in req'[q].ids \cap Logged' : ledger'[e].group = ledger'[f].group
    BY <1>1 DEF UndoInv, KinInv
  <2> QED
    BY <2>1, <2>2, <2>3 DEF KinInv
<1>4. DeletionsInv'
  <2> SUFFICES ASSUME NEW e \in Logged', NEW f \in Logged', f # e,
                      ledger'[f].group = ledger'[e].group,
                      ledger'[e].type = "dashboard", ledger'[e].action = "delete",
                      ledger'[e].of = 0, ledger'[f].of = 0
               PROVE  /\ e < f
                      /\ \/ /\ ledger'[f].type = "dashboard_permission" /\ ledger'[f].action = "delete"
                            /\ ledger'[f].before.refs = {ledger'[e].rid}
                         \/ /\ ledger'[f].type = "org_settings"
                            /\ ledger'[e].rid \in ledger'[f].before.refs
    BY DEF DeletionsInv, Group
  <2>1. CASE e \in Logged /\ f \in Logged
    BY <2>1 DEF UndoInv, DeletionsInv, Group
  <2>2. CASE e \notin Logged /\ f \notin Logged
    BY <2>2
  <2>3. CASE (e \in Logged) # (f \in Logged)
    BY <2>3, <1>0
  <2> QED
    BY <2>1, <2>2, <2>3
<1>5. IdentityInv'
  <2>1. \A t \in Type, i \in RowId : Known(slugs, t, i, rows'[t][i])
    BY DEF Known
  <2>2. \A e \in Logged' :
          /\ Known(slugs, ledger'[e].type, ledger'[e].rid, ledger'[e].before)
          /\ Known(slugs, ledger'[e].type, ledger'[e].rid, ledger'[e].after)
    BY <1>2 DEF Identity
  <2>3. \A q \in Request : req'[q].op = "loaded" =>
          \A e \in req'[q].ids \cap Logged' :
            Known(slugs, ledger'[e].type, ledger'[e].rid, req'[q].seen[e])
    BY <1>1, <1>2 DEF Identity
  <2>4. Identity(slugs)'
    BY <2>1, <2>2, <2>3 DEF Identity, Known
  <2> QED
    BY <2>4 DEF IdentityInv
<1> QED
  BY <1>3, <1>4, <1>5 DEF UndoInv

\* One row written, one entry.
LEMMA WriteUndo ==
    ASSUME IInv, UndoInv, NEW slugOf, Identity(slugOf), NEW slugs \in [RowId -> Slug \cup {Null}],
           \A d \in RowId : d < nextRow["dashboard"] => slugs[d] = slugOf[d],
           \A t \in Type : nextRow[t] <= nextRow'[t] /\ nextRow'[t] \in Nat,
           NEW t \in Type \ {"dashboard_permission"}, NEW i \in RowId, NEW row \in Snapshot,
           NEW a \in Action, NEW b \in Snapshot, Put(t, i, row), LogOne(t, i, a, b, row),
           i < nextRow'[t], Known(slugs, t, i, row), Known(slugs, t, i, b),
           Sound(rows)', req' = req
    PROVE  UndoInv'
<1>1. /\ \A e \in Logged : e \in Logged' /\ ledger'[e] = ledger[e] /\ e < nextEntry
      /\ nextEntry \in Logged' /\ nextEntry \in EntryId /\ Logged' = Logged \cup {nextEntry}
      /\ nextEntry \notin Logged
      /\ ledger'[nextEntry] = NewEntry(t, i, a, b, row, nextEntry)
  BY LogOneShape
<1>2. /\ ledger'[nextEntry].type = t /\ ledger'[nextEntry].rid = i /\ ledger'[nextEntry].before = b
      /\ ledger'[nextEntry].after = row /\ ledger'[nextEntry].group = nextEntry
      /\ ledger'[nextEntry].of = 0
  BY <1>1, EntryType
<1>3. \A u \in Type, r \in RowId : rows'[u][r] = IF u = t /\ r = i THEN row ELSE rows[u][r]
  BY DEF Put, IInv, TypeOK
<1>4. nextEntry >= nextEntry
  BY LedgerAssumption DEF IInv, TypeOK
<1>5. \A e \in Logged' \ Logged :
        LET x == ledger'[e] IN
        /\ e >= nextEntry /\ x.group = nextEntry /\ x.of = 0
        /\ x.rid < nextRow'[x.type]
        /\ x.type = "dashboard_permission" => x.action # "update"
        /\ Known(slugs, x.type, x.rid, x.before) /\ Known(slugs, x.type, x.rid, x.after)
  BY <1>1, <1>2, <1>4
<1>6. \A u \in Type, r \in RowId :
        rows'[u][r] # Null => r < nextRow'[u] /\ Known(slugs, u, r, rows'[u][r])
  <2> SUFFICES ASSUME NEW u \in Type, NEW r \in RowId, rows'[u][r] # Null
               PROVE  r < nextRow'[u] /\ Known(slugs, u, r, rows'[u][r])
    OBVIOUS
  <2>1. CASE u = t /\ r = i
    BY <2>1, <1>3
  <2>2. CASE ~(u = t /\ r = i)
    <3>1. rows'[u][r] = rows[u][r] /\ r < nextRow[u] /\ r \in Nat /\ nextRow[u] \in Nat
      BY <2>2, <1>3, LedgerAssumption DEF UndoInv, KinInv, Exists, RowId, IInv, TypeOK
    <3>2. Known(slugOf, u, r, rows[u][r])
      BY DEF Identity
    <3> QED
      BY <3>1, <3>2 DEF Known
  <2> QED
    BY <2>1, <2>2
<1>7. \A e, f \in Logged' \ Logged : e = f
  BY <1>1
<1> QED
  BY <1>1, <1>5, <1>6, <1>7, CallerUndo

\* The rows and requests of a step that writes no entry.
LEMMA RowsUndo ==
    ASSUME IInv, UndoInv, NEW slugOf \in [RowId -> Slug \cup {Null}], Identity(slugOf),
           UNCHANGED <<ledgerVars, req>>, \A t \in Type : nextRow[t] <= nextRow'[t] /\ nextRow'[t] \in Nat,
           \A t \in Type, i \in RowId :
             rows'[t][i] # Null => i < nextRow'[t] /\ Known(slugOf, t, i, rows'[t][i]),
           Sound(rows)'
    PROVE  UndoInv'
<1>1. ledger' = ledger /\ Logged' = Logged /\ nextEntry' = nextEntry /\ req' = req
  BY DEF ledgerVars, Logged
<1>2. \A e \in Logged : e < nextEntry
  BY DEF IInv, LedgerInv, HistoryInv
<1> QED
  BY <1>1, <1>2, CallerUndo

\* What rows name is still there if no user, role or connection goes.
LEMMA KeysStill ==
    ASSUME Sound(rows),
           \A p \in RowId : rows["principal"][p] # Null => rows'["principal"][p] # Null,
           \A c \in RowId : rows["bi_connection"][c] # Null => rows'["bi_connection"][c] # Null,
           \A t \in Type, i \in RowId : rows'[t][i] # Null =>
             rows'[t][i] = rows[t][i] \/ KeysHold(rows, rows'[t][i])
    PROVE  \A t \in Type : \A i \in Has(rows', t) : KeysHold(rows', rows'[t][i])
<1>1. /\ Has(rows, "principal") \subseteq Has(rows', "principal")
      /\ Has(rows, "bi_connection") \subseteq Has(rows', "bi_connection")
  BY DEF Has
<1>2. ASSUME NEW t \in Type, NEW i \in Has(rows', t) PROVE KeysHold(rows, rows'[t][i])
  BY <1>2 DEF Sound, Has
<1> QED
  BY <1>1, <1>2 DEF KeysHold

\* What the database enforces still holds if no dashboard comes, goes or changes
\* its slug, and grants only go.
LEMMA SoundStill ==
    ASSUME Sound(rows),
           \A d \in RowId :
             /\ rows'["dashboard"][d] # Null <=> rows["dashboard"][d] # Null
             /\ rows["dashboard"][d] # Null => rows'["dashboard"][d].slug = rows["dashboard"][d].slug,
           \A g \in RowId : rows'["dashboard_permission"][g] \in {Null, rows["dashboard_permission"][g]},
           \A t \in Type : \A i \in Has(rows', t) : KeysHold(rows', rows'[t][i])
    PROVE  Sound(rows)'
  BY DEF Sound, Has

\* One row of another table than the dashboards' and their grants'.
LEMMA SoundElsewhere ==
    ASSUME IInv, UndoInv, NEW t \in {"report", "org_settings"}, NEW i \in RowId, NEW row, Put(t, i, row),
           row # Null => KeysHold(rows, row)
    PROVE  Sound(rows)'
<1>1. \A u \in Table, r \in RowId : rows'[u][r] = IF u = t /\ r = i THEN row ELSE rows[u][r]
  BY DEF Put, IInv, TypeOK
<1>2. Type \subseteq Table /\ {"principal", "bi_connection"} \subseteq Table
      /\ {"dashboard", "dashboard_permission"} \subseteq Type
  BY DEF Type
<1>3. Sound(rows)
  BY DEF UndoInv
<1>4. /\ \A r \in RowId : rows'["principal"][r] = rows["principal"][r]
      /\ \A r \in RowId : rows'["bi_connection"][r] = rows["bi_connection"][r]
      /\ \A r \in RowId : rows'["dashboard"][r] = rows["dashboard"][r]
      /\ \A r \in RowId : rows'["dashboard_permission"][r] = rows["dashboard_permission"][r]
  BY <1>1, <1>2 DEF Type
<1>5. \A u \in Type : \A r \in Has(rows', u) : KeysHold(rows', rows'[u][r])
  <2>1. \A u \in Type, r \in RowId : rows'[u][r] # Null =>
          rows'[u][r] = rows[u][r] \/ KeysHold(rows, rows'[u][r])
    BY <1>1, <1>2
  <2> QED
    BY <1>3, <1>4, <2>1, KeysStill
<1> QED
  BY <1>3, <1>4, <1>5, SoundStill

\* What a caller can name is there.
LEMMA NamedHold ==
    ASSUME NEW who \in Named("principal"), NEW row, row.who = who,
           row.conn = {} \/ row.conn \in Named("bi_connection")
    PROVE  KeysHold(rows, row)
  BY DEF Named, Present, Exists, KeysHold, Has

LEMMA NextIds ==
    ASSUME IInv
    PROVE  /\ \A t \in Type : nextRow[t] \in Nat
           /\ \A r \in RowId : r \in Nat
  BY LedgerAssumption DEF IInv, TypeOK, RowId

LEMMA CreateDashboardUndo ==
    ASSUME IInv, UndoInv, NEW s \in Slug, NEW v \in Value, NEW who \in SUBSET RowId,
           NEW conn \in SUBSET RowId, CreateDashboard(s, v, who, conn)
    PROVE  UndoInv'
<1> DEFINE row == [Empty EXCEPT !.slug = s, !.value = v, !.who = who, !.conn = conn]
           n == nextRow["dashboard"]
<1>1. row \in Row /\ row # Null /\ row.slug = s /\ row.who = who /\ row.conn = conn
  <2>1. row \in Row
    BY FreshDashboard
  <2> QED
    BY <2>1, Values DEF Empty
<1>1a. KeysHold(rows, row)
  BY <1>1, NamedHold DEF CreateDashboard
<1>2. /\ Put("dashboard", n, row) /\ LogOne("dashboard", n, "create", Null, row)
      /\ nextRow' = [nextRow EXCEPT !["dashboard"] = @ + 1] /\ req' = req /\ Room("dashboard", 1)
      /\ \A d \in Present("dashboard") : rows["dashboard"][d].slug # s
  BY DEF CreateDashboard, Insert
<1> HIDE DEF row
<1>3. /\ "dashboard" \in Type /\ Null \in Snapshot /\ row \in Snapshot /\ "create" \in Action
      /\ "dashboard_permission" \in Type
  BY <1>1 DEF Type, Snapshot, Action
<1>4. n \in RowId /\ n \in Nat /\ \A t \in Type : nextRow[t] <= nextRow'[t] /\ nextRow'[t] \in Nat
  BY <1>2, <1>3, NextIds, LedgerAssumption DEF Room, RowId, IInv, TypeOK
<1>5. n < nextRow'["dashboard"]
  BY <1>2, <1>3, <1>4 DEF IInv, TypeOK
<1>6. PICK slugOf \in [RowId -> Slug \cup {Null}] : Identity(slugOf)
  BY DEF UndoInv, IdentityInv
<1> DEFINE slugs == [slugOf EXCEPT ![n] = s]
<1>7. /\ slugs \in [RowId -> Slug \cup {Null}] /\ slugs[n] = s
      /\ \A d \in RowId : d < n => slugs[d] = slugOf[d]
  BY <1>4, <1>6, NextIds
<1> HIDE DEF slugs
<1>8. Known(slugs, "dashboard", n, row) /\ Known(slugs, "dashboard", n, Null)
  BY <1>1, <1>7 DEF Known
<1>9. Sound(rows)'
  <2>1. /\ \A d \in RowId : rows'["dashboard"][d] = IF d = n THEN row ELSE rows["dashboard"][d]
        /\ \A t \in Table \ {"dashboard"} : rows'[t] = rows[t]
    BY <1>2, <1>3 DEF Put, IInv, TypeOK
  <2>2. rows["dashboard"][n] = Null
    BY <1>3, <1>4 DEF UndoInv, KinInv, Exists
  <2>3. \A d \in RowId : rows["dashboard"][d] # Null => rows["dashboard"][d].slug # s
    BY <1>2 DEF Present, Exists
  <2>4. \A t \in Type : \A i \in Has(rows', t) : KeysHold(rows', rows'[t][i])
    <3>1. \A t \in Type, i \in RowId : rows'[t][i] # Null =>
            rows'[t][i] = rows[t][i] \/ KeysHold(rows, rows'[t][i])
      BY <2>1, <1>1a
    <3>2. rows'["principal"] = rows["principal"] /\ rows'["bi_connection"] = rows["bi_connection"]
      BY <2>1
    <3> QED
      BY <3>1, <3>2, KeysStill DEF UndoInv
  <2>5. rows'["dashboard_permission"] = rows["dashboard_permission"]
    BY <2>1, <1>3
  <2> QED
    BY <2>1, <2>2, <2>3, <2>4, <2>5, <1>1, <1>4 DEF Sound, Has, UndoInv
<1> QED
  BY <1>2, <1>3, <1>4, <1>5, <1>6, <1>7, <1>8, <1>9, WriteUndo

LEMMA UpdateUndo ==
    ASSUME IInv, UndoInv, NEW t \in {"dashboard", "report"}, NEW i \in RowId, NEW v \in Value,
           NEW conn \in SUBSET RowId, Update(t, i, v, conn)
    PROVE  UndoInv'
<1> DEFINE now == rows[t][i]
           row == [now EXCEPT !.value = v, !.conn = conn]
<1>1. now \in Row /\ t \in Type /\ now # Null /\ Exists(t, i)
  BY Loaded DEF Update, IInv, Type, Exists
<1>2. row \in Row /\ row.slug = now.slug /\ row # Null /\ row.who = now.who /\ row.conn = conn
  <2>1. row \in Row /\ row.slug = now.slug /\ row.who = now.who /\ row.conn = conn
    BY <1>1 DEF Row
  <2> QED
    BY <2>1, Values
<1>3. Put(t, i, row) /\ LogOne(t, i, "update", now, row) /\ UNCHANGED <<nextRow, req>>
  BY DEF Update
<1> HIDE DEF row
<1>4. now \in Snapshot /\ row \in Snapshot /\ "update" \in Action /\ t # "dashboard_permission"
  BY <1>1, <1>2 DEF Snapshot, Action
<1>5. /\ i < nextRow'[t]
      /\ \A u \in Type : nextRow[u] <= nextRow'[u] /\ nextRow'[u] \in Nat
  <2>1. i < nextRow[t] /\ nextRow' = nextRow
    BY <1>1, <1>3 DEF UndoInv, KinInv
  <2> QED
    BY <2>1, <1>1, NextIds
<1>6. PICK slugOf \in [RowId -> Slug \cup {Null}] : Identity(slugOf)
  BY DEF UndoInv, IdentityInv
<1>7. Known(slugOf, t, i, now)
  BY <1>1, <1>6 DEF Identity
<1>8. Known(slugOf, t, i, row)
  BY <1>1, <1>2, <1>4, <1>7 DEF Known
<1>9. Sound(rows)'
  <2>1. \A u \in Table, r \in RowId : rows'[u][r] = IF u = t /\ r = i THEN row ELSE rows[u][r]
    BY <1>1, <1>3 DEF Put, IInv, TypeOK
  <2>2. KeysHold(rows, row)
    <3>1. KeysHold(rows, now)
      BY <1>1 DEF UndoInv, Sound, Has, Exists
    <3>2. conn = now.conn \/ conn \in Named("bi_connection")
      BY DEF Update
    <3> QED
      BY <3>1, <3>2, <1>2 DEF KeysHold, Named, Present, Exists, Has
  <2>3. \A u \in Type, r \in RowId : rows'[u][r] # Null =>
          rows'[u][r] = rows[u][r] \/ KeysHold(rows, rows'[u][r])
    BY <2>1, <2>2
  <2>4. \A r \in RowId : /\ rows'["principal"][r] = rows["principal"][r]
                         /\ rows'["bi_connection"][r] = rows["bi_connection"][r]
                         /\ rows'["dashboard_permission"][r] = rows["dashboard_permission"][r]
                         /\ rows'["dashboard"][r] = IF t = "dashboard" /\ r = i THEN row ELSE rows["dashboard"][r]
    BY <2>1, <1>4 DEF Type
  <2>5. \A u \in Type : \A r \in Has(rows', u) : KeysHold(rows', rows'[u][r])
    BY <2>3, <2>4, KeysStill DEF UndoInv
  <2> QED
    BY <2>4, <2>5, <1>1, <1>2, <1>4, SoundStill DEF UndoInv
<1> HIDE DEF now
<1> QED
  BY <1>1, <1>3, <1>4, <1>5, <1>6, <1>7, <1>8, <1>9, WriteUndo

LEMMA SetNavUndo ==
    ASSUME IInv, UndoInv, NEW links \in SUBSET RowId, SetNav(links)
    PROVE  UndoInv'
<1> DEFINE row == [Nav EXCEPT !.refs = links]
<1>1. Nav \in Row /\ Exists("org_settings", NavRow)
  BY Loaded, Values DEF IInv, LedgerInv, SnapshotInv, Nav, Type, Exists
<1>2. row \in Row /\ row.who = Nav.who /\ row.conn = Nav.conn
  BY <1>1 DEF Row
<1>3. Put("org_settings", NavRow, row) /\ LogOne("org_settings", NavRow, "update", Nav, row)
      /\ UNCHANGED <<nextRow, req>>
  BY DEF SetNav
<1> HIDE DEF row
<1>3a. KeysHold(rows, row)
  BY <1>1, <1>2, Values DEF UndoInv, Sound, Has, KeysHold, Nav, Exists, Type
<1>4. /\ Nav \in Snapshot /\ row \in Snapshot /\ "update" \in Action /\ "org_settings" \in Type
      /\ NavRow \in RowId
  BY <1>1, <1>2, Values DEF Snapshot, Action, Type
<1>5. /\ NavRow < nextRow'["org_settings"]
      /\ \A u \in Type : nextRow[u] <= nextRow'[u] /\ nextRow'[u] \in Nat
  BY <1>1, <1>3, <1>4, NextIds DEF UndoInv, KinInv
<1>6. PICK slugOf \in [RowId -> Slug \cup {Null}] : Identity(slugOf)
  BY DEF UndoInv, IdentityInv
<1>7. \A x : Known(slugOf, "org_settings", NavRow, x)
  BY DEF Known
<1>8. Sound(rows)'
  BY <1>3, <1>3a, <1>4, SoundElsewhere
<1> QED
  BY <1>3, <1>4, <1>5, <1>6, <1>7, <1>8, WriteUndo

\* A report.
LEMMA ReportUndo ==
    ASSUME IInv, UndoInv, NEW i \in RowId, NEW row \in Snapshot, NEW a \in Action, NEW b \in Snapshot,
           Put("report", i, row), LogOne("report", i, a, b, row), row # Null => KeysHold(rows, row),
           \A t \in Type : nextRow[t] <= nextRow'[t] /\ nextRow'[t] \in Nat,
           i < nextRow'["report"], req' = req
    PROVE  UndoInv'
<1>1. PICK slugOf \in [RowId -> Slug \cup {Null}] : Identity(slugOf)
  BY DEF UndoInv, IdentityInv
<1>2. \A x : Known(slugOf, "report", i, x)
  BY DEF Known
<1>3. Sound(rows)'
  BY SoundElsewhere
<1>4. "report" \in Type
  BY DEF Type
<1> QED
  BY <1>1, <1>2, <1>3, <1>4, WriteUndo

LEMMA ReportsUndo ==
    ASSUME IInv, UndoInv,
           \/ \E v \in Value, who \in SUBSET RowId : CreateReport(v, who)
           \/ \E r \in RowId : DeleteReport(r)
    PROVE  UndoInv'
<1>0. "report" \in Type /\ Null \in Snapshot /\ {"create", "delete"} \subseteq Action
  BY DEF Type, Snapshot, Action
<1>1. ASSUME NEW v \in Value, NEW who \in SUBSET RowId, CreateReport(v, who) PROVE UndoInv'
  <2> DEFINE row == [Empty EXCEPT !.value = v, !.who = who]
             n == nextRow["report"]
  <2>1. row \in Snapshot /\ KeysHold(rows, row)
    <3>1. row.who = who /\ row.conn = {}
      BY DEF Empty
    <3> QED
      BY <1>1, <3>1, FreshReport, NamedHold DEF CreateReport, Snapshot
  <2>2. /\ Put("report", n, row) /\ LogOne("report", n, "create", Null, row) /\ Room("report", 1)
        /\ nextRow' = [nextRow EXCEPT !["report"] = @ + 1] /\ req' = req
    BY <1>1 DEF CreateReport, Insert
  <2>3. n \in RowId /\ n < nextRow'["report"]
        /\ \A t \in Type : nextRow[t] <= nextRow'[t] /\ nextRow'[t] \in Nat
    BY <1>0, <2>2, NextIds, LedgerAssumption DEF Room, RowId, IInv, TypeOK
  <2> HIDE DEF row
  <2> QED
    BY <1>0, <2>1, <2>2, <2>3, ReportUndo
<1>2. ASSUME NEW r \in RowId, DeleteReport(r) PROVE UndoInv'
  <2>1. Exists("report", r) /\ rows["report"][r] \in Snapshot
    BY <1>0, <1>2 DEF DeleteReport, IInv, TypeOK
  <2>2. /\ Put("report", r, Null) /\ LogOne("report", r, "delete", rows["report"][r], Null)
        /\ UNCHANGED <<nextRow, req>>
    BY <1>2 DEF DeleteReport
  <2>3. r < nextRow'["report"] /\ \A t \in Type : nextRow[t] <= nextRow'[t] /\ nextRow'[t] \in Nat
    BY <1>0, <2>1, <2>2, NextIds DEF UndoInv, KinInv
  <2> QED
    BY <1>0, <2>1, <2>2, <2>3, ReportUndo
<1> QED
  BY <1>1, <1>2

LEMMA ScheduledRunUndo ==
    ASSUME IInv, UndoInv, NEW r \in RowId, ScheduledRun(r)
    PROVE  UndoInv'
<1> DEFINE row == [rows["report"][r] EXCEPT !.runs = @ + 1]
<1>1. Exists("report", r) /\ Put("report", r, row) /\ UNCHANGED <<nextRow, ledgerVars, req>>
      /\ "report" \in Type
  BY DEF ScheduledRun, Type
<1>1a. KeysHold(rows, row)
  <2>1. KeysHold(rows, rows["report"][r]) /\ rows["report"][r] \in Row
    BY <1>1, Loaded DEF UndoInv, Sound, Has, Exists, IInv
  <2>2. row.who = rows["report"][r].who /\ row.conn = rows["report"][r].conn
    BY <2>1 DEF Row
  <2> QED
    BY <2>1, <2>2 DEF KeysHold
<1> HIDE DEF row
<1>2. \A u \in Type, i \in RowId : rows'[u][i] = IF u = "report" /\ i = r THEN row ELSE rows[u][i]
  BY <1>1 DEF Put, IInv, TypeOK
<1>3. PICK slugOf \in [RowId -> Slug \cup {Null}] : Identity(slugOf)
  BY DEF UndoInv, IdentityInv
<1>4. \A u \in Type, i \in RowId :
        rows'[u][i] # Null => i < nextRow'[u] /\ Known(slugOf, u, i, rows'[u][i])
  BY <1>1, <1>2, <1>3 DEF UndoInv, KinInv, Exists, Identity, Known
<1>5. Sound(rows)'
  BY <1>1, <1>1a, SoundElsewhere
<1> QED
  BY <1>1, <1>3, <1>4, <1>5, NextIds, RowsUndo

LEMMA SetPermissionsUndo ==
    ASSUME IInv, UndoInv, NEW d \in RowId, NEW n \in 0..1, NEW who \in SUBSET RowId,
           SetPermissions(d, n, who)
    PROVE  UndoInv'
<1> DEFINE t == "dashboard_permission"
           fresh == nextRow[t] .. (nextRow[t] + n - 1)
           grant == [Empty EXCEPT !.refs = {d}, !.who = who]
<1>0. t \in Type /\ "dashboard" \in Type
  BY DEF Type
<1>1. /\ Exists("dashboard", d)
      /\ nextRow' = [nextRow EXCEPT ![t] = @ + n] /\ UNCHANGED <<ledgerVars, req>>
  BY DEF SetPermissions
<1>2. \A u \in Table, i \in RowId :
        rows'[u][i] = IF u = t
                      THEN IF i \in fresh THEN grant ELSE IF i \in Grants(d) THEN Null ELSE rows[u][i]
                      ELSE rows[u][i]
  BY <1>0 DEF SetPermissions, IInv, TypeOK
<1>3. grant.refs = {d} /\ grant # Null /\ KeysHold(rows, grant)
  <2>1. grant.refs = {d} /\ grant.who = who /\ grant.conn = {}
    BY DEF Empty
  <2> QED
    BY <2>1, FreshGrant, Values, NamedHold DEF SetPermissions
<1>4. PICK slugOf \in [RowId -> Slug \cup {Null}] : Identity(slugOf)
  BY DEF UndoInv, IdentityInv
<1>5. /\ nextRow[t] \in Nat /\ nextRow'[t] = nextRow[t] + n
      /\ \A u \in Type : nextRow[u] <= nextRow'[u] /\ nextRow'[u] \in Nat
  BY <1>0, <1>1, NextIds DEF IInv, TypeOK
<1>6. \A i \in fresh : i < nextRow'[t]
  BY <1>5
<1> HIDE DEF grant, fresh
<1>7. \A u \in Type, i \in RowId :
        rows'[u][i] # Null => i < nextRow'[u] /\ Known(slugOf, u, i, rows'[u][i])
  <2> SUFFICES ASSUME NEW u \in Type, NEW i \in RowId, rows'[u][i] # Null
               PROVE  i < nextRow'[u] /\ Known(slugOf, u, i, rows'[u][i])
    OBVIOUS
  <2>1. CASE u = t /\ i \in fresh
    BY <2>1, <1>2, <1>3, <1>6 DEF Known
  <2>2. CASE ~(u = t /\ i \in fresh)
    <3>1. rows'[u][i] = rows[u][i]
      BY <2>2, <1>2
    <3>2. i < nextRow[u] /\ Known(slugOf, u, i, rows[u][i])
      BY <3>1, <1>4 DEF UndoInv, KinInv, Exists, Identity
    <3>3. i \in Nat /\ nextRow[u] \in Nat /\ nextRow'[u] \in Nat /\ nextRow[u] <= nextRow'[u]
      BY <1>5, NextIds
    <3> QED
      BY <3>1, <3>2, <3>3
  <2> QED
    BY <2>1, <2>2
<1>8. Sound(rows)'
  <2>1. /\ \A i \in RowId : rows'["principal"][i] = rows["principal"][i]
        /\ \A i \in RowId : rows'["bi_connection"][i] = rows["bi_connection"][i]
        /\ \A i \in RowId : rows'["dashboard"][i] = rows["dashboard"][i]
        /\ \A i \in RowId :
             rows'[t][i] = IF i \in fresh THEN grant ELSE IF i \in Grants(d) THEN Null ELSE rows[t][i]
    BY <1>2 DEF Type
  <2>2. \A u \in Type : \A i \in Has(rows', u) : KeysHold(rows', rows'[u][i])
    <3>1. \A u \in Type, i \in RowId : rows'[u][i] # Null =>
            rows'[u][i] = rows[u][i] \/ KeysHold(rows, rows'[u][i])
      BY <1>2, <1>3
    <3> QED
      BY <2>1, <3>1, KeysStill DEF UndoInv
  <2> QED
    BY <1>1, <1>3, <2>1, <2>2 DEF Sound, UndoInv, Has, Exists
<1> QED
  BY <1>1, <1>4, <1>5, <1>7, <1>8, RowsUndo

LEMMA DeleteDashboardUndo ==
    ASSUME IInv, UndoInv, NEW d \in RowId, DeleteDashboard(d)
    PROVE  UndoInv'
<1> DEFINE k == Cardinality(Grants(d))
           pruned == [Nav EXCEPT !.refs = @ \ {d}]
<1>1. PICK s \in Orders(Grants(d)) :
           /\ \A e \in Logged : e \in Logged' /\ ledger'[e] = ledger[e] /\ e < nextEntry
           /\ nextEntry \in Logged' \ Logged /\ ledger'[nextEntry] = DashboardEntry(d)
           /\ \A n \in 1..k : /\ nextEntry + n \in Logged' \ Logged
                              /\ ledger'[nextEntry + n] = GrantEntry(s[n])
           /\ d \in Nav.refs => /\ nextEntry + k + 1 \in Logged' \ Logged
                                /\ ledger'[nextEntry + k + 1] = LinkEntry(d)
           /\ \A e \in Logged' \ Logged :
                \/ e = nextEntry
                \/ \E n \in 1..k : e = nextEntry + n
                \/ d \in Nav.refs /\ e = nextEntry + k + 1
  BY DeletionShape
<1>2. k \in Nat /\ \A n \in 1..k : s[n] \in Grants(d)
  <2>1. k \in Nat /\ IsFiniteSet(Grants(d))
    BY DeletionRows
  <2> QED
    BY <2>1, Enumeration
<1> HIDE DEF k
<1>3. nextEntry \in Nat
  BY LedgerAssumption DEF IInv, TypeOK
<1>4. PICK slugOf \in [RowId -> Slug \cup {Null}] : Identity(slugOf)
  BY DEF UndoInv, IdentityInv
<1>5. /\ DashboardEntry(d).type = "dashboard" /\ DashboardEntry(d).rid = d
      /\ DashboardEntry(d).before = rows["dashboard"][d] /\ DashboardEntry(d).after = Null
      /\ DashboardEntry(d).group = nextEntry /\ DashboardEntry(d).of = 0
  BY DEF DashboardEntry, NewEntry
<1>6. /\ LinkEntry(d).type = "org_settings" /\ LinkEntry(d).rid = NavRow
      /\ LinkEntry(d).before = Nav /\ LinkEntry(d).after = pruned
      /\ LinkEntry(d).group = nextEntry /\ LinkEntry(d).of = 0
  BY DEF LinkEntry, NewEntry
<1>7. \A g : /\ GrantEntry(g).type = "dashboard_permission" /\ GrantEntry(g).rid = g
             /\ GrantEntry(g).before = rows["dashboard_permission"][g] /\ GrantEntry(g).after = Null
             /\ GrantEntry(g).group = nextEntry /\ GrantEntry(g).of = 0
             /\ GrantEntry(g).action = "delete"
  BY DEF GrantEntry, NewEntry
<1>8. /\ {"dashboard", "dashboard_permission", "org_settings"} \subseteq Type /\ NavRow \in RowId
      /\ Exists("dashboard", d) /\ Exists("org_settings", NavRow)
      /\ \A g \in Grants(d) : g \in RowId /\ Exists("dashboard_permission", g)
                              /\ d \in rows["dashboard_permission"][g].refs
      /\ \A g \in RowId : Exists("dashboard_permission", g) /\ d \in rows["dashboard_permission"][g].refs
                          => g \in Grants(d)
  BY Values DEF DeleteDashboard, Type, Grants, Present, Exists, IInv, LedgerInv, SnapshotInv, Nav
<1>9. \A g \in Grants(d) : rows["dashboard_permission"][g].refs = {d}
  <2> TAKE g \in Grants(d)
  <2>1. \E c \in RowId : rows["dashboard_permission"][g].refs = {c}
    BY <1>4, <1>8 DEF Identity, Known, Exists
  <2> QED
    BY <2>1, <1>8
<1>10. nextRow' = nextRow /\ req' = req
  BY DEF DeleteDashboard
<1>11. \A t \in Table, i \in RowId :
         rows'[t][i] = CASE t = "dashboard" /\ i = d -> Null
                         [] t = "dashboard_permission" /\ i \in Grants(d) -> Null
                         [] t = "org_settings" /\ i = NavRow -> pruned
                         [] OTHER -> rows[t][i]
  <2> HIDE DEF pruned
  <2>1. rows' = [rows EXCEPT !["dashboard"] = [@ EXCEPT ![d] = Null],
                       !["dashboard_permission"] = [g \in RowId |-> IF g \in Grants(d) THEN Null ELSE @[g]],
                       !["org_settings"] = [@ EXCEPT ![NavRow] = pruned]]
    BY DEF DeleteDashboard, pruned
  <2>2. /\ rows'["dashboard"] = [rows["dashboard"] EXCEPT ![d] = Null]
        /\ rows'["dashboard_permission"] =
             [g \in RowId |-> IF g \in Grants(d) THEN Null ELSE rows["dashboard_permission"][g]]
        /\ rows'["org_settings"] = [rows["org_settings"] EXCEPT ![NavRow] = pruned]
        /\ \A t \in Table \ {"dashboard", "dashboard_permission", "org_settings"} : rows'[t] = rows[t]
    BY <2>1, <1>8 DEF IInv, TypeOK
  <2>3. \A t \in Table : rows[t] \in [RowId -> Snapshot]
    BY DEF IInv, TypeOK
  <2> QED
    BY <2>2, <2>3, <1>8
<1> HIDE DEF pruned
<1>12. \A t \in Type, i \in RowId :
         rows'[t][i] # Null => i < nextRow'[t] /\ Known(slugOf, t, i, rows'[t][i])
  <2> SUFFICES ASSUME NEW t \in Type, NEW i \in RowId, rows'[t][i] # Null
               PROVE  i < nextRow[t] /\ Known(slugOf, t, i, rows'[t][i])
    BY <1>10
  <2>1. CASE t = "org_settings" /\ i = NavRow
    BY <2>1, <1>8 DEF UndoInv, KinInv, Known
  <2>2. CASE ~(t = "org_settings" /\ i = NavRow)
    <3>1. rows'[t][i] = rows[t][i]
      BY <2>2, <1>11
    <3> QED
      BY <3>1, <1>4 DEF UndoInv, KinInv, Exists, Identity
  <2> QED
    BY <2>1, <2>2
<1>13. Sound(rows)'
  <2>1. /\ \A i \in RowId : rows'["dashboard"][i] = IF i = d THEN Null ELSE rows["dashboard"][i]
        /\ \A g \in RowId : rows'["dashboard_permission"][g] =
                              IF g \in Grants(d) THEN Null ELSE rows["dashboard_permission"][g]
        /\ \A i \in RowId : rows'["principal"][i] = rows["principal"][i]
        /\ \A i \in RowId : rows'["bi_connection"][i] = rows["bi_connection"][i]
    BY <1>8, <1>11 DEF Type
  <2>2. KeysHold(rows, pruned)
    <3>1. KeysHold(rows, Nav) /\ Nav \in Row
      BY <1>8, Loaded DEF UndoInv, Sound, Has, Exists, Nav, IInv
    <3>2. pruned.who = Nav.who /\ pruned.conn = Nav.conn
      BY <3>1 DEF pruned, Row
    <3> QED
      BY <3>1, <3>2 DEF KeysHold
  <2>3. \A u \in Type : \A i \in Has(rows', u) : KeysHold(rows', rows'[u][i])
    <3>1. \A u \in Type, i \in RowId : rows'[u][i] # Null =>
            rows'[u][i] = rows[u][i] \/ KeysHold(rows, rows'[u][i])
      BY <1>11, <2>2
    <3> QED
      BY <2>1, <3>1, KeysStill DEF UndoInv
  <2> QED
    BY <2>1, <2>3, <1>8 DEF Sound, Has, UndoInv, Exists
<1>14. ASSUME NEW e \in Logged' \ Logged
       PROVE  LET x == ledger'[e] IN
              /\ e >= nextEntry /\ x.group = nextEntry /\ x.of = 0
              /\ x.rid < nextRow'[x.type]
              /\ x.type = "dashboard_permission" => x.action # "update"
              /\ Known(slugOf, x.type, x.rid, x.before) /\ Known(slugOf, x.type, x.rid, x.after)
  <2>1. CASE e = nextEntry
    <3>1. d < nextRow'["dashboard"] /\ Known(slugOf, "dashboard", d, rows["dashboard"][d])
      BY <1>4, <1>8, <1>10 DEF UndoInv, KinInv, Identity
    <3>2. Known(slugOf, "dashboard", d, Null)
      BY DEF Known
    <3> QED
      BY <2>1, <3>1, <3>2, <1>1, <1>3, <1>5
  <2>2. ASSUME NEW n \in 1..k, e = nextEntry + n
        PROVE  LET x == ledger'[e] IN
               /\ e >= nextEntry /\ x.group = nextEntry /\ x.of = 0
               /\ x.rid < nextRow'[x.type]
               /\ x.type = "dashboard_permission" => x.action # "update"
               /\ Known(slugOf, x.type, x.rid, x.before) /\ Known(slugOf, x.type, x.rid, x.after)
    <3> DEFINE g == s[n]
    <3>1. ledger'[e] = GrantEntry(g) /\ g \in Grants(d) /\ e >= nextEntry
      BY <2>2, <1>1, <1>2, <1>3
    <3>2. /\ g < nextRow'["dashboard_permission"]
          /\ Known(slugOf, "dashboard_permission", g, rows["dashboard_permission"][g])
      BY <3>1, <1>4, <1>8, <1>10 DEF UndoInv, KinInv, Identity
    <3>3. Known(slugOf, "dashboard_permission", g, Null)
      BY DEF Known
    <3> QED
      BY <3>1, <3>2, <3>3, <1>7
  <2>3. CASE d \in Nav.refs /\ e = nextEntry + k + 1
    <3>1. NavRow < nextRow'["org_settings"]
      BY <1>8, <1>10 DEF UndoInv, KinInv
    <3>2. \A x : Known(slugOf, "org_settings", NavRow, x)
      BY DEF Known
    <3>3. ledger'[e] = LinkEntry(d) /\ e >= nextEntry
      BY <2>3, <1>1, <1>2, <1>3
    <3> QED
      BY <3>1, <3>2, <3>3, <1>6
  <2> QED
    BY <2>1, <2>2, <2>3, <1>1
<1>15. ASSUME NEW e \in Logged' \ Logged, NEW f \in Logged' \ Logged,
              ledger'[e].type = "dashboard", ledger'[e].action = "delete", f # e
       PROVE  /\ e < f
              /\ \/ /\ ledger'[f].type = "dashboard_permission" /\ ledger'[f].action = "delete"
                    /\ ledger'[f].before.refs = {ledger'[e].rid}
                 \/ /\ ledger'[f].type = "org_settings"
                    /\ ledger'[e].rid \in ledger'[f].before.refs
  <2>1. e = nextEntry
    BY <1>1, <1>6, <1>7, <1>15
  <2>2. ledger'[e].rid = d
    BY <2>1, <1>1, <1>5
  <2>3. ASSUME NEW n \in 1..k, f = nextEntry + n
        PROVE  e < f /\ ledger'[f].type = "dashboard_permission" /\ ledger'[f].action = "delete"
               /\ ledger'[f].before.refs = {d}
    <3>1. ledger'[f] = GrantEntry(s[n]) /\ s[n] \in Grants(d)
      BY <2>3, <1>1, <1>2
    <3>2. e < f
      BY <2>1, <2>3, <1>2, <1>3
    <3> QED
      BY <3>1, <3>2, <1>7, <1>9
  <2>4. CASE d \in Nav.refs /\ f = nextEntry + k + 1
    <3>1. ledger'[f] = LinkEntry(d)
      BY <2>4, <1>1
    <3>2. e < f
      BY <2>1, <2>4, <1>2, <1>3
    <3> QED
      BY <2>2, <2>4, <3>1, <3>2, <1>6
  <2> QED
    BY <2>1, <2>2, <2>3, <2>4, <1>1, <1>15
<1> QED
  BY <1>1, <1>4, <1>10, <1>12, <1>13, <1>14, <1>15, NextIds, CallerUndo

LEMMA DeletePrincipalUndo ==
    ASSUME IInv, UndoInv, NEW p \in RowId, DeletePrincipal(p)
    PROVE  UndoInv'
<1>1. UNCHANGED <<nextRow, ledgerVars, req>>
  BY DEF DeletePrincipal
<1>2. \A t \in Table, i \in RowId :
        rows'[t][i] = IF t = "principal" /\ i = p THEN Null ELSE Without(p, t, rows[t][i])
  BY DEF DeletePrincipal
<1>3. ASSUME NEW t \in Table, NEW i \in RowId, rows[t][i] # Null, NEW row, row = Without(p, t, rows[t][i])
      PROVE  \/ row = Null /\ t \in {"dashboard_permission", "report"}
             \/ /\ row # Null /\ row.slug = rows[t][i].slug /\ row.refs = rows[t][i].refs
                /\ row.conn = rows[t][i].conn /\ row.who = rows[t][i].who \ {p}
  <2>1. rows[t][i] \in Row
    BY <1>3, Loaded DEF IInv, TypeOK, Snapshot
  <2> QED
    BY <1>3, <2>1, WithoutRow
<1>4. /\ {"dashboard", "dashboard_permission"} \subseteq Type /\ Type \subseteq Table
      /\ {"principal", "bi_connection"} \subseteq Table /\ "principal" \notin Type
  BY DEF Type
<1>5. ASSUME NEW t \in Type, NEW i \in RowId, rows'[t][i] # Null
      PROVE  /\ rows[t][i] # Null
             /\ rows'[t][i].slug = rows[t][i].slug /\ rows'[t][i].refs = rows[t][i].refs
             /\ rows'[t][i].conn = rows[t][i].conn /\ rows'[t][i].who = rows[t][i].who \ {p}
  <2>1. rows'[t][i] = Without(p, t, rows[t][i])
    BY <1>2, <1>4
  <2>2. rows[t][i] # Null
    BY <1>5, <2>1 DEF Without
  <2> QED
    BY <1>3, <1>4, <1>5, <2>1, <2>2
<1>6. \A d \in RowId : rows["dashboard"][d] # Null => rows'["dashboard"][d] # Null
  BY <1>2, <1>3, <1>4
<1>7. PICK slugOf \in [RowId -> Slug \cup {Null}] : Identity(slugOf)
  BY DEF UndoInv, IdentityInv
<1>8. \A t \in Type, i \in RowId :
        rows'[t][i] # Null => i < nextRow'[t] /\ Known(slugOf, t, i, rows'[t][i])
  <2> SUFFICES ASSUME NEW t \in Type, NEW i \in RowId, rows'[t][i] # Null
               PROVE  i < nextRow'[t] /\ Known(slugOf, t, i, rows'[t][i])
    OBVIOUS
  <2>1. i < nextRow[t] /\ Known(slugOf, t, i, rows[t][i]) /\ nextRow' = nextRow
    BY <1>1, <1>5, <1>7 DEF UndoInv, KinInv, Exists, Identity
  <2> QED
    BY <1>5, <2>1 DEF Known
<1>9. Sound(rows)'
  <2>1. /\ Has(rows, "principal") \ {p} \subseteq Has(rows', "principal")
        /\ Has(rows, "bi_connection") \subseteq Has(rows', "bi_connection")
    BY <1>2, <1>3, <1>4 DEF Has
  <2>2. Has(rows', "dashboard") = Has(rows, "dashboard")
    BY <1>4, <1>5, <1>6 DEF Has
  <2>3. ASSUME NEW t \in Type, NEW i \in Has(rows', t) PROVE KeysHold(rows', rows'[t][i])
    <3>1. i \in Has(rows, t) /\ i \in RowId /\ rows'[t][i] # Null
      BY <1>5 DEF Has
    <3>2. KeysHold(rows, rows[t][i])
      BY <3>1 DEF UndoInv, Sound
    <3> QED
      BY <1>5, <2>1, <3>1, <3>2 DEF KeysHold
  <2>4. \A g \in Has(rows', "dashboard_permission") :
          /\ g \in Has(rows, "dashboard_permission")
          /\ rows'["dashboard_permission"][g].refs = rows["dashboard_permission"][g].refs
    BY <1>4, <1>5 DEF Has
  <2>5. \A d \in Has(rows', "dashboard") : rows'["dashboard"][d].slug = rows["dashboard"][d].slug
    BY <1>4, <1>5 DEF Has
  <2> QED
    BY <2>2, <2>3, <2>4, <2>5 DEF Sound, UndoInv
<1> QED
  BY <1>1, <1>7, <1>8, <1>9, NextIds, RowsUndo

LEMMA DeleteConnectionUndo ==
    ASSUME IInv, UndoInv, NEW c \in RowId, DeleteConnection(c)
    PROVE  UndoInv'
<1>1. Put("bi_connection", c, Null) /\ UNCHANGED <<nextRow, ledgerVars, req>>
      /\ \A t \in Type, i \in RowId : rows[t][i] # Null => c \notin rows[t][i].conn
  BY DEF DeleteConnection, Present, Exists
<1>2. \A t \in Table, i \in RowId : rows'[t][i] = IF t = "bi_connection" /\ i = c THEN Null ELSE rows[t][i]
  BY <1>1 DEF Put, IInv, TypeOK
<1>3. \A t \in Type, i \in RowId : rows'[t][i] = rows[t][i]
  BY <1>2 DEF Type
<1>4. {"dashboard", "dashboard_permission"} \subseteq Type
  BY DEF Type
<1>5. PICK slugOf \in [RowId -> Slug \cup {Null}] : Identity(slugOf)
  BY DEF UndoInv, IdentityInv
<1>6. \A t \in Type, i \in RowId :
        rows'[t][i] # Null => i < nextRow'[t] /\ Known(slugOf, t, i, rows'[t][i])
  BY <1>1, <1>3, <1>5 DEF UndoInv, KinInv, Exists, Identity
<1>7. Sound(rows)'
  <2>1. Has(rows, "principal") = Has(rows', "principal")
        /\ Has(rows, "bi_connection") \ {c} \subseteq Has(rows', "bi_connection")
        /\ \A t \in Type : Has(rows', t) = Has(rows, t)
    BY <1>2, <1>3 DEF Has
  <2>2. ASSUME NEW t \in Type, NEW i \in Has(rows', t) PROVE KeysHold(rows', rows'[t][i])
    <3>1. i \in Has(rows, t) /\ i \in RowId /\ rows[t][i] # Null /\ rows'[t][i] = rows[t][i]
      BY <1>3, <2>1 DEF Has
    <3>2. KeysHold(rows, rows[t][i])
      BY <3>1 DEF UndoInv, Sound
    <3> QED
      BY <1>1, <2>1, <3>1, <3>2 DEF KeysHold
  <2>3. \A t \in Type : \A i \in Has(rows', t) : rows'[t][i] = rows[t][i]
    BY <1>3 DEF Has
  <2> QED
    BY <1>4, <2>1, <2>2, <2>3 DEF Sound, UndoInv
<1> QED
  BY <1>1, <1>5, <1>6, <1>7, NextIds, RowsUndo

\* A request moves on by itself.
LEMMA RequestUndo ==
    ASSUME IInv, UndoInv, NEW slugOf \in [RowId -> Slug \cup {Null}], Identity(slugOf),
           NEW q \in Request, NEW r, req' = [req EXCEPT ![q] = r], UNCHANGED <<rows, nextRow, ledgerVars>>,
           r.op # "none" => \A e, f \in r.ids \cap Logged : ledger[e].group = ledger[f].group,
           r.op = "loaded" =>
             \A e \in r.ids \cap Logged : Known(slugOf, ledger[e].type, ledger[e].rid, r.seen[e])
    PROVE  UndoInv'
<1>1. /\ ledger' = ledger /\ nextEntry' = nextEntry /\ rows' = rows /\ nextRow' = nextRow
      /\ Logged' = Logged
  BY DEF ledgerVars, Logged
<1>2. \A p \in Request : req'[p] = IF p = q THEN r ELSE req[p]
  BY DEF IInv, TypeOK
<1>3. KinInv'
  <2>1. \A p \in Request : req'[p].op # "none" =>
          \A e, f \in req'[p].ids \cap Logged : ledger[e].group = ledger[f].group
    BY <1>2 DEF UndoInv, KinInv
  <2> QED
    BY <2>1, <1>1 DEF UndoInv, KinInv, Exists
<1>4. DeletionsInv'
  BY <1>1 DEF UndoInv, DeletionsInv, Group
<1>5. IdentityInv'
  <2>1. \A p \in Request : req'[p].op = "loaded" =>
          \A e \in req'[p].ids \cap Logged :
            Known(slugOf, ledger[e].type, ledger[e].rid, req'[p].seen[e])
    BY <1>2 DEF Identity
  <2>2. Identity(slugOf)'
    BY <2>1, <1>1 DEF Identity, Known
  <2> QED
    BY <2>2 DEF IdentityInv
<1>6. Sound(rows)'
  BY <1>1 DEF UndoInv, Sound, Has, KeysHold
<1> QED
  BY <1>3, <1>4, <1>5, <1>6 DEF UndoInv

LEMMA RevertReadUndo ==
    ASSUME IInv, UndoInv, NEW q \in Request, NEW e \in Logged, NEW ids \in Reverts(e),
           NEW force \in BOOLEAN, RevertRead(q, ids, force)
    PROVE  UndoInv'
<1> DEFINE r == [op |-> "read", ids |-> ids, force |-> force]
<1>1. \A f \in ids : ledger[f].group = ledger[e].group
  BY DEF Reverts, Pending, Group
<1>2. req' = [req EXCEPT ![q] = r] /\ UNCHANGED <<rows, nextRow, ledgerVars>>
  BY DEF RevertRead
<1>3. r.op = "read" /\ r.ids = ids
  OBVIOUS
<1>4. PICK slugOf \in [RowId -> Slug \cup {Null}] : Identity(slugOf)
  BY DEF UndoInv, IdentityInv
<1> HIDE DEF r
<1> QED
  BY <1>1, <1>2, <1>3, <1>4, RequestUndo

LEMMA RevertLoadUndo ==
    ASSUME IInv, UndoInv, NEW q \in Request, RevertLoad(q)
    PROVE  UndoInv'
<1> DEFINE ids == req[q].ids
           seen == [e \in EntryId |-> IF e \in ids /\ e \in Logged THEN Target(e) ELSE Null]
           r == [op |-> "loaded", ids |-> ids, seen |-> seen]
<1>1. /\ req[q].op = "read" /\ UNCHANGED <<rows, nextRow, ledgerVars>>
      /\ req' = [req EXCEPT ![q] = Idle] \/ req' = [req EXCEPT ![q] = r]
  BY DEF RevertLoad, Answer
<1>2. PICK slugOf \in [RowId -> Slug \cup {Null}] : Identity(slugOf)
  BY DEF UndoInv, IdentityInv
<1>3. ASSUME NEW e \in ids \cap Logged PROVE Known(slugOf, ledger[e].type, ledger[e].rid, seen[e])
  <2>1. seen[e] = Target(e)
    BY <1>3 DEF Logged
  <2>2. ledger[e].type \in Type /\ ledger[e].rid \in RowId
    BY Loaded DEF IInv, Entry
  <2>3. Known(slugOf, ledger[e].type, ledger[e].rid, rows[ledger[e].type][ledger[e].rid])
    BY <1>2, <2>2 DEF Identity
  <2>4. Known(slugOf, ledger[e].type, ledger[e].rid, Null)
    BY DEF Known
  <2> HIDE DEF seen
  <2> QED
    BY <2>1, <2>3, <2>4 DEF Target
<1>4. \A e, f \in ids \cap Logged : ledger[e].group = ledger[f].group
  BY <1>1 DEF UndoInv, KinInv
<1>5. r.op = "loaded" /\ r.ids = ids /\ r.seen = seen /\ Idle.op = "none"
  BY DEF Idle
<1> HIDE DEF seen, r
<1>6. CASE req' = [req EXCEPT ![q] = Idle]
  BY <1>1, <1>2, <1>5, <1>6, RequestUndo
<1>7. CASE req' = [req EXCEPT ![q] = r]
  BY <1>1, <1>2, <1>3, <1>4, <1>5, <1>7, RequestUndo, ZenonT(60)
<1> QED
  BY <1>1, <1>6, <1>7

LEMMA CommitUndo ==
    ASSUME IInv, UndoInv, NEW q \in Request, NEW s, Undoing(q, s),
           rows' = Undone(s, req[q].seen),
           nextRow' = [t \in Type |-> nextRow[t] + Restorations(s, t)],
           Record(s, req[q].seen), req' = [req EXCEPT ![q] = Idle]
    PROVE  UndoInv'
<1> DEFINE ids == req[q].ids
           seen == req[q].seen
           inverse(i) == InverseOf(s, i, seen)
           back(i, t, r) == i \in Deletes(s) /\ ledger[s[i]].type = t /\ NewId(s, i) = r
<1>1. /\ \A e \in Logged :
           /\ e \in Logged' /\ e < nextEntry
           /\ ledger'[e] = IF e \in ids THEN [ledger[e] EXCEPT !.reverted = TRUE] ELSE ledger[e]
      /\ \A e \in Logged' \ Logged : e >= nextEntry /\ \E i \in DOMAIN s : ledger'[e] = inverse(i)
  BY CommitShape
<1>2. \A e \in Logged :
        /\ ledger[e] \in Entry
        /\ ledger'[e].type = ledger[e].type /\ ledger'[e].rid = ledger[e].rid
        /\ ledger'[e].group = ledger[e].group /\ ledger'[e].of = ledger[e].of
        /\ ledger'[e].before = ledger[e].before /\ ledger'[e].after = ledger[e].after
        /\ ledger'[e].action = ledger[e].action
  <2> TAKE e \in Logged
  <2>1. ledger[e] \in Entry
    BY Loaded DEF IInv
  <2>2. CASE e \in ids
    <3>1. ledger'[e] = [ledger[e] EXCEPT !.reverted = TRUE]
      BY <2>2, <1>1
    <3> QED
      BY <2>1, <3>1 DEF Entry
  <2>3. CASE e \notin ids
    BY <2>1, <2>3, <1>1
  <2> QED
    BY <2>2, <2>3
<1>3. Planned(ids, s) /\ Sound(Undone(s, seen))
  BY UndoingPlanned DEF Undoing, Commits
<1>4. \A i \in DOMAIN s : s[i] \in ids /\ s[i] \in Logged /\ s[i] \in EntryId /\ ledger[s[i]] \in Entry
  BY <1>3, OrderFacts DEF Planned, Logged
<1>5. PICK slugOf \in [RowId -> Slug \cup {Null}] : Identity(slugOf)
  BY DEF UndoInv, IdentityInv
<1>6. nextEntry \in Nat /\ \A e \in Logged' : e \in Nat
  BY LedgerAssumption DEF IInv, TypeOK, Logged, EntryId
<1>7. \A t \in Type : /\ nextRow[t] \in Nat /\ Restorations(s, t) \in Nat
                      /\ nextRow'[t] = nextRow[t] + Restorations(s, t)
  <2> TAKE t \in Type
  <2>1. IsFiniteSet({i \in Deletes(s) : ledger[s[i]].type = t})
    BY <1>3, OrderFacts, FS_Subset DEF Planned
  <2> QED
    BY <2>1, FS_CardinalityType, NextIds DEF Restorations
<1>8. \A r \in RowId : r \in Nat
  BY NextIds
<1>9. \A i \in Deletes(s) :
        LET t == ledger[s[i]].type IN
        /\ t \in Type /\ NewId(s, i) \in RowId /\ NewId(s, i) >= nextRow[t] /\ NewId(s, i) < nextRow'[t]
        /\ rows'[t][NewId(s, i)] = Recreated(s, i)
        /\ \A j : back(j, t, NewId(s, i)) => i = j
  BY <1>3, <1>7, NewIds, NewRow DEF UndoInv
<1>10. \A i \in Deletes(s) : i \in DOMAIN s /\ ledger[s[i]].action = "delete"
  BY DEF Deletes
<1>11. \A i \in Deletes(s) : ledger[s[i]].before \in Row /\ ledger[s[i]].before # Null
  BY <1>4, <1>10 DEF IInv, LedgerInv, SnapshotInv, Entry, Snapshot
<1>12. PICK slugs \in [RowId -> Slug \cup {Null}] :
          /\ \A i \in Deletes(s) : ledger[s[i]].type = "dashboard" =>
               slugs[NewId(s, i)] = ledger[s[i]].before.slug
          /\ \A r \in RowId : r < nextRow["dashboard"] => slugs[r] = slugOf[r]
  <2> DEFINE table == [r \in RowId |->
                         IF \E i : back(i, "dashboard", r)
                         THEN ledger[s[CHOOSE i : back(i, "dashboard", r)]].before.slug ELSE slugOf[r]]
  <2>1. table \in [RowId -> Slug \cup {Null}]
    <3> SUFFICES ASSUME NEW r \in RowId, NEW j, back(j, "dashboard", r)
                 PROVE  ledger[s[CHOOSE i : back(i, "dashboard", r)]].before.slug \in Slug \cup {Null}
      BY <1>5
    <3>1. (CHOOSE i : back(i, "dashboard", r)) \in Deletes(s)
      OBVIOUS
    <3> QED
      BY <3>1, <1>11 DEF Row
  <2>2. \A i \in Deletes(s) : ledger[s[i]].type = "dashboard" =>
           table[NewId(s, i)] = ledger[s[i]].before.slug
    <3> SUFFICES ASSUME NEW i \in Deletes(s), ledger[s[i]].type = "dashboard"
                 PROVE  table[NewId(s, i)] = ledger[s[i]].before.slug
      OBVIOUS
    <3>1. back(i, "dashboard", NewId(s, i)) /\ \A j : back(j, "dashboard", NewId(s, i)) => i = j
      BY <1>9
    <3>2. (CHOOSE j : back(j, "dashboard", NewId(s, i))) = i
      BY <3>1
    <3> QED
      BY <3>1, <3>2, <1>9
  <2>3. \A r \in RowId : r < nextRow["dashboard"] => table[r] = slugOf[r]
    <3> SUFFICES ASSUME NEW r \in RowId, r < nextRow["dashboard"], NEW i, back(i, "dashboard", r) PROVE FALSE
      OBVIOUS
    <3>1. r >= nextRow["dashboard"] /\ "dashboard" \in Type
      BY <1>9 DEF Type
    <3> QED
      BY <3>1, <1>7, <1>8
  <2> HIDE DEF table
  <2> QED
    BY <2>1, <2>2, <2>3
<1> HIDE DEF inverse, back
\* What was known before still is.
<1>16. \A t \in Type, r \in RowId : \A x : r < nextRow[t] /\ Known(slugOf, t, r, x) => Known(slugs, t, r, x)
  BY <1>12 DEF Known
<1>17. \A i \in DOMAIN s :
         LET e == ledger[s[i]] IN
         /\ e.rid < nextRow[e.type] /\ e.rid \in RowId /\ e.type \in Type
         /\ Known(slugs, e.type, e.rid, e.before) /\ Known(slugs, e.type, e.rid, e.after)
         /\ Known(slugs, e.type, e.rid, seen[s[i]])
         /\ Known(slugOf, e.type, e.rid, e.before) /\ Known(slugOf, e.type, e.rid, seen[s[i]])
  <2> TAKE i \in DOMAIN s
  <2> DEFINE e == ledger[s[i]]
  <2>1. e.rid < nextRow[e.type] /\ e.rid \in RowId /\ e.type \in Type
    BY <1>4 DEF UndoInv, KinInv, Entry
  <2>2. /\ Known(slugOf, e.type, e.rid, e.before) /\ Known(slugOf, e.type, e.rid, e.after)
        /\ Known(slugOf, e.type, e.rid, seen[s[i]])
    BY <1>4, <1>5 DEF Identity, Undoing
  <2> HIDE DEF e
  <2>3. /\ Known(slugs, e.type, e.rid, e.before) /\ Known(slugs, e.type, e.rid, e.after)
        /\ Known(slugs, e.type, e.rid, seen[s[i]])
    BY <2>1, <2>2, <1>16
  <2> QED
    BY <2>1, <2>2, <2>3 DEF e
<1>18. \A i \in Deletes(s) : Known(slugs, ledger[s[i]].type, NewId(s, i), Recreated(s, i))
  <2> TAKE i \in Deletes(s)
  <2> DEFINE e == ledger[s[i]]
  <2>1. CASE e.type = "dashboard"
    <3>1. Recreated(s, i) = e.before
      BY <2>1 DEF Recreated
    <3> QED
      BY <2>1, <3>1, <1>12 DEF Known
  <2>2. CASE e.type = "dashboard_permission"
    <3>1. PICK d \in RowId : e.before.refs = {d}
      BY <2>2, <1>10, <1>11, <1>17 DEF Known
    <3>2. Recreated(s, i) = [e.before EXCEPT !.refs = Remap(s, i - 1, {d})]
      BY <2>2, <3>1 DEF Recreated
    <3>3. Recreated(s, i).refs = Remap(s, i - 1, {d})
      BY <3>2, <1>11 DEF Row
    <3>4. PICK c \in RowId : Remap(s, i - 1, {d}) = {c}
      BY <1>3, <1>5, RemapOne DEF UndoInv
    <3> QED
      BY <2>2, <3>3, <3>4 DEF Known
  <2>3. CASE e.type \notin {"dashboard", "dashboard_permission"}
    BY <2>3 DEF Known
  <2> QED
    BY <2>1, <2>2, <2>3
<1>19. \A t \in Type, r \in RowId :
         rows'[t][r] # Null => r < nextRow'[t] /\ Known(slugs, t, r, rows'[t][r])
  <2> SUFFICES ASSUME NEW t \in Type, NEW r \in RowId, rows'[t][r] # Null
               PROVE  r < nextRow'[t] /\ Known(slugs, t, r, rows'[t][r])
    OBVIOUS
  <2>1. ASSUME NEW i, back(i, t, r)
        PROVE  r < nextRow'[t] /\ Known(slugs, t, r, rows'[t][r])
    <3>1. i \in Deletes(s) /\ ledger[s[i]].type = t /\ NewId(s, i) = r
      BY <2>1 DEF back
    <3> QED
      BY <3>1, <1>9, <1>18
  <2>2. ASSUME \A i : ~back(i, t, r)
        PROVE  r < nextRow'[t] /\ Known(slugs, t, r, rows'[t][r])
    <3>1. \/ rows'[t][r] = rows[t][r]
          \/ /\ rows[t][r] # Null
             /\ \E i \in At(s, t, r) : rows'[t][r] = Restored(s, i, seen[s[i]])
      BY <2>2, <1>3, OldRow DEF back
    <3>2. rows[t][r] # Null
      BY <3>1
    <3>3. r < nextRow[t] /\ Known(slugOf, t, r, rows[t][r])
      BY <3>2, <1>5 DEF UndoInv, KinInv, Exists, Identity
    <3>4. r < nextRow'[t]
      BY <3>3, <1>7, <1>8
    <3>5. CASE rows'[t][r] = rows[t][r]
      BY <3>3, <3>4, <3>5, <1>16
    <3>6. ASSUME NEW i \in At(s, t, r), rows'[t][r] = Restored(s, i, seen[s[i]])
          PROVE  Known(slugs, t, r, rows'[t][r])
      <4>1. /\ i \in DOMAIN s /\ ledger[s[i]].action = "update"
            /\ ledger[s[i]].type = t /\ ledger[s[i]].rid = r
        BY <3>6 DEF At
      <4>2. t # "dashboard_permission"
        BY <4>1, <1>4 DEF UndoInv, KinInv
      <4>3. ASSUME t = "dashboard" PROVE rows'[t][r].slug = slugs[r]
        <5>1. ledger[s[i]].before # Null /\ rows[t][r].slug = slugOf[r]
          BY <4>1, <4>3, <3>2, <3>3, <1>4 DEF Known, IInv, LedgerInv, SnapshotInv
        <5>2. ledger[s[i]].before.slug = slugOf[r]
          BY <4>1, <4>3, <5>1, <1>17 DEF Known
        <5>3. rows'[t][r].slug = slugOf[r]
          BY <3>6, <4>1, <5>1, <5>2 DEF Restored
        <5> QED
          BY <4>3, <5>3, <3>3, <1>12
      <4> QED
        BY <4>2, <4>3 DEF Known
    <3> QED
      BY <3>1, <3>4, <3>5, <3>6
  <2> QED
    BY <2>1, <2>2
<1>20. \A i \in DOMAIN s :
         LET x == inverse(i)
             e == ledger[s[i]] IN
         /\ x.group = e.group /\ x.of = s[i] /\ s[i] \in EntryId
         /\ x.rid < nextRow'[x.type]
         /\ x.type = "dashboard_permission" => x.action # "update"
         /\ Known(slugs, x.type, x.rid, x.before) /\ Known(slugs, x.type, x.rid, x.after)
  <2> TAKE i \in DOMAIN s
  <2> DEFINE x == inverse(i)
             e == ledger[s[i]]
  <2>1. /\ x.type = e.type /\ x.group = e.group /\ x.of = s[i]
        /\ e.action = "create" =>
             x.action = "delete" /\ x.rid = e.rid /\ x.after = Null
             /\ x.before = IF seen[s[i]] = Null THEN e.after ELSE seen[s[i]]
        /\ e.action = "update" =>
             x.action = "update" /\ x.rid = e.rid /\ x.before = seen[s[i]] /\ x.after = e.before
        /\ e.action = "delete" =>
             x.action = "create" /\ x.rid = NewId(s, i) /\ x.before = Null /\ x.after = Recreated(s, i)
    BY InverseFields DEF inverse
  <2>2. e.action \in Action /\ s[i] \in EntryId /\ s[i] \in Logged
    BY <1>4 DEF Entry
  <2>3. /\ e.rid < nextRow[e.type] /\ e.rid \in RowId /\ e.type \in Type
        /\ Known(slugs, e.type, e.rid, e.before) /\ Known(slugs, e.type, e.rid, e.after)
        /\ Known(slugs, e.type, e.rid, seen[s[i]])
    BY <1>17
  <2>4. e.rid < nextRow'[e.type]
    BY <2>3, <1>7, <1>8
  <2>5. e.type = "dashboard_permission" => e.action # "update"
    BY <2>2 DEF UndoInv, KinInv
  <2>6. \A t, r : Known(slugs, t, r, Null)
    BY DEF Known
  <2>7. e.action = "delete" => /\ NewId(s, i) < nextRow'[e.type]
                               /\ Known(slugs, e.type, NewId(s, i), Recreated(s, i))
    BY <1>9, <1>18 DEF Deletes
  <2> DEFINE fine == /\ x.group = e.group /\ x.of = s[i] /\ s[i] \in EntryId
                     /\ x.rid < nextRow'[x.type]
                     /\ x.type = "dashboard_permission" => x.action # "update"
                     /\ Known(slugs, x.type, x.rid, x.before) /\ Known(slugs, x.type, x.rid, x.after)
  <2> HIDE DEF e, x
  <2>8. ASSUME e.action = "create" PROVE fine
    <3>1. Known(slugs, x.type, x.rid, x.before) /\ Known(slugs, x.type, x.rid, x.after)
      BY <2>1, <2>3, <2>6, <2>8
    <3> QED
      BY <3>1, <2>1, <2>2, <2>4, <2>8
  <2>9. ASSUME e.action = "update" PROVE fine
    <3>1. Known(slugs, x.type, x.rid, x.before) /\ Known(slugs, x.type, x.rid, x.after)
      BY <2>1, <2>3, <2>9
    <3> QED
      BY <3>1, <2>1, <2>2, <2>4, <2>5, <2>9
  <2>10. ASSUME e.action = "delete" PROVE fine
    <3>1. Known(slugs, x.type, x.rid, x.before) /\ Known(slugs, x.type, x.rid, x.after)
      BY <2>1, <2>6, <2>7, <2>10
    <3> QED
      BY <3>1, <2>1, <2>2, <2>7, <2>10
  <2>11. fine
    BY <2>8, <2>9, <2>10, <2>2 DEF Action
  <2> QED
    BY <2>11 DEF e, x
<1>21. \A p \in Request : req'[p].op # "none" =>
         req'[p] = req[p] /\ req[p].ids \cap Logged' = req[p].ids \cap Logged
  <2> SUFFICES ASSUME NEW p \in Request, req'[p].op # "none"
               PROVE  req'[p] = req[p] /\ req[p].ids \cap Logged' = req[p].ids \cap Logged
    OBVIOUS
  <2>1. req'[p] = req[p]
    BY DEF Idle, IInv, TypeOK
  <2>2. \A e \in req[p].ids : e < nextEntry
    BY <2>1, IdsPast
  <2>3. \A e \in Logged : e \in Logged'
    BY <1>1
  <2>4. \A e \in Logged' : e \in req[p].ids => e \in Logged
    BY <2>2, <1>1, <1>6
  <2> QED
    BY <2>1, <2>3, <2>4
<1>22. KinInv'
  <2>1. \A t \in Type, i \in RowId : Exists(t, i)' => i < nextRow'[t]
    BY <1>19 DEF Exists
  <2>2. ASSUME NEW e \in Logged'
        PROVE  /\ ledger'[e].rid < nextRow'[ledger'[e].type] /\ ledger'[e].group <= e
               /\ ledger'[e].type = "dashboard_permission" => ledger'[e].action # "update"
               /\ ledger'[e].of # 0 => ledger'[ledger'[e].of].group = ledger'[e].group
    <3>1. CASE e \in Logged
      <4>1. /\ ledger[e].rid < nextRow[ledger[e].type] /\ ledger[e].rid \in RowId /\ ledger[e].type \in Type
        BY <3>1, <1>2 DEF UndoInv, KinInv, Entry
      <4>2. ledger'[e].rid < nextRow'[ledger'[e].type]
        BY <3>1, <4>1, <1>2, <1>7, <1>8
      <4>3. ledger[e].of # 0 => ledger[e].of \in Logged
        BY <3>1 DEF IInv, LedgerInv, HistoryInv
      <4> QED
        BY <3>1, <4>2, <4>3, <1>2 DEF UndoInv, KinInv
    <3>2. CASE e \notin Logged
      <4>1. PICK i \in DOMAIN s : ledger'[e] = inverse(i)
        BY <3>2, <1>1
      <4>2. ledger'[e].group = ledger[s[i]].group /\ ledger'[e].of = s[i] /\ s[i] \in Logged
        BY <4>1, <1>4, <1>20
      <4>3. ledger[s[i]].group <= s[i] /\ s[i] < nextEntry /\ s[i] \in Nat /\ ledger[s[i]].group \in Nat
        <5>1. s[i] \in Nat /\ ledger[s[i]].group \in Nat
          BY <4>2, <1>4 DEF Entry, EntryId
        <5> QED
          BY <5>1, <4>2, <1>1 DEF UndoInv, KinInv
      <4>4. e >= nextEntry
        BY <3>2, <1>1
      <4>5. ledger'[e].group <= e
        BY <4>2, <4>3, <4>4, <1>6
      <4> QED
        BY <4>1, <4>2, <4>5, <1>2, <1>20
    <3> QED
      BY <3>1, <3>2
  <2>3. \A p \in Request : req'[p].op # "none" =>
          \A e, f \in req'[p].ids \cap Logged' : ledger'[e].group = ledger'[f].group
    BY <1>2, <1>21 DEF UndoInv, KinInv
  <2> QED
    BY <2>1, <2>2, <2>3 DEF KinInv
<1>23. DeletionsInv'
  <2>1. \A e \in Logged' \ Logged : ledger'[e].of # 0
    <3> TAKE e \in Logged' \ Logged
    <3>1. PICK i \in DOMAIN s : ledger'[e] = inverse(i)
      BY <1>1
    <3>2. ledger'[e].of \in EntryId
      BY <3>1, <1>20
    <3> QED
      BY <3>2, LedgerAssumption DEF EntryId
  <2> SUFFICES ASSUME NEW e \in Logged, NEW f \in Logged, f # e,
                      ledger'[f].group = ledger'[e].group,
                      ledger'[e].type = "dashboard", ledger'[e].action = "delete",
                      ledger'[e].of = 0, ledger'[f].of = 0
               PROVE  /\ e < f
                      /\ \/ /\ ledger'[f].type = "dashboard_permission" /\ ledger'[f].action = "delete"
                            /\ ledger'[f].before.refs = {ledger'[e].rid}
                         \/ /\ ledger'[f].type = "org_settings"
                            /\ ledger'[e].rid \in ledger'[f].before.refs
    BY <2>1 DEF DeletionsInv, Group
  <2> QED
    BY <1>2 DEF UndoInv, DeletionsInv, Group
<1>24. IdentityInv'
  <2>1. \A t \in Type, i \in RowId : Known(slugs, t, i, rows'[t][i])
    BY <1>19 DEF Known
  <2>2. ASSUME NEW e \in Logged
        PROVE  /\ ledger[e].rid < nextRow[ledger[e].type] /\ ledger[e].rid \in RowId
               /\ ledger[e].type \in Type
    BY <1>2 DEF UndoInv, KinInv, Entry
  <2>3. ASSUME NEW e \in Logged'
        PROVE  /\ Known(slugs, ledger'[e].type, ledger'[e].rid, ledger'[e].before)
               /\ Known(slugs, ledger'[e].type, ledger'[e].rid, ledger'[e].after)
    <3>1. CASE e \in Logged
      <4>1. /\ Known(slugOf, ledger[e].type, ledger[e].rid, ledger[e].before)
            /\ Known(slugOf, ledger[e].type, ledger[e].rid, ledger[e].after)
        BY <3>1, <1>5 DEF Identity
      <4> QED
        BY <3>1, <4>1, <2>2, <1>2, <1>16
    <3>2. CASE e \notin Logged
      BY <3>2, <1>1, <1>20
    <3> QED
      BY <3>1, <3>2
  <2>4. ASSUME NEW p \in Request, req'[p].op = "loaded", NEW e \in req'[p].ids \cap Logged'
        PROVE  Known(slugs, ledger'[e].type, ledger'[e].rid, req'[p].seen[e])
    <3>1. req'[p] = req[p] /\ e \in req[p].ids /\ e \in Logged /\ req[p].op = "loaded"
      BY <2>4, <1>21
    <3>2. Known(slugOf, ledger[e].type, ledger[e].rid, req[p].seen[e])
      BY <3>1, <1>5 DEF Identity
    <3>3. Known(slugs, ledger[e].type, ledger[e].rid, req[p].seen[e])
      BY <3>1, <3>2, <2>2, <1>16
    <3> QED
      BY <3>1, <3>3, <1>2
  <2>5. Identity(slugs)'
    BY <2>1, <2>3, <2>4 DEF Identity, Known
  <2> QED
    BY <2>5, <1>12 DEF IdentityInv
<1>25. Sound(rows)'
  BY <1>3 DEF Sound, Has, KeysHold
<1> QED
  BY <1>22, <1>23, <1>24, <1>25 DEF UndoInv

LEMMA RevertCommitUndo ==
    ASSUME IInv, UndoInv, NEW q \in Request, RevertCommit(q)
    PROVE  UndoInv'
<1>1. CASE UNCHANGED <<rows, nextRow, ledgerVars>>
  <2>1. PICK slugOf \in [RowId -> Slug \cup {Null}] : Identity(slugOf)
    BY DEF UndoInv, IdentityInv
  <2>2. Idle.op = "none"
    BY DEF Idle
  <2> QED
    BY <1>1, <2>1, <2>2, CommitCases, RequestUndo
<1>2. ASSUME NEW s \in InOrder(req[q].ids), Undoing(q, s),
             rows' = Undone(s, req[q].seen),
             nextRow' = [t \in Type |-> nextRow[t] + Restorations(s, t)],
             Record(s, req[q].seen)
      PROVE  UndoInv'
  BY <1>2, CommitCases, CommitUndo
<1> QED
  BY <1>1, <1>2, CommitCases

\* What is left of the history is as it was, but for its age.
LEMMA AgedUndo ==
    ASSUME UndoInv, UNCHANGED <<rows, nextRow, req>>,
           \A e \in Logged' :
             /\ e \in Logged
             /\ ledger'[e].type = ledger[e].type /\ ledger'[e].rid = ledger[e].rid
             /\ ledger'[e].group = ledger[e].group /\ ledger'[e].of = ledger[e].of
             /\ ledger'[e].before = ledger[e].before /\ ledger'[e].after = ledger[e].after
             /\ ledger'[e].action = ledger[e].action
             /\ ledger'[e].of # 0 => ledger'[e].of \in Logged'
    PROVE  UndoInv'
<1>1. rows' = rows /\ nextRow' = nextRow /\ req' = req
  OBVIOUS
<1>2. KinInv'
  <2>1. \A t \in Type, i \in RowId : Exists(t, i)' => i < nextRow'[t]
    BY <1>1 DEF UndoInv, KinInv, Exists
  <2>2. \A e \in Logged' :
          /\ ledger'[e].rid < nextRow'[ledger'[e].type] /\ ledger'[e].group <= e
          /\ ledger'[e].type = "dashboard_permission" => ledger'[e].action # "update"
          /\ ledger'[e].of # 0 => ledger'[ledger'[e].of].group = ledger'[e].group
    BY <1>1 DEF UndoInv, KinInv
  <2>3. \A q \in Request : req'[q].op # "none" =>
          \A e, f \in req'[q].ids \cap Logged' : ledger'[e].group = ledger'[f].group
    BY <1>1 DEF UndoInv, KinInv
  <2> QED
    BY <2>1, <2>2, <2>3 DEF KinInv
<1>3. DeletionsInv'
  BY DEF UndoInv, DeletionsInv, Group
<1>4. IdentityInv'
  <2>1. PICK slugOf \in [RowId -> Slug \cup {Null}] : Identity(slugOf)
    BY DEF UndoInv, IdentityInv
  <2>2. \A t \in Type, i \in RowId : Known(slugOf, t, i, rows'[t][i])
    BY <1>1, <2>1 DEF Identity
  <2>3. \A e \in Logged' :
          /\ Known(slugOf, ledger'[e].type, ledger'[e].rid, ledger'[e].before)
          /\ Known(slugOf, ledger'[e].type, ledger'[e].rid, ledger'[e].after)
    BY <2>1 DEF Identity
  <2>4. \A q \in Request : req'[q].op = "loaded" =>
          \A e \in req'[q].ids \cap Logged' :
            Known(slugOf, ledger'[e].type, ledger'[e].rid, req'[q].seen[e])
    BY <1>1, <2>1 DEF Identity
  <2>5. Identity(slugOf)'
    BY <2>2, <2>3, <2>4 DEF Identity, Known
  <2> QED
    BY <2>5 DEF IdentityInv
<1>5. Sound(rows)'
  BY <1>1 DEF UndoInv, Sound, Has, KeysHold
<1> QED
  BY <1>2, <1>3, <1>4, <1>5 DEF UndoInv

LEMMA PurgeUndo ==
    ASSUME IInv, UndoInv, Purge
    PROVE  UndoInv'
<1>1. UNCHANGED <<rows, nextRow, req>>
  BY DEF Purge
<1>2. \A e \in Logged' : e \in Logged /\ ledger'[e] = ledger[e]
  BY DEF Purge, Logged
<1>3. \A e \in Logged' : ledger'[e].of # 0 => ledger'[e].of \in Logged'
  BY PurgeKeeps DEF IInv, LedgerInv, HistoryInv
<1> QED
  BY <1>1, <1>2, <1>3, AgedUndo

LEMMA AgeOutUndo ==
    ASSUME IInv, UndoInv, NEW a \in EntryId, AgeOut(a)
    PROVE  UndoInv'
<1>1. UNCHANGED <<rows, nextRow, req>>
  BY DEF AgeOut
<1>2. a \in Logged /\ ledger[a] \in Entry
  BY Loaded DEF AgeOut, IInv
<1>3. \A e \in EntryId : ledger'[e] = IF e = a THEN [ledger[a] EXCEPT !.old = TRUE] ELSE ledger[e]
  BY DEF AgeOut, IInv, TypeOK
<1>4. LET x == [ledger[a] EXCEPT !.old = TRUE] IN
      /\ x \in Entry /\ x.type = ledger[a].type /\ x.rid = ledger[a].rid /\ x.after = ledger[a].after
      /\ x.group = ledger[a].group /\ x.of = ledger[a].of /\ x.before = ledger[a].before
      /\ x.action = ledger[a].action
  BY <1>2 DEF Entry
<1>5. /\ Logged' = Logged
      /\ \A e \in Logged :
           /\ ledger'[e].type = ledger[e].type /\ ledger'[e].rid = ledger[e].rid
           /\ ledger'[e].group = ledger[e].group /\ ledger'[e].of = ledger[e].of
           /\ ledger'[e].before = ledger[e].before /\ ledger'[e].after = ledger[e].after
           /\ ledger'[e].action = ledger[e].action
  BY <1>2, <1>3, <1>4, Values DEF Logged
<1>6. \A e \in Logged' : ledger'[e].of # 0 => ledger'[e].of \in Logged'
  BY <1>5 DEF IInv, LedgerInv, HistoryInv
<1> QED
  BY <1>1, <1>5, <1>6, AgedUndo

LEMMA CallersUndo ==
    ASSUME IInv, UndoInv, CallerStep
    PROVE  UndoInv'
<1>1. ASSUME NEW v \in Value, NEW who \in SUBSET RowId, NEW conn \in SUBSET RowId,
             \/ \E s \in Slug : CreateDashboard(s, v, who, conn)
             \/ "reports" \in May /\ CreateReport(v, who)
             \/ \E t \in {"dashboard", "report"}, i \in RowId : Update(t, i, v, conn)
      PROVE  UndoInv'
  BY <1>1, CreateDashboardUndo, UpdateUndo, ReportsUndo
<1>2. ASSUME NEW d \in RowId,
             \/ \E n \in 0..1, who \in SUBSET RowId : "share" \in May /\ SetPermissions(d, n, who)
             \/ DeleteDashboard(d) \/ DeleteReport(d) \/ ScheduledRun(d)
             \/ DeletePrincipal(d) \/ DeleteConnection(d)
      PROVE  UndoInv'
  BY <1>2, SetPermissionsUndo, DeleteDashboardUndo, ReportsUndo, ScheduledRunUndo,
     DeletePrincipalUndo, DeleteConnectionUndo
<1>3. ASSUME NEW links \in SUBSET Present("dashboard"), SetNav(links) PROVE UndoInv'
  <2>1. links \in SUBSET RowId
    BY DEF Present
  <2> QED
    BY <1>3, <2>1, SetNavUndo
<1> QED
  BY <1>1, <1>2, <1>3, NamableFits DEF CallerStep

LEMMA InitUndo == Init => UndoInv
<1> SUFFICES ASSUME Init PROVE UndoInv
  OBVIOUS
<1>1. /\ \A t \in Type : nextRow[t] = IF Exists(t, 1) THEN 2 ELSE 1
      /\ ledger = [e \in EntryId |-> Null] /\ req = [q \in Request |-> Idle]
  BY DEF Init
<1>2. Logged = {} /\ (\A q \in Request : req[q].op = "none")
  BY <1>1 DEF Logged, Idle
<1> DEFINE first(s) ==
      \A t \in Type, i \in RowId : rows[t][i] # Null =>
        /\ i = 1
        /\ t = "dashboard" => rows[t][i].slug = s
        /\ t = "dashboard_permission" => rows["dashboard"][1] # Null /\ rows[t][i].refs = {1}
        /\ KeysHold(rows, rows[t][i])
<1>3. PICK s \in Slug \cup {Null} : first(s)
  <2>1. ASSUME rows = NoRows({}, {}) PROVE first(Null)
    <3>1. \A t \in Type, i \in RowId : rows[t][i] # Null => t = "org_settings" /\ i = 1 /\ rows[t][i] = Empty
      BY <2>1 DEF NoRows, NavRow, Type
    <3>2. KeysHold(rows, Empty)
      BY DEF KeysHold, Empty
    <3> QED
      BY <3>1, <3>2
  <2>2. ASSUME NEW s \in Slug, NEW v \in Value, NEW shared \in BOOLEAN, NEW links \in SUBSET {1},
               NEW people \in SUBSET RowId, NEW conns \in SUBSET RowId,
               rows = FirstRows(s, v, shared, links, people, conns)
        PROVE  first(s)
    <3>1. /\ OldDashboard(s, v, people, conns).slug = s
          /\ OldDashboard(s, v, people, conns).who = people \cap {1}
          /\ OldDashboard(s, v, people, conns).conn = conns \cap {1}
          /\ OldGrant(people).refs = {1} /\ OldGrant(people).who = people \cap {1}
          /\ OldGrant(people).conn = {}
          /\ [Empty EXCEPT !.refs = links].who = {} /\ [Empty EXCEPT !.refs = links].conn = {}
      BY DEF Empty, OldDashboard, OldGrant
    <3>2. 1 \in RowId /\ OldDashboard(s, v, people, conns) # Null /\ Empty # Null
      <4>1. people \cap {1} \in SUBSET RowId /\ conns \cap {1} \in SUBSET RowId
        OBVIOUS
      <4>2. OldDashboard(s, v, people, conns) \in Row
        BY <4>1, FreshDashboard DEF OldDashboard
      <4> QED
        BY <4>2, Values
    <3>3. \A i \in RowId :
            /\ rows["dashboard"][i] = IF i = 1 THEN OldDashboard(s, v, people, conns) ELSE Null
            /\ rows["dashboard_permission"][i] \in {Null, IF i = 1 THEN OldGrant(people) ELSE Null}
            /\ rows["org_settings"][i] = IF i = 1 THEN [Empty EXCEPT !.refs = links] ELSE Null
            /\ rows["report"][i] = Null
            /\ rows["principal"][i] = IF i \in people THEN Empty ELSE Null
            /\ rows["bi_connection"][i] = IF i \in conns THEN Empty ELSE Null
      BY <2>2 DEF FirstRow, FirstRows, Type, NavRow
    <3>4. Has(rows, "principal") = people /\ Has(rows, "bi_connection") = conns
      BY <3>2, <3>3 DEF Has
    <3>5. /\ KeysHold(rows, OldDashboard(s, v, people, conns)) /\ KeysHold(rows, OldGrant(people))
          /\ KeysHold(rows, [Empty EXCEPT !.refs = links])
      BY <3>1, <3>4 DEF KeysHold
    <3> QED
      BY <3>1, <3>2, <3>3, <3>5 DEF Type
  <2> HIDE DEF first
  <2> QED
    BY <2>1, <2>2, InitRows
<1>4. Sound(rows)
  BY <1>3 DEF Sound, Has, Type
<1>5. KinInv
  BY <1>1, <1>2, <1>3 DEF KinInv, Exists
<1>6. DeletionsInv
  BY <1>2 DEF DeletionsInv
<1>7. IdentityInv
  <2> DEFINE slugOf == [r \in RowId |-> s]
  <2>1. slugOf \in [RowId -> Slug \cup {Null}]
    OBVIOUS
  <2>2. \A t \in Type, i \in RowId : Known(slugOf, t, i, rows[t][i])
    <3> SUFFICES ASSUME NEW t \in Type, NEW i \in RowId, rows[t][i] # Null
                 PROVE  Known(slugOf, t, i, rows[t][i])
      BY DEF Known
    <3> QED
      BY <1>3 DEF Known
  <2>3. Identity(slugOf)
    BY <1>2, <2>2 DEF Identity
  <2> QED
    BY <2>1, <2>3 DEF IdentityInv
<1> QED
  BY <1>4, <1>5, <1>6, <1>7 DEF UndoInv

\* Whatever the callers do, and however reverts and other handlers interleave.
LEMMA UndoInvariant == Spec => [](IInv /\ UndoInv)
<1>1. ASSUME IInv, UndoInv, [Next]_vars PROVE UndoInv'
  <2>1. ASSUME NEW q \in Request, RevertStep(q) PROVE UndoInv'
    BY <1>1, <2>1, RevertReadUndo, RevertLoadUndo, RevertCommitUndo DEF RevertStep
  <2>2. CASE UNCHANGED vars
    <3>1. UNCHANGED <<rows, nextRow, req>> /\ ledger' = ledger /\ Logged' = Logged
      BY <2>2 DEF vars, Logged
    <3>2. \A e \in Logged : ledger[e].of # 0 => ledger[e].of \in Logged
      BY <1>1 DEF IInv, LedgerInv, HistoryInv
    <3> QED
      BY <1>1, <3>1, <3>2, AgedUndo
  <2> QED
    BY <1>1, <2>1, <2>2, CallersUndo, PurgeUndo, AgeOutUndo DEF Next
<1>2. IInv /\ UndoInv /\ [Next]_vars => UndoInv'
  BY <1>1
<1> QED
  BY <1>2, InitUndo, LedgerInvariant, PTL DEF Spec

\* Nothing of a deletion of which nothing was undone is an inverse: it is the
\* dashboard, then its grants and its link.
LEMMA DeletionGroup ==
    ASSUME IInv, UndoInv, NEW e \in Logged,
           ledger[e].type = "dashboard", ledger[e].action = "delete",
           \A f \in Group(e) : ~ledger[f].reverted
    PROVE  /\ \A f \in Group(e) : ledger[f].of = 0
           /\ \A f \in Group(e) \ {e} :
                /\ e < f
                /\ \/ /\ ledger[f].type = "dashboard_permission" /\ ledger[f].action = "delete"
                      /\ ledger[f].before.refs = {ledger[e].rid}
                   \/ /\ ledger[f].type = "org_settings" /\ ledger[f].action = "update"
                      /\ ledger[f].rid = NavRow /\ ledger[e].rid \in ledger[f].before.refs
<1>1. e \in Group(e)
  BY DEF Group
<1>2. ASSUME NEW f \in Group(e), ledger[f].of # 0 PROVE FALSE
  <2>1. ledger[f].of \in Logged
    BY <1>2 DEF Group, IInv, LedgerInv, HistoryInv
  <2>2. ledger[f].of \in Group(e)
    BY <1>2, <2>1 DEF Group, UndoInv, KinInv
  <2> QED
    BY <1>2, <2>1, <2>2 DEF Group, IInv, LedgerInv, StampInv
<1>3. \A f \in Group(e) : ledger[f].of = 0
  BY <1>2
<1>4. \A f \in Group(e) : f \in Logged
  BY DEF Group
<1> QED
  BY <1>1, <1>3, <1>4 DEF UndoInv, DeletionsInv, IInv, LedgerInv, SnapshotInv

\* Undone at once, it brings back the dashboard under a new id, grants for that
\* id, and nothing else.
LEMMA DeletionBack ==
    ASSUME IInv, UndoInv, NEW e \in Logged,
           ledger[e].type = "dashboard", ledger[e].action = "delete",
           \A f \in Group(e) : ~ledger[f].reverted,
           NEW s, Planned(Group(e), s), NEW k \in DOMAIN s, s[k] = e, NEW seen
    PROVE  LET n == NewId(s, k) IN
           /\ k \in Deletes(s) /\ n \in RowId /\ ~Exists("dashboard", n)
           /\ Undone(s, seen)["dashboard"][n] = ledger[e].before /\ ledger[e].before # Null
           /\ \A r \in RowId : r # n => Undone(s, seen)["dashboard"][r] = rows["dashboard"][r]
           /\ \A i \in Deletes(s) : ledger[s[i]].type = "dashboard_permission" =>
                LET row == Undone(s, seen)["dashboard_permission"][NewId(s, i)] IN
                row # Null /\ row.refs = {n}
           /\ \A r \in RowId :
                (\A i \in Deletes(s) : ledger[s[i]].type = "dashboard_permission" => NewId(s, i) # r) =>
                Undone(s, seen)["dashboard_permission"][r] = rows["dashboard_permission"][r]
<1> DEFINE n == NewId(s, k)
           perm == "dashboard_permission"
<1>1. /\ \A f \in Group(e) \ {e} :
           /\ e < f
           /\ \/ /\ ledger[f].type = perm /\ ledger[f].action = "delete"
                 /\ ledger[f].before.refs = {ledger[e].rid}
              \/ /\ ledger[f].type = "org_settings" /\ ledger[f].action = "update"
                 /\ ledger[f].rid = NavRow /\ ledger[e].rid \in ledger[f].before.refs
  BY DeletionGroup
<1>2. \A i \in DOMAIN s : /\ i \in Nat /\ s[i] \in Group(e) /\ s[i] \in Logged /\ s[i] \in Nat
                          /\ s[i] = e => i = k
  BY OrderFacts DEF Planned, Logged, EntryId
<1>3. k \in Deletes(s) /\ \A i \in Deletes(s) : i \in DOMAIN s /\ ledger[s[i]].action = "delete"
  BY DEF Deletes
<1>4. \A i \in DOMAIN s : i # k =>
        \/ /\ ledger[s[i]].type = perm /\ ledger[s[i]].action = "delete"
           /\ ledger[s[i]].before.refs = {ledger[e].rid} /\ e < s[i]
        \/ ledger[s[i]].type = "org_settings" /\ ledger[s[i]].action = "update"
  BY <1>1, <1>2
<1>5. /\ n \in RowId /\ n \in Nat /\ nextRow["dashboard"] \in Nat /\ n >= nextRow["dashboard"]
      /\ Undone(s, seen)["dashboard"][n] = ledger[e].before /\ ledger[e].before # Null
  BY <1>3, NewIds, DashboardBack DEF UndoInv
<1>6. ~Exists("dashboard", n)
  BY <1>5 DEF UndoInv, KinInv, Type
<1>7. \A t, r : ~Gone(s, seen, t, r)
  BY <1>4 DEF Gone
<1>8. \A t, r : t \in {"dashboard", perm} => At(s, t, r) = {}
  BY <1>4 DEF At
<1>9. ASSUME NEW r \in RowId, r # n PROVE Undone(s, seen)["dashboard"][r] = rows["dashboard"][r]
  <2>1. New(s, "dashboard", r) = {}
    BY <1>3, <1>4, <1>9 DEF New
  <2> QED
    BY <2>1, <1>7, <1>8, UndoneRow DEF Type
<1>10. ASSUME NEW r \in RowId,
              \A i \in Deletes(s) : ledger[s[i]].type = perm => NewId(s, i) # r
       PROVE  Undone(s, seen)[perm][r] = rows[perm][r]
  <2>1. New(s, perm, r) = {}
    BY <1>10 DEF New
  <2> QED
    BY <2>1, <1>7, <1>8, UndoneRow DEF Type
<1>11. ASSUME NEW i \in Deletes(s), ledger[s[i]].type = perm
       PROVE  LET row == Undone(s, seen)[perm][NewId(s, i)] IN row # Null /\ row.refs = {n}
  <2>1. i # k /\ i \in DOMAIN s /\ ledger[s[i]].action = "delete"
    BY <1>3, <1>11
  <2>2. ledger[s[i]].before.refs = {ledger[e].rid} /\ e < s[i]
    BY <2>1, <1>4, <1>11
  \* The dashboard is brought back before its grants.
  <2>3. k <= i - 1
    <3>1. ~Before(s[i], s[k])
      BY <2>1, <2>2, <1>2 DEF Before
    <3>2. ~(i < k)
      BY <2>1, <3>1 DEF Planned, InOrder
    <3> QED
      BY <2>1, <3>2, <1>2
  <2> DEFINE moved == {j \in Deletes(s) : j <= i - 1 /\ ledger[s[j]].type = "dashboard"}
  <2>4. moved = {k}
    BY <2>3, <1>3, <1>4
  <2>5. Remap(s, i - 1, {ledger[e].rid})
          = ({ledger[e].rid} \ {ledger[s[j]].rid : j \in moved})
              \cup {NewId(s, j) : j \in {h \in moved : ledger[s[h]].rid \in {ledger[e].rid}}}
    BY DEF Remap
  <2> HIDE DEF moved
  <2>6. Remap(s, i - 1, {ledger[e].rid}) = {n}
    BY <2>4, <2>5
  <2>7. Recreated(s, i) = [ledger[s[i]].before EXCEPT !.refs = Remap(s, i - 1, ledger[s[i]].before.refs)]
    BY <1>11 DEF Recreated
  <2>8. ledger[s[i]] \in Entry /\ ledger[s[i]].before # Null
    BY <2>1, <1>2, Loaded DEF IInv, LedgerInv, SnapshotInv
  <2>9. Recreated(s, i) = [ledger[s[i]].before EXCEPT !.refs = {n}] /\ ledger[s[i]].before \in Row
    BY <2>2, <2>6, <2>7, <2>8 DEF Entry, Snapshot
  <2>10. Recreated(s, i) \in Row /\ Recreated(s, i).refs = {n}
    BY <2>9, <1>5 DEF Row
  <2> QED
    BY <2>10, <1>11, NewRow, Values DEF UndoInv
<1> QED
  BY <1>3, <1>5, <1>6, <1>9, <1>10, <1>11

\* Undone at once, it brings back rows that name no one its entries did not.
LEMMA DeletionKeys ==
    ASSUME IInv, UndoInv, NEW e \in Logged,
           ledger[e].type = "dashboard", ledger[e].action = "delete",
           \A f \in Group(e) : ~ledger[f].reverted,
           \A f \in Group(e) : ledger[f].action # "create" => KeysHold(rows, ledger[f].before),
           NEW s, Planned(Group(e), s), NEW seen
    PROVE  \A t \in Type : \A r \in Has(Undone(s, seen), t) :
             KeysHold(Undone(s, seen), Undone(s, seen)[t][r])
<1> DEFINE table == Undone(s, seen)
           perm == "dashboard_permission"
<1>1. \A f \in Group(e) :
           \/ ledger[f].type \in {"dashboard", perm} /\ ledger[f].action = "delete"
           \/ ledger[f].type = "org_settings" /\ ledger[f].action = "update"
  BY DeletionGroup
<1>2. \A i \in DOMAIN s : /\ s[i] \in Group(e) /\ s[i] \in Logged /\ ledger[s[i]] \in Entry
                          /\ ledger[s[i]].before # Null /\ KeysHold(rows, ledger[s[i]].before)
  BY <1>1, OrderFacts DEF Planned, IInv, LedgerInv, SnapshotInv
<1>3. \A i \in Deletes(s) : i \in DOMAIN s /\ ledger[s[i]].action = "delete"
  BY DEF Deletes
<1>4. \A t, r : ~Gone(s, seen, t, r)
  BY <1>1, <1>2 DEF Gone
<1>5. \A r \in RowId : /\ table["principal"][r] = rows["principal"][r]
                       /\ table["bi_connection"][r] = rows["bi_connection"][r]
  <2>1. \A t, r : t \in {"principal", "bi_connection"} => At(s, t, r) = {} /\ New(s, t, r) = {}
    BY <1>1, <1>2, <1>3 DEF At, New
  <2> QED
    BY <1>4, <2>1, UndoneRow DEF Type
<1>6. ASSUME NEW t \in Type, NEW r \in RowId, table[t][r] # Null PROVE KeysHold(rows, table[t][r])
  <2>1. CASE table[t][r] = rows[t][r]
    BY <1>6, <2>1 DEF UndoInv, Sound, Has
  <2>2. ASSUME rows[t][r] # Null, NEW i \in At(s, t, r), table[t][r] = Restored(s, i, seen[s[i]])
        PROVE  KeysHold(rows, table[t][r])
    <3>1. /\ i \in DOMAIN s /\ ledger[s[i]].type = t /\ ledger[s[i]].rid = r
      BY <2>2 DEF At
    <3>2. PICK before, now : before = ledger[s[i]].before /\ now = rows[t][r]
      OBVIOUS
    <3>3. KeysHold(rows, before) /\ KeysHold(rows, now)
      BY <1>2, <2>2, <3>1, <3>2 DEF UndoInv, Sound, Has
    <3>4. /\ table[t][r].who \in {before.who, now.who} /\ table[t][r].conn \in {before.conn, now.conn}
      BY <2>2, <3>1, <3>2 DEF Restored
    <3> QED
      BY <3>3, <3>4 DEF KeysHold
  <2>3. ASSUME NEW i \in Deletes(s), ledger[s[i]].type = t, NewId(s, i) = r
        PROVE  KeysHold(rows, table[t][r])
    <3>1. table[t][r] = Recreated(s, i)
      BY <2>3, NewRow DEF UndoInv
    <3>2. PICK before : before = ledger[s[i]].before
      OBVIOUS
    <3>3. KeysHold(rows, before) /\ before \in Row
      BY <1>2, <1>3, <3>2 DEF Entry, Snapshot
    <3>4. Recreated(s, i).who = before.who /\ Recreated(s, i).conn = before.conn
      BY <3>2, <3>3 DEF Recreated, Row
    <3> QED
      BY <3>1, <3>3, <3>4 DEF KeysHold
  <2> QED
    BY <1>6, <2>1, <2>2, <2>3, OldRow
<1> HIDE DEF table
<1>7. Has(table, "principal") = Has(rows, "principal") /\ Has(table, "bi_connection") = Has(rows, "bi_connection")
  BY <1>5 DEF Has
<1>8. \A t \in Type : \A r \in Has(table, t) : KeysHold(table, table[t][r])
  BY <1>6, <1>7 DEF Has, KeysHold
<1> QED
  BY <1>8 DEF table

\* A dashboard deletion nothing of which was undone can be undone as long as its
\* slug is free, the navigation was not edited since, and the creator, the
\* connection and the users and roles its rows name are still there: no order of
\* the entries and no dashboard id that has changed stands in the way
\* (revert_correlation).
THEOREM DeletionsCanBeUndone == Spec => []DeletionCanBeUndone
<1>1. ASSUME IInv, UndoInv PROVE DeletionCanBeUndone
  <2> SUFFICES ASSUME NEW e \in Logged,
                      ledger[e].type = "dashboard", ledger[e].action = "delete", ledger[e].of = 0,
                      Pending(e) = Group(e),
                      \A d \in Present("dashboard") : rows["dashboard"][d].slug # ledger[e].before.slug,
                      \A f \in Group(e) : ledger[f].action # "create" => KeysHold(rows, ledger[f].before),
                      \A t \in Type : Room(t, Cardinality({f \in Group(e) : ledger[f].type = t})),
                      NEW s \in InOrder(Group(e)), NEW seen
               PROVE  Commits(s, seen)
    BY DEF DeletionCanBeUndone
  <2>1. Group(e) \subseteq Logged /\ e \in Group(e) /\ \A f \in Group(e) : ~ledger[f].reverted
    BY DEF Group, Pending
  <2>2. /\ IsFiniteSet(DOMAIN s) /\ IsFiniteSet(Group(e))
        /\ \A i \in DOMAIN s : s[i] \in Group(e)
        /\ \A i, j \in DOMAIN s : s[i] = s[j] => i = j
        /\ \E i \in DOMAIN s : s[i] = e
    BY <1>1, <2>1, OrderFacts, FiniteIds DEF Logged
  <2>3. ASSUME NEW t \in Type PROVE Room(t, Restorations(s, t))
    <3> DEFINE S == {i \in Deletes(s) : ledger[s[i]].type = t}
               T == {f \in Group(e) : ledger[f].type = t}
               place == [i \in S |-> s[i]]
    <3>1. place \in Injection(S, T)
      BY <2>2 DEF Deletes, Injection, IsInjective
    <3>2. IsFiniteSet(T)
      BY <2>2, FS_Subset
    <3> HIDE DEF S, T, place
    <3>3. IsFiniteSet(S) /\ Cardinality(S) <= Cardinality(T)
      BY <3>1, <3>2, FS_Injection
    <3>4. Cardinality(S) \in Nat /\ Cardinality(T) \in Nat
      BY <3>2, <3>3, FS_CardinalityType
    <3>5. nextRow[t] \in Nat /\ nextRow[t] + Cardinality(T) <= MaxRows + 1 /\ MaxRows \in Nat
      BY <1>1, NextIds, LedgerAssumption DEF Room, T
    <3> QED
      BY <3>3, <3>4, <3>5 DEF Room, Restorations, S
  <2>4. Planned(Group(e), s)
    BY <2>1, <2>3 DEF Planned
  <2>5. PICK k \in DOMAIN s : s[k] = e
    BY <2>2
  <2> DEFINE n == NewId(s, k)
             table == Undone(s, seen)
             perm == "dashboard_permission"
  <2>6. /\ n \in RowId /\ ~Exists("dashboard", n)
        /\ table["dashboard"][n] = ledger[e].before /\ ledger[e].before # Null
        /\ \A r \in RowId : r # n => table["dashboard"][r] = rows["dashboard"][r]
        /\ \A i \in Deletes(s) : ledger[s[i]].type = perm =>
             table[perm][NewId(s, i)] # Null /\ table[perm][NewId(s, i)].refs = {n}
        /\ \A r \in RowId : (\A i \in Deletes(s) : ledger[s[i]].type = perm => NewId(s, i) # r) =>
             table[perm][r] = rows[perm][r]
    BY <1>1, <2>1, <2>4, <2>5, DeletionBack
  <2> HIDE DEF n, table
  <2>7. \A i \in DOMAIN s : ledger[s[i]].action = "update" => rows[ledger[s[i]].type][ledger[s[i]].rid] # Null
    <3> SUFFICES ASSUME NEW i \in DOMAIN s, ledger[s[i]].action = "update"
                 PROVE  rows[ledger[s[i]].type][ledger[s[i]].rid] # Null
      OBVIOUS
    <3>1. ledger[s[i]].type = "org_settings" /\ ledger[s[i]].rid = NavRow
      BY <1>1, <2>1, <2>2, DeletionGroup
    <3> QED
      BY <1>1, <3>1 DEF IInv, LedgerInv, SnapshotInv, Nav
  <2>8. Sound(table)
    <3>1. ASSUME NEW c \in RowId, NEW d \in RowId, table["dashboard"][c] # Null, table["dashboard"][d] # Null,
                 table["dashboard"][c].slug = table["dashboard"][d].slug
          PROVE  c = d
      BY <1>1, <2>6, <3>1 DEF UndoInv, Sound, Has, Present, Exists
    <3>2. ASSUME NEW g \in RowId, table[perm][g] # Null, NEW d \in table[perm][g].refs
          PROVE  d \in RowId /\ table["dashboard"][d] # Null
      <4>1. ASSUME NEW i \in Deletes(s), ledger[s[i]].type = perm, NewId(s, i) = g
            PROVE  d \in RowId /\ table["dashboard"][d] # Null
        BY <2>6, <3>2, <4>1
      <4>2. ASSUME table[perm][g] = rows[perm][g]
            PROVE  d \in RowId /\ table["dashboard"][d] # Null
        BY <1>1, <2>6, <3>2, <4>2 DEF UndoInv, Sound, Has, Exists
      <4> QED
        BY <2>6, <4>1, <4>2
    <3>3. \A t \in Type : \A r \in Has(table, t) : KeysHold(table, table[t][r])
      BY <1>1, <2>1, <2>4, DeletionKeys DEF table
    <3> QED
      BY <3>1, <3>2, <3>3 DEF Sound, Has
  <2> QED
    BY <2>3, <2>7, <2>8 DEF Commits, table
<1> QED
  BY <1>1, UndoInvariant, PTL

\* A whole deletion being undone at once is the commit of a revert of it.
LEMMA DeletionReverted ==
    ASSUME IInv, UndoInv, [Next]_vars, NEW e \in Logged,
           \A f \in Group(e) : ~ledger[f].reverted /\ ledger'[f] # Null /\ ledger'[f].reverted
    PROVE  \E q \in Request : \E s \in InOrder(Group(e)) :
             Planned(Group(e), s) /\ rows' = Undone(s, req[q].seen)
<1>1. e \in Group(e) /\ \A f \in Group(e) : f \in Logged /\ f \in EntryId
  BY DEF Group, Logged
<1>2. e \in Logged' /\ ledger'[e].reverted # ledger[e].reverted /\ ~(e >= nextEntry)
  <2>1. e \in Logged'
    BY <1>1 DEF Logged
  <2>2. e < nextEntry /\ e \in Nat /\ nextEntry \in Nat
    BY <1>1, LedgerAssumption DEF IInv, LedgerInv, HistoryInv, EntryId, TypeOK
  <2> QED
    BY <1>1, <2>1, <2>2
<1>3. ~Quiet
  BY <1>2 DEF Quiet
<1>4. ~CallerStep
  BY <1>3, CallersQuiet
<1>5. ~UNCHANGED ledgerVars /\ ~Purge /\ (\A a \in EntryId : ~AgeOut(a))
  BY <1>3, RestQuiet
<1>6. PICK q \in Request : RevertStep(q)
  BY <1>4, <1>5 DEF Next, vars, ledgerVars
<1>7. RevertCommit(q)
  BY <1>5, <1>6 DEF RevertStep, RevertRead, RevertLoad
<1>8. PICK s \in InOrder(req[q].ids) :
        Undoing(q, s) /\ rows' = Undone(s, req[q].seen) /\ Record(s, req[q].seen)
  BY <1>5, <1>7, CommitCases
<1>9. \A f \in Group(e) : f \in req[q].ids
  BY <1>1, <1>8, CommitShape
<1>10. \A f \in req[q].ids : f \in Logged /\ ledger[f].group = ledger[e].group
  BY <1>1, <1>8, <1>9 DEF Undoing, UndoInv, KinInv
<1>11. req[q].ids = Group(e)
  BY <1>9, <1>10 DEF Group
<1> QED
  BY <1>8, <1>11, UndoingPlanned

\* A deleted dashboard whose whole group is undone at once comes back as it was:
\* with each grant, and with its link, both under its new id, whatever happened
\* in between and whatever runs at the same time (revert_correlation, _recreate).
THEOREM DeletedComesBackIntact == Spec => ComesBackIntact
<1> DEFINE intact(e, n) ==
      LET group == {f \in Group(e) : ledger[f].of = 0}
          of(t) == {f \in group : ledger[f].type = t} IN
      /\ ~Exists("dashboard", n) /\ rows'["dashboard"][n] = ledger[e].before
      /\ Cardinality(Grants(n)') = Cardinality(of("dashboard_permission"))
      /\ of("org_settings") # {} => n \in Nav'.refs
<1>1. ASSUME IInv, UndoInv, [Next]_vars, NEW e \in Logged,
             ledger[e].type = "dashboard", ledger[e].action = "delete",
             \A f \in Group(e) : ~ledger[f].reverted /\ ledger'[f] # Null /\ ledger'[f].reverted
      PROVE  \E n \in RowId : intact(e, n)
  <2> DEFINE perm == "dashboard_permission"
             org == "org_settings"
  <2>1. PICK q \in Request, s \in InOrder(Group(e)) :
          Planned(Group(e), s) /\ rows' = Undone(s, req[q].seen)
    BY <1>1, DeletionReverted
  <2>2. /\ IsFiniteSet(DOMAIN s) /\ IsFiniteSet(Group(e)) /\ e \in Group(e) /\ Group(e) \subseteq Logged
        /\ \A i \in DOMAIN s : i \in Nat /\ s[i] \in Group(e)
        /\ \A i, j \in DOMAIN s : s[i] = s[j] => i = j
        /\ \A f \in Group(e) : \E i \in DOMAIN s : s[i] = f
    BY <1>1, <2>1, OrderFacts, FiniteIds DEF Planned, Logged, Group
  <2>3. PICK k \in DOMAIN s : s[k] = e
    BY <2>2
  <2>3a. PICK n : n = NewId(s, k)
    OBVIOUS
  <2>4. /\ k \in Deletes(s) /\ n \in RowId /\ ~Exists("dashboard", n)
        /\ rows'["dashboard"][n] = ledger[e].before
        /\ \A i \in Deletes(s) : ledger[s[i]].type = perm =>
             rows'[perm][NewId(s, i)] # Null /\ rows'[perm][NewId(s, i)].refs = {n}
        /\ \A r \in RowId : (\A i \in Deletes(s) : ledger[s[i]].type = perm => NewId(s, i) # r) =>
             rows'[perm][r] = rows[perm][r]
    BY <1>1, <2>1, <2>3, <2>3a, DeletionBack
  <2>5. /\ \A f \in Group(e) : ledger[f].of = 0
        /\ \A f \in Group(e) : f # e =>
             \/ ledger[f].type = perm /\ ledger[f].action = "delete"
             \/ /\ ledger[f].type = org /\ ledger[f].action = "update"
                /\ ledger[f].rid = NavRow /\ ledger[e].rid \in ledger[f].before.refs
    BY <1>1, DeletionGroup
  <2>6. \A i \in Deletes(s) : i \in DOMAIN s /\ ledger[s[i]].action = "delete"
    BY DEF Deletes
  <2> DEFINE P == {i \in Deletes(s) : ledger[s[i]].type = perm}
             G == Grants(n)'
             F == {f \in Group(e) : ledger[f].type = perm}
  <2>7. IsFiniteSet(P) /\ \A i \in P : NewId(s, i) \in RowId
    BY <1>1, <2>1, <2>2, <2>6, NewIds, FS_Subset
  <2>8. Cardinality(G) = Cardinality(P)
    <3> DEFINE id == [i \in P |-> NewId(s, i)]
    <3>1. G = {g \in RowId : rows'[perm][g] # Null /\ n \in rows'[perm][g].refs}
      BY DEF Grants, Present, Exists
    <3>2. \A i \in P : id[i] \in G
      BY <2>4, <2>7, <3>1
    <3>3. ASSUME NEW g \in G PROVE \E i \in P : id[i] = g
      <4>1. CASE rows'[perm][g] = rows[perm][g]
        BY <1>1, <2>4, <3>1, <3>3, <4>1 DEF UndoInv, Sound, Has, Exists
      <4> QED
        BY <2>4, <3>1, <4>1
    <3>4. \A i, j \in P : id[i] = id[j] => i = j
      BY <1>1, <2>1, NewIds
    <3> HIDE DEF P, G
    <3>5. id \in Bijection(P, G)
      BY <3>2, <3>3, <3>4 DEF Bijection, Injection, Surjection, IsInjective
    <3> QED
      BY <2>7, <3>5, FS_Bijection DEF ExistsBijection
  <2>9. Cardinality(F) = Cardinality(P)
    <3> DEFINE place == [i \in P |-> s[i]]
    <3>1. \A i \in P : place[i] \in F
      BY <2>2, <2>6
    <3>2. ASSUME NEW f \in F PROVE \E i \in P : place[i] = f
      <4>1. PICK i \in DOMAIN s : s[i] = f
        BY <2>2
      <4>2. ledger[f].action = "delete"
        BY <1>1, <2>5
      <4> QED
        BY <4>1, <4>2 DEF Deletes
    <3>3. \A i, j \in P : place[i] = place[j] => i = j
      BY <2>2, <2>6
    <3> HIDE DEF P, F
    <3>4. place \in Bijection(P, F)
      BY <3>1, <3>2, <3>3 DEF Bijection, Injection, Surjection, IsInjective
    <3> QED
      BY <2>7, <3>4, FS_Bijection DEF ExistsBijection
  <2>10. ASSUME NEW f \in Group(e), ledger[f].type = org PROVE n \in Nav'.refs
    <3> DEFINE moved == {i \in Deletes(s) : i <= Cardinality(DOMAIN s) /\ ledger[s[i]].type = "dashboard"}
    <3>1. PICK i \in DOMAIN s : s[i] = f
      BY <2>2, <2>10
    <3>2. i \in At(s, org, NavRow)
      BY <1>1, <2>5, <2>10, <3>1 DEF At
    <3>3. \A t, r : ~Gone(s, req[q].seen, t, r)
      BY <1>1, <2>2, <2>5 DEF Gone
    <3>4. NavRow \in RowId /\ rows[org][NavRow] # Null
      BY <1>1, LedgerAssumption DEF IInv, LedgerInv, SnapshotInv, Nav, NavRow, RowId
    <3>5. PICK j \in At(s, org, NavRow) : Nav' = Restored(s, j, req[q].seen[s[j]])
      BY <2>1, <3>2, <3>3, <3>4, UndoneRow DEF Nav, Type
    <3> DEFINE before == ledger[s[j]].before
               refs == Remap(s, Cardinality(DOMAIN s), before.refs)
    <3>6. ledger[s[j]].type = org /\ ledger[e].rid \in before.refs
      BY <1>1, <2>2, <2>5, <3>5 DEF At
    <3>7. k \in moved
      <4>1. DOMAIN s = 1..Cardinality(Group(e)) /\ Cardinality(DOMAIN s) = Cardinality(Group(e))
      BY <1>1, <2>1, <2>2, OrderFacts DEF Planned, InOrder, Orders
    <4>2. k \in Nat /\ Cardinality(Group(e)) \in Nat /\ k <= Cardinality(DOMAIN s)
      BY <2>2, <2>3, <4>1, FS_CardinalityType
    <4> QED
      BY <1>1, <2>3, <2>4, <4>2
    <3>8. refs = (before.refs \ {ledger[s[h]].rid : h \in moved})
                   \cup {NewId(s, h) : h \in {l \in moved : ledger[s[l]].rid \in before.refs}}
      BY DEF Remap
    <3>9. n \in refs
      BY <2>3, <2>3a, <3>6, <3>7, <3>8
    <3>10. \A h \in moved : NewId(s, h) # ledger[e].rid
      <4> TAKE h \in moved
      <4>1. NewId(s, h) >= nextRow["dashboard"] /\ NewId(s, h) \in Nat /\ nextRow["dashboard"] \in Nat
        BY <1>1, <2>1, NewIds
      <4>2. ledger[e].rid < nextRow["dashboard"] /\ ledger[e].rid \in Nat
        BY <1>1, Loaded, NextIds DEF UndoInv, KinInv, IInv, Entry
      <4> QED
        BY <4>1, <4>2
    <3>11. ledger[e].rid \notin refs
      BY <2>3, <3>7, <3>8, <3>10
    <3> HIDE DEF refs, before
    <3>12. refs # before.refs
      BY <3>6, <3>11
    <3>13. Nav'.refs = refs
      BY <3>5, <3>6, <3>12 DEF Restored, refs, before
    <3> QED
      BY <3>9, <3>13
  <2>11. {f \in {g \in Group(e) : ledger[g].of = 0} : ledger[f].type = perm} = F
    BY <2>5
  <2> HIDE DEF F, G, P
  <2>12. intact(e, n)
    BY <2>4, <2>8, <2>9, <2>10, <2>11 DEF G
  <2> HIDE DEF intact
  <2> QED
    BY <2>4, <2>12
<1> DEFINE Intact ==
      \A e \in Logged :
          LET group == {f \in Group(e) : ledger[f].of = 0}
              of(t) == {f \in group : ledger[f].type = t} IN
          /\ ledger[e].type = "dashboard" /\ ledger[e].action = "delete"
          /\ ledger[e].of = 0
          /\ \A f \in Group(e) : ~ledger[f].reverted /\ ledger'[f] # Null /\ ledger'[f].reverted
          => \E n \in RowId :
               /\ ~Exists("dashboard", n) /\ rows'["dashboard"][n] = ledger[e].before
               /\ Cardinality(Grants(n)') = Cardinality(of("dashboard_permission"))
               /\ of("org_settings") # {} => n \in Nav'.refs
<1>2. IInv /\ UndoInv /\ [Next]_vars => Intact
  <2> HIDE DEF intact
  <2> SUFFICES ASSUME IInv, UndoInv, [Next]_vars, NEW e \in Logged,
                      ledger[e].type = "dashboard", ledger[e].action = "delete",
                      \A f \in Group(e) : ~ledger[f].reverted /\ ledger'[f] # Null /\ ledger'[f].reverted
               PROVE  \E n \in RowId : intact(e, n)
    BY DEF intact
  <2> QED
    BY <1>1
<1>3. Intact => [Intact]_vars
  OBVIOUS
<1> QED
  BY <1>2, <1>3, UndoInvariant, PTL DEF ComesBackIntact, Spec
===============================================================================
