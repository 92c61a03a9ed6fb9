-------------------------- MODULE ExportRunnerProofs --------------------------
(***************************************************************************)
(* Theorems about ExportRunner, for every number of replicas, reports,     *)
(* requests, jobs and crashes and for every setting of UseRedis and May    *)
(* (but where a theorem says otherwise).  First its types and what its log *)
(* promises whatever happens; then how often it starts a job, and what     *)
(* becomes of a recorded outcome and of a stored file.                     *)
(***************************************************************************)
EXTENDS ExportRunner, TLAPS, FiniteSetTheorems

\* The values rows, loops and requests start from, and the row a run leaves,
\* are of their type.
LEMMA Values ==
    /\ NoRow \in Row
    /\ \A r \in Report : NewRow(r) \in Row
    /\ Asleep \in Work /\ [Asleep EXCEPT !.pc = "down"] \in Work
    /\ NoRequest \in RequestState
    /\ \A row \in Row : Failed(row) \in Row
  BY ConstantAssumption DEF NoRow, NewRow, Row, Asleep, Work, PC, NoRequest, RequestState,
       Failed, Status, Active, NoJob

\* What the steps do to a loop's record and to a row keeps them in their types.
LEMMA WorkUpdates ==
    ASSUME NEW v \in Work, NEW pc \in PC \ {"query", "deliver"}
    PROVE  /\ [v EXCEPT !.pc = pc] \in Work
           /\ \A list \in SUBSET JobId : [v EXCEPT !.pc = pc, !.list = list] \in Work
           /\ \A due \in SUBSET Report : [v EXCEPT !.pc = pc, !.due = due] \in Work
           /\ [v EXCEPT !.pc = pc, !.job = NoJob, !.run = 0] \in Work
           /\ \A list \in SUBSET JobId, todo \in SUBSET (JobId \X Nat) :
                [v EXCEPT !.pc = pc, !.list = list, !.todo = todo] \in Work
  BY DEF Work, NoJob

\* The two steps that put a loop on a job keep it on one.
LEMMA RunUpdates ==
    ASSUME NEW v \in Work
    PROVE  /\ \A job \in JobId, run \in Nat, list \in SUBSET JobId :
                [v EXCEPT !.pc = "query", !.job = job, !.run = run, !.list = list] \in Work
           /\ v.pc = "query" => [v EXCEPT !.pc = "deliver"] \in Work
  BY DEF Work, PC

LEMMA TodoUpdate ==
    \A v \in Work : \A f : [v EXCEPT !.todo = @ \ {f}] \in Work
  BY DEF Work

LEMMA LoopType ==
    ASSUME work \in [Worker -> Work], NEW w \in Worker, NEW loop \in Work, Becomes(w, loop)
    PROVE  work' \in [Worker -> Work]
  BY DEF Becomes

LEMMA RowUpdates ==
    ASSUME NEW row \in Row, NEW b \in BOOLEAN, NEW n \in Nat
    PROVE  /\ [row EXCEPT !.status = "running", !.late = FALSE] \in Row
           /\ [row EXCEPT !.status = "failed", !.cancelled = b] \in Row
           /\ [row EXCEPT !.status = "completed", !.file = n, !.expires = "live",
                          !.cancelled = b] \in Row
           /\ [row EXCEPT !.report = NoReport] \in Row
           /\ [row EXCEPT !.late = TRUE] \in Row
           /\ [row EXCEPT !.aged = TRUE] \in Row
           /\ [row EXCEPT !.expires = "past"] \in Row
  BY DEF Row, Status, Active

\* A failed row keeps all but its status and its message.
LEMMA FailedRow ==
    ASSUME NEW row \in Row
    PROVE  /\ Failed(row).status = "failed"
           /\ Failed(row).expires = row.expires /\ Failed(row).file = row.file
  BY DEF Failed, Row

\* Inserting rows within the bound keeps rows and ids in their types.
LEMMA InsertType ==
    ASSUME TypeOK, NEW k \in Nat, Room(k), NEW f, \A j \in FreshIds(k) : f[j] \in Report,
           Insert(k, f)
    PROVE  rows' \in [JobId -> Row] /\ nextId' \in 1..(MaxJobs + 1)
  BY Values, ConstantAssumption DEF TypeOK, Room, FreshIds, Insert, JobId

\* Every variable starts in its type
LEMMA TypeInit == Init => TypeOK
<1> SUFFICES ASSUME Init PROVE TypeOK
  OBVIOUS
<1>1. nextId \in 1..(MaxJobs + 1) /\ crashes \in 0..MaxCrashes
  BY ConstantAssumption DEF Init
<1>2. rows \in [JobId -> Row] /\ work \in [Worker -> Work] /\ req \in [Request -> RequestState]
  BY Values DEF Init
<1> QED BY <1>1, <1>2 DEF Init, TypeOK

\* and stays in it.
LEMMA TypeStep == TypeOK /\ [Next]_vars => TypeOK'
<1> SUFFICES ASSUME TypeOK, [Next]_vars PROVE TypeOK'
  OBVIOUS
<1> USE DEF TypeOK, dbVars
<1>1. ASSUME NEW w \in Worker, WakeUp(w) PROVE TypeOK'
  <2>1. work[w] \in Work
    OBVIOUS
  <2>2. \A S : (IF S = {} THEN "enqueue" ELSE "reaping") \in PC \ {"query", "deliver"}
    BY DEF PC
  <2> DEFINE stuck == {j \in JobId : rows[j].status = "running" /\ rows[j].late}
             pc == IF stuck = {} THEN "enqueue" ELSE "reaping"
  <2>4. [work[w] EXCEPT !.pc = pc, !.list = stuck] \in Work
    <3>1. pc \in PC \ {"query", "deliver"} /\ stuck \in SUBSET JobId
      BY <2>2
    <3> HIDE DEF stuck, pc
    <3> QED BY <2>1, <3>1, WorkUpdates
  <2>3. work' \in [Worker -> Work]
    BY <1>1, <2>4, LoopType DEF WakeUp, Tick, Stuck
  <2> QED BY <1>1, <2>3, ConstantAssumption DEF WakeUp, Tick, Stuck
<1>2. ASSUME NEW w \in Worker, ReapCommit(w) PROVE TypeOK'
  <2>1. work[w] \in Work /\ "enqueue" \in PC /\ {} \in SUBSET JobId
    BY DEF PC
  <2>2. work' \in [Worker -> Work]
    <3>1. [work[w] EXCEPT !.pc = "enqueue", !.list = {}] \in Work
      BY <2>1, WorkUpdates
    <3> QED BY <1>2, <3>1, LoopType, Values DEF ReapCommit, Abort
  <2>3. rows' \in [JobId -> Row]
    BY <1>2, Values DEF ReapCommit, Abort
  <2> QED BY <1>2, <2>2, <2>3 DEF ReapCommit
<1>3. ASSUME NEW w \in Worker, ReadDue(w) PROVE TypeOK'
  <2>1. work[w] \in Work
    OBVIOUS
  <2>2. \A S : (IF S = {} THEN "claim" ELSE "enqueuing") \in PC \ {"query", "deliver"}
    BY DEF PC
  <2>3. PICK due \in SUBSET (Scheduled \cap reports) :
          Becomes(w, [work[w] EXCEPT !.pc = IF due = {} THEN "claim" ELSE "enqueuing",
                                     !.due = due])
    BY <1>3 DEF ReadDue
  <2>4. due \in SUBSET Report
    OBVIOUS
  <2>5. work' \in [Worker -> Work]
    <3>1. [work[w] EXCEPT !.pc = IF due = {} THEN "claim" ELSE "enqueuing", !.due = due]
            \in Work
      BY <2>1, <2>2, <2>4, WorkUpdates
    <3> QED BY <2>3, <3>1, LoopType
  <2> QED BY <1>3, <2>5 DEF ReadDue
<1>4. ASSUME NEW w \in Worker, EnqueueDue(w) PROVE TypeOK'
  <2> DEFINE due == work[w].due
             k == Cardinality(due)
  <2>1. /\ work[w] \in Work /\ "claim" \in PC /\ {} \in SUBSET Report
        /\ due \in SUBSET Report
    BY DEF PC, Work
  <2>2. k \in Nat
    BY <2>1, ConstantAssumption, FS_Subset, FS_CardinalityType
  <2>3. work' \in [Worker -> Work]
    <3>1. [work[w] EXCEPT !.pc = "claim", !.due = {}] \in Work
      BY <2>1, WorkUpdates
    <3> QED BY <1>4, <3>1, LoopType, Values DEF EnqueueDue, Abort
  <2>4. rows' \in [JobId -> Row] /\ nextId' \in 1..(MaxJobs + 1)
    <3>1. CASE UNCHANGED <<rows, nextId>>
      BY <3>1
    <3>2. ASSUME Room(k), NEW f \in [FreshIds(k) -> due], Insert(k, f)
          PROVE  rows' \in [JobId -> Row] /\ nextId' \in 1..(MaxJobs + 1)
      <4>1. \A j \in FreshIds(k) : f[j] \in Report
        BY <2>1, <3>2
      <4> HIDE DEF k, due
      <4> QED BY <2>2, <3>2, <4>1, InsertType DEF TypeOK
    <3> QED BY <1>4, <3>1, <3>2 DEF EnqueueDue, Abort
  <2> QED BY <1>4, <2>3, <2>4 DEF EnqueueDue
<1>5. ASSUME NEW w \in Worker, ClaimPending(w) PROVE TypeOK'
  <2> DEFINE claimed == {j \in Pending : Cardinality({k \in Pending : k < j}) < ClaimLimit}
  <2>1. work[w] \in Work /\ "next" \in PC /\ claimed \in SUBSET JobId
    BY DEF PC, Pending
  <2>2. Becomes(w, [work[w] EXCEPT !.pc = "next", !.list = claimed])
    BY <1>5 DEF ClaimPending
  <2>3. work' \in [Worker -> Work]
    <3> HIDE DEF claimed
    <3>1. [work[w] EXCEPT !.pc = "next", !.list = claimed] \in Work
      BY <2>1, WorkUpdates
    <3> QED BY <2>2, <3>1, LoopType
  <2> QED BY <1>5, <2>3 DEF ClaimPending
<1>6. ASSUME NEW w \in Worker, StartRun(w) PROVE TypeOK'
  <2>1. PICK j \in work[w].list :
          IF Exists(j)
          THEN /\ rows' = [rows EXCEPT ![j] = [@ EXCEPT !.status = "running", !.late = FALSE]]
               /\ ran' = [ran EXCEPT ![j] = @ + 1]
               /\ Becomes(w, [work[w] EXCEPT !.pc = "query", !.job = j,
                                !.run = ran[j] + 1, !.list = @ \ {j}])
          ELSE Abort(w) /\ UNCHANGED ran
    BY <1>6 DEF StartRun
  <2>2. work[w] \in Work /\ j \in JobId
    BY DEF Work
  <2>3. ran[j] + 1 \in Nat /\ work[w].list \ {j} \in SUBSET JobId
    BY <2>2 DEF Work
  <2>4. work' \in [Worker -> Work]
    <3>1. [work[w] EXCEPT !.pc = "query", !.job = j,
                          !.run = ran[j] + 1, !.list = @ \ {j}] \in Work
      BY <2>2, <2>3, RunUpdates
    <3> QED BY <2>1, <3>1, LoopType, Values DEF Abort
  <2>5. rows' \in [JobId -> Row]
    <3>1. [rows[j] EXCEPT !.status = "running", !.late = FALSE] \in Row
      BY <2>2, RowUpdates
    <3> QED BY <2>1, <2>2, <3>1 DEF Abort
  <2>6. ran' \in [JobId -> Nat]
    BY <2>1, <2>2
  <2> QED BY <1>6, <2>4, <2>5, <2>6 DEF StartRun
<1>7. ASSUME NEW w \in Worker, NEW row \in Row, Settle(w, row)
      PROVE  rows' \in [JobId -> Row] /\ work' \in [Worker -> Work]
  <2>1. work[w] \in Work /\ "next" \in PC
    BY DEF PC
  <2>2. work' \in [Worker -> Work]
    <3>1. [work[w] EXCEPT !.pc = "next", !.job = NoJob, !.run = 0] \in Work
      BY <2>1, WorkUpdates
    <3> QED BY <1>7, <3>1, LoopType, Values DEF Settle, Abort
  <2>3. rows' \in [JobId -> Row]
    BY <1>7 DEF Settle, Abort
  <2> QED BY <2>2, <2>3
<1>8. ASSUME NEW w \in Worker, QueryFails(w) PROVE TypeOK'
  <2>1. work[w].job \in JobId
    BY <1>8 DEF QueryFails, Work
  <2>2. Failed(rows[work[w].job]) \in Row
    BY <2>1, Values
  <2>3. rows' \in [JobId -> Row] /\ work' \in [Worker -> Work]
    BY <1>7, <1>8, <2>2 DEF QueryFails
  <2> QED BY <1>8, <2>3 DEF QueryFails
<1>9. ASSUME NEW w \in Worker, QueryReturns(w) PROVE TypeOK'
  <2>1. work[w] \in Work
    OBVIOUS
  <2>2. work' \in [Worker -> Work]
    BY <1>9, <2>1, RunUpdates, LoopType DEF QueryReturns
  <2>3. work[w].job \in JobId /\ work[w].run \in Nat
    BY <1>9, <2>1 DEF QueryReturns, Work
  <2> QED BY <1>9, <2>2, <2>3 DEF QueryReturns
<1>10. ASSUME NEW w \in Worker, FinishRun(w) PROVE TypeOK'
  <2>1. work[w].job \in JobId /\ work[w].run \in Nat
    BY <1>10 DEF FinishRun, Work
  <2>2. rows[work[w].job] \in Row
    BY <2>1
  <2>3. \A noted \in BOOLEAN :
          (rows[work[w].job].cancelled /\ ~noted) \in BOOLEAN
    BY <2>2 DEF Row
  <2>4. \A noted \in BOOLEAN :
          [rows[work[w].job] EXCEPT !.status = "completed", !.file = work[w].run,
             !.expires = "live", !.cancelled = @ /\ ~noted] \in Row
    BY <2>1, <2>2, <2>3, RowUpdates
  <2>5. rows' \in [JobId -> Row] /\ work' \in [Worker -> Work]
    BY <1>7, <1>10, <2>4 DEF FinishRun
  <2> QED BY <1>10, <2>5 DEF FinishRun
<1>11. ASSUME NEW w \in Worker, ReadExpired(w) PROVE TypeOK'
  <2> DEFINE expired == {j \in JobId : rows[j].expires = "past"}
             todo == {<<j, rows[j].file>> : j \in {k \in expired : rows[k].file # 0}}
             pc == IF expired = {} THEN "stale" ELSE "purging"
  <2>1. work[w] \in Work /\ pc \in PC \ {"query", "deliver"} /\ expired \in SUBSET JobId
    BY DEF PC
  <2>2. todo \in SUBSET (JobId \X Nat)
    BY DEF Row
  <2>3. Becomes(w, [work[w] EXCEPT !.pc = pc, !.list = expired, !.todo = todo])
    BY <1>11 DEF ReadExpired, Purge, PathsOf, Expired
  <2>4. work' \in [Worker -> Work]
    <3> HIDE DEF pc, expired, todo
    <3>1. [work[w] EXCEPT !.pc = pc, !.list = expired, !.todo = todo] \in Work
      BY <2>1, <2>2, WorkUpdates
    <3> QED BY <2>3, <3>1, LoopType
  <2> QED BY <1>11, <2>4 DEF ReadExpired, Purge, PathsOf, Expired
<1>12. ASSUME NEW w \in Worker, PurgeFile(w) PROVE TypeOK'
  <2>1. \A f : [work[w] EXCEPT !.todo = @ \ {f}] \in Work
    BY TodoUpdate
  <2>2. work' \in [Worker -> Work]
    BY <1>12, <2>1, LoopType DEF PurgeFile
  <2> QED BY <1>12, <2>2 DEF PurgeFile
<1>13. ASSUME NEW w \in Worker, PurgeRows(w) PROVE TypeOK'
  <2>1. work[w] \in Work /\ "stale" \in PC /\ {} \in SUBSET JobId
    BY DEF PC
  <2>2. work' \in [Worker -> Work]
    <3>1. [work[w] EXCEPT !.pc = "stale", !.list = {}] \in Work
      BY <2>1, WorkUpdates
    <3> QED BY <1>13, <3>1, LoopType DEF PurgeRows
  <2> QED BY <1>13, <2>2, Values DEF PurgeRows
<1>14. ASSUME NEW w \in Worker, PurgeStale(w) PROVE TypeOK'
  BY <1>14, Values, LoopType DEF PurgeStale, Retire
<1>15. ASSUME NEW w \in Worker, Crash(w) PROVE TypeOK'
  BY <1>15, Values, LoopType, ConstantAssumption DEF Crash
<1>16. ASSUME NEW w \in Worker, Restart(w) PROVE TypeOK'
  <2>1. work[w] \in Work /\ "asleep" \in PC
    BY DEF PC
  <2>2. work' \in [Worker -> Work]
    <3>1. [work[w] EXCEPT !.pc = "asleep"] \in Work
      BY <2>1, WorkUpdates
    <3> QED BY <1>16, <3>1, LoopType DEF Restart
  <2> QED BY <1>16, <2>2 DEF Restart
<1>17. ASSUME RequestStep PROVE TypeOK'
  <2>1. ASSUME NEW q \in Request, NEW j \in JobId, CancelRead(q, j) PROVE TypeOK'
    BY <2>1 DEF CancelRead, RequestState
  <2>2. ASSUME NEW q \in Request, CancelCommit(q) PROVE TypeOK'
    <3>1. rows' \in [JobId -> Row]
      BY <2>2, RowUpdates DEF CancelCommit, RequestState
    <3> QED BY <2>2, <3>1, Values DEF CancelCommit
  <2>3. ASSUME NEW q \in Request, NEW r \in Report, RunNowRead(q, r) PROVE TypeOK'
    BY <2>3 DEF RunNowRead, RequestState
  <2>4. ASSUME NEW q \in Request, RunNowCommit(q) PROVE TypeOK'
    <3>1. req[q].report \in Report
      BY <2>4 DEF RunNowCommit, RequestState
    <3> DEFINE f == [j \in FreshIds(1) |-> req[q].report]
    <3>2. \A j \in FreshIds(1) : f[j] \in Report
      BY <3>1
    <3>3. rows' \in [JobId -> Row] /\ nextId' \in 1..(MaxJobs + 1)
      <4>1. CASE UNCHANGED <<rows, nextId>>
        BY <4>1
      <4>2. CASE Room(1) /\ Insert(1, f)
        <5> HIDE DEF f
        <5> QED BY <3>2, <4>2, InsertType
      <4> QED BY <2>4, <4>1, <4>2 DEF RunNowCommit
    <3> QED BY <2>4, <3>3, Values DEF RunNowCommit
  <2>5. ASSUME NEW r \in Report, DeleteReport(r) PROVE TypeOK'
    BY <2>5, RowUpdates DEF DeleteReport
  <2>6. ASSUME DeleteUser PROVE TypeOK'
    BY <2>6, Values DEF DeleteUser
  <2> QED BY <1>17, <2>1, <2>2, <2>3, <2>4, <2>5, <2>6 DEF RequestStep
<1>18. ASSUME TimeStep PROVE TypeOK'
  <2>1. ASSUME NEW j \in JobId, BecomeLate(j) \/ Expire(j) \/ AgeOut(j) PROVE TypeOK'
    <3>1. rows' \in [JobId -> Row]
      <4>1. /\ [rows[j] EXCEPT !.late = TRUE] \in Row
            /\ [rows[j] EXCEPT !.expires = "past"] \in Row
            /\ [rows[j] EXCEPT !.aged = TRUE] \in Row
        BY RowUpdates
      <4>2. CASE BecomeLate(j)
        BY <4>1, <4>2 DEF BecomeLate
      <4>3. CASE Expire(j)
        BY <4>1, <4>3 DEF Expire
      <4>4. CASE AgeOut(j)
        BY <4>1, <4>4 DEF AgeOut
      <4> QED BY <2>1, <4>2, <4>3, <4>4
    <3> QED BY <2>1, <3>1 DEF BecomeLate, Expire, AgeOut
  <2>2. ASSUME LockExpires PROVE TypeOK'
    BY <2>2 DEF LockExpires
  <2> QED BY <1>18, <2>1, <2>2 DEF TimeStep
<1>19. CASE UNCHANGED vars
  BY <1>19 DEF vars
<1> QED
  BY <1>1, <1>2, <1>3, <1>4, <1>5, <1>6, <1>8, <1>9, <1>10, <1>11, <1>12, <1>13,
     <1>14, <1>15, <1>16, <1>17, <1>18, <1>19 DEF Next, WorkerStep

\* Every variable keeps its type.
THEOREM TypeCorrect == Spec => []TypeOK
  BY TypeInit, TypeStep, PTL DEF Spec

-------------------------------------------------------------------------------
\* A step of one loop leaves the others alone.
LEMMA LoopStep ==
    ASSUME work \in [Worker -> Work], NEW w \in Worker, NEW loop, Becomes(w, loop)
    PROVE  work'[w] = loop /\ \A v \in Worker \ {w} : work'[v] = work[v]
  BY DEF Becomes

\* The parts of FreshInv, for one row and for one loop.
FreshRow(row, j, n) == IF row.status # "none" THEN j < n ELSE row.expires = "null"
FreshLoop(v, n) ==
    /\ \A j \in v.list : j < n
    /\ v.job < n
    /\ v.pc # "purging" => v.todo = {}

LEMMA FreshParts ==
    FreshInv <=> /\ \A j \in JobId : FreshRow(rows[j], j, nextId)
                 /\ \A w \in Worker : FreshLoop(work[w], nextId)
  BY DEF FreshInv, FreshRow, FreshLoop, Exists

\* FreshInv survives a step that moves at most one loop and hands out only
\* larger ids.
LEMMA FreshMove ==
    ASSUME TypeOK, FreshInv, NEW w \in Worker, NEW loop, Becomes(w, loop),
           nextId' \in Nat, nextId <= nextId', FreshLoop(loop, nextId'),
           \A j \in JobId : FreshRow(rows'[j], j, nextId')
    PROVE  FreshInv'
<1>1. \A v \in Worker : work[v] \in Work /\ FreshLoop(work[v], nextId)
  BY FreshParts DEF TypeOK
<1>2. \A v \in Worker : FreshLoop(work[v], nextId')
  BY <1>1, ConstantAssumption DEF FreshLoop, TypeOK, Work, NoJob, JobId
<1>3. \A v \in Worker : work'[v] = loop \/ work'[v] = work[v]
  BY DEF Becomes, TypeOK
<1>4. \A v \in Worker : FreshLoop(work'[v], nextId')
  BY <1>2, <1>3
<1> QED BY <1>4, FreshParts DEF FreshInv, FreshRow, FreshLoop, Exists

\* Rows that an INSERT adds carry ids below the new nextId, and have no result.
LEMMA InsertFresh ==
    ASSUME TypeOK, FreshInv, NEW k \in Nat, NEW f, Insert(k, f)
    PROVE  /\ nextId' \in Nat /\ nextId <= nextId'
           /\ \A j \in JobId : FreshRow(rows'[j], j, nextId')
<1>1. nextId \in Nat /\ nextId' = nextId + k
  BY ConstantAssumption DEF TypeOK, Insert
<1>2. \A j \in FreshIds(k) : j < nextId'
  BY <1>1 DEF FreshIds
<1>3. \A j \in JobId : FreshRow(rows[j], j, nextId')
  BY <1>1, FreshParts, ConstantAssumption DEF FreshRow, JobId
<1>4. \A j \in JobId : j \in FreshIds(k) => rows'[j] = NewRow(f[j])
  BY DEF Insert
<1>5. \A r : NewRow(r).status = "pending"
  BY DEF NewRow, NoRow
<1>6. \A j \in JobId : j \notin FreshIds(k) => rows'[j] = rows[j]
  BY DEF Insert
<1> QED BY <1>1, <1>2, <1>3, <1>4, <1>5, <1>6 DEF FreshRow

\* Ids stay fresh.
LEMMA FreshStep == TypeOK /\ FreshInv /\ [Next]_vars => FreshInv'
<1> SUFFICES ASSUME TypeOK, FreshInv, [Next]_vars PROVE FreshInv'
  OBVIOUS
<1> USE DEF dbVars
<1>a. /\ rows \in [JobId -> Row] /\ work \in [Worker -> Work] /\ nextId \in Nat \ {0}
      /\ \A w \in Worker : work[w] \in Work
  BY ConstantAssumption DEF TypeOK
<1>b. /\ \A j \in JobId : FreshRow(rows[j], j, nextId)
      /\ \A w \in Worker : FreshLoop(work[w], nextId)
  BY FreshParts
<1>c. ASSUME NEW w \in Worker, Abort(w), UNCHANGED nextId PROVE FreshInv'
  BY <1>a, <1>b, <1>c, FreshMove DEF Abort, FreshLoop, Asleep, NoJob
<1>d. ASSUME NEW w \in Worker, NEW row, Settle(w, row), UNCHANGED nextId,
             row.status # "none", work[w].pc \in {"query", "deliver"}
      PROVE  FreshInv'
  <2>1. CASE Exists(work[w].job)
    <3>1. work[w].job \in JobId /\ work[w].job < nextId
      BY <1>a, <1>b, <1>d DEF Work, FreshLoop
    <3>2. \A j \in JobId : FreshRow(rows'[j], j, nextId')
      BY <1>a, <1>b, <1>d, <2>1, <3>1 DEF Settle, FreshRow
    <3>3. FreshLoop([work[w] EXCEPT !.pc = "next", !.job = NoJob, !.run = 0], nextId')
      BY <1>a, <1>b, <1>d DEF FreshLoop, Work, NoJob
    <3> QED BY <1>a, <1>d, <2>1, <3>2, <3>3, FreshMove DEF Settle
  <2> QED BY <1>c, <1>d, <2>1 DEF Settle
<1>1. ASSUME NEW w \in Worker, WakeUp(w) PROVE FreshInv'
  BY <1>1, <1>a DEF WakeUp, Tick, Stuck, FreshInv, Becomes, Exists, Work
<1>2. ASSUME NEW w \in Worker, ReapCommit(w) PROVE FreshInv'
  <2>1. CASE \A j \in work[w].list : Exists(j)
    <3>1. \A j \in JobId : FreshRow(rows'[j], j, nextId')
      <4>1. \A j \in JobId : rows[j] \in Row
        BY <1>a
      <4>2. \A j \in JobId : FreshRow(Failed(rows[j]), j, nextId) \/ ~Exists(j)
        BY <4>1, <1>b, FailedRow DEF FreshRow, Exists
      <4>3. \A j \in JobId :
              rows'[j] = IF j \in work[w].list THEN Failed(rows[j]) ELSE rows[j]
        BY <1>2, <2>1 DEF ReapCommit
      <4> QED BY <1>2, <1>b, <2>1, <4>2, <4>3 DEF ReapCommit
    <3>2. FreshLoop([work[w] EXCEPT !.pc = "enqueue", !.list = {}], nextId')
      BY <1>2, <1>a, <1>b DEF ReapCommit, FreshLoop, Work
    <3> QED BY <1>2, <2>1, <1>a, <3>1, <3>2, FreshMove DEF ReapCommit
  <2>2. CASE ~\A j \in work[w].list : Exists(j)
    BY <1>2, <2>2, <1>c DEF ReapCommit
  <2> QED BY <2>1, <2>2
<1>3. ASSUME NEW w \in Worker, ReadDue(w) PROVE FreshInv'
  BY <1>3, <1>a DEF ReadDue, FreshInv, Becomes, Exists, Work
<1>4. ASSUME NEW w \in Worker, EnqueueDue(w) PROVE FreshInv'
  <2> DEFINE due == work[w].due
             k == Cardinality(due)
  <2>1. k \in Nat
    BY <1>a, ConstantAssumption, FS_Subset, FS_CardinalityType DEF Work
  <2>2. FreshLoop([work[w] EXCEPT !.pc = "claim", !.due = {}], nextId)
    BY <1>4, <1>a, <1>b DEF EnqueueDue, FreshLoop, Work
  <2>3. ASSUME NEW f, Insert(k, f), Becomes(w, [work[w] EXCEPT !.pc = "claim", !.due = {}])
        PROVE  FreshInv'
    <3>1. /\ nextId' \in Nat /\ nextId <= nextId'
          /\ \A j \in JobId : FreshRow(rows'[j], j, nextId')
      <4> HIDE DEF k
      <4> QED BY <2>1, <2>3, InsertFresh
    <3>2. FreshLoop([work[w] EXCEPT !.pc = "claim", !.due = {}], nextId')
      BY <2>2, <3>1, <1>a DEF FreshLoop, Work, JobId, NoJob
    <3> QED BY <2>3, <3>1, <3>2, FreshMove
  <2>4. ASSUME UNCHANGED <<rows, nextId>>,
               Becomes(w, [work[w] EXCEPT !.pc = "claim", !.due = {}])
        PROVE  FreshInv'
    BY <2>2, <2>4, <1>a, <1>b, FreshMove
  <2> QED BY <1>4, <1>c, <2>3, <2>4 DEF EnqueueDue
<1>5. ASSUME NEW w \in Worker, ClaimPending(w) PROVE FreshInv'
  BY <1>5, <1>a DEF ClaimPending, Pending, FreshInv, Becomes, Exists, Work
<1>6. ASSUME NEW w \in Worker, StartRun(w) PROVE FreshInv'
  <2>1. PICK j \in work[w].list :
          IF Exists(j)
          THEN /\ rows' = [rows EXCEPT ![j] = [@ EXCEPT !.status = "running", !.late = FALSE]]
               /\ Becomes(w, [work[w] EXCEPT !.pc = "query", !.job = j,
                                !.run = ran[j] + 1, !.list = @ \ {j}])
          ELSE Abort(w)
    BY <1>6 DEF StartRun
  <2>2. j \in JobId /\ j < nextId
    BY <1>a, <1>b DEF FreshLoop, Work
  <2>3. CASE Exists(j)
    <3>1. \A i \in JobId : FreshRow(rows'[i], i, nextId')
      BY <1>6, <1>a, <1>b, <2>1, <2>2, <2>3 DEF StartRun, FreshRow, Row
    <3>2. FreshLoop([work[w] EXCEPT !.pc = "query", !.job = j,
                       !.run = ran[j] + 1, !.list = @ \ {j}], nextId')
      BY <1>6, <1>a, <1>b, <2>2 DEF StartRun, FreshLoop, Work
    <3> QED BY <1>6, <1>a, <2>1, <2>3, <3>1, <3>2, FreshMove DEF StartRun
  <2> QED BY <1>6, <1>c, <2>1, <2>3 DEF StartRun
<1>7. ASSUME NEW w \in Worker, QueryFails(w) PROVE FreshInv'
  <2>1. work[w].job \in JobId /\ rows[work[w].job] \in Row
    BY <1>7, <1>a DEF QueryFails, Work
  <2> QED BY <1>7, <1>d, <2>1, FailedRow DEF QueryFails
<1>8. ASSUME NEW w \in Worker, QueryReturns(w) PROVE FreshInv'
  BY <1>8, <1>a DEF QueryReturns, FreshInv, Becomes, Exists, Work
<1>9. ASSUME NEW w \in Worker, FinishRun(w) PROVE FreshInv'
  <2>1. work[w].job \in JobId /\ rows[work[w].job] \in Row
    BY <1>9, <1>a DEF FinishRun, Work
  <2>2. \A noted \in BOOLEAN :
          [rows[work[w].job] EXCEPT !.status = "completed", !.file = work[w].run,
             !.expires = "live", !.cancelled = @ /\ ~noted].status # "none"
    BY <2>1 DEF Row
  <2> QED BY <1>9, <1>d, <2>1, <2>2 DEF FinishRun
<1>10. ASSUME NEW w \in Worker, ReadExpired(w) PROVE FreshInv'
  BY <1>10, <1>a DEF ReadExpired, Purge, PathsOf, Expired, FreshInv, Becomes, Exists, Work
<1>11. ASSUME NEW w \in Worker, PurgeFile(w) PROVE FreshInv'
  BY <1>11, <1>a DEF PurgeFile, FreshInv, Becomes, Exists, Work
<1>12. ASSUME NEW w \in Worker, PurgeRows(w) PROVE FreshInv'
  BY <1>12, <1>a DEF PurgeRows, FreshInv, Becomes, Exists, Work, NoRow
<1>13. ASSUME NEW w \in Worker, PurgeStale(w) PROVE FreshInv'
  BY <1>13, <1>a DEF PurgeStale, Retire, FreshInv, Becomes, Exists, Work, NoRow, Asleep, NoJob
<1>14. ASSUME NEW w \in Worker, Crash(w) \/ Restart(w) PROVE FreshInv'
  BY <1>14, <1>a DEF Crash, Restart, FreshInv, Becomes, Exists, Work, Asleep, NoJob
<1>15. ASSUME RequestStep PROVE FreshInv'
  <2>1. ASSUME NEW q \in Request, CancelCommit(q) PROVE FreshInv'
    BY <2>1, <1>a DEF CancelCommit, FreshInv, Exists, Row
  <2>2. ASSUME NEW q \in Request, RunNowCommit(q) PROVE FreshInv'
    <3>1. CASE UNCHANGED <<rows, nextId>>
      BY <2>2, <3>1, <1>a DEF RunNowCommit, FreshInv, Exists
    <3>2. ASSUME NEW f, Insert(1, f) PROVE FreshInv'
      <4>1. /\ nextId' \in Nat /\ nextId <= nextId'
            /\ \A j \in JobId : FreshRow(rows'[j], j, nextId')
        BY <3>2, InsertFresh
      <4>2. \A w \in Worker : FreshLoop(work'[w], nextId')
        BY <2>2, <4>1, <1>a, <1>b DEF RunNowCommit, FreshLoop, Work, JobId, NoJob
      <4> QED BY <4>1, <4>2 DEF FreshInv, FreshRow, FreshLoop, Exists
    <3> QED BY <2>2, <3>1, <3>2 DEF RunNowCommit
  <2>3. ASSUME NEW q \in Request, NEW j \in JobId, CancelRead(q, j) PROVE FreshInv'
    BY <2>3 DEF CancelRead, FreshInv, Exists
  <2>4. ASSUME NEW q \in Request, NEW r \in Report, RunNowRead(q, r) PROVE FreshInv'
    BY <2>4 DEF RunNowRead, FreshInv, Exists
  <2>5. ASSUME NEW r \in Report, DeleteReport(r) PROVE FreshInv'
    BY <2>5, <1>a DEF DeleteReport, FreshInv, Exists, Row
  <2>6. ASSUME DeleteUser PROVE FreshInv'
    BY <2>6, <1>a DEF DeleteUser, FreshInv, Exists, NoRow
  <2> QED BY <1>15, <2>1, <2>2, <2>3, <2>4, <2>5, <2>6 DEF RequestStep
<1>16. ASSUME TimeStep PROVE FreshInv'
  BY <1>16, <1>a DEF TimeStep, LockExpires, BecomeLate, Expire, AgeOut, FreshInv, Exists, Row
<1>17. CASE UNCHANGED vars
  BY <1>17 DEF vars, FreshInv, Exists
<1> QED
  BY <1>1, <1>2, <1>3, <1>4, <1>5, <1>6, <1>7, <1>8, <1>9, <1>10, <1>11, <1>12, <1>13,
     <1>14, <1>15, <1>16, <1>17 DEF Next, WorkerStep

-------------------------------------------------------------------------------
\* What a row and a loop say about storage.
StoredRow(row, j, fs) ==
    /\ row.status = "pending" => row.expires = "null"
    /\ row.expires = "live" => <<j, row.file>> \in fs
StoredLoop(v, fs) == v.pc = "deliver" => <<v.job, v.run>> \in fs

\* A row does not expire, and one that is past or gone stays so unless its id
\* was never handed out.
KeptRow(old, new, j) ==
    /\ new.expires = "past" => old.expires = "past"
    /\ old.expires = "past" \/ old.status = "none"
         => new.expires = "past" \/ new.status = "none" \/ ~(j < nextId)

\* A loop claims nothing new and purges nothing new.
Claims(v) == {j \in JobId : \/ v.pc \in {"next", "query", "deliver"} /\ j \in v.list
                            \/ v.pc \in {"query", "deliver"} /\ v.job = j}
Calmer(old, new) ==
    /\ Claims(new) \subseteq Claims(old)
    /\ new.pc = "purging" => /\ old.pc = "purging" /\ new.list = old.list
                             /\ new.todo \subseteq old.todo

LEMMA StorageParts ==
    StorageInv <=> /\ \A j \in JobId : StoredRow(rows[j], j, files)
                   /\ \A w \in Worker : StoredLoop(work[w], files)
  BY DEF StorageInv, StoredRow, StoredLoop

\* A step after which no loop holds more than before keeps ResultInv.
LEMMA QuietStep ==
    ASSUME TypeOK, FreshInv, PurgeInv,
           \A j \in JobId : KeptRow(rows[j], rows'[j], j) /\ StoredRow(rows'[j], j, files'),
           \A v \in Worker : Calmer(work[v], work'[v]) /\ StoredLoop(work'[v], files')
    PROVE  StorageInv' /\ PurgeInv'
<1>1. StorageInv'
  BY DEF StorageInv, StoredRow, StoredLoop
<1>2. \A w \in Worker, j \in JobId : HoldsClaim(w, j)' => HoldsClaim(w, j)
  BY DEF HoldsClaim, Calmer, Claims
<1>3. \A w \in Worker, j \in JobId : HoldsClaim(w, j)' => rows'[j].expires # "past"
  BY <1>2 DEF PurgeInv, KeptRow
<1>4. ASSUME NEW w \in Worker, work'[w].pc = "purging"
      PROVE  /\ \A f \in work'[w].todo : f[1] \in work'[w].list
             /\ \A j \in work'[w].list : /\ rows'[j].expires = "past" \/ rows'[j].status = "none"
                                         /\ \A v \in Worker : ~HoldsClaim(v, j)'
  <2>1. /\ work[w].pc = "purging" /\ work'[w].list = work[w].list
        /\ work'[w].todo \subseteq work[w].todo
    BY <1>4 DEF Calmer
  <2>2. \A j \in work[w].list : j \in JobId /\ j < nextId
    BY DEF TypeOK, Work, FreshInv
  <2>3. \A j \in work[w].list : rows[j].expires = "past" \/ rows[j].status = "none"
    BY <2>1 DEF PurgeInv, Exists
  <2>4. \A j \in work[w].list : rows'[j].expires = "past" \/ rows'[j].status = "none"
    BY <2>2, <2>3 DEF KeptRow
  <2>5. \A j \in work[w].list, v \in Worker : ~HoldsClaim(v, j)'
    BY <1>2, <2>1, <2>2 DEF PurgeInv
  <2> QED BY <2>1, <2>4, <2>5 DEF PurgeInv
<1>5. PurgeInv'
  BY <1>3, <1>4 DEF PurgeInv, Exists
<1> QED BY <1>1, <1>5

\* The same for a step of one loop that removes no file,
LEMMA QuietLoop ==
    ASSUME TypeOK, ResultInv, files \subseteq files',
           NEW w \in Worker, NEW loop, Becomes(w, loop),
           Calmer(work[w], loop), StoredLoop(loop, files'),
           \A j \in JobId : KeptRow(rows[j], rows'[j], j) /\ StoredRow(rows'[j], j, files')
    PROVE  StorageInv' /\ PurgeInv'
<1>1. \A v \in Worker : work'[v] = work[v] \/ (v = w /\ work'[v] = loop)
  <2>1. work \in [Worker -> Work]
    BY DEF TypeOK
  <2>2. work'[w] = loop /\ \A v \in Worker \ {w} : work'[v] = work[v]
    BY <2>1, LoopStep
  <2> QED BY <2>2
<1>2. \A v \in Worker : StoredLoop(work[v], files')
  BY StorageParts DEF ResultInv, StoredLoop
<1>3. \A v \in Worker : Calmer(work[v], work'[v]) /\ StoredLoop(work'[v], files')
  BY <1>1, <1>2 DEF Calmer
<1> QED BY <1>3, QuietStep DEF ResultInv

\* and for one that moves no loop and touches no file.
LEMMA QuietRequest ==
    ASSUME TypeOK, ResultInv, UNCHANGED <<work, files>>,
           \A j \in JobId : KeptRow(rows[j], rows'[j], j) /\ StoredRow(rows'[j], j, files)
    PROVE  StorageInv' /\ PurgeInv'
<1>1. \A v \in Worker : Calmer(work[v], work'[v]) /\ StoredLoop(work'[v], files')
  BY StorageParts DEF ResultInv, StoredLoop, Calmer
<1> QED BY <1>1, QuietStep DEF ResultInv

\* Rows that did not change, rows removed, rows inserted.
LEMMA QuietRows ==
    ASSUME TypeOK, ResultInv, files \subseteq files'
    PROVE  /\ \A j \in JobId : KeptRow(rows[j], rows[j], j) /\ StoredRow(rows[j], j, files')
           /\ \A j \in JobId : KeptRow(rows[j], NoRow, j) /\ StoredRow(NoRow, j, files')
           /\ \A j \in JobId : \A r : ~(j < nextId) =>
                KeptRow(rows[j], NewRow(r), j) /\ StoredRow(NewRow(r), j, files')
  BY StorageParts DEF ResultInv, KeptRow, StoredRow, NoRow, NewRow

LEMMA InsertQuiet ==
    ASSUME TypeOK, ResultInv, files \subseteq files', NEW k \in Nat, NEW f, Insert(k, f)
    PROVE  \A j \in JobId : KeptRow(rows[j], rows'[j], j) /\ StoredRow(rows'[j], j, files')
<1>1. \A j \in FreshIds(k) : ~(j < nextId)
  BY ConstantAssumption DEF TypeOK, FreshIds
<1>2. ASSUME NEW j \in JobId
      PROVE  KeptRow(rows[j], rows'[j], j) /\ StoredRow(rows'[j], j, files')
  <2>1. CASE j \in FreshIds(k)
    <3>1. rows'[j] = NewRow(f[j])
      BY <2>1 DEF Insert
    <3> QED BY <1>1, <2>1, <3>1, QuietRows
  <2>2. CASE j \notin FreshIds(k)
    <3>1. rows'[j] = rows[j]
      BY <2>2 DEF Insert
    <3> QED BY <3>1, QuietRows
  <2> QED BY <2>1, <2>2
<1> QED BY <1>2

\* A row that changes in the columns the worker's failures, the cancel button,
\* a deleted report and the clock write.
LEMMA QuietUpdates ==
    ASSUME TypeOK, ResultInv, NEW j \in JobId, NEW b \in BOOLEAN
    PROVE  /\ Exists(j) =>
                LET new == [rows[j] EXCEPT !.status = "failed", !.cancelled = b] IN
                KeptRow(rows[j], new, j) /\ StoredRow(new, j, files)
           /\ Exists(j) =>
                LET new == [rows[j] EXCEPT !.status = "running", !.late = FALSE] IN
                KeptRow(rows[j], new, j) /\ StoredRow(new, j, files)
           /\ LET new == [rows[j] EXCEPT !.report = NoReport] IN
                KeptRow(rows[j], new, j) /\ StoredRow(new, j, files)
           /\ LET new == [rows[j] EXCEPT !.late = TRUE] IN
                KeptRow(rows[j], new, j) /\ StoredRow(new, j, files)
           /\ LET new == [rows[j] EXCEPT !.aged = TRUE] IN
                KeptRow(rows[j], new, j) /\ StoredRow(new, j, files)
<1>1. rows[j] \in Row /\ StoredRow(rows[j], j, files)
  BY StorageParts DEF TypeOK, ResultInv
<1> QED BY <1>1 DEF KeptRow, StoredRow, Row, Exists

\* Storage and retention agree after every step.
LEMMA ResultStep == TypeOK /\ ResultInv /\ [Next]_vars => StorageInv' /\ PurgeInv'
<1> SUFFICES ASSUME TypeOK, ResultInv, [Next]_vars PROVE StorageInv' /\ PurgeInv'
  OBVIOUS
<1> DEFINE Quiet == StorageInv' /\ PurgeInv'
<1> USE DEF dbVars
<1>a. /\ rows \in [JobId -> Row] /\ work \in [Worker -> Work]
      /\ \A w \in Worker : work[w] \in Work
  BY DEF TypeOK
<1>b. /\ \A j \in JobId : KeptRow(rows[j], rows[j], j) /\ StoredRow(rows[j], j, files)
      /\ \A j \in JobId : KeptRow(rows[j], NoRow, j) /\ StoredRow(NoRow, j, files)
      /\ \A w \in Worker : StoredLoop(work[w], files)
  BY StorageParts DEF ResultInv, KeptRow, StoredRow, NoRow
\* a loop that only changes phase, outside of the phases that claim or purge
<1>c. ASSUME NEW w \in Worker, NEW loop, Becomes(w, loop), UNCHANGED files,
             loop.pc \notin {"next", "query", "deliver", "purging"},
             \A j \in JobId : KeptRow(rows[j], rows'[j], j) /\ StoredRow(rows'[j], j, files')
      PROVE  Quiet
  <2>1. Calmer(work[w], loop) /\ StoredLoop(loop, files')
    BY <1>c DEF Calmer, Claims, StoredLoop
  <2> QED BY <1>c, <2>1, QuietLoop
<1>d. ASSUME NEW w \in Worker, Abort(w), UNCHANGED files PROVE Quiet
  <2>1. Asleep.pc = "asleep"
    BY DEF Asleep
  <2> QED BY <1>b, <1>c, <1>d, <2>1 DEF Abort
<1>1. ASSUME NEW w \in Worker, WakeUp(w) PROVE Quiet
  <2> DEFINE stuck == {j \in JobId : rows[j].status = "running" /\ rows[j].late}
             loop == [work[w] EXCEPT !.pc = IF stuck = {} THEN "enqueue" ELSE "reaping",
                                     !.list = stuck]
  <2>1. loop.pc \in {"enqueue", "reaping"}
    <3> HIDE DEF stuck
    <3> QED BY <1>a DEF Work
  <2>2. Becomes(w, loop) /\ UNCHANGED <<rows, files>>
    BY <1>1 DEF WakeUp, Tick, Stuck
  <2> HIDE DEF loop
  <2> QED BY <1>b, <1>c, <2>1, <2>2
<1>2. ASSUME NEW w \in Worker, ReapCommit(w) PROVE Quiet
  <2>1. CASE \A j \in work[w].list : Exists(j)
    <3>1. \A j \in JobId : rows'[j] = IF j \in work[w].list THEN Failed(rows[j]) ELSE rows[j]
      BY <1>2, <2>1 DEF ReapCommit
    <3>2. \A j \in JobId : KeptRow(rows[j], rows'[j], j) /\ StoredRow(rows'[j], j, files)
      BY <1>b, <2>1, <3>1, QuietUpdates DEF Failed
    <3>3. [work[w] EXCEPT !.pc = "enqueue", !.list = {}].pc = "enqueue"
      BY <1>a DEF Work
    <3> QED BY <1>2, <1>c, <2>1, <3>2, <3>3 DEF ReapCommit
  <2> QED BY <1>2, <1>d, <2>1 DEF ReapCommit
<1>3. ASSUME NEW w \in Worker, ReadDue(w) PROVE Quiet
  <2>1. PICK due : Becomes(w, [work[w] EXCEPT !.pc = IF due = {} THEN "claim" ELSE "enqueuing",
                                            !.due = due])
    BY <1>3 DEF ReadDue
  <2> DEFINE loop == [work[w] EXCEPT !.pc = IF due = {} THEN "claim" ELSE "enqueuing",
                                     !.due = due]
  <2>2. loop.pc \in {"claim", "enqueuing"}
    BY <1>a DEF Work
  <2>3. Becomes(w, loop) /\ UNCHANGED <<rows, files>>
    BY <1>3, <2>1 DEF ReadDue
  <2> HIDE DEF loop
  <2> QED BY <1>b, <1>c, <2>2, <2>3
<1>4. ASSUME NEW w \in Worker, EnqueueDue(w) PROVE Quiet
  <2> DEFINE k == Cardinality(work[w].due)
  <2>1. k \in Nat
    BY <1>a, ConstantAssumption, FS_Subset, FS_CardinalityType DEF Work
  <2>2. [work[w] EXCEPT !.pc = "claim", !.due = {}].pc = "claim"
    BY <1>a DEF Work
  <2>3. ASSUME NEW f, Insert(k, f), Becomes(w, [work[w] EXCEPT !.pc = "claim", !.due = {}])
        PROVE  Quiet
    <3>1. \A j \in JobId : KeptRow(rows[j], rows'[j], j) /\ StoredRow(rows'[j], j, files')
      <4> HIDE DEF k
      <4> QED BY <1>4, <2>1, <2>3, InsertQuiet DEF EnqueueDue
    <3> QED BY <1>4, <1>c, <2>2, <2>3, <3>1 DEF EnqueueDue
  <2>4. ASSUME UNCHANGED rows, Becomes(w, [work[w] EXCEPT !.pc = "claim", !.due = {}])
        PROVE  Quiet
    BY <1>4, <1>b, <1>c, <2>2, <2>4 DEF EnqueueDue
  <2> QED BY <1>4, <1>d, <2>3, <2>4 DEF EnqueueDue
<1>5. ASSUME NEW w \in Worker, ClaimPending(w) PROVE Quiet
  <2> DEFINE loop == work'[w]
  <2>1. /\ loop.pc = "next" /\ loop.list \subseteq Pending
        /\ \A v \in Worker \ {w} : work'[v] = work[v]
    BY <1>5, <1>a DEF ClaimPending, Becomes, Work
  <2>2. UNCHANGED <<rows, files>>
    BY <1>5 DEF ClaimPending
  <2>3. \A j \in Pending : rows[j].expires = "null" /\ Exists(j)
    BY DEF Pending, ResultInv, StorageInv, Exists
  <2>4. StorageInv'
    BY <2>1, <2>2 DEF ResultInv, StorageInv
  <2>5. \A v \in Worker, j \in JobId :
          HoldsClaim(v, j)' => HoldsClaim(v, j) \/ (v = w /\ j \in Pending)
    BY <2>1 DEF HoldsClaim
  <2>6. \A v \in Worker : loop.pc # "purging" /\ (work'[v].pc = "purging" => v # w)
    BY <2>1
  <2>7. PurgeInv'
    <3>1. \A v \in Worker, j \in JobId : HoldsClaim(v, j)' => rows'[j].expires # "past"
      BY <2>2, <2>3, <2>5 DEF ResultInv, PurgeInv
    <3>2. ASSUME NEW v \in Worker, work'[v].pc = "purging"
          PROVE  /\ \A f \in work'[v].todo : f[1] \in work'[v].list
                 /\ \A j \in work'[v].list : /\ rows'[j].expires = "past" \/ ~Exists(j)'
                                             /\ \A u \in Worker : ~HoldsClaim(u, j)'
      <4>1. work'[v] = work[v]
        BY <2>1, <2>6, <3>2
      <4>2. \A j \in work[v].list : j \in JobId
        BY <1>a DEF Work
      <4>3. \A j \in work[v].list : /\ rows[j].expires = "past" \/ ~Exists(j)
                                    /\ \A u \in Worker : ~HoldsClaim(u, j)
        BY <3>2, <4>1 DEF ResultInv, PurgeInv
      <4>4. \A j \in work[v].list, u \in Worker : ~HoldsClaim(u, j)'
        BY <2>3, <2>5, <4>2, <4>3
      <4>5. \A f \in work[v].todo : f[1] \in work[v].list
        BY <3>2, <4>1 DEF ResultInv, PurgeInv
      <4> QED BY <2>2, <4>1, <4>3, <4>4, <4>5 DEF Exists
    <3> QED BY <3>1, <3>2 DEF PurgeInv
  <2> QED BY <2>4, <2>7
<1>6. ASSUME NEW w \in Worker, StartRun(w) PROVE Quiet
  <2>1. PICK j \in work[w].list :
          IF Exists(j)
          THEN /\ rows' = [rows EXCEPT ![j] = [@ EXCEPT !.status = "running", !.late = FALSE]]
               /\ Becomes(w, [work[w] EXCEPT !.pc = "query", !.job = j,
                                !.run = ran[j] + 1, !.list = @ \ {j}])
          ELSE Abort(w)
    BY <1>6 DEF StartRun
  <2>2. CASE Exists(j)
    <3> DEFINE loop == [work[w] EXCEPT !.pc = "query", !.job = j,
                          !.run = ran[j] + 1, !.list = @ \ {j}]
    <3>1. /\ loop.pc = "query" /\ loop.job = j /\ loop.list \subseteq work[w].list
          /\ j \in JobId
      BY <1>a DEF Work
    <3>2. Calmer(work[w], loop) /\ StoredLoop(loop, files)
      <4> HIDE DEF loop
      <4> QED BY <1>6, <2>1, <3>1 DEF StartRun, Calmer, Claims, StoredLoop
    <3>3. \A i \in JobId : KeptRow(rows[i], rows'[i], i) /\ StoredRow(rows'[i], i, files)
      BY <1>a, <1>b, <2>1, <2>2, <3>1, QuietUpdates
    <3>4. Becomes(w, loop)
      BY <2>1, <2>2
    <3> HIDE DEF loop
    <3> QED BY <1>6, <3>2, <3>3, <3>4, QuietLoop DEF StartRun
  <2> QED BY <1>6, <1>d, <2>1, <2>2 DEF StartRun
\* the end of run_job, whatever row it leaves
<1>e. ASSUME NEW w \in Worker, NEW row, Settle(w, row), UNCHANGED files,
             work[w].pc \in {"query", "deliver"},
             Exists(work[w].job) =>
               /\ KeptRow(rows[work[w].job], row, work[w].job)
               /\ StoredRow(row, work[w].job, files)
      PROVE  Quiet
  <2>1. CASE Exists(work[w].job)
    <3> DEFINE loop == [work[w] EXCEPT !.pc = "next", !.job = NoJob, !.run = 0]
    <3>1. loop.pc = "next" /\ loop.list = work[w].list
      BY <1>a DEF Work
    <3>2. Becomes(w, loop)
      BY <1>e, <2>1 DEF Settle
    <3>3. Calmer(work[w], loop) /\ StoredLoop(loop, files)
      <4> HIDE DEF loop
      <4> QED BY <1>e, <3>1 DEF Calmer, Claims, StoredLoop
    <3>4. work[w].job \in JobId
      BY <1>a, <1>e DEF Work
    <3>5. \A i \in JobId : KeptRow(rows[i], rows'[i], i) /\ StoredRow(rows'[i], i, files)
      BY <1>a, <1>b, <1>e, <2>1, <3>4 DEF Settle
    <3> HIDE DEF loop
    <3> QED BY <1>e, <3>2, <3>3, <3>5, QuietLoop
  <2> QED BY <1>d, <1>e, <2>1 DEF Settle
<1>7. ASSUME NEW w \in Worker, QueryFails(w) PROVE Quiet
  <2>1. work[w].job \in JobId
    BY <1>7, <1>a DEF QueryFails, Work
  <2> QED BY <1>7, <1>e, <2>1, QuietUpdates DEF QueryFails, Failed
<1>8. ASSUME NEW w \in Worker, QueryReturns(w) PROVE Quiet
  <2> DEFINE loop == [work[w] EXCEPT !.pc = "deliver"]
  <2>1. /\ loop.pc = "deliver" /\ loop.list = work[w].list
        /\ loop.job = work[w].job /\ loop.run = work[w].run
    BY <1>a DEF Work
  <2>2. Becomes(w, loop)
    BY <1>8 DEF QueryReturns
  <2>3. Calmer(work[w], loop) /\ StoredLoop(loop, files')
    <3> HIDE DEF loop
    <3> QED BY <1>8, <2>1 DEF QueryReturns, Calmer, Claims, StoredLoop
  <2>4. /\ files \subseteq files' /\ rows' = rows
    BY <1>8 DEF QueryReturns
  <2> HIDE DEF loop
  <2> QED BY <2>2, <2>3, <2>4, QuietRows, QuietLoop
<1>9. ASSUME NEW w \in Worker, FinishRun(w) PROVE Quiet
  <2> DEFINE j == work[w].job
  <2>1. work[w].pc = "deliver" /\ j \in JobId /\ rows[j] \in Row
    BY <1>9, <1>a DEF FinishRun, Work
  <2>2. PICK b : Settle(w, [rows[j] EXCEPT !.status = "completed", !.file = work[w].run,
                              !.expires = "live", !.cancelled = b])
    BY <1>9 DEF FinishRun
  <2> DEFINE row == [rows[j] EXCEPT !.status = "completed", !.file = work[w].run,
                       !.expires = "live", !.cancelled = b]
  <2>3. row.status = "completed" /\ row.file = work[w].run /\ row.expires = "live"
    BY <2>1 DEF Row
  <2>4. <<j, work[w].run>> \in files
    BY <1>b, <2>1 DEF StoredLoop
  <2>5. rows[j].expires # "past"
    BY <2>1 DEF ResultInv, PurgeInv, HoldsClaim
  <2>6. Exists(j) => KeptRow(rows[j], row, j) /\ StoredRow(row, j, files)
    <3> HIDE DEF row
    <3> QED BY <2>3, <2>4, <2>5 DEF KeptRow, StoredRow, Exists
  <2> HIDE DEF row
  <2> QED BY <1>9, <1>e, <2>1, <2>2, <2>6 DEF FinishRun, row
<1>10. ASSUME NEW w \in Worker, ReadExpired(w) PROVE Quiet
  <2> DEFINE loop == work'[w]
             expired == {j \in JobId : rows[j].expires = "past"}
  <2>1. /\ loop.pc \in {"stale", "purging"} /\ loop.list = expired
        /\ \A f \in loop.todo : f[1] \in expired
        /\ \A v \in Worker \ {w} : work'[v] = work[v]
    <3> DEFINE todo == {<<j, rows[j].file>> : j \in {k \in expired : rows[k].file # 0}}
               pc == IF expired = {} THEN "stale" ELSE "purging"
    <3>1. Becomes(w, [work[w] EXCEPT !.pc = pc, !.list = expired, !.todo = todo])
      BY <1>10 DEF ReadExpired, Purge, PathsOf, Expired
    <3>2. (\A f \in todo : f[1] \in expired) /\ pc \in {"stale", "purging"}
      OBVIOUS
    <3> HIDE DEF todo, pc, expired
    <3>3. loop = [work[w] EXCEPT !.pc = pc, !.list = expired, !.todo = todo]
      BY <1>a, <3>1 DEF Becomes
    <3>4. loop.pc = pc /\ loop.list = expired /\ loop.todo = todo
      BY <1>a, <3>3 DEF Work
    <3> QED BY <1>a, <3>1, <3>2, <3>4 DEF Becomes
  <2>2. UNCHANGED <<rows, files>>
    BY <1>10 DEF ReadExpired, Purge, PathsOf, Expired
  <2>3. StorageInv'
    BY <2>1, <2>2 DEF ResultInv, StorageInv
  <2>4. \A v \in Worker, j \in JobId : HoldsClaim(v, j)' => HoldsClaim(v, j)
    BY <2>1 DEF HoldsClaim
  <2>5. \A v \in Worker, j \in JobId : HoldsClaim(v, j) => rows[j].expires # "past"
    BY DEF ResultInv, PurgeInv
  <2>6. ASSUME NEW v \in Worker, work'[v].pc = "purging"
        PROVE  /\ \A f \in work'[v].todo : f[1] \in work'[v].list
               /\ \A j \in work'[v].list : /\ rows'[j].expires = "past" \/ ~Exists(j)'
                                           /\ \A u \in Worker : ~HoldsClaim(u, j)'
    <3>1. CASE v = w
      BY <2>1, <2>2, <2>4, <2>5, <3>1
    <3>2. CASE v # w
      <4>1. work'[v] = work[v]
        BY <2>1, <3>2
      <4>2. \A j \in work[v].list : j \in JobId
        BY <1>a DEF Work
      <4>3. /\ \A f \in work[v].todo : f[1] \in work[v].list
            /\ \A j \in work[v].list : /\ rows[j].expires = "past" \/ ~Exists(j)
                                       /\ \A u \in Worker : ~HoldsClaim(u, j)
        BY <2>6, <4>1 DEF ResultInv, PurgeInv
      <4> QED BY <2>2, <2>4, <4>1, <4>2, <4>3 DEF Exists
    <3> QED BY <3>1, <3>2
  <2>7. PurgeInv'
    BY <2>2, <2>4, <2>5, <2>6 DEF PurgeInv
  <2> QED BY <2>3, <2>7
<1>11. ASSUME NEW w \in Worker, PurgeFile(w) PROVE Quiet
  <2>1. PICK f \in work[w].todo :
          /\ Becomes(w, [work[w] EXCEPT !.todo = @ \ {f}])
          /\ files' = files \ {f} \/ files' = files
    BY <1>11 DEF PurgeFile
  <2>2. f[1] \in JobId /\ f = <<f[1], f[2]>>
    BY <1>a, <2>1 DEF Work
  <2>3. /\ rows[f[1]].expires # "live"
        /\ \A v \in Worker : ~HoldsClaim(v, f[1])
    <3>1. work[w].pc = "purging" /\ f[1] \in work[w].list
      BY <1>11, <2>1 DEF PurgeFile, ResultInv, PurgeInv
    <3> QED BY <2>2, <3>1 DEF ResultInv, PurgeInv, FreshInv
  <2>4. rows' = rows
    BY <1>11 DEF PurgeFile
  <2>5. \A j \in JobId : KeptRow(rows[j], rows'[j], j) /\ StoredRow(rows'[j], j, files')
    BY <1>b, <2>1, <2>2, <2>3, <2>4 DEF StoredRow
  <2>6. \A v \in Worker : StoredLoop(work[v], files')
    BY <1>a, <1>b, <2>1, <2>2, <2>3 DEF StoredLoop, HoldsClaim, Work
  <2> DEFINE loop == [work[w] EXCEPT !.todo = @ \ {f}]
  <2>7. /\ loop.pc = work[w].pc /\ loop.list = work[w].list /\ loop.job = work[w].job
        /\ loop.todo \subseteq work[w].todo /\ loop.pc = "purging"
    BY <1>11, <1>a DEF PurgeFile, Work
  <2>8. Becomes(w, loop)
    BY <2>1
  <2> HIDE DEF loop
  <2>9. \A v \in Worker : work'[v] = work[v] \/ (v = w /\ work'[v] = loop)
    BY <1>a, <2>8 DEF Becomes
  <2>10. \A v \in Worker : Calmer(work[v], work'[v]) /\ StoredLoop(work'[v], files')
    BY <2>6, <2>7, <2>9 DEF Calmer, Claims, StoredLoop
  <2> QED BY <2>5, <2>10, QuietStep DEF ResultInv
<1>12. ASSUME NEW w \in Worker, PurgeRows(w) PROVE Quiet
  <2>1. [work[w] EXCEPT !.pc = "stale", !.list = {}].pc = "stale"
    BY <1>a DEF Work
  <2>2. \A j \in JobId : KeptRow(rows[j], rows'[j], j) /\ StoredRow(rows'[j], j, files)
    BY <1>12, <1>b DEF PurgeRows
  <2> QED BY <1>12, <1>c, <2>1, <2>2 DEF PurgeRows
<1>13. ASSUME NEW w \in Worker, PurgeStale(w) PROVE Quiet
  <2>1. Asleep.pc = "asleep"
    BY DEF Asleep
  <2>2. \A j \in JobId : KeptRow(rows[j], rows'[j], j) /\ StoredRow(rows'[j], j, files)
    BY <1>13, <1>b DEF PurgeStale, Retire
  <2> QED BY <1>13, <1>c, <2>1, <2>2 DEF PurgeStale, Retire
<1>14. ASSUME NEW w \in Worker, Crash(w) \/ Restart(w) PROVE Quiet
  <2>1. /\ [Asleep EXCEPT !.pc = "down"].pc = "down"
        /\ [work[w] EXCEPT !.pc = "asleep"].pc = "asleep"
    BY <1>a DEF Asleep, Work
  <2> QED BY <1>14, <1>b, <1>c, <2>1 DEF Crash, Restart
<1>15. ASSUME RequestStep PROVE Quiet
  <2>1. ASSUME NEW q \in Request, CancelCommit(q) PROVE Quiet
    <3>1. req[q].job \in JobId
      BY <2>1 DEF CancelCommit, TypeOK, RequestState
    <3>2. \A j \in JobId : KeptRow(rows[j], rows'[j], j) /\ StoredRow(rows'[j], j, files)
      BY <2>1, <1>a, <1>b, <3>1, QuietUpdates DEF CancelCommit
    <3> QED BY <2>1, <3>2, QuietRequest DEF CancelCommit
  <2>2. ASSUME NEW q \in Request, RunNowCommit(q) PROVE Quiet
    <3>1. CASE UNCHANGED <<rows, nextId>>
      BY <2>2, <3>1, <1>b, QuietRequest DEF RunNowCommit
    <3>2. ASSUME NEW f, Insert(1, f) PROVE Quiet
      BY <2>2, <3>2, InsertQuiet, QuietRequest DEF RunNowCommit
    <3> QED BY <2>2, <3>1, <3>2 DEF RunNowCommit
  <2>3. ASSUME NEW q \in Request, NEW j \in JobId, CancelRead(q, j) PROVE Quiet
    BY <2>3, <1>b, QuietRequest DEF CancelRead
  <2>4. ASSUME NEW q \in Request, NEW r \in Report, RunNowRead(q, r) PROVE Quiet
    BY <2>4, <1>b, QuietRequest DEF RunNowRead
  <2>5. ASSUME NEW r \in Report, DeleteReport(r) PROVE Quiet
    <3>1. \A j \in JobId : KeptRow(rows[j], rows'[j], j) /\ StoredRow(rows'[j], j, files)
      BY <2>5, <1>b, QuietUpdates DEF DeleteReport
    <3> QED BY <2>5, <3>1, QuietRequest DEF DeleteReport
  <2>6. ASSUME DeleteUser PROVE Quiet
    BY <2>6, <1>b, QuietRequest DEF DeleteUser
  <2> QED BY <1>15, <2>1, <2>2, <2>3, <2>4, <2>5, <2>6 DEF RequestStep
<1>16. ASSUME TimeStep PROVE Quiet
  <2>1. ASSUME LockExpires PROVE Quiet
    BY <2>1, <1>b, QuietRequest DEF LockExpires
  <2>2. ASSUME NEW j \in JobId, BecomeLate(j) \/ AgeOut(j) PROVE Quiet
    <3>1. \A i \in JobId : KeptRow(rows[i], rows'[i], i) /\ StoredRow(rows'[i], i, files)
      BY <2>2, <1>a, <1>b, QuietUpdates DEF BecomeLate, AgeOut
    <3> QED BY <2>2, <3>1, QuietRequest DEF BecomeLate, AgeOut
  <2>3. ASSUME NEW j \in JobId, Expire(j) PROVE Quiet
    <3>1. /\ rows' = [rows EXCEPT ![j] = [@ EXCEPT !.expires = "past"]]
          /\ rows[j].expires = "live" /\ ~Held(j) /\ UNCHANGED <<files, work>>
          /\ rows[j] \in Row
      BY <2>3, <1>a DEF Expire
    <3>2. /\ rows'[j].expires = "past" /\ rows'[j].status = rows[j].status
          /\ rows[j].status # "pending"
      BY <1>a, <1>b, <3>1 DEF Row, StoredRow
    <3>3. \A i \in JobId : i # j => rows'[i] = rows[i]
      BY <1>a, <3>1
    <3>4. StorageInv'
      BY <1>b, <3>1, <3>2, <3>3 DEF StorageInv, StoredRow, StoredLoop
    <3>5. \A v \in Worker : ~HoldsClaim(v, j)
      BY <3>1 DEF Held, HoldsClaim
    <3>6. \A v \in Worker, i \in JobId : HoldsClaim(v, i)' <=> HoldsClaim(v, i)
      BY <3>1 DEF HoldsClaim
    <3>7. \A i \in JobId : /\ rows[i].expires = "past" \/ ~Exists(i)
                           => rows'[i].expires = "past" \/ ~Exists(i)'
      BY <3>2, <3>3 DEF Exists
    <3>8. PurgeInv'
      <4>1. \A v \in Worker, i \in JobId : HoldsClaim(v, i)' => rows'[i].expires # "past"
        BY <3>3, <3>5, <3>6 DEF ResultInv, PurgeInv
      <4>2. \A v \in Worker : work[v].list \subseteq JobId
        BY <1>a DEF Work
      <4> QED BY <3>1, <3>6, <3>7, <4>1, <4>2 DEF ResultInv, PurgeInv
    <3> QED BY <3>4, <3>8
  <2> QED BY <1>16, <2>1, <2>2, <2>3 DEF TimeStep
<1>17. CASE UNCHANGED vars
  BY <1>17, <1>b, QuietRequest DEF vars
<1> QED
  BY <1>1, <1>2, <1>3, <1>4, <1>5, <1>6, <1>7, <1>8, <1>9, <1>10, <1>11, <1>12, <1>13,
     <1>14, <1>15, <1>16, <1>17 DEF Next, WorkerStep

\* Ids, storage and retention agree in every reachable state.
THEOREM ResultsAgree == Spec => [](TypeOK /\ ResultInv)
<1>1. Init => TypeOK /\ ResultInv
  <2> SUFFICES ASSUME Init PROVE TypeOK /\ ResultInv
    OBVIOUS
  <2>1. \A w \in Worker : work[w].pc = "asleep" /\ work[w].list = {} /\ work[w].job = 0
                        /\ work[w].todo = {}
    BY DEF Init, Asleep, NoJob
  <2>2. \A j \in JobId : rows[j].status = "none" /\ rows[j].expires = "null"
    BY DEF Init, NoRow
  <2>3. ResultInv
    BY <2>1, <2>2 DEF Init, ResultInv, FreshInv, StorageInv, PurgeInv, HoldsClaim, Exists
  <2> QED BY <2>3, TypeInit
<1>2. TypeOK /\ ResultInv /\ [Next]_vars => (TypeOK /\ ResultInv)'
  BY TypeStep, FreshStep, ResultStep DEF ResultInv
<1> QED BY <1>1, <1>2, PTL DEF Spec

\* A completed run inside its window can be downloaded (download_export_content),
\* whatever the other replicas, cancels, reapers, purges and crashes did.
THEOREM DownloadsWork == Spec => []DownloadAvailable
<1>1. ResultInv => DownloadAvailable
  BY DEF ResultInv, StorageInv, DownloadAvailable, DownloadStatus, Exists, Active
<1> QED BY <1>1, ResultsAgree, PTL

\* Retention removes only what is over (purge_expired_results).
THEOREM RetentionIsSafe == Spec => PurgeTakesOnlyExpired
<1> DEFINE Over(j) ==
             \/ rows[j].expires = "past"
             \/ rows[j].aged /\ rows[j].status \notin Active
           Safe == ~(DeleteUser) => \A j \in JobId : Exists(j) /\ ~Exists(j)' => Over(j)
<1>1. TypeOK /\ ResultInv /\ [Next]_vars => [Safe]_vars
  <2> SUFFICES ASSUME TypeOK, ResultInv, Next, ~DeleteUser,
                      NEW j \in JobId, Exists(j), ~Exists(j)'
               PROVE  Over(j)
    BY DEF vars
  <2> USE DEF dbVars
  <2>a. /\ rows \in [JobId -> Row] /\ rows[j] \in Row /\ \A i \in JobId : rows[i] \in Row
        /\ \A w \in Worker : work[w] \in Work
    BY DEF TypeOK
  <2>b. rows' # rows
    BY DEF Exists
  <2>c. ASSUME NEW k, NEW f, Insert(k, f) PROVE FALSE
    <3>1. rows'[j] = rows[j] \/ rows'[j] = NewRow(f[j])
      BY <2>c DEF Insert
    <3> QED BY <3>1 DEF Exists, NewRow, NoRow
  <2>1. ASSUME NEW w \in Worker, WorkerStep(w) PROVE Over(j)
    <3>1. CASE ReapCommit(w)
      <4>1. rows'[j] = rows[j] \/ rows'[j] = Failed(rows[j])
        BY <2>b, <3>1 DEF ReapCommit, Abort
      <4> QED BY <2>a, <4>1, FailedRow DEF Exists
    <3>2. CASE EnqueueDue(w)
      BY <2>b, <2>c, <3>2 DEF EnqueueDue, Abort
    <3>3. CASE StartRun(w)
      <4>1. PICK i \in JobId :
              rows' = [rows EXCEPT ![i] = [@ EXCEPT !.status = "running", !.late = FALSE]]
        BY <2>a, <2>b, <3>3 DEF StartRun, Abort, Work
      <4> QED BY <2>a, <4>1 DEF Exists, Row
    <3>4. CASE QueryFails(w)
      <4>1. rows'[j] = rows[j] \/ rows'[j] = Failed(rows[j])
        BY <2>a, <2>b, <3>4 DEF QueryFails, Settle, Abort, Work
      <4> QED BY <2>a, <4>1, FailedRow DEF Exists
    <3>5. CASE FinishRun(w)
      <4> DEFINE n == work[w].run
      <4>1. PICK b : Settle(w, [rows[work[w].job] EXCEPT !.status = "completed", !.file = n,
                                  !.expires = "live", !.cancelled = b])
        BY <3>5 DEF FinishRun
      <4>2. \/ rows'[j] = rows[j]
            \/ rows'[j] = [rows[j] EXCEPT !.status = "completed", !.file = n,
                                          !.expires = "live", !.cancelled = b]
        BY <2>a, <4>1 DEF Settle, Abort
      <4>3. [rows[j] EXCEPT !.status = "completed", !.file = n,
                            !.expires = "live", !.cancelled = b].status # "none"
        BY <2>a DEF Row
      <4> QED BY <4>2, <4>3 DEF Exists
    <3>6. CASE PurgeRows(w)
      <4>1. j \in work[w].list
        BY <3>6 DEF PurgeRows, Exists
      <4>2. work[w].pc = "purging"
        BY <3>6 DEF PurgeRows
      <4> QED BY <4>1, <4>2 DEF ResultInv, PurgeInv
    <3>7. CASE PurgeStale(w)
      BY <3>7 DEF PurgeStale, Retire, Exists, Active
    <3>8. /\ ~WakeUp(w) /\ ~ReadDue(w) /\ ~ClaimPending(w)
          /\ ~QueryReturns(w) /\ ~ReadExpired(w) /\ ~PurgeFile(w)
      <4>1. ~WakeUp(w)
        BY <2>b DEF WakeUp, Tick, Stuck
      <4>2. ~ReadDue(w) /\ ~ClaimPending(w) /\ ~QueryReturns(w)
        BY <2>b DEF ReadDue, ClaimPending, QueryReturns
      <4>3. ~ReadExpired(w) /\ ~PurgeFile(w)
        BY <2>b DEF ReadExpired, Purge, PathsOf, Expired, PurgeFile
      <4> QED BY <4>1, <4>2, <4>3
    <3> QED BY <2>1, <3>1, <3>2, <3>3, <3>4, <3>5, <3>6, <3>7, <3>8 DEF WorkerStep
  <2>2. ASSUME RequestStep PROVE FALSE
    <3>1. ASSUME NEW q \in Request, CancelCommit(q) PROVE FALSE
      BY <3>1, <2>a, <2>b DEF CancelCommit, Exists, Row
    <3>2. ASSUME NEW q \in Request, RunNowCommit(q) PROVE FALSE
      BY <3>2, <2>b, <2>c DEF RunNowCommit
    <3>3. ASSUME NEW r \in Report, DeleteReport(r) PROVE FALSE
      BY <3>3, <2>a DEF DeleteReport, Exists, Row
    <3> QED BY <2>2, <2>b, <3>1, <3>2, <3>3 DEF RequestStep, CancelRead, RunNowRead
  <2>3. ASSUME TimeStep PROVE FALSE
    <3>1. ASSUME NEW i \in JobId, BecomeLate(i) PROVE FALSE
      BY <3>1, <2>a DEF BecomeLate, Exists, Row
    <3>2. ASSUME NEW i \in JobId, Expire(i) PROVE FALSE
      BY <3>2, <2>a DEF Expire, Exists, Row
    <3>3. ASSUME NEW i \in JobId, AgeOut(i) PROVE FALSE
      BY <3>3, <2>a DEF AgeOut, Exists, Row
    <3> QED BY <2>3, <2>b, <3>1, <3>2, <3>3 DEF TimeStep, LockExpires
  <2>4. ASSUME NEW w \in Worker, Crash(w) \/ Restart(w) PROVE FALSE
    BY <2>4, <2>b DEF Crash, Restart
  <2> QED BY <2>1, <2>2, <2>3, <2>4 DEF Next
<1> QED BY <1>1, ResultsAgree, PTL DEF Spec, PurgeTakesOnlyExpired

-------------------------------------------------------------------------------
(***************************************************************************)
(* How often ExportRunner starts a job, what becomes of a recorded outcome *)
(* and of a stored file.  Without any hypothesis, a job is started at most *)
(* once per replica.  "One run per job", final outcomes, the promise of    *)
(* RunLog and the absence of orphaned files are proved where one loop at a *)
(* time can be inside a tick: a single replica, or a Redis lock that is    *)
(* not lost before the tick ends (operator Exclusive).  The run            *)
(* ExportSlowTick shows that the hypothesis is needed.                     *)
(***************************************************************************)
\* A step after which no row is newly queued and no loop has claimed more.
QueueQuiet ==
    /\ ran' = ran /\ nextId <= nextId' /\ nextId' \in Nat
    /\ \A j \in JobId : rows'[j].status = "pending" =>
                          rows[j].status = "pending" \/ ~(j < nextId)
    /\ \A v \in Worker : Unstarted(work'[v]) \subseteq Unstarted(work[v])

\* The step of StartRun that finds the row of the job it starts.
Starts(w, j) ==
    /\ work[w].pc = "next" /\ j \in work[w].list /\ Exists(j)
    /\ rows' = [rows EXCEPT ![j] = [@ EXCEPT !.status = "running", !.late = FALSE]]
    /\ ran' = [ran EXCEPT ![j] = @ + 1]
    /\ Becomes(w, [work[w] EXCEPT !.pc = "query", !.job = j,
                     !.run = ran[j] + 1, !.list = @ \ {j}])
    /\ UNCHANGED <<nextId, lock>>

\* Only those two kinds of step make a job run, or a loop mean to run it.
LEMMA QueueStep ==
    TypeOK /\ [Next]_vars => \/ QueueQuiet
                             \/ \E w \in Worker : ClaimPending(w)
                             \/ \E w \in Worker, j \in JobId : Starts(w, j)
<1> SUFFICES ASSUME TypeOK, [Next]_vars,
                    ~ \E w \in Worker : ClaimPending(w),
                    ~ \E w \in Worker, j \in JobId : Starts(w, j)
             PROVE  QueueQuiet
  OBVIOUS
<1> USE DEF dbVars
<1>a. /\ rows \in [JobId -> Row] /\ work \in [Worker -> Work] /\ nextId \in Nat
      /\ \A w \in Worker : work[w] \in Work
  BY DEF TypeOK
\* a step of a loop that claims and queues nothing
<1>b. ASSUME NEW w \in Worker, NEW loop, Becomes(w, loop), UNCHANGED <<ran, nextId>>,
             Unstarted(loop) \subseteq Unstarted(work[w]),
             \A j \in JobId : rows'[j].status = "pending" => rows[j].status = "pending"
      PROVE  QueueQuiet
  <2>1. work'[w] = loop /\ \A v \in Worker : work'[v] = work[v] \/ v = w
    BY <1>a, <1>b, LoopStep
  <2>2. \A v \in Worker : Unstarted(work'[v]) \subseteq Unstarted(work[v])
    BY <1>b, <2>1
  <2> QED BY <1>a, <1>b, <2>2 DEF QueueQuiet
<1>c. ASSUME NEW w \in Worker, Abort(w), UNCHANGED <<ran, nextId>> PROVE QueueQuiet
  BY <1>b, <1>c DEF Abort, Unstarted, Asleep
\* a request or a tick of the clock
<1>d. ASSUME UNCHANGED <<work, ran>>, nextId <= nextId', nextId' \in Nat,
             \A j \in JobId : rows'[j].status = "pending" =>
                                rows[j].status = "pending" \/ ~(j < nextId)
      PROVE  QueueQuiet
  BY <1>d DEF QueueQuiet
<1>e. ASSUME NEW k \in Nat, NEW f, Insert(k, f)
      PROVE  /\ nextId <= nextId' /\ nextId' \in Nat
             /\ \A j \in JobId : rows'[j].status = "pending" =>
                                   rows[j].status = "pending" \/ ~(j < nextId)
  <2>1. nextId <= nextId' /\ nextId' \in Nat /\ \A j \in FreshIds(k) : ~(j < nextId)
    BY <1>a, <1>e DEF Insert, FreshIds
  <2>2. \A j \in JobId : j \notin FreshIds(k) => rows'[j] = rows[j]
    BY <1>e DEF Insert
  <2> QED BY <2>1, <2>2
<1>1. ASSUME NEW w \in Worker, WakeUp(w) PROVE QueueQuiet
  <2> DEFINE loop == [work[w] EXCEPT !.pc = IF Stuck = {} THEN "enqueue" ELSE "reaping",
                                     !.list = Stuck]
  <2>1. Unstarted(loop) = {}
    BY <1>a DEF Work, Unstarted
  <2> QED BY <1>1, <1>b, <2>1 DEF WakeUp, Tick
<1>2. ASSUME NEW w \in Worker, ReapCommit(w) PROVE QueueQuiet
  <2>1. CASE \A j \in work[w].list : Exists(j)
    <3>1. \A j \in JobId : rows'[j].status = "pending" => rows[j].status = "pending"
      <4>1. \A j \in JobId : rows'[j] = rows[j] \/ rows'[j] = Failed(rows[j])
        BY <1>2, <2>1 DEF ReapCommit
      <4> QED BY <1>a, <4>1, FailedRow
    <3>2. Unstarted([work[w] EXCEPT !.pc = "enqueue", !.list = {}]) = {}
      BY <1>a DEF Unstarted, Work
    <3> QED BY <1>2, <1>b, <2>1, <3>1, <3>2 DEF ReapCommit
  <2> QED BY <1>2, <1>c, <2>1 DEF ReapCommit
<1>3. ASSUME NEW w \in Worker, ReadDue(w) PROVE QueueQuiet
  <2>1. PICK due : Becomes(w, [work[w] EXCEPT !.pc = IF due = {} THEN "claim" ELSE "enqueuing",
                                            !.due = due])
    BY <1>3 DEF ReadDue
  <2>2. Unstarted([work[w] EXCEPT !.pc = IF due = {} THEN "claim" ELSE "enqueuing",
                                  !.due = due]) = {}
    BY <1>a DEF Unstarted, Work
  <2> QED BY <1>3, <1>b, <2>1, <2>2 DEF ReadDue
<1>4. ASSUME NEW w \in Worker, EnqueueDue(w) PROVE QueueQuiet
  <2> DEFINE k == Cardinality(work[w].due)
             loop == [work[w] EXCEPT !.pc = "claim", !.due = {}]
  <2>1. k \in Nat
    BY <1>a, ConstantAssumption, FS_Subset, FS_CardinalityType DEF Work
  <2>2. Unstarted(loop) = {}
    BY <1>a DEF Unstarted, Work
  <2>3. ASSUME NEW f, Insert(k, f), Becomes(w, loop) PROVE QueueQuiet
    <3> HIDE DEF k, loop
    <3>1. \A v \in Worker : Unstarted(work'[v]) \subseteq Unstarted(work[v])
      BY <1>a, <2>2, <2>3 DEF Becomes
    <3> QED BY <1>4, <1>e, <2>1, <2>3, <3>1 DEF EnqueueDue, QueueQuiet
  <2>4. ASSUME UNCHANGED <<rows, nextId>>, Becomes(w, loop) PROVE QueueQuiet
    BY <1>4, <1>b, <2>2, <2>4 DEF EnqueueDue
  <2> QED BY <1>4, <1>c, <2>3, <2>4 DEF EnqueueDue
<1>6. ASSUME NEW w \in Worker, StartRun(w) PROVE QueueQuiet
  <2>1. PICK j \in work[w].list :
          IF Exists(j)
          THEN /\ rows' = [rows EXCEPT ![j] = [@ EXCEPT !.status = "running", !.late = FALSE]]
               /\ ran' = [ran EXCEPT ![j] = @ + 1]
               /\ Becomes(w, [work[w] EXCEPT !.pc = "query", !.job = j,
                                !.run = ran[j] + 1, !.list = @ \ {j}])
          ELSE Abort(w) /\ UNCHANGED ran
    BY <1>6 DEF StartRun
  <2>2. j \in JobId
    BY <1>a DEF Work
  <2>3. ~Exists(j)
    BY <1>6, <2>1, <2>2 DEF StartRun, Starts
  <2> QED BY <1>6, <1>c, <2>1, <2>3 DEF StartRun
<1>f. ASSUME NEW w \in Worker, NEW row, Settle(w, row), UNCHANGED <<ran, nextId>>,
             work[w].pc \in {"query", "deliver"}, row.status # "pending"
      PROVE  QueueQuiet
  <2>1. Unstarted([work[w] EXCEPT !.pc = "next", !.job = NoJob, !.run = 0])
          \subseteq Unstarted(work[w])
    BY <1>a, <1>f DEF Unstarted, Work
  <2>2. Exists(work[w].job) =>
          \A j \in JobId : rows'[j].status = "pending" => rows[j].status = "pending"
    BY <1>a, <1>f DEF Settle
  <2> QED BY <1>b, <1>c, <1>f, <2>1, <2>2 DEF Settle
<1>7. ASSUME NEW w \in Worker, QueryFails(w) PROVE QueueQuiet
  <2>1. work[w].job \in JobId /\ rows[work[w].job] \in Row
    BY <1>7, <1>a DEF QueryFails, Work
  <2> QED BY <1>7, <1>f, <2>1, FailedRow DEF QueryFails
<1>8. ASSUME NEW w \in Worker, QueryReturns(w) PROVE QueueQuiet
  <2>1. Unstarted([work[w] EXCEPT !.pc = "deliver"]) \subseteq Unstarted(work[w])
    BY <1>8, <1>a DEF QueryReturns, Unstarted, Work
  <2> QED BY <1>8, <1>b, <2>1 DEF QueryReturns
<1>9. ASSUME NEW w \in Worker, FinishRun(w) PROVE QueueQuiet
  <2>1. work[w].job \in JobId /\ rows[work[w].job] \in Row
    BY <1>9, <1>a DEF FinishRun, Work
  <2>2. PICK b : Settle(w, [rows[work[w].job] EXCEPT !.status = "completed",
                              !.file = work[w].run, !.expires = "live", !.cancelled = b])
    BY <1>9 DEF FinishRun
  <2>3. [rows[work[w].job] EXCEPT !.status = "completed", !.file = work[w].run,
           !.expires = "live", !.cancelled = b].status # "pending"
    BY <2>1 DEF Row
  <2> QED BY <1>9, <1>f, <2>2, <2>3 DEF FinishRun
<1>10. ASSUME NEW w \in Worker, ReadExpired(w) PROVE QueueQuiet
  <2> DEFINE loop == [work[w] EXCEPT !.pc = IF Expired = {} THEN "stale" ELSE "purging",
                                     !.list = Expired, !.todo = PathsOf(Expired)]
  <2>1. Unstarted(loop) = {}
    BY <1>a DEF Unstarted, Work
  <2> QED BY <1>10, <1>b, <2>1 DEF ReadExpired, Purge
<1>11. ASSUME NEW w \in Worker, PurgeFile(w) PROVE QueueQuiet
  <2>1. PICK f : Becomes(w, [work[w] EXCEPT !.todo = @ \ {f}])
    BY <1>11 DEF PurgeFile
  <2>2. Unstarted([work[w] EXCEPT !.todo = @ \ {f}]) = Unstarted(work[w])
    BY <1>a DEF Unstarted, Work
  <2> QED BY <1>11, <1>b, <2>1, <2>2 DEF PurgeFile
<1>12. ASSUME NEW w \in Worker, PurgeRows(w) PROVE QueueQuiet
  <2>1. Unstarted([work[w] EXCEPT !.pc = "stale", !.list = {}]) = {}
    BY <1>a DEF Unstarted, Work
  <2> QED BY <1>12, <1>b, <2>1 DEF PurgeRows, NoRow
<1>13. ASSUME NEW w \in Worker, PurgeStale(w) PROVE QueueQuiet
  <2>1. Unstarted(Asleep) = {}
    BY DEF Unstarted, Asleep
  <2> QED BY <1>13, <1>b, <2>1 DEF PurgeStale, Retire, NoRow
<1>14. ASSUME NEW w \in Worker, Crash(w) \/ Restart(w) PROVE QueueQuiet
  <2>1. /\ work'[w].pc \in {"asleep", "down"}
        /\ \A v \in Worker : work'[v] = work[v] \/ v = w
    BY <1>14, <1>a DEF Crash, Restart, Becomes, Asleep, Work
  <2>2. \A v \in Worker : Unstarted(work'[v]) \subseteq Unstarted(work[v])
    BY <2>1 DEF Unstarted
  <2> QED BY <1>14, <1>a, <2>2 DEF Crash, Restart, QueueQuiet
<1>15. ASSUME RequestStep PROVE QueueQuiet
  <2>1. ASSUME NEW q \in Request, CancelCommit(q) PROVE QueueQuiet
    <3>1. \A j \in JobId : rows'[j].status = "pending" => rows[j].status = "pending"
      BY <2>1, <1>a DEF CancelCommit, Row
    <3> QED BY <2>1, <1>a, <1>d, <3>1 DEF CancelCommit
  <2>2. ASSUME NEW q \in Request, RunNowCommit(q) PROVE QueueQuiet
    <3>1. CASE UNCHANGED <<rows, nextId>>
      BY <2>2, <3>1, <1>a, <1>d DEF RunNowCommit
    <3>2. ASSUME NEW f, Insert(1, f) PROVE QueueQuiet
      BY <2>2, <3>2, <1>d, <1>e DEF RunNowCommit
    <3> QED BY <2>2, <3>1, <3>2 DEF RunNowCommit
  <2>3. ASSUME NEW q \in Request, NEW j \in JobId, CancelRead(q, j) PROVE QueueQuiet
    BY <2>3, <1>a, <1>d DEF CancelRead
  <2>4. ASSUME NEW q \in Request, NEW r \in Report, RunNowRead(q, r) PROVE QueueQuiet
    BY <2>4, <1>a, <1>d DEF RunNowRead
  <2>5. ASSUME NEW r \in Report, DeleteReport(r) PROVE QueueQuiet
    <3>1. \A j \in JobId : rows'[j].status = "pending" => rows[j].status = "pending"
      BY <2>5, <1>a DEF DeleteReport, Row
    <3> QED BY <2>5, <1>a, <1>d, <3>1 DEF DeleteReport
  <2>6. ASSUME DeleteUser PROVE QueueQuiet
    BY <2>6, <1>a, <1>d DEF DeleteUser, NoRow
  <2> QED BY <1>15, <2>1, <2>2, <2>3, <2>4, <2>5, <2>6 DEF RequestStep
<1>16. ASSUME TimeStep PROVE QueueQuiet
  <2>1. ASSUME LockExpires PROVE QueueQuiet
    BY <2>1, <1>a, <1>d DEF LockExpires
  <2>2. ASSUME NEW j \in JobId, BecomeLate(j) \/ Expire(j) \/ AgeOut(j) PROVE QueueQuiet
    <3>1. \A i \in JobId : rows'[i].status = rows[i].status
      BY <2>2, <1>a DEF BecomeLate, Expire, AgeOut, Row
    <3> QED BY <2>2, <1>a, <1>d, <3>1 DEF BecomeLate, Expire, AgeOut
  <2> QED BY <1>16, <2>1, <2>2 DEF TimeStep
<1>17. CASE UNCHANGED vars
  BY <1>17, <1>a, <1>d DEF vars
<1> QED
  BY <1>1, <1>2, <1>3, <1>4, <1>6, <1>7, <1>8, <1>9, <1>10, <1>11, <1>12, <1>13,
     <1>14, <1>15, <1>16, <1>17 DEF Next, WorkerStep

-------------------------------------------------------------------------------
\* A step either leaves the lock alone and brings no loop into a tick, or it is
\* WakeUp or LockExpires.
LEMMA TickMoves ==
    TypeOK /\ [Next]_vars =>
      \/ lock' = lock /\ \A v \in Worker : MidTick(v)' => MidTick(v)
      \/ \E w \in Worker : WakeUp(w)
      \/ LockExpires
<1> SUFFICES ASSUME TypeOK, [Next]_vars, ~ \E w \in Worker : WakeUp(w), ~LockExpires
             PROVE  lock' = lock /\ \A v \in Worker : MidTick(v)' => MidTick(v)
  OBVIOUS
<1>a. work \in [Worker -> Work] /\ \A w \in Worker : work[w] \in Work
  BY DEF TypeOK
<1>b. ASSUME NEW w \in Worker, NEW loop, Becomes(w, loop), MidTick(w)
      PROVE  \A v \in Worker : MidTick(v)' => MidTick(v)
  BY <1>a, <1>b DEF Becomes, MidTick
<1>1. ASSUME NEW w \in Worker, WorkerStep(w), ~WakeUp(w)
      PROVE  lock' = lock /\ \A v \in Worker : MidTick(v)' => MidTick(v)
  <2>1. lock' = lock /\ MidTick(w)
    BY <1>1 DEF WorkerStep, ReapCommit, ReadDue, EnqueueDue, ClaimPending, StartRun, QueryFails,
         QueryReturns, FinishRun, ReadExpired, Purge, PurgeFile, PurgeRows, PurgeStale, Retire,
         MidTick
  <2>2. \E loop : Becomes(w, loop)
    BY <1>1 DEF WorkerStep, ReapCommit, ReadDue, EnqueueDue, ClaimPending, StartRun, QueryFails,
         QueryReturns, FinishRun, ReadExpired, Purge, PurgeFile, PurgeRows, PurgeStale, Retire,
         Abort, Settle
  <2> QED BY <1>b, <2>1, <2>2
<1>2. ASSUME NEW w \in Worker, Crash(w) \/ Restart(w)
      PROVE  lock' = lock /\ \A v \in Worker : MidTick(v)' => MidTick(v)
  <2>1. /\ work'[w].pc \in {"asleep", "down"}
        /\ \A v \in Worker : work'[v] = work[v] \/ v = w
    BY <1>2, <1>a DEF Crash, Restart, Becomes, Asleep, Work
  <2> QED BY <1>2, <2>1 DEF Crash, Restart, MidTick
<1>3. ASSUME UNCHANGED <<work, lock>>
      PROVE  lock' = lock /\ \A v \in Worker : MidTick(v)' => MidTick(v)
  BY <1>3 DEF MidTick
<1>4. RequestStep => UNCHANGED <<work, lock>>
  BY DEF RequestStep, CancelRead, CancelCommit, RunNowRead, RunNowCommit, DeleteReport, DeleteUser
<1>5. TimeStep => UNCHANGED <<work, lock>>
  BY DEF TimeStep, BecomeLate, Expire, AgeOut
<1> QED BY <1>1, <1>2, <1>3, <1>4, <1>5 DEF Next, vars

\* One tick at a time.
LEMMA TickStep == Exclusive /\ TypeOK /\ TickInv /\ [Next]_vars => TickInv'
<1> SUFFICES ASSUME Exclusive, TypeOK, TickInv, [Next]_vars PROVE TickInv'
  OBVIOUS
<1>1. CASE lock' = lock /\ \A v \in Worker : MidTick(v)' => MidTick(v)
  BY <1>1 DEF TickInv
<1>2. ASSUME NEW w \in Worker, WakeUp(w) PROVE TickInv'
  <2>1. CASE UseRedis /\ "slow_tick" \notin May
    <3>1. \A v \in Worker : ~MidTick(v)
      BY <1>2, <2>1 DEF WakeUp, TickInv
    <3>2. \A v \in Worker : MidTick(v)' => v = w
      BY <1>2, <3>1 DEF WakeUp, Tick, Becomes, MidTick, TypeOK
    <3> QED BY <1>2, <2>1, <3>2 DEF TickInv, WakeUp, Tick
  <2>2. CASE ~(UseRedis /\ "slow_tick" \notin May)
    BY <2>2 DEF Exclusive, TickInv
  <2> QED BY <2>1, <2>2
<1>3. CASE LockExpires
  BY <1>3 DEF LockExpires, TickInv, MidTick, Exclusive
<1> QED BY <1>1, <1>2, <1>3, TickMoves

\* A start writes 1 where it read 0, and only there.
LEMMA StartsOnce ==
    ASSUME TypeOK, NEW w \in Worker, NEW j \in JobId, Starts(w, j)
    PROVE  /\ ran'[j] = ran[j] + 1 /\ \A i \in JobId : i # j => ran'[i] = ran[i]
           /\ rows'[j].status = "running" /\ \A i \in JobId : i # j => rows'[i] = rows[i]
           /\ work'[w].list = work[w].list \ {j}
           /\ work'[w].job = j /\ work'[w].run = ran[j] + 1 /\ work'[w].pc = "query"
           /\ rows'[j].expires = rows[j].expires /\ rows'[j].file = rows[j].file
           /\ \A v \in Worker : v # w => work'[v] = work[v]
<1>1. rows[j] \in Row /\ work[w] \in Work
  BY DEF TypeOK
<1>2. rows' = [rows EXCEPT ![j] = [rows[j] EXCEPT !.status = "running", !.late = FALSE]]
  BY DEF Starts
<1>3. LET row == [rows[j] EXCEPT !.status = "running", !.late = FALSE] IN
      row.status = "running" /\ row.expires = rows[j].expires /\ row.file = rows[j].file
  BY <1>1 DEF Row
<1>4. /\ rows'[j].status = "running" /\ rows'[j].expires = rows[j].expires
      /\ rows'[j].file = rows[j].file /\ \A i \in JobId : i # j => rows'[i] = rows[i]
  BY <1>2, <1>3 DEF TypeOK
<1>5. ran'[j] = ran[j] + 1 /\ \A i \in JobId : i # j => ran'[i] = ran[i]
  BY DEF Starts, TypeOK
<1>6. DEFINE loop == [work[w] EXCEPT !.pc = "query", !.job = j,
                     !.run = ran[j] + 1, !.list = @ \ {j}]
<1>7. loop.pc = "query" /\ loop.job = j /\ loop.run = ran[j] + 1 /\ loop.list = work[w].list \ {j}
  BY <1>1 DEF Work
<1>8. work'[w] = loop /\ \A v \in Worker : v # w => work'[v] = work[v]
  BY DEF Starts, Becomes, TypeOK
<1> QED BY <1>4, <1>5, <1>7, <1>8

\* Whatever is queued or claimed has not been started, if one loop at a time is
\* in a tick.
LEMMA OnceStep ==
    Exclusive /\ TypeOK /\ OnceInv /\ [Next]_vars => TickInv' /\ RunInv'
<1> SUFFICES ASSUME Exclusive, TypeOK, OnceInv, [Next]_vars PROVE TickInv' /\ RunInv'
  OBVIOUS
<1>a. /\ work \in [Worker -> Work] /\ nextId \in Nat /\ ran \in [JobId -> Nat]
      /\ \A w \in Worker : work[w] \in Work
      /\ TickInv /\ RunInv /\ FreshInv
  BY DEF TypeOK, OnceInv
<1>b. \A j \in JobId, n \in Nat : j \in Nat /\ (~(j < n) <=> j >= n)
  BY ConstantAssumption DEF JobId
<1>1. TickInv'
  BY <1>a, TickStep
<1>2. CASE QueueQuiet
  <2>1. \A j \in JobId : j >= nextId' => j >= nextId
    BY <1>2, <1>a, <1>b DEF QueueQuiet
  <2>2. \A j \in JobId : /\ ran'[j] <= 1
                         /\ rows'[j].status = "pending" \/ j >= nextId' => ran'[j] = 0
    BY <1>2, <1>a, <1>b, <2>1 DEF RunInv, QueueQuiet
  <2>3. \A v \in Worker : \A j \in Unstarted(work'[v]) : ran'[j] = 0
    BY <1>2, <1>a DEF RunInv, Unstarted, QueueQuiet
  <2> QED BY <1>1, <2>2, <2>3 DEF RunInv, Unstarted
<1>3. ASSUME NEW w \in Worker, ClaimPending(w) PROVE RunInv'
  <2>1. /\ \A v \in Worker : v # w => work'[v] = work[v]
        /\ work'[w].list \subseteq Pending /\ UNCHANGED <<rows, nextId, ran>>
    BY <1>3, <1>a DEF ClaimPending, Becomes, dbVars, Work
  <2>2. \A j \in Pending : ran[j] = 0
    BY <1>a DEF RunInv, Pending
  <2> QED BY <1>a, <2>1, <2>2 DEF RunInv
<1>4. ASSUME NEW w \in Worker, NEW j \in JobId, Starts(w, j) PROVE RunInv'
  <2>1. ran[j] = 0 /\ j < nextId /\ nextId' = nextId
    BY <1>4, <1>a DEF Starts, RunInv, FreshInv, Exists
  <2>2. \A i \in JobId : /\ ran'[i] <= 1
                         /\ rows'[i].status = "pending" \/ i >= nextId' => ran'[i] = 0
    BY <1>4, <1>a, <1>b, <2>1, StartsOnce DEF RunInv
  <2>3. ASSUME NEW v \in Worker, work'[v].pc \in {"next", "query", "deliver"},
               NEW i \in work'[v].list
        PROVE  ran'[i] = 0
    <3>1. v = w
      <4>1. CASE v # w
        <5>1. MidTick(v) /\ MidTick(w)
          BY <1>4, <2>3, <4>1, StartsOnce DEF MidTick, Starts
        <5> QED BY <1>a, <4>1, <5>1 DEF TickInv
      <4> QED BY <4>1
    <3>2. i \in work[w].list /\ i # j /\ i \in JobId
      BY <1>4, <1>a, <2>3, <3>1, StartsOnce DEF Work
    <3>3. ran[i] = 0
      BY <1>4, <1>a, <3>2 DEF Starts, RunInv
    <3> QED BY <1>4, <3>2, <3>3, StartsOnce
  <2> QED BY <2>2, <2>3 DEF RunInv
<1> QED BY <1>1, <1>2, <1>3, <1>4, QueueStep

LEMMA OnceInit == Init => TypeOK /\ OnceInv
<1> SUFFICES ASSUME Init PROVE TypeOK /\ OnceInv
  OBVIOUS
<1>1. \A w \in Worker : /\ work[w].pc = "asleep" /\ work[w].list = {} /\ work[w].job = 0
                        /\ work[w].todo = {}
  BY DEF Init, Asleep, NoJob
<1>2. \A j \in JobId : rows[j].status = "none" /\ rows[j].expires = "null" /\ ran[j] = 0
  BY DEF Init, NoRow
<1>3. OnceInv
  BY <1>1, <1>2 DEF Init, OnceInv, FreshInv, TickInv, RunInv, MidTick, Exists
<1> QED BY <1>3, TypeInit

LEMMA OnceNext ==
    Exclusive /\ TypeOK /\ OnceInv /\ [Next]_vars => TypeOK' /\ OnceInv'
  BY TypeStep, FreshStep, OnceStep DEF OnceInv

\* A job's query runs at most once (run_job, claim_pending_jobs), as long as the
\* lock of run_export_worker_loop does its work or there is one replica.
THEOREM RunsOnce == ASSUME Exclusive PROVE Spec => []OneRunPerJob
<1>1. OnceInv => OneRunPerJob
  BY DEF OnceInv, RunInv, OneRunPerJob
<1> QED BY OnceInit, OnceNext, <1>1, PTL DEF Spec

-------------------------------------------------------------------------------
\* The loops that have claimed a job and not started it.
Claimers(j) == {w \in Worker : j \in Unstarted(work[w])}

LEMMA ReplicaStep == TypeOK /\ FreshInv /\ ReplicaInv /\ [Next]_vars => ReplicaInv'
<1> SUFFICES ASSUME TypeOK, FreshInv, ReplicaInv, [Next]_vars, NEW j \in JobId
             PROVE  /\ rows'[j].status = "pending" \/ j >= nextId' => ran'[j] = 0
                    /\ ran'[j] + Cardinality(Claimers(j)') <= Cardinality(Worker)
  BY DEF ReplicaInv, Claimers
<1>a. /\ work \in [Worker -> Work] /\ nextId \in Nat /\ ran \in [JobId -> Nat]
      /\ \A w \in Worker : work[w] \in Work
      /\ ran[j] \in Nat /\ j \in Nat
  BY ConstantAssumption DEF TypeOK, JobId
<1>b. /\ rows[j].status = "pending" \/ j >= nextId => ran[j] = 0
      /\ ran[j] + Cardinality(Claimers(j)) <= Cardinality(Worker)
  BY DEF ReplicaInv, Claimers
<1>c. /\ IsFiniteSet(Claimers(j)) /\ IsFiniteSet(Claimers(j)') /\ Cardinality(Worker) \in Nat
      /\ Cardinality(Claimers(j)) \in Nat /\ Cardinality(Claimers(j)') \in Nat
      /\ Cardinality(Claimers(j)') <= Cardinality(Worker)
  <2>1. Claimers(j) \subseteq Worker /\ Claimers(j)' \subseteq Worker
    BY DEF Claimers
  <2> QED BY <2>1, ConstantAssumption, FS_Subset, FS_CardinalityType
<1>1. CASE QueueQuiet
  <2>1. Claimers(j)' \subseteq Claimers(j)
    BY <1>1 DEF Claimers, QueueQuiet
  <2>2. Cardinality(Claimers(j)') <= Cardinality(Claimers(j))
    BY <1>c, <2>1, FS_Subset
  <2> QED BY <1>1, <1>a, <1>b, <1>c, <2>2 DEF QueueQuiet
<1>2. ASSUME NEW w \in Worker, ClaimPending(w)
      PROVE  /\ rows'[j].status = "pending" \/ j >= nextId' => ran'[j] = 0
             /\ ran'[j] + Cardinality(Claimers(j)') <= Cardinality(Worker)
  <2>1. /\ \A v \in Worker : v # w => work'[v] = work[v]
        /\ work'[w].list \subseteq Pending /\ UNCHANGED <<rows, nextId, ran>>
    BY <1>2, <1>a DEF ClaimPending, Becomes, dbVars, Work
  <2>2. CASE j \in Pending
    BY <1>a, <1>b, <1>c, <2>1, <2>2 DEF Pending
  <2>3. CASE j \notin Pending
    <3>1. Claimers(j)' \subseteq Claimers(j)
      BY <2>1, <2>3 DEF Claimers, Unstarted
    <3>2. Cardinality(Claimers(j)') <= Cardinality(Claimers(j))
      BY <1>c, <3>1, FS_Subset
    <3> QED BY <1>a, <1>b, <1>c, <2>1, <3>2
  <2> QED BY <2>2, <2>3
<1>3. ASSUME NEW w \in Worker, NEW i \in JobId, Starts(w, i)
      PROVE  /\ rows'[j].status = "pending" \/ j >= nextId' => ran'[j] = 0
             /\ ran'[j] + Cardinality(Claimers(j)') <= Cardinality(Worker)
  <2>1. nextId' = nextId /\ i < nextId /\ work[w].pc = "next" /\ i \in work[w].list
    BY <1>3 DEF Starts, FreshInv, Exists
  <2>2. Claimers(j)' \subseteq Claimers(j)
    BY <1>3, <2>1, StartsOnce DEF Claimers, Unstarted
  <2>3. Cardinality(Claimers(j)') <= Cardinality(Claimers(j))
    BY <1>c, <2>2, FS_Subset
  <2>4. CASE j # i
    BY <1>3, <1>a, <1>b, <1>c, <2>1, <2>3, <2>4, StartsOnce
  <2>5. CASE j = i
    <3>1. w \in Claimers(j) /\ w \notin Claimers(j)'
      BY <1>3, <2>1, <2>5, StartsOnce DEF Claimers, Unstarted
    <3>2. Claimers(j)' \subseteq Claimers(j) \ {w}
      BY <2>2, <3>1
    <3>3. Cardinality(Claimers(j)') <= Cardinality(Claimers(j)) - 1
      <4>1. /\ IsFiniteSet(Claimers(j) \ {w})
            /\ Cardinality(Claimers(j) \ {w}) = Cardinality(Claimers(j)) - 1
        BY <1>c, <3>1, FS_RemoveElement
      <4>2. Cardinality(Claimers(j)') <= Cardinality(Claimers(j) \ {w})
        BY <3>2, <4>1, FS_Subset
      <4> QED BY <4>1, <4>2
    <3>4. ~(j >= nextId')
      BY <1>a, <2>1, <2>5
    <3> QED BY <1>3, <1>a, <1>b, <1>c, <2>5, <3>3, <3>4, StartsOnce
  <2> QED BY <2>4, <2>5
<1> QED BY <1>1, <1>2, <1>3, QueueStep

\* Even unsynchronised replicas start a job at most once each: run_job marks it
\* running, and claim_pending_jobs lists a row once per tick and only while it is
\* pending.  Every claim is counted until it is used.
THEOREM StartsBounded == Spec => []AtMostOncePerReplica
<1>1. Init => ReplicaInv
  <2> SUFFICES ASSUME Init, NEW j \in JobId
               PROVE  ran[j] = 0 /\ ran[j] + Cardinality(Claimers(j)) <= Cardinality(Worker)
    BY DEF ReplicaInv, Claimers
  <2>1. Unstarted(Asleep) = {}
    BY DEF Asleep, Unstarted
  <2>2. ran[j] = 0 /\ Claimers(j) = {}
    BY <2>1 DEF Init, Claimers
  <2> QED BY <2>2, ConstantAssumption, FS_EmptySet, FS_CardinalityType
<1>2. TypeOK /\ ReplicaInv => AtMostOncePerReplica
  <2> SUFFICES ASSUME TypeOK, ReplicaInv, NEW j \in JobId PROVE ran[j] <= Cardinality(Worker)
    BY DEF AtMostOncePerReplica
  <2>1. Claimers(j) \subseteq Worker /\ ran[j] \in Nat
    BY DEF Claimers, TypeOK
  <2>2. Cardinality(Claimers(j)) \in Nat /\ Cardinality(Worker) \in Nat
    BY <2>1, ConstantAssumption, FS_Subset, FS_CardinalityType
  <2>3. ran[j] + Cardinality(Claimers(j)) <= Cardinality(Worker)
    BY DEF ReplicaInv, Claimers
  <2> QED BY <2>1, <2>2, <2>3
<1>3. TypeOK /\ FreshInv /\ ReplicaInv /\ [Next]_vars => (TypeOK /\ FreshInv /\ ReplicaInv)'
  BY TypeStep, FreshStep, ReplicaStep
<1>4. Init => FreshInv
  BY OnceInit DEF OnceInv
<1> QED BY TypeInit, <1>1, <1>2, <1>3, <1>4, PTL DEF Spec

-------------------------------------------------------------------------------
(***************************************************************************)
(* The run log is what RunLog promises.                                    *)
(***************************************************************************)

\* What OutcomeInv says of one loop.
InStep(v, R) ==
    /\ v.pc = "reaping" => \A j \in v.list : R[j].status \in {"running", "none"}
    /\ v.pc \in {"query", "deliver"} => R[v.job].status \in {"running", "none"}
    /\ \A j \in Unstarted(v) :
         /\ R[j].status \in {"pending", "none"}
         /\ \A k \in JobId : R[k].status = "pending" /\ k < j => k \in v.list

Terminal(row) == row.expires # "null" => row.status \in {"completed", "failed"}

LEMMA OutcomeParts ==
    OutcomeInv <=> /\ \A q \in Request : req[q].op # "cancel"
                   /\ \A j \in JobId : Terminal(rows[j])
                   /\ \A w \in Worker : InStep(work[w], rows)
  BY DEF OutcomeInv, InStep, Terminal, Pending

\* A loop outside its tick has nothing to keep in step with.
LEMMA IdleInStep ==
    ASSUME NEW v, NEW R, v.pc \notin {"reaping", "next", "query", "deliver"}
    PROVE  InStep(v, R)
  BY DEF InStep, Unstarted

LEMMA IdleUpdates ==
    ASSUME NEW v \in Work, NEW R, NEW pc, pc \notin {"reaping", "next", "query", "deliver"}
    PROVE  /\ \A list : InStep([v EXCEPT !.pc = pc, !.list = list], R)
           /\ \A due : InStep([v EXCEPT !.pc = pc, !.due = due], R)
           /\ \A list, todo : InStep([v EXCEPT !.pc = pc, !.list = list, !.todo = todo], R)
           /\ v.pc = pc => \A todo : InStep([v EXCEPT !.todo = todo], R)
  BY DEF InStep, Unstarted, Work

\* A step of the one loop that is inside a tick.
LEMMA OutcomeLoop ==
    ASSUME TypeOK, OutcomeInv, req' = req, NEW w \in Worker, NEW loop, Becomes(w, loop),
           \A v \in Worker : v # w => ~MidTick(v),
           InStep(loop, rows'), \A j \in JobId : Terminal(rows'[j])
    PROVE  OutcomeInv'
<1>1. work'[w] = loop /\ \A v \in Worker : v # w => work'[v] = work[v]
  BY DEF Becomes, TypeOK
<1>2. \A v \in Worker : v # w => InStep(work'[v], rows')
  BY <1>1, IdleInStep DEF MidTick
<1>3. \A v \in Worker : InStep(work'[v], rows')
  BY <1>1, <1>2
<1> QED BY <1>3, OutcomeParts DEF OutcomeInv, InStep, Terminal, Pending

\* A step that moves no loop, settles no row and queues none but new ones.
LEMMA OutcomeRows ==
    ASSUME TypeOK, FreshInv, OutcomeInv, work' = work, \A q \in Request : req'[q].op # "cancel",
           \A j \in JobId : \/ rows'[j].status = rows[j].status
                            \/ rows'[j].status = "none"
                            \/ ~(j < nextId),
           \A j \in JobId : Terminal(rows'[j])
    PROVE  OutcomeInv'
<1>1. ASSUME NEW v \in Worker PROVE InStep(work[v], rows')
  <2>1. /\ work[v] \in Work /\ InStep(work[v], rows)
        /\ \A j \in work[v].list : j < nextId /\ j \in JobId
        /\ work[v].job < nextId
    BY OutcomeParts DEF TypeOK, FreshInv, Work
  <2>2. \A j \in JobId : j < nextId => rows'[j].status \in {rows[j].status, "none"}
    OBVIOUS
  <2>3. work[v].pc = "reaping" => \A j \in work[v].list : rows'[j].status \in {"running", "none"}
    BY <2>1, <2>2 DEF InStep
  <2>4. work[v].pc \in {"query", "deliver"} => rows'[work[v].job].status \in {"running", "none"}
    BY <2>1, <2>2 DEF InStep, Work
  <2>5. ASSUME NEW j \in Unstarted(work[v])
        PROVE  /\ rows'[j].status \in {"pending", "none"}
               /\ \A k \in JobId : rows'[k].status = "pending" /\ k < j => k \in work[v].list
    <3>1. j \in work[v].list
      BY DEF Unstarted
    <3>2. \A k \in JobId : k < j => k < nextId
      BY <2>1, <3>1, ConstantAssumption DEF JobId, TypeOK
    <3> QED BY <2>1, <2>2, <3>1, <3>2 DEF InStep
  <2> QED BY <2>3, <2>4, <2>5 DEF InStep
<1> QED BY <1>1, OutcomeParts DEF OutcomeInv, InStep, Terminal, Pending

\* How a change of the rows reads in the log.
LEMMA LogMove ==
    ASSUME NEW S \in SUBSET JobId, NEW phase,
           \A j \in JobId : Phase(j)' = IF j \in S THEN phase ELSE Phase(j)
    PROVE  Log!Move(S, phase)
  BY DEF Log!Move

LEMMA LogQuiet ==
    ASSUME nextId' = nextId, \A j \in JobId : rows'[j].status = rows[j].status
    PROVE  UNCHANGED [j \in JobId |-> Phase(j)]
  BY DEF Phase, Exists

LEMMA LogInsert ==
    ASSUME TypeOK, FreshInv, NEW k \in Nat, Room(k), NEW f, Insert(k, f)
    PROVE  Log!Next
<1>1. nextId \in Nat /\ nextId >= 1 /\ nextId' = nextId + k /\ MaxJobs \in Nat
      /\ nextId + k <= MaxJobs + 1
  BY ConstantAssumption DEF TypeOK, Insert, Room
<1>2. FreshIds(k) \in SUBSET JobId
  BY <1>1 DEF FreshIds, JobId
<1>3. \A j \in FreshIds(k) : Phase(j) = "absent"
  BY <1>1, <1>2 DEF FreshIds, FreshInv, Phase
<1>4. \A j \in JobId : Phase(j)' = IF j \in FreshIds(k) THEN "pending" ELSE Phase(j)
  <2>1. \A r : NewRow(r).status = "pending"
    BY DEF NewRow, NoRow
  <2>2. \A j \in FreshIds(k) : Phase(j)' = "pending"
    BY <1>2, <2>1 DEF Insert, Phase, Exists
  <2>3. \A j \in JobId : j \notin FreshIds(k) => rows'[j] = rows[j] /\ (j < nextId <=> j < nextId')
    BY <1>1 DEF Insert, FreshIds, JobId
  <2> QED BY <2>2, <2>3 DEF Phase, Exists
<1>5. FreshIds(k) \subseteq Log!In({"absent"})
  BY <1>2, <1>3 DEF Log!In
<1>6. Log!Submit(FreshIds(k))
  BY <1>2, <1>4, <1>5, LogMove DEF Log!Submit
<1> QED BY <1>2, <1>6 DEF Log!Next

LEMMA LogChange ==
    ASSUME TypeOK, FreshInv, nextId' = nextId, NEW S \in SUBSET JobId,
           \A j \in JobId : j \notin S => rows'[j].status = rows[j].status
    PROVE  /\ /\ \A j \in S : rows[j].status = "running"
              /\ \A j \in S : rows'[j].status = "failed"
              => Log!Next
           /\ /\ \A j \in S : rows[j].status \in {"completed", "failed"}
              /\ \A j \in S : rows'[j].status = "none"
              => Log!Next
<1>1. ASSUME \A j \in S : rows[j].status = "running", \A j \in S : rows'[j].status = "failed"
      PROVE  Log!Next
  <2>1. \A j \in JobId : Phase(j)' = IF j \in S THEN "failed" ELSE Phase(j)
    BY <1>1 DEF Phase, Exists
  <2>2. S \subseteq Log!In({"running"})
    BY <1>1 DEF Log!In, Phase, Exists
  <2> QED BY <2>1, <2>2, LogMove DEF Log!Next, Log!Fail
<1>2. ASSUME \A j \in S : rows[j].status \in {"completed", "failed"},
             \A j \in S : rows'[j].status = "none"
      PROVE  Log!Next
  <2>1. \A j \in S : j < nextId
    BY <1>2 DEF FreshInv, Exists
  <2>2. \A j \in JobId : Phase(j)' = IF j \in S THEN "gone" ELSE Phase(j)
    BY <1>2, <2>1 DEF Phase, Exists
  <2>3. S \subseteq Log!In({"completed", "failed"})
    BY <1>2 DEF Log!In, Phase, Exists
  <2> QED BY <2>2, <2>3, LogMove DEF Log!Next, Log!Remove
<1> QED BY <1>1, <1>2

LEMMA LogComplete ==
    ASSUME NEW j \in JobId, nextId' = nextId, rows[j].status = "running",
           rows'[j].status = "completed",
           \A k \in JobId : k # j => rows'[k].status = rows[k].status
    PROVE  Log!Next
<1>1. \A k \in JobId : Phase(k)' = IF k \in {j} THEN "completed" ELSE Phase(k)
  BY DEF Phase, Exists
<1>2. j \in Log!In({"running"})
  BY DEF Log!In, Phase, Exists
<1> QED BY <1>1, <1>2, LogMove DEF Log!Next, Log!Complete

LEMMA LogStart ==
    ASSUME NEW j \in JobId, nextId' = nextId, rows[j].status = "pending",
           \A k \in Pending : j <= k,
           rows'[j].status = "running",
           \A k \in JobId : k # j => rows'[k].status = rows[k].status
    PROVE  Log!Next
<1>1. \A k \in JobId : Phase(k)' = IF k \in {j} THEN "running" ELSE Phase(k)
  BY DEF Phase, Exists
<1>2. \A k \in Log!In({"pending"}) : j <= k
  BY DEF Log!In, Phase, Exists, Pending
<1>3. j \in Log!In({"pending"})
  BY DEF Log!In, Phase, Exists
<1> QED BY <1>1, <1>2, <1>3, LogMove DEF Log!Next, Log!Start

\* claim_pending_jobs takes the oldest: whatever is older than a claimed job is
\* claimed with it.
LEMMA OldestClaimed ==
    ASSUME NEW j \in Pending, NEW k \in Pending, k < j,
           Cardinality({i \in Pending : i < j}) < ClaimLimit
    PROVE  Cardinality({i \in Pending : i < k}) < ClaimLimit
<1>1. j \in Nat /\ k \in Nat /\ \A i \in Pending : i \in Nat
  BY ConstantAssumption DEF Pending, JobId
<1>2. {i \in Pending : i < k} \subseteq {i \in Pending : i < j}
  <2>1. \A i \in Pending : i < k => i < j
    BY <1>1
  <2> QED BY <2>1
<1>3. IsFiniteSet(JobId)
  BY ConstantAssumption, FS_Interval DEF JobId
<1>4. IsFiniteSet({i \in Pending : i < j}) /\ IsFiniteSet({i \in Pending : i < k})
  BY <1>3, FS_Subset DEF Pending
<1>5. /\ Cardinality({i \in Pending : i < k}) <= Cardinality({i \in Pending : i < j})
      /\ Cardinality({i \in Pending : i < k}) \in Nat
      /\ Cardinality({i \in Pending : i < j}) \in Nat
  BY <1>2, <1>4, FS_Subset, FS_CardinalityType
<1> QED BY <1>5, ConstantAssumption

\* Every step but DeleteUser, which cascades over both tables, is a step of the
\* run log or leaves it alone.
LEMMA LogStep ==
    ASSUME Exclusive, "cancel" \notin May
    PROVE  TypeOK /\ ResultInv /\ LogInv /\ [Next]_vars
             => OutcomeInv' /\ (DeleteUser \/ [Log!Next]_([j \in JobId |-> Phase(j)]))
<1> SUFFICES ASSUME TypeOK, ResultInv, LogInv, [Next]_vars
             PROVE  OutcomeInv' /\ (DeleteUser \/ [Log!Next]_([j \in JobId |-> Phase(j)]))
  OBVIOUS
<1> DEFINE Same == UNCHANGED [j \in JobId |-> Phase(j)]
           Goal == OutcomeInv' /\ (DeleteUser \/ [Log!Next]_([j \in JobId |-> Phase(j)]))
<1>a. /\ rows \in [JobId -> Row] /\ work \in [Worker -> Work] /\ nextId \in Nat
      /\ \A w \in Worker : work[w] \in Work
      /\ \A j \in JobId : rows[j] \in Row
      /\ TickInv /\ FreshInv /\ OutcomeInv /\ OnceInv /\ PurgeInv
      /\ \A j \in JobId : Terminal(rows[j])
      /\ \A w \in Worker : InStep(work[w], rows)
      /\ \A q \in Request : req[q].op # "cancel"
  BY OutcomeParts DEF TypeOK, LogInv, OnceInv, ResultInv
<1>b. TickInv'
  BY <1>a, TickStep
<1>g. Same => (DeleteUser \/ [Log!Next]_([j \in JobId |-> Phase(j)]))
  OBVIOUS
<1>h. Log!Next => (DeleteUser \/ [Log!Next]_([j \in JobId |-> Phase(j)]))
  OBVIOUS
<1> HIDE DEF Same
<1>q. nextId' = nextId /\ (\A j \in JobId : rows'[j].status = rows[j].status) => Same
  BY LogQuiet DEF Same
\* a step of a loop inside its tick
<1>c. ASSUME NEW w \in Worker, NEW loop, Becomes(w, loop), MidTick(w), req' = req,
             InStep(loop, rows'), \A j \in JobId : Terminal(rows'[j])
      PROVE  OutcomeInv'
  <2>1. \A v \in Worker : v # w => ~MidTick(v)
    BY <1>a, <1>c DEF TickInv
  <2> QED BY <1>a, <1>c, <2>1, OutcomeLoop
\* and one that writes no row
<1>d. ASSUME NEW w \in Worker, NEW loop, Becomes(w, loop), MidTick(w),
             UNCHANGED <<rows, nextId, req>>, InStep(loop, rows)
      PROVE  Goal
  BY <1>a, <1>c, <1>d, <1>g, <1>q
<1>e. ASSUME NEW w \in Worker, Abort(w), MidTick(w), UNCHANGED <<nextId, req>> PROVE Goal
  <2>1. InStep(Asleep, rows)
    BY IdleInStep DEF Asleep
  <2> QED BY <1>d, <1>e, <2>1 DEF Abort
<1> USE DEF dbVars
<1>1. ASSUME NEW w \in Worker, WakeUp(w) PROVE Goal
  <2> DEFINE loop == [work[w] EXCEPT !.pc = IF Stuck = {} THEN "enqueue" ELSE "reaping",
                                     !.list = Stuck]
  <2>1. /\ loop.pc \in {"enqueue", "reaping"} /\ loop.list = Stuck
    BY <1>a DEF Work
  <2>2. Becomes(w, loop) /\ UNCHANGED <<rows, nextId, req>>
    BY <1>1 DEF WakeUp, Tick
  <2> HIDE DEF loop
  <2>3. work'[w] = loop /\ \A v \in Worker : v # w => work'[v] = work[v]
    BY <1>a, <2>2 DEF Becomes
  <2>4. \A v \in Worker : v # w => ~MidTick(v)
    BY <1>b, <2>1, <2>3 DEF TickInv, MidTick
  <2>5. InStep(loop, rows')
    BY <2>1, <2>2 DEF InStep, Unstarted, Stuck
  <2>6. OutcomeInv'
    BY <1>a, <2>2, <2>4, <2>5, OutcomeLoop
  <2> QED BY <1>g, <1>q, <2>2, <2>6
<1>2. ASSUME NEW w \in Worker, ReapCommit(w) PROVE Goal
  <2>1. CASE \A j \in work[w].list : Exists(j)
    <3> DEFINE loop == [work[w] EXCEPT !.pc = "enqueue", !.list = {}]
    <3>1. InStep(loop, rows')
      BY <1>a, IdleUpdates
    <3>2. \A j \in JobId : rows'[j] = IF j \in work[w].list THEN Failed(rows[j]) ELSE rows[j]
      BY <1>2, <2>1 DEF ReapCommit
    <3>3. \A j \in JobId : Terminal(rows'[j])
      BY <1>a, <3>2, FailedRow DEF Terminal
    <3>4. work[w].list \in SUBSET JobId /\ \A j \in work[w].list : rows[j].status = "running"
      BY <1>2, <1>a, <2>1 DEF ReapCommit, InStep, Exists, Work
    <3>8. /\ \A j \in work[w].list : rows'[j].status = "failed"
          /\ \A j \in JobId : j \notin work[w].list => rows'[j].status = rows[j].status
      BY <1>a, <3>2, <3>4, FailedRow
    <3>5. Log!Next
      BY <1>2, <1>a, <3>4, <3>8, LogChange DEF ReapCommit
    <3>6. Becomes(w, loop) /\ MidTick(w) /\ req' = req
      BY <1>2, <2>1 DEF ReapCommit, MidTick
    <3>7. OutcomeInv'
      BY <1>c, <3>1, <3>3, <3>6
    <3> QED BY <1>h, <3>5, <3>7
  <2> QED BY <1>2, <1>e, <2>1 DEF ReapCommit, MidTick
<1>3. ASSUME NEW w \in Worker, ReadDue(w) PROVE Goal
  <2>1. PICK due : Becomes(w, [work[w] EXCEPT !.pc = IF due = {} THEN "claim" ELSE "enqueuing",
                                            !.due = due])
    BY <1>3 DEF ReadDue
  <2>3. (IF due = {} THEN "claim" ELSE "enqueuing") \in {"claim", "enqueuing"}
    OBVIOUS
  <2>2. InStep([work[w] EXCEPT !.pc = IF due = {} THEN "claim" ELSE "enqueuing",
                                  !.due = due], rows)
    BY <1>a, <2>3, IdleUpdates
  <2> QED BY <1>3, <1>d, <2>1, <2>2 DEF ReadDue, MidTick
<1>4. ASSUME NEW w \in Worker, EnqueueDue(w) PROVE Goal
  <2> DEFINE k == Cardinality(work[w].due)
             loop == [work[w] EXCEPT !.pc = "claim", !.due = {}]
  <2>1. k \in Nat
    BY <1>a, ConstantAssumption, FS_Subset, FS_CardinalityType DEF Work
  <2>2. \A R : InStep(loop, R)
    BY <1>a, IdleUpdates
  <2>3. ASSUME NEW f, Room(k), Insert(k, f), Becomes(w, loop) PROVE Goal
    <3> HIDE DEF k, loop
    <3>1. \A j \in JobId : rows'[j] = rows[j] \/ rows'[j] = NewRow(f[j])
      BY <2>3 DEF Insert
    <3>2. \A r : Terminal(NewRow(r))
      BY DEF Terminal, NewRow, NoRow
    <3>3. \A j \in JobId : Terminal(rows'[j])
      BY <1>a, <3>1, <3>2
    <3>4. OutcomeInv'
      BY <1>4, <1>c, <2>2, <2>3, <3>3 DEF EnqueueDue, MidTick
    <3> QED BY <1>a, <1>h, <2>1, <2>3, <3>4, LogInsert
  <2>4. ASSUME UNCHANGED <<rows, nextId>>, Becomes(w, loop) PROVE Goal
    BY <1>4, <1>d, <2>2, <2>4 DEF EnqueueDue, MidTick
  <2> QED BY <1>4, <1>e, <2>3, <2>4 DEF EnqueueDue, MidTick
<1>5. ASSUME NEW w \in Worker, ClaimPending(w) PROVE Goal
  <2> DEFINE claimed == {j \in Pending : Cardinality({k \in Pending : k < j}) < ClaimLimit}
             loop == [work[w] EXCEPT !.pc = "next", !.list = claimed]
  <2>1. Becomes(w, loop) /\ MidTick(w) /\ UNCHANGED <<rows, nextId, req>>
    BY <1>5 DEF ClaimPending, MidTick
  <2>2. ASSUME NEW j \in claimed, NEW k \in Pending, k < j PROVE k \in claimed
    BY <2>2, OldestClaimed
  <2>3. claimed \subseteq Pending
    OBVIOUS
  <2>4. loop.pc = "next" /\ loop.list = claimed
    <3> HIDE DEF claimed
    <3> QED BY <1>a DEF Work
  <2> HIDE DEF loop, claimed
  <2>5. InStep(loop, rows)
    BY <2>2, <2>3, <2>4 DEF InStep, Unstarted, Pending
  <2> QED BY <1>d, <2>1, <2>5
<1>6. ASSUME NEW w \in Worker, StartRun(w) PROVE Goal
  <2>1. PICK j \in work[w].list :
          /\ \A k \in work[w].list : j <= k
          /\ IF Exists(j)
             THEN /\ rows' = [rows EXCEPT ![j] = [@ EXCEPT !.status = "running", !.late = FALSE]]
                  /\ ran' = [ran EXCEPT ![j] = @ + 1]
                  /\ Becomes(w, [work[w] EXCEPT !.pc = "query", !.job = j,
                                   !.run = ran[j] + 1, !.list = @ \ {j}])
             ELSE Abort(w) /\ UNCHANGED ran
    BY <1>6 DEF StartRun
  <2>2. j \in JobId /\ work[w].pc = "next" /\ MidTick(w) /\ UNCHANGED <<nextId, req>>
    BY <1>6, <1>a DEF Work, StartRun, MidTick
  <2>3. CASE Exists(j)
    <3> DEFINE loop == [work[w] EXCEPT !.pc = "query", !.job = j,
                          !.run = ran[j] + 1, !.list = @ \ {j}]
    <3>1. Starts(w, j)
      BY <1>6, <2>1, <2>2, <2>3 DEF Starts, StartRun
    <3>2. /\ Becomes(w, loop) /\ loop.pc = "query" /\ loop.job = j
          /\ loop.list = work[w].list \ {j}
      BY <1>a, <2>1, <2>3 DEF Work
    <3> HIDE DEF loop
    <3>3. /\ rows'[j].status = "running" /\ rows'[j].expires = rows[j].expires
          /\ \A k \in JobId : k # j => rows'[k] = rows[k]
      BY <2>2, <3>1, StartsOnce
    <3>4. rows[j].status = "pending" /\ \A k \in Pending : k < j => k \in work[w].list
      BY <1>a, <2>2, <2>3 DEF InStep, Unstarted, Exists, Pending
    <3>5. \A k \in Pending : j <= k
      BY <2>1, <2>2, <3>4 DEF Pending, JobId
    <3>6. Log!Next
      BY <2>2, <3>3, <3>4, <3>5, LogStart
    <3>7. \A k \in JobId : Terminal(rows'[k])
      BY <1>a, <2>2, <3>3, <3>4 DEF Terminal
    <3>8. ASSUME NEW i \in work[w].list, i # j
          PROVE  /\ rows'[i].status \in {"pending", "none"}
                 /\ \A k \in JobId : rows'[k].status = "pending" /\ k < i
                                       => k \in work[w].list \ {j}
      <4>1. i \in JobId /\ i \in Unstarted(work[w])
        BY <1>a, <2>2 DEF Work, Unstarted
      <4> QED BY <1>a, <2>2, <3>3, <3>8, <4>1 DEF InStep
    <3>9. InStep(loop, rows')
      BY <2>2, <3>2, <3>3, <3>8 DEF InStep, Unstarted
    <3> QED BY <1>c, <1>h, <2>2, <3>2, <3>6, <3>7, <3>9
  <2> QED BY <1>e, <2>1, <2>2, <2>3
\* run_job's last commit leaves the rest of the claim in step
<1>f. ASSUME NEW w \in Worker, NEW row, Settle(w, row), UNCHANGED <<nextId, req>>,
             work[w].pc \in {"query", "deliver"}, row.status \in {"failed", "completed"}
      PROVE  Goal
  <2> DEFINE j == work[w].job
             loop == [work[w] EXCEPT !.pc = "next", !.job = NoJob, !.run = 0]
  <2>1. j \in JobId /\ MidTick(w)
    BY <1>a, <1>f DEF Work, MidTick
  <2>2. CASE Exists(j)
    <3>1. loop.pc = "next" /\ loop.list = work[w].list /\ Becomes(w, loop)
      BY <1>a, <1>f, <2>2 DEF Work, Settle
    <3> HIDE DEF loop
    <3>2. rows'[j] = row /\ \A k \in JobId : k # j => rows'[k] = rows[k]
      BY <1>a, <1>f, <2>1, <2>2 DEF Settle
    <3>3. rows[j].status = "running"
      BY <1>a, <1>f, <2>2 DEF InStep, Exists
    <3>4. \A k \in JobId : Terminal(rows'[k])
      BY <1>a, <1>f, <3>2 DEF Terminal
    <3>5. work[w].list \subseteq JobId /\ Unstarted(work[w]) = work[w].list
      BY <1>a, <1>f DEF Work, Unstarted
    <3>6. InStep(loop, rows')
      <4>1. ASSUME NEW i \in work[w].list
            PROVE  /\ rows'[i].status \in {"pending", "none"}
                   /\ \A k \in JobId : rows'[k].status = "pending" /\ k < i => k \in work[w].list
        <5>1. /\ rows[i].status \in {"pending", "none"} /\ i # j
              /\ \A k \in JobId : rows[k].status = "pending" /\ k < i => k \in work[w].list
          BY <1>a, <3>3, <3>5 DEF InStep
        <5> QED BY <1>f, <3>2, <3>5, <5>1
      <4> QED BY <3>1, <4>1 DEF InStep, Unstarted
    <3>7. Log!Next
      <4>1. CASE row.status = "failed"
        <5>1. {j} \in SUBSET JobId /\ \A k \in JobId : k \notin {j} => rows'[k].status = rows[k].status
          BY <2>1, <3>2
        <5> QED BY <1>a, <1>f, <3>2, <3>3, <4>1, <5>1, LogChange
      <4>2. CASE row.status = "completed"
        BY <1>f, <2>1, <3>2, <3>3, <4>2, LogComplete
      <4> QED BY <1>f, <4>1, <4>2
    <3> QED BY <1>c, <1>f, <1>h, <2>1, <3>1, <3>4, <3>6, <3>7
  <2> QED BY <1>e, <1>f, <2>1, <2>2 DEF Settle
<1>7. ASSUME NEW w \in Worker, QueryFails(w) PROVE Goal
  <2>1. work[w].job \in JobId /\ rows[work[w].job] \in Row
    BY <1>7, <1>a DEF QueryFails, Work
  <2> QED BY <1>7, <1>f, <2>1, FailedRow DEF QueryFails
<1>8. ASSUME NEW w \in Worker, QueryReturns(w) PROVE Goal
  <2> DEFINE loop == [work[w] EXCEPT !.pc = "deliver"]
  <2>1. /\ loop.pc = "deliver" /\ loop.list = work[w].list /\ loop.job = work[w].job
        /\ work[w].pc = "query"
    BY <1>8, <1>a DEF QueryReturns, Work
  <2>2. Becomes(w, loop) /\ MidTick(w) /\ UNCHANGED <<rows, nextId, req>>
    BY <1>8 DEF QueryReturns, MidTick
  <2> HIDE DEF loop
  <2>3. InStep(loop, rows)
    BY <1>a, <2>1 DEF InStep, Unstarted
  <2> QED BY <1>d, <2>2, <2>3
<1>9. ASSUME NEW w \in Worker, FinishRun(w) PROVE Goal
  <2>1. work[w].job \in JobId /\ rows[work[w].job] \in Row
    BY <1>9, <1>a DEF FinishRun, Work
  <2>2. PICK b : Settle(w, [rows[work[w].job] EXCEPT !.status = "completed",
                              !.file = work[w].run, !.expires = "live", !.cancelled = b])
    BY <1>9 DEF FinishRun
  <2>3. [rows[work[w].job] EXCEPT !.status = "completed", !.file = work[w].run,
           !.expires = "live", !.cancelled = b].status = "completed"
    BY <2>1 DEF Row
  <2> QED BY <1>9, <1>f, <2>2, <2>3 DEF FinishRun
<1>10. ASSUME NEW w \in Worker, ReadExpired(w) PROVE Goal
  <2> DEFINE loop == [work[w] EXCEPT !.pc = IF Expired = {} THEN "stale" ELSE "purging",
                                     !.list = Expired, !.todo = PathsOf(Expired)]
  <2>2. (IF Expired = {} THEN "stale" ELSE "purging") \in {"stale", "purging"}
    OBVIOUS
  <2>1. InStep(loop, rows)
    BY <1>a, <2>2, IdleUpdates
  <2> QED BY <1>10, <1>d, <2>1 DEF ReadExpired, Purge, MidTick
<1>11. ASSUME NEW w \in Worker, PurgeFile(w) PROVE Goal
  <2>1. PICK f : Becomes(w, [work[w] EXCEPT !.todo = @ \ {f}])
    BY <1>11 DEF PurgeFile
  <2>2. InStep([work[w] EXCEPT !.todo = @ \ {f}], rows)
    BY <1>11, <1>a, IdleInStep DEF PurgeFile, Work
  <2> QED BY <1>11, <1>d, <2>1, <2>2 DEF PurgeFile, MidTick
\* retention: rows that carry an outcome go
<1>r. ASSUME NEW w \in Worker, NEW loop, Becomes(w, loop), MidTick(w), UNCHANGED <<nextId, req>>,
             loop.pc \in {"asleep", "stale"}, NEW S \in SUBSET JobId,
             \A j \in S : rows[j].status \in {"completed", "failed"},
             \A j \in JobId : rows'[j] = rows[j] \/ rows'[j] = NoRow,
             \A j \in JobId : j \notin S => rows'[j].status = rows[j].status,
             \A j \in S : rows'[j] = NoRow
      PROVE  Goal
  <2>1. NoRow.status = "none" /\ Terminal(NoRow)
    BY DEF NoRow, Terminal
  <2>2. \A j \in JobId : Terminal(rows'[j])
    BY <1>a, <1>r, <2>1
  <2>3. InStep(loop, rows')
    BY <1>r, IdleInStep
  <2>4. Log!Next
    BY <1>a, <1>r, <2>1, LogChange
  <2> QED BY <1>c, <1>h, <1>r, <2>2, <2>3, <2>4
<1>12. ASSUME NEW w \in Worker, PurgeRows(w) PROVE Goal
  <2> DEFINE loop == [work[w] EXCEPT !.pc = "stale", !.list = {}]
             S == {j \in JobId : j \in work[w].list /\ Exists(j)}
  <2>1. loop.pc = "stale"
    BY <1>a DEF Work
  <2>2. \A j \in work[w].list : rows[j].expires = "past" \/ ~Exists(j)
    BY <1>12, <1>a DEF PurgeRows, PurgeInv
  <2>3. \A j \in S : rows[j].status \in {"completed", "failed"}
    BY <1>a, <2>2 DEF Terminal
  <2>4. \A j \in JobId : rows'[j] = IF j \in work[w].list THEN NoRow ELSE rows[j]
    BY <1>12 DEF PurgeRows
  <2>5. NoRow.status = "none"
    BY DEF NoRow
  <2>6. \A j \in JobId : j \notin S => rows'[j].status = rows[j].status
    BY <2>4, <2>5 DEF Exists
  <2>7. \A j \in S : rows'[j] = NoRow
    BY <2>4
  <2>8. Becomes(w, loop) /\ MidTick(w) /\ UNCHANGED <<nextId, req>>
    BY <1>12 DEF PurgeRows, MidTick
  <2>9. S \in SUBSET JobId
    OBVIOUS
  <2> HIDE DEF loop, S
  <2> QED BY <1>r, <2>1, <2>3, <2>4, <2>6, <2>7, <2>8, <2>9
<1>13. ASSUME NEW w \in Worker, PurgeStale(w) PROVE Goal
  <2> DEFINE S == {j \in JobId : /\ rows[j].expires = "null" /\ rows[j].aged
                                 /\ rows[j].status \in {"failed", "completed"}}
  <2>1. Asleep.pc = "asleep"
    BY DEF Asleep
  <2>2. \A j \in JobId : rows'[j] = IF j \in S THEN NoRow ELSE rows[j]
    BY <1>13 DEF PurgeStale, Retire
  <2>3. Becomes(w, Asleep) /\ MidTick(w) /\ UNCHANGED <<nextId, req>>
    BY <1>13 DEF PurgeStale, Retire, MidTick
  <2>4. S \in SUBSET JobId /\ \A j \in S : rows[j].status \in {"completed", "failed"}
    OBVIOUS
  <2> HIDE DEF S
  <2> QED BY <1>r, <2>1, <2>2, <2>3, <2>4
<1>14. ASSUME NEW w \in Worker, Crash(w) \/ Restart(w) PROVE Goal
  <2>1. /\ work'[w].pc \in {"asleep", "down"}
        /\ \A v \in Worker : work'[v] = work[v] \/ v = w
        /\ UNCHANGED <<rows, nextId, req>>
    BY <1>14, <1>a DEF Crash, Restart, Becomes, Asleep, Work
  <2>2. \A v \in Worker : InStep(work'[v], rows)
    BY <1>a, <2>1, IdleInStep
  <2>3. OutcomeInv'
    BY <1>a, <2>1, <2>2, OutcomeParts DEF OutcomeInv, InStep, Terminal, Pending
  <2> QED BY <1>g, <1>q, <2>1, <2>3
\* a request or the clock, which settle no run
<1>k. ASSUME UNCHANGED <<work, nextId>>, \A q \in Request : req'[q].op # "cancel",
             \A j \in JobId : rows'[j].status = rows[j].status,
             \A j \in JobId : rows'[j].expires # "null" => rows[j].expires # "null"
      PROVE  Goal
  <2>1. \A j \in JobId : Terminal(rows'[j])
    BY <1>a, <1>k DEF Terminal
  <2>2. OutcomeInv'
    BY <1>a, <1>k, <2>1, OutcomeRows
  <2> QED BY <1>g, <1>k, <1>q, <2>2
<1>15. ASSUME RequestStep PROVE Goal
  <2>0. NoRequest.op = "none" /\ req \in [Request -> RequestState]
    BY DEF NoRequest, TypeOK
  <2>1. \A q \in Request : ~CancelCommit(q) /\ \A j \in JobId : ~CancelRead(q, j)
    BY <1>a DEF CancelCommit, CancelRead
  <2>2. ASSUME NEW q \in Request, RunNowCommit(q) PROVE Goal
    <3>0. \A p \in Request : req'[p].op # "cancel"
      BY <2>2, <1>a, <2>0 DEF RunNowCommit
    <3>1. CASE UNCHANGED <<rows, nextId>>
      BY <2>2, <3>0, <3>1, <1>k DEF RunNowCommit
    <3>2. ASSUME NEW f, Room(1), Insert(1, f) PROVE Goal
      <4>1. \A j \in JobId : rows'[j] = rows[j] \/ (~(j < nextId) /\ \E r : rows'[j] = NewRow(r))
        BY <3>2, <1>a DEF Insert, FreshIds
      <4>2. \A r : Terminal(NewRow(r))
        BY DEF Terminal, NewRow, NoRow
      <4>3. \A j \in JobId : Terminal(rows'[j])
        BY <1>a, <4>1, <4>2
      <4>4. work' = work
        BY <2>2 DEF RunNowCommit
      <4>5. \A j \in JobId : rows'[j].status = rows[j].status \/ ~(j < nextId)
        BY <4>1
      <4>6. OutcomeInv'
        BY <1>a, <3>0, <4>3, <4>4, <4>5, OutcomeRows
      <4> QED BY <1>a, <1>h, <3>2, <4>6, LogInsert
    <3> QED BY <2>2, <3>1, <3>2 DEF RunNowCommit
  <2>4. ASSUME NEW q \in Request, NEW r \in Report, RunNowRead(q, r) PROVE Goal
    <3>1. \A p \in Request : req'[p].op # "cancel"
      BY <2>4, <1>a, <2>0 DEF RunNowRead
    <3> QED BY <2>4, <1>k, <3>1 DEF RunNowRead
  <2>5. ASSUME NEW r \in Report, DeleteReport(r) PROVE Goal
    <3>1. \A j \in JobId : rows'[j].status = rows[j].status /\ rows'[j].expires = rows[j].expires
      BY <2>5, <1>a DEF DeleteReport, Row
    <3> QED BY <2>5, <1>a, <1>k, <3>1 DEF DeleteReport
  <2>6. ASSUME DeleteUser PROVE Goal
    <3>1. \A j \in JobId : rows'[j].status = "none" /\ rows'[j].expires = "null"
      BY <2>6 DEF DeleteUser, NoRow
    <3>2. \A j \in JobId : Terminal(rows'[j])
      BY <3>1 DEF Terminal
    <3>3. OutcomeInv'
      BY <2>6, <1>a, <3>1, <3>2, OutcomeRows DEF DeleteUser
    <3> QED BY <2>6, <3>3
  <2> QED BY <1>15, <2>1, <2>2, <2>4, <2>5, <2>6 DEF RequestStep
<1>16. ASSUME TimeStep PROVE Goal
  <2>1. ASSUME LockExpires PROVE Goal
    BY <2>1, <1>a, <1>k DEF LockExpires
  <2>2. ASSUME NEW j \in JobId, BecomeLate(j) \/ Expire(j) \/ AgeOut(j) PROVE Goal
    <3>1. \A i \in JobId : /\ rows'[i].status = rows[i].status
                           /\ rows'[i].expires # "null" => rows[i].expires # "null"
      BY <2>2, <1>a DEF BecomeLate, Expire, AgeOut, Row
    <3> QED BY <2>2, <1>a, <1>k, <3>1 DEF BecomeLate, Expire, AgeOut
  <2> QED BY <1>16, <2>1, <2>2 DEF TimeStep
<1>17. CASE UNCHANGED vars
  BY <1>17, <1>a, <1>k DEF vars
<1> QED
  BY <1>1, <1>2, <1>3, <1>4, <1>5, <1>6, <1>7, <1>8, <1>9, <1>10, <1>11, <1>12, <1>13,
     <1>14, <1>15, <1>16, <1>17 DEF Next, WorkerStep

LEMMA LogInit == Init => TypeOK /\ ResultInv /\ LogInv
<1> SUFFICES ASSUME Init PROVE TypeOK /\ ResultInv /\ LogInv
  OBVIOUS
<1>1. \A w \in Worker : /\ work[w].pc = "asleep" /\ work[w].list = {} /\ work[w].todo = {}
                        /\ Unstarted(work[w]) = {}
  BY DEF Init, Asleep, Unstarted
<1>2. \A j \in JobId : rows[j].status = "none" /\ rows[j].expires = "null"
  BY DEF Init, NoRow
<1>3. \A q \in Request : req[q].op # "cancel"
  BY DEF Init, NoRequest
<1>4. OutcomeInv
  BY <1>1, <1>2, <1>3 DEF OutcomeInv
<1>5. StorageInv /\ PurgeInv
  BY <1>1, <1>2 DEF StorageInv, PurgeInv, HoldsClaim
<1> QED BY <1>4, <1>5, OnceInit DEF LogInv, OnceInv, ResultInv

LEMMA LogNext ==
    ASSUME Exclusive, "cancel" \notin May
    PROVE  TypeOK /\ ResultInv /\ LogInv /\ [Next]_vars
             => /\ TypeOK' /\ ResultInv' /\ LogInv'
                /\ DeleteUser \/ [Log!Next]_([j \in JobId |-> Phase(j)])
  BY OnceNext, ResultStep, LogStep DEF LogInv, OnceInv, ResultInv

\* The run log implements RunLog's safety part: a run is queued, started oldest
\* first (claim_pending_jobs), settled once (run_job, reap_stuck_jobs) and then
\* removed (purge_expired_results, purge_stale_jobs), as long as nobody cancels,
\* no account is deleted and ticks do not overlap.
THEOREM LogRefined ==
    ASSUME Exclusive, May \cap {"cancel", "leave"} = {}
    PROVE  Spec => Log!Spec
<1>1. Init => Log!Init
  BY DEF Init, Log!Init, Phase, Exists, NoRow, JobId
<1>2. TypeOK /\ ResultInv /\ LogInv /\ [Next]_vars
        => /\ TypeOK' /\ ResultInv' /\ LogInv'
           /\ [Log!Next]_([j \in JobId |-> Phase(j)])
  BY LogNext DEF DeleteUser
<1> QED BY LogInit, <1>1, <1>2, PTL DEF Spec, Log!Spec

\* A recorded outcome is final under the same hypotheses, deleted accounts
\* included: neither the reaper nor a late run_job writes over it.
THEOREM OutcomesAreFinal ==
    ASSUME Exclusive, "cancel" \notin May
    PROVE  Spec => OutcomeIsFinal
<1> DEFINE Kept == \A j \in JobId :
                     rows[j].status \in {"completed", "failed"}
                       => rows'[j].status \in {rows[j].status, "none"}
<1>1. DeleteUser => Kept
  BY DEF DeleteUser, NoRow
<1>2. UNCHANGED [j \in JobId |-> Phase(j)] => Kept
  <2> SUFFICES ASSUME UNCHANGED [j \in JobId |-> Phase(j)], NEW j \in JobId,
                      rows[j].status \in {"completed", "failed"}
               PROVE  rows'[j].status \in {rows[j].status, "none"}
    OBVIOUS
  <2>1. Phase(j)' = Phase(j)
    <3> HIDE DEF Phase
    <3>1. [i \in JobId |-> Phase(i)]'[j] = [i \in JobId |-> Phase(i)][j]
      OBVIOUS
    <3> QED BY <3>1
  <2> QED BY <2>1 DEF Phase, Exists
<1>3. Log!Next /\ TypeOK' => Kept
  <2> SUFFICES ASSUME Log!Next, TypeOK', NEW j \in JobId, rows[j].status \in {"completed", "failed"}
               PROVE  rows'[j].status \in {rows[j].status, "none"}
    OBVIOUS
  <2>1. Phase(j) = rows[j].status
    BY DEF Phase, Exists
  <2>2. Phase(j)' \in {rows[j].status, "gone"}
    BY <2>1 DEF Log!Next, Log!Submit, Log!Fail, Log!Remove, Log!Start, Log!Complete, Log!In,
         Log!Move
  <2>3. rows'[j].status \in Status
    BY DEF TypeOK, Row
  <2> QED BY <2>2, <2>3 DEF Phase, Exists, Status, Active
<1>4. TypeOK /\ ResultInv /\ LogInv /\ [Next]_vars => TypeOK' /\ ResultInv' /\ LogInv' /\ Kept
  BY LogNext, <1>1, <1>2, <1>3
<1>5. Kept => [Kept]_vars
  OBVIOUS
<1> QED BY LogInit, <1>4, <1>5, PTL DEF Spec, OutcomeIsFinal

-------------------------------------------------------------------------------
(***************************************************************************)
(* Every stored file is found again.                                       *)
(***************************************************************************)

\* What OrphanInv says of one row, one loop, one file.
FileRow(row) == row.file # 0 => row.expires # "null"
FileLoop(v, R, fs, died) ==
    /\ v.pc \in {"query", "deliver"} => v.run = 1
    /\ \A j \in Claims(v) : R[j].status # "none"
    /\ v.pc = "purging" /\ died = 0 => \A f \in fs : f[1] \in v.list => f \in v.todo
Delivers(v, f) == v.pc = "deliver" /\ <<v.job, v.run>> = f

LEMMA OrphanParts ==
    OrphanInv <=> /\ \A j \in JobId : FileRow(rows[j])
                  /\ \A f \in files : f[2] = 1
                  /\ \A w \in Worker : FileLoop(work[w], rows, files, crashes)
                  /\ crashes = 0 => \A f \in files : \/ rows[f[1]].file = f[2]
                                                     \/ \E w \in Worker : Delivers(work[w], f)
  BY DEF OrphanInv, FileRow, FileLoop, Delivers, NoOrphanFile, HoldsClaim, Claims, Exists

LEMMA IdleFiles ==
    ASSUME NEW v, NEW R, NEW fs, NEW died, v.pc \notin {"next", "query", "deliver", "purging"}
    PROVE  FileLoop(v, R, fs, died)
  BY DEF FileLoop, Claims

LEMMA IdleFileUpdates ==
    ASSUME NEW v \in Work, NEW R, NEW fs, NEW died,
           NEW pc, pc \notin {"next", "query", "deliver", "purging"}
    PROVE  /\ \A list : FileLoop([v EXCEPT !.pc = pc, !.list = list], R, fs, died)
           /\ \A due : FileLoop([v EXCEPT !.pc = pc, !.due = due], R, fs, died)
           /\ \A list, todo :
                FileLoop([v EXCEPT !.pc = pc, !.list = list, !.todo = todo], R, fs, died)
  BY DEF FileLoop, Claims, Work

\* A step of the one loop that is inside a tick.
LEMMA OrphanLoop ==
    ASSUME TypeOK, OrphanInv, crashes' = crashes, NEW w \in Worker, NEW loop, Becomes(w, loop),
           \A v \in Worker : v # w => ~MidTick(v),
           FileLoop(loop, rows', files', crashes),
           \A j \in JobId : FileRow(rows'[j]),
           \A f \in files' : f[2] = 1,
           crashes = 0 => \A f \in files' : rows'[f[1]].file = f[2] \/ Delivers(loop, f)
    PROVE  OrphanInv'
<1>1. work'[w] = loop /\ \A v \in Worker : v # w => work'[v] = work[v]
  BY DEF Becomes, TypeOK
<1>2. \A v \in Worker : v # w => FileLoop(work'[v], rows', files', crashes)
  BY <1>1, IdleFiles DEF MidTick
<1>3. \A v \in Worker : FileLoop(work'[v], rows', files', crashes')
  BY <1>1, <1>2
<1>4. crashes' = 0 => \A f \in files' : \/ rows'[f[1]].file = f[2]
                                        \/ \E v \in Worker : Delivers(work'[v], f)
  BY <1>1
<1> QED
  BY <1>3, <1>4 DEF OrphanInv, FileRow, FileLoop, Delivers, NoOrphanFile, HoldsClaim, Claims, Exists

\* Rows that keep their file keep what OrphanInv says of them.
SameFile(old, new) ==
    /\ new.file = old.file
    /\ old.expires # "null" => new.expires # "null"
    /\ old.status # "none" => new.status # "none"

LEMMA SameFileUpdates ==
    /\ \A row \in Row : SameFile(row, row) /\ SameFile(row, Failed(row))
    /\ \A row \in Row : /\ SameFile(row, [row EXCEPT !.report = NoReport])
                        /\ SameFile(row, [row EXCEPT !.late = TRUE])
                        /\ SameFile(row, [row EXCEPT !.aged = TRUE])
                        /\ SameFile(row, [row EXCEPT !.expires = "past"])
                        /\ SameFile(row, [row EXCEPT !.status = "running", !.late = FALSE])
                        /\ SameFile(row, [row EXCEPT !.status = "failed", !.cancelled = TRUE])
  BY DEF SameFile, Row, Failed

\* A step of the requests or of the clock.
LEMMA OrphanRows ==
    ASSUME TypeOK, OrphanInv, UNCHANGED <<work, files, crashes>>,
           \A j \in JobId : SameFile(rows[j], rows'[j])
    PROVE  OrphanInv'
<1>1. \A f \in files : f[1] \in JobId
  BY DEF TypeOK
<1>2. \A j \in JobId : FileRow(rows'[j])
  BY OrphanParts DEF FileRow, SameFile
<1>3. \A w \in Worker : FileLoop(work[w], rows', files, crashes)
  BY OrphanParts DEF FileLoop, SameFile, Claims
<1>4. crashes = 0 => \A f \in files : \/ rows'[f[1]].file = f[2]
                                      \/ \E w \in Worker : Delivers(work[w], f)
  BY <1>1, OrphanParts DEF SameFile
<1> QED
  BY <1>2, <1>3, <1>4, OrphanParts
     DEF OrphanInv, FileRow, FileLoop, Delivers, NoOrphanFile, HoldsClaim, Claims, Exists

LEMMA InsertKeepsFiles ==
    ASSUME TypeOK, FreshInv, OrphanInv, NEW k \in Nat, NEW f, Insert(k, f)
    PROVE  \A j \in JobId : SameFile(rows[j], rows'[j])
<1>1. \A j \in FreshIds(k) : ~(j < nextId)
  BY ConstantAssumption DEF TypeOK, FreshIds
<1>2. \A j \in FreshIds(k) \cap JobId :
        rows[j].status = "none" /\ rows[j].expires = "null" /\ rows[j].file = 0
  BY <1>1, OrphanParts DEF FreshInv, Exists, FileRow
<1>3. \A r : NewRow(r).file = 0 /\ NewRow(r).status = "pending"
  BY DEF NewRow, NoRow
<1>4. \A j \in JobId : j \in FreshIds(k) => SameFile(rows[j], rows'[j])
  BY <1>2, <1>3 DEF Insert, SameFile
<1>5. \A j \in JobId : j \notin FreshIds(k) => SameFile(rows[j], rows'[j])
  BY DEF Insert, SameFile
<1> QED BY <1>4, <1>5

LEMMA OrphanStep ==
    ASSUME Exclusive, May \cap {"leave", "storage_fail"} = {}
    PROVE  TypeOK /\ FileInv /\ [Next]_vars => OrphanInv'
<1> SUFFICES ASSUME TypeOK, FileInv, [Next]_vars PROVE OrphanInv'
  OBVIOUS
<1>a. /\ rows \in [JobId -> Row] /\ work \in [Worker -> Work]
      /\ \A w \in Worker : work[w] \in Work
      /\ \A j \in JobId : rows[j] \in Row
      /\ \A f \in files : f \in JobId \X Nat
      /\ TickInv /\ FreshInv /\ OrphanInv /\ OnceInv /\ RunInv
      /\ \A j \in JobId : FileRow(rows[j])
      /\ \A f \in files : f[2] = 1
      /\ \A w \in Worker : FileLoop(work[w], rows, files, crashes)
  BY OrphanParts DEF TypeOK, FileInv, OnceInv
<1>b. TickInv'
  BY <1>a, TickStep
\* while a loop is inside its tick, no other delivers
<1>q. ASSUME NEW w \in Worker, MidTick(w)
      PROVE  /\ \A v \in Worker : v # w => ~MidTick(v)
             /\ crashes = 0 => \A f \in files : rows[f[1]].file = f[2] \/ Delivers(work[w], f)
  <2>1. \A v \in Worker : v # w => ~MidTick(v)
    BY <1>a, <1>q DEF TickInv
  <2>2. \A v \in Worker, f \in files : Delivers(work[v], f) => v = w
    BY <2>1 DEF Delivers, MidTick
  <2> QED BY <1>a, <2>1, <2>2, OrphanParts
\* a step of a loop inside its tick that leaves the files alone
<1>c. ASSUME NEW w \in Worker, NEW loop, Becomes(w, loop), MidTick(w), UNCHANGED <<files, crashes>>,
             work[w].pc # "deliver", FileLoop(loop, rows', files, crashes),
             \A j \in JobId : SameFile(rows[j], rows'[j])
      PROVE  OrphanInv'
  <2>1. \A j \in JobId : FileRow(rows'[j])
    BY <1>a, <1>c DEF FileRow, SameFile
  <2>2. crashes = 0 => \A f \in files : rows[f[1]].file = f[2] /\ f[1] \in JobId
    BY <1>a, <1>c, <1>q DEF Delivers
  <2>3. crashes = 0 => \A f \in files' : rows'[f[1]].file = f[2] \/ Delivers(loop, f)
    BY <1>c, <2>2 DEF SameFile
  <2> QED BY <1>a, <1>c, <1>q, <2>1, <2>3, OrphanLoop
<1>d. ASSUME UNCHANGED rows PROVE \A j \in JobId : SameFile(rows[j], rows'[j])
  BY <1>d DEF SameFile
<1>e. ASSUME NEW w \in Worker, Abort(w), MidTick(w), UNCHANGED <<files, crashes>>,
             work[w].pc # "deliver"
      PROVE  OrphanInv'
  <2>1. FileLoop(Asleep, rows', files, crashes)
    BY IdleFiles DEF Asleep
  <2> QED BY <1>c, <1>d, <1>e, <2>1 DEF Abort
<1> USE DEF dbVars
<1>1. ASSUME NEW w \in Worker, WakeUp(w) PROVE OrphanInv'
  <2> DEFINE loop == [work[w] EXCEPT !.pc = IF Stuck = {} THEN "enqueue" ELSE "reaping",
                                     !.list = Stuck]
  <2>0. (IF Stuck = {} THEN "enqueue" ELSE "reaping") \in {"enqueue", "reaping"}
    OBVIOUS
  <2>1. loop.pc \in {"enqueue", "reaping"} /\ FileLoop(loop, rows', files', crashes)
    BY <1>a, <2>0, IdleFileUpdates DEF Work
  <2>2. Becomes(w, loop) /\ UNCHANGED <<rows, files, crashes>> /\ ~MidTick(w)
    BY <1>1 DEF WakeUp, Tick, MidTick
  <2> HIDE DEF loop
  <2>3. work'[w] = loop /\ \A v \in Worker : v # w => work'[v] = work[v]
    BY <1>a, <2>2 DEF Becomes
  <2>4. \A v \in Worker : ~MidTick(v)
    BY <1>b, <2>1, <2>2, <2>3 DEF TickInv, MidTick
  <2>5. crashes = 0 => \A f \in files : rows[f[1]].file = f[2]
    BY <2>4, OrphanParts, <1>a DEF Delivers, MidTick
  <2> QED BY <1>a, <2>1, <2>2, <2>4, <2>5, OrphanLoop
<1>2. ASSUME NEW w \in Worker, ReapCommit(w) PROVE OrphanInv'
  <2>1. CASE \A j \in work[w].list : Exists(j)
    <3>1. \A j \in JobId : rows'[j] = IF j \in work[w].list THEN Failed(rows[j]) ELSE rows[j]
      BY <1>2, <2>1 DEF ReapCommit
    <3>2. \A j \in JobId : SameFile(rows[j], rows'[j])
      BY <1>a, <3>1, SameFileUpdates
    <3>3. FileLoop([work[w] EXCEPT !.pc = "enqueue", !.list = {}], rows', files, crashes)
      BY <1>a, IdleFileUpdates
    <3> QED BY <1>2, <1>c, <2>1, <3>2, <3>3 DEF ReapCommit, MidTick
  <2> QED BY <1>2, <1>e, <2>1 DEF ReapCommit, MidTick
<1>3. ASSUME NEW w \in Worker, ReadDue(w) PROVE OrphanInv'
  <2>1. PICK due : Becomes(w, [work[w] EXCEPT !.pc = IF due = {} THEN "claim" ELSE "enqueuing",
                                            !.due = due])
    BY <1>3 DEF ReadDue
  <2>2. (IF due = {} THEN "claim" ELSE "enqueuing") \in {"claim", "enqueuing"}
    OBVIOUS
  <2>3. FileLoop([work[w] EXCEPT !.pc = IF due = {} THEN "claim" ELSE "enqueuing",
                                 !.due = due], rows', files, crashes)
    BY <1>a, <2>2, IdleFileUpdates
  <2> QED BY <1>3, <1>c, <1>d, <2>1, <2>3 DEF ReadDue, MidTick
<1>4. ASSUME NEW w \in Worker, EnqueueDue(w) PROVE OrphanInv'
  <2> DEFINE k == Cardinality(work[w].due)
             loop == [work[w] EXCEPT !.pc = "claim", !.due = {}]
  <2>1. k \in Nat
    BY <1>a, ConstantAssumption, FS_Subset, FS_CardinalityType DEF Work
  <2>2. FileLoop(loop, rows', files, crashes)
    BY <1>a, IdleFileUpdates
  <2>3. ASSUME NEW f, Insert(k, f), Becomes(w, loop) PROVE OrphanInv'
    <3> HIDE DEF k, loop
    <3>1. \A j \in JobId : SameFile(rows[j], rows'[j])
      BY <1>a, <2>1, <2>3, InsertKeepsFiles
    <3> QED BY <1>4, <1>c, <2>2, <2>3, <3>1 DEF EnqueueDue, MidTick
  <2>4. ASSUME UNCHANGED <<rows, nextId>>, Becomes(w, loop) PROVE OrphanInv'
    BY <1>4, <1>c, <1>d, <2>2, <2>4 DEF EnqueueDue, MidTick
  <2> QED BY <1>4, <1>e, <2>3, <2>4 DEF EnqueueDue, MidTick
<1>5. ASSUME NEW w \in Worker, ClaimPending(w) PROVE OrphanInv'
  <2> DEFINE claimed == {j \in Pending : Cardinality({k \in Pending : k < j}) < ClaimLimit}
             loop == [work[w] EXCEPT !.pc = "next", !.list = claimed]
  <2>1. /\ Becomes(w, loop) /\ MidTick(w) /\ UNCHANGED <<rows, files, crashes>>
        /\ work[w].pc # "deliver"
    BY <1>5 DEF ClaimPending, MidTick
  <2>2. claimed \subseteq Pending
    OBVIOUS
  <2>3. loop.pc = "next" /\ loop.list = claimed
    <3> HIDE DEF claimed
    <3> QED BY <1>a DEF Work
  <2> HIDE DEF loop, claimed
  <2>4. FileLoop(loop, rows, files, crashes)
    BY <2>2, <2>3 DEF FileLoop, Claims, Pending
  <2> QED BY <1>c, <1>d, <2>1, <2>4
<1>6. ASSUME NEW w \in Worker, StartRun(w) PROVE OrphanInv'
  <2>1. PICK j \in work[w].list :
          IF Exists(j)
          THEN /\ rows' = [rows EXCEPT ![j] = [@ EXCEPT !.status = "running", !.late = FALSE]]
               /\ ran' = [ran EXCEPT ![j] = @ + 1]
               /\ Becomes(w, [work[w] EXCEPT !.pc = "query", !.job = j,
                                !.run = ran[j] + 1, !.list = @ \ {j}])
          ELSE Abort(w) /\ UNCHANGED ran
    BY <1>6 DEF StartRun
  <2>2. /\ j \in JobId /\ work[w].pc = "next" /\ MidTick(w) /\ UNCHANGED <<files, crashes>>
        /\ work[w].list \subseteq JobId
    BY <1>6, <1>a DEF Work, StartRun, MidTick
  <2>3. CASE Exists(j)
    <3> DEFINE loop == [work[w] EXCEPT !.pc = "query", !.job = j,
                          !.run = ran[j] + 1, !.list = @ \ {j}]
    <3>1. Starts(w, j)
      BY <1>6, <2>1, <2>2, <2>3 DEF Starts, StartRun
    <3>2. /\ Becomes(w, loop) /\ loop.pc = "query" /\ loop.job = j /\ loop.run = ran[j] + 1
          /\ loop.list = work[w].list \ {j}
      BY <1>a, <2>1, <2>3 DEF Work
    <3> HIDE DEF loop
    <3>3. ran[j] = 0
      BY <1>a, <2>2 DEF RunInv
    <3>4. /\ rows'[j].status = "running" /\ rows'[j].expires = rows[j].expires
          /\ rows'[j].file = rows[j].file
          /\ \A k \in JobId : k # j => rows'[k] = rows[k]
      BY <2>2, <3>1, StartsOnce
    <3>5. \A k \in JobId : SameFile(rows[k], rows'[k])
      BY <2>2, <3>4 DEF SameFile
    <3>6. FileLoop(loop, rows', files, crashes)
      <4>1. \A k \in work[w].list : k \in JobId /\ rows[k].status # "none"
        BY <1>a, <2>2 DEF FileLoop, Claims
      <4>2. \A k \in Claims(loop) : rows'[k].status # "none"
        BY <2>2, <3>2, <3>4, <4>1 DEF Claims
      <4> QED BY <3>2, <3>3, <4>2 DEF FileLoop
    <3> QED BY <1>c, <2>2, <3>2, <3>5, <3>6
  <2> QED BY <1>e, <2>1, <2>2, <2>3
\* run_job's last commit finds its row: nobody else removes one it claimed
<1>f. ASSUME NEW w \in Worker, NEW row, Settle(w, row), work[w].pc \in {"query", "deliver"}
      PROVE  LET j == work[w].job
                 loop == [work[w] EXCEPT !.pc = "next", !.job = NoJob, !.run = 0] IN
             /\ j \in JobId /\ Exists(j) /\ MidTick(w) /\ Becomes(w, loop)
             /\ rows'[j] = row /\ \A k \in JobId : k # j => rows'[k] = rows[k]
             /\ row.status # "none" => FileLoop(loop, rows', files, crashes)
  <2> DEFINE j == work[w].job
             loop == [work[w] EXCEPT !.pc = "next", !.job = NoJob, !.run = 0]
  <2>1. j \in JobId /\ MidTick(w) /\ j \in Claims(work[w])
    BY <1>a, <1>f DEF Work, MidTick, Claims
  <2>2. Exists(j)
    BY <1>a, <2>1 DEF FileLoop, Exists
  <2>3. /\ Becomes(w, loop) /\ rows'[j] = row /\ \A k \in JobId : k # j => rows'[k] = rows[k]
    BY <1>a, <1>f, <2>1, <2>2 DEF Settle
  <2>4. loop.pc = "next" /\ loop.list = work[w].list
    BY <1>a DEF Work
  <2>5. row.status # "none" => FileLoop(loop, rows', files, crashes)
    <3> HIDE DEF loop, j
    <3>1. \A k \in JobId : k \in work[w].list => rows[k].status # "none"
      BY <1>a, <1>f DEF FileLoop, Claims
    <3> QED BY <2>1, <2>3, <2>4, <3>1 DEF FileLoop, Claims
  <2> QED BY <2>1, <2>2, <2>3, <2>5
<1>7. ASSUME NEW w \in Worker, QueryFails(w) PROVE OrphanInv'
  <2> DEFINE j == work[w].job
             loop == [work[w] EXCEPT !.pc = "next", !.job = NoJob, !.run = 0]
  <2>1. Settle(w, Failed(rows[j])) /\ work[w].pc = "query" /\ UNCHANGED <<files, crashes>>
    BY <1>7 DEF QueryFails
  <2>2. /\ j \in JobId /\ MidTick(w) /\ Becomes(w, loop)
        /\ rows'[j] = Failed(rows[j]) /\ \A k \in JobId : k # j => rows'[k] = rows[k]
        /\ Failed(rows[j]).status # "none" => FileLoop(loop, rows', files, crashes)
    BY <1>f, <2>1
  <2>3. Failed(rows[j]).status = "failed"
    BY <1>a, <2>2, FailedRow
  <2>4. \A k \in JobId : SameFile(rows[k], rows'[k])
    BY <1>a, <2>2, SameFileUpdates
  <2> HIDE DEF loop
  <2> QED BY <1>c, <2>1, <2>2, <2>3, <2>4
<1>8. ASSUME NEW w \in Worker, QueryReturns(w) PROVE OrphanInv'
  <2> DEFINE loop == [work[w] EXCEPT !.pc = "deliver"]
             path == <<work[w].job, work[w].run>>
  <2>1. /\ loop.pc = "deliver" /\ loop.list = work[w].list /\ loop.job = work[w].job
        /\ loop.run = work[w].run /\ work[w].pc = "query" /\ MidTick(w)
    BY <1>8, <1>a DEF QueryReturns, Work, MidTick
  <2>2. Becomes(w, loop) /\ UNCHANGED <<rows, crashes>> /\ files' = files \cup {path}
    BY <1>8 DEF QueryReturns
  <2> HIDE DEF loop
  <2>3. work[w].run = 1 /\ path[2] = work[w].run
    BY <1>a, <2>1 DEF FileLoop
  <2>4. FileLoop(loop, rows', files', crashes)
    BY <1>a, <2>1, <2>2 DEF FileLoop, Claims
  <2>5. crashes = 0 => \A f \in files : rows[f[1]].file = f[2]
    BY <1>q, <2>1 DEF Delivers
  <2>6. crashes = 0 => \A f \in files' : rows'[f[1]].file = f[2] \/ Delivers(loop, f)
    BY <2>1, <2>2, <2>5 DEF Delivers
  <2>7. \A f \in files' : f[2] = 1
    BY <1>a, <2>2, <2>3
  <2> QED BY <1>a, <1>q, <2>1, <2>2, <2>4, <2>6, <2>7, OrphanLoop
<1>9. ASSUME NEW w \in Worker, FinishRun(w) PROVE OrphanInv'
  <2> DEFINE j == work[w].job
             loop == [work[w] EXCEPT !.pc = "next", !.job = NoJob, !.run = 0]
  <2>1. PICK b : Settle(w, [rows[j] EXCEPT !.status = "completed",
                              !.file = work[w].run, !.expires = "live", !.cancelled = b])
    BY <1>9 DEF FinishRun
  <2> DEFINE row == [rows[j] EXCEPT !.status = "completed",
                       !.file = work[w].run, !.expires = "live", !.cancelled = b]
  <2>2. /\ work[w].pc = "deliver" /\ UNCHANGED <<files, crashes>> /\ work[w].run = 1
    BY <1>9, <1>a DEF FinishRun, FileLoop
  <2>3. /\ j \in JobId /\ MidTick(w) /\ Becomes(w, loop)
        /\ rows'[j] = row /\ \A k \in JobId : k # j => rows'[k] = rows[k]
        /\ row.status # "none" => FileLoop(loop, rows', files, crashes)
    BY <1>f, <2>1, <2>2
  <2>4. row.status = "completed" /\ row.file = 1 /\ row.expires = "live"
    BY <1>a, <2>2, <2>3 DEF Row
  <2> HIDE DEF loop, row
  <2>5. \A k \in JobId : FileRow(rows'[k])
    BY <1>a, <2>3, <2>4 DEF FileRow
  <2>6. crashes = 0 => \A f \in files : rows[f[1]].file = f[2] \/ f[1] = j
    BY <1>q, <2>3 DEF Delivers
  <2>7. crashes = 0 => \A f \in files : rows'[f[1]].file = f[2]
    BY <1>a, <2>3, <2>4, <2>6
  <2> QED BY <1>a, <1>q, <2>2, <2>3, <2>4, <2>5, <2>7, OrphanLoop
<1>10. ASSUME NEW w \in Worker, ReadExpired(w) PROVE OrphanInv'
  <2> DEFINE pc == IF Expired = {} THEN "stale" ELSE "purging"
             paths == PathsOf(Expired)
             loop == [work[w] EXCEPT !.pc = pc, !.list = Expired, !.todo = paths]
  <2>1. /\ Becomes(w, loop) /\ MidTick(w) /\ UNCHANGED <<rows, files, crashes>>
        /\ work[w].pc # "deliver"
    BY <1>10 DEF ReadExpired, Purge, MidTick
  <2>2. crashes = 0 => \A f \in files : rows[f[1]].file = f[2]
    BY <1>q, <2>1 DEF Delivers
  <2>3. crashes = 0 => \A f \in files : f[1] \in Expired => f \in paths
    <3> SUFFICES ASSUME crashes = 0, NEW f \in files, f[1] \in Expired PROVE f \in paths
      OBVIOUS
    <3>1. f = <<f[1], f[2]>> /\ f[2] = 1 /\ rows[f[1]].file = f[2]
      BY <1>a, <2>2
    <3> QED BY <3>1 DEF PathsOf
  <2>4. pc \in {"stale", "purging"}
    OBVIOUS
  <2>5. loop.pc = pc /\ loop.list = Expired /\ loop.todo = paths
    <3> HIDE DEF pc, paths
    <3> QED BY <1>a DEF Work
  <2> HIDE DEF loop, pc, paths
  <2>6. FileLoop(loop, rows, files, crashes)
    BY <2>3, <2>4, <2>5 DEF FileLoop, Claims
  <2> QED BY <1>c, <1>d, <2>1, <2>6
<1>11. ASSUME NEW w \in Worker, PurgeFile(w) PROVE OrphanInv'
  <2>1. PICK f : Becomes(w, [work[w] EXCEPT !.todo = @ \ {f}]) /\ files' = files \ {f}
    BY <1>11 DEF PurgeFile
  <2> DEFINE loop == [work[w] EXCEPT !.todo = @ \ {f}]
  <2>2. /\ work[w].pc = "purging" /\ MidTick(w) /\ UNCHANGED <<rows, crashes>>
        /\ loop.pc = "purging" /\ loop.list = work[w].list /\ loop.todo = work[w].todo \ {f}
    BY <1>11, <1>a DEF PurgeFile, MidTick, Work
  <2> HIDE DEF loop
  <2>3. FileLoop(loop, rows', files', crashes)
    BY <1>a, <2>1, <2>2 DEF FileLoop, Claims
  <2>4. crashes = 0 => \A g \in files' : rows'[g[1]].file = g[2]
    BY <1>q, <2>1, <2>2 DEF Delivers
  <2>5. Becomes(w, loop)
    BY <2>1 DEF loop
  <2> QED BY <1>a, <1>q, <2>1, <2>2, <2>3, <2>4, <2>5, OrphanLoop
\* retention: what it removes has no file left
<1>r. ASSUME NEW w \in Worker, NEW loop, Becomes(w, loop), MidTick(w), UNCHANGED <<files, crashes>>,
             work[w].pc # "deliver", loop.pc \in {"asleep", "stale"}, NEW S,
             \A j \in JobId : rows'[j] = IF j \in S THEN NoRow ELSE rows[j],
             crashes = 0 => \A f \in files : f[1] \notin S
      PROVE  OrphanInv'
  <2>1. FileLoop(loop, rows', files', crashes)
    BY <1>r, IdleFiles
  <2>2. FileRow(NoRow)
    BY DEF FileRow, NoRow
  <2>3. \A j \in JobId : FileRow(rows'[j])
    BY <1>a, <1>r, <2>2
  <2>4. crashes = 0 => \A f \in files : rows'[f[1]].file = f[2]
    BY <1>a, <1>q, <1>r DEF Delivers
  <2> QED BY <1>a, <1>q, <1>r, <2>1, <2>3, <2>4, OrphanLoop
<1>12. ASSUME NEW w \in Worker, PurgeRows(w) PROVE OrphanInv'
  <2> DEFINE loop == [work[w] EXCEPT !.pc = "stale", !.list = {}]
  <2>1. loop.pc = "stale"
    BY <1>a DEF Work
  <2>2. crashes = 0 => \A f \in files : f[1] \notin work[w].list
    BY <1>12, <1>a DEF PurgeRows, FileLoop
  <2> HIDE DEF loop
  <2>3. /\ Becomes(w, loop) /\ MidTick(w) /\ UNCHANGED <<files, crashes>>
        /\ work[w].pc # "deliver"
        /\ \A j \in JobId : rows'[j] = IF j \in work[w].list THEN NoRow ELSE rows[j]
    BY <1>12 DEF PurgeRows, MidTick, loop
  <2> QED BY <1>r, <2>1, <2>2, <2>3
<1>13. ASSUME NEW w \in Worker, PurgeStale(w) PROVE OrphanInv'
  <2> DEFINE S == {j \in JobId : /\ rows[j].expires = "null" /\ rows[j].aged
                                 /\ rows[j].status \in {"failed", "completed"}}
  <2>1. /\ Becomes(w, Asleep) /\ MidTick(w) /\ UNCHANGED <<files, crashes>>
        /\ work[w].pc # "deliver"
        /\ \A j \in JobId : rows'[j] = IF j \in S THEN NoRow ELSE rows[j]
    BY <1>13 DEF PurgeStale, Retire, MidTick
  <2>2. crashes = 0 => \A f \in files : rows[f[1]].file = 1
    BY <1>a, <1>q, <2>1 DEF Delivers
  <2>3. crashes = 0 => \A f \in files : f[1] \notin S
    BY <1>a, <2>2 DEF FileRow
  <2>4. Asleep.pc = "asleep"
    BY DEF Asleep
  <2> HIDE DEF S
  <2> QED BY <1>r, <2>1, <2>3, <2>4
<1>14. ASSUME NEW w \in Worker, Crash(w) PROVE OrphanInv'
  <2>1. /\ work'[w].pc = "down" /\ \A v \in Worker : work'[v] = work[v] \/ v = w
        /\ UNCHANGED <<rows, files>>
    BY <1>14, <1>a DEF Crash, Becomes, Asleep
  <2>2. crashes' # 0
    BY <1>14, ConstantAssumption DEF Crash, TypeOK
  <2>3. \A v \in Worker : FileLoop(work'[v], rows, files, crashes')
    <3>1. FileLoop(work'[w], rows, files, crashes')
      BY <2>1, IdleFiles
    <3>2. \A v \in Worker : FileLoop(work[v], rows, files, crashes')
      BY <1>a, <2>2 DEF FileLoop
    <3> QED BY <2>1, <3>1, <3>2
  <2> QED BY <1>a, <2>1, <2>2, <2>3
          DEF OrphanInv, FileRow, FileLoop, NoOrphanFile, HoldsClaim, Claims, Exists
<1>15. ASSUME NEW w \in Worker, Restart(w) PROVE OrphanInv'
  <2>1. /\ work[w].pc = "down" /\ work'[w].pc = "asleep"
        /\ \A v \in Worker : work'[v] = work[v] \/ v = w
        /\ UNCHANGED <<rows, files, crashes>>
    BY <1>15, <1>a DEF Restart, Becomes, Work
  <2>2. \A v \in Worker : FileLoop(work'[v], rows, files, crashes)
    BY <1>a, <2>1, IdleFiles
  <2>3. \A v \in Worker, f \in files : Delivers(work[v], f) => Delivers(work'[v], f)
    BY <2>1 DEF Delivers
  <2>4. crashes = 0 => \A f \in files : \/ rows[f[1]].file = f[2]
                                        \/ \E v \in Worker : Delivers(work'[v], f)
    BY <1>a, <2>3, OrphanParts
  <2> QED BY <1>a, <2>1, <2>2, <2>4
          DEF OrphanInv, FileRow, FileLoop, Delivers, NoOrphanFile, HoldsClaim, Claims, Exists
<1>16. ASSUME RequestStep PROVE OrphanInv'
  <2>1. ASSUME NEW q \in Request, CancelCommit(q) PROVE OrphanInv'
    <3>1. \A j \in JobId : \/ rows'[j] = rows[j]
                           \/ /\ rows'[j] = [rows[j] EXCEPT !.status = "failed", !.cancelled = TRUE]
                              /\ Exists(j)
      BY <2>1, <1>a DEF CancelCommit
    <3>2. \A j \in JobId : SameFile(rows[j], rows'[j])
      BY <1>a, <3>1, SameFileUpdates
    <3> QED BY <2>1, <1>a, <3>2, OrphanRows DEF CancelCommit
  <2>2. ASSUME NEW q \in Request, RunNowCommit(q) PROVE OrphanInv'
    <3>1. CASE UNCHANGED <<rows, nextId>>
      BY <2>2, <3>1, <1>a, <1>d, OrphanRows DEF RunNowCommit
    <3>2. ASSUME NEW f, Insert(1, f) PROVE OrphanInv'
      BY <2>2, <3>2, <1>a, InsertKeepsFiles, OrphanRows DEF RunNowCommit
    <3> QED BY <2>2, <3>1, <3>2 DEF RunNowCommit
  <2>3. ASSUME NEW q \in Request, NEW j \in JobId, CancelRead(q, j) PROVE OrphanInv'
    BY <2>3, <1>a, <1>d, OrphanRows DEF CancelRead
  <2>4. ASSUME NEW q \in Request, NEW r \in Report, RunNowRead(q, r) PROVE OrphanInv'
    BY <2>4, <1>a, <1>d, OrphanRows DEF RunNowRead
  <2>5. ASSUME NEW r \in Report, DeleteReport(r) PROVE OrphanInv'
    <3>1. \A j \in JobId : SameFile(rows[j], rows'[j])
      BY <2>5, <1>a, SameFileUpdates DEF DeleteReport
    <3> QED BY <2>5, <1>a, <3>1, OrphanRows DEF DeleteReport
  <2>6. ~DeleteUser
    BY DEF DeleteUser
  <2> QED BY <1>16, <2>1, <2>2, <2>3, <2>4, <2>5, <2>6 DEF RequestStep
<1>17. ASSUME TimeStep PROVE OrphanInv'
  <2>1. ASSUME LockExpires PROVE OrphanInv'
    BY <2>1, <1>a, <1>d, OrphanRows DEF LockExpires
  <2>2. ASSUME NEW j \in JobId, BecomeLate(j) \/ Expire(j) \/ AgeOut(j) PROVE OrphanInv'
    <3>1. \A i \in JobId : \/ rows'[i] = rows[i]
                           \/ rows'[i] = [rows[i] EXCEPT !.late = TRUE]
                           \/ rows'[i] = [rows[i] EXCEPT !.expires = "past"]
                           \/ rows'[i] = [rows[i] EXCEPT !.aged = TRUE]
      BY <2>2, <1>a DEF BecomeLate, Expire, AgeOut
    <3>2. ASSUME NEW i \in JobId PROVE SameFile(rows[i], rows'[i])
      <4>1. rows[i] \in Row
        BY <1>a
      <4>2. /\ SameFile(rows[i], rows[i])
            /\ SameFile(rows[i], [rows[i] EXCEPT !.late = TRUE])
            /\ SameFile(rows[i], [rows[i] EXCEPT !.expires = "past"])
            /\ SameFile(rows[i], [rows[i] EXCEPT !.aged = TRUE])
        BY <4>1, SameFileUpdates
      <4> QED BY <3>1, <4>2
    <3> QED BY <2>2, <1>a, <3>2, OrphanRows DEF BecomeLate, Expire, AgeOut
  <2> QED BY <1>17, <2>1, <2>2 DEF TimeStep
<1>18. CASE UNCHANGED vars
  BY <1>18, <1>a, <1>d, OrphanRows DEF vars
<1> QED
  BY <1>1, <1>2, <1>3, <1>4, <1>5, <1>6, <1>7, <1>8, <1>9, <1>10, <1>11, <1>12, <1>13,
     <1>14, <1>15, <1>16, <1>17, <1>18 DEF Next, WorkerStep

\* As long as no process dies, the storage answers, and rows go only by retention
\* (no account is deleted), every file run_job stored is the one its row names, or
\* is about to be: purge_expired_results will find it.
THEOREM FilesAreFound ==
    ASSUME Exclusive, May \cap {"leave", "storage_fail"} = {}
    PROVE  Spec => []NoOrphanFile
<1>1. Init => TypeOK /\ FileInv
  <2> SUFFICES ASSUME Init PROVE TypeOK /\ FileInv
    OBVIOUS
  <2>1. \A w \in Worker : work[w].pc = "asleep" /\ \A j \in JobId : ~HoldsClaim(w, j)
    BY DEF Init, Asleep, HoldsClaim
  <2>2. \A j \in JobId : rows[j].file = 0
    BY DEF Init, NoRow
  <2>3. OrphanInv
    BY <2>1, <2>2 DEF Init, OrphanInv, NoOrphanFile
  <2> QED BY <2>3, OnceInit DEF FileInv
<1>2. TypeOK /\ FileInv /\ [Next]_vars => TypeOK' /\ FileInv'
  BY OnceNext, OrphanStep DEF FileInv
<1>3. FileInv => NoOrphanFile
  BY DEF FileInv, OrphanInv
<1> QED BY <1>1, <1>2, <1>3, PTL DEF Spec
===============================================================================
