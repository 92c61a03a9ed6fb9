----------------------------- MODULE DataPipelines -----------------------------
(***************************************************************************)
(* The page of data pipeline connections (app/admin/data-pipelines/        *)
(* page.tsx) over routers/data_pipelines.py: the same code as the page of  *)
(* BI connections but for public providers, which pipelines do not have.   *)
(* A row leads to the pages of its pipeline, which ends the page's work,   *)
(* and can be shared (ShareDialog).                                        *)
(***************************************************************************)
EXTENDS Calls

CONSTANTS PipeProvider, PipeSetting, MaxPipes, MaxPipeClicks

VARIABLES pipeConns, pipeMade, pipeUi, pipeNet

pipeVars == <<pipeConns, pipeMade, pipeUi, pipeNet>>

P == INSTANCE ProviderPage WITH
        Public <- {}, Provider <- PipeProvider, Setting <- PipeSetting, MaxConns <- MaxPipes,
        MaxConnClicks <- MaxPipeClicks, conns <- pipeConns, made <- pipeMade, connUi <- pipeUi, connNet <- pipeNet

PipesInit == P!ConnsInit

ServePipes(i) == P!ServeConns(i)
PipesRead(i) == P!ConnsRead(i)
DeletePipe(c) == P!DeleteConn(c)
ServePipeDelete(i) == P!ServeConnDelete(i)
PipeDeleted(i) == P!ConnDeleted(i)
TestPipe(c) == P!TestConn(c)
ServePipeTest(i) == P!ServeTest(i)
PipeTested(i) == P!ConnTested(i)
OpenPipeForm(editing) == P!OpenForm(editing)
ClosePipeForm == P!CloseForm
SubmitPipe(provider, config, secret) == P!SubmitForm(provider, config, secret)
BeginPipeCreate(i) == P!BeginCreate(i)
CommitPipeCreate(i) == P!CommitCreate(i)
ServePipeUpdate(i) == P!ServeUpdate(i)
PipeSaved(i) == P!ConnSaved(i)

PipesNext ==
    \/ \E c \in pipeUi.rows : DeletePipe(c) \/ TestPipe(c) \/ OpenPipeForm(c)
    \/ OpenPipeForm(None) \/ ClosePipeForm
    \/ \E p \in PipeProvider, s \in PipeSetting, k \in BOOLEAN : SubmitPipe(p, s, k)
    \/ \E i \in Slot :
          \/ ServePipes(i) \/ PipesRead(i) \/ ServePipeDelete(i) \/ PipeDeleted(i)
          \/ ServePipeTest(i) \/ PipeTested(i) \/ BeginPipeCreate(i) \/ CommitPipeCreate(i)
          \/ ServePipeUpdate(i) \/ PipeSaved(i) \/ P!ConnCallFails(i)

\* The list shows the pipelines the server has, as P!ConnsMatch says of the page.
PipesMatch == P!ConnsMatch

\* A spinner is waiting for a request of its own.
PipeSpinners == P!ConnSpinners
===============================================================================
