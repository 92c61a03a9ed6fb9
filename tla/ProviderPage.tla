----------------------------- MODULE ProviderPage -----------------------------
(***************************************************************************)
(* The page of BI connections (app/admin/bi-connections/page.tsx) with the *)
(* form that creates and edits one (admin/ProviderConnectionForm.tsx) over *)
(* the server's rows (routers/bi_connections.py).  The page of data        *)
(* pipelines is an instance of it: see DataPipelines.                      *)
(*                                                                         *)
(* The form's submit button is given both disabled and isLoading, and      *)
(* ui/Button.tsx takes "disabled ?? isLoading": once the form is valid     *)
(* disabled is false, not undefined, and the button stays live while a     *)
(* save is in flight.                                                      *)
(***************************************************************************)
EXTENDS Calls

CONSTANTS
    Provider,        \* the providers implemented
    Public,          \* those of them that allow one connection and need no secret:
                     \* none of this build (services/bi_providers/__init__.py)
    Setting,         \* what the fields of a form can hold
    MaxConns,        \* bound: connections ever created
    MaxConnClicks    \* bound: clicks of the administrator

VARIABLES
    conns,    \* the server's rows
    made,     \* the number of rows ever inserted
    connUi,   \* the React state of the page and its form
    connNet   \* the requests

connVars == <<conns, made, connUi, connNet>>

ConnsInit ==
    /\ conns = {} /\ made = 0
    /\ connUi = [rows |-> {}, loading |-> TRUE, known |-> FALSE, form |-> None, testing |-> None,
                 clicks |-> 0, calm |-> TRUE]
    /\ connNet = Send(NoCalls, "conns", None)

PressConn ==
    /\ connUi.clicks < MaxConnClicks /\ Room(connNet, 1)
    /\ UNCHANGED <<conns, made>>
StepConn(ui) == Pressed(ui, Quiet(connNet))

-----------------------------------------------------------------------------
(* The list *)

ServeConns(i) ==
    /\ Sent(connNet, i, "conns")
    /\ connNet' = Reply(connNet, i, conns)
    /\ UNCHANGED <<conns, made, connUi>>

ConnsRead(i) ==
    /\ Settled(connNet, i, "conns")
    /\ connUi' = IF Ok(connNet, i, "conns")
                 THEN [connUi EXCEPT !.rows = connNet[i].out, !.loading = FALSE, !.known = TRUE]
                 ELSE [connUi EXCEPT !.loading = FALSE, !.calm = FALSE]
    /\ connNet' = Done(connNet, i)
    /\ UNCHANGED <<conns, made>>

\* No button of a row is busy but that of the test.
DeleteConn(c) ==
    /\ connUi.form = None /\ c \in connUi.rows /\ ~connUi.loading /\ PressConn
    /\ connUi' = StepConn(connUi)
    /\ connNet' = Send(connNet, "delete", c.id)

ServeConnDelete(i) ==
    /\ Sent(connNet, i, "delete")
    /\ LET row == {c \in conns : c.id = connNet[i].arg}
       IN /\ conns' = conns \ row
          /\ connNet' = IF row = {} THEN Fail(connNet, i) ELSE Reply(connNet, i, None)
    /\ UNCHANGED <<made, connUi>>

ConnDeleted(i) ==
    /\ Settled(connNet, i, "delete")
    /\ connUi' = IF Ok(connNet, i, "delete")
                 THEN [connUi EXCEPT !.rows = {c \in @ : c.id # connNet[i].arg}] ELSE connUi
    /\ connNet' = Done(connNet, i)
    /\ UNCHANGED <<conns, made>>

\* Offered where the provider has credentials.
TestConn(c) ==
    /\ connUi.form = None /\ c \in connUi.rows /\ ~connUi.loading /\ c.provider \notin Public
    /\ connUi.testing # c.id /\ PressConn
    /\ connUi' = [StepConn(connUi) EXCEPT !.testing = c.id]
    /\ connNet' = Send(connNet, "test", c.id)

ServeTest(i) ==
    /\ Sent(connNet, i, "test")
    /\ connNet' = Reply(connNet, i, None)
    /\ UNCHANGED <<conns, made, connUi>>

\* finally clears the mark, whichever connection it is on by then.
ConnTested(i) ==
    /\ Settled(connNet, i, "test")
    /\ connUi' = [connUi EXCEPT !.testing = None]
    /\ connNet' = Done(connNet, i)
    /\ UNCHANGED <<conns, made>>

-----------------------------------------------------------------------------
(* The form *)

\* The providers a form can be given: a public one once, as far as the page knows.
ProviderChoices(editing) ==
    IF editing # None THEN {editing.provider}
    ELSE Provider \ {p \in Public : \E c \in connUi.rows : c.provider = p}

\* openNew, and Edit of a row
OpenForm(editing) ==
    /\ connUi.form = None
    /\ editing # None => editing \in connUi.rows /\ ~connUi.loading
    /\ connUi.clicks < MaxConnClicks
    /\ connUi' = [connUi EXCEPT !.clicks = @ + 1,
                                !.form = [editing |-> editing, saving |-> FALSE, n |-> connUi.clicks]]
    /\ UNCHANGED <<conns, made, connNet>>

\* Cancel is disabled while saving; Escape and the cross of the Modal are not.
CloseForm ==
    /\ connUi.form # None
    /\ connUi' = [connUi EXCEPT !.form = None]
    /\ UNCHANGED <<conns, made, connNet>>

\* handleSave: the provider must be known; a blank secret is left out.  Nothing
\* looks at saving.
SubmitForm(provider, config, secret) ==
    /\ connUi.form # None /\ connUi.known /\ provider \in ProviderChoices(connUi.form.editing)
    /\ secret => provider \notin Public
    /\ PressConn
    /\ connUi' = [StepConn(connUi) EXCEPT !.form.saving = TRUE]
    /\ LET editing == connUi.form.editing
       IN connNet' = Send(connNet, IF editing = None THEN "create" ELSE "update",
                          [id |-> IF editing = None THEN None ELSE editing.id, provider |-> provider,
                           config |-> config, secret |-> secret, n |-> connUi.form.n])

\* create_bi_connection: a public provider must have no row; then it inserts.
BeginCreate(i) ==
    /\ Sent(connNet, i, "create")
    /\ LET p == connNet[i].arg.provider
       IN connNet' = IF p \in Public /\ \E c \in conns : c.provider = p
                     THEN Fail(connNet, i) ELSE Begin(connNet, i, None)
    /\ UNCHANGED <<conns, made, connUi>>

CommitCreate(i) ==
    /\ Open(connNet, i, "create") /\ made < MaxConns
    /\ made' = made + 1
    /\ conns' = conns \cup {[id |-> made + 1, provider |-> connNet[i].arg.provider,
                             config |-> connNet[i].arg.config, secret |-> connNet[i].arg.secret]}
    /\ connNet' = Reply(connNet, i, None)
    /\ UNCHANGED connUi

\* Mutant of ServeUpdate: a secret left out is stored as none.
ServeUpdateBlanks(i) ==
    /\ Sent(connNet, i, "update")
    /\ LET arg == connNet[i].arg
           new(c) == IF c.id # arg.id THEN c ELSE [c EXCEPT !.config = arg.config, !.secret = arg.secret]
       IN conns' = {new(c) : c \in conns}
    /\ connNet' = Reply(connNet, i, None)
    /\ UNCHANGED <<made, connUi>>

\* update_bi_connection: "Omit secret to keep the stored one"
ServeUpdate(i) ==
    /\ Sent(connNet, i, "update")
    /\ LET arg == connNet[i].arg
           new(c) == IF c.id # arg.id THEN c
                     ELSE [c EXCEPT !.config = arg.config,
                                    !.secret = @ \/ arg.secret]
           row == {c \in conns : c.id = arg.id}
       IN /\ conns' = {new(c) : c \in conns}
          /\ connNet' = IF row = {} THEN Fail(connNet, i) ELSE Reply(connNet, i, None)
    /\ UNCHANGED <<made, connUi>>

\* The list is read again and the form closed, whichever it is by then; a failure
\* leaves its own form open.
ConnSaved(i) ==
    /\ \/ /\ Ok(connNet, i, "create") \/ Ok(connNet, i, "update")
          /\ connUi' = [connUi EXCEPT !.form = None]
          /\ connNet' = Then(connNet, i, "conns", None)
       \/ /\ Err(connNet, i, "create") \/ Err(connNet, i, "update")
          /\ connUi' = IF connUi.form # None /\ connUi.form.n = connNet[i].arg.n
                       THEN [connUi EXCEPT !.form.saving = FALSE] ELSE connUi
          /\ connNet' = Done(connNet, i)
    /\ UNCHANGED <<conns, made>>

ConnCallFails(i) ==
    /\ CanFail(connNet, i)
    /\ connNet' = Fail(connNet, i)
    /\ connUi' = Missed(connUi, connNet, i)
    /\ UNCHANGED <<conns, made>>

ConnsNext ==
    \/ \E c \in connUi.rows : DeleteConn(c) \/ TestConn(c) \/ OpenForm(c)
    \/ OpenForm(None) \/ CloseForm
    \/ \E p \in Provider, s \in Setting, k \in BOOLEAN : SubmitForm(p, s, k)
    \/ \E i \in Slot :
          \/ ServeConns(i) \/ ConnsRead(i) \/ ServeConnDelete(i) \/ ConnDeleted(i)
          \/ ServeTest(i) \/ ConnTested(i) \/ BeginCreate(i) \/ CommitCreate(i)
          \/ ServeUpdate(i) \/ ConnSaved(i) \/ ConnCallFails(i)

-----------------------------------------------------------------------------
(* Correctness *)

\* Once nothing is in flight, the list shows the connections the server has,
\* with their settings; provided one thing was done at a time and the last read
\* of the list did not fail.
ConnsMatch == connUi.calm /\ Quiet(connNet) => connUi.rows = conns

\* "Blank means keep the stored secret" (ProviderConnectionForm.tsx:118): a
\* connection that has had a secret has one ever after.
SecretKept ==
    [][\A c \in conns : c.secret => \A d \in conns' : d.id = c.id => d.secret]_connVars

\* A spinner is waiting for a request of its own.
ConnSpinners ==
    Quiet(connNet) => /\ ~connUi.loading /\ connUi.testing = None
                      /\ connUi.form # None => ~connUi.form.saving

ConnsSpec == ConnsInit /\ [][ConnsNext]_connVars
===============================================================================
