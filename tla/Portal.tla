-------------------------------- MODULE Portal --------------------------------
(***************************************************************************)
(* The pages on which people work: the home page, dashboards and their     *)
(* forms, pipelines with their conditions and notifications, the exports,  *)
(* and the session that carries them.  As in AdminConsole a behaviour is   *)
(* one of any of these pages, picked at the start.                         *)
(***************************************************************************)
EXTENDS PortalHome, PipelineRuns, Conditions, NotifSettings, RunTables, BoardsTable, DashboardForm, EmbedView, SignIn,
        ProfileForm

VARIABLE screen   \* the page on display

Screens == {"home", "runs", "conditions", "notifications", "exports", "boards", "board", "embed", "session", "profile"}

vars == <<screen, homeVars, runVars, checkVars, notifVars, tableVars, boardsVars, boardVars, embedVars, authVars,
          profileVars>>

\* Only the page on display starts in each of its states, the others in one.
Init ==
    /\ screen \in Screens
    /\ RunsInit
    /\ HomeInit /\ (screen = "home" \/ (favourites = {} /\ home.on = {}))
    /\ ChecksInit /\ (screen = "conditions"
                        \/ \A c \in checks : c.body = Payload([EmptyForm EXCEPT !.value = CHOOSE v \in Amount : v >= 1]))
    /\ NotifInit /\ (screen = "notifications" \/ notif = None)
    /\ TablesInit /\ (screen = "exports" \/ (runTable.kind = "log" /\ runLog = {CHOOSE run \in Runs0 : TRUE}))
    /\ BoardsInit /\ (screen = "boards" \/ written[1] = {CHOOSE c \in BoardContent : TRUE})
    /\ BoardInit /\ (screen = "board" \/ board.type = "page")
    /\ EmbedInit /\ (screen = "embed" \/ (~access.report /\ ~access.admin /\ access.grants = {}
                                            /\ filterRows[1].kind = "static"))
    /\ SignInInit /\ (screen = "session" \/ (~account.required /\ ~account.admin /\ ~account.totp /\ cookie = None))
    /\ ProfileInit /\ (screen = "profile" \/ me = [details |-> CHOOSE d \in Detail : TRUE, avatar |-> None, password |-> None])

\* A step of page s.
Others(s) ==
    /\ UNCHANGED screen
    /\ IF s = "home" THEN TRUE ELSE UNCHANGED homeVars
    /\ IF s = "runs" THEN TRUE ELSE UNCHANGED runVars
    /\ IF s = "conditions" THEN TRUE ELSE UNCHANGED checkVars
    /\ IF s = "notifications" THEN TRUE ELSE UNCHANGED notifVars
    /\ IF s = "exports" THEN TRUE ELSE UNCHANGED tableVars
    /\ IF s = "boards" THEN TRUE ELSE UNCHANGED boardsVars
    /\ IF s = "board" THEN TRUE ELSE UNCHANGED boardVars
    /\ IF s = "embed" THEN TRUE ELSE UNCHANGED embedVars
    /\ IF s = "session" THEN TRUE ELSE UNCHANGED authVars
    /\ IF s = "profile" THEN TRUE ELSE UNCHANGED profileVars

Next ==
    \/ screen = "home" /\ HomeNext /\ Others("home")
    \/ screen = "runs" /\ RunsNext /\ Others("runs")
    \/ screen = "conditions" /\ ChecksNext /\ Others("conditions")
    \/ screen = "notifications" /\ NotifNext /\ Others("notifications")
    \/ screen = "exports" /\ TablesNext /\ Others("exports")
    \/ screen = "boards" /\ BoardsNext /\ Others("boards")
    \/ screen = "board" /\ BoardNext /\ Others("board")
    \/ screen = "embed" /\ EmbedNext /\ Others("embed")
    \/ screen = "session" /\ SignInNext /\ Others("session")
    \/ screen = "profile" /\ ProfileNext /\ Others("profile")

Spec == Init /\ [][Next]_vars

-----------------------------------------------------------------------------
(* Correctness *)

\* Once nothing is in flight, the page on display shows what the server has: the
\* stars, the runs, the checks, the notification settings, the run log, the
\* dashboards, the profile; provided one thing was done at a time and no answer was
\* lost (each page says what it needs of that).  An avatar that is named is there.
ListsMatch ==
    /\ StarsMatch /\ RunsMatch /\ ChecksMatch /\ AllChangesSaved /\ RunsShown /\ BoardsMatch
    /\ ProfileMatches /\ AvatarStored

\* A form is saved whole, so it must carry what the user does not change in it: the
\* threshold of a check, what a dashboard embeds, the filters it is shown with.
EditsKeepTheRest == []UntouchedIsKept /\ []MetadataKept /\ FiltersKept

\* No page waits for ever, or holds a button for ever: once every request has been
\* answered or has failed, in whatever order, nothing on display says that it waits.
NothingHangs ==
    /\ HomeSpinners /\ RunSpinners /\ CheckSpinners /\ NotifSpinners /\ TableSpinners
    /\ BoardsSpinners /\ BoardSpinners /\ EmbedSpinners /\ AuthSpinners
    /\ ProfileSpinners
===============================================================================
