--------------------------------- MODULE SignIn --------------------------------
(***************************************************************************)
(* One tab's session and the user's second factor.  Auth.js keeps the      *)
(* session in a cookie that every session request rewrites (lib/auth.ts):  *)
(* the request carries the cookie of the moment it is sent and its answer  *)
(* sets the one computed from that.  Around it: the login form             *)
(* (auth/LoginForm.tsx), the watcher that leaves an expired session        *)
(* (auth/SessionExpiryWatcher.tsx), the redirects of middleware.ts and the *)
(* enrolment of an authenticator (settings/TotpEnrollment.tsx), over the   *)
(* accounts of routers/auth.py.                                            *)
(***************************************************************************)
EXTENDS Calls

CONSTANTS
    MaxClock,       \* bound: ticks of the clock
    MaxSecrets,     \* bound: authenticator secrets made
    MaxAuthClicks   \* bound: steps of the user

VARIABLES
    account,   \* the user on the server, and the secret in the user's authenticator app
    cookie,    \* the session cookie, or None
    tab,       \* React state: the page, its forms, useSession and the watcher's refs
    authNet,   \* the requests of the tab
    clock      \* an access token lives two ticks and is renewed in its second

authVars == <<account, cookie, tab, authNet, clock>>

Enrolment == {"setup", "enable", "disable"}

Life == 2
Renewing(c) == clock >= c.exp - 1
Expired(exp) == clock >= exp

\* None is useSession's loading, Gone its unauthenticated.
Gone == [gone |-> TRUE]
SignedIn(ui) == ui.sess \notin {None, Gone}
Watching(at) == at \in {"home", "security"}

\* wasAuthenticated is set by an effect of the watcher.
Watched(ui) == [ui EXCEPT !.was = Watching(ui.at) /\ (@ \/ SignedIn(ui))]

NewPage(ui, at, enabled) ==
    Watched([ui EXCEPT !.at = at, !.visit = @ + 1, !.enabled = enabled, !.qr = None, !.verifying = FALSE,
                       !.disabling = FALSE, !.pending = FALSE, !.submitting = FALSE,
                       !.signingOut = @ /\ Watching(ui.at) /\ Watching(at)])

Tab0 == [at |-> "login", visit |-> 0, pending |-> FALSE, submitting |-> FALSE, sess |-> None, was |-> FALSE,
         signingOut |-> FALSE, enabled |-> FALSE, qr |-> None, verifying |-> FALSE, disabling |-> FALSE,
         clicks |-> 0, calm |-> TRUE]

\* getSession, which the provider also calls when a page is loaded; update() says
\* in "forced" whether the user was sent to the security page.
SessionCall(c, forced) == [cookie |-> c, forced |-> forced, visit |-> tab.visit]
AskSession(net, c) == Send(net, "session", [cookie |-> c, forced |-> FALSE, visit |-> 0])

\* The cookie that authorize leads to.
Fresh(now) == [mfa |-> account.required /\ ~account.totp, exp |-> now + Life, api |-> TRUE, refresh |-> TRUE, err |-> FALSE]

\* The organisation may ask everyone for a second factor (MfaSettings).  The tab
\* opens the login page, or the portal with the session it had.
SignInInit ==
    /\ \E required, admin, on \in BOOLEAN :
          account = [required |-> required, admin |-> admin, totp |-> on, secret |-> IF on THEN 1 ELSE 0, made |-> 1,
                     app |-> 1]
    /\ \/ cookie = None /\ tab = Tab0
       \/ cookie = Fresh(0) /\ tab = NewPage(Tab0, IF cookie.mfa THEN "security" ELSE "home", account.totp)
    /\ authNet = AskSession(NoCalls, cookie) /\ clock = 0

Click(calm) == Pressed(tab, calm)
CanClick(at) == tab.clicks < MaxAuthClicks /\ tab.at = at
OnTab == UNCHANGED <<account, cookie, clock>>

\* What the cookie of a session says.
Session == [mfa : BOOLEAN, exp : Int, api : BOOLEAN, refresh : BOOLEAN, err : BOOLEAN]

ASSUME SessionAssumption == None \notin Session

-----------------------------------------------------------------------------
(* Pages *)

\* middleware.ts and the login page's own redirect.
Land(to) ==
    IF cookie = None THEN "login"
    ELSE IF cookie.mfa THEN "security"
    ELSE IF to = "login" \/ (to = "admin" /\ ~account.admin) THEN "home"
    ELSE to

\* The security page reads the state of the second factor; a failed read counts as
\* "not enabled".
ShowPage(ui, to) ==
    \/ tab' = NewPage(ui, Land(to), account.totp)
    \/ Land(to) = "security" /\ tab' = NewPage([ui EXCEPT !.calm = FALSE], "security", FALSE)

\* A watcher that is mounted anew knows nothing of a sign-out on its way.
Navigate(to) ==
    /\ tab.at # "login" /\ CanClick(tab.at)
    /\ ShowPage(Click(~tab.signingOut /\ Of(authNet, Enrolment) = {}), to)
    /\ UNCHANGED <<account, cookie, authNet, clock>>

-----------------------------------------------------------------------------
(* Sign-in *)

\* onSubmit asks /auth/token once itself, to learn whether a code is needed.
SubmitLogin(right) ==
    /\ CanClick("login") /\ ~tab.submitting /\ ~tab.pending /\ Room(authNet, 1)
    /\ tab' = [Click(TRUE) EXCEPT !.submitting = TRUE]
    /\ authNet' = Send(authNet, "precheck", [right |-> right, code |-> None])
    /\ OnTab

\* /auth/token.
Authenticated(arg) == arg.right /\ (account.totp => arg.code = account.secret)

ServePrecheck(i) ==
    /\ Sent(authNet, i, "precheck")
    /\ authNet' = Reply(authNet, i, IF Authenticated(authNet[i].arg) THEN "in"
                                    ELSE IF authNet[i].arg.right THEN "code" ELSE "no")
    /\ UNCHANGED <<account, cookie, tab, clock>>

\* A failed connection falls through to signIn, which reports it.
Prechecked(i) ==
    /\ Settled(authNet, i, "precheck")
    /\ IF Ok(authNet, i, "precheck") /\ authNet[i].out # "in"
       THEN /\ tab' = [tab EXCEPT !.submitting = FALSE, !.pending = authNet[i].out = "code"]
            /\ authNet' = Done(authNet, i)
       ELSE authNet' = Then(authNet, i, "signin", authNet[i].arg) /\ UNCHANGED tab
    /\ OnTab

\* onTotpSubmit: the code is the app's, or mistyped.
SubmitCode(code) ==
    /\ CanClick("login") /\ ~tab.submitting /\ tab.pending /\ Room(authNet, 1)
    /\ tab' = [Click(TRUE) EXCEPT !.submitting = TRUE]
    /\ authNet' = Send(authNet, "signin", [right |-> TRUE, code |-> code])
    /\ OnTab

\* The form does not wait for the request it leaves.
OtherAccount ==
    /\ CanClick("login") /\ tab.pending
    /\ tab' = [Click(TRUE) EXCEPT !.pending = FALSE]
    /\ UNCHANGED authNet /\ OnTab

\* authorize, then the jwt callback with the user it returned.
ServeSignIn(i) ==
    /\ Sent(authNet, i, "signin")
    /\ authNet' = IF Authenticated(authNet[i].arg)
                  THEN Reply(authNet, i, Fresh(clock))
                  ELSE Fail(authNet, i)
    /\ UNCHANGED <<account, cookie, tab, clock>>

\* The answer sets the cookie; establishSession pushes /home, and the provider
\* reads the session.
SignedInNow(i) ==
    /\ Ok(authNet, i, "signin")
    /\ cookie' = authNet[i].out
    /\ LET at == IF cookie'.mfa THEN "security" ELSE "home"
       IN tab' = NewPage(tab, at, account.totp)
    /\ authNet' = AskSession(Done(authNet, i), cookie')
    /\ UNCHANGED <<account, clock>>

SignInFailed(i) ==
    /\ Err(authNet, i, "signin")
    /\ tab' = [tab EXCEPT !.submitting = FALSE]
    /\ authNet' = Done(authNet, i)
    /\ OnTab

\* The jwt callback after a provider's sign-in: there is no refresh token, and a
\* failed exchange leaves a session without a token for the API.
Exchanged(ok) == [mfa |-> FALSE, exp |-> clock + Life, api |-> ok, refresh |-> FALSE, err |-> FALSE]

\* The provider's whole dance, by redirects.
SignInWithProvider(exchanged) ==
    /\ CanClick("login") /\ ~tab.pending
    /\ cookie' = Exchanged(exchanged)
    /\ tab' = NewPage(Click(TRUE), "home", account.totp)
    /\ authNet' = AskSession(NoCalls, cookie')
    /\ UNCHANGED <<account, clock>>

-----------------------------------------------------------------------------
(* The session *)

\* refetchInterval and the focus of the window.
PollSession ==
    /\ SignedIn(tab) /\ Room(authNet, 1) /\ Of(authNet, {"session"}) = {}
    /\ authNet' = AskSession(authNet, cookie)
    /\ tab' = [tab EXCEPT !.calm = @ /\ Of(authNet, {"enable", "update"}) = {}]
    /\ OnTab

\* Mutant of Cleared: update() changes nothing.
ClearedNot(c, op) == c

\* The jwt callback on update({totp_enabled: true}).
Cleared(c, op) == IF op = "update" THEN [c EXCEPT !.mfa = FALSE] ELSE c

\* The jwt callback renews the access token in time, if it can.
ServeSession(i) ==
    /\ \E op \in {"session", "update"} : Sent(authNet, i, op)
    /\ LET c == authNet[i].arg.cookie
           token == Cleared(c, authNet[i].op)
       IN IF c = None THEN authNet' = Reply(authNet, i, None)
          ELSE \E up \in BOOLEAN :
                  authNet' = Reply(authNet, i,
                      IF ~Renewing(c) THEN token
                      ELSE IF c.refresh /\ up THEN [token EXCEPT !.exp = clock + Life, !.api = TRUE, !.err = FALSE]
                      ELSE [token EXCEPT !.err = TRUE])
    /\ UNCHANGED <<account, cookie, tab, clock>>

\* The answer sets the cookie and useSession.
SessionRead(i) ==
    /\ Ok(authNet, i, "session")
    /\ cookie' = authNet[i].out
    /\ tab' = Watched([tab EXCEPT !.sess = IF cookie' = None THEN Gone ELSE cookie'])
    /\ authNet' = Done(authNet, i)
    /\ UNCHANGED <<account, clock>>

\* Auth.js logs a failed read and keeps the session it has.
CallDropped(i) ==
    /\ \E op \in {"session", "signout"} : Err(authNet, i, op)
    /\ authNet' = Done(authNet, i)
    /\ UNCHANGED tab /\ OnTab

\* Another tab signs out; or the user does, by the menu, which reloads the page.
SignOutElsewhere ==
    /\ cookie # None /\ CanClick(tab.at) /\ cookie' = None
    /\ tab' = Click(FALSE)
    /\ UNCHANGED <<account, authNet, clock>>

-----------------------------------------------------------------------------
(* The watcher *)

\* Mutant of SignOut: the ref is not looked at.
SignOutAgain ==
    /\ Room(authNet, 1)
    /\ tab' = [tab EXCEPT !.signingOut = TRUE]
    /\ authNet' = Send(authNet, "signout", None)
    /\ OnTab

\* signOut({callbackUrl: '/login?expired=1'}), once.
SignOut ==
    /\ ~tab.signingOut /\ Room(authNet, 1)
    /\ tab' = [tab EXCEPT !.signingOut = TRUE]
    /\ authNet' = Send(authNet, "signout", None)
    /\ OnTab

\* Path 1: the effect on session.error.
WatchError == Watching(tab.at) /\ SignedIn(tab) /\ tab.sess.err /\ SignOut

\* Path 2: the session is gone, and router.replace leaves the page.
WatchGone ==
    /\ Watching(tab.at) /\ tab.sess = Gone /\ tab.was /\ ~tab.signingOut
    /\ tab' = NewPage([tab EXCEPT !.signingOut = TRUE], Land("login"), account.totp)
    /\ UNCHANGED <<account, cookie, authNet, clock>>

\* Any page asks the API something with the token of useSession.
CallApi ==
    /\ tab.at # "login" /\ SignedIn(tab) /\ CanClick(tab.at) /\ Room(authNet, 1)
    /\ authNet' = Send(authNet, "api", tab.sess)
    /\ tab' = Click(TRUE)
    /\ OnTab

Unauthorised(sess) == ~sess.api \/ Expired(sess.exp)

\* A refusal for want of a valid token.
Deny(net, i) == [Fail(net, i) EXCEPT ![i].out = 401]

ServeApi(i) ==
    /\ Sent(authNet, i, "api")
    /\ authNet' = IF Unauthorised(authNet[i].arg) THEN Deny(authNet, i) ELSE Reply(authNet, i, 200)
    /\ UNCHANGED <<account, cookie, tab, clock>>

\* Path 3: on a 401 createClientFetch raises auth:expired, which the watcher hears
\* if there is one: the administration has none.
Finish(i, ui) ==
    IF authNet[i].st = "err" /\ authNet[i].out = 401 /\ Watching(tab.at) /\ ~tab.signingOut
    THEN tab' = [ui EXCEPT !.signingOut = TRUE] /\ authNet' = Then(authNet, i, "signout", None)
    ELSE tab' = ui /\ authNet' = Done(authNet, i)

ApiAnswered(i) == Settled(authNet, i, "api") /\ Finish(i, tab) /\ OnTab

ServeSignOut(i) ==
    /\ Sent(authNet, i, "signout")
    /\ authNet' = Reply(authNet, i, None)
    /\ UNCHANGED <<account, cookie, tab, clock>>

\* The page is loaded anew: nothing of the tab is left.
SignedOut(i) ==
    /\ Ok(authNet, i, "signout")
    /\ cookie' = None
    /\ tab' = [Tab0 EXCEPT !.clicks = tab.clicks, !.calm = tab.calm, !.visit = tab.visit + 1]
    /\ authNet' = AskSession(NoCalls, None)
    /\ UNCHANGED <<account, clock>>

-----------------------------------------------------------------------------
(* The second factor *)

\* "calm" goes when a step of the enrolment is taken while another is in flight.
Enrol(op, code, ui) ==
    /\ Room(authNet, 1)
    /\ tab' = ui
    /\ authNet' = Send(authNet, op, [visit |-> tab.visit, code |-> code, sess |-> tab.sess])
    /\ OnTab
EnrolClick == Click(Of(authNet, Enrolment \cup {"session", "update"}) = {})

\* handleSetup: the button is not disabled.
SetUp ==
    /\ CanClick("security") /\ SignedIn(tab) /\ ~tab.enabled /\ tab.qr = None /\ account.made < MaxSecrets
    /\ Enrol("setup", None, EnrolClick)

\* handleEnable: the code of the QR code on the page, or a wrong one.
Enable(code) ==
    /\ CanClick("security") /\ SignedIn(tab) /\ ~tab.enabled /\ tab.qr # None /\ ~tab.verifying
    /\ Enrol("enable", code, [EnrolClick EXCEPT !.verifying = TRUE])

\* handleDisable, after the question on the page.
Disable ==
    /\ CanClick("security") /\ SignedIn(tab) /\ tab.enabled /\ ~tab.disabling
    /\ Enrol("disable", None, [EnrolClick EXCEPT !.disabling = TRUE])

\* totp_setup stores a new secret whether or not the factor is on.
ServeSetUp(i) ==
    /\ Sent(authNet, i, "setup")
    /\ IF Unauthorised(authNet[i].arg.sess) THEN authNet' = Deny(authNet, i) /\ UNCHANGED account
       ELSE /\ account.made < MaxSecrets
            /\ account' = [account EXCEPT !.secret = account.made + 1, !.made = @ + 1]
            /\ authNet' = Reply(authNet, i, account'.secret)
    /\ UNCHANGED <<cookie, tab, clock>>

\* totp_enable; the user's app keeps what the code was taken from.
ServeEnable(i) ==
    /\ Sent(authNet, i, "enable")
    /\ LET code == authNet[i].arg.code
           open == ~Unauthorised(authNet[i].arg.sess)
           fits == open /\ account.secret # 0 /\ code = account.secret
       IN /\ account' = IF fits THEN [account EXCEPT !.totp = TRUE, !.app = code] ELSE account
          /\ authNet' = IF fits THEN Reply(authNet, i, None)
                        ELSE IF open THEN Fail(authNet, i) ELSE Deny(authNet, i)
    /\ UNCHANGED <<cookie, tab, clock>>

ServeDisable(i) ==
    /\ Sent(authNet, i, "disable")
    /\ IF Unauthorised(authNet[i].arg.sess) THEN authNet' = Deny(authNet, i) /\ UNCHANGED account
       ELSE /\ account' = [account EXCEPT !.totp = FALSE, !.secret = 0]
            /\ authNet' = Reply(authNet, i, None)
    /\ UNCHANGED <<cookie, tab, clock>>

\* An answer for a page that was left changes nothing of the one shown.
OnPageOf(i, ui) == IF authNet[i].arg.visit = tab.visit THEN ui ELSE tab

SetUpRead(i) ==
    /\ Settled(authNet, i, "setup")
    /\ Finish(i, OnPageOf(i, IF Ok(authNet, i, "setup") THEN [tab EXCEPT !.qr = authNet[i].out] ELSE tab))
    /\ OnTab

\* update() asks for a session without the flag.
AskUpdate(i) ==
    LET arg == authNet[i].arg
    IN Then(authNet, i, "update", [SessionCall(cookie, arg.sess.mfa) EXCEPT !.visit = arg.visit])

\* Mutant of Enabled: the page goes on as if the factor were off.
EnabledUnseen(i) ==
    /\ \/ /\ Ok(authNet, i, "enable")
          /\ tab' = OnPageOf(i, [tab EXCEPT !.qr = None])
          /\ authNet' = AskUpdate(i)
       \/ Err(authNet, i, "enable") /\ Finish(i, OnPageOf(i, [tab EXCEPT !.verifying = FALSE]))
    /\ OnTab

\* The page turns before update() is asked for.
Enabled(i) ==
    /\ \/ /\ Ok(authNet, i, "enable")
          /\ tab' = OnPageOf(i, [tab EXCEPT !.enabled = TRUE, !.qr = None])
          /\ authNet' = AskUpdate(i)
       \/ Err(authNet, i, "enable") /\ Finish(i, OnPageOf(i, [tab EXCEPT !.verifying = FALSE]))
    /\ OnTab

\* Auth.js keeps the session it has when update() brings none.  Then the home page,
\* if the user was sent here, as far as the cookie lets.
Updated(i) ==
    /\ Settled(authNet, i, "update")
    /\ LET got == Ok(authNet, i, "update") /\ authNet[i].out # None
           ready == OnPageOf(i, [tab EXCEPT !.verifying = FALSE])
           read == Watched(IF got THEN [ready EXCEPT !.sess = authNet[i].out] ELSE [ready EXCEPT !.calm = FALSE])
       IN /\ cookie' = IF Ok(authNet, i, "update") THEN authNet[i].out ELSE cookie
          /\ IF authNet[i].arg.forced
             THEN tab' = NewPage(read, Land("home")', account.totp)
             ELSE tab' = read
    /\ authNet' = Done(authNet, i)
    /\ UNCHANGED <<account, clock>>

Disabled(i) ==
    /\ Settled(authNet, i, "disable")
    /\ LET freed == [tab EXCEPT !.disabling = FALSE]
       IN Finish(i, OnPageOf(i, IF Ok(authNet, i, "disable") THEN [freed EXCEPT !.enabled = FALSE] ELSE freed))
    /\ OnTab

-----------------------------------------------------------------------------

Tick == clock < MaxClock /\ clock' = clock + 1 /\ UNCHANGED <<account, cookie, tab, authNet>>

AuthCallFails(i) ==
    /\ CanFail(authNet, i)
    /\ authNet' = Fail(authNet, i)
    /\ tab' = Missed(tab, authNet, i)
    /\ OnTab

SignInNext ==
    \/ \E to \in {"login", "home", "admin", "security"} : Navigate(to)
    \/ \E right \in BOOLEAN : SubmitLogin(right)
    \/ \E code \in {0, account.app} : SubmitCode(code)
    \/ \E exchanged \in BOOLEAN : SignInWithProvider(exchanged)
    \/ \E code \in {0, tab.qr} : Enable(code)
    \/ OtherAccount \/ PollSession \/ SignOutElsewhere \/ WatchError \/ WatchGone \/ CallApi
    \/ SetUp \/ Disable \/ Tick
    \/ \E i \in Slot :
          \/ ServePrecheck(i) \/ Prechecked(i) \/ ServeSignIn(i) \/ SignedInNow(i) \/ SignInFailed(i)
          \/ ServeSession(i) \/ SessionRead(i) \/ CallDropped(i) \/ ServeApi(i) \/ ApiAnswered(i)
          \/ ServeSignOut(i) \/ SignedOut(i)
          \/ ServeSetUp(i) \/ SetUpRead(i) \/ ServeEnable(i) \/ Enabled(i) \/ Updated(i)
          \/ ServeDisable(i) \/ Disabled(i) \/ AuthCallFails(i)

-----------------------------------------------------------------------------
(* Correctness *)

\* The security page and a sign-in that has a second step leave the user with an
\* app that works: what is stored for an account with the factor on is what the
\* user's app holds, and a page at rest says what is so.  Provided every step of an
\* enrolment waited for the one before, on the page, and no answer was lost.
EnrolledAppWorks ==
    tab.calm =>
        /\ account.totp => account.app = account.secret
        /\ tab.at = "security" /\ Of(authNet, Enrolment) = {} => tab.enabled = account.totp

\* Whoever has set up the factor the organisation asks for is let out of the
\* security page: the flag has gone from the cookie.  Provided no session request
\* carried the old cookie past the update.
MfaStopsRedirecting ==
    tab.calm /\ account.totp /\ Of(authNet, {"signin", "session", "enable", "update"}) = {} =>
        cookie = None \/ ~cookie.mfa

\* However many ways a session is found to have ended, the tab signs out once, unless
\* the user moves to a page without the watcher and back meanwhile.
OneSignOut == tab.calm => Cardinality(Of(authNet, {"signout"})) <= 1

\* A button of the login form or of the security page waits for a request of the page.
AuthSpinners ==
    /\ tab.submitting => Of(authNet, {"precheck", "signin"}) # {}
    /\ tab.verifying => Of(authNet, {"enable", "update"}) # {}
    /\ tab.disabling => Of(authNet, {"disable"}) # {}

SignInSpec == SignInInit /\ [][SignInNext]_authVars

-----------------------------------------------------------------------------
(* The inductive invariant behind the three of them (see PortalProofs) *)

OneOf(ops) == \A i, j \in Of(authNet, ops) : i = j

\* A session that asks for no second factor.
Clean(c) == c # None => ~c.mfa

\* What a session request carries and what the answers bring.
AuthCallFits(c) ==
    /\ c.op \in {"session", "update"} =>
          c.arg.cookie \in Session \cup {None} /\ (c.st = "ok" => c.out \in Session \cup {None})
    /\ c.op = "signin" /\ c.st = "ok" => c.out \in Session

\* One sign-in is on its way, from the login page.
LoginFits ==
    /\ OneOf({"precheck", "signin"})
    /\ Of(authNet, {"precheck", "signin"}) # {} => tab.at = "login" /\ tab.submitting
    /\ SignedIn(tab) => cookie # None

\* A tab that signs out knows it.
SignOutFits ==
    /\ OneOf({"signout"})
    /\ Of(authNet, {"signout"}) # {} => tab.signingOut /\ Watching(tab.at)

\* One step of the enrolment is on its way, from the page on display, and while it is
\* no request brings a session to its end or an older one back.
EnrolmentFits ==
    /\ OneOf(Enrolment \cup {"update"})
    /\ Of(authNet, Enrolment \cup {"update"}) # {} => cookie # None /\ tab.sess # Gone /\ tab.at # "login"
    /\ \A i \in Of(authNet, Enrolment) : tab.at = "security" /\ authNet[i].arg.visit = tab.visit
    /\ \A i \in Of(authNet, Enrolment \cup {"update"}), j \in Of(authNet, {"session"}) :
          /\ authNet[i].op \notin {"enable", "update"} /\ authNet[j].arg.cookie # None
          /\ authNet[j].st = "ok" => authNet[j].out # None
    /\ \A i \in Of(authNet, {"update"}) :
          /\ authNet[i].arg.cookie # None
          /\ authNet[i].st = "ok" => authNet[i].out # None /\ ~authNet[i].out.mfa

\* A new secret is made only for an account without a factor; and the page shows what
\* is so, but for what an answer is about to tell it.
FactorFits ==
    /\ account.totp => account.app = account.secret
    /\ Of(authNet, {"setup"}) # {} => ~account.totp
    /\ \A i \in Of(authNet, {"enable"}) : authNet[i].st = "ok" => account.totp = TRUE
    /\ \A i \in Of(authNet, {"disable"}) : authNet[i].st = "ok" => account.totp = FALSE
    /\ tab.at = "security" /\ (\A i \in Of(authNet, {"enable", "disable"}) : authNet[i].st # "ok") =>
          tab.enabled = account.totp

\* No session asks for a factor that is there, but while update() is about to tell it.
FlagFits ==
    account.totp /\ Of(authNet, {"update"}) = {} /\ (\A i \in Of(authNet, {"enable"}) : authNet[i].st # "ok") =>
        /\ Clean(cookie)
        /\ \A i \in Of(authNet, {"session"}) : Clean(authNet[i].arg.cookie)
        /\ \A i \in Of(authNet, {"session", "signin"}) : authNet[i].st = "ok" => Clean(authNet[i].out)

AuthInv ==
    /\ cookie \in Session \cup {None} /\ clock \in Nat
    /\ \A i \in Pending(authNet) : AuthCallFits(authNet[i])
    /\ tab.calm => LoginFits /\ SignOutFits /\ EnrolmentFits /\ FactorFits /\ FlagFits
===============================================================================
