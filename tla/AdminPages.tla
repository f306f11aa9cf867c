------------------------------- MODULE AdminPages -------------------------------
(***************************************************************************)
(* The administration page (webui/app.js) in front of AdminAccounts: which *)
(* screen it shows, and whether the CSRF token it holds is its session's.  *)
(* An operator has nothing but what the screen offers: a form, the app's   *)
(* pages, a reload.  Each browser shows one page; the page asks for its    *)
(* session when it loads (boot()), and what it shows from then on may have *)
(* been overtaken by expiry, a restart, the hub or another administrator.  *)
(*                                                                         *)
(* A token is a number that its holders agree on, drawn anew among those   *)
(* nobody holds.  Guesses need no page of ours: they are AdminAccounts'.   *)
(* Nobody opens the web console in these browsers (BOUND): a sign-in there *)
(* takes the session away from the page, as often as it is repeated.       *)
(***************************************************************************)
EXTENDS AdminAccounts

VARIABLES
  page,      \* each browser's page: its screen and csrfToken
  token,     \* the csrfToken of each browser's session
  lateToken  \* the one of the late request's copy

pageVars == <<page, token, lateToken>>
vars     == <<adminVars, pageVars>>

NoToken == 0
Tokens  == 1..3
Loading == [screen |-> "loading", token |-> NoToken]
Screens == {"loading", "setup", "login", "totp", "forceChange", "enrolling", "force2fa", "app"}

FreshToken(b) == CHOOSE k \in Tokens : k \notin {page[b].token, lateToken}

PagesInit ==
  /\ AdminInit
  /\ page = [b \in Browsers |-> Loading] /\ token = [b \in Browsers |-> 1]
  /\ lateToken = NoToken

\* The synchronizer token: every POST of the page shows it.
Posts(b) == b \notin away /\ page[b].token = token[b]

Shows(b, screen)   == page[b].screen = screen
Show(b, screen)    == page' = [page EXCEPT ![b].screen = screen]
\* A reload, or boot() once more, which asks for the session anew.
Reloads(b)         == page' = [page EXCEPT ![b] = Loading]
SameToken          == UNCHANGED <<token, lateToken>>
\* regenerate() or destroy(): the session, and with it the token, is another one.
NewToken(b)        == token' = [token EXCEPT ![b] = FreshToken(b)] /\ UNCHANGED lateToken

-----------------------------------------------------------------------------
(* Loading: GET /api/session decides on the screen.                        *)

\* A slip: to load the page counts as activity.
SeenAndTouched(s) ==
  IF s.admin = None THEN s ELSE IF Expired(s) THEN clearAdminAuth(s) ELSE Touched(s)

SeenBy(s) == IF s.admin = None THEN s ELSE IF Expired(s) THEN clearAdminAuth(s) ELSE SeenOnly(s)

Must(s)      == Known(s.admin) /\ admins[NameOf(s.admin)].must
MustEnrol(s) == Known(s.admin) /\ requireTotp /\ ~admins[NameOf(s.admin)].totp

\* A slip: the policy's second factor is not asked for.
ScreenWithoutEnrolment(s) ==
  CASE needsSetup -> "setup"
    [] ~needsSetup /\ s.admin = None -> IF Known(s.pending) THEN "totp" ELSE "login"
    [] OTHER -> IF Must(s) THEN "forceChange" ELSE "app"

\* An account that has gone forces nothing: its session is shown the app, where all
\* that works is the way out.
ScreenFor(s) ==
  CASE needsSetup -> "setup"
    [] ~needsSetup /\ s.admin = None -> IF Known(s.pending) THEN "totp" ELSE "login"
    [] OTHER -> IF Must(s) THEN "forceChange" ELSE IF MustEnrol(s) THEN "enrolling" ELSE "app"

boot(b) ==
  /\ Shows(b, "loading")
  /\ sess' = [sess EXCEPT ![b] = SeenBy(@)]
  /\ page' = [page EXCEPT ![b] = [screen |-> ScreenFor(SeenBy(sess[b])), token |-> token[b]]]
  /\ SameToken /\ UNCHANGED <<config, backup, late, away, throttle, events>>

\* The screen comes up whether or not the secret for it could be had.
enterForce2fa(b) ==
  /\ Shows(b, "enrolling") /\ Show(b, "force2fa") /\ SameToken
  /\ IF Posts(b) /\ Own(b) THEN TotpSetup(b) ELSE UNCHANGED adminVars

-----------------------------------------------------------------------------
(* The forms before the app.  One that is refused shows an error, and stays. *)

setupForm(b) ==
  /\ Shows(b, "setup") /\ Posts(b) /\ \E n \in Names : SetUp(b, n)
  /\ NewToken(b) /\ Reloads(b)

loginForm(b) ==
  /\ Shows(b, "login") /\ Posts(b)
  /\ \E n \in Names :
       /\ Login(b, n)
       /\ IF admins[n].totp THEN Show(b, "totp") /\ SameToken
                            ELSE Reloads(b) /\ NewToken(b)

totpForm(b) ==
  /\ Shows(b, "totp") /\ Posts(b)
  /\ \/ LoginTotp(b) /\ NewToken(b) /\ Reloads(b)
     \/ LoginTotpStale(b) /\ UNCHANGED pageVars

forceChangeForm(b) ==
  /\ Shows(b, "forceChange") /\ Posts(b) /\ ChangePassword(b) /\ Reloads(b) /\ SameToken

force2faForm(b) ==
  /\ Shows(b, "force2fa") /\ Posts(b) /\ TotpConfirm(b) /\ Reloads(b) /\ SameToken

-----------------------------------------------------------------------------
(* The app.                                                                *)

\* apiError(): a 401 while the app is showing reloads the page.  Before there is an
\* account every answer is a 409, and the page stays.
AppPolls(b) ==
  /\ Shows(b, "app") /\ ~needsSetup /\ SameToken
  /\ IF sess[b].admin = None THEN UNCHANGED adminVars ELSE Poll(b)
  /\ IF SignedIn(sess[b]) THEN UNCHANGED page ELSE Reloads(b)

\* Any POST that changes nothing else; mouse and keyboard send one now and then.
PageTouches(b) ==
  /\ page[b].screen \in {"app", "forceChange", "force2fa"} /\ Posts(b) /\ ~needsSetup /\ Touch(b)
  /\ IF Shows(b, "app") /\ ~SignedIn(sess[b]) THEN Reloads(b) ELSE UNCHANGED page
  /\ SameToken

MyAccount(b) == ChangePassword(b) \/ TotpSetup(b) \/ TotpConfirm(b) \/ TotpDisable(b)

AdminsTab(b) ==
  \/ \E n \in Names : CreateAdmin(b, n) \/ ResetPassword(b, n) \/ DeleteAdmin(b, n)
  \/ \E m, n \in Names : RenameAdmin(b, m, n)
  \/ \E totp \in BOOLEAN : SetPolicy(b, totp)

UsersTab(b) ==
  \/ \E permission \in Permissions : SaveUser(b, permission)
  \/ DeleteUser(b) \/ UserTotpSetup(b) \/ UserTotpConfirm(b) \/ UserTotpDisable(b)

\* What the app's tabs do; after a factory reset the page loads again.
AppWorks(b) ==
  /\ Shows(b, "app") /\ Posts(b)
  /\ \/ (MyAccount(b) \/ AdminsTab(b) \/ UsersTab(b)) /\ UNCHANGED pageVars
     \/ FactoryReset(b) /\ Reloads(b) /\ SameToken
     \/ /\ \E todo \in {"nothing", "restore"} : LateBegins(b, todo)
        /\ lateToken' = token[b] /\ UNCHANGED <<page, token>>

logoutBtn(b) == Shows(b, "app") /\ Posts(b) /\ Logout(b) /\ NewToken(b) /\ Reloads(b)

\* The page's own idle timer: it signs out, or finds that it cannot, and reloads.
idleAutoLogout(b) ==
  /\ Shows(b, "app") /\ b \in away /\ IDLE > 0 /\ sess[b].idle >= IDLE /\ Reloads(b)
  /\ IF page[b].token = token[b] THEN Logout(b) /\ NewToken(b)
                                 ELSE UNCHANGED adminVars /\ SameToken

UserReloads(b) ==
  /\ b \notin away /\ ~Shows(b, "loading") /\ Reloads(b) /\ SameToken /\ UNCHANGED adminVars

-----------------------------------------------------------------------------
(* What happens behind the page's back.                                    *)

\* A late request is answered: its session is the browser's again, and the page of a
\* restore loads again.
LateAnswered(b) ==
  /\ LateEnds(b) /\ token' = [token EXCEPT ![b] = lateToken] /\ lateToken' = NoToken
  /\ UNCHANGED page \/ Reloads(b)

ServiceRestarts ==
  /\ Restart /\ token' = [b \in Browsers |-> FreshToken(b)] /\ lateToken' = NoToken
  /\ UNCHANGED page

Behind ==
  /\ UNCHANGED pageVars
  /\ \/ \E b \in Browsers : WalkAway(b) \/ RestoreUploaded(b)
     \/ \E k \in Keys : Rejected(k)
     \/ TakeBackup \/ HubRestores \/ SyncUsers \/ Tick
     \/ \E S \in SUBSET Names : SyncAdmins(S)

PagesNext ==
  \/ \E b \in Browsers :
       \/ boot(b) \/ enterForce2fa(b)
       \/ setupForm(b) \/ loginForm(b) \/ totpForm(b) \/ forceChangeForm(b) \/ force2faForm(b)
       \/ AppPolls(b) \/ PageTouches(b) \/ AppWorks(b) \/ logoutBtn(b) \/ idleAutoLogout(b)
       \/ UserReloads(b) \/ LateAnswered(b)
  \/ ServiceRestarts \/ Behind

\* A screen on which nothing will work: the operator reloads it, or logs out of the
\* account he finds himself without.
Refused(b) ==
  \/ page[b].token # token[b]
  \/ Shows(b, "setup") /\ ~needsSetup
  \/ Shows(b, "login") /\ needsSetup
  \/ Shows(b, "totp") /\ ~PendingAdmin(b)
  \/ Shows(b, "forceChange") /\ ~Own(b)
  \/ Shows(b, "force2fa") /\ (IF Own(b) THEN ~admins[Me(b)].pend ELSE TRUE)
  \/ Shows(b, "app") /\ ~Full(b)

\* Clocks run, pages load and poll, requests end; and who wants in fills in the form he
\* sees, before his session expires some time at least, and reloads the page that refuses
\* him.
PagesFairness ==
  /\ WF_vars(Tick /\ UNCHANGED pageVars)
  /\ \A b \in Browsers :
       /\ WF_vars(boot(b)) /\ WF_vars(enterForce2fa(b)) /\ WF_vars(AppPolls(b))
       /\ WF_vars(RestoreUploaded(b) /\ UNCHANGED pageVars) /\ WF_vars(LateAnswered(b))
       /\ WF_vars(Refused(b) /\ UserReloads(b))
       /\ SF_vars(setupForm(b) \/ loginForm(b)) /\ SF_vars(totpForm(b))
       /\ SF_vars(Own(b) /\ enterForce2fa(b)) /\ SF_vars(forceChangeForm(b) \/ force2faForm(b))
       /\ SF_vars(~Known(sess[b].admin) /\ logoutBtn(b))

PagesSpec     == PagesInit /\ [][PagesNext]_vars
PagesFairSpec == PagesSpec /\ PagesFairness

-----------------------------------------------------------------------------

\* Whatever a page shows and does, whether it has been overtaken or not, is something
\* AdminAccounts allows: no screen is a way around a gate (webui/app.js decides with what
\* GET /api/session told it once; webServer.js asks again).
ImplementsAccounts == TimedSpec

\* Somebody who keeps trying gets in by what the screens offer: he sees the app, and it
\* works, through lockouts, forced passwords, enrolments, expiries, restarts and syncs.
OperatorGetsIn ==
  \A b \in Browsers :
    []<>(b \in away \/ (Shows(b, "app") /\ Posts(b) /\ HasFullAccess(sess[b])))

\* "Otherwise the dashboard's own auto-refresh would keep an unattended session open
\* forever" (webServer.js:244-247).
UnattendedIsSignedOut == \A b \in Browsers : b \in away ~> ~SignedIn(sess[b])
=============================================================================
