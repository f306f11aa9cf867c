----------------------------- MODULE AdminAccounts -----------------------------
(***************************************************************************)
(* Who may administer the box: the accounts of lib/configStore.js, signing *)
(* in, the second factor and the gate of lib/webServer.js, the web         *)
(* console's sign-in that shares its sessions, and the hub's commands that *)
(* replace accounts (lib/fleetHeartbeat.js).                               *)
(*                                                                         *)
(* Sessions are express-session's (external): a request works on a copy of *)
(* its session, loaded when it arrives and saved when it ends if it was    *)
(* changed, together with the cookie that names it.  Handlers are atomic   *)
(* but for those that await: such a request of a browser is `late', and    *)
(* its copy, when it is saved, is the session the browser's cookie names   *)
(* from then on, whatever happened to the session in between.  So a        *)
(* browser has one session here, and regenerate() and destroy() start a    *)
(* new one.                                                                *)
(*                                                                         *)
(* A password or a code is right or wrong.  The CSRF token is the          *)
(* browser's own, and the web console is enabled: a request with another   *)
(* token, or to a disabled console, has no effect.                         *)
(***************************************************************************)
EXTENDS FiniteSets, Functions, LoginThrottle

CONSTANTS
  Names,      \* user names of administrators
  Default,    \* DEFAULT_ADMIN_USERNAME
  Ids,        \* crypto.randomUUID(): an id that is still known is not drawn again (BOUND)
  Browsers,
  Terminals,  \* those that open the web console
  IDLE,       \* idleTimeoutMinutes, in ticks; 0: never
  MaxGuesses, \* BOUND on wrong passwords and codes
  MaxEvents,  \* BOUND on changes to other accounts, users and the policy, second factors
              \* switched off or set up anew, late requests, users who walk away, what the hub does,
              \* backups, restores, resets and restarts
  Starts,     \* configurations a box may have when it starts
  None

Permissions == {"read-write", "read-only"}
Accounts    == [id : Ids, must : BOOLEAN, totp : BOOLEAN, pend : BOOLEAN]
Users       == [id : Ids, permission : Permissions, totp : BOOLEAN, pend : BOOLEAN]

\* What a configuration holds here: accounts by name, the console user, the policy.
IsConfig(c) ==
  /\ DOMAIN c.admins \subseteq Names /\ c.admins \in [DOMAIN c.admins -> Accounts]
  /\ c.user # None => c.user \in Users
  /\ c.requireTotp \in BOOLEAN

NoIdTwice(table) == \A m, n \in DOMAIN table : table[m].id = table[n].id => m = n

ASSUME AdminAssumption ==
  /\ Default \in Names /\ Terminals \subseteq Browsers /\ None \notin Ids \union Names
  /\ IDLE \in Nat /\ MaxGuesses \in Nat /\ MaxEvents \in Nat
  /\ \A start \in Starts : IsConfig(start) /\ NoIdTwice(start.admins)

VARIABLES
  admins,      \* state.web.admins: name |-> account
  user,        \* the console user, None when it is not in state.users
  requireTotp, \* passwordPolicy.requireAdminTotp
  backup,      \* a backup file, at the hub or on somebody's disk
  sess,        \* each browser's session
  late,        \* a late request: whose, the session it will save, what is left to do
               \* (BOUND: one at a time)
  away,        \* browsers whose user walked away, their pages still polling
  attempts,    \* loginThrottle's table
  recent,      \* history: the failures of each key since its last success, numbered, and
               \* how long ago each of them was, those within a lockout's length
  guesses, events

config    == <<admins, user, requireTotp>>
throttle  == <<attempts, recent, guesses>>
adminVars == <<config, backup, sess, late, away, throttle, events>>

Unset == -1
Blank == [admin |-> None, idle |-> Unset, pending |-> None,
          console |-> None, pendingConsole |-> None]
NotLate == [of |-> None, session |-> Blank, todo |-> "nothing"]

Setup    == <<"setup">>
Pw(n)    == <<"password", n>>
Code(n)  == <<"2fa", n>>
UserPw   == <<"console">>
UserCode == <<"console-2fa">>
Keys == {Setup, UserPw, UserCode} \union {Pw(n) : n \in Names} \union {Code(n) : n \in Names}

newAdmin(id, must) == [id |-> id, must |-> must, totp |-> FALSE, pend |-> FALSE]
newUser(id, permission) == [id |-> id, permission |-> permission, totp |-> FALSE, pend |-> FALSE]

AdminIds(table)  == {table[n].id : n \in DOMAIN table}
NameOf(id)       == CHOOSE n \in DOMAIN admins : admins[n].id = id
Known(id)        == id \in AdminIds(admins)
needsSetup       == DOMAIN admins = {}

\* Ids that somebody still remembers.
Remembered ==
  LET of(s) == {s.admin, s.pending, s.console, s.pendingConsole}
  IN  AdminIds(admins) \union (IF user = None THEN {} ELSE {user.id})
        \union (IF backup = None THEN {} ELSE
                  AdminIds(backup.admins) \union (IF backup.user = None THEN {} ELSE {backup.user.id}))
        \union of(late.session) \union UNION {of(sess[b]) : b \in Browsers}

\* Fresh ids for each of S.
FreshIds(S) == CHOOSE new \in Injection(S, Ids \ Remembered) : TRUE
IdsLeft(S)  == ExistsInjection(S, Ids \ Remembered)
FreshId     == CHOOSE id \in Ids : id \notin Remembered

AdminInit ==
  /\ \E start \in Starts :
       admins = start.admins /\ user = start.user /\ requireTotp = start.requireTotp
  /\ backup = None
  /\ sess = [b \in Browsers |-> Blank] /\ late = NotLate
  /\ away = {} /\ attempts = [k \in Keys |-> NoRecord]
  /\ recent = [k \in Keys |-> {}]
  /\ guesses = 0 /\ events = 0

Event == events < MaxEvents /\ events' = events + 1

-----------------------------------------------------------------------------
(* The gates.                                                              *)

\* adminSessionExpired(): every request asks, and only a POST counts as activity.  With
\* no limit the time of the last activity is never read.
Expired(s) == s.admin # None /\ IDLE > 0 /\ s.idle > IDLE
SignedIn(s) == s.admin # None /\ ~Expired(s)
Touched(s) == IF IDLE = 0 THEN s ELSE [s EXCEPT !.idle = 0]
\* A slip: a poll counts as activity too.
SeenAsActivity(s) == Touched(s)

SeenOnly(s) == IF s.idle = Unset THEN Touched(s) ELSE s
clearAdminAuth(s) == [s EXCEPT !.admin = None, !.idle = Unset]

\* requireAuth
Auth(b) == ~needsSetup /\ SignedIn(sess[b]) /\ b \notin away

\* requireFullAuth
HasFullAccess(s) ==
  /\ ~needsSetup /\ SignedIn(s) /\ Known(s.admin)
  /\ LET me == admins[NameOf(s.admin)] IN ~me.must /\ (requireTotp => me.totp)

Full(b) == b \notin away /\ HasFullAccess(sess[b])

Me(b)         == NameOf(sess[b].admin)
Keep(b)       == sess' = [sess EXCEPT ![b] = Touched(@)]
Account(n, a) == admins' = [m \in DOMAIN admins \union {n} |-> IF m = n THEN a ELSE admins[m]]

\* A page that polls (GET): it may find the session expired, and does not keep it.
Poll(b) ==
  /\ sess[b].admin # None
  /\ sess' = [sess EXCEPT ![b] = IF Expired(@) THEN clearAdminAuth(@) ELSE SeenOnly(@)]
  /\ UNCHANGED <<config, backup, late, away, throttle, events>>

\* POST /api/session/touch, and every POST the gate refuses or that changes nothing here.
Touch(b) ==
  /\ b \notin away /\ sess[b].admin # None
  /\ sess' = [sess EXCEPT ![b] = IF Expired(@) THEN clearAdminAuth(@) ELSE Touched(@)]
  /\ UNCHANGED <<config, backup, late, away, throttle, events>>

WalkAway(b) ==
  /\ sess[b].admin # None /\ b \notin away /\ Event /\ away' = away \union {b}
  /\ UNCHANGED <<config, backup, sess, late, throttle>>

-----------------------------------------------------------------------------
(* Signing in and out.                                                     *)

\* A slip: the session is kept, and the fields are set in it.
loginInto(b, field, id) == sess' = [sess EXCEPT ![b][field] = id]

\* loginSession(): a new session with nothing but the account in it.
loginSession(b, field, id) == sess' = [sess EXCEPT ![b] = [Blank EXCEPT ![field] = id]]

\* The history of failures of a key, for GuessesAreBounded.
Fails(k) ==
  /\ guesses < MaxGuesses /\ guesses' = guesses + 1
  /\ attempts' = recordFailure(attempts, k)
  /\ recent' = [recent EXCEPT ![k] = @ \union {<<guesses', 0>>}]
Succeeds(k) ==
  /\ attempts' = recordSuccess(attempts, k)
  /\ recent' = [recent EXCEPT ![k] = {}]
  /\ UNCHANGED guesses

\* POST /api/setup, open only while there is no account.
SetUp(b, n) ==
  /\ b \notin away /\ needsSetup /\ ~isLocked(attempts, Setup) /\ IdsLeft({n})
  /\ Account(n, newAdmin(FreshId, FALSE))
  /\ loginSession(b, "admin", FreshId)
  /\ UNCHANGED <<user, requireTotp, backup, late, away, throttle, events>>

\* A slip: whoever has the password is in.
LoginWithoutCode(b, n) ==
  /\ b \notin away /\ ~needsSetup /\ n \in DOMAIN admins /\ ~isLocked(attempts, Pw(n))
  /\ Succeeds(Pw(n))
  /\ loginSession(b, "admin", admins[n].id)
  /\ UNCHANGED <<config, backup, late, away, events>>

\* POST /api/login with the right password: in, or waiting for the code.
Login(b, n) ==
  /\ b \notin away /\ ~needsSetup /\ n \in DOMAIN admins /\ ~isLocked(attempts, Pw(n))
  /\ Succeeds(Pw(n))
  /\ IF admins[n].totp
     THEN sess' = [sess EXCEPT ![b].pending = admins[n].id]
     ELSE loginSession(b, "admin", admins[n].id)
  /\ UNCHANGED <<config, backup, late, away, events>>

\* The account whose password this session gave, while it still wants a code.
PendingAdmin(b) == Known(sess[b].pending) /\ admins[NameOf(sess[b].pending)].totp

\* POST /api/login-totp
LoginTotp(b) ==
  /\ b \notin away /\ PendingAdmin(b)
  /\ LET k == Code(NameOf(sess[b].pending))
     IN  ~isLocked(attempts, k) /\ Succeeds(k)
  /\ loginSession(b, "admin", sess[b].pending)
  /\ UNCHANGED <<config, backup, late, away, events>>

\* The account has gone, or wants no code any more: sign in from the start.
LoginTotpStale(b) ==
  /\ b \notin away /\ sess[b].pending # None /\ ~PendingAdmin(b)
  /\ sess' = [sess EXCEPT ![b].pending = None]
  /\ UNCHANGED <<config, backup, late, away, throttle, events>>

\* POST /api/logout, by the user or by the idle timer of his page.
Logout(b) ==
  /\ sess[b] # Blank /\ sess' = [sess EXCEPT ![b] = Blank]
  /\ UNCHANGED <<config, backup, late, away, throttle, events>>

\* POST /api/terminal/login and login-totp: the same session, regenerated.  consoleUser
\* is a copy: the account is not asked again.
TermLogin(b) ==
  /\ b \in Terminals \ away /\ user # None /\ ~isLocked(attempts, UserPw) /\ Succeeds(UserPw)
  /\ IF user.totp THEN sess' = [sess EXCEPT ![b].pendingConsole = user.id]
                  ELSE loginSession(b, "console", user.id)
  /\ UNCHANGED <<config, backup, late, away, events>>

PendingUser(b) == user # None /\ user.id = sess[b].pendingConsole /\ user.totp

TermLoginTotp(b) ==
  /\ b \notin away /\ PendingUser(b) /\ ~isLocked(attempts, UserCode) /\ Succeeds(UserCode)
  /\ loginSession(b, "console", user.id)
  /\ UNCHANGED <<config, backup, late, away, events>>

TermLoginTotpStale(b) ==
  /\ b \notin away /\ sess[b].pendingConsole # None /\ ~PendingUser(b)
  /\ sess' = [sess EXCEPT ![b].pendingConsole = None]
  /\ UNCHANGED <<config, backup, late, away, throttle, events>>

\* A wrong password or code, or a password the policy refuses for the first account.
Tried ==
  (IF needsSetup THEN {Setup} ELSE {Pw(n) : n \in Names})
    \union {Code(NameOf(sess[b].pending)) : b \in {c \in Browsers \ away : PendingAdmin(c)}}
    \union (IF Terminals = {} THEN {} ELSE {UserPw})
    \union {UserCode : b \in {c \in Browsers \ away : PendingUser(c)}}

Rejected(k) ==
  /\ k \in Tried /\ ~isLocked(attempts, k) /\ Fails(k)
  /\ UNCHANGED <<config, backup, sess, late, away, events>>

\* POST /api/terminal/logout drops these two fields alone.
TermLogout(b) ==
  /\ b \notin away /\ {sess[b].console, sess[b].pendingConsole} # {None}
  /\ sess' = [sess EXCEPT ![b].console = None, ![b].pendingConsole = None]
  /\ UNCHANGED <<config, backup, late, away, throttle, events>>

-----------------------------------------------------------------------------
(* One's own account: behind requireAuth alone, so that a forced password  *)
(* or an enrolment can be satisfied.                                       *)

Own(b) == Auth(b) /\ Known(sess[b].admin)
SetMine(b, a) == Account(Me(b), a) /\ Keep(b) /\ UNCHANGED <<user, requireTotp>>

ChangePassword(b) ==
  /\ Own(b) /\ SetMine(b, [admins[Me(b)] EXCEPT !.must = FALSE])
  /\ UNCHANGED <<backup, late, away, throttle, events>>

TotpSetup(b) ==
  /\ Own(b) /\ SetMine(b, [admins[Me(b)] EXCEPT !.pend = TRUE])
  /\ IF admins[Me(b)].totp THEN Event ELSE UNCHANGED events
  /\ UNCHANGED <<backup, late, away, throttle>>

\* A wrong code changes nothing, and is not counted: see Touch.
TotpConfirm(b) ==
  /\ Own(b) /\ admins[Me(b)].pend
  /\ SetMine(b, [admins[Me(b)] EXCEPT !.totp = TRUE, !.pend = FALSE])
  /\ UNCHANGED <<backup, late, away, throttle, events>>

TotpDisable(b) ==
  /\ Own(b) /\ admins[Me(b)].totp
  /\ SetMine(b, [admins[Me(b)] EXCEPT !.totp = FALSE, !.pend = FALSE])
  /\ Event /\ UNCHANGED <<backup, late, away, throttle>>

-----------------------------------------------------------------------------
(* Behind the full gate: other accounts, users and the policy.             *)

Settle(b) == Keep(b) /\ Event /\ UNCHANGED <<backup, late, away, throttle>>

CreateAdmin(b, n) ==
  /\ Full(b) /\ n \notin DOMAIN admins /\ IdsLeft({n})
  /\ Account(n, newAdmin(FreshId, FALSE))
  /\ Settle(b) /\ UNCHANGED <<user, requireTotp>>

RenameAdmin(b, m, n) ==
  /\ Full(b) /\ m \in DOMAIN admins /\ n \notin DOMAIN admins
  /\ admins' = [x \in (DOMAIN admins \ {m}) \union {n} |-> admins[IF x = n THEN m ELSE x]]
  /\ Settle(b) /\ UNCHANGED <<user, requireTotp>>

ResetPassword(b, n) ==
  /\ Full(b) /\ n \in DOMAIN admins
  /\ Account(n, [admins[n] EXCEPT !.must = FALSE])
  /\ Settle(b) /\ UNCHANGED <<user, requireTotp>>

\* deleteAdmin() keeps the last account, its route one's own.
DeleteAdmin(b, n) ==
  /\ Full(b) /\ n \in DOMAIN admins \ {Me(b)} /\ Cardinality(DOMAIN admins) > 1
  /\ admins' = [m \in DOMAIN admins \ {n} |-> admins[m]]
  /\ Settle(b) /\ UNCHANGED <<user, requireTotp>>

SetPolicy(b, totp) ==
  /\ Full(b) /\ requireTotp' = totp
  /\ Settle(b) /\ UNCHANGED <<admins, user>>

SetUser(b, u) == user' = u /\ Settle(b) /\ UNCHANGED <<admins, requireTotp>>

\* POST /api/users stores the form: of the record there was it keeps the password only.
\* The import of a file creates a user that is not there the same way.
SaveUser(b, permission) ==
  /\ Full(b) /\ IdsLeft({1})
  /\ SetUser(b, newUser(IF user = None THEN FreshId ELSE user.id, permission))

DeleteUser(b)      == Full(b) /\ user # None /\ SetUser(b, None)
UserTotpSetup(b)   == Full(b) /\ user # None /\ SetUser(b, [user EXCEPT !.pend = TRUE])
UserTotpDisable(b) == Full(b) /\ user # None /\ SetUser(b, [user EXCEPT !.totp = FALSE, !.pend = FALSE])
UserTotpConfirm(b) ==
  /\ Full(b) /\ user # None /\ user.pend
  /\ SetUser(b, [user EXCEPT !.totp = TRUE, !.pend = FALSE])

-----------------------------------------------------------------------------
(* Late requests, backups, the hub and restarts.                           *)

\* A POST that awaits something passes the gate now, and ends later.
LateBegins(b, todo) ==
  /\ late = NotLate /\ Full(b) /\ (todo = "restore" => backup # None)
  /\ late' = [of |-> b, session |-> Touched(sess[b]), todo |-> todo]
  /\ Event /\ UNCHANGED <<config, backup, sess, away, throttle>>

\* Its copy of the session is saved, and its cookie set.
LateEnds(b) ==
  /\ late.of = b /\ late.todo = "nothing"
  /\ sess' = [sess EXCEPT ![b] = late.session] /\ late' = NotLate
  /\ UNCHANGED <<config, backup, away, throttle, events>>

\* importConfig(): the accounts of the file, with the ids they had.
importConfig ==
  /\ backup # None
  /\ admins' = backup.admins /\ user' = backup.user /\ requireTotp' = backup.requireTotp

\* POST /api/restore: the gate was passed before the file arrived.
RestoreUploaded(b) ==
  /\ late.of = b /\ late.todo = "restore" /\ importConfig
  /\ late' = [late EXCEPT !.todo = "nothing"]
  /\ UNCHANGED <<backup, sess, away, throttle, events>>

HubRestores ==
  /\ importConfig /\ Event /\ UNCHANGED <<backup, sess, late, away, throttle>>

\* GET /api/backup, or the hub's send-backup.
TakeBackup ==
  /\ Event /\ backup' = [admins |-> admins, user |-> user, requireTotp |-> requireTotp]
  /\ UNCHANGED <<config, sess, late, away, throttle>>

\* A slip: who has an account already keeps its id.
replaceAdminsByName(S) ==
  admins' = LET new == FreshIds(S)
            IN  [n \in S |-> newAdmin(IF n \in DOMAIN admins THEN admins[n].id ELSE new[n], FALSE)]

\* Every account of the hub's list is a new one, without second factor.
replaceAdmins(S) == admins' = LET new == FreshIds(S) IN [n \in S |-> newAdmin(new[n], FALSE)]

\* A slip: a list of nobody is taken too.
SyncAnyAdmins(S) ==
  /\ Event /\ IdsLeft(S) /\ replaceAdmins(S)
  /\ UNCHANGED <<user, requireTotp, backup, sess, late, away, throttle>>

SyncAdmins(S) ==
  /\ Event /\ S # {} /\ IdsLeft(S) /\ replaceAdmins(S)
  /\ UNCHANGED <<user, requireTotp, backup, sess, late, away, throttle>>

\* The list of users names the user.
SyncUsers ==
  /\ Event /\ IdsLeft({1}) /\ user' = newUser(FreshId, "read-write")
  /\ UNCHANGED <<admins, requireTotp, backup, sess, late, away, throttle>>

\* resetToDefaults(); the restart that follows is Restart, unless it fails.
FactoryReset(b) ==
  /\ Full(b) /\ Event /\ IdsLeft({Default})
  /\ admins' = [n \in {Default} |-> newAdmin(FreshId, TRUE)] /\ user' = None /\ requireTotp' = FALSE
  /\ Keep(b) /\ UNCHANGED <<backup, late, away, throttle>>

\* Sessions, requests and failed attempts are in memory.
Restart ==
  /\ Event
  /\ sess' = [b \in Browsers |-> Blank] /\ late' = NotLate
  /\ attempts' = [k \in Keys |-> NoRecord]
  /\ recent' = [k \in Keys |-> {}]
  /\ UNCHANGED <<config, backup, away, guesses>>

\* Time passes.
Older(s) == [s EXCEPT !.idle = IF @ \in {Unset, IDLE + 1} THEN @ ELSE @ + 1]
Tick ==
  /\ sess' = [b \in Browsers |-> Older(sess[b])]
  /\ late' = [late EXCEPT !.session = Older(@)]
  /\ attempts' = Elapsed(attempts)
  /\ recent' = [k \in Keys |-> {<<f[1], f[2] + 1>> : f \in {g \in recent[k] : g[2] < LOCKOUT - 1}}]
  /\ UNCHANGED <<config, backup, away, guesses, events>>

-----------------------------------------------------------------------------

SignNext(b) ==
  \/ \E n \in Names : SetUp(b, n) \/ Login(b, n)
  \/ LoginTotp(b) \/ LoginTotpStale(b) \/ Logout(b)
  \/ TermLogin(b) \/ TermLoginTotp(b) \/ TermLoginTotpStale(b)
  \/ TermLogout(b)

PageNext(b) ==
  \/ Poll(b) \/ Touch(b) \/ WalkAway(b)
  \/ ChangePassword(b) \/ TotpSetup(b) \/ TotpConfirm(b) \/ TotpDisable(b)
  \/ \E n \in Names : CreateAdmin(b, n) \/ ResetPassword(b, n) \/ DeleteAdmin(b, n)
  \/ \E m, n \in Names : RenameAdmin(b, m, n)
  \/ \E totp \in BOOLEAN : SetPolicy(b, totp)
  \/ \E permission \in Permissions : SaveUser(b, permission)
  \/ DeleteUser(b) \/ UserTotpSetup(b) \/ UserTotpConfirm(b) \/ UserTotpDisable(b)
  \/ FactoryReset(b)
  \/ \E todo \in {"nothing", "restore"} : LateBegins(b, todo)
  \/ RestoreUploaded(b) \/ LateEnds(b)

\* Who asks for what, and what the hub does.
AdminNext ==
  \/ \E b \in Browsers : SignNext(b) \/ PageNext(b)
  \/ TakeBackup \/ HubRestores \/ SyncUsers \/ Restart
  \/ \E S \in SUBSET Names : SyncAdmins(S)

AdminSpec == AdminInit /\ [][AdminNext]_adminVars

\* With wrong guesses and the clock, which can only refuse or end what is granted above.
TimedNext == AdminNext \/ Tick \/ \E k \in Keys : Rejected(k)
TimedSpec == AdminInit /\ [][TimedNext]_adminVars

-----------------------------------------------------------------------------
(* Properties.                                                             *)

SessionSet == [admin : Ids \union {None}, idle : Unset..(IDLE + 1), pending : Ids \union {None},
               console : Ids \union {None}, pendingConsole : Ids \union {None}]

Records    == [count : Nat, age : Nat, lock : Nat]

AdminTypeOK ==
  /\ IsConfig([admins |-> admins, user |-> user, requireTotp |-> requireTotp])
  /\ backup # None => IsConfig(backup)
  /\ sess \in [Browsers -> SessionSet]
  /\ late \in [of : Browsers \union {None}, session : SessionSet, todo : {"nothing", "restore"}]
  /\ away \subseteq Browsers
  /\ attempts \in [Keys -> Records]
  /\ recent \in [Keys -> SUBSET ((1..MaxGuesses) \X (0..(LOCKOUT - 1)))]
  /\ guesses \in 0..MaxGuesses /\ events \in 0..MaxEvents

\* "There's always a way back in" (HANDBOOK.html:743): whatever admins and the hub
\* delete, replace or reset, an account remains, unless a backup is restored that was
\* taken before there was one.
AdminsRemain ==
  [][~needsSetup /\ needsSetup' => backup # None /\ DOMAIN backup.admins = {}]_adminVars

\* Two accounts never share an id, or one would answer for the other's sessions.
IdsAreUnique == NoIdTwice(admins) /\ (backup # None => NoIdTwice(backup.admins))

\* The admin pages and the web console share a cookie: a session is one of them, and so
\* is the copy that a late request will save.
IsOne(s)    == None \in {s.admin, s.console}
OneIdentity == IsOne(late.session) /\ \A b \in Browsers : IsOne(sess[b])

AdminInv == AdminTypeOK /\ IdsAreUnique /\ OneIdentity

\* No key is tried wrongly more than MAX_ATTEMPTS times within a lockout's length,
\* over any sequence of lockouts, unless a success came between.
GuessesAreBounded == \A k \in Keys : Cardinality(recent[k]) <= MAX_ATTEMPTS

\* With a second factor nobody comes in by the password alone: the session that is let
\* in gave the password before, or is one that a late request brings back.
NobodySkipsTheCode ==
  [][\A b \in Browsers :
       LET id == sess'[b].admin
       IN  id \notin {None, sess[b].admin} =>
             \/ sess[b].pending = id \/ (late.of = b /\ late.session.admin = id)
             \/ \A n \in DOMAIN admins : admins[n].id = id => ~admins[n].totp]_adminVars

\* "Any admin session on this box that isn't in that list is signed out": a sync leaves
\* nobody with access, and no late request brings it back.
SyncEndsAccess ==
  [][SyncAdmins(DOMAIN admins') =>
       ~HasFullAccess(late.session)' /\ \A b \in Browsers : ~HasFullAccess(sess[b])']_adminVars

\* "Once on, SSH prompts for a verification code right after the password": changing a
\* user's other settings leaves the second factor as it is.
EditKeepsSecondFactor ==
  [][(user # None /\ user' # None /\ user.id = user'.id /\ user.permission # user'.permission)
       => user'.totp = user.totp]_adminVars
=============================================================================
