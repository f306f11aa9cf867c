-------------------------- MODULE AdminAccounts_proofs --------------------------
(***************************************************************************)
(* Proofs about AdminAccounts, for any names, ids, browsers, idle timeout  *)
(* and lockout, and with the clock and wrong guesses, which AdminSpec      *)
(* leaves out and TimedSpec takes in; and about AdminPages, whose every    *)
(* step is one of TimedSpec.                                               *)
(***************************************************************************)
EXTENDS AdminPages, FiniteSetTheorems, TLAPS

(* The invariant in four parts, one for each group of variables. *)
ConfigOK ==
  /\ DOMAIN admins \subseteq Names /\ admins \in [DOMAIN admins -> Accounts]
  /\ user # None => user \in Users
  /\ requireTotp \in BOOLEAN
  /\ NoIdTwice(admins)
BackupOK == backup # None => IsConfig(backup) /\ NoIdTwice(backup.admins)
SessOK   == sess \in [Browsers -> SessionSet] /\ \A b \in Browsers : IsOne(sess[b])
LateOK   ==
  /\ late \in [of : Browsers \union {None}, session : SessionSet, todo : {"nothing", "restore"}]
  /\ IsOne(late.session)
Failures == (1..MaxGuesses) \X (0..(LOCKOUT - 1))
TableOK  ==
  attempts \in [Keys -> Records] /\ recent \in [Keys -> SUBSET Failures] /\ guesses \in 0..MaxGuesses
RestOK   == away \subseteq Browsers /\ events \in 0..MaxEvents

LEMMA Parts ==
  /\ AdminInv <=> ConfigOK /\ BackupOK /\ SessOK /\ LateOK /\ TableOK /\ RestOK
  /\ AdminInv' <=> (ConfigOK /\ BackupOK /\ SessOK /\ LateOK /\ TableOK /\ RestOK)'
  BY DEF AdminInv, AdminTypeOK, IdsAreUnique, OneIdentity, IsConfig, ConfigOK, BackupOK, SessOK,
         LateOK, TableOK, Failures, RestOK

(* Ids.                                                                    *)

\* Fresh ids are of nobody who is remembered, and all different.
LEMMA FreshIdsAreNew ==
  ASSUME NEW S, IdsLeft(S)
  PROVE  /\ FreshIds(S) \in [S -> Ids \ Remembered]
         /\ \A x, y \in S : FreshIds(S)[x] = FreshIds(S)[y] => x = y
<1>1. FreshIds(S) \in Injection(S, Ids \ Remembered)
  BY DEF FreshIds, IdsLeft, ExistsInjection
<1> QED
  BY <1>1 DEF Injection, IsInjective

LEMMA FreshIdIsNew ==
  ASSUME NEW x, IdsLeft({x})
  PROVE  FreshId \in Ids /\ FreshId \notin Remembered
<1>1. FreshIds({x})[x] \in Ids \ Remembered
  BY FreshIdsAreNew
<1> QED
  BY <1>1 DEF FreshId

\* Accounts and sessions are remembered.
LEMMA AllAreRemembered ==
  /\ \A n \in DOMAIN admins : admins[n].id \in Remembered
  /\ \A b \in Browsers : sess[b].admin \in Remembered
  /\ late.session.admin \in Remembered
  BY DEF Remembered, AdminIds

\* An id that is known names its account.
LEMMA NamesOfIds ==
  ASSUME NEW id, Known(id)
  PROVE  NameOf(id) \in DOMAIN admins /\ admins[NameOf(id)].id = id
  BY DEF Known, AdminIds, NameOf

(* Steps of each group of variables.                                       *)

\* One account is put in its place, with its own id or with a new one.
LEMMA AccountIsPut ==
  ASSUME ConfigOK, NEW n \in Names, NEW a \in Accounts, Account(n, a),
         \A m \in DOMAIN admins : admins[m].id = a.id => m = n
  PROVE  /\ DOMAIN admins' = DOMAIN admins \union {n}
         /\ admins' \in [DOMAIN admins' -> Accounts] /\ DOMAIN admins' \subseteq Names
         /\ NoIdTwice(admins')
  BY DEF Account, ConfigOK, NoIdTwice

LEMMA UserAndPolicyStay ==
  ASSUME ConfigOK, UNCHANGED <<user, requireTotp>>,
         DOMAIN admins' \subseteq Names, admins' \in [DOMAIN admins' -> Accounts], NoIdTwice(admins')
  PROVE  ConfigOK'
  BY DEF ConfigOK

LEMMA NewAccounts ==
  ASSUME NEW id \in Ids, NEW must \in BOOLEAN
  PROVE  newAdmin(id, must) \in Accounts /\ newAdmin(id, must).id = id
  BY DEF newAdmin, Accounts

\* A session, and the copy of one, may be looked at, kept, cleared or grow older.
LEMMA SessionSteps ==
  ASSUME NEW s \in SessionSet, IsOne(s)
  PROVE  /\ Touched(s) \in SessionSet /\ IsOne(Touched(s))
         /\ SeenOnly(s) \in SessionSet /\ IsOne(SeenOnly(s))
         /\ clearAdminAuth(s) \in SessionSet /\ IsOne(clearAdminAuth(s))
         /\ Older(s) \in SessionSet /\ IsOne(Older(s))
<1>1. IDLE \in Nat /\ Unset = -1
  BY AdminAssumption DEF Unset
<1>2. /\ s.idle \in -1..(IDLE + 1) /\ 0 \in -1..(IDLE + 1)
      /\ s.idle # -1 /\ s.idle # IDLE + 1 => s.idle + 1 \in -1..(IDLE + 1)
  BY <1>1 DEF SessionSet
<1>3. \A i \in -1..(IDLE + 1) : [s EXCEPT !.idle = i] \in SessionSet /\ IsOne([s EXCEPT !.idle = i])
  BY <1>1 DEF SessionSet, IsOne
<1>4. Touched(s) \in SessionSet /\ IsOne(Touched(s))
  BY <1>2, <1>3 DEF Touched
<1>5. SeenOnly(s) \in SessionSet /\ IsOne(SeenOnly(s))
  BY <1>4 DEF SeenOnly
<1>6. clearAdminAuth(s) \in SessionSet /\ IsOne(clearAdminAuth(s))
  <2>1. Unset \in Unset..(IDLE + 1)
    BY <1>1
  <2> QED
    BY <2>1 DEF clearAdminAuth, SessionSet, IsOne
<1>7. Older(s) = [s EXCEPT !.idle = IF s.idle \in {-1, IDLE + 1} THEN s.idle ELSE s.idle + 1]
  BY <1>1 DEF Older
<1>8. Older(s) \in SessionSet /\ IsOne(Older(s))
  BY <1>2, <1>3, <1>7
<1> QED
  BY <1>4, <1>5, <1>6, <1>8

LEMMA BlankSession == Blank \in SessionSet /\ IsOne(Blank)
<1>1. IDLE \in Nat /\ Unset = -1
  BY AdminAssumption DEF Unset
<1> QED
  BY <1>1 DEF Blank, SessionSet, IsOne

LEMMA SessionIsSet ==
  ASSUME SessOK, NEW b \in Browsers, NEW s \in SessionSet, IsOne(s),
         sess' = [sess EXCEPT ![b] = s]
  PROVE  SessOK'
  BY DEF SessOK

LEMMA SessionIsKept ==
  ASSUME SessOK, NEW b \in Browsers, Keep(b)
  PROVE  SessOK'
  BY SessionIsSet, SessionSteps DEF SessOK, Keep

LEMMA SessionsStart ==
  ASSUME SessOK, NEW b \in Browsers, NEW id \in Ids
  PROVE  /\ loginSession(b, "admin", id) => SessOK'
         /\ loginSession(b, "console", id) => SessOK'
         /\ sess' = [sess EXCEPT ![b].pending = id] => SessOK'
         /\ sess' = [sess EXCEPT ![b].pendingConsole = id] => SessOK'
         /\ sess' = [sess EXCEPT ![b].pending = None] => SessOK'
         /\ sess' = [sess EXCEPT ![b].pendingConsole = None] => SessOK'
         /\ sess' = [sess EXCEPT ![b].console = None, ![b].pendingConsole = None] => SessOK'
<1>1. /\ [Blank EXCEPT !["admin"] = id] \in SessionSet /\ IsOne([Blank EXCEPT !["admin"] = id])
      /\ [Blank EXCEPT !["console"] = id] \in SessionSet /\ IsOne([Blank EXCEPT !["console"] = id])
  BY BlankSession DEF SessionSet, Blank, IsOne
<1>2. loginSession(b, "admin", id) => SessOK'
  BY <1>1, SessionIsSet DEF loginSession
<1>3. loginSession(b, "console", id) => SessOK'
  BY <1>1, SessionIsSet DEF loginSession
<1>4. /\ sess[b] \in SessionSet /\ IsOne(sess[b])
      /\ sess \in [Browsers -> SessionSet]
  BY DEF SessOK
<1> DEFINE P(s)  == [s EXCEPT !.pending = id]
           PC(s) == [s EXCEPT !.pendingConsole = id]
           N(s)  == [s EXCEPT !.pending = None]
           NC(s) == [s EXCEPT !.pendingConsole = None]
           L(s)  == [s EXCEPT !.console = None, !.pendingConsole = None]
<1>5. /\ P(sess[b]) \in SessionSet /\ IsOne(P(sess[b]))
      /\ PC(sess[b]) \in SessionSet /\ IsOne(PC(sess[b]))
      /\ N(sess[b]) \in SessionSet /\ IsOne(N(sess[b]))
      /\ NC(sess[b]) \in SessionSet /\ IsOne(NC(sess[b]))
      /\ L(sess[b]) \in SessionSet /\ IsOne(L(sess[b]))
  BY <1>4 DEF SessionSet, IsOne
<1>6. sess' = [sess EXCEPT ![b].pending = id] => sess' = [sess EXCEPT ![b] = P(sess[b])]
  OBVIOUS
<1>7. sess' = [sess EXCEPT ![b].pendingConsole = id] => sess' = [sess EXCEPT ![b] = PC(sess[b])]
  OBVIOUS
<1>8. sess' = [sess EXCEPT ![b].pending = None] => sess' = [sess EXCEPT ![b] = N(sess[b])]
  OBVIOUS
<1>9. sess' = [sess EXCEPT ![b].pendingConsole = None] => sess' = [sess EXCEPT ![b] = NC(sess[b])]
  OBVIOUS
<1>10. sess' = [sess EXCEPT ![b].console = None, ![b].pendingConsole = None]
         => sess' = [sess EXCEPT ![b] = L(sess[b])]
  BY <1>4
<1> HIDE DEF P, PC, N, NC, L
<1> QED
  BY <1>2, <1>3, <1>5, <1>6, <1>7, <1>8, <1>9, <1>10, SessionIsSet

\* The throttle's table and the history beside it.
LEMMA TableSteps ==
  ASSUME TableOK, NEW k \in Keys
  PROVE  /\ Succeeds(k) => TableOK'
         /\ Fails(k) => TableOK'
<1>1. MAX_ATTEMPTS \in Nat /\ LOCKOUT \in Nat \ {0} /\ WINDOW \in Nat /\ MaxGuesses \in Nat
  BY ThrottleAssumption, AdminAssumption
<1>2. attempts[k] \in Records /\ NoRecord \in Records /\ recent[k] \in SUBSET Failures
  BY DEF TableOK, Records, NoRecord
<1>3. recordSuccess(attempts, k) \in [Keys -> Records]
  BY <1>2 DEF TableOK, recordSuccess
<1>4. recordFailure(attempts, k) \in [Keys -> Records]
  BY <1>1, <1>2 DEF TableOK, recordFailure, Records
<1>5. [recent EXCEPT ![k] = {}] \in [Keys -> SUBSET Failures]
  BY DEF TableOK
<1>6. guesses < MaxGuesses => <<guesses + 1, 0>> \in Failures
  BY <1>1 DEF TableOK, Failures
<1>7. guesses < MaxGuesses =>
        [recent EXCEPT ![k] = @ \union {<<guesses + 1, 0>>}] \in [Keys -> SUBSET Failures]
  BY <1>6 DEF TableOK
<1>8. ASSUME Succeeds(k)
      PROVE  TableOK'
  BY <1>3, <1>5, <1>8 DEF Succeeds, TableOK
<1>9. ASSUME Fails(k)
      PROVE  TableOK'
  BY <1>1, <1>4, <1>7, <1>9 DEF Fails, TableOK
<1> QED
  BY <1>8, <1>9

LEMMA EventStep ==
  ASSUME RestOK, Event, UNCHANGED away
  PROVE  RestOK'
  BY AdminAssumption DEF RestOK, Event

LEMMA Unchanged ==
  /\ ConfigOK /\ UNCHANGED config => ConfigOK'
  /\ BackupOK /\ UNCHANGED backup => BackupOK'
  /\ SessOK /\ UNCHANGED sess => SessOK'
  /\ LateOK /\ UNCHANGED late => LateOK'
  /\ TableOK /\ UNCHANGED throttle => TableOK'
  /\ RestOK /\ UNCHANGED <<away, events>> => RestOK'
  BY DEF ConfigOK, BackupOK, SessOK, LateOK, TableOK, RestOK, config, throttle
-----------------------------------------------------------------------------
(* Every step keeps the invariant.                                         *)

LEMMA KeysOfTheThrottle ==
  /\ UserPw \in Keys /\ UserCode \in Keys
  /\ \A n \in Names : Pw(n) \in Keys /\ Code(n) \in Keys
  BY DEF Keys

LEMMA SignKeeps ==
  ASSUME AdminInv, NEW b \in Browsers, SignNext(b)
  PROVE  AdminInv'
<1> USE DEF config, throttle
<1>1. ConfigOK /\ BackupOK /\ SessOK /\ LateOK /\ TableOK /\ RestOK
  BY Parts
<1>2. /\ \A n \in DOMAIN admins : n \in Names /\ admins[n] \in Accounts /\ admins[n].id \in Ids
      /\ user # None => user.id \in Ids
  BY <1>1 DEF ConfigOK, Accounts, Users
<1>3. ASSUME NEW n \in Names, SetUp(b, n)
      PROVE  AdminInv'
  <2>1. FreshId \in Ids /\ DOMAIN admins = {} /\ newAdmin(FreshId, FALSE) \in Accounts
    BY <1>3, FreshIdIsNew, NewAccounts DEF SetUp, needsSetup
  <2>2. ConfigOK'
    BY <1>1, <1>3, <2>1, AccountIsPut, UserAndPolicyStay DEF SetUp
  <2>3. SessOK'
    BY <1>1, <1>3, <2>1, SessionsStart DEF SetUp
  <2> QED
    BY <1>1, <1>3, <2>2, <2>3, Parts, Unchanged DEF SetUp
<1>4. ASSUME NEW n \in Names, Login(b, n)
      PROVE  AdminInv'
  <2>1. SessOK'
    BY <1>1, <1>2, <1>4, SessionsStart DEF Login
  <2>2. TableOK'
    BY <1>1, <1>4, KeysOfTheThrottle, TableSteps DEF Login
  <2> QED
    BY <1>1, <1>4, <2>1, <2>2, Parts, Unchanged DEF Login
<1>5. CASE LoginTotp(b)
  <2>1. NameOf(sess[b].pending) \in Names /\ sess[b].pending \in Ids
    BY <1>2, <1>5, NamesOfIds DEF LoginTotp, PendingAdmin
  <2>2. SessOK'
    BY <1>1, <1>5, <2>1, SessionsStart DEF LoginTotp
  <2>3. TableOK'
    BY <1>1, <1>5, <2>1, KeysOfTheThrottle, TableSteps DEF LoginTotp
  <2> QED
    BY <1>1, <1>5, <2>2, <2>3, Parts, Unchanged DEF LoginTotp
<1>6. CASE LoginTotpStale(b)
  <2>1. sess[b].pending \in Ids
    BY <1>1, <1>6 DEF SessOK, SessionSet, LoginTotpStale
  <2>2. SessOK'
    BY <1>1, <1>6, <2>1, SessionsStart DEF LoginTotpStale
  <2> QED
    BY <1>1, <1>6, <2>2, Parts, Unchanged DEF LoginTotpStale
<1>7. CASE Logout(b)
  <2>1. SessOK'
    BY <1>1, <1>7, BlankSession, SessionIsSet DEF Logout
  <2> QED
    BY <1>1, <1>7, <2>1, Parts, Unchanged DEF Logout
<1>8. CASE TermLogin(b)
  <2>1. SessOK'
    BY <1>1, <1>2, <1>8, SessionsStart DEF TermLogin
  <2>2. TableOK'
    BY <1>1, <1>8, KeysOfTheThrottle, TableSteps DEF TermLogin
  <2> QED
    BY <1>1, <1>8, <2>1, <2>2, Parts, Unchanged DEF TermLogin
<1>9. CASE TermLoginTotp(b)
  <2>1. SessOK'
    BY <1>1, <1>2, <1>9, SessionsStart DEF TermLoginTotp, PendingUser
  <2>2. TableOK'
    BY <1>1, <1>9, KeysOfTheThrottle, TableSteps DEF TermLoginTotp
  <2> QED
    BY <1>1, <1>9, <2>1, <2>2, Parts, Unchanged DEF TermLoginTotp
<1>10. CASE TermLoginTotpStale(b)
  <2>1. sess[b].pendingConsole \in Ids
    BY <1>1, <1>10 DEF SessOK, SessionSet, TermLoginTotpStale
  <2>2. SessOK'
    BY <1>1, <1>10, <2>1, SessionsStart DEF TermLoginTotpStale
  <2> QED
    BY <1>1, <1>10, <2>2, Parts, Unchanged DEF TermLoginTotpStale
<1>11. CASE TermLogout(b)
  <2>1. sess[b].console \in Ids \/ sess[b].pendingConsole \in Ids
    BY <1>1, <1>11 DEF SessOK, SessionSet, TermLogout
  <2>2. SessOK'
    BY <1>1, <1>11, <2>1, SessionsStart DEF TermLogout
  <2> QED
    BY <1>1, <1>11, <2>2, Parts, Unchanged DEF TermLogout
<1> QED
  BY <1>3, <1>4, <1>5, <1>6, <1>7, <1>8, <1>9, <1>10, <1>11, Zenon DEF SignNext

\* One's own account is there, and a change of its marks leaves it its id.
LEMMA OwnAccountIsSet ==
  ASSUME ConfigOK, SessOK, NEW b \in Browsers, Own(b), NEW a \in Accounts,
         a.id = admins[Me(b)].id, SetMine(b, a)
  PROVE  ConfigOK' /\ SessOK'
<1>1. Me(b) \in DOMAIN admins /\ Me(b) \in Names
  BY NamesOfIds DEF Own, Me, ConfigOK
<1>2. \A m \in DOMAIN admins : admins[m].id = a.id => m = Me(b)
  BY <1>1 DEF ConfigOK, NoIdTwice
<1>3. Account(Me(b), a) /\ Keep(b) /\ UNCHANGED <<user, requireTotp>>
  BY Zenon DEF SetMine
<1> QED
  BY <1>1, <1>2, <1>3, AccountIsPut, UserAndPolicyStay, SessionIsKept

LEMMA ChangedAccounts ==
  ASSUME NEW a \in Accounts
  PROVE  /\ [a EXCEPT !.must = FALSE] \in Accounts /\ [a EXCEPT !.must = FALSE].id = a.id
         /\ [a EXCEPT !.pend = TRUE] \in Accounts /\ [a EXCEPT !.pend = TRUE].id = a.id
         /\ \A t \in BOOLEAN :
              /\ [a EXCEPT !.totp = t, !.pend = FALSE] \in Accounts
              /\ [a EXCEPT !.totp = t, !.pend = FALSE].id = a.id
  BY DEF Accounts

LEMMA OwnKeeps ==
  ASSUME AdminInv, NEW b \in Browsers,
         ChangePassword(b) \/ TotpSetup(b) \/ TotpConfirm(b) \/ TotpDisable(b)
  PROVE  AdminInv'
<1> USE DEF throttle
<1>1. ConfigOK /\ BackupOK /\ SessOK /\ LateOK /\ TableOK /\ RestOK
  BY Parts
<1>2. Own(b)
  BY Zenon DEF ChangePassword, TotpSetup, TotpConfirm, TotpDisable
<1>3. admins[Me(b)] \in Accounts
  BY <1>1, <1>2, NamesOfIds DEF Own, Me, ConfigOK
<1>4. CASE ChangePassword(b)
  BY <1>1, <1>2, <1>3, <1>4, ChangedAccounts, OwnAccountIsSet, Parts, Unchanged DEF ChangePassword
<1>5. CASE TotpSetup(b)
  <2>1. ConfigOK' /\ SessOK'
    BY <1>1, <1>2, <1>3, <1>5, ChangedAccounts, OwnAccountIsSet DEF TotpSetup
  <2>2. RestOK'
    BY <1>1, <1>5, EventStep, Unchanged DEF TotpSetup
  <2> QED
    BY <1>1, <1>5, <2>1, <2>2, Parts, Unchanged DEF TotpSetup
<1>6. CASE TotpConfirm(b)
  BY <1>1, <1>2, <1>3, <1>6, ChangedAccounts, OwnAccountIsSet, Parts, Unchanged DEF TotpConfirm
<1>7. CASE TotpDisable(b)
  <2>1. ConfigOK' /\ SessOK'
    BY <1>1, <1>2, <1>3, <1>7, ChangedAccounts, OwnAccountIsSet DEF TotpDisable
  <2>2. RestOK'
    BY <1>1, <1>7, EventStep DEF TotpDisable
  <2> QED
    BY <1>1, <1>7, <2>1, <2>2, Parts, Unchanged DEF TotpDisable
<1> QED
  BY <1>4, <1>5, <1>6, <1>7

\* What a route behind the full gate leaves when it has changed the configuration.
LEMMA Settled ==
  ASSUME AdminInv, NEW b \in Browsers, ConfigOK', Settle(b)
  PROVE  AdminInv'
<1>1. ConfigOK /\ BackupOK /\ SessOK /\ LateOK /\ TableOK /\ RestOK
  BY Parts
<1>2. Keep(b) /\ Event /\ UNCHANGED <<backup, late, away, throttle>>
  BY Zenon DEF Settle
<1> QED
  BY <1>1, <1>2, Parts, Unchanged, SessionIsKept, EventStep

LEMMA AccountsKeep ==
  ASSUME AdminInv, NEW b \in Browsers, NEW m \in Names, NEW n \in Names,
         \/ CreateAdmin(b, n) \/ ResetPassword(b, n) \/ DeleteAdmin(b, n) \/ RenameAdmin(b, m, n)
  PROVE  AdminInv'
<1>1. ConfigOK
  BY Parts
<1>2. CASE CreateAdmin(b, n)
  <2>1. /\ FreshId \in Ids /\ newAdmin(FreshId, FALSE) \in Accounts
        /\ newAdmin(FreshId, FALSE).id \notin Remembered
    BY <1>2, FreshIdIsNew, NewAccounts DEF CreateAdmin
  <2>2. ConfigOK'
    BY <1>1, <1>2, <2>1, AccountIsPut, AllAreRemembered, UserAndPolicyStay DEF CreateAdmin
  <2> QED
    BY <1>2, <2>2, Settled DEF CreateAdmin
<1>3. CASE ResetPassword(b, n)
  <2>1. n \in DOMAIN admins /\ admins[n] \in Accounts
    BY <1>1, <1>3 DEF ResetPassword, ConfigOK
  <2> DEFINE a == [admins[n] EXCEPT !.must = FALSE]
  <2>2. a \in Accounts /\ a.id = admins[n].id
    BY <2>1, ChangedAccounts
  <2>3. Account(n, a) /\ UNCHANGED <<user, requireTotp>>
    BY <1>3, Zenon DEF ResetPassword
  <2> HIDE DEF a
  <2>4. \A x \in DOMAIN admins : admins[x].id = a.id => x = n
    BY <1>1, <2>1, <2>2 DEF ConfigOK, NoIdTwice
  <2>5. ConfigOK'
    BY <1>1, <2>2, <2>3, <2>4, AccountIsPut, UserAndPolicyStay
  <2> QED
    BY <1>3, <2>5, Settled DEF ResetPassword
<1>4. CASE DeleteAdmin(b, n)
  <2>1. ConfigOK'
    BY <1>1, <1>4, UserAndPolicyStay DEF DeleteAdmin, ConfigOK, NoIdTwice
  <2> QED
    BY <1>4, <2>1, Settled DEF DeleteAdmin
<1>5. CASE RenameAdmin(b, m, n)
  <2>1. ConfigOK'
    BY <1>1, <1>5, UserAndPolicyStay DEF RenameAdmin, ConfigOK, NoIdTwice
  <2> QED
    BY <1>5, <2>1, Settled DEF RenameAdmin
<1> QED
  BY <1>2, <1>3, <1>4, <1>5, Zenon

LEMMA UsersKeep ==
  ASSUME AdminInv, NEW b \in Browsers,
         \/ \E permission \in Permissions : SaveUser(b, permission)
         \/ DeleteUser(b) \/ UserTotpSetup(b) \/ UserTotpConfirm(b) \/ UserTotpDisable(b)
  PROVE  AdminInv'
<1>1. ConfigOK
  BY Parts
<1>2. ASSUME NEW u, SetUser(b, u), u = None \/ u \in Users
      PROVE  AdminInv'
  <2>1. ConfigOK'
    BY <1>1, <1>2 DEF SetUser, ConfigOK
  <2> QED
    BY <1>2, <2>1, Settled DEF SetUser
<1>3. user # None => user \in Users
  BY <1>1 DEF ConfigOK
<1>4. ASSUME NEW permission \in Permissions, SaveUser(b, permission)
      PROVE  AdminInv'
  <2> DEFINE id == IF user = None THEN FreshId ELSE user.id
  <2>1. id \in Ids
    BY <1>3, <1>4, FreshIdIsNew DEF SaveUser, Users
  <2>2. newUser(id, permission) \in Users
    BY <2>1 DEF newUser, Users
  <2>3. SetUser(b, newUser(id, permission))
    BY <1>4 DEF SaveUser
  <2> QED
    BY <1>2, <2>2, <2>3
<1>5. CASE DeleteUser(b)
  BY <1>2, <1>5 DEF DeleteUser
<1>6. CASE UserTotpSetup(b)
  <2>1. [user EXCEPT !.pend = TRUE] \in Users
    BY <1>3, <1>6 DEF UserTotpSetup, Users
  <2> QED
    BY <1>2, <1>6, <2>1 DEF UserTotpSetup
<1>7. CASE UserTotpConfirm(b)
  <2>1. [user EXCEPT !.totp = TRUE, !.pend = FALSE] \in Users
    BY <1>3, <1>7 DEF UserTotpConfirm, Users
  <2> QED
    BY <1>2, <1>7, <2>1 DEF UserTotpConfirm
<1>8. CASE UserTotpDisable(b)
  <2>1. [user EXCEPT !.totp = FALSE, !.pend = FALSE] \in Users
    BY <1>3, <1>8 DEF UserTotpDisable, Users
  <2> QED
    BY <1>2, <1>8, <2>1 DEF UserTotpDisable
<1> QED
  BY <1>4, <1>5, <1>6, <1>7, <1>8, Zenon

\* importConfig(): a backup is a configuration like any other.
LEMMA ImportKeeps ==
  ASSUME BackupOK, importConfig
  PROVE  ConfigOK'
  BY DEF BackupOK, importConfig, ConfigOK, IsConfig, NoIdTwice

LEMMA PageKeeps ==
  ASSUME AdminInv, NEW b \in Browsers, PageNext(b)
  PROVE  AdminInv'
<1> USE DEF config, throttle
<1>1. ConfigOK /\ BackupOK /\ SessOK /\ LateOK /\ TableOK /\ RestOK
  BY Parts
<1>2. sess[b] \in SessionSet /\ IsOne(sess[b])
  BY <1>1 DEF SessOK
<1>3. CASE Poll(b)
  <2>1. SessOK'
    BY <1>1, <1>2, <1>3, SessionSteps, SessionIsSet DEF Poll
  <2> QED
    BY <1>1, <1>3, <2>1, Parts, Unchanged DEF Poll
<1>4. CASE Touch(b)
  <2>1. SessOK'
    BY <1>1, <1>2, <1>4, SessionSteps, SessionIsSet DEF Touch
  <2> QED
    BY <1>1, <1>4, <2>1, Parts, Unchanged DEF Touch
<1>5. CASE WalkAway(b)
  <2>1. RestOK'
    BY <1>1, <1>5, AdminAssumption DEF WalkAway, Event, RestOK
  <2> QED
    BY <1>1, <1>5, <2>1, Parts, Unchanged DEF WalkAway
<1>6. ASSUME NEW totp \in BOOLEAN, SetPolicy(b, totp)
      PROVE  AdminInv'
  <2>1. ConfigOK'
    BY <1>1, <1>6 DEF SetPolicy, ConfigOK
  <2> QED
    BY <1>6, <2>1, Settled DEF SetPolicy
<1>7. CASE FactoryReset(b)
  <2>1. newAdmin(FreshId, TRUE) \in Accounts
    BY <1>7, FreshIdIsNew, NewAccounts DEF FactoryReset
  <2>2. ConfigOK'
    BY <1>7, <2>1, AdminAssumption DEF FactoryReset, ConfigOK, NoIdTwice
  <2>3. SessOK' /\ RestOK'
    BY <1>1, <1>7, SessionIsKept, EventStep DEF FactoryReset
  <2> QED
    BY <1>1, <1>7, <2>2, <2>3, Parts, Unchanged DEF FactoryReset
<1>8. ASSUME NEW todo \in {"nothing", "restore"}, LateBegins(b, todo)
      PROVE  AdminInv'
  <2>1. LateOK'
    BY <1>1, <1>2, <1>8, SessionSteps DEF LateBegins, LateOK
  <2>2. RestOK'
    BY <1>1, <1>8, EventStep DEF LateBegins
  <2> QED
    BY <1>1, <1>8, <2>1, <2>2, Parts, Unchanged DEF LateBegins
<1>9. CASE RestoreUploaded(b)
  <2>1. ConfigOK'
    BY <1>1, <1>9, ImportKeeps DEF RestoreUploaded
  <2>2. LateOK'
    BY <1>1, <1>9 DEF RestoreUploaded, LateOK, IsOne
  <2> QED
    BY <1>1, <1>9, <2>1, <2>2, Parts, Unchanged DEF RestoreUploaded
<1>10. CASE LateEnds(b)
  <2>1. SessOK'
    BY <1>1, <1>10, SessionIsSet DEF LateEnds, LateOK
  <2>2. LateOK'
    BY <1>10, BlankSession DEF LateEnds, LateOK, NotLate
  <2> QED
    BY <1>1, <1>10, <2>1, <2>2, Parts, Unchanged DEF LateEnds
<1> QED
  BY <1>3, <1>4, <1>5, <1>6, <1>7, <1>8, <1>9, <1>10, OwnKeeps, AccountsKeep, UsersKeep, Zenon
     DEF PageNext

\* The hub's commands, a restart, the clock and wrong guesses.
LEMMA OthersKeep ==
  ASSUME AdminInv,
         \/ TakeBackup \/ HubRestores \/ SyncUsers \/ Restart \/ Tick
         \/ \E S \in SUBSET Names : SyncAdmins(S)
         \/ \E k \in Keys : Rejected(k)
  PROVE  AdminInv'
<1> USE DEF config, throttle
<1>1. ConfigOK /\ BackupOK /\ SessOK /\ LateOK /\ TableOK /\ RestOK
  BY Parts
<1>2. CASE TakeBackup
  <2>1. BackupOK'
    BY <1>1, <1>2 DEF TakeBackup, ConfigOK, BackupOK, IsConfig, NoIdTwice
  <2>2. RestOK'
    BY <1>1, <1>2, EventStep DEF TakeBackup
  <2> QED
    BY <1>1, <1>2, <2>1, <2>2, Parts, Unchanged DEF TakeBackup
<1>3. CASE HubRestores
  <2>1. ConfigOK' /\ RestOK'
    BY <1>1, <1>3, ImportKeeps, EventStep DEF HubRestores
  <2> QED
    BY <1>1, <1>3, <2>1, Parts, Unchanged DEF HubRestores
<1>4. CASE SyncUsers
  <2>1. newUser(FreshId, "read-write") \in Users
    BY <1>4, FreshIdIsNew DEF SyncUsers, newUser, Users, Permissions
  <2>2. ConfigOK' /\ RestOK'
    BY <1>1, <1>4, <2>1, EventStep DEF SyncUsers, ConfigOK
  <2> QED
    BY <1>1, <1>4, <2>2, Parts, Unchanged DEF SyncUsers
<1>5. CASE Restart
  <2>1. SessOK' /\ LateOK'
    BY <1>5, BlankSession DEF Restart, SessOK, LateOK, NotLate
  <2>2. TableOK'
    BY <1>1, <1>5 DEF Restart, TableOK, NoRecord, Records
  <2>3. RestOK'
    BY <1>1, <1>5, EventStep DEF Restart
  <2> QED
    BY <1>1, <1>5, <2>1, <2>2, <2>3, Parts, Unchanged DEF Restart
<1>6. CASE Tick
  <2>1. SessOK'
    BY <1>1, <1>6, SessionSteps DEF Tick, SessOK
  <2>2. late.session \in SessionSet /\ IsOne(late.session)
    BY <1>1 DEF LateOK
  <2>3. LateOK'
    BY <1>1, <1>6, <2>2, SessionSteps DEF Tick, LateOK
  <2>4. \A k \in Keys : attempts[k] \in Records
    BY <1>1 DEF TableOK
  <2>5. ASSUME NEW r \in Records
        PROVE  [r EXCEPT !.age = @ + 1, !.lock = IF @ = 0 THEN 0 ELSE @ - 1] \in Records
    <3>1. r.age + 1 \in Nat /\ (IF r.lock = 0 THEN 0 ELSE r.lock - 1) \in Nat
      BY DEF Records
    <3>2. \A x, y \in Nat : [r EXCEPT !.age = x, !.lock = y] \in Records
      BY DEF Records
    <3> QED
      BY <3>1, <3>2
  <2>6. Elapsed(attempts) \in [Keys -> Records]
    BY <1>1, <2>4, <2>5 DEF Elapsed, TableOK
  <2>7. LOCKOUT \in Nat
    BY ThrottleAssumption
  <2>8. recent' \in [Keys -> SUBSET Failures]
    <3>1. \A k \in Keys :
            {<<f[1], f[2] + 1>> : f \in {g \in recent[k] : g[2] < LOCKOUT - 1}} \subseteq Failures
      BY <1>1, <2>7 DEF TableOK, Failures
    <3>2. recent' = [k \in Keys |-> {<<f[1], f[2] + 1>> : f \in {g \in recent[k] : g[2] < LOCKOUT - 1}}]
      BY <1>6 DEF Tick
    <3> QED
      BY <3>1, <3>2
  <2>9. TableOK'
    BY <1>1, <1>6, <2>6, <2>8 DEF Tick, TableOK
  <2> QED
    BY <1>1, <1>6, <2>1, <2>3, <2>9, Parts, Unchanged DEF Tick
<1>7. ASSUME NEW S \in SUBSET Names, SyncAdmins(S)
      PROVE  AdminInv'
  <2> DEFINE new == FreshIds(S)
  <2>1. new \in [S -> Ids \ Remembered] /\ \A x, y \in S : new[x] = new[y] => x = y
    BY <1>7, FreshIdsAreNew DEF SyncAdmins
  <2>2. admins' = [n \in S |-> newAdmin(new[n], FALSE)]
    BY <1>7 DEF SyncAdmins, replaceAdmins
  <2> HIDE DEF new
  <2>3. DOMAIN admins' = S /\ admins' \in [S -> Accounts] /\ \A n \in S : admins'[n].id = new[n]
    BY <2>1, <2>2, NewAccounts
  <2>4. ConfigOK'
    BY <1>1, <1>7, <2>1, <2>3, UserAndPolicyStay DEF SyncAdmins, NoIdTwice
  <2>5. RestOK'
    BY <1>1, <1>7, EventStep DEF SyncAdmins
  <2> QED
    BY <1>1, <1>7, <2>4, <2>5, Parts, Unchanged DEF SyncAdmins
<1>8. ASSUME NEW k \in Keys, Rejected(k)
      PROVE  AdminInv'
  BY <1>1, <1>8, TableSteps, Parts, Unchanged DEF Rejected
<1> QED
  BY <1>2, <1>3, <1>4, <1>5, <1>6, <1>7, <1>8, Zenon

\* From whatever configuration the box starts with, as long as it is one.
LEMMA StartsInOrder == AdminInit => AdminInv
<1> SUFFICES ASSUME AdminInit PROVE AdminInv
  OBVIOUS
<1>1. ConfigOK /\ BackupOK
  BY AdminAssumption DEF AdminInit, ConfigOK, BackupOK, IsConfig
<1>2. SessOK /\ LateOK
  BY BlankSession DEF AdminInit, SessOK, LateOK, NotLate
<1>3. TableOK /\ RestOK
  BY AdminAssumption DEF AdminInit, TableOK, RestOK, NoRecord, Records
<1> QED
  BY <1>1, <1>2, <1>3, Parts

LEMMA StepKeeps ==
  ASSUME AdminInv, [TimedNext]_adminVars
  PROVE  AdminInv'
<1>1. CASE TimedNext
  BY <1>1, SignKeeps, PageKeeps, OthersKeep, Zenon DEF TimedNext, AdminNext
<1>2. CASE UNCHANGED adminVars
  BY <1>2, Parts, Unchanged DEF adminVars
<1> QED
  BY <1>1, <1>2

\* AdminSpec is the part of TimedSpec in which no time passes.
LEMMA TimedToo == AdminSpec => TimedSpec
<1>1. [AdminNext]_adminVars => [TimedNext]_adminVars
  BY Zenon DEF TimedNext
<1> QED
  BY <1>1, PTL DEF AdminSpec, TimedSpec
\* The accounts, sessions and tables of every configuration the box may start with, of
\* backups and of the running system are well formed, no two accounts share an id, and no
\* session is both an administrator's and a console user's (AdminInv).
THEOREM AccountsStayInOrder == TimedSpec => []AdminInv
<1>1. AdminInv /\ [TimedNext]_adminVars => AdminInv'
  BY StepKeeps
<1> QED
  BY StartsInOrder, <1>1, PTL DEF TimedSpec

-----------------------------------------------------------------------------
(* Somebody remains.                                                       *)

LEMMA AccountsAfterAPage ==
  ASSUME AdminInv, NEW b \in Browsers, PageNext(b)
  PROVE  UNCHANGED admins \/ DOMAIN admins' # {} \/ importConfig
<1>1. ASSUME NEW n, NEW a, Account(n, a)
      PROVE  DOMAIN admins' # {}
  BY <1>1 DEF Account
<1>2. CASE Poll(b) \/ Touch(b) \/ WalkAway(b)
  BY <1>2 DEF Poll, Touch, WalkAway, config
<1>3. CASE ChangePassword(b) \/ TotpSetup(b) \/ TotpConfirm(b) \/ TotpDisable(b)
  BY <1>1, <1>3, Zenon DEF ChangePassword, TotpSetup, TotpConfirm, TotpDisable, SetMine
<1>4. ASSUME NEW n \in Names, CreateAdmin(b, n) \/ ResetPassword(b, n)
      PROVE  DOMAIN admins' # {}
  BY <1>1, <1>4, Zenon DEF CreateAdmin, ResetPassword
<1>5. ASSUME NEW n \in Names, DeleteAdmin(b, n)
      PROVE  DOMAIN admins' # {}
  <2>1. Known(sess[b].admin)
    BY <1>5 DEF DeleteAdmin, Full, HasFullAccess
  <2>2. Me(b) \in DOMAIN admins
    BY <2>1, NamesOfIds DEF Me
  <2> QED
    BY <1>5, <2>2 DEF DeleteAdmin
<1>6. ASSUME NEW m \in Names, NEW n \in Names, RenameAdmin(b, m, n)
      PROVE  DOMAIN admins' # {}
  BY <1>6 DEF RenameAdmin
<1>7. ASSUME NEW totp \in BOOLEAN, SetPolicy(b, totp)
      PROVE  UNCHANGED admins
  BY <1>7 DEF SetPolicy
<1>8. CASE \/ \E permission \in Permissions : SaveUser(b, permission)
           \/ DeleteUser(b) \/ UserTotpSetup(b) \/ UserTotpConfirm(b) \/ UserTotpDisable(b)
  BY <1>8, Zenon DEF SaveUser, DeleteUser, UserTotpSetup, UserTotpConfirm, UserTotpDisable, SetUser
<1>9. CASE FactoryReset(b)
  BY <1>9 DEF FactoryReset
<1>10. ASSUME NEW todo \in {"nothing", "restore"}, LateBegins(b, todo)
       PROVE  UNCHANGED admins
  BY <1>10 DEF LateBegins, config
<1>11. CASE RestoreUploaded(b) \/ LateEnds(b)
  BY <1>11 DEF RestoreUploaded, LateEnds, config
<1> QED
  BY <1>2, <1>3, <1>4, <1>5, <1>6, <1>7, <1>8, <1>9, <1>10, <1>11, Zenon DEF PageNext

LEMMA AccountsAfter ==
  ASSUME AdminInv, TimedNext
  PROVE  UNCHANGED admins \/ DOMAIN admins' # {} \/ importConfig
<1>1. ASSUME NEW b \in Browsers, SignNext(b)
      PROVE  UNCHANGED admins \/ DOMAIN admins' # {}
  <2>1. ASSUME NEW n \in Names, SetUp(b, n)
        PROVE  DOMAIN admins' # {}
    BY <2>1 DEF SetUp, Account
  <2>2. ASSUME NEW n \in Names, Login(b, n)
        PROVE  UNCHANGED admins
    BY <2>2 DEF Login, config
  <2>3. CASE LoginTotp(b) \/ LoginTotpStale(b) \/ Logout(b)
    BY <2>3 DEF LoginTotp, LoginTotpStale, Logout, config
  <2>4. CASE TermLogin(b) \/ TermLoginTotp(b) \/ TermLoginTotpStale(b) \/ TermLogout(b)
    BY <2>4 DEF TermLogin, TermLoginTotp, TermLoginTotpStale, TermLogout, config
  <2> QED
    BY <1>1, <2>1, <2>2, <2>3, <2>4, Zenon DEF SignNext
<1>2. ASSUME NEW S \in SUBSET Names, SyncAdmins(S)
      PROVE  DOMAIN admins' # {}
  BY <1>2 DEF SyncAdmins, replaceAdmins
<1>3. CASE TakeBackup \/ HubRestores \/ SyncUsers \/ Restart \/ Tick
  BY <1>3 DEF TakeBackup, HubRestores, SyncUsers, Restart, Tick, config
<1>4. ASSUME NEW k \in Keys, Rejected(k)
      PROVE  UNCHANGED admins
  BY <1>4 DEF Rejected, config
<1> QED
  BY <1>1, <1>2, <1>3, <1>4, AccountsAfterAPage, Zenon DEF TimedNext, AdminNext

\* Whatever administrators and the hub delete, replace or reset, an account remains, unless
\* a backup is restored that has none (AdminsRemain): who deletes one has one himself, and
\* the hub's list is not taken when it is empty.
THEOREM SomebodyRemains == TimedSpec => AdminsRemain
<1>1. AdminInv /\ [TimedNext]_adminVars
        => [~needsSetup /\ needsSetup' => backup # None /\ DOMAIN backup.admins = {}]_adminVars
  <2> SUFFICES ASSUME AdminInv, TimedNext, ~needsSetup, needsSetup'
               PROVE  backup # None /\ DOMAIN backup.admins = {}
    BY Zenon
  <2>1. importConfig
    BY AccountsAfter DEF needsSetup
  <2> QED
    BY <2>1 DEF importConfig, needsSetup
<1> QED
  BY AccountsStayInOrder, <1>1, PTL DEF TimedSpec, AdminsRemain

-----------------------------------------------------------------------------
(* The second factor.                                                      *)

\* Nobody signs in by this step: sessions keep their administrator, or lose it.
NobodyNew == \A b \in Browsers : sess'[b].admin \in {None, sess[b].admin}

LEMMA NobodyNewHere ==
  ASSUME SessOK, NEW b \in Browsers, NEW s \in SessionSet, s.admin \in {None, sess[b].admin},
         sess' = [sess EXCEPT ![b] = s]
  PROVE  NobodyNew
  BY DEF SessOK, NobodyNew

LEMMA AdminsOfSessions ==
  ASSUME NEW s \in SessionSet
  PROVE  /\ Touched(s).admin = s.admin /\ SeenOnly(s).admin = s.admin
         /\ clearAdminAuth(s).admin = None /\ Older(s).admin = s.admin
         /\ Blank.admin = None
  BY DEF SessionSet, Touched, SeenOnly, clearAdminAuth, Older, Blank

LEMMA PagesLetNobodyIn ==
  ASSUME AdminInv, NEW b \in Browsers, PageNext(b), ~LateEnds(b)
  PROVE  NobodyNew
<1>1. SessOK /\ sess[b] \in SessionSet /\ IsOne(sess[b])
  BY Parts DEF SessOK
<1>2. CASE UNCHANGED sess
  BY <1>2 DEF NobodyNew
<1>3. CASE Keep(b)
  BY <1>1, <1>3, AdminsOfSessions, SessionSteps, NobodyNewHere DEF Keep
<1>4. CASE Poll(b)
  BY <1>1, <1>4, AdminsOfSessions, SessionSteps, NobodyNewHere DEF Poll
<1>5. CASE Touch(b)
  BY <1>1, <1>5, AdminsOfSessions, SessionSteps, NobodyNewHere DEF Touch
<1>6. CASE WalkAway(b) \/ RestoreUploaded(b) \/ \E todo \in {"nothing", "restore"} : LateBegins(b, todo)
  BY <1>2, <1>6, Zenon DEF WalkAway, RestoreUploaded, LateBegins
<1>7. CASE \/ ChangePassword(b) \/ TotpSetup(b) \/ TotpConfirm(b) \/ TotpDisable(b) \/ FactoryReset(b)
  BY <1>3, <1>7, Zenon DEF ChangePassword, TotpSetup, TotpConfirm, TotpDisable, SetMine, FactoryReset
<1>8. CASE \/ \E n \in Names : CreateAdmin(b, n) \/ ResetPassword(b, n) \/ DeleteAdmin(b, n)
           \/ \E m, n \in Names : RenameAdmin(b, m, n)
           \/ \E totp \in BOOLEAN : SetPolicy(b, totp)
  BY <1>3, <1>8, Zenon DEF CreateAdmin, ResetPassword, DeleteAdmin, RenameAdmin, SetPolicy, Settle
<1>9. CASE \/ \E permission \in Permissions : SaveUser(b, permission)
           \/ DeleteUser(b) \/ UserTotpSetup(b) \/ UserTotpConfirm(b) \/ UserTotpDisable(b)
  BY <1>3, <1>9, Zenon DEF SaveUser, DeleteUser, UserTotpSetup, UserTotpConfirm, UserTotpDisable,
     SetUser, Settle
<1> QED
  BY <1>4, <1>5, <1>6, <1>7, <1>8, <1>9, Zenon DEF PageNext

\* A session comes in with its password given before, with an account that wants no code, or
\* as the copy that a late request saves.
ComesIn(b) ==
  LET id == sess'[b].admin
  IN  id \notin {None, sess[b].admin} =>
        \/ sess[b].pending = id \/ (late.of = b /\ late.session.admin = id)
        \/ \A n \in DOMAIN admins : admins[n].id = id => ~admins[n].totp

LEMMA SignsIn ==
  ASSUME AdminInv, NEW b \in Browsers, SignNext(b), NEW c \in Browsers
  PROVE  ComesIn(c)
<1>1. ConfigOK /\ SessOK /\ sess \in [Browsers -> SessionSet]
  BY Parts DEF SessOK
<1>2. CASE NobodyNew
  BY <1>2 DEF NobodyNew, ComesIn
<1>3. ASSUME NEW id, loginSession(b, "admin", id)
      PROVE  sess'[b].admin = id /\ \A x \in Browsers : x # b => sess'[x] = sess[x]
  BY <1>1, <1>3 DEF loginSession, Blank
<1>4. ASSUME NEW n \in Names, SetUp(b, n)
      PROVE  ComesIn(c)
  BY <1>3, <1>4 DEF SetUp, needsSetup, ComesIn
<1>5. ASSUME NEW n \in Names, Login(b, n)
      PROVE  ComesIn(c)
  <2>1. CASE admins[n].totp
    <3>1. sess' = [sess EXCEPT ![b].pending = admins[n].id]
      BY <1>5, <2>1 DEF Login
    <3>2. NobodyNew
      BY <1>1, <3>1 DEF NobodyNew, SessionSet
    <3> QED
      BY <1>2, <3>2
  <2>2. CASE ~admins[n].totp
    <3>1. loginSession(b, "admin", admins[n].id) /\ n \in DOMAIN admins
      BY <1>5, <2>2 DEF Login
    <3>2. \A m \in DOMAIN admins : admins[m].id = admins[n].id => ~admins[m].totp
      BY <1>1, <2>2, <3>1 DEF ConfigOK, NoIdTwice
    <3> QED
      BY <1>3, <3>1, <3>2 DEF ComesIn
  <2> QED
    BY <2>1, <2>2
<1>6. CASE LoginTotp(b)
  BY <1>3, <1>6 DEF LoginTotp, ComesIn
<1>7. CASE LoginTotpStale(b) \/ TermLoginTotpStale(b) \/ TermLogout(b)
  <2>1. NobodyNew
    BY <1>1, <1>7 DEF LoginTotpStale, TermLoginTotpStale, TermLogout, NobodyNew, SessionSet
  <2> QED
    BY <1>2, <2>1
<1>8. CASE Logout(b)
  <2>1. NobodyNew
    BY <1>1, <1>8, AdminsOfSessions, BlankSession, NobodyNewHere DEF Logout
  <2> QED
    BY <1>2, <2>1
<1>9. CASE TermLogin(b) \/ TermLoginTotp(b)
  <2>1. ASSUME NEW id, loginSession(b, "console", id)
        PROVE  NobodyNew
    BY <1>1, <2>1 DEF loginSession, Blank, NobodyNew
  <2>2. sess' = [sess EXCEPT ![b].pendingConsole = user.id] => NobodyNew
    BY <1>1 DEF NobodyNew, SessionSet
  <2> QED
    BY <1>2, <1>9, <2>1, <2>2 DEF TermLogin, TermLoginTotp
<1> QED
  BY <1>4, <1>5, <1>6, <1>7, <1>8, <1>9, Zenon DEF SignNext

LEMMA OthersLetNobodyIn ==
  ASSUME AdminInv,
         \/ TakeBackup \/ HubRestores \/ SyncUsers \/ Restart \/ Tick
         \/ \E S \in SUBSET Names : SyncAdmins(S)
         \/ \E k \in Keys : Rejected(k)
  PROVE  NobodyNew
<1>1. sess \in [Browsers -> SessionSet]
  BY Parts DEF SessOK
<1>2. CASE Restart
  BY <1>2 DEF Restart, NobodyNew, Blank
<1>3. CASE Tick
  BY <1>1, <1>3, AdminsOfSessions DEF Tick, NobodyNew
<1>4. CASE UNCHANGED sess
  BY <1>4 DEF NobodyNew
<1> QED
  BY <1>2, <1>3, <1>4, Zenon DEF TakeBackup, HubRestores, SyncUsers, SyncAdmins, Rejected

\* With a second factor nobody comes in by the password alone (NobodySkipsTheCode).
THEOREM CodeIsAsked == TimedSpec => NobodySkipsTheCode
<1>1. AdminInv /\ [TimedNext]_adminVars => [\A b \in Browsers : ComesIn(b)]_adminVars
  <2> SUFFICES ASSUME AdminInv, TimedNext, NEW b \in Browsers
               PROVE  ComesIn(b)
    BY Zenon
  <2>1. NobodyNew => ComesIn(b)
    BY DEF NobodyNew, ComesIn
  <2>2. ASSUME NEW c \in Browsers, LateEnds(c)
        PROVE  ComesIn(b)
    BY <2>2, Parts DEF LateEnds, SessOK, ComesIn
  <2>3. ASSUME NEW c \in Browsers, PageNext(c)
        PROVE  ComesIn(b)
    BY <2>1, <2>2, <2>3, PagesLetNobodyIn
  <2> QED
    BY <2>1, <2>3, SignsIn, OthersLetNobodyIn, Zenon DEF TimedNext, AdminNext
<1>2. AdminInv /\ [TimedNext]_adminVars =>
        [\A b \in Browsers :
           LET id == sess'[b].admin
           IN  id \notin {None, sess[b].admin} =>
                 \/ sess[b].pending = id \/ (late.of = b /\ late.session.admin = id)
                 \/ \A n \in DOMAIN admins : admins[n].id = id => ~admins[n].totp]_adminVars
  BY <1>1 DEF ComesIn
<1> QED
  BY AccountsStayInOrder, <1>2, PTL DEF TimedSpec, NobodySkipsTheCode

-----------------------------------------------------------------------------
(* A sync.                                                                 *)

\* The hub's list leaves nobody with access: the ids it draws are of nobody whom a session,
\* or the copy of one, remembers (SyncEndsAccess).
THEOREM SyncSignsOut == TimedSpec => SyncEndsAccess
<1>1. [TimedNext]_adminVars =>
        [SyncAdmins(DOMAIN admins') =>
           ~HasFullAccess(late.session)' /\ \A b \in Browsers : ~HasFullAccess(sess[b])']_adminVars
  <2> SUFFICES ASSUME SyncAdmins(DOMAIN admins')
               PROVE  ~HasFullAccess(late.session)' /\ \A b \in Browsers : ~HasFullAccess(sess[b])'
    BY Zenon
  <2> DEFINE S == DOMAIN admins'
             new == FreshIds(S)
  <2>1. new \in [S -> Ids \ Remembered]
    BY FreshIdsAreNew DEF SyncAdmins
  <2>2. admins' = [n \in S |-> newAdmin(new[n], FALSE)] /\ UNCHANGED <<sess, late>>
    BY DEF SyncAdmins, replaceAdmins
  <2> HIDE DEF new
  <2>3. \A id \in AdminIds(admins') : id \notin Remembered
    BY <2>1, <2>2 DEF AdminIds, newAdmin
  <2> QED
    BY <2>2, <2>3, AllAreRemembered DEF HasFullAccess, Known
<1> QED
  BY <1>1, PTL DEF TimedSpec, SyncEndsAccess
-----------------------------------------------------------------------------
(* Guesses are bounded.                                                    *)

\* A key's record knows of every failure still in the history: unless the key is locked
\* there were fewer than MAX_ATTEMPTS of them, and a lockout lasts until the last is past.
HistoryIsTrue ==
  \A k \in Keys :
    LET r == attempts[k]
    IN  /\ r.count < MAX_ATTEMPTS => Cardinality(recent[k]) <= r.count
        /\ r.count >= MAX_ATTEMPTS => r.lock >= LOCKOUT - r.age
        /\ \A f \in recent[k] : r.age <= f[2]

ThrottleInv == HistoryIsTrue /\ GuessesAreBounded

LEMMA HistoriesAreFinite ==
  ASSUME NEW H \in SUBSET Failures
  PROVE  IsFiniteSet(H) /\ Cardinality(H) \in Nat /\ (H = {} => Cardinality(H) = 0)
<1>1. MaxGuesses \in Int /\ LOCKOUT - 1 \in Int /\ 1 \in Int /\ 0 \in Int
  BY ThrottleAssumption, AdminAssumption
<1>2. IsFiniteSet(1..MaxGuesses) /\ IsFiniteSet(0..(LOCKOUT - 1))
  BY <1>1, FS_Interval
<1>3. IsFiniteSet(Failures)
  BY <1>2, FS_Product DEF Failures
<1> QED
  BY <1>3, FS_Subset, FS_CardinalityType, FS_EmptySet

\* What is known of one key.
LEMMA KeyHistory ==
  ASSUME TableOK, NEW k \in Keys
  PROVE  /\ MAX_ATTEMPTS \in Nat \ {0} /\ LOCKOUT \in Nat \ {0} /\ WINDOW \in Nat /\ LOCKOUT <= WINDOW
         /\ attempts[k] \in Records
         /\ attempts[k].count \in Nat /\ attempts[k].age \in Nat /\ attempts[k].lock \in Nat
         /\ recent[k] \in SUBSET Failures /\ IsFiniteSet(recent[k]) /\ Cardinality(recent[k]) \in Nat
         /\ recent[k] = {} => Cardinality(recent[k]) = 0
         /\ \A f \in recent[k] : f[2] \in Nat /\ f[2] < LOCKOUT
<1>1. recent[k] \in SUBSET Failures /\ attempts[k] \in Records
  BY DEF TableOK
<1>2. LOCKOUT \in Nat \ {0}
  BY ThrottleAssumption
<1>3. \A f \in recent[k] : f[2] \in Nat /\ f[2] < LOCKOUT
  BY <1>1, <1>2 DEF Failures
<1> QED
  BY <1>1, <1>3, HistoriesAreFinite, ThrottleAssumption DEF Records

\* A success wipes the slate clean, and so does a restart.
LEMMA CleanSlate ==
  ASSUME NEW k \in Keys, attempts'[k] = NoRecord, recent'[k] = {}
  PROVE  /\ attempts'[k].count < MAX_ATTEMPTS => Cardinality(recent'[k]) <= attempts'[k].count
         /\ attempts'[k].count >= MAX_ATTEMPTS => attempts'[k].lock >= LOCKOUT - attempts'[k].age
         /\ \A f \in recent'[k] : attempts'[k].age <= f[2]
         /\ Cardinality(recent'[k]) <= MAX_ATTEMPTS
  BY ThrottleAssumption, FS_EmptySet DEF NoRecord

LEMMA SuccessKeeps ==
  ASSUME TableOK, ThrottleInv, NEW k \in Keys, Succeeds(k)
  PROVE  ThrottleInv'
<1>1. /\ attempts'[k] = NoRecord /\ recent'[k] = {}
      /\ \A x \in Keys : x # k => attempts'[x] = attempts[x] /\ recent'[x] = recent[x]
  BY DEF Succeeds, recordSuccess, TableOK
<1> QED
  BY <1>1, CleanSlate DEF ThrottleInv, HistoryIsTrue, GuessesAreBounded

\* One failure more: of a key that is not locked fewer than MAX_ATTEMPTS count, or all of
\* them are past.
LEMMA FailureKeeps ==
  ASSUME TableOK, ThrottleInv, NEW k \in Keys, ~isLocked(attempts, k), Fails(k)
  PROVE  ThrottleInv'
<1> DEFINE r == attempts[k]
           kept == IF r.age > WINDOW THEN 0 ELSE r.count
           count == IF kept > MAX_ATTEMPTS THEN kept ELSE kept + 1
           n == Cardinality(recent[k])
<1>1. /\ attempts'[k] = [count |-> count, age |-> 0, lock |-> IF count >= MAX_ATTEMPTS THEN LOCKOUT ELSE 0]
      /\ recent'[k] = recent[k] \union {<<guesses + 1, 0>>}
      /\ \A x \in Keys : x # k => attempts'[x] = attempts[x] /\ recent'[x] = recent[x]
  BY DEF Fails, recordFailure, TableOK
<1>2. /\ r.count < MAX_ATTEMPTS => n <= r.count
      /\ r.count >= MAX_ATTEMPTS => r.lock >= LOCKOUT - r.age
      /\ \A f \in recent[k] : r.age <= f[2]
  BY DEF ThrottleInv, HistoryIsTrue
<1>3. r.lock = 0
  BY KeyHistory DEF isLocked
<1>4. r.age >= LOCKOUT => recent[k] = {} /\ n = 0
  BY <1>2, KeyHistory
<1>5. Cardinality(recent'[k]) \in Nat /\ Cardinality(recent'[k]) <= n + 1
  <2> DEFINE H == recent[k] \union {<<guesses + 1, 0>>}
  <2>1. IsFiniteSet(recent[k]) /\ n \in Nat
    BY KeyHistory
  <2>2. Cardinality(H) = IF <<guesses + 1, 0>> \in recent[k] THEN n ELSE n + 1
    BY <2>1, FS_AddElement
  <2> QED
    BY <1>1, <2>1, <2>2
<1>6. /\ kept \in Nat /\ count \in Nat
      /\ n + 1 <= MAX_ATTEMPTS
      /\ count < MAX_ATTEMPTS => n + 1 <= count
  <2>1. CASE r.age > WINDOW
    BY <1>4, <2>1, KeyHistory
  <2>2. CASE r.age <= WINDOW /\ r.count >= MAX_ATTEMPTS
    BY <1>2, <1>3, <1>4, <2>2, KeyHistory
  <2>3. CASE r.age <= WINDOW /\ r.count < MAX_ATTEMPTS
    BY <1>2, <2>3, KeyHistory
  <2> QED
    BY <2>1, <2>2, <2>3, KeyHistory
<1>7. \A f \in recent'[k] : f[2] \in Nat
  BY <1>1, KeyHistory
<1>8. /\ attempts'[k].count = count /\ attempts'[k].age = 0
      /\ count >= MAX_ATTEMPTS => attempts'[k].lock = LOCKOUT
  BY <1>1
<1> HIDE DEF r, kept, count, n
<1>9. /\ attempts'[k].count < MAX_ATTEMPTS => Cardinality(recent'[k]) <= attempts'[k].count
      /\ attempts'[k].count >= MAX_ATTEMPTS => attempts'[k].lock >= LOCKOUT - attempts'[k].age
      /\ \A f \in recent'[k] : attempts'[k].age <= f[2]
      /\ Cardinality(recent'[k]) <= MAX_ATTEMPTS
  BY <1>5, <1>6, <1>7, <1>8, ThrottleAssumption, KeyHistory DEF n
<1> QED
  BY <1>1, <1>9 DEF ThrottleInv, HistoryIsTrue, GuessesAreBounded

\* The clock: failures that grow too old are forgotten, and nothing else is.
LEMMA TickKeeps ==
  ASSUME TableOK, ThrottleInv, Tick
  PROVE  ThrottleInv'
<1> SUFFICES ASSUME NEW k \in Keys
    PROVE  /\ attempts'[k].count < MAX_ATTEMPTS => Cardinality(recent'[k]) <= attempts'[k].count
           /\ attempts'[k].count >= MAX_ATTEMPTS => attempts'[k].lock >= LOCKOUT - attempts'[k].age
           /\ \A f \in recent'[k] : attempts'[k].age <= f[2]
           /\ Cardinality(recent'[k]) <= MAX_ATTEMPTS
  BY DEF ThrottleInv, HistoryIsTrue, GuessesAreBounded
<1> DEFINE r == attempts[k]
           n == Cardinality(recent[k])
<1>1. /\ r.count < MAX_ATTEMPTS => n <= r.count
      /\ r.count >= MAX_ATTEMPTS => r.lock >= LOCKOUT - r.age
      /\ \A f \in recent[k] : r.age <= f[2]
      /\ n <= MAX_ATTEMPTS
  BY DEF ThrottleInv, HistoryIsTrue, GuessesAreBounded
<1>2. recent'[k] = {<<f[1], f[2] + 1>> : f \in {g \in recent[k] : g[2] < LOCKOUT - 1}}
  BY DEF Tick
<1>3. attempts'[k] = IF r.count = 0 \/ r.age = WINDOW + 1 THEN r
                     ELSE [r EXCEPT !.age = @ + 1, !.lock = IF @ = 0 THEN 0 ELSE @ - 1]
  BY DEF Tick, Elapsed, TableOK
<1>4. Cardinality(recent'[k]) \in Nat /\ Cardinality(recent'[k]) <= n
  <2> DEFINE T == recent'[k]
             older == [f \in T |-> <<f[1], f[2] - 1>>]
  <2>1. \A f \in recent[k] : f[1] \in Int /\ f[2] \in Int /\ f = <<f[1], f[2]>>
    BY KeyHistory, AdminAssumption DEF Failures
  <2>2. \A f \in T : f[1] \in Int /\ f[2] \in Int /\ f = <<f[1], f[2]>> /\ <<f[1], f[2] - 1>> \in recent[k]
    BY <1>2, <2>1
  <2>3. older \in Injection(T, recent[k])
    <3>1. older \in [T -> recent[k]]
      BY <2>2
    <3>2. ASSUME NEW f \in T, NEW g \in T, older[f] = older[g]
          PROVE  f = g
      <4>1. older[f] = <<f[1], f[2] - 1>> /\ older[g] = <<g[1], g[2] - 1>>
        OBVIOUS
      <4>2. f[1] = g[1] /\ f[2] - 1 = g[2] - 1
        BY <3>2, <4>1
      <4>3. f[2] \in Int /\ g[2] \in Int /\ f = <<f[1], f[2]>> /\ g = <<g[1], g[2]>>
        BY <2>2, <3>2
      <4>4. f[2] = g[2]
        BY <4>2, <4>3
      <4> QED
        BY <4>2, <4>3, <4>4, Zenon
    <3> QED
      BY <3>1, <3>2 DEF Injection, IsInjective
  <2> HIDE DEF T, older
  <2>4. IsFiniteSet(T) /\ Cardinality(T) <= Cardinality(recent[k])
    BY <2>3, KeyHistory, FS_Injection
  <2>5. Cardinality(T) \in Nat
    BY <2>4, FS_CardinalityType
  <2> QED
    BY <2>4, <2>5 DEF T
<1>5. CASE r.count = 0 \/ r.age = WINDOW + 1
  <2>1. recent[k] = {}
    <3>1. r.count = 0 => n = 0
      BY <1>1, KeyHistory
    <3>2. r.age = WINDOW + 1 => recent[k] = {}
      BY <1>1, KeyHistory
    <3> QED
      BY <1>5, <3>1, <3>2, KeyHistory, FS_EmptySet
  <2>2. recent'[k] = {} /\ attempts'[k] = r
    BY <1>2, <1>3, <1>5, <2>1
  <2> QED
    BY <1>1, <1>4, <2>1, <2>2, KeyHistory
<1>6. CASE ~(r.count = 0 \/ r.age = WINDOW + 1)
  <2>1. /\ attempts'[k].count = r.count /\ attempts'[k].age = r.age + 1
        /\ attempts'[k].lock = IF r.lock = 0 THEN 0 ELSE r.lock - 1
    BY <1>3, <1>6, KeyHistory DEF Records
  <2>2. \A f \in recent'[k] : r.age + 1 <= f[2]
    BY <1>1, <1>2, KeyHistory
  <2> HIDE DEF r, n
  <2> QED
    BY <1>1, <1>4, <2>1, <2>2, KeyHistory DEF r, n
<1> QED
  BY <1>5, <1>6

\* The throttle is asked and told by nobody else.
LEMMA OnTheThrottle ==
  ASSUME AdminInv, TimedNext
  PROVE  \/ UNCHANGED throttle \/ Tick \/ Restart
         \/ \E k \in Keys : Succeeds(k) \/ (~isLocked(attempts, k) /\ Fails(k))
<1>1. ASSUME NEW b \in Browsers, SignNext(b)
      PROVE  UNCHANGED throttle \/ \E k \in Keys : Succeeds(k)
  <2>1. ASSUME NEW n \in Names, SetUp(b, n)
        PROVE  UNCHANGED throttle
    BY <2>1, Zenon DEF SetUp
  <2>2. ASSUME NEW n \in Names, Login(b, n)
        PROVE  \E k \in Keys : Succeeds(k)
    BY <2>2, KeysOfTheThrottle, Zenon DEF Login
  <2>3. ASSUME LoginTotp(b)
        PROVE  \E k \in Keys : Succeeds(k)
    <3>1. NameOf(sess[b].pending) \in Names
      BY <2>3, NamesOfIds, Parts DEF LoginTotp, PendingAdmin, ConfigOK
    <3> QED
      BY <2>3, <3>1, KeysOfTheThrottle, Zenon DEF LoginTotp
  <2>4. ASSUME TermLogin(b) \/ TermLoginTotp(b)
        PROVE  \E k \in Keys : Succeeds(k)
    BY <2>4, KeysOfTheThrottle, Zenon DEF TermLogin, TermLoginTotp
  <2>5. CASE LoginTotpStale(b) \/ Logout(b) \/ TermLoginTotpStale(b) \/ TermLogout(b)
    BY <2>5, Zenon DEF LoginTotpStale, Logout, TermLoginTotpStale, TermLogout
  <2> QED
    BY <1>1, <2>1, <2>2, <2>3, <2>4, <2>5, Zenon DEF SignNext
<1>2. ASSUME NEW b \in Browsers, PageNext(b)
      PROVE  UNCHANGED throttle
  <2>1. CASE \/ Poll(b) \/ Touch(b) \/ WalkAway(b) \/ FactoryReset(b) \/ RestoreUploaded(b) \/ LateEnds(b)
             \/ \E todo \in {"nothing", "restore"} : LateBegins(b, todo)
    BY <2>1, Zenon DEF Poll, Touch, WalkAway, FactoryReset, RestoreUploaded, LateEnds, LateBegins
  <2>2. CASE ChangePassword(b) \/ TotpSetup(b) \/ TotpConfirm(b) \/ TotpDisable(b)
    BY <2>2, Zenon DEF ChangePassword, TotpSetup, TotpConfirm, TotpDisable
  <2>3. Settle(b) => UNCHANGED throttle
    BY Zenon DEF Settle
  <2>4. CASE \/ \E n \in Names : CreateAdmin(b, n) \/ ResetPassword(b, n) \/ DeleteAdmin(b, n)
             \/ \E m, n \in Names : RenameAdmin(b, m, n)
             \/ \E totp \in BOOLEAN : SetPolicy(b, totp)
    BY <2>3, <2>4, Zenon DEF CreateAdmin, ResetPassword, DeleteAdmin, RenameAdmin, SetPolicy
  <2>5. CASE \/ \E permission \in Permissions : SaveUser(b, permission)
             \/ DeleteUser(b) \/ UserTotpSetup(b) \/ UserTotpConfirm(b) \/ UserTotpDisable(b)
    BY <2>3, <2>5, Zenon DEF SaveUser, DeleteUser, UserTotpSetup, UserTotpConfirm, UserTotpDisable,
       SetUser
  <2> QED
    BY <1>2, <2>1, <2>2, <2>4, <2>5, Zenon DEF PageNext
<1>3. CASE TakeBackup \/ HubRestores \/ SyncUsers \/ \E S \in SUBSET Names : SyncAdmins(S)
  BY <1>3, Zenon DEF TakeBackup, HubRestores, SyncUsers, SyncAdmins
<1>4. ASSUME NEW k \in Keys, Rejected(k)
      PROVE  ~isLocked(attempts, k) /\ Fails(k)
  BY <1>4, Zenon DEF Rejected
<1> QED
  BY <1>1, <1>2, <1>3, <1>4, Zenon DEF TimedNext, AdminNext

\* No key is tried wrongly more than MAX_ATTEMPTS times within a lockout's length, over any
\* sequence of lockouts and any time, unless a success or a restart came between
\* (GuessesAreBounded).
THEOREM GuessingIsSlow == TimedSpec => []GuessesAreBounded
<1>1. AdminInit => ThrottleInv
  BY ThrottleAssumption, FS_EmptySet DEF AdminInit, ThrottleInv, HistoryIsTrue, GuessesAreBounded, NoRecord
<1>2. AdminInv /\ ThrottleInv /\ [TimedNext]_adminVars => ThrottleInv'
  <2> SUFFICES ASSUME AdminInv, ThrottleInv, [TimedNext]_adminVars
               PROVE  ThrottleInv'
    OBVIOUS
  <2>1. TableOK
    BY Parts
  <2>2. CASE UNCHANGED throttle
    BY <2>2 DEF throttle, ThrottleInv, HistoryIsTrue, GuessesAreBounded
  <2>3. CASE Restart
    BY <2>3, CleanSlate DEF Restart, ThrottleInv, HistoryIsTrue, GuessesAreBounded
  <2>4. CASE UNCHANGED adminVars
    BY <2>2, <2>4, Zenon DEF adminVars
  <2> QED
    BY <2>1, <2>2, <2>3, <2>4, SuccessKeeps, FailureKeeps, TickKeeps, OnTheThrottle, Zenon
<1> QED
  BY AccountsStayInOrder, <1>1, <1>2, PTL DEF TimedSpec, ThrottleInv
-----------------------------------------------------------------------------
(* The pages of AdminPages.  What a screen offers is a request of           *)
(* AdminAccounts, which asks the session again; what the page does by       *)
(* itself is a poll, an idle logout, or nothing.                            *)
LEMMA FormsAreRequests ==
  ASSUME NEW b \in Browsers,
         \/ setupForm(b) \/ loginForm(b) \/ totpForm(b) \/ forceChangeForm(b) \/ force2faForm(b)
  PROVE  SignNext(b) \/ PageNext(b)
<1>1. CASE setupForm(b) \/ loginForm(b) \/ totpForm(b)
  BY <1>1, Zenon DEF setupForm, loginForm, totpForm, SignNext
<1>2. CASE forceChangeForm(b) \/ force2faForm(b)
  BY <1>2, Zenon DEF forceChangeForm, force2faForm, PageNext
<1>. QED
  BY <1>1, <1>2

LEMMA AppAsks ==
  ASSUME NEW b \in Browsers, AppWorks(b)
  PROVE  PageNext(b)
<1>1. CASE MyAccount(b) \/ FactoryReset(b) \/ \E todo \in {"nothing", "restore"} : LateBegins(b, todo)
  BY <1>1, Zenon DEF MyAccount, PageNext
<1>2. CASE AdminsTab(b)
  BY <1>2, Zenon DEF AdminsTab, PageNext
<1>3. CASE UsersTab(b)
  BY <1>3, Zenon DEF UsersTab, PageNext
<1>. QED
  BY <1>1, <1>2, <1>3, Zenon DEF AppWorks

(* A page that loads asks for its session, as a poll does.                  *)
LEMMA BootPolls ==
  ASSUME AdminInv, NEW b \in Browsers, boot(b)
  PROVE  Poll(b) \/ UNCHANGED adminVars
<1>1. sess' = [sess EXCEPT ![b] = SeenBy(@)] /\ UNCHANGED <<config, backup, late, away, throttle, events>>
  BY Zenon DEF boot
<1>2. sess \in [Browsers -> SessionSet]
  BY Parts DEF SessOK
<1>3. CASE sess[b].admin = None
  <2>1. sess' = sess
    BY <1>1, <1>2, <1>3 DEF SeenBy
  <2>. QED
    BY <1>1, <2>1 DEF adminVars
<1>4. CASE sess[b].admin # None
  <2>1. SeenBy(sess[b]) = IF Expired(sess[b]) THEN clearAdminAuth(sess[b]) ELSE SeenOnly(sess[b])
    BY <1>4 DEF SeenBy
  <2>2. sess' = [sess EXCEPT ![b] = IF Expired(@) THEN clearAdminAuth(@) ELSE SeenOnly(@)]
    BY <1>1, <2>1
  <2>. QED
    BY <1>1, <1>4, <2>2 DEF Poll
<1>. QED
  BY <1>3, <1>4

LEMMA PagesStep == AdminInv /\ [PagesNext]_vars => [TimedNext]_adminVars
<1>. SUFFICES ASSUME AdminInv, [PagesNext]_vars PROVE TimedNext \/ UNCHANGED adminVars
  OBVIOUS
<1>1. ASSUME NEW b \in Browsers, SignNext(b) \/ PageNext(b) PROVE TimedNext
  BY <1>1, Zenon DEF TimedNext, AdminNext
<1>2. ASSUME NEW b \in Browsers,
             \/ boot(b) \/ enterForce2fa(b) \/ AppPolls(b) \/ PageTouches(b) \/ logoutBtn(b)
             \/ idleAutoLogout(b) \/ UserReloads(b) \/ LateAnswered(b)
      PROVE  SignNext(b) \/ PageNext(b) \/ UNCHANGED adminVars
  <2>1. CASE boot(b)
    BY <2>1, BootPolls, Zenon DEF PageNext
  <2>2. CASE enterForce2fa(b)
    BY <2>2, Zenon DEF enterForce2fa, PageNext
  <2>3. CASE AppPolls(b) \/ PageTouches(b)
    BY <2>3, Zenon DEF AppPolls, PageTouches, PageNext
  <2>4. CASE logoutBtn(b) \/ idleAutoLogout(b)
    BY <2>4, Zenon DEF logoutBtn, idleAutoLogout, SignNext
  <2>5. CASE UserReloads(b) \/ LateAnswered(b)
    BY <2>5, Zenon DEF UserReloads, LateAnswered, PageNext
  <2>. QED
    BY <1>2, <2>1, <2>2, <2>3, <2>4, <2>5, Zenon
<1>3. ASSUME ServiceRestarts \/ Behind PROVE TimedNext
  <2>1. CASE ServiceRestarts
    BY <2>1, Zenon DEF ServiceRestarts, TimedNext, AdminNext
  <2>2. ASSUME NEW b \in Browsers, WalkAway(b) \/ RestoreUploaded(b) PROVE TimedNext
    BY <1>1, <2>2, Zenon DEF PageNext
  <2>3. CASE \/ TakeBackup \/ HubRestores \/ SyncUsers \/ Tick
             \/ \E k \in Keys : Rejected(k)
             \/ \E S \in SUBSET Names : SyncAdmins(S)
    BY <2>3, Zenon DEF TimedNext, AdminNext
  <2>. QED
    BY <1>3, <2>1, <2>2, <2>3, Zenon DEF Behind
<1>4. CASE UNCHANGED vars
  BY <1>4, Zenon DEF vars
<1>. QED
  BY <1>1, <1>2, <1>3, <1>4, FormsAreRequests, AppAsks, Zenon DEF PagesNext

LEMMA PagesKeepAccounts == PagesSpec => []AdminInv
<1>1. PagesInit => AdminInv
  BY StartsInOrder DEF PagesInit
<1>2. AdminInv /\ [PagesNext]_vars => AdminInv'
  BY PagesStep, StepKeeps
<1>. QED
  BY <1>1, <1>2, PTL DEF PagesSpec

(* Every step of the pages, however far they have been overtaken by expiry, *)
(* a restart, the hub or another administrator, is one that the routes and  *)
(* their gates allow (ImplementsAccounts; webui/app.js over webServer.js).  *)
THEOREM PagesUseTheAccounts == PagesSpec => ImplementsAccounts
<1>1. PagesInit => AdminInit
  BY DEF PagesInit
<1>. QED
  BY <1>1, PagesKeepAccounts, PagesStep, PTL DEF PagesSpec, ImplementsAccounts, TimedSpec

(* What is proved of the routes holds behind the pages: the accounts stay   *)
(* in order, somebody can sign in, no code is skipped, a sync signs out,    *)
(* and guesses are bounded.                                                 *)
THEOREM PagesArePromised ==
  PagesSpec => /\ []AdminInv /\ []GuessesAreBounded
               /\ AdminsRemain /\ NobodySkipsTheCode /\ SyncEndsAccess
BY PagesUseTheAccounts, AccountsStayInOrder, SomebodyRemains, CodeIsAsked, SyncSignsOut, GuessingIsSlow
   DEF ImplementsAccounts
=============================================================================
