------------------------------- MODULE Accounts -------------------------------
(***************************************************************************)
(* An account of the web control plane: password, second factor, recovery  *)
(* codes, sessions, and the limit on wrong answers.                        *)
(*                                                                         *)
(* Requests run concurrently; a statement of the database, or a critical   *)
(* section of the limiter, is one step.  What a request computes from what *)
(* it has just read belongs to the step that reads it.                     *)
(*                                                                         *)
(* Passwords and secrets are not named: what matters is whether the one a  *)
(* request saw, or a session was opened with, is still the account's.  The *)
(* ten recovery codes of a set do not touch each other, so one stands for  *)
(* them.  What the limiter of source addresses says is left open: it also  *)
(* counts what the address tried on other accounts.                        *)
(*                                                                         *)
(* A definition that no action uses is a plausible mistake in the one that *)
(* follows it; it shows that the properties notice it.                     *)
(***************************************************************************)
EXTENDS Integers, FiniteSets

CONSTANTS
  Reqs,       (* requests that may be under way at the same time             *)
  Sids,       (* session ids; one that nothing refers to is used again       *)
  MaxFails,   (* wrong answers in a window of time (5)                       *)
  Nothing     (* no account, no session                                      *)

ASSUME LimitAssumption == MaxFails \in Nat \ {0}
ASSUME RequestsAssumption == IsFiniteSet(Reqs)

Users == [secret : BOOLEAN, enabled : BOOLEAN, admin : BOOLEAN]
Sessions == [since : {"same", "old", "excused"}, expired : BOOLEAN]

ASSUME NothingAssumption == Nothing \notin Sids \cup Users \cup Sessions

VARIABLES
  user,       (* the account: [secret, enabled, admin]                        *)
  others,     (* there is an administrator under another name                *)
  sessions,   (* the account's sessions                                       *)
  code,       (* the recovery code: "none", "fresh" or "used"                 *)
  fails,      (* wrong answers the limiter remembers                          *)
  req,        (* the requests                                                 *)
  wrong,      (* history: wrong answers since the last full login, that are   *)
              (* not older than the window                                    *)
  proved,     (* history: somebody showed a code of the present secret        *)
  mixed       (* history: enabled by a request that had seen another secret   *)

history == <<wrong, proved, mixed>>
vars == <<user, others, sessions, code, fails, req, history>>

-------------------------------------------------------------------------------
(* ------------------------- requests and sessions ---------------------- *)

(* sid: the request's session; known: its recovery code is in the table;      *)
(* late: what it has read of the account was changed since.                 *)
Idle == [pc |-> "idle", sid |-> Nothing, known |-> FALSE, late |-> FALSE]

Goto(r, pc) == [req EXCEPT ![r].pc = pc]

End(r) == [req EXCEPT ![r] = Idle]

At(q, pcs) == {r \in Reqs : q[r].pc \in pcs}

Late(q, S) == [r \in Reqs |-> IF r \in S THEN [q[r] EXCEPT !.late = TRUE] ELSE q[r]]

FreeSids == {s \in Sids : sessions[s] = Nothing /\ \A r \in Reqs : req[r].sid # s}

(* since: the password is the one the session was opened with ("same"), or    *)
(* was changed ("old"), or was changed while the session was being opened,   *)
(* or by a request that could not end the others ("excused").                *)
Session(since) == [since |-> since, expired |-> FALSE]

Remember(p, set) == [s \in Sids |-> IF s \in set /\ sessions[s] # Nothing
                                    THEN [sessions[s] EXCEPT !.since = p] ELSE sessions[s]]

(* createSession, for a login or a registration.                            *)
OpenSession(r) ==
  /\ req[r].pc = "session"
  /\ \/ UNCHANGED sessions
     \/ \E s \in FreeSids :
          sessions' = [sessions EXCEPT ![s] = Session(IF req[r].late THEN "excused" ELSE "same")]
  /\ req' = End(r)
  /\ UNCHANGED <<user, others, code, fails, history>>

Expire(s) ==
  /\ sessions[s] # Nothing /\ ~sessions[s].expired
  /\ sessions' = [sessions EXCEPT ![s].expired = TRUE]
  /\ UNCHANGED <<user, others, code, fails, req, history>>

(* sessionUser meets an expired session; the janitor's hourly round does the *)
(* same to all of them.                                                    *)
Drop(S) ==
  /\ S # {} /\ \A s \in S : sessions[s] # Nothing /\ sessions[s].expired
  /\ sessions' = [s \in Sids |-> IF s \in S THEN Nothing ELSE sessions[s]]
  /\ UNCHANGED <<user, others, code, fails, req, history>>

DropExpired == \E s \in Sids : Drop({s})

PurgeExpired == Drop({s \in Sids : sessions[s] # Nothing /\ sessions[s].expired})

(* withSession: the session and the account are read in one SELECT.           *)
WithSession(r, s, pc, requireMFA) ==
  /\ req[r].pc = "idle"
  /\ sessions[s] # Nothing /\ ~sessions[s].expired
  /\ requireMFA => user.enabled
  /\ req' = [req EXCEPT ![r] = [Idle EXCEPT !.pc = pc, !.sid = s]]

-------------------------------------------------------------------------------
(* -------------------------------- login ------------------------------- *)

(* handleLoginPost: loginLimiter.allowed.                                   *)
BeginLogin(r) ==
  /\ req[r].pc = "idle"
  /\ fails < MaxFails
  /\ req' = Goto(r, "look")
  /\ UNCHANGED <<user, others, sessions, code, fails, history>>

PasswordResets(r) ==
  /\ req[r].pc = "look"
  /\ \/ req' = Goto(r, "wrong") /\ UNCHANGED fails
     \/ /\ user # Nothing
        /\ fails' = 0
        /\ \/ ~user.enabled /\ req' = Goto(r, "reset")
           \/ user.enabled /\ \E known \in BOOLEAN :
                req' = [req EXCEPT ![r].pc = "recover", ![r].known = known]
  /\ UNCHANGED <<user, others, sessions, code, history>>

(* userByName, and what follows from the row: the password is wrong, or no    *)
(* second factor is asked for, or it is missing, right, or maybe a recovery  *)
(* code.                                                                   *)
CheckPassword(r) ==
  /\ req[r].pc = "look"
  /\ \/ req' = Goto(r, "wrong")
     \/ user # Nothing /\ ~user.enabled /\ req' = Goto(r, "reset")
     \/ user # Nothing /\ user.enabled /\ req' = End(r)
     \/ user # Nothing /\ user.enabled /\ req' = Goto(r, "reset")
     \/ /\ user # Nothing /\ user.enabled
        /\ \E known \in BOOLEAN :
             req' = [req EXCEPT ![r].pc = "recover", ![r].known = known /\ code # "none"]
  /\ UNCHANGED <<user, others, sessions, code, fails, history>>

(* tryRecovery: UPDATE recovery_codes SET used = 1 ... AND used = 0.           *)
Recover(r) ==
  /\ req[r].pc = "recover"
  /\ IF req[r].known /\ code = "fresh"
     THEN /\ code' = "used"
          /\ req' = [req EXCEPT ![r].pc = "reset", ![r].known = FALSE]
     ELSE /\ req' = [req EXCEPT ![r].pc = "wrong", ![r].known = FALSE]
          /\ UNCHANGED code
  /\ UNCHANGED <<user, others, sessions, fails, history>>

(* loginLimiter.record.                                                     *)
RecordFail(r) ==
  /\ req[r].pc = "wrong"
  /\ fails' = fails + 1 /\ wrong' = wrong + 1
  /\ req' = End(r)
  /\ UNCHANGED <<user, others, sessions, code, proved, mixed>>

(* loginLimiter.reset.                                                      *)
ResetFails(r) ==
  /\ req[r].pc = "reset"
  /\ fails' = 0 /\ wrong' = 0
  /\ req' = Goto(r, "session")
  /\ UNCHANGED <<user, others, sessions, code, proved, mixed>>

(* The oldest wrong answer leaves the window.                               *)
Forget ==
  /\ fails > 0
  /\ fails' = fails - 1 /\ wrong' = wrong - 1
  /\ UNCHANGED <<user, others, sessions, code, req, proved, mixed>>

-------------------------------------------------------------------------------
(* ---------------------------- registration ---------------------------- *)

(* handleRegisterPost: only while there are no users; under this name or       *)
(* another.                                                                *)
BeginRegister(r) ==
  /\ req[r].pc = "idle"
  /\ user = Nothing /\ ~others
  /\ \E pc \in {"insert", "other"} : req' = Goto(r, pc)
  /\ UNCHANGED <<user, others, sessions, code, fails, history>>

Account(admin) == [secret |-> FALSE, enabled |-> FALSE, admin |-> admin]

(* An INSERT that fails is not noticed.                                     *)
InsertUnchecked(r) ==
  /\ req[r].pc = "insert"
  /\ user' \in {user, Account(TRUE)}
  /\ req' = Goto(r, "session")
  /\ UNCHANGED <<others, sessions, code, fails, history>>

(* createUser: usernames are UNIQUE.                                         *)
InsertAdmin(r) ==
  \/ /\ req[r].pc = "insert"
     /\ IF user # Nothing THEN req' = End(r) /\ UNCHANGED user
        ELSE /\ user' = Account(TRUE)
             /\ req' = Goto(r, "session")
     /\ UNCHANGED <<others, sessions, code, fails, history>>
  \/ /\ req[r].pc = "other"
     /\ others' = TRUE
     /\ req' = End(r)
     /\ UNCHANGED <<user, sessions, code, fails, history>>

(* handleUserCreate, by the administrator with the other name.                *)
CreateUser ==
  /\ others /\ user = Nothing
  /\ user' = Account(FALSE)
  /\ UNCHANGED <<others, sessions, code, fails, req, history>>

-------------------------------------------------------------------------------
(* --------------------------- with a session --------------------------- *)

(* handlePasswordChange: the current password is the one just read.           *)
BeginPassword(r) ==
  /\ \E s \in Sids : WithSession(r, s, "change", TRUE)
  /\ UNCHANGED <<user, others, sessions, code, fails, history>>

(* updateUserPassword.  Whoever is logging in with the row as it was will be  *)
(* let in.                                                                 *)
ChangePassword(r) ==
  /\ req[r].pc = "change"
  /\ sessions' = [s \in Sids |->
       IF sessions[s] = Nothing THEN Nothing
       ELSE [sessions[s] EXCEPT !.since = IF s = req[r].sid THEN "same"
                                          ELSE IF @ = "same" THEN "old" ELSE @]]
  /\ req' = Late(Goto(r, "others"), At(req, {"recover", "reset", "session"}))
  /\ UNCHANGED <<user, others, code, fails, history>>

DeleteOwn(r) ==
  /\ req[r].pc = "others"
  /\ sessions' = [s \in Sids |-> IF s = req[r].sid THEN Nothing ELSE sessions[s]]
  /\ req' = End(r)
  /\ UNCHANGED <<user, others, code, fails, history>>

(* deleteOtherSessions; if it fails that is logged, and no more.              *)
DeleteOthers(r) ==
  /\ req[r].pc = "others"
  /\ \/ sessions' = [s \in Sids |-> IF s = req[r].sid THEN sessions[s] ELSE Nothing]
     \/ sessions' = Remember("excused", Sids \ {req[r].sid})
  /\ req' = End(r)
  /\ UNCHANGED <<user, others, code, fails, history>>

(* handleMFABegin.                                                          *)
BeginSecret(r) ==
  /\ \E s \in Sids : WithSession(r, s, "secret", FALSE)
  /\ UNCHANGED <<user, others, sessions, code, fails, history>>

SecretStaysEnabled(r) ==
  /\ req[r].pc = "secret"
  /\ user' = [user EXCEPT !.secret = TRUE]
  /\ proved' = FALSE /\ mixed' = FALSE
  /\ req' = Late(End(r), At(req, {"enable"}))
  /\ UNCHANGED <<others, sessions, code, fails, wrong>>

(* setTOTPSecret.                                                           *)
SetSecret(r) ==
  /\ req[r].pc = "secret"
  /\ user' = [user EXCEPT !.secret = TRUE, !.enabled = FALSE]
  /\ proved' = FALSE /\ mixed' = FALSE
  /\ req' = Late(End(r), At(req, {"enable"}))
  /\ UNCHANGED <<others, sessions, code, fails, wrong>>

(* handleMFAConfirm: a code of the secret just read.                         *)
BeginConfirm(r) ==
  /\ user # Nothing /\ user.secret
  /\ \E s \in Sids : WithSession(r, s, "enable", FALSE)
  /\ proved' = TRUE
  /\ UNCHANGED <<user, others, sessions, code, fails, wrong, mixed>>

(* enableTOTP.                                                              *)
EnableTOTP(r) ==
  /\ req[r].pc = "enable"
  /\ user' = [user EXCEPT !.enabled = TRUE]
  /\ mixed' = (mixed \/ req[r].late)
  /\ req' = [req EXCEPT ![r].pc = "codes", ![r].late = FALSE]
  /\ UNCHANGED <<others, sessions, code, fails, wrong, proved>>

(* setRecoveryCodes: the old ones go and the new ones come in a transaction, *)
(* or it fails and the old ones stay.                                      *)
SetRecoveryCodes(r) ==
  /\ req[r].pc = "codes"
  /\ \/ /\ code' = "fresh"
        /\ req' = [x \in Reqs |-> IF x = r THEN Idle ELSE [req[x] EXCEPT !.known = FALSE]]
     \/ req' = End(r) /\ UNCHANGED code
  /\ UNCHANGED <<user, others, sessions, fails, history>>

(* handleLogout.                                                            *)
Logout(r) ==
  \/ /\ \E s \in Sids : WithSession(r, s, "logout", FALSE)
     /\ UNCHANGED <<user, others, sessions, code, fails, history>>
  \/ /\ req[r].pc = "logout"
     /\ sessions' = [sessions EXCEPT ![req[r].sid] = Nothing]
     /\ req' = End(r)
     /\ UNCHANGED <<user, others, code, fails, history>>

(* The process dies and is started again: the limiter forgets.  Other         *)
(* sessions survive a change of password that was cut off.                 *)
Restart ==
  /\ fails' = 0 /\ wrong' = 0
  /\ sessions' = LET cut == At(req, {"others"})
                 IN  Remember("excused", IF cut = {} THEN {} ELSE
                              {s \in Sids : sessions[s] # Nothing /\ sessions[s].since = "old"})
  /\ req' = [r \in Reqs |-> Idle]
  /\ UNCHANGED <<user, others, code, proved, mixed>>

-------------------------------------------------------------------------------
Init ==
  /\ user = Nothing /\ others = FALSE
  /\ sessions = [s \in Sids |-> Nothing]
  /\ code = "none" /\ fails = 0
  /\ req = [r \in Reqs |-> Idle]
  /\ wrong = 0 /\ proved = FALSE /\ mixed = FALSE

Login(r) ==
  BeginLogin(r) \/ CheckPassword(r) \/ Recover(r) \/ RecordFail(r) \/ ResetFails(r)
  \/ OpenSession(r)

Register(r) == BeginRegister(r) \/ InsertAdmin(r)

Settings(r) ==
  \/ BeginPassword(r) \/ ChangePassword(r) \/ DeleteOthers(r)
  \/ BeginSecret(r) \/ SetSecret(r)
  \/ BeginConfirm(r) \/ EnableTOTP(r) \/ SetRecoveryCodes(r)
  \/ Logout(r)

Next ==
  \/ \E r \in Reqs : Login(r) \/ Register(r) \/ Settings(r)
  \/ \E s \in Sids : Expire(s)
  \/ DropExpired \/ PurgeExpired
  \/ Forget \/ CreateUser \/ Restart

Spec == Init /\ [][Next]_vars

-------------------------------------------------------------------------------
(* ------------------------------ properties ---------------------------- *)

Requests ==
  [pc : {"idle", "look", "wrong", "recover", "reset", "session", "insert", "other", "change",
         "others", "secret", "enable", "codes", "logout"},
   sid : Sids \cup {Nothing}, known : BOOLEAN, late : BOOLEAN]

(* The state has the shape its declarations say; there are no sessions       *)
(* without an account (db.go: sessions reference users).                   *)
TypeOK ==
  /\ user \in Users \cup {Nothing}
  /\ others \in BOOLEAN
  /\ sessions \in [Sids -> Sessions \cup {Nothing}]
  /\ (\E s \in Sids : sessions[s] # Nothing) => user # Nothing
  /\ code \in {"none", "fresh", "used"}
  /\ fails \in Nat /\ wrong \in Nat
  /\ req \in [Reqs -> Requests]
  /\ proved \in BOOLEAN /\ mixed \in BOOLEAN

(* Once a change of password has been answered, no session is left that was  *)
(* opened with the old one, but the session that made the change; spared are *)
(* logins that had been checked before, and everybody if ending the others   *)
(* failed or was cut off (auth.go: handlePasswordChange).                  *)
OldPasswordOnlyByOverlap ==
  (\E s \in Sids : sessions[s] # Nothing /\ sessions[s].since = "old")
     => At(req, {"others"}) # {}

(* A second factor is asked for only if somebody has shown a code of that     *)
(* very secret, or else a new secret was begun while the old one was being    *)
(* confirmed (totp.go: handleMFABegin, handleMFAConfirm).                  *)
EnabledIsProved == (user # Nothing /\ user.enabled) => (user.secret /\ (proved \/ mixed))

(* In a window of time an account takes no more wrong answers than the limit, *)
(* and those of the requests that were let through before the limit was      *)
(* reached; a right password alone does not start the count again (auth.go:   *)
(* loginLimiter, handleLoginPost).                                         *)
GuessesBounded == wrong <= MaxFails + Cardinality(Reqs) - 1

=============================================================================
