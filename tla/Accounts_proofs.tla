---------------------------- MODULE Accounts_proofs ----------------------------
(***************************************************************************)
(* Proofs about Accounts for any number of requests and sessions and any   *)
(* limit: the state is well formed, sessions opened with an old password   *)
(* end with the change, a second factor is asked for only when somebody    *)
(* has shown a code of it, and an account takes no more wrong answers than *)
(* the limit allows.                                                       *)
(*                                                                         *)
(* The four are about different parts of the state; each invariant speaks  *)
(* of the requests half way, and only of those statements whose outcome it *)
(* depends on.                                                             *)
(***************************************************************************)
EXTENDS Accounts, FiniteSetTheorems, TLAPS

(* A request that works on an account has read one, and accounts stay.        *)
OfAccount ==
  \A r \in Reqs :
    req[r].pc \in {"recover", "reset", "session", "change", "others", "secret", "enable",
                   "codes", "logout"} => user # Nothing

(* A session with the old password is being ended by a request of another.    *)
OldIsBeingEnded ==
  \A s \in Sids : sessions[s] # Nothing /\ sessions[s].since = "old"
    => \E r \in Reqs : req[r].pc = "others" /\ req[r].sid # s

(* Who is about to switch the second factor on has seen a code of the         *)
(* present secret, or knows only an older one.                             *)
SeenBeforeEnabling ==
  \A r \in Reqs : req[r].pc = "enable" => user.secret /\ (proved \/ req[r].late)

(* Logins let through, whose answer may yet be wrong.                         *)
Guessing == At(req, {"look", "recover", "wrong"})

(* What the limiter remembers and what it has let through do not exceed the   *)
(* limit by more than the requests there can be.                           *)
LetThrough == fails + Cardinality(Guessing) <= MaxFails + Cardinality(Reqs) - 1

(* The limiter never loses count.                                          *)
Counted == wrong = fails

(* The inductive invariant.                                                *)
IInv ==
  /\ Counted /\ TypeOK /\ OfAccount /\ OldIsBeingEnded
  /\ SeenBeforeEnabling /\ EnabledIsProved /\ LetThrough
-------------------------------------------------------------------------------
(* ------------------------ the shape of the state ---------------------- *)

LEMMA IdleIsRequest == Idle \in Requests
BY DEF Idle, Requests

(* What marking requests as late leaves as it was.                           *)
LEMMA LateFields ==
  ASSUME NEW q \in [Reqs -> Requests], NEW S
  PROVE  /\ Late(q, S) \in [Reqs -> Requests]
         /\ \A r \in Reqs : Late(q, S)[r].pc = q[r].pc /\ Late(q, S)[r].sid = q[r].sid
         /\ \A r \in Reqs : Late(q, S)[r].late = (r \in S \/ q[r].late)
BY DEF Late, Requests

(* How the requests look after one of them went on, and after one began with *)
(* a session.                                                              *)
LEMMA GotoFields ==
  ASSUME req \in [Reqs -> Requests], NEW r \in Reqs,
         NEW pc \in {"look", "wrong", "recover", "reset", "session", "insert", "other", "others"}
  PROVE  /\ Goto(r, pc) \in [Reqs -> Requests]
         /\ Goto(r, pc)[r].pc = pc /\ Goto(r, pc)[r].sid = req[r].sid
         /\ \A q \in Reqs \ {r} : Goto(r, pc)[q] = req[q]
BY DEF Goto, Requests

LEMMA EndFields ==
  ASSUME req \in [Reqs -> Requests], NEW r \in Reqs
  PROVE  /\ End(r) \in [Reqs -> Requests]
         /\ End(r)[r].pc = "idle"
         /\ \A q \in Reqs \ {r} : End(r)[q] = req[q]
BY IdleIsRequest DEF End, Idle

LEMMA WithSessionFields ==
  ASSUME TypeOK, NEW r \in Reqs, NEW s \in Sids,
         NEW pc \in {"change", "secret", "enable", "logout"}, NEW b \in BOOLEAN,
         WithSession(r, s, pc, b)
  PROVE  /\ user # Nothing /\ req[r].pc = "idle"
         /\ req' \in [Reqs -> Requests]
         /\ req'[r].pc = pc /\ req'[r].sid = s /\ ~req'[r].late
         /\ \A q \in Reqs \ {r} : req'[q] = req[q]
BY DEF WithSession, TypeOK, Idle, Requests

LEMMA AccountIsUser == ASSUME NEW admin \in BOOLEAN PROVE Account(admin) \in Users /\ Account(admin) # Nothing
<1>1. Account(admin) \in Users
  BY DEF Account, Users
<1>. QED  BY <1>1, NothingAssumption

LEMMA CountedStep == Counted /\ [Next]_vars => Counted'
<1>. SUFFICES ASSUME Counted, [Next]_vars PROVE wrong' = fails'
  BY DEF Counted
<1>1. ASSUME NEW r \in Reqs, Login(r) PROVE wrong' = fails'
  BY <1>1 DEF Counted, history, Login, BeginLogin, CheckPassword, Recover, RecordFail, ResetFails,
              OpenSession
<1>2. ASSUME NEW r \in Reqs, Register(r) PROVE wrong' = fails'
  BY <1>2 DEF Counted, history, Register, BeginRegister, InsertAdmin
<1>3. ASSUME NEW r \in Reqs, Settings(r) PROVE wrong' = fails'
  BY <1>3 DEF Counted, history, Settings, BeginPassword, ChangePassword, DeleteOthers, BeginSecret,
              SetSecret, BeginConfirm, EnableTOTP, SetRecoveryCodes, Logout
<1>4. ASSUME NEW s \in Sids, Expire(s) PROVE wrong' = fails'
  BY <1>4 DEF Counted, history, Expire
<1>5. CASE DropExpired \/ PurgeExpired \/ CreateUser \/ UNCHANGED vars
  BY <1>5 DEF Counted, vars, history, DropExpired, PurgeExpired, Drop, CreateUser
<1>6. CASE Forget \/ Restart
  BY <1>6 DEF Counted, Forget, Restart
<1>. QED  BY <1>1, <1>2, <1>3, <1>4, <1>5, <1>6 DEF Next

LEMMA TypedInit == Init => TypeOK /\ OfAccount
<1>. SUFFICES ASSUME Init PROVE TypeOK /\ OfAccount
  OBVIOUS
<1>1. TypeOK
  BY IdleIsRequest DEF Init, TypeOK
<1>2. OfAccount
  BY DEF Init, OfAccount, Idle
<1>. QED  BY <1>1, <1>2

LEMMA TypedStep == Counted /\ TypeOK /\ OfAccount /\ [Next]_vars => (TypeOK /\ OfAccount)'
<1>. SUFFICES ASSUME Counted, TypeOK, OfAccount, [Next]_vars PROVE TypeOK' /\ OfAccount'
  OBVIOUS
<1>0. req \in [Reqs -> Requests]
  BY DEF TypeOK
<1>1. ASSUME NEW r \in Reqs, BeginLogin(r) PROVE TypeOK' /\ OfAccount'
  <2>1. req' = Goto(r, "look") /\ UNCHANGED <<user, others, sessions, code, fails, wrong, proved, mixed>>
    BY <1>1 DEF BeginLogin, history
  <2>. QED  BY <1>0, <2>1, GotoFields DEF TypeOK, OfAccount
<1>2. ASSUME NEW r \in Reqs, CheckPassword(r) PROVE TypeOK' /\ OfAccount'
  <2>1. UNCHANGED <<user, others, sessions, code, fails, wrong, proved, mixed>>
    BY <1>2 DEF CheckPassword, history
  <2>2. CASE req' = Goto(r, "wrong") \/ req' = End(r) \/ (user # Nothing /\ req' = Goto(r, "reset"))
    <3>1. /\ req' \in [Reqs -> Requests] /\ \A q \in Reqs \ {r} : req'[q] = req[q]
          /\ req'[r].pc \in {"wrong", "idle"} \/ user # Nothing
      BY <1>0, <2>2, GotoFields, EndFields
    <3>. QED  BY <2>1, <3>1 DEF TypeOK, OfAccount
  <2>3. ASSUME NEW known \in BOOLEAN, user # Nothing,
               req' = [req EXCEPT ![r].pc = "recover", ![r].known = known]
        PROVE  TypeOK' /\ OfAccount'
    <3>. DEFINE next == [req[r] EXCEPT !.pc = "recover", !.known = known]
    <3>0. next \in Requests
      BY <1>0, <2>3 DEF Requests
    <3>1. req' \in [Reqs -> Requests] /\ \A q \in Reqs \ {r} : req'[q] = req[q]
      <4>1. req' = [req EXCEPT ![r] = next]
        BY <2>3
      <4>. HIDE DEF next
      <4>. QED  BY <1>0, <3>0, <4>1
    <3>. QED  BY <2>1, <2>3, <3>1 DEF TypeOK, OfAccount
  <2>. QED  BY <1>2, <2>2, <2>3 DEF CheckPassword
<1>3. ASSUME NEW r \in Reqs, Recover(r) PROVE TypeOK' /\ OfAccount'
  <2>1. UNCHANGED <<user, others, sessions, fails, wrong, proved, mixed>> /\ code' \in {code, "used"}
    BY <1>3 DEF Recover, history
  <2>2. PICK pc \in {"reset", "wrong"} : req' = [req EXCEPT ![r].pc = pc, ![r].known = FALSE]
    BY <1>3 DEF Recover
  <2>3. req' \in [Reqs -> Requests] /\ \A q \in Reqs \ {r} : req'[q] = req[q]
    <3>. DEFINE next == [req[r] EXCEPT !.pc = pc, !.known = FALSE]
    <3>1. next \in Requests
      BY <1>0, <2>2 DEF Requests
    <3>2. req' = [req EXCEPT ![r] = next]
      BY <2>2
    <3>. HIDE DEF next
    <3>. QED  BY <1>0, <3>1, <3>2
  <2>4. user # Nothing
    BY <1>3 DEF Recover, OfAccount
  <2>. QED  BY <2>1, <2>3, <2>4 DEF TypeOK, OfAccount
<1>4. ASSUME NEW r \in Reqs, RecordFail(r) \/ ResetFails(r) PROVE TypeOK' /\ OfAccount'
  <2>1. /\ req' = End(r) \/ (user # Nothing /\ req' = Goto(r, "session"))
        /\ UNCHANGED <<user, others, sessions, code, proved, mixed>> /\ fails' \in Nat /\ wrong' \in Nat
    BY <1>4 DEF RecordFail, ResetFails, TypeOK, OfAccount
  <2>2. /\ req' \in [Reqs -> Requests] /\ \A q \in Reqs \ {r} : req'[q] = req[q]
        /\ req'[r].pc = "idle" \/ user # Nothing
    BY <1>0, <2>1, GotoFields, EndFields
  <2>. QED  BY <2>1, <2>2 DEF TypeOK, OfAccount
<1>5. ASSUME NEW r \in Reqs, OpenSession(r) PROVE TypeOK' /\ OfAccount'
  <2>1. /\ req' = End(r) /\ UNCHANGED <<user, others, code, fails, wrong, proved, mixed>> /\ user # Nothing
    BY <1>5 DEF OpenSession, history, OfAccount
  <2>2. sessions' \in [Sids -> Sessions \cup {Nothing}]
    <3>1. \A w \in {"same", "excused"} : Session(w) \in Sessions
      BY DEF Session, Sessions
    <3>2. CASE UNCHANGED sessions
      BY <3>2 DEF TypeOK
    <3>3. ASSUME NEW s \in Sids, NEW w \in {"same", "excused"},
                 sessions' = [sessions EXCEPT ![s] = Session(w)]
          PROVE  sessions' \in [Sids -> Sessions \cup {Nothing}]
      BY <3>1, <3>3 DEF TypeOK
    <3>. QED  BY <1>5, <3>2, <3>3 DEF OpenSession, FreeSids
  <2>. QED  BY <1>0, <2>1, <2>2, EndFields DEF TypeOK, OfAccount
<1>6. ASSUME NEW r \in Reqs, BeginRegister(r) PROVE TypeOK' /\ OfAccount'
  <2>1. PICK pc \in {"insert", "other"} : req' = Goto(r, pc)
    BY <1>6 DEF BeginRegister
  <2>2. UNCHANGED <<user, others, sessions, code, fails, wrong, proved, mixed>>
    BY <1>6 DEF BeginRegister, history
  <2>3. /\ req' \in [Reqs -> Requests] /\ \A q \in Reqs \ {r} : req'[q] = req[q]
        /\ req'[r].pc \in {"insert", "other"}
    BY <1>0, <2>1, GotoFields
  <2>. QED  BY <2>2, <2>3 DEF TypeOK, OfAccount
<1>7. ASSUME NEW r \in Reqs, InsertAdmin(r) PROVE TypeOK' /\ OfAccount'
  <2>1. Account(TRUE) \in Users /\ Account(TRUE) # Nothing
    BY AccountIsUser
  <2>2. UNCHANGED <<sessions, code, fails, wrong, proved, mixed>> /\ others' \in BOOLEAN
    BY <1>7 DEF InsertAdmin, history, TypeOK
  <2>3. /\ user' = user \/ user' = Account(TRUE)
        /\ req' = End(r) \/ (user' = Account(TRUE) /\ req' = Goto(r, "session"))
    BY <1>7 DEF InsertAdmin
  <2>4. /\ req' \in [Reqs -> Requests] /\ \A q \in Reqs \ {r} : req'[q] = req[q]
        /\ req'[r].pc = "idle" \/ user' # Nothing
    <3>1. CASE req' = End(r)
      BY <1>0, <3>1, EndFields
    <3>2. CASE user' = Account(TRUE) /\ req' = Goto(r, "session")
      BY <1>0, <2>1, <3>2, GotoFields
    <3>. QED  BY <2>3, <3>1, <3>2
  <2>5. user' \in Users \cup {Nothing} /\ (user # Nothing => user' # Nothing)
    BY <2>1, <2>3 DEF TypeOK
  <2>. QED  BY <2>2, <2>4, <2>5 DEF TypeOK, OfAccount
<1>8. ASSUME NEW r \in Reqs, BeginPassword(r) \/ BeginSecret(r) \/ BeginConfirm(r)
      PROVE  TypeOK' /\ OfAccount'
  <2>1. /\ UNCHANGED <<user, others, sessions, code, fails, wrong, mixed>> /\ proved' \in BOOLEAN
    BY <1>8 DEF BeginPassword, BeginSecret, BeginConfirm, history, TypeOK
  <2>2. PICK s \in Sids, pc \in {"change", "secret", "enable"}, b \in BOOLEAN : WithSession(r, s, pc, b)
    BY <1>8 DEF BeginPassword, BeginSecret, BeginConfirm
  <2>. QED  BY <2>1, <2>2, WithSessionFields DEF TypeOK, OfAccount
<1>9. ASSUME NEW r \in Reqs, ChangePassword(r) PROVE TypeOK' /\ OfAccount'
  <2>1. UNCHANGED <<user, others, code, fails, wrong, proved, mixed>> /\ user # Nothing
    BY <1>9 DEF ChangePassword, history, OfAccount
  <2>2. sessions' \in [Sids -> Sessions \cup {Nothing}]
    BY <1>9 DEF ChangePassword, TypeOK, Sessions
  <2>3. req' \in [Reqs -> Requests]
    <3>1. Goto(r, "others") \in [Reqs -> Requests]
      BY <1>0, GotoFields
    <3>. QED  BY <1>9, <3>1, LateFields DEF ChangePassword
  <2>. QED  BY <2>1, <2>2, <2>3 DEF TypeOK, OfAccount
<1>10. ASSUME NEW r \in Reqs, DeleteOthers(r) PROVE TypeOK' /\ OfAccount'
  <2>1. /\ req' = End(r) /\ UNCHANGED <<user, others, code, fails, wrong, proved, mixed>> /\ user # Nothing
    BY <1>10 DEF DeleteOthers, history, OfAccount
  <2>2. sessions' \in [Sids -> Sessions \cup {Nothing}]
    BY <1>10 DEF DeleteOthers, TypeOK, Remember, Sessions
  <2>. QED  BY <1>0, <2>1, <2>2, EndFields DEF TypeOK, OfAccount
<1>11. ASSUME NEW r \in Reqs, SetSecret(r) PROVE TypeOK' /\ OfAccount'
  <2>1. /\ UNCHANGED <<others, sessions, code, fails, wrong>> /\ ~proved' /\ ~mixed'
        /\ proved' \in BOOLEAN /\ mixed' \in BOOLEAN
    BY <1>11 DEF SetSecret
  <2>2. user \in Users
    BY <1>11 DEF SetSecret, OfAccount, TypeOK
  <2>3. user' \in Users /\ user' # Nothing
    BY <1>11, <2>2, NothingAssumption DEF SetSecret, Users
  <2>4. req' \in [Reqs -> Requests]
    BY <1>0, <1>11, EndFields, LateFields DEF SetSecret
  <2>. QED  BY <2>1, <2>3, <2>4 DEF TypeOK, OfAccount
<1>12. ASSUME NEW r \in Reqs, EnableTOTP(r) PROVE TypeOK' /\ OfAccount'
  <2>1. UNCHANGED <<others, sessions, code, fails, wrong, proved>> /\ mixed' \in BOOLEAN
    BY <1>0, <1>12 DEF EnableTOTP, TypeOK, Requests
  <2>2. user \in Users
    BY <1>12 DEF EnableTOTP, OfAccount, TypeOK
  <2>3. user' \in Users /\ user' # Nothing
    BY <1>12, <2>2, NothingAssumption DEF EnableTOTP, Users
  <2>4. req' \in [Reqs -> Requests]
    <3>. DEFINE next == [req[r] EXCEPT !.pc = "codes", !.late = FALSE]
    <3>1. next \in Requests
      BY <1>0, <1>12 DEF Requests
    <3>2. req' = [req EXCEPT ![r] = next]
      BY <1>12 DEF EnableTOTP
    <3>. HIDE DEF next
    <3>. QED  BY <1>0, <3>1, <3>2
  <2>. QED  BY <2>1, <2>3, <2>4 DEF TypeOK, OfAccount
<1>13. ASSUME NEW r \in Reqs, SetRecoveryCodes(r) PROVE TypeOK' /\ OfAccount'
  <2>1. /\ UNCHANGED <<user, others, sessions, fails, wrong, proved, mixed>> /\ user # Nothing
        /\ code' \in {code, "fresh"}
    BY <1>13 DEF SetRecoveryCodes, history, OfAccount
  <2>2. req' \in [Reqs -> Requests]
    <3>1. \A q \in Reqs : [req[q] EXCEPT !.known = FALSE] \in Requests
      BY <1>0 DEF Requests
    <3>2. CASE req' = [x \in Reqs |-> IF x = r THEN Idle ELSE [req[x] EXCEPT !.known = FALSE]]
      BY <3>1, <3>2, IdleIsRequest
    <3>. QED  BY <1>0, <1>13, <3>2, EndFields DEF SetRecoveryCodes
  <2>. QED  BY <2>1, <2>2 DEF TypeOK, OfAccount
<1>14. ASSUME NEW r \in Reqs, Logout(r) PROVE TypeOK' /\ OfAccount'
  <2>1. UNCHANGED <<user, others, code, fails, wrong, proved, mixed>>
    BY <1>14 DEF Logout, history
  <2>2. CASE \E s \in Sids : WithSession(r, s, "logout", FALSE) /\ UNCHANGED sessions
    BY <2>1, <2>2, WithSessionFields DEF TypeOK, OfAccount
  <2>3. CASE req' = End(r) /\ sessions' = [sessions EXCEPT ![req[r].sid] = Nothing]
    BY <1>0, <2>1, <2>3, EndFields DEF TypeOK, OfAccount
  <2>. QED  BY <1>14, <2>2, <2>3 DEF Logout
<1>15. ASSUME NEW s \in Sids, Expire(s) PROVE TypeOK' /\ OfAccount'
  <2>1. UNCHANGED <<user, others, code, fails, req, wrong, proved, mixed>> /\ user # Nothing
    BY <1>15 DEF Expire, history, TypeOK
  <2>2. sessions' \in [Sids -> Sessions \cup {Nothing}]
    BY <1>15 DEF Expire, TypeOK, Sessions
  <2>. QED  BY <2>1, <2>2 DEF TypeOK, OfAccount
<1>16. ASSUME NEW S, Drop(S) PROVE TypeOK' /\ OfAccount'
  BY <1>16 DEF Drop, history, TypeOK, OfAccount
<1>17. ASSUME Forget PROVE TypeOK' /\ OfAccount'
  <2>1. /\ fails' \in Nat /\ wrong' = wrong - 1
        /\ UNCHANGED <<user, others, sessions, code, req, proved, mixed>>
    BY <1>17 DEF Forget, TypeOK, Counted
  <2>2. wrong' \in Nat
    BY <1>17 DEF Forget, TypeOK, Counted
  <2>. QED  BY <2>1, <2>2 DEF TypeOK, OfAccount
<1>18. ASSUME CreateUser PROVE TypeOK' /\ OfAccount'
  <2>1. Account(FALSE) \in Users /\ Account(FALSE) # Nothing
    BY AccountIsUser
  <2>2. /\ user' = Account(FALSE)
        /\ UNCHANGED <<others, sessions, code, fails, req, wrong, proved, mixed>>
    BY <1>18 DEF CreateUser, history
  <2>. QED  BY <2>1, <2>2 DEF TypeOK, OfAccount
<1>19. ASSUME Restart PROVE TypeOK' /\ OfAccount'
  <2>1. UNCHANGED <<user, others, code, proved, mixed>> /\ fails' = 0 /\ wrong' = 0
        /\ req' = [r \in Reqs |-> Idle]
    BY <1>19 DEF Restart
  <2>2. /\ sessions' \in [Sids -> Sessions \cup {Nothing}]
        /\ \A s \in Sids : sessions'[s] # Nothing => sessions[s] # Nothing
    BY <1>19 DEF Restart, TypeOK, Remember, Sessions
  <2>. QED  BY <2>1, <2>2, IdleIsRequest DEF TypeOK, OfAccount, Idle
<1>20. CASE UNCHANGED vars
  BY <1>20 DEF vars, history, TypeOK, OfAccount
<1>. QED  BY <1>1, <1>2, <1>3, <1>4, <1>5, <1>6, <1>7, <1>8, <1>9, <1>10, <1>11, <1>12, <1>13,
             <1>14, <1>15, <1>16, <1>17, <1>18, <1>19, <1>20
          DEF Next, Login, Register, Settings, DropExpired, PurgeExpired

-------------------------------------------------------------------------------
(* ------------------- sessions with an old password -------------------- *)

(* The other actions leave who is ending sessions at that, and make no         *)
(* session older.                                                          *)
LEMMA NobodyAges ==
  ASSUME OldIsBeingEnded,
         \A s \in Sids : sessions'[s] # Nothing /\ sessions'[s].since = "old"
                           => sessions[s] # Nothing /\ sessions[s].since = "old",
         \A r \in Reqs : req[r].pc = "others" => req'[r].pc = "others" /\ req'[r].sid = req[r].sid
  PROVE  OldIsBeingEnded'
<1>. SUFFICES ASSUME NEW s \in Sids, sessions'[s] # Nothing, sessions'[s].since = "old"
              PROVE  \E r \in Reqs : req'[r].pc = "others" /\ req'[r].sid # s
  BY DEF OldIsBeingEnded
<1>1. PICK r \in Reqs : req[r].pc = "others" /\ req[r].sid # s
  BY DEF OldIsBeingEnded
<1>. QED  BY <1>1

LEMMA OldStep ==
  TypeOK /\ OldIsBeingEnded /\ [Next]_vars => OldIsBeingEnded'
<1>. SUFFICES ASSUME TypeOK, OldIsBeingEnded, [Next]_vars PROVE OldIsBeingEnded'
  OBVIOUS
<1>0. req \in [Reqs -> Requests]
  BY DEF TypeOK
<1>1. ASSUME NEW r \in Reqs, UNCHANGED sessions, req[r].pc # "others",
             \A q \in Reqs \ {r} : req'[q].pc = req[q].pc /\ req'[q].sid = req[q].sid
      PROVE  OldIsBeingEnded'
  BY <1>1, NobodyAges
<1>2. ASSUME NEW r \in Reqs,
             BeginLogin(r) \/ CheckPassword(r) \/ Recover(r) \/ RecordFail(r) \/ ResetFails(r)
             \/ BeginRegister(r) \/ InsertAdmin(r) \/ EnableTOTP(r)
      PROVE  OldIsBeingEnded'
  <2>1. UNCHANGED sessions /\ req[r].pc # "others"
    BY <1>2 DEF BeginLogin, CheckPassword, Recover, RecordFail, ResetFails, BeginRegister,
                InsertAdmin, EnableTOTP
  <2>2. \A q \in Reqs \ {r} : req'[q] = req[q]
    BY <1>0, <1>2 DEF BeginLogin, CheckPassword, Recover, RecordFail, ResetFails, BeginRegister,
                      InsertAdmin, EnableTOTP, Goto, End
  <2>. QED  BY <1>1, <2>1, <2>2
<1>3. ASSUME NEW r \in Reqs, OpenSession(r) PROVE OldIsBeingEnded'
  <2>1. \A s \in Sids : sessions'[s] = sessions[s] \/ sessions'[s].since # "old"
    BY <1>3 DEF OpenSession, Session, TypeOK, FreeSids
  <2>2. req[r].pc # "others" /\ \A q \in Reqs \ {r} : req'[q] = req[q]
    BY <1>0, <1>3, EndFields DEF OpenSession
  <2>. QED  BY <2>1, <2>2, NobodyAges
<1>4. ASSUME NEW r \in Reqs, BeginPassword(r) \/ BeginSecret(r) \/ BeginConfirm(r)
      PROVE  OldIsBeingEnded'
  <2>1. UNCHANGED sessions
    BY <1>4 DEF BeginPassword, BeginSecret, BeginConfirm
  <2>2. PICK s \in Sids, pc \in {"change", "secret", "enable"}, b \in BOOLEAN : WithSession(r, s, pc, b)
    BY <1>4 DEF BeginPassword, BeginSecret, BeginConfirm
  <2>. QED  BY <1>1, <2>1, <2>2, WithSessionFields
<1>5. ASSUME NEW r \in Reqs, ChangePassword(r) PROVE OldIsBeingEnded'
  <2>1. Goto(r, "others") \in [Reqs -> Requests] /\ Goto(r, "others")[r].pc = "others"
        /\ Goto(r, "others")[r].sid = req[r].sid
        /\ \A q \in Reqs \ {r} : Goto(r, "others")[q] = req[q]
    BY <1>0, GotoFields
  <2>2. /\ req'[r].pc = "others" /\ req'[r].sid = req[r].sid
        /\ \A q \in Reqs \ {r} : req'[q].pc = req[q].pc /\ req'[q].sid = req[q].sid
    BY <1>5, <2>1, LateFields DEF ChangePassword
  <2>. SUFFICES ASSUME NEW s \in Sids, sessions'[s] # Nothing, sessions'[s].since = "old"
                PROVE  \E q \in Reqs : req'[q].pc = "others" /\ req'[q].sid # s
    BY DEF OldIsBeingEnded
  <2>3. s # req[r].sid
    <3>. SUFFICES ASSUME s = req[r].sid PROVE FALSE
      OBVIOUS
    <3>1. sessions'[s] = [sessions[s] EXCEPT !.since = "same"] /\ sessions[s] \in Sessions
      BY <1>5 DEF ChangePassword, TypeOK
    <3>. QED  BY <3>1 DEF Sessions
  <2>. QED  BY <2>2, <2>3
<1>6. ASSUME NEW r \in Reqs, DeleteOthers(r) PROVE OldIsBeingEnded'
  <2>. SUFFICES ASSUME NEW s \in Sids, sessions'[s] # Nothing, sessions'[s].since = "old"
                PROVE  \E q \in Reqs : req'[q].pc = "others" /\ req'[q].sid # s
    BY DEF OldIsBeingEnded
  <2>1. s = req[r].sid /\ sessions[s] = sessions'[s]
    BY <1>6 DEF DeleteOthers, Remember, TypeOK, Sessions
  <2>2. PICK q \in Reqs : req[q].pc = "others" /\ req[q].sid # s
    BY <2>1 DEF OldIsBeingEnded
  <2>3. q # r /\ req'[q] = req[q]
    BY <1>0, <1>6, <2>1, <2>2, EndFields DEF DeleteOthers
  <2>. QED  BY <2>2, <2>3
<1>7. ASSUME NEW r \in Reqs, SetSecret(r) PROVE OldIsBeingEnded'
  <2>1. req[r].pc # "others" /\ UNCHANGED sessions
    BY <1>7 DEF SetSecret
  <2>2. \A q \in Reqs \ {r} : req'[q].pc = req[q].pc /\ req'[q].sid = req[q].sid
    BY <1>0, <1>7, EndFields, LateFields DEF SetSecret
  <2>. QED  BY <1>1, <2>1, <2>2
<1>8. ASSUME NEW r \in Reqs, SetRecoveryCodes(r) PROVE OldIsBeingEnded'
  <2>1. req[r].pc # "others" /\ UNCHANGED sessions
    BY <1>8 DEF SetRecoveryCodes
  <2>2. ASSUME NEW q \in Reqs \ {r} PROVE req'[q].pc = req[q].pc /\ req'[q].sid = req[q].sid
    <3>1. CASE req' = End(r)
      BY <1>0, <3>1, EndFields
    <3>2. CASE req'[q] = [req[q] EXCEPT !.known = FALSE]
      BY <1>0, <3>2 DEF Requests
    <3>. QED  BY <1>8, <3>1, <3>2 DEF SetRecoveryCodes
  <2>. QED  BY <1>1, <2>1, <2>2
<1>9. ASSUME NEW r \in Reqs, Logout(r) PROVE OldIsBeingEnded'
  <2>1. CASE \E s \in Sids : WithSession(r, s, "logout", FALSE) /\ UNCHANGED sessions
    BY <1>1, <2>1, WithSessionFields
  <2>2. CASE /\ req[r].pc = "logout" /\ req' = End(r)
             /\ sessions' = [sessions EXCEPT ![req[r].sid] = Nothing]
    <3>1. \A q \in Reqs \ {r} : req'[q] = req[q]
      BY <1>0, <2>2, EndFields
    <3>2. \A s \in Sids : sessions'[s] = sessions[s] \/ sessions'[s] = Nothing
      BY <2>2 DEF TypeOK
    <3>. QED  BY <2>2, <3>1, <3>2, NobodyAges
  <2>. QED  BY <1>9, <2>1, <2>2 DEF Logout
<1>10. ASSUME NEW s \in Sids, Expire(s) PROVE OldIsBeingEnded'
  <2>1. UNCHANGED req /\ sessions[s] # Nothing /\ sessions' = [sessions EXCEPT ![s].expired = TRUE]
    BY <1>10 DEF Expire
  <2>2. \A x \in Sids : x # s => sessions'[x] = sessions[x]
    BY <2>1 DEF TypeOK
  <2>3. sessions'[s].since = sessions[s].since
    BY <2>1 DEF TypeOK, Sessions
  <2>. QED  BY <2>1, <2>2, <2>3, NobodyAges
<1>11. ASSUME NEW S, Drop(S) PROVE OldIsBeingEnded'
  BY <1>11, NobodyAges DEF Drop
<1>12. CASE Forget \/ CreateUser \/ UNCHANGED vars
  BY <1>12, NobodyAges DEF Forget, CreateUser, vars
<1>13. ASSUME Restart PROVE OldIsBeingEnded'
  <2>. SUFFICES ASSUME NEW s \in Sids, sessions'[s] # Nothing, sessions'[s].since = "old" PROVE FALSE
    BY DEF OldIsBeingEnded
  <2>. DEFINE cut == At(req, {"others"})
              old == {x \in Sids : sessions[x] # Nothing /\ sessions[x].since = "old"}
  <2>1. sessions' = Remember("excused", IF cut = {} THEN {} ELSE old)
    BY <1>13 DEF Restart
  <2>2. CASE s \in old /\ cut # {}
    <3>1. sessions'[s] = [sessions[s] EXCEPT !.since = "excused"] /\ sessions[s] \in Sessions
      BY <2>1, <2>2 DEF Remember, TypeOK
    <3>. QED  BY <3>1 DEF Sessions
  <2>3. CASE ~(s \in old /\ cut # {})
    <3>1. sessions'[s] = sessions[s]
      BY <2>1, <2>3 DEF Remember
    <3>2. PICK r \in Reqs : req[r].pc = "others"
      BY <3>1 DEF OldIsBeingEnded
    <3>. QED  BY <2>3, <3>1, <3>2 DEF At
  <2>. QED  BY <2>2, <2>3
<1>. QED  BY <1>2, <1>3, <1>4, <1>5, <1>6, <1>7, <1>8, <1>9, <1>10, <1>11, <1>12, <1>13
          DEF Next, Login, Register, Settings, DropExpired, PurgeExpired

-------------------------------------------------------------------------------
(* --------------------------- the second factor ------------------------ *)

(* The actions that do not touch the account or what was shown of its secret, *)
(* and let nobody begin or end the confirmation of a secret.                 *)
LEMMA SecretUntouched ==
  ASSUME SeenBeforeEnabling, EnabledIsProved, UNCHANGED <<user, proved, mixed>>,
         \A r \in Reqs : req'[r].pc = "enable" => req[r].pc = "enable" /\ req'[r].late = req[r].late
  PROVE  SeenBeforeEnabling' /\ EnabledIsProved'
BY DEF SeenBeforeEnabling, EnabledIsProved

LEMMA EnabledStep ==
  TypeOK /\ OfAccount /\ SeenBeforeEnabling /\ EnabledIsProved /\ [Next]_vars
    => (SeenBeforeEnabling /\ EnabledIsProved)'
<1>. SUFFICES ASSUME TypeOK, OfAccount, SeenBeforeEnabling, EnabledIsProved, [Next]_vars
              PROVE  SeenBeforeEnabling' /\ EnabledIsProved'
  OBVIOUS
<1>0. req \in [Reqs -> Requests]
  BY DEF TypeOK
<1>1. ASSUME NEW r \in Reqs, UNCHANGED <<user, proved, mixed>>, req'[r].pc # "enable",
             \A q \in Reqs \ {r} : req'[q].pc = req[q].pc /\ req'[q].late = req[q].late
      PROVE  SeenBeforeEnabling' /\ EnabledIsProved'
  BY <1>1, SecretUntouched
<1>2. ASSUME NEW r \in Reqs,
             BeginLogin(r) \/ RecordFail(r) \/ ResetFails(r) \/ OpenSession(r)
             \/ BeginRegister(r) \/ DeleteOthers(r)
      PROVE  SeenBeforeEnabling' /\ EnabledIsProved'
  <2>1. UNCHANGED <<user, proved, mixed>>
    BY <1>2 DEF BeginLogin, RecordFail, ResetFails, OpenSession, BeginRegister, DeleteOthers, history
  <2>2. PICK pc \in {"look", "session", "insert", "other"} : req' = Goto(r, pc) \/ req' = End(r)
    BY <1>2 DEF BeginLogin, RecordFail, ResetFails, OpenSession, BeginRegister, DeleteOthers
  <2>3. req'[r].pc # "enable" /\ \A q \in Reqs \ {r} : req'[q] = req[q]
    BY <1>0, <2>2, GotoFields, EndFields
  <2>. QED  BY <1>1, <2>1, <2>3
<1>3. ASSUME NEW r \in Reqs, CheckPassword(r) \/ Recover(r)
      PROVE  SeenBeforeEnabling' /\ EnabledIsProved'
  <2>1. UNCHANGED <<user, proved, mixed>>
    BY <1>3 DEF CheckPassword, Recover, history
  <2>2. req'[r].pc # "enable" /\ \A q \in Reqs \ {r} : req'[q] = req[q]
    <3>1. CASE req' = End(r) \/ req' = Goto(r, "wrong") \/ req' = Goto(r, "reset")
      BY <1>0, <3>1, GotoFields, EndFields
    <3>2. ASSUME NEW pc \in {"recover", "reset", "wrong"}, NEW known,
                 req' = [req EXCEPT ![r].pc = pc, ![r].known = known]
          PROVE  req'[r].pc # "enable" /\ \A q \in Reqs \ {r} : req'[q] = req[q]
      BY <1>0, <3>2 DEF Requests
    <3>. QED  BY <1>3, <3>1, <3>2 DEF CheckPassword, Recover
  <2>. QED  BY <1>1, <2>1, <2>2
<1>4. ASSUME NEW r \in Reqs, InsertAdmin(r) PROVE SeenBeforeEnabling' /\ EnabledIsProved'
  <2>1. UNCHANGED <<proved, mixed>> /\ (user' = user \/ (user = Nothing /\ user' = Account(TRUE)))
    BY <1>4 DEF InsertAdmin, history
  <2>2. req'[r].pc # "enable" /\ \A q \in Reqs \ {r} : req'[q] = req[q]
    <3>1. req' = End(r) \/ req' = Goto(r, "session")
      BY <1>4 DEF InsertAdmin
    <3>. QED  BY <1>0, <3>1, GotoFields, EndFields
  <2>3. CASE user' = user
    BY <1>1, <2>1, <2>2, <2>3
  <2>4. CASE user = Nothing /\ user' = Account(TRUE)
    BY <2>2, <2>4 DEF OfAccount, SeenBeforeEnabling, EnabledIsProved, Account
  <2>. QED  BY <2>1, <2>3, <2>4
<1>5. ASSUME NEW r \in Reqs, BeginPassword(r) \/ BeginSecret(r)
      PROVE  SeenBeforeEnabling' /\ EnabledIsProved'
  <2>1. UNCHANGED <<user, proved, mixed>>
    BY <1>5 DEF BeginPassword, BeginSecret, history
  <2>2. PICK s \in Sids, pc \in {"change", "secret"}, b \in BOOLEAN : WithSession(r, s, pc, b)
    BY <1>5 DEF BeginPassword, BeginSecret
  <2>3. req'[r].pc = pc /\ \A q \in Reqs \ {r} : req'[q] = req[q]
    BY <2>2, WithSessionFields
  <2>. QED  BY <1>1, <2>1, <2>3
<1>6. ASSUME NEW r \in Reqs, BeginConfirm(r) PROVE SeenBeforeEnabling' /\ EnabledIsProved'
  BY <1>6 DEF BeginConfirm, SeenBeforeEnabling, EnabledIsProved
<1>7. ASSUME NEW r \in Reqs, ChangePassword(r) PROVE SeenBeforeEnabling' /\ EnabledIsProved'
  <2>1. UNCHANGED <<user, proved, mixed>>
    BY <1>7 DEF ChangePassword, history
  <2>. DEFINE on == Goto(r, "others")
              S == At(req, {"recover", "reset", "session"})
  <2>2. on \in [Reqs -> Requests] /\ on[r].pc = "others" /\ \A q \in Reqs \ {r} : on[q] = req[q]
    BY <1>0, GotoFields
  <2>3. req' = Late(on, S)
    BY <1>7 DEF ChangePassword
  <2>4. \A q \in S : req[q].pc # "enable"
    BY DEF At
  <2>. HIDE DEF on, S
  <2>5. \A q \in Reqs : req'[q].pc = on[q].pc /\ req'[q].late = (q \in S \/ on[q].late)
    BY <2>2, <2>3, LateFields
  <2>6. \A q \in Reqs : req[q].late \in BOOLEAN
    BY <1>0 DEF Requests
  <2>7. ASSUME NEW q \in Reqs, req'[q].pc = "enable"
        PROVE  req[q].pc = "enable" /\ req'[q].late = req[q].late
    BY <2>2, <2>4, <2>5, <2>6, <2>7
  <2>. QED  BY <2>1, <2>7, SecretUntouched
<1>8. ASSUME NEW r \in Reqs, SetSecret(r) PROVE SeenBeforeEnabling' /\ EnabledIsProved'
  <2>1. user \in Users
    BY <1>8 DEF SetSecret, OfAccount, TypeOK
  <2>2. user'.secret = TRUE /\ user'.enabled = FALSE
    BY <1>8, <2>1 DEF SetSecret, Users
  <2>. DEFINE S == At(req, {"enable"})
  <2>3. req' = Late(End(r), S)
    BY <1>8 DEF SetSecret
  <2>4. \A q \in Reqs : req'[q].pc = End(r)[q].pc /\ req'[q].late = (q \in S \/ End(r)[q].late)
    <3>1. End(r) \in [Reqs -> Requests]
      BY <1>0, EndFields
    <3>. HIDE DEF S
    <3>. QED  BY <2>3, <3>1, LateFields
  <2>5. ASSUME NEW q \in Reqs, req'[q].pc = "enable" PROVE req'[q].late
    <3>1. End(r)[q].pc = "enable"
      BY <2>4, <2>5
    <3>2. req[q].pc = "enable"
      BY <1>0, <3>1, EndFields
    <3>. QED  BY <2>4, <3>2 DEF At
  <2>. QED  BY <2>2, <2>5 DEF SeenBeforeEnabling, EnabledIsProved
<1>9. ASSUME NEW r \in Reqs, EnableTOTP(r) PROVE SeenBeforeEnabling' /\ EnabledIsProved'
  <2>1. /\ user \in Users /\ req[r].pc = "enable" /\ user' = [user EXCEPT !.enabled = TRUE]
        /\ mixed' = (mixed \/ req[r].late) /\ UNCHANGED proved
        /\ req' = [req EXCEPT ![r].pc = "codes", ![r].late = FALSE]
    BY <1>9 DEF EnableTOTP, OfAccount, TypeOK
  <2>2. user'.secret = user.secret /\ user.secret /\ (proved \/ req[r].late)
    BY <2>1 DEF SeenBeforeEnabling, Users
  <2>3. req'[r].pc = "codes" /\ \A q \in Reqs \ {r} : req'[q] = req[q]
    BY <1>0, <2>1 DEF Requests
  <2>. QED  BY <2>1, <2>2, <2>3 DEF SeenBeforeEnabling, EnabledIsProved
<1>10. ASSUME NEW r \in Reqs, SetRecoveryCodes(r) PROVE SeenBeforeEnabling' /\ EnabledIsProved'
  <2>1. UNCHANGED <<user, proved, mixed>>
    BY <1>10 DEF SetRecoveryCodes, history
  <2>2. CASE req' = End(r)
    BY <1>0, <1>1, <2>1, <2>2, EndFields
  <2>3. CASE req' = [x \in Reqs |-> IF x = r THEN Idle ELSE [req[x] EXCEPT !.known = FALSE]]
    <3>1. \A q \in Reqs \ {r} : req'[q].pc = req[q].pc /\ req'[q].late = req[q].late
      BY <1>0, <2>3 DEF Requests
    <3>. QED  BY <1>1, <2>1, <2>3, <3>1 DEF Idle
  <2>. QED  BY <1>10, <2>2, <2>3 DEF SetRecoveryCodes
<1>11. ASSUME NEW r \in Reqs, Logout(r) PROVE SeenBeforeEnabling' /\ EnabledIsProved'
  <2>1. UNCHANGED <<user, proved, mixed>>
    BY <1>11 DEF Logout, history
  <2>2. CASE \E s \in Sids : WithSession(r, s, "logout", FALSE)
    BY <1>1, <2>1, <2>2, WithSessionFields
  <2>3. CASE req' = End(r)
    BY <1>0, <1>1, <2>1, <2>3, EndFields
  <2>. QED  BY <1>11, <2>2, <2>3 DEF Logout
<1>12. ASSUME NEW S, Drop(S) PROVE SeenBeforeEnabling' /\ EnabledIsProved'
  BY <1>12, SecretUntouched DEF Drop, history
<1>13. ASSUME NEW s \in Sids, Expire(s) PROVE SeenBeforeEnabling' /\ EnabledIsProved'
  BY <1>13, SecretUntouched DEF Expire, history
<1>14. CASE Forget \/ UNCHANGED vars
  BY <1>14, SecretUntouched DEF Forget, vars, history
<1>15. CASE CreateUser
  <2>1. user = Nothing /\ user' = Account(FALSE) /\ UNCHANGED <<req, proved, mixed>>
    BY <1>15 DEF CreateUser, history
  <2>2. SeenBeforeEnabling'
    BY <2>1 DEF OfAccount, SeenBeforeEnabling
  <2>. QED  BY <2>1, <2>2 DEF EnabledIsProved, Account
<1>16. CASE Restart
  BY <1>16, SecretUntouched DEF Restart, Idle
<1>. QED  BY <1>2, <1>3, <1>4, <1>5, <1>6, <1>7, <1>8, <1>9, <1>10, <1>11, <1>12, <1>13, <1>14,
             <1>15, <1>16
          DEF Next, Login, Register, Settings, DropExpired, PurgeExpired

-------------------------------------------------------------------------------
(* ------------------------ the limit on guesses ------------------------ *)

LEMMA GuessersCount ==
  /\ IsFiniteSet(Guessing) /\ Cardinality(Guessing) \in Nat
  /\ Cardinality(Reqs) \in Nat /\ Cardinality(Guessing) <= Cardinality(Reqs)
<1>1. Guessing \subseteq Reqs
  BY DEF Guessing, At
<1>. QED  BY <1>1, RequestsAssumption, FS_Subset, FS_CardinalityType

(* No new guess is let through, and none is forgotten that was not counted.   *)
LEMMA NoMoreGuesses ==
  ASSUME TypeOK, LetThrough, fails' \in Nat, fails' <= fails, Guessing' \subseteq Guessing
  PROVE  LetThrough'
<1>1. IsFiniteSet(Guessing') /\ Cardinality(Guessing') <= Cardinality(Guessing)
      /\ Cardinality(Guessing') \in Nat
  BY GuessersCount, FS_Subset, FS_CardinalityType
<1>. QED  BY <1>1, GuessersCount, LimitAssumption DEF LetThrough, TypeOK

LEMMA GuessStep == TypeOK /\ LetThrough /\ [Next]_vars => LetThrough'
<1>. SUFFICES ASSUME TypeOK, LetThrough, [Next]_vars PROVE LetThrough'
  OBVIOUS
<1>0. req \in [Reqs -> Requests] /\ fails \in Nat
  BY DEF TypeOK
<1>1. ASSUME NEW r \in Reqs, UNCHANGED fails, req'[r].pc \notin {"look", "recover", "wrong"},
             \A q \in Reqs \ {r} : req'[q].pc = req[q].pc
      PROVE  LetThrough'
  <2>1. Guessing' \subseteq Guessing
    BY <1>1 DEF Guessing, At
  <2>. QED  BY <1>0, <1>1, <2>1, NoMoreGuesses
<1>2. ASSUME NEW r \in Reqs, BeginLogin(r) PROVE LetThrough'
  <2>1. fails' = fails /\ fails <= MaxFails - 1
    BY <1>0, <1>2, LimitAssumption DEF BeginLogin, history
  <2>2. Guessing' \subseteq Reqs
    BY DEF Guessing, At
  <2>3. Cardinality(Guessing') <= Cardinality(Reqs) /\ Cardinality(Guessing') \in Nat
    BY <2>2, RequestsAssumption, FS_Subset, FS_CardinalityType
  <2>. QED  BY <1>0, <2>1, <2>3, GuessersCount, LimitAssumption DEF LetThrough
<1>3. ASSUME NEW r \in Reqs, CheckPassword(r) \/ Recover(r) PROVE LetThrough'
  <2>1. UNCHANGED fails /\ req[r].pc \in {"look", "recover"}
    BY <1>3 DEF CheckPassword, Recover
  <2>2. \A q \in Reqs \ {r} : req'[q] = req[q]
    BY <1>0, <1>3 DEF CheckPassword, Recover, Goto, End
  <2>3. Guessing' \subseteq Guessing
    BY <2>1, <2>2 DEF Guessing, At
  <2>. QED  BY <1>0, <2>1, <2>3, NoMoreGuesses
<1>4. ASSUME NEW r \in Reqs, RecordFail(r) PROVE LetThrough'
  <2>1. fails' = fails + 1 /\ req' = End(r) /\ r \in Guessing
    BY <1>4 DEF RecordFail, Guessing, At
  <2>2. req'[r].pc = "idle" /\ \A q \in Reqs \ {r} : req'[q] = req[q]
    BY <1>0, <2>1, EndFields
  <2>3. Guessing' = Guessing \ {r}
    BY <2>2 DEF Guessing, At
  <2>4. Cardinality(Guessing') = Cardinality(Guessing) - 1
    BY <2>1, <2>3, GuessersCount, FS_RemoveElement
  <2>. QED  BY <1>0, <2>1, <2>4, GuessersCount, LimitAssumption DEF LetThrough
<1>5. ASSUME NEW r \in Reqs, ResetFails(r) PROVE LetThrough'
  <2>1. fails' = 0 /\ req' = Goto(r, "session")
    BY <1>5 DEF ResetFails
  <2>2. req'[r].pc = "session" /\ \A q \in Reqs \ {r} : req'[q] = req[q]
    BY <1>0, <2>1, GotoFields
  <2>3. Guessing' \subseteq Guessing
    BY <2>2 DEF Guessing, At
  <2>. QED  BY <1>0, <2>1, <2>3, NoMoreGuesses
<1>6. ASSUME NEW r \in Reqs, BeginRegister(r) \/ InsertAdmin(r) \/ OpenSession(r) \/ DeleteOthers(r)
      PROVE  LetThrough'
  <2>1. UNCHANGED fails
    BY <1>6 DEF BeginRegister, InsertAdmin, OpenSession, DeleteOthers
  <2>2. PICK pc \in {"session", "insert", "other"} : req' = Goto(r, pc) \/ req' = End(r)
    BY <1>6 DEF BeginRegister, InsertAdmin, OpenSession, DeleteOthers
  <2>3. req'[r].pc \in {"session", "insert", "other", "idle"} /\ \A q \in Reqs \ {r} : req'[q] = req[q]
    BY <1>0, <2>2, GotoFields, EndFields
  <2>. QED  BY <1>1, <2>1, <2>3
<1>7. ASSUME NEW r \in Reqs, BeginPassword(r) \/ BeginSecret(r) \/ BeginConfirm(r) PROVE LetThrough'
  <2>1. UNCHANGED fails
    BY <1>7 DEF BeginPassword, BeginSecret, BeginConfirm
  <2>2. PICK s \in Sids, pc \in {"change", "secret", "enable"}, b \in BOOLEAN : WithSession(r, s, pc, b)
    BY <1>7 DEF BeginPassword, BeginSecret, BeginConfirm
  <2>3. req'[r].pc = pc /\ \A q \in Reqs \ {r} : req'[q] = req[q]
    BY <2>2, WithSessionFields
  <2>. QED  BY <1>1, <2>1, <2>3
<1>8. ASSUME NEW r \in Reqs, ChangePassword(r) PROVE LetThrough'
  <2>1. UNCHANGED fails
    BY <1>8 DEF ChangePassword
  <2>2. Goto(r, "others") \in [Reqs -> Requests] /\ Goto(r, "others")[r].pc = "others"
        /\ \A q \in Reqs \ {r} : Goto(r, "others")[q] = req[q]
    BY <1>0, GotoFields
  <2>3. req'[r].pc = "others" /\ \A q \in Reqs \ {r} : req'[q].pc = req[q].pc
    BY <1>8, <2>2, LateFields DEF ChangePassword
  <2>. QED  BY <1>1, <2>1, <2>3
<1>9. ASSUME NEW r \in Reqs, SetSecret(r) PROVE LetThrough'
  <2>1. UNCHANGED fails
    BY <1>9 DEF SetSecret
  <2>2. req'[r].pc = "idle" /\ \A q \in Reqs \ {r} : req'[q].pc = req[q].pc
    BY <1>0, <1>9, EndFields, LateFields DEF SetSecret
  <2>. QED  BY <1>1, <2>1, <2>2
<1>10. ASSUME NEW r \in Reqs, EnableTOTP(r) PROVE LetThrough'
  <2>1. UNCHANGED fails /\ req' = [req EXCEPT ![r].pc = "codes", ![r].late = FALSE]
    BY <1>10 DEF EnableTOTP
  <2>2. req'[r].pc = "codes" /\ \A q \in Reqs \ {r} : req'[q] = req[q]
    BY <1>0, <2>1 DEF Requests
  <2>. QED  BY <1>1, <2>1, <2>2
<1>11. ASSUME NEW r \in Reqs, SetRecoveryCodes(r) PROVE LetThrough'
  <2>1. UNCHANGED fails
    BY <1>11 DEF SetRecoveryCodes
  <2>2. CASE req' = End(r)
    BY <1>0, <1>1, <2>1, <2>2, EndFields
  <2>3. CASE req' = [x \in Reqs |-> IF x = r THEN Idle ELSE [req[x] EXCEPT !.known = FALSE]]
    <3>1. \A q \in Reqs \ {r} : req'[q].pc = req[q].pc
      BY <1>0, <2>3 DEF Requests
    <3>. QED  BY <1>1, <2>1, <2>3, <3>1 DEF Idle
  <2>. QED  BY <1>11, <2>2, <2>3 DEF SetRecoveryCodes
<1>12. ASSUME NEW r \in Reqs, Logout(r) PROVE LetThrough'
  <2>1. UNCHANGED fails
    BY <1>12 DEF Logout
  <2>2. CASE \E s \in Sids : WithSession(r, s, "logout", FALSE)
    BY <1>1, <2>1, <2>2, WithSessionFields
  <2>3. CASE req' = End(r)
    BY <1>0, <1>1, <2>1, <2>3, EndFields
  <2>. QED  BY <1>12, <2>2, <2>3 DEF Logout
<1>13. CASE /\ UNCHANGED req
            /\ UNCHANGED fails \/ (fails > 0 /\ fails' = fails - 1)
  <2>1. Guessing' = Guessing
    BY <1>13 DEF Guessing, At
  <2>2. fails' \in Nat /\ fails' <= fails
    BY <1>0, <1>13
  <2>. QED  BY <2>1, <2>2, NoMoreGuesses
<1>14. CASE (\E s \in Sids : Expire(s)) \/ DropExpired \/ PurgeExpired \/ Forget \/ CreateUser
            \/ UNCHANGED vars
  BY <1>13, <1>14 DEF Expire, DropExpired, PurgeExpired, Drop, Forget, CreateUser, vars
<1>15. CASE Restart
  <2>1. fails' = 0 /\ Guessing' = {}
    BY <1>15 DEF Restart, Guessing, At, Idle
  <2>. QED  BY <1>0, <2>1, NoMoreGuesses
<1>. QED  BY <1>2, <1>3, <1>4, <1>5, <1>6, <1>7, <1>8, <1>9, <1>10, <1>11, <1>12, <1>14, <1>15
          DEF Next, Login, Register, Settings

-------------------------------------------------------------------------------
(* ------------------------------ theorems ------------------------------ *)

LEMMA InitHolds == Init => IInv
<1>. SUFFICES ASSUME Init PROVE IInv
  OBVIOUS
<1>1. Counted /\ OldIsBeingEnded /\ SeenBeforeEnabling /\ EnabledIsProved
  BY DEF Init, Counted, OldIsBeingEnded, SeenBeforeEnabling, EnabledIsProved, Idle
<1>2. LetThrough
  <2>1. fails = 0
    BY DEF Init
  <2>. QED  BY <2>1, GuessersCount, LimitAssumption DEF LetThrough
<1>. QED  BY <1>1, <1>2, TypedInit DEF IInv

(* The invariant is inductive.                                             *)
LEMMA AlwaysIInv == Spec => []IInv
<1>1. IInv /\ [Next]_vars => IInv'
  BY CountedStep, TypedStep, OldStep, EnabledStep, GuessStep DEF IInv
<1>. QED  BY <1>1, InitHolds, PTL DEF Spec

(* The state has the shape its declarations say, whatever number of requests *)
(* and sessions there are; no session is without an account (db.go).         *)
THEOREM TypeCorrect == Spec => []TypeOK
<1>1. IInv => TypeOK
  BY DEF IInv
<1>. QED  BY <1>1, AlwaysIInv, PTL

(* A session opened with an old password lives only as long as the request    *)
(* that changed the password has not been answered (auth.go:                *)
(* handlePasswordChange, deleteOtherSessions).                             *)
THEOREM OldPasswordsEnd == Spec => []OldPasswordOnlyByOverlap
<1>1. IInv => OldPasswordOnlyByOverlap
  BY DEF IInv, OldIsBeingEnded, OldPasswordOnlyByOverlap, At
<1>. QED  BY <1>1, AlwaysIInv, PTL

(* A second factor is asked for only if somebody has shown a code of that     *)
(* secret, unless a new secret was begun while the old one was being          *)
(* confirmed (totp.go: handleMFABegin, handleMFAConfirm).                   *)
THEOREM SecondFactorIsProved == Spec => []EnabledIsProved
<1>1. IInv => EnabledIsProved
  BY DEF IInv
<1>. QED  BY <1>1, AlwaysIInv, PTL

(* An account takes no more wrong answers in a window of time than the limit  *)
(* and the other requests that can be under way (auth.go: loginLimiter,      *)
(* handleLoginPost).                                                       *)
THEOREM GuessesAreBounded == Spec => []GuessesBounded
<1>1. IInv => GuessesBounded
  BY GuessersCount, LimitAssumption DEF IInv, Counted, TypeOK, LetThrough, GuessesBounded
<1>. QED  BY <1>1, AlwaysIInv, PTL
=============================================================================
