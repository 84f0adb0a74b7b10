---------------------------- MODULE PeerAuth_proofs ----------------------------
(***************************************************************************)
(* Proofs about PeerAuth for any number of peerState objects, any secrets  *)
(* and any limit on wrong codes: the state is well formed, no session      *)
(* outlives its successor, and the gate of an MFA peer is only open if it  *)
(* was earned.  The argument is local to one object: every change of a     *)
(* peerState is Lawful, whoever makes it and whenever.                     *)
(*                                                                         *)
(* And about AgentLink, what hub and dialing end tell each other about the *)
(* code, for any limit on refused codes and any number of frames: an end   *)
(* that may still count a refusal is one that has a try left.              *)
(***************************************************************************)
EXTENDS PeerAuth, AgentLink, TLAPS

(* A goroutine that is not idle holds an object.                           *)
HoldersHold ==
  /\ reader.pc # "drop"
  /\ reader.pc # "idle" => reader.p \in Objs
  /\ kicker.pc # "idle" => kicker.p \in Objs

(* The variables that are not objects.                                     *)
TablesOK ==
  /\ file \in Entries \cup {Absent}
  /\ reg \in Objs \cup {None}
  /\ byAddr \in Objs \cup {None}
  /\ reader \in [pc : Pcs, p : Objs \cup {None}, ok : BOOLEAN]
  /\ timer \in {"reload", "sweep"}
  /\ kicker \in [pc : {"idle", "drop"}, p : Objs \cup {None}, ok : {FALSE}]

ObjectsOK ==
  /\ peer \in [Objs -> PeerStates]
  /\ credit \in [Objs -> BOOLEAN]
  /\ NoSessionOutlivesCur
  /\ OpenGateIsEarned

(* The inductive invariant.                                                *)
IInv == TablesOK /\ HoldersHold /\ ObjectsOK

(* What a change of one object from p to q must respect: the previous      *)
(* session ends with the current one, and an open gate of an MFA peer was  *)
(* open before, for the same secret, and the session was not lost.         *)
Sound(p) == p \in PeerStates /\ (Opens(p) => p.cur)

Lawful(p, q) ==
  /\ Sound(q)
  /\ RequiresMFA(q) /\ q.authed =>
       RequiresMFA(p) /\ p.authed /\ (p.cur => q.cur) /\ p.secret = q.secret

-------------------------------------------------------------------------------
(* Every change the handlers make is lawful.                               *)
LEMMA NewPeerSound ==
  ASSUME NEW s \in Entries
  PROVE  Sound(NewPeer(s)) /\ ~(RequiresMFA(NewPeer(s)) /\ NewPeer(s).authed)
BY DEF Sound, NewPeer, PeerStates, Opens, RequiresMFA

LEMMA BlankSound == Sound(Blank) /\ ~RequiresMFA(Blank)
BY NewPeerSound DEF Blank, Entries, NewPeer, RequiresMFA

LEMMA ResetDropLawful ==
  ASSUME NEW p, Sound(p)
  PROVE  Lawful(p, ResetAuth(Drop(p)))
BY DEF Lawful, Sound, PeerStates, ResetAuth, Drop, Opens, RequiresMFA

LEMMA DropUnauthedLawful ==
  ASSUME NEW p, Sound(p)
  PROVE  Lawful(p, [Drop(p) EXCEPT !.authed = FALSE])
BY DEF Lawful, Sound, PeerStates, Drop, Opens, RequiresMFA

LEMMA InstallLawful ==
  ASSUME NEW p, Sound(p)
  PROVE  Lawful(p, InstallSession(p))
BY DEF Lawful, Sound, PeerStates, InstallSession, Opens, RequiresMFA

LEMMA ChangeSecretLawful ==
  ASSUME NEW p, Sound(p), NEW s \in Entries
  PROVE  Lawful(p, ChangeSecret(p, s))
<1>1. CASE p.secret = s
  BY <1>1 DEF Lawful, ChangeSecret
<1>2. CASE p.secret # s
  BY <1>2 DEF Lawful, Sound, PeerStates, ChangeSecret, ResetAuth, Opens, RequiresMFA
<1>. QED  BY <1>1, <1>2

LEMMA ElapseLawful ==
  ASSUME NEW p, Sound(p)
  PROVE  /\ p.prev = "live" => Lawful(p, [p EXCEPT !.prev = "stale"])
         /\ Lawful(p, [p EXCEPT !.deadline = "passed"])
         /\ Lawful(p, [p EXCEPT !.locked = FALSE])
         /\ Lawful(p, [p EXCEPT !.quiet = TRUE])
BY DEF Lawful, Sound, PeerStates, Opens, RequiresMFA

LEMMA RefuseLawful ==
  ASSUME NEW p, Sound(p), NEW n \in Nat, NEW out \in BOOLEAN
  PROVE  Lawful(p, [p EXCEPT !.attempts = n, !.locked = out])
<1>1. Lawful(p, [p EXCEPT !.attempts = n, !.locked = TRUE])
  BY DEF Lawful, Sound, PeerStates, Opens, RequiresMFA
<1>2. Lawful(p, [p EXCEPT !.attempts = n, !.locked = FALSE])
  BY DEF Lawful, Sound, PeerStates, Opens, RequiresMFA
<1>. QED  BY <1>1, <1>2

LEMMA LawfulTransitive ==
  ASSUME NEW p, NEW q, NEW r, Lawful(p, q), Lawful(q, r)
  PROVE  Lawful(p, r)
BY DEF Lawful, RequiresMFA

LEMMA SweepLawful ==
  ASSUME NEW p, Sound(p)
  PROVE  Lawful(p, Sweep(p))
<1>. DEFINE a == AuthWithoutCode(p)
            b == ExpirePrev(a)
            c == DropDead(b)
            d == DropUnproved(c)
<1>1. Lawful(p, a)
  BY DEF Lawful, Sound, PeerStates, AuthWithoutCode, Opens, RequiresMFA
<1>2. ASSUME NEW q, Sound(q) PROVE Lawful(q, ExpirePrev(q))
  BY <1>2 DEF Lawful, Sound, PeerStates, ExpirePrev, Opens, RequiresMFA
<1>3. ASSUME NEW q, Sound(q) PROVE Lawful(q, DropDead(q))
  BY <1>3, ResetDropLawful DEF Lawful, DropDead
<1>4. ASSUME NEW q, Sound(q) PROVE Lawful(q, DropUnproved(q))
  <2>1. CASE DropUnproved(q) = q
    BY <1>4, <2>1 DEF Lawful
  <2>2. CASE DropUnproved(q) = Drop(q) /\ ~(RequiresMFA(q) /\ q.authed)
    BY <1>4, <2>2 DEF Lawful, Sound, PeerStates, Drop, Opens, RequiresMFA
  <2>. QED  BY <2>1, <2>2 DEF DropUnproved, Gated
<1>. HIDE DEF a, b, c, d
<1>5. Lawful(a, b)
  BY <1>1, <1>2 DEF Lawful, b
<1>6. Lawful(b, c)
  BY <1>5, <1>3 DEF Lawful, c
<1>7. Lawful(c, d)
  BY <1>6, <1>4 DEF Lawful, d
<1>8. Lawful(p, d)
  BY <1>1, <1>5, <1>6, <1>7, LawfulTransitive
<1>. QED  BY <1>8 DEF Sweep, a, b, c, d

-------------------------------------------------------------------------------
(* A lawful change of one object keeps the invariant of all of them.       *)
LEMMA ObjectSound ==
  ASSUME ObjectsOK, NEW o \in Objs
  PROVE  Sound(peer[o])
BY DEF ObjectsOK, NoSessionOutlivesCur, Sound

LEMMA BecomesKeeps ==
  ASSUME ObjectsOK, NEW o, NEW p, Becomes(o, p), o \in Objs => Lawful(peer[o], p)
  PROVE  ObjectsOK'
<1>1. \A x \in Objs : Sound(peer[x])
  BY ObjectSound
<1>2. \A x \in Objs :
        peer'[x] = (IF x \notin InUse' THEN Blank ELSE IF x = o THEN p ELSE peer[x])
  BY DEF Becomes
<1>3. \A x \in Objs : Sound(peer'[x])
  BY <1>1, <1>2, BlankSound DEF Lawful
<1>4. \A x \in Objs : RequiresMFA(peer'[x]) /\ peer'[x].authed => credit'[x]
  <2>. SUFFICES ASSUME NEW x \in Objs, RequiresMFA(peer'[x]), peer'[x].authed
                PROVE  credit'[x]
    OBVIOUS
  <2>1. x \in InUse'
    BY <1>2, BlankSound
  <2>2. credit'[x] = (credit[x] /\ (x = o => ~(peer[x].cur /\ ~p.cur) /\ peer[x].secret = p.secret))
    BY <2>1 DEF Becomes, ObjectsOK
  <2>3. CASE x = o
    <3>1. peer'[x] = p
      BY <1>2, <2>1, <2>3
    <3>2. RequiresMFA(peer[x]) /\ peer[x].authed /\ (peer[x].cur => p.cur)
          /\ peer[x].secret = p.secret
      BY <2>3, <3>1 DEF Lawful
    <3>3. credit[x]
      BY <3>2 DEF ObjectsOK, OpenGateIsEarned
    <3>. QED  BY <2>2, <3>2, <3>3
  <2>4. CASE x # o
    <3>1. peer'[x] = peer[x]
      BY <1>2, <2>1, <2>4
    <3>2. credit[x]
      BY <3>1 DEF ObjectsOK, OpenGateIsEarned
    <3>. QED  BY <2>2, <2>4, <3>2
  <2>. QED  BY <2>3, <2>4
<1>5. peer' \in [Objs -> PeerStates]
  <2>1. peer' = [x \in Objs |-> IF x \notin InUse' THEN Blank
                                ELSE IF x = o THEN p ELSE peer[x]]
    BY DEF Becomes
  <2>. QED  BY <1>2, <1>3, <2>1 DEF Sound
<1>6. credit' \in [Objs -> BOOLEAN]
  BY DEF Becomes, ObjectsOK
<1>. QED  BY <1>3, <1>4, <1>5, <1>6 DEF ObjectsOK, NoSessionOutlivesCur, OpenGateIsEarned, Sound

LEMMA NoneBecomesKeeps ==
  ASSUME ObjectsOK, NoneBecomes
  PROVE  ObjectsOK'
BY BecomesKeeps, ObjsAssumption DEF NoneBecomes

LEMMA UnchangedKeeps ==
  ASSUME ObjectsOK, UNCHANGED <<peer, credit>>
  PROVE  ObjectsOK'
BY DEF ObjectsOK, NoSessionOutlivesCur, OpenGateIsEarned

-------------------------------------------------------------------------------
(* The steps, goroutine by goroutine.                                      *)
LEMMA InitIInv == Init => IInv
<1>. SUFFICES ASSUME Init PROVE IInv
  OBVIOUS
<1>1. TablesOK /\ HoldersHold
  BY DEF Init, TablesOK, HoldersHold, Idle, Pcs, Entries
<1>2. ObjectsOK
  BY BlankSound DEF Init, ObjectsOK, NoSessionOutlivesCur, OpenGateIsEarned, Sound
<1>. QED  BY <1>1, <1>2 DEF IInv

LEMMA EnvironmentKeeps ==
  ASSUME IInv,
         \/ WriteRegistry
         \/ \E o \in Objs : GraceEnds(o) \/ DeadlinePasses(o) \/ LockEnds(o) \/ GoesQuiet(o)
  PROVE  IInv'
<1>1. CASE WriteRegistry
  <2>1. TablesOK' /\ HoldersHold'
    BY <1>1 DEF WriteRegistry, IInv, TablesOK, HoldersHold
  <2>2. ObjectsOK'
    BY <1>1, UnchangedKeeps DEF WriteRegistry, IInv
  <2>. QED  BY <2>1, <2>2 DEF IInv
<1>2. ASSUME NEW o \in Objs, GraceEnds(o) \/ DeadlinePasses(o) \/ LockEnds(o) \/ GoesQuiet(o)
      PROVE  IInv'
  <2>1. Sound(peer[o])
    BY ObjectSound DEF IInv
  <2>2. PICK p : Elapse(o, p) /\ Lawful(peer[o], p)
    BY <1>2, <2>1, ElapseLawful DEF GraceEnds, DeadlinePasses, LockEnds, GoesQuiet
  <2>3. TablesOK' /\ HoldersHold'
    BY <2>2 DEF Elapse, IInv, TablesOK, HoldersHold
  <2>4. ObjectsOK'
    BY <2>2, BecomesKeeps DEF Elapse, IInv
  <2>. QED  BY <2>3, <2>4 DEF IInv
<1>. QED  BY <1>1, <1>2

LEMMA AllocateKeeps ==
  ASSUME ObjectsOK, NEW o \in Objs \ InUse, file \in Entries, Allocate(o)
  PROVE  ObjectsOK'
BY NewPeerSound, BecomesKeeps DEF Allocate, Lawful

LEMMA TimerKeeps ==
  ASSUME IInv, TimerStep
  PROVE  IInv'
<1>1. CASE Reload
  <2>1. HoldersHold'
    BY <1>1 DEF Reload, IInv, HoldersHold
  <2>2. CASE reg # None /\ file = Absent /\ Revoke(reg)
    <3>1. Lawful(peer[reg], [Drop(peer[reg]) EXCEPT !.authed = FALSE])
      BY <2>2, ObjectSound, DropUnauthedLawful DEF IInv, TablesOK
    <3>2. ObjectsOK'
      BY <2>2, <3>1, BecomesKeeps DEF Revoke, IInv
    <3>3. TablesOK'
      BY <1>1, <2>2 DEF Reload, Revoke, IInv, TablesOK
    <3>. QED  BY <2>1, <3>2, <3>3 DEF IInv
  <2>3. CASE reg # None /\ file # Absent /\ Update(reg)
    <3>1. Lawful(peer[reg], ChangeSecret(peer[reg], file))
      BY <2>3, ObjectSound, ChangeSecretLawful DEF IInv, TablesOK
    <3>2. ObjectsOK'
      BY <2>3, <3>1, BecomesKeeps DEF Update, IInv
    <3>3. TablesOK'
      BY <1>1, <2>3 DEF Reload, Update, IInv, TablesOK
    <3>. QED  BY <2>1, <3>2, <3>3 DEF IInv
  <2>4. CASE reg = None /\ file # Absent /\ \E o \in Objs \ InUse : Allocate(o)
    <3>1. ObjectsOK'
      BY <2>4, AllocateKeeps DEF IInv, TablesOK
    <3>2. TablesOK'
      BY <1>1, <2>4 DEF Reload, Allocate, IInv, TablesOK
    <3>. QED  BY <2>1, <3>1, <3>2 DEF IInv
  <2>5. CASE UNCHANGED <<reg, byAddr, peer, credit>>
    BY <1>1, <2>1, <2>5, UnchangedKeeps DEF Reload, IInv, TablesOK
  <2>. QED  BY <1>1, <2>2, <2>3, <2>4, <2>5 DEF Reload
<1>2. CASE SweepPeers
  <2>1. TablesOK' /\ HoldersHold'
    BY <1>2 DEF SweepPeers, IInv, TablesOK, HoldersHold
  <2>2. CASE reg = None
    BY <1>2, <2>1, <2>2, UnchangedKeeps DEF SweepPeers, IInv
  <2>3. CASE reg # None
    <3>1. Lawful(peer[reg], Sweep(peer[reg]))
      BY <2>3, ObjectSound, SweepLawful DEF IInv, TablesOK
    <3>2. ObjectsOK'
      BY <1>2, <2>3, <3>1, BecomesKeeps DEF SweepPeers, IInv
    <3>. QED  BY <2>1, <3>2 DEF IInv
  <2>. QED  BY <2>2, <2>3
<1>. QED  BY <1>1, <1>2 DEF TimerStep

LEMMA IdleTyped ==
  /\ Idle \in [pc : Pcs, p : Objs \cup {None}, ok : BOOLEAN]
  /\ Idle.pc = "idle"
BY DEF Idle, Pcs

LEMMA ReaderTables ==
  ASSUME IInv, AcceptInit \/ ReaderStep
         \/ \E k \in {"keepalive", "data", "bye", "auth"} : ReceiveFrame(k)
  PROVE  TablesOK' /\ HoldersHold'
<1>. USE IdleTyped DEF IInv, TablesOK, HoldersHold, Done, GoTo, Pcs
<1>1. CASE AcceptInit
  BY <1>1 DEF AcceptInit, Idle
<1>2. ASSUME NEW k \in {"keepalive", "data", "bye", "auth"}, ReceiveFrame(k)
      PROVE  TablesOK' /\ HoldersHold'
  <2>1. PICK o \in {byAddr, reg} \ {None} :
          /\ byAddr' = o
          /\ reader' = Idle \/ (k # "keepalive" /\ reader' = [Idle EXCEPT !.pc = k, !.p = o])
    BY <1>2 DEF ReceiveFrame
  <2>2. o \in Objs
    BY <2>1
  <2>3. reader' \in [pc : Pcs, p : Objs \cup {None}, ok : BOOLEAN]
        /\ reader'.pc # "drop"
        /\ (reader'.pc # "idle" => reader'.p \in Objs)
    BY <2>1, <2>2 DEF Idle
  <2>. QED  BY <1>2, <2>1, <2>2, <2>3 DEF ReceiveFrame
<1>3. CASE LearnAddress
  BY <1>3 DEF LearnAddress
<1>4. CASE Install
  BY <1>4 DEF Install
<1>5. CASE ArmDeadline
  BY <1>5 DEF ArmDeadline
<1>6. CASE Deliver
  BY <1>6 DEF Deliver
<1>7. CASE Bye
  BY <1>7 DEF Bye
<1>8. CASE CheckCode
  BY <1>8 DEF CheckCode
<1>9. CASE AcceptCode
  BY <1>9 DEF AcceptCode
<1>10. CASE RefuseCode
  BY <1>10 DEF RefuseCode
<1>11. CASE StrikeOut
  BY <1>11 DEF StrikeOut
<1>. QED  BY <1>1, <1>2, <1>3, <1>4, <1>5, <1>6, <1>7, <1>8, <1>9, <1>10, <1>11 DEF ReaderStep

LEMMA AcceptCodeKeeps ==
  ASSUME IInv, AcceptCode
  PROVE  ObjectsOK'
<1>. DEFINE r == reader.p
            q == [peer[r] EXCEPT !.authed = TRUE, !.attempts = 0]
<1>1. r \in Objs /\ Sound(peer[r])
  BY ObjectSound DEF AcceptCode, IInv, HoldersHold
<1>2. Sound(q)
  BY <1>1 DEF Sound, PeerStates, Opens
<1>3. \A o \in Objs :
        /\ peer'[o] = (IF o \notin InUse' THEN Blank ELSE IF o = r THEN q ELSE peer[o])
        /\ credit'[o] = (o \in InUse' /\ (credit[o] \/ o = r))
  BY DEF AcceptCode
<1>. HIDE DEF q
<1>4. \A o \in Objs : Sound(peer'[o])
  BY <1>1, <1>2, <1>3, ObjectSound, BlankSound DEF IInv
<1>5. \A o \in Objs : RequiresMFA(peer'[o]) /\ peer'[o].authed => credit'[o]
  BY <1>3, BlankSound DEF IInv, ObjectsOK, OpenGateIsEarned
<1>6. /\ peer' \in [Objs -> PeerStates]
      /\ credit' \in [Objs -> BOOLEAN]
  BY <1>4 DEF AcceptCode, Sound, IInv, ObjectsOK
<1>. QED  BY <1>4, <1>5, <1>6 DEF ObjectsOK, NoSessionOutlivesCur, OpenGateIsEarned, Sound

LEMMA ReaderObjects ==
  ASSUME IInv, ReaderStep
  PROVE  ObjectsOK'
<1>. DEFINE r == reader.p
<1>1. reader.pc # "idle"
  BY DEF ReaderStep, LearnAddress, Install, ArmDeadline, Deliver, Bye, CheckCode,
         AcceptCode, RefuseCode, StrikeOut
<1>2. r \in Objs /\ Sound(peer[r]) /\ ObjectsOK
  BY <1>1, ObjectSound DEF IInv, HoldersHold
<1>. HIDE DEF r
<1>3. CASE LearnAddress
  <2>1. Lawful(peer[r], [peer[r] EXCEPT !.addr = TRUE])
    BY <1>2 DEF Lawful, Sound, PeerStates, Opens, RequiresMFA
  <2>. QED  BY <1>2, <1>3, <2>1, BecomesKeeps DEF LearnAddress, r
<1>4. CASE Install
  BY <1>2, <1>4, InstallLawful, BecomesKeeps DEF Install, r
<1>5. CASE ArmDeadline
  <2>1. Lawful(peer[r], peer[r])
        /\ Lawful(peer[r], [peer[r] EXCEPT !.attempts = 0, !.deadline = "armed"])
    BY <1>2 DEF Lawful, Sound, PeerStates, Opens, RequiresMFA
  <2>2. CASE Gated(peer[r])
    BY <1>2, <1>5, <2>1, <2>2, BecomesKeeps DEF ArmDeadline, r
  <2>3. CASE ~Gated(peer[r])
    BY <1>2, <1>5, <2>1, <2>3, BecomesKeeps DEF ArmDeadline, r
  <2>. QED  BY <2>2, <2>3
<1>6. CASE Deliver
  BY <1>2, <1>6, NoneBecomesKeeps DEF Deliver
<1>7. CASE Bye
  BY <1>2, <1>7, ResetDropLawful, BecomesKeeps DEF Bye, r
<1>8. CASE CheckCode
  BY <1>2, <1>8, NoneBecomesKeeps DEF CheckCode
<1>9. CASE AcceptCode
  BY <1>9, AcceptCodeKeeps
<1>10. CASE RefuseCode
  <2>. DEFINE out == peer[r].locked \/ LastStrike(peer[r])
              n == peer[r].attempts + 1
  <2>1. out \in BOOLEAN
    OBVIOUS
  <2>2. n \in Nat
    BY <1>2 DEF Sound, PeerStates
  <2>3. Becomes(r, [peer[r] EXCEPT !.attempts = n, !.locked = out])
    BY <1>10 DEF RefuseCode, r
  <2>. HIDE DEF out, n
  <2>4. Lawful(peer[r], [peer[r] EXCEPT !.attempts = n, !.locked = out])
    BY <1>2, <2>1, <2>2, RefuseLawful
  <2>. QED  BY <1>2, <2>3, <2>4, BecomesKeeps
<1>11. CASE StrikeOut
  BY <1>2, <1>11, DropUnauthedLawful, BecomesKeeps DEF StrikeOut, r
<1>. QED  BY <1>3, <1>4, <1>5, <1>6, <1>7, <1>8, <1>9, <1>10, <1>11 DEF ReaderStep

LEMMA ReceiveObjects ==
  ASSUME IInv, NEW k, ReceiveFrame(k)
  PROVE  ObjectsOK'
<1>1. PICK o \in {byAddr, reg} \ {None} :
        Becomes(o, [peer[o] EXCEPT !.quiet = FALSE, !.addr = TRUE])
  BY DEF ReceiveFrame
<1>2. o \in Objs /\ Sound(peer[o]) /\ ObjectsOK
  BY <1>1, ObjectSound DEF IInv, TablesOK
<1>3. Lawful(peer[o], [peer[o] EXCEPT !.quiet = FALSE, !.addr = TRUE])
  BY <1>2 DEF Lawful, Sound, PeerStates, Opens, RequiresMFA
<1>. QED  BY <1>1, <1>2, <1>3, BecomesKeeps

LEMMA KickerKeeps ==
  ASSUME IInv, KickLookup \/ KickDrop
  PROVE  IInv'
<1>1. CASE KickLookup
  <2>1. TablesOK' /\ HoldersHold'
    BY <1>1 DEF KickLookup, IInv, TablesOK, HoldersHold, Idle
  <2>2. ObjectsOK'
    BY <1>1, UnchangedKeeps DEF KickLookup, IInv
  <2>. QED  BY <2>1, <2>2 DEF IInv
<1>2. CASE KickDrop
  <2>1. TablesOK' /\ HoldersHold'
    BY <1>2 DEF KickDrop, IInv, TablesOK, HoldersHold, Idle
  <2>2. kicker.p \in Objs /\ Sound(peer[kicker.p])
    BY <1>2, ObjectSound DEF KickDrop, IInv, HoldersHold
  <2>3. ObjectsOK'
    BY <1>2, <2>2, ResetDropLawful, BecomesKeeps DEF KickDrop, IInv
  <2>. QED  BY <2>1, <2>3 DEF IInv
<1>. QED  BY <1>1, <1>2

LEMMA StepIInv == IInv /\ [Next]_vars => IInv'
<1>. SUFFICES ASSUME IInv, [Next]_vars
              PROVE  IInv'
  OBVIOUS
<1>1. CASE WriteRegistry
  BY <1>1, EnvironmentKeeps
<1>2. CASE \E o \in Objs : GraceEnds(o) \/ DeadlinePasses(o) \/ LockEnds(o) \/ GoesQuiet(o)
  BY <1>2, EnvironmentKeeps
<1>3. CASE AcceptInit
  BY <1>3, ReaderTables, UnchangedKeeps DEF AcceptInit, IInv
<1>4. CASE \E k \in {"keepalive", "data", "bye", "auth"} : ReceiveFrame(k)
  BY <1>4, ReaderTables, ReceiveObjects DEF IInv
<1>5. CASE ReaderStep
  BY <1>5, ReaderTables, ReaderObjects DEF IInv
<1>6. CASE TimerStep
  BY <1>6, TimerKeeps
<1>7. CASE KickLookup \/ KickDrop
  BY <1>7, KickerKeeps
<1>8. CASE UNCHANGED vars
  BY <1>8, UnchangedKeeps DEF vars, IInv, TablesOK, HoldersHold
<1>. QED  BY <1>1, <1>2, <1>3, <1>4, <1>5, <1>6, <1>7, <1>8 DEF Next

LEMMA IInvAlways == Spec => []IInv
BY InitIInv, StepIInv, PTL DEF Spec

-------------------------------------------------------------------------------
(* Every variable keeps its type under every interleaving of the three     *)
(* goroutines.                                                             *)
THEOREM TypeCorrect == Spec => []TypeOK
<1>1. IInv => TypeOK
  BY DEF IInv, TablesOK, ObjectsOK, TypeOK
<1>. QED  BY <1>1, IInvAlways, PTL

(* However a session ends, the one it superseded ends with it.             *)
THEOREM PrevEndsWithCur == Spec => []NoSessionOutlivesCur
<1>1. IInv => NoSessionOutlivesCur
  BY DEF IInv, ObjectsOK
<1>. QED  BY <1>1, IInvAlways, PTL

(* An MFA peer's gate is open only by a code accepted since it last lost   *)
(* its session and since its secret last changed.                          *)
THEOREM GateIsEarned == Spec => []OpenGateIsEarned
<1>1. IInv => OpenGateIsEarned
  BY DEF IInv, ObjectsOK
<1>. QED  BY <1>1, IInvAlways, PTL

-------------------------------------------------------------------------------
(* The strikes.  A peer that used up its attempts owes a code; the object   *)
(* readLoop has a verdict for owed one when the code was looked at, and if  *)
(* it no longer does, its count was restarted with its secret.             *)
Exhausted(p) == p.attempts >= MaxAttempts

ExhaustedOwe == \A o \in Objs : Exhausted(peer[o]) => Gated(peer[o])

VerdictOwed ==
  reader.pc = "verdict" =>
    LET p == peer[reader.p]
    IN  IF RequiresMFA(p) THEN ~p.authed ELSE p.attempts = 0

(* The inductive invariant.                                                *)
SInv == IInv /\ ExhaustedOwe /\ VerdictOwed /\ StrikesEndSession

(* A change that anybody but readLoop makes: it opens no session and no      *)
(* gate, and it touches the count only to restart it, as it must when it   *)
(* changes the secret.                                                     *)
Tame(p, q) ==
  /\ Lawful(p, q)
  /\ Opens(q) => Opens(p)
  /\ q.attempts = 0 \/ (q.attempts = p.attempts /\ q.secret = p.secret)

LEMMA TameChanges ==
  ASSUME NEW p, Sound(p)
  PROVE  /\ Tame(p, p)
         /\ Tame(p, ResetAuth(Drop(p)))
         /\ Tame(p, [Drop(p) EXCEPT !.authed = FALSE])
         /\ \A s \in Entries : Tame(p, ChangeSecret(p, s))
         /\ p.prev = "live" => Tame(p, [p EXCEPT !.prev = "stale"])
         /\ Tame(p, [p EXCEPT !.deadline = "passed"])
         /\ Tame(p, [p EXCEPT !.locked = FALSE])
         /\ Tame(p, [p EXCEPT !.quiet = TRUE])
<1>1. Tame(p, p)
  BY DEF Tame, Lawful
<1>2. Tame(p, ResetAuth(Drop(p)))
  BY ResetDropLawful DEF Tame, Sound, PeerStates, ResetAuth, Drop, Opens
<1>3. Tame(p, [Drop(p) EXCEPT !.authed = FALSE])
  BY DropUnauthedLawful DEF Tame, Sound, PeerStates, Drop, Opens
<1>4. ASSUME NEW s \in Entries PROVE Tame(p, ChangeSecret(p, s))
  <2>1. Lawful(p, ChangeSecret(p, s))
    BY ChangeSecretLawful
  <2>2. CASE p.secret = s
    BY <1>1, <2>2 DEF ChangeSecret
  <2>3. CASE p.secret # s
    BY <2>1, <2>3 DEF Tame, Sound, PeerStates, ChangeSecret, ResetAuth, Opens
  <2>. QED  BY <2>2, <2>3
<1>5. /\ p.prev = "live" => Tame(p, [p EXCEPT !.prev = "stale"])
      /\ Tame(p, [p EXCEPT !.deadline = "passed"])
      /\ Tame(p, [p EXCEPT !.locked = FALSE])
      /\ Tame(p, [p EXCEPT !.quiet = TRUE])
  BY ElapseLawful DEF Tame, Sound, PeerStates, Opens
<1>. QED  BY <1>1, <1>2, <1>3, <1>4, <1>5

LEMMA SweepTame ==
  ASSUME NEW p, Sound(p)
  PROVE  Tame(p, Sweep(p))
<1>. DEFINE Calm(q) == /\ Opens(q) => Opens(p)
                       /\ q.attempts = p.attempts /\ q.secret = p.secret
            a == AuthWithoutCode(p)
            b == ExpirePrev(a)
            c == DropDead(b)
            d == DropUnproved(c)
<1>1. a \in PeerStates /\ Calm(a)
  BY DEF Sound, PeerStates, AuthWithoutCode, Opens
<1>. HIDE DEF a
<1>2. b \in PeerStates /\ Calm(b)
  BY <1>1 DEF PeerStates, ExpirePrev, Opens
<1>. HIDE DEF b
<1>3. c \in PeerStates /\ Calm(c)
  BY <1>2 DEF PeerStates, DropDead, ResetAuth, Drop, Opens, RequiresMFA
<1>. HIDE DEF c
<1>4. Calm(d)
  BY <1>3 DEF PeerStates, DropUnproved, Drop, Opens
<1>5. d = Sweep(p)
  BY DEF Sweep, a, b, c
<1>. HIDE DEF d
<1>. QED  BY <1>4, <1>5, SweepLawful DEF Tame

LEMMA TameKeeps ==
  ASSUME MaxAttempts > 1, SInv, NEW o, NEW p, Becomes(o, p),
         o \in Objs => Tame(peer[o], p) \/ (o \notin InUse /\ p.attempts = 0),
         UNCHANGED reader
  PROVE  (ExhaustedOwe /\ VerdictOwed /\ StrikesEndSession)'
<1>. USE AttemptsAssumption
<1>1. \A x \in Objs :
        peer'[x] = (IF x \notin InUse' THEN Blank ELSE IF x = o THEN p ELSE peer[x])
  BY DEF Becomes
<1>2. \A x \in Objs : \/ peer'[x].attempts = 0
                      \/ Tame(peer[x], peer'[x])
  <2>1. Blank.attempts = 0
    BY DEF Blank, NewPeer
  <2>2. \A x \in Objs : Tame(peer[x], peer[x])
    BY TameChanges, ObjectSound DEF SInv, IInv
  <2>. QED  BY <1>1, <2>1, <2>2
<1>3. \A x \in Objs : Exhausted(peer'[x]) =>
        /\ Tame(peer[x], peer'[x])
        /\ Exhausted(peer[x]) /\ peer'[x].secret = peer[x].secret
  BY <1>2 DEF Exhausted, Tame
<1>4. ExhaustedOwe'
  BY <1>3 DEF ExhaustedOwe, SInv, Gated, RequiresMFA, Tame, Lawful
<1>5. StrikesEndSession'
  BY <1>3 DEF StrikesEndSession, SInv, Tame, Exhausted
<1>6. VerdictOwed'
  <2>. SUFFICES ASSUME reader.pc = "verdict"
                PROVE  IF RequiresMFA(peer'[reader.p]) THEN ~peer'[reader.p].authed
                       ELSE peer'[reader.p].attempts = 0
    BY DEF VerdictOwed
  <2>1. reader.p \in Objs /\ reader.p \in InUse /\ reader.p \in InUse'
    BY DEF SInv, IInv, HoldersHold, InUse
  <2>2. Tame(peer[reader.p], peer'[reader.p])
    <3>1. \A x \in Objs : Tame(peer[x], peer[x])
      BY TameChanges, ObjectSound DEF SInv, IInv
    <3>. QED  BY <1>1, <2>1, <3>1
  <2>. QED  BY <2>1, <2>2 DEF SInv, VerdictOwed, Tame, Lawful, RequiresMFA
<1>. QED  BY <1>4, <1>5, <1>6

(* What everybody but readLoop does is tame.                               *)
LEMMA OthersKeepStrikes ==
  ASSUME MaxAttempts > 1, SInv,
         \/ WriteRegistry \/ TimerStep \/ KickLookup \/ KickDrop
         \/ \E o \in Objs : GraceEnds(o) \/ DeadlinePasses(o) \/ LockEnds(o) \/ GoesQuiet(o)
  PROVE  (ExhaustedOwe /\ VerdictOwed /\ StrikesEndSession)'
<1>. DEFINE Goal == (ExhaustedOwe /\ VerdictOwed /\ StrikesEndSession)'
<1>0. ASSUME UNCHANGED <<peer, reader>> PROVE Goal
  BY <1>0 DEF SInv, ExhaustedOwe, VerdictOwed, StrikesEndSession
<1>1. ASSUME NEW o \in Objs PROVE Sound(peer[o])
  BY <1>1, ObjectSound DEF SInv, IInv
<1>. HIDE DEF Goal
<1>2. CASE WriteRegistry \/ KickLookup
  BY <1>0, <1>2 DEF WriteRegistry, KickLookup, Goal
<1>3. ASSUME NEW o \in Objs, GraceEnds(o) \/ DeadlinePasses(o) \/ LockEnds(o) \/ GoesQuiet(o)
      PROVE  Goal
  <2>1. PICK p : Elapse(o, p) /\ Tame(peer[o], p)
    BY <1>1, <1>3, TameChanges DEF GraceEnds, DeadlinePasses, LockEnds, GoesQuiet
  <2>. QED  BY <2>1, TameKeeps DEF Elapse, Goal
<1>4. CASE Reload
  <2>1. reader' = reader
    BY <1>4 DEF Reload
  <2>2. CASE reg # None /\ file = Absent /\ Revoke(reg)
    <3>1. Tame(peer[reg], [Drop(peer[reg]) EXCEPT !.authed = FALSE])
      BY <1>1, <2>2, TameChanges DEF SInv, IInv, TablesOK
    <3>. QED  BY <2>1, <2>2, <3>1, TameKeeps DEF Revoke, Goal
  <2>3. CASE reg # None /\ file # Absent /\ Update(reg)
    <3>1. Tame(peer[reg], ChangeSecret(peer[reg], file))
      BY <1>1, <2>3, TameChanges DEF SInv, IInv, TablesOK
    <3>. QED  BY <2>1, <2>3, <3>1, TameKeeps DEF Update, Goal
  <2>4. ASSUME NEW o \in Objs \ InUse, Allocate(o) PROVE Goal
    <3>1. NewPeer(file).attempts = 0
      BY DEF NewPeer
    <3>. QED  BY <2>1, <2>4, <3>1, TameKeeps DEF Allocate, Goal
  <2>5. CASE UNCHANGED <<reg, byAddr, peer, credit>>
    BY <1>0, <2>1, <2>5 DEF Goal
  <2>. QED  BY <1>4, <2>2, <2>3, <2>4, <2>5 DEF Reload, Goal
<1>5. CASE SweepPeers
  <2>1. CASE reg = None
    BY <1>0, <1>5, <2>1 DEF SweepPeers, Goal
  <2>2. CASE reg # None
    <3>1. Tame(peer[reg], Sweep(peer[reg]))
      BY <1>1, <2>2, SweepTame DEF SInv, IInv, TablesOK
    <3>. QED  BY <1>5, <2>2, <3>1, TameKeeps DEF SweepPeers, Goal
  <2>. QED  BY <2>1, <2>2
<1>6. CASE KickDrop
  <2>1. kicker.p \in Objs
    BY <1>6 DEF KickDrop, SInv, IInv, HoldersHold
  <2>2. Tame(peer[kicker.p], ResetAuth(Drop(peer[kicker.p])))
    BY <1>1, <2>1, TameChanges
  <2>. QED  BY <1>6, <2>2, TameKeeps DEF KickDrop, Goal
<1>. QED  BY <1>2, <1>3, <1>4, <1>5, <1>6 DEF TimerStep, Goal

(* What readLoop does to the object it holds; p is what becomes of it.       *)
LEMMA ReaderKeepsStrikes ==
  ASSUME MaxAttempts > 1, SInv, NEW o \in Objs, NEW p, Becomes(o, p),
         reader.p = o \/ reader.pc = "idle",
         Exhausted(p) => Gated(p),
         Exhausted(p) /\ Opens(p) => reader'.p = o /\ reader'.pc \in {"strike", "arm"},
         reader'.pc # "verdict"
  PROVE  (ExhaustedOwe /\ VerdictOwed /\ StrikesEndSession)'
<1>. USE AttemptsAssumption
<1>1. \A x \in Objs :
        peer'[x] = (IF x \notin InUse' THEN Blank ELSE IF x = o THEN p ELSE peer[x])
  BY DEF Becomes
<1>2. ~Exhausted(Blank)
  BY DEF Exhausted, Blank, NewPeer
<1>3. \A x \in Objs \ {o} : Exhausted(peer[x]) => ~Opens(peer[x]) /\ Gated(peer[x])
  BY DEF SInv, ExhaustedOwe, StrikesEndSession, Exhausted
<1>4. \A x \in Objs : Exhausted(peer'[x]) =>
        /\ Gated(peer'[x])
        /\ Opens(peer'[x]) => reader'.p = x /\ reader'.pc \in {"strike", "arm"}
  BY <1>1, <1>2, <1>3
<1>. QED  BY <1>4 DEF ExhaustedOwe, VerdictOwed, StrikesEndSession, Exhausted

LEMMA NothingHeldKeepsStrikes ==
  ASSUME MaxAttempts > 1, SInv, UNCHANGED peer \/ NoneBecomes,
         reader.pc \notin {"strike", "arm"},
         reader'.pc = "verdict" => RequiresMFA(peer'[reader'.p]) /\ ~peer'[reader'.p].authed
  PROVE  (ExhaustedOwe /\ VerdictOwed /\ StrikesEndSession)'
<1>. USE AttemptsAssumption
<1>1. \A x \in Objs : peer'[x] = peer[x] \/ peer'[x] = Blank
  BY ObjsAssumption DEF NoneBecomes, Becomes
<1>2. ~Exhausted(Blank)
  BY DEF Exhausted, Blank, NewPeer
<1>. QED  BY <1>1, <1>2 DEF SInv, ExhaustedOwe, VerdictOwed, StrikesEndSession, Exhausted

LEMMA ReaderStepKeepsStrikes ==
  ASSUME MaxAttempts > 1, SInv,
         \/ AcceptInit \/ ReaderStep
         \/ \E k \in {"keepalive", "data", "bye", "auth"} : ReceiveFrame(k)
  PROVE  (ExhaustedOwe /\ VerdictOwed /\ StrikesEndSession)'
<1>. DEFINE Goal == (ExhaustedOwe /\ VerdictOwed /\ StrikesEndSession)'
            r == reader.p
<1>. USE AttemptsAssumption
<1>0. ASSUME NEW o \in Objs
      PROVE  /\ Sound(peer[o])
             /\ Exhausted(peer[o]) => Gated(peer[o])
             /\ Exhausted(peer[o]) /\ Opens(peer[o]) =>
                  r = o /\ reader.pc \in {"strike", "arm"}
  BY <1>0, ObjectSound DEF SInv, IInv, ExhaustedOwe, StrikesEndSession, Exhausted
<1>a. reader.pc # "idle" => r \in Objs
  BY DEF SInv, IInv, HoldersHold
<1>r. reader \in [pc : Pcs, p : Objs \cup {None}, ok : BOOLEAN]
  BY DEF SInv, IInv, TablesOK
<1>1. CASE AcceptInit
  BY <1>1, NothingHeldKeepsStrikes DEF AcceptInit, Idle
<1>2. ASSUME NEW k \in {"keepalive", "data", "bye", "auth"}, ReceiveFrame(k)
      PROVE  Goal
  <2>1. PICK o \in {byAddr, reg} \ {None} :
          /\ Opens(peer[o])
          /\ reader' = IF k = "keepalive" \/ (k = "data" /\ Gated(peer[o]))
                       THEN Idle ELSE [Idle EXCEPT !.pc = k, !.p = o]
          /\ Becomes(o, [peer[o] EXCEPT !.quiet = FALSE, !.addr = TRUE])
    BY <1>2 DEF ReceiveFrame
  <2>. DEFINE p == [peer[o] EXCEPT !.quiet = FALSE, !.addr = TRUE]
  <2>2. o \in Objs
    BY <2>1 DEF SInv, IInv, TablesOK
  <2>3. reader.pc = "idle" /\ reader'.pc # "verdict"
    BY <1>2, <2>1 DEF ReceiveFrame, Idle
  <2>4. ~Exhausted(peer[o])
    BY <1>0, <2>1, <2>2, <2>3
  <2>5. ~Exhausted(p)
    BY <1>0, <2>2, <2>4 DEF Exhausted, Sound, PeerStates
  <2>6. Becomes(o, p)
    BY <2>1
  <2>. HIDE DEF p
  <2>. QED  BY <2>2, <2>3, <2>5, <2>6, ReaderKeepsStrikes DEF Goal
<1>3. CASE LearnAddress
  <2>. DEFINE p == [peer[r] EXCEPT !.addr = TRUE]
  <2>1. r \in Objs /\ reader.pc = "address" /\ Becomes(r, p)
    BY <1>3, <1>a DEF LearnAddress
  <2>2. /\ Exhausted(p) => Exhausted(peer[r])
        /\ Opens(p) => Opens(peer[r])
        /\ Gated(peer[r]) => Gated(p)
    BY <1>0, <2>1 DEF Exhausted, Opens, Gated, RequiresMFA, Sound, PeerStates
  <2>3. reader'.pc # "verdict"
    BY <1>3, <1>r DEF LearnAddress, GoTo
  <2>. HIDE DEF p
  <2>. QED  BY <1>0, <2>1, <2>2, <2>3, ReaderKeepsStrikes DEF Goal
<1>4. CASE Install
  <2>. DEFINE p == InstallSession(peer[r])
  <2>1. r \in Objs /\ reader.pc = "install" /\ Becomes(r, p)
    BY <1>4, <1>a DEF Install
  <2>2. /\ Exhausted(p) => Exhausted(peer[r])
        /\ Gated(peer[r]) => Gated(p)
    BY <1>0, <2>1 DEF InstallSession, Exhausted, Gated, RequiresMFA, Sound, PeerStates
  <2>3. reader'.pc = "arm" /\ reader'.p = r
    BY <1>4, <1>r DEF Install, GoTo
  <2>. HIDE DEF p
  <2>. QED  BY <1>0, <2>1, <2>2, <2>3, ReaderKeepsStrikes DEF Goal
<1>5. CASE ArmDeadline
  <2>. DEFINE p == IF Gated(peer[r])
                   THEN [peer[r] EXCEPT !.attempts = 0, !.deadline = "armed"]
                   ELSE peer[r]
  <2>1. r \in Objs /\ Becomes(r, p)
    BY <1>5, <1>a DEF ArmDeadline
  <2>2. ~Exhausted(p)
    BY <1>0, <2>1 DEF Exhausted, Sound, PeerStates
  <2>3. reader'.pc = "idle"
    BY <1>5 DEF ArmDeadline, Done, Idle
  <2>. HIDE DEF p
  <2>. QED  BY <2>1, <2>2, <2>3, ReaderKeepsStrikes DEF Goal
<1>6. CASE Deliver
  BY <1>6, NothingHeldKeepsStrikes DEF Deliver, Done, Idle
<1>7. CASE Bye
  <2>. DEFINE p == ResetAuth(Drop(peer[r]))
  <2>1. r \in Objs /\ Becomes(r, p)
    BY <1>7, <1>a DEF Bye
  <2>2. ~Opens(p) /\ (Exhausted(p) => Exhausted(peer[r])) /\ (Gated(peer[r]) => Gated(p))
    BY <1>0, <2>1 DEF ResetAuth, Drop, Opens, Exhausted, Gated, RequiresMFA, Sound, PeerStates
  <2>3. reader'.pc = "idle"
    BY <1>7 DEF Bye, Done, Idle
  <2>. HIDE DEF p
  <2>. QED  BY <1>0, <2>1, <2>2, <2>3, ReaderKeepsStrikes DEF Goal
<1>8. CASE CheckCode
  <2>1. r \in Objs /\ NoneBecomes /\ reader.pc = "auth"
    BY <1>8, <1>a DEF CheckCode
  <2>2. CASE ~TakesCode(peer[r])
    BY <1>8, <2>1, <2>2, NothingHeldKeepsStrikes DEF CheckCode, Done, Idle, Goal
  <2>3. CASE TakesCode(peer[r])
    <3>1. reader'.p = r
      BY <1>8, <1>r, <2>3 DEF CheckCode
    <3>2. peer'[r] = peer[r]
      BY <2>1, <3>1, ObjsAssumption DEF NoneBecomes, Becomes, InUse
    <3>. QED  BY <2>1, <2>3, <3>1, <3>2, NothingHeldKeepsStrikes DEF TakesCode, Goal
  <2>. QED  BY <2>2, <2>3
<1>9. CASE AcceptCode
  <2>1. r \in Objs /\ reader.pc = "verdict"
    BY <1>9, <1>a DEF AcceptCode
  <2>2. \A x \in Objs : peer'[x] = Blank \/ (x # r /\ peer'[x] = peer[x]) \/ peer'[x].attempts = 0
    BY <1>9, <1>0 DEF AcceptCode, Sound, PeerStates
  <2>3. \A x \in Objs : Exhausted(peer'[x]) => Exhausted(peer[x]) /\ peer'[x] = peer[x]
    BY <2>2 DEF Blank, NewPeer, Exhausted
  <2>4. reader'.pc = "idle"
    BY <1>9 DEF AcceptCode, Done, Idle
  <2>. QED  BY <1>0, <2>1, <2>3, <2>4 DEF Goal, ExhaustedOwe, VerdictOwed, StrikesEndSession, Exhausted
<1>10. CASE RefuseCode
  <2>. DEFINE n == peer[r].attempts + 1
              out == peer[r].locked \/ LastStrike(peer[r])
              p == [peer[r] EXCEPT !.attempts = n, !.locked = out]
  <2>1. r \in Objs /\ reader.pc = "verdict" /\ Becomes(r, p)
    BY <1>10, <1>a DEF RefuseCode
  <2>2. peer[r] \in PeerStates
    BY <1>0, <2>1 DEF Sound
  <2>3. p.attempts = n /\ p.secret = peer[r].secret /\ p.authed = peer[r].authed
    BY <2>2 DEF PeerStates
  <2>4. Exhausted(p) => LastStrike(peer[r])
    BY <2>3 DEF Exhausted, LastStrike
  <2>5. LastStrike(peer[r]) => Gated(peer[r])
    BY <2>1, <2>2 DEF LastStrike, Gated, SInv, VerdictOwed, PeerStates
  <2>6. reader' = IF LastStrike(peer[r]) THEN [reader EXCEPT !.pc = "strike"] ELSE Idle
    BY <1>10 DEF RefuseCode, GoTo, Done
  <2>7. /\ reader'.pc # "verdict"
        /\ LastStrike(peer[r]) => reader'.pc = "strike" /\ reader'.p = r
    BY <2>6, <1>r DEF Idle
  <2>8. Exhausted(p) => Gated(p)
    BY <2>3, <2>4, <2>5 DEF Gated, RequiresMFA
  <2>. HIDE DEF p
  <2>. QED  BY <2>1, <2>4, <2>7, <2>8, ReaderKeepsStrikes DEF Goal
<1>11. CASE StrikeOut
  <2>. DEFINE p == [Drop(peer[r]) EXCEPT !.authed = FALSE]
  <2>1. r \in Objs /\ Becomes(r, p)
    BY <1>11, <1>a DEF StrikeOut
  <2>2. ~Opens(p) /\ (Exhausted(p) => Exhausted(peer[r])) /\ (Gated(peer[r]) => Gated(p))
    BY <1>0, <2>1 DEF Drop, Opens, Exhausted, Gated, RequiresMFA, Sound, PeerStates
  <2>3. reader'.pc = "idle"
    BY <1>11 DEF StrikeOut, Done, Idle
  <2>. HIDE DEF p
  <2>. QED  BY <1>0, <2>1, <2>2, <2>3, ReaderKeepsStrikes DEF Goal
<1>. QED  BY <1>1, <1>2, <1>3, <1>4, <1>5, <1>6, <1>7, <1>8, <1>9, <1>10, <1>11 DEF ReaderStep, Goal

(* The last wrong code ends the session of a peer that may be given more     *)
(* than one: one that used up its attempts has no usable session, except    *)
(* while readLoop is about to drop it or to restart the count.  With a       *)
(* single attempt it fails: a secret taken away between the check of a code *)
(* and the verdict leaves a struck peer that needs no code any more.        *)
THEOREM StrikesAreFinal ==
  ASSUME MaxAttempts > 1
  PROVE  Spec => []StrikesEndSession
<1>1. Init => SInv
  <2>. SUFFICES ASSUME Init PROVE SInv
    OBVIOUS
  <2>1. IInv
    BY InitIInv
  <2>2. \A o \in Objs : peer[o].attempts = 0
    BY DEF Init, Blank, NewPeer
  <2>3. reader.pc = "idle"
    BY DEF Init, Idle
  <2>. QED  BY <2>1, <2>2, <2>3, AttemptsAssumption
            DEF SInv, ExhaustedOwe, VerdictOwed, StrikesEndSession, Exhausted
<1>2. SInv /\ [Next]_vars => SInv'
  <2>. SUFFICES ASSUME SInv, [Next]_vars PROVE SInv'
    OBVIOUS
  <2>1. IInv'
    BY StepIInv DEF SInv
  <2>2. CASE UNCHANGED vars
    BY <2>1, <2>2 DEF vars, SInv, ExhaustedOwe, VerdictOwed, StrikesEndSession
  <2>3. CASE Next
    BY <2>1, <2>3, OthersKeepStrikes, ReaderStepKeepsStrikes DEF Next, SInv
  <2>. QED  BY <2>2, <2>3
<1>3. SInv => StrikesEndSession
  BY DEF SInv
<1>. QED  BY <1>1, <1>2, <1>3, PTL DEF Spec


-------------------------------------------------------------------------------
(* ----------------------- the talk about the code ---------------------- *)

Links == {"none", "hub", "site", "apart", "same"}
Counts == 0..MaxTries
Hubs == [mfa : BOOLEAN, enabled : BOOLEAN, authed : BOOLEAN, tries : Counts, locked : BOOLEAN]
SiteProcs == [alive : BOOLEAN, authed : BOOLEAN, sent : BOOLEAN, asking : BOOLEAN,
              tries : Counts, forwarding : BOOLEAN]

(* An end only refuses, or is refused, a code while it has a try left: the hub *)
(* forgets its count with the next handshake and not when the lock ends.    *)
HubOK(h, l) ==
  h \in Hubs /\ (h.mfa /\ ~h.authed /\ l \in {"hub", "apart", "same"} => h.tries < MaxTries)
SiteOK(s) == s \in SiteProcs /\ s.tries < MaxTries

Openable(f, l) ==
  /\ f \subseteq Frames
  /\ \A m \in f : IF m.to = "hub" THEN l \in {"hub", "apart", "same"} ELSE l \in {"site", "apart", "same"}

LinkInv ==
  /\ attended \in BOOLEAN /\ calm \in BOOLEAN /\ codes \in {"right", "wrong", "none"}
  /\ command \in {"none", "enable", "disable"} /\ link \in Links
  /\ HubOK(hub, link) /\ SiteOK(site) /\ Openable(flight, link)

LEMMA FramesOfActions ==
  /\ \A b \in BOOLEAN : /\ Frame("site", "challenge", b) \in Frames
                        /\ Frame("site", "result", b) \in Frames
                        /\ Frame("hub", "code", b) \in Frames
  /\ \A cmd \in {"enable", "disable", "kick"} : Frame("site", cmd, TRUE) \in Frames
  /\ Frame("hub", "bye", TRUE) \in Frames
  /\ \A m \in Frames : m.to \in {"hub", "site"} /\ (m.kind = "code" => m.to = "hub" /\ m.arg \in BOOLEAN)
<1>1. \A b \in BOOLEAN : /\ Frame("site", "challenge", b) \in Frames
                         /\ Frame("site", "result", b) \in Frames
                         /\ Frame("hub", "code", b) \in Frames
  BY DEF Frames
<1>2. /\ \A cmd \in {"enable", "disable", "kick"} : Frame("site", cmd, TRUE) \in Frames
      /\ Frame("hub", "bye", TRUE) \in Frames
  BY DEF Frames
<1>3. ASSUME NEW m \in Frames
      PROVE  m.to \in {"hub", "site"} /\ (m.kind = "code" => m.to = "hub" /\ m.arg \in BOOLEAN)
  <2>1. \/ \E b \in BOOLEAN : m = Frame("site", "challenge", b)
        \/ \E b \in BOOLEAN : m = Frame("site", "result", b)
        \/ \E cmd \in {"enable", "disable", "kick"} : m = Frame("site", cmd, TRUE)
        \/ \E b \in BOOLEAN : m = Frame("hub", "code", b)
        \/ m = Frame("hub", "bye", TRUE)
    BY DEF Frames
  <2>. QED  BY <2>1 DEF Frame
<1>. QED  BY <1>1, <1>2, <1>3

LEMMA FewerOpenable ==
  ASSUME NEW f, NEW l, Openable(f, l), NEW g \in SUBSET f
  PROVE  Openable(g, l)
BY DEF Openable

LEMMA SentOpenable ==
  ASSUME NEW f, Openable(f, link), NEW S \in SUBSET Frames
  PROVE  Openable(Sent(f, S), link)
<1>. DEFINE out == {m \in S : IF m.to = "site" THEN link = "same" ELSE SiteUp /\ HubUp}
<1>1. Openable(f \cup out, link)
  BY FramesOfActions DEF Openable, SiteUp, HubUp
<1>2. Sent(f, S) \in {f \cup out, f}
  BY DEF Sent
<1>. QED  BY <1>1, <1>2

LEMMA LostOpenable ==
  ASSUME link \in Links, NEW f, Openable(f, link)
  PROVE  /\ Openable(Lost(f, "hub"), HubDrops) /\ HubDrops \in {"none", "site"}
         /\ Openable(Lost(f, "site"), SiteDrops) /\ SiteDrops \in {"none", "hub"}
         /\ link \in {"site", "apart", "same"} => HubDrops = "site"
         /\ link \in {"hub", "apart", "same"} => SiteDrops = "hub"
BY FramesOfActions DEF Links, Openable, Lost, HubDrops, SiteDrops

(* An end that loses its session, or stops, leaves the rest as it was.         *)
LEMMA HubGone ==
  ASSUME LinkInv, NEW h \in Hubs, NEW f, Openable(f, link),
         link' = HubDrops, hub' = h, flight' = Lost(f, "hub"),
         UNCHANGED <<attended, codes, command, site, calm>>
  PROVE  LinkInv'
BY LostOpenable DEF LinkInv, HubOK, Links

LEMMA SiteGone ==
  ASSUME LinkInv, NEW s, SiteOK(s), NEW f, Openable(f, link),
         link' = SiteDrops, site' = s, flight' = Lost(f, "site"),
         UNCHANGED <<attended, codes, hub, command, calm>>
  PROVE  LinkInv'
<1>1. link' \in {"none", "hub"} /\ (link' = "hub" => link \in {"hub", "apart", "same"})
  BY LostOpenable DEF LinkInv, Links, SiteDrops
<1>. QED  BY <1>1, LostOpenable DEF LinkInv, HubOK, Links

LEMMA ProcessStates == SiteOK(Started) /\ SiteOK(Stopped)
<1>1. SiteOK(Started)
  BY TriesAssumption DEF SiteOK, SiteProcs, Counts, Started
<1>2. \A s : SiteOK(s) => SiteOK([s EXCEPT !.alive = FALSE])
  BY DEF SiteOK, SiteProcs
<1>. QED  BY <1>1, <1>2 DEF Stopped

LEMMA FailStep ==
  ASSUME LinkInv, NEW f, Openable(f, link), Fail(f),
         UNCHANGED <<attended, codes, hub, command, calm>>
  PROVE  LinkInv'
<1>. DEFINE bye == IF attended THEN {Frame("hub", "bye", TRUE)} ELSE {}
<1>1. Openable(Sent(f, bye), link)
  BY FramesOfActions, SentOpenable
<1>. QED  BY <1>1, ProcessStates, SiteGone DEF Fail

LEMMA ChallengedStep ==
  ASSUME LinkInv, NEW f, Openable(f, link), NEW s, SiteOK(s),
         Challenged(f, s), UNCHANGED <<attended, codes, hub, command, calm>>
  PROVE  LinkInv'
<1>1. SiteOK([s EXCEPT !.asking = TRUE]) /\ SiteOK([s EXCEPT !.sent = TRUE])
  BY DEF SiteOK, SiteProcs
<1>2. Openable(Sent(f, {Frame("hub", "code", codes = "right")}), link)
  BY FramesOfActions, SentOpenable
<1>3. CASE Fail(f)
  BY <1>3, FailStep
<1>4. CASE flight' = f /\ site' = [s EXCEPT !.asking = TRUE] /\ UNCHANGED link
  BY <1>1, <1>4 DEF LinkInv
<1>5. CASE /\ flight' = Sent(f, {Frame("hub", "code", codes = "right")})
           /\ site' = [s EXCEPT !.sent = TRUE] /\ UNCHANGED link
  BY <1>1, <1>2, <1>5 DEF LinkInv
<1>. QED  BY <1>3, <1>4, <1>5 DEF Challenged

LEMMA HubSteps ==
  ASSUME LinkInv, HubNext
  PROVE  LinkInv'
<1>1. hub \in Hubs /\ link \in Links /\ Openable(flight, link) /\ MaxTries \in Nat \ {0}
  BY TriesAssumption DEF LinkInv, HubOK
<1>2. \A h \in Hubs : ResetHubAuth(h) \in Hubs /\ ResetHubAuth(h).tries = h.tries
  BY DEF ResetHubAuth, Hubs
<1>3. CASE Rotate
  <2>1. PICK mfa \in BOOLEAN : hub' = ResetHubAuth([hub EXCEPT !.mfa = mfa, !.tries = 0])
    BY <1>3 DEF Rotate
  <2>2. [hub EXCEPT !.mfa = mfa, !.tries = 0] \in Hubs /\ [hub EXCEPT !.mfa = mfa, !.tries = 0].tries = 0
    <3>1. 0 \in Counts
      BY <1>1 DEF Counts
    <3>. QED  BY <1>1, <3>1 DEF Hubs
  <2>3. hub' \in Hubs /\ hub'.tries = 0
    BY <1>2, <2>1, <2>2
  <2>4. /\ flight' = {IF m.kind = "code" THEN [m EXCEPT !.arg = FALSE] ELSE m : m \in flight}
        /\ codes' \in {"right", "wrong", "none"} /\ UNCHANGED <<attended, command, site, link, calm>>
    BY <1>3 DEF Rotate
  <2>5. \A m \in flight : m.kind = "code" => m = Frame("hub", "code", m.arg)
    <3>1. \A m \in Frames : m.kind = "code" => m = Frame("hub", "code", m.arg)
      BY DEF Frames, Frame
    <3>. QED  BY <1>1, <3>1 DEF Openable
  <2>6. \A m \in flight : m.kind = "code" =>
          [m EXCEPT !.arg = FALSE] = Frame("hub", "code", FALSE) /\ m.to = "hub"
    <3>1. ASSUME NEW m, NEW arg, m = Frame("hub", "code", arg),
                 NEW x, x = [m EXCEPT !.arg = FALSE]
          PROVE  x = Frame("hub", "code", FALSE) /\ m.to = "hub"
      BY <3>1 DEF Frame
    <3>. QED  BY <2>5, <3>1
  <2>7. \A m \in flight' : m \in flight \/ (m = Frame("hub", "code", FALSE)
                                            /\ link \in {"hub", "apart", "same"})
    BY <1>1, <2>4, <2>6 DEF Openable
  <2>8. Frame("hub", "code", FALSE) \in Frames /\ Frame("hub", "code", FALSE).to = "hub"
    BY FramesOfActions DEF Frame
  <2>9. Openable(flight', link)
    BY <1>1, <2>7, <2>8 DEF Openable
  <2>. QED  BY <1>1, <2>3, <2>4, <2>9 DEF LinkInv, HubOK
<1>4. CASE Switch
  <2>1. hub' = [hub EXCEPT !.enabled = ~hub.enabled]
    BY <1>4 DEF Switch
  <2>2. hub' \in Hubs /\ hub'.mfa = hub.mfa /\ hub'.authed = hub.authed /\ hub'.tries = hub.tries
    BY <1>1, <2>1 DEF Hubs
  <2>. QED  BY <1>4, <2>2 DEF Switch, LinkInv, HubOK
<1>5. CASE SendCommand
  <2>1. command \in {"enable", "disable"}
    BY <1>5 DEF SendCommand, LinkInv
  <2>2. Openable(flight', link)
    BY <1>1, <1>5, <2>1, FramesOfActions, SentOpenable DEF SendCommand
  <2>. QED  BY <1>5, <2>2 DEF SendCommand, LinkInv
<1>6. CASE Kick
  <2>1. Openable(Sent(flight, {Frame("site", "kick", TRUE)}), link)
    BY <1>1, FramesOfActions, SentOpenable
  <2>. QED  BY <1>1, <1>2, <1>6, <2>1, HubGone DEF Kick, HubLoses
<1>7. CASE HubDead
  BY <1>1, <1>2, <1>7, HubGone DEF HubDead, HubLoses
<1>8. CASE MfaTimeout
  BY <1>1, <1>8, HubGone DEF MfaTimeout, HubLoses
<1>9. CASE ResendChallenge
  <2>1. Openable(flight', link)
    BY <1>1, <1>9, FramesOfActions, SentOpenable DEF ResendChallenge
  <2>. QED  BY <1>9, <2>1 DEF ResendChallenge, LinkInv
<1>10. CASE ResendDisable
  <2>1. Openable(flight', link)
    BY <1>1, <1>10, FramesOfActions, SentOpenable DEF ResendDisable
  <2>. QED  BY <1>10, <2>1 DEF ResendDisable, LinkInv
<1>11. CASE Unlock
  <2>1. hub' \in Hubs /\ hub'.mfa = hub.mfa /\ hub'.authed = hub.authed /\ hub'.tries = hub.tries
    BY <1>1, <1>11 DEF Unlock, Hubs
  <2>. QED  BY <1>11, <2>1 DEF Unlock, LinkInv, HubOK
<1>. QED  BY <1>3, <1>4, <1>5, <1>6, <1>7, <1>8, <1>9, <1>10, <1>11 DEF HubNext

LEMMA SiteSteps ==
  ASSUME LinkInv, SiteNext
  PROVE  LinkInv'
<1>1. /\ hub \in Hubs /\ link \in Links /\ Openable(flight, link) /\ SiteOK(site)
      /\ MaxTries \in Nat \ {0} /\ 0 \in Counts
  BY TriesAssumption DEF LinkInv, HubOK, Counts
<1>2. \A s, b, c \in BOOLEAN :
        /\ SiteOK([site EXCEPT !.sent = FALSE]) /\ SiteOK([site EXCEPT !.authed = TRUE])
        /\ SiteOK([site EXCEPT !.asking = FALSE, !.sent = TRUE])
        /\ SiteOK([site EXCEPT !.authed = b, !.sent = FALSE])
  BY <1>1 DEF SiteOK, SiteProcs
<1>3. CASE Answer
  <2>1. Openable(flight', link)
    BY <1>1, <1>3, FramesOfActions, SentOpenable DEF Answer
  <2>. QED  BY <1>2, <1>3, <2>1 DEF Answer, LinkInv
<1>4. CASE Cancel
  BY <1>1, <1>4, FailStep DEF Cancel
<1>5. CASE Grace
  BY <1>2, <1>5 DEF Grace, LinkInv
<1>6. CASE AskAgain
  BY <1>1, <1>2, <1>6, ChallengedStep DEF AskAgain
<1>7. CASE SiteDead
  BY <1>1, <1>2, <1>7, SiteGone DEF SiteDead
<1>. DEFINE required == hub.mfa /\ ~hub.authed
            asked == IF required THEN [hub EXCEPT !.tries = 0] ELSE hub
<1>8. asked \in Hubs /\ (asked.mfa /\ ~asked.authed => asked.tries < MaxTries) /\ required \in BOOLEAN
  BY <1>1 DEF Hubs
<1>9. CASE Handshake
  <2>. DEFINE f == flight \cup {Frame("site", "challenge", required)}
  <2>1. /\ link' = "same" /\ hub' = asked /\ site' = [site EXCEPT !.authed = FALSE, !.sent = FALSE]
        /\ flight' \in {f, flight} /\ UNCHANGED <<attended, codes, command, calm>>
    BY <1>9 DEF Handshake
  <2>2. Openable(f, "same") /\ Openable(flight, "same")
    BY <1>1, <1>8, FramesOfActions DEF Openable
  <2>. HIDE DEF asked, required, f
  <2>. QED  BY <1>2, <1>8, <2>1, <2>2 DEF LinkInv, HubOK, Links
<1>10. CASE HalfHandshake
  <2>1. /\ link' = IF SiteUp THEN "apart" ELSE "hub"
        /\ hub' = asked /\ UNCHANGED <<attended, codes, command, site, flight, calm>>
    BY <1>10 DEF HalfHandshake
  <2>2. Openable(flight, link') /\ link' \in Links
    BY <1>1, <2>1, FramesOfActions DEF Openable, SiteUp, Links
  <2>. HIDE DEF asked, required
  <2>. QED  BY <1>8, <2>1, <2>2 DEF LinkInv, HubOK
<1>11. CASE Restart
  BY <1>11, ProcessStates DEF Restart, LinkInv
<1>12. CASE Crash
  BY <1>1, <1>12, ProcessStates, SiteGone DEF Crash
<1>. QED  BY <1>3, <1>4, <1>5, <1>6, <1>7, <1>9, <1>10, <1>11, <1>12
          DEF SiteNext, Connect, Rekey

LEMMA ReceiveSteps ==
  ASSUME LinkInv, Receive
  PROVE  LinkInv'
<1>1. /\ hub \in Hubs /\ HubOK(hub, link) /\ link \in Links /\ Openable(flight, link) /\ SiteOK(site)
      /\ MaxTries \in Nat \ {0} /\ 0 \in Counts /\ \A m : Openable(flight \ {m}, link)
  BY FewerOpenable, TriesAssumption DEF LinkInv, HubOK, Counts
<1>2. ASSUME NEW good \in BOOLEAN, ReceiveCode(good) PROVE LinkInv'
  <2>. DEFINE m == Frame("hub", "code", good)
              Verdict(ok) == Sent(flight \ {m}, {Frame("site", "result", ok)})
  <2>1. HubUp /\ UNCHANGED <<attended, codes, command, site, calm>>
    BY <1>2 DEF ReceiveCode
  <2>2. \A ok \in BOOLEAN : Openable(Verdict(ok), link)
    BY <1>1, FramesOfActions, SentOpenable
  <2>3. Openable(flight \ {m}, link)
    BY <1>1
  <2>4. \/ UNCHANGED <<hub, link>> /\ flight' \in {flight \ {m}, Verdict(TRUE), Verdict(FALSE)}
        \/ hub' = [hub EXCEPT !.authed = TRUE, !.tries = 0] /\ flight' = Verdict(TRUE) /\ UNCHANGED link
        \/ /\ hub.tries + 1 < MaxTries /\ hub' = [hub EXCEPT !.tries = hub.tries + 1]
           /\ flight' = Verdict(FALSE) /\ UNCHANGED link
        \/ /\ hub.mfa /\ ~hub.authed /\ hub' = [hub EXCEPT !.tries = hub.tries + 1, !.locked = TRUE]
           /\ link' = HubDrops /\ flight' = Lost(Verdict(FALSE), "hub")
    BY <1>2 DEF ReceiveCode, HubLoses
  <2>. HIDE DEF Verdict, m
  <2>5. CASE UNCHANGED <<hub, link>> /\ flight' \in {flight \ {m}, Verdict(TRUE), Verdict(FALSE)}
    BY <2>1, <2>2, <2>3, <2>5 DEF LinkInv
  <2>6. CASE hub' = [hub EXCEPT !.authed = TRUE, !.tries = 0] /\ flight' = Verdict(TRUE) /\ UNCHANGED link
    <3>1. hub' \in Hubs /\ hub'.authed = TRUE
      BY <1>1, <2>6 DEF Hubs
    <3>. QED  BY <2>1, <2>2, <2>6, <3>1 DEF LinkInv, HubOK
  <2>7. CASE /\ hub.tries + 1 < MaxTries /\ hub' = [hub EXCEPT !.tries = hub.tries + 1]
             /\ flight' = Verdict(FALSE) /\ UNCHANGED link
    <3>1. hub.tries + 1 \in Counts
      BY <1>1, <2>7 DEF Hubs, Counts
    <3>2. hub' \in Hubs /\ hub'.tries < MaxTries
      BY <1>1, <2>7, <3>1 DEF Hubs
    <3>. QED  BY <2>1, <2>2, <2>7, <3>2 DEF LinkInv, HubOK
  <2>8. CASE /\ hub.mfa /\ ~hub.authed /\ hub' = [hub EXCEPT !.tries = hub.tries + 1, !.locked = TRUE]
             /\ link' = HubDrops /\ flight' = Lost(Verdict(FALSE), "hub")
    <3>1. hub.tries + 1 \in Counts
      BY <1>1, <2>1, <2>8 DEF HubOK, Hubs, Counts, HubUp
    <3>2. hub' \in Hubs
      BY <1>1, <2>8, <3>1 DEF Hubs
    <3>. QED  BY <2>1, <2>2, <2>8, <3>2, HubGone
  <2>. QED  BY <2>4, <2>5, <2>6, <2>7, <2>8
<1>3. ASSUME NEW required \in BOOLEAN, ReceiveChallenge(required) PROVE LinkInv'
  <2>. DEFINE m == Frame("site", "challenge", required)
  <2>1. /\ UNCHANGED <<attended, codes, hub, command, calm>>
        /\ \/ Challenged(flight \ {m}, site)
           \/ /\ site' = [site EXCEPT !.authed = TRUE] /\ flight' = flight \ {m} /\ UNCHANGED link
    BY <1>3 DEF ReceiveChallenge
  <2>2. SiteOK([site EXCEPT !.authed = TRUE])
    BY <1>1 DEF SiteOK, SiteProcs
  <2>3. Openable(flight \ {m}, link)
    BY <1>1
  <2>. HIDE DEF m
  <2>4. CASE Challenged(flight \ {m}, site)
    BY <1>1, <2>1, <2>3, <2>4, ChallengedStep
  <2>5. CASE site' = [site EXCEPT !.authed = TRUE] /\ flight' = flight \ {m} /\ UNCHANGED link
    BY <2>1, <2>2, <2>3, <2>5 DEF LinkInv
  <2>. QED  BY <2>1, <2>4, <2>5
<1>4. ASSUME NEW ok \in BOOLEAN, ReceiveResult(ok) PROVE LinkInv'
  <2>. DEFINE m == Frame("site", "result", ok)
              refused == [site EXCEPT !.tries = site.tries + 1, !.sent = FALSE]
  <2>1. /\ UNCHANGED <<attended, codes, hub, command, calm>>
        /\ \/ site' = [site EXCEPT !.authed = TRUE] /\ flight' = flight \ {m} /\ UNCHANGED link
           \/ Fail(flight \ {m})
           \/ refused.tries < MaxTries /\ Challenged(flight \ {m}, refused)
    BY <1>4 DEF ReceiveResult
  <2>2. SiteOK([site EXCEPT !.authed = TRUE])
    BY <1>1 DEF SiteOK, SiteProcs
  <2>3. ASSUME refused.tries < MaxTries PROVE SiteOK(refused)
    <3>1. refused.tries = site.tries + 1 /\ site.tries \in Nat
      BY <1>1 DEF SiteOK, SiteProcs, Counts
    <3>2. site.tries + 1 \in Counts
      BY <1>1, <2>3, <3>1 DEF Counts
    <3>3. refused \in SiteProcs
      BY <1>1, <3>2 DEF SiteOK, SiteProcs
    <3>. QED  BY <2>3, <3>3 DEF SiteOK
  <2>4. Openable(flight \ {m}, link)
    BY <1>1
  <2>. HIDE DEF m, refused
  <2>5. CASE site' = [site EXCEPT !.authed = TRUE] /\ flight' = flight \ {m} /\ UNCHANGED link
    BY <2>1, <2>2, <2>4, <2>5 DEF LinkInv
  <2>6. CASE Fail(flight \ {m})
    BY <2>1, <2>4, <2>6, FailStep
  <2>7. CASE refused.tries < MaxTries /\ Challenged(flight \ {m}, refused)
    BY <2>1, <2>3, <2>4, <2>7, ChallengedStep
  <2>. QED  BY <2>1, <2>5, <2>6, <2>7
<1>5. ASSUME NEW cmd, ReceiveCommand(cmd) PROVE LinkInv'
  <2>. DEFINE m == Frame("site", cmd, TRUE)
              on == cmd = "enable"
  <2>1. /\ UNCHANGED <<attended, codes, hub, command, calm>>
        /\ \/ /\ site' = [site EXCEPT !.authed = FALSE, !.sent = FALSE]
              /\ link' = SiteDrops /\ flight' = Lost(flight, "site")
           \/ site' = [site EXCEPT !.forwarding = on] /\ flight' = flight \ {m} /\ UNCHANGED link
    BY <1>5 DEF ReceiveCommand
  <2>2. SiteOK([site EXCEPT !.authed = FALSE, !.sent = FALSE])
    BY <1>1 DEF SiteOK, SiteProcs
  <2>3. SiteOK([site EXCEPT !.forwarding = on])
    <3>1. on \in BOOLEAN
      OBVIOUS
    <3>. HIDE DEF on
    <3>. QED  BY <1>1, <3>1 DEF SiteOK, SiteProcs
  <2>4. Openable(flight \ {m}, link)
    BY <1>1
  <2>. HIDE DEF m, on
  <2>5. CASE /\ site' = [site EXCEPT !.authed = FALSE, !.sent = FALSE]
             /\ link' = SiteDrops /\ flight' = Lost(flight, "site")
    BY <1>1, <2>1, <2>2, <2>5, SiteGone
  <2>6. CASE site' = [site EXCEPT !.forwarding = on] /\ flight' = flight \ {m} /\ UNCHANGED link
    BY <2>1, <2>3, <2>4, <2>6 DEF LinkInv
  <2>. QED  BY <2>1, <2>5, <2>6
<1>6. CASE ReceiveBye
  <2>1. ResetHubAuth(hub) \in Hubs
    BY <1>1 DEF ResetHubAuth, Hubs
  <2>. QED  BY <1>1, <1>6, <2>1, HubGone DEF ReceiveBye, HubLoses
<1>. QED  BY <1>2, <1>3, <1>4, <1>5, <1>6 DEF Receive

(* Frames are only under way to an end that can open them, and however often  *)
(* codes are refused, sessions replaced, secrets changed and processes         *)
(* restarted, neither end counts more refusals than it allows: the hub's      *)
(* count starts anew with each handshake, not when the lock ends (auth.go:    *)
(* handleAuthResp, handleAuthResult; engine.go: sendSealed).                *)
THEOREM LinkTypeCorrect == LinkSpec => []LinkTypeOK
<1>1. LinkInit => LinkInv
  <2>. SUFFICES ASSUME LinkInit PROVE LinkInv
    OBVIOUS
  <2>1. hub \in Hubs /\ hub.tries = 0 /\ MaxTries \in Nat \ {0}
    BY TriesAssumption DEF LinkInit, Hubs, Counts
  <2>. QED  BY <2>1, ProcessStates DEF LinkInit, LinkInv, HubOK, Openable, Links
<1>2. LinkInv /\ [LinkNext]_linkVars => LinkInv'
  <2>. SUFFICES ASSUME LinkInv, [LinkNext]_linkVars PROVE LinkInv'
    OBVIOUS
  <2>1. CASE UNCHANGED linkVars
    BY <2>1 DEF linkVars, LinkInv
  <2>2. CASE Lose
    <3>1. Openable(flight', link)
      BY <2>2, FewerOpenable DEF Lose, LinkInv
    <3>. QED  BY <2>2, <3>1 DEF Lose, LinkInv
  <2>3. CASE BecomeCalm
    BY <2>3 DEF BecomeCalm, LinkInv
  <2>. QED  BY <2>1, <2>2, <2>3, HubSteps, SiteSteps, ReceiveSteps DEF LinkNext
<1>3. LinkInv => LinkTypeOK
  BY DEF LinkInv, HubOK, SiteOK, Hubs, SiteProcs, Counts, Openable, Links, LinkTypeOK, HubUp, SiteUp
<1>. QED  BY <1>1, <1>2, <1>3, PTL DEF LinkSpec
===============================================================================
