------------------------------- MODULE PeerAuth -------------------------------
(***************************************************************************)
(* The responder's life cycle of one registered peer: its sessions, its    *)
(* MFA gate and its place in the tables, under the three goroutines that    *)
(* touch them.                                                             *)
(*                                                                         *)
(*   reader   readLoop: handshakes and sealed frames, one at a time        *)
(*   timer    timerLoop: every 250 ms the registry poll, then tick's sweep *)
(*   kicker   the HTTP handler of POST /agents/kick                        *)
(*                                                                         *)
(* A step is one critical section of e.mu: a handler that releases the     *)
(* mutex and takes it again is several actions, and the others may run in  *)
(* between.  What a handler reads without the mutex is read in the action  *)
(* of the critical section beside it.  The frames the responder sends are  *)
(* left out; nothing here reads them.                                      *)
(*                                                                         *)
(* One key of the registry is followed.  A registry change that removes    *)
(* and re-adds it makes a new peerState while a goroutine may still hold   *)
(* the old one, hence the set Objs of peerState objects.                   *)
(*                                                                         *)
(* Times are kept as what the code asks of them (has it passed?), and the  *)
(* environment lets each pass on its own.                                  *)
(***************************************************************************)
EXTENDS Integers

CONSTANTS
  Objs,         (* peerState objects that may exist at once (a bound)       *)
  None,         (* no object (a nil pointer, a missing table entry)         *)
  Secrets,      (* TOTP secrets the control plane may assign                *)
  NoMFA,        (* the empty secret: no code is asked of this peer          *)
  Absent,       (* the registry files do not list the key                   *)
  MaxAttempts   (* wrong codes before the lock (3 in the code)              *)

ASSUME ObjsAssumption == None \notin Objs
ASSUME SecretsAssumption == NoMFA \notin Secrets /\ Absent \notin Secrets \cup {NoMFA}
ASSUME AttemptsAssumption == MaxAttempts \in Nat \ {0}

Entries == Secrets \cup {NoMFA}

VARIABLES
  file,     (* what clients.json / agents.json says of the key             *)
  reg,      (* e.peers[key]                                                *)
  byAddr,   (* e.addr2peer[the address the peer sends from]                *)
  peer,     (* the peerState objects                                       *)
  reader,   (* where readLoop is, the object it holds and what it computed *)
  timer,    (* the half of tick that comes next                            *)
  kicker,   (* where KickAgent is and the object it holds                  *)
  credit    (* history: a code of this object was accepted after it last   *)
            (* lost its session or changed its secret                      *)

vars == <<file, reg, byAddr, peer, reader, timer, kicker, credit>>

(* What is kept of a peerState.  prev: "stale" once prevDeadline passed.   *)
(* authDeadline: "unset" is Go's zero time, which has always passed.       *)
(* quiet: DeadTimeout has passed since lastRecv.  locked: authLockedUntil  *)
(* is still to come.                                                       *)
PeerStates ==
  [cur : BOOLEAN, prev : {"none", "live", "stale"}, addr : BOOLEAN,
   secret : Entries, authed : BOOLEAN, attempts : Nat,
   deadline : {"unset", "armed", "passed"}, locked : BOOLEAN, quiet : BOOLEAN]

RequiresMFA(p) == p.secret # NoMFA

-------------------------------------------------------------------------------
(* The pieces of state change the handlers share.  A definition that no     *)
(* action uses is a plausible mistake in the one that follows it; it shows *)
(* that the properties notice it.                                          *)

ResetAuthKeeps(p) == p

ResetAuth(p) == [p EXCEPT !.authed = ~RequiresMFA(p)]

DropCurOnly(p) == [p EXCEPT !.cur = FALSE]

(* p.cur, p.prev = nil, nil                                                *)
Drop(p) == [p EXCEPT !.cur = FALSE, !.prev = "none"]

NewPeer(secret) ==
  [cur |-> FALSE, prev |-> "none", addr |-> FALSE,
   secret |-> secret, authed |-> secret = NoMFA, attempts |-> 0,
   deadline |-> "unset", locked |-> FALSE, quiet |-> FALSE]

(* installSession: the current session, if any, lives on as the previous.  *)
InstallSession(p) ==
  [p EXCEPT !.prev = IF p.cur THEN "live" ELSE @, !.cur = TRUE, !.quiet = FALSE]

ChangeSecret(p, secret) ==
  IF p.secret = secret THEN p
  ELSE ResetAuth([p EXCEPT !.secret = secret, !.attempts = 0])

(* The data gate of handleData.                                            *)
Gated(p) == RequiresMFA(p) /\ ~p.authed

LockedOut(p) == RequiresMFA(p) /\ p.locked

(* The sweep of tick over one peer, in the order of the code.              *)
AuthWithoutCode(p) ==
  IF p.cur /\ ~p.authed /\ ~RequiresMFA(p) THEN [p EXCEPT !.authed = TRUE] ELSE p

ExpirePrev(p) == IF p.prev = "stale" THEN [p EXCEPT !.prev = "none"] ELSE p

DropDead(p) == IF p.cur /\ p.quiet THEN ResetAuth(Drop(p)) ELSE p

DropUnproved(p) ==
  IF p.cur /\ Gated(p) /\ p.deadline # "armed" THEN Drop(p) ELSE p

SweepNoCoherence(p) == DropUnproved(DropDead(ExpirePrev(p)))
SweepNoDead(p) == DropUnproved(ExpirePrev(AuthWithoutCode(p)))
SweepNoTimeout(p) == DropDead(ExpirePrev(AuthWithoutCode(p)))

Sweep(p) == DropUnproved(DropDead(ExpirePrev(AuthWithoutCode(p))))

(* The objects something still refers to; any other is garbage and is kept *)
(* as Blank until it is allocated again.                                   *)
InUse == {reg, byAddr, reader.p, kicker.p}
Blank == NewPeer(NoMFA)

(* A new value for one object (or none), once the references of the next   *)
(* state are known.  The history is written with it: credit is lost with   *)
(* the session and with the secret.                                        *)
Becomes(o, p) ==
  /\ peer' = [x \in Objs |-> IF x \notin InUse' THEN Blank
                             ELSE IF x = o THEN p ELSE peer[x]]
  /\ credit' = [x \in Objs |->
       /\ x \in InUse'
       /\ credit[x]
       /\ x = o => ~(peer[x].cur /\ ~p.cur) /\ peer[x].secret = p.secret]

NoneBecomes == Becomes(None, Blank)

-------------------------------------------------------------------------------
(* Where a goroutine is, the object it holds, and the verdict on a code it   *)
(* has checked.                                                            *)
Idle == [pc |-> "idle", p |-> None, ok |-> FALSE]

Init ==
  /\ file \in Entries \cup {Absent}
  /\ reg = None
  /\ byAddr = None
  /\ peer = [o \in Objs |-> Blank]
  /\ reader = Idle
  /\ timer = "reload"
  /\ kicker = Idle
  /\ credit = [o \in Objs |-> FALSE]

(* ------------------------------ environment --------------------------- *)

(* The control plane rewrites the registry file (atomic rename).           *)
WriteRegistry ==
  /\ file' \in (Entries \cup {Absent}) \ {file}
  /\ UNCHANGED <<reg, byAddr, peer, reader, timer, kicker, credit>>

(* Time passes: a moment the peer's fields name is over.                   *)
Elapse(o, p) ==
  /\ UNCHANGED <<file, reg, byAddr, reader, timer, kicker>>
  /\ Becomes(o, p)

GraceEnds(o)      == peer[o].prev = "live" /\ Elapse(o, [peer[o] EXCEPT !.prev = "stale"])
DeadlinePasses(o) == peer[o].deadline = "armed" /\ Elapse(o, [peer[o] EXCEPT !.deadline = "passed"])
LockEnds(o)       == peer[o].locked /\ Elapse(o, [peer[o] EXCEPT !.locked = FALSE])
GoesQuiet(o)      == peer[o].cur /\ ~peer[o].quiet /\ Elapse(o, [peer[o] EXCEPT !.quiet = TRUE])

(* -------------------------------- timer ------------------------------- *)

(* reloadRegistry, the critical section that applies the files: a vanished *)
(* key is dropped, a changed secret resets the gate, a new key gets a new  *)
(* object.                                                                 *)
Revoke(o) ==
  /\ byAddr' = IF peer[o].addr THEN None ELSE byAddr
  /\ reg' = None
  /\ Becomes(o, [Drop(peer[o]) EXCEPT !.authed = FALSE])

Update(o) ==
  /\ UNCHANGED <<reg, byAddr>>
  /\ Becomes(o, ChangeSecret(peer[o], file))

Allocate(o) ==
  /\ reg' = o
  /\ UNCHANGED byAddr
  /\ Becomes(o, NewPeer(file))

ReloadKeepsVanished ==
  /\ timer = "reload"
  /\ timer' = "sweep"
  /\ UNCHANGED <<file, reader, kicker>>
  /\ \/ reg # None /\ Update(reg)
     \/ reg = None /\ file # Absent /\ \E o \in Objs \ InUse : Allocate(o)
     \/ reg = None /\ (file = Absent \/ Objs \subseteq InUse)
        /\ UNCHANGED <<reg, byAddr, peer, credit>>

Reload ==
  /\ timer = "reload"
  /\ timer' = "sweep"
  /\ UNCHANGED <<file, reader, kicker>>
  /\ \/ reg # None /\ file = Absent /\ Revoke(reg)
     \/ reg # None /\ file # Absent /\ Update(reg)
     \/ reg = None /\ file # Absent /\ \E o \in Objs \ InUse : Allocate(o)
     \/ reg = None /\ (file = Absent \/ Objs \subseteq InUse)
        /\ UNCHANGED <<reg, byAddr, peer, credit>>

(* The loop over e.peers in tick.                                          *)
SweepPeers ==
  /\ timer = "sweep"
  /\ timer' = "reload"
  /\ UNCHANGED <<file, reg, byAddr, reader, kicker>>
  /\ IF reg = None THEN UNCHANGED <<peer, credit>> ELSE Becomes(reg, Sweep(peer[reg]))

(* -------------------------------- reader ------------------------------ *)

GoTo(pc) == reader' = [reader EXCEPT !.pc = pc]
Done == reader' = Idle

(* handleHandshakeInit: the peer is looked up by its key and must not be   *)
(* locked out.                                                             *)
AcceptInit ==
  /\ reader.pc = "idle"
  /\ reg # None
  /\ ~LockedOut(peer[reg])
  /\ reader' = [Idle EXCEPT !.pc = "address", !.p = reg]
  /\ UNCHANGED <<file, reg, byAddr, peer, timer, kicker, credit>>

LearnAddress ==
  /\ reader.pc = "address"
  /\ byAddr' = reader.p
  /\ GoTo("install")
  /\ UNCHANGED <<file, reg, timer, kicker>>
  /\ Becomes(reader.p, [peer[reader.p] EXCEPT !.addr = TRUE])

Install ==
  /\ reader.pc = "install"
  /\ GoTo("arm")
  /\ UNCHANGED <<file, reg, byAddr, timer, kicker>>
  /\ Becomes(reader.p, InstallSession(peer[reader.p]))

(* The MFA bookkeeping of a new session, in a critical section of its own. *)
ArmDeadline ==
  /\ reader.pc = "arm"
  /\ Done
  /\ UNCHANGED <<file, reg, byAddr, timer, kicker>>
  /\ Becomes(reader.p,
             IF Gated(peer[reader.p])
             THEN [peer[reader.p] EXCEPT !.attempts = 0, !.deadline = "armed"]
             ELSE peer[reader.p])

(* handleData: the frame opens under a session of the object its source    *)
(* address points to, or else of the registered object.                    *)
Opens(p) == p.cur \/ p.prev = "live"

ReceiveFrame(kind) ==
  /\ reader.pc = "idle"
  /\ UNCHANGED <<file, reg, timer, kicker>>
  /\ \E o \in {byAddr, reg} \ {None} :
       /\ Opens(peer[o])
       /\ byAddr' = o
       /\ reader' = IF kind = "keepalive" \/ (kind = "data" /\ Gated(peer[o]))
                    THEN Idle
                    ELSE [Idle EXCEPT !.pc = kind, !.p = o]
       /\ Becomes(o, [peer[o] EXCEPT !.quiet = FALSE, !.addr = TRUE])

(* deliverData: the packet leaves for the relay.                           *)
Deliver ==
  /\ reader.pc = "data"
  /\ Done
  /\ UNCHANGED <<file, reg, byAddr, timer, kicker>>
  /\ NoneBecomes

Bye ==
  /\ reader.pc = "bye"
  /\ Done
  /\ UNCHANGED <<file, reg, byAddr, timer, kicker>>
  /\ Becomes(reader.p, ResetAuth(Drop(peer[reader.p])))

(* A code is looked at only if one is owed and the peer is not locked.     *)
TakesCode(p) == RequiresMFA(p) /\ ~p.authed /\ ~p.locked

(* handleAuthResp up to the check of the code.  Whether it is a code of  *)
(* the secret and its time step acceptable is left open.                   *)
CheckCode ==
  /\ reader.pc = "auth"
  /\ IF TakesCode(peer[reader.p])
     THEN \E ok \in BOOLEAN :
            reader' = [reader EXCEPT !.pc = "verdict", !.ok = ok]
     ELSE Done
  /\ UNCHANGED <<file, reg, byAddr, timer, kicker>>
  /\ NoneBecomes

(* The critical section that applies the outcome.                          *)
AcceptCode ==
  /\ reader.pc = "verdict"
  /\ reader.ok
  /\ Done
  /\ UNCHANGED <<file, reg, byAddr, timer, kicker>>
  /\ peer' = [o \in Objs |-> IF o \notin InUse' THEN Blank
                             ELSE IF o = reader.p
                                  THEN [peer[o] EXCEPT !.authed = TRUE, !.attempts = 0]
                                  ELSE peer[o]]
  /\ credit' = [o \in Objs |-> o \in InUse' /\ (credit[o] \/ o = reader.p)]

LastStrikeLate(p) == p.attempts >= MaxAttempts

LastStrike(p) == p.attempts + 1 >= MaxAttempts

RefuseCode ==
  /\ reader.pc = "verdict"
  /\ ~reader.ok
  /\ IF LastStrike(peer[reader.p]) THEN GoTo("strike") ELSE Done
  /\ UNCHANGED <<file, reg, byAddr, timer, kicker>>
  /\ Becomes(reader.p, [peer[reader.p] EXCEPT !.attempts = @ + 1,
                                              !.locked = @ \/ LastStrike(peer[reader.p])])

(* After the last wrong code the session is dropped, again under the mutex. *)
StrikeOut ==
  /\ reader.pc = "strike"
  /\ Done
  /\ UNCHANGED <<file, reg, byAddr, timer, kicker>>
  /\ Becomes(reader.p, [Drop(peer[reader.p]) EXCEPT !.authed = FALSE])

(* -------------------------------- kicker ------------------------------ *)

KickLookup ==
  /\ kicker.pc = "idle"
  /\ reg # None
  /\ peer[reg].cur
  /\ kicker' = [Idle EXCEPT !.pc = "drop", !.p = reg]
  /\ UNCHANGED <<file, reg, byAddr, peer, reader, timer, credit>>

KickDrop ==
  /\ kicker.pc = "drop"
  /\ kicker' = Idle
  /\ UNCHANGED <<file, reg, byAddr, reader, timer>>
  /\ Becomes(kicker.p, ResetAuth(Drop(peer[kicker.p])))

-------------------------------------------------------------------------------
ReaderStep ==
  \/ LearnAddress \/ Install \/ ArmDeadline
  \/ Deliver \/ Bye \/ CheckCode \/ AcceptCode \/ RefuseCode \/ StrikeOut

TimerStep == Reload \/ SweepPeers

Next ==
  \/ WriteRegistry
  \/ \E o \in Objs : GraceEnds(o) \/ DeadlinePasses(o) \/ LockEnds(o) \/ GoesQuiet(o)
  \/ AcceptInit
  \/ \E kind \in {"keepalive", "data", "bye", "auth"} : ReceiveFrame(kind)
  \/ ReaderStep
  \/ TimerStep
  \/ KickLookup
  \/ KickDrop

Spec == Init /\ [][Next]_vars

(* The goroutines run, deadlines pass.  Nothing makes a peer send, an       *)
(* operator kick, or the control plane write.                              *)
Fairness ==
  /\ WF_vars(ReaderStep)
  /\ WF_vars(TimerStep)
  /\ WF_vars(KickDrop)
  /\ \A o \in Objs : WF_vars(DeadlinePasses(o)) /\ WF_vars(GoesQuiet(o))

FairSpec == Spec /\ Fairness

-------------------------------------------------------------------------------
Pcs == {"idle", "address", "install", "arm", "data", "bye", "auth", "verdict", "strike", "drop"}

TypeOK ==
  /\ file \in Entries \cup {Absent}
  /\ reg \in Objs \cup {None}
  /\ byAddr \in Objs \cup {None}
  /\ peer \in [Objs -> PeerStates]
  /\ reader \in [pc : Pcs, p : Objs \cup {None}, ok : BOOLEAN]
  /\ timer \in {"reload", "sweep"}
  /\ kicker \in [pc : {"idle", "drop"}, p : Objs \cup {None}, ok : {FALSE}]
  /\ credit \in [Objs -> BOOLEAN]

(* However a session ends (bye, kick, strike, silence, MFA timeout,         *)
(* revocation), its predecessor ends with it: no superseded session goes    *)
(* on decrypting frames of a peer that counts as offline.                  *)
NoSessionOutlivesCur == \A o \in Objs : Opens(peer[o]) => peer[o].cur

(* "A peer that needs a code must prove itself again" (engine.go:122): the  *)
(* gate of an MFA peer is open only by a code accepted after the peer last  *)
(* lost its session and after its secret last changed.  (Accepted after, not  *)
(* checked after: a code checked against the secret before the change opens  *)
(* the gate if its verdict comes after it.)                                *)
OpenGateIsEarned ==
  \A o \in Objs : RequiresMFA(peer[o]) /\ peer[o].authed => credit[o]

(* PROTOCOL.md:87: the last wrong code ends the session.  A peer that used  *)
(* up its attempts has no usable session, except while readLoop is about to *)
(* drop it, or has just installed one and is about to restart the count.   *)
StrikesEndSession ==
  \A o \in Objs :
    peer[o].attempts >= MaxAttempts /\ Opens(peer[o]) =>
      reader.p = o /\ reader.pc \in {"strike", "arm"}

(* engine.go:524: no path leaves a connected peer that needs no code at     *)
(* "authenticating" with its traffic refused.                              *)
KeyAloneSuffices ==
  \A o \in Objs :
    reg = o /\ peer[o].cur /\ ~RequiresMFA(peer[o])
      ~> ~(reg = o /\ peer[o].cur /\ ~RequiresMFA(peer[o]) /\ ~peer[o].authed)

(* auth.go:18: a session that waits for a code does not wait for ever, once *)
(* the peer stops making new ones.                                         *)
Waiting(o) == reg = o /\ peer[o].cur /\ Gated(peer[o])

WaitingEnds ==
  <>[][~ArmDeadline]_vars => \A o \in Objs : Waiting(o) ~> ~Waiting(o)

(* PROTOCOL.md:70: a peer that falls silent is dropped.                     *)
Heard == (\E k \in {"keepalive", "data", "bye", "auth"} : ReceiveFrame(k)) \/ Install

SilentPeersDropped ==
  <>[][~Heard]_vars => \A o \in Objs : reg = o /\ peer[o].cur ~> ~(reg = o /\ peer[o].cur)

-------------------------------------------------------------------------------
(* What the documentation says and the code does not do.                   *)

(* PROTOCOL.md:91: a peer that lost its session and reconnects has to       *)
(* authenticate again.                                                     *)
ReconnectMustProve ==
  [][\A o \in Objs : ~peer[o].cur /\ peer'[o].cur => Gated(peer'[o]) \/ ~RequiresMFA(peer'[o])]_vars

===============================================================================
