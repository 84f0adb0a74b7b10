---------------------------- MODULE TunnelSession ----------------------------
(***************************************************************************)
(* The handshake and the sessions of one tunnel, both ends: a dialer       *)
(* (client or agent) that starts handshakes, retries, rekeys and detects a *)
(* dead peer, and the responder, which answers every init it can read with *)
(* a new session.  Between them UDP, which may lose, repeat and delay.     *)
(*                                                                         *)
(* A handshake is named by the dialer's init (a fresh ephemeral key each   *)
(* time), a session by the responder's answer.  A name nothing refers to   *)
(* any more may be used again, so runs of any length have finite names.    *)
(*                                                                         *)
(* The weather says what the network does: "calm" from the start, "storm"  *)
(* once anything may be lost, repeated or late and either end may restart, *)
(* "settled" when the storm is over but its leftovers are still about.     *)
(* Outside a storm datagrams are faster than the timers: HandshakeRetry,   *)
(* SessionGrace and DeadTimeout do not run out on a datagram under way.    *)
(***************************************************************************)
EXTENDS Integers, FiniteSets, FiniteSetsExt

CONSTANTS
  Inits,       (* names for handshakes                                      *)
  Sessions,    (* names for sessions                                        *)
  MaxFlight    (* datagrams under way at once; the network loses the rest   *)

ASSUME NamesAssumption == Inits \subseteq Nat \ {0} /\ Sessions \subseteq Nat \ {0}
ASSUME FlightAssumption == MaxFlight \in Nat \ {0}

Nil == 0

VARIABLES
  dialer,      (* [cur, prev, hs, backoff]: the dialer's peerState    *)
  opening,     (* the response readLoop is working on: [pc, hs, s]           *)
  responder,   (* [cur, prev]: the responder's peerState              *)
  flight,      (* handshake datagrams under way                              *)
  weather

vars == <<dialer, opening, responder, flight, weather>>

(* Definitions that no action uses are plausible mistakes in the one they    *)
(* precede; they show that the properties notice them.                     *)
InitWithoutKey(h) == [type |-> "init", hs |-> Nil, s |-> Nil]

InitMsg(h) == [type |-> "init", hs |-> h, s |-> Nil]
RespMsg(h, s) == [type |-> "resp", hs |-> h, s |-> s]

Messages ==
  [type : {"init"}, hs : Inits, s : {Nil}] \cup [type : {"resp"}, hs : Inits, s : Sessions]

Resting == [pc |-> "rest", hs |-> Nil, s |-> Nil]

(* Names no state refers to.                                               *)
FreshInits == Inits \ ({m.hs : m \in flight} \cup {dialer.hs, opening.hs})

FreshSessions ==
  Sessions \ ({m.s : m \in flight}
               \cup {dialer.cur, dialer.prev, opening.s, responder.cur, responder.prev})

(* Sending: a datagram beyond MaxFlight is lost.                           *)
Sent(m, f) == IF Cardinality(f) < MaxFlight THEN f \cup {m} ELSE f

(* Receiving consumes the datagram; in a storm the network may keep a copy *)
(* to deliver again.                                                       *)
Taken(m) == {flight \ {m}} \cup (IF weather = "storm" THEN {flight} ELSE {})

(* installSession: the current session lives on as the previous one.       *)
InstallLosesPrev(p, s) == [p EXCEPT !.prev = Nil, !.cur = s]

InstallSession(p, s) ==
  [p EXCEPT !.prev = IF p.cur # Nil THEN p.cur ELSE @, !.cur = s]

DropSessions(p) == [p EXCEPT !.cur = Nil, !.prev = Nil]

(* What an end can open: frames of its current and its previous session.   *)
Openable(p) == {p.cur, p.prev} \ {Nil}

-------------------------------------------------------------------------------
Init ==
  /\ dialer = [cur |-> Nil, prev |-> Nil, hs |-> Nil, backoff |-> FALSE]
  /\ opening = Resting
  /\ responder = [cur |-> Nil, prev |-> Nil]
  /\ flight = {}
  /\ weather = "calm"

(* The timers (HandshakeRetry, the shortest, is 2 s) outlast the way of a   *)
(* datagram and the opening of a response; in a storm nothing does.        *)
TimersRun == weather = "storm" \/ (flight = {} /\ opening.pc = "rest")

(* ------------------------------- dialer ------------------------------- *)

(* tick: no session yet, or RekeyInterval or RekeyPackets reached.  A tick  *)
(* that finds no handshake pending while a response is being opened comes  *)
(* a whole tick after the one that gave the handshake up; the response is  *)
(* installed or rejected long before.                                      *)
StartHandshake ==
  /\ dialer.hs = Nil
  /\ ~dialer.backoff
  /\ opening.pc = "rest"
  /\ FreshInits # {}
  /\ LET h == Min(FreshInits) IN
       /\ dialer' = [dialer EXCEPT !.hs = h]
       /\ flight' = Sent(InitMsg(h), flight)
  /\ UNCHANGED <<opening, responder, weather>>

(* tick: no answer within HandshakeRetry; the next attempt waits.          *)
GiveUpHandshake ==
  /\ dialer.hs # Nil
  /\ TimersRun
  /\ dialer' = [dialer EXCEPT !.hs = Nil, !.backoff = TRUE]
  /\ UNCHANGED <<opening, responder, flight, weather>>

(* nextAttempt is reached.                                                 *)
BackoffEnds ==
  /\ dialer.backoff
  /\ opening.pc = "rest"
  /\ TimersRun
  /\ dialer' = [dialer EXCEPT !.backoff = FALSE]
  /\ UNCHANGED <<opening, responder, flight, weather>>

(* handleHandshakeResp: the pending handshake is read under the mutex, the *)
(* response is opened with it after the mutex was released.                *)
ReceiveResp(m) ==
  /\ m \in flight /\ m.type = "resp"
  /\ opening.pc = "rest"
  /\ flight' \in Taken(m)
  /\ opening' = IF dialer.hs = Nil THEN opening
                ELSE [pc |-> IF m.hs = dialer.hs THEN "install" ELSE "reject",
                      hs |-> dialer.hs,
                      s  |-> IF m.hs = dialer.hs THEN m.s ELSE Nil]
  /\ UNCHANGED <<dialer, responder, weather>>

InstallResp ==
  /\ opening.pc = "install"
  /\ dialer' = [InstallSession(dialer, opening.s) EXCEPT !.hs = Nil, !.backoff = FALSE]
  /\ opening' = Resting
  /\ UNCHANGED <<responder, flight, weather>>

(* A response that does not belong to the pending handshake ends it.        *)
RejectResp ==
  /\ opening.pc = "reject"
  /\ dialer' = IF dialer.hs = opening.hs
               THEN [dialer EXCEPT !.hs = Nil, !.backoff = TRUE] ELSE dialer
  /\ opening' = Resting
  /\ UNCHANGED <<responder, flight, weather>>

(* tick: no frame that opens within DeadTimeout; try again at once.  Both   *)
(* ends seal a keepalive every KeepaliveInterval under their current        *)
(* session, so outside a storm that takes an end that cannot open those.    *)
NeverDead ==
  /\ FALSE
  /\ UNCHANGED vars

DialerDead ==
  /\ dialer.cur # Nil
  /\ TimersRun
  /\ weather = "storm" \/ responder.cur \notin Openable(dialer)
  /\ dialer' = [DropSessions(dialer) EXCEPT !.backoff = FALSE]
  /\ UNCHANGED <<opening, responder, flight, weather>>

(* ------------------------------ responder ----------------------------- *)

(* handleHandshakeInit: every init that can be read gets a new session.    *)
ReceiveInit(m) ==
  /\ m \in flight /\ m.type = "init"
  /\ FreshSessions # {}
  /\ LET s == Min(FreshSessions) IN
       /\ responder' = InstallSession(responder, s)
       /\ \E f \in Taken(m) : flight' = Sent(RespMsg(m.hs, s), f)
  /\ UNCHANGED <<dialer, opening, weather>>

ResponderDead ==
  /\ responder.cur # Nil
  /\ TimersRun
  /\ weather = "storm" \/ dialer.cur \notin Openable(responder)
  /\ responder' = DropSessions(responder)
  /\ UNCHANGED <<dialer, opening, flight, weather>>

(* tick: the previous session's grace is over.                             *)
GraceEnds ==
  /\ TimersRun
  /\ \/ /\ dialer.prev # Nil
        /\ dialer' = [dialer EXCEPT !.prev = Nil]
        /\ UNCHANGED responder
     \/ /\ responder.prev # Nil
        /\ responder' = [responder EXCEPT !.prev = Nil]
        /\ UNCHANGED dialer
  /\ UNCHANGED <<opening, flight, weather>>

(* ------------------------------- weather ------------------------------ *)

ChangeWeather ==
  /\ \/ weather \in {"calm", "settled"} /\ weather' = "storm"
     \/ weather = "storm" /\ weather' = "settled"
  /\ UNCHANGED <<dialer, opening, responder, flight>>

Lose ==
  /\ weather = "storm"
  /\ \E m \in flight : flight' = flight \ {m}
  /\ UNCHANGED <<dialer, opening, responder, weather>>

RestartDialer ==
  /\ weather = "storm"
  /\ dialer' = [cur |-> Nil, prev |-> Nil, hs |-> Nil, backoff |-> FALSE]
  /\ opening' = Resting
  /\ UNCHANGED <<responder, flight, weather>>

RestartResponder ==
  /\ weather = "storm"
  /\ responder' = [cur |-> Nil, prev |-> Nil]
  /\ UNCHANGED <<dialer, opening, flight, weather>>

Next ==
  \/ StartHandshake \/ GiveUpHandshake \/ BackoffEnds
  \/ \E m \in flight : ReceiveResp(m)
  \/ InstallResp \/ RejectResp \/ DialerDead
  \/ \E m \in flight : ReceiveInit(m)
  \/ ResponderDead
  \/ GraceEnds
  \/ ChangeWeather \/ Lose \/ RestartDialer \/ RestartResponder

Spec == Init /\ [][Next]_vars

(* The ticks run and timers run out, and every datagram arrives or is lost. *)
(* A handshake is started while a session is up only when the rekey limits  *)
(* say so, hence no fairness for that.                                     *)
Fairness ==
  /\ WF_vars(dialer.cur = Nil /\ StartHandshake)
  /\ WF_vars(GiveUpHandshake) /\ WF_vars(BackoffEnds)
  /\ \A m \in Messages : WF_vars(ReceiveResp(m)) /\ WF_vars(ReceiveInit(m))
  /\ WF_vars(InstallResp) /\ WF_vars(RejectResp)
  /\ WF_vars(DialerDead) /\ WF_vars(ResponderDead)

FairSpec == Spec /\ Fairness
-------------------------------------------------------------------------------
TypeOK ==
  /\ dialer \in [cur : Sessions \cup {Nil}, prev : Sessions \cup {Nil},
                 hs : Inits \cup {Nil}, backoff : BOOLEAN]
  /\ opening \in [pc : {"rest", "install", "reject"}, hs : Inits \cup {Nil},
                  s : Sessions \cup {Nil}]
  /\ responder \in [cur : Sessions \cup {Nil}, prev : Sessions \cup {Nil}]
  /\ flight \subseteq Messages
  /\ weather \in {"calm", "storm", "settled"}

(* PROTOCOL.md:69: a rekey builds the new session, opens both for a while,  *)
(* then drops the old one.  Without faults nothing is sealed, at any point  *)
(* of any rekey, that the other end cannot open: the responder opens what   *)
(* the dialer seals, and the dialer opens what the responder seals once it  *)
(* has the answer that was sent before it.                                 *)
Answered(s) == s \notin {m.s : m \in flight} \cup {opening.s}

RekeyNeverInterrupts ==
  weather = "calm" =>
    /\ dialer.cur # Nil => dialer.cur \in Openable(responder)
    /\ responder.cur # Nil /\ Answered(responder.cur) => responder.cur \in Openable(dialer)

(* PROTOCOL.md:70: once the network works for good, whatever the storm left  *)
(* behind (lost answers, repeated inits, restarts), the two ends come to    *)
(* hold a session both can use, and keep one.                              *)
InTouch == dialer.cur # Nil /\ dialer.cur \in Openable(responder)

Recovers == <>[](weather # "storm") => <>[]InTouch

===============================================================================
