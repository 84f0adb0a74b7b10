-------------------------- MODULE TunnelSession_proofs --------------------------
(***************************************************************************)
(* Proofs about TunnelSession for any supply of names and any number of    *)
(* datagrams under way: the state is well formed, and while the weather is *)
(* calm no rekey interrupts the traffic; and about the frames of one       *)
(* session, ReplayWindow, for every window width and session length.       *)
(*                                                                         *)
(* In calm weather an exchange has four phases and cannot leave them: the  *)
(* timers outlast every datagram, so the dialer never gives up a handshake *)
(* that is going on, and a tick never finds a peer that cannot be heard.   *)
(* What both ends hold in each phase is the inductive invariant.           *)
(***************************************************************************)
EXTENDS TunnelSession, ReplayWindow, FiniteSetTheorems, WellFoundedInduction, TLAPS

(* No handshake: both ends seal under the same session, or have none.         *)
Together ==
  /\ dialer.hs = Nil /\ flight = {} /\ opening = Resting
  /\ dialer.cur = responder.cur

(* The init is on its way.                                                  *)
Asked ==
  /\ dialer.hs # Nil /\ flight = {InitMsg(dialer.hs)} /\ opening = Resting
  /\ dialer.cur = responder.cur

(* The responder has a new session and keeps the dialer's as its previous one. *)
Ahead(s) ==
  /\ dialer.hs # Nil /\ s # Nil
  /\ responder.cur = s /\ dialer.cur \in {Nil, responder.prev}

(* The answer is on its way.                                                *)
Answering ==
  \E s \in Sessions : Ahead(s) /\ flight = {RespMsg(dialer.hs, s)} /\ opening = Resting

(* readLoop is opening the answer.                                          *)
Opening ==
  \E s \in Sessions : Ahead(s) /\ flight = {}
                      /\ opening = [pc |-> "install", hs |-> dialer.hs, s |-> s]

CalmInv == weather = "calm" => Together \/ Asked \/ Answering \/ Opening

(* The inductive invariant.                                                *)
IInv == TypeOK /\ CalmInv

Ends == [cur : Sessions \cup {Nil}, prev : Sessions \cup {Nil}]
Dialers == [cur : Sessions \cup {Nil}, prev : Sessions \cup {Nil},
            hs : Inits \cup {Nil}, backoff : BOOLEAN]
Openings == [pc : {"rest", "install", "reject"}, hs : Inits \cup {Nil}, s : Sessions \cup {Nil}]
-------------------------------------------------------------------------------
LEMMA MinOfNats ==
  ASSUME NEW S, S \subseteq Nat, S # {}
  PROVE  Min(S) \in S
<1>. DEFINE less == {p \in Nat \X Nat : p[1] < p[2]}
<1>0. IsWellFoundedOn(less, Nat)
  BY NatLessThanWellFounded DEF OpToRel
<1>1. \E x \in S : \A y \in S : ~(<<y, x>> \in less)
  <2>. HIDE DEF less
  <2>. QED  BY <1>0, WFMin
<1>2. \E x \in S : \A y \in S : x <= y
  <2>1. PICK x \in S : \A y \in S : ~(<<y, x>> \in less)
    BY <1>1
  <2>2. ASSUME NEW y \in S PROVE x <= y
    <3>1. x \in Nat /\ y \in Nat /\ <<y, x>> \notin less
      BY <2>1
    <3>2. ~(y < x)
      BY <3>1
    <3>. QED  BY <3>1, <3>2
  <2>. QED  BY <2>2
<1>. QED  BY <1>2 DEF Min

(* A new session, and what the end that installs it holds then.              *)
LEMMA InstalledResponder ==
  ASSUME NEW p \in Ends, NEW s \in Sessions
  PROVE  /\ InstallSession(p, s) \in Ends /\ InstallSession(p, s).cur = s
         /\ p.cur # Nil => InstallSession(p, s).prev = p.cur
BY DEF InstallSession, Ends

LEMMA InstalledDialer ==
  ASSUME NEW p \in Dialers, NEW s \in Sessions
  PROVE  LET q == [InstallSession(p, s) EXCEPT !.hs = Nil, !.backoff = FALSE]
         IN  q \in Dialers /\ q.cur = s /\ q.hs = Nil
<1>1. InstallSession(p, s) \in Dialers /\ InstallSession(p, s).cur = s
  BY DEF InstallSession, Dialers
<1>. QED  BY <1>1 DEF Dialers

LEMMA SentMessages ==
  ASSUME NEW m \in Messages, NEW f \in SUBSET Messages
  PROVE  Sent(m, f) \subseteq Messages /\ Sent(m, {}) = {m}
BY FS_EmptySet, FlightAssumption DEF Sent

LEMMA SomeFields ==
  /\ Resting.pc = "rest" /\ Resting.hs = Nil /\ Resting.s = Nil /\ Resting \in Openings
  /\ \A h \in Inits : /\ InitMsg(h) \in Messages /\ InitMsg(h).type = "init" /\ InitMsg(h).hs = h
                      /\ InitMsg(h).s = Nil
  /\ \A h \in Inits, s \in Sessions : /\ RespMsg(h, s) \in Messages /\ RespMsg(h, s).type = "resp"
                                      /\ RespMsg(h, s).hs = h /\ RespMsg(h, s).s = s
  /\ Nil \notin Sessions /\ Nil \notin Inits
BY NamesAssumption DEF Resting, InitMsg, RespMsg, Messages, Nil, Openings

LEMMA Established == Init => IInv
<1>. SUFFICES ASSUME Init PROVE IInv
  OBVIOUS
<1>1. TypeOK
  BY SomeFields DEF Init, TypeOK, Openings
<1>2. Together
  BY DEF Init, Together
<1>. QED  BY <1>1, <1>2 DEF IInv, CalmInv

(* What is taken off the network was on it.                                  *)
LEMMA TakenMessages ==
  ASSUME NEW m \in flight, NEW f \in Taken(m)
  PROVE  f \subseteq flight /\ (weather = "calm" => f = flight \ {m})
BY DEF Taken

(* In calm weather the timers run out only when both ends are together.       *)
LEMMA CalmTimers ==
  ASSUME IInv, weather = "calm", TimersRun
  PROVE  Together
BY SomeFields DEF IInv, CalmInv, TimersRun, Asked, Answering, Opening

LEMMA StartKeeps ==
  ASSUME IInv, StartHandshake
  PROVE  IInv'
<1>. DEFINE h == Min(FreshInits)
<1>1. h \in Inits
  <2>1. FreshInits \subseteq Nat /\ FreshInits # {}
    BY NamesAssumption DEF StartHandshake, FreshInits
  <2>2. h \in FreshInits
    BY <2>1, MinOfNats
  <2>. QED  BY <2>2 DEF FreshInits
<1>2. /\ dialer' = [dialer EXCEPT !.hs = h] /\ flight' = Sent(InitMsg(h), flight)
      /\ UNCHANGED <<opening, responder, weather>> /\ dialer.hs = Nil /\ opening.pc = "rest"
  BY DEF StartHandshake
<1>. HIDE DEF h
<1>3. /\ dialer \in Dialers /\ flight \in SUBSET Messages
  BY DEF IInv, TypeOK, Dialers
<1>4. dialer' \in Dialers /\ dialer'.hs = h /\ dialer'.cur = dialer.cur
  BY <1>1, <1>2, <1>3 DEF Dialers
<1>5. flight' \subseteq Messages /\ (flight = {} => flight' = {InitMsg(h)})
  BY <1>1, <1>2, <1>3, SomeFields, SentMessages
<1>6. TypeOK'
  BY <1>2, <1>4, <1>5 DEF IInv, TypeOK, Dialers
<1>7. CalmInv'
  <2>. SUFFICES ASSUME weather = "calm" PROVE Asked'
    BY <1>2 DEF CalmInv
  <2>1. Together
    BY <1>2 DEF IInv, CalmInv, Asked, Answering, Opening, Ahead
  <2>. QED  BY <1>1, <1>2, <1>4, <1>5, <2>1, SomeFields DEF Together, Asked
<1>. QED  BY <1>6, <1>7 DEF IInv

LEMMA RespKeeps ==
  ASSUME IInv, NEW m \in flight, ReceiveResp(m)
  PROVE  IInv'
<1>. DEFINE new == [pc |-> IF m.hs = dialer.hs THEN "install" ELSE "reject",
                    hs |-> dialer.hs,
                    s  |-> IF m.hs = dialer.hs THEN m.s ELSE Nil]
<1>1. /\ m.type = "resp" /\ flight' \in Taken(m) /\ UNCHANGED <<dialer, responder, weather>>
      /\ opening' = IF dialer.hs = Nil THEN opening ELSE new
  BY DEF ReceiveResp
<1>2. dialer \in Dialers /\ opening \in Openings /\ m \in Messages
  BY DEF IInv, TypeOK, Dialers, Openings
<1>3. m.hs \in Inits /\ m.s \in Sessions
  BY <1>1, <1>2 DEF Messages
<1>4. TypeOK'
  <2>1. opening' \in Openings
    BY <1>1, <1>2, <1>3 DEF Dialers, Openings
  <2>2. flight' \subseteq flight
    BY <1>1, TakenMessages
  <2>. QED  BY <1>1, <2>1, <2>2 DEF IInv, TypeOK, Openings
<1>5. CalmInv'
  <2>. SUFFICES ASSUME weather = "calm" PROVE Opening'
    BY <1>1 DEF CalmInv
  <2>1. flight' = flight \ {m}
    BY <1>1, TakenMessages
  <2>2. ~Together /\ ~Opening
    BY DEF Together, Opening
  <2>3. ~Asked
    <3>. SUFFICES ASSUME Asked PROVE FALSE
      OBVIOUS
    <3>1. m = InitMsg(dialer.hs) /\ dialer.hs \in Inits
      BY <1>2 DEF Asked, Dialers
    <3>. QED  BY <1>1, <3>1, SomeFields
  <2>4. PICK s \in Sessions : Ahead(s) /\ flight = {RespMsg(dialer.hs, s)}
    BY <2>2, <2>3 DEF IInv, CalmInv, Answering
  <2>5. m = RespMsg(dialer.hs, s) /\ dialer.hs \in Inits
    BY <1>2, <2>4 DEF Ahead, Dialers
  <2>6. m.hs = dialer.hs /\ m.s = s /\ flight' = {}
    BY <2>1, <2>4, <2>5, SomeFields
  <2>7. opening' = [pc |-> "install", hs |-> dialer.hs, s |-> s]
    BY <1>1, <2>4, <2>6 DEF Ahead
  <2>. QED  BY <1>1, <2>4, <2>6, <2>7 DEF Opening, Ahead
<1>. QED  BY <1>4, <1>5 DEF IInv

LEMMA InitKeeps ==
  ASSUME IInv, NEW m \in flight, ReceiveInit(m)
  PROVE  IInv'
<1>1. PICK s \in Sessions : s = Min(FreshSessions) /\ s # Nil
  <2>1. FreshSessions \subseteq Nat /\ FreshSessions # {}
    BY NamesAssumption DEF ReceiveInit, FreshSessions
  <2>2. Min(FreshSessions) \in FreshSessions
    BY <2>1, MinOfNats
  <2>. QED  BY <2>2, SomeFields DEF FreshSessions
<1>2. PICK f \in Taken(m) : flight' = Sent(RespMsg(m.hs, s), f)
  BY <1>1 DEF ReceiveInit
<1>3. m.type = "init" /\ responder' = InstallSession(responder, s)
      /\ UNCHANGED <<dialer, opening, weather>>
  BY <1>1 DEF ReceiveInit
<1>4. dialer \in Dialers /\ responder \in Ends /\ m \in Messages /\ flight \in SUBSET Messages
  BY DEF IInv, TypeOK, Dialers, Ends
<1>5. m.hs \in Inits /\ f \in SUBSET Messages /\ (weather = "calm" => f = flight \ {m})
  BY <1>3, <1>4, TakenMessages DEF Messages
<1>6. RespMsg(m.hs, s) \in Messages
  BY <1>1, <1>5, SomeFields
<1>7. flight' \subseteq Messages /\ (f = {} => flight' = {RespMsg(m.hs, s)})
  BY <1>2, <1>5, <1>6, SentMessages
<1>8. responder' \in Ends /\ responder'.cur = s /\ (responder.cur # Nil => responder'.prev = responder.cur)
  BY <1>1, <1>3, <1>4, InstalledResponder
<1>9. TypeOK'
  BY <1>3, <1>7, <1>8 DEF IInv, TypeOK, Ends
<1>10. CalmInv'
  <2>. SUFFICES ASSUME weather = "calm" PROVE Answering'
    BY <1>3 DEF CalmInv
  <2>1. ~Together /\ ~Opening
    BY DEF Together, Opening
  <2>2. ~Answering
    <3>. SUFFICES ASSUME NEW t \in Sessions, Ahead(t), flight = {RespMsg(dialer.hs, t)} PROVE FALSE
      BY DEF Answering
    <3>1. m = RespMsg(dialer.hs, t) /\ dialer.hs \in Inits
      BY <1>4 DEF Ahead, Dialers
    <3>. QED  BY <1>3, <3>1, SomeFields
  <2>3. Asked
    BY <2>1, <2>2 DEF IInv, CalmInv
  <2>4. m = InitMsg(dialer.hs) /\ dialer.hs \in Inits /\ f = {}
    BY <1>4, <1>5, <2>3 DEF Asked, Dialers
  <2>5. m.hs = dialer.hs
    BY <2>4, SomeFields
  <2>6. Ahead(s)'
    BY <1>1, <1>3, <1>8, <2>3 DEF Asked, Ahead
  <2>. QED  BY <1>1, <1>3, <1>7, <2>3, <2>4, <2>5, <2>6 DEF Answering, Asked
<1>. QED  BY <1>9, <1>10 DEF IInv

LEMMA InstallKeeps ==
  ASSUME IInv, InstallResp
  PROVE  IInv'
<1>1. /\ opening.pc = "install" /\ opening' = Resting /\ UNCHANGED <<responder, flight, weather>>
      /\ dialer' = [InstallSession(dialer, opening.s) EXCEPT !.hs = Nil, !.backoff = FALSE]
  BY DEF InstallResp
<1>2. dialer \in Dialers /\ opening \in Openings
  BY DEF IInv, TypeOK, Dialers, Openings
<1>3. dialer' \in Dialers /\ dialer'.hs = Nil /\ (opening.s # Nil => dialer'.cur = opening.s)
  <2>1. CASE opening.s \in Sessions
    BY <1>1, <1>2, <2>1, InstalledDialer
  <2>2. CASE opening.s = Nil
    <3>1. InstallSession(dialer, opening.s) \in Dialers
      BY <1>2, <2>2 DEF InstallSession, Dialers
    <3>. QED  BY <1>1, <2>2, <3>1 DEF Dialers
  <2>. QED  BY <1>2, <2>1, <2>2 DEF Openings
<1>4. TypeOK'
  BY <1>1, <1>3, SomeFields DEF IInv, TypeOK, Dialers, Openings
<1>5. CalmInv'
  <2>. SUFFICES ASSUME weather = "calm" PROVE Together'
    BY <1>1 DEF CalmInv
  <2>1. Opening
    BY <1>1, SomeFields DEF IInv, CalmInv, Together, Asked, Answering
  <2>. QED  BY <1>1, <1>3, <2>1 DEF Opening, Ahead, Together
<1>. QED  BY <1>4, <1>5 DEF IInv

LEMMA RejectKeeps ==
  ASSUME IInv, RejectResp
  PROVE  IInv'
<1>1. opening.pc = "reject" /\ opening' = Resting /\ UNCHANGED <<responder, flight, weather>>
  BY DEF RejectResp
<1>2. dialer' \in Dialers
  <2>1. dialer \in Dialers
    BY DEF IInv, TypeOK, Dialers
  <2>. QED  BY <2>1 DEF RejectResp, Dialers
<1>3. TypeOK'
  BY <1>1, <1>2, SomeFields DEF IInv, TypeOK, Dialers, Openings
<1>4. weather # "calm"
  BY <1>1, SomeFields DEF IInv, CalmInv, Together, Asked, Answering, Opening
<1>. QED  BY <1>1, <1>3, <1>4 DEF IInv, CalmInv

(* What the ticks do between handshakes.                                     *)
LEMMA TickKeeps ==
  ASSUME IInv, GiveUpHandshake \/ BackoffEnds \/ DialerDead \/ ResponderDead \/ GraceEnds
  PROVE  IInv'
<1>1. dialer \in Dialers /\ responder \in Ends
  BY DEF IInv, TypeOK, Dialers, Ends
<1>2. TimersRun /\ UNCHANGED <<opening, flight, weather>>
  BY DEF GiveUpHandshake, BackoffEnds, DialerDead, ResponderDead, GraceEnds
<1>3. dialer' \in Dialers
  BY <1>1 DEF GiveUpHandshake, BackoffEnds, DialerDead, ResponderDead, GraceEnds, DropSessions, Dialers
<1>4. responder' \in Ends
  BY <1>1 DEF GiveUpHandshake, BackoffEnds, DialerDead, ResponderDead, GraceEnds, DropSessions, Ends
<1>5. TypeOK'
  BY <1>2, <1>3, <1>4 DEF IInv, TypeOK, Dialers, Ends
<1>6. CalmInv'
  <2>. SUFFICES ASSUME weather = "calm" PROVE Together'
    BY <1>2 DEF CalmInv
  <2>1. Together
    BY <1>2, CalmTimers
  <2>2. ~GiveUpHandshake /\ ~DialerDead /\ ~ResponderDead
    BY <2>1 DEF Together, GiveUpHandshake, DialerDead, ResponderDead, Openable
  <2>3. /\ dialer'.cur = dialer.cur /\ dialer'.hs = dialer.hs
        /\ responder'.cur = responder.cur
    BY <1>1, <2>2 DEF BackoffEnds, GraceEnds, Dialers, Ends
  <2>. QED  BY <1>2, <2>1, <2>3 DEF Together
<1>. QED  BY <1>5, <1>6 DEF IInv

LEMMA WeatherKeeps ==
  ASSUME IInv, ChangeWeather \/ Lose \/ RestartDialer \/ RestartResponder
  PROVE  IInv'
<1>1. TypeOK'
  <2>1. CASE ChangeWeather
    BY <2>1 DEF IInv, TypeOK, ChangeWeather
  <2>2. CASE Lose
    BY <2>2 DEF IInv, TypeOK, Lose
  <2>3. CASE RestartDialer
    BY <2>3, SomeFields DEF IInv, TypeOK, RestartDialer, Openings
  <2>4. CASE RestartResponder
    BY <2>4 DEF IInv, TypeOK, RestartResponder
  <2>. QED  BY <2>1, <2>2, <2>3, <2>4
<1>2. weather' # "calm"
  BY DEF IInv, TypeOK, ChangeWeather, Lose, RestartDialer, RestartResponder
<1>. QED  BY <1>1, <1>2 DEF IInv, CalmInv

LEMMA StepKeeps == IInv /\ [Next]_vars => IInv'
<1>1. ASSUME IInv, UNCHANGED vars PROVE IInv'
  BY <1>1 DEF vars, IInv, TypeOK, CalmInv, Together, Asked, Answering, Opening, Ahead
<1>. QED  BY <1>1, StartKeeps, RespKeeps, InitKeeps, InstallKeeps, RejectKeeps, TickKeeps, WeatherKeeps
          DEF Next

LEMMA AlwaysIInv == Spec => []IInv
BY Established, StepKeeps, PTL DEF Spec

-------------------------------------------------------------------------------
(* ------------------------------ theorems ------------------------------ *)

(* The ends, the response being opened and the datagrams under way are what    *)
(* their declarations say (engine.go: peerState, pendingHS).                 *)
THEOREM TypeCorrect == Spec => []TypeOK
<1>1. IInv => TypeOK
  BY DEF IInv
<1>. QED  BY <1>1, AlwaysIInv, PTL

(* PROTOCOL.md:69: without faults nothing is sealed at any point of any rekey   *)
(* that the other end cannot open (engine.go: installSession keeps the        *)
(* previous session through its grace).                                      *)
THEOREM NothingInterrupted == Spec => []RekeyNeverInterrupts
<1>1. IInv => RekeyNeverInterrupts
  <2>. SUFFICES ASSUME IInv, weather = "calm"
                PROVE  /\ dialer.cur # Nil => dialer.cur \in Openable(responder)
                       /\ responder.cur # Nil /\ Answered(responder.cur) =>
                            responder.cur \in Openable(dialer)
    BY DEF RekeyNeverInterrupts
  <2>1. CASE Together \/ Asked
    BY <2>1 DEF Together, Asked, Openable
  <2>2. ASSUME NEW s \in Sessions, Ahead(s),
               \/ flight = {RespMsg(dialer.hs, s)}
               \/ opening = [pc |-> "install", hs |-> dialer.hs, s |-> s]
        PROVE  /\ dialer.cur # Nil => dialer.cur \in Openable(responder)
               /\ ~Answered(responder.cur)
    <3>1. dialer.hs \in Inits
      BY <2>2 DEF IInv, TypeOK, Ahead
    <3>2. s \in {m.s : m \in flight} \cup {opening.s}
      <4>1. CASE flight = {RespMsg(dialer.hs, s)}
        BY <3>1, <4>1, SomeFields
      <4>2. CASE opening = [pc |-> "install", hs |-> dialer.hs, s |-> s]
        BY <4>2
      <4>. QED  BY <2>2, <4>1, <4>2
    <3>. QED  BY <2>2, <3>2 DEF Ahead, Openable, Answered
  <2>. QED  BY <2>1, <2>2 DEF IInv, CalmInv, Answering, Opening
<1>. QED  BY <1>1, AlwaysIInv, PTL

-------------------------------------------------------------------------------
(* ----------------------- the frames of one session -------------------- *)

(* Their inductive invariant.  A frame can only be judged by the window if   *)
(* the window's top is the greatest accepted nonce, and the at-most-once   *)
(* promise needs that only sent frames are accepted.                       *)
OnlySent == wire = 0 .. sendNonce - 1 /\ opened \subseteq wire

WindowInv == WindowTypeOK /\ OnlySent /\ WindowExact /\ HighestIsMax

-------------------------------------------------------------------------------
(* The window accepts a nonce exactly if it is new and not too old.        *)
LEMMA AcceptableMeaning ==
  ASSUME WindowInv, NEW n \in Nonces
  PROVE  Acceptable(window, n) <=> n \notin opened /\ \A m \in opened : m - n < W
<1>. USE WidthAssumption, NonceAssumption DEF WindowInv, WindowTypeOK, Nonces, Ages
<1>1. CASE ~window.init
  BY <1>1 DEF Acceptable, HighestIsMax
<1>2. CASE window.init /\ n > window.highest
  BY <1>2 DEF Acceptable, HighestIsMax
<1>3. CASE window.init /\ n <= window.highest
  <2>1. Acceptable(window, n)
          <=> window.highest - n < W /\ (window.highest - n) \notin window.bitmap
    BY <1>3 DEF Acceptable
  <2>2. (\A m \in opened : m - n < W) <=> window.highest - n < W
    BY <1>3 DEF HighestIsMax
  <2>3. ASSUME window.highest - n < W
        PROVE  (window.highest - n) \in window.bitmap <=> n \in opened
    <3>1. window.highest - n \in Ages
      BY <1>3, <2>3
    <3>2. window.highest - (window.highest - n) = n
      OBVIOUS
    <3>. QED  BY <1>3, <3>1, <3>2 DEF WindowExact
  <2>. QED  BY <2>1, <2>2, <2>3
<1>. QED  BY <1>1, <1>2, <1>3

(* Accepting a frame keeps the bitmap in step with what was accepted.      *)
LEMMA CommitKeepsWindow ==
  ASSUME WindowInv, NEW n \in Nonces, Receive(n)
  PROVE  /\ window' \in [init : BOOLEAN, highest : Nat, bitmap : SUBSET Ages]
         /\ WindowExact'
         /\ HighestIsMax'
<1>. USE WidthAssumption, NonceAssumption DEF WindowInv, WindowTypeOK, Nonces, Ages, Receive
<1>1. CASE ~window.init
  <2>1. window' = [init |-> TRUE, highest |-> n, bitmap |-> {0}]
    BY <1>1 DEF Commit
  <2>2. opened = {} /\ opened' = {n}
    BY <1>1 DEF HighestIsMax
  <2>. QED  BY <2>1, <2>2 DEF WindowExact, HighestIsMax
<1>2. CASE window.init /\ n > window.highest
  <2>. DEFINE bits == {0} \cup {a \in Ages : (a - (n - window.highest)) \in window.bitmap}
  <2>1. window' = [init |-> TRUE, highest |-> n, bitmap |-> bits]
    BY <1>2 DEF Commit
  <2>2. /\ window'.init
        /\ window'.highest = n
        /\ window'.bitmap = bits
        /\ window' \in [init : BOOLEAN, highest : Nat, bitmap : SUBSET Ages]
    <3>1. bits \in SUBSET Ages
      OBVIOUS
    <3>. HIDE DEF bits
    <3>. QED  BY <2>1, <3>1
  <2>3. opened' = opened \cup {n} /\ \A m \in opened : m <= window.highest
    BY <1>2 DEF HighestIsMax
  <2>4. ASSUME NEW a \in Ages
        PROVE  a \in bits <=> (n - a) \in opened'
    <3>1. CASE a = 0
      BY <3>1, <2>3
    <3>2. CASE a # 0 /\ a < n - window.highest
      BY <1>2, <2>3, <3>2
    <3>3. CASE a # 0 /\ a >= n - window.highest
      <4>1. a - (n - window.highest) \in Ages
        BY <1>2, <3>3
      <4>2. window.highest - (a - (n - window.highest)) = n - a
        BY <1>2
      <4>3. (a - (n - window.highest)) \in window.bitmap <=> (n - a) \in opened
        BY <1>2, <4>1, <4>2 DEF WindowExact
      <4>. QED  BY <2>3, <3>3, <4>3
    <3>. QED  BY <1>2, <3>1, <3>2, <3>3
  <2>5. WindowExact'
    BY <2>2, <2>4 DEF WindowExact
  <2>6. HighestIsMax'
    BY <1>2, <2>2, <2>3 DEF HighestIsMax
  <2>. QED  BY <2>2, <2>5, <2>6
<1>3. CASE window.init /\ n <= window.highest
  <2>1. window' = [window EXCEPT !.bitmap = @ \cup {window.highest - n}]
    BY <1>3 DEF Commit
  <2>2. window.highest - n \in Ages
    BY <1>3 DEF Acceptable
  <2>3. /\ window'.init
        /\ window'.highest = window.highest
        /\ window'.bitmap = window.bitmap \cup {window.highest - n}
        /\ window' \in [init : BOOLEAN, highest : Nat, bitmap : SUBSET Ages]
    BY <1>3, <2>1, <2>2
  <2>4. opened' = opened \cup {n}
    OBVIOUS
  <2>5. ASSUME NEW a \in Ages
        PROVE  a \in window'.bitmap <=> (window.highest - a) \in opened'
    <3>1. CASE a = window.highest - n
      BY <2>3, <2>4, <3>1
    <3>2. CASE a # window.highest - n
      <4>1. window.highest - a # n
        BY <3>2
      <4>. QED  BY <1>3, <2>3, <2>4, <3>2, <4>1 DEF WindowExact
    <3>. QED  BY <3>1, <3>2
  <2>6. WindowExact'
    BY <2>3, <2>5 DEF WindowExact
  <2>7. HighestIsMax'
    BY <1>3, <2>3, <2>4 DEF HighestIsMax
  <2>. QED  BY <2>3, <2>6, <2>7
<1>. QED  BY <1>1, <1>2, <1>3

-------------------------------------------------------------------------------
LEMMA InitWindowInv == WindowInit => WindowInv
BY WidthAssumption, NonceAssumption
   DEF WindowInit, WindowInv, WindowTypeOK, OnlySent, WindowExact, HighestIsMax, Fresh, Nonces, Ages

LEMMA StepWindowInv == WindowInv /\ [WindowNext]_windowVars => WindowInv'
<1>. SUFFICES ASSUME WindowInv, [WindowNext]_windowVars
              PROVE  WindowInv'
  OBVIOUS
<1>. USE WidthAssumption, NonceAssumption
<1>1. CASE Send
  <2>1. WindowTypeOK' /\ OnlySent'
    BY <1>1 DEF Send, WindowInv, WindowTypeOK, OnlySent, Nonces, Ages
  <2>2. WindowExact' /\ HighestIsMax'
    BY <1>1 DEF Send, WindowInv, WindowExact, HighestIsMax
  <2>. QED  BY <2>1, <2>2 DEF WindowInv
<1>2. ASSUME NEW n \in Nonces, Receive(n)
      PROVE  WindowInv'
  <2>1. /\ window' \in [init : BOOLEAN, highest : Nat, bitmap : SUBSET Ages]
        /\ WindowExact'
        /\ HighestIsMax'
    BY <1>2, CommitKeepsWindow
  <2>2. OnlySent'
    BY <1>2 DEF Receive, WindowInv, OnlySent
  <2>3. WindowTypeOK'
    BY <1>2, <2>1 DEF Receive, WindowInv, WindowTypeOK
  <2>. QED  BY <2>1, <2>2, <2>3 DEF WindowInv
<1>3. ASSUME NEW n \in Nonces, ReceiveDamaged(n)
      PROVE  WindowInv'
  BY <1>3 DEF ReceiveDamaged, windowVars, WindowInv, WindowTypeOK, OnlySent, WindowExact, HighestIsMax
<1>4. CASE UNCHANGED windowVars
  BY <1>4 DEF windowVars, WindowInv, WindowTypeOK, OnlySent, WindowExact, HighestIsMax
<1>. QED  BY <1>1, <1>2, <1>3, <1>4 DEF WindowNext

LEMMA AlwaysWindowInv == WindowSpec => []WindowInv
BY InitWindowInv, StepWindowInv, PTL DEF WindowSpec

(* The window is well formed in every session.                             *)
THEOREM WindowTypeCorrect == WindowSpec => []WindowTypeOK
<1>1. WindowInv => WindowTypeOK
  BY DEF WindowInv
<1>. QED  BY <1>1, AlwaysWindowInv, PTL

(* The bitmap names exactly the accepted nonces it covers.                 *)
THEOREM WindowIsExact == WindowSpec => []WindowExact
<1>1. WindowInv => WindowExact
  BY DEF WindowInv
<1>. QED  BY <1>1, AlwaysWindowInv, PTL

(* Loss and reordering cost only the lost frames: what is refused was      *)
(* accepted before or is at least W behind the newest accepted frame.      *)
THEOREM RefusalsAreJustified == WindowSpec => []OnlyOldOrRepeatedRefused
<1>1. WindowInv => OnlyOldOrRepeatedRefused
  BY AcceptableMeaning DEF OnlyOldOrRepeatedRefused
<1>. QED  BY <1>1, AlwaysWindowInv, PTL

(* One direction of a session implements the at-most-once channel: every   *)
(* accepted frame was sent, and none is accepted a second time.            *)
THEOREM ImplementsChannel == WindowSpec => ChannelSpec
<1>1. WindowInit => Channel!Init
  BY DEF WindowInit, Channel!Init
<1>2. WindowInv /\ [WindowNext]_windowVars => [Channel!Next]_(Channel!vars)
  <2>. SUFFICES ASSUME WindowInv, [WindowNext]_windowVars
                PROVE  Channel!Next \/ UNCHANGED Channel!vars
    OBVIOUS
  <2>1. CASE Send
    BY <2>1 DEF Send, Channel!Next, Channel!Seal
  <2>2. ASSUME NEW n \in Nonces, Receive(n)
        PROVE  Channel!Next
    <3>1. n \in 0 .. sendNonce - 1
      BY <2>2 DEF Receive, WindowInv, OnlySent
    <3>2. n \notin opened
      BY <2>2, AcceptableMeaning DEF Receive
    <3>. QED  BY <2>2, <3>1, <3>2 DEF Receive, Channel!Next, Channel!HandUp
  <2>3. ASSUME NEW n \in Nonces, ReceiveDamaged(n)
        PROVE  UNCHANGED Channel!vars
    BY <2>3 DEF ReceiveDamaged, windowVars, Channel!vars
  <2>4. CASE UNCHANGED windowVars
    BY <2>4 DEF windowVars, Channel!vars
  <2>. QED  BY <2>1, <2>2, <2>3, <2>4 DEF WindowNext
<1>. QED  BY <1>1, <1>2, AlwaysWindowInv, PTL DEF WindowSpec, ChannelSpec, Channel!Spec
===============================================================================
