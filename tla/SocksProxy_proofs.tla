--------------------------- MODULE SocksProxy_proofs ---------------------------
(***************************************************************************)
(* Proofs about SocksProxy for any number of pieces in either direction:   *)
(* what the two ends are given is what the other end sent.                 *)
(*                                                                         *)
(* Upwards, what the server was given, what the reader holds and what is   *)
(* on the way are consecutive stretches of what the program sends, and the *)
(* stage of the request says where they begin.  Downwards, what the        *)
(* program was given and what is on the way are.                           *)
(***************************************************************************)
EXTENDS SocksProxy, TLAPS

Words == IF client.kind = "socks" THEN 2 ELSE 1

Waiting == {"queued", "peek", "hello", "connect"}
Dialling == {"lookup", "dial", "reply"}
Stages == {"none", "closed", "request", "pipe"} \cup Waiting \cup Dialling

Clients ==
  [kind : {"socks", "http"}, target : {IP, Name, Bad}, sent : Nat, wire : Seq(Int),
   end : {"open", "shut", "gone"}, got : Seq(Int)]
Handlers ==
  [pc : Stages, deadline : {"off", "set", "past"}, buf : Seq(Int),
   up : {"off", "copying", "done"}, down : {"off", "copying", "done"}]
Remotes ==
  [conn : {"none", "open", "half", "closed"}, served : Seq(Int), sent : Nat, wire : Seq(Int),
   end : {"open", "ended", "reset"}]

TypeOK == client \in Clients /\ handler \in Handlers /\ remote \in Remotes

(* The handlers of both protocols know which program they talk to.            *)
StageInv ==
  /\ handler.pc \in {"hello", "request"} => client.kind = "socks"
  /\ handler.pc = "connect" => client.kind = "http"
  /\ handler.pc \in {"none", "request", "lookup", "dial"} \cup Waiting => remote.conn = "none"
  /\ remote.conn = "none" => remote.served = <<>> /\ remote.sent = 0 /\ remote.wire = <<>>

(* Pieces that have left the reader.                                        *)
Taken ==
  CASE handler.pc \in Waiting -> 0
    [] handler.pc = "request" -> 1
    [] OTHER -> Words + Len(remote.served)

(* Something may still be read.                                             *)
Feeding ==
  \/ handler.pc \in {"request"} \cup Waiting \cup Dialling
  \/ handler.pc = "pipe" /\ handler.up = "copying"

Reached == Taken + Len(handler.buf) + Len(client.wire)

UpInv ==
  /\ remote.served = Count(Len(remote.served))
  /\ client.sent <= Words + MaxUp
  /\ Feeding =>
       /\ \A i \in 1..Len(handler.buf) : handler.buf[i] = Pieces[Taken + i]
       /\ \A i \in 1..Len(client.wire) :
            client.wire[i] = Pieces[Taken + Len(handler.buf) + i]
       /\ Reached <= client.sent
       /\ client.end # "gone" => Reached = client.sent

(* A server that was told of the end has got everything.                      *)
HalfInv ==
  (remote.conn = "half" /\ remote.end # "reset") =>
    /\ client.end # "open"
    /\ client.end # "gone" => Len(remote.served) = DataSent

(* The program has been told g and v, and given n pieces of the server's.     *)
Given(g, v, n) ==
  /\ client.got = (g \o v) \o Count(n)
  /\ n > 0 => v = <<Success>>
  /\ handler.pc \in {"none"} \cup Waiting => g = <<>> /\ v = <<>> /\ n = 0
  /\ handler.pc \in {"request"} \cup Dialling => v = <<>> /\ n = 0
  /\ handler.pc = "pipe" => v = <<Success>>
  /\ \A i \in 1..Len(remote.wire) : remote.wire[i] = n + i
  /\ n + Len(remote.wire) <= remote.sent
  /\ (remote.conn \in {"open", "half"} /\ remote.end # "reset") =>
       n + Len(remote.wire) = remote.sent

DownInv ==
  \E g \in {<<>>, <<Greeting>>}, v \in {<<>>, <<Success>>, <<Failure>>}, n \in 0..remote.sent :
    Given(g, v, n)

(* The inductive invariant.                                                *)
IInv == TypeOK /\ StageInv /\ UpInv /\ HalfInv /\ DownInv

-------------------------------------------------------------------------------
(* ------------------------------- records ------------------------------ *)

LEMMA NothingIsASequence == <<>> \in Seq(Int) /\ Len(<<>>) = 0
  OBVIOUS

LEMMA ClientFields ==
  ASSUME NEW r \in Clients
  PROVE  /\ r.kind \in {"socks", "http"}
         /\ r.target \in {IP, Name, Bad}
         /\ r.sent \in Nat
         /\ r.wire \in Seq(Int)
         /\ r.end \in {"open", "shut", "gone"}
         /\ r.got \in Seq(Int)
  BY DEF Clients

LEMMA IsClient ==
  ASSUME NEW kind \in {"socks", "http"},
         NEW target \in {IP, Name, Bad},
         NEW sent \in Nat,
         NEW wire \in Seq(Int),
         NEW end \in {"open", "shut", "gone"},
         NEW got \in Seq(Int)
  PROVE  [kind |-> kind,
          target |-> target,
          sent |-> sent,
          wire |-> wire,
          end |-> end,
          got |-> got] \in Clients
  BY DEF Clients

LEMMA HandlerFields ==
  ASSUME NEW r \in Handlers
  PROVE  /\ r.pc \in Stages
         /\ r.deadline \in {"off", "set", "past"}
         /\ r.buf \in Seq(Int)
         /\ r.up \in {"off", "copying", "done"}
         /\ r.down \in {"off", "copying", "done"}
  BY DEF Handlers

LEMMA IsHandler ==
  ASSUME NEW pc \in Stages,
         NEW deadline \in {"off", "set", "past"},
         NEW buf \in Seq(Int),
         NEW up \in {"off", "copying", "done"},
         NEW down \in {"off", "copying", "done"}
  PROVE  [pc |-> pc,
          deadline |-> deadline,
          buf |-> buf,
          up |-> up,
          down |-> down] \in Handlers
  BY DEF Handlers

LEMMA RemoteFields ==
  ASSUME NEW r \in Remotes
  PROVE  /\ r.conn \in {"none", "open", "half", "closed"}
         /\ r.served \in Seq(Int)
         /\ r.sent \in Nat
         /\ r.wire \in Seq(Int)
         /\ r.end \in {"open", "ended", "reset"}
  BY DEF Remotes

LEMMA IsRemote ==
  ASSUME NEW conn \in {"none", "open", "half", "closed"},
         NEW served \in Seq(Int),
         NEW sent \in Nat,
         NEW wire \in Seq(Int),
         NEW end \in {"open", "ended", "reset"}
  PROVE  [conn |-> conn,
          served |-> served,
          sent |-> sent,
          wire |-> wire,
          end |-> end] \in Remotes
  BY DEF Remotes

LEMMA ClosedRemote ==
  ASSUME NEW r \in Remotes
  PROVE  /\ CloseRemote(r) \in Remotes
         /\ CloseRemote(r).served = r.served /\ CloseRemote(r).sent = r.sent
         /\ CloseRemote(r).wire = <<>> /\ CloseRemote(r).end = r.end
         /\ CloseRemote(r).conn = IF r.conn = "none" THEN "none" ELSE "closed"
<1>. DEFINE c == IF r.conn = "none" THEN r.conn ELSE "closed"
            q == [r EXCEPT !.conn = c, !.wire = <<>>]
<1>1. c \in {"none", "closed"} /\ (c = "none" <=> r.conn = "none")
  BY RemoteFields
<1>2. CloseRemote(r) = q
  BY DEF CloseRemote
<1>. HIDE DEF c
<1>3. /\ q.served = r.served /\ q.sent = r.sent /\ q.wire = <<>> /\ q.end = r.end /\ q.conn = c
  BY DEF Remotes
<1>4. q \in Remotes
  BY <1>1, NothingIsASequence DEF Remotes
<1>. HIDE DEF q
<1>. QED  BY <1>1, <1>2, <1>3, <1>4

LEMMA ClosedHandler ==
  ASSUME NEW h \in Handlers
  PROVE  Closed(h) \in Handlers /\ Closed(h).pc = "closed"
  BY NothingIsASequence DEF Closed, Handlers, Stages

-------------------------------------------------------------------------------
(* ------------------------------ sequences ----------------------------- *)

LEMMA CountIs ==
  ASSUME NEW n \in Nat
  PROVE  /\ Count(n) \in Seq(Int) /\ Len(Count(n)) = n
         /\ \A i \in 1..n : Count(n)[i] = i
  BY DEF Count

LEMMA CountOneMore ==
  ASSUME NEW n \in Nat
  PROVE  Append(Count(n), n + 1) = Count(n + 1)
  BY DEF Count

LEMMA CountNone == Count(0) = <<>>
  BY DEF Count

LEMMA GivenOneMore ==
  ASSUME NEW s \in Seq(Int), NEW n \in Nat
  PROVE  Append(s \o Count(n), n + 1) = s \o Count(n + 1)
<1>. DEFINE a == Append(s \o Count(n), n + 1)
            b == s \o Count(n + 1)
<1>1. /\ s \o Count(n) \in Seq(Int) /\ Len(s \o Count(n)) = Len(s) + n
      /\ \A i \in 1..Len(s) : (s \o Count(n))[i] = s[i]
      /\ \A i \in 1..n : (s \o Count(n))[Len(s) + i] = i
  BY CountIs
<1>2. /\ b \in Seq(Int) /\ Len(b) = Len(s) + n + 1
      /\ \A i \in 1..Len(s) : b[i] = s[i]
      /\ \A i \in 1..(n + 1) : b[Len(s) + i] = i
  <2>. n + 1 \in Nat
    OBVIOUS
  <2>1. /\ Count(n + 1) \in Seq(Int) /\ Len(Count(n + 1)) = n + 1
        /\ \A i \in 1..(n + 1) : Count(n + 1)[i] = i
    BY CountIs
  <2>. QED  BY <2>1, SMTT(20)
<1>3. /\ a \in Seq(Int) /\ Len(a) = Len(s) + n + 1
      /\ \A i \in 1..Len(s) : a[i] = s[i]
      /\ \A i \in 1..n : a[Len(s) + i] = i
      /\ a[Len(s) + n + 1] = n + 1
  BY <1>1, SMTT(20)
<1>4. \A i \in 1..Len(a) : a[i] = b[i]
  <2>. HIDE DEF a, b
  <2>. SUFFICES ASSUME NEW i \in 1..Len(a) PROVE a[i] = b[i]
    OBVIOUS
  <2>1. CASE i <= Len(s)
    BY <1>2, <1>3, <2>1
  <2>2. CASE ~(i <= Len(s))
    <3>1. /\ i - Len(s) \in 1..(n + 1) /\ Len(s) + (i - Len(s)) = i
      BY <1>3, <2>2
    <3>2. CASE i - Len(s) = n + 1
      BY <1>2, <1>3, <3>1, <3>2
    <3>3. CASE i - Len(s) # n + 1
      <4>1. i - Len(s) \in 1..n
        BY <3>1, <3>3
      <4>. QED  BY <1>2, <1>3, <3>1, <4>1
    <3>. QED  BY <3>2, <3>3
  <2>. QED  BY <2>1, <2>2
<1>. QED
  <2>. HIDE DEF a, b
  <2>1. a = b
    BY <1>2, <1>3, <1>4
  <2>. QED  BY <2>1 DEF a, b

LEMMA TailIs ==
  ASSUME NEW s \in Seq(Int), s # <<>>
  PROVE  /\ Tail(s) \in Seq(Int) /\ Len(s) = Len(Tail(s)) + 1 /\ Len(Tail(s)) \in Nat
         /\ Head(s) = s[1] /\ Head(s) \in Int /\ 1 \in 1..Len(s)
         /\ \A i \in 1..Len(Tail(s)) : Tail(s)[i] = s[i + 1] /\ i + 1 \in 1..Len(s)
OBVIOUS

LEMMA TailStretch ==
  ASSUME NEW s \in Seq(Int), s # <<>>, NEW P, NEW t \in Nat,
         \A i \in 1..Len(s) : s[i] = P[t + i]
  PROVE  /\ Tail(s) \in Seq(Int) /\ Len(s) = Len(Tail(s)) + 1 /\ Len(Tail(s)) \in Nat
         /\ Head(s) = P[t + 1] /\ Head(s) \in Int
         /\ \A i \in 1..Len(Tail(s)) : Tail(s)[i] = P[(t + 1) + i]
<1>1. /\ Tail(s) \in Seq(Int) /\ Len(s) = Len(Tail(s)) + 1 /\ Len(Tail(s)) \in Nat
      /\ Head(s) = s[1] /\ Head(s) \in Int
      /\ \A i \in 1..Len(Tail(s)) : Tail(s)[i] = s[i + 1]
  OBVIOUS
<1>2. Head(s) = P[t + 1]
  BY <1>1
<1>3. ASSUME NEW i \in 1..Len(Tail(s)) PROVE Tail(s)[i] = P[(t + 1) + i]
  <2>1. i + 1 \in 1..Len(s) /\ t + (i + 1) = (t + 1) + i
    BY <1>1
  <2>2. s[i + 1] = P[t + (i + 1)]
    BY <2>1
  <2>. QED  BY <1>1, <2>1, <2>2
<1>. QED  BY <1>1, <1>2, <1>3

(* The reader takes the first k pieces under way.                           *)
LEMMA SplitStretch ==
  ASSUME NEW s \in Seq(Int), NEW P, NEW t \in Nat, NEW k \in 1..Len(s),
         \A i \in 1..Len(s) : s[i] = P[t + i]
  PROVE  LET a == SubSeq(s, 1, k)
             b == SubSeq(s, k + 1, Len(s))
         IN  /\ a \in Seq(Int) /\ b \in Seq(Int) /\ Len(a) = k /\ Len(b) = Len(s) - k
             /\ \A i \in 1..Len(a) : a[i] = P[t + i]
             /\ \A i \in 1..Len(b) : b[i] = P[(t + k) + i]
<1>. DEFINE a == SubSeq(s, 1, k)
            b == SubSeq(s, k + 1, Len(s))
<1>1. /\ a \in Seq(Int) /\ Len(a) = k
      /\ \A i \in 1..k : a[i] = s[i]
  OBVIOUS
<1>2. /\ b \in Seq(Int) /\ Len(b) = Len(s) - k
      /\ \A i \in 1..(Len(s) - k) : b[i] = s[k + i]
  OBVIOUS
<1>. HIDE DEF a, b
<1>3. ASSUME NEW i \in 1..Len(a) PROVE a[i] = P[t + i]
  <2>1. i \in 1..k /\ i \in 1..Len(s)
    BY <1>1
  <2>. QED  BY <1>1, <2>1
<1>4. ASSUME NEW i \in 1..Len(b) PROVE b[i] = P[(t + k) + i]
  <2>1. k + i \in 1..Len(s) /\ t + (k + i) = (t + k) + i
    BY <1>2
  <2>2. s[k + i] = P[t + (k + i)]
    BY <2>1
  <2>. QED  BY <1>2, <2>1, <2>2
<1>. QED  BY <1>1, <1>2, <1>3, <1>4 DEF a, b

LEMMA OneMore ==
  ASSUME NEW a \in Nat, NEW b \in Nat, NEW c \in Nat, NEW d \in Nat, a + b + c = d
  PROVE  a + b + (c + 1) = d + 1
OBVIOUS

(* One piece more is sent.                                                  *)
LEMMA Longer ==
  ASSUME NEW s \in Seq(Int), NEW x \in Int
  PROVE  /\ Append(s, x) \in Seq(Int) /\ Len(Append(s, x)) = Len(s) + 1
         /\ Append(s, x)[Len(s) + 1] = x
         /\ \A i \in 1..Len(s) : Append(s, x)[i] = s[i]
         /\ \A i \in 1..Len(Append(s, x)) : i \in 1..Len(s) \/ i = Len(s) + 1
OBVIOUS

LEMMA Telling ==
  /\ Append((<<>> \o <<>>) \o Count(0), Greeting) = (<<Greeting>> \o <<>>) \o Count(0)
  /\ \A g \in {<<>>, <<Greeting>>}, p \in {Success, Failure} :
       Append((g \o <<>>) \o Count(0), p) = (g \o <<p>>) \o Count(0)
  BY CountNone, SMTT(20) DEF Greeting, Success, Failure

(* What a program sends: a greeting or none, the request, the data.           *)
LEMMA PiecesAre ==
  ASSUME client \in Clients
  PROVE  /\ Words \in {1, 2}
         /\ Len(Pieces) = Words + MaxUp
         /\ \A k \in 1..(Words + MaxUp) : Pieces[k] \in Int
         /\ Pieces[1] = IF client.kind = "socks" THEN Hello ELSE client.target
         /\ client.kind = "socks" => Pieces[2] = client.target
         /\ \A j \in 1..MaxUp : Pieces[Words + j] = j
<1>1. client.kind \in {"socks", "http"} /\ client.target \in Int
  BY DEF Clients, IP, Name, Bad
<1>2. Count(MaxUp) \in Seq(Int) /\ Len(Count(MaxUp)) = MaxUp
      /\ \A i \in 1..MaxUp : Count(MaxUp)[i] = i
  BY CountIs, BoundAssumption
<1>3. CASE client.kind = "socks"
  BY <1>1, <1>2, <1>3, BoundAssumption DEF Pieces, Words, Hello
<1>4. CASE client.kind = "http"
  BY <1>1, <1>2, <1>4, BoundAssumption DEF Pieces, Words, Hello
<1>. QED  BY <1>1, <1>3, <1>4

-------------------------------------------------------------------------------
(* ------------------------------- frames ------------------------------- *)

LEMMA TakenIs ==
  /\ handler.pc \in Waiting => Taken = 0
  /\ handler.pc = "request" => Taken = 1
  /\ handler.pc \notin {"request"} \cup Waiting => Taken = Words + Len(remote.served)
BY DEF Taken, Waiting

LEMMA TakenInNat ==
  ASSUME Len(remote.served) \in Nat
  PROVE  Taken \in Nat
<1>1. Words \in Nat
  BY DEF Words
<1>2. Words + Len(remote.served) \in Nat
  BY <1>1
<1>. QED  BY <1>2, TakenIs

LEMMA LessRead ==
  ASSUME NEW a \in Nat, NEW b \in Nat, NEW c \in Nat, NEW d \in Nat, a + b + c <= d
  PROVE  a + b + Len(<<>>) <= d
OBVIOUS

(* A step that leaves the input alone, or loses what was on the way.          *)
LEMMA SameUp ==
  ASSUME TypeOK, UpInv,
         client'.kind = client.kind, client'.target = client.target,
         client'.sent = client.sent, remote'.served = remote.served,
         Feeding' => /\ Feeding /\ Taken' = Taken /\ handler'.buf = handler.buf
                     /\ client'.wire = client.wire \/ (client'.wire = <<>> /\ client'.end = "gone")
                     /\ client'.end # "gone" => client.end # "gone"
  PROVE  UpInv'
<1>1. Words' = Words /\ Pieces' = Pieces
  BY DEF Words, Pieces
<1>2. client.sent <= Words + MaxUp /\ remote.served = Count(Len(remote.served))
  BY DEF UpInv
<1>3. ASSUME Feeding'
      PROVE  /\ \A i \in 1..Len(handler'.buf) : handler'.buf[i] = Pieces'[Taken' + i]
             /\ \A i \in 1..Len(client'.wire) :
                  client'.wire[i] = Pieces'[Taken' + Len(handler'.buf) + i]
             /\ Reached' <= client'.sent
             /\ client'.end # "gone" => Reached' = client'.sent
  <2>1. CASE client'.wire = client.wire
    <3>1. Reached' = Reached
      BY <1>3, <2>1 DEF Reached
    <3>. QED  BY <1>1, <1>3, <2>1, <3>1 DEF UpInv
  <2>2. CASE client'.wire = <<>> /\ client'.end = "gone"
    <3>1. Len(client'.wire) = 0 /\ Len(client.wire) \in Nat /\ Len(handler.buf) \in Nat
          /\ Len(remote.served) \in Nat /\ client.sent \in Nat
      BY <2>2 DEF TypeOK, Clients, Handlers, Remotes
    <3>2. Taken \in Nat
      BY <3>1, TakenInNat
    <3>3. Reached' = Taken + Len(handler.buf) + Len(<<>>)
      BY <1>3, <2>2 DEF Reached
    <3>4. Taken + Len(handler.buf) + Len(client.wire) <= client.sent
      BY <1>3 DEF UpInv, Reached
    <3>5. Reached' <= client'.sent
      BY <3>1, <3>2, <3>3, <3>4, LessRead
    <3>6. \A i \in 1..Len(client'.wire) :
            client'.wire[i] = Pieces'[Taken' + Len(handler'.buf) + i]
      BY <3>1
    <3>. QED  BY <1>1, <1>3, <2>2, <3>5, <3>6 DEF UpInv
  <2>. QED  BY <1>3, <2>1, <2>2
<1>4. client'.sent <= Words' + MaxUp /\ remote'.served = Count(Len(remote'.served))
  BY <1>1, <1>2
<1>. QED  BY <1>3, <1>4 DEF UpInv

(* A step that leaves what the program is given alone.                        *)
LEMMA SameDown ==
  ASSUME NEW g \in {<<>>, <<Greeting>>}, NEW v \in {<<>>, <<Success>>, <<Failure>>},
         NEW n \in 0..remote.sent, Given(g, v, n),
         client'.got = client.got, remote'.sent = remote.sent,
         remote'.wire = remote.wire \/ remote'.wire = <<>>,
         (remote'.conn \in {"open", "half"} /\ remote'.end # "reset") =>
           remote'.wire = remote.wire /\ n + Len(remote.wire) = remote.sent,
         handler'.pc \in {"none"} \cup Waiting =>
           handler.pc \in {"none"} \cup Waiting,
         handler'.pc \in {"request"} \cup Dialling =>
           handler.pc \in {"none", "request"} \cup Waiting \cup Dialling,
         handler'.pc = "pipe" => handler.pc = "pipe"
  PROVE  DownInv'
<1>1. n \in 0..remote'.sent
  OBVIOUS
<1>2. remote'.wire = remote.wire => Given(g, v, n)'
  BY DEF Given
<1>3. ASSUME remote'.wire = <<>> PROVE Given(g, v, n)'
  <2>1. Len(remote'.wire) = 0 /\ n <= remote'.sent
    BY <1>3
  <2>2. (remote'.conn \in {"open", "half"} /\ remote'.end # "reset") =>
          n + Len(remote'.wire) = remote'.sent
    OBVIOUS
  <2>3. \A i \in 1..Len(remote'.wire) : remote'.wire[i] = n + i
    BY <2>1
  <2>4. n + Len(remote'.wire) <= remote'.sent
    BY <2>1
  <2>. QED  BY <2>2, <2>3, <2>4 DEF Given
<1>4. Given(g, v, n)'
  BY <1>2, <1>3
<1>. QED  BY <1>1, <1>4 DEF DownInv

LEMMA SameHalf ==
  ASSUME HalfInv,
         (remote'.conn = "half" /\ remote'.end # "reset") =>
           /\ remote.conn = "half" /\ remote.end # "reset"
           /\ client'.kind = client.kind /\ client'.sent = client.sent
           /\ remote'.served = remote.served
           /\ client.end # "open" => client'.end # "open"
           /\ client'.end # "gone" => client.end # "gone"
  PROVE  HalfInv'
  BY DEF HalfInv, DataSent

(* Both at once.                                                            *)
LEMMA QuietKeeps ==
  ASSUME IInv, TypeOK', StageInv',
         client'.kind = client.kind, client'.target = client.target,
         client'.sent = client.sent, remote'.served = remote.served,
         Feeding' => /\ Feeding /\ Taken' = Taken /\ handler'.buf = handler.buf
                     /\ client'.wire = client.wire \/ (client'.wire = <<>> /\ client'.end = "gone")
                     /\ client'.end # "gone" => client.end # "gone",
         (remote'.conn = "half" /\ remote'.end # "reset") =>
           /\ remote.conn = "half" /\ remote.end # "reset"
           /\ client.end # "open" => client'.end # "open"
           /\ client'.end # "gone" => client.end # "gone",
         client'.got = client.got, remote'.sent = remote.sent,
         remote'.wire = remote.wire \/ remote'.wire = <<>>,
         (remote'.conn \in {"open", "half"} /\ remote'.end # "reset") =>
           /\ remote'.wire = remote.wire
           /\ \/ remote.conn \in {"open", "half"} /\ remote.end # "reset"
              \/ remote.sent = 0 /\ remote.wire = <<>>,
         handler'.pc \in {"none"} \cup Waiting =>
           handler.pc \in {"none"} \cup Waiting,
         handler'.pc \in {"request"} \cup Dialling =>
           handler.pc \in {"none", "request"} \cup Waiting \cup Dialling,
         handler'.pc = "pipe" => handler.pc = "pipe"
  PROVE  IInv'
<1>1. UpInv'
  BY SameUp DEF IInv
<1>2. HalfInv'
  BY SameHalf DEF IInv
<1>3. DownInv'
  <2>1. PICK g \in {<<>>, <<Greeting>>}, v \in {<<>>, <<Success>>, <<Failure>>},
             n \in 0..remote.sent : Given(g, v, n)
    BY DEF IInv, DownInv
  <2>2. (remote.sent = 0 /\ remote.wire = <<>>) => n + Len(remote.wire) = remote.sent
    OBVIOUS
  <2>3. (remote'.conn \in {"open", "half"} /\ remote'.end # "reset") =>
           remote'.wire = remote.wire /\ n + Len(remote.wire) = remote.sent
    BY <2>1, <2>2 DEF Given
  <2>. QED  BY <2>1, <2>3, SameDown
<1>. QED  BY <1>1, <1>2, <1>3 DEF IInv

LEMMA StutterKeeps ==
  ASSUME IInv, UNCHANGED <<client, handler, remote>>
  PROVE  IInv'
<1>1. TypeOK' /\ StageInv'
  BY DEF IInv, TypeOK, StageInv
<1>2. Taken' = Taken /\ (Feeding' <=> Feeding)
  BY DEF Taken, Feeding, Words
<1>. QED  BY <1>1, <1>2, QuietKeeps

(* What a new connection starts from.                                       *)
LEMMA FreshHolds ==
  ASSUME NEW kind \in {"socks", "http"}, NEW target \in {IP, Name, Bad},
         client' = [kind |-> kind, target |-> target, sent |-> 0, wire |-> <<>>,
                    end |-> "open", got |-> <<>>],
         handler' = [pc |-> "queued", deadline |-> "off", buf |-> <<>>, up |-> "off",
                     down |-> "off"],
         remote' = [conn |-> "none", served |-> <<>>, sent |-> 0, wire |-> <<>>, end |-> "open"]
  PROVE  IInv'
<1>1. /\ client'.kind \in {"socks", "http"} /\ client'.target \in Int
      /\ client'.sent = 0 /\ client'.wire = <<>> /\ client'.end = "open" /\ client'.got = <<>>
      /\ remote'.conn = "none" /\ remote'.served = <<>> /\ remote'.sent = 0
      /\ remote'.wire = <<>> /\ remote'.end = "open"
  BY DEF IP, Name, Bad
<1>2. handler'.pc = "queued" /\ handler'.buf = <<>>
  OBVIOUS
<1>3. TypeOK'
  BY DEF TypeOK, Clients, Remotes, Handlers, Stages, Waiting
<1>4. StageInv'
  BY <1>1, <1>2 DEF StageInv, Waiting
<1>5. UpInv'
  <2>1. remote'.served = Count(0) /\ Len(remote'.served) = 0
    BY <1>1, CountNone
  <2>2. client'.sent <= Words' + MaxUp
    BY <1>1, BoundAssumption DEF Words
  <2>3. Feeding' => Taken' = 0
    BY <1>2 DEF Feeding, Taken, Waiting, Dialling
  <2>. QED  BY <1>1, <1>2, <2>1, <2>2, <2>3 DEF UpInv, Reached
<1>6. HalfInv'
  BY <1>1 DEF HalfInv
<1>7. DownInv'
  <2>1. client'.got = (<<>> \o <<>>) \o Count(0)
    BY <1>1, CountNone
  <2>2. Given(<<>>, <<>>, 0)'
    BY <1>1, <1>2, <2>1 DEF Given, Waiting, Dialling
  <2>. QED  BY <1>1, <2>2 DEF DownInv
<1>. QED  BY <1>3, <1>4, <1>5, <1>6, <1>7 DEF IInv

LEMMA InitHolds == Init => IInv
<1>. SUFFICES ASSUME Init PROVE IInv
  OBVIOUS
<1>1. /\ client = [kind |-> "socks", target |-> IP, sent |-> 0, wire |-> <<>>,
                   end |-> "open", got |-> <<>>]
      /\ remote = [conn |-> "none", served |-> <<>>, sent |-> 0, wire |-> <<>>, end |-> "open"]
      /\ handler = [pc |-> "none", deadline |-> "off", buf |-> <<>>, up |-> "off", down |-> "off"]
  BY DEF Init, NoClient, NoRemote, NoHandler
<1>2. TypeOK
  BY <1>1 DEF TypeOK, Clients, Handlers, Remotes, Stages, Waiting
<1>3. StageInv
  BY <1>1 DEF StageInv, Waiting
<1>4. UpInv
  <2>1. remote.served = Count(0) /\ Len(remote.served) = 0
    BY <1>1, CountNone
  <2>2. client.sent <= Words + MaxUp
    BY <1>1, BoundAssumption DEF Words
  <2>. QED  BY <1>1, <2>1, <2>2 DEF UpInv, Feeding, Waiting, Dialling
<1>5. HalfInv
  BY <1>1 DEF HalfInv
<1>6. DownInv
  <2>1. client.got = (<<>> \o <<>>) \o Count(0)
    BY <1>1, CountNone
  <2>2. Given(<<>>, <<>>, 0)
    BY <1>1, <2>1 DEF Given, Waiting, Dialling
  <2>. QED  BY <1>1, <2>2 DEF DownInv
<1>. QED  BY <1>2, <1>3, <1>4, <1>5, <1>6 DEF IInv

-------------------------------------------------------------------------------
(* -------------------- steps that move no piece -------------------- *)

(* The goroutines end and the connection to the server is closed.             *)
LEMMA CloseKeeps ==
  ASSUME IInv, client' = client, handler' \in Handlers, handler'.pc = "closed",
         \/ remote' = CloseRemote(remote)
         \/ remote' = remote
  PROVE  IInv'
<1>1. client \in Clients /\ remote \in Remotes
  BY DEF IInv, TypeOK
<1>2. /\ remote' \in Remotes
      /\ remote'.served = remote.served /\ remote'.sent = remote.sent
      /\ remote'.wire = remote.wire \/ remote'.wire = <<>>
      /\ remote'.end = remote.end
      /\ remote'.conn = "none" => remote'.served = <<>> /\ remote'.sent = 0 /\ remote'.wire = <<>>
      /\ remote'.conn \in {"open", "half"} => remote' = remote
  BY <1>1, ClosedRemote DEF IInv, StageInv
<1>3. TypeOK'
  BY <1>1, <1>2 DEF TypeOK
<1>4. StageInv' /\ ~Feeding'
  BY <1>2 DEF StageInv, Feeding, Waiting, Dialling
<1>. QED  BY <1>2, <1>3, <1>4, QuietKeeps DEF Waiting, Dialling

LEMMA StopKeeps == ASSUME IInv, Stop PROVE IInv'
<1>1. client' = client /\ remote' = CloseRemote(remote)
  BY DEF Stop, CloseRemote
<1>2. handler' = [pc |-> "closed", deadline |-> "off", buf |-> <<>>, up |-> "off",
                  down |-> "off"]
  BY DEF Stop, IInv, TypeOK, Handlers
<1>3. handler' \in Handlers /\ handler'.pc = "closed"
  BY <1>2 DEF Handlers, Stages
<1>. QED  BY <1>1, <1>3, CloseKeeps

LEMMA ReadFailsKeeps == ASSUME IInv, ReadFails PROVE IInv'
  BY CloseKeeps, ClosedHandler DEF ReadFails, IInv, TypeOK

LEMMA ReturnKeeps == ASSUME IInv, Return PROVE IInv'
  BY CloseKeeps, ClosedHandler DEF Return, IInv, TypeOK

LEMMA ConnectKeeps == ASSUME IInv, Connect PROVE IInv'
<1>1. PICK kind \in {"socks", "http"}, target \in {IP, Name, Bad} :
        client' = [NoClient EXCEPT !.kind = kind, !.target = target]
  BY DEF Connect
<1>2. client' = [kind |-> kind, target |-> target, sent |-> 0, wire |-> <<>>,
                 end |-> "open", got |-> <<>>]
  BY <1>1 DEF NoClient
<1>3. handler' = [pc |-> "queued", deadline |-> "off", buf |-> <<>>, up |-> "off",
                  down |-> "off"]
  BY DEF Connect, NoHandler
<1>4. remote' = [conn |-> "none", served |-> <<>>, sent |-> 0, wire |-> <<>>, end |-> "open"]
  BY DEF Connect, NoRemote
<1>. QED  BY <1>2, <1>3, <1>4, FreshHolds

LEMMA ClientShutKeeps == ASSUME IInv, ClientShut PROVE IInv'
<1>1. /\ client' = [client EXCEPT !.end = "shut"] /\ client.end = "open"
      /\ handler' = handler /\ remote' = remote
  BY DEF ClientShut
<1>2. /\ client'.kind = client.kind /\ client'.target = client.target
      /\ client'.sent = client.sent /\ client'.wire = client.wire /\ client'.got = client.got
      /\ client'.end = "shut" /\ TypeOK'
  BY <1>1 DEF IInv, TypeOK, Clients
<1>3. StageInv'
  BY <1>1, <1>2 DEF IInv, StageInv
<1>4. Taken' = Taken /\ (Feeding' <=> Feeding)
  BY <1>1, <1>2 DEF Taken, Feeding, Words
<1>. QED  BY <1>1, <1>2, <1>3, <1>4, QuietKeeps

LEMMA ClientGoKeeps == ASSUME IInv, ClientGo PROVE IInv'
<1>1. PICK wire \in {client.wire, <<>>} :
        /\ client' = [client EXCEPT !.end = "gone", !.wire = wire]
        /\ handler' = handler /\ remote' = remote
  BY DEF ClientGo
<1>2. /\ client'.kind = client.kind /\ client'.target = client.target
      /\ client'.sent = client.sent /\ client'.wire = wire /\ client'.got = client.got
      /\ client'.end = "gone" /\ client' \in Clients
  <2>1. client \in Clients /\ wire \in Seq(Int)
    BY <1>1, ClientFields, NothingIsASequence DEF IInv, TypeOK
  <2>. QED  BY <1>1, <2>1 DEF Clients
<1>3. StageInv'
  BY <1>1, <1>2 DEF IInv, StageInv
<1>4. Taken' = Taken /\ (Feeding' <=> Feeding)
  BY <1>1, <1>2 DEF Taken, Feeding, Words
<1>5. TypeOK'
  BY <1>1, <1>2 DEF IInv, TypeOK
<1>. QED  BY <1>1, <1>2, <1>3, <1>4, <1>5, QuietKeeps

(* The handler goes on, within the stages between which nothing is read.      *)
LEMMA HandlerMoves ==
  ASSUME IInv, client' = client, remote' = remote, handler' \in Handlers, StageInv',
         handler'.buf = handler.buf, handler'.up = handler.up,
         \/ handler'.pc = handler.pc
         \/ handler.pc \in Waiting /\ handler'.pc \in Waiting
         \/ handler.pc \in Dialling /\ handler'.pc \in Dialling
  PROVE  IInv'
<1>1. TypeOK'
  BY DEF IInv, TypeOK
<1>2. Taken' = Taken /\ (Feeding' <=> Feeding)
  BY DEF Taken, Feeding, Words, Waiting, Dialling
<1>. QED  BY <1>1, <1>2, QuietKeeps DEF Waiting, Dialling

LEMMA AcceptKeeps == ASSUME IInv, Accept PROVE IInv'
<1>1. /\ client' = client /\ remote' = remote /\ handler.pc = "queued" /\ handler'.pc = "peek"
      /\ handler'.buf = handler.buf /\ handler'.up = handler.up /\ handler' \in Handlers
  BY DEF Accept, IInv, TypeOK, Handlers, Stages, Waiting
<1>2. StageInv'
  BY <1>1 DEF IInv, StageInv, Waiting
<1>. QED  BY <1>1, <1>2, HandlerMoves DEF Waiting

LEMMA DeadlineKeeps == ASSUME IInv, Deadline PROVE IInv'
<1>1. /\ client' = client /\ remote' = remote /\ handler'.pc = handler.pc
      /\ handler'.buf = handler.buf /\ handler'.up = handler.up /\ handler' \in Handlers
  BY DEF Deadline, IInv, TypeOK, Handlers
<1>2. StageInv'
  BY <1>1 DEF IInv, StageInv
<1>. QED  BY <1>1, <1>2, HandlerMoves

(* The first piece tells the protocols apart.                                *)
LEMMA PeekKeeps == ASSUME IInv, Peek PROVE IInv'
<1>1. /\ client' = client /\ remote' = remote /\ handler.pc = "peek" /\ handler.buf # <<>>
      /\ handler'.pc = IF Head(handler.buf) = Hello THEN "hello" ELSE "connect"
      /\ handler'.buf = handler.buf /\ handler'.up = handler.up /\ handler' \in Handlers
  BY DEF Peek, IInv, TypeOK, Handlers, Stages, Waiting
<1>2. Head(handler.buf) = Pieces[1]
  <2>1. Feeding /\ Taken = 0
    BY <1>1 DEF Feeding, Taken, Waiting
  <2>2. handler.buf \in Seq(Int) /\ 1 \in 1..Len(handler.buf)
    BY <1>1 DEF IInv, TypeOK, Handlers
  <2>3. handler.buf[1] = Pieces[0 + 1]
    BY <2>1, <2>2 DEF IInv, UpInv
  <2>. QED  BY <2>2, <2>3
<1>3. (client.kind = "socks") <=> (Head(handler.buf) = Hello)
  BY <1>2, PiecesAre DEF IInv, TypeOK, Clients, Hello, IP, Name, Bad
<1>4. StageInv'
  BY <1>1, <1>3 DEF IInv, TypeOK, Clients, StageInv, Waiting
<1>. QED  BY <1>1, <1>4, HandlerMoves DEF Waiting

LEMMA DownEndsKeeps == ASSUME IInv, DownEnds PROVE IInv'
<1>1. /\ client' = client /\ remote' = CloseRemote(remote) /\ handler.pc = "pipe"
      /\ handler'.pc = "pipe" /\ handler'.up = handler.up /\ handler'.buf = handler.buf
      /\ handler' \in Handlers /\ remote \in Remotes
  BY DEF DownEnds, Piping, IInv, TypeOK, Handlers
<1>2. /\ remote' \in Remotes
      /\ remote'.served = remote.served /\ remote'.sent = remote.sent /\ remote'.wire = <<>>
      /\ remote'.conn \in {"none", "closed"}
      /\ remote'.conn = "none" => remote'.served = <<>> /\ remote'.sent = 0 /\ remote'.wire = <<>>
  BY <1>1, ClosedRemote DEF IInv, StageInv
<1>3. TypeOK' /\ StageInv'
  BY <1>1, <1>2 DEF IInv, TypeOK, StageInv, Waiting
<1>4. Taken' = Taken /\ (Feeding' <=> Feeding)
  BY <1>1, <1>2 DEF Taken, Feeding, Words, Waiting, Dialling
<1>. QED  BY <1>1, <1>2, <1>3, <1>4, QuietKeeps DEF Waiting, Dialling

LEMMA ServerEndKeeps == ASSUME IInv, ServerEnd PROVE IInv'
<1>1. /\ client' = client /\ handler' = handler /\ remote' = [remote EXCEPT !.end = "ended"]
      /\ remote.conn \in {"open", "half"} /\ remote.end = "open"
  BY DEF ServerEnd, Serving
<1>2. /\ remote' \in Remotes /\ remote'.conn = remote.conn
      /\ remote'.served = remote.served /\ remote'.sent = remote.sent
      /\ remote'.wire = remote.wire /\ remote'.end = "ended"
  BY <1>1 DEF IInv, TypeOK, Remotes
<1>3. TypeOK' /\ StageInv'
  BY <1>1, <1>2 DEF IInv, TypeOK, StageInv
<1>4. Taken' = Taken /\ (Feeding' <=> Feeding)
  BY <1>1, <1>2 DEF Taken, Feeding, Words
<1>. QED  BY <1>1, <1>2, <1>3, <1>4, QuietKeeps

LEMMA ServerResetKeeps == ASSUME IInv, ServerReset PROVE IInv'
<1>1. /\ client' = client /\ handler' = handler
      /\ remote' = [remote EXCEPT !.end = "reset", !.wire = <<>>]
      /\ remote.conn \in {"open", "half"}
  BY DEF ServerReset
<1>2. /\ remote'.conn = remote.conn
      /\ remote'.served = remote.served /\ remote'.sent = remote.sent
      /\ remote'.wire = <<>> /\ remote'.end = "reset"
  BY <1>1 DEF IInv, TypeOK, Remotes
<1>3. remote' \in Remotes
  BY <1>1, NothingIsASequence DEF IInv, TypeOK, Remotes
<1>4. TypeOK' /\ StageInv'
  BY <1>1, <1>2, <1>3 DEF IInv, TypeOK, StageInv
<1>5. Taken' = Taken /\ (Feeding' <=> Feeding)
  BY <1>1, <1>2 DEF Taken, Feeding, Words
<1>. QED  BY <1>1, <1>2, <1>4, <1>5, QuietKeeps

LEMMA UpEndsKeeps == ASSUME IInv, UpEnds PROVE IInv'
<1>1. /\ client' = client /\ handler.pc = "pipe" /\ handler.up = "copying"
      /\ handler' = [handler EXCEPT !.up = "done", !.buf = <<>>]
      /\ remote' = [remote EXCEPT !.conn = HalfClose(@)]
      /\ \/ handler.buf = <<>> /\ client.wire = <<>> /\ client.end # "open"
         \/ ~Takes
  BY DEF UpEnds, Piping
<1>2. /\ handler'.pc = "pipe" /\ handler'.up = "done" /\ handler' \in Handlers
  BY <1>1, NothingIsASequence DEF IInv, TypeOK, Handlers
<1>3. HalfClose(remote.conn) \in {"none", "half", "closed"}
  BY RemoteFields DEF IInv, TypeOK, HalfClose
<1>4. /\ remote' \in Remotes /\ remote'.conn = HalfClose(remote.conn)
      /\ remote'.served = remote.served /\ remote'.sent = remote.sent
      /\ remote'.wire = remote.wire /\ remote'.end = remote.end
  BY <1>1, <1>3 DEF IInv, TypeOK, Remotes
<1>5. TypeOK'
  BY <1>1, <1>2, <1>4 DEF IInv, TypeOK
<1>6. StageInv'
  <2>1. remote'.conn = "none" => remote.conn = "none"
    BY <1>4 DEF HalfClose
  <2>. QED  BY <1>2, <1>4, <2>1 DEF IInv, StageInv, Waiting
<1>7. UpInv'
  <2>1. ~Feeding'
    BY <1>2 DEF Feeding, Waiting, Dialling
  <2>. QED  BY <1>1, <1>4, <2>1, SameUp DEF IInv
<1>8. HalfInv'
  <2>. SUFFICES ASSUME remote'.conn = "half", remote.end # "reset"
                PROVE  /\ client.end # "open"
                       /\ client.end # "gone" => Len(remote.served) = DataSent
    BY <1>1, <1>4 DEF HalfInv, DataSent
  <2>1. CASE remote.conn = "half"
    BY <2>1 DEF IInv, HalfInv
  <2>2. CASE remote.conn = "open"
    <3>1. handler.buf = <<>> /\ client.wire = <<>> /\ client.end # "open"
      BY <1>1, <2>2 DEF Takes
    <3>2. Feeding /\ Taken = Words + Len(remote.served)
      BY <1>1, TakenIs DEF Feeding, Waiting
    <3>3. client.end # "gone" => Taken + 0 + 0 = client.sent
      BY <3>1, <3>2, NothingIsASequence DEF IInv, UpInv, Reached
    <3>4. /\ Len(remote.served) \in Nat /\ Words \in Nat /\ client.sent \in Nat
      BY RemoteFields, ClientFields DEF IInv, TypeOK, Words
    <3>5. client.end # "gone" => Len(remote.served) = client.sent - Words
      BY <3>2, <3>3, <3>4
    <3>. QED  BY <3>1, <3>5 DEF DataSent, Words
  <2>3. remote.conn \in {"half", "open"}
    BY <1>4 DEF HalfClose
  <2>. QED  BY <2>1, <2>2, <2>3
<1>9. DownInv'
  <2>1. PICK g \in {<<>>, <<Greeting>>}, v \in {<<>>, <<Success>>, <<Failure>>},
             n \in 0..remote.sent : Given(g, v, n)
    BY DEF IInv, DownInv
  <2>2. remote'.conn \in {"open", "half"} => remote.conn \in {"open", "half"}
    BY <1>4 DEF HalfClose
  <2>3. (remote'.conn \in {"open", "half"} /\ remote'.end # "reset") =>
           remote'.wire = remote.wire /\ n + Len(remote.wire) = remote.sent
    BY <1>4, <2>1, <2>2 DEF Given
  <2>. QED  BY <1>1, <1>2, <1>4, <2>1, <2>3, SameDown DEF Waiting, Dialling
<1>. QED  BY <1>5, <1>6, <1>7, <1>8, <1>9 DEF IInv

-------------------------------------------------------------------------------
(* ------------------------- pieces on their way up ------------------------ *)

(* The lengths and positions the input invariant speaks of are numbers.       *)
LEMMA Numbers ==
  ASSUME TypeOK
  PROVE  /\ client.wire \in Seq(Int) /\ handler.buf \in Seq(Int)
         /\ Len(client.wire) \in Nat /\ Len(handler.buf) \in Nat
         /\ Len(remote.served) \in Nat /\ client.sent \in Nat
         /\ Taken \in Nat /\ Words \in Nat
<1>1. /\ client.wire \in Seq(Int) /\ handler.buf \in Seq(Int) /\ remote.served \in Seq(Int)
      /\ client.sent \in Nat
  BY ClientFields, HandlerFields, RemoteFields DEF TypeOK
<1>2. /\ Len(client.wire) \in Nat /\ Len(handler.buf) \in Nat /\ Len(remote.served) \in Nat
  BY <1>1
<1>. QED  BY <1>1, <1>2, TakenInNat DEF Words

(* A step that leaves the downward direction and what the server has alone.   *)
LEMMA UpwardKeeps ==
  ASSUME IInv, TypeOK', StageInv', UpInv', remote' = remote, client'.got = client.got,
         client'.kind = client.kind, client'.end = client.end,
         client'.sent = client.sent \/ client.end = "open",
         handler'.pc \in {"none"} \cup Waiting =>
           handler.pc \in {"none"} \cup Waiting,
         handler'.pc \in {"request"} \cup Dialling =>
           handler.pc \in {"none", "request"} \cup Waiting \cup Dialling,
         handler'.pc = "pipe" => handler.pc = "pipe"
  PROVE  IInv'
<1>1. HalfInv'
  BY SameHalf DEF IInv, HalfInv
<1>2. DownInv'
  <2>1. PICK g \in {<<>>, <<Greeting>>}, v \in {<<>>, <<Success>>, <<Failure>>},
             n \in 0..remote.sent : Given(g, v, n)
    BY DEF IInv, DownInv
  <2>2. (remote'.conn \in {"open", "half"} /\ remote'.end # "reset") =>
           remote'.wire = remote.wire /\ n + Len(remote.wire) = remote.sent
    BY <2>1 DEF Given
  <2>. QED  BY <2>1, <2>2, SameDown
<1>. QED  BY <1>1, <1>2 DEF IInv

LEMMA ClientSendKeeps == ASSUME IInv, ClientSend PROVE IInv'
<1>. DEFINE x == Pieces[client.sent + 1]
<1>1. /\ client' = [client EXCEPT !.sent = @ + 1, !.wire = Append(@, x)]
      /\ handler' = handler /\ remote' = remote
      /\ client.end = "open" /\ client.sent < Len(Pieces)
  BY DEF ClientSend
<1>2. /\ client \in Clients /\ TypeOK /\ UpInv
  BY DEF IInv, TypeOK
<1>3. client.sent + 1 \in 1..(Words + MaxUp) /\ x \in Int
  <2>1. client.sent < Words + MaxUp /\ MaxUp \in Nat /\ Words \in Nat /\ client.sent \in Nat
    BY <1>1, <1>2, PiecesAre, Numbers, BoundAssumption
  <2>2. client.sent + 1 \in 1..(Words + MaxUp)
    BY <2>1
  <2>. QED  BY <1>2, <2>2, PiecesAre
<1>. HIDE DEF x
<1>4. /\ client'.kind = client.kind /\ client'.target = client.target
      /\ client'.sent = client.sent + 1 /\ client'.wire = Append(client.wire, x)
      /\ client'.end = client.end /\ client'.got = client.got
  BY <1>1, <1>2 DEF Clients
<1>5. TypeOK'
  <2>1. Append(client.wire, x) \in Seq(Int) /\ client.sent + 1 \in Nat
    BY <1>2, <1>3, Numbers
  <2>2. client' \in Clients
    BY <1>1, <1>2, <2>1 DEF Clients
  <2>. QED  BY <1>1, <1>2, <2>2 DEF TypeOK
<1>6. StageInv'
  BY <1>1, <1>4 DEF IInv, StageInv
<1>7. UpInv'
  <2>1. Words' = Words /\ Pieces' = Pieces /\ Taken' = Taken /\ (Feeding' <=> Feeding)
    BY <1>1, <1>4 DEF Words, Pieces, Taken, Feeding
  <2>2. ASSUME Feeding
        PROVE  /\ Taken + Len(handler.buf) + Len(client.wire) = client.sent
               /\ \A i \in 1..Len(handler.buf) : handler.buf[i] = Pieces[Taken + i]
               /\ \A i \in 1..Len(client.wire) :
                    client.wire[i] = Pieces[Taken + Len(handler.buf) + i]
    BY <1>1, <1>2, <2>2 DEF UpInv, Reached
  <2>3. ASSUME Feeding
        PROVE  /\ \A i \in 1..Len(client'.wire) :
                    client'.wire[i] = Pieces[Taken + Len(handler.buf) + i]
               /\ Len(client'.wire) = Len(client.wire) + 1
    <3>1. Taken + Len(handler.buf) \in Nat
      BY <1>2, Numbers
    <3>2. x = Pieces[(Taken + Len(handler.buf)) + Len(client.wire) + 1]
      BY <2>2, <2>3 DEF x
    <3>3. /\ client.wire \in Seq(Int)
          /\ \A i \in 1..Len(client.wire) :
               client.wire[i] = Pieces[(Taken + Len(handler.buf)) + i]
      BY <1>2, <2>2, <2>3, Numbers
    <3>4. /\ Len(Append(client.wire, x)) = Len(client.wire) + 1
          /\ \A i \in 1..Len(Append(client.wire, x)) :
               Append(client.wire, x)[i] = Pieces[(Taken + Len(handler.buf)) + i]
      <4>1. /\ Len(Append(client.wire, x)) = Len(client.wire) + 1
            /\ Append(client.wire, x)[Len(client.wire) + 1] = x
            /\ \A i \in 1..Len(client.wire) : Append(client.wire, x)[i] = client.wire[i]
            /\ \A i \in 1..Len(Append(client.wire, x)) :
                 i \in 1..Len(client.wire) \/ i = Len(client.wire) + 1
        BY <1>3, <3>3, Longer
      <4>2. ASSUME NEW i \in 1..Len(Append(client.wire, x))
            PROVE  Append(client.wire, x)[i] = Pieces[(Taken + Len(handler.buf)) + i]
        <5>1. CASE i \in 1..Len(client.wire)
          BY <3>3, <4>1, <5>1
        <5>2. CASE i = Len(client.wire) + 1
          <6>1. (Taken + Len(handler.buf)) + (Len(client.wire) + 1)
                  = Taken + Len(handler.buf) + Len(client.wire) + 1
            BY <1>2, Numbers
          <6>. QED  BY <3>2, <4>1, <5>2, <6>1
        <5>. QED  BY <4>1, <5>1, <5>2
      <4>. QED  BY <4>1, <4>2
    <3>. QED  BY <1>4, <3>4
  <2>4. ASSUME Feeding PROVE Reached' = client'.sent /\ Reached' <= client'.sent
    <3>1. Reached' = Taken + Len(handler.buf) + (Len(client.wire) + 1)
      BY <1>1, <2>1, <2>3, <2>4 DEF Reached
    <3>2. /\ Taken \in Nat /\ Len(handler.buf) \in Nat /\ Len(client.wire) \in Nat
          /\ client.sent \in Nat
      BY <1>2, Numbers
    <3>3. Reached' = client.sent + 1
      <4>1. Taken + Len(handler.buf) + Len(client.wire) = client.sent
        BY <2>2, <2>4
      <4>2. Taken + Len(handler.buf) + (Len(client.wire) + 1) = client.sent + 1
        <5>1. PICK b \in Nat : b = Len(handler.buf)
          BY <3>2
        <5>2. PICK c \in Nat : c = Len(client.wire)
          BY <3>2
        <5>3. Taken + b + c = client.sent
          BY <4>1, <5>1, <5>2
        <5>4. Taken + b + (c + 1) = client.sent + 1
          BY <3>2, <5>3, OneMore
        <5>. QED  BY <5>1, <5>2, <5>4
      <4>. QED  BY <3>1, <4>2
    <3>. QED  BY <1>4, <3>2, <3>3
  <2>5. client'.sent <= Words' + MaxUp
    BY <1>2, <1>3, <1>4, <2>1, Numbers, BoundAssumption
  <2>6. remote'.served = Count(Len(remote'.served))
    BY <1>1, <1>2 DEF UpInv
  <2>. QED  BY <1>1, <2>1, <2>2, <2>3, <2>4, <2>5, <2>6 DEF UpInv
<1>. QED  BY <1>1, <1>4, <1>5, <1>6, <1>7, UpwardKeeps

LEMMA FillKeeps == ASSUME IInv, Fill PROVE IInv'
<1>1. /\ Reading /\ handler.buf = <<>> /\ remote' = remote
  BY DEF Fill
<1>2. PICK k \in 1..Len(client.wire) :
        /\ handler' = [handler EXCEPT !.buf = SubSeq(client.wire, 1, k)]
        /\ client' = [client EXCEPT !.wire = SubSeq(@, k + 1, Len(@))]
  BY DEF Fill
<1>. DEFINE a == SubSeq(client.wire, 1, k)
            b == SubSeq(client.wire, k + 1, Len(client.wire))
<1>3. /\ client \in Clients /\ handler \in Handlers /\ TypeOK /\ UpInv
  BY DEF IInv, TypeOK
<1>4. Feeding
  BY <1>1 DEF Reading, Feeding, Waiting
<1>5. /\ Taken + 0 + Len(client.wire) <= client.sent
      /\ client.end # "gone" => Taken + 0 + Len(client.wire) = client.sent
      /\ \A i \in 1..Len(client.wire) : client.wire[i] = Pieces[Taken + 0 + i]
  BY <1>1, <1>3, <1>4, NothingIsASequence DEF UpInv, Reached
<1>6. /\ a \in Seq(Int) /\ b \in Seq(Int) /\ Len(a) = k /\ Len(b) = Len(client.wire) - k
      /\ \A i \in 1..Len(a) : a[i] = Pieces[Taken + i]
      /\ \A i \in 1..Len(b) : b[i] = Pieces[(Taken + k) + i]
  <2>1. Taken \in Nat /\ client.wire \in Seq(Int)
    BY <1>3, Numbers
  <2>2. \A i \in 1..Len(client.wire) : client.wire[i] = Pieces[Taken + i]
    BY <1>5, <2>1
  <2>. QED  BY <2>1, <2>2, SplitStretch, SMTT(20)
<1>7. handler' = [handler EXCEPT !.buf = a] /\ client' = [client EXCEPT !.wire = b]
  BY <1>2
<1>. HIDE DEF a, b
<1>8. /\ client'.kind = client.kind /\ client'.target = client.target
      /\ client'.sent = client.sent /\ client'.wire = b
      /\ client'.end = client.end /\ client'.got = client.got
      /\ client' \in Clients
  BY <1>3, <1>6, <1>7 DEF Clients
<1>9. /\ handler'.pc = handler.pc /\ handler'.buf = a /\ handler'.up = handler.up
      /\ handler' \in Handlers
  BY <1>3, <1>6, <1>7 DEF Handlers
<1>10. TypeOK' /\ StageInv'
  BY <1>1, <1>3, <1>8, <1>9 DEF IInv, TypeOK, StageInv
<1>11. UpInv'
  <2>1. Words' = Words /\ Pieces' = Pieces /\ Taken' = Taken
    BY <1>1, <1>8, <1>9 DEF Words, Pieces, Taken
  <2>2. Reached' = Taken + Len(a) + Len(b)
    BY <1>8, <1>9, <2>1 DEF Reached
  <2>3. Taken + Len(a) + Len(b) = Taken + 0 + Len(client.wire)
    BY <1>3, <1>6, Numbers
  <2>4. /\ \A i \in 1..Len(b) : b[i] = Pieces[Taken + Len(a) + i]
    BY <1>6
  <2>5. client.sent <= Words + MaxUp /\ remote.served = Count(Len(remote.served))
    BY <1>3 DEF UpInv
  <2>. QED  BY <1>1, <1>5, <1>6, <1>8, <1>9, <2>1, <2>2, <2>3, <2>4, <2>5 DEF UpInv
<1>. QED  BY <1>1, <1>8, <1>9, <1>10, <1>11, UpwardKeeps

(* The piece at the front of the reader is the next one of the program's.     *)
LEMMA HeadIsNext ==
  ASSUME TypeOK, UpInv, Feeding, handler.buf # <<>>
  PROVE  /\ Head(handler.buf) = Pieces[Taken + 1] /\ Head(handler.buf) \in Int
         /\ Taken + 1 \in 1..(Words + MaxUp)
         /\ Tail(handler.buf) \in Seq(Int) /\ Len(Tail(handler.buf)) \in Nat
         /\ Len(handler.buf) = Len(Tail(handler.buf)) + 1
         /\ \A i \in 1..Len(Tail(handler.buf)) :
              Tail(handler.buf)[i] = Pieces[(Taken + 1) + i]
<1>1. \A i \in 1..Len(handler.buf) : handler.buf[i] = Pieces[Taken + i]
  BY DEF UpInv
<1>2. Taken \in Nat /\ handler.buf \in Seq(Int)
  BY Numbers
<1>3. /\ Head(handler.buf) = Pieces[Taken + 1] /\ Head(handler.buf) \in Int
      /\ Tail(handler.buf) \in Seq(Int) /\ Len(Tail(handler.buf)) \in Nat
      /\ Len(handler.buf) = Len(Tail(handler.buf)) + 1
      /\ \A i \in 1..Len(Tail(handler.buf)) :
           Tail(handler.buf)[i] = Pieces[(Taken + 1) + i]
  BY <1>1, <1>2, TailStretch
<1>4. Taken + 1 \in 1..(Words + MaxUp)
  <2>1. Taken + Len(handler.buf) + Len(client.wire) <= client.sent
        /\ client.sent <= Words + MaxUp
    BY DEF UpInv, Reached
  <2>2. PICK b \in Nat : b = Len(Tail(handler.buf))
    BY <1>3
  <2>3. PICK c \in Nat : c = Len(client.wire)
    BY Numbers
  <2>4. Taken + (b + 1) + c <= client.sent
    BY <1>3, <2>1, <2>2, <2>3
  <2>5. Taken \in Nat /\ Words \in Nat /\ MaxUp \in Nat /\ client.sent \in Nat
    BY Numbers, BoundAssumption
  <2>. QED  BY <2>1, <2>4, <2>5
<1>. QED  BY <1>3, <1>4

LEMMA TakeKeepsUp ==
  ASSUME TypeOK, UpInv, Feeding, handler.buf # <<>>,
         client'.kind = client.kind, client'.target = client.target, client'.sent = client.sent,
         client'.wire = client.wire, client'.end = client.end,
         handler'.buf = Tail(handler.buf), Feeding' => Taken' = Taken + 1,
         remote'.served = Count(Len(remote'.served))
  PROVE  UpInv'
<1>1. Words' = Words /\ Pieces' = Pieces
  BY DEF Words, Pieces
<1>2. /\ client.sent <= Words + MaxUp
      /\ Taken + Len(handler.buf) + Len(client.wire) <= client.sent
      /\ client.end # "gone" => Taken + Len(handler.buf) + Len(client.wire) = client.sent
      /\ \A i \in 1..Len(client.wire) : client.wire[i] = Pieces[Taken + Len(handler.buf) + i]
  BY DEF UpInv, Reached
<1>3. PICK b \in Nat : b = Len(Tail(handler.buf))
  BY HeadIsNext
<1>4. /\ Len(handler.buf) = b + 1
      /\ \A i \in 1..b : Tail(handler.buf)[i] = Pieces[(Taken + 1) + i]
      /\ Taken \in Nat
  BY <1>3, HeadIsNext, Numbers
<1>5. Taken + (b + 1) = (Taken + 1) + b
  BY <1>4
<1>6. ASSUME Feeding'
      PROVE  /\ \A i \in 1..Len(handler'.buf) : handler'.buf[i] = Pieces'[Taken' + i]
             /\ \A i \in 1..Len(client'.wire) :
                  client'.wire[i] = Pieces'[Taken' + Len(handler'.buf) + i]
             /\ Reached' <= client'.sent
             /\ client'.end # "gone" => Reached' = client'.sent
  <2>1. Reached' = (Taken + 1) + b + Len(client.wire)
    BY <1>3, <1>6 DEF Reached
  <2>2. Reached' = Taken + Len(handler.buf) + Len(client.wire)
    BY <1>4, <1>5, <2>1
  <2>3. \A i \in 1..Len(client.wire) : client.wire[i] = Pieces[(Taken + 1) + b + i]
    BY <1>2, <1>4, <1>5
  <2>. QED  BY <1>1, <1>2, <1>3, <1>4, <1>6, <2>2, <2>3
<1>. QED  BY <1>1, <1>2, <1>6 DEF UpInv

LEMMA WireIsNext ==
  ASSUME TypeOK, UpInv, Feeding, handler.buf = <<>>, client.wire # <<>>
  PROVE  /\ Head(client.wire) = Pieces[Taken + 1] /\ Tail(client.wire) \in Seq(Int)
         /\ Taken + 1 \in 1..(Words + MaxUp)
<1>1. /\ client.sent <= Words + MaxUp
      /\ Taken + 0 + Len(client.wire) <= client.sent
      /\ \A i \in 1..Len(client.wire) : client.wire[i] = Pieces[Taken + 0 + i]
  BY NothingIsASequence DEF UpInv, Reached
<1>2. Taken \in Nat /\ client.wire \in Seq(Int)
  BY Numbers
<1>3. \A i \in 1..Len(client.wire) : client.wire[i] = Pieces[Taken + i]
  BY <1>1, <1>2
<1>4. /\ Head(client.wire) = Pieces[Taken + 1] /\ Tail(client.wire) \in Seq(Int)
      /\ Len(client.wire) = Len(Tail(client.wire)) + 1 /\ Len(Tail(client.wire)) \in Nat
  BY <1>2, <1>3, TailStretch
<1>5. Taken + 1 \in 1..(Words + MaxUp)
  <2>1. PICK c \in Nat : c = Len(Tail(client.wire))
    BY <1>4
  <2>2. Taken + 0 + (c + 1) <= client.sent
    BY <1>1, <1>4, <2>1
  <2>3. Taken \in Nat /\ Words \in Nat /\ MaxUp \in Nat /\ client.sent \in Nat
    BY Numbers, BoundAssumption
  <2>. QED  BY <1>1, <2>2, <2>3
<1>. QED  BY <1>4, <1>5

(* The server is given a piece.                                             *)
LEMMA ServedKeeps ==
  ASSUME IInv, UpInv', client' \in Clients, handler' \in Handlers, remote' \in Remotes,
         client'.kind = client.kind, client'.got = client.got,
         handler.pc = "pipe", handler'.pc = "pipe",
         remote.conn = "open", remote'.conn = "open", remote'.end = remote.end,
         remote'.sent = remote.sent, remote'.wire = remote.wire
  PROVE  IInv'
<1>1. TypeOK' /\ StageInv' /\ HalfInv'
  BY DEF TypeOK, StageInv, HalfInv, Waiting
<1>2. DownInv'
  <2>1. PICK g \in {<<>>, <<Greeting>>}, v \in {<<>>, <<Success>>, <<Failure>>},
             n \in 0..remote.sent : Given(g, v, n)
    BY DEF IInv, DownInv
  <2>2. (remote'.conn \in {"open", "half"} /\ remote'.end # "reset") =>
           remote'.wire = remote.wire /\ n + Len(remote.wire) = remote.sent
    BY <2>1 DEF Given
  <2>. QED  BY <2>1, <2>2, SameDown DEF Waiting, Dialling
<1>. QED  BY <1>1, <1>2 DEF IInv

(* Without the reader: the piece comes from what is on the way.               *)
LEMMA PassKeepsUp ==
  ASSUME TypeOK, UpInv, Feeding, handler.buf = <<>>, client.wire # <<>>,
         client'.kind = client.kind, client'.target = client.target, client'.sent = client.sent,
         client'.wire = Tail(client.wire), client'.end = client.end,
         handler'.buf = <<>>, Taken' = Taken + 1,
         remote'.served = Count(Len(remote'.served))
  PROVE  UpInv'
<1>1. Words' = Words /\ Pieces' = Pieces
  BY DEF Words, Pieces
<1>2. /\ client.sent <= Words + MaxUp
      /\ Taken + 0 + Len(client.wire) <= client.sent
      /\ client.end # "gone" => Taken + 0 + Len(client.wire) = client.sent
      /\ \A i \in 1..Len(client.wire) : client.wire[i] = Pieces[Taken + 0 + i]
  BY NothingIsASequence DEF UpInv, Reached
<1>3. Taken \in Nat /\ client.wire \in Seq(Int)
  BY Numbers
<1>4. /\ Len(client.wire) = Len(Tail(client.wire)) + 1 /\ Len(Tail(client.wire)) \in Nat
      /\ \A i \in 1..Len(Tail(client.wire)) : Tail(client.wire)[i] = Pieces[(Taken + 1) + i]
  <2>1. \A i \in 1..Len(client.wire) : client.wire[i] = Pieces[Taken + i]
    BY <1>2, <1>3
  <2>. QED  BY <1>3, <2>1, TailStretch
<1>5. Reached' = Taken + 0 + Len(client.wire)
  <2>1. PICK c \in Nat : c = Len(Tail(client.wire))
    BY <1>4
  <2>2. Reached' = (Taken + 1) + 0 + c
    BY <2>1, NothingIsASequence DEF Reached
  <2>3. (Taken + 1) + 0 + c = Taken + 0 + (c + 1)
    BY <1>3
  <2>. QED  BY <1>4, <2>1, <2>2, <2>3
<1>6. \A i \in 1..Len(client'.wire) : client'.wire[i] = Pieces'[Taken' + Len(handler'.buf) + i]
  <2>1. Taken' + Len(handler'.buf) = Taken + 1
    BY <1>3, NothingIsASequence
  <2>. QED  BY <1>1, <1>4, <2>1
<1>. QED  BY <1>1, <1>2, <1>5, <1>6, NothingIsASequence DEF UpInv

-------------------------------------------------------------------------------
(* ------------------------------- verdicts ----------------------------- *)

LEMMA ToldIs ==
  ASSUME NEW p \in {Greeting, Success, Failure}, client \in Clients
  PROVE  /\ Told(p) \in Clients
         /\ Told(p).kind = client.kind /\ Told(p).target = client.target
         /\ Told(p).sent = client.sent /\ Told(p).wire = client.wire /\ Told(p).end = client.end
         /\ Told(p).got = IF Writable THEN Append(client.got, p) ELSE client.got
<1>. DEFINE g == IF Writable THEN Append(client.got, p) ELSE client.got
<1>1. g \in Seq(Int)
  <2>1. client.got \in Seq(Int) /\ p \in Int
    BY ClientFields DEF Greeting, Success, Failure
  <2>. QED  BY <2>1
<1>2. Told(p) = [client EXCEPT !.got = g]
  BY DEF Told
<1>. HIDE DEF g
<1>3. /\ Told(p) \in Clients /\ Told(p).got = g
      /\ Told(p).kind = client.kind /\ Told(p).target = client.target
      /\ Told(p).sent = client.sent /\ Told(p).wire = client.wire /\ Told(p).end = client.end
  BY <1>1, <1>2 DEF Clients
<1>. QED  BY <1>3 DEF g

(* What cannot be served is refused, aloud or not.                           *)
LEMMA RefusalKeeps ==
  ASSUME IInv, remote' = remote, handler' = Closed(handler),
         handler.pc \in {"request", "connect"} \cup Dialling,
         client' = client \/ client' = Told(Failure)
  PROVE  IInv'
<1>1. TypeOK /\ client \in Clients /\ handler \in Handlers
  BY DEF IInv, TypeOK
<1>2. CASE client' = client
  BY <1>1, <1>2, CloseKeeps, ClosedHandler
<1>3. CASE client' = Told(Failure)
  <2>1. /\ client' \in Clients
        /\ client'.kind = client.kind /\ client'.target = client.target
        /\ client'.sent = client.sent /\ client'.wire = client.wire /\ client'.end = client.end
        /\ client'.got = client.got \/ client'.got = Append(client.got, Failure)
    BY <1>1, <1>3, ToldIs
  <2>2. handler' \in Handlers /\ handler'.pc = "closed"
    BY <1>1, ClosedHandler
  <2>3. TypeOK' /\ StageInv'
    BY <1>1, <2>1, <2>2 DEF IInv, TypeOK, StageInv, Waiting
  <2>4. UpInv'
    <3>1. ~Feeding'
      BY <2>2 DEF Feeding, Waiting, Dialling
    <3>. QED  BY <2>1, <3>1, SameUp DEF IInv
  <2>5. HalfInv'
    BY <2>1, SameHalf DEF IInv
  <2>6. DownInv'
    <3>1. PICK g \in {<<>>, <<Greeting>>}, v \in {<<>>, <<Success>>, <<Failure>>},
               n \in 0..remote.sent : Given(g, v, n)
      BY DEF IInv, DownInv
    <3>2. v = <<>> /\ n = 0 /\ client.got = (g \o <<>>) \o Count(0)
      BY <3>1 DEF Given, Waiting, Dialling
    <3>3. CASE client'.got = client.got
      <4>1. (remote'.conn \in {"open", "half"} /\ remote'.end # "reset") =>
               remote'.wire = remote.wire /\ n + Len(remote.wire) = remote.sent
        BY <3>1 DEF Given
      <4>. QED  BY <2>2, <3>1, <3>3, <4>1, SameDown DEF Waiting, Dialling
    <3>4. CASE client'.got = Append(client.got, Failure)
      <4>1. client'.got = (g \o <<Failure>>) \o Count(0)
        BY <3>2, <3>4, Telling
      <4>2. Given(g, <<Failure>>, 0)'
        BY <2>2, <3>1, <3>2, <4>1 DEF Given, Waiting, Dialling
      <4>3. 0 \in 0..remote'.sent
        BY <3>2
      <4>. QED  BY <4>2, <4>3 DEF DownInv
    <3>. QED  BY <2>1, <3>3, <3>4
  <2>. QED  BY <2>3, <2>4, <2>5, <2>6 DEF IInv
<1>. QED  BY <1>2, <1>3

LEMMA GreetKeeps == ASSUME IInv, Greet PROVE IInv'
<1>1. /\ handler.pc = "hello" /\ handler.buf # <<>> /\ remote' = remote
      /\ client' = Told(Greeting) /\ TypeOK /\ UpInv /\ StageInv
      /\ client \in Clients /\ handler \in Handlers
  BY DEF Greet, IInv, TypeOK
<1>2. CASE ~Writable
  <2>1. client' = client
    BY <1>1, <1>2 DEF Told, Clients
  <2>2. handler' = Closed(handler)
    BY <1>2 DEF Greet
  <2>. QED  BY <1>1, <2>1, <2>2, CloseKeeps, ClosedHandler
<1>3. CASE Writable
  <2>1. /\ client' \in Clients
        /\ client'.kind = client.kind /\ client'.target = client.target
        /\ client'.sent = client.sent /\ client'.wire = client.wire /\ client'.end = client.end
        /\ client'.got = Append(client.got, Greeting)
    BY <1>1, <1>3, ToldIs
  <2>2. Feeding /\ Taken = 0
    BY <1>1, TakenIs DEF Feeding, Waiting
  <2>3. /\ handler'.pc = "request" /\ handler'.buf = Tail(handler.buf) /\ handler' \in Handlers
    <3>1. handler' = [handler EXCEPT !.pc = "request", !.buf = Tail(@)]
      BY <1>3 DEF Greet
    <3>2. Tail(handler.buf) \in Seq(Int) /\ "request" \in Stages
      BY <1>1, <2>2, HeadIsNext DEF Stages
    <3>. QED  BY <1>1, <3>1, <3>2 DEF Handlers
  <2>4. TypeOK'
    BY <1>1, <2>1, <2>3 DEF TypeOK
  <2>5. StageInv'
    BY <1>1, <2>1, <2>3 DEF StageInv, Waiting
  <2>6. UpInv'
    <3>1. Taken' = 1
      BY <2>3 DEF Taken, Waiting
    <3>2. remote'.served = Count(Len(remote'.served))
      BY <1>1 DEF UpInv
    <3>. QED  BY <1>1, <2>1, <2>2, <2>3, <3>1, <3>2, TakeKeepsUp
  <2>7. HalfInv'
    BY <1>1, <2>1, SameHalf DEF IInv
  <2>8. DownInv'
    <3>1. PICK g \in {<<>>, <<Greeting>>}, v \in {<<>>, <<Success>>, <<Failure>>},
               n \in 0..remote.sent : Given(g, v, n)
      BY DEF IInv, DownInv
    <3>2. g = <<>> /\ v = <<>> /\ n = 0 /\ client.got = (<<>> \o <<>>) \o Count(0)
      BY <1>1, <3>1 DEF Given, Waiting
    <3>3. client'.got = (<<Greeting>> \o <<>>) \o Count(0)
      BY <2>1, <3>2, Telling
    <3>4. Given(<<Greeting>>, <<>>, 0)'
      BY <1>1, <2>3, <3>1, <3>2, <3>3 DEF Given, Waiting, Dialling
    <3>. QED  BY <1>1, <3>2, <3>4 DEF DownInv
  <2>. QED  BY <2>4, <2>5, <2>6, <2>7, <2>8 DEF IInv
<1>. QED  BY <1>2, <1>3

(* The request is read: what it asks for can be served, or is refused.        *)
LEMMA DecideKeeps ==
  ASSUME IInv, handler.pc \in {"request", "connect"}, handler.buf # <<>>, Decide
  PROVE  IInv'
<1>1. /\ remote' = remote /\ TypeOK /\ UpInv /\ StageInv
      /\ client \in Clients /\ handler \in Handlers
  BY DEF Decide, IInv, TypeOK
<1>2. CASE Head(handler.buf) \notin {IP, Name}
  <2>1. handler' = Closed(handler) /\ (client' = client \/ client' = Told(Failure))
    BY <1>2 DEF Decide
  <2>. QED  BY <1>1, <2>1, RefusalKeeps
<1>3. CASE Head(handler.buf) \in {IP, Name}
  <2>1. PICK pc \in {"dial", "lookup"} :
          client' = client /\ handler' = [[handler EXCEPT !.buf = Tail(@)] EXCEPT !.pc = pc]
    BY <1>3 DEF Decide, IP, Name
  <2>2. Feeding
    BY DEF Feeding, Waiting
  <2>3. Tail(handler.buf) \in Seq(Int) /\ pc \in Stages
    BY <1>1, <2>2, HeadIsNext DEF Stages, Dialling
  <2>4. /\ handler'.pc = pc /\ handler'.buf = Tail(handler.buf) /\ handler' \in Handlers
    BY <1>1, <2>1, <2>3 DEF Handlers
  <2>5. TypeOK'
    BY <1>1, <2>1, <2>4 DEF TypeOK
  <2>6. remote.conn = "none" /\ Len(remote.served) = 0
    BY <1>1, NothingIsASequence DEF StageInv, Waiting
  <2>7. StageInv'
    BY <1>1, <2>4, <2>6 DEF StageInv, Waiting
  <2>8. Taken' = Taken + 1
    <3>1. Words' = Words /\ Taken' = Words' + Len(remote'.served)
      BY <2>1, <2>4 DEF Taken, Words, Waiting
    <3>2. Taken' = Words
      <4>1. Words \in Nat /\ Taken' = Words + 0
        BY <1>1, <2>6, <3>1, Numbers
      <4>. QED  BY <4>1
    <3>3. CASE handler.pc = "request"
      BY <1>1, <3>2, <3>3, TakenIs DEF StageInv, Words
    <3>4. CASE handler.pc = "connect"
      BY <1>1, <3>2, <3>4, TakenIs DEF StageInv, Words, Waiting
    <3>. QED  BY <3>3, <3>4
  <2>9. UpInv'
    <3>1. remote'.served = Count(Len(remote'.served))
      BY <1>1 DEF UpInv
    <3>. QED  BY <1>1, <2>1, <2>2, <2>4, <2>8, <3>1, TakeKeepsUp
  <2>. QED  BY <1>1, <2>1, <2>4, <2>5, <2>7, <2>9, UpwardKeeps DEF Waiting, Dialling
<1>. QED  BY <1>2, <1>3

LEMMA LookupKeeps == ASSUME IInv, Lookup PROVE IInv'
<1>1. handler.pc = "lookup" /\ remote' = remote /\ handler \in Handlers
  BY DEF Lookup, IInv, TypeOK
<1>2. CASE Fail
  BY <1>1, <1>2, RefusalKeeps DEF Fail, Dialling
<1>3. CASE handler' = [handler EXCEPT !.pc = "dial"] /\ client' = client
  <2>1. /\ handler'.pc = "dial" /\ handler'.buf = handler.buf /\ handler'.up = handler.up
        /\ handler' \in Handlers
    BY <1>1, <1>3 DEF Handlers, Stages, Dialling
  <2>2. StageInv'
    BY <1>1, <1>3, <2>1 DEF IInv, StageInv, Waiting
  <2>. QED  BY <1>1, <1>3, <2>1, <2>2, HandlerMoves DEF Dialling
<1>. QED  BY <1>2, <1>3 DEF Lookup

LEMMA DialKeeps == ASSUME IInv, Dial PROVE IInv'
<1>1. handler.pc = "dial" /\ handler \in Handlers /\ remote \in Remotes
  BY DEF Dial, IInv, TypeOK
<1>2. CASE Fail /\ remote' = remote
  BY <1>1, <1>2, RefusalKeeps DEF Fail, Dialling
<1>3. CASE /\ remote' = [remote EXCEPT !.conn = "open"]
           /\ handler' = [handler EXCEPT !.pc = "reply"] /\ client' = client
  <2>1. /\ handler'.pc = "reply" /\ handler'.buf = handler.buf /\ handler'.up = handler.up
        /\ handler' \in Handlers
    BY <1>1, <1>3 DEF Handlers, Stages, Dialling
  <2>2. /\ remote'.conn = "open" /\ remote'.served = remote.served
        /\ remote'.sent = remote.sent /\ remote'.wire = remote.wire /\ remote' \in Remotes
    BY <1>1, <1>3 DEF Remotes
  <2>3. remote.sent = 0 /\ remote.wire = <<>>
    BY <1>1 DEF IInv, StageInv
  <2>4. TypeOK' /\ StageInv'
    BY <1>3, <2>1, <2>2 DEF IInv, TypeOK, StageInv, Waiting
  <2>5. Taken' = Taken /\ Feeding
    BY <1>1, <1>3, <2>1, <2>2 DEF Taken, Feeding, Words, Waiting, Dialling
  <2>. QED  BY <1>1, <1>3, <2>1, <2>2, <2>3, <2>4, <2>5, QuietKeeps DEF Waiting, Dialling
<1>. QED  BY <1>2, <1>3 DEF Dial

(* The program learns that it is connected, or cannot be told any more.       *)
LEMMA ReplyKeeps == ASSUME IInv, Reply PROVE IInv'
<1>1. /\ handler.pc = "reply" /\ client' = Told(Success) /\ TypeOK /\ UpInv
      /\ client \in Clients /\ handler \in Handlers
  BY DEF Reply, IInv, TypeOK
<1>2. CASE ~Writable
  <2>1. client' = client
    BY <1>1, <1>2 DEF Told, Clients
  <2>2. handler' = Closed(handler) /\ remote' = CloseRemote(remote)
    BY <1>2 DEF Reply
  <2>. QED  BY <1>1, <2>1, <2>2, CloseKeeps, ClosedHandler
<1>3. CASE Writable
  <2>1. /\ client' \in Clients
        /\ client'.kind = client.kind /\ client'.target = client.target
        /\ client'.sent = client.sent /\ client'.wire = client.wire /\ client'.end = client.end
        /\ client'.got = Append(client.got, Success)
    BY <1>1, <1>3, ToldIs
  <2>2. remote' = remote
    BY <1>3 DEF Reply
  <2>3. /\ handler'.pc = "pipe" /\ handler'.buf = handler.buf /\ handler' \in Handlers
    BY <1>1, <1>3 DEF Reply, Start, Handlers, Stages
  <2>4. TypeOK' /\ StageInv'
    BY <1>1, <2>1, <2>2, <2>3 DEF IInv, TypeOK, StageInv, Waiting
  <2>5. Feeding /\ Taken' = Taken
    BY <1>1, <2>1, <2>2, <2>3 DEF Taken, Feeding, Words, Waiting, Dialling
  <2>6. UpInv'
    BY <1>1, <2>1, <2>2, <2>3, <2>5, SameUp
  <2>7. HalfInv'
    BY <2>1, <2>2, SameHalf DEF IInv
  <2>8. DownInv'
    <3>1. PICK g \in {<<>>, <<Greeting>>}, v \in {<<>>, <<Success>>, <<Failure>>},
               n \in 0..remote.sent : Given(g, v, n)
      BY DEF IInv, DownInv
    <3>2. v = <<>> /\ n = 0 /\ client.got = (g \o <<>>) \o Count(0)
      BY <1>1, <3>1 DEF Given, Dialling
    <3>3. client'.got = (g \o <<Success>>) \o Count(0)
      BY <2>1, <3>2, Telling
    <3>4. Given(g, <<Success>>, 0)'
      BY <2>2, <2>3, <3>1, <3>2, <3>3 DEF Given, Waiting, Dialling
    <3>. QED  BY <2>2, <3>2, <3>4 DEF DownInv
  <2>. QED  BY <2>4, <2>6, <2>7, <2>8 DEF IInv
<1>. QED  BY <1>2, <1>3

-------------------------------------------------------------------------------
(* -------------------------------- copiers ------------------------------- *)

LEMMA CopyUpKeeps == ASSUME IInv, CopyUp PROVE IInv'
<1>1. /\ handler.pc = "pipe" /\ handler.up = "copying" /\ remote.conn = "open"
      /\ TypeOK /\ UpInv /\ StageInv
      /\ client \in Clients /\ handler \in Handlers /\ remote \in Remotes
  BY DEF CopyUp, Piping, Takes, IInv, TypeOK
<1>2. Feeding /\ Taken = Words + Len(remote.served)
  BY <1>1, TakenIs DEF Feeding, Waiting
<1>3. PICK L \in Nat : L = Len(remote.served)
  BY <1>1, Numbers
<1>4. remote.served = Count(L) /\ Taken = Words + L
  BY <1>1, <1>2, <1>3 DEF UpInv
<1>5. L + 1 \in 1..MaxUp =>
        Pieces[Taken + 1] = L + 1 /\ Taken + 1 = Words + (L + 1)
  BY <1>1, <1>4, PiecesAre, Numbers
<1>6. ASSUME Taken + 1 \in 1..(Words + MaxUp),
             remote' = [remote EXCEPT !.served = Append(@, Pieces[Taken + 1])]
      PROVE  /\ remote'.served = Count(L + 1) /\ Len(remote'.served) = L + 1
             /\ remote'.served = Count(Len(remote'.served))
             /\ remote'.conn = "open" /\ remote'.end = remote.end
             /\ remote'.sent = remote.sent /\ remote'.wire = remote.wire
             /\ remote' \in Remotes
  <2>1. L + 1 \in 1..MaxUp
    BY <1>1, <1>4, <1>6, Numbers, BoundAssumption, SMTT(20)
  <2>2. Append(remote.served, Pieces[Taken + 1]) = Count(L + 1)
    BY <1>4, <1>5, <2>1, CountOneMore
  <2>3. Count(L + 1) \in Seq(Int) /\ Len(Count(L + 1)) = L + 1
    BY <1>3, CountIs
  <2>4. remote' = [remote EXCEPT !.served = Count(L + 1)]
    BY <1>6, <2>2
  <2>. QED  BY <1>1, <2>3, <2>4 DEF Remotes
<1>7. CASE handler.buf # <<>>
  <2>1. /\ remote' = [remote EXCEPT !.served = Append(@, Head(handler.buf))]
        /\ handler' = [handler EXCEPT !.buf = Tail(@)] /\ client' = client
    BY <1>7 DEF CopyUp
  <2>2. /\ Head(handler.buf) = Pieces[Taken + 1] /\ Taken + 1 \in 1..(Words + MaxUp)
        /\ Tail(handler.buf) \in Seq(Int)
    BY <1>1, <1>2, <1>7, HeadIsNext
  <2>3. /\ Len(remote'.served) = L + 1 /\ remote'.served = Count(Len(remote'.served))
        /\ remote'.conn = "open" /\ remote'.end = remote.end
        /\ remote'.sent = remote.sent /\ remote'.wire = remote.wire /\ remote' \in Remotes
    BY <1>6, <2>1, <2>2
  <2>4. /\ handler'.pc = "pipe" /\ handler'.up = "copying" /\ handler'.buf = Tail(handler.buf)
        /\ handler' \in Handlers
    BY <1>1, <2>1, <2>2 DEF Handlers
  <2>5. Taken' = Taken + 1
    <3>1. Taken' = Words + (L + 1)
      BY <2>1, <2>3, <2>4 DEF Taken, Words, Waiting
    <3>. QED  BY <1>1, <1>4, <3>1, Numbers
  <2>6. UpInv'
    BY <1>1, <1>2, <1>7, <2>1, <2>3, <2>4, <2>5, TakeKeepsUp
  <2>. QED  BY <1>1, <2>1, <2>3, <2>4, <2>6, ServedKeeps
<1>8. CASE handler.buf = <<>>
  <2>1. /\ client.wire # <<>> /\ handler' = handler
        /\ remote' = [remote EXCEPT !.served = Append(@, Head(client.wire))]
        /\ client' = [client EXCEPT !.wire = Tail(@)]
    BY <1>8 DEF CopyUp
  <2>2. /\ Head(client.wire) = Pieces[Taken + 1] /\ Taken + 1 \in 1..(Words + MaxUp)
        /\ Tail(client.wire) \in Seq(Int)
    BY <1>1, <1>2, <1>8, <2>1, WireIsNext
  <2>3. /\ Len(remote'.served) = L + 1 /\ remote'.served = Count(Len(remote'.served))
        /\ remote'.conn = "open" /\ remote'.end = remote.end
        /\ remote'.sent = remote.sent /\ remote'.wire = remote.wire /\ remote' \in Remotes
    BY <1>6, <2>1, <2>2
  <2>4. /\ client'.kind = client.kind /\ client'.target = client.target
        /\ client'.sent = client.sent /\ client'.wire = Tail(client.wire)
        /\ client'.end = client.end /\ client'.got = client.got /\ client' \in Clients
    BY <1>1, <2>1, <2>2 DEF Clients
  <2>5. Taken' = Taken + 1
    <3>1. Taken' = Words + (L + 1)
      BY <1>1, <2>1, <2>3, <2>4 DEF Taken, Words, Waiting
    <3>. QED  BY <1>1, <1>4, <3>1, Numbers
  <2>6. UpInv'
    BY <1>1, <1>2, <1>8, <2>1, <2>3, <2>4, <2>5, PassKeepsUp
  <2>. QED  BY <1>1, <2>1, <2>3, <2>4, <2>6, ServedKeeps
<1>. QED  BY <1>7, <1>8

LEMMA CopyDownKeeps == ASSUME IInv, CopyDown PROVE IInv'
<1>1. /\ handler.pc = "pipe" /\ handler' = handler /\ remote.wire # <<>>
      /\ client' = [client EXCEPT !.got = Append(@, Head(remote.wire))]
      /\ remote' = [remote EXCEPT !.wire = Tail(@)]
      /\ TypeOK /\ client \in Clients /\ handler \in Handlers /\ remote \in Remotes
  BY DEF CopyDown, Piping, IInv, TypeOK
<1>2. PICK g \in {<<>>, <<Greeting>>}, v \in {<<>>, <<Success>>, <<Failure>>},
           n \in 0..remote.sent : Given(g, v, n)
  BY DEF IInv, DownInv
<1>3. /\ remote.wire \in Seq(Int) /\ client.got \in Seq(Int) /\ remote.sent \in Nat /\ n \in Nat
  BY <1>1, ClientFields, RemoteFields
<1>4. /\ \A i \in 1..Len(remote.wire) : remote.wire[i] = n + i
      /\ client.got = (g \o v) \o Count(n) /\ v = <<Success>>
  BY <1>1, <1>2 DEF Given
<1>5. /\ Head(remote.wire) = n + 1 /\ Tail(remote.wire) \in Seq(Int)
      /\ Len(remote.wire) = Len(Tail(remote.wire)) + 1 /\ Len(Tail(remote.wire)) \in Nat
      /\ \A i \in 1..Len(Tail(remote.wire)) :
           Tail(remote.wire)[i] = remote.wire[i + 1] /\ i + 1 \in 1..Len(remote.wire)
  BY <1>1, <1>3, <1>4, TailIs
<1>6. Append(client.got, Head(remote.wire)) = (g \o v) \o Count(n + 1)
  <2>1. g \in Seq(Int) /\ v \in Seq(Int)
    <3>1. Greeting \in Int /\ Success \in Int
      BY DEF Greeting, Success
    <3>2. <<Greeting>> \in Seq(Int) /\ <<Success>> \in Seq(Int)
      BY <3>1
    <3>3. CASE g = <<>>
      BY <1>4, <3>2, <3>3, NothingIsASequence
    <3>4. CASE g = <<Greeting>>
      BY <1>4, <3>2, <3>4
    <3>. QED  BY <3>3, <3>4
  <2>2. g \o v \in Seq(Int)
    BY <2>1
  <2>. QED  BY <1>3, <1>4, <1>5, <2>2, GivenOneMore
<1>7. /\ client'.kind = client.kind /\ client'.target = client.target
      /\ client'.sent = client.sent /\ client'.wire = client.wire /\ client'.end = client.end
      /\ client'.got = (g \o v) \o Count(n + 1) /\ client' \in Clients
  <2>1. Append(client.got, Head(remote.wire)) \in Seq(Int)
    BY <1>3, <1>5
  <2>. QED  BY <1>1, <1>6, <2>1 DEF Clients
<1>8. /\ remote'.conn = remote.conn /\ remote'.served = remote.served
      /\ remote'.sent = remote.sent /\ remote'.wire = Tail(remote.wire)
      /\ remote'.end = remote.end /\ remote' \in Remotes
  BY <1>1, <1>5 DEF Remotes
<1>9. TypeOK'
  BY <1>1, <1>7, <1>8 DEF TypeOK
<1>10. StageInv'
  <2>1. remote.conn # "none"
    BY <1>1 DEF IInv, StageInv
  <2>. QED  BY <1>1, <1>7, <1>8, <2>1 DEF IInv, StageInv, Waiting
<1>11. UpInv'
  <2>1. Taken' = Taken /\ (Feeding' <=> Feeding)
    BY <1>1, <1>7, <1>8 DEF Taken, Feeding, Words
  <2>. QED  BY <1>1, <1>7, <1>8, <2>1, SameUp DEF IInv
<1>12. HalfInv'
  BY <1>7, <1>8, SameHalf DEF IInv
<1>13. DownInv'
  <2>1. PICK c \in Nat : c = Len(Tail(remote.wire))
    BY <1>5
  <2>2. n + (c + 1) <= remote.sent
    BY <1>2, <1>5, <2>1 DEF Given
  <2>3. (remote.conn \in {"open", "half"} /\ remote.end # "reset") => n + (c + 1) = remote.sent
    BY <1>2, <1>5, <2>1 DEF Given
  <2>4. n + 1 \in 0..remote'.sent /\ (n + 1) + c = n + (c + 1)
    BY <1>3, <1>8, <2>2
  <2>5. \A i \in 1..c : Tail(remote.wire)[i] = (n + 1) + i
    <3>. SUFFICES ASSUME NEW i \in 1..c PROVE Tail(remote.wire)[i] = (n + 1) + i
      OBVIOUS
    <3>1. Tail(remote.wire)[i] = n + (i + 1)
      BY <1>4, <1>5, <2>1
    <3>2. n + (i + 1) = (n + 1) + i
      BY <1>3
    <3>. QED  BY <3>1, <3>2
  <2>6. Given(g, v, n + 1)'
    BY <1>1, <1>4, <1>7, <1>8, <2>1, <2>2, <2>3, <2>4, <2>5 DEF Given, Waiting, Dialling
  <2>. QED  BY <2>4, <2>6 DEF DownInv
<1>. QED  BY <1>9, <1>10, <1>11, <1>12, <1>13 DEF IInv

LEMMA ServerSendKeeps == ASSUME IInv, ServerSend PROVE IInv'
<1>1. /\ client' = client /\ handler' = handler
      /\ remote.conn \in {"open", "half"} /\ remote.end = "open"
      /\ remote' = [remote EXCEPT !.sent = @ + 1, !.wire = Append(@, remote.sent + 1)]
      /\ TypeOK /\ client \in Clients /\ handler \in Handlers /\ remote \in Remotes
  BY DEF ServerSend, Serving, IInv, TypeOK
<1>2. PICK g \in {<<>>, <<Greeting>>}, v \in {<<>>, <<Success>>, <<Failure>>},
           n \in 0..remote.sent : Given(g, v, n)
  BY DEF IInv, DownInv
<1>3. /\ remote.wire \in Seq(Int) /\ remote.sent \in Nat /\ n \in Nat
      /\ remote.sent + 1 \in Nat
  BY <1>1, RemoteFields
<1>4. PICK c \in Nat : c = Len(remote.wire)
  BY <1>3
<1>5. /\ \A i \in 1..c : remote.wire[i] = n + i
      /\ n + c = remote.sent
  BY <1>1, <1>2, <1>4 DEF Given
<1>. DEFINE w == Append(remote.wire, remote.sent + 1)
<1>6. /\ w \in Seq(Int) /\ Len(w) = c + 1 /\ w[c + 1] = remote.sent + 1
      /\ \A i \in 1..c : w[i] = remote.wire[i]
  BY <1>3, <1>4, Longer
<1>7. remote' = [remote EXCEPT !.sent = @ + 1, !.wire = w]
  BY <1>1
<1>. HIDE DEF w
<1>8. /\ remote'.conn = remote.conn /\ remote'.served = remote.served
      /\ remote'.sent = remote.sent + 1 /\ remote'.wire = w
      /\ remote'.end = remote.end /\ remote' \in Remotes
  BY <1>1, <1>3, <1>6, <1>7 DEF Remotes
<1>9. TypeOK' /\ StageInv'
  BY <1>1, <1>8 DEF IInv, TypeOK, StageInv
<1>10. UpInv'
  <2>1. Taken' = Taken /\ (Feeding' <=> Feeding)
    BY <1>1, <1>8 DEF Taken, Feeding, Words
  <2>. QED  BY <1>1, <1>8, <2>1, SameUp DEF IInv
<1>11. HalfInv'
  BY <1>1, <1>8, SameHalf DEF IInv
<1>12. DownInv'
  <2>1. n \in 0..remote'.sent /\ n + Len(remote'.wire) = remote'.sent
    <3>1. n \in 0..(remote.sent + 1) /\ n + (c + 1) = remote.sent + 1
      BY <1>3, <1>5
    <3>. QED  BY <1>6, <1>8, <3>1
  <2>2. \A i \in 1..Len(remote'.wire) : remote'.wire[i] = n + i
    <3>. SUFFICES ASSUME NEW i \in 1..(c + 1) PROVE w[i] = n + i
      BY <1>6, <1>8
    <3>1. CASE i = c + 1
      BY <1>3, <1>5, <1>6, <3>1
    <3>2. CASE i # c + 1
      <4>1. i \in 1..c
        BY <3>2
      <4>. QED  BY <1>5, <1>6, <4>1
    <3>. QED  BY <3>1, <3>2
  <2>3. n + Len(remote'.wire) <= remote'.sent
    BY <1>3, <1>8, <2>1
  <2>4. Given(g, v, n)'
    BY <1>1, <1>2, <2>1, <2>2, <2>3 DEF Given
  <2>. QED  BY <2>1, <2>4 DEF DownInv
<1>. QED  BY <1>9, <1>10, <1>11, <1>12 DEF IInv

-------------------------------------------------------------------------------
(* ------------------------------ theorems ------------------------------ *)

LEMMA StepKeeps == IInv /\ [Next]_vars => IInv'
<1>. SUFFICES ASSUME IInv, [Next]_vars PROVE IInv'
  OBVIOUS
<1>1. CASE Ready \/ Expire \/ UNCHANGED vars
  BY <1>1, StutterKeeps DEF Ready, Expire, vars
<1>2. CASE Stop \/ Deadline \/ ServerSend \/ ServerEnd \/ ServerReset
  BY <1>2, StopKeeps, DeadlineKeeps, ServerSendKeeps, ServerEndKeeps, ServerResetKeeps
<1>3. CASE Program
  BY <1>3, ClientSendKeeps, ClientShutKeeps, ClientGoKeeps, ConnectKeeps DEF Program
<1>4. CASE ReadRequest \/ ReadConnect
  BY <1>4, DecideKeeps DEF ReadRequest, ReadConnect
<1>5. CASE Handle
  BY <1>4, <1>5, AcceptKeeps, FillKeeps, ReadFailsKeeps, PeekKeeps, GreetKeeps, LookupKeeps,
     DialKeeps, ReplyKeeps, ReturnKeeps DEF Handle
<1>6. CASE Up \/ Down
  BY <1>6, CopyUpKeeps, UpEndsKeeps, CopyDownKeeps, DownEndsKeeps DEF Up, Down
<1>. QED  BY <1>1, <1>2, <1>3, <1>5, <1>6 DEF Next

LEMMA InvHolds == Spec => []IInv
  BY InitHolds, StepKeeps, PTL DEF Spec

(* Whatever the program sends, wherever the reader stops reading the request   *)
(* and whichever side goes first, neither end is given anything but what the   *)
(* other sent, in order and from its beginning; the program hears the verdict  *)
(* before any of it; and a server that is told of the end has got everything  *)
(* (socks.go: handle, handleSOCKS5, handleHTTP, pipe).                       *)
THEOREM StreamsAreFaithful == Spec => []Faithful
<1>1. ASSUME IInv PROVE Faithful
  <2>1. remote.served = Count(Len(remote.served))
    BY <1>1 DEF IInv, UpInv
  <2>2. \E g \in {<<>>, <<Greeting>>}, v \in {<<>>, <<Success>>, <<Failure>>},
           n \in 0..remote.sent :
          client.got = (g \o v) \o Count(n) /\ (n > 0 => v = <<Success>>)
    BY <1>1 DEF IInv, DownInv, Given
  <2>3. (remote.conn = "half" /\ remote.end # "reset" /\ client.end # "gone") =>
           Len(remote.served) = DataSent
    BY <1>1 DEF IInv, HalfInv
  <2>. QED  BY <2>1, <2>2, <2>3 DEF Faithful
<1>. QED  BY <1>1, InvHolds, PTL

=============================================================================
