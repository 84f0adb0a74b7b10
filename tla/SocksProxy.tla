------------------------------ MODULE SocksProxy -------------------------------
(***************************************************************************)
(* The local proxy (sr socks): one connection of a program to it, from the *)
(* request over the dialling to the two copiers, and the next one after    *)
(* it.                                                                     *)
(*                                                                         *)
(* A stream is a sequence of pieces: the greeting, the request, numbers    *)
(* for the data.  The program sends whatever it likes whenever it likes,   *)
(* data right behind the request too, and shuts its sending side or goes   *)
(* away at any time; so does the server at the far end.                    *)
(*                                                                         *)
(* A definition that no action uses is a plausible mistake in the one that *)
(* follows it; it shows that the properties notice it.                     *)
(***************************************************************************)
EXTENDS Integers, Sequences

CONSTANTS
  MaxUp,       (* bound: pieces of data the program sends                    *)
  MaxDown      (* bound: pieces of data the server sends                     *)

ASSUME BoundAssumption == MaxUp \in Nat /\ MaxDown \in Nat

VARIABLES
  phase,       (* of the program: "waiting" for the tunnel, "serving", "stopped" *)
  dns,         (* "none" configured; the name asked for is "cached" or not      *)
  client,      (* the program: what it sends, [.. wire: on the way to the proxy]*)
  handler,     (* the goroutines of the connection                             *)
  remote       (* the connection to the server, and the server                  *)

vars == <<phase, dns, client, handler, remote>>

Count(n) == [i \in 1..n |-> i]

(* Pieces of data are 1, 2, ..; the words around it are negative.          *)
Hello == -1
IP == -2
Name == -3
Bad == -4
Greeting == -5
Success == -6
Failure == -7

(* What the program sends: a SOCKS client greets first, an HTTP one does not.  *)
Pieces ==
  (IF client.kind = "socks" THEN <<Hello>> ELSE <<>>) \o <<client.target>> \o Count(MaxUp)

NoClient == [kind |-> "socks", target |-> IP, sent |-> 0, wire |-> <<>>, end |-> "open",
             got |-> <<>>]
NoHandler == [pc |-> "none", deadline |-> "off", buf |-> <<>>, up |-> "off", down |-> "off"]
NoRemote == [conn |-> "none", served |-> <<>>, sent |-> 0, wire |-> <<>>, end |-> "open"]

Init ==
  /\ phase = "waiting" /\ dns \in {"none", "empty"}
  /\ client = NoClient /\ handler = NoHandler /\ remote = NoRemote

-------------------------------------------------------------------------------
(* ------------------------------- program ------------------------------ *)

(* cmdSocks: the listener is open from the start, but accepts only when the    *)
(* tunnel is ready.                                                        *)
Ready ==
  /\ phase = "waiting"
  /\ phase' = "serving"
  /\ UNCHANGED <<dns, client, handler, remote>>

(* A signal, the engine's end or five minutes of waiting: cmdSocks returns and *)
(* everything the process holds is closed.                                  *)
Stop ==
  /\ phase # "stopped"
  /\ phase' = "stopped"
  /\ handler' = [handler EXCEPT !.pc = "closed", !.deadline = "off", !.buf = <<>>,
                                !.up = "off", !.down = "off"]
  /\ remote' = [remote EXCEPT !.conn = IF @ = "none" THEN @ ELSE "closed", !.wire = <<>>]
  /\ UNCHANGED <<dns, client>>

(* A program connects; one connection at a time.                            *)
Connect ==
  /\ phase # "stopped" /\ handler.pc \in {"none", "closed"}
  /\ \E kind \in {"socks", "http"}, target \in {IP, Name, Bad} :
       client' = [NoClient EXCEPT !.kind = kind, !.target = target]
  /\ handler' = [NoHandler EXCEPT !.pc = "queued"]
  /\ remote' = NoRemote
  /\ UNCHANGED <<phase, dns>>

Connected == handler.pc \notin {"none", "closed"}

ClientSend ==
  /\ Connected /\ client.end = "open" /\ client.sent < Len(Pieces)
  /\ client' = [client EXCEPT !.sent = @ + 1, !.wire = Append(@, Pieces[client.sent + 1])]
  /\ UNCHANGED <<phase, dns, handler, remote>>

ClientShut ==
  /\ Connected /\ client.end = "open"
  /\ client' = [client EXCEPT !.end = "shut"]
  /\ UNCHANGED <<phase, dns, handler, remote>>

(* It closes, or resets the connection: what is under way is lost.            *)
ClientGo ==
  /\ Connected /\ client.end # "gone"
  /\ \E wire \in {client.wire, <<>>} : client' = [client EXCEPT !.end = "gone", !.wire = wire]
  /\ UNCHANGED <<phase, dns, handler, remote>>

-------------------------------------------------------------------------------
(* ------------------------------- request ------------------------------ *)

(* handle's and the protocol handlers' deferred closes.                      *)
Closed(h) == [h EXCEPT !.pc = "closed", !.deadline = "off", !.buf = <<>>]

CloseRemote(r) == [r EXCEPT !.conn = IF @ = "none" THEN @ ELSE "closed", !.wire = <<>>]

(* A write to the program succeeds.                                         *)
Writable == handler.deadline # "past" /\ client.end # "gone"

Told(piece) == [client EXCEPT !.got = IF Writable THEN Append(@, piece) ELSE @]

(* serve, handle.                                                           *)
Accept ==
  /\ phase = "serving" /\ handler.pc = "queued"
  /\ handler' = [handler EXCEPT !.pc = "peek", !.deadline = "set"]
  /\ UNCHANGED <<phase, dns, client, remote>>

Deadline ==
  /\ handler.deadline = "set"
  /\ handler' = [handler EXCEPT !.deadline = "past"]
  /\ UNCHANGED <<phase, dns, client, remote>>

Reading == handler.pc \in {"peek", "hello", "request", "connect"}

(* The buffered reader takes what is there, more than it was asked for.       *)
Fill ==
  /\ Reading /\ handler.buf = <<>> /\ client.wire # <<>> /\ handler.deadline # "past"
  /\ \E k \in 1..Len(client.wire) :
       /\ handler' = [handler EXCEPT !.buf = SubSeq(client.wire, 1, k)]
       /\ client' = [client EXCEPT !.wire = SubSeq(@, k + 1, Len(@))]
  /\ UNCHANGED <<phase, dns, remote>>

ReadFails ==
  /\ Reading /\ handler.buf = <<>>
  /\ handler.deadline = "past" \/ (client.wire = <<>> /\ client.end # "open")
  /\ handler' = Closed(handler)
  /\ UNCHANGED <<phase, dns, client, remote>>

Peek ==
  /\ handler.pc = "peek" /\ handler.buf # <<>>
  /\ handler' = [handler EXCEPT !.pc = IF Head(handler.buf) = Hello THEN "hello" ELSE "connect"]
  /\ UNCHANGED <<phase, dns, client, remote>>

(* handleSOCKS5, the greeting.                                              *)
Greet ==
  /\ handler.pc = "hello" /\ handler.buf # <<>>
  /\ client' = Told(Greeting)
  /\ handler' = IF Writable THEN [handler EXCEPT !.pc = "request", !.buf = Tail(@)]
                ELSE Closed(handler)
  /\ UNCHANGED <<phase, dns, remote>>

(* What cannot be served is answered or, if it cannot even be read, is not.   *)
Decide ==
  /\ LET rest == [handler EXCEPT !.buf = Tail(@)]
     IN CASE Head(handler.buf) = IP   -> handler' = [rest EXCEPT !.pc = "dial"] /\ UNCHANGED client
          [] Head(handler.buf) = Name -> handler' = [rest EXCEPT !.pc = "lookup"] /\ UNCHANGED client
          [] OTHER -> handler' = Closed(handler) /\ client' \in {client, Told(Failure)}
  /\ UNCHANGED <<phase, dns, remote>>

(* handleSOCKS5, the request.                                               *)
ReadRequest == handler.pc = "request" /\ handler.buf # <<>> /\ Decide

(* handleHTTP: only CONNECT.                                                *)
ReadConnect == handler.pc = "connect" /\ handler.buf # <<>> /\ Decide

Fail ==
  /\ client' = Told(Failure)
  /\ handler' = Closed(handler)

(* lookup, query: at most five seconds.                                       *)
Lookup ==
  /\ handler.pc = "lookup"
  /\ \/ /\ dns \in {"none", "empty"}
        /\ Fail /\ UNCHANGED dns
     \/ /\ dns \in {"empty", "cached"}
        /\ dns' = "cached"
        /\ handler' = [handler EXCEPT !.pc = "dial"] /\ UNCHANGED client
  /\ UNCHANGED <<phase, remote>>

Expire ==
  /\ dns = "cached"
  /\ dns' = "empty"
  /\ UNCHANGED <<phase, client, handler, remote>>

(* dialTarget: at most twenty seconds.                                        *)
Dial ==
  /\ handler.pc = "dial"
  /\ \/ /\ remote' = [remote EXCEPT !.conn = "open"]
        /\ handler' = [handler EXCEPT !.pc = "reply"] /\ UNCHANGED client
     \/ Fail /\ UNCHANGED remote
  /\ UNCHANGED <<phase, dns>>

StartUnbuffered(h) ==
  [h EXCEPT !.pc = "pipe", !.deadline = "off", !.buf = <<>>, !.up = "copying", !.down = "copying"]

(* The deadline is taken back; what the reader holds is kept for the copier.  *)
Start(h) ==
  [h EXCEPT !.pc = "pipe", !.deadline = "off", !.up = "copying", !.down = "copying"]

Reply ==
  /\ handler.pc = "reply"
  /\ client' = Told(Success)
  /\ handler' = IF Writable THEN Start(handler) ELSE Closed(handler)
  /\ remote' = IF Writable THEN remote ELSE CloseRemote(remote)
  /\ UNCHANGED <<phase, dns>>

-------------------------------------------------------------------------------
(* ------------------------------- copiers ------------------------------ *)

Piping == handler.pc = "pipe"

Takes == remote.conn = "open" /\ remote.end # "reset"

(* io.Copy(remote, localBuf): what is buffered first.                        *)
CopyUp ==
  /\ Piping /\ handler.up = "copying" /\ Takes
  /\ \/ /\ handler.buf # <<>>
        /\ remote' = [remote EXCEPT !.served = Append(@, Head(handler.buf))]
        /\ handler' = [handler EXCEPT !.buf = Tail(@)] /\ UNCHANGED client
     \/ /\ handler.buf = <<>> /\ client.wire # <<>>
        /\ remote' = [remote EXCEPT !.served = Append(@, Head(client.wire))]
        /\ client' = [client EXCEPT !.wire = Tail(@)] /\ UNCHANGED handler
  /\ UNCHANGED <<phase, dns>>

NoHalfClose(conn) == conn

(* CloseWrite: the tunnel's connections can be closed by half.                *)
HalfClose(conn) == IF conn = "open" THEN "half" ELSE conn

(* The program has ended its side, or what it sent cannot be written.         *)
UpEnds ==
  /\ Piping /\ handler.up = "copying"
  /\ LET empty == handler.buf = <<>> /\ client.wire = <<>>
     IN (empty /\ client.end # "open") \/ (~empty /\ ~Takes)
  /\ handler' = [handler EXCEPT !.up = "done", !.buf = <<>>]
  /\ remote' = [remote EXCEPT !.conn = HalfClose(@)]
  /\ UNCHANGED <<phase, dns, client>>

(* io.Copy(local, remote).                                                  *)
CopyDown ==
  /\ Piping /\ handler.down = "copying" /\ remote.wire # <<>> /\ client.end # "gone"
  /\ client' = [client EXCEPT !.got = Append(@, Head(remote.wire))]
  /\ remote' = [remote EXCEPT !.wire = Tail(@)]
  /\ UNCHANGED <<phase, dns, handler>>

DownEnds ==
  /\ Piping /\ handler.down = "copying"
  /\ \/ remote.wire = <<>> /\ remote.end # "open"
     \/ remote.wire # <<>> /\ client.end = "gone"
  /\ handler' = [handler EXCEPT !.down = "done"]
  /\ remote' = CloseRemote(remote)
  /\ UNCHANGED <<phase, dns, client>>

(* Both are done: pipe returns, and the deferred closes run.                 *)
Return ==
  /\ Piping /\ handler.up = "done" /\ handler.down = "done"
  /\ handler' = Closed(handler)
  /\ remote' = CloseRemote(remote)
  /\ UNCHANGED <<phase, dns, client>>

-------------------------------------------------------------------------------
(* -------------------------------- server ------------------------------ *)

Serving == remote.conn \in {"open", "half"} /\ remote.end = "open"

ServerSend ==
  /\ Serving /\ remote.sent < MaxDown
  /\ remote' = [remote EXCEPT !.sent = @ + 1, !.wire = Append(@, remote.sent + 1)]
  /\ UNCHANGED <<phase, dns, client, handler>>

ServerEnd ==
  /\ Serving
  /\ remote' = [remote EXCEPT !.end = "ended"]
  /\ UNCHANGED <<phase, dns, client, handler>>

ServerReset ==
  /\ remote.conn \in {"open", "half"} /\ remote.end # "reset"
  /\ remote' = [remote EXCEPT !.end = "reset", !.wire = <<>>]
  /\ UNCHANGED <<phase, dns, client, handler>>

-------------------------------------------------------------------------------
Program == ClientSend \/ ClientShut \/ ClientGo \/ Connect

Handle ==
  \/ Accept \/ Fill \/ ReadFails \/ Peek \/ Greet \/ ReadRequest \/ ReadConnect
  \/ Lookup \/ Dial \/ Reply \/ Return

Up == CopyUp \/ UpEnds
Down == CopyDown \/ DownEnds

Next ==
  \/ Ready \/ Stop \/ Program \/ Handle \/ Deadline \/ Expire \/ Up \/ Down
  \/ ServerSend \/ ServerEnd \/ ServerReset

(* Goroutines run, deadlines pass, the tunnel is ready or given up, and a      *)
(* server that has seen the end of its input ends.  Nothing is assumed of the *)
(* program.                                                                 *)
Fairness ==
  /\ WF_vars(Handle) /\ WF_vars(Up) /\ WF_vars(Down)
  /\ WF_vars(Deadline) /\ WF_vars(Ready \/ (phase = "waiting" /\ Stop))
  /\ WF_vars(remote.conn = "half" /\ ServerEnd)

Spec == Init /\ [][Next]_vars
FairSpec == Spec /\ Fairness

-------------------------------------------------------------------------------
(* ------------------------------ properties ---------------------------- *)

DataSent == client.sent - (IF client.kind = "socks" THEN 2 ELSE 1)

(* What the server is given is what the program sent behind its request, from *)
(* its first piece on; the program gets a greeting at most, one verdict, and   *)
(* only after a good one the server's pieces, in order from the first; and a   *)
(* server is told of the end of the input only when it has been given all of   *)
(* it, unless the program went away (socks.go: pipe).                        *)
Faithful ==
  /\ remote.served = Count(Len(remote.served))
  /\ \E greeting \in {<<>>, <<Greeting>>}, verdict \in {<<>>, <<Success>>, <<Failure>>},
        n \in 0..remote.sent :
       /\ client.got = (greeting \o verdict) \o Count(n)
       /\ n > 0 => verdict = <<Success>>
  /\ (remote.conn = "half" /\ remote.end # "reset" /\ client.end # "gone") =>
        Len(remote.served) = DataSent

(* A request does not go on for ever, whatever the program leaves unsent, and  *)
(* when the program has ended its side of an open connection, the connection   *)
(* ends (socks.go: handle's deadline, pipe).                               *)
Ends ==
  /\ Connected ~> Piping \/ handler.pc = "closed"
  /\ Connected /\ client.end # "open" ~> handler.pc = "closed"

=============================================================================
