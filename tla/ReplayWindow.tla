----------------------------- MODULE ReplayWindow -----------------------------
(***************************************************************************)
(* One direction of one Noise transport session: the sender numbers its    *)
(* frames (sealDataFrame), the network loses, duplicates, reorders and     *)
(* damages datagrams, and the receiver accepts a frame only through its    *)
(* sliding window (recvWindow, trySession in handleData).  The code's      *)
(* window is 64 frames wide; the width is the constant W.                  *)
(*                                                                         *)
(* Both ends run under their engine's mutex, so sealing a frame and        *)
(* opening one are each a single step.                                     *)
(*                                                                         *)
(* WindowSpec and its parts have names of their own: a module can extend   *)
(* this one and TunnelSession together.                                    *)
(***************************************************************************)
EXTENDS Integers, FiniteSets

CONSTANTS
  W,          (* width of the window in frames (64 in the code)            *)
  MaxNonce    (* a session seals frames 0 .. MaxNonce - 1: the cipher state *)
              (* refuses to encrypt beyond its last nonce                  *)

ASSUME WidthAssumption == W \in Nat \ {0}
ASSUME NonceAssumption == MaxNonce \in Nat

VARIABLES
  sendNonce,  (* session.sendNonce: the next nonce to seal with            *)
  wire,       (* every frame ever sent: the network may deliver any of     *)
              (* these again, late, or never                               *)
  window,     (* recvWindow of the receiving session                       *)
  recvCount,  (* session.recvCount: accepted frames                        *)
  opened      (* history: the nonces that were accepted                    *)

windowVars == <<sendNonce, wire, window, recvCount, opened>>

Nonces == 0 .. MaxNonce - 1

(* The window's bitmap is the set of ages whose bit is 1: bit i stands for *)
(* nonce highest - i.  A shift drops the ages that leave the W bits.       *)
Ages == 0 .. W - 1

Fresh == [init |-> FALSE, highest |-> 0, bitmap |-> {}]

(* Plausible mistakes in the code below, used to test the properties.      *)
AcceptableNoAge(w, n) ==
  \/ ~w.init
  \/ n > w.highest
  \/ (w.highest - n) \notin w.bitmap

AcceptableNarrow(w, n) ==
  \/ ~w.init
  \/ n > w.highest
  \/ (w.highest - n) \in Ages \ {W - 1} /\ (w.highest - n) \notin w.bitmap

CommitShiftShort(w, n) ==
  IF ~w.init THEN [init |-> TRUE, highest |-> n, bitmap |-> {0}]
  ELSE IF n > w.highest
       THEN [init |-> TRUE, highest |-> n,
             bitmap |-> {0} \cup {a \in Ages : (a - (n - w.highest) + 1) \in w.bitmap}]
       ELSE [w EXCEPT !.bitmap = @ \cup {w.highest - n}]

CommitKeepsOldBits(w, n) ==
  IF ~w.init THEN [init |-> TRUE, highest |-> n, bitmap |-> {0}]
  ELSE IF n > w.highest
       THEN [init |-> TRUE, highest |-> n,
             bitmap |-> {0} \cup {a + (n - w.highest) : a \in w.bitmap}]
       ELSE [w EXCEPT !.bitmap = @ \cup {w.highest - n}]

(* recvWindow.acceptable                                                   *)
Acceptable(w, n) ==
  \/ ~w.init
  \/ n > w.highest
  \/ (w.highest - n) \in Ages /\ (w.highest - n) \notin w.bitmap

(* recvWindow.commit                                                       *)
Commit(w, n) ==
  IF ~w.init THEN [init |-> TRUE, highest |-> n, bitmap |-> {0}]
  ELSE IF n > w.highest
       THEN [init |-> TRUE, highest |-> n,
             bitmap |-> {0} \cup {a \in Ages : (a - (n - w.highest)) \in w.bitmap}]
       ELSE [w EXCEPT !.bitmap = @ \cup {w.highest - n}]

-------------------------------------------------------------------------------
WindowInit ==
  /\ sendNonce = 0
  /\ wire = {}
  /\ window = Fresh
  /\ recvCount = 0
  /\ opened = {}

(* Every send path seals with p.cur.sendNonce and then increments it.      *)
Send ==
  /\ sendNonce < MaxNonce
  /\ wire' = wire \cup {sendNonce}
  /\ sendNonce' = sendNonce + 1
  /\ UNCHANGED <<window, recvCount, opened>>

(* trySession on a frame as it was sent: the window is asked, decryption    *)
(* succeeds, the nonce is committed and the frame counted and handed up.   *)
Receive(n) ==
  /\ n \in wire
  /\ Acceptable(window, n)
  /\ window' = Commit(window, n)
  /\ recvCount' = recvCount + 1
  /\ opened' = opened \cup {n}
  /\ UNCHANGED <<sendNonce, wire>>

(* trySession on a damaged datagram: whatever nonce its header now shows,  *)
(* decryption fails and the session is left as it was.                     *)
ReceiveDamaged(n) ==
  /\ Acceptable(window, n)
  /\ UNCHANGED windowVars

WindowNext ==
  \/ Send
  \/ \E n \in Nonces : Receive(n)
  \/ \E n \in Nonces : ReceiveDamaged(n)

WindowSpec == WindowInit /\ [][WindowNext]_windowVars

-------------------------------------------------------------------------------
(* The window is a bitmap of W bits over the nonces of the session.        *)
WindowTypeOK ==
  /\ sendNonce \in 0 .. MaxNonce
  /\ wire \subseteq Nonces
  /\ window \in [init : BOOLEAN, highest : Nat, bitmap : SUBSET Ages]
  /\ recvCount \in Nat
  /\ opened \subseteq Nonces

(* The window remembers exactly the accepted frames it covers: a bit is    *)
(* set if and only if that nonce was accepted, whatever sequence of shifts *)
(* led here (recvWindow.commit).                                           *)
WindowExact ==
  window.init =>
    \A a \in Ages : a \in window.bitmap <=> (window.highest - a) \in opened

(* The top of the window is the greatest accepted nonce.                   *)
HighestIsMax ==
  /\ window.init <=> opened # {}
  /\ window.init => /\ window.highest \in opened
                    /\ \A n \in opened : n <= window.highest

(* Losses and reordering cost only the lost frames (PROTOCOL.md:43, :71):   *)
(* a frame on the wire that was not accepted yet and is less than W behind  *)
(* the newest accepted one can still be accepted, a repeated or older one   *)
(* cannot.  A damaged datagram never moves the window past the sender, so   *)
(* it cannot make the receiver refuse frames that are yet to come.          *)
OnlyOldOrRepeatedRefused ==
  \A n \in Nonces :
    Acceptable(window, n)
      <=> n \notin opened /\ \A m \in opened : m - n < W

(* One direction of a session is an at-most-once channel.                   *)
Channel == INSTANCE AtMostOnce
             WITH sealed <- sendNonce, handed <- opened, upcalls <- recvCount
ChannelSpec == Channel!Spec
===============================================================================
