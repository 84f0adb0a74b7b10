-------------------------------- MODULE AddrMap -------------------------------
(***************************************************************************)
(* Prefix, and the translation of addresses a site does at its edge.     *)
(*                                                                         *)
(* An address is a number of AddrBits bits and two words of half as many   *)
(* (32 and 16 in the code, for IPv4, the one family that is modelled).  A   *)
(* packet is its addresses, what its                                       *)
(* transport header's checksum covers besides (one word), and that         *)
(* checksum.  The IPv4 header's checksum is computed anew by every rewrite *)
(* and not modelled.                                                       *)
(*                                                                         *)
(* A definition that nothing uses is a plausible mistake in the one that   *)
(* follows it; it shows that the properties notice it.                     *)
(***************************************************************************)
EXTENDS Integers, Sequences

CONSTANTS
  AddrBits,    (* the width of an address: even                              *)
  None         (* no virtual prefix; no packet                               *)

ASSUME WidthAssumption == AddrBits \in Nat \ {0} /\ AddrBits % 2 = 0

(* 1 << n, written out, for the provers know nothing of the operator ^.       *)
Pow2[n \in Nat] == IF n = 0 THEN 1 ELSE 2 * Pow2[n - 1]

Addr == 0..(Pow2[AddrBits] - 1)
Word == 0..(Pow2[AddrBits \div 2] - 1)

-------------------------------------------------------------------------------
(* ------------------------------- prefixes ----------------------------- *)

Prefix == [base : Addr, bits : 0..AddrBits]

ASSUME NoneAssumption == None \notin Prefix

Size(bits) == Pow2[AddrBits - bits]

Covers(p, a) == a \div Size(p.bits) = p.base \div Size(p.bits)

Overlaps(p, q) ==
  LET size == IF p.bits < q.bits THEN Size(p.bits) ELSE Size(q.bits)
  IN  p.base \div size = q.base \div size

OverlapsAny(p, S) == \E q \in S : Overlaps(p, q)

Masked(p) == [p EXCEPT !.base = @ - (@ % Size(p.bits))]

(* A route without a virtual prefix is presented as it is.                   *)
Effective(route) == IF route.virtual = None THEN route.real ELSE route.virtual

(* AgentRoute.                                                              *)
Routes == [real : Prefix, virtual : Prefix \cup {None}]

(* ParseRouteMap refuses a pair of different lengths: its translation would need *)
(* state.                                                                  *)
Translatable(route) == Effective(route).bits = route.real.bits

RouteMap(route) == [real |-> Masked(route.real), virtual |-> Masked(Effective(route))]

(* remapAddr: the host bits stay.                                           *)
Remap(a, from, to) == Masked(to).base + (a % Size(from.bits))

-------------------------------------------------------------------------------
(* ------------------------------- checksums ---------------------------- *)

Ones == Pow2[AddrBits \div 2] - 1
Flip(w) == Ones - w

(* The carries are added in again until there are none.                      *)
Folded[n \in Nat] == IF n <= Ones THEN n ELSE Folded[(n \div (Ones + 1)) + (n % (Ones + 1))]

High(a) == a \div (Ones + 1)
Low(a) == a % (Ones + 1)

ChecksumDeltaAdds(cur, old, new) ==
  Flip(Folded[Flip(cur) + High(old) + High(new) + Low(old) + Low(new)])

(* RFC 1624: old words out, new words in.                                   *)
ChecksumDelta(cur, old, new) ==
  Flip(Folded[Flip(cur) + Flip(High(old)) + High(new) + Flip(Low(old)) + Low(new)])

(* What a receiver adds up: the pseudo header, the rest, the checksum.       *)
Sum(pkt) ==
  High(pkt.src) + Low(pkt.src) + High(pkt.dst) + Low(pkt.dst) + pkt.data + pkt.sum

(* A packet carries a checksum that covers its addresses, a field for one     *)
(* that the sender left empty (UDP), or no such field (a later fragment, a   *)
(* protocol whose checksum does not cover them); or it cannot be parsed.    *)
Kinds == {"summed", "unsummed", "bare", "malformed"}

(* parseIPHeader, l4ChecksumOffset: there is a field, empty or not.           *)
HasField(pkt) == pkt.kind \in {"summed", "unsummed"}

Intact(pkt) == pkt.kind = "summed" => Folded[Sum(pkt)] = Ones

-------------------------------------------------------------------------------
(* ------------------------------ translator ---------------------------- *)

(* rewriteAddr.                                                             *)
RewriteAddr(pkt, field, new) ==
  [pkt EXCEPT ![field] = new,
              !.sum = IF HasField(pkt) THEN ChecksumDelta(@, pkt[field], new) ELSE @]

(* rewrite: the first map in the order of the configuration; own addresses    *)
(* pass; whatever else is foreign, or cannot be parsed, is dropped.         *)
Rewrite(maps, own, pkt, field, from, to) ==
  LET Matches == {i \in DOMAIN maps : Covers(maps[i][from], pkt[field])}
      First   == CHOOSE i \in Matches : \A j \in Matches : i <= j
      new     == Remap(pkt[field], maps[First][from], maps[First][to])
  IN  IF pkt.kind = "malformed" \/ maps = <<>> THEN None
      ELSE IF Matches = {} THEN (IF pkt[field] = own THEN pkt ELSE None)
      ELSE IF new = pkt[field] THEN pkt
      ELSE RewriteAddr(pkt, field, new)

ToLocal(maps, own, pkt) == Rewrite(maps, own, pkt, "dst", "virtual", "real")

ToTunnel(maps, own, pkt) == Rewrite(maps, own, pkt, "src", "real", "virtual")

=============================================================================
