--------------------------- MODULE Addressing_proofs ---------------------------
(***************************************************************************)
(* Proofs about Addressing and AddrMap for every width of an address, set  *)
(* of sites, pool and list of networks: the state is well formed, the      *)
(* sites' networks keep apart, and a packet translated at a site comes     *)
(* back from the address it was sent to with both checksums intact.        *)
(*                                                                         *)
(* First what the recursive functions compute (1 << n, the folded sum, the *)
(* list of routes taken one at a time), each by its least counterexample;  *)
(* then division, prefixes, remapAddr, checksumDelta and rewrite, whose    *)
(* lemmas say what one call does; then the invariant.  Its first part is   *)
(* about the tables: a request about to store its routes overlaps only     *)
(* sites it names as unseen, and so does a stored site.  Its second part   *)
(* follows the packet: where the addresses are unambiguous it is at its    *)
(* own site, at the host that has the same number behind the prefix, and   *)
(* back at the client with the address it was sent to.                     *)
(***************************************************************************)
EXTENDS Addressing, FiniteSetTheorems, WellFoundedInduction, TLAPS

-------------------------------------------------------------------------------
(* ------------------------------ iteration ----------------------------- *)

LEMMA LeastNat ==
  ASSUME NEW S, S \subseteq Nat, S # {}
  PROVE  \E x \in S : \A y \in S : x <= y
<1>. DEFINE less == {p \in Nat \X Nat : p[1] < p[2]}
<1>1. IsWellFoundedOn(less, Nat)
  BY NatLessThanWellFounded DEF OpToRel
<1>2. \E x \in S : \A y \in S : ~(<<y, x>> \in less)
  <2>. HIDE DEF less
  <2>. QED  BY <1>1, WFMin
<1>3. PICK x \in S : \A y \in S : ~(<<y, x>> \in less)
  BY <1>2
<1>4. ASSUME NEW y \in S PROVE x <= y
  <2>1. x \in Nat /\ y \in Nat /\ <<y, x>> \notin less
    BY <1>3
  <2>. QED  BY <2>1
<1>. QED  BY <1>4

(* A loop that goes through n items, taking a step for each, has a course.    *)
Bodies(n, S) == [1..n -> [S -> S]]
Courses(n, S, b, step) ==
  {f \in [0..n -> S] : f[0] = b /\ \A i \in 1..n : f[i] = step[i][f[i - 1]]}

LEMMA LoopExists ==
  ASSUME NEW n \in Nat, NEW S, NEW b \in S, NEW step \in Bodies(n, S)
  PROVE  Courses(n, S, b, step) # {}
<1>. DEFINE Course(m) == Courses(m, S, b, step)
            Bad == {m \in 0..n : Course(m) = {}}
<1>. USE DEF Bodies, Courses
<1>1. SUFFICES ASSUME Bad # {} PROVE FALSE
  <2>1. Bad = {} => Course(n) # {}
    <3>. HIDE DEF Course
    <3>. QED  OBVIOUS
  <2>. QED  BY <2>1
<1>2. PICK m \in Bad : \A k \in Bad : m <= k
  <2>1. Bad \subseteq Nat
    OBVIOUS
  <2>. HIDE DEF Bad
  <2>. QED  BY <1>1, <2>1, LeastNat
<1>3. CASE m = 0
  <2>1. [i \in 0..0 |-> b] \in Course(0)
    OBVIOUS
  <2>. QED  BY <1>2, <1>3, <2>1
<1>4. CASE m # 0
  <2>1. m \in 1..n /\ m - 1 \in 0..n /\ m - 1 \notin Bad
    <3>. HIDE DEF Course
    <3>. QED  BY <1>2, <1>4
  <2>2. PICK f \in [0..(m - 1) -> S] : f[0] = b /\ \A i \in 1..(m - 1) : f[i] = step[i][f[i - 1]]
    BY <2>1
  <2>. DEFINE g == [i \in 0..m |-> IF i = m THEN step[m][f[m - 1]] ELSE f[i]]
  <2>3. f[m - 1] \in S /\ step[m][f[m - 1]] \in S
    BY <2>1, <2>2
  <2>4. g \in [0..m -> S] /\ g[0] = b
    <3>1. ASSUME NEW i \in 0..m PROVE g[i] \in S
      <4>1. CASE i = m
        BY <2>3, <4>1
      <4>2. CASE i # m
        <5>1. i \in 0..(m - 1)
          BY <4>2, <2>1
        <5>. QED  BY <5>1, <2>2, <4>2
      <4>. QED  BY <4>1, <4>2
    <3>. QED  BY <3>1, <2>1, <2>2
  <2>5. ASSUME NEW i \in 1..m PROVE g[i] = step[i][g[i - 1]]
    <3>1. CASE i = m
      BY <3>1, <2>1
    <3>2. CASE i # m
      <4>1. i \in 1..(m - 1) /\ i - 1 \in 0..(m - 1) /\ i \in 0..m /\ i - 1 \in 0..m /\ i - 1 # m
        BY <3>2, <2>1
      <4>. QED  BY <4>1, <2>2, <3>2
    <3>. QED  BY <3>1, <3>2
  <2>6. g \in Course(m)
    <3>. HIDE DEF g
    <3>. QED  BY <2>4, <2>5
  <2>. QED  BY <1>2, <2>6
<1>. QED  BY <1>3, <1>4

-------------------------------------------------------------------------------
(* ---------------------------- powers of two --------------------------- *)

LEMMA Pow2Equation == Pow2 = [n \in Nat |-> IF n = 0 THEN 1 ELSE 2 * Pow2[n - 1]]
<1>. DEFINE Doubles(f, n) == f[0] = 1 /\ \A i \in 1..n : f[i] = 2 * f[i - 1]
            Table(n) == CHOOSE f \in [0..n -> Nat] : Doubles(f, n)
            F == [n \in Nat |-> Table(n)[n]]
<1>1. ASSUME NEW n \in Nat
      PROVE  Table(n) \in [0..n -> Nat] /\ Doubles(Table(n), n)
  <2>. DEFINE step == [i \in 1..n |-> [x \in Nat |-> 2 * x]]
  <2>1. step \in Bodies(n, Nat) /\ 1 \in Nat
    BY DEF Bodies
  <2>2. Courses(n, Nat, 1, step) # {}
    <3>. HIDE DEF step
    <3>. QED  BY <2>1, LoopExists
  <2>3. PICK f \in [0..n -> Nat] : f[0] = 1 /\ \A i \in 1..n : f[i] = step[i][f[i - 1]]
    BY <2>2 DEF Courses
  <2>4. ASSUME NEW i \in 1..n PROVE f[i] = 2 * f[i - 1]
    <3>1. i - 1 \in 0..n /\ f[i - 1] \in Nat
      BY <2>3
    <3>. QED  BY <2>3, <3>1
  <2>. QED  BY <2>3, <2>4
<1>2. ASSUME NEW n \in Nat \ {0}, NEW i \in 0..(n - 1)
      PROVE  Table(n)[i] = Table(n - 1)[i]
  <2>. DEFINE A == Table(n)
              B == Table(n - 1)
              Bad == {k \in 0..(n - 1) : A[k] # B[k]}
  <2>1. n - 1 \in Nat /\ Doubles(A, n) /\ Doubles(B, n - 1)
    <3>. HIDE DEF Table, Doubles
    <3>. QED  BY <1>1
  <2>. HIDE DEF A, B
  <2>2. SUFFICES ASSUME Bad # {} PROVE FALSE
    BY DEF A, B
  <2>3. PICK k \in Bad : \A j \in Bad : k <= j
    <3>1. Bad \subseteq Nat
      OBVIOUS
    <3>. HIDE DEF Bad
    <3>. QED  BY <2>2, <3>1, LeastNat
  <2>4. CASE k = 0
    BY <2>1, <2>3, <2>4
  <2>5. CASE k # 0
    <3>1. k \in 1..n /\ k \in 1..(n - 1) /\ k - 1 \in 0..(n - 1) /\ k - 1 \notin Bad
      BY <2>3, <2>5
    <3>. QED  BY <2>1, <2>3, <3>1
  <2>. QED  BY <2>4, <2>5
<1>3. ASSUME NEW n \in Nat
      PROVE  F[n] = IF n = 0 THEN 1 ELSE 2 * F[n - 1]
  <2>1. CASE n = 0
    <3>1. Doubles(Table(0), 0)
      BY <1>1
    <3>. HIDE DEF Table
    <3>. QED  BY <2>1, <3>1
  <2>2. CASE n # 0
    <3>1. Doubles(Table(n), n) /\ n \in 1..n /\ n - 1 \in 0..(n - 1) /\ n - 1 \in Nat
      <4>. HIDE DEF Table, Doubles
      <4>. QED  BY <1>1, <2>2
    <3>2. Table(n)[n] = 2 * Table(n)[n - 1]
      BY <3>1
    <3>3. Table(n)[n - 1] = Table(n - 1)[n - 1]
      BY <1>2, <2>2, <3>1
    <3>. HIDE DEF Table
    <3>. QED  BY <2>2, <3>1, <3>2, <3>3
  <2>. QED  BY <2>1, <2>2
<1>4. F = [n \in Nat |-> IF n = 0 THEN 1 ELSE 2 * F[n - 1]]
  <2>. HIDE DEF Table
  <2>1. F = [n \in Nat |-> F[n]]
    OBVIOUS
  <2>. HIDE DEF F
  <2>. QED  BY <1>3, <2>1
<1>5. \E f : f = [n \in Nat |-> IF n = 0 THEN 1 ELSE 2 * f[n - 1]]
  <2>. HIDE DEF F
  <2>. QED  BY <1>4
<1>. QED  BY <1>5 DEF Pow2

LEMMA Pow2Double == /\ Pow2[0] = 1
                    /\ \A n \in Nat \ {0} : Pow2[n] = 2 * Pow2[n - 1]
BY Pow2Equation

LEMMA Pow2Type == \A n \in Nat : Pow2[n] \in Nat \ {0}
<1>. DEFINE Bad == {n \in Nat : Pow2[n] \notin Nat \ {0}}
<1>1. SUFFICES ASSUME Bad # {} PROVE FALSE
  OBVIOUS
<1>2. PICK n \in Bad : \A k \in Bad : n <= k
  <2>1. Bad \subseteq Nat
    OBVIOUS
  <2>. HIDE DEF Bad
  <2>. QED  BY <1>1, <2>1, LeastNat
<1>3. n # 0
  BY <1>2, Pow2Double
<1>4. n - 1 \in Nat /\ n - 1 \notin Bad
  BY <1>2, <1>3
<1>5. Pow2[n - 1] \in Nat \ {0}
  BY <1>4
<1>6. Pow2[n] = 2 * Pow2[n - 1]
  BY <1>3, Pow2Double
<1>. QED  BY <1>2, <1>5, <1>6

LEMMA Pow2Sum ==
  ASSUME NEW m \in Nat
  PROVE  \A n \in Nat : Pow2[m + n] = Pow2[m] * Pow2[n]
<1>. DEFINE Bad == {n \in Nat : Pow2[m + n] # Pow2[m] * Pow2[n]}
<1>1. SUFFICES ASSUME Bad # {} PROVE FALSE
  OBVIOUS
<1>2. PICK n \in Bad : \A j \in Bad : n <= j
  <2>1. Bad \subseteq Nat
    OBVIOUS
  <2>. HIDE DEF Bad
  <2>. QED  BY <1>1, <2>1, LeastNat
<1>3. CASE n = 0
  <2>1. Pow2[m] \in Nat /\ m + 0 = m
    BY Pow2Type
  <2>2. Pow2[m] * 1 = Pow2[m]
    BY <2>1
  <2>. QED  BY <1>2, <1>3, <2>1, <2>2, Pow2Double
<1>4. CASE n # 0
  <2>1. n \in Nat \ {0} /\ n - 1 \in Nat /\ n - 1 \notin Bad
        /\ m + n \in Nat \ {0} /\ (m + n) - 1 = m + (n - 1)
    BY <1>2, <1>4
  <2>2. Pow2[m + (n - 1)] = Pow2[m] * Pow2[n - 1]
    BY <2>1
  <2>3. Pow2[n] = 2 * Pow2[n - 1] /\ Pow2[m + n] = 2 * Pow2[m + (n - 1)]
    BY <2>1, Pow2Double
  <2>4. Pow2[m] \in Nat /\ Pow2[n - 1] \in Nat
    BY <2>1, Pow2Type
  <2>5. Pow2[m + n] = Pow2[m] * Pow2[n]
    BY <2>2, <2>3, <2>4
  <2>. QED  BY <1>2, <2>5
<1>. QED  BY <1>3, <1>4

(* A wider block is a number of narrower ones.                              *)
LEMMA Pow2Divides ==
  ASSUME NEW m \in Nat, NEW n \in Nat, m <= n
  PROVE  \E k \in Nat \ {0} : Pow2[n] = k * Pow2[m]
<1>1. n - m \in Nat /\ m + (n - m) = n
  OBVIOUS
<1>2. Pow2[n] = Pow2[m] * Pow2[n - m]
  BY <1>1, Pow2Sum
<1>3. Pow2[m] \in Nat /\ Pow2[n - m] \in Nat \ {0}
  BY <1>1, Pow2Type
<1>. QED  BY <1>2, <1>3

-------------------------------------------------------------------------------
(* ------------------------------- division ----------------------------- *)

LEMMA DivMod ==
  ASSUME NEW a \in Nat, NEW d \in Nat \ {0}
  PROVE  /\ a \div d \in Nat /\ a % d \in 0..(d - 1)
         /\ a = d * (a \div d) + (a % d)
OBVIOUS

LEMMA DivUnique ==
  ASSUME NEW d \in Nat \ {0}, NEW q \in Nat, NEW r \in 0..(d - 1)
  PROVE  (d * q + r) \div d = q /\ (d * q + r) % d = r
<1>. DEFINE a == d * q + r
<1>1. a \in Nat /\ a = d * q + r
  OBVIOUS
<1>. HIDE DEF a
<1>2. a \div d = q /\ a % d = r
  BY <1>1
<1>. QED  BY <1>2 DEF a

LEMMA DivDiv ==
  ASSUME NEW a \in Nat, NEW k \in Nat \ {0}, NEW m \in Nat \ {0}
  PROVE  a \div (k * m) = (a \div m) \div k
<1>. DEFINE q == a \div m
            r == a % m
            h == q \div k
            l == q % k
<1>1. q \in Nat /\ r \in 0..(m - 1) /\ a = m * q + r
  BY DivMod
<1>. HIDE DEF q, r
<1>2. h \in Nat /\ l \in 0..(k - 1) /\ q = k * h + l
  BY <1>1, DivMod
<1>. HIDE DEF h, l
<1>3. k * m \in Nat \ {0}
  OBVIOUS
<1>4. a = (k * m) * h + (m * l + r)
  BY <1>1, <1>2
<1>5. m * l + r \in 0..(k * m - 1)
  <2>1. l + 1 <= k /\ m * (l + 1) <= m * k
    BY <1>2
  <2>2. m * (l + 1) = m * l + m /\ m * k = k * m
    BY <1>2
  <2>. QED  BY <1>1, <1>2, <2>1, <2>2
<1>6. a \div (k * m) = h
  BY <1>2, <1>3, <1>4, <1>5, DivUnique
<1>. QED  BY <1>6 DEF h, q

-------------------------------------------------------------------------------
(* ------------------------------- prefixes ----------------------------- *)

LEMMA SizeType ==
  /\ \A b \in 0..AddrBits : Size(b) \in Nat \ {0}
  /\ Addr = 0..(Size(0) - 1) /\ Addr \subseteq Nat
<1>1. AddrBits \in Nat
  BY WidthAssumption
<1>2. ASSUME NEW b \in 0..AddrBits PROVE Size(b) \in Nat \ {0}
  <2>1. AddrBits - b \in Nat
    BY <1>1
  <2>. QED  BY <2>1, Pow2Type DEF Size
<1>3. AddrBits - 0 = AddrBits /\ 0 \in 0..AddrBits
  BY <1>1
<1>4. Addr = 0..(Size(0) - 1)
  BY <1>3 DEF Size, Addr
<1>. QED  BY <1>2, <1>3, <1>4

LEMMA SizeDivides ==
  ASSUME NEW b \in 0..AddrBits, NEW c \in 0..AddrBits, b <= c
  PROVE  \E k \in Nat \ {0} : Size(b) = k * Size(c)
<1>1. AddrBits - b \in Nat /\ AddrBits - c \in Nat /\ AddrBits - c <= AddrBits - b
  BY WidthAssumption
<1>. QED  BY <1>1, Pow2Divides DEF Size

LEMMA OverlapsEitherWay ==
  ASSUME NEW p \in Prefix, NEW q \in Prefix
  PROVE  Overlaps(p, q) <=> Overlaps(q, p)
<1>1. p.bits \in Int /\ q.bits \in Int
  BY WidthAssumption DEF Prefix
<1>2. CASE p.bits = q.bits
  BY <1>1, <1>2 DEF Overlaps
<1>3. CASE p.bits # q.bits
  BY <1>1, <1>3 DEF Overlaps
<1>. QED  BY <1>2, <1>3

(* Two prefixes that share an address overlap.                              *)
LEMMA SharedAddress ==
  ASSUME NEW p \in Prefix, NEW q \in Prefix, NEW a \in Addr, Covers(p, a), Covers(q, a)
  PROVE  Overlaps(p, q)
<1>1. ASSUME NEW u \in Prefix, NEW v \in Prefix, u.bits <= v.bits, Covers(u, a), Covers(v, a)
      PROVE  u.base \div Size(u.bits) = v.base \div Size(u.bits)
  <2>1. /\ u.bits \in 0..AddrBits /\ v.bits \in 0..AddrBits
        /\ a \in Nat /\ u.base \in Nat /\ v.base \in Nat
    BY SizeType DEF Prefix
  <2>2. Size(u.bits) \in Nat \ {0} /\ Size(v.bits) \in Nat \ {0}
    BY <2>1, SizeType
  <2>3. PICK k \in Nat \ {0} : Size(u.bits) = k * Size(v.bits)
    BY <1>1, <2>1, SizeDivides
  <2>4. a \div Size(v.bits) = v.base \div Size(v.bits)
    BY <1>1 DEF Covers
  <2>5. a \div Size(u.bits) = v.base \div Size(u.bits)
    BY <2>1, <2>2, <2>3, <2>4, DivDiv
  <2>. QED  BY <1>1, <2>5 DEF Covers
<1>2. p.bits \in Int /\ q.bits \in Int
  BY WidthAssumption DEF Prefix
<1>3. CASE p.bits < q.bits
  BY <1>1, <1>2, <1>3 DEF Overlaps
<1>4. CASE ~(p.bits < q.bits)
  BY <1>1, <1>2, <1>4 DEF Overlaps
<1>. QED  BY <1>3, <1>4

(* Two prefixes nest or are disjoint, which the hub's choice of the longest one *)
(* relies on (relay.go: routeLookupLocked).                                 *)
THEOREM PrefixesNest ==
  ASSUME NEW p \in Prefix, NEW q \in Prefix, p.bits <= q.bits, NEW a \in Addr, Covers(p, a), Covers(q, a)
  PROVE  \A x \in Addr : Covers(q, x) => Covers(p, x)
<1>. SUFFICES ASSUME NEW x \in Addr, Covers(q, x)
              PROVE  Covers(p, x)
  OBVIOUS
<1>1. p.bits \in 0..AddrBits /\ q.bits \in 0..AddrBits /\ a \in Nat /\ x \in Nat
  BY SizeType DEF Prefix
<1>2. Size(p.bits) \in Nat \ {0} /\ Size(q.bits) \in Nat \ {0}
  BY <1>1, SizeType
<1>3. PICK k \in Nat \ {0} : Size(p.bits) = k * Size(q.bits)
  BY <1>1, SizeDivides
<1>4. x \div Size(q.bits) = a \div Size(q.bits)
  BY DEF Covers
<1>5. x \div Size(p.bits) = a \div Size(p.bits)
  BY <1>1, <1>2, <1>3, <1>4, DivDiv
<1>. QED  BY <1>5 DEF Covers

LEMMA MaskedPrefix ==
  ASSUME NEW p \in Prefix
  PROVE  /\ Masked(p) \in Prefix /\ Masked(p).bits = p.bits
         /\ Masked(p).base = Size(p.bits) * (p.base \div Size(p.bits))
         /\ Masked(p).base \div Size(p.bits) = p.base \div Size(p.bits)
         /\ Masked(p).base + Size(p.bits) - 1 \in Addr
         /\ Masked(Masked(p)) = Masked(p)
<1>. DEFINE d == Size(p.bits)
            q == p.base \div d
<1>1. p.bits \in 0..AddrBits /\ 0 \in 0..AddrBits /\ p.base \in Addr /\ p = [base |-> p.base, bits |-> p.bits]
  BY WidthAssumption DEF Prefix
<1>2. d \in Nat \ {0} /\ p.base \in Nat /\ p.base <= Size(0) - 1 /\ Size(0) \in Nat
  BY <1>1, SizeType
<1>3. PICK k \in Nat \ {0} : Size(0) = k * d
  BY <1>1, WidthAssumption, SizeDivides
<1>. HIDE DEF d
<1>4. q \in Nat /\ p.base % d \in 0..(d - 1) /\ p.base = d * q + (p.base % d)
  BY <1>2, DivMod
<1>. HIDE DEF q
<1>5. p.base - (p.base % d) = d * q
  BY <1>2, <1>4
<1>6. Masked(p) = [base |-> d * q, bits |-> p.bits]
  BY <1>1, <1>5 DEF Masked, d
<1>7. d * q + d - 1 <= Size(0) - 1
  <2>1. d * q < k * d
    BY <1>2, <1>3, <1>4
  <2>2. q < k
    BY <1>2, <1>4, <2>1
  <2>3. d * (q + 1) <= d * k
    BY <1>2, <1>4, <2>2
  <2>. QED  BY <1>2, <1>3, <1>4, <2>3
<1>8. d * q \in Addr /\ d * q + d - 1 \in Addr
  <2>. DEFINE m == d * q
              top == Size(0)
  <2>1. /\ m \in Nat /\ top \in Nat /\ d \in Nat \ {0} /\ m + d - 1 <= top - 1
        /\ Addr = 0..(top - 1)
    BY <1>2, <1>4, <1>7, SizeType
  <2>. HIDE DEF m, top
  <2>2. m \in Addr /\ m + d - 1 \in Addr
    BY <2>1
  <2>. QED  BY <2>2 DEF m
<1>9. (d * q) \div d = q /\ (d * q) % d = 0
  <2>1. d * q + 0 = d * q /\ 0 \in 0..(d - 1)
    BY <1>2, <1>4
  <2>2. (d * q + 0) \div d = q /\ (d * q + 0) % d = 0
    BY <1>2, <1>4, <2>1, DivUnique
  <2>. QED  BY <2>1, <2>2
<1>10. Masked(Masked(p)) = Masked(p)
  <2>1. d * q - 0 = d * q
    BY <1>2, <1>4
  <2>. QED  BY <1>6, <1>9, <2>1 DEF Masked, d
<1>. QED  BY <1>1, <1>6, <1>8, <1>9, <1>10 DEF Prefix, d, q

LEMMA MaskedCovers ==
  ASSUME NEW p \in Prefix, NEW a \in Addr
  PROVE  Covers(Masked(p), a) <=> Covers(p, a)
BY MaskedPrefix DEF Covers

(* remapAddr: the address is one of the other prefix, with the same host bits.  *)
LEMMA RemapLands ==
  ASSUME NEW from \in Prefix, NEW to \in Prefix, from.bits = to.bits, NEW a \in Addr
  PROVE  /\ Remap(a, from, to) \in Addr
         /\ Covers(to, Remap(a, from, to))
         /\ Remap(a, from, to) - Masked(to).base = a % Size(from.bits)
         /\ Remap(a, from, to) % Size(from.bits) = a % Size(from.bits)
<1>. DEFINE d == Size(from.bits)
            q == to.base \div d
            r == a % d
<1>1. from.bits \in 0..AddrBits /\ to.base \in Nat /\ a \in Nat
  BY SizeType DEF Prefix
<1>2. d \in Nat \ {0}
  BY <1>1, SizeType
<1>3. q \in Nat /\ r \in 0..(d - 1)
  <2>. HIDE DEF d
  <2>. QED  BY <1>1, <1>2, DivMod
<1>4. Masked(to).base = d * q /\ d * q + d - 1 \in Addr
  BY MaskedPrefix
<1>5. Remap(a, from, to) = d * q + r
  BY <1>4 DEF Remap
<1>. HIDE DEF d, q, r
<1>6. (d * q + r) \div d = q /\ (d * q + r) % d = r
  BY <1>2, <1>3, DivUnique
<1>7. d * q + r \in Addr
  <2>1. Size(0) \in Int
    BY SizeType, WidthAssumption
  <2>. QED  BY <1>2, <1>3, <1>4, <2>1, SizeType
<1>8. (d * q + r) - d * q = r
  BY <1>2, <1>3
<1>. QED  BY <1>4, <1>5, <1>6, <1>7, <1>8 DEF Covers, d, q, r

(* An address of a prefix is its first one and the host bits.                 *)
LEMMA HostBits ==
  ASSUME NEW p \in Prefix, NEW a \in Addr, Covers(p, a)
  PROVE  a = Masked(p).base + (a % Size(p.bits)) /\ a - Masked(p).base = a % Size(p.bits)
<1>. DEFINE d == Size(p.bits)
<1>1. p.bits \in 0..AddrBits /\ p.base \in Nat /\ a \in Nat
  BY SizeType DEF Prefix
<1>2. d \in Nat \ {0}
  BY <1>1, SizeType
<1>3. a \div d = p.base \div d /\ Masked(p).base = d * (p.base \div d)
  BY MaskedPrefix DEF Covers
<1>. HIDE DEF d
<1>4. a \div d \in Nat /\ a % d \in 0..(d - 1) /\ a = d * (a \div d) + (a % d)
  BY <1>1, <1>2, DivMod
<1>5. d * (a \div d) \in Nat
  BY <1>2, <1>4
<1>6. a - d * (a \div d) = a % d
  BY <1>4, <1>5
<1>. QED  BY <1>3, <1>4, <1>6 DEF d

(* remapAddr needs no state: translating back yields the address that was        *)
(* translated, for every width and every pair of equally long prefixes.      *)
THEOREM RemapBack ==
  ASSUME NEW from \in Prefix, NEW to \in Prefix, from.bits = to.bits, NEW a \in Addr,
         Covers(from, a)
  PROVE  Remap(Remap(a, from, to), to, from) = a
<1>1. Remap(a, from, to) % Size(to.bits) = a % Size(from.bits)
  BY RemapLands
<1>2. a = Masked(from).base + (a % Size(from.bits))
  BY HostBits
<1>3. Remap(Remap(a, from, to), to, from) = Masked(from).base + (Remap(a, from, to) % Size(to.bits))
  BY DEF Remap
<1>. QED  BY <1>1, <1>2, <1>3

-------------------------------------------------------------------------------
(* ------------------------------- checksums ---------------------------- *)

LEMMA WordType ==
  /\ Ones \in Nat \ {0} /\ Word = 0..Ones
  /\ \A w \in Word : Flip(w) \in Word
<1>1. AddrBits \div 2 \in Nat \ {0}
  BY WidthAssumption
<1>2. Pow2[AddrBits \div 2] \in Nat /\ Pow2[AddrBits \div 2] >= 2
  <2>1. AddrBits \div 2 - 1 \in Nat
    BY <1>1
  <2>2. Pow2[AddrBits \div 2] = 2 * Pow2[AddrBits \div 2 - 1]
    BY <1>1, Pow2Double
  <2>3. Pow2[AddrBits \div 2 - 1] \in Nat \ {0}
    BY <2>1, Pow2Type
  <2>. QED  BY <2>2, <2>3
<1>3. Ones \in Nat \ {0} /\ Word = 0..Ones
  BY <1>2 DEF Ones, Word
<1>. QED  BY <1>3 DEF Flip

LEMMA HalvesOfAddress ==
  ASSUME NEW a \in Addr
  PROVE  /\ High(a) \in Word /\ Low(a) \in Word
         /\ a # 0 => High(a) + Low(a) > 0
<1>. DEFINE h == AddrBits \div 2
            m == Ones + 1
<1>1. h \in Nat /\ AddrBits = h + h
  BY WidthAssumption
<1>2. Ones \in Nat \ {0} /\ m = Pow2[h] /\ m \in Nat \ {0} /\ m - 1 = Ones
  <2>1. Pow2[h] \in Nat
    BY <1>1, Pow2Type
  <2>. QED  BY <2>1, WordType DEF Ones
<1>3. Pow2[AddrBits] = m * m
  <2>. HIDE DEF h, m
  <2>. QED  BY <1>1, <1>2, Pow2Sum
<1>4. a \in Nat /\ a < m * m
  <2>1. Pow2[AddrBits] \in Nat
    BY Pow2Type, WidthAssumption
  <2>. HIDE DEF m
  <2>. QED  BY <1>3, <2>1, SizeType DEF Addr
<1>. HIDE DEF h, m
<1>5. a \div m \in Nat /\ a % m \in 0..(m - 1) /\ a = m * (a \div m) + (a % m)
  BY <1>2, <1>4, DivMod
<1>6. a \div m < m
  <2>1. SUFFICES ASSUME a \div m >= m PROVE FALSE
    BY <1>2, <1>5
  <2>2. m * (a \div m) >= m * m
    BY <1>2, <1>5, <2>1
  <2>. QED  BY <1>2, <1>4, <1>5, <2>2
<1>7. a # 0 => (a \div m) + (a % m) > 0
  <2>. DEFINE u == a \div m
              v == a % m
  <2>0. u \in Nat /\ v \in 0..(m - 1) /\ a = m * u + v
    BY <1>5
  <2>. HIDE DEF u, v
  <2>1. u = 0 => a = v
    BY <1>2, <2>0
  <2>2. u # 0 \/ v # 0 => u + v > 0
    BY <1>2, <2>0
  <2>. QED  BY <2>1, <2>2 DEF u, v
<1>8. High(a) = a \div m /\ Low(a) = a % m
  BY DEF High, Low, m
<1>. QED  BY <1>2, <1>5, <1>6, <1>7, <1>8, WordType

LEMMA FoldedEquation ==
  Folded = [n \in Nat |-> IF n <= Ones THEN n
                          ELSE Folded[(n \div (Ones + 1)) + (n % (Ones + 1))]]
<1>. DEFINE F == [n \in Nat |-> IF n = 0 THEN 0 ELSE ((n - 1) % Ones) + 1]
<1>1. Ones \in Nat \ {0} /\ Ones + 1 \in Nat \ {0}
  BY WordType
<1>2. ASSUME NEW n \in Nat
      PROVE  F[n] = IF n <= Ones THEN n ELSE F[(n \div (Ones + 1)) + (n % (Ones + 1))]
  <2>1. CASE n = 0
    BY <1>1, <2>1
  <2>2. CASE n # 0 /\ n <= Ones
    <3>1. n - 1 \in 0..(Ones - 1) /\ Ones * 0 + (n - 1) = n - 1
      BY <1>1, <2>2
    <3>2. (n - 1) % Ones = n - 1
      BY <1>1, <3>1, DivUnique
    <3>3. ((n - 1) % Ones) + 1 = n
      BY <3>2
    <3>. QED  BY <2>2, <3>3
  <2>3. CASE n > Ones
    <3>. DEFINE q == n \div (Ones + 1)
                r == n % (Ones + 1)
                x == ((q + r) - 1) \div Ones
                y == ((q + r) - 1) % Ones
    <3>1. q \in Nat /\ r \in 0..((Ones + 1) - 1) /\ n = (Ones + 1) * q + r
      BY <1>1, DivMod
    <3>. HIDE DEF q, r
    <3>2. q # 0
      BY <1>1, <2>3, <3>1
    <3>3. q + r \in Nat \ {0} /\ (q + r) - 1 \in Nat
      BY <1>1, <3>1, <3>2
    <3>4. x \in Nat /\ y \in 0..(Ones - 1) /\ (q + r) - 1 = Ones * x + y
      BY <1>1, <3>3, DivMod
    <3>. HIDE DEF x, y
    <3>5. n - 1 = Ones * (q + x) + y
      BY <1>1, <3>1, <3>4
    <3>6. (n - 1) % Ones = y
      <4>1. q + x \in Nat
        BY <3>1, <3>4
      <4>. QED  BY <1>1, <3>4, <3>5, <4>1, DivUnique
    <3>7. F[n] = y + 1
      BY <1>1, <2>3, <3>6
    <3>8. F[q + r] = y + 1
      <4>1. \A k \in Nat \ {0} : F[k] = ((k - 1) % Ones) + 1
        OBVIOUS
      <4>. HIDE DEF F
      <4>. QED  BY <3>3, <4>1 DEF y
    <3>9. ~(n <= Ones)
      BY <1>1, <2>3
    <3>. HIDE DEF F
    <3>. QED  BY <3>7, <3>8, <3>9 DEF q, r
  <2>. HIDE DEF F
  <2>. QED  BY <1>1, <2>1, <2>2, <2>3
<1>3. F = [n \in Nat |-> IF n <= Ones THEN n
                         ELSE F[(n \div (Ones + 1)) + (n % (Ones + 1))]]
  <2>1. F = [n \in Nat |-> F[n]]
    OBVIOUS
  <2>. HIDE DEF F
  <2>. QED  BY <1>2, <2>1
<1>4. \E f : f = [n \in Nat |-> IF n <= Ones THEN n
                                ELSE f[(n \div (Ones + 1)) + (n % (Ones + 1))]]
  <2>. HIDE DEF F
  <2>. QED  BY <1>3
<1>. QED  BY <1>4 DEF Folded

(* Adding the carries in again changes a sum by multiples of Ones only, and    *)
(* makes zero of nothing but zero.                                          *)
LEMMA FoldedCongruent ==
  \A n \in Nat : /\ Folded[n] \in Word
                 /\ n # 0 => Folded[n] # 0
                 /\ \E k \in Nat : n = Folded[n] + k * Ones
<1>. DEFINE Good(n) == /\ Folded[n] \in Word
                       /\ n # 0 => Folded[n] # 0
                       /\ \E k \in Nat : n = Folded[n] + k * Ones
            Bad == {n \in Nat : ~Good(n)}
<1>0. Ones \in Nat \ {0} /\ Ones + 1 \in Nat \ {0} /\ Word = 0..Ones
  BY WordType
<1>1. SUFFICES ASSUME Bad # {} PROVE FALSE
  OBVIOUS
<1>2. PICK n \in Bad : \A j \in Bad : n <= j
  <2>1. Bad \subseteq Nat
    OBVIOUS
  <2>. HIDE DEF Bad
  <2>. QED  BY <1>1, <2>1, LeastNat
<1>3. CASE n <= Ones
  <2>1. Folded[n] = n /\ n \in Nat
    BY <1>2, <1>3, FoldedEquation
  <2>2. n = n + 0 * Ones
    BY <1>0, <2>1
  <2>3. Good(n)
    BY <1>0, <1>3, <2>1, <2>2
  <2>. QED  BY <1>2, <2>3
<1>4. CASE n > Ones
  <2>. DEFINE q == n \div (Ones + 1)
              r == n % (Ones + 1)
  <2>1. n \in Nat /\ ~(n <= Ones)
    BY <1>0, <1>2, <1>4
  <2>2. Folded[n] = Folded[q + r]
    BY <2>1, FoldedEquation
  <2>3. q \in Nat /\ r \in 0..((Ones + 1) - 1) /\ n = (Ones + 1) * q + r
    BY <1>0, <2>1, DivMod
  <2>. HIDE DEF q, r
  <2>4. q # 0
    BY <1>0, <2>1, <2>3
  <2>5. q + r \in Nat \ {0} /\ q + r < n /\ n = (q + r) + q * Ones
    <3>1. q * Ones >= 1
      BY <1>0, <2>3, <2>4
    <3>. QED  BY <1>0, <2>3, <2>4, <3>1
  <2>6. q + r \notin Bad
    BY <1>2, <2>1, <2>5
  <2>7. Good(q + r)
    BY <2>5, <2>6
  <2>8. PICK k \in Nat : q + r = Folded[q + r] + k * Ones
    BY <2>7
  <2>9. n = Folded[q + r] + (k + q) * Ones /\ k + q \in Nat
    <3>1. Folded[q + r] \in Nat
      BY <1>0, <2>7
    <3>. QED  BY <1>0, <2>3, <2>5, <2>8, <3>1
  <2>10. Good(n)
    BY <2>2, <2>5, <2>7, <2>9
  <2>. QED  BY <1>2, <2>10
<1>. QED  BY <1>0, <1>2, <1>3, <1>4

(* A sum comes out if it is a multiple of Ones, and not zero.                 *)
LEMMA ComesOut ==
  ASSUME NEW n \in Nat
  PROVE  Folded[n] = Ones <=> n # 0 /\ \E k \in Int : n = k * Ones
<1>1. Ones \in Nat \ {0} /\ Word = 0..Ones
  BY WordType
<1>2. PICK j \in Nat : n = Folded[n] + j * Ones
  BY FoldedCongruent
<1>3. Folded[n] \in 0..Ones /\ (n # 0 => Folded[n] # 0)
  BY <1>1, FoldedCongruent
<1>4. ASSUME Folded[n] = Ones PROVE n # 0 /\ \E k \in Int : n = k * Ones
  <2>1. n = (j + 1) * Ones /\ j + 1 \in Int
    BY <1>1, <1>2, <1>4
  <2>. QED  BY <1>1, <2>1
<1>5. ASSUME n # 0, NEW k \in Int, n = k * Ones PROVE Folded[n] = Ones
  <2>. DEFINE f == Folded[n]
  <2>1. f = (k - j) * Ones /\ f \in 1..Ones /\ k - j \in Int
    BY <1>1, <1>2, <1>3, <1>5
  <2>. HIDE DEF f
  <2>2. k - j = 1
    <3>1. k - j > 0
      BY <1>1, <2>1
    <3>2. k - j < 2
      <4>1. SUFFICES ASSUME k - j >= 2 PROVE FALSE
        BY <2>1
      <4>2. (k - j) * Ones >= 2 * Ones
        BY <1>1, <2>1, <4>1
      <4>. QED  BY <1>1, <2>1, <4>2
    <3>. QED  BY <2>1, <3>1, <3>2
  <2>3. f = Ones
    BY <1>1, <2>1, <2>2
  <2>. QED  BY <2>3 DEF f
<1>. QED  BY <1>4, <1>5

(* checksumDelta: the sum over the packet stays a multiple of Ones.           *)
LEMMA DeltaKeepsSum ==
  ASSUME NEW cur \in Word, NEW old \in Addr, NEW new \in Addr, NEW rest \in Nat,
         NEW k \in Int, rest + High(old) + Low(old) + cur = k * Ones
  PROVE  /\ ChecksumDelta(cur, old, new) \in Word
         /\ \E j \in Int : rest + High(new) + Low(new) + ChecksumDelta(cur, old, new) = j * Ones
<1>. DEFINE x == Flip(cur) + Flip(High(old)) + High(new) + Flip(Low(old)) + Low(new)
            f == Folded[x]
            ho == High(old)
            lo == Low(old)
            hn == High(new)
            ln == Low(new)
<1>1. Ones \in Nat \ {0} /\ Word = 0..Ones
  BY WordType
<1>2. ho \in Word /\ lo \in Word /\ hn \in Word /\ ln \in Word
  BY HalvesOfAddress
<1>3. x = (Ones - cur) + (Ones - ho) + hn + (Ones - lo) + ln
  BY DEF Flip
<1>4. rest + ho + lo + cur = k * Ones
  OBVIOUS
<1>5. ChecksumDelta(cur, old, new) = Ones - f
  BY DEF ChecksumDelta, Flip
<1>. HIDE DEF ho, lo, hn, ln
<1>6. x \in Nat
  <2>. HIDE DEF x
  <2>. QED  BY <1>1, <1>2, <1>3
<1>. HIDE DEF x
<1>7. f \in Word /\ \E j \in Nat : x = f + j * Ones
  BY <1>6, FoldedCongruent
<1>. HIDE DEF f
<1>8. PICK j \in Nat : x = f + j * Ones
  BY <1>7
<1>9. /\ rest \in Int /\ cur \in Int /\ f \in Int /\ x \in Int
      /\ ho \in Int /\ lo \in Int /\ hn \in Int /\ ln \in Int
  BY <1>1, <1>2, <1>6, <1>7
<1>10. j * Ones \in Int /\ k * Ones \in Int /\ (k + j - 2) * Ones = k * Ones + j * Ones - 2 * Ones
  BY <1>1
<1>11. rest + hn + ln + (Ones - f) = (k + j - 2) * Ones
  BY <1>1, <1>3, <1>4, <1>8, <1>9, <1>10
<1>12. k + j - 2 \in Int
  OBVIOUS
<1>13. Ones - f \in Word
  BY <1>1, <1>7
<1>14. rest + High(new) + Low(new) + ChecksumDelta(cur, old, new) = (k + j - 2) * Ones
  BY <1>5, <1>11 DEF hn, ln
<1>. QED  BY <1>5, <1>12, <1>13, <1>14

-------------------------------------------------------------------------------
(* -------------------------------- packets ----------------------------- *)

(* What the checksum covers besides itself and one of the addresses.          *)
Rest(pkt, field) ==
  IF field = "src" THEN High(pkt.dst) + Low(pkt.dst) + pkt.data
  ELSE High(pkt.src) + Low(pkt.src) + pkt.data

Other(pkt, field) == IF field = "src" THEN pkt.dst ELSE pkt.src

LEMMA SumSplits ==
  ASSUME NEW pkt \in Packets, NEW field \in {"src", "dst"}
  PROVE  /\ Rest(pkt, field) \in Nat /\ Sum(pkt) \in Nat
         /\ Sum(pkt) = Rest(pkt, field) + High(pkt[field]) + Low(pkt[field]) + pkt.sum
         /\ Other(pkt, field) # 0 => Rest(pkt, field) # 0
<1>1. pkt.src \in Addr /\ pkt.dst \in Addr /\ pkt.data \in Nat /\ pkt.sum \in Nat
  BY WordType DEF Packets
<1>2. /\ High(pkt.src) \in Nat /\ Low(pkt.src) \in Nat
      /\ High(pkt.dst) \in Nat /\ Low(pkt.dst) \in Nat
      /\ pkt.src # 0 => High(pkt.src) + Low(pkt.src) > 0
      /\ pkt.dst # 0 => High(pkt.dst) + Low(pkt.dst) > 0
  <2>1. \A a \in Addr : High(a) \in Nat /\ Low(a) \in Nat /\ (a # 0 => High(a) + Low(a) > 0)
    BY HalvesOfAddress, WordType
  <2>. QED  BY <1>1, <2>1
<1>3. CASE field = "src"
  BY <1>1, <1>2, <1>3 DEF Rest, Sum, Other
<1>4. CASE field = "dst"
  BY <1>1, <1>2, <1>4 DEF Rest, Sum, Other
<1>. QED  BY <1>3, <1>4

(* rewriteAddr: a checksum that came out still comes out after one address has   *)
(* been replaced and the checksum been adjusted by the difference.          *)
THEOREM RewriteAddrKeeps ==
  ASSUME NEW pkt \in Packets, Intact(pkt), NEW field \in {"src", "dst"}, NEW new \in Addr,
         Other(pkt, field) # 0
  PROVE  /\ RewriteAddr(pkt, field, new) \in Packets
         /\ Intact(RewriteAddr(pkt, field, new))
         /\ RewriteAddr(pkt, field, new)[field] = new
         /\ Other(RewriteAddr(pkt, field, new), field) = Other(pkt, field)
<1>. DEFINE out == RewriteAddr(pkt, field, new)
            sum == IF HasField(pkt) THEN ChecksumDelta(pkt.sum, pkt[field], new) ELSE pkt.sum
<1>1. /\ pkt[field] \in Addr /\ pkt.sum \in Word /\ pkt.kind \in Kinds /\ pkt.data \in Word
      /\ pkt.src \in Addr /\ pkt.dst \in Addr
      /\ pkt = [src |-> pkt.src, dst |-> pkt.dst, kind |-> pkt.kind, data |-> pkt.data,
                sum |-> pkt.sum]
  BY DEF Packets
<1>2. sum \in Word
  <2>1. Rest(pkt, field) \in Nat
    BY SumSplits
  <2>2. ChecksumDelta(pkt.sum, pkt[field], new) \in Word
    <3>. DEFINE x == Flip(pkt.sum) + Flip(High(pkt[field])) + High(new) + Flip(Low(pkt[field])) + Low(new)
    <3>1. /\ Flip(pkt.sum) \in Nat /\ Flip(High(pkt[field])) \in Nat /\ High(new) \in Nat
          /\ Flip(Low(pkt[field])) \in Nat /\ Low(new) \in Nat
      BY <1>1, WordType, HalvesOfAddress
    <3>2. x \in Nat
      BY <3>1
    <3>. HIDE DEF x
    <3>3. Flip(Folded[x]) \in Word
      BY <3>2, FoldedCongruent, WordType
    <3>. QED  BY <3>3 DEF x, ChecksumDelta
  <2>. QED  BY <1>1, <2>2
<1>3. out = [pkt EXCEPT ![field] = new, !.sum = sum]
  BY <1>1 DEF RewriteAddr
<1>. HIDE DEF sum, out
<1>4. /\ out \in Packets /\ out[field] = new /\ Other(out, field) = Other(pkt, field)
      /\ Rest(out, field) = Rest(pkt, field) /\ out.sum = sum /\ out.kind = pkt.kind
  <2>1. CASE field = "src"
    <3>1. out = [src |-> new, dst |-> pkt.dst, kind |-> pkt.kind, data |-> pkt.data, sum |-> sum]
      BY <1>1, <1>3, <2>1
    <3>. QED  BY <1>1, <1>2, <2>1, <3>1 DEF Packets, Other, Rest
  <2>2. CASE field = "dst"
    <3>1. out = [src |-> pkt.src, dst |-> new, kind |-> pkt.kind, data |-> pkt.data, sum |-> sum]
      BY <1>1, <1>3, <2>2
    <3>. QED  BY <1>1, <1>2, <2>2, <3>1 DEF Packets, Other, Rest
  <2>. QED  BY <2>1, <2>2
<1>5. ASSUME pkt.kind = "summed" PROVE Folded[Sum(out)] = Ones
  <2>. DEFINE rest == Rest(pkt, field)
  <2>1. /\ Sum(pkt) = rest + High(pkt[field]) + Low(pkt[field]) + pkt.sum
        /\ rest \in Nat /\ rest # 0 /\ Sum(pkt) \in Nat
    BY SumSplits
  <2>2. Sum(out) = rest + High(new) + Low(new) + sum /\ Sum(out) \in Nat
    BY <1>4, SumSplits
  <2>. HIDE DEF rest
  <2>3. PICK k \in Int : Sum(pkt) = k * Ones
    BY <1>5, <2>1, ComesOut DEF Intact
  <2>4. sum = ChecksumDelta(pkt.sum, pkt[field], new)
    BY <1>5 DEF sum, HasField
  <2>5. \E j \in Int : rest + High(new) + Low(new) + sum = j * Ones
    BY <1>1, <2>1, <2>3, <2>4, DeltaKeepsSum
  <2>6. Sum(out) # 0
    <3>1. High(new) \in Nat /\ Low(new) \in Nat /\ sum \in Nat
      BY <1>2, HalvesOfAddress, WordType
    <3>. QED  BY <2>1, <2>2, <3>1
  <2>. QED  BY <2>2, <2>5, <2>6, ComesOut
<1>6. Intact(out)
  BY <1>4, <1>5 DEF Intact
<1>. QED  BY <1>4, <1>6 DEF out

(* A sender finds a checksum that makes the sum come out.                     *)
LEMMA ChecksummedIntact ==
  ASSUME NEW pkt \in Packets, pkt.src # 0 \/ pkt.dst # 0
  PROVE  /\ Checksummed(pkt) \in Packets /\ Intact(Checksummed(pkt))
         /\ Checksummed(pkt).src = pkt.src /\ Checksummed(pkt).dst = pkt.dst
<1>. DEFINE With(w) == [pkt EXCEPT !.sum = w]
            Right(w) == Folded[Sum(With(w))] = Ones
<1>0. Ones \in Nat \ {0} /\ Word = 0..Ones
  BY WordType
<1>1. \A w \in Word : With(w) \in Packets /\ With(w).sum = w /\ With(w).kind = pkt.kind
                      /\ With(w).src = pkt.src /\ With(w).dst = pkt.dst
  BY DEF Packets
<1>2. \E w \in Word : Right(w)
  <2>. DEFINE rest == Sum(With(0))
  <2>1. \A w \in Word : Sum(With(w)) = rest + w /\ rest \in Nat /\ rest # 0
    <3>1. PICK field \in {"src", "dst"} : Other(pkt, field) # 0
      BY DEF Other
    <3>2. \A w \in Word : /\ Rest(With(w), field) = Rest(pkt, field)
                          /\ Other(With(w), field) = Other(pkt, field)
                          /\ With(w)[field] = pkt[field]
      BY DEF Rest, Other, Packets
    <3>3. \A w \in Word : /\ Sum(With(w)) = Rest(pkt, field) + High(pkt[field]) + Low(pkt[field]) + w
                          /\ Rest(pkt, field) \in Nat /\ Rest(pkt, field) # 0
      <4>. HIDE DEF With
      <4>. QED  BY <1>1, <3>1, <3>2, SumSplits
    <3>4. High(pkt[field]) \in Nat /\ Low(pkt[field]) \in Nat
      <4>1. pkt[field] \in Addr
        BY DEF Packets
      <4>. QED  BY <1>0, <4>1, HalvesOfAddress
    <3>. DEFINE r == Rest(pkt, field)
                h == High(pkt[field])
                l == Low(pkt[field])
                c == r + h + l
    <3>5. 0 \in Word /\ Word \subseteq Nat
      BY <1>0
    <3>. HIDE DEF With
    <3>6. r \in Nat /\ r # 0 /\ h \in Nat /\ l \in Nat
      BY <3>3, <3>4, <3>5
    <3>7. \A w \in Word : Sum(With(w)) = r + h + l + w
      BY <3>3
    <3>. HIDE DEF r, h, l
    <3>8. c \in Nat /\ c # 0 /\ \A w \in Word : Sum(With(w)) = c + w
      BY <3>5, <3>6, <3>7
    <3>. HIDE DEF With, c
    <3>. QED  BY <3>5, <3>8
  <2>. HIDE DEF rest
  <2>2. rest \in Nat /\ rest # 0
    <3>1. 0 \in Word
      BY <1>0
    <3>. QED  BY <2>1, <3>1
  <2>3. Folded[rest] \in Word /\ \E k \in Nat : rest = Folded[rest] + k * Ones
    BY <2>2, FoldedCongruent
  <2>. DEFINE w == Ones - Folded[rest]
  <2>4. PICK k \in Nat : rest = Folded[rest] + k * Ones
    BY <2>3
  <2>5. w \in Word /\ rest + w = (k + 1) * Ones /\ rest + w \in Nat /\ rest + w # 0 /\ k + 1 \in Int
    BY <1>0, <2>2, <2>3, <2>4
  <2>. HIDE DEF w
  <2>6. Folded[rest + w] = Ones
    BY <2>5, ComesOut
  <2>7. Sum(With(w)) = rest + w
    BY <2>1, <2>5
  <2>. QED  BY <2>5, <2>6, <2>7
<1>3. CASE pkt.kind = "summed"
  <2>1. PICK w \in Word : Right(w) /\ Checksummed(pkt) = With(w)
    <3>. DEFINE c == CHOOSE w \in Word : Right(w)
    <3>1. c \in Word /\ Right(c)
      <4>. HIDE DEF With
      <4>. QED  BY <1>2
    <3>2. Checksummed(pkt) = With(c)
      BY <1>3 DEF Checksummed
    <3>. QED  BY <3>1, <3>2
  <2>. HIDE DEF With
  <2>. QED  BY <1>1, <2>1 DEF Intact
<1>4. CASE pkt.kind # "summed"
  <2>1. Checksummed(pkt) = With(0) /\ 0 \in Word
    BY <1>0, <1>4 DEF Checksummed
  <2>. HIDE DEF With
  <2>. QED  BY <1>1, <1>4, <2>1 DEF Intact
<1>. QED  BY <1>3, <1>4

(* One direction of the translator's list of maps.                           *)
Translates(maps, from, to) ==
  /\ DOMAIN maps \subseteq Nat
  /\ \A i \in DOMAIN maps : /\ maps[i][from] \in Prefix /\ maps[i][to] \in Prefix
                            /\ maps[i][from].bits = maps[i][to].bits

(* rewrite: a packet that is not dropped has been translated by a map that     *)
(* covers its address, or none does and it is the site's own.               *)
LEMMA RewriteOutcome ==
  ASSUME NEW maps, NEW from, NEW to, Translates(maps, from, to), NEW own,
         NEW pkt \in Packets, Intact(pkt), NEW field \in {"src", "dst"}, Other(pkt, field) # 0,
         Rewrite(maps, own, pkt, field, from, to) # None
  PROVE  LET out == Rewrite(maps, own, pkt, field, from, to) IN
         /\ out \in Packets /\ Intact(out) /\ Other(out, field) = Other(pkt, field)
         /\ \/ \E i \in DOMAIN maps : /\ Covers(maps[i][from], pkt[field])
                                      /\ out[field] = Remap(pkt[field], maps[i][from], maps[i][to])
            \/ /\ \A i \in DOMAIN maps : ~Covers(maps[i][from], pkt[field])
               /\ out = pkt /\ pkt[field] = own
<1>. DEFINE Matches == {i \in DOMAIN maps : Covers(maps[i][from], pkt[field])}
            First == CHOOSE i \in Matches : \A j \in Matches : i <= j
            new == Remap(pkt[field], maps[First][from], maps[First][to])
            out == Rewrite(maps, own, pkt, field, from, to)
<1>1. /\ pkt.kind # "malformed" /\ maps # <<>>
      /\ out = IF Matches = {} THEN (IF pkt[field] = own THEN pkt ELSE None)
               ELSE IF new = pkt[field] THEN pkt ELSE RewriteAddr(pkt, field, new)
  BY DEF Rewrite
<1>2. out # None
  OBVIOUS
<1>3. pkt[field] \in Addr
  BY DEF Packets
<1>. HIDE DEF out
<1>4. CASE Matches = {}
  <2>1. out = pkt /\ pkt[field] = own
    BY <1>1, <1>2, <1>4
  <2>2. \A i \in DOMAIN maps : ~Covers(maps[i][from], pkt[field])
    BY <1>4
  <2>. QED  BY <2>1, <2>2 DEF out
<1>5. CASE Matches # {}
  <2>1. First \in Matches
    <3>1. Matches \subseteq Nat
      BY DEF Translates
    <3>. HIDE DEF Matches
    <3>. QED  BY <1>5, <3>1, LeastNat
  <2>. HIDE DEF First
  <2>2. /\ First \in DOMAIN maps /\ Covers(maps[First][from], pkt[field])
        /\ maps[First][from] \in Prefix /\ maps[First][to] \in Prefix
        /\ maps[First][from].bits = maps[First][to].bits
    BY <2>1 DEF Translates
  <2>3. new \in Addr
    BY <1>3, <2>2, RemapLands
  <2>. HIDE DEF Matches
  <2>4. CASE new = pkt[field]
    <3>1. out = pkt
      BY <1>1, <1>5, <2>4
    <3>. QED  BY <2>2, <2>4, <3>1 DEF out
  <2>5. CASE new # pkt[field]
    <3>1. out = RewriteAddr(pkt, field, new)
      BY <1>1, <1>5, <2>5
    <3>2. out \in Packets /\ Intact(out) /\ out[field] = new /\ Other(out, field) = Other(pkt, field)
      BY <2>3, <3>1, RewriteAddrKeeps
    <3>. QED  BY <2>2, <3>2 DEF out
  <2>. QED  BY <2>4, <2>5
<1>. QED  BY <1>4, <1>5 DEF out

-------------------------------------------------------------------------------
(* ------------------------- the state's shape -------------------------- *)

GoodRoutes == {r \in Routes : Translatable(r) /\ Masked(Effective(r)) = Effective(r)}

Rows == [routes : Seq(Routes), unseen : SUBSET SiteIds]

Requests ==
  [kind : {"create", "enroll"}, pc : {"assign", "store"}, form : Seq(GoodRoutes),
   known : SUBSET Prefix, routes : Seq(GoodRoutes), unseen : SUBSET SiteIds]

Flights ==
  [at : {"agent", "host", "client"}, site : SiteIds, asked : Addr, of : SiteIds, pkt : Packets]

TablesOK ==
  /\ mode \in {"auto", "real", "virtual"}
  /\ sites \in [SiteIds -> Rows \cup {None}]
  /\ req \in [SiteIds -> Requests \cup {None}]
  /\ \A s \in Present : s \notin sites[s].unseen => sites[s].routes \in Seq(GoodRoutes)

LEMMA RouteOf ==
  ASSUME NEW r \in Routes
  PROVE  /\ r.real \in Prefix /\ Effective(r) \in Prefix
         /\ RouteMap(r).real \in Prefix /\ RouteMap(r).virtual \in Prefix
         /\ RouteMap(r).real.bits = r.real.bits /\ RouteMap(r).virtual.bits = Effective(r).bits
         /\ RouteMap(r).real = Masked(r.real) /\ RouteMap(r).virtual = Masked(Effective(r))
<1>1. r.real \in Prefix /\ Effective(r) \in Prefix
  BY DEF Routes, Effective
<1>. QED  BY <1>1, MaskedPrefix DEF RouteMap

LEMMA GoodIsRoute == Seq(GoodRoutes) \subseteq Seq(Routes)
BY DEF GoodRoutes

(* parseAgentRoutes, for every list it accepts.                              *)
LEMMA ParsedGood ==
  ASSUME NEW form \in Forms, Accepted(form)
  PROVE  Parsed(form) \in Seq(GoodRoutes)
<1>1. form \in Seq(Routes)
  BY ListAssumption
<1>. DEFINE kept(r) == [real |-> Masked(r.real),
                        virtual |-> IF r.virtual = None THEN None ELSE Masked(r.virtual)]
<1>2. ASSUME NEW r \in Routes, Translatable(r)
      PROVE  kept(r) \in GoodRoutes
  <2>1. CASE r.virtual = None
    <3>1. kept(r) = [real |-> Masked(r.real), virtual |-> None]
      BY <2>1
    <3>. HIDE DEF kept
    <3>2. Effective(kept(r)) = Masked(r.real) /\ r.real \in Prefix
      BY <3>1 DEF Effective, Routes
    <3>. QED  BY <3>1, <3>2, MaskedPrefix DEF GoodRoutes, Routes, Translatable
  <2>2. CASE r.virtual # None
    <3>1. kept(r) = [real |-> Masked(r.real), virtual |-> Masked(r.virtual)]
      BY <2>2
    <3>. HIDE DEF kept
    <3>2. r.real \in Prefix /\ r.virtual \in Prefix /\ r.virtual.bits = r.real.bits
      BY <1>2, <2>2 DEF Routes, Translatable, Effective
    <3>3. Effective(kept(r)) = Masked(r.virtual)
      BY <3>1, <3>2, MaskedPrefix, NoneAssumption DEF Effective
    <3>. QED  BY <3>1, <3>2, <3>3, MaskedPrefix DEF GoodRoutes, Routes, Translatable
  <2>. QED  BY <2>1, <2>2
<1>3. \A i \in DOMAIN form : form[i] \in Routes /\ Translatable(form[i])
  BY <1>1 DEF Accepted
<1>4. Parsed(form) = [i \in DOMAIN form |-> kept(form[i])]
  BY DEF Parsed
<1>. HIDE DEF kept
<1>5. DOMAIN form = 1..Len(form) /\ Len(form) \in Nat
  BY <1>1
<1>6. Parsed(form) \in [1..Len(form) -> GoodRoutes]
  BY <1>2, <1>3, <1>4, <1>5
<1>. QED  BY <1>5, <1>6

(* The prefixes of a list are prefixes; a longer list has the new one besides. *)
LEMMA EffectivePrefixes ==
  ASSUME NEW routes \in Seq(Routes)
  PROVE  /\ EffectiveOf(routes) \subseteq Prefix
         /\ \A r \in Routes : EffectiveOf(Append(routes, r)) = EffectiveOf(routes) \cup {Effective(r)}
<1>1. EffectiveOf(routes) \subseteq Prefix
  BY RouteOf DEF EffectiveOf
<1>2. ASSUME NEW r \in Routes
      PROVE  EffectiveOf(Append(routes, r)) = EffectiveOf(routes) \cup {Effective(r)}
  <2>1. /\ DOMAIN Append(routes, r) = DOMAIN routes \cup {Len(routes) + 1}
        /\ \A i \in DOMAIN routes : Append(routes, r)[i] = routes[i]
        /\ Append(routes, r)[Len(routes) + 1] = r
    OBVIOUS
  <2>. QED  BY <2>1 DEF EffectiveOf
<1>. QED  BY <1>1, <1>2

-------------------------------------------------------------------------------
(* ------------------------- assignment of routes ----------------------- *)

LEMMA CandidatePrefix ==
  ASSUME NEW bits \in 0..AddrBits
  PROVE  \A p \in Candidates(bits) : p \in Prefix /\ p.bits = bits /\ Masked(p) = p
<1>1. SUFFICES ASSUME NEW k \in {0} \cup {j \in 0..Size(Pool.bits) : j * Size(bits) < Size(Pool.bits)}
               PROVE  [base |-> Pool.base + k * Size(bits), bits |-> bits] \in Prefix
  BY MaskedPrefix DEF Candidates
<1>2. Pool.bits \in 0..AddrBits /\ Pool.base \in Addr /\ Pool.base \in Nat
  BY PrefixAssumption, SizeType DEF Prefix
<1>3. Size(bits) \in Nat \ {0} /\ Size(Pool.bits) \in Nat \ {0} /\ Size(0) \in Nat
  BY <1>2, WidthAssumption, SizeType
<1>4. Pool.base + Size(Pool.bits) - 1 \in Addr
  BY PrefixAssumption, MaskedPrefix
<1>5. k \in Nat /\ k * Size(bits) \in Nat /\ k * Size(bits) <= Size(Pool.bits) - 1
  BY <1>1, <1>3
<1>6. Pool.base + k * Size(bits) \in Addr
  <2>. DEFINE first == Pool.base
              size == Size(Pool.bits)
              far == k * Size(bits)
              top == Size(0)
  <2>1. Addr = 0..(top - 1)
    BY SizeType
  <2>2. /\ first \in Nat /\ size \in Nat /\ top \in Nat /\ first + size - 1 <= top - 1
        /\ far \in Nat /\ far <= size - 1
    BY <1>2, <1>3, <1>4, <1>5, <2>1
  <2>. HIDE DEF first, size, far, top
  <2>3. first + far \in Addr
    BY <2>1, <2>2
  <2>. QED  BY <2>3 DEF first, far
<1>. QED  BY <1>6 DEF Prefix

(* allocVirtualPrefix: a block like that, which nothing in use overlaps.       *)
LEMMA AllocatedFree ==
  ASSUME NEW bits \in 0..AddrBits, NEW used \in SUBSET Prefix, FreeBlocks(bits, used) # {}
  PROVE  /\ AllocVirtual(bits, used) \in Prefix /\ AllocVirtual(bits, used).bits = bits
         /\ Masked(AllocVirtual(bits, used)) = AllocVirtual(bits, used)
         /\ ~OverlapsAny(AllocVirtual(bits, used), used \cup {Tunnel})
<1>. DEFINE free == FreeBlocks(bits, used)
            bases == {p.base : p \in free}
<1>1. \A p \in free : /\ p \in Prefix /\ p.bits = bits /\ Masked(p) = p /\ p.base \in Nat
                      /\ ~OverlapsAny(p, used \cup {Tunnel})
  <2>1. \A p \in Prefix : p.base \in Nat
    BY SizeType DEF Prefix
  <2>. QED  BY <2>1, CandidatePrefix DEF FreeBlocks
<1>. HIDE DEF free
<1>2. \E p \in free : \A q \in free : p.base <= q.base
  <2>1. bases \subseteq Nat /\ bases # {}
    BY <1>1 DEF free
  <2>2. PICK b \in bases : \A c \in bases : b <= c
    <3>. HIDE DEF bases
    <3>. QED  BY <2>1, LeastNat
  <2>. QED  BY <2>2
<1>3. AllocVirtual(bits, used) \in free
  BY <1>2 DEF AllocVirtual, free
<1>. QED  BY <1>1, <1>3

Results == [ok : BOOLEAN, routes : Seq(GoodRoutes), used : SUBSET Prefix]

Disjoint(routes) ==
  \A i, j \in DOMAIN routes : i # j => ~Overlaps(Effective(routes[i]), Effective(routes[j]))

(* What assignRoutesPure has of the list so far.                             *)
Fits(done, used) ==
  done.ok => /\ Disjoint(done.routes)
             /\ used \cup EffectiveOf(done.routes) \subseteq done.used
             /\ \A p \in EffectiveOf(done.routes) : ~OverlapsAny(p, used \cup {Tunnel})

LEMMA TakeFits ==
  ASSUME NEW used \in SUBSET Prefix, NEW done \in Results, Fits(done, used), done.ok,
         NEW r \in GoodRoutes, ~OverlapsAny(Effective(r), done.used \cup {Tunnel})
  PROVE  Take(done, r) \in Results /\ Fits(Take(done, r), used)
<1>. DEFINE out == Take(done, r)
            all == Append(done.routes, r)
<1>1. /\ done.routes \in Seq(GoodRoutes) /\ done.used \subseteq Prefix
      /\ r \in Routes /\ Effective(r) \in Prefix
  BY RouteOf DEF Results, GoodRoutes
<1>2. out = [ok |-> TRUE, routes |-> all, used |-> done.used \cup {Effective(r)}]
  <2>1. done = [ok |-> TRUE, routes |-> done.routes, used |-> done.used]
    <3>1. done.ok = TRUE
      BY DEF Results
    <3>2. done = [ok |-> done.ok, routes |-> done.routes, used |-> done.used]
      BY DEF Results
    <3>. QED  BY <3>1, <3>2
  <2>. DEFINE was == done.routes
              had == done.used
              more == {Effective(r)}
  <2>2. done = [ok |-> TRUE, routes |-> was, used |-> had]
    BY <2>1
  <2>3. out = [done EXCEPT !.routes = Append(was, r), !.used = had \cup more]
    BY DEF Take
  <2>. HIDE DEF was, had, more, out
  <2>4. out = [ok |-> TRUE, routes |-> Append(was, r), used |-> had \cup more]
    BY <2>2, <2>3
  <2>. QED  BY <2>4 DEF was, had, more
<1>3. all \in Seq(GoodRoutes)
  BY <1>1
<1>4. EffectiveOf(all) = EffectiveOf(done.routes) \cup {Effective(r)}
  BY <1>1, GoodIsRoute, EffectivePrefixes
<1>5. Disjoint(all)
  <2>. DEFINE n == Len(done.routes)
  <2>1. /\ DOMAIN all = DOMAIN done.routes \cup {n + 1} /\ all[n + 1] = r
        /\ \A i \in DOMAIN done.routes : all[i] = done.routes[i]
    BY <1>1
  <2>2. ASSUME NEW i \in DOMAIN done.routes
        PROVE  /\ ~Overlaps(Effective(r), Effective(done.routes[i]))
               /\ ~Overlaps(Effective(done.routes[i]), Effective(r))
    <3>1. Effective(done.routes[i]) \in EffectiveOf(done.routes)
      BY DEF EffectiveOf
    <3>2. Effective(done.routes[i]) \in done.used /\ Effective(done.routes[i]) \in Prefix
      BY <1>1, <3>1 DEF Fits
    <3>3. ~Overlaps(Effective(r), Effective(done.routes[i]))
      BY <3>2 DEF OverlapsAny
    <3>. QED  BY <1>1, <3>2, <3>3, OverlapsEitherWay
  <2>3. Disjoint(done.routes)
    BY DEF Fits
  <2>. HIDE DEF all, n
  <2>. QED  BY <2>1, <2>2, <2>3 DEF Disjoint
<1>6. ~OverlapsAny(Effective(r), used \cup {Tunnel})
  BY DEF Fits, OverlapsAny
<1>. HIDE DEF all, out
<1>7. out \in Results
  BY <1>1, <1>2, <1>3 DEF Results
<1>8. Fits(out, used)
  BY <1>2, <1>4, <1>5, <1>6 DEF Fits
<1>. QED  BY <1>7, <1>8 DEF out

LEMMA AssignOneFits ==
  ASSUME NEW m \in {"auto", "real", "virtual"}, NEW used \in SUBSET Prefix,
         NEW done \in Results, Fits(done, used), NEW r \in GoodRoutes
  PROVE  AssignOne(m, done, r) \in Results /\ Fits(AssignOne(m, done, r), used)
<1>. DEFINE p == r.real
            conflict == OverlapsAny(p, done.used \cup {Tunnel, Pool})
            virtual == m = "virtual" \/ (m = "auto" /\ conflict)
            v == AllocVirtual(p.bits, done.used \cup {p})
            new == [r EXCEPT !.virtual = v]
            free == FreeBlocks(p.bits, done.used \cup {p})
            out == AssignOne(m, done, r)
<1>1. /\ p \in Prefix /\ p.bits \in 0..AddrBits /\ done.used \in SUBSET Prefix
      /\ r = [real |-> r.real, virtual |-> r.virtual]
  BY RouteOf DEF Results, Prefix, GoodRoutes, Routes
<1>2. Refused \in Results /\ Fits(Refused, used)
  BY DEF Refused, Results, Fits
<1>3. \/ out = Refused
      \/ /\ done.ok /\ r.virtual # None /\ ~OverlapsAny(r.virtual, done.used \cup {Tunnel})
         /\ out = Take(done, r)
      \/ /\ done.ok /\ r.virtual = None /\ ~conflict
         /\ out = Take(done, r)
      \/ /\ done.ok /\ r.virtual = None /\ free # {}
         /\ out = Take(done, new)
  <2>. HIDE DEF conflict, free, new
  <2>. QED  BY DEF AssignOne, conflict, free, new
<1>. HIDE DEF out
<1>4. CASE out = Refused
  BY <1>2, <1>4 DEF out
<1>5. CASE done.ok /\ r.virtual # None /\ ~OverlapsAny(r.virtual, done.used \cup {Tunnel})
           /\ out = Take(done, r)
  <2>1. Effective(r) = r.virtual
    BY <1>5 DEF Effective
  <2>. QED  BY <1>5, <2>1, TakeFits DEF out
<1>6. CASE done.ok /\ r.virtual = None /\ ~conflict /\ out = Take(done, r)
  <2>1. Effective(r) = p
    BY <1>6 DEF Effective
  <2>2. ~OverlapsAny(p, done.used \cup {Tunnel})
    BY <1>6 DEF OverlapsAny
  <2>. QED  BY <1>6, <2>1, <2>2, TakeFits DEF out
<1>7. CASE done.ok /\ r.virtual = None /\ free # {} /\ out = Take(done, new)
  <2>1. done.used \cup {p} \in SUBSET Prefix
    BY <1>1
  <2>2. /\ v \in Prefix /\ v.bits = p.bits /\ Masked(v) = v
        /\ ~OverlapsAny(v, (done.used \cup {p}) \cup {Tunnel})
    BY <1>1, <1>7, <2>1, AllocatedFree
  <2>. HIDE DEF v
  <2>3. new = [real |-> p, virtual |-> v]
    BY <1>1
  <2>. HIDE DEF new
  <2>4. Effective(new) = v
    BY <2>2, <2>3, NoneAssumption DEF Effective
  <2>5. new \in GoodRoutes
    BY <1>1, <2>2, <2>3, <2>4 DEF GoodRoutes, Routes, Translatable
  <2>6. ~OverlapsAny(Effective(new), done.used \cup {Tunnel})
    BY <2>2, <2>4 DEF OverlapsAny
  <2>. QED  BY <1>7, <2>5, <2>6, TakeFits DEF out
<1>. QED  BY <1>3, <1>4, <1>5, <1>6, <1>7

(* assignRoutesPure, for every mode, list and set of prefixes in use: what it     *)
(* hands out is well formed, overlaps neither the tunnel nor what was in use,  *)
(* and no two of it overlap each other.                                     *)
THEOREM AssignedFits ==
  ASSUME NEW m \in {"auto", "real", "virtual"}, NEW form \in Seq(GoodRoutes),
         NEW used \in SUBSET Prefix
  PROVE  AssignRoutesPure(m, form, used) \in Results /\ Fits(AssignRoutesPure(m, form, used), used)
<1>. DEFINE n == Len(form)
            first == [ok |-> TRUE, routes |-> <<>>, used |-> used]
            S == {d \in Results : Fits(d, used)}
            step == [i \in 1..n |-> [d \in S |-> AssignOne(m, d, form[i])]]
            body(f) == [i \in 0..n |-> IF i = 0 THEN first ELSE AssignOne(m, f[i - 1], form[i])]
<1>1. n \in Nat /\ \A i \in 1..n : form[i] \in GoodRoutes
  OBVIOUS
<1>2. first \in S
  BY DEF Results, Fits, Disjoint, EffectiveOf
<1>3. step \in Bodies(n, S)
  <2>1. \A i \in 1..n, d \in S : AssignOne(m, d, form[i]) \in S
    BY <1>1, AssignOneFits
  <2>. HIDE DEF S
  <2>. QED  BY <2>1 DEF Bodies
<1>4. PICK f \in Courses(n, S, first, step) : TRUE
  <2>1. Courses(n, S, first, step) # {}
    <3>. HIDE DEF n, first, S, step
    <3>. QED  BY <1>1, <1>2, <1>3, LoopExists
  <2>. QED  BY <2>1
<1>5. /\ f \in [0..n -> S] /\ f[0] = first
      /\ \A i \in 1..n : f[i] = step[i][f[i - 1]]
  BY <1>4 DEF Courses
<1>. DEFINE done == CHOOSE g : g = body(g)
<1>6. AssignRoutesPure(m, form, used) = done[n]
  BY DEF AssignRoutesPure
<1>7. done = body(done)
  <2>1. f = body(f)
    <3>1. \A i \in 1..n : i - 1 \in 0..n /\ f[i - 1] \in S
      <4>. HIDE DEF n, S
      <4>. QED  BY <1>1, <1>5
    <3>2. \A i \in 1..n : f[i] = AssignOne(m, f[i - 1], form[i])
      <4>. HIDE DEF S
      <4>. QED  BY <1>5, <3>1
    <3>3. \A i \in 0..n : f[i] = IF i = 0 THEN first ELSE AssignOne(m, f[i - 1], form[i])
      <4>. HIDE DEF first
      <4>. QED  BY <1>1, <1>5, <3>2
    <3>4. f = [i \in 0..n |-> f[i]]
      BY <1>5
    <3>. HIDE DEF n, first
    <3>. QED  BY <3>3, <3>4
  <2>. HIDE DEF body
  <2>. QED  BY <2>1
<1>. HIDE DEF done
<1>8. \A i \in 0..n : done[i] = IF i = 0 THEN first ELSE AssignOne(m, done[i - 1], form[i])
  BY <1>7
<1>. DEFINE Bad == {i \in 0..n : done[i] \notin S}
<1>9. Bad = {}
  <2>1. SUFFICES ASSUME Bad # {} PROVE FALSE
    OBVIOUS
  <2>2. PICK i \in Bad : \A j \in Bad : i <= j
    <3>1. Bad \subseteq Nat
      BY <1>1
    <3>. HIDE DEF Bad
    <3>. QED  BY <2>1, <3>1, LeastNat
  <2>. HIDE DEF S, first
  <2>3. CASE i = 0
    BY <1>2, <1>8, <2>2, <2>3
  <2>4. CASE i # 0
    <3>1. i \in 1..n /\ i - 1 \in 0..n /\ i - 1 \notin Bad
      BY <1>1, <2>2, <2>4
    <3>2. done[i - 1] \in S
      BY <3>1
    <3>3. AssignOne(m, done[i - 1], form[i]) \in S
      BY <1>1, <3>1, <3>2, AssignOneFits DEF S
    <3>. QED  BY <1>8, <2>2, <2>4, <3>1, <3>3
  <2>. QED  BY <2>3, <2>4
<1>10. done[n] \in S
  <2>1. n \in 0..n
    BY <1>1
  <2>. HIDE DEF S
  <2>. QED  BY <1>9, <2>1
<1>. QED  BY <1>6, <1>10

-------------------------------------------------------------------------------
(* ------------------------------- the tables --------------------------- *)

Separate(R, Q) == \A p \in EffectiveOf(R), q \in EffectiveOf(Q) : ~Overlaps(p, q)

Proper(R) == Disjoint(R) /\ \A p \in EffectiveOf(R) : ~Overlaps(p, Tunnel)

(* What is about to be stored overlaps only sites the request could not see.  *)
RequestsApart ==
  \A s \in SiteIds : req[s] # None /\ req[s].pc = "store" =>
    /\ Proper(req[s].routes)
    /\ \A t \in Present \ {s} :
         t \in req[s].unseen \/ Separate(req[s].routes, sites[t].routes)

(* What is stored overlaps only what was stored without regard to it.         *)
SitesApart ==
  \A s \in Present :
    /\ s \in sites[s].unseen \/ Proper(sites[s].routes)
    /\ \A t \in Present \ {s} :
         s \in sites[t].unseen \/ t \in sites[s].unseen \/ Separate(sites[s].routes, sites[t].routes)

TablesInv == TablesOK /\ RequestsApart /\ SitesApart

LEMMA SeparateEitherWay ==
  ASSUME NEW R \in Seq(Routes), NEW Q \in Seq(Routes), Separate(R, Q)
  PROVE  Separate(Q, R)
<1>1. EffectiveOf(R) \subseteq Prefix /\ EffectiveOf(Q) \subseteq Prefix
  BY EffectivePrefixes
<1>. QED  BY <1>1, OverlapsEitherWay DEF Separate

LEMMA PresentRows ==
  ASSUME TablesOK, NEW s \in Present
  PROVE  s \in SiteIds /\ sites[s] \in Rows /\ sites[s].routes \in Seq(Routes)
BY DEF TablesOK, Present, Rows

LEMMA PublishedPrefixes ==
  ASSUME TablesOK, NEW S \in SUBSET Present
  PROVE  Published(S) \in SUBSET Prefix
BY PresentRows, EffectivePrefixes DEF Published

LEMMA ModeStep ==
  ASSUME TablesInv, SetMode
  PROVE  TablesInv'
BY DEF TablesInv, TablesOK, RequestsApart, SitesApart, Present, SetMode

LEMMA BeginStep ==
  ASSUME TablesInv, NEW s \in SiteIds, BeginCreate(s) \/ BeginEnroll(s)
  PROVE  TablesInv'
<1>1. PICK q : req' = [req EXCEPT ![s] = q] /\ q \in Requests /\ q.pc = "assign"
  <2>1. Published(Present) \in SUBSET Prefix
    BY PublishedPrefixes DEF TablesInv
  <2>2. \A list \in Seq(GoodRoutes) :
          /\ Request("create", list, Published(Present)) \in Requests
          /\ Request("create", list, Published(Present)).pc = "assign"
          /\ Request("enroll", list, {}) \in Requests
          /\ Request("enroll", list, {}).pc = "assign"
    BY <2>1 DEF Request, Requests
  <2>3. CASE BeginCreate(s)
    <3>1. PICK form \in Forms :
            /\ Accepted(form)
            /\ req' = [req EXCEPT ![s] = Request("create", Parsed(form), Published(Present))]
      BY <2>3 DEF BeginCreate
    <3>. QED  BY <2>2, <3>1, ParsedGood
  <2>4. CASE BeginEnroll(s)
    <3>1. PICK form \in Forms :
            /\ Accepted(form)
            /\ req' = [req EXCEPT ![s] = Request("enroll", Parsed(form), {})]
      BY <2>4 DEF BeginEnroll
    <3>. QED  BY <2>2, <3>1, ParsedGood
  <2>. QED  BY <2>3, <2>4
<1>2. UNCHANGED <<mode, sites>>
  BY DEF BeginCreate, BeginEnroll
<1>3. req \in [SiteIds -> Requests \cup {None}]
  BY DEF TablesInv, TablesOK
<1>4. TablesOK'
  BY <1>1, <1>2, <1>3 DEF TablesInv, TablesOK, Present
<1>5. SitesApart'
  BY <1>2 DEF TablesInv, SitesApart, Present
<1>6. RequestsApart'
  <2>1. SUFFICES ASSUME NEW t \in SiteIds, req'[t] # None, req'[t].pc = "store"
                 PROVE  /\ Proper(req[t].routes) /\ req'[t] = req[t]
                        /\ \A u \in Present \ {t} :
                              u \in req[t].unseen \/ Separate(req[t].routes, sites[u].routes)
    BY <1>2 DEF RequestsApart, Present
  <2>2. t # s /\ req'[t] = req[t]
    BY <1>1, <1>3, <2>1
  <2>. QED  BY <2>1, <2>2 DEF TablesInv, RequestsApart
<1>. QED  BY <1>4, <1>5, <1>6 DEF TablesInv

LEMMA AssignStep ==
  ASSUME TablesInv, NEW s \in SiteIds, AssignRoutes(s)
  PROVE  TablesInv'
<1>. DEFINE used == Published(Present \ {s})
            got == AssignRoutesPure(mode, req[s].form, used)
            new == [req[s] EXCEPT !.pc = "store", !.routes = got.routes, !.form = <<>>, !.known = {}]
<1>1. /\ TablesOK /\ mode \in {"auto", "real", "virtual"} /\ req[s] \in Requests
      /\ req \in [SiteIds -> Requests \cup {None}]
      /\ UNCHANGED <<mode, sites>>
  BY DEF AssignRoutes, TablesInv, TablesOK
<1>2. got \in Results /\ Fits(got, used)
  <2>1. req[s].form \in Seq(GoodRoutes)
    BY <1>1 DEF Requests
  <2>2. used \in SUBSET Prefix
    BY <1>1, PublishedPrefixes
  <2>. HIDE DEF used
  <2>. QED  BY <1>1, <2>1, <2>2, AssignedFits
<1>3. \/ req' = [req EXCEPT ![s] = None]
      \/ got.ok /\ req' = [req EXCEPT ![s] = new]
  <2>. HIDE DEF got, new
  <2>. QED  BY DEF AssignRoutes, got, used, new
<1>4. new \in Requests /\ new.routes = got.routes /\ new.unseen = req[s].unseen
  <2>1. got.routes \in Seq(GoodRoutes)
    BY <1>2 DEF Results
  <2>2. <<>> \in Seq(GoodRoutes) /\ {} \in SUBSET Prefix
    OBVIOUS
  <2>. DEFINE none == <<>>
              unread == {}
              next == [req[s] EXCEPT !.pc = "store", !.routes = got.routes, !.form = none,
                                     !.known = unread]
  <2>3. new = next
    OBVIOUS
  <2>. HIDE DEF got, none, unread, new
  <2>4. next \in Requests
    BY <1>1, <2>1, <2>2 DEF Requests, none, unread
  <2>5. next.routes = got.routes /\ next.unseen = req[s].unseen
    BY <1>1 DEF Requests
  <2>. QED  BY <2>3, <2>4, <2>5
<1>. HIDE DEF new
<1>5. got.ok => /\ Proper(got.routes)
                /\ \A t \in Present \ {s} : Separate(got.routes, sites[t].routes)
  <2>. HIDE DEF got
  <2>. QED  BY <1>2 DEF Fits, Proper, Separate, OverlapsAny, Published
<1>. HIDE DEF got
<1>6. TablesOK'
  BY <1>1, <1>3, <1>4 DEF TablesOK, Present
<1>7. SitesApart'
  BY <1>1 DEF TablesInv, SitesApart, Present
<1>8. RequestsApart'
  <2>1. SUFFICES ASSUME NEW t \in SiteIds, req'[t] # None, req'[t].pc = "store"
                 PROVE  /\ Proper(req'[t].routes)
                        /\ \A u \in Present \ {t} :
                              u \in req'[t].unseen \/ Separate(req'[t].routes, sites[u].routes)
    BY <1>1 DEF RequestsApart, Present
  <2>2. CASE t = s
    BY <1>1, <1>3, <1>4, <1>5, <2>1, <2>2
  <2>3. CASE t # s
    <3>1. req'[t] = req[t]
      BY <1>1, <1>3, <2>3
    <3>. QED  BY <2>1, <3>1 DEF TablesInv, RequestsApart
  <2>. QED  BY <2>2, <2>3
<1>. QED  BY <1>6, <1>7, <1>8 DEF TablesInv

(* A request never overlaps what it could see; what it could not see it names.  *)
LEMMA StoreStep ==
  ASSUME TablesInv, NEW s \in SiteIds, Store(s)
  PROVE  TablesInv'
<1>. DEFINE gone == req[s].kind = "enroll" /\ sites[s] = None
            row == [routes |-> req[s].routes, unseen |-> req[s].unseen]
            late(t) == [req[t] EXCEPT !.unseen = @ \cup {s}]
<1>1. /\ TablesOK /\ mode' = mode
      /\ sites \in [SiteIds -> Rows \cup {None}] /\ req \in [SiteIds -> Requests \cup {None}]
      /\ req[s] \in Requests /\ req[s].pc = "store"
  BY DEF TablesInv, TablesOK, Store
<1>2. /\ sites' = IF gone THEN sites ELSE [sites EXCEPT ![s] = row]
      /\ req' = [t \in SiteIds |-> IF t = s THEN None
                                  ELSE IF req[t] # None /\ req[t].pc = "store" /\ ~gone
                                  THEN late(t) ELSE req[t]]
  BY DEF Store
<1>. HIDE DEF gone
<1>3. row \in Rows /\ row.routes \in Seq(GoodRoutes)
  BY <1>1, GoodIsRoute DEF Requests, Rows
<1>4. ASSUME NEW t \in SiteIds, req[t] # None
      PROVE  /\ late(t) \in Requests /\ late(t).pc = req[t].pc
             /\ late(t).routes = req[t].routes /\ late(t).unseen = req[t].unseen \cup {s}
  <2>1. req[t] \in Requests
    BY <1>1, <1>4
  <2>. QED  BY <2>1 DEF Requests
<1>5. Proper(req[s].routes) /\ \A t \in Present \ {s} :
         t \in req[s].unseen \/ Separate(req[s].routes, sites[t].routes)
  BY <1>1, NoneAssumption DEF TablesInv, RequestsApart, Store
<1>6. row.routes = req[s].routes /\ row.unseen = req[s].unseen
  OBVIOUS
<1>. HIDE DEF row, late
<1>7. ASSUME gone
      PROVE  TablesInv'
  <2>1. sites' = sites /\ req' = [req EXCEPT ![s] = None]
    <3>1. \A t \in SiteIds : req'[t] = IF t = s THEN None ELSE req[t]
      BY <1>2, <1>7
    <3>2. req' = [t \in SiteIds |-> req'[t]]
      BY <1>2
    <3>. QED  BY <1>1, <1>2, <1>7, <3>1, <3>2
  <2>2. TablesOK' /\ SitesApart'
    BY <1>1, <2>1 DEF TablesInv, TablesOK, SitesApart, Present
  <2>3. RequestsApart'
    <3>1. SUFFICES ASSUME NEW t \in SiteIds, req'[t] # None, req'[t].pc = "store"
                   PROVE  /\ Proper(req[t].routes) /\ req'[t] = req[t]
                          /\ \A u \in Present \ {t} :
                                u \in req[t].unseen \/ Separate(req[t].routes, sites[u].routes)
      BY <2>1 DEF RequestsApart, Present
    <3>2. t # s /\ req'[t] = req[t]
      BY <1>1, <2>1, <3>1
    <3>. QED  BY <3>1, <3>2 DEF TablesInv, RequestsApart
  <2>. QED  BY <2>2, <2>3 DEF TablesInv
<1>8. ASSUME ~gone
      PROVE  TablesInv'
  <2>1. sites' = [sites EXCEPT ![s] = row]
    BY <1>2, <1>8
  <2>2. \A t \in SiteIds : sites'[t] = IF t = s THEN row ELSE sites[t]
    BY <1>1, <2>1
  <2>3. \A t \in SiteIds : req'[t] = IF t = s THEN None
                                    ELSE IF req[t] # None /\ req[t].pc = "store"
                                    THEN late(t) ELSE req[t]
    BY <1>2, <1>8
  <2>4. TablesOK'
    <3>1. sites' \in [SiteIds -> Rows \cup {None}]
      BY <1>1, <1>3, <2>1
    <3>2. \A t \in SiteIds : req'[t] \in Requests \cup {None}
      BY <1>1, <1>4, <2>3
    <3>3. req' = [t \in SiteIds |-> req'[t]]
      BY <1>2
    <3>4. ASSUME NEW t \in Present', t \notin sites'[t].unseen
          PROVE  sites'[t].routes \in Seq(GoodRoutes)
      BY <1>1, <1>3, <2>2, <3>4 DEF TablesOK, Present
    <3>. QED  BY <1>1, <3>1, <3>2, <3>3, <3>4 DEF TablesOK
  <2>5. Present' \subseteq Present \cup {s}
    BY <2>2 DEF Present
  <2>6. SitesApart'
    <3>1. SUFFICES ASSUME NEW t \in Present'
                   PROVE  /\ t \in sites'[t].unseen \/ Proper(sites'[t].routes)
                          /\ \A u \in Present' \ {t} :
                                \/ t \in sites'[u].unseen \/ u \in sites'[t].unseen
                                \/ Separate(sites'[t].routes, sites'[u].routes)
      BY DEF SitesApart
    <3>2. t \in SiteIds /\ \A u \in Present' : u \in SiteIds
      BY DEF Present
    <3>3. CASE t = s
      <4>1. sites'[t] = row /\ \A u \in Present' \ {t} : sites'[u] = sites[u] /\ u \in Present \ {s}
        BY <2>2, <2>5, <3>2, <3>3
      <4>. QED  BY <1>5, <1>6, <4>1
    <3>4. CASE t # s
      <4>1. t \in Present /\ sites'[t] = sites[t]
        BY <2>2, <2>5, <3>2, <3>4
      <4>2. ASSUME NEW u \in Present' \ {t}
            PROVE  \/ t \in sites'[u].unseen \/ u \in sites'[t].unseen
                   \/ Separate(sites'[t].routes, sites'[u].routes)
        <5>1. CASE u = s
          <6>1. sites'[u] = row
            BY <2>2, <3>2, <5>1
          <6>2. t \in req[s].unseen \/ Separate(req[s].routes, sites[t].routes)
            BY <1>5, <3>4, <4>1
          <6>3. req[s].routes \in Seq(Routes) /\ sites[t].routes \in Seq(Routes)
            BY <1>1, <4>1, PresentRows, GoodIsRoute DEF Requests
          <6>4. t \in req[s].unseen \/ Separate(sites[t].routes, req[s].routes)
            BY <6>2, <6>3, SeparateEitherWay
          <6>. QED  BY <1>6, <4>1, <6>1, <6>4
        <5>2. CASE u # s
          <6>1. u \in Present \ {t} /\ sites'[u] = sites[u]
            BY <2>2, <2>5, <3>2, <5>2
          <6>. QED  BY <4>1, <6>1 DEF TablesInv, SitesApart
        <5>. QED  BY <5>1, <5>2
      <4>. QED  BY <4>1, <4>2 DEF TablesInv, SitesApart
    <3>. QED  BY <3>3, <3>4
  <2>7. RequestsApart'
    <3>1. SUFFICES ASSUME NEW t \in SiteIds, req'[t] # None, req'[t].pc = "store"
                   PROVE  /\ Proper(req'[t].routes)
                          /\ \A u \in Present' \ {t} :
                                u \in req'[t].unseen \/ Separate(req'[t].routes, sites'[u].routes)
      BY DEF RequestsApart
    <3>2. t # s /\ req[t] # None
      BY <2>3, <3>1
    <3>3. req[t].pc = "store"
      BY <1>4, <2>3, <3>1, <3>2
    <3>4. req'[t].routes = req[t].routes /\ req'[t].unseen = req[t].unseen \cup {s}
      BY <1>4, <2>3, <3>2, <3>3
    <3>5. Proper(req[t].routes) /\ \A u \in Present \ {t} :
             u \in req[t].unseen \/ Separate(req[t].routes, sites[u].routes)
      BY <3>2, <3>3 DEF TablesInv, RequestsApart
    <3>6. \A u \in Present' \ {t} : u = s \/ (u \in Present \ {t} /\ sites'[u] = sites[u])
      BY <2>2, <2>5 DEF Present
    <3>. QED  BY <3>4, <3>5, <3>6
  <2>. QED  BY <2>4, <2>6, <2>7 DEF TablesInv
<1>. QED  BY <1>7, <1>8

(* A name that is used anew has no history.                                  *)
LEMMA RevokeStep ==
  ASSUME TablesInv, NEW s \in SiteIds, Revoke(s)
  PROVE  TablesInv'
<1>. DEFINE bare(t) == [sites[t] EXCEPT !.unseen = @ \ {s}]
            less(t) == [req[t] EXCEPT !.unseen = @ \ {s}]
<1>1. /\ TablesOK /\ mode' = mode
      /\ sites \in [SiteIds -> Rows \cup {None}] /\ req \in [SiteIds -> Requests \cup {None}]
  BY DEF TablesInv, TablesOK, Revoke
<1>2. /\ sites' = [t \in SiteIds |-> IF t = s \/ sites[t] = None THEN None ELSE bare(t)]
      /\ req' = [t \in SiteIds |-> IF req[t] = None THEN None ELSE less(t)]
  BY DEF Revoke
<1>3. ASSUME NEW t \in SiteIds, sites[t] # None
      PROVE  /\ bare(t) \in Rows /\ bare(t).routes = sites[t].routes
             /\ bare(t).unseen = sites[t].unseen \ {s}
  <2>1. sites[t] \in Rows
    BY <1>1, <1>3
  <2>. QED  BY <2>1 DEF Rows
<1>4. ASSUME NEW t \in SiteIds, req[t] # None
      PROVE  /\ less(t) \in Requests /\ less(t).pc = req[t].pc
             /\ less(t).routes = req[t].routes /\ less(t).unseen = req[t].unseen \ {s}
  <2>1. req[t] \in Requests
    BY <1>1, <1>4
  <2>. QED  BY <2>1 DEF Requests
<1>. HIDE DEF bare, less
<1>5. TablesOK'
  <2>1. \A t \in SiteIds : sites'[t] \in Rows \cup {None} /\ req'[t] \in Requests \cup {None}
    BY <1>2, <1>3, <1>4
  <2>2. sites' = [t \in SiteIds |-> sites'[t]] /\ req' = [t \in SiteIds |-> req'[t]]
    BY <1>2
  <2>3. ASSUME NEW t \in Present', t \notin sites'[t].unseen
        PROVE  sites'[t].routes \in Seq(GoodRoutes)
    <3>1. /\ t \in Present \ {s} /\ sites'[t].routes = sites[t].routes
          /\ sites'[t].unseen = sites[t].unseen \ {s}
      BY <1>2, <1>3 DEF Present
    <3>. QED  BY <1>1, <2>3, <3>1 DEF TablesOK
  <2>. QED  BY <1>1, <2>1, <2>2, <2>3 DEF TablesOK
<1>6. ASSUME NEW t \in Present'
      PROVE  /\ t \in Present \ {s} /\ t \in SiteIds
             /\ sites'[t].routes = sites[t].routes /\ sites'[t].unseen = sites[t].unseen \ {s}
  BY <1>2, <1>3 DEF Present
<1>7. SitesApart'
  <2>1. SUFFICES ASSUME NEW t \in Present'
                 PROVE  /\ t \in sites'[t].unseen \/ Proper(sites'[t].routes)
                        /\ \A u \in Present' \ {t} :
                              \/ t \in sites'[u].unseen \/ u \in sites'[t].unseen
                              \/ Separate(sites'[t].routes, sites'[u].routes)
    BY DEF SitesApart
  <2>. QED  BY <1>6 DEF TablesInv, SitesApart
<1>8. RequestsApart'
  <2>1. SUFFICES ASSUME NEW t \in SiteIds, req'[t] # None, req'[t].pc = "store"
                 PROVE  /\ Proper(req'[t].routes)
                        /\ \A u \in Present' \ {t} :
                              u \in req'[t].unseen \/ Separate(req'[t].routes, sites'[u].routes)
    BY DEF RequestsApart
  <2>2. /\ req[t] # None /\ req[t].pc = "store"
        /\ req'[t].routes = req[t].routes /\ req'[t].unseen = req[t].unseen \ {s}
    BY <1>2, <1>4, <2>1
  <2>. QED  BY <1>6, <2>2 DEF TablesInv, RequestsApart
<1>. QED  BY <1>5, <1>7, <1>8 DEF TablesInv

LEMMA ImportStep ==
  ASSUME TablesInv, NEW s \in SiteIds, Import(s)
  PROVE  TablesInv'
<1>1. /\ sites \in [SiteIds -> Rows \cup {None}] /\ mode' = mode
      /\ mode \in {"auto", "real", "virtual"} /\ req' = [t \in SiteIds |-> None]
  BY DEF TablesInv, TablesOK, Import
<1>2. PICK preset \in Presets :
        sites' = [sites EXCEPT ![s] = [routes |-> preset, unseen |-> SiteIds]]
  BY DEF Import
<1>. DEFINE row == [routes |-> preset, unseen |-> SiteIds]
<1>3. row \in Rows /\ row.unseen = SiteIds
  BY ListAssumption DEF Rows
<1>4. sites' = [sites EXCEPT ![s] = row]
  BY <1>2
<1>. HIDE DEF row
<1>5. TablesOK' /\ RequestsApart'
  <2>1. ASSUME NEW t \in Present', t \notin sites'[t].unseen
        PROVE  sites'[t].routes \in Seq(GoodRoutes)
    BY <1>1, <1>3, <1>4, <2>1 DEF TablesInv, TablesOK, Present
  <2>. QED  BY <1>1, <1>3, <1>4, <2>1 DEF TablesOK, RequestsApart
<1>6. SitesApart'
  <2>1. \A t \in Present' : t \in SiteIds /\ sites'[t] = IF t = s THEN row ELSE sites[t]
    BY <1>1, <1>4 DEF Present
  <2>2. \A t \in Present' \ {s} : t \in Present
    BY <2>1 DEF Present
  <2>3. SUFFICES ASSUME NEW t \in Present'
                 PROVE  /\ t \in sites'[t].unseen \/ Proper(sites'[t].routes)
                        /\ \A u \in Present' \ {t} :
                              \/ t \in sites'[u].unseen \/ u \in sites'[t].unseen
                              \/ Separate(sites'[t].routes, sites'[u].routes)
    BY DEF SitesApart
  <2>4. CASE t = s
    BY <1>3, <2>1, <2>3, <2>4
  <2>5. CASE t # s
    BY <1>3, <2>1, <2>2, <2>3, <2>5 DEF TablesInv, SitesApart
  <2>. QED  BY <2>4, <2>5
<1>. QED  BY <1>5, <1>6 DEF TablesInv

LEMMA TablesStep ==
  ASSUME TablesInv, [Next]_vars
  PROVE  TablesInv'
<1>1. CASE packet = None /\ SetMode
  BY <1>1, ModeStep
<1>2. ASSUME NEW s \in SiteIds, Administer(s) PROVE TablesInv'
  BY <1>2, BeginStep, AssignStep, StoreStep, RevokeStep, ImportStep DEF Administer
<1>3. CASE UNCHANGED <<mode, sites, req>>
  BY <1>3 DEF TablesInv, TablesOK, RequestsApart, SitesApart, Present
<1>4. \A s \in SiteIds : Ask(s) => UNCHANGED <<mode, sites, req>>
  BY DEF Ask
<1>5. Deliver \/ Answer \/ Forget \/ UNCHANGED vars => UNCHANGED <<mode, sites, req>>
  BY DEF Deliver, Answer, Forget, vars
<1>. QED  BY <1>1, <1>2, <1>3, <1>4, <1>5 DEF Next

-------------------------------------------------------------------------------
(* -------------------------- whom an address names --------------------- *)

Claims(a) ==
  {c \in Present \X Published(Present) :
     c[2] \in EffectiveOf(sites[c[1]].routes) /\ Covers(c[2], a)}

(* Among the sites that claim an address the route table names one.           *)
LEMMA OwnerClaims ==
  ASSUME TablesOK, NEW a \in Addr
  PROVE  /\ Claims(a) = {} => Owner(a) = None
         /\ Claims(a) # {} => \E c \in Claims(a) : Owner(a) = c[1]
<1>. DEFINE Best == {c \in Claims(a) : \A d \in Claims(a) : d[2].bits <= c[2].bits}
            first == CHOOSE c \in Best : \A d \in Best : c[1] <= d[1]
<1>1. Owner(a) = IF Claims(a) = {} THEN None ELSE first[1]
  BY DEF Owner, Claims
<1>2. ASSUME NEW c \in Claims(a)
      PROVE  c[1] \in Nat /\ c[2].bits \in Nat /\ AddrBits - c[2].bits \in Nat
  <2>1. c[1] \in Nat /\ c[2] \in Prefix
    BY PublishedPrefixes, SiteAssumption DEF Claims, Present
  <2>. QED  BY <2>1, WidthAssumption DEF Prefix
<1>3. ASSUME Claims(a) # {}
      PROVE  first \in Best
  <2>. DEFINE Room == {AddrBits - c[2].bits : c \in Claims(a)}
              Names == {c[1] : c \in Best}
  <2>. HIDE DEF Best, first
  <2>1. PICK x \in Room : \A y \in Room : x <= y
    <3>1. Room \subseteq Nat /\ Room # {}
      BY <1>2, <1>3
    <3>. HIDE DEF Room
    <3>. QED  BY <3>1, LeastNat
  <2>2. PICK c \in Claims(a) : x = AddrBits - c[2].bits
    BY <2>1
  <2>3. \A d \in Claims(a) : d[2].bits <= c[2].bits
    <3>1. \A d \in Claims(a) : AddrBits - c[2].bits <= AddrBits - d[2].bits
      BY <2>1, <2>2
    <3>. QED  BY <1>2, <2>2, <3>1, WidthAssumption
  <2>4. Best # {} /\ Best \subseteq Claims(a)
    BY <2>2, <2>3 DEF Best
  <2>5. PICK n \in Names : \A m \in Names : n <= m
    <3>1. Names \subseteq Nat /\ Names # {}
      BY <1>2, <2>4
    <3>. HIDE DEF Names
    <3>. QED  BY <3>1, LeastNat
  <2>6. \E d \in Best : \A e \in Best : d[1] <= e[1]
    BY <2>5
  <2>. QED  BY <2>6 DEF first
<1>. HIDE DEF first
<1>. QED  BY <1>1, <1>3

(* Where nobody else has a prefix that overlaps, the address names its site.   *)
LEMMA OwnerOfSane ==
  ASSUME TablesInv, NEW s \in Present, Sane(s), NEW a \in Addr,
         NEW p \in EffectiveOf(sites[s].routes), Covers(p, a)
  PROVE  Owner(a) = s
<1>1. <<s, p>> \in Claims(a)
  BY DEF Claims, Published
<1>2. ASSUME NEW c \in Claims(a)
      PROVE  c[1] = s
  <2>1. /\ c[1] \in Present /\ c[2] \in EffectiveOf(sites[c[1]].routes) /\ Covers(c[2], a)
    BY DEF Claims
  <2>2. p \in Prefix /\ c[2] \in Prefix
    BY <2>1, PresentRows, EffectivePrefixes DEF TablesInv
  <2>3. Overlaps(p, c[2])
    BY <2>1, <2>2, SharedAddress
  <2>4. SUFFICES ASSUME c[1] # s PROVE FALSE
    OBVIOUS
  <2>5. Separate(sites[s].routes, sites[c[1]].routes)
    BY <2>1, <2>4 DEF TablesInv, SitesApart, Sane
  <2>. QED  BY <2>1, <2>3, <2>5 DEF Separate
<1>. QED  BY <1>1, <1>2, OwnerClaims DEF TablesInv

-------------------------------------------------------------------------------
(* ------------------------------ the packet ---------------------------- *)

(* Behind its site a packet is at the host with the number it was sent to.    *)
Landed ==
  \/ packet.pkt.dst = packet.asked /\ packet.asked = Own[packet.of]
  \/ \E i \in DOMAIN Maps(packet.of) :
        LET map == Maps(packet.of)[i]
        IN  /\ Covers(map.virtual, packet.asked)
            /\ packet.pkt.dst = Remap(packet.asked, map.virtual, map.real)

InFlight ==
  packet # None =>
    /\ packet \in Flights /\ Intact(packet.pkt) /\ sites[packet.of] # None /\ Readable
    /\ packet.at = "agent" => packet.pkt.src = Client /\ packet.pkt.dst = packet.asked
    /\ packet.at = "host" => packet.pkt.src = Client
    /\ Sane(packet.of) =>
         /\ packet.site = packet.of
         /\ packet.at = "host" => Landed
         /\ packet.at = "client" => packet.pkt.src = packet.asked

Inv == TablesInv /\ InFlight

LEMMA MapsOf ==
  ASSUME TablesOK, Readable, NEW s \in Present
  PROVE  /\ DOMAIN Maps(s) = DOMAIN sites[s].routes
         /\ Translates(Maps(s), "virtual", "real") /\ Translates(Maps(s), "real", "virtual")
         /\ \A i \in DOMAIN Maps(s) :
              /\ sites[s].routes[i] \in Routes
              /\ Maps(s)[i] = RouteMap(sites[s].routes[i])
              /\ Maps(s)[i].real \in Prefix /\ Maps(s)[i].virtual \in Prefix
              /\ Maps(s)[i].real.bits = Maps(s)[i].virtual.bits
              /\ Maps(s)[i].real = Masked(sites[s].routes[i].real)
              /\ Maps(s)[i].virtual = Masked(Effective(sites[s].routes[i]))
<1>1. sites[s].routes \in Seq(Routes)
  BY PresentRows
<1>2. DOMAIN Maps(s) = DOMAIN sites[s].routes /\ DOMAIN Maps(s) \subseteq Nat
  BY <1>1 DEF Maps
<1>3. \A i \in DOMAIN Maps(s) : /\ sites[s].routes[i] \in Routes
                                /\ Translatable(sites[s].routes[i])
                                /\ Maps(s)[i] = RouteMap(sites[s].routes[i])
  BY <1>1, <1>2 DEF Maps, Readable
<1>4. \A i \in DOMAIN Maps(s) :
        /\ Maps(s)[i].real \in Prefix /\ Maps(s)[i].virtual \in Prefix
        /\ Maps(s)[i].real.bits = Maps(s)[i].virtual.bits
        /\ Maps(s)[i].real = Masked(sites[s].routes[i].real)
        /\ Maps(s)[i].virtual = Masked(Effective(sites[s].routes[i]))
  BY <1>3, RouteOf DEF Translatable
<1>. QED  BY <1>2, <1>3, <1>4 DEF Translates

(* Nothing a sane site presents or has behind it covers its own address.      *)
LEMMA OwnIsForeign ==
  ASSUME TablesInv, Readable, NEW s \in Present, Sane(s), NEW i \in DOMAIN Maps(s)
  PROVE  ~Covers(Maps(s)[i].virtual, Own[s]) /\ ~Covers(Maps(s)[i].real, Own[s])
<1>1. /\ Own[s] \in Addr /\ Covers(Tunnel, Own[s]) /\ Tunnel \in Prefix
  BY TunnelAssumption, PrefixAssumption DEF Present
<1>2. /\ i \in DOMAIN sites[s].routes
      /\ Maps(s)[i].virtual = Masked(Effective(sites[s].routes[i]))
      /\ Effective(sites[s].routes[i]) \in Prefix
      /\ Maps(s)[i].real = Masked(sites[s].routes[i].real) /\ sites[s].routes[i].real \in Prefix
  BY MapsOf, RouteOf DEF TablesInv
<1>3. ~Overlaps(Effective(sites[s].routes[i]), Tunnel)
  BY <1>2 DEF TablesInv, SitesApart, Sane, Proper, EffectiveOf
<1>4. ~Overlaps(sites[s].routes[i].real, Tunnel)
  BY <1>2 DEF Sane
<1>. QED  BY <1>1, <1>2, <1>3, <1>4, SharedAddress, MaskedCovers

LEMMA AskStep ==
  ASSUME Inv, NEW s \in SiteIds, Ask(s)
  PROVE  InFlight'
<1>. DEFINE Reached == {x \in Addr : \E p \in EffectiveOf(sites[s].routes) : Covers(p, x)} \cup {Own[s]}
            sent(a, kind, data) == [src |-> Client, dst |-> a, kind |-> kind, data |-> data, sum |-> 0]
            site(a) == IF a = Own[s] THEN s ELSE Owner(a)
<1>1. PICK a \in Reached, kind \in Kinds, data \in Word :
        /\ packet' = [at |-> "agent", site |-> site(a), asked |-> a, of |-> s,
                     pkt |-> Checksummed(sent(a, kind, data))]
        /\ packet'.site # None
  BY DEF Ask
<1>2. s \in Present /\ UNCHANGED <<mode, sites, req>> /\ TablesInv /\ TablesOK /\ Readable
  BY DEF Ask, Present, Inv, TablesInv
<1>3. a \in Addr /\ Own[s] \in Addr /\ Client \in Addr \ {0}
  BY TunnelAssumption
<1>4. sent(a, kind, data) \in Packets
  <2>1. 0 \in Word
    BY WordType
  <2>. QED  BY <1>3, <2>1 DEF Packets
<1>. DEFINE pkt == Checksummed(sent(a, kind, data))
<1>5. pkt \in Packets /\ Intact(pkt) /\ pkt.src = Client /\ pkt.dst = a
  <2>1. sent(a, kind, data).src = Client /\ sent(a, kind, data).dst = a
    OBVIOUS
  <2>. HIDE DEF sent
  <2>. QED  BY <1>3, <1>4, <2>1, ChecksummedIntact
<1>6. site(a) \in SiteIds
  <2>1. site(a) # None
    BY <1>1
  <2>2. a # Own[s] => \E c \in Claims(a) : site(a) = c[1]
    BY <1>2, <1>3, <2>1, OwnerClaims
  <2>. QED  BY <2>2 DEF Claims, Present
<1>7. Sane(s) => site(a) = s
  BY <1>1, <1>2, <1>3, OwnerOfSane
<1>8. Sane(s)' <=> Sane(s)
  BY <1>2 DEF Sane, Present
<1>. HIDE DEF sent, site, pkt
<1>9. packet' = [at |-> "agent", site |-> site(a), asked |-> a, of |-> s, pkt |-> pkt]
  BY <1>1 DEF pkt
<1>10. packet' \in Flights
  BY <1>3, <1>5, <1>6, <1>9 DEF Flights
<1>11. Readable'
  BY <1>2 DEF Readable, Present
<1>. QED  BY <1>2, <1>5, <1>7, <1>8, <1>9, <1>10, <1>11 DEF InFlight, Present

(* deliverData: what the host receives was sent by the client and is intact.    *)
LEMMA DeliverStep ==
  ASSUME Inv, Deliver
  PROVE  InFlight'
<1>. DEFINE of == packet.of
            maps == Maps(packet.site)
            got == ToLocal(maps, Own[packet.site], packet.pkt)
<1>1. /\ packet # None /\ packet.at = "agent" /\ sites[packet.site] # None
      /\ packet' = IF got = None THEN None ELSE [packet EXCEPT !.at = "host", !.pkt = got]
      /\ UNCHANGED <<mode, sites, req>>
  BY DEF Deliver
<1>2. /\ packet \in Flights /\ Intact(packet.pkt) /\ sites[of] # None
      /\ packet.pkt.src = Client /\ packet.pkt.dst = packet.asked
      /\ Sane(of) => packet.site = of
  BY <1>1 DEF Inv, InFlight
<1>3. /\ packet.site \in Present /\ of \in Present /\ packet.pkt \in Packets
      /\ packet.asked \in Addr /\ Client # 0 /\ TablesOK /\ Readable
  BY <1>1, <1>2, TunnelAssumption DEF Flights, Present, Inv, InFlight, TablesInv
<1>. SUFFICES ASSUME got # None
              PROVE  InFlight'
  BY <1>1 DEF InFlight
<1>4. packet' = [packet EXCEPT !.at = "host", !.pkt = got]
  BY <1>1
<1>5. /\ got \in Packets /\ Intact(got) /\ got.src = Client
      /\ \/ \E i \in DOMAIN maps : /\ Covers(maps[i].virtual, packet.asked)
                                   /\ got.dst = Remap(packet.asked, maps[i].virtual, maps[i].real)
         \/ got.dst = packet.asked /\ packet.asked = Own[packet.site]
  <2>1. got = Rewrite(maps, Own[packet.site], packet.pkt, "dst", "virtual", "real")
    BY DEF ToLocal
  <2>2. \A q : Other(q, "dst") = q.src
    BY DEF Other
  <2>3. Translates(maps, "virtual", "real")
    BY <1>3, MapsOf
  <2>4. Other(packet.pkt, "dst") # 0
    BY <1>2, <1>3, <2>2
  <2>. HIDE DEF got, maps
  <2>5. /\ got \in Packets /\ Intact(got) /\ Other(got, "dst") = Other(packet.pkt, "dst")
        /\ \/ \E i \in DOMAIN maps :
                 /\ Covers(maps[i]["virtual"], packet.pkt["dst"])
                 /\ got["dst"] = Remap(packet.pkt["dst"], maps[i]["virtual"], maps[i]["real"])
           \/ got = packet.pkt /\ packet.pkt["dst"] = Own[packet.site]
    BY <1>2, <1>3, <2>1, <2>3, <2>4, RewriteOutcome
  <2>. QED  BY <1>2, <2>2, <2>5
<1>. HIDE DEF got
<1>6. /\ packet' \in Flights /\ packet'.at = "host" /\ packet'.pkt = got
      /\ packet'.of = of /\ packet'.site = packet.site /\ packet'.asked = packet.asked
  BY <1>2, <1>4, <1>5 DEF Flights
<1>7. Sane(of)' <=> Sane(of)
  BY <1>1, <1>6 DEF Sane, Present
<1>8. Maps(of)' = Maps(of)
  BY <1>1, <1>6 DEF Maps
<1>9. Sane(of) => Landed'
  BY <1>2, <1>5, <1>6, <1>8 DEF Landed
<1>10. Readable'
  BY <1>1, <1>3 DEF Readable, Present
<1>. QED  BY <1>1, <1>2, <1>5, <1>6, <1>7, <1>9, <1>10 DEF InFlight

(* sendFromTun: the answer seems to come from the address that was asked.       *)
LEMMA AnswerStep ==
  ASSUME Inv, Answer
  PROVE  InFlight'
<1>. DEFINE of == packet.of
            maps == Maps(packet.site)
            host == packet.pkt.dst
            reply == [packet.pkt EXCEPT !.src = host, !.dst = Client]
            answer == Checksummed(reply)
            got == ToTunnel(maps, Own[packet.site], answer)
<1>1. /\ packet # None /\ packet.at = "host" /\ sites[packet.site] # None
      /\ packet' = IF got = None THEN None ELSE [packet EXCEPT !.at = "client", !.pkt = got]
      /\ UNCHANGED <<mode, sites, req>>
  BY DEF Answer
<1>2. /\ packet \in Flights /\ sites[of] # None
      /\ Sane(of) => packet.site = of /\ Landed
  BY <1>1 DEF Inv, InFlight
<1>3. /\ packet.site \in Present /\ of \in Present /\ packet.pkt \in Packets
      /\ packet.asked \in Addr /\ Client \in Addr \ {0} /\ TablesOK /\ TablesInv
      /\ Own[of] \in Addr /\ Readable
  BY <1>1, <1>2, TunnelAssumption DEF Flights, Present, Inv, InFlight, TablesInv
<1>4. host \in Addr /\ reply \in Packets /\ reply.src = host /\ reply.dst = Client
  BY <1>3 DEF Packets
<1>. HIDE DEF reply
<1>5. answer \in Packets /\ Intact(answer) /\ answer.src = host /\ answer.dst = Client
  BY <1>3, <1>4, ChecksummedIntact
<1>. HIDE DEF answer
<1>. SUFFICES ASSUME got # None
              PROVE  InFlight'
  BY <1>1 DEF InFlight
<1>6. packet' = [packet EXCEPT !.at = "client", !.pkt = got]
  BY <1>1
<1>7. /\ got \in Packets /\ Intact(got)
      /\ \/ \E i \in DOMAIN maps : /\ Covers(maps[i].real, host)
                                   /\ got.src = Remap(host, maps[i].real, maps[i].virtual)
         \/ /\ \A i \in DOMAIN maps : ~Covers(maps[i].real, host)
            /\ got.src = host
  <2>1. got = Rewrite(maps, Own[packet.site], answer, "src", "real", "virtual")
    BY DEF ToTunnel
  <2>2. \A q : Other(q, "src") = q.dst
    BY DEF Other
  <2>3. Translates(maps, "real", "virtual")
    BY <1>3, MapsOf
  <2>4. Other(answer, "src") # 0
    BY <1>3, <1>5, <2>2
  <2>. HIDE DEF got, maps, host
  <2>5. /\ got \in Packets /\ Intact(got)
        /\ \/ \E i \in DOMAIN maps :
                 /\ Covers(maps[i]["real"], answer["src"])
                 /\ got["src"] = Remap(answer["src"], maps[i]["real"], maps[i]["virtual"])
           \/ /\ \A i \in DOMAIN maps : ~Covers(maps[i]["real"], answer["src"])
              /\ got = answer
    BY <1>5, <2>1, <2>3, <2>4, RewriteOutcome
  <2>. QED  BY <1>5, <2>5
<1>. HIDE DEF got
<1>8. ASSUME Sane(of)
      PROVE  got.src = packet.asked
  <2>1. packet.site = of /\ maps = Maps(of)
    BY <1>2, <1>8
  <2>2. CASE host = packet.asked /\ packet.asked = Own[of]
    <3>1. \A i \in DOMAIN maps : ~Covers(maps[i].real, host)
      BY <1>3, <1>8, <2>1, <2>2, OwnIsForeign
    <3>. HIDE DEF maps, host
    <3>. QED  BY <1>7, <2>2, <3>1
  <2>3. CASE \E i \in DOMAIN maps : /\ Covers(maps[i].virtual, packet.asked)
                                    /\ host = Remap(packet.asked, maps[i].virtual, maps[i].real)
    <3>1. PICK i \in DOMAIN maps : /\ Covers(maps[i].virtual, packet.asked)
                                  /\ host = Remap(packet.asked, maps[i].virtual, maps[i].real)
      BY <2>3
    <3>2. \A j \in DOMAIN maps :
            /\ j \in DOMAIN sites[of].routes /\ sites[of].routes[j].real \in Prefix
            /\ maps[j].real \in Prefix /\ maps[j].virtual \in Prefix
            /\ maps[j].real.bits = maps[j].virtual.bits
            /\ maps[j].real = Masked(sites[of].routes[j].real)
      BY <1>3, <2>1, MapsOf, RouteOf
    <3>. HIDE DEF maps, host
    <3>3. Covers(maps[i].real, host)
      BY <1>3, <3>1, <3>2, RemapLands
    <3>4. PICK j \in DOMAIN maps : /\ Covers(maps[j].real, host)
                                  /\ got.src = Remap(host, maps[j].real, maps[j].virtual)
      BY <1>7, <3>3
    <3>5. j = i
      <4>1. SUFFICES ASSUME j # i PROVE FALSE
        OBVIOUS
      <4>2. Overlaps(sites[of].routes[i].real, sites[of].routes[j].real)
        BY <1>4, <3>2, <3>3, <3>4, SharedAddress, MaskedCovers
      <4>. QED  BY <1>8, <3>2, <4>1, <4>2 DEF Sane
    <3>6. Remap(host, maps[i].real, maps[i].virtual) = packet.asked
      BY <1>3, <3>1, <3>2, RemapBack
    <3>. QED  BY <3>4, <3>5, <3>6
  <2>4. Landed
    BY <1>2, <1>8
  <2>. QED  BY <2>1, <2>2, <2>3, <2>4 DEF Landed
<1>9. /\ packet' \in Flights /\ packet'.at = "client" /\ packet'.pkt = got
      /\ packet'.of = of /\ packet'.site = packet.site /\ packet'.asked = packet.asked
  BY <1>2, <1>6, <1>7 DEF Flights
<1>10. Sane(of)' <=> Sane(of)
  BY <1>1, <1>9 DEF Sane, Present
<1>11. Readable'
  BY <1>1, <1>3 DEF Readable, Present
<1>. QED  BY <1>1, <1>2, <1>7, <1>8, <1>9, <1>10, <1>11 DEF InFlight

LEMMA InvInit == Init => Inv
BY DEF Init, Inv, TablesInv, TablesOK, RequestsApart, SitesApart, Present, InFlight

LEMMA InvStep == Inv /\ [Next]_vars => Inv'
<1>. SUFFICES ASSUME Inv, [Next]_vars
              PROVE  Inv'
  OBVIOUS
<1>1. TablesInv'
  BY TablesStep DEF Inv
<1>2. CASE UNCHANGED vars
  <2>1. UNCHANGED <<mode, sites, req, packet>>
    BY <1>2 DEF vars
  <2>2. Landed' <=> Landed
    BY <2>1 DEF Landed, Maps
  <2>3. packet # None => (Sane(packet.of)' <=> Sane(packet.of)) /\ (Readable' <=> Readable)
    BY <2>1 DEF Sane, Readable, Present
  <2>. QED  BY <1>1, <2>1, <2>2, <2>3 DEF Inv, InFlight
<1>3. ASSUME packet = None, packet' = packet PROVE InFlight'
  BY <1>3 DEF InFlight
<1>4. packet = None /\ SetMode => packet' = packet
  BY DEF SetMode
<1>5. \A s \in SiteIds : Administer(s) => packet = None /\ packet' = packet
  BY DEF Administer, BeginCreate, BeginEnroll, AssignRoutes, Store, Revoke, Import
<1>6. Forget => InFlight'
  BY DEF Forget, InFlight
<1>7. InFlight'
  BY <1>2, <1>3, <1>4, <1>5, <1>6, AskStep, DeliverStep, AnswerStep DEF Next, Inv
<1>. QED  BY <1>1, <1>7 DEF Inv

LEMMA Invariant == Spec => []Inv
BY InvInit, InvStep, PTL DEF Spec

-------------------------------------------------------------------------------
(* ------------------------------- theorems ----------------------------- *)

(* Whatever operators type, machines report and preset files say: what is       *)
(* stored of a form is masked and can be translated without state, so only a   *)
(* preset file can make agents.json unreadable (agents.go: parseAgentRoutes;  *)
(* routes.go: assignRoutesPure; preprovision.go; addrmap.go: ParseRouteMap).   *)
THEOREM TypeCorrect == Spec => []TypeOK
<1>1. Inv => TypeOK
  <2>. SUFFICES ASSUME Inv
                PROVE  TypeOK
    OBVIOUS
  <2>1. \A s \in Present : sites[s] \in Rows
    BY PresentRows DEF Inv, TablesInv
  <2>2. ASSUME NEW s \in Present, NEW i \in DOMAIN sites[s].routes
        PROVE  /\ sites[s].routes[i] \in Routes
               /\ s \notin sites[s].unseen => sites[s].routes[i] \in GoodRoutes
    BY <2>1 DEF Rows, Inv, TablesInv, TablesOK
  <2>3. \A s \in SiteIds : req[s] # None => req[s] \in Requests
    BY DEF Inv, TablesInv, TablesOK
  <2>4. \A s \in SiteIds : req[s] # None =>
          req[s].pc \in {"assign", "store"} /\ req[s].unseen \subseteq SiteIds
    BY <2>3 DEF Requests
  <2>5. packet # None => packet.at \in {"agent", "host", "client"} /\ packet.pkt \in Packets
    BY DEF Inv, InFlight, Flights
  <2>6. \A s \in Present : sites[s].unseen \subseteq SiteIds
    BY <2>1 DEF Rows
  <2>. QED  BY <2>2, <2>4, <2>5, <2>6 DEF TypeOK, GoodRoutes, Inv, TablesInv, TablesOK
<1>. QED  BY <1>1, Invariant, PTL

(* Whatever forms, machines and files contain, and however the requests that    *)
(* assign and store routes interleave, every address the sites publish names  *)
(* one site, and none is the tunnel's own, except between sites whose requests *)
(* overlapped or that were imported as they were (routes.go: assignRoutes;    *)
(* agents.go: validateRouteSet).                                            *)
THEOREM SitesKeepApart == Spec => []OneSitePerAddress
<1>1. Inv => OneSitePerAddress
  <2>. SUFFICES ASSUME Inv
                PROVE  OneSitePerAddress
    OBVIOUS
  <2>. SUFFICES ASSUME NEW s \in Present
                PROVE  /\ \A t \in Present : Clash(s, t) => s \in sites[t].unseen \/ t \in sites[s].unseen
                       /\ OverlapsAny(Tunnel, EffectiveOf(sites[s].routes)) => s \in sites[s].unseen
    BY DEF OneSitePerAddress
  <2>1. s \in sites[s].unseen \/ Proper(sites[s].routes)
    BY DEF Inv, TablesInv, SitesApart
  <2>2. ASSUME NEW t \in Present, Clash(s, t), t # s
        PROVE  s \in sites[t].unseen \/ t \in sites[s].unseen
    <3>1. ~Separate(sites[s].routes, sites[t].routes)
      BY <2>2 DEF Clash, Separate, EffectiveOf
    <3>. QED  BY <2>2, <3>1 DEF Inv, TablesInv, SitesApart
  <2>3. ASSUME Clash(s, s)
        PROVE  s \in sites[s].unseen
    <3>1. ~Disjoint(sites[s].routes)
      BY <2>3 DEF Clash, Disjoint
    <3>. QED  BY <2>1, <3>1 DEF Proper
  <2>4. ASSUME OverlapsAny(Tunnel, EffectiveOf(sites[s].routes))
        PROVE  s \in sites[s].unseen
    <3>1. EffectiveOf(sites[s].routes) \subseteq Prefix
      BY PresentRows, EffectivePrefixes DEF Inv, TablesInv
    <3>2. ~Proper(sites[s].routes)
      BY <2>4, <3>1, PrefixAssumption, OverlapsEitherWay DEF OverlapsAny, Proper
    <3>. QED  BY <2>1, <3>2
  <2>. QED  BY <2>2, <2>3, <2>4
<1>. QED  BY <1>1, Invariant, PTL

(* For every width of an address, every pool, every list of networks and every  *)
(* packet: where addresses are unambiguous, a packet reaches the site and the  *)
(* host it was sent to, the answer comes from the address that was asked, and *)
(* both checksums come out (addrmap.go: rewrite, remapAddr, checksumDelta).   *)
THEOREM PacketsComeBack == Spec => []ThereAndBack
<1>1. Inv => ThereAndBack
  <2>. SUFFICES ASSUME Inv, packet # None, sites[packet.of] # None, Sane(packet.of)
                PROVE  CASE packet.at = "agent"  -> packet.site = packet.of
                         [] packet.at = "host"   ->
                              /\ Intact(packet.pkt)
                              /\ \/ packet.pkt.dst = packet.asked /\ packet.asked = Own[packet.of]
                                 \/ \E i \in DOMAIN sites[packet.of].routes :
                                      LET map == RouteMap(sites[packet.of].routes[i])
                                      IN  /\ Covers(map.virtual, packet.asked)
                                          /\ packet.pkt.dst - map.real.base = packet.asked - map.virtual.base
                         [] packet.at = "client" -> Intact(packet.pkt) /\ packet.pkt.src = packet.asked
    BY DEF ThereAndBack
  <2>. DEFINE of == packet.of
  <2>1. /\ packet \in Flights /\ Intact(packet.pkt) /\ packet.site = of
        /\ packet.at = "host" => Landed
        /\ packet.at = "client" => packet.pkt.src = packet.asked
    BY DEF Inv, InFlight
  <2>2. of \in Present /\ TablesOK /\ Readable /\ packet.asked \in Addr /\ packet.at \in {"agent", "host", "client"}
    BY <2>1 DEF Flights, Present, Inv, InFlight, TablesInv
  <2>3. ASSUME packet.at = "host", NEW i \in DOMAIN Maps(of), Covers(Maps(of)[i].virtual, packet.asked),
               packet.pkt.dst = Remap(packet.asked, Maps(of)[i].virtual, Maps(of)[i].real)
        PROVE  LET map == RouteMap(sites[of].routes[i])
               IN  /\ i \in DOMAIN sites[of].routes /\ Covers(map.virtual, packet.asked)
                   /\ packet.pkt.dst - map.real.base = packet.asked - map.virtual.base
    <3>. DEFINE map == Maps(of)[i]
    <3>1. /\ i \in DOMAIN sites[of].routes /\ map = RouteMap(sites[of].routes[i])
          /\ map.real \in Prefix /\ map.virtual \in Prefix /\ map.real.bits = map.virtual.bits
          /\ sites[of].routes[i] \in Routes
          /\ map.real = Masked(sites[of].routes[i].real)
          /\ map.virtual = Masked(Effective(sites[of].routes[i]))
      BY <2>2, MapsOf
    <3>2. Masked(map.real) = map.real /\ Masked(map.virtual) = map.virtual
      BY <3>1, RouteOf, MaskedPrefix
    <3>. HIDE DEF map
    <3>3. packet.pkt.dst - Masked(map.real).base = packet.asked % Size(map.virtual.bits)
      BY <2>2, <2>3, <3>1, RemapLands DEF map
    <3>4. packet.asked - Masked(map.virtual).base = packet.asked % Size(map.virtual.bits)
      BY <2>2, <2>3, <3>1, HostBits DEF map
    <3>. QED  BY <2>3, <3>1, <3>2, <3>3, <3>4 DEF map
  <2>4. CASE packet.at = "agent"
    BY <2>1, <2>4
  <2>5. CASE packet.at = "host"
    <3>1. \/ packet.pkt.dst = packet.asked /\ packet.asked = Own[of]
          \/ \E i \in DOMAIN sites[of].routes :
                LET map == RouteMap(sites[of].routes[i])
                IN  /\ Covers(map.virtual, packet.asked)
                    /\ packet.pkt.dst - map.real.base = packet.asked - map.virtual.base
      BY <2>1, <2>3, <2>5 DEF Landed
    <3>. QED  BY <2>1, <2>5, <3>1
  <2>6. CASE packet.at = "client"
    BY <2>1, <2>6
  <2>. QED  BY <2>2, <2>4, <2>5, <2>6
<1>. QED  BY <1>1, Invariant, PTL
===============================================================================
