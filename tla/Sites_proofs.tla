------------------------------ MODULE Sites_proofs -----------------------------
(***************************************************************************)
(* Proofs about Sites for any number of requests, install codes and keys:  *)
(* the state is well formed, a site admits its machine or the bringer of   *)
(* its code and never both, what is published by a request that ran alone  *)
(* is what the database says, and a machine that holds the site is not     *)
(* displaced behind the operator's back.                                   *)
(*                                                                         *)
(* A step of one request matters to the others by what it does to the row; *)
(* so each part of the inductive invariant says what a request half way    *)
(* may rely on of a row anybody can change meanwhile.                      *)
(***************************************************************************)
EXTENDS Sites, FiniteSetTheorems, TLAPS

(* A request that is not under way holds nothing; one that has read what it  *)
(* will publish brings no key any more; the statement a request is at is    *)
(* one of its handler.                                                     *)
WellFormed(q) ==
  /\ q.pc = "idle" => q.code = Nothing /\ q.key = Nothing /\ q.doc = Nothing /\ ~q.held
  /\ q.doc # Nothing => q.key = Nothing
  /\ q.pc \in {"clients", "read"} => q.key = Nothing
  /\ q.pc = "reset" => q.kind = "newcode"
  /\ q.pc = "routes" => q.kind = "enroll"
  /\ q.pc = "bind" => q.kind \in {"package", "enroll"}

(* A request that read the row can rely on a row of that id until the site   *)
(* is deleted.                                                             *)
HeldRow == \A r \in Reqs : req[r].held => row # Nothing

(* Between its two statements a request for a new code finds no key, unless   *)
(* one came in between.                                                    *)
DetachedHalfWay ==
  \A r \in Reqs : req[r].pc = "code" /\ req[r].held => row.key = Nothing \/ crossed

(* A machine whose code was valid still finds the site without a key, unless  *)
(* it is in a race.                                                        *)
CodeIsForFree ==
  \A r \in Reqs :
    req[r].kind = "enroll" /\ req[r].pc \in {"routes", "bind"} /\ req[r].held /\ ~req[r].raced
      => row.key = Nothing \/ crossed

(* While a request runs alone nobody else is under way.                       *)
AloneIsAlone == \A r, q \in Reqs : r # q /\ req[r].alone => req[q].pc = "idle"

(* What is about to be published by a request that runs alone, or while the  *)
(* file is current, is the row as it is.                                   *)
ReadsAreCurrent ==
  \A r \in Reqs :
    (req[r].alone \/ ~stale) /\ req[r].pc = "replace" => req[r].doc = Entry(row)

(* The inductive invariant.                                                *)
IInv ==
  /\ TypeOK
  /\ \A r \in Reqs : WellFormed(req[r])
  /\ HeldRow /\ DetachedHalfWay /\ CodeIsForFree /\ KeyOrCode
  /\ AloneIsAlone /\ ReadsAreCurrent /\ CurrentWhenPublishedAlone

-------------------------------------------------------------------------------
(* A name nobody refers to: however the requests S and a few others use the   *)
(* names N, one is left over.                                              *)
LEMMA NameLeftOver ==
  ASSUME NEW S, IsFiniteSet(S), NEW Extra, IsFiniteSet(Extra), NEW N, IsFiniteSet(N),
         NEW f, Cardinality(N) > Cardinality(S) + Cardinality(Extra)
  PROVE  \E n \in N : n \notin Extra /\ \A q \in S : n # f[q]
<1>. DEFINE g == [q \in S |-> f[q]]
            taken == {f[q] : q \in S}
<1>1. g \in Surjection(S, taken)
  BY DEF Surjection
<1>2. IsFiniteSet(taken) /\ Cardinality(taken) <= Cardinality(S)
  BY <1>1, FS_Surjection
<1>3. /\ Cardinality(taken) \in Nat /\ Cardinality(Extra) \in Nat
      /\ Cardinality(S) \in Nat /\ Cardinality(N) \in Nat
  BY <1>2, FS_CardinalityType
<1>4. IsFiniteSet(taken \cap Extra) /\ Cardinality(taken \cap Extra) \in Nat
  BY <1>2, FS_Intersection, FS_CardinalityType
<1>5. /\ IsFiniteSet(taken \cup Extra)
      /\ Cardinality(taken \cup Extra)
           = Cardinality(taken) + Cardinality(Extra) - Cardinality(taken \cap Extra)
  <2>. HIDE DEF taken
  <2>. QED  BY <1>2, FS_Union
<1>6. SUFFICES ASSUME N \subseteq taken \cup Extra PROVE FALSE
  OBVIOUS
<1>7. Cardinality(N) <= Cardinality(taken \cup Extra)
  BY <1>5, <1>6, FS_Subset
<1>. HIDE DEF taken
<1>. QED  BY <1>2, <1>3, <1>4, <1>5, <1>7

(* What a request that has the site read refers to stays in use by the       *)
(* others.                                                                 *)
LEMMA OthersFewer ==
  ASSUME NEW r \in Reqs
  PROVE  IsFiniteSet(Reqs \ {r}) /\ Cardinality(Reqs \ {r}) = Cardinality(Reqs) - 1
BY FS_RemoveElement, NamesAssumption

LEMMA FreshCodeExists ==
  ASSUME TypeOK, NEW r \in Reqs, req[r].code = Nothing
  PROVE  FreshCode \in Codes
<1>. DEFINE f == [q \in Reqs |-> req[q].code]
            known == {IF row = Nothing THEN Nothing ELSE row.code}
<1>1. IsFiniteSet(known) /\ Cardinality(known) = 1
  BY FS_Singleton
<1>2. Cardinality(Codes) > Cardinality(Reqs \ {r}) + Cardinality(known)
  <2>1. Cardinality(Codes) \in Nat /\ Cardinality(Reqs) \in Nat
    BY NamesAssumption, FS_CardinalityType
  <2>2. Cardinality(Reqs \ {r}) = Cardinality(Reqs) - 1
    BY OthersFewer
  <2>. HIDE DEF known
  <2>. QED  BY <1>1, <2>1, <2>2, NamesAssumption
<1>3. PICK c \in Codes : c \notin known /\ \A q \in Reqs \ {r} : c # f[q]
  <2>. HIDE DEF f, known
  <2>. QED  BY <1>1, <1>2, OthersFewer, NamesAssumption, NameLeftOver
<1>4. c \in (Codes \ Used(Reqs, "code")) \ (IF row = Nothing THEN {} ELSE {row.code})
  BY <1>3, NothingAssumption DEF Used
<1>. QED  BY <1>4 DEF FreshCode

LEMMA FreshKeyExists ==
  ASSUME TypeOK, \A q \in Reqs : WellFormed(req[q]), NEW r \in Reqs, req[r].pc = "idle"
  PROVE  FreshKey \in Keys
<1>. DEFINE f == [q \in Reqs |-> IF req[q].doc # Nothing THEN req[q].doc.key ELSE req[q].key]
            known == {IF row = Nothing THEN Nothing ELSE row.key,
                      IF file = Nothing THEN Nothing ELSE file.key}
<1>1. IsFiniteSet(known) /\ Cardinality(known) <= 2
  <2>. SUFFICES ASSUME NEW a, NEW b PROVE IsFiniteSet({a, b}) /\ Cardinality({a, b}) <= 2
    OBVIOUS
  <2>1. IsFiniteSet({a}) /\ Cardinality({a}) = 1
    BY FS_Singleton
  <2>2. {a, b} = {a} \cup {b}
    OBVIOUS
  <2>3. IsFiniteSet({a} \cup {b}) /\ (Cardinality({a} \cup {b}) = 1 \/ Cardinality({a} \cup {b}) = 2)
    <3>. DEFINE one == {a}
    <3>1. IsFiniteSet(one) /\ Cardinality(one) = 1
      BY <2>1
    <3>. HIDE DEF one
    <3>2. IsFiniteSet(one \cup {b})
      BY <3>1, FS_AddElement
    <3>3. Cardinality(one \cup {b}) = Cardinality(one) \/ Cardinality(one \cup {b}) = Cardinality(one) + 1
      BY <3>1, FS_AddElement
    <3>4. Cardinality(one \cup {b}) = 1 \/ Cardinality(one \cup {b}) = 2
      BY <3>1, <3>3
    <3>. QED  BY <3>2, <3>4 DEF one
  <2>. QED  BY <2>2, <2>3
<1>2. Cardinality(Keys) > Cardinality(Reqs \ {r}) + Cardinality(known)
  <2>1. Cardinality(Keys) \in Nat /\ Cardinality(Reqs) \in Nat /\ Cardinality(known) \in Nat
    <3>. HIDE DEF known
    <3>. QED  BY <1>1, NamesAssumption, FS_CardinalityType
  <2>2. Cardinality(Reqs \ {r}) = Cardinality(Reqs) - 1
    BY OthersFewer
  <2>. HIDE DEF known
  <2>. QED  BY <1>1, <2>1, <2>2, NamesAssumption
<1>3. PICK k \in Keys : k \notin known /\ \A q \in Reqs \ {r} : k # f[q]
  <2>. HIDE DEF f, known
  <2>. QED  BY <1>1, <1>2, OthersFewer, NamesAssumption, NameLeftOver
<1>4. ASSUME NEW q \in Reqs
      PROVE  k # req[q].key /\ (req[q].doc # Nothing => k # req[q].doc.key)
  <2>1. CASE q = r
    BY <2>1, NothingAssumption DEF WellFormed, Idle
  <2>2. CASE q # r
    BY <1>3, <2>2, NothingAssumption DEF WellFormed
  <2>. QED  BY <2>1, <2>2
<1>5. k \in (Keys \ Used(Reqs, "key"))
             \ {x.key : x \in ({row, file} \cup Used(Reqs, "doc")) \ {Nothing}}
  BY <1>3, <1>4 DEF Used
<1>. QED  BY <1>5 DEF FreshKey
-------------------------------------------------------------------------------
(* ------------------------- what the steps keep ------------------------ *)

LEMMA IdleIsWellFormed == Idle \in Requests /\ WellFormed(Idle)
BY NothingAssumption DEF Idle, Requests, WellFormed

LEMMA EntryOfRow == row \in Rows \cup {Nothing} => Entry(row) \in Entries \cup {Nothing}
BY DEF Rows, Entries, Entry

LEMMA InitHolds == Init => IInv
<1>. SUFFICES ASSUME Init PROVE IInv
  OBVIOUS
<1>. USE IdleIsWellFormed DEF Init
<1>1. TypeOK
  BY DEF TypeOK
<1>2. \A r \in Reqs : WellFormed(req[r])
  OBVIOUS
<1>3. HeldRow /\ DetachedHalfWay /\ CodeIsForFree /\ AloneIsAlone /\ ReadsAreCurrent
  BY DEF Idle, HeldRow, DetachedHalfWay, CodeIsForFree, AloneIsAlone, ReadsAreCurrent
<1>4. KeyOrCode /\ CurrentWhenPublishedAlone
  BY DEF KeyOrCode, CurrentWhenPublishedAlone, Entry
<1>. QED  BY <1>1, <1>2, <1>3, <1>4 DEF IInv

(* A request begins: it has read the row, and done no more.                   *)
LEMMA BegunKeeps ==
  ASSUME IInv, NEW r \in Reqs, req[r].pc = "idle",
         NEW rec \in Requests, rec.pc \notin {"idle", "code", "replace"}, WellFormed(rec),
         rec.kind = "enroll" => row = Nothing \/ row.key = Nothing \/ crossed,
         req' = Begun(r, rec), UNCHANGED <<row, file, history>>
  PROVE  IInv'
<1>1. /\ req'[r] \in Requests /\ req'[r].pc = rec.pc /\ req'[r].kind = rec.kind
      /\ req'[r].code = rec.code /\ req'[r].doc = rec.doc /\ req'[r].key = rec.key
      /\ req'[r].held = (row # Nothing) /\ req'[r].alone = (Active = {})
  <2>1. req'[r] = [rec EXCEPT !.held = row # Nothing, !.alone = Active = {}]
    BY DEF Begun
  <2>. QED  BY <2>1 DEF Requests
<1>2. ASSUME NEW q \in Reqs, q # r
      PROVE  /\ req'[q] \in Requests /\ req'[q].pc = req[q].pc /\ req'[q].kind = req[q].kind
             /\ req'[q].code = req[q].code /\ req'[q].doc = req[q].doc
             /\ req'[q].key = req[q].key /\ req'[q].held = req[q].held
             /\ req'[q].raced = req[q].raced /\ req'[q].alone = FALSE
  <2>1. req'[q] = [req[q] EXCEPT !.alone = FALSE]
    BY <1>2 DEF Begun
  <2>2. req[q] \in Requests
    BY DEF IInv, TypeOK
  <2>. QED  BY <2>1, <2>2 DEF Requests
<1>3. UNCHANGED <<row, file, stale, crossed>>
  BY DEF history
<1>4. TypeOK'
  <2>1. req' = [q \in Reqs |-> req'[q]]
    BY DEF Begun
  <2>2. \A q \in Reqs : req'[q] \in Requests
    BY <1>1, <1>2
  <2>. QED  BY <1>3, <2>1, <2>2 DEF IInv, TypeOK
<1>5. ASSUME NEW q \in Reqs PROVE WellFormed(req'[q])
  <2>1. CASE q = r
    BY <1>1, <2>1 DEF WellFormed
  <2>2. CASE q # r
    <3>1. WellFormed(req[q])
      BY DEF IInv
    <3>. QED  BY <1>2, <2>2, <3>1 DEF WellFormed
  <2>. QED  BY <2>1, <2>2
<1>6. HeldRow'
  BY <1>1, <1>2, <1>3 DEF IInv, HeldRow
<1>7. DetachedHalfWay'
  BY <1>1, <1>2, <1>3 DEF IInv, DetachedHalfWay
<1>8. CodeIsForFree'
  <2>. SUFFICES ASSUME NEW q \in Reqs, req'[q].kind = "enroll", req'[q].pc \in {"routes", "bind"},
                       req'[q].held, ~req'[q].raced
                PROVE  row.key = Nothing \/ crossed
    BY <1>3 DEF CodeIsForFree
  <2>1. CASE q = r
    BY <1>1, <2>1
  <2>2. CASE q # r
    BY <1>2, <2>2 DEF IInv, CodeIsForFree
  <2>. QED  BY <2>1, <2>2
<1>9. AloneIsAlone'
  <2>. SUFFICES ASSUME NEW p \in Reqs, NEW q \in Reqs, p # q, req'[p].alone
                PROVE  req'[q].pc = "idle"
    BY DEF AloneIsAlone
  <2>1. p = r
    BY <1>2
  <2>2. Active = {}
    BY <1>1, <2>1
  <2>3. req[q].pc = "idle"
    BY <2>2 DEF Active
  <2>4. req'[q].pc = req[q].pc
    BY <1>2, <2>1
  <2>. QED  BY <2>3, <2>4
<1>10. ReadsAreCurrent'
  <2>1. Entry(row)' = Entry(row)
    BY <1>3 DEF Entry
  <2>. QED  BY <1>1, <1>2, <1>3, <2>1 DEF IInv, ReadsAreCurrent
<1>11. (KeyOrCode /\ CurrentWhenPublishedAlone)'
  BY <1>3 DEF IInv, KeyOrCode, CurrentWhenPublishedAlone, Entry
<1>. QED  BY <1>4, <1>5, <1>6, <1>7, <1>8, <1>9, <1>10, <1>11 DEF IInv

(* A row that differs in nothing but its routes and the life of its code.     *)
Alike(x, y) ==
  \/ x = y
  \/ /\ x \in Rows /\ y \in Rows
     /\ x.key = y.key /\ x.code = y.code /\ x.enabled = y.enabled /\ x.mfa = y.mfa

LEMMA AlikeRows ==
  ASSUME TypeOK, Alike(row', row)
  PROVE  /\ row' \in Rows \cup {Nothing} /\ (row' = Nothing <=> row = Nothing)
         /\ row # Nothing => row'.key = row.key /\ row'.code = row.code
         /\ Entry(row)' = Entry(row)
<1>1. CASE row' = row
  BY <1>1 DEF TypeOK, Entry
<1>2. CASE row' # row
  BY <1>2, NoRecordAssumption DEF TypeOK, Alike, Entry
<1>. QED  BY <1>1, <1>2

(* A request goes on or ends without changing what is published of the row.   *)
LEMMA MoveKeeps ==
  ASSUME IInv, NEW r \in Reqs,
         NEW rec \in Requests, rec.pc # "code", WellFormed(rec),
         rec.held => req[r].held, rec.alone => req[r].alone,
         rec.pc = "idle" \/ req[r].pc # "idle",
         rec.kind = "enroll" /\ rec.pc \in {"routes", "bind"}
           => /\ req[r].kind = "enroll" /\ req[r].pc \in {"routes", "bind"}
              /\ req[r].held = rec.held /\ req[r].raced = rec.raced,
         rec.pc = "replace" => rec.doc = Entry(row),
         req' = [req EXCEPT ![r] = rec], Alike(row', row), UNCHANGED <<file, history>>
  PROVE  IInv'
<1>1. \A q \in Reqs : req'[q] = IF q = r THEN rec ELSE req[q]
  BY DEF IInv, TypeOK
<1>2. /\ row' \in Rows \cup {Nothing} /\ (row' = Nothing <=> row = Nothing)
      /\ row # Nothing => row'.key = row.key /\ row'.code = row.code
      /\ Entry(row)' = Entry(row)
  BY AlikeRows DEF IInv
<1>3. UNCHANGED <<file, stale, crossed>>
  BY DEF history
<1>4. TypeOK'
  BY <1>2, <1>3 DEF IInv, TypeOK
<1>5. ASSUME NEW q \in Reqs PROVE WellFormed(req'[q])
  BY <1>1 DEF IInv
<1>6. HeldRow'
  BY <1>1, <1>2 DEF IInv, HeldRow
<1>7. DetachedHalfWay'
  BY <1>1, <1>2, <1>3 DEF IInv, HeldRow, DetachedHalfWay
<1>8. CodeIsForFree'
  <2>. SUFFICES ASSUME NEW q \in Reqs, req'[q].kind = "enroll", req'[q].pc \in {"routes", "bind"},
                       req'[q].held, ~req'[q].raced
                PROVE  row'.key = Nothing \/ crossed
    BY <1>3 DEF CodeIsForFree
  <2>1. /\ req[q].kind = "enroll" /\ req[q].pc \in {"routes", "bind"}
        /\ req[q].held /\ ~req[q].raced
    BY <1>1
  <2>. QED  BY <1>2, <2>1 DEF IInv, HeldRow, CodeIsForFree
<1>9. AloneIsAlone'
  BY <1>1 DEF IInv, AloneIsAlone
<1>10. ReadsAreCurrent'
  BY <1>1, <1>2, <1>3 DEF IInv, ReadsAreCurrent
<1>11. KeyOrCode'
  BY <1>2, <1>3 DEF IInv, KeyOrCode
<1>12. CurrentWhenPublishedAlone'
  BY <1>2, <1>3 DEF IInv, CurrentWhenPublishedAlone
<1>. QED  BY <1>4, <1>5, <1>6, <1>7, <1>8, <1>9, <1>10, <1>11, <1>12 DEF IInv
-------------------------------------------------------------------------------
(* ------------------------- one step per action ------------------------ *)

LEMMA BeginsKeep ==
  ASSUME IInv, NEW r \in Reqs,
         \/ BeginCreate(r) \/ BeginNewCode(r) \/ BeginPackage(r) \/ BeginState(r)
         \/ BeginRotate(r) \/ BeginRevoke(r) \/ BeginEnroll(r)
  PROVE  IInv'
<1>1. req[r].pc = "idle" /\ req[r].code = Nothing
  BY DEF IInv, WellFormed, BeginCreate, BeginNewCode, BeginPackage, BeginState, BeginRotate,
         BeginRevoke, BeginEnroll
<1>2. FreshCode \in Codes
  BY <1>1, FreshCodeExists DEF IInv
<1>3. FreshKey \in Keys
  BY <1>1, FreshKeyExists DEF IInv
<1>. DEFINE Possible(rec) ==
       /\ rec \in Requests /\ rec.pc \notin {"idle", "code", "replace"} /\ WellFormed(rec)
       /\ rec.kind = "enroll" => row = Nothing \/ row.key = Nothing \/ crossed
<1>4. SUFFICES \E rec : /\ Possible(rec)
                        /\ req' = Begun(r, rec) /\ UNCHANGED <<row, file, history>>
  BY <1>1, BegunKeeps
<1>5. ASSUME BeginCreate(r) PROVE \E rec : Possible(rec) /\ req' = Begun(r, rec)
  <2>1. Possible([Idle EXCEPT !.pc = "insert", !.kind = "create", !.code = FreshCode])
    BY <1>2 DEF Idle, Requests, WellFormed
  <2>. QED  BY <1>5, <2>1 DEF BeginCreate
<1>6. ASSUME BeginNewCode(r) PROVE \E rec : Possible(rec) /\ req' = Begun(r, rec)
  <2>1. Possible([Idle EXCEPT !.pc = "reset", !.kind = "newcode", !.code = FreshCode])
    BY <1>2 DEF Idle, Requests, WellFormed
  <2>. QED  BY <1>6, <2>1 DEF BeginNewCode
<1>7. ASSUME BeginPackage(r) PROVE \E rec : Possible(rec) /\ req' = Begun(r, rec)
  <2>1. Possible([Idle EXCEPT !.pc = "bind", !.kind = "package", !.key = FreshKey])
    BY <1>3 DEF Idle, Requests, WellFormed
  <2>. QED  BY <1>7, <2>1 DEF BeginPackage
<1>8. ASSUME BeginState(r) PROVE \E rec : Possible(rec) /\ req' = Begun(r, rec)
  <2>1. PICK on \in BOOLEAN :
          req' = Begun(r, [Idle EXCEPT !.pc = "enable", !.kind = "state", !.on = on])
    BY <1>8 DEF BeginState
  <2>2. Possible([Idle EXCEPT !.pc = "enable", !.kind = "state", !.on = on])
    BY DEF Idle, Requests, WellFormed
  <2>. QED  BY <2>1, <2>2
<1>9. ASSUME BeginRotate(r) PROVE \E rec : Possible(rec) /\ req' = Begun(r, rec)
  <2>1. Possible([Idle EXCEPT !.pc = "secret", !.kind = "rotate"])
    BY DEF Idle, Requests, WellFormed
  <2>. QED  BY <1>9, <2>1 DEF BeginRotate
<1>10. ASSUME BeginRevoke(r) PROVE \E rec : Possible(rec) /\ req' = Begun(r, rec)
  <2>1. Possible([Idle EXCEPT !.pc = "delete", !.kind = "revoke"])
    BY DEF Idle, Requests, WellFormed
  <2>. QED  BY <1>10, <2>1 DEF BeginRevoke
<1>11. ASSUME BeginEnroll(r) PROVE \E rec : Possible(rec) /\ req' = Begun(r, rec)
  <2>. DEFINE new == [Idle EXCEPT !.pc = IF row.routed THEN "bind" ELSE "routes",
                                  !.kind = "enroll", !.code = row.code, !.key = FreshKey]
  <2>1. row \in Rows /\ row.code \in Codes
    BY <1>11 DEF BeginEnroll, IInv, TypeOK, Rows
  <2>2. row.key = Nothing \/ crossed
    BY <1>11 DEF BeginEnroll, IInv, KeyOrCode
  <2>3. Possible(new)
    BY <1>3, <2>1, <2>2 DEF Idle, Requests, WellFormed
  <2>. QED  BY <1>11, <2>3 DEF BeginEnroll
<1>12. UNCHANGED <<row, file, history>>
  BY DEF BeginCreate, BeginNewCode, BeginPackage, BeginState, BeginRotate, BeginRevoke, BeginEnroll
<1>. QED  BY <1>5, <1>6, <1>7, <1>8, <1>9, <1>10, <1>11, <1>12

(* What a request is when it has done its statement and publishes.            *)
LEMMA SyncFields ==
  ASSUME req \in [Reqs -> Requests], NEW r \in Reqs, NEW pc \in {"read", "clients"}
  PROVE  /\ \A q \in Reqs \ {r} : Sync(r, pc)[q] = req[q]
         /\ Sync(r, pc) \in [Reqs -> Requests] /\ WellFormed(Sync(r, pc)[r])
         /\ Sync(r, pc)[r].pc = pc /\ Sync(r, pc)[r].held = req[r].held
         /\ Sync(r, pc)[r].alone = req[r].alone
<1>. DEFINE kind == IF req[r].kind = "enroll" THEN "enroll" ELSE "none"
            new == [req[r] EXCEPT !.pc = pc, !.kind = kind, !.code = Nothing,
                                  !.key = Nothing, !.on = FALSE, !.raced = FALSE]
<1>1. Sync(r, pc) = [req EXCEPT ![r] = new]
  BY DEF Sync
<1>2. /\ new \in Requests /\ new.pc = pc /\ new.held = req[r].held /\ new.alone = req[r].alone
      /\ new.key = Nothing
  <2>1. kind \in {"none", "enroll"}
    OBVIOUS
  <2>. HIDE DEF kind
  <2>2. req[r] \in Requests
    OBVIOUS
  <2>3. /\ new \in Requests /\ new.pc = pc /\ new.held = req[r].held
        /\ new.alone = req[r].alone /\ new.key = Nothing
    BY <2>1, <2>2 DEF Requests
  <2>. QED  BY <2>3
<1>. HIDE DEF new
<1>3. WellFormed(new)
  BY <1>2 DEF WellFormed
<1>. QED  BY <1>1, <1>2, <1>3

(* A request changes the row, or finds it gone, and goes on.  Nobody else runs *)
(* alone then, so whatever was read before need not be current.               *)
LEMMA UpdateKeeps ==
  ASSUME IInv, NEW r \in Reqs, req[r].pc # "idle",
         TypeOK', UNCHANGED file, stale',
         \A q \in Reqs \ {r} : /\ req'[q].pc = req[q].pc /\ req'[q].alone = req[q].alone
                               /\ WellFormed(req'[q]),
         WellFormed(req'[r]), req'[r].pc \notin {"idle", "replace"},
         HeldRow', DetachedHalfWay', CodeIsForFree', KeyOrCode',
         req'[r].alone = req[r].alone
  PROVE  IInv'
<1>1. ASSUME NEW q \in Reqs PROVE WellFormed(req'[q])
  BY DEF IInv
<1>2. AloneIsAlone'
  BY DEF IInv, AloneIsAlone
<1>3. ReadsAreCurrent'
  <2>. SUFFICES ASSUME NEW q \in Reqs, req'[q].alone, req'[q].pc = "replace" PROVE FALSE
    BY DEF ReadsAreCurrent
  <2>1. q # r /\ req[q].alone
    OBVIOUS
  <2>. QED  BY <2>1 DEF IInv, AloneIsAlone
<1>4. CurrentWhenPublishedAlone'
  BY DEF CurrentWhenPublishedAlone
<1>. QED  BY <1>1, <1>2, <1>3, <1>4 DEF IInv

LEMMA AddAgentKeeps == ASSUME IInv, NEW r \in Reqs, AddAgent(r) PROVE IInv'
<1>. USE DEF AddAgent
<1>1. CASE row # Nothing
  <2>1. /\ req' = [req EXCEPT ![r] = Idle] /\ UNCHANGED <<row, file, history>>
    BY <1>1 DEF End
  <2>2. Idle.pc = "idle" /\ ~Idle.held /\ ~Idle.alone /\ Idle.kind = "none"
    BY DEF Idle
  <2>. QED  BY <2>1, <2>2, IdleIsWellFormed, MoveKeeps DEF Alike
<1>2. CASE row = Nothing
  <2>1. /\ req' = Sync(r, "read") /\ stale' = TRUE /\ crossed' = FALSE /\ UNCHANGED file
        /\ row' = [key |-> Nothing, code |-> req[r].code, live |-> TRUE, enrolled |-> FALSE,
                   enabled |-> TRUE, mfa |-> FALSE, routed |-> TRUE]
    BY <1>2
  <2>2. row' # Nothing /\ row'.key = Nothing
    <3>1. row' \in Rows
      BY <2>1 DEF Rows, IInv, TypeOK, Requests
    <3>. QED  BY <2>1, <3>1, NoRecordAssumption
  <2>3. TypeOK'
    BY <2>1, SyncFields DEF IInv, TypeOK, Rows, Requests
  <2>4. HeldRow' /\ DetachedHalfWay' /\ CodeIsForFree' /\ KeyOrCode'
    BY <2>2 DEF HeldRow, DetachedHalfWay, CodeIsForFree, KeyOrCode
  <2>. QED  BY <2>1, <2>3, <2>4, SyncFields, UpdateKeeps DEF IInv, TypeOK
<1>. QED  BY <1>1, <1>2

(* A held row is still there; what an UPDATE makes of it is a row again.       *)
LEMMA UpdatedRow ==
  ASSUME IInv, NEW r \in Reqs, NEW new, row \in Rows => new \in Rows, Update(r, new)
  PROVE  /\ req[r].held => row \in Rows /\ row' = new /\ row' \in Rows /\ row' # Nothing
         /\ ~req[r].held => row' = row
         /\ row' \in Rows \cup {Nothing} /\ (row' = Nothing <=> row = Nothing)
<1>1. CASE req[r].held
  <2>1. row \in Rows
    BY <1>1 DEF IInv, HeldRow, TypeOK
  <2>. QED  BY <1>1, <2>1, NoRecordAssumption DEF Update
<1>2. CASE ~req[r].held
  BY <1>2 DEF IInv, TypeOK, Update
<1>. QED  BY <1>1, <1>2

LEMMA ResetAgentKeyKeeps == ASSUME IInv, NEW r \in Reqs, ResetAgentKey(r) PROVE IInv'
<1>. DEFINE new == [row EXCEPT !.key = Nothing, !.enrolled = FALSE]
<1>1. /\ req[r].pc = "reset" /\ Update(r, new) /\ req' = Goto(r, "code") /\ stale' = TRUE
      /\ crossed' = (crossed /\ ~req[r].held) /\ UNCHANGED file
  BY DEF ResetAgentKey
<1>2. row \in Rows => new \in Rows /\ new.key = Nothing
  BY DEF Rows
<1>3. req' \in [Reqs -> Requests] /\ WellFormed(req'[r]) /\ req'[r].pc = "code"
      /\ req'[r].held = req[r].held /\ req'[r].alone = req[r].alone
      /\ \A q \in Reqs \ {r} : req'[q] = req[q]
  <2>1. req[r] \in Requests /\ WellFormed(req[r])
    BY DEF IInv, TypeOK
  <2>. QED  BY <1>1, <2>1 DEF IInv, TypeOK, Requests, WellFormed, Goto
<1>. HIDE DEF new
<1>4. /\ req[r].held => row' # Nothing /\ row'.key = Nothing
      /\ ~req[r].held => row' = row
      /\ row' \in Rows \cup {Nothing} /\ (row' = Nothing <=> row = Nothing)
  BY <1>1, <1>2, UpdatedRow
<1>5. TypeOK'
  BY <1>1, <1>3, <1>4 DEF IInv, TypeOK
<1>6. HeldRow'
  BY <1>3, <1>4 DEF IInv, HeldRow
<1>7. DetachedHalfWay'
  BY <1>1, <1>3, <1>4 DEF IInv, DetachedHalfWay
<1>8. CodeIsForFree'
  BY <1>1, <1>3, <1>4 DEF IInv, CodeIsForFree
<1>9. KeyOrCode'
  BY <1>1, <1>4 DEF IInv, KeyOrCode
<1>. QED  BY <1>1, <1>3, <1>5, <1>6, <1>7, <1>8, <1>9, UpdateKeeps DEF IInv

LEMMA SetEnrollCodeKeeps == ASSUME IInv, NEW r \in Reqs, SetEnrollCode(r) PROVE IInv'
<1>. DEFINE new == [row EXCEPT !.code = req[r].code, !.live = TRUE]
<1>1. /\ req[r].pc = "code" /\ Update(r, new) /\ req' = Sync(r, "read") /\ stale' = TRUE
      /\ UNCHANGED <<file, crossed>>
  BY DEF SetEnrollCode
<1>2. row \in Rows => new \in Rows /\ new.key = row.key
  BY DEF Rows, IInv, TypeOK, Requests
<1>3. /\ \A q \in Reqs \ {r} : req'[q] = req[q]
      /\ req' \in [Reqs -> Requests] /\ WellFormed(req'[r]) /\ req'[r].pc = "read"
      /\ req'[r].held = req[r].held /\ req'[r].alone = req[r].alone
  BY <1>1, SyncFields DEF IInv, TypeOK
<1>. HIDE DEF new
<1>4. /\ req[r].held => row' # Nothing /\ row'.key = row.key
      /\ ~req[r].held => row' = row
      /\ row' \in Rows \cup {Nothing} /\ (row' = Nothing <=> row = Nothing)
  BY <1>1, <1>2, UpdatedRow
<1>5. TypeOK'
  BY <1>1, <1>3, <1>4 DEF IInv, TypeOK
<1>6. HeldRow'
  BY <1>3, <1>4 DEF IInv, HeldRow
<1>7. DetachedHalfWay'
  BY <1>1, <1>3, <1>4 DEF IInv, DetachedHalfWay
<1>8. CodeIsForFree'
  BY <1>1, <1>3, <1>4 DEF IInv, CodeIsForFree
<1>9. KeyOrCode'
  <2>1. CASE req[r].held
    BY <1>1, <1>4, <2>1 DEF IInv, DetachedHalfWay, KeyOrCode
  <2>2. CASE ~req[r].held
    BY <1>1, <1>4, <2>2 DEF IInv, KeyOrCode
  <2>. QED  BY <2>1, <2>2
<1>. QED  BY <1>1, <1>3, <1>5, <1>6, <1>7, <1>8, <1>9, UpdateKeeps DEF IInv

(* setAgentEnabled and setAgentTOTP: neither key nor code are touched.        *)
LEMMA SettingKeeps ==
  ASSUME IInv, NEW r \in Reqs, req[r].pc # "idle", NEW new,
         row \in Rows => new \in Rows /\ new.key = row.key /\ new.code = row.code,
         Update(r, new), req' = Sync(r, "clients"), stale' = TRUE, UNCHANGED <<file, crossed>>
  PROVE  IInv'
<1>1. /\ \A q \in Reqs \ {r} : req'[q] = req[q]
      /\ req' \in [Reqs -> Requests] /\ WellFormed(req'[r]) /\ req'[r].pc = "clients"
      /\ req'[r].held = req[r].held /\ req'[r].alone = req[r].alone
  BY SyncFields DEF IInv, TypeOK
<1>2. /\ row # Nothing => row'.key = row.key /\ row'.code = row.code
      /\ row' \in Rows \cup {Nothing} /\ (row' = Nothing <=> row = Nothing)
  BY UpdatedRow
<1>3. TypeOK'
  BY <1>1, <1>2 DEF IInv, TypeOK
<1>4. HeldRow'
  BY <1>1, <1>2 DEF IInv, HeldRow
<1>5. DetachedHalfWay'
  BY <1>1, <1>2 DEF IInv, HeldRow, DetachedHalfWay
<1>6. CodeIsForFree'
  BY <1>1, <1>2 DEF IInv, HeldRow, CodeIsForFree
<1>7. KeyOrCode'
  BY <1>2 DEF IInv, KeyOrCode
<1>. QED  BY <1>1, <1>3, <1>4, <1>5, <1>6, <1>7, UpdateKeeps DEF IInv

LEMMA SettingsKeep ==
  ASSUME IInv, NEW r \in Reqs, SetAgentEnabled(r) \/ SetAgentTOTP(r) PROVE IInv'
<1>1. req[r].on \in BOOLEAN
  BY DEF IInv, TypeOK, Requests
<1>2. CASE SetAgentEnabled(r)
  <2>. DEFINE new == [row EXCEPT !.enabled = req[r].on]
  <2>1. row \in Rows => new \in Rows /\ new.key = row.key /\ new.code = row.code
    BY <1>1 DEF Rows
  <2>. QED  BY <1>2, <2>1, SettingKeeps DEF SetAgentEnabled
<1>3. CASE SetAgentTOTP(r)
  <2>. DEFINE new == [row EXCEPT !.mfa = TRUE]
  <2>1. row \in Rows => new \in Rows /\ new.key = row.key /\ new.code = row.code
    BY DEF Rows
  <2>. QED  BY <1>3, <2>1, SettingKeeps DEF SetAgentTOTP
<1>. QED  BY <1>2, <1>3

LEMMA DeleteAgentKeeps == ASSUME IInv, NEW r \in Reqs, DeleteAgent(r) PROVE IInv'
<1>1. /\ req[r].pc = "delete" /\ Update(r, Nothing) /\ stale' = TRUE /\ UNCHANGED file
      /\ crossed' = (crossed /\ ~req[r].held)
      /\ req' = [x \in Reqs |-> IF x = r THEN [Sync(r, "clients")[r] EXCEPT !.held = FALSE]
                                ELSE [req[x] EXCEPT !.held = FALSE]]
  BY DEF DeleteAgent
<1>2. ASSUME NEW x \in Requests, WellFormed(x)
      PROVE  /\ [x EXCEPT !.held = FALSE] \in Requests /\ WellFormed([x EXCEPT !.held = FALSE])
             /\ [x EXCEPT !.held = FALSE].pc = x.pc /\ [x EXCEPT !.held = FALSE].alone = x.alone
             /\ ~[x EXCEPT !.held = FALSE].held
  <2>. DEFINE y == [x EXCEPT !.held = FALSE]
  <2>1. /\ y \in Requests /\ y.pc = x.pc /\ y.alone = x.alone /\ y.held = FALSE
        /\ y.code = x.code /\ y.key = x.key /\ y.doc = x.doc /\ y.kind = x.kind
    BY DEF Requests
  <2>. HIDE DEF y
  <2>2. WellFormed(y)
    BY <1>2, <2>1 DEF WellFormed
  <2>. QED  BY <2>1, <2>2 DEF y
<1>3. /\ \A q \in Reqs : req'[q] \in Requests /\ WellFormed(req'[q]) /\ ~req'[q].held
      /\ \A q \in Reqs \ {r} : req'[q].pc = req[q].pc /\ req'[q].alone = req[q].alone
      /\ req'[r].pc = "clients" /\ req'[r].alone = req[r].alone
  <2>1. ASSUME NEW q \in Reqs, q # r
        PROVE  /\ req'[q] \in Requests /\ WellFormed(req'[q]) /\ ~req'[q].held
               /\ req'[q].pc = req[q].pc /\ req'[q].alone = req[q].alone
    BY <1>1, <1>2, <2>1 DEF IInv, TypeOK
  <2>2. /\ req'[r] \in Requests /\ WellFormed(req'[r]) /\ ~req'[r].held
        /\ req'[r].pc = "clients" /\ req'[r].alone = req[r].alone
    <3>. DEFINE s == Sync(r, "clients")[r]
    <3>1. /\ s \in Requests /\ WellFormed(s) /\ s.pc = "clients" /\ s.alone = req[r].alone
      BY SyncFields DEF IInv, TypeOK
    <3>. HIDE DEF s
    <3>2. req'[r] = [s EXCEPT !.held = FALSE]
      BY <1>1 DEF s
    <3>. QED  BY <1>2, <3>1, <3>2
  <2>. QED  BY <2>1, <2>2
<1>4. TypeOK'
  <2>1. row' \in Rows \cup {Nothing}
    BY <1>1 DEF IInv, TypeOK, Update
  <2>2. req' \in [Reqs -> Requests]
    <3>1. req' = [q \in Reqs |-> req'[q]]
      BY <1>1
    <3>. QED  BY <1>3, <3>1
  <2>. QED  BY <1>1, <2>1, <2>2 DEF IInv, TypeOK
<1>5. HeldRow' /\ DetachedHalfWay' /\ CodeIsForFree'
  BY <1>3 DEF HeldRow, DetachedHalfWay, CodeIsForFree
<1>6. KeyOrCode'
  BY <1>1 DEF IInv, KeyOrCode, Update
<1>. QED  BY <1>1, <1>3, <1>4, <1>5, <1>6, UpdateKeeps

LEMMA SelfReportKeeps == ASSUME IInv, NEW r \in Reqs, SelfReport(r) PROVE IInv'
<1>. DEFINE on == [req[r] EXCEPT !.pc = "bind"]
<1>1. req[r].pc = "routes" /\ UNCHANGED <<file, history>> /\ req[r].kind = "enroll"
  BY DEF SelfReport, IInv, WellFormed
<1>2. /\ on \in Requests /\ WellFormed(on) /\ on.pc = "bind" /\ on.kind = req[r].kind
      /\ on.held = req[r].held /\ on.alone = req[r].alone /\ on.raced = req[r].raced
  <2>1. req[r] \in Requests /\ WellFormed(req[r])
    BY DEF IInv, TypeOK
  <2>. QED  BY <1>1, <2>1 DEF Requests, WellFormed
<1>3. Idle.pc = "idle" /\ ~Idle.held /\ ~Idle.alone /\ Idle.kind = "none"
  BY DEF Idle
<1>4. CASE req' = End(r) /\ UNCHANGED row
  BY <1>1, <1>3, <1>4, IdleIsWellFormed, MoveKeeps DEF Alike, End
<1>5. CASE Alike(row', row) /\ req' = Goto(r, "bind")
  <2>1. req' = [req EXCEPT ![r] = on]
    BY <1>5 DEF Goto
  <2>. HIDE DEF on
  <2>. QED  BY <1>1, <1>2, <1>5, <2>1, MoveKeeps
<1>6. Update(r, [row EXCEPT !.routed = TRUE]) => Alike(row', row)
  <2>. SUFFICES ASSUME Update(r, [row EXCEPT !.routed = TRUE]), req[r].held PROVE Alike(row', row)
    BY DEF Update, Alike
  <2>1. row \in Rows
    BY DEF IInv, HeldRow, TypeOK
  <2>. QED  BY <2>1 DEF Update, Alike, Rows
<1>. QED  BY <1>4, <1>5, <1>6 DEF SelfReport, Alike

LEMMA BindKeyKeeps == ASSUME IInv, NEW r \in Reqs, BindKey(r) PROVE IInv'
<1>. DEFINE new == Bind(req[r].key)
<1>1. /\ req[r].pc = "bind" /\ Update(r, new) /\ req' = Raced(r, Sync(r, "read"))
      /\ stale' = TRUE /\ crossed' = (IF req[r].held THEN HalfWay(r) ELSE crossed) /\ UNCHANGED file
  BY DEF BindKey
<1>2. row \in Rows => new \in Rows /\ new.code = Nothing
  BY DEF Bind, Rows, IInv, TypeOK, Requests, AnyKey
<1>. HIDE DEF new
<1>3. /\ req[r].held => row' # Nothing /\ row'.code = Nothing
      /\ ~req[r].held => row' = row
      /\ row' \in Rows \cup {Nothing} /\ (row' = Nothing <=> row = Nothing)
  BY <1>1, <1>2, UpdatedRow
<1>4. ASSUME NEW x \in Requests, WellFormed(x)
      PROVE  LET y == [x EXCEPT !.raced = TRUE]
             IN  /\ y \in Requests /\ WellFormed(y) /\ y.raced
                 /\ y.pc = x.pc /\ y.alone = x.alone /\ y.held = x.held /\ y.kind = x.kind
  <2>. DEFINE y == [x EXCEPT !.raced = TRUE]
  <2>1. /\ y \in Requests /\ y.pc = x.pc /\ y.alone = x.alone /\ y.held = x.held
        /\ y.code = x.code /\ y.key = x.key /\ y.doc = x.doc /\ y.kind = x.kind /\ y.raced = TRUE
    BY DEF Requests
  <2>. HIDE DEF y
  <2>2. WellFormed(y)
    BY <1>4, <2>1 DEF WellFormed
  <2>. QED  BY <2>1, <2>2 DEF y
<1>5. ASSUME NEW q \in Reqs, q # r
      PROVE  /\ req'[q] \in Requests /\ WellFormed(req'[q])
             /\ req'[q].pc = req[q].pc /\ req'[q].alone = req[q].alone
             /\ req'[q].held = req[q].held /\ req'[q].kind = req[q].kind
             /\ req[q].kind = "enroll" /\ req[q].pc \in {"routes", "bind"} => req'[q].raced
  <2>1. Sync(r, "read")[q] = req[q] /\ req[q] \in Requests /\ WellFormed(req[q])
    BY <1>5, SyncFields DEF IInv, TypeOK
  <2>2. req'[q] = IF req[q].kind = "enroll" /\ req[q].pc \in {"routes", "bind"}
                  THEN [req[q] EXCEPT !.raced = TRUE] ELSE req[q]
    BY <1>1, <1>5, <2>1 DEF Raced
  <2>. QED  BY <1>4, <2>1, <2>2
<1>6. /\ req'[r] \in Requests /\ WellFormed(req'[r]) /\ req'[r].pc = "read"
      /\ req'[r].alone = req[r].alone /\ req'[r].held = req[r].held
  <2>1. req'[r] = Sync(r, "read")[r]
    BY <1>1 DEF Raced
  <2>. QED  BY <2>1, SyncFields DEF IInv, TypeOK
<1>7. TypeOK'
  <2>1. req' = [q \in Reqs |-> req'[q]]
    BY <1>1 DEF Raced
  <2>2. \A q \in Reqs : req'[q] \in Requests
    BY <1>5, <1>6
  <2>3. crossed' \in BOOLEAN
    BY <1>1 DEF IInv, TypeOK, HalfWay
  <2>. QED  BY <1>1, <1>3, <2>1, <2>2, <2>3 DEF IInv, TypeOK
<1>8. HeldRow'
  BY <1>3, <1>5, <1>6 DEF IInv, HeldRow
<1>9. DetachedHalfWay'
  <2>. SUFFICES ASSUME NEW q \in Reqs, req'[q].pc = "code", req'[q].held
                PROVE  row'.key = Nothing \/ crossed'
    BY DEF DetachedHalfWay
  <2>1. q # r /\ req[q].pc = "code" /\ req[q].held
    BY <1>5, <1>6
  <2>2. CASE req[r].held
    BY <1>1, <2>1, <2>2 DEF HalfWay
  <2>3. CASE ~req[r].held
    BY <1>1, <1>3, <2>1, <2>3 DEF IInv, DetachedHalfWay
  <2>. QED  BY <2>2, <2>3
<1>10. CodeIsForFree'
  BY <1>5, <1>6 DEF CodeIsForFree
<1>11. KeyOrCode'
  BY <1>1, <1>3 DEF IInv, KeyOrCode
<1>. QED  BY <1>1, <1>5, <1>6, <1>7, <1>8, <1>9, <1>10, <1>11, UpdateKeeps

LEMMA GoesOnKeeps ==
  ASSUME IInv, NEW r \in Reqs, LookUpHub(r) \/ SyncClients(r) \/ ReadAgents(r) PROVE IInv'
<1>1. Idle.pc = "idle" /\ ~Idle.held /\ ~Idle.alone /\ Idle.kind = "none"
  BY DEF Idle
<1>2. req[r].pc # "idle" /\ UNCHANGED <<row, file, history>>
  BY DEF LookUpHub, SyncClients, ReadAgents
<1>3. CASE req' = End(r)
  BY <1>1, <1>2, <1>3, IdleIsWellFormed, MoveKeeps DEF Alike, End
<1>4. req[r] \in Requests /\ WellFormed(req[r])
  BY DEF IInv, TypeOK
<1>5. CASE req[r].pc = "clients" /\ req' = Goto(r, "read")
  <2>. DEFINE on == [req[r] EXCEPT !.pc = "read"]
  <2>1. /\ on \in Requests /\ on.pc = "read" /\ on.held = req[r].held /\ on.alone = req[r].alone
        /\ on.doc = req[r].doc /\ on.key = req[r].key
    BY <1>4 DEF Requests
  <2>2. req' = [req EXCEPT ![r] = on]
    BY <1>5 DEF Goto
  <2>. HIDE DEF on
  <2>3. WellFormed(on)
    BY <1>4, <1>5, <2>1 DEF WellFormed
  <2>. QED  BY <1>2, <2>1, <2>2, <2>3, MoveKeeps DEF Alike
<1>6. CASE ReadAgents(r)
  <2>. DEFINE on == [req[r] EXCEPT !.pc = "replace", !.doc = Entry(row)]
  <2>1. Entry(row) \in Entries \cup {Nothing}
    BY EntryOfRow DEF IInv, TypeOK
  <2>2. /\ on \in Requests /\ on.pc = "replace" /\ on.held = req[r].held /\ on.alone = req[r].alone
        /\ on.doc = Entry(row) /\ on.key = req[r].key
    BY <1>4, <2>1 DEF Requests
  <2>3. req' = [req EXCEPT ![r] = on]
    BY <1>6 DEF ReadAgents
  <2>. HIDE DEF on
  <2>4. req[r].key = Nothing
    BY <1>4, <1>6 DEF ReadAgents, WellFormed
  <2>5. WellFormed(on)
    BY <2>2, <2>4 DEF WellFormed
  <2>. QED  BY <1>2, <2>2, <2>3, <2>5, MoveKeeps DEF Alike
<1>. QED  BY <1>3, <1>5, <1>6 DEF LookUpHub, SyncClients

LEMMA ReplaceFileKeeps == ASSUME IInv, NEW r \in Reqs, ReplaceFile(r) PROVE IInv'
<1>. DEFINE rec == IF req[r].kind = "enroll" THEN [req[r] EXCEPT !.pc = "hub", !.doc = Nothing] ELSE Idle
<1>1. /\ req[r].pc = "replace" /\ file' = req[r].doc /\ UNCHANGED <<row, crossed>>
      /\ stale' = (stale /\ ~req[r].alone) /\ req' = [req EXCEPT ![r] = rec]
  BY DEF ReplaceFile, End
<1>2. req[r] \in Requests /\ WellFormed(req[r])
  BY DEF IInv, TypeOK
<1>3. /\ rec \in Requests /\ WellFormed(rec) /\ rec.pc \in {"idle", "hub"}
      /\ rec.held => req[r].held
      /\ rec.alone => req[r].alone
  <2>1. CASE req[r].kind = "enroll"
    <3>. DEFINE on == [req[r] EXCEPT !.pc = "hub", !.doc = Nothing]
    <3>1. /\ on \in Requests /\ on.pc = "hub" /\ on.held = req[r].held /\ on.alone = req[r].alone
          /\ on.doc = Nothing
      BY <1>2 DEF Requests
    <3>. HIDE DEF on
    <3>2. WellFormed(on)
      BY <3>1 DEF WellFormed
    <3>. QED  BY <2>1, <3>1, <3>2 DEF on
  <2>2. CASE req[r].kind # "enroll"
    BY <2>2, IdleIsWellFormed DEF Idle
  <2>. QED  BY <2>1, <2>2
<1>. HIDE DEF rec
<1>4. \A q \in Reqs : req'[q] = IF q = r THEN rec ELSE req[q]
  BY <1>1 DEF IInv, TypeOK
<1>5. TypeOK'
  BY <1>1, <1>2, <1>3 DEF IInv, TypeOK, Requests
<1>6. ASSUME NEW q \in Reqs PROVE WellFormed(req'[q])
  BY <1>3, <1>4 DEF IInv
<1>7. HeldRow' /\ DetachedHalfWay' /\ CodeIsForFree'
  BY <1>1, <1>3, <1>4 DEF IInv, HeldRow, DetachedHalfWay, CodeIsForFree
<1>8. AloneIsAlone'
  BY <1>1, <1>3, <1>4 DEF IInv, AloneIsAlone
<1>9. Entry(row)' = Entry(row)
  BY <1>1 DEF Entry
<1>10. ReadsAreCurrent'
  <2>. SUFFICES ASSUME NEW q \in Reqs, req'[q].alone \/ ~stale', req'[q].pc = "replace"
                PROVE  req'[q].doc = Entry(row)
    BY <1>9 DEF ReadsAreCurrent
  <2>1. q # r /\ req'[q] = req[q]
    BY <1>3, <1>4
  <2>2. ~req[r].alone
    BY <2>1 DEF IInv, AloneIsAlone
  <2>3. req[q].alone \/ ~stale
    BY <1>1, <2>1, <2>2
  <2>. QED  BY <2>1, <2>3 DEF IInv, ReadsAreCurrent
<1>11. KeyOrCode'
  BY <1>1 DEF IInv, KeyOrCode
<1>12. CurrentWhenPublishedAlone'
  BY <1>1, <1>9 DEF IInv, ReadsAreCurrent, CurrentWhenPublishedAlone
<1>. QED  BY <1>5, <1>6, <1>7, <1>8, <1>10, <1>11, <1>12 DEF IInv

LEMMA CodeExpiresKeeps == ASSUME IInv, CodeExpires PROVE IInv'
<1>1. /\ row # Nothing /\ row' = [row EXCEPT !.live = FALSE] /\ UNCHANGED <<file, req, stale, crossed>>
  BY DEF CodeExpires, history
<1>2. row \in Rows
  BY <1>1 DEF IInv, TypeOK
<1>3. Alike(row', row)
  BY <1>1, <1>2 DEF Alike, Rows
<1>4. /\ row' \in Rows \cup {Nothing} /\ row' # Nothing /\ row'.key = row.key /\ row'.code = row.code
      /\ Entry(row)' = Entry(row)
  BY <1>1, <1>3, AlikeRows DEF IInv
<1>5. TypeOK'
  BY <1>1, <1>4 DEF IInv, TypeOK
<1>6. \A q \in Reqs : WellFormed(req'[q])
  BY <1>1 DEF IInv
<1>7. HeldRow' /\ DetachedHalfWay' /\ CodeIsForFree' /\ AloneIsAlone'
  BY <1>1, <1>4 DEF IInv, HeldRow, DetachedHalfWay, CodeIsForFree, AloneIsAlone
<1>8. ReadsAreCurrent'
  BY <1>1, <1>4 DEF IInv, ReadsAreCurrent
<1>9. KeyOrCode' /\ CurrentWhenPublishedAlone'
  BY <1>1, <1>4 DEF IInv, KeyOrCode, CurrentWhenPublishedAlone
<1>. QED  BY <1>5, <1>6, <1>7, <1>8, <1>9 DEF IInv

LEMMA RestartKeeps == ASSUME IInv, Restart PROVE IInv'
<1>1. /\ req' = [r \in Reqs |-> Idle] /\ row' = Imported
      /\ row' # row => file' = Entry(row') /\ stale' = FALSE /\ crossed' = FALSE
      /\ row' = row => UNCHANGED <<file, stale, crossed>>
  BY DEF Restart
<1>2. row' \in Rows /\ (row' # row => row'.code = Nothing)
  <2>1. CASE row = Nothing
    BY <1>1, <2>1 DEF Imported, Rows, AnyKey
  <2>2. CASE row # Nothing
    BY <1>1, <2>2 DEF Imported, Bind, Rows, AnyKey, IInv, TypeOK
  <2>. QED  BY <2>1, <2>2
<1>3. Entry(row') \in Entries \cup {Nothing}
  BY <1>2 DEF Entry, Rows, Entries
<1>4. TypeOK'
  BY <1>1, <1>2, <1>3, IdleIsWellFormed DEF IInv, TypeOK
<1>5. \A q \in Reqs : WellFormed(req'[q])
  BY <1>1, IdleIsWellFormed
<1>6. HeldRow' /\ DetachedHalfWay' /\ CodeIsForFree' /\ AloneIsAlone' /\ ReadsAreCurrent'
  BY <1>1 DEF Idle, HeldRow, DetachedHalfWay, CodeIsForFree, AloneIsAlone, ReadsAreCurrent
<1>7. KeyOrCode'
  BY <1>1, <1>2 DEF IInv, KeyOrCode
<1>8. CurrentWhenPublishedAlone'
  BY <1>1 DEF IInv, CurrentWhenPublishedAlone, Entry
<1>. QED  BY <1>4, <1>5, <1>6, <1>7, <1>8 DEF IInv

(* The invariant is inductive.                                             *)
LEMMA StepKeeps == IInv /\ [Next]_vars => IInv'
<1>. SUFFICES ASSUME IInv, [Next]_vars PROVE IInv'
  OBVIOUS
<1>1. CASE UNCHANGED vars
  <2>1. UNCHANGED <<row, file, req, stale, crossed>>
    BY <1>1 DEF vars, history
  <2>. QED  BY <2>1 DEF IInv, TypeOK, HeldRow, DetachedHalfWay, CodeIsForFree, KeyOrCode,
                       AloneIsAlone, ReadsAreCurrent, CurrentWhenPublishedAlone, Entry
<1>2. ASSUME NEW r \in Reqs, Operator(r) PROVE IInv'
  BY <1>2, BeginsKeep, AddAgentKeeps, ResetAgentKeyKeeps, SetEnrollCodeKeeps, SettingsKeep,
     DeleteAgentKeeps DEF Operator
<1>3. ASSUME NEW r \in Reqs, Enroll(r) PROVE IInv'
  BY <1>3, BeginsKeep, SelfReportKeeps, BindKeyKeeps, GoesOnKeeps DEF Enroll
<1>4. ASSUME NEW r \in Reqs, Publish(r) PROVE IInv'
  BY <1>4, GoesOnKeeps, ReplaceFileKeeps DEF Publish
<1>. QED  BY <1>1, <1>2, <1>3, <1>4, CodeExpiresKeeps, RestartKeeps DEF Next

LEMMA AlwaysIInv == Spec => []IInv
BY InitHolds, StepKeeps, PTL DEF Spec

-------------------------------------------------------------------------------
(* ------------------------------ theorems ------------------------------ *)

(* The state has the shape its declarations say, and what is published names  *)
(* a key, whatever number of requests, codes and keys there are             *)
(* (server.go: syncAgents).                                                *)
THEOREM TypeCorrect == Spec => []TypeOK
<1>1. IInv => TypeOK
  BY DEF IInv
<1>. QED  BY <1>1, AlwaysIInv, PTL

(* A site admits the machine it has or the one that will bring the code,     *)
(* never both, unless a key was bound between the two statements of a       *)
(* request for a new code (agents.go: resetAgentKey, setAgentEnrollCode;     *)
(* enroll.go: bindAgentEnrollment).                                        *)
THEOREM OneAdmission == Spec => []KeyOrCode
<1>1. IInv => KeyOrCode
  BY DEF IInv
<1>. QED  BY <1>1, AlwaysIInv, PTL

(* Once a request that ran alone has published agents.json, the file says of  *)
(* the site what the database says until the row changes (agents.go: every   *)
(* handler ends in syncAgents or syncRegistries).                          *)
THEOREM PublishedIsCurrent == Spec => []CurrentWhenPublishedAlone
<1>1. IInv => CurrentWhenPublishedAlone
  BY DEF IInv
<1>. QED  BY <1>1, AlwaysIInv, PTL

(* A machine that holds the site is displaced only by an operator's request,  *)
(* by a machine whose code, the same or one replaced since, had been found    *)
(* valid before this one was bound, by the import of a site nobody ever       *)
(* enrolled, or after a new code was crossed by a key: in particular, by no   *)
(* enrollment that begins after it is bound (enroll.go, db.go:               *)
(* bindAgentEnrollment, agents.go, preprovision.go).                         *)
THEOREM MachineIsKept == Spec => KeptUntilReplaced
<1>. DEFINE Kept ==
       (row # Nothing /\ row.key # Nothing /\ row' # Nothing /\ row'.key # row.key) =>
          \/ \E r \in Reqs : /\ req'[r] # req[r] /\ req[r].pc \in {"reset", "bind"}
                             /\ req[r].kind \in {"newcode", "package"} \/ req[r].raced
          \/ ~row.enrolled
          \/ crossed
<1>1. ASSUME IInv, [Next]_vars PROVE [Kept]_vars
  <2>. SUFFICES ASSUME Next, row # Nothing, row.key # Nothing, row' # Nothing, row'.key # row.key,
                       ~crossed, row.enrolled
                PROVE  \E r \in Reqs : /\ req'[r] # req[r] /\ req[r].pc \in {"reset", "bind"}
                                       /\ req[r].kind \in {"newcode", "package"} \/ req[r].raced
    BY <1>1
  <2>0. row \in Rows
    BY <1>1 DEF IInv, TypeOK
  <2>1. ~Restart
    BY <2>0 DEF Restart, Imported
  <2>2. ~CodeExpires
    BY <2>0 DEF CodeExpires, Rows
  <2>3. PICK r \in Reqs : Operator(r) \/ Enroll(r) \/ Publish(r)
    BY <2>1, <2>2 DEF Next
  <2>4. CASE ResetAgentKey(r)
    <3>1. req[r].pc = "reset" /\ req[r].kind = "newcode" /\ req'[r] # req[r]
      BY <1>1, <2>4 DEF IInv, TypeOK, WellFormed, ResetAgentKey, Goto, Requests
    <3>. QED  BY <3>1
  <2>5. CASE BindKey(r)
    <3>1. req[r].pc = "bind" /\ req[r].kind \in {"package", "enroll"} /\ req[r].held
      BY <1>1, <2>5 DEF IInv, WellFormed, BindKey, Update
    <3>2. req'[r] # req[r]
      <4>1. req'[r].pc = "read"
        BY <1>1, <2>5, SyncFields DEF IInv, TypeOK, BindKey, Raced
      <4>. QED  BY <3>1, <4>1
    <3>3. req[r].kind = "enroll" => req[r].raced
      BY <1>1, <3>1 DEF IInv, CodeIsForFree
    <3>. QED  BY <3>1, <3>2, <3>3
  <2>6. CASE SetEnrollCode(r) \/ SetAgentEnabled(r) \/ SetAgentTOTP(r) \/ SelfReport(r)
    BY <2>0, <2>6 DEF SetEnrollCode, SetAgentEnabled, SetAgentTOTP, SelfReport, Update, Rows
  <2>7. ~DeleteAgent(r)
    BY DEF DeleteAgent, Update
  <2>8. CASE UNCHANGED row
    BY <2>8
  <2>. QED  BY <2>3, <2>4, <2>5, <2>6, <2>7, <2>8
            DEF Operator, Enroll, Publish, BeginCreate, AddAgent, BeginNewCode, BeginPackage,
                BeginState, BeginRotate, BeginRevoke, BeginEnroll, LookUpHub, SyncClients,
                ReadAgents, ReplaceFile
<1>2. Spec => [][Kept]_vars
  BY <1>1, AlwaysIInv, PTL DEF Spec
<1>. QED  BY <1>2 DEF KeptUntilReplaced
=============================================================================
