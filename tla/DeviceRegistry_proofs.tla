------------------------- MODULE DeviceRegistry_proofs ------------------------
(***************************************************************************)
(* Proofs about DeviceRegistry for any number of requests, devices,        *)
(* addresses and files: the state is well formed, the published file is    *)
(* torn only by a clash of writers, it follows the table through any        *)
(* sequence of requests that do not overlap or fail, and two devices share *)
(* an address only if one request chose while another was writing.         *)
(*                                                                         *)
(* Three invariants: of the files, where a writer that never met another   *)
(* has the temporary file for itself; of what is published, where a request *)
(* without a mishap runs alone and so writes what it has read; and of the  *)
(* addresses, where each request remembers which rows it could not have    *)
(* seen.                                                                   *)
(***************************************************************************)
EXTENDS DeviceRegistry, FiniteSetTheorems, WellFoundedInduction, TLAPS

(* What a request carries at each of its statements.                         *)
WellFormed(q) ==
  /\ q.pc \in {"alloc", "insert"} => /\ q.dev \in Devices /\ q.acl \in Acls
                                     /\ q.kind \in {"create", "import"}
  /\ q.pc = "change" => q.kind \in {"sites", "revoke"}
  /\ q.pc = "change" /\ q.kind = "sites" => q.acl \in Acls
  /\ q.pc = "insert" => q.ip # 0
  /\ q.pc \in {"open", "write"} => q.doc # Nothing
  /\ q.fd # Nothing <=> q.pc \in {"write", "rename"}
  /\ q.shared => q.pc \in {"write", "rename"}

(* --------------------------- the temporary file ----------------------- *)

(* Writers that overlap know it, and so does the history.                    *)
WritersShare ==
  /\ \A r, q \in Writers : r # q => req[r].shared
  /\ \A r \in Writers : req[r].shared => clash

(* A writer that met no other has the file under the temporary path for       *)
(* itself: empty before it writes, whole afterwards.                        *)
OwnFile ==
  \A r \in Writers : ~req[r].shared =>
    /\ tmp = req[r].fd
    /\ req[r].pc = "write" => disk[tmp] = Empty
    /\ req[r].pc = "rename" => Whole(tmp)

FileInv == WritersShare /\ OwnFile /\ tmp # final /\ TornOnlyByClash

(* --------------------------- what is published ------------------------ *)

AloneIsAlone ==
  \A r, q \in Reqs : r # q /\ req[r].alone => req[q].pc = "idle"

(* Without a mishap, whoever is under way runs alone.                        *)
AloneWithoutMishap ==
  mishaps = {} => \A r \in Reqs : req[r].pc # "idle" => req[r].alone

(* Where a request has not changed the database yet, or no longer runs.      *)
Unchanged == {"idle", "alloc", "insert", "change"}

(* What a request that runs alone has read, or written, is current.          *)
AloneIsCurrent ==
  \A r \in Reqs : req[r].alone =>
    /\ ~req[r].shared
    /\ req[r].pc \in {"open", "write"} => req[r].doc = RegistryRows
    /\ req[r].pc = "rename" => disk[req[r].fd].doc = RegistryRows

PublishedInv ==
  AloneIsAlone /\ AloneWithoutMishap /\ AloneIsCurrent /\ FileFollowsTable

(* ------------------------------ addresses ----------------------------- *)

There(rs) == {e \in Devices : rs[e] # Nothing}

(* With the rows rs: an address the request x has chosen is nobody's, and those *)
(* it thinks in use are all there are, but for rows it has missed; the rows   *)
(* it is going to change are there.                                        *)
AddressOK(x, rs) ==
  /\ x.pc = "insert" => \A e \in There(rs) : rs[e].ip = x.ip => e \in x.missed
  /\ x.pc \in {"legacy", "assign"} =>
       \A e \in There(rs) : rs[e].ip \in {0} \cup x.used \/ e \in x.missed
  /\ x.todo \subseteq There(rs)
  /\ x.pc = "change" /\ x.kind = "sites" => x.dev \in {0} \cup There(rs)

AddressInv == \A r \in Reqs : AddressOK(req[r], rows)

(* The inductive invariant.                                                *)
IInv ==
  /\ TypeOK /\ \A r \in Reqs : WellFormed(req[r])
  /\ FileInv /\ PublishedInv /\ AddressInv
-------------------------------------------------------------------------------
(* ------------------------- numbers and records ------------------------ *)

LEMMA MinOfNats ==
  ASSUME NEW S, S \subseteq Nat, S # {}
  PROVE  Min(S) \in S /\ \A y \in S : Min(S) <= y
<1>. DEFINE less == {p \in Nat \X Nat : p[1] < p[2]}
<1>0. IsWellFoundedOn(less, Nat)
  BY NatLessThanWellFounded DEF OpToRel
<1>1. \E x \in S : \A y \in S : ~(<<y, x>> \in less)
  <2>. HIDE DEF less
  <2>. QED  BY <1>0, WFMin
<1>2. \E x \in S : \A y \in S : x <= y
  <2>1. PICK x \in S : \A y \in S : ~(<<y, x>> \in less)
    BY <1>1
  <2>2. ASSUME NEW y \in S PROVE x <= y
    <3>1. x \in Nat /\ y \in Nat /\ <<y, x>> \notin less
      BY <2>1
    <3>2. ~(y < x)
      BY <3>1
    <3>. QED  BY <3>1, <3>2
  <2>. QED  BY <2>2
<1>. QED  BY <1>2 DEF Min

LEMMA AllocIP ==
  ASSUME NEW used, Free(used) # {}
  PROVE  Min(Free(used)) \in 1..Last /\ Min(Free(used)) \notin used
<1>1. Free(used) \subseteq Nat
  BY PoolAssumption DEF Free
<1>2. Min(Free(used)) \in Free(used)
  BY <1>1, MinOfNats
<1>. QED  BY <1>2 DEF Free

LEMMA MarshalledFits ==
  ASSUME NEW doc \in Docs
  PROVE  /\ Marshalled(doc).doc = doc /\ Marshalled(doc).size \in 0..(Cardinality(Devices) + 1)
         /\ Marshalled(doc).size >= 0
         /\ Marshalled(doc) \in [doc : Docs \cup {Nothing}, size : 0..(Cardinality(Devices) + 1)]
<1>. DEFINE listed == {d \in Devices : doc[d] # Nothing}
<1>1. listed \subseteq Devices
  OBVIOUS
<1>2. /\ Cardinality(listed) <= Cardinality(Devices)
      /\ Cardinality(listed) \in Nat /\ Cardinality(Devices) \in Nat
  BY <1>1, DeviceAssumption, FS_Subset, FS_CardinalityType
<1>3. Marshalled(doc) = [doc |-> doc, size |-> 1 + Cardinality(listed)]
  BY DEF Marshalled
<1>. HIDE DEF listed
<1>. QED  BY <1>2, <1>3

LEMMA IdleFields ==
  /\ Idle \in Requests /\ WellFormed(Idle)
  /\ Idle.pc = "idle" /\ Idle.kind = "none" /\ Idle.todo = {} /\ Idle.doc = Nothing
  /\ Idle.fd = Nothing /\ ~Idle.alone /\ ~Idle.shared
<1>1. Idle \in Requests
  BY PoolAssumption DEF Idle, Requests
<1>. QED  BY <1>1 DEF Idle, WellFormed

(* A request begins: the others hear of it.                                  *)
LEMMA BegunFields ==
  ASSUME TypeOK, \A q \in Reqs : WellFormed(req[q]),
         NEW r \in Reqs, NEW kind \in {"create", "import", "sites", "revoke"}, NEW d \in Devices,
         NEW a \in Acls \cup {Nothing}, NEW pc \in {"alloc", "change"},
         pc = "alloc" => a \in Acls /\ kind \in {"create", "import"},
         pc = "change" => kind \in {"sites", "revoke"} /\ (kind = "sites" => a \in Acls),
         req' = Begun(r, kind, d, a, pc)
  PROVE  /\ req' \in [Reqs -> Requests] /\ \A q \in Reqs : WellFormed(req'[q])
         /\ req'[r].pc = pc /\ req'[r].kind = kind /\ req'[r].dev = d /\ req'[r].todo = {}
         /\ ~req'[r].shared /\ (req'[r].alone <=> Active = {})
         /\ \A q \in Reqs \ {r} :
              /\ req'[q].pc = req[q].pc /\ req'[q].kind = req[q].kind /\ req'[q].dev = req[q].dev
              /\ req'[q].ip = req[q].ip /\ req'[q].used = req[q].used
              /\ req'[q].todo = req[q].todo /\ req'[q].doc = req[q].doc /\ req'[q].fd = req[q].fd
              /\ req'[q].shared = req[q].shared /\ req'[q].missed = req[q].missed
              /\ ~req'[q].alone
<1>. DEFINE mine == [Idle EXCEPT !.pc = pc, !.kind = kind, !.dev = d, !.acl = a,
                                 !.alone = Active = {}]
            theirs(q) == [req[q] EXCEPT !.alone = FALSE]
<1>1. /\ mine \in Requests /\ mine.pc = pc /\ mine.kind = kind /\ mine.dev = d /\ mine.acl = a
      /\ mine.todo = {} /\ mine.doc = Nothing /\ mine.fd = Nothing /\ mine.shared = FALSE
      /\ mine.alone = (Active = {})
  <2>1. 0 \in 0..Last
    BY PoolAssumption
  <2>2. /\ Idle \in Requests /\ Idle.todo = {} /\ Idle.doc = Nothing
        /\ Idle.fd = Nothing /\ ~Idle.shared
    BY IdleFields
  <2>. DEFINE quiet == Active = {}
              half == [Idle EXCEPT !.pc = pc, !.kind = kind, !.dev = d]
  <2>3. /\ half \in Requests /\ half.pc = pc /\ half.kind = kind /\ half.dev = d
        /\ half.todo = Idle.todo /\ half.doc = Idle.doc /\ half.fd = Idle.fd
        /\ half.shared = Idle.shared
    BY <2>2 DEF Requests
  <2>4. mine = [half EXCEPT !.acl = a, !.alone = quiet]
    BY <2>2 DEF Requests
  <2>5. quiet \in BOOLEAN
    OBVIOUS
  <2>. HIDE DEF mine, half, quiet
  <2>6. /\ mine \in Requests /\ mine.acl = a /\ mine.alone = quiet
        /\ mine.pc = half.pc /\ mine.kind = half.kind /\ mine.dev = half.dev
        /\ mine.todo = half.todo /\ mine.doc = half.doc /\ mine.fd = half.fd
        /\ mine.shared = half.shared
    BY <2>3, <2>4, <2>5 DEF Requests
  <2>. QED  BY <2>2, <2>3, <2>6 DEF quiet
<1>2. ASSUME NEW q \in Reqs
      PROVE  /\ theirs(q) \in Requests
             /\ theirs(q).pc = req[q].pc /\ theirs(q).kind = req[q].kind /\ theirs(q).dev = req[q].dev
             /\ theirs(q).acl = req[q].acl /\ theirs(q).ip = req[q].ip /\ theirs(q).used = req[q].used
             /\ theirs(q).todo = req[q].todo /\ theirs(q).doc = req[q].doc /\ theirs(q).fd = req[q].fd
             /\ theirs(q).shared = req[q].shared /\ theirs(q).missed = req[q].missed
             /\ theirs(q).alone = FALSE
  <2>1. req[q] \in Requests
    BY DEF TypeOK
  <2>. QED  BY <2>1 DEF Requests
<1>3. req' = [q \in Reqs |-> IF q = r THEN mine ELSE theirs(q)]
  BY DEF Begun
<1>. HIDE DEF mine, theirs
<1>4. req'[r] = mine /\ \A q \in Reqs \ {r} : req'[q] = theirs(q)
  BY <1>3
<1>5. req' \in [Reqs -> Requests]
  <2>1. \A q \in Reqs : theirs(q) \in Requests
    BY <1>2
  <2>. QED  BY <1>1, <1>3, <2>1
<1>6. WellFormed(mine)
  BY <1>1 DEF WellFormed
<1>7. ASSUME NEW q \in Reqs PROVE WellFormed(theirs(q))
  <2>1. WellFormed(req[q])
    OBVIOUS
  <2>. QED  BY <1>2, <2>1 DEF WellFormed
<1>8. \A q \in Reqs : WellFormed(req'[q])
  BY <1>4, <1>6, <1>7
<1>9. ASSUME NEW q \in Reqs \ {r}
      PROVE  /\ req'[q].pc = req[q].pc /\ req'[q].kind = req[q].kind /\ req'[q].dev = req[q].dev
             /\ req'[q].ip = req[q].ip /\ req'[q].used = req[q].used
             /\ req'[q].todo = req[q].todo /\ req'[q].doc = req[q].doc /\ req'[q].fd = req[q].fd
             /\ req'[q].shared = req[q].shared /\ req'[q].missed = req[q].missed
             /\ ~req'[q].alone
  <2>1. q \in Reqs /\ req'[q] = theirs(q)
    BY <1>4
  <2>. QED  BY <1>2, <2>1
<1>. QED  BY <1>1, <1>4, <1>5, <1>8, <1>9

(* What stays of a request when only its notes on others change.             *)
Same(x, y) ==
  /\ x.pc = y.pc /\ x.kind = y.kind /\ x.ip = y.ip /\ x.used = y.used
  /\ x.doc = y.doc /\ x.fd = y.fd /\ x.alone = y.alone

LEMMA MissingFields ==
  ASSUME NEW q \in [Reqs -> Requests], \A x \in Reqs : WellFormed(q[x]), NEW r \in Reqs, NEW rs
  PROVE  LET m == Missing(q, r, rs)
         IN  /\ m \in [Reqs -> Requests] /\ \A x \in Reqs : WellFormed(m[x])
             /\ m[r] = q[r]
             /\ \A x \in Reqs :
                  /\ Same(m[x], q[x]) /\ m[x].dev = q[x].dev /\ m[x].todo = q[x].todo
                  /\ m[x].shared = q[x].shared
                  /\ q[x].missed \subseteq m[x].missed
                  /\ x # r /\ q[x].pc \in {"insert", "legacy", "assign"}
                       => {d \in Devices : rs[d] # rows[d]} \subseteq m[x].missed
<1>. DEFINE new == {d \in Devices : rs[d] # rows[d]}
            more(x) == [q[x] EXCEPT !.missed = @ \cup new]
            m == Missing(q, r, rs)
<1>1. ASSUME NEW x \in Reqs
      PROVE  /\ more(x) \in Requests
             /\ more(x).acl = q[x].acl /\ more(x).missed = q[x].missed \cup new
             /\ Same(more(x), q[x]) /\ more(x).dev = q[x].dev /\ more(x).todo = q[x].todo
             /\ more(x).shared = q[x].shared
  <2>1. q[x] \in Requests /\ new \subseteq Devices
    OBVIOUS
  <2>. HIDE DEF new
  <2>. QED  BY <2>1 DEF Requests, Same
<1>2. m = [x \in Reqs |-> IF x # r /\ q[x].pc \in {"insert", "legacy", "assign"}
                          THEN more(x) ELSE q[x]]
  BY DEF Missing
<1>. HIDE DEF new, more, m
<1>3. ASSUME NEW x \in Reqs PROVE WellFormed(more(x))
  <2>1. WellFormed(q[x])
    OBVIOUS
  <2>. QED  BY <1>1, <2>1 DEF WellFormed, Same
<1>4. m \in [Reqs -> Requests]
  <2>1. \A x \in Reqs : more(x) \in Requests
    BY <1>1
  <2>. QED  BY <1>2, <2>1
<1>5. m[r] = q[r]
  BY <1>2
<1>6. ASSUME NEW x \in Reqs
      PROVE  /\ WellFormed(m[x])
             /\ Same(m[x], q[x]) /\ m[x].dev = q[x].dev /\ m[x].todo = q[x].todo
             /\ m[x].shared = q[x].shared
             /\ q[x].missed \subseteq m[x].missed
             /\ x # r /\ q[x].pc \in {"insert", "legacy", "assign"} => new \subseteq m[x].missed
  <2>1. CASE m[x] = q[x] /\ ~(x # r /\ q[x].pc \in {"insert", "legacy", "assign"})
    BY <2>1 DEF Same
  <2>2. CASE m[x] = more(x)
    BY <1>1, <1>3, <2>2
  <2>. QED  BY <1>2, <2>1, <2>2
<1>. QED  BY <1>4, <1>5, <1>6 DEF m, new

LEMMA SyncFields ==
  ASSUME TypeOK, \A q \in Reqs : WellFormed(req[q]), NEW r \in Reqs
  PROVE  /\ Sync(r) \in [Reqs -> Requests] /\ \A q \in Reqs : WellFormed(Sync(r)[q])
         /\ Sync(r)[r].pc = "backfill" /\ Sync(r)[r].alone = req[r].alone /\ ~Sync(r)[r].shared
         /\ Sync(r)[r].todo = {}
         /\ \A q \in Reqs \ {r} : Sync(r)[q] = req[q]
<1>. DEFINE mine == [Idle EXCEPT !.pc = "backfill", !.alone = req[r].alone]
<1>1. req \in [Reqs -> Requests] /\ req[r].alone \in BOOLEAN
  BY DEF TypeOK, Requests
<1>2. /\ mine \in Requests /\ mine.pc = "backfill" /\ mine.alone = req[r].alone
      /\ mine.todo = {} /\ mine.doc = Nothing /\ mine.fd = Nothing /\ mine.shared = FALSE
  BY <1>1, IdleFields DEF Idle, Requests
<1>3. Sync(r) = [req EXCEPT ![r] = mine]
  BY DEF Sync
<1>. HIDE DEF mine
<1>4. WellFormed(mine)
  BY <1>2 DEF WellFormed
<1>. QED  BY <1>1, <1>2, <1>3, <1>4

LEMMA EndFields ==
  ASSUME TypeOK, \A q \in Reqs : WellFormed(req[q]), NEW r \in Reqs
  PROVE  /\ End(r) \in [Reqs -> Requests] /\ \A q \in Reqs : WellFormed(End(r)[q])
         /\ End(r)[r] = Idle /\ End(r)[r].pc = "idle"
         /\ \A q \in Reqs \ {r} : End(r)[q] = req[q]
BY IdleFields DEF End, TypeOK

LEMMA OrphanFields ==
  ASSUME NEW q \in [Reqs -> Requests], \A x \in Reqs : WellFormed(q[x]), NEW d
  PROVE  LET o == Orphan(q, d)
         IN  /\ o \in [Reqs -> Requests] /\ \A x \in Reqs : WellFormed(o[x])
             /\ \A x \in Reqs :
                  /\ Same(o[x], q[x]) /\ o[x].shared = q[x].shared /\ o[x].missed = q[x].missed
                  /\ o[x].todo = q[x].todo \ {d}
                  /\ o[x].dev \in {0, q[x].dev}
                  /\ q[x].kind = "sites" => o[x].dev # d \/ o[x].dev = 0
<1>. DEFINE dev(x) == IF q[x].dev = d /\ q[x].kind \in {"sites", "revoke"} THEN 0 ELSE q[x].dev
            todo(x) == q[x].todo \ {d}
            new(x) == [q[x] EXCEPT !.dev = dev(x), !.todo = todo(x)]
            o == Orphan(q, d)
<1>1. ASSUME NEW x \in Reqs
      PROVE  /\ new(x) \in Requests
             /\ new(x).dev = dev(x) /\ new(x).todo = todo(x) /\ new(x).acl = q[x].acl
             /\ new(x).shared = q[x].shared /\ new(x).missed = q[x].missed /\ Same(new(x), q[x])
  <2>1. q[x] \in Requests /\ q[x].dev \in Devices \cup {0} /\ q[x].todo \subseteq Devices
    BY DEF Requests
  <2>2. dev(x) \in Devices \cup {0} /\ todo(x) \subseteq Devices
    BY <2>1
  <2>. HIDE DEF dev, todo
  <2>. QED  BY <2>1, <2>2 DEF Requests, Same
<1>2. o = [x \in Reqs |-> new(x)]
  BY DEF Orphan
<1>. HIDE DEF new, o
<1>3. ASSUME NEW x \in Reqs PROVE WellFormed(new(x))
  <2>1. WellFormed(q[x])
    OBVIOUS
  <2>2. q[x].pc \in {"alloc", "insert"} => dev(x) = q[x].dev
    BY <2>1 DEF WellFormed
  <2>. HIDE DEF dev, todo
  <2>. QED  BY <1>1, <2>1, <2>2 DEF WellFormed, Same
<1>4. o \in [Reqs -> Requests]
  <2>1. \A x \in Reqs : new(x) \in Requests
    BY <1>1
  <2>. QED  BY <1>2, <2>1
<1>5. ASSUME NEW x \in Reqs
      PROVE  /\ WellFormed(o[x])
             /\ Same(o[x], q[x]) /\ o[x].shared = q[x].shared /\ o[x].missed = q[x].missed
             /\ o[x].todo = q[x].todo \ {d}
             /\ o[x].dev \in {0, q[x].dev}
             /\ q[x].kind = "sites" => o[x].dev # d \/ o[x].dev = 0
  <2>1. o[x] = new(x)
    BY <1>2
  <2>. QED  BY <1>1, <1>3, <2>1
<1>. QED  BY <1>4, <1>5 DEF o

LEMMA SharedFields ==
  ASSUME NEW q \in [Reqs -> Requests], \A x \in Reqs : WellFormed(q[x]), NEW r \in Reqs,
         \A x \in Writers \cup {r} : q[x].pc \in {"write", "rename"}
  PROVE  LET s == Shared(q, r)
         IN  /\ s \in [Reqs -> Requests] /\ \A x \in Reqs : WellFormed(s[x])
             /\ \A x \in Reqs :
                  /\ Same(s[x], q[x]) /\ s[x].dev = q[x].dev /\ s[x].todo = q[x].todo
                  /\ s[x].missed = q[x].missed
                  /\ x \in Writers \cup {r} /\ Writers # {} => s[x].shared
                  /\ ~(x \in Writers \cup {r} /\ Writers # {}) => s[x].shared = q[x].shared
<1>. DEFINE new(x) == [q[x] EXCEPT !.shared = TRUE]
            s == Shared(q, r)
<1>1. ASSUME NEW x \in Reqs
      PROVE  /\ new(x) \in Requests
             /\ new(x).dev = q[x].dev /\ new(x).todo = q[x].todo /\ new(x).acl = q[x].acl
             /\ new(x).shared = TRUE /\ new(x).missed = q[x].missed /\ Same(new(x), q[x])
  <2>1. q[x] \in Requests
    OBVIOUS
  <2>. QED  BY <2>1 DEF Requests, Same
<1>2. s = [x \in Reqs |-> IF x \in Writers \cup {r} /\ Writers # {} THEN new(x) ELSE q[x]]
  BY DEF Shared
<1>. HIDE DEF new, s
<1>3. ASSUME NEW x \in Reqs, x \in Writers \cup {r} PROVE WellFormed(new(x))
  <2>1. WellFormed(q[x]) /\ q[x].pc \in {"write", "rename"}
    BY <1>3
  <2>. QED  BY <1>1, <2>1 DEF WellFormed, Same
<1>4. s \in [Reqs -> Requests]
  <2>1. \A x \in Reqs : new(x) \in Requests
    BY <1>1
  <2>. QED  BY <1>2, <2>1
<1>5. ASSUME NEW x \in Reqs
      PROVE  /\ WellFormed(s[x])
             /\ Same(s[x], q[x]) /\ s[x].dev = q[x].dev /\ s[x].todo = q[x].todo
             /\ s[x].missed = q[x].missed
             /\ x \in Writers \cup {r} /\ Writers # {} => s[x].shared
             /\ ~(x \in Writers \cup {r} /\ Writers # {}) => s[x].shared = q[x].shared
  <2>1. CASE x \in Writers \cup {r} /\ Writers # {}
    <3>1. s[x] = new(x)
      BY <1>2, <2>1
    <3>. QED  BY <1>1, <1>3, <2>1, <3>1
  <2>2. CASE ~(x \in Writers \cup {r} /\ Writers # {})
    <3>1. s[x] = q[x]
      BY <1>2, <2>2
    <3>. QED  BY <2>2, <3>1 DEF Same
  <2>. QED  BY <2>1, <2>2
<1>. QED  BY <1>4, <1>5 DEF s

-------------------------------------------------------------------------------
(* ---------------------- what the steps leave alone -------------------- *)

(* Nobody touches the temporary file, and nobody comes to it.                 *)
LEMMA FilesUntouched ==
  ASSUME FileInv, UNCHANGED Files,
         \A q \in Reqs : req'[q].pc \in {"write", "rename"} =>
           req'[q].pc = req[q].pc /\ req'[q].fd = req[q].fd /\ req'[q].shared = req[q].shared
  PROVE  FileInv'
<1>1. UNCHANGED <<tmp, final, disk, clash>>
  BY DEF Files
<1>2. Writers' \subseteq Writers
  BY DEF Writers
<1>3. \A q \in Writers' : q \in Reqs /\ req'[q].pc \in {"write", "rename"}
  BY DEF Writers
<1>4. WritersShare'
  BY <1>1, <1>2, <1>3 DEF FileInv, WritersShare
<1>5. OwnFile'
  BY <1>1, <1>2, <1>3 DEF FileInv, OwnFile, Whole
<1>6. (tmp # final)' /\ TornOnlyByClash'
  BY <1>1 DEF FileInv, TornOnlyByClash, Whole
<1>. QED  BY <1>4, <1>5, <1>6 DEF FileInv

(* Beside a request that is under way nobody runs alone.                     *)
LEMMA OthersAreNotAlone ==
  ASSUME PublishedInv, NEW r \in Reqs, req[r].pc # "idle"
  PROVE  \A q \in Reqs \ {r} : ~req[q].alone
BY DEF PublishedInv, AloneIsAlone

(* Without a mishap nobody is beside a request that is under way.             *)
LEMMA NobodyBeside ==
  ASSUME PublishedInv, NEW r \in Reqs, req[r].pc # "idle", mishaps = {}
  PROVE  req[r].alone /\ \A q \in Reqs \ {r} : req[q].pc = "idle"
BY DEF PublishedInv, AloneIsAlone, AloneWithoutMishap

(* A request goes on while the database stays as it is, and the file too if   *)
(* the request comes to no change of it.                                   *)
LEMMA PublishedKept ==
  ASSUME PublishedInv, NEW r \in Reqs, UNCHANGED <<rows, bound>>,
         mishaps' = {} => mishaps = {} /\ \A q \in Reqs \ {r} : req[q].pc = "idle",
         mishaps' = {} /\ req'[r].pc # "idle" => req'[r].alone,
         mishaps' = {} /\ req'[r].pc \in Unchanged =>
           req[r].pc \in Unchanged /\ final' = final /\ disk'[final] = disk[final],
         \A q \in Reqs \ {r} : req'[q].pc = req[q].pc /\ ~req'[q].alone,
         req'[r].alone => /\ req[r].alone \/ \A q \in Reqs \ {r} : req[q].pc = "idle"
                          /\ ~req'[r].shared
                          /\ req'[r].pc \in {"open", "write"} => req'[r].doc = RegistryRows
                          /\ req'[r].pc = "rename" => disk'[req'[r].fd].doc = RegistryRows
  PROVE  PublishedInv'
<1>1. RegistryRows' = RegistryRows
  BY DEF RegistryRows
<1>2. AloneIsAlone'
  BY DEF PublishedInv, AloneIsAlone
<1>3. AloneWithoutMishap'
  BY DEF AloneWithoutMishap
<1>4. AloneIsCurrent'
  <2>. SUFFICES ASSUME NEW q \in Reqs, req'[q].alone
                PROVE  /\ ~req'[q].shared
                       /\ req'[q].pc \in {"open", "write"} => req'[q].doc = RegistryRows
                       /\ req'[q].pc = "rename" => disk'[req'[q].fd].doc = RegistryRows
    BY <1>1 DEF AloneIsCurrent
  <2>1. q = r
    OBVIOUS
  <2>. QED  BY <2>1
<1>5. FileFollowsTable'
  <2>. SUFFICES ASSUME mishaps' = {}, NoChangeUnderWay'
                PROVE  disk'[final'].doc = RegistryRows
    BY <1>1 DEF FileFollowsTable
  <2>1. req'[r].pc \in Unchanged
    BY DEF NoChangeUnderWay, Unchanged
  <2>2. NoChangeUnderWay
    BY <2>1 DEF NoChangeUnderWay, Unchanged
  <2>. QED  BY <2>1, <2>2 DEF PublishedInv, FileFollowsTable
<1>. QED  BY <1>2, <1>3, <1>4, <1>5 DEF PublishedInv

(* Something went wrong, and nobody runs alone.                              *)
LEMMA NothingPublished ==
  ASSUME mishaps' # {}, \A q \in Reqs : ~req'[q].alone
  PROVE  PublishedInv'
BY DEF PublishedInv, AloneIsAlone, AloneWithoutMishap, AloneIsCurrent, FileFollowsTable

(* A request changes the database and has yet to publish.                    *)
LEMMA PublishedChanges ==
  ASSUME PublishedInv, NEW r \in Reqs, req[r].pc # "idle", UNCHANGED mishaps,
         \A q \in Reqs \ {r} : req'[q].pc = req[q].pc /\ req'[q].alone = req[q].alone,
         req'[r].alone = req[r].alone, ~req'[r].shared,
         req'[r].pc \in {"backfill", "assign"}
  PROVE  PublishedInv'
<1>1. AloneIsAlone'
  BY DEF PublishedInv, AloneIsAlone
<1>2. \A q \in Reqs \ {r} : ~req'[q].alone
  BY DEF PublishedInv, AloneIsAlone
<1>3. AloneIsCurrent'
  BY <1>2 DEF AloneIsCurrent
<1>4. AloneWithoutMishap'
  BY DEF PublishedInv, AloneWithoutMishap
<1>5. ~NoChangeUnderWay'
  BY DEF NoChangeUnderWay
<1>. QED  BY <1>1, <1>3, <1>4, <1>5 DEF PublishedInv, FileFollowsTable

(* What a request has noted stays right when it has missed every row that got  *)
(* another address.                                                        *)
LEMMA AddressFollows ==
  ASSUME NEW x, NEW y, NEW rs, NEW new, AddressOK(x, rs),
         y.pc = x.pc, y.kind = x.kind, y.ip = x.ip, y.used = x.used, x.missed \subseteq y.missed,
         x.pc \in {"insert", "legacy", "assign"} =>
           \A e \in There(new) : (e \in There(rs) /\ new[e].ip = rs[e].ip) \/ e \in y.missed,
         y.todo \subseteq There(new),
         y.pc = "change" /\ y.kind = "sites" => y.dev \in {0} \cup There(new)
  PROVE  AddressOK(y, new)
<1>1. ASSUME x.pc = "insert", NEW e \in There(new), new[e].ip = y.ip PROVE e \in y.missed
  BY <1>1 DEF AddressOK
<1>2. ASSUME x.pc \in {"legacy", "assign"}, NEW e \in There(new), e \notin y.missed
      PROVE  new[e].ip \in {0} \cup y.used
  BY <1>2 DEF AddressOK
<1>. QED  BY <1>1, <1>2 DEF AddressOK

(* Nothing moves but one request.                                           *)
LEMMA AddressKept ==
  ASSUME AddressInv, NEW r \in Reqs, UNCHANGED rows,
         \A q \in Reqs \ {r} :
           /\ req'[q].pc = req[q].pc /\ req'[q].kind = req[q].kind /\ req'[q].dev = req[q].dev
           /\ req'[q].ip = req[q].ip /\ req'[q].used = req[q].used
           /\ req'[q].todo = req[q].todo /\ req'[q].missed = req[q].missed,
         AddressOK(req'[r], rows)
  PROVE  AddressInv'
<1>1. ASSUME NEW q \in Reqs \ {r} PROVE AddressOK(req'[q], rows)
  <2>1. AddressOK(req[q], rows)
    BY DEF AddressInv
  <2>. QED  BY <2>1 DEF AddressOK
<1>. QED  BY <1>1 DEF AddressInv

-------------------------------------------------------------------------------
(* ------------------------------- the steps ---------------------------- *)

LEMMA Established == Init => IInv
<1>. SUFFICES ASSUME Init PROVE IInv
  OBVIOUS
<1>. DEFINE none == [d \in Devices |-> Nothing]
<1>1. none \in Docs
  BY DEF Docs
<1>2. Marshalled(none) \in [doc : Docs \cup {Nothing}, size : 0..(Cardinality(Devices) + 1)]
      /\ Marshalled(none).doc = none
  BY <1>1, MarshalledFits
<1>3. Empty \in [doc : Docs \cup {Nothing}, size : 0..(Cardinality(Devices) + 1)]
  BY DeviceAssumption, FS_CardinalityType DEF Empty
<1>4. disk = [i \in Inodes |-> IF i = final THEN Marshalled(none) ELSE Empty]
  BY DEF Init
<1>. HIDE DEF none
<1>5. disk \in [Inodes -> [doc : Docs \cup {Nothing}, size : 0..(Cardinality(Devices) + 1)]]
  BY <1>2, <1>3, <1>4
<1>6. rows \in Docs
  <2>1. 0 \in 0..Last
    BY PoolAssumption
  <2>2. [ip : {0}, acl : Acls] \subseteq Row
    BY <2>1 DEF Row
  <2>. QED  BY <2>2 DEF Init, Docs
<1>7. \A q \in Reqs : req[q] = Idle
  BY DEF Init
<1>8. TypeOK
  BY <1>5, <1>6, IdleFields DEF Init, TypeOK, Mishaps
<1>9. \A r \in Reqs : WellFormed(req[r])
  BY <1>7, IdleFields
<1>10. FileInv
  <2>1. Writers = {}
    BY <1>7, IdleFields DEF Writers
  <2>2. Whole(final)
    BY <1>1, <1>2, <1>4, NothingAssumption DEF Init, Whole
  <2>. QED  BY <2>1, <2>2, NothingAssumption
            DEF FileInv, WritersShare, OwnFile, TornOnlyByClash, Init
<1>11. PublishedInv
  BY <1>7, IdleFields
  DEF PublishedInv, AloneIsAlone, AloneWithoutMishap, AloneIsCurrent, FileFollowsTable, Init
<1>12. AddressInv
  BY <1>7, IdleFields DEF AddressInv, AddressOK
<1>. QED  BY <1>8, <1>9, <1>10, <1>11, <1>12 DEF IInv

(* A request goes on by itself, without touching database or files.           *)
LEMMA OwnStep ==
  ASSUME IInv, NEW r \in Reqs, req[r].pc # "idle", NEW x \in Requests, WellFormed(x),
         req' = [req EXCEPT ![r] = x], UNCHANGED <<rows, bound, Files>>,
         mishaps' = mishaps \/ mishaps' = mishaps \cup {"failure"},
         x.pc \notin {"write", "rename"},
         x.alone => req[r].alone /\ (x.pc = "open" => x.doc = RegistryRows),
         x.pc # "idle" => x.alone = req[r].alone,
         mishaps' = {} /\ x.pc \in Unchanged => req[r].pc \in Unchanged,
         AddressOK(x, rows)
  PROVE  IInv'
<1>. req \in [Reqs -> Requests]
  BY DEF IInv, TypeOK
<1>1. req'[r] = x /\ req' \in [Reqs -> Requests] /\ \A q \in Reqs \ {r} : req'[q] = req[q]
  OBVIOUS
<1>2. TypeOK' /\ \A q \in Reqs : WellFormed(req'[q])
  <2>1. \A q \in Reqs : WellFormed(req'[q])
    BY <1>1 DEF IInv
  <2>. QED  BY <1>1, <2>1 DEF IInv, TypeOK, Files, Mishaps
<1>3. FileInv'
  <2>1. FileInv
    BY DEF IInv
  <2>. QED  BY <1>1, <2>1, FilesUntouched
<1>4. PublishedInv'
  <2>1. PublishedInv
    BY DEF IInv
  <2>2. \A q \in Reqs \ {r} : ~req'[q].alone
    BY <1>1, <2>1, OthersAreNotAlone
  <2>3. ~x.shared
    BY DEF WellFormed
  <2>4. UNCHANGED <<final, disk>>
    BY DEF Files
  <2>5. mishaps = {} => req[r].alone /\ \A q \in Reqs \ {r} : req[q].pc = "idle"
    BY <2>1, NobodyBeside
  <2>6. mishaps' = {} /\ req'[r].pc # "idle" => req'[r].alone
    BY <1>1, <2>5
  <2>. QED  BY <1>1, <2>1, <2>2, <2>3, <2>4, <2>5, <2>6, PublishedKept
<1>5. AddressInv'
  <2>1. AddressInv
    BY DEF IInv
  <2>. QED  BY <1>1, <2>1, AddressKept
<1>. QED  BY <1>2, <1>3, <1>4, <1>5 DEF IInv

LEMMA BeginStep ==
  ASSUME IInv, NEW r \in Reqs, Begin(r)
  PROVE  IInv'
<1>1. PICK d \in Devices, a \in Acls :
        BeginCreate(r, d, a) \/ BeginImport(r, d, a) \/ BeginSites(r, d, a) \/ BeginRevoke(r, d)
  BY DEF Begin
<1>2. UNCHANGED <<rows, bound, Files>> /\ mishaps' = Crowded /\ req[r].pc = "idle"
  BY <1>1 DEF BeginCreate, BeginImport, BeginSites, BeginRevoke
<1>3. PICK kind \in {"create", "import", "sites", "revoke"}, acl \in Acls \cup {Nothing},
           pc \in {"alloc", "change"} :
        /\ req' = Begun(r, kind, d, acl, pc)
        /\ pc = "alloc" => acl \in Acls /\ kind \in {"create", "import"}
        /\ pc = "change" => kind \in {"sites", "revoke"} /\ rows[d] # Nothing
        /\ pc = "change" /\ kind = "sites" => acl \in Acls
  <2>1. CASE BeginCreate(r, d, a)
    BY <2>1 DEF BeginCreate
  <2>2. CASE BeginImport(r, d, a)
    BY <2>2 DEF BeginImport
  <2>3. CASE BeginSites(r, d, a)
    BY <2>3 DEF BeginSites
  <2>4. CASE BeginRevoke(r, d)
    BY <2>4 DEF BeginRevoke
  <2>. QED  BY <1>1, <2>1, <2>2, <2>3, <2>4
<1>4. TypeOK /\ \A q \in Reqs : WellFormed(req[q])
  BY DEF IInv
<1>5. /\ req' \in [Reqs -> Requests] /\ \A q \in Reqs : WellFormed(req'[q])
      /\ req'[r].pc = pc /\ req'[r].kind = kind /\ req'[r].dev = d /\ req'[r].todo = {}
      /\ ~req'[r].shared /\ (req'[r].alone <=> Active = {})
      /\ \A q \in Reqs \ {r} :
           /\ req'[q].pc = req[q].pc /\ req'[q].kind = req[q].kind /\ req'[q].dev = req[q].dev
           /\ req'[q].ip = req[q].ip /\ req'[q].used = req[q].used
           /\ req'[q].todo = req[q].todo /\ req'[q].doc = req[q].doc /\ req'[q].fd = req[q].fd
           /\ req'[q].shared = req[q].shared /\ req'[q].missed = req[q].missed
           /\ ~req'[q].alone
  BY <1>3, <1>4, BegunFields
<1>6. TypeOK'
  BY <1>2, <1>4, <1>5 DEF TypeOK, Files, Crowded, Mishaps
<1>7. FileInv'
  <2>1. FileInv
    BY DEF IInv
  <2>2. \A q \in Reqs : req'[q].pc \in {"write", "rename"} =>
          req'[q].pc = req[q].pc /\ req'[q].fd = req[q].fd /\ req'[q].shared = req[q].shared
    BY <1>5
  <2>. QED  BY <1>2, <2>1, <2>2, FilesUntouched
<1>8. PublishedInv'
  <2>1. PublishedInv
    BY DEF IInv
  <2>2. req'[r].alone => \A q \in Reqs \ {r} : req[q].pc = "idle"
    BY <1>5 DEF Active
  <2>3. UNCHANGED <<rows, bound, final, disk>>
    BY <1>2 DEF Files
  <2>4. mishaps' = {} => mishaps = {} /\ Active = {}
    BY <1>2 DEF Crowded
  <2>5. mishaps' = {} => req'[r].alone /\ \A q \in Reqs \ {r} : req[q].pc = "idle"
    BY <1>5, <2>4 DEF Active
  <2>6. req[r].pc \in Unchanged /\ req'[r].pc \notin {"open", "write", "rename"}
    BY <1>2, <1>5 DEF Unchanged
  <2>. QED  BY <1>5, <2>1, <2>2, <2>3, <2>4, <2>5, <2>6, PublishedKept
<1>9. AddressInv'
  <2>1. AddressInv
    BY DEF IInv
  <2>2. AddressOK(req'[r], rows)
    BY <1>3, <1>5 DEF AddressOK, There
  <2>. QED  BY <1>2, <1>5, <2>1, <2>2, AddressKept
<1>. QED  BY <1>5, <1>6, <1>7, <1>8, <1>9 DEF IInv

LEMMA AllocStep ==
  ASSUME IInv, NEW r \in Reqs, AllocClientIP(r)
  PROVE  IInv'
<1>1. req \in [Reqs -> Requests] /\ WellFormed(req[r]) /\ AddressOK(req[r], rows)
  BY DEF IInv, TypeOK, AddressInv
<1>2. req[r].pc = "alloc" /\ UNCHANGED <<rows, bound, Files, mishaps>>
  BY DEF AllocClientIP
<1>3. CASE Free(InUse) = {}
  <2>1. req' = [req EXCEPT ![r] = Idle]
    BY <1>3 DEF AllocClientIP, End
  <2>2. AddressOK(Idle, rows)
    BY IdleFields DEF AddressOK
  <2>. QED  BY <1>2, <2>1, <2>2, IdleFields, OwnStep DEF Unchanged
<1>4. CASE Free(InUse) # {}
  <2>. DEFINE ip == Min(Free(InUse))
              x == [req[r] EXCEPT !.pc = "insert", !.ip = ip]
  <2>1. ip \in 1..Last /\ ip \notin InUse
    BY <1>4, AllocIP
  <2>2. req' = [req EXCEPT ![r] = x]
    BY <1>1, <1>4 DEF AllocClientIP
  <2>3. /\ x \in Requests /\ x.pc = "insert" /\ x.ip = ip /\ x.kind = req[r].kind
        /\ x.dev = req[r].dev /\ x.acl = req[r].acl /\ x.todo = req[r].todo
        /\ x.fd = req[r].fd /\ x.alone = req[r].alone /\ x.shared = req[r].shared
    <3>. HIDE DEF ip
    <3>1. ip \in 0..Last /\ req[r] \in Requests
      BY <1>1, <2>1, PoolAssumption
    <3>. QED  BY <3>1 DEF Requests
  <2>4. \A e \in There(rows) : rows[e].ip # ip
    <3>1. ip # 0
      BY <2>1, PoolAssumption
    <3>. QED  BY <2>1, <3>1 DEF InUse, Present, There
  <2>. HIDE DEF x, ip
  <2>5. WellFormed(x)
    <3>1. ip # 0
      BY <2>1, PoolAssumption
    <3>. QED  BY <1>1, <1>2, <2>3, <3>1 DEF WellFormed
  <2>6. AddressOK(x, rows)
    BY <1>1, <2>3, <2>4 DEF AddressOK
  <2>. QED  BY <1>2, <2>2, <2>3, <2>5, <2>6, OwnStep DEF Unchanged
<1>. QED  BY <1>3, <1>4

(* What is left of a request that has changed the database: it has not come    *)
(* to the file, and the others learn only which rows they have missed.       *)
LEMMA ChangeStep ==
  ASSUME IInv, NEW r \in Reqs, req[r].pc # "idle", req[r].pc \notin {"write", "rename"},
         NEW mid \in [Reqs -> Requests], \A q \in Reqs : WellFormed(mid[q]),
         \A q \in Reqs \ {r} : mid[q] = req[q],
         mid[r].alone = req[r].alone, mid[r].pc \in {"backfill", "assign"},
         req' \in [Reqs -> Requests], \A q \in Reqs : WellFormed(req'[q]),
         \A q \in Reqs : Same(req'[q], mid[q]) /\ req'[q].shared = mid[q].shared,
         rows' \in Docs, UNCHANGED <<bound, Files, mishaps>>, AddressInv'
  PROVE  IInv'
<1>. req \in [Reqs -> Requests]
  BY DEF IInv, TypeOK
<1>1. TypeOK'
  BY DEF IInv, TypeOK, Files
<1>2. \A q \in Reqs \ {r} :
        /\ req'[q].pc = req[q].pc /\ req'[q].fd = req[q].fd /\ req'[q].shared = req[q].shared
        /\ req'[q].alone = req[q].alone
  BY DEF Same
<1>3. req'[r].pc \in {"backfill", "assign"} /\ req'[r].alone = req[r].alone
  BY DEF Same
<1>4. FileInv'
  <2>1. FileInv
    BY DEF IInv
  <2>2. \A q \in Reqs : req'[q].pc \in {"write", "rename"} =>
          req'[q].pc = req[q].pc /\ req'[q].fd = req[q].fd /\ req'[q].shared = req[q].shared
    BY <1>2, <1>3
  <2>. QED  BY <2>1, <2>2, FilesUntouched
<1>5. PublishedInv'
  <2>1. PublishedInv
    BY DEF IInv
  <2>2. ~req'[r].shared
    BY <1>3 DEF WellFormed
  <2>. QED  BY <1>2, <1>3, <2>1, <2>2, PublishedChanges
<1>. QED  BY <1>1, <1>4, <1>5 DEF IInv

LEMMA AddStep ==
  ASSUME IInv, NEW r \in Reqs, AddDevice(r)
  PROVE  IInv'
<1>. DEFINE d == req[r].dev
<1>1. /\ req \in [Reqs -> Requests] /\ \A q \in Reqs : WellFormed(req[q])
      /\ \A q \in Reqs : AddressOK(req[q], rows)
      /\ TypeOK /\ rows \in Docs
  BY DEF IInv, TypeOK, AddressInv
<1>2. req[r].pc = "insert" /\ UNCHANGED <<bound, Files, mishaps>>
  BY DEF AddDevice
<1>3. CASE rows[d] # Nothing
  <2>1. req' = [req EXCEPT ![r] = Idle] /\ UNCHANGED rows
    BY <1>3 DEF AddDevice, End
  <2>2. AddressOK(Idle, rows)
    BY IdleFields DEF AddressOK
  <2>. QED  BY <1>2, <2>1, <2>2, IdleFields, OwnStep DEF Unchanged
<1>4. CASE rows[d] = Nothing
  <2>. DEFINE new == [ip |-> req[r].ip, acl |-> req[r].acl]
  <2>1. rows' = [rows EXCEPT ![d] = new] /\ req' = Missing(Sync(r), r, rows')
    BY <1>4 DEF AddDevice
  <2>2. d \in Devices /\ new \in Row
    <3>1. d \in Devices /\ req[r].acl \in Acls
      BY <1>1, <1>2 DEF WellFormed
    <3>2. req[r].ip \in 0..Last
      BY <1>1 DEF Requests
    <3>. QED  BY <3>1, <3>2 DEF Row
  <2>. HIDE DEF new, d
  <2>3. rows' \in Docs
    BY <1>1, <2>1, <2>2 DEF Docs
  <2>4. /\ Sync(r) \in [Reqs -> Requests] /\ \A q \in Reqs : WellFormed(Sync(r)[q])
        /\ Sync(r)[r].pc = "backfill" /\ Sync(r)[r].alone = req[r].alone
        /\ Sync(r)[r].todo = {} /\ \A q \in Reqs \ {r} : Sync(r)[q] = req[q]
    BY <1>1, SyncFields
  <2>5. /\ req' \in [Reqs -> Requests] /\ \A q \in Reqs : WellFormed(req'[q])
        /\ \A q \in Reqs :
             /\ Same(req'[q], Sync(r)[q]) /\ req'[q].dev = Sync(r)[q].dev
             /\ req'[q].todo = Sync(r)[q].todo /\ req'[q].shared = Sync(r)[q].shared
             /\ Sync(r)[q].missed \subseteq req'[q].missed
             /\ q # r /\ Sync(r)[q].pc \in {"insert", "legacy", "assign"}
                  => {e \in Devices : rows'[e] # rows[e]} \subseteq req'[q].missed
    <3>. DEFINE m == Missing(Sync(r), r, rows')
    <3>1. /\ m \in [Reqs -> Requests] /\ \A q \in Reqs : WellFormed(m[q])
          /\ \A q \in Reqs :
               /\ Same(m[q], Sync(r)[q]) /\ m[q].dev = Sync(r)[q].dev
               /\ m[q].todo = Sync(r)[q].todo /\ m[q].shared = Sync(r)[q].shared
               /\ Sync(r)[q].missed \subseteq m[q].missed
               /\ q # r /\ Sync(r)[q].pc \in {"insert", "legacy", "assign"}
                    => {e \in Devices : rows'[e] # rows[e]} \subseteq m[q].missed
      <4>. HIDE DEF Sync
      <4>. QED  BY <2>4, MissingFields
    <3>. HIDE DEF m
    <3>2. req' = m
      BY <2>1 DEF m
    <3>. QED  BY <3>1, <3>2
  <2>6. There(rows) \subseteq There(rows')
    BY <1>1, <1>4, <2>1 DEF There, Docs, d
  <2>7. ASSUME NEW q \in Reqs PROVE AddressOK(req'[q], rows')
    <3>1. CASE q = r
      <4>1. req'[q].pc = "backfill" /\ req'[q].todo = {}
        BY <2>4, <2>5, <3>1 DEF Same
      <4>. QED  BY <4>1 DEF AddressOK
    <3>2. CASE q # r
      <4>. DEFINE x == req[q]
                  y == req'[q]
      <4>1. Sync(r)[q] = x
        BY <2>4, <3>2
      <4>2. /\ y.pc = x.pc /\ y.kind = x.kind /\ y.ip = x.ip /\ y.used = x.used
            /\ y.dev = x.dev /\ y.todo = x.todo /\ x.missed \subseteq y.missed
            /\ x.pc \in {"insert", "legacy", "assign"}
                 => {e \in Devices : rows'[e] # rows[e]} \subseteq y.missed
        BY <2>5, <3>2, <4>1 DEF Same
      <4>3. AddressOK(x, rows)
        BY <1>1
      <4>. HIDE DEF x, y
      <4>4. x.pc \in {"insert", "legacy", "assign"} =>
              \A e \in There(rows') : (e \in There(rows) /\ rows'[e].ip = rows[e].ip) \/ e \in y.missed
        BY <4>2 DEF There
      <4>5. y.todo \subseteq There(rows')
        BY <2>6, <4>2, <4>3 DEF AddressOK
      <4>6. y.pc = "change" /\ y.kind = "sites" => y.dev \in {0} \cup There(rows')
        BY <2>6, <4>2, <4>3 DEF AddressOK
      <4>7. AddressOK(y, rows')
        BY <4>2, <4>3, <4>4, <4>5, <4>6, AddressFollows
      <4>. QED  BY <4>7 DEF y
    <3>. QED  BY <3>1, <3>2
  <2>8. AddressInv'
    BY <2>7 DEF AddressInv
  <2>9. \A q \in Reqs : Same(req'[q], Sync(r)[q]) /\ req'[q].shared = Sync(r)[q].shared
    BY <2>5
  <2>10. /\ req' \in [Reqs -> Requests] /\ \A q \in Reqs : WellFormed(req'[q])
         /\ UNCHANGED <<bound, Files, mishaps>> /\ req[r].pc = "insert"
    BY <1>2, <2>1, <2>5
  <2>. HIDE DEF Sync
  <2>. QED  BY <2>3, <2>4, <2>8, <2>9, <2>10, ChangeStep
<1>. QED  BY <1>3, <1>4

LEMMA SitesStep ==
  ASSUME IInv, NEW r \in Reqs, SetDeviceSites(r)
  PROVE  IInv'
<1>. DEFINE d == req[r].dev
            acl == req[r].acl
<1>1. /\ req \in [Reqs -> Requests] /\ \A q \in Reqs : WellFormed(req[q])
      /\ \A q \in Reqs : AddressOK(req[q], rows)
      /\ TypeOK /\ rows \in Docs
  BY DEF IInv, TypeOK, AddressInv
<1>2. /\ req[r].pc = "change" /\ req[r].kind = "sites" /\ UNCHANGED <<bound, Files, mishaps>>
      /\ rows' = [e \in Devices |-> IF e = d THEN [rows[e] EXCEPT !.acl = acl] ELSE rows[e]]
      /\ req' = Sync(r)
  BY DEF SetDeviceSites
<1>3. d \in {0} \cup There(rows) /\ acl \in Acls
  BY <1>1, <1>2 DEF WellFormed, AddressOK
<1>4. /\ req' \in [Reqs -> Requests] /\ \A q \in Reqs : WellFormed(req'[q])
      /\ req'[r].pc = "backfill" /\ req'[r].alone = req[r].alone
      /\ req'[r].todo = {} /\ \A q \in Reqs \ {r} : req'[q] = req[q]
  BY <1>1, <1>2, SyncFields
<1>. HIDE DEF d, acl
<1>5. ASSUME NEW e \in Devices
      PROVE  /\ rows'[e] \in {Nothing} \cup Row /\ (rows'[e] = Nothing <=> rows[e] = Nothing)
             /\ rows[e] # Nothing => rows'[e].ip = rows[e].ip
  <2>1. CASE e = d
    <3>1. rows[e] \in Row
      BY <1>1, <1>3, <2>1, DeviceAssumption DEF There, Docs
    <3>2. rows'[e] = [rows[e] EXCEPT !.acl = acl]
      BY <1>2, <2>1
    <3>3. rows'[e] \in Row /\ rows'[e].ip = rows[e].ip
      BY <1>3, <3>1, <3>2 DEF Row
    <3>. QED  BY <3>1, <3>3, NothingAssumption
  <2>2. CASE e # d
    BY <1>1, <1>2, <2>2 DEF Docs
  <2>. QED  BY <2>1, <2>2
<1>6. rows' \in Docs
  <2>1. DOMAIN rows' = Devices /\ rows' = [e \in Devices |-> rows'[e]]
    BY <1>2
  <2>2. \A e \in Devices : rows'[e] \in {Nothing} \cup Row
    BY <1>5
  <2>. QED  BY <2>1, <2>2 DEF Docs
<1>7. There(rows') = There(rows) /\ \A e \in There(rows) : rows'[e].ip = rows[e].ip
  BY <1>5 DEF There
<1>8. ASSUME NEW q \in Reqs PROVE AddressOK(req'[q], rows')
  <2>1. CASE q = r
    BY <1>4, <2>1 DEF AddressOK
  <2>2. CASE q # r
    <3>1. AddressOK(req[q], rows) /\ req'[q] = req[q]
      BY <1>1, <1>4, <2>2
    <3>. QED  BY <1>7, <3>1 DEF AddressOK
  <2>. QED  BY <2>1, <2>2
<1>9. AddressInv'
  BY <1>8 DEF AddressInv
<1>10. \A q \in Reqs : Same(req'[q], req'[q]) /\ req'[q].shared = req'[q].shared
  BY DEF Same
<1>. QED  BY <1>2, <1>4, <1>6, <1>9, <1>10, ChangeStep

LEMMA DeleteStep ==
  ASSUME IInv, NEW r \in Reqs, DeleteDevice(r)
  PROVE  IInv'
<1>. DEFINE d == req[r].dev
<1>1. /\ req \in [Reqs -> Requests] /\ \A q \in Reqs : WellFormed(req[q])
      /\ \A q \in Reqs : AddressOK(req[q], rows)
      /\ TypeOK /\ rows \in Docs
  BY DEF IInv, TypeOK, AddressInv
<1>2. /\ req[r].pc = "change" /\ req[r].kind = "revoke" /\ UNCHANGED <<bound, Files, mishaps>>
      /\ rows' = [e \in Devices |-> IF e = d THEN Nothing ELSE rows[e]]
      /\ req' = Orphan(Sync(r), d)
  BY DEF DeleteDevice
<1>. HIDE DEF d
<1>3. /\ Sync(r) \in [Reqs -> Requests] /\ \A q \in Reqs : WellFormed(Sync(r)[q])
      /\ Sync(r)[r].pc = "backfill" /\ Sync(r)[r].alone = req[r].alone
      /\ Sync(r)[r].todo = {} /\ \A q \in Reqs \ {r} : Sync(r)[q] = req[q]
  BY <1>1, SyncFields
<1>. HIDE DEF Sync
<1>4. /\ req' \in [Reqs -> Requests] /\ \A q \in Reqs : WellFormed(req'[q])
      /\ \A q \in Reqs :
           /\ Same(req'[q], Sync(r)[q]) /\ req'[q].shared = Sync(r)[q].shared
           /\ req'[q].missed = Sync(r)[q].missed /\ req'[q].todo = Sync(r)[q].todo \ {d}
           /\ req'[q].dev \in {0, Sync(r)[q].dev}
           /\ Sync(r)[q].kind = "sites" => req'[q].dev # d \/ req'[q].dev = 0
  BY <1>2, <1>3, OrphanFields
<1>5. rows' \in Docs
  BY <1>1, <1>2 DEF Docs
<1>6. There(rows') = There(rows) \ {d} /\ \A e \in There(rows') : rows'[e] = rows[e]
  BY <1>2 DEF There
<1>7. ASSUME NEW q \in Reqs PROVE AddressOK(req'[q], rows')
  <2>1. CASE q = r
    <3>1. req'[q].pc = "backfill" /\ req'[q].todo = {}
      BY <1>3, <1>4, <2>1 DEF Same
    <3>. QED  BY <3>1 DEF AddressOK
  <2>2. CASE q # r
    <3>. DEFINE x == req[q]
                y == req'[q]
    <3>1. Sync(r)[q] = x
      BY <1>3, <2>2
    <3>2. /\ y.pc = x.pc /\ y.kind = x.kind /\ y.ip = x.ip /\ y.used = x.used
          /\ y.todo = x.todo \ {d} /\ y.missed = x.missed
          /\ y.dev \in {0, x.dev} /\ (x.kind = "sites" => y.dev # d \/ y.dev = 0)
      BY <1>4, <3>1 DEF Same
    <3>3. AddressOK(x, rows)
      BY <1>1
    <3>. HIDE DEF x, y
    <3>4. y.todo \subseteq There(rows')
      <4>1. x.todo \subseteq There(rows) /\ y.todo = x.todo \ {d}
        BY <3>2, <3>3 DEF AddressOK
      <4>. QED  BY <1>6, <4>1
    <3>5. y.pc = "change" /\ y.kind = "sites" => y.dev \in {0} \cup There(rows')
      <4>1. y.pc = "change" /\ y.kind = "sites" => y.dev \in {0} \cup There(rows)
        BY <3>2, <3>3 DEF AddressOK
      <4>2. y.kind = "sites" => y.dev # d \/ y.dev = 0
        BY <3>2
      <4>. QED  BY <1>6, <4>1, <4>2
    <3>6. \A e \in There(rows') : e \in There(rows) /\ rows'[e].ip = rows[e].ip
      BY <1>6
    <3>7. AddressOK(y, rows')
      BY <3>2, <3>3, <3>4, <3>5, <3>6, AddressFollows
    <3>. QED  BY <3>7 DEF y
  <2>. QED  BY <2>1, <2>2
<1>8. AddressInv'
  BY <1>7 DEF AddressInv
<1>. QED  BY <1>2, <1>3, <1>4, <1>5, <1>8, ChangeStep

LEMMA InUseStep ==
  ASSUME IInv, NEW r \in Reqs, BackfillInUse(r)
  PROVE  IInv'
<1>. DEFINE x == [req[r] EXCEPT !.pc = "legacy", !.used = InUse]
<1>1. /\ req[r] \in Requests /\ WellFormed(req[r]) /\ AddressOK(req[r], rows)
      /\ PublishedInv /\ rows \in Docs
  BY DEF IInv, TypeOK, AddressInv
<1>2. /\ req[r].pc = "backfill" /\ UNCHANGED <<rows, bound, Files, mishaps>>
      /\ req' = [req EXCEPT ![r] = x]
  <2>1. req \in [Reqs -> Requests]
    BY DEF IInv, TypeOK
  <2>. QED  BY <2>1 DEF BackfillInUse
<1>3. InUse \subseteq 1..Last \cup SiteAddrs
  <2>1. ASSUME NEW e \in Present PROVE rows[e].ip \in 0..Last
    <3>1. rows[e] \in Row
      BY <1>1 DEF Present, Docs
    <3>. QED  BY <3>1 DEF Row
  <2>2. {rows[e].ip : e \in Present} \ {0} \subseteq 1..Last
    BY <2>1, PoolAssumption
  <2>. QED  BY <2>2 DEF InUse
<1>4. /\ x \in Requests /\ x.pc = "legacy" /\ x.used = InUse /\ x.todo = req[r].todo
      /\ x.fd = req[r].fd /\ x.alone = req[r].alone /\ x.shared = req[r].shared
      /\ x.kind = req[r].kind
  <2>1. InUse \in SUBSET (1..Last \cup SiteAddrs)
    BY <1>3
  <2>. HIDE DEF InUse
  <2>. QED  BY <1>1, <2>1 DEF Requests
<1>. HIDE DEF x
<1>5. WellFormed(x)
  BY <1>1, <1>2, <1>4 DEF WellFormed
<1>6. AddressOK(x, rows)
  <2>1. \A e \in There(rows) : rows[e].ip \in {0} \cup InUse
    BY DEF There, InUse, Present
  <2>. QED  BY <1>1, <1>4, <2>1 DEF AddressOK
<1>. QED  BY <1>2, <1>4, <1>5, <1>6, OwnStep DEF Unchanged

LEMMA RowsStep ==
  ASSUME IInv, NEW r \in Reqs, BackfillRows(r)
  PROVE  IInv'
<1>. DEFINE ids == {e \in Present : rows[e].ip = 0}
            used == IF ids = {} THEN {} ELSE req[r].used
            missed == IF ids = {} THEN {} ELSE req[r].missed
            pc == IF ids = {} THEN "rows" ELSE "assign"
            x == [req[r] EXCEPT !.todo = ids, !.pc = pc, !.missed = missed, !.used = used]
<1>1. /\ req[r] \in Requests /\ WellFormed(req[r]) /\ AddressOK(req[r], rows)
      /\ PublishedInv
  BY DEF IInv, TypeOK, AddressInv
<1>2. /\ req[r].pc = "legacy" /\ UNCHANGED <<rows, bound, Files, mishaps>>
      /\ req' = [req EXCEPT ![r] = x]
  <2>1. req \in [Reqs -> Requests]
    BY DEF IInv, TypeOK
  <2>. QED  BY <2>1 DEF BackfillRows
<1>3. ids \in SUBSET Devices /\ ids \subseteq There(rows) /\ pc \in {"rows", "assign"}
  BY DEF Present, There
<1>4. used \in SUBSET (1..Last \cup SiteAddrs) /\ missed \in SUBSET Devices
  BY <1>1 DEF Requests
<1>5. pc = "assign" => used = req[r].used /\ missed = req[r].missed
  OBVIOUS
<1>. HIDE DEF ids, used, missed, pc
<1>6. /\ x \in Requests /\ x.pc = pc /\ x.used = used /\ x.missed = missed /\ x.todo = ids
      /\ x.fd = req[r].fd /\ x.alone = req[r].alone /\ x.shared = req[r].shared
      /\ x.kind = req[r].kind
  BY <1>1, <1>3, <1>4 DEF Requests
<1>. HIDE DEF x
<1>7. WellFormed(x)
  BY <1>1, <1>2, <1>3, <1>6 DEF WellFormed
<1>8. AddressOK(x, rows)
  BY <1>1, <1>2, <1>3, <1>5, <1>6 DEF AddressOK
<1>. QED  BY <1>2, <1>3, <1>6, <1>7, <1>8, OwnStep DEF Unchanged

(* What BackfillOne does while there is a row to serve and an address left.    *)
LEMMA BackfillChooses ==
  ASSUME IInv, NEW r \in Reqs, BackfillOne(r), req[r].todo # {}, Free(req[r].used) # {}
  PROVE  LET d == Min(req[r].todo)
             a == Min(Free(req[r].used))
         IN  /\ d \in req[r].todo /\ d \in There(rows) /\ a \in 1..Last /\ a \notin req[r].used
             /\ rows' = [rows EXCEPT ![d] = [@ EXCEPT !.ip = a]]
             /\ req' = Missing([req EXCEPT ![r].todo = @ \ {d}, ![r].used = @ \cup {a}], r, rows')
<1>. DEFINE d == Min(req[r].todo)
            a == Min(Free(req[r].used))
<1>1. req[r] \in Requests /\ AddressOK(req[r], rows)
  BY DEF IInv, TypeOK, AddressInv
<1>2. req[r].todo \subseteq Nat
  BY <1>1, DeviceAssumption DEF Requests
<1>3. d \in req[r].todo
  BY <1>2, MinOfNats
<1>4. d \in There(rows)
  BY <1>1, <1>3 DEF AddressOK
<1>5. a \in 1..Last /\ a \notin req[r].used
  BY AllocIP
<1>6. /\ rows' = [rows EXCEPT ![d] = [@ EXCEPT !.ip = a]]
      /\ req' = Missing([req EXCEPT ![r].todo = @ \ {d}, ![r].used = @ \cup {a}], r, rows')
  BY DEF BackfillOne, Reserve
<1>. QED  BY <1>3, <1>4, <1>5, <1>6

LEMMA AssignStep ==
  ASSUME IInv, NEW r \in Reqs, BackfillOne(r)
  PROVE  IInv'
<1>1. /\ req \in [Reqs -> Requests] /\ \A q \in Reqs : WellFormed(req[q])
      /\ \A q \in Reqs : AddressOK(req[q], rows)
      /\ TypeOK /\ rows \in Docs /\ PublishedInv
  BY DEF IInv, TypeOK, AddressInv
<1>2. req[r].pc = "assign" /\ UNCHANGED <<bound, Files, mishaps>>
  BY DEF BackfillOne
<1>3. CASE req[r].todo = {} \/ Free(req[r].used) = {}
  <2>. DEFINE x == [req[r] EXCEPT !.pc = "rows", !.todo = {}, !.used = {}, !.missed = {}]
  <2>1. req' = [req EXCEPT ![r] = x] /\ UNCHANGED rows
    BY <1>1, <1>3 DEF BackfillOne
  <2>2. /\ x \in Requests /\ x.pc = "rows" /\ x.todo = {} /\ x.kind = req[r].kind
        /\ x.fd = req[r].fd /\ x.alone = req[r].alone /\ x.shared = req[r].shared
    <3>1. req[r] \in Requests
      BY <1>1
    <3>. QED  BY <3>1 DEF Requests
  <2>. HIDE DEF x
  <2>3. WellFormed(x)
    <3>1. WellFormed(req[r])
      BY <1>1
    <3>. QED  BY <1>2, <2>2, <3>1 DEF WellFormed
  <2>4. AddressOK(x, rows)
    BY <2>2 DEF AddressOK
  <2>. QED  BY <1>2, <2>1, <2>2, <2>3, <2>4, OwnStep DEF Unchanged
<1>4. CASE req[r].todo # {} /\ Free(req[r].used) # {}
  <2>. DEFINE d == Min(req[r].todo)
              a == Min(Free(req[r].used))
              new == [rows[d] EXCEPT !.ip = a]
              mine == [req[r] EXCEPT !.todo = @ \ {d}, !.used = @ \cup {a}]
              mid == [req EXCEPT ![r] = mine]
              later == Missing(mid, r, rows')
  <2>1. /\ d \in req[r].todo /\ d \in There(rows) /\ a \in 1..Last
        /\ rows' = [rows EXCEPT ![d] = new] /\ req' = later
    <3>1. mid = [req EXCEPT ![r].todo = @ \ {d}, ![r].used = @ \cup {a}]
      BY <1>1
    <3>. QED  BY <1>4, <3>1, BackfillChooses
  <2>. HIDE DEF later, mid, d, a
  <2>2. new \in Row /\ new.ip = a /\ d \in Devices
    <3>1. rows[d] \in Row /\ d \in Devices
      BY <1>1, <2>1 DEF There, Docs
    <3>2. a \in 0..Last
      BY <2>1, PoolAssumption
    <3>. QED  BY <3>1, <3>2 DEF Row
  <2>3. /\ mine \in Requests /\ mine.pc = "assign" /\ mine.kind = req[r].kind
        /\ mine.todo = req[r].todo \ {d} /\ mine.used = req[r].used \cup {a}
        /\ mine.missed = req[r].missed /\ mine.fd = req[r].fd
        /\ mine.alone = req[r].alone /\ mine.shared = req[r].shared
    <3>1. req[r] \in Requests
      BY <1>1
    <3>2. /\ req[r].todo \ {d} \in SUBSET Devices
          /\ req[r].used \cup {a} \in SUBSET (1..Last \cup SiteAddrs)
      BY <2>1, <3>1 DEF Requests
    <3>. QED  BY <1>2, <3>1, <3>2 DEF Requests
  <2>. HIDE DEF mine, new
  <2>4. WellFormed(mine)
    <3>1. WellFormed(req[r])
      BY <1>1
    <3>. QED  BY <1>2, <2>3, <3>1 DEF WellFormed
  <2>5. /\ mid \in [Reqs -> Requests] /\ \A q \in Reqs : WellFormed(mid[q])
        /\ mid[r] = mine /\ \A q \in Reqs \ {r} : mid[q] = req[q]
    BY <1>1, <2>3, <2>4 DEF mid
  <2>6. /\ later \in [Reqs -> Requests] /\ \A q \in Reqs : WellFormed(later[q])
        /\ \A q \in Reqs :
             /\ Same(later[q], mid[q]) /\ later[q].dev = mid[q].dev
             /\ later[q].todo = mid[q].todo /\ later[q].shared = mid[q].shared
             /\ mid[q].missed \subseteq later[q].missed
             /\ q # r /\ mid[q].pc \in {"insert", "legacy", "assign"}
                  => {e \in Devices : rows'[e] # rows[e]} \subseteq later[q].missed
    BY <2>5, MissingFields DEF later
  <2>7. rows' \in Docs
    BY <1>1, <2>1, <2>2 DEF Docs
  <2>8. /\ There(rows') = There(rows) /\ rows'[d] = new
        /\ \A e \in Devices \ {d} : rows'[e] = rows[e]
    <3>1. rows' = [rows EXCEPT ![d] = new] /\ DOMAIN rows = Devices
      BY <1>1, <2>1 DEF Docs
    <3>2. new # Nothing /\ d \in There(rows)
      BY <2>1, <2>2, NothingAssumption
    <3>. QED  BY <2>2, <3>1, <3>2 DEF There
  <2>9. ASSUME NEW q \in Reqs PROVE AddressOK(req'[q], rows')
    <3>. DEFINE x == req[q]
                y == req'[q]
    <3>1. AddressOK(x, rows)
      BY <1>1
    <3>2. CASE q = r
      <4>1. /\ y.pc = "assign" /\ y.used = x.used \cup {a} /\ y.todo = x.todo \ {d}
            /\ x.missed \subseteq y.missed
        BY <2>1, <2>3, <2>5, <2>6, <3>2 DEF Same
      <4>2. x.pc = "assign"
        BY <1>2, <3>2
      <4>. HIDE DEF x, y
      <4>3. ASSUME NEW e \in There(rows'), e \notin y.missed PROVE rows'[e].ip \in {0} \cup y.used
        <5>1. CASE e = d
          BY <2>2, <2>8, <4>1, <5>1
        <5>2. CASE e # d
          <6>1. rows'[e] = rows[e] /\ e \in There(rows)
            BY <2>8, <4>3, <5>2 DEF There
          <6>. QED  BY <3>1, <4>1, <4>2, <4>3, <6>1 DEF AddressOK
        <5>. QED  BY <5>1, <5>2
      <4>4. y.todo \subseteq There(rows')
        BY <2>8, <3>1, <4>1 DEF AddressOK
      <4>5. AddressOK(y, rows')
        BY <4>1, <4>3, <4>4 DEF AddressOK
      <4>. QED  BY <4>5 DEF y
    <3>3. CASE q # r
      <4>1. mid[q] = x
        BY <2>5, <3>3
      <4>2. /\ y.pc = x.pc /\ y.kind = x.kind /\ y.ip = x.ip /\ y.used = x.used
            /\ y.dev = x.dev /\ y.todo = x.todo /\ x.missed \subseteq y.missed
            /\ x.pc \in {"insert", "legacy", "assign"}
                 => {e \in Devices : rows'[e] # rows[e]} \subseteq y.missed
        BY <2>1, <2>6, <3>3, <4>1 DEF Same
      <4>. HIDE DEF x, y
      <4>3. x.pc \in {"insert", "legacy", "assign"} =>
              \A e \in There(rows') : (e \in There(rows) /\ rows'[e].ip = rows[e].ip) \/ e \in y.missed
        BY <2>8, <4>2 DEF There
      <4>4. y.todo \subseteq There(rows') /\ (y.pc = "change" /\ y.kind = "sites" => y.dev \in {0} \cup There(rows'))
        BY <2>8, <3>1, <4>2 DEF AddressOK
      <4>5. AddressOK(y, rows')
        BY <3>1, <4>2, <4>3, <4>4, AddressFollows
      <4>. QED  BY <4>5 DEF y
    <3>. QED  BY <3>2, <3>3
  <2>10. AddressInv'
    BY <2>9 DEF AddressInv
  <2>11. mid[r].alone = req[r].alone /\ mid[r].pc = "assign"
    BY <2>3, <2>5
  <2>12. /\ \A q \in Reqs : Same(req'[q], mid[q]) /\ req'[q].shared = mid[q].shared
         /\ req' \in [Reqs -> Requests] /\ \A q \in Reqs : WellFormed(req'[q])
    BY <2>1, <2>6
  <2>. QED  BY <1>2, <2>1, <2>5, <2>7, <2>10, <2>11, <2>12, ChangeStep
<1>. QED  BY <1>3, <1>4

LEMMA ReadStep ==
  ASSUME IInv, NEW r \in Reqs, ReadRows(r)
  PROVE  IInv'
<1>. DEFINE x == [req[r] EXCEPT !.pc = "open", !.doc = RegistryRows, !.used = {}]
<1>1. /\ req[r] \in Requests /\ WellFormed(req[r]) /\ AddressOK(req[r], rows)
      /\ PublishedInv /\ rows \in Docs
  BY DEF IInv, TypeOK, AddressInv
<1>2. /\ req[r].pc = "rows" /\ UNCHANGED <<rows, bound, Files, mishaps>>
      /\ req' = [req EXCEPT ![r] = x]
  <2>1. req \in [Reqs -> Requests]
    BY DEF IInv, TypeOK
  <2>. QED  BY <2>1 DEF ReadRows
<1>3. RegistryRows \in Docs
  BY <1>1 DEF RegistryRows, Docs
<1>. HIDE DEF RegistryRows
<1>4. /\ x \in Requests /\ x.pc = "open" /\ x.doc = RegistryRows /\ x.todo = req[r].todo
      /\ x.fd = req[r].fd /\ x.alone = req[r].alone /\ x.shared = req[r].shared
      /\ x.kind = req[r].kind
  BY <1>1, <1>3 DEF Requests
<1>. HIDE DEF x
<1>5. WellFormed(x)
  BY <1>1, <1>2, <1>3, <1>4, NothingAssumption DEF WellFormed
<1>6. AddressOK(x, rows)
  BY <1>1, <1>4 DEF AddressOK
<1>. QED  BY <1>2, <1>4, <1>5, <1>6, OwnStep DEF Unchanged

-------------------------------------------------------------------------------
(* ----------------------- the steps on the files ----------------------- *)

LEMMA OpenStep ==
  ASSUME IInv, NEW r \in Reqs, OpenTmp(r)
  PROVE  IInv'
<1>1. /\ req \in [Reqs -> Requests] /\ \A q \in Reqs : WellFormed(req[q])
      /\ TypeOK /\ FileInv /\ PublishedInv /\ AddressInv
  BY DEF IInv, TypeOK
<1>2. req[r].pc = "open" /\ UNCHANGED <<rows, bound, final, mishaps>>
  BY DEF OpenTmp
<1>3. PICK i \in IF tmp # Nothing THEN {tmp} ELSE Inodes \ InodesHeld :
        /\ tmp' = i /\ disk' = [disk EXCEPT ![i] = Empty]
        /\ req' = Shared([req EXCEPT ![r].pc = "write", ![r].fd = i], r)
  BY DEF OpenTmp
<1>4. clash' = (clash \/ Writers # {})
  BY DEF OpenTmp
<1>5. i \in Inodes /\ i # final /\ i # Nothing
  BY <1>1, <1>3, NothingAssumption DEF TypeOK, FileInv, InodesHeld
<1>. DEFINE mine == [req[r] EXCEPT !.pc = "write", !.fd = i]
            mid == [req EXCEPT ![r] = mine]
            later == Shared(mid, r)
<1>6. /\ mine \in Requests /\ mine.pc = "write" /\ mine.fd = i /\ mine.kind = req[r].kind
      /\ mine.doc = req[r].doc /\ mine.alone = req[r].alone /\ mine.shared = req[r].shared
      /\ mine.todo = req[r].todo /\ mine.missed = req[r].missed /\ mine.ip = req[r].ip
      /\ mine.used = req[r].used /\ mine.dev = req[r].dev
  <2>1. req[r] \in Requests
    BY <1>1
  <2>. QED  BY <1>5, <2>1 DEF Requests
<1>7. mid = [req EXCEPT ![r].pc = "write", ![r].fd = i]
  BY <1>1
<1>. HIDE DEF mine
<1>8. WellFormed(mine)
  <2>1. WellFormed(req[r])
    BY <1>1
  <2>. QED  BY <1>2, <1>5, <1>6, <2>1 DEF WellFormed
<1>9. /\ mid \in [Reqs -> Requests] /\ \A q \in Reqs : WellFormed(mid[q])
      /\ mid[r] = mine /\ \A q \in Reqs \ {r} : mid[q] = req[q]
  BY <1>1, <1>6, <1>8
<1>10. req' = later
  BY <1>3, <1>7
<1>. HIDE DEF mid, later
<1>11. /\ later \in [Reqs -> Requests] /\ \A q \in Reqs : WellFormed(later[q])
       /\ \A q \in Reqs :
            /\ Same(later[q], mid[q]) /\ later[q].dev = mid[q].dev
            /\ later[q].todo = mid[q].todo /\ later[q].missed = mid[q].missed
            /\ q \in Writers \cup {r} /\ Writers # {} => later[q].shared
            /\ ~(q \in Writers \cup {r} /\ Writers # {}) => later[q].shared = mid[q].shared
  <2>1. \A q \in Writers \cup {r} : mid[q].pc \in {"write", "rename"}
    BY <1>6, <1>9 DEF Writers
  <2>. QED  BY <1>9, <2>1, SharedFields DEF later
<1>12. /\ req'[r].pc = "write" /\ req'[r].fd = i /\ req'[r].doc = req[r].doc
       /\ req'[r].alone = req[r].alone /\ req'[r].todo = req[r].todo
       /\ req'[r].kind = req[r].kind
       /\ Writers = {} => req'[r].shared = req[r].shared
  BY <1>6, <1>9, <1>10, <1>11 DEF Same
<1>13. \A q \in Reqs \ {r} :
         /\ Same(req'[q], req[q]) /\ req'[q].dev = req[q].dev /\ req'[q].todo = req[q].todo
         /\ req'[q].missed = req[q].missed
  BY <1>9, <1>10, <1>11
<1>14. \A q \in Writers \cup {r} : Writers # {} => req'[q].shared
  BY <1>10, <1>11 DEF Writers
<1>15. Writers' = Writers \cup {r}
  BY <1>12, <1>13 DEF Writers, Same
<1>16. Writers = {} => ~req'[r].shared
  BY <1>1, <1>2, <1>12 DEF WellFormed
<1>17. disk \in [Inodes -> [doc : Docs \cup {Nothing}, size : 0..(Cardinality(Devices) + 1)]]
  BY <1>1 DEF TypeOK
<1>18. disk'[i] = Empty /\ \A j \in Inodes \ {i} : disk'[j] = disk[j]
  BY <1>3, <1>5, <1>17
<1>19. TypeOK'
  <2>1. Empty \in [doc : Docs \cup {Nothing}, size : 0..(Cardinality(Devices) + 1)]
    BY DeviceAssumption, FS_CardinalityType DEF Empty
  <2>2. disk' \in [Inodes -> [doc : Docs \cup {Nothing}, size : 0..(Cardinality(Devices) + 1)]]
    BY <1>3, <1>17, <2>1
  <2>3. req' \in [Reqs -> Requests]
    BY <1>10, <1>11
  <2>4. tmp' \in Inodes \cup {Nothing} /\ clash' \in BOOLEAN
    BY <1>1, <1>3, <1>4, <1>5 DEF TypeOK
  <2>. QED  BY <1>1, <1>2, <2>2, <2>3, <2>4 DEF TypeOK
<1>20. FileInv'
  <2>1. WritersShare'
    <3>1. CASE Writers = {}
      BY <1>15, <1>16, <3>1 DEF WritersShare
    <3>2. CASE Writers # {}
      BY <1>4, <1>14, <1>15, <3>2 DEF WritersShare
    <3>. QED  BY <3>1, <3>2
  <2>2. OwnFile'
    <3>. SUFFICES ASSUME NEW q \in Writers', ~req'[q].shared
                  PROVE  /\ tmp' = req'[q].fd
                         /\ req'[q].pc = "write" => disk'[tmp'] = Empty
                         /\ req'[q].pc = "rename" => disk'[tmp'].doc # Nothing
      BY DEF OwnFile, Whole
    <3>1. Writers = {} /\ q = r
      BY <1>14, <1>15
    <3>. QED  BY <1>3, <1>12, <1>18, <3>1
  <2>3. (tmp # final)'
    BY <1>2, <1>3, <1>5
  <2>4. TornOnlyByClash'
    BY <1>1, <1>2, <1>4, <1>5, <1>18 DEF FileInv, TornOnlyByClash, Whole, TypeOK
  <2>. QED  BY <2>1, <2>2, <2>3, <2>4 DEF FileInv
<1>21. PublishedInv'
  <2>1. \A q \in Reqs \ {r} : req'[q].pc = req[q].pc /\ ~req'[q].alone
    BY <1>1, <1>2, <1>13, OthersAreNotAlone DEF Same
  <2>2. req'[r].alone => /\ req[r].alone /\ ~req'[r].shared
                         /\ req'[r].doc = RegistryRows
    <3>. SUFFICES ASSUME req'[r].alone
                  PROVE  req[r].alone /\ ~req'[r].shared /\ req'[r].doc = RegistryRows
      OBVIOUS
    <3>1. req[r].alone
      BY <1>12
    <3>2. \A q \in Reqs \ {r} : req[q].pc = "idle"
      BY <1>1, <3>1 DEF PublishedInv, AloneIsAlone
    <3>3. Writers = {}
      BY <1>2, <3>2 DEF Writers
    <3>4. req[r].doc = RegistryRows
      BY <1>1, <1>2, <3>1 DEF PublishedInv, AloneIsCurrent
    <3>. QED  BY <1>12, <1>16, <3>1, <3>3, <3>4
  <2>3. mishaps = {} => req[r].alone /\ \A q \in Reqs \ {r} : req[q].pc = "idle"
    BY <1>1, <1>2, NobodyBeside
  <2>4. req'[r].alone = req[r].alone /\ req'[r].pc \notin Unchanged
    BY <1>12 DEF Unchanged
  <2>. QED  BY <1>1, <1>2, <1>12, <2>1, <2>2, <2>3, <2>4, PublishedKept
<1>22. AddressInv'
  <2>1. AddressOK(req'[r], rows)
    BY <1>1, <1>12 DEF AddressInv, AddressOK
  <2>. QED  BY <1>1, <1>2, <1>13, <2>1, AddressKept DEF Same
<1>. QED  BY <1>10, <1>11, <1>19, <1>20, <1>21, <1>22 DEF IInv

(* A write to a file nothing is in leaves the whole document.                *)
LEMMA OverlayFits ==
  ASSUME NEW old \in [doc : Docs \cup {Nothing}, size : 0..(Cardinality(Devices) + 1)],
         NEW doc \in Docs
  PROVE  /\ Overlay(old, Marshalled(doc)) \in
              [doc : Docs \cup {Nothing}, size : 0..(Cardinality(Devices) + 1)]
         /\ old = Empty => Overlay(old, Marshalled(doc)).doc = doc
<1>1. /\ Marshalled(doc).doc = doc /\ Marshalled(doc).size >= 0
      /\ Marshalled(doc) \in [doc : Docs \cup {Nothing}, size : 0..(Cardinality(Devices) + 1)]
  BY MarshalledFits
<1>2. Marshalled(doc).size \in Nat
  BY <1>1, DeviceAssumption, FS_CardinalityType
<1>3. [doc |-> Nothing, size |-> old.size] \in
        [doc : Docs \cup {Nothing}, size : 0..(Cardinality(Devices) + 1)]
  OBVIOUS
<1>4. ASSUME old = Empty PROVE ~(old.size > Marshalled(doc).size)
  <2>1. old.size = 0
    BY <1>4 DEF Empty
  <2>. QED  BY <1>2, <2>1
<1>. QED  BY <1>1, <1>3, <1>4 DEF Overlay

LEMMA WriteStep ==
  ASSUME IInv, NEW r \in Reqs, WriteTmp(r)
  PROVE  IInv'
<1>. DEFINE fd == req[r].fd
            doc == req[r].doc
            whole == Overlay(disk[fd], Marshalled(doc))
            x == [req[r] EXCEPT !.pc = "rename", !.doc = Nothing]
            File == [doc : Docs \cup {Nothing}, size : 0..(Cardinality(Devices) + 1)]
<1>1. /\ req \in [Reqs -> Requests] /\ \A q \in Reqs : WellFormed(req[q])
      /\ TypeOK /\ FileInv /\ PublishedInv /\ AddressInv /\ disk \in [Inodes -> File]
  BY DEF IInv, TypeOK
<1>2. /\ req[r].pc = "write" /\ UNCHANGED <<rows, bound, tmp, final, mishaps, clash>>
      /\ disk' = [disk EXCEPT ![fd] = whole]
      /\ req' = [req EXCEPT ![r] = x]
  BY <1>1 DEF WriteTmp
<1>3. fd \in Inodes /\ doc \in Docs
  <2>1. fd \in Inodes \cup {Nothing} /\ doc \in Docs \cup {Nothing}
    BY <1>1 DEF Requests
  <2>2. fd # Nothing /\ doc # Nothing
    BY <1>1, <1>2 DEF WellFormed
  <2>. QED  BY <2>1, <2>2
<1>4. /\ x \in Requests /\ x.pc = "rename" /\ x.doc = Nothing /\ x.fd = fd
      /\ x.todo = req[r].todo /\ x.kind = req[r].kind
      /\ x.alone = req[r].alone /\ x.shared = req[r].shared
  <2>1. req[r] \in Requests
    BY <1>1
  <2>. QED  BY <2>1 DEF Requests
<1>. HIDE DEF x, fd, doc, whole, File
<1>5. whole \in File /\ (disk[fd] = Empty => whole.doc = doc)
  BY <1>1, <1>3, OverlayFits DEF whole, File
<1>6. disk' \in [Inodes -> File] /\ disk'[fd] = whole /\ \A j \in Inodes \ {fd} : disk'[j] = disk[j]
  BY <1>1, <1>2, <1>3, <1>5
<1>7. req' \in [Reqs -> Requests] /\ req'[r] = x /\ \A q \in Reqs \ {r} : req'[q] = req[q]
  BY <1>1, <1>2, <1>4
<1>8. TypeOK'
  BY <1>1, <1>2, <1>6, <1>7 DEF TypeOK, File
<1>9. \A q \in Reqs : WellFormed(req'[q])
  <2>1. WellFormed(x)
    <3>1. WellFormed(req[r])
      BY <1>1
    <3>. QED  BY <1>2, <1>4, <3>1 DEF WellFormed, fd
  <2>. QED  BY <1>1, <1>7, <2>1
<1>10. Writers' = Writers /\ r \in Writers /\ \A q \in Reqs : req'[q].shared = req[q].shared
                                               /\ req'[q].fd = req[q].fd
  BY <1>2, <1>4, <1>7 DEF Writers, fd
<1>11. ~req[r].shared => tmp = fd /\ whole.doc = doc /\ doc # Nothing
  BY <1>1, <1>2, <1>3, <1>5, <1>10, NothingAssumption DEF FileInv, OwnFile, fd
<1>12. FileInv'
  <2>1. WritersShare'
    <3>1. \A q \in Writers : q \in Reqs
      BY DEF Writers
    <3>. QED  BY <1>1, <1>2, <1>10, <3>1 DEF FileInv, WritersShare
  <2>2. OwnFile'
    <3>. SUFFICES ASSUME NEW q \in Writers, ~req[q].shared
                  PROVE  /\ tmp = req[q].fd
                         /\ req'[q].pc = "write" => disk'[tmp] = Empty
                         /\ req'[q].pc = "rename" => disk'[tmp].doc # Nothing
      <4>1. \A q \in Writers : q \in Reqs
        BY DEF Writers
      <4>. QED  BY <1>2, <1>10, <4>1 DEF OwnFile, Whole
    <3>1. q = r
      BY <1>1, <1>10 DEF FileInv, WritersShare
    <3>. QED  BY <1>4, <1>6, <1>7, <1>11, <3>1 DEF fd
  <2>3. TornOnlyByClash'
    <3>1. CASE clash
      BY <1>2, <3>1 DEF TornOnlyByClash
    <3>2. CASE ~clash
      <4>1. ~req[r].shared
        BY <1>1, <1>10, <3>2 DEF FileInv, WritersShare
      <4>2. final # fd /\ final \in Inodes
        BY <1>1, <1>11, <4>1 DEF FileInv, TypeOK
      <4>3. disk'[final'] = disk[final]
        BY <1>2, <1>6, <4>2
      <4>. QED  BY <1>1, <1>2, <4>3 DEF FileInv, TornOnlyByClash, Whole
    <3>. QED  BY <3>1, <3>2
  <2>. QED  BY <1>1, <1>2, <2>1, <2>2, <2>3 DEF FileInv
<1>13. PublishedInv'
  <2>1. \A q \in Reqs \ {r} : req'[q].pc = req[q].pc /\ ~req'[q].alone
    BY <1>1, <1>2, <1>7, OthersAreNotAlone
  <2>2. req'[r].alone => req[r].alone /\ ~req'[r].shared /\ disk'[req'[r].fd].doc = RegistryRows
    <3>1. req[r].alone => ~req[r].shared /\ doc = RegistryRows
      BY <1>1, <1>2 DEF PublishedInv, AloneIsCurrent, doc
    <3>2. req'[r].alone = req[r].alone /\ req'[r].shared = req[r].shared /\ req'[r].fd = fd
      BY <1>4, <1>7
    <3>. QED  BY <1>6, <1>11, <3>1, <3>2
  <2>3. mishaps = {} => req[r].alone /\ \A q \in Reqs \ {r} : req[q].pc = "idle"
    BY <1>1, <1>2, NobodyBeside
  <2>4. req'[r].pc = "rename" /\ req'[r].pc \notin Unchanged /\ req'[r].alone = req[r].alone
    BY <1>4, <1>7 DEF Unchanged
  <2>. QED  BY <1>1, <1>2, <2>1, <2>2, <2>3, <2>4, PublishedKept
<1>14. AddressInv'
  <2>1. AddressOK(x, rows)
    BY <1>1, <1>4 DEF AddressInv, AddressOK
  <2>. QED  BY <1>1, <1>2, <1>7, <2>1, AddressKept
<1>. QED  BY <1>8, <1>9, <1>12, <1>13, <1>14 DEF IInv

LEMMA FailStep ==
  ASSUME IInv, NEW r \in Reqs, WriteFails(r)
  PROVE  IInv'
<1>1. /\ req[r].pc = "write" /\ UNCHANGED <<rows, bound, Files>>
      /\ mishaps' = mishaps \cup {"failure"} /\ req' = [req EXCEPT ![r] = Idle]
  BY DEF WriteFails, End
<1>2. AddressOK(Idle, rows)
  BY IdleFields DEF AddressOK
<1>. QED  BY <1>1, <1>2, IdleFields, OwnStep

LEMMA RenameStep ==
  ASSUME IInv, NEW r \in Reqs, Rename(r)
  PROVE  IInv'
<1>. DEFINE File == [doc : Docs \cup {Nothing}, size : 0..(Cardinality(Devices) + 1)]
<1>1. /\ req \in [Reqs -> Requests] /\ \A q \in Reqs : WellFormed(req[q])
      /\ TypeOK /\ FileInv /\ PublishedInv /\ AddressInv /\ disk \in [Inodes -> File]
  BY DEF IInv, TypeOK
<1>2. /\ req[r].pc = "rename" /\ UNCHANGED <<rows, bound>> /\ req' = End(r) /\ r \in Writers
      /\ disk' = [i \in Inodes |-> IF i \in {final', tmp'} \cup {req[q].fd : q \in Reqs \ {r}}
                                   THEN disk[i] ELSE Empty]
  BY DEF Rename, Writers
<1>3. \/ tmp = Nothing /\ UNCHANGED <<tmp, final, mishaps, clash>>
      \/ /\ tmp # Nothing /\ final' = tmp /\ tmp' = Nothing
         /\ mishaps' = (IF req[r].alone THEN {} ELSE mishaps)
         /\ clash' = (clash /\ req[r].shared)
  BY DEF Rename
<1>4. /\ req' \in [Reqs -> Requests] /\ \A q \in Reqs : WellFormed(req'[q])
      /\ req'[r] = Idle /\ req'[r].pc = "idle" /\ \A q \in Reqs \ {r} : req'[q] = req[q]
  BY <1>1, <1>2, EndFields
<1>5. final' \in Inodes /\ tmp' \in Inodes \cup {Nothing} /\ tmp' # final'
  BY <1>1, <1>3, NothingAssumption DEF TypeOK, FileInv
<1>6. disk'[final'] = disk[final']
  BY <1>2, <1>5
<1>7. mishaps' \subseteq Mishaps /\ clash' \in BOOLEAN
  BY <1>1, <1>3 DEF TypeOK
<1>. HIDE DEF File
<1>8. TypeOK'
  <2>1. Empty \in File
    BY DeviceAssumption, FS_CardinalityType DEF Empty, File
  <2>2. disk' \in [Inodes -> File]
    BY <1>1, <1>2, <2>1
  <2>. QED  BY <1>1, <1>2, <1>4, <1>5, <1>7, <2>2 DEF TypeOK, File
<1>9. Writers' = Writers \ {r} /\ \A q \in Writers' : q \in Reqs /\ q # r /\ req[q].shared
                                                       /\ req'[q] = req[q]
  <2>1. Writers' = Writers \ {r}
    BY <1>4 DEF Writers
  <2>2. ASSUME NEW q \in Writers \ {r} PROVE q \in Reqs /\ req[q].shared
    BY <1>1, <1>2 DEF FileInv, WritersShare, Writers
  <2>. QED  BY <1>4, <2>1, <2>2
<1>10. ~req[r].shared => tmp # Nothing /\ disk[tmp].doc # Nothing /\ Writers = {r} /\ tmp = req[r].fd
  <2>. SUFFICES ASSUME ~req[r].shared
                PROVE  tmp # Nothing /\ disk[tmp].doc # Nothing /\ Writers = {r} /\ tmp = req[r].fd
    OBVIOUS
  <2>1. tmp = req[r].fd /\ Whole(tmp)
    BY <1>1, <1>2 DEF FileInv, OwnFile
  <2>2. req[r].fd # Nothing
    BY <1>1, <1>2 DEF WellFormed
  <2>3. Writers = {r}
    BY <1>1, <1>2 DEF FileInv, WritersShare
  <2>. QED  BY <2>1, <2>2, <2>3 DEF Whole
<1>11. FileInv'
  <2>1. WritersShare'
    <3>1. ASSUME NEW q \in Writers' PROVE req'[q].shared /\ clash'
      <4>1. q \in Writers /\ q # r /\ req[q].shared /\ req'[q] = req[q]
        BY <1>9
      <4>2. req[r].shared /\ clash
        BY <1>1, <1>2, <4>1 DEF FileInv, WritersShare
      <4>. QED  BY <1>3, <4>1, <4>2
    <3>. QED  BY <3>1 DEF WritersShare
  <2>2. OwnFile'
    BY <1>9 DEF OwnFile
  <2>3. TornOnlyByClash'
    <3>. SUFFICES ASSUME ~clash' PROVE disk[final'].doc # Nothing
      BY <1>6 DEF TornOnlyByClash, Whole
    <3>1. CASE req[r].shared
      <4>1. clash
        BY <1>1, <1>2, <3>1 DEF FileInv, WritersShare
      <4>. QED  BY <1>3, <3>1, <4>1
    <3>2. CASE ~req[r].shared
      BY <1>3, <1>10, <3>2
    <3>. QED  BY <3>1, <3>2
  <2>. QED  BY <1>5, <2>1, <2>2, <2>3 DEF FileInv
<1>12. PublishedInv'
  <2>1. \A q \in Reqs : ~req'[q].alone
    <3>1. \A q \in Reqs \ {r} : ~req[q].alone
      BY <1>1, <1>2, OthersAreNotAlone
    <3>. QED  BY <1>4, <3>1, IdleFields
  <2>2. CASE mishaps' # {}
    BY <2>1, <2>2, NothingPublished
  <2>3. CASE mishaps' = {}
    <3>1. req[r].alone
      BY <1>1, <1>2, <1>3, <2>3, NobodyBeside
    <3>2. \A q \in Reqs : req'[q].pc = "idle"
      BY <1>1, <1>4, <3>1 DEF PublishedInv, AloneIsAlone
    <3>3. ~req[r].shared /\ disk[req[r].fd].doc = RegistryRows
      BY <1>1, <1>2, <3>1 DEF PublishedInv, AloneIsCurrent
    <3>4. final' = tmp /\ disk[tmp].doc = RegistryRows
      BY <1>3, <1>10, <3>3
    <3>5. RegistryRows' = RegistryRows
      BY <1>2 DEF RegistryRows
    <3>6. FileFollowsTable'
      BY <1>6, <3>4, <3>5 DEF FileFollowsTable
    <3>. QED  BY <2>1, <3>2, <3>6 DEF PublishedInv, AloneIsAlone, AloneWithoutMishap, AloneIsCurrent
  <2>. QED  BY <2>2, <2>3
<1>13. AddressInv'
  <2>1. AddressOK(Idle, rows)
    BY IdleFields DEF AddressOK
  <2>. QED  BY <1>1, <1>2, <1>4, <2>1, AddressKept
<1>. QED  BY <1>4, <1>8, <1>11, <1>12, <1>13 DEF IInv

LEMMA RebindStep ==
  ASSUME IInv, RebindMFA
  PROVE  IInv'
<1>1. /\ req \in [Reqs -> Requests] /\ TypeOK /\ FileInv
      /\ \A q \in Reqs : WellFormed(req[q])
      /\ \A q \in Reqs : AddressOK(req[q], rows)
  BY DEF IInv, TypeOK, AddressInv
<1>2. /\ mishaps' = mishaps \cup {"mfa"} /\ UNCHANGED <<rows, tmp, final, disk, clash>>
      /\ req' = [r \in Reqs |-> [req[r] EXCEPT !.alone = FALSE]]
  BY DEF RebindMFA, Files
<1>3. ASSUME NEW q \in Reqs
      PROVE  /\ req'[q] \in Requests /\ WellFormed(req'[q]) /\ req'[q].alone = FALSE
             /\ req'[q].pc = req[q].pc /\ req'[q].fd = req[q].fd /\ req'[q].shared = req[q].shared
             /\ AddressOK(req'[q], rows)
  <2>. DEFINE x == [req[q] EXCEPT !.alone = FALSE]
  <2>1. /\ x \in Requests /\ x.alone = FALSE /\ x.pc = req[q].pc /\ x.kind = req[q].kind
        /\ x.dev = req[q].dev /\ x.acl = req[q].acl /\ x.ip = req[q].ip /\ x.used = req[q].used
        /\ x.todo = req[q].todo /\ x.doc = req[q].doc /\ x.fd = req[q].fd
        /\ x.shared = req[q].shared /\ x.missed = req[q].missed
    <3>1. req[q] \in Requests
      BY <1>1
    <3>. QED  BY <3>1 DEF Requests
  <2>2. req'[q] = x
    BY <1>2
  <2>. HIDE DEF x
  <2>3. WellFormed(req[q]) /\ AddressOK(req[q], rows)
    BY <1>1
  <2>4. WellFormed(x)
    BY <2>1, <2>3 DEF WellFormed
  <2>5. AddressOK(x, rows)
    BY <2>1, <2>3 DEF AddressOK
  <2>. QED  BY <2>1, <2>2, <2>4, <2>5
<1>4. TypeOK'
  <2>1. req' \in [Reqs -> Requests]
    <3>1. req' = [r \in Reqs |-> req'[r]]
      BY <1>2
    <3>2. \A r \in Reqs : req'[r] \in Requests
      BY <1>3
    <3>. QED  BY <3>1, <3>2
  <2>2. bound' \in BOOLEAN
    BY DEF RebindMFA
  <2>. QED  BY <1>1, <1>2, <2>1, <2>2 DEF TypeOK, Mishaps
<1>5. FileInv'
  <2>1. \A q \in Reqs : req'[q].pc = req[q].pc /\ req'[q].fd = req[q].fd /\ req'[q].shared = req[q].shared
    BY <1>3
  <2>2. UNCHANGED Files
    BY <1>2 DEF Files
  <2>. QED  BY <1>1, <2>1, <2>2, FilesUntouched
<1>6. PublishedInv'
  BY <1>2, <1>3, NothingPublished
<1>7. AddressInv'
  BY <1>2, <1>3 DEF AddressInv
<1>. QED  BY <1>3, <1>4, <1>5, <1>6, <1>7 DEF IInv

LEMMA CrashStep ==
  ASSUME IInv, Crash
  PROVE  IInv'
<1>1. /\ \A q \in Reqs : req'[q] = Idle
      /\ disk' = [i \in Inodes |-> IF i = final THEN disk[i] ELSE Empty]
      /\ mishaps' = mishaps \cup {"failure"} /\ UNCHANGED <<rows, bound, tmp, final, clash>>
  BY DEF Crash
<1>2. disk'[final'] = disk[final] /\ TypeOK
  BY <1>1 DEF IInv, TypeOK
<1>3. TypeOK'
  <2>1. Empty \in [doc : Docs \cup {Nothing}, size : 0..(Cardinality(Devices) + 1)]
    BY DeviceAssumption, FS_CardinalityType DEF Empty
  <2>2. disk' \in [Inodes -> [doc : Docs \cup {Nothing}, size : 0..(Cardinality(Devices) + 1)]]
    BY <1>1, <1>2, <2>1 DEF TypeOK
  <2>3. req' \in [Reqs -> Requests]
    BY IdleFields DEF Crash
  <2>. QED  BY <1>1, <1>2, <2>2, <2>3 DEF TypeOK, Mishaps
<1>4. \A q \in Reqs : WellFormed(req'[q]) /\ req'[q].pc = "idle" /\ ~req'[q].alone
                       /\ req'[q].todo = {}
  BY <1>1, IdleFields
<1>5. FileInv'
  <2>1. Writers' = {}
    BY <1>4 DEF Writers
  <2>. QED  BY <1>1, <1>2, <2>1 DEF IInv, FileInv, WritersShare, OwnFile, TornOnlyByClash, Whole
<1>6. PublishedInv'
  BY <1>1, <1>4, NothingPublished
<1>7. AddressInv'
  BY <1>4 DEF AddressInv, AddressOK
<1>. QED  BY <1>3, <1>4, <1>5, <1>6, <1>7 DEF IInv

LEMMA StepKeeps == IInv /\ [Next]_vars => IInv'
<1>1. ASSUME IInv, UNCHANGED vars PROVE IInv'
  <2>1. UNCHANGED <<rows, bound, tmp, final, disk, req, mishaps, clash>>
    BY <1>1 DEF vars
  <2>2. TypeOK' /\ \A q \in Reqs : WellFormed(req'[q])
    BY <1>1, <2>1 DEF IInv, TypeOK
  <2>3. FileInv'
    BY <1>1, <2>1 DEF IInv, FileInv, WritersShare, OwnFile, TornOnlyByClash, Whole, Writers
  <2>4. RegistryRows' = RegistryRows
    BY <2>1 DEF RegistryRows
  <2>5. PublishedInv'
    BY <1>1, <2>1, <2>4 DEF IInv, PublishedInv, AloneIsAlone, AloneWithoutMishap, AloneIsCurrent,
                            FileFollowsTable, NoChangeUnderWay
  <2>6. AddressInv'
    BY <1>1, <2>1 DEF IInv, AddressInv
  <2>. QED  BY <2>2, <2>3, <2>5, <2>6 DEF IInv
<1>2. ASSUME IInv, NEW r \in Reqs,
             Begin(r) \/ AllocClientIP(r) \/ AddDevice(r) \/ SetDeviceSites(r) \/ DeleteDevice(r)
             \/ Publish(r)
      PROVE  IInv'
  <2>1. CASE Begin(r)
    BY <1>2, <2>1, BeginStep
  <2>2. CASE AllocClientIP(r)
    BY <1>2, <2>2, AllocStep
  <2>3. CASE AddDevice(r)
    BY <1>2, <2>3, AddStep
  <2>4. CASE SetDeviceSites(r)
    BY <1>2, <2>4, SitesStep
  <2>5. CASE DeleteDevice(r)
    BY <1>2, <2>5, DeleteStep
  <2>6. CASE Publish(r)
    BY <1>2, <2>6, InUseStep, RowsStep, AssignStep, ReadStep, OpenStep, WriteStep, FailStep, RenameStep
    DEF Publish
  <2>. QED  BY <1>2, <2>1, <2>2, <2>3, <2>4, <2>5, <2>6
<1>3. ASSUME IInv, Next PROVE IInv'
  BY <1>2, <1>3, RebindStep, CrashStep DEF Next
<1>. QED  BY <1>1, <1>3

LEMMA AlwaysIInv == Spec => []IInv
BY Established, StepKeeps, PTL DEF Spec

-------------------------------------------------------------------------------
(* ------------------------------ theorems ------------------------------ *)

(* Whatever the requests do, rows and requests have the shape they are        *)
(* declared with, and addresses are from the clients' part of the pool       *)
(* (ipalloc.go: allocIP).                                                   *)
THEOREM TypeCorrect == Spec => []TypeOK
<1>1. IInv => TypeOK
  BY DEF IInv
<1>. QED  BY <1>1, AlwaysIInv, PTL

(* The published file is cut off or mixed only while two writers of           *)
(* clients.json.tmp have met and none has published alone since (server.go:  *)
(* writeDataFile), through failed writes and crashes.                       *)
THEOREM TornOnlyByAClash == Spec => []TornOnlyByClash
<1>1. IInv => TornOnlyByClash
  BY DEF IInv, FileInv
<1>. QED  BY <1>1, AlwaysIInv, PTL

(* Any sequence of requests that neither overlap nor fail leaves a file that  *)
(* says what the table says: every handler that changes the table publishes *)
(* (syncRegistries in devices.go), and what it publishes is what it read.   *)
THEOREM PublicationFollows == Spec => []FileFollowsTable
<1>1. IInv => FileFollowsTable
  BY DEF IInv, PublishedInv
<1>. QED  BY <1>1, AlwaysIInv, PTL

(* The row that gets an address in this step.                                *)
GotAddress(d) == rows'[d] # rows[d] /\ rows'[d] # Nothing /\ rows'[d].ip # 0

Overlapped(d) ==
  \/ rows[d] # Nothing /\ rows[d].ip = rows'[d].ip
  \/ \E r \in Reqs : /\ req'[r] # req[r]
                     /\ req[r].pc \in {"insert", "assign"}
                     /\ \A e \in Present \ {d} : rows[e].ip = rows'[d].ip => e \in req[r].missed

LEMMA AddOverlaps ==
  ASSUME IInv, NEW r \in Reqs, AddDevice(r), NEW d \in Devices, GotAddress(d)
  PROVE  Overlapped(d)
<1>1. req \in [Reqs -> Requests] /\ TypeOK /\ rows \in Docs
      /\ (\A q \in Reqs : WellFormed(req[q])) /\ AddressOK(req[r], rows)
  BY DEF IInv, TypeOK, AddressInv
<1>2. /\ req[r].pc = "insert" /\ d = req[r].dev
      /\ rows' = [rows EXCEPT ![d] = [ip |-> req[r].ip, acl |-> req[r].acl]]
      /\ req' = Missing(Sync(r), r, rows')
  BY <1>1 DEF AddDevice, GotAddress, Docs
<1>3. rows'[d].ip = req[r].ip
  BY <1>1, <1>2 DEF Docs
<1>4. req'[r].pc = "backfill"
  <2>1. Sync(r) \in [Reqs -> Requests] /\ Sync(r)[r].pc = "backfill"
        /\ \A q \in Reqs : WellFormed(Sync(r)[q])
    BY <1>1, SyncFields
  <2>2. Missing(Sync(r), r, rows')[r] = Sync(r)[r]
    <3>. HIDE DEF Sync
    <3>. QED  BY <2>1 DEF Missing
  <2>. QED  BY <1>2, <2>1, <2>2
<1>5. req'[r] # req[r]
  BY <1>2, <1>4
<1>6. \A e \in Present \ {d} : rows[e].ip = rows'[d].ip => e \in req[r].missed
  BY <1>1, <1>2, <1>3 DEF AddressOK, There, Present
<1>. QED  BY <1>2, <1>5, <1>6 DEF Overlapped

LEMMA AssignOverlaps ==
  ASSUME IInv, NEW r \in Reqs, BackfillOne(r), NEW d \in Devices, GotAddress(d)
  PROVE  Overlapped(d)
<1>1. req \in [Reqs -> Requests] /\ TypeOK /\ rows \in Docs
      /\ (\A q \in Reqs : WellFormed(req[q])) /\ AddressOK(req[r], rows)
  BY DEF IInv, TypeOK, AddressInv
<1>2. req[r].pc = "assign" /\ req[r].todo # {} /\ Free(req[r].used) # {}
  BY DEF BackfillOne, GotAddress
<1>. DEFINE a == Min(Free(req[r].used))
            e == Min(req[r].todo)
            mine == [req[r] EXCEPT !.todo = @ \ {e}, !.used = @ \cup {a}]
            mid == [req EXCEPT ![r] = mine]
<1>3. /\ e \in req[r].todo /\ e \in There(rows) /\ a \in 1..Last /\ a \notin req[r].used
      /\ rows' = [rows EXCEPT ![e] = [@ EXCEPT !.ip = a]]
      /\ req' = Missing(mid, r, rows')
  <2>1. mid = [req EXCEPT ![r].todo = @ \ {e}, ![r].used = @ \cup {a}]
    BY <1>1
  <2>. QED  BY <1>2, <2>1, BackfillChooses
<1>4. req'[r] = mine
  <2>. HIDE DEF mine, a, e
  <2>1. mid[r] = mine
    BY <1>1
  <2>. HIDE DEF mid
  <2>. QED  BY <1>3, <2>1 DEF Missing
<1>5. mine.todo = req[r].todo \ {e}
  <2>1. req[r] \in Requests
    BY <1>1
  <2>. HIDE DEF a, e
  <2>. QED  BY <2>1 DEF Requests
<1>. HIDE DEF a, e, mine, mid
<1>6. req'[r] # req[r]
  BY <1>3, <1>4, <1>5
<1>7. d = e
  BY <1>1, <1>3 DEF GotAddress, Docs
<1>8. rows'[d].ip = a
  <2>1. rows[e] \in Row /\ e \in Devices /\ DOMAIN rows = Devices
    BY <1>1, <1>3 DEF There, Docs
  <2>2. rows'[e] = [rows[e] EXCEPT !.ip = a]
    BY <1>3, <2>1
  <2>. QED  BY <1>7, <2>1, <2>2 DEF Row
<1>9. \A f \in Present \ {d} : rows[f].ip = a => f \in req[r].missed
  <2>1. a # 0
    BY <1>3, PoolAssumption
  <2>. QED  BY <1>1, <1>2, <1>3, <2>1 DEF AddressOK, There, Present
<1>. QED  BY <1>2, <1>6, <1>8, <1>9 DEF Overlapped

(* A step gives a row an address another row has only when that other row     *)
(* got it after the step's request had read the addresses in use (ipalloc.go:*)
(* tunnelIPsInUse and the INSERT, or the UPDATE, are separate statements).   *)
THEOREM SharedAddressesOverlapped == Spec => SharedOnlyByOverlap
<1>. DEFINE Step == \A d \in Devices : GotAddress(d) => Overlapped(d)
<1>1. IInv /\ [Next]_vars => [Step]_vars
  <2>. SUFFICES ASSUME IInv, Next, NEW d \in Devices, GotAddress(d) PROVE Overlapped(d)
    OBVIOUS
  <2>1. rows' # rows
    BY DEF GotAddress
  <2>2. PICK r \in Reqs : AddDevice(r) \/ SetDeviceSites(r) \/ DeleteDevice(r) \/ BackfillOne(r)
    <3>1. ASSUME NEW r \in Reqs, Begin(r) \/ AllocClientIP(r) PROVE FALSE
      BY <2>1, <3>1 DEF Begin, BeginCreate, BeginImport, BeginSites, BeginRevoke, AllocClientIP
    <3>2. ASSUME NEW r \in Reqs, Publish(r) PROVE BackfillOne(r)
      BY <2>1, <3>2 DEF Publish, BackfillInUse, BackfillRows, ReadRows, OpenTmp, WriteTmp,
                        WriteFails, Rename
    <3>3. ~RebindMFA /\ ~Crash
      BY <2>1 DEF RebindMFA, Crash
    <3>. QED  BY <3>1, <3>2, <3>3 DEF Next
  <2>3. CASE AddDevice(r)
    BY <2>3, AddOverlaps
  <2>4. CASE SetDeviceSites(r)
    <3>1. req[r] \in Requests /\ WellFormed(req[r]) /\ AddressOK(req[r], rows) /\ rows \in Docs
      BY DEF IInv, TypeOK, AddressInv
    <3>2. d = req[r].dev /\ rows'[d] = [rows[d] EXCEPT !.acl = req[r].acl]
          /\ req[r].pc = "change" /\ req[r].kind = "sites"
      BY <2>4 DEF SetDeviceSites, GotAddress
    <3>3. d \in There(rows)
      BY <3>1, <3>2, DeviceAssumption DEF AddressOK
    <3>4. rows[d] \in Row /\ rows[d] # Nothing
      BY <3>1, <3>3 DEF There, Docs
    <3>5. rows'[d].ip = rows[d].ip
      BY <3>2, <3>4 DEF Row
    <3>. QED  BY <3>4, <3>5 DEF Overlapped
  <2>5. CASE DeleteDevice(r)
    BY <2>5 DEF DeleteDevice, GotAddress
  <2>6. CASE BackfillOne(r)
    BY <2>6, AssignOverlaps
  <2>. QED  BY <2>2, <2>3, <2>4, <2>5, <2>6
<1>2. [Step]_vars => [\A d \in Devices : (rows'[d] # rows[d] /\ rows'[d] # Nothing /\ rows'[d].ip # 0) =>
        \/ rows[d] # Nothing /\ rows[d].ip = rows'[d].ip
        \/ \E r \in Reqs : /\ req'[r] # req[r]
                           /\ req[r].pc \in {"insert", "assign"}
                           /\ \A e \in Present \ {d} :
                                rows[e].ip = rows'[d].ip => e \in req[r].missed]_vars
  BY DEF GotAddress, Overlapped
<1>. HIDE DEF Step
<1>. QED  BY <1>1, <1>2, AlwaysIInv, PTL DEF Spec, SharedOnlyByOverlap
=============================================================================
