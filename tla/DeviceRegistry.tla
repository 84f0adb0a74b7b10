---------------------------- MODULE DeviceRegistry ----------------------------
(***************************************************************************)
(* The control plane's devices and the file they are published in.         *)
(*                                                                         *)
(* Every HTTP request runs in a goroutine of its own and takes no lock.    *)
(* One statement of the database or one call of the file system is one     *)
(* step, and the steps of requests interleave:                             *)
(*                                                                         *)
(*   create, import   read the addresses in use, insert a row, publish     *)
(*   sites, revoke    look the row up, change or delete it, publish        *)
(*   publish          give rows without an address one, read the rows,     *)
(*                    truncate clients.json.tmp, write it, rename it       *)
(*                                                                         *)
(* The temporary file is one path for all.  Whoever opens it while another *)
(* writer has it open shares its inode, and a rename moves whatever inode  *)
(* is under the path at that moment.                                       *)
(*                                                                         *)
(* A device is its public key.  agents.json, which the same requests       *)
(* rewrite afterwards, does not depend on anything here: see Sites.        *)
(*                                                                         *)
(* A definition that no action uses is a plausible mistake in the one that *)
(* follows it; it shows that the properties notice it.                     *)
(***************************************************************************)
EXTENDS Integers, FiniteSets

CONSTANTS
  Reqs,        (* requests that may be under way at the same time            *)
  Devices,     (* public keys of devices: numbers, in the order of their ids *)
  Last,        (* client addresses are 1..Last (2..99 in the code)           *)
  SiteAddrs,   (* addresses rows of the table of sites hold                  *)
  Acls,        (* the lists of sites a form can leave                        *)
  Inodes,      (* names for the files on disk                                *)
  Nothing      (* no row, no file                                            *)

ASSUME DeviceAssumption == Devices \subseteq Nat \ {0} /\ IsFiniteSet(Devices)
ASSUME PoolAssumption == Last \in Nat /\ SiteAddrs \subseteq Nat
ASSUME InodeAssumption == Cardinality(Inodes) > Cardinality(Reqs)

Row == [ip : 0..Last, acl : Acls]
Docs == [Devices -> {Nothing} \cup Row]

ASSUME NothingAssumption == Nothing \notin Inodes \cup Acls \cup Row \cup Docs

VARIABLES
  rows,      (* the devices' rows: Nothing or [ip, acl]; 0: no address yet    *)
  bound,     (* the owner's totp_enabled                                      *)
  tmp,       (* the inode under clients.json.tmp, or Nothing                  *)
  final,     (* the inode under clients.json                                  *)
  disk,      (* what each inode holds: [doc, size]                            *)
  req,       (* the requests                                                  *)
  mishaps,   (* history: what has happened since a request that ran alone     *)
             (* last published, of "overlap" (two requests at once), "failure" *)
             (* (a write, the process) and "mfa" (the owner's binding changed) *)
  clash      (* history: two requests had the temporary file open at once and *)
             (* no request that had it for itself has published since         *)

vars == <<rows, bound, tmp, final, disk, req, mishaps, clash>>

Min(S) == CHOOSE x \in S : \A y \in S : x <= y

-------------------------------------------------------------------------------
(* ------------------------------- database ----------------------------- *)

Present == {d \in Devices : rows[d] # Nothing}

(* tunnelIPsInUse.                                                          *)
InUse == ({rows[d].ip : d \in Present} \ {0}) \cup SiteAddrs

AllocPastEnd(used) == {a \in 1..(Last + 1) : a \notin used}

(* allocIP: the addresses it looks through; none left is an error.          *)
Free(used) == {a \in 1..Last : a \notin used}

(* registryRows: what the hub is to accept.                                 *)
RegistryRows == [d \in Devices |-> IF bound THEN rows[d] ELSE Nothing]

-------------------------------------------------------------------------------
(* ----------------------------- file system ---------------------------- *)

Empty == [doc |-> Nothing, size |-> 0]

(* The marshalled registry: its length is that of its entries.              *)
Marshalled(doc) ==
  [doc |-> doc, size |-> 1 + Cardinality({d \in Devices : doc[d] # Nothing})]

(* One write at offset 0: what is longer underneath sticks out, and the     *)
(* whole no longer parses.                                                  *)
Overlay(old, new) ==
  IF old.size > new.size THEN [doc |-> Nothing, size |-> old.size] ELSE new

Whole(i) == disk[i].doc # Nothing

-------------------------------------------------------------------------------
(* ------------------------------- requests ----------------------------- *)

Idle == [pc |-> "idle", kind |-> "none", dev |-> 0, acl |-> Nothing, ip |-> 0,
         used |-> {}, todo |-> {}, doc |-> Nothing, fd |-> Nothing,
         alone |-> FALSE, shared |-> FALSE, missed |-> {}]

Active == {r \in Reqs : req[r].pc # "idle"}

Begun(r, kind, d, a, pc) ==
  [q \in Reqs |->
     IF q = r THEN [Idle EXCEPT !.pc = pc, !.kind = kind, !.dev = d, !.acl = a,
                                !.alone = Active = {}]
     ELSE [req[q] EXCEPT !.alone = FALSE]]

(* A request that begins beside others: none of them runs alone.            *)
Crowded == IF Active = {} THEN mishaps ELSE mishaps \cup {"overlap"}

End(r) == [req EXCEPT ![r] = Idle]

(* A row that r gives an address after another request has read the addresses *)
(* in use is one that other request missed.                                *)
Missing(q, r, rs) ==
  [x \in Reqs |-> IF x # r /\ q[x].pc \in {"insert", "legacy", "assign"}
                  THEN [q[x] EXCEPT !.missed = @ \cup {d \in Devices : rs[d] # rows[d]}]
                  ELSE q[x]]

(* syncRegistries, once the request has done what it came for.              *)
Sync(r) ==
  [req EXCEPT ![r] = [Idle EXCEPT !.pc = "backfill", !.alone = req[r].alone]]

(* The id of a deleted row does not come back: an UPDATE or DELETE that      *)
(* names it later finds nothing.                                           *)
Orphan(q, d) ==
  [x \in Reqs |-> [q[x] EXCEPT !.dev = IF @ = d /\ q[x].kind \in {"sites", "revoke"} THEN 0 ELSE @,
                               !.todo = @ \ {d}]]

Files == <<tmp, final, disk, clash>>

(* handleDeviceCreate, up to allocClientIP: the key is new, the owner has MFA.*)
BeginCreate(r, d, a) ==
  /\ req[r].pc = "idle" /\ bound
  /\ rows[d] = Nothing /\ \A q \in Active : req[q].dev # d
  /\ req' = Begun(r, "create", d, a, "alloc")
  /\ mishaps' = Crowded
  /\ UNCHANGED <<rows, bound, Files>>

(* handleDeviceImport: the key is whatever the form says.                   *)
BeginImport(r, d, a) ==
  /\ req[r].pc = "idle" /\ bound
  /\ req' = Begun(r, "import", d, a, "alloc")
  /\ mishaps' = Crowded
  /\ UNCHANGED <<rows, bound, Files>>

(* handleDeviceSites, up to the UPDATE: deviceByID finds the row, and what    *)
(* the form leaves of the known sites is not empty.                         *)
BeginSites(r, d, a) ==
  /\ req[r].pc = "idle" /\ bound /\ rows[d] # Nothing
  /\ req' = Begun(r, "sites", d, a, "change")
  /\ mishaps' = Crowded
  /\ UNCHANGED <<rows, bound, Files>>

(* handleDeviceRevoke, up to the DELETE.                                     *)
BeginRevoke(r, d) ==
  /\ req[r].pc = "idle" /\ bound /\ rows[d] # Nothing
  /\ req' = Begun(r, "revoke", d, Nothing, "change")
  /\ mishaps' = Crowded
  /\ UNCHANGED <<rows, bound, Files>>

(* allocClientIP; the pool may be exhausted.                                *)
AllocClientIP(r) ==
  /\ req[r].pc = "alloc"
  /\ req' = IF Free(InUse) = {} THEN End(r)
            ELSE [req EXCEPT ![r].pc = "insert", ![r].ip = Min(Free(InUse))]
  /\ UNCHANGED <<rows, bound, Files, mishaps>>

(* addDevice; a key that has a row already is refused.                      *)
AddDevice(r) ==
  /\ req[r].pc = "insert"
  /\ LET d == req[r].dev
     IN IF rows[d] # Nothing
        THEN req' = End(r) /\ UNCHANGED rows
        ELSE /\ rows' = [rows EXCEPT ![d] = [ip |-> req[r].ip, acl |-> req[r].acl]]
             /\ req' = Missing(Sync(r), r, rows')
  /\ UNCHANGED <<bound, Files, mishaps>>

(* setDeviceSites: WHERE id, which may be gone.                             *)
SetDeviceSites(r) ==
  /\ req[r].pc = "change" /\ req[r].kind = "sites"
  /\ rows' = [d \in Devices |-> IF d = req[r].dev THEN [rows[d] EXCEPT !.acl = req[r].acl]
                                ELSE rows[d]]
  /\ req' = Sync(r)
  /\ UNCHANGED <<bound, Files, mishaps>>

DeleteDeviceUnpublished(r) ==
  /\ req[r].pc = "change" /\ req[r].kind = "revoke"
  /\ rows' = [d \in Devices |-> IF d = req[r].dev THEN Nothing ELSE rows[d]]
  /\ req' = Orphan(End(r), req[r].dev)
  /\ UNCHANGED <<bound, Files, mishaps>>

(* deleteDevice.                                                            *)
DeleteDevice(r) ==
  /\ req[r].pc = "change" /\ req[r].kind = "revoke"
  /\ rows' = [d \in Devices |-> IF d = req[r].dev THEN Nothing ELSE rows[d]]
  /\ req' = Orphan(Sync(r), req[r].dev)
  /\ UNCHANGED <<bound, Files, mishaps>>

-------------------------------------------------------------------------------
(* ------------------------------ publication --------------------------- *)

(* backfillTunnelIPs: the addresses in use, then the rows without one.       *)
BackfillInUse(r) ==
  /\ req[r].pc = "backfill"
  /\ req' = [req EXCEPT ![r].pc = "legacy", ![r].used = InUse]
  /\ UNCHANGED <<rows, bound, Files, mishaps>>

BackfillRows(r) ==
  /\ req[r].pc = "legacy"
  /\ LET ids == {d \in Present : rows[d].ip = 0}
     IN req' = [req EXCEPT ![r].todo = ids, ![r].pc = IF ids = {} THEN "rows" ELSE "assign",
                        ![r].missed = IF ids = {} THEN {} ELSE @, ![r].used = IF ids = {} THEN {} ELSE @]
  /\ UNCHANGED <<rows, bound, Files, mishaps>>

ReserveForgets(used, a) == used

(* allocIP marks what it hands out in the set it was given.                 *)
Reserve(used, a) == used \cup {a}

(* One row of the loop.  With no address left the loop ends, and the rows    *)
(* go out as they are.                                                      *)
BackfillOne(r) ==
  /\ req[r].pc = "assign"
  /\ LET todo == req[r].todo
         used == req[r].used
         d    == Min(todo)
         a    == Min(Free(used))
     IN IF todo = {} \/ Free(used) = {}
        THEN /\ req' = [req EXCEPT ![r].pc = "rows", ![r].todo = {}, ![r].used = {},
                                ![r].missed = {}]
             /\ UNCHANGED rows
        ELSE /\ rows' = [rows EXCEPT ![d] = [@ EXCEPT !.ip = a]]
             /\ req' = Missing([req EXCEPT ![r].todo = @ \ {d}, ![r].used = Reserve(@, a)], r, rows')
  /\ UNCHANGED <<bound, Files, mishaps>>

(* registryRows, and the marshalling of what it returned.                   *)
ReadRows(r) ==
  /\ req[r].pc = "rows"
  /\ req' = [req EXCEPT ![r].pc = "open", ![r].doc = RegistryRows, ![r].used = {}]
  /\ UNCHANGED <<rows, bound, Files, mishaps>>

(* The requests that have clients.json.tmp open, or have yet to rename it.   *)
Writers == {q \in Reqs : req[q].pc \in {"write", "rename"}}

Shared(q, r) ==
  [x \in Reqs |-> IF x \in Writers \cup {r} /\ Writers # {} THEN [q[x] EXCEPT !.shared = TRUE]
                  ELSE q[x]]

InodesHeld == {tmp, final} \cup {req[q].fd : q \in Reqs}

OpenFinal(r) ==
  /\ req[r].pc = "open"
  /\ tmp' = final
  /\ disk' = [disk EXCEPT ![final] = Empty]
  /\ req' = Shared([req EXCEPT ![r].pc = "write", ![r].fd = final], r)
  /\ clash' = (clash \/ Writers # {})
  /\ UNCHANGED <<rows, bound, final, mishaps>>

(* os.WriteFile opens the path with O_CREATE and O_TRUNC: the inode there,    *)
(* whoever writes it, or a new one.                                         *)
OpenTmp(r) ==
  /\ req[r].pc = "open"
  /\ \E i \in IF tmp # Nothing THEN {tmp} ELSE Inodes \ InodesHeld :
        /\ tmp' = i
        /\ disk' = [disk EXCEPT ![i] = Empty]
        /\ req' = Shared([req EXCEPT ![r].pc = "write", ![r].fd = i], r)
  /\ clash' = (clash \/ Writers # {})
  /\ UNCHANGED <<rows, bound, final, mishaps>>

(* ... writes to the inode it opened, wherever that is by now ...           *)
WriteTmp(r) ==
  /\ req[r].pc = "write"
  /\ disk' = [disk EXCEPT ![req[r].fd] = Overlay(@, Marshalled(req[r].doc))]
  /\ req' = [req EXCEPT ![r].pc = "rename", ![r].doc = Nothing]
  /\ UNCHANGED <<rows, bound, tmp, final, mishaps, clash>>

(* ... or fails to; every caller logs the error and reports success.  What   *)
(* is left under the temporary path is cut off before anyone reads it.      *)
WriteFails(r) ==
  /\ req[r].pc = "write"
  /\ req' = End(r)
  /\ mishaps' = mishaps \cup {"failure"}
  /\ UNCHANGED <<rows, bound, Files>>

(* os.Rename moves the inode that is under the path now; another request     *)
(* may have moved it before.                                                *)
Rename(r) ==
  /\ req[r].pc = "rename"
  /\ IF tmp = Nothing
     THEN UNCHANGED <<tmp, final, mishaps, clash>>
     ELSE /\ final' = tmp /\ tmp' = Nothing
          /\ mishaps' = IF req[r].alone THEN {} ELSE mishaps
          /\ clash' = (clash /\ req[r].shared)
  /\ req' = End(r)
  /\ disk' = [i \in Inodes |-> IF i \in {final', tmp'} \cup {req[q].fd : q \in Reqs \ {r}}
                              THEN disk[i] ELSE Empty]
  /\ UNCHANGED <<rows, bound>>

-------------------------------------------------------------------------------
(* ----------------------------- environment ---------------------------- *)

(* handleMFABegin, handleMFAConfirm: neither publishes.  Which secret is     *)
(* bound is not told apart.                                                 *)
RebindMFA ==
  /\ bound' = ~bound
  /\ req' = [r \in Reqs |-> [req[r] EXCEPT !.alone = FALSE]]
  /\ mishaps' = mishaps \cup {"mfa"}
  /\ UNCHANGED <<rows, Files>>

(* The process dies and is started again: what was under way is gone, what   *)
(* is on disk and in the database stays.  What is under the temporary path   *)
(* may be cut off anywhere; it is truncated before anyone reads it.         *)
Crash ==
  /\ Active # {}
  /\ req' = [r \in Reqs |-> Idle]
  /\ disk' = [i \in Inodes |-> IF i = final THEN disk[i] ELSE Empty]
  /\ mishaps' = mishaps \cup {"failure"}
  /\ UNCHANGED <<rows, bound, tmp, final, clash>>

(* An upgrade may start on rows that have no address and are in no file.     *)
Init ==
  /\ rows \in [Devices -> {Nothing} \cup [ip : {0}, acl : Acls]]
  /\ bound = TRUE
  /\ tmp = Nothing
  /\ final \in Inodes
  /\ disk = [i \in Inodes |->
               IF i = final THEN Marshalled([d \in Devices |-> Nothing]) ELSE Empty]
  /\ req = [r \in Reqs |-> Idle]
  /\ mishaps = {"failure"}
  /\ clash = FALSE

Begin(r) ==
  \E d \in Devices, a \in Acls :
    \/ BeginCreate(r, d, a)
    \/ BeginImport(r, d, a)
    \/ BeginSites(r, d, a)
    \/ BeginRevoke(r, d)

Publish(r) ==
  BackfillInUse(r) \/ BackfillRows(r) \/ BackfillOne(r) \/ ReadRows(r)
  \/ OpenTmp(r) \/ WriteTmp(r) \/ WriteFails(r) \/ Rename(r)

Next ==
  \/ \E r \in Reqs :
       \/ Begin(r)
       \/ AllocClientIP(r) \/ AddDevice(r) \/ SetDeviceSites(r) \/ DeleteDevice(r)
       \/ Publish(r)
  \/ RebindMFA
  \/ Crash

Spec == Init /\ [][Next]_vars

-------------------------------------------------------------------------------
(* ------------------------------ properties ---------------------------- *)

Requests ==
  [pc : {"idle", "alloc", "insert", "change", "backfill", "legacy", "assign", "rows",
         "open", "write", "rename"},
   kind : {"none", "create", "import", "sites", "revoke"},
   dev : Devices \cup {0}, acl : Acls \cup {Nothing}, ip : 0..Last,
   used : SUBSET (1..Last \cup SiteAddrs), todo : SUBSET Devices,
   doc : Docs \cup {Nothing}, fd : Inodes \cup {Nothing},
   alone : BOOLEAN, shared : BOOLEAN, missed : SUBSET Devices]

Mishaps == {"overlap", "failure", "mfa"}

(* The state has the shape its declarations say: addresses stay inside the  *)
(* clients' part of the pool (ipalloc.go).                                 *)
TypeOK ==
  /\ rows \in Docs
  /\ bound \in BOOLEAN /\ clash \in BOOLEAN /\ mishaps \subseteq Mishaps
  /\ tmp \in Inodes \cup {Nothing} /\ final \in Inodes
  /\ disk \in [Inodes -> [doc : Docs \cup {Nothing}, size : 0..(Cardinality(Devices) + 1)]]
  /\ req \in [Reqs -> Requests]

(* Two rows share an address only if the later one's request had read the   *)
(* addresses in use before the other one got its own (ipalloc.go: read,     *)
(* choose and insert are separate statements, and no index forbids it).     *)
SharedOnlyByOverlap ==
  [][\A d \in Devices : (rows'[d] # rows[d] /\ rows'[d] # Nothing /\ rows'[d].ip # 0) =>
       \/ rows[d] # Nothing /\ rows[d].ip = rows'[d].ip
       \/ \E r \in Reqs : /\ req'[r] # req[r]
                          /\ req[r].pc \in {"insert", "assign"}
                          /\ \A e \in Present \ {d} :
                               rows[e].ip = rows'[d].ip => e \in req[r].missed
     ]_vars

(* The published file can be cut off or mixed only after two requests had   *)
(* the temporary file open at the same time, and no longer than until a     *)
(* request that had it for itself publishes; a crash between any two steps  *)
(* never leaves it so (server.go: writeDataFile).                          *)
TornOnlyByClash == ~clash => Whole(final)

(* Every handler that changes the table ends in syncRegistries, and what it *)
(* did then is in the file (devices.go, server.go:337): while no request is *)
(* past its change, the file says what the table says, whatever sequence of *)
(* requests, one after the other, led there.  Not so after requests that    *)
(* overlapped, a failed write, a crash or a change of the owner's binding,  *)
(* until a request that runs alone publishes: then a revoked device, or one *)
(* of an owner without a second factor, may go on being listed (devices.go: *)
(* 474 and db.go:454 say it is not).                                       *)
NoChangeUnderWay == \A r \in Reqs : req[r].pc \in {"idle", "alloc", "insert", "change"}

FileFollowsTable ==
  mishaps = {} /\ NoChangeUnderWay => disk[final].doc = RegistryRows
===============================================================================
