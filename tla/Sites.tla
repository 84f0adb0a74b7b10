-------------------------------- MODULE Sites ---------------------------------
(***************************************************************************)
(* One site in the control plane: its install code, the key of the machine *)
(* that serves it, and its entry in agents.json.                           *)
(*                                                                         *)
(*   operator  create, new code, package, state, rotate MFA, revoke        *)
(*   machine   enroll: hand over the code and a fresh public key           *)
(*   restart   import the preprovisioned site before requests are taken    *)
(*                                                                         *)
(* Requests run concurrently and take no lock; one statement of the        *)
(* database is one step.  Publishing agents.json is two, reading the table *)
(* and replacing the file: how the replacing itself can go wrong is the    *)
(* subject of DeviceRegistry.                                              *)
(*                                                                         *)
(* Codes and keys are names; a name nothing refers to is used again for a  *)
(* fresh one, so runs of any length have finitely many states.             *)
(*                                                                         *)
(* A definition that no action uses is a plausible mistake in the one that *)
(* follows it; it shows that the properties notice it.                     *)
(***************************************************************************)
EXTENDS Integers, FiniteSets

CONSTANTS
  Reqs,        (* requests that may be under way at the same time            *)
  Codes,       (* install codes                                             *)
  Keys,        (* public keys machines and packages come with                *)
  Preset,      (* the key in data/preprovision, which no other has           *)
  Nothing      (* no row, no key, no code, no entry                          *)

ASSUME NothingAssumption == Nothing \notin Codes \cup Keys \cup {Preset}
ASSUME PresetAssumption == Preset \notin Keys
ASSUME NamesAssumption ==
  /\ IsFiniteSet(Reqs) /\ IsFiniteSet(Codes) /\ IsFiniteSet(Keys)
  /\ Cardinality(Codes) > Cardinality(Reqs) /\ Cardinality(Keys) > Cardinality(Reqs) + 1

VARIABLES
  row,       (* the site's row: [key, code, live, enrolled, enabled, mfa,      *)
             (* routed]; live: the code has not expired                      *)
  file,      (* the site's entry in agents.json: [key, enabled, mfa]          *)
  req,       (* the requests                                                 *)
  stale,     (* history: the row changed and no request that ran alone has    *)
             (* published since                                              *)
  crossed    (* history: the row's key came between the two statements of a    *)
             (* request for a new code                                       *)

history == <<stale, crossed>>
vars == <<row, file, req, history>>

AnyKey == Keys \cup {Preset}

Rows ==
  [key : AnyKey \cup {Nothing}, code : Codes \cup {Nothing}, live : BOOLEAN,
   enrolled : BOOLEAN, enabled : BOOLEAN, mfa : BOOLEAN, routed : BOOLEAN]
Entries == [key : AnyKey, enabled : BOOLEAN, mfa : BOOLEAN]

ASSUME NoRecordAssumption == Nothing \notin Rows \cup Entries

-------------------------------------------------------------------------------
(* ------------------------------- requests ----------------------------- *)

Idle == [pc |-> "idle", kind |-> "none", held |-> FALSE, code |-> Nothing,
         key |-> Nothing, on |-> FALSE, doc |-> Nothing, alone |-> FALSE,
         raced |-> FALSE]

Active == {r \in Reqs : req[r].pc # "idle"}

Used(S, field) == {req[r][field] : r \in S}

(* Drawn at random in the code: one that nobody holds.                       *)
FreshCode ==
  CHOOSE c \in (Codes \ Used(Reqs, "code")) \ (IF row = Nothing THEN {} ELSE {row.code}) : TRUE

FreshKey ==
  CHOOSE k \in (Keys \ Used(Reqs, "key"))
             \ {x.key : x \in ({row, file} \cup Used(Reqs, "doc")) \ {Nothing}} : TRUE

(* A request reads the row and keeps its id.                                 *)
Begun(r, rec) ==
  [q \in Reqs |-> IF q = r THEN [rec EXCEPT !.held = row # Nothing, !.alone = Active = {}]
                  ELSE [req[q] EXCEPT !.alone = FALSE]]

Goto(r, pc) == [req EXCEPT ![r].pc = pc]

End(r) == [req EXCEPT ![r] = Idle]

(* syncAgents, or syncRegistries, which does clients.json first.             *)
Sync(r, pc) ==
  [req EXCEPT ![r].pc = pc,
              ![r].kind = IF @ = "enroll" THEN @ ELSE "none", ![r].code = Nothing,
              ![r].key = Nothing, ![r].on = FALSE, ![r].raced = FALSE]

(* An UPDATE WHERE id = ...: without effect if the row the request had read  *)
(* is gone.                                                                *)
Update(r, new) == row' = IF req[r].held THEN new ELSE row

BindKeepsCode(k) ==
  [row EXCEPT !.key = k, !.enrolled = TRUE, !.mfa = FALSE]

(* bindAgentEnrollment.                                                     *)
Bind(k) ==
  [row EXCEPT !.key = k, !.code = Nothing, !.live = FALSE, !.enrolled = TRUE, !.mfa = FALSE]

(* What a bind means to the others: every machine whose code was found valid  *)
(* before it is in a race, whether that is the code the bind used up or one   *)
(* the operator has replaced since.                                        *)
Raced(r, q) ==
  [x \in Reqs |-> IF x # r /\ req[x].kind = "enroll" /\ req[x].pc \in {"routes", "bind"}
                  THEN [q[x] EXCEPT !.raced = TRUE] ELSE q[x]]

HalfWay(r) == \E x \in Reqs \ {r} : req[x].pc = "code" /\ req[x].held

-------------------------------------------------------------------------------
(* ------------------------------- operator ----------------------------- *)

(* handleAgentCreate, up to the INSERT.                                     *)
BeginCreate(r) ==
  /\ req[r].pc = "idle" /\ row = Nothing
  /\ req' = Begun(r, [Idle EXCEPT !.pc = "insert", !.kind = "create", !.code = FreshCode])
  /\ UNCHANGED <<row, file, history>>

(* addAgent: agent_id is UNIQUE.                                            *)
AddAgent(r) ==
  /\ req[r].pc = "insert"
  /\ IF row # Nothing
     THEN req' = End(r) /\ UNCHANGED <<row, history>>
     ELSE /\ row' = [key |-> Nothing, code |-> req[r].code, live |-> TRUE,
                     enrolled |-> FALSE, enabled |-> TRUE, mfa |-> FALSE, routed |-> TRUE]
          /\ req' = Sync(r, "read")
          /\ stale' = TRUE /\ crossed' = FALSE
  /\ UNCHANGED file

(* handleAgentNewCode, up to the first UPDATE.                              *)
BeginNewCode(r) ==
  /\ req[r].pc = "idle" /\ row # Nothing
  /\ req' = Begun(r, [Idle EXCEPT !.pc = "reset", !.kind = "newcode", !.code = FreshCode])
  /\ UNCHANGED <<row, file, history>>

(* resetAgentKey.                                                           *)
ResetAgentKey(r) ==
  /\ req[r].pc = "reset"
  /\ Update(r, [row EXCEPT !.key = Nothing, !.enrolled = FALSE])
  /\ req' = Goto(r, "code")
  /\ stale' = TRUE /\ crossed' = (crossed /\ ~req[r].held)
  /\ UNCHANGED file

(* setAgentEnrollCode.                                                      *)
SetEnrollCode(r) ==
  /\ req[r].pc = "code"
  /\ Update(r, [row EXCEPT !.code = req[r].code, !.live = TRUE])
  /\ req' = Sync(r, "read")
  /\ stale' = TRUE
  /\ UNCHANGED <<file, crossed>>

(* handleAgentPackage, up to bindAgentEnrollment: the server mints a key.     *)
BeginPackage(r) ==
  /\ req[r].pc = "idle" /\ row # Nothing
  /\ req' = Begun(r, [Idle EXCEPT !.pc = "bind", !.kind = "package", !.key = FreshKey])
  /\ UNCHANGED <<row, file, history>>

(* handleAgentState, handleAgentRotateMFA, handleAgentRevoke, up to their     *)
(* one statement.                                                          *)
BeginState(r) ==
  /\ req[r].pc = "idle" /\ row # Nothing
  /\ \E on \in BOOLEAN :
       req' = Begun(r, [Idle EXCEPT !.pc = "enable", !.kind = "state", !.on = on])
  /\ UNCHANGED <<row, file, history>>

BeginRotate(r) ==
  /\ req[r].pc = "idle" /\ row # Nothing
  /\ req' = Begun(r, [Idle EXCEPT !.pc = "secret", !.kind = "rotate"])
  /\ UNCHANGED <<row, file, history>>

BeginRevoke(r) ==
  /\ req[r].pc = "idle" /\ row # Nothing
  /\ req' = Begun(r, [Idle EXCEPT !.pc = "delete", !.kind = "revoke"])
  /\ UNCHANGED <<row, file, history>>

(* setAgentEnabled.                                                         *)
SetAgentEnabled(r) ==
  /\ req[r].pc = "enable"
  /\ Update(r, [row EXCEPT !.enabled = req[r].on])
  /\ req' = Sync(r, "clients")
  /\ stale' = TRUE
  /\ UNCHANGED <<file, crossed>>

(* setAgentTOTP.                                                            *)
SetAgentTOTP(r) ==
  /\ req[r].pc = "secret"
  /\ Update(r, [row EXCEPT !.mfa = TRUE])
  /\ req' = Sync(r, "clients")
  /\ stale' = TRUE
  /\ UNCHANGED <<file, crossed>>

(* deleteAgent.  A site made again under the same name has another id.       *)
DeleteAgent(r) ==
  /\ req[r].pc = "delete"
  /\ Update(r, Nothing)
  /\ req' = [x \in Reqs |-> IF x = r THEN [Sync(r, "clients")[r] EXCEPT !.held = FALSE]
                            ELSE [req[x] EXCEPT !.held = FALSE]]
  /\ stale' = TRUE /\ crossed' = (crossed /\ ~req[r].held)
  /\ UNCHANGED file

-------------------------------------------------------------------------------
(* ------------------------------- machines ----------------------------- *)

(* handleEnroll, up to the first change.  Refusals change nothing: the code   *)
(* is unknown or no network is given, the networks clash.           *)
BeginEnroll(r) ==
  /\ req[r].pc = "idle" /\ row # Nothing
  /\ row.code # Nothing /\ row.live
  /\ req' = Begun(r, [Idle EXCEPT !.pc = IF row.routed THEN "bind" ELSE "routes",
                                  !.kind = "enroll", !.code = row.code, !.key = FreshKey])
  /\ UNCHANGED <<row, file, history>>

(* assignRoutes may object; if setAgentRoutes fails that is logged, and no    *)
(* more.                                                                   *)
SelfReport(r) ==
  /\ req[r].pc = "routes"
  /\ \/ req' = End(r) /\ UNCHANGED row
     \/ Update(r, [row EXCEPT !.routed = TRUE]) /\ req' = Goto(r, "bind")
     \/ req' = Goto(r, "bind") /\ UNCHANGED row
  /\ UNCHANGED <<file, history>>

(* bindAgentEnrollment, of a machine or of a package: neither the code nor    *)
(* the key it finds is looked at.                                          *)
BindKey(r) ==
  /\ req[r].pc = "bind"
  /\ Update(r, Bind(req[r].key))
  /\ req' = Raced(r, Sync(r, "read"))
  /\ stale' = TRUE
  /\ crossed' = IF req[r].held THEN HalfWay(r) ELSE crossed
  /\ UNCHANGED file

(* The hub's key and address are looked up last: without them the machine is  *)
(* told to come again later, with a code that is used up.                   *)
LookUpHub(r) ==
  /\ req[r].pc = "hub"
  /\ req' = End(r)
  /\ UNCHANGED <<row, file, history>>

(* The code's hour is over.                                                 *)
CodeExpires ==
  /\ row # Nothing /\ row.code # Nothing
  /\ row' = [row EXCEPT !.live = FALSE]
  /\ UNCHANGED <<file, req, history>>

-------------------------------------------------------------------------------
(* ------------------------------ publication --------------------------- *)

(* syncClients fails: syncRegistries returns, agents.json stays as it is, and  *)
(* the handler reports success.                                            *)
SyncClients(r) ==
  /\ req[r].pc = "clients"
  /\ req' = Goto(r, "read") \/ req' = End(r)
  /\ UNCHANGED <<row, file, history>>

EntryOfPending(x) ==
  IF x = Nothing THEN Nothing
  ELSE [key |-> x.key, enabled |-> x.enabled, mfa |-> x.mfa]

Entry(x) ==
  IF x = Nothing \/ x.key = Nothing THEN Nothing
  ELSE [key |-> x.key, enabled |-> x.enabled, mfa |-> x.mfa]

(* syncAgents: the SELECT; a site without a key is left out.                 *)
ReadAgents(r) ==
  /\ req[r].pc = "read"
  /\ req' = [req EXCEPT ![r].pc = "replace", ![r].doc = Entry(row)]
  /\ UNCHANGED <<row, file, history>>

ReplaceFileIfAny(r) ==
  /\ req[r].pc = "replace"
  /\ file' = IF req[r].doc = Nothing THEN file ELSE req[r].doc
  /\ req' = IF req[r].kind = "enroll"
            THEN [req EXCEPT ![r].pc = "hub", ![r].doc = Nothing] ELSE End(r)
  /\ stale' = (stale /\ ~req[r].alone)
  /\ UNCHANGED <<row, crossed>>

(* writeDataFile.                                                           *)
ReplaceFile(r) ==
  /\ req[r].pc = "replace"
  /\ file' = req[r].doc
  /\ req' = IF req[r].kind = "enroll"
            THEN [req EXCEPT ![r].pc = "hub", ![r].doc = Nothing] ELSE End(r)
  /\ stale' = (stale /\ ~req[r].alone)
  /\ UNCHANGED <<row, crossed>>

-------------------------------------------------------------------------------
(* -------------------------------- restart ----------------------------- *)

ImportOverrules ==
  IF row = Nothing THEN Nothing
  ELSE Bind(Preset)

(* What ImportPreprovision makes of the row: its key is for a site that has   *)
(* none, or whose enrolment was never recorded.  A site it creates itself    *)
(* is not recorded as enrolled: the INSERT has no such column.               *)
Imported ==
  IF row = Nothing
  THEN [key |-> Preset, code |-> Nothing, live |-> FALSE, enrolled |-> FALSE, enabled |-> TRUE,
        mfa |-> FALSE, routed |-> FALSE]
  ELSE IF row.key = Nothing \/ ~row.enrolled THEN Bind(Preset)
  ELSE row

(* The process dies and is started again; what was under way is gone.  The   *)
(* import publishes only if it changed something.                           *)
Restart ==
  /\ req' = [r \in Reqs |-> Idle]
  /\ row' = Imported
  /\ IF row' # row
     THEN file' = Entry(row') /\ stale' = FALSE /\ crossed' = FALSE
     ELSE UNCHANGED <<file, stale, crossed>>

Init ==
  /\ row = Nothing /\ file = Nothing
  /\ req = [r \in Reqs |-> Idle]
  /\ stale = FALSE /\ crossed = FALSE

Operator(r) ==
  \/ BeginCreate(r) \/ AddAgent(r)
  \/ BeginNewCode(r) \/ ResetAgentKey(r) \/ SetEnrollCode(r)
  \/ BeginPackage(r)
  \/ BeginState(r) \/ SetAgentEnabled(r)
  \/ BeginRotate(r) \/ SetAgentTOTP(r)
  \/ BeginRevoke(r) \/ DeleteAgent(r)

Enroll(r) == BeginEnroll(r) \/ SelfReport(r) \/ BindKey(r) \/ LookUpHub(r)

Publish(r) == SyncClients(r) \/ ReadAgents(r) \/ ReplaceFile(r)

Next ==
  \/ \E r \in Reqs : Operator(r) \/ Enroll(r) \/ Publish(r)
  \/ CodeExpires
  \/ Restart

Spec == Init /\ [][Next]_vars

-------------------------------------------------------------------------------
(* ------------------------------ properties ---------------------------- *)

Requests ==
  [pc : {"idle", "insert", "reset", "code", "bind", "enable", "secret", "delete",
         "routes", "clients", "read", "replace", "hub"},
   kind : {"none", "create", "newcode", "package", "state", "rotate", "revoke", "enroll"},
   held : BOOLEAN, code : Codes \cup {Nothing}, key : Keys \cup {Nothing}, on : BOOLEAN,
   doc : Entries \cup {Nothing}, alone : BOOLEAN, raced : BOOLEAN]

(* The state has the shape its declarations say; what is published always   *)
(* names a key (server.go: syncAgents leaves pending sites out).           *)
TypeOK ==
  /\ row \in Rows \cup {Nothing}
  /\ file \in Entries \cup {Nothing}
  /\ req \in [Reqs -> Requests]
  /\ stale \in BOOLEAN /\ crossed \in BOOLEAN

(* Once a request that ran alone has published agents.json, it says of the   *)
(* site what the database says until the next change (agents.go: every       *)
(* handler ends in syncAgents or syncRegistries).                          *)
CurrentWhenPublishedAlone == ~stale => file = Entry(row)

(* A site admits the machine it has or the one that will bring the code,     *)
(* never both (agents.go: a new code detaches the key; enroll.go: binding a   *)
(* key consumes the code) -- unless a key was bound between the two         *)
(* statements of a request for a new code.                                 *)
KeyOrCode == (row # Nothing /\ ~crossed) => (row.key = Nothing \/ row.code = Nothing)

(* A machine that holds the site loses it only to an operator's request, to   *)
(* a machine whose code had been found valid before this one was bound (the   *)
(* bind asks for no code again, so even if that code was replaced since,      *)
(* although enroll.go:31 calls it one-time and agents.go:337 says a new one   *)
(* detaches the old machine), or to the import of a site nobody ever enrolled *)
(* (enroll.go, db.go: bindAgentEnrollment, agents.go, preprovision.go).      *)
KeptUntilReplaced ==
  [][(row # Nothing /\ row.key # Nothing /\ row' # Nothing /\ row'.key # row.key) =>
       \/ \E r \in Reqs : /\ req'[r] # req[r] /\ req[r].pc \in {"reset", "bind"}
                          /\ req[r].kind \in {"newcode", "package"} \/ req[r].raced
       \/ ~row.enrolled
       \/ crossed
     ]_vars

=============================================================================
