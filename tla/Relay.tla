-------------------------------- MODULE Relay --------------------------------
(***************************************************************************)
(* The hub's registry of peers, the relay's tables built from it, and the  *)
(* way of one packet through the relay.                                    *)
(*                                                                         *)
(*   control plane   rewrites clients.json and agents.json                 *)
(*   timer           polls the files every tick and applies what changed   *)
(*   reader          readLoop: takes one packet at a time from a session   *)
(*                   to the session it leaves on                           *)
(*                                                                         *)
(* The reader releases e.mu between its checks, so the registry, the       *)
(* tables and the sessions may change under the packet it holds.           *)
(*                                                                         *)
(* A session is up once its gate is open: how the gate opens is the        *)
(* subject of PeerAuth, and part of the handshake here.  A handshake holds *)
(* the peer it found: when the registry drops that peer before the session *)
(* is installed, the session is one of a peer that e.peers no longer has,  *)
(* and lives on as it was configured last.  A prefix is the set of         *)
(* addresses it contains, so the longer prefix is the smaller set.  Site   *)
(* ids are numbers in the order of the ids.                                *)
(*                                                                         *)
(* A definition that no action uses is a plausible mistake in the one that *)
(* follows it; it shows that the properties notice it.                     *)
(***************************************************************************)
EXTENDS Integers, FiniteSets

CONSTANTS
  Keys,          (* public keys                                              *)
  Addrs,         (* addresses packets carry                                  *)
  Packets,       (* the <<source, destination>> pairs peers send             *)
  Hub,           (* the hub's own tunnel address                             *)
  NoAddr,        (* no tunnel address is assigned                            *)
  Nobody,        (* the key has no entry in e.peers                          *)
  NoKey,
  ClientFiles,   (* what clients.json may say: [keys -> [ip, acl]]           *)
  AgentFiles,    (* what agents.json may say:                                *)
                 (* [keys -> [id, ip, routes, enabled]]                      *)
  Broken,        (* the file is missing or does not parse                    *)
  MaxLate        (* bounds the sessions of removed peers                     *)

ASSUME AddrAssumption == Hub \in Addrs /\ NoAddr \notin Addrs
ASSUME PacketAssumption == Packets \subseteq Addrs \X Addrs
ASSUME KeyAssumption == NoKey \notin Keys

ClientEntries == [ip : Addrs \cup {NoAddr}, acl : SUBSET Nat]
AgentEntries ==
  [id : Nat, ip : Addrs \cup {NoAddr}, routes : SUBSET SUBSET Addrs, enabled : BOOLEAN]

(* What the hub knows of a peer.                                            *)
Configs ==
  [role : {"client", "agent"}, id : Nat, ip : Addrs \cup {NoAddr}, acl : SUBSET Nat,
   routes : SUBSET SUBSET Addrs, enabled : BOOLEAN]

ASSUME FileAssumption ==
  /\ \A f \in ClientFiles \ {Broken} :
       DOMAIN f \subseteq Keys /\ \A k \in DOMAIN f : f[k] \in ClientEntries
  /\ \A f \in AgentFiles \ {Broken} :
       DOMAIN f \subseteq Keys /\ \A k \in DOMAIN f : f[k] \in AgentEntries
ASSUME NobodyAssumption == Nobody \notin Configs

VARIABLES
  clients,    (* clients.json: [content, fresh]; fresh: its mtime is newer    *)
  agents,     (* agents.json, likewise                                       *)
  peers,      (* e.peers: the configuration of each key                      *)
  tables,     (* e.routes, e.clientsByIP, e.agentsByIP                        *)
  up,         (* the keys whose peer has a session and an open gate          *)
  late,       (* open sessions of peers that e.peers no longer has: [key, cfg, *)
              (* authed]; only addr2peer leads to them                       *)
  timer,      (* which file the tick looks at next                           *)
  packet,     (* the packet readLoop is working on                           *)
  seen,       (* history: what the registry permitted since it was opened    *)
  skipped     (* history: the keys that each file lists and that were the    *)
              (* other role's when the timer last applied it                 *)

hub == <<peers, tables, up, late>>
vars == <<clients, agents, hub, timer, packet, seen, skipped>>

-------------------------------------------------------------------------------
(* ------------------------------ registry ------------------------------ *)

(* ParseRegistry, ParseAgentRegistry: one entry.                           *)
ParseClient(e) ==
  [role |-> "client", id |-> 0, ip |-> e.ip, acl |-> e.acl, routes |-> {}, enabled |-> TRUE]

ParseAgent(e) ==
  [role |-> "agent", id |-> e.id, ip |-> e.ip, acl |-> {}, routes |-> e.routes,
   enabled |-> e.enabled]

HasRole(p, k, role) == p[k] # Nobody /\ p[k].role = role

ApplyClientsKeepsVanished(p, f) ==
  [k \in Keys |-> IF k \in DOMAIN f /\ ~HasRole(p, k, "agent") THEN ParseClient(f[k]) ELSE p[k]]

(* applyRegistryLocked.  A key that is an agent stays one.                  *)
ApplyClients(p, f) ==
  [k \in Keys |->
     IF HasRole(p, k, "agent") THEN p[k]
     ELSE IF k \in DOMAIN f THEN ParseClient(f[k])
     ELSE Nobody]

(* applyAgentRegistryLocked.  A key that is a client stays one; the id of   *)
(* a known agent is not read again.                                        *)
ApplyAgents(p, f) ==
  [k \in Keys |->
     IF HasRole(p, k, "client") THEN p[k]
     ELSE IF k \notin DOMAIN f THEN Nobody
     ELSE IF p[k] = Nobody THEN ParseAgent(f[k])
     ELSE [ParseAgent(f[k]) EXCEPT !.id = p[k].id]]

(* rebuildTablesLocked.  Of two agents that claim a prefix the one with the *)
(* lesser id gets it.                                                      *)
Claims(p, v) == {k \in Keys : HasRole(p, k, "agent") /\ v \in p[k].routes}

RebuildIgnoresConflicts(p) ==
  [routes  |-> UNION {{[prefix |-> v, key |-> k] : v \in p[k].routes} :
                        k \in {x \in Keys : HasRole(p, x, "agent")}},
   clients |-> [a \in Addrs |-> {k \in Keys : HasRole(p, k, "client") /\ p[k].ip = a}],
   agents  |-> [a \in Addrs |-> {k \in Keys : HasRole(p, k, "agent") /\ p[k].ip = a}]]

Rebuild(p) ==
  [routes  |-> UNION {{[prefix |-> v, key |-> k] :
                         v \in {w \in p[k].routes : \A c \in Claims(p, w) : p[k].id <= p[c].id}} :
                        k \in {x \in Keys : HasRole(p, x, "agent")}},
   clients |-> [a \in Addrs |-> {k \in Keys : HasRole(p, k, "client") /\ p[k].ip = a}],
   agents  |-> [a \in Addrs |-> {k \in Keys : HasRole(p, k, "agent") /\ p[k].ip = a}]]

(* The agent a packet to dst goes to (at most one): the owner of the        *)
(* address, else of the longest prefix that contains it.                   *)
RouteLookup(t, dst) ==
  IF t.agents[dst] # {} THEN t.agents[dst]
  ELSE LET hits == {r \in t.routes : dst \in r.prefix}
       IN {r.key : r \in {x \in hits : \A y \in hits : Cardinality(x.prefix) <= Cardinality(y.prefix)}}

-------------------------------------------------------------------------------
(* ------------------------------- packets ------------------------------ *)

(* late: the frame came on a session of a removed peer, which has given a   *)
(* code ("authed") or was never asked for one ("mute": dropPeerLocked        *)
(* cleared authed, so the hub sends it nothing).                            *)
NoPacket == [pc |-> "idle", from |-> NoKey, src |-> Hub, dst |-> Hub,
             to |-> NoKey, cfg |-> Nobody, gone |-> FALSE, late |-> "no"]

(* The configuration of the sending peerState: of an object that was        *)
(* dropped from e.peers, the last one it had.                              *)
Sender(p, q) == IF q.cfg # Nobody THEN q.cfg ELSE p[q.from]

(* ClientAllowed                                                           *)
ClientAllowed(client, agent) == agent.id \in client.acl

(* allowsSource                                                            *)
AllowsSource(agent, src) == src = agent.ip \/ \E v \in agent.routes : src \in v

OwnsSource(cfg, src) ==
  IF cfg.role = "client" THEN src = cfg.ip ELSE AllowsSource(cfg, src)

NothingSeen == [listed |-> FALSE, own |-> FALSE, reach |-> {}, serves |-> {}]

(* What the registry p says of packet q at one moment: whether the sender's *)
(* key is listed, whether the sender may use the source, whom it may reach, *)
(* who serves the destination.  The entry of a sender that had left the      *)
(* registry before is the one it left with; of one that left since, what it  *)
(* had then no longer permits anything.                                    *)
Permits(p, q) ==
  LET me == Sender(p, q)
      Reaches(k) == \/ me.role = "client" /\ HasRole(p, k, "agent") /\ ClientAllowed(me, p[k])
                    \/ me.role = "agent" /\ HasRole(p, k, "client") /\ ClientAllowed(p[k], me)
      known == q.cfg = Nobody \/ q.late # "no"
  IN IF q.pc \in {"idle", "handshake", "write"} THEN NothingSeen
     ELSE [listed  |-> p[q.from] # Nobody,
           own     |-> known /\ OwnsSource(me, q.src),
           reach   |-> {k \in Keys : Reaches(k)},
           serves  |-> {k \in Keys : p[k] # Nobody /\ p[k].enabled /\ OwnsSource(p[k], q.dst)}]

AlsoSeen(s, t) ==
  [listed |-> s.listed \/ t.listed, own |-> s.own \/ t.own,
   reach |-> s.reach \cup t.reach, serves |-> s.serves \cup t.serves]

-------------------------------------------------------------------------------
Init ==
  /\ clients \in [content : ClientFiles, fresh : {TRUE}]
  /\ agents \in [content : AgentFiles, fresh : {TRUE}]
  /\ peers = [k \in Keys |-> Nobody]
  /\ tables = Rebuild(peers)
  /\ up = {}
  /\ late = {}
  /\ timer = "clients"
  /\ packet = NoPacket
  /\ seen = NothingSeen
  /\ skipped = [clients |-> {}, agents |-> {}]

(* ---------------------------- control plane --------------------------- *)

WriteClients ==
  /\ \E f \in ClientFiles \ {clients.content} : clients' = [content |-> f, fresh |-> TRUE]
  /\ UNCHANGED <<agents, hub, timer, packet, seen, skipped>>

WriteAgents ==
  /\ \E f \in AgentFiles \ {agents.content} : agents' = [content |-> f, fresh |-> TRUE]
  /\ UNCHANGED <<clients, hub, timer, packet, seen, skipped>>

(* -------------------------------- timer ------------------------------- *)

(* dropPeerLocked and delete: a dropped object keeps its configuration but  *)
(* loses its session, whoever still points to it.                          *)
DropsNoSession(p) ==
  /\ peers' = p
  /\ tables' = Rebuild(p)
  /\ UNCHANGED <<up, late, packet>>
  /\ seen' = AlsoSeen(seen, Permits(peers', packet'))

Apply(p) ==
  LET dropped == {k \in Keys : peers[k] # Nobody /\ p[k] = Nobody} IN
  /\ peers' = p
  /\ tables' = Rebuild(p)
  /\ up' = up \ dropped
  /\ packet' = [packet EXCEPT
       !.cfg = IF packet.from \in dropped /\ @ = Nobody THEN peers[packet.from] ELSE @,
       !.gone = @ \/ packet.to \in dropped]
  /\ seen' = AlsoSeen(seen, Permits(peers', packet'))
  /\ UNCHANGED late

(* reloadClients, reloadAgents: a file that is not there or does not parse   *)
(* changes nothing.                                                        *)
ReloadClients ==
  /\ timer = "clients"
  /\ timer' = "agents"
  /\ clients' = [clients EXCEPT !.fresh = FALSE]
  /\ UNCHANGED agents
  /\ IF clients.fresh /\ clients.content # Broken
     THEN /\ Apply(ApplyClients(peers, clients.content))
          /\ skipped' = [skipped EXCEPT !.clients =
                        {k \in DOMAIN clients.content : HasRole(peers, k, "agent")}]
     ELSE UNCHANGED <<hub, packet, seen, skipped>>

ReloadAgents ==
  /\ timer = "agents"
  /\ timer' = "clients"
  /\ agents' = [agents EXCEPT !.fresh = FALSE]
  /\ UNCHANGED clients
  /\ IF agents.fresh /\ agents.content # Broken
     THEN /\ Apply(ApplyAgents(peers, agents.content))
          /\ skipped' = [skipped EXCEPT !.agents =
                        {k \in DOMAIN agents.content : HasRole(peers, k, "client")}]
     ELSE UNCHANGED <<hub, packet, seen, skipped>>

(* ------------------------------ sessions ------------------------------ *)

(* handleHandshakeInit: peerByPub finds the peer, also one that has a        *)
(* session already.                                                        *)
Handshake(k) ==
  /\ packet.pc = "idle"
  /\ peers[k] # Nobody
  /\ packet' = [NoPacket EXCEPT !.pc = "handshake", !.from = k]
  /\ UNCHANGED <<clients, agents, hub, timer, seen, skipped>>

(* addr2peer and installSession, and the code of a peer that has to give    *)
(* one.  Nobody asks whether the peer is still registered; of one that was  *)
(* dropped the session is found unless the address was entered before the   *)
(* drop, which forgets it.                                                 *)
Install ==
  /\ packet.pc = "handshake"
  /\ packet' = NoPacket
  /\ \/ packet.cfg = Nobody /\ up' = up \cup {packet.from} /\ UNCHANGED late
     \/ /\ packet.cfg # Nobody /\ Cardinality(late) < MaxLate
        /\ \E authed \in BOOLEAN :
             late' = late \cup {[key |-> packet.from, cfg |-> packet.cfg, authed |-> authed]}
        /\ UNCHANGED up
     \/ packet.cfg # Nobody /\ UNCHANGED <<up, late>>
  /\ UNCHANGED <<clients, agents, peers, tables, timer, seen, skipped>>

SessionDown(k) ==
  /\ k \in up
  /\ up' = up \ {k}
  /\ UNCHANGED <<clients, agents, peers, tables, late, timer, packet, seen, skipped>>

(* Neither tick nor a kick visits a removed peer: its session ends with its  *)
(* own BYE or when another peer takes its address over.                    *)
LateDown(l) ==
  /\ packet.pc = "idle"
  /\ late' = late \ {l}
  /\ UNCHANGED <<clients, agents, peers, tables, up, timer, packet, seen, skipped>>

(* -------------------------------- reader ------------------------------ *)

Opened(k, src, dst) == [NoPacket EXCEPT !.pc = "check", !.from = k, !.src = src, !.dst = dst]

Receive(q) ==
  /\ packet.pc = "idle"
  /\ packet' = q
  /\ seen' = Permits(peers, q)
  /\ UNCHANGED <<clients, agents, hub, timer, skipped>>

(* handleData opened a DATA frame whose sender passes the gate.            *)
Open(k, src, dst) ==
  /\ k \in up
  /\ Receive(Opened(k, src, dst))

OpenLate(l, src, dst) ==
  Receive([Opened(l.key, src, dst) EXCEPT !.cfg = l.cfg,
             !.late = IF l.authed THEN "authed" ELSE "mute"])

GoOn(q) ==
  /\ packet' = q
  /\ seen' = AlsoSeen(seen, Permits(peers, q))
  /\ UNCHANGED <<clients, agents, hub, timer, skipped>>

SealAndWrite ==
  /\ packet' = [NoPacket EXCEPT !.pc = "write"]
  /\ seen' = NothingSeen
  /\ UNCHANGED <<clients, agents, hub, timer, skipped>>

Discard ==
  /\ packet' = NoPacket
  /\ seen' = NothingSeen
  /\ UNCHANGED <<clients, agents, hub, timer, skipped>>

(* The anti-spoofing check, without the mutex.  A client's ping to the hub  *)
(* is answered on its own session; anything else to the hub ends here.     *)
CheckSource ==
  /\ packet.pc = "check"
  /\ LET me == Sender(peers, packet)
         own == OwnsSource(me, packet.src)
         toHub == me.role = "client" /\ packet.dst = Hub
     IN
     \/ ~own /\ Discard
     \/ own /\ toHub /\ GoOn([packet EXCEPT !.pc = "reply"])
     \/ own /\ toHub /\ Discard
     \/ own /\ ~toHub /\ GoOn([packet EXCEPT !.pc = "lookup"])

(* relayFromClient and relayFromAgent, under the mutex: the target, the ACL *)
(* and whether the target is live.                                         *)
TargetAnyClient(me) ==
  IF me.role = "client"
  THEN {k \in RouteLookup(tables, packet.dst) : peers[k].enabled /\ k \in up}
  ELSE {k \in tables.clients[packet.dst] :
          ClientAllowed(peers[k], me) /\ peers[k].enabled /\ k \in up}

Target(me) ==
  IF me.role = "client"
  THEN {k \in RouteLookup(tables, packet.dst) :
          ClientAllowed(me, peers[k]) /\ peers[k].enabled /\ k \in up}
  ELSE {k \in tables.clients[packet.dst] :
          ClientAllowed(peers[k], me) /\ peers[k].enabled /\ k \in up}

Lookup ==
  /\ packet.pc = "lookup"
  /\ LET to == Target(Sender(peers, packet)) IN
     \/ to = {} /\ Discard
     \/ \E k \in to : GoOn([packet EXCEPT !.pc = "send", !.to = k])

(* sendTo: sealed if the target still has its session, dropped otherwise.  *)
Seal ==
  /\ packet.pc = "send"
  /\ IF ~packet.gone /\ packet.to \in up
     THEN SealAndWrite
     ELSE Discard

(* replyLocalICMP: sendTo the sender.                                      *)
Reply ==
  /\ packet.pc = "reply"
  /\ IF packet.late = "authed" \/ (packet.cfg = Nobody /\ packet.from \in up)
     THEN SealAndWrite
     ELSE Discard

Write ==
  /\ packet.pc = "write"
  /\ Discard

Next ==
  \/ WriteClients \/ WriteAgents
  \/ ReloadClients \/ ReloadAgents
  \/ \E k \in Keys : Handshake(k) \/ SessionDown(k)
  \/ Install
  \/ \E k \in Keys, sd \in Packets : Open(k, sd[1], sd[2])
  \/ \E l \in late : LateDown(l) \/ \E sd \in Packets : OpenLate(l, sd[1], sd[2])
  \/ CheckSource \/ Lookup \/ Seal \/ Reply \/ Write

Spec == Init /\ [][Next]_vars

-------------------------------------------------------------------------------
(* Of registered peers only `up` has sessions, of removed ones only `late`,  *)
(* under the configuration they left with.                                 *)
TypeOK ==
  /\ clients \in [content : ClientFiles, fresh : BOOLEAN]
  /\ agents \in [content : AgentFiles, fresh : BOOLEAN]
  /\ peers \in [Keys -> {Nobody} \cup Configs]
  /\ up \subseteq {k \in Keys : peers[k] # Nobody}
  /\ late \subseteq [key : Keys, cfg : Configs, authed : BOOLEAN]
  /\ timer \in {"clients", "agents"}
  /\ packet \in [pc : {"idle", "handshake", "check", "lookup", "send", "reply", "write"},
                 from : Keys \cup {NoKey}, src : Addrs, dst : Addrs, to : Keys \cup {NoKey},
                 cfg : {Nobody} \cup Configs, gone : BOOLEAN, late : {"no", "mute", "authed"}]
  /\ seen \in [listed : BOOLEAN, own : BOOLEAN, reach : SUBSET Keys, serves : SUBSET Keys]
  /\ skipped \in [clients : SUBSET Keys, agents : SUBSET Keys]

Sealed == packet.pc \in {"send", "reply"} /\ packet'.pc = "write"

(* relay.go:12: a sealed packet, in either direction, carries a source its  *)
(* sender may use, and, unless it is the hub's answer to the sender, goes   *)
(* to a peer of the other role that the ACL joins to the sender, and that   *)
(* serves the destination and is enabled: each was so at some moment since  *)
(* the packet was opened, however the registry changed meanwhile.  And the  *)
(* sender was registered at some such moment, but for one whose session was *)
(* installed after it had left the registry (registry_runtime.go:31 says no *)
(* session is left then; engine.go:725 leaves one): of that one the entry it *)
(* left with counts, against the targets registered now.  Whether the       *)
(* sender is enabled nobody asks (registry.go:119 says it is refused).       *)
OnlyPermittedPackets ==
  [][Sealed => /\ packet.late = "no" => seen.listed
               /\ seen.own
               /\ packet.pc = "send" => packet.to \in seen.reach \cap seen.serves]_vars

(* What a client may send to a site, the site's answer may return: for      *)
(* every client and destination the relay forwards, the answer's source is *)
(* one the site may use and its destination leads back to that client.     *)
RoundTrip ==
  \A c \in Keys, dst \in Addrs \ {Hub} :
    HasRole(peers, c, "client") /\ peers[c].ip \in Addrs =>
      \A a \in RouteLookup(tables, dst) :
        ClientAllowed(peers[c], peers[a]) =>
          /\ AllowsSource(peers[a], dst)
          /\ tables.clients[peers[c].ip] = {c}
          /\ RouteLookup(tables, dst) = {a}

(* PROTOCOL.md:93: changes of the files take effect.  Once the timer has    *)
(* looked at a file since it was last written, the peers of the file's role *)
(* are among those it lists and are as it describes them, and every key it  *)
(* lists is one of them, except a key that was the other role's when the    *)
(* file was applied: whatever came before, whichever file came first, and   *)
(* also when a key has moved from one file to the other.  (A key passed over *)
(* as the other role's stays unknown when that role's file drops it: the    *)
(* file that lists it is not read again.)                                  *)
Matches(f, role, Parse(_), except) ==
  \A k \in Keys :
    /\ HasRole(peers, k, role) => k \in DOMAIN f /\ peers[k] = Parse(f[k])
    /\ k \in DOMAIN f \ except => HasRole(peers, k, role)

RegistryApplied ==
  /\ ~clients.fresh /\ clients.content # Broken =>
       Matches(clients.content, "client", ParseClient, skipped.clients)
  /\ ~agents.fresh /\ agents.content # Broken =>
       Matches(agents.content, "agent", ParseAgent, skipped.agents)

===============================================================================
