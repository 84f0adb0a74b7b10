------------------------------ MODULE Relay_proofs ------------------------------
(***************************************************************************)
(* Proofs about Relay for any keys, addresses, packets and registry files: *)
(* whatever the registry becomes while a packet is on its way, and whether *)
(* its sender is still registered or not, it leaves with a source the      *)
(* sender may use, towards a peer the ACL joins to the sender and that     *)
(* serves the destination; the files take effect; and between sound files  *)
(* what goes out comes back.                                               *)
(*                                                                         *)
(* Two invariants.  The first is about the packet: what the reader has     *)
(* checked so far was permitted at some moment since it opened the packet, *)
(* also when the object it checked has left the registry.  The second is   *)
(* about the registry: all peers of a role stem from one file.             *)
(***************************************************************************)
EXTENDS Relay, FiniteSetTheorems, TLAPS

Peers == [Keys -> {Nobody} \cup Configs]
Moments ==
  [listed : BOOLEAN, own : BOOLEAN, reach : SUBSET Keys, serves : SUBSET Keys]
PacketStates ==
  [pc : {"idle", "handshake", "check", "lookup", "send", "reply", "write"},
   from : Keys \cup {NoKey}, src : Addrs, dst : Addrs, to : Keys \cup {NoKey},
   cfg : {Nobody} \cup Configs, gone : BOOLEAN, late : {"no", "mute", "authed"}]

(* The reader is between the frame and the session it leaves on.             *)
Relaying(q) == q.pc \in {"check", "lookup", "send", "reply"}

(* Its sender is registered, or left and kept its configuration.             *)
Known(q, p) == q.from \in Keys /\ (q.cfg = Nobody => p[q.from] # Nobody)

(* Whatever t permits, s has seen permitted.                                 *)
Covers(s, t) ==
  /\ t.listed => s.listed
  /\ t.own => s.own
  /\ t.reach \subseteq s.reach
  /\ t.serves \subseteq s.serves

(* Of packet q, with the registry p and the history s.                       *)
PacketOK(q, p, s) ==
  /\ q.pc \in {"idle", "write"} => q.from = NoKey /\ q.cfg = Nobody
  /\ q.pc = "handshake" => Known(q, p)
  /\ Relaying(q) =>
       /\ Known(q, p)
       /\ Covers(s, Permits(p, q))
       /\ q.late = "no" => s.listed
       /\ q.cfg # Nobody /\ OwnsSource(q.cfg, q.src) => s.own
  /\ q.pc \in {"lookup", "send", "reply"} => s.own
  /\ q.pc = "send" => q.to \in Keys /\ q.to \in s.reach /\ q.to \in s.serves

(* The inductive invariant of the packet.                                   *)
IInv ==
  /\ TypeOK
  /\ tables = Rebuild(peers)
  /\ PacketOK(packet, peers, seen)

(* ------------------------------ the files ----------------------------- *)

(* No key is ever given another id: the hub does not read it again.          *)
SameIds ==
  \A f, g \in AgentFiles \ {Broken} : \A k \in DOMAIN f \cap DOMAIN g : f[k].id = g[k].id

(* Two peers of a role stem from one file.                                  *)
ClientsOfOneFile ==
  \A k, l \in Keys : HasRole(peers, k, "client") /\ HasRole(peers, l, "client") =>
    \E f \in ClientFiles \ {Broken} :
      /\ k \in DOMAIN f /\ l \in DOMAIN f
      /\ peers[k] = ParseClient(f[k]) /\ peers[l] = ParseClient(f[l])

AgentsOfOneFile ==
  \A k, l \in Keys : HasRole(peers, k, "agent") /\ HasRole(peers, l, "agent") =>
    \E f \in AgentFiles \ {Broken} :
      /\ k \in DOMAIN f /\ l \in DOMAIN f
      /\ peers[k] = ParseAgent(f[k]) /\ peers[l] = ParseAgent(f[l])

(* The inductive invariant of the registry.                                 *)
RInv == ClientsOfOneFile /\ AgentsOfOneFile /\ RegistryApplied
-------------------------------------------------------------------------------
(* ------------------------ what the operators give --------------------- *)

LEMMA ParsedConfigs ==
  /\ \A f \in ClientFiles \ {Broken} : \A k \in DOMAIN f :
       /\ k \in Keys /\ ParseClient(f[k]) \in Configs /\ ParseClient(f[k]).role = "client"
       /\ ParseClient(f[k]).ip = f[k].ip
  /\ \A f \in AgentFiles \ {Broken} : \A k \in DOMAIN f :
       /\ k \in Keys /\ ParseAgent(f[k]) \in Configs /\ ParseAgent(f[k]).role = "agent"
       /\ ParseAgent(f[k]).ip = f[k].ip /\ ParseAgent(f[k]).id = f[k].id
       /\ ParseAgent(f[k]).routes = f[k].routes /\ f[k].id \in Nat
<1>1. ASSUME NEW f \in ClientFiles \ {Broken}, NEW k \in DOMAIN f
      PROVE  /\ k \in Keys /\ ParseClient(f[k]) \in Configs /\ ParseClient(f[k]).role = "client"
             /\ ParseClient(f[k]).ip = f[k].ip
  <2>1. k \in Keys /\ f[k] \in ClientEntries
    BY FileAssumption
  <2>2. f[k].ip \in Addrs \cup {NoAddr} /\ f[k].acl \in SUBSET Nat
    BY <2>1 DEF ClientEntries
  <2>3. {} \in SUBSET SUBSET Addrs /\ 0 \in Nat
    OBVIOUS
  <2>. QED  BY <2>1, <2>2, <2>3 DEF ParseClient, Configs
<1>2. ASSUME NEW f \in AgentFiles \ {Broken}, NEW k \in DOMAIN f
      PROVE  /\ k \in Keys /\ ParseAgent(f[k]) \in Configs /\ ParseAgent(f[k]).role = "agent"
             /\ ParseAgent(f[k]).ip = f[k].ip /\ ParseAgent(f[k]).id = f[k].id
             /\ ParseAgent(f[k]).routes = f[k].routes /\ f[k].id \in Nat
  <2>1. k \in Keys /\ f[k] \in AgentEntries
    BY FileAssumption
  <2>2. /\ f[k].id \in Nat /\ f[k].ip \in Addrs \cup {NoAddr}
        /\ f[k].routes \in SUBSET SUBSET Addrs /\ f[k].enabled \in BOOLEAN
    BY <2>1 DEF AgentEntries
  <2>3. {} \in SUBSET Nat
    OBVIOUS
  <2>. QED  BY <2>1, <2>2, <2>3 DEF ParseAgent, Configs
<1>. QED  BY <1>1, <1>2

LEMMA ClientsApplied ==
  ASSUME NEW p \in Peers, NEW f \in ClientFiles \ {Broken}
  PROVE  ApplyClients(p, f) \in Peers
<1>. DEFINE new(k) == IF HasRole(p, k, "agent") THEN p[k]
                      ELSE IF k \in DOMAIN f THEN ParseClient(f[k])
                      ELSE Nobody
<1>1. \A k \in Keys : new(k) \in {Nobody} \cup Configs
  BY ParsedConfigs DEF Peers
<1>2. ApplyClients(p, f) = [k \in Keys |-> new(k)]
  BY DEF ApplyClients
<1>. HIDE DEF new
<1>. QED  BY <1>1, <1>2 DEF Peers

LEMMA AgentsApplied ==
  ASSUME NEW p \in Peers, NEW f \in AgentFiles \ {Broken}
  PROVE  ApplyAgents(p, f) \in Peers
<1>. DEFINE kept(k) == [ParseAgent(f[k]) EXCEPT !.id = p[k].id]
            new(k) == IF HasRole(p, k, "client") THEN p[k]
                      ELSE IF k \notin DOMAIN f THEN Nobody
                      ELSE IF p[k] = Nobody THEN ParseAgent(f[k])
                      ELSE kept(k)
<1>1. ASSUME NEW k \in Keys, k \in DOMAIN f, p[k] # Nobody PROVE kept(k) \in Configs
  <2>1. ParseAgent(f[k]) \in Configs /\ p[k] \in Configs
    BY <1>1, ParsedConfigs DEF Peers
  <2>2. p[k].id \in Nat
    BY <2>1 DEF Configs
  <2>. QED  BY <2>1, <2>2 DEF Configs
<1>2. ApplyAgents(p, f) = [k \in Keys |-> new(k)]
  BY DEF ApplyAgents
<1>. HIDE DEF kept
<1>3. \A k \in Keys : new(k) \in {Nobody} \cup Configs
  BY <1>1, ParsedConfigs DEF Peers
<1>. HIDE DEF new
<1>. QED  BY <1>2, <1>3 DEF Peers

(* What Permits says of a packet under way, and of any other.                *)
LEMMA PermitsFields ==
  ASSUME NEW p, NEW q, Relaying(q)
  PROVE  /\ Permits(p, q).own <=>
              (q.cfg = Nobody \/ q.late # "no") /\ OwnsSource(Sender(p, q), q.src)
         /\ \A k \in Keys : k \in Permits(p, q).reach <=>
              \/ /\ Sender(p, q).role = "client" /\ HasRole(p, k, "agent")
                 /\ ClientAllowed(Sender(p, q), p[k])
              \/ /\ Sender(p, q).role = "agent" /\ HasRole(p, k, "client")
                 /\ ClientAllowed(p[k], Sender(p, q))
         /\ \A k \in Keys : k \in Permits(p, q).serves <=>
              p[k] # Nobody /\ p[k].enabled /\ OwnsSource(p[k], q.dst)
         /\ Permits(p, q).listed <=> p[q.from] # Nobody
BY DEF Permits, Relaying

LEMMA NothingPermitted ==
  /\ NothingSeen \in Moments
  /\ \A p : \A q \in PacketStates : ~Relaying(q) => Permits(p, q) = NothingSeen
BY DEF NothingSeen, Moments, Permits, Relaying, PacketStates

(* The sender of a packet has a configuration, also after it left e.peers.   *)
LEMMA SenderKnown ==
  ASSUME NEW p \in Peers, NEW q \in PacketStates, Known(q, p)
  PROVE  Sender(p, q) \in Configs
BY DEF Sender, Known, Peers, PacketStates

LEMMA PermitsType ==
  ASSUME NEW p \in Peers, NEW q \in PacketStates, Relaying(q) => Known(q, p)
  PROVE  Permits(p, q) \in Moments
<1>. DEFINE me == Sender(p, q)
            listed == p[q.from] # Nobody
            own == (q.cfg = Nobody \/ q.late # "no") /\ OwnsSource(me, q.src)
            reach == {k \in Keys : \/ me.role = "client" /\ HasRole(p, k, "agent") /\ ClientAllowed(me, p[k])
                                   \/ me.role = "agent" /\ HasRole(p, k, "client") /\ ClientAllowed(p[k], me)}
            serves == {k \in Keys : p[k] # Nobody /\ p[k].enabled /\ OwnsSource(p[k], q.dst)}
<1>1. CASE ~Relaying(q)
  BY <1>1, NothingPermitted
<1>2. CASE Relaying(q)
  <2>1. Permits(p, q) = [listed |-> listed, own |-> own, reach |-> reach, serves |-> serves]
    BY <1>2 DEF Permits, Relaying
  <2>2. /\ listed \in BOOLEAN /\ own \in BOOLEAN /\ reach \in SUBSET Keys /\ serves \in SUBSET Keys
    BY DEF OwnsSource, AllowsSource
  <2>. HIDE DEF me, listed, own, reach, serves
  <2>. QED  BY <2>1, <2>2 DEF Moments
<1>. QED  BY <1>1, <1>2

LEMMA AlsoSeenCovers ==
  ASSUME NEW s \in Moments, NEW t \in Moments
  PROVE  AlsoSeen(s, t) \in Moments /\ Covers(AlsoSeen(s, t), s) /\ Covers(AlsoSeen(s, t), t)
BY DEF AlsoSeen, Moments, Covers

(* Whoever the tables lead to serves the destination.                       *)
LEMMA RoutedServes ==
  ASSUME NEW p \in Peers, NEW dst \in Addrs, NEW k \in RouteLookup(Rebuild(p), dst)
  PROVE  k \in Keys /\ HasRole(p, k, "agent") /\ AllowsSource(p[k], dst)
<1>. DEFINE t == Rebuild(p)
<1>1. t.agents[dst] = {a \in Keys : HasRole(p, a, "agent") /\ p[a].ip = dst}
  BY DEF Rebuild
<1>2. ASSUME NEW r \in t.routes
      PROVE  r.key \in Keys /\ HasRole(p, r.key, "agent") /\ r.prefix \in p[r.key].routes
  BY DEF Rebuild
<1>. HIDE DEF t
<1>3. k \in RouteLookup(t, dst)
  BY DEF t
<1>4. CASE t.agents[dst] # {}
  BY <1>1, <1>3, <1>4 DEF RouteLookup, AllowsSource
<1>5. CASE t.agents[dst] = {}
  <2>1. PICK r \in t.routes : dst \in r.prefix /\ k = r.key
    BY <1>3, <1>5 DEF RouteLookup
  <2>. QED  BY <1>2, <2>1 DEF AllowsSource
<1>. QED  BY <1>4, <1>5

LEMMA ClientServes ==
  ASSUME NEW p \in Peers, NEW dst \in Addrs, NEW k \in Rebuild(p).clients[dst]
  PROVE  k \in Keys /\ HasRole(p, k, "client") /\ OwnsSource(p[k], dst)
<1>1. Rebuild(p).clients[dst] = {c \in Keys : HasRole(p, c, "client") /\ p[c].ip = dst}
  BY DEF Rebuild
<1>. QED  BY <1>1 DEF OwnsSource, HasRole

LEMMA AgentOwns ==
  ASSUME NEW cfg, cfg.role = "agent", NEW a
  PROVE  OwnsSource(cfg, a) <=> AllowsSource(cfg, a)
BY DEF OwnsSource
-------------------------------------------------------------------------------
(* -------------------------- the packet's steps ------------------------ *)

LEMMA NoPacketFields ==
  /\ NoPacket \in PacketStates /\ NoPacket.from = NoKey /\ NoPacket.cfg = Nobody
  /\ NoPacket.pc = "idle" /\ NoPacket.late = "no"
BY AddrAssumption DEF NoPacket, PacketStates

LEMMA Established == Init => IInv
<1>. SUFFICES ASSUME Init PROVE IInv
  OBVIOUS
<1>1. packet \in PacketStates /\ seen \in Moments
  BY NoPacketFields, NothingPermitted DEF Init
<1>2. TypeOK
  BY <1>1 DEF Init, TypeOK, PacketStates, Moments
<1>. QED  BY <1>2, NoPacketFields DEF Init, IInv, PacketOK, Relaying

(* While the registry and the packet stay as they are.                       *)
LEMMA PacketWaits ==
  ASSUME IInv, UNCHANGED <<peers, tables, packet, seen>>, TypeOK'
  PROVE  IInv'
BY DEF IInv

(* The registry changes under the packet.                                    *)
LEMMA AppliedFields ==
  ASSUME TypeOK, NEW p \in Peers, Apply(p)
  PROVE  /\ packet' \in PacketStates
         /\ packet'.pc = packet.pc /\ packet'.from = packet.from /\ packet'.src = packet.src
         /\ packet'.dst = packet.dst /\ packet'.to = packet.to /\ packet'.late = packet.late
         /\ packet'.cfg = IF /\ packet.from \in Keys /\ peers[packet.from] # Nobody
                             /\ p[packet.from] = Nobody /\ packet.cfg = Nobody
                          THEN peers[packet.from] ELSE packet.cfg
<1>. DEFINE dropped == {k \in Keys : peers[k] # Nobody /\ p[k] = Nobody}
            cfg == IF packet.from \in dropped /\ packet.cfg = Nobody THEN peers[packet.from] ELSE packet.cfg
            gone == packet.gone \/ packet.to \in dropped
<1>1. packet \in PacketStates /\ peers \in Peers
  BY DEF TypeOK, PacketStates, Peers
<1>2. packet' = [packet EXCEPT !.cfg = cfg, !.gone = gone]
  <2>1. packet' = [packet EXCEPT
                     !.cfg = IF packet.from \in dropped /\ @ = Nobody THEN peers[packet.from] ELSE @,
                     !.gone = @ \/ packet.to \in dropped]
    BY DEF Apply
  <2>. HIDE DEF dropped
  <2>. QED  BY <1>1, <2>1 DEF PacketStates
<1>3. cfg \in {Nobody} \cup Configs /\ gone \in BOOLEAN
  BY <1>1 DEF PacketStates, Peers
<1>4. cfg = IF /\ packet.from \in Keys /\ peers[packet.from] # Nobody
               /\ p[packet.from] = Nobody /\ packet.cfg = Nobody
            THEN peers[packet.from] ELSE packet.cfg
  OBVIOUS
<1>. HIDE DEF cfg, gone
<1>. QED  BY <1>1, <1>2, <1>3, <1>4 DEF PacketStates

LEMMA ApplyKeeps ==
  ASSUME IInv, NEW p \in Peers, Apply(p),
         clients' \in [content : ClientFiles, fresh : BOOLEAN],
         agents' \in [content : AgentFiles, fresh : BOOLEAN],
         timer' \in {"clients", "agents"},
         skipped' \in [clients : SUBSET Keys, agents : SUBSET Keys]
  PROVE  IInv'
<1>. DEFINE now == Permits(peers', packet')
<1>1. /\ packet' \in PacketStates
      /\ packet'.pc = packet.pc /\ packet'.from = packet.from /\ packet'.src = packet.src
      /\ packet'.dst = packet.dst /\ packet'.to = packet.to /\ packet'.late = packet.late
      /\ packet'.cfg = IF /\ packet.from \in Keys /\ peers[packet.from] # Nobody
                          /\ p[packet.from] = Nobody /\ packet.cfg = Nobody
                       THEN peers[packet.from] ELSE packet.cfg
  BY AppliedFields DEF IInv
<1>2. /\ packet \in PacketStates /\ peers \in Peers /\ seen \in Moments
      /\ up \subseteq {k \in Keys : peers[k] # Nobody} /\ PacketOK(packet, peers, seen)
  BY DEF IInv, TypeOK, PacketStates, Peers, Moments
<1>3. peers' = p /\ tables' = Rebuild(p) /\ seen' = AlsoSeen(seen, now) /\ late' = late
  BY DEF Apply
<1>4. Known(packet, peers) => Known(packet', p)
  BY <1>1, <1>2 DEF Known
<1>5. now \in Moments
  <2>1. Relaying(packet') => Known(packet', p)
    BY <1>1, <1>2, <1>4 DEF Relaying, PacketOK
  <2>. QED  BY <1>1, <1>3, <2>1, PermitsType
<1>. HIDE DEF now
<1>6. seen' \in Moments /\ Covers(seen', seen) /\ Covers(seen', now)
  BY <1>2, <1>3, <1>5, AlsoSeenCovers
<1>7. up' \subseteq {k \in Keys : p[k] # Nobody}
  BY <1>2 DEF Apply
<1>8. TypeOK'
  BY <1>1, <1>3, <1>6, <1>7 DEF IInv, TypeOK, PacketStates, Peers, Moments
<1>9. CASE packet.pc \in {"idle", "write"}
  <2>1. packet'.pc \in {"idle", "write"} /\ packet'.from = NoKey /\ packet'.cfg = Nobody
    BY <1>1, <1>2, <1>9, KeyAssumption DEF PacketOK
  <2>2. PacketOK(packet', peers', seen')
    BY <2>1 DEF PacketOK, Relaying
  <2>. QED  BY <1>3, <1>8, <2>2 DEF IInv
<1>10. CASE packet.pc = "handshake"
  <2>1. packet'.pc = "handshake" /\ Known(packet', peers')
    BY <1>1, <1>2, <1>3, <1>4, <1>10 DEF PacketOK
  <2>2. PacketOK(packet', peers', seen')
    BY <2>1 DEF PacketOK, Relaying
  <2>. QED  BY <1>3, <1>8, <2>2 DEF IInv
<1>11. CASE Relaying(packet)
  <2>1. Known(packet, peers) /\ Known(packet', peers')
    BY <1>2, <1>3, <1>4, <1>11 DEF PacketOK
  <2>2. packet'.cfg # Nobody /\ OwnsSource(packet'.cfg, packet.src) => seen'.own
    <3>. SUFFICES ASSUME packet'.cfg # Nobody, OwnsSource(packet'.cfg, packet.src) PROVE seen'.own
      OBVIOUS
    <3>1. CASE packet.cfg # Nobody
      <4>1. packet'.cfg = packet.cfg
        BY <1>1, <3>1
      <4>2. seen.own
        BY <1>2, <1>11, <3>1, <4>1 DEF PacketOK
      <4>. QED  BY <1>6, <4>2 DEF Covers
    <3>2. CASE packet.cfg = Nobody
      <4>1. packet'.cfg = peers[packet.from]
        BY <1>1, <3>2
      <4>2. Sender(peers, packet) = peers[packet.from]
        BY <3>2 DEF Sender
      <4>3. Permits(peers, packet).own
        BY <1>11, <3>2, <4>1, <4>2, PermitsFields
      <4>4. seen.own
        BY <1>2, <1>11, <4>3 DEF PacketOK, Covers
      <4>. QED  BY <1>6, <4>4 DEF Covers
    <3>. QED  BY <3>1, <3>2
  <2>3. Covers(seen', Permits(peers', packet'))
    BY <1>6 DEF now
  <2>4. packet.pc \in {"lookup", "send", "reply"} => seen'.own
    BY <1>2, <1>6 DEF PacketOK, Covers
  <2>5. packet.pc = "send" => packet.to \in Keys /\ packet.to \in seen'.reach /\ packet.to \in seen'.serves
    BY <1>2, <1>6 DEF PacketOK, Covers
  <2>6. packet.late = "no" => seen'.listed
    BY <1>2, <1>6, <1>11 DEF PacketOK, Covers
  <2>7. PacketOK(packet', peers', seen')
    BY <1>1, <1>11, <2>1, <2>2, <2>3, <2>4, <2>5, <2>6 DEF PacketOK, Relaying
  <2>. QED  BY <1>3, <1>8, <2>7 DEF IInv
<1>. QED  BY <1>2, <1>9, <1>10, <1>11 DEF PacketStates, Relaying

(* The reader is done with its packet.                                       *)
LEMMA PacketEnds ==
  ASSUME IInv, packet' = NoPacket \/ packet' = [NoPacket EXCEPT !.pc = "write"],
         seen' = NothingSeen, UNCHANGED <<clients, agents, hub, timer, skipped>>
  PROVE  IInv'
<1>1. /\ packet' \in PacketStates /\ packet'.pc \in {"idle", "write"}
      /\ packet'.from = NoKey /\ packet'.cfg = Nobody
  BY NoPacketFields DEF PacketStates
<1>2. TypeOK'
  BY <1>1, NothingPermitted DEF IInv, TypeOK, PacketStates, Moments, hub
<1>3. PacketOK(packet', peers', seen')
  BY <1>1 DEF PacketOK, Relaying
<1>. QED  BY <1>2, <1>3 DEF IInv, hub

(* The reader goes on with its packet.                                       *)
LEMMA GoOnKeeps ==
  ASSUME IInv, Relaying(packet), NEW q \in PacketStates, GoOn(q), Relaying(q),
         q.from = packet.from, q.src = packet.src, q.dst = packet.dst, q.cfg = packet.cfg,
         q.late = packet.late, seen.own,
         q.pc = "send" => /\ q.to \in Keys /\ q.to \in Permits(peers, q).reach
                          /\ q.to \in Permits(peers, q).serves
  PROVE  IInv'
<1>. DEFINE now == Permits(peers, q)
<1>1. /\ peers \in Peers /\ seen \in Moments /\ PacketOK(packet, peers, seen)
  BY DEF IInv, TypeOK, Peers, Moments
<1>2. packet' = q /\ seen' = AlsoSeen(seen, now)
      /\ UNCHANGED <<clients, agents, peers, tables, up, late, timer, skipped>>
  BY DEF GoOn, hub
<1>3. /\ Known(q, peers) /\ (q.cfg # Nobody /\ OwnsSource(q.cfg, q.src) => seen.own)
  BY <1>1 DEF PacketOK, Known
<1>4. now \in Moments
  BY <1>1, <1>3, PermitsType
<1>. HIDE DEF now
<1>5. seen' \in Moments /\ Covers(seen', seen) /\ Covers(seen', now)
  BY <1>1, <1>2, <1>4, AlsoSeenCovers
<1>6. TypeOK'
  BY <1>2, <1>5 DEF IInv, TypeOK, PacketStates, Moments
<1>7. seen'.own
  BY <1>5 DEF Covers
<1>8. q.pc = "send" => q.to \in seen'.reach /\ q.to \in seen'.serves
  BY <1>5 DEF Covers, now
<1>9. Covers(seen', Permits(peers, q))
  BY <1>5 DEF now
<1>10. q.late = "no" => seen'.listed
  BY <1>1, <1>5 DEF PacketOK, Covers
<1>11. PacketOK(q, peers, seen')
  BY <1>3, <1>7, <1>8, <1>9, <1>10 DEF PacketOK, Relaying
<1>. QED  BY <1>2, <1>6, <1>11 DEF IInv

(* The reader takes a packet whose sender is known.                          *)
LEMMA ReceiveKeeps ==
  ASSUME IInv, NEW q \in PacketStates, q.pc = "check", Known(q, peers), Receive(q),
         q.cfg = Nobody <=> q.late = "no"
  PROVE  IInv'
<1>1. packet' = q /\ seen' = Permits(peers, q)
      /\ UNCHANGED <<clients, agents, peers, tables, up, late, timer, skipped>>
  BY DEF Receive, hub
<1>2. peers \in Peers /\ Relaying(q)
  BY DEF IInv, TypeOK, Peers, Relaying
<1>3. seen' \in Moments
  BY <1>1, <1>2, PermitsType
<1>4. TypeOK'
  BY <1>1, <1>3 DEF IInv, TypeOK, PacketStates, Moments
<1>5. q.cfg # Nobody /\ OwnsSource(q.cfg, q.src) => seen'.own
  BY <1>1, <1>2, PermitsFields DEF Sender
<1>6. q.late = "no" => seen'.listed
  BY <1>1, <1>2, PermitsFields DEF Known
<1>7. PacketOK(q, peers, seen')
  BY <1>1, <1>5, <1>6 DEF PacketOK, Covers
<1>. QED  BY <1>1, <1>4, <1>7 DEF IInv

LEMMA OpenKeeps ==
  ASSUME IInv, NEW sd \in Packets,
         \/ \E k \in Keys : Open(k, sd[1], sd[2])
         \/ \E l \in late : OpenLate(l, sd[1], sd[2])
  PROVE  IInv'
<1>1. sd[1] \in Addrs /\ sd[2] \in Addrs
  BY PacketAssumption
<1>2. ASSUME NEW k \in Keys
      PROVE  /\ Opened(k, sd[1], sd[2]) \in PacketStates
             /\ Opened(k, sd[1], sd[2]).pc = "check" /\ Opened(k, sd[1], sd[2]).from = k
             /\ Opened(k, sd[1], sd[2]).cfg = Nobody
             /\ Opened(k, sd[1], sd[2]).late = "no"
  BY <1>1, NoPacketFields DEF Opened, PacketStates
<1>3. ASSUME NEW k \in Keys, Open(k, sd[1], sd[2]) PROVE IInv'
  <2>1. peers[k] # Nobody /\ Receive(Opened(k, sd[1], sd[2]))
    BY <1>3 DEF Open, IInv, TypeOK
  <2>2. Known(Opened(k, sd[1], sd[2]), peers)
    BY <1>2, <2>1 DEF Known
  <2>. QED  BY <1>2, <2>1, <2>2, ReceiveKeeps
<1>4. ASSUME NEW l \in late, OpenLate(l, sd[1], sd[2]) PROVE IInv'
  <2>. DEFINE kind == IF l.authed THEN "authed" ELSE "mute"
              o == Opened(l.key, sd[1], sd[2])
              q == [o EXCEPT !.cfg = l.cfg, !.late = kind]
  <2>1. l.key \in Keys /\ l.cfg \in Configs
    BY DEF IInv, TypeOK
  <2>. HIDE DEF kind
  <2>2. /\ q \in PacketStates /\ q.pc = "check" /\ q.from = l.key /\ q.cfg = l.cfg
        /\ q.late # "no"
    <3>1. kind \in {"mute", "authed"}
      BY DEF kind
    <3>2. o \in PacketStates /\ o.pc = "check" /\ o.from = l.key
      BY <1>2, <2>1
    <3>. HIDE DEF o
    <3>. QED  BY <2>1, <3>1, <3>2 DEF PacketStates
  <2>3. Receive(q)
    BY <1>4 DEF OpenLate, kind
  <2>4. Known(q, peers)
    BY <2>1, <2>2, NobodyAssumption DEF Known
  <2>. HIDE DEF q
  <2>. QED  BY <2>1, <2>2, <2>3, <2>4, NobodyAssumption, ReceiveKeeps
<1>. QED  BY <1>3, <1>4

LEMMA HandshakeKeeps ==
  ASSUME IInv, NEW k \in Keys, Handshake(k)
  PROVE  IInv'
<1>1. packet' \in PacketStates /\ packet'.pc = "handshake" /\ packet'.from = k
  BY NoPacketFields DEF Handshake, PacketStates
<1>2. TypeOK'
  BY <1>1 DEF IInv, TypeOK, PacketStates, Handshake, hub
<1>3. PacketOK(packet', peers', seen')
  BY <1>1 DEF PacketOK, Relaying, Known, Handshake, hub
<1>. QED  BY <1>2, <1>3 DEF IInv, Handshake, hub

LEMMA InstallKeeps ==
  ASSUME IInv, Install
  PROVE  IInv'
<1>1. /\ packet \in PacketStates /\ Known(packet, peers) /\ packet' = NoPacket
      /\ UNCHANGED <<clients, agents, peers, tables, timer, seen, skipped>>
  BY DEF IInv, TypeOK, PacketStates, PacketOK, Install
<1>2. up' \subseteq {k \in Keys : peers[k] # Nobody}
  BY <1>1 DEF IInv, TypeOK, Install, Known
<1>3. late' \subseteq [key : Keys, cfg : Configs, authed : BOOLEAN]
  <2>1. packet.cfg # Nobody => packet.cfg \in Configs
    BY <1>1 DEF PacketStates
  <2>. QED  BY <1>1, <2>1 DEF IInv, TypeOK, Install, Known
<1>4. TypeOK'
  BY <1>1, <1>2, <1>3, NoPacketFields DEF IInv, TypeOK, PacketStates
<1>5. PacketOK(packet', peers', seen')
  BY <1>1, NoPacketFields DEF PacketOK, Relaying
<1>. QED  BY <1>1, <1>4, <1>5 DEF IInv

(* A source that passes the check was the sender's own at some moment.       *)
LEMMA CheckedSourceSeen ==
  ASSUME IInv, Relaying(packet), OwnsSource(Sender(peers, packet), packet.src)
  PROVE  seen.own
<1>1. PacketOK(packet, peers, seen)
  BY DEF IInv
<1>2. CASE packet.cfg = Nobody
  <2>1. Permits(peers, packet).own
    BY <1>2, PermitsFields
  <2>. QED  BY <1>1, <2>1 DEF PacketOK, Covers
<1>3. CASE packet.cfg # Nobody
  BY <1>1, <1>3 DEF PacketOK, Sender
<1>. QED  BY <1>2, <1>3

LEMMA CheckKeeps ==
  ASSUME IInv, CheckSource
  PROVE  IInv'
<1>. DEFINE reply == [packet EXCEPT !.pc = "reply"]
            onward == [packet EXCEPT !.pc = "lookup"]
<1>1. packet.pc = "check" /\ packet \in PacketStates /\ Relaying(packet)
  BY DEF CheckSource, IInv, TypeOK, PacketStates, Relaying
<1>2. \/ Discard
      \/ OwnsSource(Sender(peers, packet), packet.src) /\ (GoOn(reply) \/ GoOn(onward))
  BY DEF CheckSource
<1>3. /\ reply \in PacketStates /\ reply.pc = "reply" /\ Relaying(reply)
      /\ reply.from = packet.from /\ reply.src = packet.src /\ reply.dst = packet.dst
      /\ reply.cfg = packet.cfg /\ reply.late = packet.late
  BY <1>1 DEF PacketStates, Relaying
<1>4. /\ onward \in PacketStates /\ onward.pc = "lookup" /\ Relaying(onward)
      /\ onward.from = packet.from /\ onward.src = packet.src /\ onward.dst = packet.dst
      /\ onward.cfg = packet.cfg /\ onward.late = packet.late
  BY <1>1 DEF PacketStates, Relaying
<1>. HIDE DEF reply, onward
<1>5. CASE Discard
  BY <1>5, PacketEnds DEF Discard
<1>6. CASE OwnsSource(Sender(peers, packet), packet.src) /\ (GoOn(reply) \/ GoOn(onward))
  <2>1. seen.own
    BY <1>1, <1>6, CheckedSourceSeen
  <2>2. CASE GoOn(reply)
    BY <1>1, <1>3, <2>1, <2>2, GoOnKeeps
  <2>3. CASE GoOn(onward)
    BY <1>1, <1>4, <2>1, <2>3, GoOnKeeps
  <2>. QED  BY <1>6, <2>2, <2>3
<1>. QED  BY <1>2, <1>5, <1>6

LEMMA LookupKeeps ==
  ASSUME IInv, Lookup
  PROVE  IInv'
<1>. DEFINE me == Sender(peers, packet)
<1>1. /\ packet.pc = "lookup" /\ packet \in PacketStates /\ Relaying(packet) /\ seen.own
      /\ peers \in Peers /\ tables = Rebuild(peers) /\ packet.dst \in Addrs
      /\ Known(packet, peers)
  BY DEF Lookup, IInv, TypeOK, PacketStates, PacketOK, Peers, Relaying
<1>2. me \in Configs
  BY <1>1, SenderKnown
<1>. HIDE DEF me
<1>3. CASE Discard
  BY <1>3, PacketEnds DEF Discard
<1>4. ASSUME NEW k \in Target(me), GoOn([packet EXCEPT !.pc = "send", !.to = k])
      PROVE  IInv'
  <2>. DEFINE q == [packet EXCEPT !.pc = "send", !.to = k]
  <2>1. /\ k \in Keys /\ peers[k] # Nobody /\ peers[k].enabled /\ OwnsSource(peers[k], packet.dst)
        /\ \/ me.role = "client" /\ HasRole(peers, k, "agent") /\ ClientAllowed(me, peers[k])
           \/ me.role = "agent" /\ HasRole(peers, k, "client") /\ ClientAllowed(peers[k], me)
    <3>1. CASE me.role = "client"
      <4>1. /\ k \in RouteLookup(Rebuild(peers), packet.dst) /\ ClientAllowed(me, peers[k])
            /\ peers[k].enabled
        BY <1>1, <1>4, <3>1 DEF Target
      <4>2. k \in Keys /\ HasRole(peers, k, "agent") /\ AllowsSource(peers[k], packet.dst)
        BY <1>1, <4>1, RoutedServes
      <4>3. OwnsSource(peers[k], packet.dst)
        BY <4>2, AgentOwns DEF HasRole
      <4>. QED  BY <3>1, <4>1, <4>2, <4>3 DEF HasRole
    <3>2. CASE me.role # "client"
      <4>1. /\ k \in Rebuild(peers).clients[packet.dst] /\ ClientAllowed(peers[k], me)
            /\ peers[k].enabled
        BY <1>1, <1>4, <3>2 DEF Target
      <4>2. k \in Keys /\ HasRole(peers, k, "client") /\ OwnsSource(peers[k], packet.dst)
        BY <1>1, <4>1, ClientServes
      <4>3. me.role = "agent"
        BY <1>2, <3>2 DEF Configs
      <4>. QED  BY <4>1, <4>2, <4>3 DEF HasRole
    <3>. QED  BY <3>1, <3>2
  <2>2. /\ q \in PacketStates /\ q.pc = "send" /\ Relaying(q) /\ q.to = k /\ q.from = packet.from
        /\ q.src = packet.src /\ q.dst = packet.dst /\ q.cfg = packet.cfg
        /\ q.late = packet.late
    BY <1>1, <2>1 DEF PacketStates, Relaying
  <2>3. GoOn(q)
    BY <1>4
  <2>. HIDE DEF q
  <2>4. Sender(peers, q) = me
    BY <2>2 DEF Sender, me
  <2>5. k \in Permits(peers, q).reach /\ k \in Permits(peers, q).serves
    BY <2>1, <2>2, <2>4, PermitsFields
  <2>. QED  BY <1>1, <2>1, <2>2, <2>3, <2>5, GoOnKeeps
<1>5. Discard \/ \E k \in Target(me) : GoOn([packet EXCEPT !.pc = "send", !.to = k])
  BY DEF Lookup, me
<1>. QED  BY <1>3, <1>4, <1>5

LEMMA SealKeeps ==
  ASSUME IInv, Seal \/ Reply \/ Write
  PROVE  IInv'
BY PacketEnds DEF Seal, Reply, Write, SealAndWrite, Discard

LEMMA StepKeeps == IInv /\ [Next]_vars => IInv'
<1>1. ASSUME IInv, UNCHANGED vars PROVE IInv'
  BY <1>1, PacketWaits DEF vars, hub, TypeOK, IInv
<1>2. ASSUME IInv, WriteClients PROVE IInv'
  <2>1. TypeOK'
    BY <1>2 DEF IInv, TypeOK, WriteClients, hub
  <2>. QED  BY <1>2, <2>1, PacketWaits DEF WriteClients, hub
<1>3. ASSUME IInv, WriteAgents PROVE IInv'
  <2>1. TypeOK'
    BY <1>3 DEF IInv, TypeOK, WriteAgents, hub
  <2>. QED  BY <1>3, <2>1, PacketWaits DEF WriteAgents, hub
<1>4. ASSUME IInv, ReloadClients PROVE IInv'
  <2>1. /\ clients' \in [content : ClientFiles, fresh : BOOLEAN]
        /\ agents' \in [content : AgentFiles, fresh : BOOLEAN]
        /\ timer' \in {"clients", "agents"} /\ peers \in Peers /\ clients.content \in ClientFiles
    BY <1>4 DEF IInv, TypeOK, ReloadClients, Peers
  <2>2. CASE clients.fresh /\ clients.content # Broken
    <3>1. Apply(ApplyClients(peers, clients.content))
      BY <1>4, <2>2 DEF ReloadClients
    <3>2. ApplyClients(peers, clients.content) \in Peers
      BY <2>1, <2>2, ClientsApplied
    <3>3. skipped' \in [clients : SUBSET Keys, agents : SUBSET Keys]
      <4>1. skipped' = [skipped EXCEPT !.clients = {k \in DOMAIN clients.content : HasRole(peers, k, "agent")}]
        BY <1>4, <2>2 DEF ReloadClients
      <4>2. DOMAIN clients.content \subseteq Keys
        BY <2>1, <2>2, FileAssumption
      <4>. QED  BY <1>4, <4>1, <4>2 DEF IInv, TypeOK
    <3>. QED  BY <1>4, <2>1, <3>1, <3>2, <3>3, ApplyKeeps
  <2>3. CASE ~(clients.fresh /\ clients.content # Broken)
    <3>1. UNCHANGED <<peers, tables, up, late, packet, seen, skipped>>
      BY <1>4, <2>3 DEF ReloadClients, hub
    <3>2. TypeOK'
      BY <1>4, <2>1, <3>1 DEF IInv, TypeOK
    <3>. QED  BY <1>4, <3>1, <3>2, PacketWaits
  <2>. QED  BY <2>2, <2>3
<1>5. ASSUME IInv, ReloadAgents PROVE IInv'
  <2>1. /\ clients' \in [content : ClientFiles, fresh : BOOLEAN]
        /\ agents' \in [content : AgentFiles, fresh : BOOLEAN]
        /\ timer' \in {"clients", "agents"} /\ peers \in Peers /\ agents.content \in AgentFiles
    BY <1>5 DEF IInv, TypeOK, ReloadAgents, Peers
  <2>2. CASE agents.fresh /\ agents.content # Broken
    <3>1. Apply(ApplyAgents(peers, agents.content))
      BY <1>5, <2>2 DEF ReloadAgents
    <3>2. ApplyAgents(peers, agents.content) \in Peers
      BY <2>1, <2>2, AgentsApplied
    <3>3. skipped' \in [clients : SUBSET Keys, agents : SUBSET Keys]
      <4>1. skipped' = [skipped EXCEPT !.agents = {k \in DOMAIN agents.content : HasRole(peers, k, "client")}]
        BY <1>5, <2>2 DEF ReloadAgents
      <4>2. DOMAIN agents.content \subseteq Keys
        BY <2>1, <2>2, FileAssumption
      <4>. QED  BY <1>5, <4>1, <4>2 DEF IInv, TypeOK
    <3>. QED  BY <1>5, <2>1, <3>1, <3>2, <3>3, ApplyKeeps
  <2>3. CASE ~(agents.fresh /\ agents.content # Broken)
    <3>1. UNCHANGED <<peers, tables, up, late, packet, seen, skipped>>
      BY <1>5, <2>3 DEF ReloadAgents, hub
    <3>2. TypeOK'
      BY <1>5, <2>1, <3>1 DEF IInv, TypeOK
    <3>. QED  BY <1>5, <3>1, <3>2, PacketWaits
  <2>. QED  BY <2>2, <2>3
<1>6. ASSUME IInv, (\E k \in Keys : SessionDown(k)) \/ (\E l \in late : LateDown(l)) PROVE IInv'
  <2>1. TypeOK'
    BY <1>6 DEF IInv, TypeOK, SessionDown, LateDown
  <2>. QED  BY <1>6, <2>1, PacketWaits DEF SessionDown, LateDown
<1>. QED  BY <1>1, <1>2, <1>3, <1>4, <1>5, <1>6, HandshakeKeeps, InstallKeeps, OpenKeeps,
             CheckKeeps, LookupKeeps, SealKeeps DEF Next

LEMMA AlwaysIInv == Spec => []IInv
BY Established, StepKeeps, PTL DEF Spec

-------------------------------------------------------------------------------
(* ------------------------------ theorems ------------------------------ *)

(* Sessions are of registered peers or, under the configuration they left      *)
(* with, of peers a handshake found before they were dropped (dropPeerLocked *)
(* ends all others), and a packet under way has the shape the reader gives   *)
(* it, however the registry changes.                                         *)
THEOREM TypeCorrect == Spec => []TypeOK
<1>1. IInv => TypeOK
  BY DEF IInv
<1>. QED  BY <1>1, AlwaysIInv, PTL

(* relay.go:12, anti-spoofing and least privilege: what is sealed was          *)
(* permitted, in each respect, at some moment since the packet was opened;   *)
(* also a packet of a peer that has left the registry, by the entry it left  *)
(* with.                                                                     *)
THEOREM OnlyPermitted == Spec => OnlyPermittedPackets
<1>. DEFINE Permitted == Sealed => /\ packet.late = "no" => seen.listed
                                   /\ seen.own
                                   /\ packet.pc = "send" => packet.to \in seen.reach \cap seen.serves
<1>1. IInv => Permitted
  BY DEF IInv, PacketOK, Relaying, Sealed
<1>. HIDE DEF Permitted
<1>2. IInv /\ [Next]_vars => [Permitted]_vars
  BY <1>1
<1>3. [][Permitted]_vars => OnlyPermittedPackets
  BY DEF OnlyPermittedPackets, Permitted
<1>. QED  BY <1>2, <1>3, AlwaysIInv, PTL DEF Spec

-------------------------------------------------------------------------------
(* ------------------------------ the registry -------------------------- *)

LEMMA RolesDiffer ==
  ASSUME NEW p \in Peers, NEW k \in Keys
  PROVE  /\ ~(HasRole(p, k, "agent") /\ HasRole(p, k, "client"))
         /\ p[k] = Nobody \/ HasRole(p, k, "agent") \/ HasRole(p, k, "client")
BY DEF HasRole, Peers, Configs

LEMMA RegistryEstablished == Init => RInv
BY DEF Init, RInv, ClientsOfOneFile, AgentsOfOneFile, RegistryApplied, HasRole

(* While the peers and the files the timer has looked at stay as they are.     *)
LEMMA RegistryWaits ==
  ASSUME RInv, UNCHANGED <<peers, skipped>>,
         clients'.fresh \/ clients' = clients, agents'.fresh \/ agents' = agents
  PROVE  RInv'
BY DEF RInv, ClientsOfOneFile, AgentsOfOneFile, RegistryApplied, Matches

LEMMA ClientsReloaded ==
  ASSUME IInv, RInv, ReloadClients
  PROVE  RInv'
<1>. DEFINE f == clients.content
<1>1. /\ clients \in [content : ClientFiles, fresh : BOOLEAN] /\ peers \in Peers
      /\ clients'.content = f /\ clients'.fresh = FALSE /\ agents' = agents
      /\ skipped \in [clients : SUBSET Keys, agents : SUBSET Keys]
  BY DEF IInv, TypeOK, Peers, ReloadClients
<1>2. CASE ~clients.fresh /\ f # Broken
  <2>1. peers' = peers /\ clients' = clients /\ skipped' = skipped
    <3>1. clients' = [clients EXCEPT !.fresh = FALSE]
      BY DEF ReloadClients
    <3>. QED  BY <1>1, <1>2, <3>1 DEF ReloadClients, hub
  <2>. QED  BY <1>1, <2>1, RegistryWaits
<1>3. CASE f = Broken
  <2>1. peers' = peers /\ skipped' = skipped
    BY <1>3 DEF ReloadClients, hub
  <2>. QED  BY <1>1, <1>3, <2>1
            DEF RInv, ClientsOfOneFile, AgentsOfOneFile, RegistryApplied, Matches
<1>4. CASE clients.fresh /\ f # Broken
  <2>1. peers' = ApplyClients(peers, f) /\ f \in ClientFiles \ {Broken}
        /\ skipped' = [skipped EXCEPT !.clients = {k \in DOMAIN f : HasRole(peers, k, "agent")}]
    BY <1>1, <1>4 DEF ReloadClients, Apply
  <2>2. ASSUME NEW k \in Keys
        PROVE  /\ HasRole(peers, k, "agent") => peers'[k] = peers[k]
               /\ ~HasRole(peers, k, "agent") =>
                    peers'[k] = IF k \in DOMAIN f THEN ParseClient(f[k]) ELSE Nobody
    BY <2>1 DEF ApplyClients
  <2>. HIDE DEF f
  <2>3. ASSUME NEW k \in Keys, HasRole(peers', k, "client")
        PROVE  k \in DOMAIN f /\ peers'[k] = ParseClient(f[k])
    BY <1>1, <2>2, <2>3, RolesDiffer DEF HasRole
  <2>4. ASSUME NEW k \in Keys
        PROVE  HasRole(peers', k, "agent") <=> HasRole(peers, k, "agent")
    <3>1. k \in DOMAIN f => ParseClient(f[k]).role = "client"
      BY <2>1, ParsedConfigs
    <3>. QED  BY <2>2, <3>1 DEF HasRole
  <2>5. ClientsOfOneFile'
    BY <2>1, <2>3 DEF ClientsOfOneFile
  <2>6. AgentsOfOneFile'
    BY <2>2, <2>4 DEF RInv, AgentsOfOneFile
  <2>7. ASSUME NEW k \in Keys
        PROVE  /\ HasRole(peers', k, "client") => k \in DOMAIN f /\ peers'[k] = ParseClient(f[k])
               /\ k \in DOMAIN f \ skipped'.clients => HasRole(peers', k, "client")
    <3>1. ASSUME k \in DOMAIN f, k \notin skipped'.clients PROVE HasRole(peers', k, "client")
      <4>1. skipped'.clients = {x \in DOMAIN f : HasRole(peers, x, "agent")}
        BY <1>1, <2>1
      <4>2. peers'[k] = ParseClient(f[k])
        BY <2>2, <3>1, <4>1
      <4>. QED  BY <2>1, <3>1, <4>2, ParsedConfigs, NobodyAssumption DEF HasRole
    <3>. QED  BY <2>3, <3>1
  <2>8. ASSUME ~agents.fresh, agents.content # Broken, NEW k \in Keys
        PROVE  /\ HasRole(peers', k, "agent") =>
                    k \in DOMAIN agents.content /\ peers'[k] = ParseAgent(agents.content[k])
               /\ k \in DOMAIN agents.content \ skipped'.agents => HasRole(peers', k, "agent")
    <3>1. /\ HasRole(peers, k, "agent") =>
               k \in DOMAIN agents.content /\ peers[k] = ParseAgent(agents.content[k])
          /\ k \in DOMAIN agents.content \ skipped.agents => HasRole(peers, k, "agent")
      BY <2>8 DEF RInv, RegistryApplied, Matches
    <3>2. skipped'.agents = skipped.agents
      BY <1>1, <2>1
    <3>. QED  BY <2>2, <2>4, <3>1, <3>2
  <2>9. RegistryApplied'
    BY <1>1, <2>7, <2>8 DEF RegistryApplied, Matches, f
  <2>. QED  BY <2>5, <2>6, <2>9 DEF RInv
<1>. QED  BY <1>1, <1>2, <1>3, <1>4

LEMMA AgentsReloaded ==
  ASSUME SameIds, IInv, RInv, ReloadAgents
  PROVE  RInv'
<1>. DEFINE f == agents.content
<1>1. /\ agents \in [content : AgentFiles, fresh : BOOLEAN] /\ peers \in Peers
      /\ agents'.content = f /\ agents'.fresh = FALSE /\ clients' = clients
      /\ skipped \in [clients : SUBSET Keys, agents : SUBSET Keys]
  BY DEF IInv, TypeOK, Peers, ReloadAgents
<1>2. CASE ~agents.fresh /\ f # Broken
  <2>1. peers' = peers /\ agents' = agents /\ skipped' = skipped
    <3>1. agents' = [agents EXCEPT !.fresh = FALSE]
      BY DEF ReloadAgents
    <3>. QED  BY <1>1, <1>2, <3>1 DEF ReloadAgents, hub
  <2>. QED  BY <1>1, <2>1, RegistryWaits
<1>3. CASE f = Broken
  <2>1. peers' = peers /\ skipped' = skipped
    BY <1>3 DEF ReloadAgents, hub
  <2>. QED  BY <1>1, <1>3, <2>1
            DEF RInv, ClientsOfOneFile, AgentsOfOneFile, RegistryApplied, Matches
<1>4. CASE agents.fresh /\ f # Broken
  <2>1. peers' = ApplyAgents(peers, f) /\ f \in AgentFiles \ {Broken}
        /\ skipped' = [skipped EXCEPT !.agents = {k \in DOMAIN f : HasRole(peers, k, "client")}]
    BY <1>1, <1>4 DEF ReloadAgents, Apply
  <2>. HIDE DEF f
  <2>2. ASSUME NEW k \in Keys, HasRole(peers, k, "agent"), k \in DOMAIN f
        PROVE  [ParseAgent(f[k]) EXCEPT !.id = peers[k].id] = ParseAgent(f[k])
    <3>1. PICK g \in AgentFiles \ {Broken} : k \in DOMAIN g /\ peers[k] = ParseAgent(g[k])
      BY <2>2 DEF RInv, AgentsOfOneFile
    <3>2. peers[k].id = ParseAgent(f[k]).id
      BY <2>1, <2>2, <3>1, ParsedConfigs DEF SameIds
    <3>3. ParseAgent(f[k]) \in Configs
      BY <2>1, <2>2, ParsedConfigs
    <3>. QED  BY <3>2, <3>3 DEF Configs
  <2>3. ASSUME NEW k \in Keys
        PROVE  /\ HasRole(peers, k, "client") => peers'[k] = peers[k]
               /\ ~HasRole(peers, k, "client") =>
                    peers'[k] = IF k \in DOMAIN f THEN ParseAgent(f[k]) ELSE Nobody
    <3>1. peers[k] = Nobody \/ HasRole(peers, k, "agent") \/ HasRole(peers, k, "client")
      BY <1>1, RolesDiffer
    <3>. QED  BY <2>1, <2>2, <3>1 DEF ApplyAgents
  <2>4. ASSUME NEW k \in Keys, HasRole(peers', k, "agent")
        PROVE  k \in DOMAIN f /\ peers'[k] = ParseAgent(f[k])
    BY <1>1, <2>3, <2>4, RolesDiffer DEF HasRole
  <2>5. ASSUME NEW k \in Keys
        PROVE  HasRole(peers', k, "client") <=> HasRole(peers, k, "client")
    <3>1. k \in DOMAIN f => ParseAgent(f[k]).role = "agent"
      BY <2>1, ParsedConfigs
    <3>. QED  BY <2>3, <3>1 DEF HasRole
  <2>6. AgentsOfOneFile'
    BY <2>1, <2>4 DEF AgentsOfOneFile
  <2>7. ClientsOfOneFile'
    BY <2>3, <2>5 DEF RInv, ClientsOfOneFile
  <2>8. ASSUME NEW k \in Keys
        PROVE  /\ HasRole(peers', k, "agent") => k \in DOMAIN f /\ peers'[k] = ParseAgent(f[k])
               /\ k \in DOMAIN f \ skipped'.agents => HasRole(peers', k, "agent")
    <3>1. ASSUME k \in DOMAIN f, k \notin skipped'.agents PROVE HasRole(peers', k, "agent")
      <4>1. skipped'.agents = {x \in DOMAIN f : HasRole(peers, x, "client")}
        BY <1>1, <2>1
      <4>2. peers'[k] = ParseAgent(f[k])
        BY <2>3, <3>1, <4>1
      <4>. QED  BY <2>1, <3>1, <4>2, ParsedConfigs, NobodyAssumption DEF HasRole
    <3>. QED  BY <2>4, <3>1
  <2>9. ASSUME ~clients.fresh, clients.content # Broken, NEW k \in Keys
        PROVE  /\ HasRole(peers', k, "client") =>
                    k \in DOMAIN clients.content /\ peers'[k] = ParseClient(clients.content[k])
               /\ k \in DOMAIN clients.content \ skipped'.clients => HasRole(peers', k, "client")
    <3>1. /\ HasRole(peers, k, "client") =>
               k \in DOMAIN clients.content /\ peers[k] = ParseClient(clients.content[k])
          /\ k \in DOMAIN clients.content \ skipped.clients => HasRole(peers, k, "client")
      BY <2>9 DEF RInv, RegistryApplied, Matches
    <3>2. skipped'.clients = skipped.clients
      BY <1>1, <2>1
    <3>. QED  BY <2>3, <2>5, <3>1, <3>2
  <2>10. RegistryApplied'
    BY <1>1, <2>8, <2>9 DEF RegistryApplied, Matches, f
  <2>. QED  BY <2>6, <2>7, <2>10 DEF RInv
<1>. QED  BY <1>1, <1>2, <1>3, <1>4

LEMMA RegistryStep ==
  ASSUME SameIds
  PROVE  IInv /\ RInv /\ [Next]_vars => RInv'
<1>1. ASSUME IInv, RInv, UNCHANGED <<clients, agents, peers, skipped>> PROVE RInv'
  BY <1>1, RegistryWaits
<1>2. ASSUME RInv, WriteClients \/ WriteAgents PROVE RInv'
  BY <1>2, RegistryWaits DEF WriteClients, WriteAgents, hub
<1>3. ASSUME IInv, RInv, ReloadClients \/ ReloadAgents PROVE RInv'
  BY <1>3, ClientsReloaded, AgentsReloaded
<1>4. UNCHANGED vars => UNCHANGED <<clients, agents, peers, skipped>>
  BY DEF vars, hub
<1>5. Next => \/ WriteClients \/ WriteAgents \/ ReloadClients \/ ReloadAgents
              \/ UNCHANGED <<clients, agents, peers, skipped>>
  BY DEF Next, Handshake, Install, SessionDown, LateDown, Open, OpenLate, Receive, CheckSource,
         Lookup, Seal, Reply, Write, GoOn, SealAndWrite, Discard, hub
<1>. QED  BY <1>1, <1>2, <1>3, <1>4, <1>5

(* PROTOCOL.md:93: once the timer has looked at a file since it was written,    *)
(* the peers of its role are among those it lists, as it describes them, and *)
(* every key it lists is one of them unless it was the other role's at that  *)
(* moment: for any sequence of files, a key that is in both or moves between *)
(* them included; provided that no key is given another id, which            *)
(* applyAgentRegistryLocked would not notice.                                *)
THEOREM FilesTakeEffect ==
  ASSUME SameIds
  PROVE  Spec => []RegistryApplied
<1>1. RInv => RegistryApplied
  BY DEF RInv
<1>. QED  BY <1>1, AlwaysIInv, RegistryEstablished, RegistryStep, PTL DEF Spec

(* ------------------------------ the way back -------------------------- *)

(* Files as the control plane means them: an id, and an address, is one key's, *)
(* and of two prefixes one contains the other or they have nothing in common. *)
SoundFiles ==
  /\ SameIds
  /\ \A f \in ClientFiles \ {Broken} : \A k, l \in DOMAIN f :
       f[k].ip = f[l].ip /\ f[k].ip # NoAddr => k = l
  /\ \A f \in AgentFiles \ {Broken} : \A k, l \in DOMAIN f :
       /\ f[k].ip = f[l].ip /\ f[k].ip # NoAddr => k = l
       /\ f[k].id = f[l].id => k = l
       /\ \A v \in f[k].routes, w \in f[l].routes :
            IsFiniteSet(v) /\ (v \subseteq w \/ w \subseteq v \/ v \cap w = {})

LEMMA ClientsByAddress ==
  ASSUME SoundFiles, IInv, RInv, NEW c \in Keys, HasRole(peers, c, "client"), peers[c].ip \in Addrs
  PROVE  tables.clients[peers[c].ip] = {c}
<1>1. tables.clients[peers[c].ip] = {k \in Keys : HasRole(peers, k, "client") /\ peers[k].ip = peers[c].ip}
  BY DEF IInv, Rebuild
<1>2. ASSUME NEW k \in Keys, HasRole(peers, k, "client"), peers[k].ip = peers[c].ip PROVE k = c
  <2>1. PICK f \in ClientFiles \ {Broken} :
          /\ k \in DOMAIN f /\ c \in DOMAIN f
          /\ peers[k] = ParseClient(f[k]) /\ peers[c] = ParseClient(f[c])
    BY <1>2 DEF RInv, ClientsOfOneFile
  <2>2. f[k].ip = f[c].ip /\ f[k].ip # NoAddr
    BY <1>2, <2>1, ParsedConfigs, AddrAssumption
  <2>. QED  BY <2>1, <2>2 DEF SoundFiles
<1>. QED  BY <1>1, <1>2

LEMMA OneAgent ==
  ASSUME SoundFiles, IInv, RInv, NEW dst \in Addrs,
         NEW a \in RouteLookup(tables, dst), NEW b \in RouteLookup(tables, dst)
  PROVE  a = b
<1>1. /\ a \in Keys /\ HasRole(peers, a, "agent") /\ b \in Keys /\ HasRole(peers, b, "agent")
      /\ tables = Rebuild(peers)
  BY RoutedServes DEF IInv, TypeOK, Peers
<1>2. PICK f \in AgentFiles \ {Broken} :
        /\ a \in DOMAIN f /\ b \in DOMAIN f
        /\ peers[a] = ParseAgent(f[a]) /\ peers[b] = ParseAgent(f[b])
  BY <1>1 DEF RInv, AgentsOfOneFile
<1>3. /\ peers[a].ip = f[a].ip /\ peers[a].id = f[a].id /\ peers[a].routes = f[a].routes
      /\ peers[b].ip = f[b].ip /\ peers[b].id = f[b].id /\ peers[b].routes = f[b].routes
      /\ f[a].id \in Nat /\ f[b].id \in Nat
  BY <1>2, ParsedConfigs
<1>4. CASE tables.agents[dst] # {}
  <2>1. tables.agents[dst] = {k \in Keys : HasRole(peers, k, "agent") /\ peers[k].ip = dst}
    BY <1>1 DEF Rebuild
  <2>2. f[a].ip = dst /\ f[b].ip = dst
    BY <1>3, <1>4, <2>1 DEF RouteLookup
  <2>. QED  BY <1>2, <2>2, AddrAssumption DEF SoundFiles
<1>5. CASE tables.agents[dst] = {}
  <2>. DEFINE hits == {r \in tables.routes : dst \in r.prefix}
  <2>1. PICK r \in hits : r.key = a /\ \A y \in hits : Cardinality(r.prefix) <= Cardinality(y.prefix)
    BY <1>5 DEF RouteLookup
  <2>2. PICK s \in hits : s.key = b /\ \A y \in hits : Cardinality(s.prefix) <= Cardinality(y.prefix)
    BY <1>5 DEF RouteLookup
  <2>3. ASSUME NEW x \in tables.routes
        PROVE  /\ x.prefix \in peers[x.key].routes
               /\ \A c \in Claims(peers, x.prefix) : peers[x.key].id <= peers[c].id
    BY <1>1 DEF Rebuild
  <2>4. dst \in r.prefix /\ dst \in s.prefix /\ r.prefix \in f[a].routes /\ s.prefix \in f[b].routes
    BY <1>3, <2>1, <2>2, <2>3
  <2>5. /\ IsFiniteSet(r.prefix) /\ IsFiniteSet(s.prefix)
        /\ r.prefix \subseteq s.prefix \/ s.prefix \subseteq r.prefix
    BY <1>2, <2>4 DEF SoundFiles
  <2>6. Cardinality(r.prefix) = Cardinality(s.prefix)
    <3>1. Cardinality(r.prefix) \in Nat /\ Cardinality(s.prefix) \in Nat
      BY <2>5, FS_CardinalityType
    <3>2. Cardinality(r.prefix) <= Cardinality(s.prefix) /\ Cardinality(s.prefix) <= Cardinality(r.prefix)
      BY <2>1, <2>2
    <3>. QED  BY <3>1, <3>2
  <2>7. r.prefix = s.prefix
    BY <2>5, <2>6, FS_Subset
  <2>8. a \in Claims(peers, r.prefix) /\ b \in Claims(peers, r.prefix)
    BY <1>1, <1>3, <2>4, <2>7 DEF Claims
  <2>9. f[a].id <= f[b].id /\ f[b].id <= f[a].id
    BY <1>3, <2>1, <2>2, <2>3, <2>7, <2>8
  <2>10. f[a].id = f[b].id
    BY <1>3, <2>9
  <2>. QED  BY <1>2, <2>10 DEF SoundFiles
<1>. QED  BY <1>4, <1>5

(* A site's answer may take the way back of every packet a client may send     *)
(* (relay.go: relayFromClient, relayFromAgent and the tables between them):  *)
(* provided that the files are sound, which neither parser checks.           *)
THEOREM AnswersReturn ==
  ASSUME SoundFiles
  PROVE  Spec => []RoundTrip
<1>1. SameIds
  BY DEF SoundFiles
<1>2. ASSUME IInv, RInv PROVE RoundTrip
  <2>. SUFFICES ASSUME NEW c \in Keys, NEW dst \in Addrs \ {Hub}, HasRole(peers, c, "client"),
                       peers[c].ip \in Addrs, NEW a \in RouteLookup(tables, dst)
                PROVE  /\ AllowsSource(peers[a], dst)
                       /\ tables.clients[peers[c].ip] = {c}
                       /\ RouteLookup(tables, dst) = {a}
    BY DEF RoundTrip
  <2>1. AllowsSource(peers[a], dst)
    BY <1>2, RoutedServes DEF IInv, TypeOK, Peers
  <2>2. tables.clients[peers[c].ip] = {c}
    BY <1>2, ClientsByAddress
  <2>3. RouteLookup(tables, dst) = {a}
    BY <1>2, OneAgent
  <2>. QED  BY <2>1, <2>2, <2>3
<1>3. IInv /\ RInv /\ [Next]_vars => RInv'
  BY <1>1, RegistryStep
<1>. QED  BY <1>2, <1>3, AlwaysIInv, RegistryEstablished, PTL DEF Spec
===============================================================================
