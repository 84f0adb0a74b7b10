------------------------------ MODULE Addressing ------------------------------
(***************************************************************************)
(* Which networks the sites of a hub publish, and what becomes of a packet *)
(* a client sends to one of them.                                          *)
(*                                                                         *)
(* Several sites may have the same network behind them.  The control plane *)
(* then gives a later one a virtual prefix, and the site's agent           *)
(* translates.  Requests run concurrently: one reads what the others       *)
(* publish, decides, and stores its routes in a statement of its own.  A   *)
(* site imported when the control plane starts is stored as its file says. *)
(*                                                                         *)
(* A definition that no action uses is a plausible mistake in the one that *)
(* follows it; it shows that the properties notice it.                     *)
(***************************************************************************)
EXTENDS AddrMap, FiniteSets

CONSTANTS
  SiteIds,     (* names of sites: numbers, in the order of the names         *)
  Forms,       (* lists of routes typed into a form or reported by a machine  *)
  Presets,     (* lists of routes in files under data/preprovision          *)
  Tunnel,      (* the tunnel's own prefix                                    *)
  Pool,        (* the pool of virtual prefixes                               *)
  Narrowest,   (* bits of the narrowest (28) and ...                         *)
  Widest,      (* ... of the widest prefix that can be virtual (8)           *)
  Own,         (* each site's address in the tunnel                          *)
  Client       (* a client's address in the tunnel                           *)

ASSUME SiteAssumption == SiteIds \subseteq Nat /\ IsFiniteSet(SiteIds)
ASSUME PrefixAssumption == Tunnel \in Prefix /\ Pool \in Prefix /\ Masked(Pool) = Pool
ASSUME TunnelAssumption ==
  /\ Own \in [SiteIds -> Addr] /\ Client \in Addr \ {0}
  /\ \A a \in {Own[s] : s \in SiteIds} \cup {Client} : Covers(Tunnel, a)
ASSUME ListAssumption == Forms \cup Presets \subseteq Seq(Routes)

VARIABLES
  mode,        (* the route mode: "auto", "real" or "virtual"                  *)
  sites,       (* the rows: None or [routes, unseen]; unseen: history, sites   *)
               (* stored without regard to each other                        *)
  req,         (* each site's request: None or [pc, form, known, routes, ...]  *)
  packet       (* None, or a packet a client has sent and the answer to it     *)

vars == <<mode, sites, req, packet>>

Present == {s \in SiteIds : sites[s] # None}

EffectiveOf(routes) == {Effective(routes[i]) : i \in DOMAIN routes}

(* otherEffectivePrefixes.                                                  *)
Published(S) == UNION {EffectiveOf(sites[s].routes) : s \in S}

-------------------------------------------------------------------------------
(* ---------------------------- lists of routes ------------------------- *)

(* parseAgentRoutes: what a form may say, and what is kept of it.             *)
Accepted(form) ==
  \A i \in DOMAIN form : form[i].real.bits >= Widest /\ Translatable(form[i])

Parsed(form) ==
  [i \in DOMAIN form |->
     [real |-> Masked(form[i].real),
      virtual |-> IF form[i].virtual = None THEN None ELSE Masked(form[i].virtual)]]

(* ParseAgentRegistry: one pair of different lengths, and the hub reads nothing *)
(* of agents.json; nor does that site's agent start.                        *)
Readable ==
  \A s \in Present : \A i \in DOMAIN sites[s].routes : Translatable(sites[s].routes[i])

-------------------------------------------------------------------------------
(* ------------------------- assignment of routes ----------------------- *)

CandidatesNarrow(bits) ==
  {[base |-> Pool.base + k, bits |-> Narrowest] : k \in 0..(Size(Pool.bits) - 1)}

(* allocVirtualPrefix: blocks of the wanted length from the pool's start on;  *)
(* a block wider than the pool is tried once.                              *)
Candidates(bits) ==
  {Masked([base |-> Pool.base + k * Size(bits), bits |-> bits]) :
     k \in {0} \cup {j \in 0..Size(Pool.bits) : j * Size(bits) < Size(Pool.bits)}}

FreeBlocks(bits, used) == {p \in Candidates(bits) : ~OverlapsAny(p, used \cup {Tunnel})}

AllocVirtual(bits, used) ==
  CHOOSE p \in FreeBlocks(bits, used) : \A q \in FreeBlocks(bits, used) : p.base <= q.base

Refused == [ok |-> FALSE, routes |-> <<>>, used |-> {}]

TakeUnused(done, route) ==
  [done EXCEPT !.routes = Append(@, route)]

(* The next one of the site's own routes must not overlap this one either.    *)
Take(done, route) ==
  [done EXCEPT !.routes = Append(@, route), !.used = @ \cup {Effective(route)}]

(* assignRoutesPure, one route of the list.                                  *)
AssignOne(m, done, route) ==
  LET p        == route.real
      conflict == OverlapsAny(p, done.used \cup {Tunnel, Pool})
      virtual  == m = "virtual" \/ (m = "auto" /\ conflict)
      used     == done.used \cup {p}
  IN  IF ~done.ok THEN Refused
      ELSE IF route.virtual # None
      THEN IF OverlapsAny(route.virtual, done.used \cup {Tunnel}) THEN Refused ELSE Take(done, route)
      ELSE IF m = "real" /\ conflict THEN Refused
      ELSE IF ~virtual THEN Take(done, route)
      ELSE IF p.bits < Widest \/ p.bits > Narrowest \/ FreeBlocks(p.bits, used) = {} THEN Refused
      ELSE Take(done, [route EXCEPT !.virtual = AllocVirtual(p.bits, used)])

AssignRoutesPure(m, form, used) ==
  LET done[i \in 0..Len(form)] ==
        IF i = 0 THEN [ok |-> TRUE, routes |-> <<>>, used |-> used]
        ELSE AssignOne(m, done[i - 1], form[i])
  IN  done[Len(form)]

(* validateRouteSet, of the routes against what was read before them.         *)
ValidateRouteSet(routes, others) ==
  /\ \A p \in EffectiveOf(routes) : ~OverlapsAny(p, others \cup {Tunnel})
  /\ Cardinality(EffectiveOf(routes)) = Len(routes)

-------------------------------------------------------------------------------
(* ------------------------------- requests ----------------------------- *)

Request(kind, form, known) ==
  [kind |-> kind, pc |-> "assign", form |-> form, known |-> known, routes |-> <<>>,
   unseen |-> {}]

(* handleRouteMode.                                                         *)
SetMode ==
  /\ mode' \in {"auto", "real", "virtual"} \ {mode}
  /\ UNCHANGED <<sites, req, packet>>

(* handleAgentCreate, up to assignRoutes: the list is not empty, the name is   *)
(* new; the other sites are read for validateRouteSet.                     *)
BeginCreate(s) ==
  /\ sites[s] = None /\ req[s] = None
  /\ \E form \in Forms \ {<<>>} :
       /\ Accepted(form)
       /\ req' = [req EXCEPT ![s] = Request("create", Parsed(form), Published(Present))]
  /\ UNCHANGED <<mode, sites, packet>>

(* handleEnroll: the site has no networks yet, the machine says which.        *)
BeginEnroll(s) ==
  /\ sites[s] # None /\ sites[s].routes = <<>> /\ req[s] = None
  /\ \E form \in Forms \ {<<>>} :
       /\ Accepted(form)
       /\ req' = [req EXCEPT ![s] = Request("enroll", Parsed(form), {})]
  /\ UNCHANGED <<mode, sites, packet>>

(* assignRoutes: the mode and the other sites are read again.  A site that is *)
(* created is validated besides.                                           *)
AssignRoutes(s) ==
  /\ req[s] # None /\ req[s].pc = "assign"
  /\ LET got == AssignRoutesPure(mode, req[s].form, Published(Present \ {s}))
         ok  == got.ok /\ (req[s].kind = "create" => ValidateRouteSet(got.routes, req[s].known))
     IN req' = [req EXCEPT ![s] = IF ok THEN [@ EXCEPT !.pc = "store", !.routes = got.routes,
                                                     !.form = <<>>, !.known = {}]
                                  ELSE None]
  /\ UNCHANGED <<mode, sites, packet>>

(* addAgent, setAgentRoutes.  An UPDATE of a row that is gone does nothing.    *)
Store(s) ==
  /\ req[s] # None /\ req[s].pc = "store"
  /\ LET gone == req[s].kind = "enroll" /\ sites[s] = None
     IN /\ sites' = IF gone THEN sites
                    ELSE [sites EXCEPT ![s] = [routes |-> req[s].routes, unseen |-> req[s].unseen]]
        /\ req' = [t \in SiteIds |->
             IF t = s THEN None
             ELSE IF req[t] # None /\ req[t].pc = "store" /\ ~gone
             THEN [req[t] EXCEPT !.unseen = @ \cup {s}] ELSE req[t]]
  /\ UNCHANGED <<mode, packet>>

(* handleAgentRevoke.                                                       *)
Revoke(s) ==
  /\ sites[s] # None
  /\ sites' = [t \in SiteIds |-> IF t = s \/ sites[t] = None THEN None
                                 ELSE [sites[t] EXCEPT !.unseen = @ \ {s}]]
  /\ req' = [t \in SiteIds |-> IF req[t] = None THEN None
                               ELSE [req[t] EXCEPT !.unseen = @ \ {s}]]
  /\ UNCHANGED <<mode, packet>>

(* The control plane is started again: requests are gone, and a site whose     *)
(* file nobody has imported yet is stored as the file says, unparsed.        *)
Import(s) ==
  /\ sites[s] = None
  /\ \E preset \in Presets :
       sites' = [sites EXCEPT ![s] = [routes |-> preset, unseen |-> SiteIds]]
  /\ req' = [t \in SiteIds |-> None]
  /\ UNCHANGED <<mode, packet>>

-------------------------------------------------------------------------------
(* ------------------------------- packets ------------------------------ *)

Maps(s) == [i \in DOMAIN sites[s].routes |-> RouteMap(sites[s].routes[i])]

(* The hub's routes: the longest prefix wins, equal ones go to the first site. *)
Owner(a) ==
  LET Claims == {c \in Present \X Published(Present) :
                   c[2] \in EffectiveOf(sites[c[1]].routes) /\ Covers(c[2], a)}
      Best   == {c \in Claims : \A d \in Claims : d[2].bits <= c[2].bits}
  IN  IF Claims = {} THEN None
      ELSE (CHOOSE c \in Best : \A d \in Best : c[1] <= d[1])[1]

(* A checksum is what makes the sum come out; an empty field is zero.         *)
Checksummed(pkt) ==
  [pkt EXCEPT !.sum = IF pkt.kind # "summed" THEN 0
                      ELSE CHOOSE w \in Word : Folded[Sum([pkt EXCEPT !.sum = w])] = Ones]

Quiet == \A s \in SiteIds : req[s] = None

(* A client sends a packet to an address a site publishes, or to the site's   *)
(* own.  Whether anything is rewritten under way depends on nothing else.    *)
(* While agents.json cannot be read the hub goes by what it last read of it,  *)
(* and no packet is followed.                                              *)
Ask(s) ==
  /\ Quiet /\ Readable /\ packet = None /\ sites[s] # None
  /\ \E a \in {x \in Addr : \E p \in EffectiveOf(sites[s].routes) : Covers(p, x)} \cup {Own[s]},
        kind \in Kinds, data \in Word :
       /\ packet' = [at |-> "agent", site |-> IF a = Own[s] THEN s ELSE Owner(a),
                     asked |-> a, of |-> s,
                     pkt |-> Checksummed([src |-> Client, dst |-> a, kind |-> kind,
                                          data |-> data, sum |-> 0])]
       /\ packet'.site # None
  /\ UNCHANGED <<mode, sites, req>>

(* deliverData at the agent.                                                *)
Deliver ==
  /\ packet # None /\ packet.at = "agent" /\ sites[packet.site] # None
  /\ LET got == ToLocal(Maps(packet.site), Own[packet.site], packet.pkt)
     IN packet' = IF got = None THEN None
                  ELSE [packet EXCEPT !.at = "host", !.pkt = got]
  /\ UNCHANGED <<mode, sites, req>>

(* The host answers from the address it was asked at; sendFromTun.            *)
Answer ==
  /\ packet # None /\ packet.at = "host" /\ sites[packet.site] # None
  /\ LET answer == Checksummed([packet.pkt EXCEPT !.src = packet.pkt.dst, !.dst = Client])
         got    == ToTunnel(Maps(packet.site), Own[packet.site], answer)
     IN packet' = IF got = None THEN None
                  ELSE [packet EXCEPT !.at = "client", !.pkt = got]
  /\ UNCHANGED <<mode, sites, req>>

Forget ==
  /\ packet # None
  /\ packet' = None
  /\ UNCHANGED <<mode, sites, req>>

Init ==
  /\ mode = "auto"
  /\ sites = [s \in SiteIds |-> None] /\ req = [s \in SiteIds |-> None]
  /\ packet = None

Administer(s) ==
  /\ packet = None
  /\ BeginCreate(s) \/ BeginEnroll(s) \/ AssignRoutes(s) \/ Store(s) \/ Revoke(s) \/ Import(s)

Next ==
  \/ packet = None /\ SetMode
  \/ \E s \in SiteIds : Administer(s) \/ Ask(s)
  \/ Deliver \/ Answer \/ Forget

Spec == Init /\ [][Next]_vars

-------------------------------------------------------------------------------
(* ------------------------------ properties ---------------------------- *)

Packets == [src : Addr, dst : Addr, kind : Kinds, data : Word, sum : Word]

(* The state has the shape its declarations say, and whatever was typed or      *)
(* reported, what is stored of it can be translated without state and is       *)
(* masked: only a preset file can make agents.json unreadable (agents.go:     *)
(* parseAgentRoutes; routes.go: allocVirtualPrefix; preprovision.go;         *)
(* addrmap.go: ParseRouteMap).                                             *)
TypeOK ==
  /\ mode \in {"auto", "real", "virtual"}
  /\ \A s \in Present :
       /\ sites[s].unseen \subseteq SiteIds
       /\ \A i \in DOMAIN sites[s].routes :
            LET route == sites[s].routes[i]
            IN  /\ route \in Routes
                /\ s \notin sites[s].unseen =>
                     Translatable(route) /\ Masked(Effective(route)) = Effective(route)
  /\ \A s \in SiteIds : req[s] # None =>
       req[s].pc \in {"assign", "store"} /\ req[s].unseen \subseteq SiteIds
  /\ packet # None => packet.at \in {"agent", "host", "client"} /\ packet.pkt \in Packets

Clash(s, t) ==
  \E i \in DOMAIN sites[s].routes, j \in DOMAIN sites[t].routes :
     /\ <<s, i>> # <<t, j>>
     /\ Overlaps(Effective(sites[s].routes[i]), Effective(sites[t].routes[j]))

(* Every address the sites publish names one site, and none is the tunnel's   *)
(* own, except where requests overlapped or a site was imported as it was      *)
(* (routes.go: assignRoutes; agents.go: validateRouteSet).                  *)
OneSitePerAddress ==
  \A s \in Present :
    /\ \A t \in Present : Clash(s, t) => s \in sites[t].unseen \/ t \in sites[s].unseen
    /\ OverlapsAny(Tunnel, EffectiveOf(sites[s].routes)) => s \in sites[s].unseen

Sane(s) ==
  /\ s \notin sites[s].unseen
  /\ \A t \in Present \ {s} : s \notin sites[t].unseen /\ t \notin sites[s].unseen
  /\ \A i, j \in DOMAIN sites[s].routes :
       i # j => ~Overlaps(sites[s].routes[i].real, sites[s].routes[j].real)
  /\ \A i \in DOMAIN sites[s].routes : ~Overlaps(sites[s].routes[i].real, Tunnel)

(* Where the addresses are unambiguous, outside and behind the site, a packet *)
(* reaches the site whose prefix it was sent to and there the host with that   *)
(* number, the answer comes from the very address the packet was sent to, and *)
(* both checksums come out (addrmap.go).                                   *)
ThereAndBack ==
  (packet # None /\ sites[packet.of] # None /\ Sane(packet.of)) =>
    CASE packet.at = "agent"  -> packet.site = packet.of
      [] packet.at = "host"   ->
           /\ Intact(packet.pkt)
           /\ \/ packet.pkt.dst = packet.asked /\ packet.asked = Own[packet.of]
              \/ \E i \in DOMAIN sites[packet.of].routes :
                   LET map == RouteMap(sites[packet.of].routes[i])
                   IN  /\ Covers(map.virtual, packet.asked)
                       /\ packet.pkt.dst - map.real.base = packet.asked - map.virtual.base
      [] packet.at = "client" -> Intact(packet.pkt) /\ packet.pkt.src = packet.asked

=============================================================================
