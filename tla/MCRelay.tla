------------------------------- MODULE MCRelay -------------------------------
(* Instances of Relay: two devices and two sites.  The files a client or a  *)
(* site may be listed in are chosen so that every rule of the relay is     *)
(* decided both ways: an ACL that changes, an address that moves, a prefix *)
(* inside another, two sites that claim the same one, a disabled site, a   *)
(* site's id under a new key, keys listed as both and keys that move       *)
(* between the files, and a file that cannot be read.                      *)
EXTENDS Relay, TLC

CONSTANTS c1, c2, a1, a2

Ip1 == 2
SiteIp == 100
Near == 201      (* only in the wide prefix *)
Far == 202       (* in the narrow one too   *)
MCAddrs == {1, Ip1, SiteIp, Near, Far}

Wide == {Near, Far}
Narrow == {Far}

MCKeys == {c1, c2, a1, a2}

Client(ip, acl) == [ip |-> ip, acl |-> acl]
Agent(id, ip, routes, enabled) == [id |-> id, ip |-> ip, routes |-> routes, enabled |-> enabled]

(* What the files may say; the clients' file is always readable.            *)
MCClientFiles ==
  {c1 :> Client(Ip1, {1}) @@ c2 :> Client(NoAddr, {1, 2}),
   c2 :> Client(Ip1, {2}) @@ a2 :> Client(NoAddr, {1})}

MCAgentFiles ==
  {Broken,
   a1 :> Agent(1, SiteIp, {Wide}, TRUE) @@ a2 :> Agent(2, NoAddr, {Wide, Narrow}, TRUE),
   a1 :> Agent(1, SiteIp, {Wide}, FALSE) @@ c2 :> Agent(2, NoAddr, {Narrow}, TRUE)}

MCPackets ==
  {<<Ip1, 1>>, <<Ip1, SiteIp>>, <<Ip1, Far>>, <<SiteIp, Ip1>>, <<Far, Ip1>>}
===============================================================================
