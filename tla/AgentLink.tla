------------------------------- MODULE AgentLink ------------------------------
(***************************************************************************)
(* What the hub and one dialing end (a site's agent, or a client with a    *)
(* person at it) tell each other over a tunnel: the challenge, the code    *)
(* and the verdict; enable, disable and kick.                              *)
(*                                                                         *)
(* TunnelSession says how the two ends come to share a session; here only  *)
(* the outcome matters: which end has one, and whether it is the same.     *)
(* ReplayWindow says what a session does to its frames: they may be lost   *)
(* and overtake each other, but none arrives twice.  A frame of a session  *)
(* that was superseded under way may still be opened, for both ends keep   *)
(* the previous one for a while.                                           *)
(*                                                                         *)
(* Until "calm" anything may happen: the operator edits the registry and   *)
(* kicks, frames are lost, timers outrun everything, processes die.        *)
(*                                                                         *)
(* LinkSpec and its parts have names of their own: a module can extend     *)
(* this one and PeerAuth together.                                         *)
(*                                                                         *)
(* A definition that no action uses is a plausible mistake in the one that *)
(* follows it; it shows that the properties notice it.                     *)
(***************************************************************************)
EXTENDS Integers, FiniteSets

CONSTANTS
  MaxTries,    (* refused codes that end a session, and the dialing end (3)   *)
  MaxFlight    (* frames under way at once; the network loses the rest        *)

ASSUME TriesAssumption == MaxTries \in Nat \ {0}
ASSUME FlightAssumption == MaxFlight \in Nat \ {0}

VARIABLES
  attended,   (* a client with a person at it, or an agent                     *)
  codes,      (* the codes it can give: "right", "wrong", or "none" at all     *)
  hub,        (* the server's peerState: [mfa, enabled, authed, tries, locked] *)
  command,    (* the command reloadAgents has yet to send                      *)
  site,       (* the dialing process: [alive, authed, sent, asking, tries,     *)
              (* forwarding]                                                 *)
  link,       (* who has a session: "none", "hub", "site", both but each its   *)
              (* own ("apart"), or "same"                                    *)
  flight,     (* frames under way                                              *)
  calm

linkVars == <<attended, codes, hub, command, site, link, flight, calm>>

Frame(to, kind, arg) == [to |-> to, kind |-> kind, arg |-> arg]

Frames ==
  {Frame("site", "challenge", required) : required \in BOOLEAN}
  \cup {Frame("site", "result", ok) : ok \in BOOLEAN}
  \cup {Frame("site", cmd, TRUE) : cmd \in {"enable", "disable", "kick"}}
  \cup {Frame("hub", "code", good) : good \in BOOLEAN}
  \cup {Frame("hub", "bye", TRUE)}

HubUp == link \in {"hub", "apart", "same"}
SiteUp == link \in {"site", "apart", "same"}

HubDrops == IF link \in {"apart", "same"} THEN "site" ELSE IF link = "hub" THEN "none" ELSE link
SiteDrops == IF link \in {"apart", "same"} THEN "hub" ELSE IF link = "site" THEN "none" ELSE link

(* sendSealed: without a session nothing is sent.  What the hub seals with a   *)
(* session the site does not have, or the site when the hub has none, nobody *)
(* will open.                                                              *)
Sent(f, S) ==
  LET out == {m \in S : IF m.to = "site" THEN link = "same" ELSE SiteUp /\ HubUp}
  IN  IF Cardinality(f \cup out) <= MaxFlight THEN f \cup out ELSE f

(* An end without any session opens nothing.                                *)
Lost(f, to) == {m \in f : m.to # to}

(* The timer of the hub is not in the middle of reloadAgents.                *)
Tick == command = "none"

-------------------------------------------------------------------------------
(* ---------------------------------- hub ------------------------------- *)

(* resetAuth.  It keeps a hub's peer that needs no code authenticated, so that *)
(* the timer's branch for such a peer finds nothing to do.                    *)
ResetHubAuth(h) == [h EXCEPT !.authed = ~h.mfa]

(* reloadAgents, reloadClients: the site or the device gets a new secret, or  *)
(* none; the site is enabled or disabled.  Codes of the old secret are wrong. *)
Rotate ==
  /\ ~calm /\ Tick
  /\ \E mfa \in BOOLEAN : hub' = ResetHubAuth([hub EXCEPT !.mfa = mfa, !.tries = 0])
  /\ codes' \in {"right", "wrong", "none"}
  /\ flight' = {IF m.kind = "code" THEN [m EXCEPT !.arg = FALSE] ELSE m : m \in flight}
  /\ UNCHANGED <<attended, command, site, link, calm>>

Switch ==
  /\ ~calm /\ Tick /\ ~attended
  /\ hub' = [hub EXCEPT !.enabled = ~@]
  /\ command' = IF hub.enabled THEN "disable" ELSE "enable"
  /\ UNCHANGED <<attended, codes, site, link, flight, calm>>

(* sendAgentCmd, after the mutex is released.                               *)
SendCommand ==
  /\ command # "none"
  /\ flight' = Sent(flight, {Frame("site", command, TRUE)})
  /\ command' = "none"
  /\ UNCHANGED <<attended, codes, hub, site, link, calm>>

HubLoses(h) ==
  /\ link' = HubDrops
  /\ hub' = h

(* tick: nothing was heard for DeadTimeout.  In calm the site's keepalives     *)
(* come, unless it has no session or, after a while, an older one.           *)
HubDead ==
  /\ Tick /\ HubUp /\ (calm => link # "same")
  /\ HubLoses(ResetHubAuth(hub))
  /\ flight' = Lost(flight, "hub")
  /\ UNCHANGED <<attended, codes, command, site, calm>>

(* tick: no valid code within two minutes, which in calm is for ever.         *)
MfaTimeout ==
  /\ Tick /\ HubUp /\ hub.mfa /\ ~hub.authed
  /\ calm => codes # "right"
  /\ HubLoses(hub)
  /\ flight' = Lost(flight, "hub")
  /\ UNCHANGED <<attended, codes, command, site, calm>>

ChallengeOnce == FALSE /\ UNCHANGED linkVars

(* tick: the challenge is sent again every five seconds.                      *)
ResendChallenge ==
  /\ Tick /\ HubUp /\ hub.mfa /\ ~hub.authed
  /\ flight' = Sent(flight, {Frame("site", "challenge", TRUE)})
  /\ UNCHANGED <<attended, codes, hub, command, site, link, calm>>

DisableOnce == FALSE /\ UNCHANGED linkVars

(* tick: a disabled site is told so every 30 seconds.                         *)
ResendDisable ==
  /\ Tick /\ HubUp /\ hub.authed /\ ~hub.enabled
  /\ flight' = Sent(flight, {Frame("site", "disable", TRUE)})
  /\ UNCHANGED <<attended, codes, hub, command, site, link, calm>>

(* authLockedUntil is reached.                                              *)
Unlock ==
  /\ hub.locked
  /\ hub' = [hub EXCEPT !.locked = FALSE]
  /\ UNCHANGED <<attended, codes, command, site, link, flight, calm>>

(* KickAgent: the command goes out first, then the session is dropped.        *)
Kick ==
  /\ ~calm /\ ~attended /\ HubUp
  /\ flight' = Lost(Sent(flight, {Frame("site", "kick", TRUE)}), "hub")
  /\ HubLoses(ResetHubAuth(hub))
  /\ UNCHANGED <<attended, codes, command, site, calm>>

(* handleAuthResp.                                                          *)
ReceiveCode(good) ==
  LET m == Frame("hub", "code", good)
      Verdict(ok) == Sent(flight \ {m}, {Frame("site", "result", ok)})
  IN
  /\ m \in flight /\ HubUp
  /\ \/ /\ ~hub.mfa
        /\ flight' = flight \ {m}
        /\ UNCHANGED <<hub, link>>
     \/ /\ hub.mfa /\ hub.authed
        /\ flight' = Verdict(TRUE)
        /\ UNCHANGED <<hub, link>>
     \/ /\ hub.mfa /\ ~hub.authed /\ hub.locked
        /\ flight' = Verdict(FALSE)
        /\ UNCHANGED <<hub, link>>
     \/ /\ hub.mfa /\ ~hub.authed /\ ~hub.locked /\ good
        /\ hub' = [hub EXCEPT !.authed = TRUE, !.tries = 0]
        /\ flight' = Verdict(TRUE)
        /\ UNCHANGED link
     \/ /\ hub.mfa /\ ~hub.authed /\ ~hub.locked /\ ~good
        /\ hub.tries + 1 < MaxTries
        /\ hub' = [hub EXCEPT !.tries = @ + 1]
        /\ flight' = Verdict(FALSE)
        /\ UNCHANGED link
     \/ /\ hub.mfa /\ ~hub.authed /\ ~hub.locked /\ ~good
        /\ hub.tries + 1 >= MaxTries
        /\ HubLoses([hub EXCEPT !.tries = @ + 1, !.locked = TRUE])
        /\ flight' = Lost(Verdict(FALSE), "hub")
  /\ UNCHANGED <<attended, codes, command, site, calm>>

(* A client that leaves says so.                                            *)
ReceiveBye ==
  /\ Frame("hub", "bye", TRUE) \in flight /\ HubUp
  /\ HubLoses(ResetHubAuth(hub))
  /\ flight' = Lost(flight, "hub")
  /\ UNCHANGED <<attended, codes, command, site, calm>>

-------------------------------------------------------------------------------
(* --------------------------------- site ------------------------------- *)

Started ==
  [alive |-> TRUE, authed |-> FALSE, sent |-> FALSE, asking |-> FALSE, tries |-> 0,
   forwarding |-> TRUE]

Stopped == [Started EXCEPT !.alive = FALSE]

(* fail; a client says goodbye if it can.                                   *)
Fail(f) ==
  /\ site' = Stopped
  /\ link' = SiteDrops
  /\ flight' = Lost(Sent(f, IF attended THEN {Frame("hub", "bye", TRUE)} ELSE {}), "site")

(* handleAuthChallenge, a code being asked for: an agent has one at hand, a    *)
(* client asks its user, unless it is asking already.                       *)
Challenged(f, s) ==
  \/ /\ codes = "none" /\ ~s.asking
     /\ Fail(f)
  \/ /\ attended /\ (codes # "none" \/ s.asking)
     /\ site' = [s EXCEPT !.asking = TRUE]
     /\ flight' = f
     /\ UNCHANGED link
  \/ /\ ~attended /\ codes # "none"
     /\ site' = [s EXCEPT !.sent = TRUE]
     /\ flight' = Sent(f, {Frame("hub", "code", codes = "right")})
     /\ UNCHANGED link

ReceiveChallenge(required) ==
  LET m == Frame("site", "challenge", required) IN
  /\ m \in flight /\ SiteUp
  /\ IF required THEN Challenged(flight \ {m}, site)
     ELSE /\ site' = [site EXCEPT !.authed = TRUE]
          /\ flight' = flight \ {m}
          /\ UNCHANGED link
  /\ UNCHANGED <<attended, codes, hub, command, calm>>

(* The user types a code, or gives up.                                      *)
Answer ==
  /\ site.asking
  /\ site' = [site EXCEPT !.asking = FALSE, !.sent = TRUE]
  /\ flight' = Sent(flight, {Frame("hub", "code", codes = "right")})
  /\ UNCHANGED <<attended, codes, hub, command, link, calm>>

Cancel ==
  /\ ~calm /\ site.asking
  /\ Fail(flight)
  /\ UNCHANGED <<attended, codes, hub, command, calm>>

(* handleAuthResult.                                                        *)
ReceiveResult(ok) ==
  LET m == Frame("site", "result", ok)
      refused == [site EXCEPT !.tries = @ + 1, !.sent = FALSE]
  IN
  /\ m \in flight /\ SiteUp
  /\ \/ /\ ok
        /\ site' = [site EXCEPT !.authed = TRUE]
        /\ flight' = flight \ {m}
        /\ UNCHANGED link
     \/ ~ok /\ refused.tries >= MaxTries /\ Fail(flight \ {m})
     \/ ~ok /\ refused.tries < MaxTries /\ Challenged(flight \ {m}, refused)
  /\ UNCHANGED <<attended, codes, hub, command, calm>>

(* handleAgentCmd.                                                          *)
ReceiveCommand(cmd) ==
  LET m == Frame("site", cmd, TRUE) IN
  /\ m \in flight /\ SiteUp
  /\ IF cmd = "kick"
     THEN /\ site' = [site EXCEPT !.authed = FALSE, !.sent = FALSE]
          /\ link' = SiteDrops
          /\ flight' = Lost(flight, "site")
     ELSE /\ site' = [site EXCEPT !.forwarding = (cmd = "enable")]
          /\ flight' = flight \ {m}
          /\ UNCHANGED link
  /\ UNCHANGED <<attended, codes, hub, command, calm>>

(* tick: nobody asked for a code within authGrace.                            *)
Grace ==
  /\ SiteUp /\ ~site.authed /\ ~site.asking /\ ~site.sent
  /\ site' = [site EXCEPT !.authed = TRUE]
  /\ UNCHANGED <<attended, codes, hub, command, link, flight, calm>>

(* tick: no verdict on a code within eight seconds.                           *)
AskAgain ==
  /\ SiteUp /\ ~site.authed /\ ~site.asking /\ site.sent
  /\ Challenged(flight, [site EXCEPT !.sent = FALSE])
  /\ UNCHANGED <<attended, codes, hub, command, calm>>

(* tick: nothing was heard for DeadTimeout.  The dialing end's entry for the  *)
(* hub has no secret, so resetAuth sets authed.                             *)
SiteDead ==
  /\ SiteUp /\ (calm => link # "same")
  /\ site' = [site EXCEPT !.authed = TRUE, !.sent = FALSE]
  /\ link' = SiteDrops
  /\ flight' = Lost(flight, "site")
  /\ UNCHANGED <<attended, codes, hub, command, calm>>

HandshakeKeepsTries ==
  /\ site.alive /\ ~(hub.mfa /\ hub.locked)
  /\ link' = "same"
  /\ site' = [site EXCEPT !.authed = FALSE, !.sent = FALSE]
  /\ LET f == flight \cup {Frame("site", "challenge", hub.mfa /\ ~hub.authed)}
     IN flight' = IF Cardinality(f) <= MaxFlight THEN f ELSE flight
  /\ UNCHANGED <<attended, codes, hub, command, calm>>

(* handleHandshakeInit and handleHandshakeResp: both ends have the new         *)
(* session, the hub says whether it wants a code.                           *)
Handshake ==
  LET required == hub.mfa /\ ~hub.authed IN
  /\ site.alive /\ ~(hub.mfa /\ hub.locked)
  /\ link' = "same"
  /\ hub' = IF required THEN [hub EXCEPT !.tries = 0] ELSE hub
  /\ site' = [site EXCEPT !.authed = FALSE, !.sent = FALSE]
  /\ LET f == flight \cup {Frame("site", "challenge", required)}
     IN flight' = IF Cardinality(f) <= MaxFlight THEN f ELSE flight
  /\ UNCHANGED <<attended, codes, command, calm>>

(* A session is missing, or old enough to be replaced.                        *)
Connect == ~SiteUp /\ Handshake
Rekey == SiteUp /\ Handshake

(* The hub's answer is lost, or the init was a late copy.                     *)
HalfHandshake ==
  /\ ~calm /\ ~(hub.mfa /\ hub.locked)
  /\ link' = IF SiteUp THEN "apart" ELSE "hub"
  /\ hub' = IF hub.mfa /\ ~hub.authed THEN [hub EXCEPT !.tries = 0] ELSE hub
  /\ UNCHANGED <<attended, codes, command, site, flight, calm>>

(* The agent's service manager starts it again, the user the client.          *)
Restart ==
  /\ ~site.alive
  /\ site' = Started
  /\ UNCHANGED <<attended, codes, hub, command, link, flight, calm>>

-------------------------------------------------------------------------------
(* ------------------------------ environment --------------------------- *)

Crash ==
  /\ ~calm /\ site.alive
  /\ site' = Stopped
  /\ link' = SiteDrops
  /\ flight' = Lost(flight, "site")
  /\ UNCHANGED <<attended, codes, hub, command, calm>>

Lose ==
  /\ ~calm
  /\ \E m \in flight : flight' = flight \ {m}
  /\ UNCHANGED <<attended, codes, hub, command, site, link, calm>>

BecomeCalm ==
  /\ ~calm /\ calm' = TRUE
  /\ UNCHANGED <<attended, codes, hub, command, site, link, flight>>

LinkInit ==
  /\ attended \in BOOLEAN
  /\ codes \in {"right", "wrong", "none"}
  /\ \E mfa \in BOOLEAN :
       hub = [mfa |-> mfa, enabled |-> TRUE, authed |-> ~mfa, tries |-> 0, locked |-> FALSE]
  /\ command = "none" /\ site = Started /\ link = "none" /\ flight = {} /\ calm = FALSE

HubNext ==
  \/ Rotate \/ Switch \/ SendCommand \/ Kick
  \/ HubDead \/ MfaTimeout \/ ResendChallenge \/ ResendDisable \/ Unlock

SiteNext ==
  \/ Answer \/ Cancel \/ Grace \/ AskAgain \/ SiteDead
  \/ Connect \/ Rekey \/ HalfHandshake \/ Restart \/ Crash

Receive ==
  \/ \E b \in BOOLEAN : ReceiveCode(b) \/ ReceiveChallenge(b) \/ ReceiveResult(b)
  \/ \E cmd \in {"enable", "disable", "kick"} : ReceiveCommand(cmd)
  \/ ReceiveBye

LinkNext == HubNext \/ SiteNext \/ Receive \/ Lose \/ BecomeCalm

(* The timers of both ends tick, frames in calm arrive, users answer, and the *)
(* service manager restarts an agent (install.sh: Restart=always).          *)
LinkFairness ==
  /\ WF_linkVars(SendCommand) /\ WF_linkVars(HubDead)
  /\ WF_linkVars(ResendChallenge) /\ WF_linkVars(ResendDisable) /\ WF_linkVars(Unlock)
  /\ WF_linkVars(Answer) /\ WF_linkVars(Grace) /\ WF_linkVars(AskAgain) /\ WF_linkVars(SiteDead)
  /\ WF_linkVars(Connect) /\ WF_linkVars(~attended /\ Restart)
  /\ \A b \in BOOLEAN :
       WF_linkVars(ReceiveCode(b)) /\ WF_linkVars(ReceiveChallenge(b)) /\ WF_linkVars(ReceiveResult(b))
  /\ \A cmd \in {"enable", "disable", "kick"} : WF_linkVars(ReceiveCommand(cmd))
  /\ WF_linkVars(ReceiveBye)

LinkSpec == LinkInit /\ [][LinkNext]_linkVars
LinkFairSpec == LinkSpec /\ LinkFairness

-------------------------------------------------------------------------------
(* ------------------------------ properties ---------------------------- *)

(* The state has the shape its declarations say; no frame is under way to an  *)
(* end that could not open it.                                             *)
LinkTypeOK ==
  /\ attended \in BOOLEAN /\ calm \in BOOLEAN
  /\ codes \in {"right", "wrong", "none"}
  /\ hub \in [mfa : BOOLEAN, enabled : BOOLEAN, authed : BOOLEAN, tries : 0..MaxTries,
              locked : BOOLEAN]
  /\ command \in {"none", "enable", "disable"}
  /\ site \in [alive : BOOLEAN, authed : BOOLEAN, sent : BOOLEAN, asking : BOOLEAN,
               tries : 0..MaxTries, forwarding : BOOLEAN]
  /\ link \in {"none", "hub", "site", "apart", "same"}
  /\ flight \subseteq Frames
  /\ \A m \in flight : IF m.to = "hub" THEN HubUp ELSE SiteUp

(* The site is up or has a chance to be.                                    *)
Able == ~hub.mfa \/ codes = "right"

Working == link = "same" /\ hub.authed /\ site.authed

(* When calm has come and the codes are right, both ends come to agree that   *)
(* the tunnel may be used, without waiting for a rekey.  If no code is needed *)
(* it may take a rekey: a code the hub had asked for before goes unanswered.  *)
(* A client may have been stopped before (engine.go: tick; auth.go).         *)
Settled == Working \/ (attended /\ ~site.alive)

Converges ==
  /\ (calm /\ hub.mfa /\ codes = "right") ~> Settled
  /\ []<><<Rekey>>_linkVars => ((calm /\ ~hub.mfa) ~> Settled)

(* A site that stays disabled stops forwarding for good, whatever was lost    *)
(* and however often it was restarted before (engine.go: tick keeps telling  *)
(* a disabled agent to stand down).                                        *)
StandsDown ==
  <>(calm /\ Able /\ ~attended /\ ~hub.enabled) => <>[](site.alive => ~site.forwarding)

=============================================================================
