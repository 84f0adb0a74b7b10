# selfremote: a TLA+ model of the tunnel, the relay and the control plane

selfremote connects clients to sites through one hub. Clients and site agents
dial the hub over UDP (Noise IK, frames of their own format); the hub ends both
tunnels and moves IP packets between them in user space; a web control plane
decides, through two registry files, who exists, who may reach what, and which
sites are switched on.

This directory holds the models, the TLC runs and the proofs. `PROJECT.json`
maps every definition to the lines it stands for. Paths below are relative to
`src/`.

## 1. Inventory

### The engine (`internal/tunnel`)

One `Engine` per process, one mutex `e.mu`, and four kinds of goroutine:
`readLoop` (all incoming frames, one at a time), `timerLoop` (`tick` every
250 ms: poll the registry, then sweep the peers), `writeLoop` (TUN to wire, not
on the hub) and HTTP handlers of the control API. Handlers take and release the
mutex several times, and most of what is hard here lives in the gaps.

| part | state | operations | must hold |
|---|---|---|---|
| session, replay window (`engine.go`, `frame.go`) | keys, `sendNonce`, 64-bit window | seal, open | at most once; only old or repeated frames are refused |
| handshake and recovery (`engine.go`) | `cur`, `prev`, `hs`, timers | init, response, rekey, dead peer | rekey interrupts nothing; ends meet again after any failure |
| MFA gate (`auth.go`, `engine.go`) | `authed`, `authAttempts`, deadline, lock | challenge, code, timeout, lock, bye, kick | an open gate was earned; strikes end the session; nobody is stuck |
| registry (`registry.go`, `registry_runtime.go`) | `peers`, mtimes | poll and apply two files | revoked at once; the hub ends up as the files say |
| relay (`relay.go`) | routes, address tables | route, check, forward | anti-spoofing, ACL, answers find their way back |
| agent control (`agent.go`) | `forwarding`, `cmdAt` | enable, disable, kick, announce | the agent ends up as the registry says |
| dialing side's MFA (`auth.go`) | `authPrompting`, `authSentAt` | challenge, prompt, result, grace | the two ends agree in the end |
| address translation (`addrmap.go`) | none | virtual/real prefix, checksums | inverse of each other |
| handshake limiter (`hslimit.go`) | buckets | allow | rate bound, bounded memory |

### The control plane (`internal/webapp`) and the rest

| part | state | operations | must hold |
|---|---|---|---|
| enrollment (`enroll.go`, `agents.go`, `db.go`) | `enroll_code`, `public_key` | create, rotate, enroll | a code admits one machine; rotation ends the old one |
| addresses, prefixes (`ipalloc.go`, `routes.go`) | database rows | allocate, backfill, assign | no two peers share an address or a prefix |
| publication (`server.go`) | two files and their `.tmp` | rewrite both | the last state of the database is what gets published |
| accounts (`auth.go`, `totp.go`, `security.go`) | users, web sessions, limiter | register, log in, change password, bind MFA | one first administrator; a limit is a limit; a change ends other logins |
| preprovisioning (`preprovision.go`) | files | import | never replaces an enrolled machine |
| proxy (`cmd/sr/socks.go`) | connections | copy both ways | both goroutines end |
| key files (`cmd/sr/keyedit.go`) | file, backup | replace | a crash leaves a readable file |

The parts interact through sealed frames (client, agent and hub), through
`clients.json` and `agents.json` (control plane to hub, by atomic rename and
mtime polling), and through HTTP (control plane to the hub's control API:
status, kick, refresh).

The hazards of each part are listed, with the line where they bite, in
`PROJECT.json` under `hazards`; the few that no property covers say why.

## 2. The modules

    AtMostOnce            what one direction of a session promises
      ^ implemented by
    ReplayWindow          sealing, the network, the receive window
    PeerAuth              one registered peer on the hub: sessions and gate
      PeerAuth_proofs  (about AgentLink too), MCPeerAuth
    TunnelSession         both ends of a tunnel over UDP
      TunnelSession_proofs  (about ReplayWindow too)
    Relay                 two registry files, the tables, a packet on its way
      Relay_proofs, MCRelay
    AgentLink             hub and dialing end: challenge, code, commands
    DeviceRegistry        devices, their addresses, the published file
      DeviceRegistry_proofs, MCDeviceRegistry
    Sites                 one site: install code, machine, published entry
      Sites_proofs, MCSites
    Accounts              one account of the control plane
      Accounts_proofs, MCAccounts
    AddrMap               prefixes, remapping, checksums (no state)
      ^ extended by
    Addressing            networks of several sites, and a packet to one
      Addressing_proofs, MCAddressing
    SocksProxy            one connection through the local proxy
      SocksProxy_proofs

Each model looks at the engine from one side and takes the others in the form
they have there. `Relay` makes one step, `Install`, of how a session comes to be and its
gate to be open, which is what `PeerAuth` is about, but keeps what `PeerAuth` keeps of a
handshake: that it holds the peer it found; `PeerAuth` has one step for "a frame
opens", which is what `ReplayWindow` is about. `AgentLink` takes from `TunnelSession`
only which end has a session and whether it is the same, and from `ReplayWindow` that
no frame arrives twice. `DeviceRegistry` and `Sites` write the files `Relay` reads;
`Addressing` decides the prefixes `Relay` routes by.

The specifications of `ReplayWindow` and `AgentLink` are called `WindowSpec` and
`LinkSpec`, and their parts likewise, so that a module can extend them together with
`TunnelSession` and `PeerAuth`, as the proofs do.

In all of them a definition no action uses, standing just before the one it
resembles, is a plausible mistake in that one. `PROJECT.json` pairs each with the
property that notices it.

### ReplayWindow

`window` is `recvWindow`; its bitmap is the set of ages (distance from the
highest accepted nonce) whose bit is set. `Receive` is `trySession` on a frame
that was sent, `ReceiveDamaged` on one that was altered: decryption fails and the
session is untouched. The network is the set of all frames ever sent, each of
which may come any number of times, at any time, or never. The cipher is assumed
sound. The code's `uint64` nonce never wraps: the cipher refuses to seal beyond
its last nonce, which is `MaxNonce` here.

### PeerAuth

One key of the registry, seen by three goroutines. A step is one critical section
of `e.mu`: `handleHandshakeInit` is `AcceptInit`, `LearnAddress`, `Install`,
`ArmDeadline`; a submitted code is `ReceiveFrame("auth")`, `CheckCode`,
`AcceptCode` or `RefuseCode`, `StrikeOut`; a tick is `Reload` and `SweepPeers`; a
kick is `KickLookup` and `KickDrop`. (`AcceptInit` joins two sections, the lookup of
the key and the reading of the lock; any step that can come between them can as
well come before or after both.)

A key that vanishes from the registry and returns has a new `peerState` while a
goroutine may still hold the old one, hence the set `Objs`. Times are kept as
what the code asks of them: a deadline is unset (Go's zero time, which has always
passed), armed or passed; `prev` is live or stale; `quiet` and `locked` are
answers to comparisons with the clock. Whether a code is right and its time step
acceptable is left open: both verdicts are possible whenever a code is looked at, and the
verdict stays with the goroutine until it is applied.

`credit` is a history variable: a code was accepted for this object since it last
lost its session or changed its secret. (Accepted since, not checked since: a code of the
old secret, checked before the change, opens the gate after it; see the deviations in
section 3.) A frame that the gate lets through is past it; what a removal does to it
later is in `Relay`.

### TunnelSession

A handshake is named by the dialer's ephemeral key, a session by the responder's
answer; names nothing refers to are used again, so runs of any length have
finitely many states. `handleHandshakeResp` reads the pending handshake under the
mutex and opens the answer after releasing it: `ReceiveResp`, then `InstallResp` or
`RejectResp`. `weather` is the network: calm from the start, storm (loss,
duplication, delay, restarts of either end, timers that run out at any time) or
settled.

Outside a storm the timers are assumed slower than a datagram: the shortest,
`HandshakeRetry`, is 2 s. Inside one a single thing is assumed: the tick that
starts the next handshake does not fall into the opening of a response whose
handshake an earlier tick gave up (at least `HandshakeRetry` against one
decryption). The bye and the kick, which also end sessions, are in `PeerAuth`.

### Relay

Two registry files, polled and applied as the code does (clients first), with the
rules for a key that is in both; the routing table and address tables rebuilt
from the peers; and what `readLoop` has in hand. A handshake is `Handshake`
(`peerByPub`) and `Install` (`addr2peer`, `installSession`). A packet is `Open` (gate
passed), `CheckSource` (without the mutex), `Lookup` (one critical section: target, ACL,
liveness), `Seal` (`sendTo`, another one) or `Reply` (`replyLocalICMP`), `Write`. The
timer may apply a new file between any two.

A peer the timer removes loses its session, but the goroutine may still hold its
`peerState`, with the configuration it had last (`packet.cfg`). If that goroutine was in a
handshake, `Install` puts the session on the removed object: `late` are the sessions of
such peers, found through `addr2peer` only and visited by no sweep. `OpenLate` opens
their frames; they go on under the old address and ACL. At most `MaxLate` of them exist
(the code has no such bound; one is enough to meet every other step).

A prefix is the set of its addresses. Two variables are history: `seen` is what the
registry permitted at some moment since the packet was opened (for a late session by the
entry it left with, against the targets registered now), `skipped` the keys a file listed
that were the other role's when it was applied. `OnlyPermittedPackets` asks
that the sender was registered, except of a late session, and never that it is enabled,
because the code refuses neither a late session nor a disabled sender (section 3).

Assumed: client addresses in a file are distinct. A file that is missing or does
not parse is `Broken`. Every write has a newer mtime than the one before.
Peers of the static configuration are left out; so are the commands to agents.

### AgentLink

Both ends of one tunnel after the handshake: the hub's challenge, the dialing end's
prompt, code, grace and giving up, the verdict, and the commands enable, disable and
kick. `attended` tells a client with a person at it from an agent, which a service
manager restarts. `reloadAgents` changes the registry under the mutex and sends its
commands after releasing it (`command`); commands are sent once, except that `tick`
repeats the challenge and the disable. Until `calm` the operator edits the registry,
frames are lost, timers outrun everything and processes die; `flight` holds at most
`MaxFlight` frames, and the network loses the rest.

### DeviceRegistry

Requests of the web server run concurrently without a lock. A step is one statement of
the database or one call of the file system. `clients.json.tmp` is one path for all
writers: `disk` holds the inodes, `tmp` and `final` what the two names refer to, so that
truncating a file another writer has open, and renaming whatever is under the name, are
what they are in the operating system. `mishaps` and `clash` are history: which of
overlap, failure and a change of the owner's binding there has been since a request that
ran alone published; two writers had the file open at once. A change of the table by
itself is no mishap, so a handler that changed it and did not publish would break
`FileFollowsTable`. The handlers of `totp.go` are the ones that do not publish
(`RebindMFA`, a deviation listed in section 3); the mishap `"mfa"` excepts them and nothing
else.

### Sites

One site's row, its entry in `agents.json`, and the requests of operators and machines.
`handleEnroll` is `BeginEnroll` (code looked up), `SelfReport` (networks, if the row has
none), `BindKey`, publication, `LookUpHub`; a new code is `ResetAgentKey` and
`SetEnrollCode`, two statements. `Restart` is the import of `data/preprovision`. Names of
codes and keys that nothing refers to are used again. Refusals that change nothing are
left out.

`bindAgentEnrollment` looks at neither the code nor the key, so `KeptUntilReplaced`
excuses every machine whose code had been found valid before the bind (`Raced`), also if
the code was replaced since. The documentation says otherwise (section 3).

### Accounts

One account with its sessions, recovery codes and the limiter's count. Whether a password
or code is right is left open; what is kept is whether the one a request saw is still
the account's (`late`, `since`). What the limiter of source addresses says is left open too.

### AddrMap and Addressing

`AddrMap` is `addrmap.go` and the prefix arithmetic of `routes.go` over addresses of
`AddrBits` bits in two words (IPv4), with the one's-complement arithmetic of the incremental
checksum. The IPv4 header's own checksum is computed anew by every rewrite and left out.
`Addressing` has the sites' rows, requests that read the others' networks, decide, and
store in a later statement, the import of preprovisioned sites, and one packet from a
client to a published address and back. What is typed or reported (`Forms`) passes
`parseAgentRoutes`: refused (`Accepted`) or masked (`Parsed`). What is preset (`Presets`) is
stored as it is; while a stored pair of prefixes differs in length the hub refuses the
whole of `agents.json` (`Readable`) and goes by the last one, and no packet is followed.
At most one request per site is under way, the
hub is assumed to have read what is published, and each agent to have the routes its row
has. `unseen` is history: which sites were stored without regard to each other.
`ThereAndBack` holds of a site whose real networks overlap neither each other nor the
tunnel, and that nobody stored without regard to it (`Sane`).

### SocksProxy

One connection: the buffered reader that may take more than the request, the deadline of
30 s, look-up and dialling, and `pipe`'s two copiers. Programs and servers send,
half-close, close and reset at any time. A stream is a sequence of pieces; a write to a
socket that is open never blocks. The tunnel's connections can be half-closed
(`CloseWrite`), so `pipe`'s other branch is not taken.

## 3. The runs

| run | instance | bounds and why they suffice | shows |
|---|---|---|---|
| `replay_window` | `W = 3`, 9 frames | three window widths: a bit can enter, age and leave, and jumps can exceed the width | `WindowExact`, `OnlyOldOrRepeatedRefused`, implements `AtMostOnce` |
| `peer_auth` | 2 objects, 1 secret, 2 attempts | a dropped object held by a goroutine beside its successor; with 2 attempts a first, an intermediate and a last one are distinguished (3 in the code); objects are symmetric | the gate's safety |
| `peer_auth_live` | 1 object, 2 secrets, 3 attempts | rotation between secrets and the code's own limit, for one object | no peer stuck, waiting or silent for ever |
| `tunnel_session` | 3 handshakes, 5 sessions, 2 datagrams | names for one pending, one being opened and one stale; sessions for both ends' cur and prev and one under way | `RekeyNeverInterrupts`, `Recovers` |
| `relay` | 2 devices, 2 sites, 5 addresses, 2 clients' and 3 sites' files, 5 packets, 1 late session | the files disagree about every rule: ACLs, a moved address, nested and contested prefixes, a disabled site, keys in both, keys that move, an unreadable file; one late session meets every other step | `OnlyPermittedPackets`, `RoundTrip`, `RegistryApplied` |
| `agent_link` | 2 refused codes, 2 frames under way | a first and a last wrong code (3 in the code); two frames can cross or overtake each other | `Converges`, `StandsDown` |
| `devices` | 2 requests, 2 devices, 2 addresses, 3 inodes | two requests make every pair of steps interleave; with 2 addresses the pool runs out; one inode more than writers | `FileFollowsTable`, `TornOnlyByClash`, `SharedOnlyByOverlap` |
| `sites` | 2 requests, 3 codes, 4 keys and the preset one | as above; a name is always free | who holds the site, and what is published |
| `accounts` | 2 requests, 2 sessions, 2 wrong answers | the limit is reached and overrun by one (5 in the code) | sessions, second factor, guesses |
| `addressing` | 2 sites, 16 addresses, 14 lists of prefixes typed and 5 preset | same, nested, reserved, too wide, doubled, refused and hand-mapped networks, host bits set, preset pairs of different lengths; with 4 bits every carry of the checksum occurs | `OneSitePerAddress`, `ThereAndBack` |
| `socks_proxy` | 3 pieces each way | a piece read with the request, one on the way and one not yet sent | `Faithful`, `Ends` |

One more run ends in a violation, of what the documentation says and the code does not do:
`reconnect_must_prove`: a dropped session must authenticate again
(`docs/PROTOCOL.md:91`), but `handleAuthResp` opens the gate of a peer that lost its
session after `auth.go:119`, and the next handshake finds it open.

`CHECK_DEADLOCK FALSE` in `replay_window` (once all nonces are used and all frames
accepted nothing is left to do) and in `socks_proxy` (the program may be stopped).

### Other deviations met while modelling

The models do what the code does in each of these; the properties above are stated so
that they say what holds all the same.

- A handshake under way when its key leaves the registry installs a session on the
  removed `peerState` (`engine.go:725`), which no sweep visits; its packets are forwarded
  under the address and ACL it left with, and it is answered when it pings the hub
  (`relay.go:285`). `registry_runtime.go:31` and `docs/PROTOCOL.md:94` say its sessions are
  dropped at once.
- A code checked against the secret a peer had before a registry change opens the gate
  after it (`auth.go:140`); `registry_runtime.go:32` says a changed secret resets the
  authentication.
- A key that moves from `agents.json` to `clients.json` is passed over while it is still an
  agent (`registry_runtime.go:47`), and `clients.json` is not read again: the listed client
  stays unknown, although new peers are to take effect at once (`docs/PROTOCOL.md:94`).
- A tick between `installSession` and the deadline drops the new session as timed out
  (`engine.go:737`, `auth.go:18`).
- Every copy of an init installs another session (`docs/PROTOCOL.md:68` says idempotent).
- `relayFromAgent` does not look at the sender's `Enabled` (`relay.go:206`): a disabled
  site's packets are forwarded until it stands down itself (`registry.go:119` and
  `docs/PROTOCOL.md:189` say the server refuses them).
- Enable is sent once (`registry_runtime.go:172`): if it is lost the agent stays down
  until the next one.
- If no code is needed any more, a code the hub had asked for before goes unanswered, and
  the dialing end learns so only at the next rekey.
- `clients.json.tmp` is one file for all requests (`server.go:413`): two that publish at
  once may leave a torn file until the next publication, or an older one that still lists
  a revoked device (`devices.go:474` says it is disconnected within seconds).
- Beginning or confirming a second factor does not publish (`totp.go:39`, `totp.go:86`):
  `clients.json` goes on listing the devices of an owner without a bound factor, and the
  old secret (`db.go:454` says only devices whose owner has one are accepted).
- `bindAgentEnrollment` asks neither for the code nor for the key it overwrites
  (`db.go:593`). Of two machines whose code was looked up before either was bound, the
  second takes the site from the first (`enroll.go:31` and `docs/DESIGN.md:78` call the code
  one-time, `enroll.go:204` would answer that the site is taken); and a machine whose
  code the operator replaced meanwhile takes it, also from a machine that was bound with
  the new one (`agents.go:337` says a new code replaces the old one).
- If `syncClients` fails, `agents.json` is not written, and the handler reports success
  (`server.go:339`).
- Two requests that overlap may give out one tunnel address, or overlapping prefixes
  (`ipalloc.go:58`, `routes.go:100`); two first registrations that overlap make two
  administrators (`auth.go:314`).
- A site imported from `data/preprovision` is stored without looking at the others'
  networks or address, and without `enrolled_at`, although the code sets that field
  (`preprovision.go:146`; the INSERT at `db.go:575` has no such column). A preset site
  therefore counts as never enrolled until the next start binds its key once more, and
  a preset key that an operator has detached is bound again at the next start.
- The networks of a preset site are not parsed (`preprovision.go:145`): one pair of different
  lengths makes the hub refuse every site of `agents.json` (`registry.go:157`).
- A machine told 503 has used up its install code (`enroll.go:211`).
- A second factor begun between the check of a code and `enableTOTP` is enabled without
  having been confirmed (`totp.go:86`).
- A block wider than the pool is looked for inside it all the same (`routes.go:86`), so a
  virtual prefix may leave the pool.
- A site whose real network contains its own tunnel address answers from another address
  than it was asked at (`addrmap.go:130` matches maps before its own address).
- A UDP checksum of zero ("none") is adjusted like any other (`addrmap.go:333`).
- `pipe` does not close the program's side when the server has ended
  (`socks.go:291`, the comment says the other side is woken): a program that waits for
  the end of the answer waits until it closes itself. A program's reset reaches the
  server as an ordinary end.

### Fairness

- `PeerAuth`: `readLoop` finishes the frame it has begun, the ticker ticks, a kick
  that has begun ends, and deadlines and silence come to pass. There is no fairness
  for anything a peer, an operator or the control plane may or may not do.
  `WaitingEnds` supposes that the peer stops making new sessions (each grants a new
  window, by `engine.go:737`), `SilentPeersDropped` that nothing of it arrives.
- `TunnelSession`: each end's timers run, every datagram that is not lost arrives
  (fairness for each one), and a handshake is started when there is no session. A
  rekey is never forced. `Recovers` supposes that the storm ends.
- `AgentLink`: both ends' timers tick, frames sent in calm arrive, a prompt is answered,
  and an agent is restarted by its service manager. `Converges` supposes rekeys only where
  no code is needed.
- `SocksProxy`: goroutines run, the deadline passes, look-ups and dialling end, and a
  server that has seen the end of its input ends. Nothing is assumed of the program.

The other modules state safety only and need no fairness.

## 4. The proofs

A theorem holds for every value of the constants that the assumptions in its module
allow: any number of keys, requests, addresses, pieces, any files, any limit. The
assumptions say that a null value is none of the real ones, that sets of requests and
names are finite, that there are names enough for whoever may hold one, and what type a
parsed file has. Three theorems need more, stated as a hypothesis of the theorem and
explained below. In every module a lemma per action (or per group that changes the same
thing) shows that the action keeps the inductive invariant, and the theorems follow.

- **`TunnelSession_proofs`, of `ReplayWindow`**: `WindowTypeCorrect`, `WindowIsExact`,
  `RefusalsAreJustified`, `ImplementsChannel`. The inductive invariant `WindowInv` is
  `WindowTypeOK /\ OnlySent /\ WindowExact /\ HighestIsMax`. `WindowExact` alone is not
  inductive: after a shift the bit of an age speaks of another nonce, and that the
  new top's bits are right needs the old top to be the greatest accepted nonce;
  that only sent frames are accepted (`OnlySent`) is what the channel promises. The
  lemma `AcceptableMeaning` turns the code's test into the property's words, and
  refinement follows step by step: `Send` is `Seal`, `Receive` is `HandUp`,
  `ReceiveDamaged` is a stutter.

- **`TunnelSession_proofs`, of the session**: `TypeCorrect`, `NothingInterrupted`. In calm
  weather a handshake goes through four phases: `Together`, `Asked` (the init is on its
  way), `Answering` (the responder is a session ahead, the answer is on its way), `Opening`
  (`readLoop` has it). `IInv` says that the state is always in one of them. In each the
  end that is behind still holds what the other seals with, because `installSession`
  keeps the previous session. That no timer leads out of the phases is the assumption
  of section 2 about datagrams and timers, in the guards of the actions.

- **`PeerAuth_proofs`**: `TypeCorrect`, `PrevEndsWithCur`, `GateIsEarned`.
  The inductive invariant is `TablesOK /\ HoldersHold /\ ObjectsOK`: the tables and
  program counters are in range, a goroutine that is not idle holds an object, and
  each object by itself is well formed, has no previous session without a current
  one, and has earned its gate if it is open. The argument is local: a change of
  one object is lawful if it keeps these given that credit falls with the session
  and the secret, every piece of state change the handlers share is shown lawful
  once, and every action is then a lawful change of one object. No fact about who
  else is running is needed, which is why the interleavings do no harm.

  `StrikesAreFinal` is not local: between the last wrong code and the drop the peer is
  struck and still has a session. `SInv` adds that a peer with no attempts left still
  needs a code (`ExhaustedOwe`), and that the one `readLoop` has a verdict for still needs
  one, unless its count was restarted with its secret (`VerdictOwed`). The hypothesis is
  `MaxAttempts > 1` (3 in the code): with a single attempt the property is false,
  because an MFA secret taken away between the check of a code and the verdict restarts
  the count, and the refusal then uses up the only attempt of a peer that needs no code
  any more, and so is not dropped.

  Of `AgentLink`: `LinkTypeCorrect`, whose point is the two counters. That neither end
  counts more refusals than the limit is not inductive: `LinkInv` adds that the dialing
  end's count stays below it (the refusal that would reach it ends the process), and so
  does the hub's while it has a session with a peer that still owes a code. The hub's is so because the
  handshake restarts the count, not because the lock ends; the mutant that leaves this
  out breaks it. With it goes that a frame under way has a session at its end to open it.

- **`Relay_proofs`**: `TypeCorrect`, `OnlyPermitted`, `FilesTakeEffect`, `AnswersReturn`. Of
  the packet (`IInv`): the tables are those the peers give, and whatever the reader has
  established so far was permitted at some moment since the packet was opened
  (`PacketOK`). That is not a fact about the present registry, which may have changed; it
  also covers the object the reader still holds after its key was removed, and the
  frames of a late session, whose sender had been removed before. Of the registry
  (`RInv`): all peers of a role stem from *one* file, which is not necessarily the one
  that is published now, and every key of that file is such a peer unless it was the
  other role's when the file was applied (`skipped`).

  `FilesTakeEffect` supposes `SameIds`, that a key has the same id in every file that
  lists it as a site: `applyAgentRegistryLocked` does not read the id of a known agent
  again (`registry_runtime.go:98`), and the control plane never changes it.
  `AnswersReturn` supposes `SoundFiles`: also that a file gives one tunnel address to one
  client or site and one id to one site, and that prefixes nest or are disjoint, as CIDR
  blocks do (`PrefixesNest`). Neither parser checks the first two; the control plane sees to them as far
  as `SharedOnlyByOverlap` (`DeviceRegistry`) says. The files of the run are of this kind.

- **`DeviceRegistry_proofs`**: `TypeCorrect`, `TornOnlyByAClash`, `PublicationFollows`,
  `SharedAddressesOverlapped`. Three invariants that do not need each other. `FileInv`:
  writers that have the file open together all know it, and one that met nobody has the
  inode under the temporary name for itself, empty before its write and whole after it.
  `PublishedInv` is `FileFollowsTable` with three facts: without a mishap whoever is under way
  runs alone, a request that runs alone is the only one, and what it has read or written
  is current, which is why the file agrees again when the request ends. `AddressInv`: the
  address a request has chosen is nobody's, except of rows that were written after it
  had read those in use, which `missed` remembers.

- **`Sites_proofs`**: `TypeCorrect`, `OneAdmission`, `PublishedIsCurrent`, `MachineIsKept`.
  `KeyOrCode` is not inductive because a new code is two statements and an enrollment
  four. Added are what a request half way may rely on: the row it read is there
  (`HeldRow`), a reset between its statements finds no key (`DetachedHalfWay`), a machine
  whose code was found valid finds none either unless it is in a race (`CodeIsForFree`), and
  what is about to be published is the row as it is, if its request runs alone or the
  file is current (`ReadsAreCurrent`).

- **`Accounts_proofs`**: `TypeCorrect`, `OldPasswordsEnd`, `SecondFactorIsProved`,
  `GuessesAreBounded`. A session with an old password has a request that is ending it
  (`OldIsBeingEnded`); whoever is about to enable a second factor has seen a code of the
  present secret or knows an older one (`SeenBeforeEnabling`); wrong answers recorded
  and logins let through *together* stay within the limit and the requests there can be
  (`LetThrough`), which bounds the first even though the limiter is asked and told in
  separate steps.

- **`SocksProxy_proofs`**: `StreamsAreFaithful`, for streams of any length. Upwards, what
  the server was given, what the buffered reader holds and what is on the way are
  consecutive stretches of what the program sends, and the stage of the request
  (`Taken`) says where they begin (`UpInv`). Downwards the program has been told the
  greeting, the verdict and a first stretch of the server's stream, and what is on the
  way goes on from there (`DownInv`). A server that was told of the end has got
  everything, as long as the program has not gone (`HalfInv`).

- **`Addressing_proofs`**: `TypeCorrect`, `SitesKeepApart`, `PacketsComeBack`, for every
  width of an address, pool, set of sites and list of networks, and four results about the
  operators: `AssignedFits`, `PrefixesNest`, `RemapBack`, `RewriteAddrKeeps`.

  What the recursive functions compute (`1 << n`, a sum with its carries folded in, a
  site's routes taken one at a time) cannot be had by the library's induction rules. It
  is proved by the least counterexample: the numbers for which the claim fails
  would have a smallest one (`WFMin`), and the function's own equation refutes it
  (`LoopExists` gives the course of any loop over n items). From there on the prefix
  arithmetic needs only that a longer prefix's size divides a shorter one's: two prefixes
  that share an address nest, remapping keeps the place behind the prefix, and
  one's-complement addition modulo `2^AddrBits - 1` makes `checksumDelta` exact as long as
  the rest of the packet does not sum up to zero, which the client's address, being none
  of the zero address, sees to.

  The invariant has two parts. Of the tables (`TablesInv`): what a request is about to
  store (`RequestsApart`) and what is stored (`SitesApart`) overlaps only sites it names
  in `unseen`, and all of it that does not stem from a preset file is masked and
  translatable, which is proved of `parseAgentRoutes` and the assignment and assumed of
  no list; the first is needed because another site may store between a request's
  reading and its writing. Of the packet (`InFlight`): on its way to a site whose
  addresses are unambiguous it is at that site and no other, translated it is at the
  host with the same number behind the real prefix (`Landed`), and the answer has been
  given the address the client asked. TLC checked the whole of it on the
  instance of `addressing` before it was proved. Assumed of the constants: the pool is a
  masked prefix (`10.201.0.0/16` in `routes.go`), the client's address is not zero, and the null
  value is no prefix.

Every invariant and every safety property of the runs is thus a theorem for all values of
the constants. Only model-checked:

- All liveness (`KeyAloneSuffices`, `WaitingEnds`, `SilentPeersDropped`, `Recovers`,
  `Converges`, `StandsDown`, `Ends`): it rests on fairness and ENABLED, which the prover
  does not reason about.

## 5. Not modelled

IPv6. Addresses are of one family; the IPv6 branches of `routes.go:80-95` (a prefix of the
other family is left as it is), `addrmap.go:47,72,186-201` (refused mixed pairs, maps of both
families, 16-byte remapping), the extension headers in `addrmap.go:220-303` and ICMPv6 in
`relay.go:268-281` are left out. Nor is there a preset file whose routes are no prefixes at
all: whatever parses them refuses or ignores them.

Cryptography and key-file envelopes (assumed sound); TUN devices and interface
configuration (system calls); status pages and statistics (read-only); configuration
and command lines; HTTP wrapping; templates, deployment files and scripts.

The handshake limiter: what it answers depends on real time and on the order of a map,
and to the sessions an init it drops is a lost datagram. The dialer's socket
replacement: a datagram on the old socket is one the network lost. Editing a key file:
file operations of one process. The clock that two writes of a registry may share.

## 6. Plan

- `Relay` and `DeviceRegistry` share the published file: composing them would let
  `AnswersReturn` rest on what the control plane does instead of on `SoundFiles`.
