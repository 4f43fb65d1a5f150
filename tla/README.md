# Pie Relay in TLA+

Pie Relay connects terminals and chat sessions that run on a host (a laptop, a
container) with the people who look at them and type into them. This directory
holds TLA+ models of its core, the TLC configurations that check them and
TLAPS proofs of what matters most. Every definition is translated from the
code; `PROJECT.json` maps each one to its lines.

    tlc -workers 2 -config MCDriverSeat.cfg MCDriverSeat     a run
    tlapm DriverSeatProofs.tla                               the proofs of a module

## 1. The system

| Part | State it keeps | Operations | Hard because |
|---|---|---|---|
| **Relay** `server/internal/relay` | | | |
| wsSender (`server.go` 600-833) | two bounded lanes, byte counts, wake channel, closed flag | Send, popNext, writeLoop, shutdown | callers, writer and closers race; bounds; lost wakeups |
| Registry (`registry.go`) | per room: host and epoch, participants, driver lease and its generation | register/unregister, acquire, set, renew, release, lazy expiry | each call is atomic, sequences of calls are not |
| Handlers (`server.go` 867-1403) | one goroutine per websocket | join, leave, route, announce host, driver and roster | state read under the lock is sent after it; deferred cleanup runs late |
| Admission and drain (`server.go` 323-453, `cmd/relay/main.go`) | draining flag, active set | registerActive, BeginDrain, CloseActiveConnections | flag without lock, set with lock |
| Presence feed (`presence.go`) | bounded queue, one poster | Report, loop, Close | drops, retries, late arrivals, exit |
| Mobile relay (`mobile.go`) | host records (generation, resume secret, control), phone connections, credentials in memory and in a state file, install keys in memory | host hello, attach, install, status, revoke, pair | acknowledgements sent after the unlock, deadlines, generations, restarts that keep half the state |
| Invites, limits, JWT, enrolment | invite table, token buckets | create, redeem, allow, verify | expiry, boundaries |
| **Control plane** `executor-manager` | | | |
| Control service (`control/service.go`) | versioned records, presence dedupe, idempotency index | put with version, presence, recover stale sessions, operations | concurrent writers, replays, fencing by generation |
| Manager (`manager/manager.go`) | executors, jobs, provisioning calls, queue | Ensure, Submit, Cancel, worker | deduplication, capacity, restart |
| Controller | reconcile loop | repair, run operations | backoff, partial failure |
| Chat gateway and journal | append-only journal per conversation | append, replay, resume | exactly-once across reconnects |
| Previews, Claude authentication, usage, stores, Docker | files, external services | | I/O |
| **Client** `client` | | | |
| ptyagent and `pty-host.mjs` | the connection, the PTY, the driver | read loop, restart of the pty-host | restarts lose the driver |
| sessionmanager, chatagent (replay buffer), previewprocess, tui | processes, replay buffer | start, stop, replay | reconnects |
| **Mobile** `pie-mobile` | | | |
| Host gateway (`relay-gateway.ts`, `relay-control-client.ts`, `relay-transport.ts`) | control connection, reconnect timer, attempt in flight, resume secret, data transport and its sockets | start, stop, reconnect, dial for a phone | callbacks between awaits, two ends that must agree |
| Logical client and endpoint supervisor (`stable-logical-rpc-client.ts`, `mobile-endpoint-supervisor.ts`) | the physical session in use, subscriptions, requests, probe and lease timers, the operation in flight | migrate, suspend, recover, probe, rotate, close | every await lets the app switch, close or lose a session |
| Credential rotation (`mobile-relay-credential-rotation.ts`) | the bundle in the secure store: current, grace, pending | status, provision, confirm, write | lost answers, crashes, another writer of the same bundle |
| Pairing and its journals, direct upgrade | journals in the secure store | pair, recover, upgrade | crashes between steps |
| Mobile screens, **desktop**, deploy, examples | | | user interfaces and configuration |

How they interact: a host daemon and its participants hold a websocket each to
one relay node. A participant's keystrokes go through the relay to the daemon,
which types them into the PTY only when they come from the *driver*; the relay
keeps the driver's lease and tells the daemon (`set_driver`) and the
participants (`driver:state`). The relay pushes the host's presence
(`host:status`) to participants. It reports connections and its own health to
the control plane over HTTP; the control plane keeps a roster per session, pins
sessions to healthy nodes and moves them, with a new generation, when a node's
lease runs out.

A phone reaches a desktop directly or through the relay. The desktop's host
gateway keeps a control connection to the relay; when a phone connects with a
resume credential the relay announces it there, and the gateway dials a data
socket for it, which the relay attaches to the phone's. On the phone the app
talks to a logical client that never goes away; the supervisor replaces the
physical session under it, direct or relayed, and on a direct session it
rotates the resume credential: the phone draws a token, the gateway passes its
hash on, and the relay puts it in force, keeping the one before it valid for a
grace period.

What makes each part correct: the sender delivers each lane in order, within
its bounds, and never sleeps on work. The seat has one driver, whom nobody
displaces by accident and who can type. The newest host of a room stands, and
participants know whether there is one. A drain leaves nobody behind and ends.
The control plane's roster is who is connected. A phone always holds a
credential the relay honours, until it is revoked, and then never again. The
host gateway comes back after every loss, and both ends agree on what data
sockets present. No physical session of the phone leaks, none is held in the
background, and what the app subscribed to follows the session in use. `PROJECT.json` lists the places
where these are at risk as *hazards*.

## 2. The modules

| Module | Models | Runs | Proofs |
|---|---|---|---|
| `WsSender` | one connection's sender | `sender` | `WsSenderProofs` |
| `DriverSeat` | the seat of one room | `seat_safety`, `seat_liveness`, `seat_typing` | `DriverSeatProofs` |
| `HostPresence` | the host of one room | `presence_safety` | `HostPresenceProofs` |
| `RelayDrain` | admission and drain of one node | `drain` | `RelayDrainProofs` |
| `RelayPresence` | extends `RelayDrain` with the reporter and the control plane's projection | `feed` | `RelayPresenceProofs` |
| `RosterReplica` | abstract: the roster as a replica of who is connected that lags behind | | `RelayPresenceProofs` |
| `RelayCredential` | rotation and revocation of one phone's credential, phone and relay | `credential`, `credential_key` | `RelayCredentialProofs` |
| `CredentialHandover` | abstract: what the two stores promise each other | (as a property of `credential`) | `RelayCredentialProofs` |
| `RelayGateway` | registration of one host gateway, gateway and relay | `gateway` | `RelayGatewayProofs` |
| `PhoneEndpoint` | logical client and supervisor of one phone | `phone`, `phone_foreground` | `PhoneEndpointProofs` |

An `MC` module extends each for TLC with symmetry sets and the definitions that
only TLC uses. In the Go parts the granularity is that of the code's locks: a
critical section is one action; what a goroutine does between two of them is a
position `pc`. In the TypeScript parts an action is what runs between two
awaits on the one event loop. Operators whose comment begins with *mutant* are plausible
mistakes in the definition that follows: each property is known to fail when
one of them takes its place.

**WsSender.** Callers of `Send`, the writer goroutine, and the closers (an
operator's request, the handler's end, the peer, the context). `Send` is the
critical section of `sendClass`; `Wake` is the non-blocking send on the wake
channel after the unlock; `PopNext`, `WriteOk`, `WriteFail` and `Select` are
the writer; `ShutdownLocked`, `CloseDone`, `CloseConn` and `ShutdownReturn` are
the steps inside `once.Do`, on whichever goroutine runs them. A message is an
identifier, a lane and a size. `accepted` and `written` are history.

**DriverSeat.** `lease`, `seq`, `members` and `host` are the registry's maps
for one room. Each registry call is an action at an instant `t` in `Clock`: the
caller reads `time.Now()` before it waits for the lock, so `t` may lie up to
`Lag` behind. A grant, a hand-over or a release is followed, as in the code, by
`LookupHost`, `SendSetDriver` and `NotifyDriver` in steps of their own. The
daemon's pty-host takes every `set_driver` it is sent on the connection its
read loop is on, starts with `InitialDriver` and may restart. `sent` is history:
per participant, the announcements of the newest generation sent to it so far.
What a client makes of the frames is not modelled; the desktop takes them in
the order of arrival.

**HostPresence.** Registration, replacement and departure of hosts with their
epochs; `notifyHostStatus` in its three steps (recipients, presence, sends);
the read loop's check that the daemon is still the current host, and then the
routing of its frame. `seen` and `view` tell what was read for a participant
and what it was last sent.

**RelayDrain.** A handler: handshake, the two loads of the draining flag,
insertion, service, removal, with `activeMu` explicit because `BeginDrain` does
not take it. `main`: report, flag, wait, last read, snapshot, shutdowns,
reporter, exit. The grace period may end at any time.

**RelayPresence.** The actions of `RelayDrain` that report are conjoined with
`Report`. The loop takes an event, posts it at most three times; a post may be
lost, time out and arrive later (`late`), or be half applied. An event's
identifier matters from its first post on, and is reused when no copy of the
event is under way. A participant's put that the control plane refuses for good
appears only as a post that is half applied. The control plane: `Apply` with its dedupe by identifier,
`UpdateRelayNode` with its 15 s throttle (time is the `age` of the node's last
heartbeat: fresh, recent, or stale beyond the 90 s lease), `Recover` for
`RecoverStaleRelaySessions`, whose put of the session and deletes of its
participants are one step. The connections are participants of one session
that is pinned to the node; `moved` says that it has been given to another, and
events of the old generation are refused from then on. `RosterReplica` says
what the control plane may rely on: comings and goings happen, and are applied
once each and in that order, until something is lost. Posts, copies, retries
and identifiers do not appear in it.

**RelayCredential.** The phone: `BeginRotation` (draw a token, store it as
pending), `OnStatus`, `OnProvision`, `OnConfirm` (the three answers), `Adopt`
(`this.bundle` follows the store), `Abandon` (an error anywhere; the request is
not withdrawn and stays in `late`), the changes of path that reject pending
requests, `ConnectRelay` with its write-back of `this.bundle`, `PhoneRestart`.
The relay: status from memory, install with its compare-and-set, idempotence by
key and rollback of a failed save, revocation whose save may fail, restart from
the file without the install keys. A token, its hash and its install key are
one number. `BeginRotation` stores the pending token and sends the status
request in one step, and `Expected` leaves out the empty hash, which only pairing
sends. `cred` is memory, `disk` the file. `CredentialHandover` leaves all
of that out: the relay issues a credential only while the phone holds the
current one, so it is never two ahead.

**RelayGateway.** The gateway: one `establishControl()` at a time (`att`, with
its phase), the reconnect timer, `Receive` and `HandleClose` for the control
socket's events, `SocketOpens`, `SocketFails` and `SocketCloses` for data
sockets, `Stop`. The relay: `HostHello` (the critical section that replaces the record), `HostAck`
(after the unlock), `ControlReadFails`, `PhoneConnects`, `HostData`,
`ConnectionEnds`. The network: `LinkLost`, with or without what was on its way;
`RelayRestarts`. Three things came out of the code rather than the docs. The
microtask that continues an acknowledged attempt runs before any other event
(`Idle`), but messages of the same network read are handled before it. The
relay may announce a phone before it has written the acknowledgement, because
the record is visible from the unlock on; the control client then fails the
attempt. And `setGeneration` refuses a new generation while sockets of the old
one are open, so a re-registration may have to wait for phone sessions to end.
Generations are counted as `mobile.go` counts them, one more than the record's,
and from 1 again after the relay restarts; a transport may thus still have a
generation from before the restart. Secrets are drawn at random in the code and
compared for equality only: a fresh one is the least value not in use.
`PhoneConnects` inserts the connection and writes `conn-open` in one step, where
the code unlocks in between.

**PhoneEndpoint.** `sess` is the state of each physical session, `active` the
one in use, `op` the operation `operationInFlight` stands for with its phase
(authenticating, asking the director, writing the bundle, probing). Time is
left out: an armed timer may fire, and what hysteresis decides is a choice.
`unwritten` is history: a failed write of the bundle leaves a session in use
whose lease is not watched, which `LeaseWatched` and `RotationHappens` except
by name. Two cases are left out: a bundle none of whose credentials is
unexpired (`Credentials` is 1 or 2), and a direct session that gives up after
too many refused logins (`auth-failed`).

## 3. The runs

| Run | Bounds | Shows |
|---|---|---|
| `sender` | 2 callers, 3 sends of size 1 or 2, lanes of 2 messages or 3 bytes | bounds, FIFO per lane, exact bytes, no lost wakeup; accepted messages are written or the connection ends, overflow evicts, the writer ends |
| `seat_safety` | one user with 2 tabs, another with 1, the control API, 2 generations, expiry | one driver per generation, no seat stolen, none stranded, the current driver announced to everyone |
| `seat_liveness` | operator, one viewer, one host, one pty-host restart | an absent driver vacates the seat |
| `seat_typing` (violation) | 2 users, one host, 3 generations | `set_driver` frames cross; the holder cannot type |
| `presence_safety` | 3 hosts, 2 participants, 3 registrations | newest host stands, at most one late frame, no missed push |
| `drain` | 3 connections | no survivor, the drain ends |
| `feed` | 1 connection, queue of 1, 1 failing post | roster exact when nothing is lost, heartbeat restores what was |
| `credential` | 5 tokens, unbounded faults | the phone holds a credential the relay honours; a saved revocation is final; the rotation implements `CredentialHandover` |
| `credential_key` (violation) | 3 tokens | a relay session opened during a rotation overwrites the pending install in the store |
| `gateway` | 4 links, 2 transports, 3 generations, 1 phone, 3 faults | never stranded, one attempt, both ends agree, sockets match, stop is final, registration comes back unless a phone's session or a loss nobody has noticed holds it up |
| `phone` | 3 sessions, 2 subscriptions, 1 request, 2 credentials, 3 faults, 5 switches | no leak, nothing held in the background, subscriptions follow, leases watched and rotated, close releases |
| `phone_foreground` (violation) | no faults, 2 switches | a return to the foreground during the bundle's write leaves the phone disconnected |

*Why the bounds are enough.* Two callers and a writer already make every pair
of the sender's critical sections meet, and three sends overflow a lane by
count and by bytes and refill it. For the seat, two tabs of one user and one of
another let a departure race with the same user's return and with a rival; a
lease lives one tick, and callers may be one tick late. The daemon takes no
part in the lease, so it is left out of `seat_safety` and present in the other
two; the proofs cover both at once. Three hosts let a daemon be superseded twice. In the feed,
connections meet only in the queue, and a queue of one is full as soon as two
events meet. Five tokens allow four rotations, so that a late install of the
first meets the compare-and-set of the third; the proofs cover any number. Three
faults let a relay restart hit an attempt that answers a lost link, and a
generation counted anew meet the same number left in a transport from before;
four links leave room for the abandoned, the active and the next two control
connections.
Three sessions are all that can be open at once on the phone (in use, being
opened, being replaced). Bounds sit in guards and are named: `MaxSends`,
`MaxTime`, `MaxSeq`, `MaxRestarts`, `MaxEpoch`, `MaxFails`, `MaxTokens`,
`MaxConns`, `MaxGen`, `MaxFaults`, `MaxSwitches`. Where they, or the end of the process,
stop every actor the configuration turns the deadlock check off; progress is
checked by the liveness properties instead.

*Fairness.* Goroutines are scheduled (weak fairness of the steps inside a
handler, the writer, the loop). Strong fairness where a step waits for a mutex
that others take and release again and again (`RelayDrain`), and for a ticker
that fires every 15 s into a queue that drains in milliseconds
(`RelayPresence`). On the event loops timers fire, and on the phone awaits end
(each has a timeout in the code). The gateway gets less, because the code has
less: `connect()` has no deadline, the relay ends no connection when its lease
runs out, and the phone closes its old session only after a new one has
authenticated, which needs a registered host. So no lost link need ever be
noticed and no attached session need ever end, and `Reregisters` excepts by name
the states in which it waits for one of the two (`Unnoticed`, `HeldUp`), and the
bound `MaxGen`. Of the data sockets only this is assumed: one that is not
attached within its deadline fails, and one that is dead is closed; strongly,
because the microtask of `Idle` disables both for a moment.
A hello is delivered only while
its connection is up. Nothing is assumed of peers, operators or signals, and
faults are finite where `HeartbeatRestores`, `Reregisters` and the phone's
liveness are checked.

*What the violations show.* (1) `seat_typing`: the seat's lease and the
daemon's idea of the driver come apart when two handlers' frames cross, because
`pty-host.mjs` takes `set_driver` without a generation. (2) `credential_key`:
the rotation stores its pending install, but `this.bundle` learns of it only at
the end; a relay session that opens meanwhile writes the old bundle over it. If
the install then commits, the phone lives on the grace credential, and the
compare-and-set refuses its next installs. (3) `phone_foreground`: the recovery
a return to the foreground asks for is dropped while an operation is in flight,
and that operation may end without a session in use. `PROJECT.json` quotes, for
each, the line it contradicts.

*Also seen, and not stated as properties.* The sender's control lane overtakes
output accepted before it: order holds per lane. The last `host:status` a
joining participant gets may be the older one, since the reading made at
registration is sent after the unlock. A disconnect the presence queue drops
leaves its participant in the roster for as long as the session is on the node.
`ApplyRelayPresence` marks a node ready for any event it carries, the
disconnects of its own drain included. A device revoked while the gateway has
no control connection is never revoked at the relay (its end-to-end login still
fails at the desktop). A failed save of a revocation is dropped, so a restart
brings the credential back (`saveLost` in `RevokedGone`). Install keys do not
survive a restart of the relay, so an install whose answer was lost before one
cannot be reconciled after it. Two `driver:state` frames, or one and a roster,
may reach a participant in either order, and `TerminalScreen.tsx` (600-622)
takes the last one whatever its generation: the current driver was announced, an
older one may be shown. A gateway whose new generation `setGeneration` refuses
and a phone whose session holds the old one may wait for each other. After a
relay restart the count can reach the generation a transport has kept, which
`setGeneration` then accepts with a socket open, although that socket is for a
connection of another generation; the relay refuses what it presents
(`AttachMatches` says which registered gateways present what the relay expects).

## 4. The proofs

All for arbitrary sets of connections, users and daemons and arbitrary limits.
The assumptions are the named `ASSUME`s of the modules (distinctness of the
null values, kinds of the constants). Every invariant and every action property
that a passing run checks is proved here.

- **Sender** (`SenderTypes`, `SenderQueuesBounded`, `SenderLaneFIFO`,
  `SenderNoLostWakeup`, `SenderBytesExact`). FIFO is inductive once one adds that the queue, the
  message in flight and the written prefix are consecutive pieces of the
  accepted sequence, also when a shutdown empties the queue; the wakeup once
  one adds who owes a token. The byte counts are sums over sequences: that the
  sum is additive under `Append` and `Tail` is proved from a least
  counterexample, because the prover cannot apply an induction theorem.
- **Seat** (`SeatTypes`, `SeatGenerations`, `SeatNeverStranded`, `SeatKept`,
  `SeatEveryoneTold`).
  A generation names one driver because every announcement on its way is of a
  generation at most `seq`, agrees with the lease when it is of its generation,
  and any two of the same generation agree (`GInv`); expiry and grant each take
  a new one. `SeatKept` is the action property: a live lease changes hands only
  by a hand-over. `EveryoneTold` speaks of idle handlers; what every step keeps
  is `NewsInv`: while the seat is taken, each participant was sent the current
  announcement, or is about to send itself the roster, or some handler still
  owes everybody that announcement. `NewsMoves` classifies what a step can do to
  that. It says that the frame was sent, not that it was the last one to arrive.
- **Host** (`PresenceTypes`, `PresenceNewestStands`, `PresenceOneLateFrame`,
  `PresenceNoMissedPush`). The inductive invariant adds who has spent its late
  frame, and that a participant whose last reading is out of date has a handler
  that owes it a push.
- **Drain** (`DrainTypes`, `DrainNoSurvivor`, `DrainDoorStaysShut`). `DInv`:
  after the wait loop nobody holds `activeMu`, since the loop's last read took
  it and the second load of the flag turns later handlers away; hence the
  snapshot has everyone inside.
- **Credential** (`TypeCorrect`, `HeldIsKnownAlways`, `RevokedGoneAlways`,
  `ImplementsHandover`). `HeldIsKnown` is far from inductive: one has to say for
  every place a token can be (store, memory, the rotation's bundle, a request,
  an answer, a late request, an install key) how it relates to the relay's two
  credentials. The heart is that every install under way expects a credential
  that is either still in force, and then the phone holds it, or will never be
  in force again. The refinement follows from the same invariant.
- **Gateway** (`TypeCorrect`, `OneWayBackAlways`,
  `BothEndsAgreeAlways`, `StopIsFinalAlways`, `AttachMatchesAlways`). The invariant has a gateway half
  (which phases an attempt can be in beside a control, a timer or `stopped`, and
  which transports are attached then) and an agreement half: a hello recorded
  but not answered, an acknowledgement on its way and an activated control each
  carry the relay's generation and secret, as long as the relay's record names
  their connection. `AttachMatches` needs a third part (`MInv`), since a socket
  may well belong to a connection of another generation while the gateway is
  *not* registered, and even while it is, when the relay has restarted and counts
  again. It says which generation each control connection still promises its
  transport, that every announcement on that connection is of the promised
  generation, that connection numbers are not used again, that the next
  generation the relay counts is that of no connection it has (`Counted`), and,
  for a socket that clashes with a connection of the record's generation, that no
  acknowledgement its transport's attempt can yet take lets it stay:
  `setGeneration` refuses a change while it is open (`ClashOK`).
- **Phone** (`TypeCorrect`, `NoLeakAlways`, `BackgroundHoldsNoRelayAlways`,
  `AttachedToActiveAlways`, `LeaseWatchedAlways`). The invariant ties each phase
  of the operation in flight to the session it has open and to the timer that
  is armed after it, a pending rotation included.
- **Feed** (`FeedRosterExact`, `FeedImplementsReplica`). `RelayPresence` adds
  the feed to `RelayDrain`'s own actions, so the drain's invariants may be used
  there; that is a lemma about the composition, not a result. The roster is
  exact at rest because, until something is lost, the *last* event not yet
  applied about a connection says whether it is there, and where there is none
  the roster does (`InStep` of `FInv`). Two facts keep late copies of a post
  from undoing that: a copy that may still arrive was applied already and is
  recognised, or is of the very event the loop repeats (`LateOK`); and an
  identifier in use is never given to another event, since there are more
  identifiers than failed posts (`IdsOK`). With the queue and the post under way,
  less what the control plane has applied, as the pending events (`Unapplied`),
  the same invariant yields the refinement of `RosterReplica`.

Only model-checked: liveness, since the prover has no fairness
(`AcceptedIsWritten`, `OverflowEvicts`, `WriterExits`, `AbsentDriverVacates`,
`DrainEnds`, `HeartbeatRestores`, `Reregisters`, `RotationHappens`,
`CloseReleases`). Only proved: `DoorStaysShut` (from `BeginDrain` on the active
set only shrinks) and the refinement of `RosterReplica`.

## 5. Not modelled, and the plan

In this order:

1. `RelayPresence`, the rest: host events and their projection on sessions and
   devices, generations with re-pinning, restart of a node, the scope check and
   the write as two steps.
2. Pairing: the relay's invites with their attempts, the phone's pairing and
   direct-upgrade journals and their recovery, composed with `RelayCredential`
   (which begins with a paired phone).
3. `PhoneEndpoint` and `RelayGateway` composed through the relay's
   connections.
4. `Invites` and the token bucket, the latter against a reference definition.
5. `ExecutorManager`: provisioning, jobs, capacity, restart.
6. `ChatGateway` with `Journal` and the client's replay buffer; abstract
   specification: each turn once, in order.
7. `ControlService`: versioned writes and idempotent operations over a
   compare-and-swap store.
8. `SessionManager`, the daemon's writer and previews.

Most of the repository's lines are user interface: the mobile screens, shared
type declarations, the vendored desktop runtime and the examples. They hold no
protocol state of the relay and stay unmodelled, so the share of all lines that
these modules stand for is small, and is not meant to grow by counting them.

Left out for good: token verification (cryptography, stateless), metrics,
stores and the Docker adapter (I/O, they become environments), user
interfaces, vendored code, deployment. Within the modelled parts: payloads,
logging, wording, metrics, and the message types the relay forwards without
looking at its state.
