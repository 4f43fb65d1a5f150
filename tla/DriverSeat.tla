----------------------------- MODULE DriverSeat -----------------------------
(***************************************************************************)
(* The driver seat of one terminal room: who may type.  The relay keeps a  *)
(* lease (registry.go) that connection handlers, one goroutine each, take, *)
(* renew, hand over and release (server.go); after each change the handler *)
(* tells the host daemon (set_driver) and the participants (driver_state,  *)
(* participant_roster), in steps of its own and under no lock.  The daemon *)
(* keeps its own copy of the driver (pty-host.mjs) and gates input by it.  *)
(*                                                                         *)
(* A step is one critical section of the registry or one delivery.  Rooms  *)
(* are independent, so one is modelled.                                    *)
(***************************************************************************)
EXTENDS Naturals, FiniteSets

CONSTANTS
  Conns,         \* participant connections
  Hosts,         \* host daemon connections
  Users, NoUser, \* user ids, and the empty id: no driver
  UserOf, RoleOf, AccessOf,  \* the verified identity of each participant connection
  Daemons, DaemonOf,         \* the daemon process at the end of each host connection
  InitialDriver, \* CLI_RELAY_INITIAL_DRIVER: the driver a fresh pty-host starts with
  NoHost,        \* no host connection
  Control,       \* the goroutine that serves POST /v1/control/driver
  Limit,         \* MaxParticipantsPerRoom
  TTL,           \* driverLeaseTTL, in ticks
  Lag,           \* how old a time.Now() may be when the registry's lock is taken
  MaxTime, MaxSeq, MaxRestarts   \* bounds on the clock, generations and pty-host restarts

ASSUME SeatConstants ==
  /\ NoUser \notin Users
  /\ UserOf \in [Conns -> Users]
  /\ RoleOf \in [Conns -> {"host", "participant"}]
  /\ AccessOf \in [Conns -> {"control", "view"}]
  /\ DaemonOf \in [Hosts -> Daemons]
  /\ InitialDriver \in Users \cup {NoUser}
  /\ NoHost \notin Hosts
  /\ Conns \cap Hosts = {} /\ Control \notin Conns \cup Hosts
  /\ Limit \in Nat /\ TTL \in Nat \ {0} /\ Lag \in Nat
  /\ MaxTime \in Nat /\ MaxSeq \in Nat /\ MaxRestarts \in Nat

VARIABLES
  now,         \* the relay's clock
  members,     \* Registry.participants: the registered connections
  host,        \* Registry.hosts: the current host connection
  lease,       \* Registry.drivers
  seq,         \* Registry.driverSeq
  pc,          \* where each handler stands
  frame,       \* the lease value a handler is announcing
  dest,        \* the host connection a handler looked up
  recips,      \* the participants a handler is about to send the roster to
  sent,        \* per participant: the newest announcements sent to it, a history
  attached,    \* per daemon: the connection its read loop is on
  ptyDriver,   \* per daemon: the pty-host's driver variable
  restarts     \* pty-host restarts so far

registryVars == <<members, host, lease, seq>>
seatVars     == <<lease, seq>>
daemonVars   == <<attached, ptyDriver, restarts>>
localVars    == <<frame, dest, recips>>
vars == <<now, members, host, lease, seq, pc, frame, dest, recips, sent,
          attached, ptyDriver, restarts>>

Handlers == Conns \cup Hosts \cup {Control}
Frame    == [user : Users \cup {NoUser}, gen : Nat]
NoFrame  == [user |-> NoUser, gen |-> 0]
NoLease  == [user |-> NoUser, gen |-> 0, exp |-> 0]

Init ==
  /\ now = 0
  /\ members = {} /\ host = NoHost
  /\ lease = NoLease /\ seq = 0
  /\ pc = [g \in Handlers |-> IF g = Control THEN "loop" ELSE "out"]
  /\ frame = [g \in Handlers |-> NoFrame]
  /\ dest = [g \in Handlers |-> NoHost]
  /\ recips = [g \in Conns |-> {}]
  /\ sent = [p \in Conns |-> {}]
  /\ attached = [d \in Daemons |-> NoHost]
  /\ ptyDriver = [d \in Daemons |-> InitialDriver]
  /\ restarts = 0

-----------------------------------------------------------------------------
(* The registry's critical sections on the lease.                          *)

\* time.Now() is an argument: it is read before the lock is taken
Clock == {t \in 0..now : t + Lag >= now}

Live(t)    == lease # NoLease /\ lease.exp > t
Expired(t) == lease # NoLease /\ lease.exp <= t
\* mutant: expiry leaves the generation alone
SeqAtUnbumped(t) == seq
\* an expired lease is deleted, and that is a new generation
SeqAt(t)   == IF Expired(t) THEN seq + 1 ELSE seq

\* currentDriverLocked: the value it returns, and the expired lease it deletes
DriverAt(t) == IF Live(t) THEN [user |-> lease.user, gen |-> lease.gen]
                          ELSE [user |-> NoUser, gen |-> SeqAt(t)]
Collect(t) ==
  /\ lease' = IF Live(t) THEN lease ELSE NoLease
  /\ seq' = SeqAt(t)

Present(u)  == \E p \in members : UserOf[p] = u
CanDrive(u) == \E p \in members : UserOf[p] = u /\ (RoleOf[p] = "host" \/ AccessOf[p] = "control")

\* a new generation, n, of the lease for u
Grant(u, t, n) ==
  /\ seq' = n
  /\ lease' = [user |-> u, gen |-> n, exp |-> t + TTL]

\* the handler goes on to announce f
Announce(g, f) ==
  /\ frame' = [frame EXCEPT ![g] = f]
  /\ pc' = [pc EXCEPT ![g] = "lookup"]
  /\ UNCHANGED <<dest, recips>>

\* mutant: a granted lease is not announced
AcquireQuietly(p, t) ==
  /\ IF ~Live(t) /\ CanDrive(UserOf[p]) THEN Grant(UserOf[p], t, SeqAt(t) + 1) ELSE Collect(t)
  /\ pc' = [pc EXCEPT ![p] = "loop"]
  /\ UNCHANGED localVars

\* AcquireDriverIfFree for the connection's own user
Acquire(p, t) ==
  LET u == UserOf[p] IN
  IF ~Live(t) /\ CanDrive(u)
  THEN Grant(u, t, SeqAt(t) + 1) /\ Announce(p, [user |-> u, gen |-> SeqAt(t) + 1])
  ELSE Collect(t) /\ pc' = [pc EXCEPT ![p] = "loop"] /\ UNCHANGED localVars

\* mutant: the target need not be connected
SetDriverToAnyone(g, u, t) ==
  /\ IF u = NoUser THEN lease' = NoLease /\ seq' = seq + 1
                   ELSE Grant(u, t, seq + 1)
  /\ Announce(g, [user |-> u, gen |-> seq + 1])

\* SetDriver: u = NoUser revokes
SetDriver(g, u, t) ==
  /\ u # NoUser => CanDrive(u)
  /\ IF u = NoUser THEN lease' = NoLease /\ seq' = seq + 1
                   ELSE Grant(u, t, seq + 1)
  /\ Announce(g, [user |-> u, gen |-> seq + 1])

\* mutant: the user's other connections are not looked for
ReleaseAnyTab(p, t) ==
  IF Live(t) /\ lease.user = UserOf[p]
  THEN /\ lease' = NoLease /\ seq' = seq + 1
       /\ Announce(p, [user |-> NoUser, gen |-> seq + 1])
  ELSE /\ Collect(t)
       /\ pc' = [pc EXCEPT ![p] = "roster"]
       /\ UNCHANGED localVars

\* ReleaseDriverIfAbsent, in the handler of a connection that has left
Release(p, t) ==
  LET u == UserOf[p] IN
  IF ~Present(u) /\ Live(t) /\ lease.user = u
  THEN /\ lease' = NoLease /\ seq' = seq + 1
       /\ Announce(p, [user |-> NoUser, gen |-> seq + 1])
  ELSE /\ IF Present(u) THEN UNCHANGED seatVars ELSE Collect(t)
       /\ pc' = [pc EXCEPT ![p] = "roster"]
       /\ UNCHANGED localVars

-----------------------------------------------------------------------------
(* Announcing a change: HostFor, host.Send(set_driver), notifyDriverState. *)

\* HostFor
LookupHost(g) ==
  /\ pc[g] = "lookup"
  /\ dest' = [dest EXCEPT ![g] = host]
  /\ pc' = [pc EXCEPT ![g] = IF host = NoHost THEN "notify" ELSE "send"]
  /\ UNCHANGED <<now, registryVars, frame, recips, sent, daemonVars>>

\* A set_driver frame on connection h reaches the pty-host, unless the daemon
\* is no longer on h.  The connection is FIFO, so the daemon is shown as
\* having applied a frame when it is queued.
Deliver(h, u) ==
  ptyDriver' = [d \in Daemons |-> IF h \in Hosts /\ DaemonOf[h] = d /\ attached[d] = h
                                  THEN u ELSE ptyDriver[d]]

SendSetDriver(g) ==
  /\ pc[g] = "send"
  /\ Deliver(dest[g], frame[g].user)
  /\ dest' = [dest EXCEPT ![g] = NoHost]
  /\ IF g \in Hosts
     THEN pc' = [pc EXCEPT ![g] = "loop"] /\ frame' = [frame EXCEPT ![g] = NoFrame]
     ELSE pc' = [pc EXCEPT ![g] = "notify"] /\ UNCHANGED frame
  /\ UNCHANGED <<now, registryVars, recips, sent, attached, restarts>>

\* f is sent to everyone in S.  The history forgets what was sent of earlier
\* generations, so that it stays small; what a client makes of the frames, it
\* takes them in the order they arrive, is not modelled.
Tell(S, f) ==
  LET Newest(F) == {x \in F : \A y \in F : y.gen <= x.gen}
  IN  sent' = [p \in Conns |-> IF p \in S THEN Newest(sent[p] \cup {f}) ELSE sent[p]]

\* where a handler resumes after its announcement: a participant that has
\* left still owes the others the roster
Resume(g) == IF g \in Conns \ members THEN "roster" ELSE "loop"

\* notifyDriverState
NotifyDriver(g) ==
  /\ pc[g] = "notify"
  /\ Tell(members, frame[g])
  /\ frame' = [frame EXCEPT ![g] = NoFrame]
  /\ pc' = [pc EXCEPT ![g] = Resume(g)]
  /\ UNCHANGED <<now, registryVars, dest, recips, daemonVars>>

-----------------------------------------------------------------------------
(* handleParticipant: joining and leaving.                                 *)

\* TryRegisterParticipant
Join(p) ==
  /\ pc[p] = "out" /\ seq < MaxSeq
  /\ Cardinality(members) < Limit
  /\ members' = members \cup {p}
  /\ sent' = [sent EXCEPT ![p] = {}]
  /\ pc' = [pc EXCEPT ![p] = "roster"]
  /\ UNCHANGED <<now, host, seatVars, localVars, daemonVars>>

\* notifyRoomState: the recipients are read first, the lease afterwards
RosterRecipients(p) ==
  /\ pc[p] = "roster"
  /\ recips' = [recips EXCEPT ![p] = members]
  /\ pc' = [pc EXCEPT ![p] = "rosterSend"]
  /\ UNCHANGED <<now, registryVars, frame, dest, sent, daemonVars>>

AutoAcquires(p) == AccessOf[p] = "control" /\ RoleOf[p] # "host"

SendRoster(p, t) ==
  /\ pc[p] = "rosterSend"
  /\ IF recips[p] = {} THEN UNCHANGED <<seatVars, sent>>
                       ELSE Collect(t) /\ Tell(recips[p], DriverAt(t))
  /\ recips' = [recips EXCEPT ![p] = {}]
  /\ pc' = [pc EXCEPT ![p] = IF p \notin members THEN "out"
                             ELSE IF AutoAcquires(p) THEN "acquire" ELSE "loop"]
  /\ UNCHANGED <<now, members, host, frame, dest, daemonVars>>

\* a control guest takes the seat if it is empty
AutoAcquire(p, t) ==
  /\ pc[p] = "acquire"
  /\ Acquire(p, t)
  /\ UNCHANGED <<now, members, host, sent, daemonVars>>

\* mutant: the connection stays in the registry
LeaveRegistered(p) ==
  /\ pc[p] = "loop" /\ p \in Conns
  /\ pc' = [pc EXCEPT ![p] = "release"]
  /\ UNCHANGED <<now, registryVars, localVars, sent, daemonVars>>

\* Read fails: the deferred cleanup unregisters the connection ...
Leave(p) ==
  /\ pc[p] = "loop" /\ p \in Conns
  /\ members' = members \ {p}
  /\ recips' = [g \in Conns |-> recips[g] \ {p}]
  /\ sent' = [sent EXCEPT ![p] = {}]
  /\ pc' = [pc EXCEPT ![p] = "release"]
  /\ UNCHANGED <<now, host, seatVars, frame, dest, daemonVars>>

\* mutant: a connection that leaves does not release the seat
ReleaseForgotten(p, t) ==
  /\ pc[p] = "release"
  /\ pc' = [pc EXCEPT ![p] = "roster"]
  /\ UNCHANGED <<now, registryVars, localVars, sent, daemonVars>>

\* ... and then releases the seat if it was its user's last one
ReleaseSeat(p, t) ==
  /\ pc[p] = "release"
  /\ Release(p, t)
  /\ UNCHANGED <<now, members, host, sent, daemonVars>>

-----------------------------------------------------------------------------
(* routeFromParticipant, the frames about the seat.                        *)

\* pty_input, pty_resize: forwarded or dropped without a change while a lease
\* is live; with none, everybody is told that the seat is empty
Input(p, t) ==
  /\ p \in Conns /\ pc[p] = "loop"
  /\ AccessOf[p] # "view" /\ ~Live(t)
  /\ Collect(t)
  /\ frame' = [frame EXCEPT ![p] = DriverAt(t)]
  /\ pc' = [pc EXCEPT ![p] = "notify"]
  /\ UNCHANGED <<now, members, host, dest, recips, sent, daemonVars>>

\* view access drops every frame about the seat first (participantInputTypes)
MayDrive(p) == AccessOf[p] # "view" /\ (AccessOf[p] = "control" \/ RoleOf[p] = "host")

\* driver_heartbeat: RenewDriver; when it fails the lease is read again
Heartbeat(p, t) ==
  /\ p \in Conns /\ pc[p] = "loop" /\ MayDrive(p)
  /\ IF Live(t) /\ lease.user = UserOf[p] /\ CanDrive(UserOf[p])
     THEN lease' = [lease EXCEPT !.exp = t + TTL] /\ UNCHANGED <<seq, pc>>
     ELSE Collect(t) /\ pc' = [pc EXCEPT ![p] = "reread"]
  /\ UNCHANGED <<now, members, host, localVars, sent, daemonVars>>

HeartbeatRefused(p, t) ==
  /\ pc[p] = "reread"
  /\ Collect(t)
  /\ frame' = [frame EXCEPT ![p] = DriverAt(t)]
  /\ pc' = [pc EXCEPT ![p] = "notify"]
  /\ UNCHANGED <<now, members, host, dest, recips, sent, daemonVars>>

\* driver_request
Request(p, t) ==
  /\ p \in Conns /\ pc[p] = "loop" /\ MayDrive(p) /\ seq < MaxSeq
  /\ Acquire(p, t)
  /\ UNCHANGED <<now, members, host, sent, daemonVars>>

\* set_driver from the operator's participant connection, or from the
\* control plane (handleControlDriver)
HandOff(g, u, t) ==
  /\ pc[g] = "loop" /\ seq < MaxSeq
  /\ g = Control \/ (g \in Conns /\ AccessOf[g] # "view" /\ RoleOf[g] = "host")
  /\ SetDriver(g, u, t)
  /\ UNCHANGED <<now, members, host, sent, daemonVars>>

-----------------------------------------------------------------------------
(* handleAgent and the daemon at its other end.                            *)

\* RegisterHostWithEpoch: the latest connection wins
HostJoin(h) ==
  /\ pc[h] = "out" /\ seq < MaxSeq
  /\ attached[DaemonOf[h]] = NoHost
  /\ attached' = [attached EXCEPT ![DaemonOf[h]] = h]
  /\ host' = h
  /\ pc' = [pc EXCEPT ![h] = "greet"]
  /\ UNCHANGED <<now, members, seatVars, localVars, sent, ptyDriver, restarts>>

\* a lease that is live is sent to the new host
Greet(h, t) ==
  /\ pc[h] = "greet"
  /\ Collect(t)
  /\ IF Live(t)
     THEN /\ frame' = [frame EXCEPT ![h] = DriverAt(t)]
          /\ dest' = [dest EXCEPT ![h] = h]
          /\ pc' = [pc EXCEPT ![h] = "send"]
     ELSE pc' = [pc EXCEPT ![h] = "loop"] /\ UNCHANGED <<frame, dest>>
  /\ UNCHANGED <<now, members, host, recips, sent, daemonVars>>

\* Read fails: unregister, unless another host has taken over; frames queued
\* for the connection are lost
HostLeave(h) ==
  /\ pc[h] = "loop" /\ h \in Hosts
  /\ host' = IF host = h THEN NoHost ELSE host
  /\ attached' = [d \in Daemons |-> IF attached[d] = h THEN NoHost ELSE attached[d]]
  /\ dest' = [g \in Handlers |-> IF dest[g] = h THEN NoHost ELSE dest[g]]
  /\ pc' = [pc EXCEPT ![h] = "out"]
  /\ UNCHANGED <<now, members, seatVars, frame, recips, sent, ptyDriver, restarts>>

\* the daemon's side of the connection drops before the relay notices
DaemonDrops(d) ==
  /\ attached[d] # NoHost
  /\ attached' = [attached EXCEPT ![d] = NoHost]
  /\ UNCHANGED <<now, registryVars, pc, localVars, sent, ptyDriver, restarts>>

\* clientd restarts a pty-host that exited: its driver starts afresh
PtyRestart(d) ==
  /\ restarts < MaxRestarts
  /\ restarts' = restarts + 1
  /\ ptyDriver' = [ptyDriver EXCEPT ![d] = InitialDriver]
  /\ UNCHANGED <<now, registryVars, pc, localVars, sent, attached>>

Tick ==
  /\ now < MaxTime
  /\ now' = now + 1
  /\ UNCHANGED <<registryVars, pc, localVars, sent, daemonVars>>

-----------------------------------------------------------------------------
\* the steps a handler takes by itself once it has begun
Step(g) ==
  \/ LookupHost(g) \/ SendSetDriver(g) \/ NotifyDriver(g) \/ RosterRecipients(g)
  \/ \E t \in Clock : SendRoster(g, t) \/ AutoAcquire(g, t) \/ ReleaseSeat(g, t)
                      \/ HeartbeatRefused(g, t) \/ Greet(g, t)

Next ==
  \/ \E g \in Handlers : Step(g)
  \/ \E p \in Conns : Join(p) \/ Leave(p)
  \/ \E p \in Conns, t \in Clock : Input(p, t) \/ Heartbeat(p, t) \/ Request(p, t)
  \/ \E g \in Conns \cup {Control}, u \in Users \cup {NoUser}, t \in Clock : HandOff(g, u, t)
  \/ \E h \in Hosts : HostJoin(h) \/ HostLeave(h)
  \/ \E d \in Daemons : DaemonDrops(d) \/ PtyRestart(d)
  \/ Tick

Spec == Init /\ [][Next]_vars

\* a goroutine that can run does run; frames, connections and the clock are
\* the environment's
FairSpec == Spec /\ \A g \in Handlers : WF_vars(Step(g))
-----------------------------------------------------------------------------
(* Properties.                                                             *)

Places == {"out", "roster", "rosterSend", "acquire", "loop", "release",
           "reread", "lookup", "send", "notify", "greet"}

\* The types of the registry and of the handlers' locals; a connection is
\* registered exactly from its Join to its Leave, and a lease never lasts
\* longer than its TTL.
TypeOK ==
  /\ now \in Nat /\ seq \in Nat /\ restarts \in Nat
  /\ members \subseteq Conns /\ host \in Hosts \cup {NoHost}
  /\ lease = NoLease \/ lease \in [user : Users, gen : Nat, exp : 1..(now + TTL)]
  /\ pc \in [Handlers -> Places]
  /\ frame \in [Handlers -> Frame]
  /\ dest \in [Handlers -> Hosts \cup {NoHost}]
  /\ recips \in [Conns -> SUBSET Conns]
  /\ sent \in [Conns -> SUBSET Frame]
  /\ attached \in [Daemons -> Hosts \cup {NoHost}]
  /\ ptyDriver \in [Daemons -> Users \cup {NoUser}]
  /\ \A p \in Conns : /\ pc[p] \in {"out", "release"} => p \notin members
                      /\ pc[p] \in {"acquire", "loop", "reread"} => p \in members
                      /\ pc[p] # "greet"
  /\ \A h \in Hosts : pc[h] \in {"out", "greet", "send", "loop"}
  /\ pc[Control] \in {"loop", "lookup", "send", "notify"}

\* the announcements of the seat: those some handler has in hand, and those
\* the connected participants were sent
Announced == {frame[g] : g \in Handlers} \cup UNION {sent[p] : p \in Conns}

\* A generation names one driver for good: two announcements with the same
\* generation agree, wherever they were read and however late they are sent,
\* and one that carries the current generation states the current holder.
GenerationNamesDriver ==
  /\ \A f, g \in Announced : f.gen = g.gen => f.user = g.user
  /\ \A f \in Announced : f.gen <= seq /\ (f.gen = seq => f.user = lease.user)
  /\ lease # NoLease => lease.gen = seq

\* A live lease whose holder has no connection left is about to be released:
\* one of the holder's connections stands between unregistering and
\* ReleaseDriverIfAbsent.  Nobody else's step can strand the seat.
AbsentHolderReleases ==
  lease # NoLease /\ ~Present(lease.user)
    => \E p \in Conns : UserOf[p] = lease.user /\ pc[p] = "release"

\* Nobody is driven out by somebody else's connection, request or disconnect:
\* while a lease is live and its holder connected, only an explicit hand-off
\* by the operator or the control plane changes the holder.
SeatNotStolen ==
  [][ Live(now) /\ Present(lease.user) /\ lease'.user # lease.user
        => \E g \in Conns \cup {Control}, u \in Users \cup {NoUser}, t \in Clock : HandOff(g, u, t)
    ]_vars

\* no handler is in the middle of something
Quiescent == \A g \in Handlers : pc[g] \in {"out", "loop"}

\* Once the handlers are idle the current lease has been announced to every
\* connected participant: no interleaving of joins, roster reads and changes
\* of the seat leaves one out.  That it is the last announcement sent is not
\* claimed: handlers announce under no lock, and frames may cross.
EveryoneTold ==
  Quiescent /\ lease # NoLease
    => \A p \in members : [user |-> lease.user, gen |-> lease.gen] \in sent[p]

\* A user whose last connection is gone loses the seat.
AbsentDriverVacates ==
  \A u \in Users : (lease.user = u /\ ~Present(u)) ~> (lease.user # u \/ Present(u))

\* docs/session-modes-and-mutual-access.md: the driver is the one person who
\* can really send keyboard input.  Once the handlers are idle, the daemon the
\* room's host is connected to accepts input from the holder of the lease.
HolderCanType ==
  \A d \in Daemons :
    Quiescent /\ Live(now) /\ attached[d] # NoHost /\ attached[d] = host
      => ptyDriver[d] = lease.user
=============================================================================
