---------------------------- MODULE RelayGateway ----------------------------
(* The host gateway's registration with the mobile relay: RelayGateway     *)
(* (relay-gateway.ts) with its control client (relay-control-client.ts)    *)
(* and data transport (relay-transport.ts) on one side, the relay's host   *)
(* record and phone connections (mobile.go) on the other.                  *)
(*                                                                         *)
(* The process calls start() once, and stop() only after that: if the      *)
(* first attempt fails the process ends.  So one attempt runs at a time,   *)
(* and "stopped" fences it.  The relay counts generations, from 1 again    *)
(* after a restart; a secret is random, so a new one is any value that is  *)
(* not in use.                                                             *)
EXTENDS Naturals, Sequences, FiniteSets, Functions

CONSTANTS
    Links,        \* control connections that can exist at once
    Transports,   \* transport objects that can exist at once
    Secrets,      \* control resume secrets
    MaxGen,       \* bound: generations a relay counts between restarts
    MaxConns,     \* bound: phone connections over the whole run
    MaxFaults     \* bound: lost links, failed requests and relay restarts

ASSUME GatewayAssumption ==
    /\ 0 \notin Links /\ 0 \notin Transports /\ 0 \notin Secrets
    /\ MaxGen \in Nat /\ MaxConns \in Nat /\ MaxFaults \in Nat

VARIABLES
    stopped,      \* this.stopped (also: the process has ended)
    control,      \* this.control, by its link; 0 for null
    timer,        \* this.reconnectTimer is armed
    att,          \* the establishControl() in flight (phase "none": none)
    secret,       \* this.controlResumeSecret, 0 when undefined
    transport,    \* this.transport, 0 for null
    gen,          \* each transport's generation
    attached,     \* transports attached to the socket wiring
    sockets,      \* host data sockets
    links,        \* each control connection, as the network has it
    rec,          \* the relay's record of the host (gen 0: none)
    acking,       \* hellos the relay has recorded but not yet answered
    conns,        \* the relay's phone connections
    opened,       \* phone connections so far
    faults        \* faults so far

gatewayVars == <<stopped, control, timer, att, secret, transport, gen, attached>>
netVars == <<sockets, links>>
relayVars == <<rec, acking, conns, opened>>
vars == <<gatewayVars, netVars, relayVars, faults>>

NoAttempt == [phase |-> "none", link |-> 0, tr |-> 0, prev |-> 0, first |-> FALSE,
              gen |-> 0, secret |-> 0]
NoHost == [gen |-> 0, secret |-> 0, control |-> 0]
NoLink == [up |-> FALSE, hello |-> "none", secret |-> 0, tr |-> 0, inbox |-> <<>>]

Gens == 1..MaxGen

(* Fresh names are taken in order: nothing depends on which one it is.     *)
Least(S) == {x \in S : \A y \in S : x <= y}

(* A link nobody refers to any more can carry a new connection.            *)
Unused(l) ==
    /\ l # control /\ l # att.link /\ l # rec.control
    /\ \A a \in acking : a.link # l

SocketsOf(t) == {s \in sockets : s.tr = t}

Free(t) == t \notin attached /\ SocketsOf(t) = {}

(* terminate(): the sockets' close events are still to come.               *)
Terminated(t) == {IF s.tr = t THEN [s EXCEPT !.st = "dead"] ELSE s : s \in sockets}

(* closeNow(): what was still to be read is dropped.                       *)
Closed(l) == [links EXCEPT ![l].up = FALSE, ![l].inbox = <<>>]

(***************************************************************************)
(* The gateway                                                             *)
(***************************************************************************)

(* The event loop is free: the microtask that continues an acknowledged    *)
(* attempt runs before the next timer or socket event.                     *)
Idle == att.phase # "acked"

(* The reconnect timer fires: establishControl() begins.                   *)
TimerFires ==
    /\ Idle
    /\ timer
    /\ timer' = FALSE
    /\ att' = IF stopped \/ control # 0 THEN att ELSE [NoAttempt EXCEPT !.phase = "assign"]
    /\ UNCHANGED <<stopped, control, secret, transport, gen, attached, netVars, relayVars, faults>>

(* The assignment and the identity have arrived.  The transport is kept    *)
(* when the cell is the same, else a new one is attached beside it; then   *)
(* the control client opens its socket, with the secret as it stands.      *)
Assigned ==
    /\ att.phase = "assign"
    /\ \E t \in Transports, l \in Links :
          /\ l \in Least({k \in Links : Unused(k)})
          /\ \/ t = transport /\ UNCHANGED <<gen, attached>>
             \/ /\ t \in Least({u \in Transports : Free(u)})
                /\ gen' = [gen EXCEPT ![t] = 0]
                /\ attached' = attached \cup {t}
          /\ att' = [att EXCEPT !.phase = "connect", !.link = l, !.tr = t, !.prev = transport]
          /\ links' = [links EXCEPT ![l] = [up |-> TRUE, hello |-> "sent", secret |-> secret,
                                            tr |-> t, inbox |-> <<>>]]
    /\ UNCHANGED <<stopped, control, timer, secret, transport, sockets, relayVars, faults>>

(* mutant: a failed reconnect is not followed by another *)
EndedNotRetried(stop, ctl) == /\ att' = NoAttempt /\ stopped' = stop /\ UNCHANGED timer

(* The promise of the attempt settles: start() gives up when it fails, the *)
(* timer's attempt schedules the next one while there is no control.       *)
Ended(stop, ctl) ==
    /\ att' = NoAttempt
    /\ stopped' = stop
    /\ timer' = (timer \/ (~att.first /\ ~stop /\ ctl = 0))

(* mutant: a failed attempt also drops the transport it was reusing *)
AttemptFailsDropsReused ==
    /\ links' = IF att.link = 0 THEN links ELSE Closed(att.link)
    /\ attached' = attached \ {att.tr}
    /\ sockets' = Terminated(att.tr)
    /\ att' = [att EXCEPT !.phase = "failing", !.prev = att.tr]
    /\ UNCHANGED <<stopped, timer, control, secret, transport, gen>>

(* The attempt fails: closeNow().  A transport it had attached is detached *)
(* and stopped, and the failure waits for that.                            *)
AttemptFails ==
    /\ links' = IF att.link = 0 THEN links ELSE Closed(att.link)
    /\ \/ /\ att.tr = att.prev
          /\ Ended(stopped \/ att.first, control)
          /\ UNCHANGED <<attached, sockets>>
       \/ /\ att.tr # att.prev
          /\ attached' = attached \ {att.tr}
          /\ sockets' = Terminated(att.tr)
          /\ att' = [att EXCEPT !.phase = "failing", !.prev = att.tr]
          /\ UNCHANGED <<stopped, timer>>
    /\ UNCHANGED <<control, secret, transport, gen>>

(* The assignment or the identity request fails.                           *)
AssignFails ==
    /\ att.phase = "assign"
    /\ faults < MaxFaults
    /\ faults' = faults + 1
    /\ AttemptFails
    /\ UNCHANGED relayVars

(* mutant: the generation changes under open data sockets *)
SetGenerationRefusesNever(t, g) == FALSE

(* setGeneration() throws: the generation differs and sockets are open.    *)
SetGenerationRefuses(t, g) == gen[t] # g /\ SocketsOf(t) # {}

(* mutant: an attempt overtaken by stop() goes on *)
FencedNever == FALSE

(* The attempt was overtaken by stop().                                    *)
Fenced == stopped

(* connect() has returned the acknowledgement: the attempt goes on.        *)
Activate ==
    /\ att.phase = "acked"
    /\ \/ /\ Fenced \/ SetGenerationRefuses(att.tr, att.gen)
          /\ AttemptFails
       \/ /\ ~Fenced
          /\ ~SetGenerationRefuses(att.tr, att.gen)
          /\ gen' = [gen EXCEPT ![att.tr] = att.gen]
          /\ secret' = att.secret
          /\ control' = att.link
          /\ transport' = att.tr
          /\ \/ /\ att.prev \in {0, att.tr}
                /\ Ended(stopped, att.link)
                /\ UNCHANGED <<attached, sockets>>
             \/ /\ att.prev \notin {0, att.tr}
                /\ attached' = attached \ {att.prev}
                /\ sockets' = Terminated(att.prev)
                /\ att' = [att EXCEPT !.phase = "settle"]
                /\ UNCHANGED <<stopped, timer>>
          /\ UNCHANGED links
    /\ UNCHANGED <<relayVars, faults>>

(* The transport that was stopped has no socket left: the attempt ends,    *)
(* and the failure of start() is final.                                    *)
Settled ==
    /\ att.phase \in {"settle", "failing"}
    /\ SocketsOf(att.prev) = {}
    /\ Ended(stopped \/ (att.phase = "failing" /\ att.first), control)
    /\ UNCHANGED <<control, secret, transport, gen, attached, netVars, relayVars, faults>>

(* stop(), at the end of the process.                                      *)
Stop ==
    /\ Idle
    /\ ~stopped
    /\ ~att.first
    /\ stopped' = TRUE
    /\ timer' = FALSE
    /\ control' = 0
    /\ transport' = 0
    /\ secret' = 0
    /\ links' = IF control = 0 THEN links ELSE Closed(control)
    /\ attached' = attached \ {transport}
    /\ sockets' = Terminated(transport)
    /\ UNCHANGED <<att, gen, relayVars, faults>>

(* onConnectionOpen: the transport dials the relay for that connection,    *)
(* unless it has stopped or already has a socket for it.                   *)
OpenConnection(t, c) ==
    IF t \in attached /\ \A s \in sockets : s.tr = t => s.conn # c
    THEN sockets \cup {[conn |-> c, tr |-> t, st |-> "opening", gen |-> 0]}
    ELSE sockets

(* A message on the control connection.  While the hello is unanswered the *)
(* only message allowed is the answer; a connection announced before it    *)
(* fails the attempt.  Messages of one network read are handled before the *)
(* attempt goes on, so an announcement may precede Activate.               *)
Receive(l) ==
    /\ links[l].inbox # <<>>
    /\ LET m == Head(links[l].inbox)
           rest == [links EXCEPT ![l].inbox = Tail(@)]
       IN  \/ /\ att.link = l /\ att.phase = "connect" /\ m.type = "ack"
              /\ att' = [att EXCEPT !.phase = "acked", !.gen = m.gen, !.secret = m.secret]
              /\ links' = rest
              /\ UNCHANGED <<stopped, control, timer, secret, transport, gen, attached, sockets>>
           \/ /\ att.link = l /\ att.phase = "connect" /\ m.type = "conn-open"
              /\ AttemptFails
           \/ /\ control = l \/ (att.link = l /\ att.phase = "acked")
              /\ m.type = "conn-open"
              /\ sockets' = OpenConnection(links[l].tr, m.conn)
              /\ links' = rest
              /\ UNCHANGED gatewayVars
    /\ UNCHANGED <<relayVars, faults>>

(* mutant: a reconnect is scheduled although an attempt is running *)
ControlClosesAlwaysArms(l) ==
    /\ control = l
    /\ control' = 0
    /\ timer' = ~stopped
    /\ UNCHANGED <<stopped, att, secret, transport, gen, attached, netVars>>

(* onClose of the active control: a reconnect is scheduled unless the      *)
(* gateway has stopped or an attempt is still running.                     *)
ControlCloses(l) ==
    /\ control = l
    /\ control' = 0
    /\ timer' = (timer \/ (~stopped /\ att.phase = "none"))
    /\ UNCHANGED <<stopped, att, secret, transport, gen, attached, netVars>>

(* The close event of a control socket: of the active one, or of one whose *)
(* hello is still unanswered.                                              *)
HandleClose(l) ==
    /\ Idle
    /\ ~links[l].up /\ links[l].inbox = <<>>
    /\ \/ ControlCloses(l)
       \/ att.link = l /\ att.phase = "connect" /\ AttemptFails
    /\ UNCHANGED <<relayVars, faults>>

(* A data socket opens and presents the transport's generation.            *)
SocketOpens(s) ==
    /\ Idle
    /\ s.st = "opening"
    /\ sockets' = (sockets \ {s}) \cup {[s EXCEPT !.st = "auth", !.gen = gen[s.tr]]}
    /\ UNCHANGED <<gatewayVars, links, relayVars, faults>>

(* It fails, or attachDeadlineMs passes before a message came: terminate() *)
SocketFails(s) ==
    /\ Idle
    /\ s.st # "dead"
    /\ sockets' = (sockets \ {s}) \cup {[s EXCEPT !.st = "dead"]}
    /\ UNCHANGED <<gatewayVars, links, relayVars, faults>>

(* Its close event: finalize() forgets it.                                 *)
SocketCloses(s) ==
    /\ Idle
    /\ s.st = "dead" \/ \A c \in conns : c.id # s.conn
    /\ sockets' = sockets \ {s}
    /\ UNCHANGED <<gatewayVars, links, relayVars, faults>>

(***************************************************************************)
(* The relay                                                               *)
(***************************************************************************)

(* Messages on their way to the gateway, or about to be.                   *)
InFlight == acking \cup UNION {Range(links[l].inbox) : l \in Links}

SecretsInUse == {secret, rec.secret, att.secret} \cup {m.secret : m \in InFlight}
                \cup {links[l].secret : l \in Links}

(* The host resumes its generation when it knows the last secret.          *)
Resumes(l) == rec.gen # 0 /\ links[l].secret # 0 /\ links[l].secret = rec.secret

(* The first generation after a restart is 1: there is no record then.     *)
NewGeneration(l) == IF Resumes(l) THEN rec.gen ELSE rec.gen + 1

(* mutant: a record that is replaced keeps its secret *)
HostRecordKeepsSecret(l, g, k) ==
    [gen |-> g, secret |-> IF rec.gen = 0 THEN k ELSE rec.secret, control |-> l]

HostRecord(l, g, k) == [gen |-> g, secret |-> k, control |-> l]

(* handleHostControl, up to the unlock: the record names this connection,  *)
(* with a new secret, and the control it replaces is closed.  The hello of *)
(* a connection that was given up may still be read.                       *)
HostHello(l) ==
    /\ links[l].hello = "sent"
    /\ NewGeneration(l) <= MaxGen
    /\ \E k \in Least(Secrets \ SecretsInUse) :
          /\ rec' = HostRecord(l, NewGeneration(l), k)
          /\ acking' = acking \cup {[link |-> l, gen |-> NewGeneration(l), secret |-> k]}
    /\ links' = [i \in Links |->
                    IF i = l THEN [links[i] EXCEPT !.hello = "done", !.secret = 0]
                    ELSE IF i = rec.control THEN [links[i] EXCEPT !.up = FALSE]
                    ELSE links[i]]
    /\ UNCHANGED <<gatewayVars, sockets, conns, opened, faults>>

Send(l, m) == [links EXCEPT ![l].inbox = Append(@, m)]

ClearControl(l) == IF rec.control = l THEN [rec EXCEPT !.control = 0] ELSE rec

(* The acknowledgement is written after the unlock.  On a connection that  *)
(* is lost the write fails, or nobody has noticed the loss yet.            *)
HostAck(a) ==
    /\ acking' = acking \ {a}
    /\ \/ /\ links[a.link].up
          /\ links' = Send(a.link, [type |-> "ack", conn |-> 0, gen |-> a.gen, secret |-> a.secret])
          /\ UNCHANGED rec
       \/ /\ ~links[a.link].up
          /\ rec' \in {rec, ClearControl(a.link)}
          /\ UNCHANGED links
    /\ UNCHANGED <<gatewayVars, sockets, conns, opened, faults>>

(* The relay's read of a lost control connection fails.                    *)
ControlReadFails(l) ==
    /\ rec.control = l
    /\ ~links[l].up
    /\ \A a \in acking : a.link # l
    /\ rec' = ClearControl(l)
    /\ UNCHANGED <<gatewayVars, netVars, acking, conns, opened, faults>>

(* handlePhone: a phone with a valid credential connects, and the host is  *)
(* told on its control connection.  The message is written after the       *)
(* unlock; nobody but the host learns of the connection in between, and a  *)
(* control that is lost or replaced meanwhile is one that loses it here.   *)
PhoneConnects ==
    /\ opened < MaxConns
    /\ rec.control # 0
    /\ opened' = opened + 1
    /\ conns' = conns \cup {[id |-> opened + 1, gen |-> rec.gen]}
    /\ links' = IF links[rec.control].up
                THEN Send(rec.control, [type |-> "conn-open", conn |-> opened + 1,
                                        gen |-> 0, secret |-> 0])
                ELSE links
    /\ UNCHANGED <<gatewayVars, sockets, rec, acking, faults>>

(* The phone leaves, the attach deadline passes, or the host's data socket *)
(* ends: closeConnection.                                                  *)
ConnectionEnds(c) ==
    /\ conns' = conns \ {c}
    /\ UNCHANGED <<gatewayVars, netVars, rec, acking, opened, faults>>

(* handleHostData: a data socket for a live connection with the right      *)
(* generation attaches; any other is closed.                               *)
HostData(s) ==
    /\ s.st = "auth"
    /\ sockets' = (sockets \ {s}) \cup
          {[s EXCEPT !.st = IF \E c \in conns : c.id = s.conn /\ c.gen = s.gen
                            THEN "attached" ELSE "dead"]}
    /\ UNCHANGED <<gatewayVars, links, relayVars, faults>>

(***************************************************************************)
(* Faults                                                                  *)
(***************************************************************************)

(* A control connection is lost, with what was still on its way or not.    *)
LinkLost(l) ==
    /\ links[l].up
    /\ faults < MaxFaults
    /\ faults' = faults + 1
    /\ \/ links' = Closed(l)
       \/ links' = [links EXCEPT ![l].up = FALSE]
    /\ UNCHANGED <<gatewayVars, sockets, relayVars>>

(* The relay restarts: host records and connections are in memory only.    *)
RelayRestarts ==
    /\ faults < MaxFaults
    /\ faults' = faults + 1
    /\ rec' = NoHost
    /\ acking' = {}
    /\ conns' = {}
    /\ links' = [l \in Links |-> [links[l] EXCEPT !.up = FALSE, !.hello = "done", !.secret = 0, !.inbox = <<>>]]
    /\ UNCHANGED <<gatewayVars, sockets, opened>>

(***************************************************************************)
(* The specification                                                       *)
(***************************************************************************)

(* start() has been called.                                                *)
Init ==
    /\ stopped = FALSE
    /\ control = 0
    /\ timer = FALSE
    /\ att = [NoAttempt EXCEPT !.phase = "assign", !.first = TRUE]
    /\ secret = 0
    /\ transport = 0
    /\ gen = [t \in Transports |-> 0]
    /\ attached = {}
    /\ sockets = {}
    /\ links = [l \in Links |-> NoLink]
    /\ rec = NoHost
    /\ acking = {}
    /\ conns = {}
    /\ opened = 0
    /\ faults = 0

Next ==
    \/ TimerFires
    \/ Assigned
    \/ AssignFails
    \/ Activate
    \/ Settled
    \/ Stop
    \/ \E l \in Links : Receive(l)
    \/ \E l \in Links : HandleClose(l)
    \/ \E s \in sockets : SocketOpens(s)
    \/ \E s \in sockets : SocketFails(s)
    \/ \E s \in sockets : SocketCloses(s)
    \/ \E l \in Links : HostHello(l)
    \/ \E a \in acking : HostAck(a)
    \/ \E l \in Links : ControlReadFails(l)
    \/ PhoneConnects
    \/ \E c \in conns : ConnectionEnds(c)
    \/ \E s \in sockets : HostData(s)
    \/ \E l \in Links : LinkLost(l)
    \/ RelayRestarts

Spec == Init /\ [][Next]_vars

(* The event loop and the relay go on, a connection that is up delivers,   *)
(* and a data socket on which nothing came is given up at its deadline.    *)
(* Nobody has to notice that a connection is lost, and nothing ends a      *)
(* phone's session that is attached: the code has no deadline for either.  *)
Fairness ==
    /\ WF_vars(TimerFires) /\ WF_vars(Assigned) /\ WF_vars(Activate) /\ WF_vars(Settled)
    /\ \A l \in Links : WF_vars(Receive(l)) /\ WF_vars(links[l].up /\ HostHello(l))
    /\ WF_vars(\E a \in acking : HostAck(a))
    /\ SF_vars(\E s \in sockets : \/ s.st \in {"opening", "auth"} /\ SocketFails(s)
                                  \/ s.st = "dead" /\ SocketCloses(s))

FairSpec == Spec /\ Fairness

(***************************************************************************)
(* Properties                                                              *)
(***************************************************************************)

(* Types.                                                                  *)
TypeOK ==
    /\ stopped \in BOOLEAN
    /\ control \in Links \cup {0}
    /\ timer \in BOOLEAN
    /\ att.phase \in {"none", "assign", "connect", "acked", "settle", "failing"}
    /\ att.link \in Links \cup {0}
    /\ att.tr \in Transports \cup {0}
    /\ secret \in Secrets \cup {0}
    /\ attached \subseteq Transports
    /\ transport \in attached \cup {0}
    /\ gen \in [Transports -> Gens \cup {0}]
    /\ \A s \in sockets :
          /\ s.conn \in 1..MaxConns
          /\ s.tr \in Transports
          /\ s.st \in {"opening", "auth", "attached", "dead"}
    /\ \A l \in Links : links[l].up \in BOOLEAN
    /\ rec.gen \in Gens \cup {0}
    /\ rec.control \in Links \cup {0}
    /\ opened \in 0..MaxConns
    /\ faults \in 0..MaxFaults

(* A gateway that has not stopped has a control, a reconnect timer or an   *)
(* attempt: no order of close events and failures strands it.              *)
NeverStranded == stopped \/ control # 0 \/ timer \/ att.phase # "none"

(* No two attempts run at once: the timer is not armed during one, and one *)
(* that has not been acknowledged runs only while there is no control.     *)
OneAttempt ==
    /\ att.phase # "none" => ~timer
    /\ att.phase \in {"assign", "connect", "acked"} => control = 0

(* There is always one way back to a registration, and never two.          *)
OneWayBack == NeverStranded /\ OneAttempt

(* When both ends hold the same control connection, they agree on the      *)
(* generation data sockets present and on the secret of the next resume.   *)
BothEndsAgree ==
    control # 0 /\ rec.control = control =>
        /\ gen[transport] = rec.gen
        /\ secret = rec.secret

(* Once stopped with nothing in flight, the gateway holds no control       *)
(* connection and no transport is wired to the sockets.                    *)
StopIsFinal ==
    stopped /\ att.phase = "none" =>
        /\ control = 0
        /\ attached = {}
        /\ \A s \in sockets : s.st = "dead"

(* While the gateway is registered its data sockets present the generation *)
(* it registered: no registration changed it under them.  It is the one    *)
(* the relay expects of the connections of its own current generation.     *)
AttachMatches ==
    control # 0 =>
        \A s \in sockets : s.st = "auth" =>
            /\ s.gen = gen[transport]
            /\ \A c \in conns : c.id = s.conn /\ c.gen = rec.gen => s.gen = c.gen

Registered == control # 0 /\ rec.control = control /\ links[control].up

(* A phone's session through the gateway is open: setGeneration() refuses  *)
(* a new generation for as long as the phone holds it.                     *)
HeldUp == \E s \in sockets : s.st = "attached"

(* The connection the gateway relies on is lost and it has not noticed.    *)
Unnoticed ==
    \E l \in Links : ~links[l].up /\ (l = control \/ (l = att.link /\ att.phase = "connect"))

(* Whatever is lost, and whenever the relay restarts, the gateway          *)
(* registers again, unless it has been stopped, phones hold it up or it    *)
(* never notices the loss.                                                 *)
Reregisters == []<>(stopped \/ Registered \/ HeldUp \/ Unnoticed \/ rec.gen = MaxGen)
=============================================================================
