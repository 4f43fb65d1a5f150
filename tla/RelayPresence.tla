---------------------------- MODULE RelayPresence ---------------------------
(***************************************************************************)
(* The presence feed of a relay node: RelayDrain's handlers and main, and  *)
(* a heartbeat goroutine per connection, put events on the bounded queue   *)
(* of HTTPPresenceReporter; its loop posts each event at most three times; *)
(* the control plane applies an event once (ApplyRelayPresence), keeping   *)
(* the roster of the session and the status by which nodes are selected.   *)
(*                                                                         *)
(* The connections are participants of one session pinned to this node.    *)
(* A post that times out at the reporter may still be applied later.       *)
(***************************************************************************)
EXTENDS RelayDrain, Sequences

CONSTANTS
  None,       \* the loop holds no event
  Cap,        \* PIE_CONTROL_PRESENCE_QUEUE
  MaxFails    \* bound on failed posts

VARIABLES
  queue,       \* HTTPPresenceReporter.queue
  open,        \* it is not closed
  sending,     \* the event the loop is posting
  tries,       \* its failed attempts
  late,        \* posted events the reporter gave up waiting for
  fails,       \* failed posts so far (bounded)
  beating,     \* connections whose presenceHeartbeat goroutine runs
  ticking,     \* main's node ticker goroutine runs
  seen,        \* control plane: presenceSeen, for the identifiers in use
  status,      \* control plane: Node.Status
  age,         \* control plane: the time since Node.LastHeartbeat
  roster,      \* control plane: the session's participants
  moved,       \* control plane: the session was moved to another node
  gap          \* history: an event was dropped, given up, or sent out of turn

feedVars == <<queue, open, sending, tries, late, fails, beating, ticking,
              seen, status, age, roster, moved, gap>>
vars == <<drainVars, feedVars>>

\* age: below the 15 s throttle, below the 90 s lease, beyond it
Ages == {"fresh", "recent", "stale"}
Event == [kind : {"node", "participant"}, conn : Conns \cup {NoOne},
          connected : BOOLEAN, heartbeat : BOOLEAN]
\* An event's identifier tells it from every other event.  It matters from the
\* first post on, and there are never more than these in use.
Ids == 0..MaxFails
Post == [id : Ids, event : Event]

ASSUME FeedConstants ==
  Cap \in Nat \ {0} /\ MaxFails \in Nat /\ None \notin Post

FeedInit ==
  /\ Init
  /\ queue = <<>> /\ open = TRUE /\ sending = None /\ tries = 0 /\ late = {} /\ fails = 0
  /\ beating = {} /\ ticking = TRUE
  /\ seen = {} /\ status = "ready" /\ age = "fresh" /\ roster = {} /\ moved = FALSE
  /\ gap = FALSE
-----------------------------------------------------------------------------
(* Report.                                                                 *)

\* emitPresence and Report: an event is dropped when the queue is full or closed.
\* outOfTurn: a heartbeat that follows its connection's disconnect
Report(kind, c, connected, heartbeat, outOfTurn) ==
  LET e == [kind |-> kind, conn |-> c, connected |-> connected, heartbeat |-> heartbeat]
      accepted == open /\ Len(queue) < Cap
  IN  /\ queue' = IF accepted THEN Append(queue, e) ELSE queue
      /\ gap' = (gap \/ outOfTurn \/ (~accepted /\ kind = "participant" /\ ~heartbeat))

\* reportPresence after TryRegisterParticipant; the heartbeat goroutine starts
ServeReport(c) ==
  /\ Serve(c)
  /\ Report("participant", c, TRUE, FALSE, FALSE)
  /\ beating' = beating \cup {c}
  /\ UNCHANGED <<open, sending, tries, late, fails, ticking, seen, status, age, roster, moved>>

\* the deferred cleanup reports the disconnect
DepartReport(c) ==
  /\ Depart(c)
  /\ Report("participant", c, FALSE, FALSE, FALSE)
  /\ UNCHANGED <<open, sending, tries, late, fails, beating, ticking,
                 seen, status, age, roster, moved>>

\* presenceHeartbeat: a tick, at any time until the goroutine sees the context done
Heartbeat(c) ==
  /\ Alive /\ c \in beating
  /\ Report("participant", c, TRUE, TRUE, pc[c] # "serving")
  /\ UNCHANGED <<drainVars, open, sending, tries, late, fails, beating, ticking,
                 seen, status, age, roster, moved>>

\* the request's context ends when its handler has returned
HeartbeatStops(c) ==
  /\ Alive /\ c \in beating /\ pc[c] = "gone"
  /\ beating' = beating \ {c}
  /\ UNCHANGED <<drainVars, queue, open, sending, tries, late, fails, ticking,
                 seen, status, age, roster, moved, gap>>

\* main's ticker goroutine, until it sees the signal
NodeTick ==
  /\ Alive /\ ticking
  /\ Report("node", NoOne, TRUE, TRUE, FALSE)
  /\ UNCHANGED <<drainVars, open, sending, tries, late, fails, beating, ticking,
                 seen, status, age, roster, moved>>

NodeTickStops ==
  /\ Alive /\ ticking /\ main # "run"
  /\ ticking' = FALSE
  /\ UNCHANGED <<drainVars, queue, open, sending, tries, late, fails, beating,
                 seen, status, age, roster, moved, gap>>

AnnounceReport ==
  /\ Announce
  /\ Report("node", NoOne, FALSE, FALSE, FALSE)
  /\ UNCHANGED <<open, sending, tries, late, fails, beating, ticking,
                 seen, status, age, roster, moved>>

ReporterClose ==
  /\ CloseReporter
  /\ open' = FALSE
  /\ UNCHANGED <<queue, sending, tries, late, fails, beating, ticking,
                 seen, status, age, roster, moved, gap>>

ReporterDrained ==
  /\ Exit
  /\ queue = <<>> /\ sending = None
  /\ UNCHANGED feedVars
-----------------------------------------------------------------------------
(* The control plane.                                                      *)

\* updateRelayNode: a heartbeat is not stored when the last one is fresh
UpdateRelayNode(online, force) ==
  IF ~force /\ age = "fresh"
  THEN UNCHANGED <<status, age>>
  ELSE status' = (IF online THEN "ready" ELSE "offline") /\ age' = "fresh"

\* the session is on another node, or in another generation: ErrForbidden
Forbidden(e) == e.kind = "participant" /\ moved

\* mutant: a heartbeat refreshes a participant but does not put one back
ApplyEventRefreshOnly(e) ==
  /\ UpdateRelayNode(e.kind = "participant" \/ e.connected, ~e.heartbeat)
  /\ roster' = IF e.kind = "node" \/ e.heartbeat THEN roster
               ELSE IF e.connected THEN roster \cup {e.conn} ELSE roster \ {e.conn}

\* the node, and then the participant (PutParticipant, DeleteParticipant)
ApplyEvent(e) ==
  /\ UpdateRelayNode(e.kind = "participant" \/ e.connected, ~e.heartbeat)
  /\ roster' = IF e.kind = "node" THEN roster
               ELSE IF e.connected THEN roster \cup {e.conn} ELSE roster \ {e.conn}

\* mutant: an event is applied every time it is received
ApplyEveryTime(post) == ApplyEvent(post.event) /\ seen' = seen \cup {post.id}

\* ApplyRelayPresence: an event that was applied before is left alone
Apply(post) ==
  IF post.id \in seen
  THEN UNCHANGED <<status, age, roster, seen>>
  ELSE ApplyEvent(post.event) /\ seen' = seen \cup {post.id}

\* time passes; now is compared with LastHeartbeat only
AgeNode ==
  /\ age' = CASE age = "fresh" -> "recent" [] age = "recent" -> "stale" [] OTHER -> age
  /\ age # "stale"
  /\ UNCHANGED <<drainVars, queue, open, sending, tries, late, fails, beating, ticking,
                 seen, status, roster, moved, gap>>

\* relayNodeCompatible: what SelectRelayNode requires of a node
Compatible == status = "ready" /\ age # "stale"

\* RecoverStaleRelaySessions: a new generation, without node and participants
Recover ==
  /\ ~moved /\ ~Compatible
  /\ moved' = TRUE /\ roster' = {}
  /\ UNCHANGED <<drainVars, queue, open, sending, tries, late, fails, beating, ticking,
                 seen, status, age, gap>>
-----------------------------------------------------------------------------
(* The reporter's loop.                                                    *)

InUse == {p.id : p \in late}
NewId == CHOOSE i \in Ids \ InUse : \A j \in Ids \ InUse : i <= j

\* the next event; identifiers that cannot come back are forgotten
Take ==
  /\ Alive /\ sending = None /\ queue # <<>>
  /\ sending' = [id |-> NewId, event |-> Head(queue)]
  /\ queue' = Tail(queue) /\ tries' = 0
  /\ seen' = seen \cap InUse
  /\ UNCHANGED <<drainVars, open, late, fails, beating, ticking,
                 status, age, roster, moved, gap>>

\* a 2xx answer
PostOk ==
  /\ Alive /\ sending # None /\ ~Forbidden(sending.event)
  /\ Apply(sending)
  /\ sending' = None /\ tries' = 0
  /\ UNCHANGED <<drainVars, queue, open, late, fails, beating, ticking, moved, gap>>

\* the attempt failed: after the third the event is given up
AttemptFails ==
  IF tries < 2
  THEN tries' = tries + 1 /\ UNCHANGED <<sending, gap>>
  ELSE /\ tries' = 0 /\ sending' = None
       /\ gap' = (gap \/ sending.event.kind = "participant")

\* ErrForbidden
PostForbidden ==
  /\ Alive /\ sending # None /\ Forbidden(sending.event)
  /\ AttemptFails
  /\ UNCHANGED <<drainVars, queue, open, late, fails, beating, ticking,
                 seen, status, age, roster, moved>>

\* the post is lost, or times out and is received later
PostLost ==
  /\ Alive /\ sending # None /\ fails < MaxFails
  /\ AttemptFails
  /\ fails' = fails + 1
  /\ late' \in {late, late \cup {sending}}
  /\ UNCHANGED <<drainVars, queue, open, beating, ticking,
                 seen, status, age, roster, moved>>

\* the node is updated and the participant's record cannot be stored
PostHalf ==
  /\ Alive /\ sending # None /\ fails < MaxFails
  /\ sending.event.kind = "participant" /\ ~moved /\ sending.id \notin seen
  /\ AttemptFails
  /\ UpdateRelayNode(TRUE, ~sending.event.heartbeat)
  /\ fails' = fails + 1
  /\ UNCHANGED <<drainVars, queue, open, late, beating, ticking, seen, roster, moved>>

\* a post that timed out is received after all, its answer goes nowhere
LateArrives(p) ==
  /\ p \in late /\ late' = late \ {p}
  /\ IF Forbidden(p.event) THEN UNCHANGED <<status, age, roster, seen>> ELSE Apply(p)
  /\ UNCHANGED <<drainVars, queue, open, sending, tries, fails, beating, ticking, moved, gap>>
-----------------------------------------------------------------------------
FeedNext ==
  \/ \E c \in Conns : HandlerStep(c) /\ UNCHANGED feedVars
  \/ MainStep /\ UNCHANGED feedVars
  \/ \E c \in Conns : ServeReport(c) \/ DepartReport(c) \/ Heartbeat(c) \/ HeartbeatStops(c)
  \/ AnnounceReport \/ ReporterClose \/ ReporterDrained \/ NodeTick \/ NodeTickStops
  \/ Take \/ PostOk \/ PostForbidden \/ PostLost \/ PostHalf
  \/ \E p \in late : LateArrives(p)
  \/ AgeNode \/ Recover

FeedSpec == FeedInit /\ [][FeedNext]_vars

\* The loop runs and the posts it makes end; a tick finds room in the queue
\* again and again when there is room again and again (15 s between ticks,
\* milliseconds for a post); the goroutines of the control plane run.
FeedFairness ==
  /\ WF_vars(Take) /\ WF_vars(PostOk) /\ WF_vars(PostForbidden)
  /\ \A c \in Conns : /\ SF_vars(Heartbeat(c) /\ Len(queue) < Cap)
                      /\ WF_vars(HeartbeatStops(c))
                      /\ WF_vars(Unregister(c) /\ UNCHANGED feedVars)
  /\ SF_vars(NodeTick /\ Len(queue) < Cap)
  /\ WF_vars(Recover)

FairFeedSpec == FeedSpec /\ FeedFairness
-----------------------------------------------------------------------------
(* Properties.                                                             *)

\* The control plane's roster of the session is exact: as long as no event
\* was dropped by the bounded queue, given up after three attempts or sent
\* after the disconnect, and the session is on the node, the roster is who is
\* connected once the feed has drained, whatever posts were repeated, timed
\* out or arrived after later ones.
RosterExact ==
  ~gap /\ ~moved /\ queue = <<>> /\ sending = None =>
    roster = {c \in Conns : pc[c] = "serving"}

\* docs/deployment-and-operations.md:175: the presence heartbeat restores the
\* control plane's state.  A connection that stays is in the roster again,
\* whatever was lost, unless its session was moved or the node is stopping.
HeartbeatRestores ==
  \A c \in Conns : pc[c] = "serving" ~>
    (c \in roster \/ pc[c] # "serving" \/ moved \/ main # "run")

\* the events the roster does not reflect yet: the one the loop is posting,
\* unless a copy of it was received, and the queue
Unapplied ==
  (IF sending # None /\ sending.id \notin seen THEN <<sending.event>> ELSE <<>>) \o queue

\* The feed implements RosterReplica: posts that are repeated, time out or
\* arrive late never make the roster go back or skip an event, until one is
\* dropped, given up or sent out of turn, or the session is moved.
Replica == INSTANCE RosterReplica
  WITH Events <- Event, present <- {c \in Conns : pc[c] = "serving"}, news <- Unapplied,
       lost <- gap \/ moved
ReplicaSpec == Replica!Spec
=============================================================================
