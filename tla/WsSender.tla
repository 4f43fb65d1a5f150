------------------------------ MODULE WsSender ------------------------------
(***************************************************************************)
(* The relay's per-connection send path (server.go, type wsSender): many   *)
(* goroutines call Send, one writer goroutine drains two bounded lanes     *)
(* (control before output) onto the websocket, and shutdown closes the     *)
(* connection exactly once, from whichever goroutine gets there first.     *)
(*                                                                         *)
(* Every region the code runs under s.mu, and every channel operation, is  *)
(* one step; the socket (wsConn) is external and may fail a write at any   *)
(* time.                                                                   *)
(***************************************************************************)
EXTENDS Integers, Sequences

CONSTANTS
  Callers,       \* goroutines that call Send (read loops, handlers, control API)
  Sizes,         \* possible payload sizes, in bytes
  QueueCap,      \* sendQueueCap: messages per lane
  ByteLimit,     \* controlQueueByteLimit = outputQueueByteLimit
  MaxSends       \* bound: number of Send calls explored

ASSUME SenderConstants ==
  /\ Sizes \subseteq Nat
  /\ QueueCap \in Nat /\ ByteLimit \in Nat /\ MaxSends \in Nat
  /\ "writer" \notin Callers /\ "closer" \notin Callers

Lanes  == {"control", "output"}               \* trafficClass
\* queuedMessage: the payload is its serial number, in the order of the calls
Message == [id : Nat, class : Lanes, size : Sizes]
NoMsg  == [id |-> 0, class |-> "none", size |-> 0]
\* the goroutines that may run shutdown: a sender on overflow, the writer
\* on a failed write or a cancelled context, and "closer": a handler's
\* deferred cleanup, an operator's disconnect or the drain
Procs  == Callers \cup {"writer", "closer"}

VARIABLES
  pc,          \* where each goroutine stands
  closed,      \* s.closed
  queue,       \* s.control and s.output, by lane
  bytes,       \* s.controlBytes and s.outputBytes, by lane
  wake,        \* the one-slot channel s.wake holds a token
  shut,        \* how far the body of s.once has run: 0 .. 3
  done,        \* s.done is closed
  connOpen,    \* the websocket has not been closed
  ctxDone,     \* the connection's context is cancelled
  inflight,    \* the message the writer popped and has not yet seen written
  sends,       \* number of Send calls so far (bounds the model)
  accepted,    \* history: messages enqueued, by lane
  written      \* history: messages written to the socket, by lane

vars == <<pc, closed, queue, bytes, wake, shut, done, connOpen, ctxDone,
          inflight, sends, accepted, written>>

shutdownVars == <<shut, done, connOpen>>
laneVars     == <<queue, bytes, accepted>>

Init ==
  /\ pc = [p \in Procs |-> IF p = "writer" THEN "pop" ELSE "idle"]
  /\ closed = FALSE
  /\ queue = [l \in Lanes |-> <<>>]
  /\ bytes = [l \in Lanes |-> 0]
  /\ wake = FALSE
  /\ shut = 0
  /\ done = FALSE
  /\ connOpen = TRUE
  /\ ctxDone = FALSE
  /\ inflight = NoMsg
  /\ sends = 0
  /\ accepted = [l \in Lanes |-> <<>>]
  /\ written = [l \in Lanes |-> <<>>]

-----------------------------------------------------------------------------
(* Send and sendClass.                                                     *)

\* mutant: the byte check forgets the message being added
OverflowWithoutNew(m) ==
  \/ Len(queue[m.class]) >= QueueCap
  \/ bytes[m.class] > ByteLimit

\* The lane is full: too many messages, or too many bytes with this one.
Overflow(m) ==
  \/ Len(queue[m.class]) >= QueueCap
  \/ bytes[m.class] + m.size > ByteLimit

\* append to the message's lane, and account for its bytes
Enqueue(m) ==
  /\ queue'    = [queue EXCEPT ![m.class] = Append(@, m)]
  /\ bytes'    = [bytes EXCEPT ![m.class] = @ + m.size]
  /\ accepted' = [accepted EXCEPT ![m.class] = Append(@, m)]

\* The region of sendClass under s.mu: refuse when closed, note an overflow
\* (to be acted on after the unlock), or enqueue.
Send(c, class, size) ==
  LET m == [id |-> sends + 1, class |-> class, size |-> size] IN
  /\ pc[c] = "idle"
  /\ sends < MaxSends
  /\ sends' = sends + 1
  /\ \/ /\ closed                              \* errSenderClosed
        /\ UNCHANGED <<pc, laneVars>>
     \/ /\ ~closed /\ Overflow(m)
        /\ pc' = [pc EXCEPT ![c] = "shutdown"]
        /\ UNCHANGED laneVars
     \/ /\ ~closed /\ ~Overflow(m)
        /\ Enqueue(m)
        /\ pc' = [pc EXCEPT ![c] = "wake"]
  /\ UNCHANGED <<closed, wake, shutdownVars, ctxDone, inflight, written>>

\* mutant: an unbuffered wake, lost unless the writer already blocks in select
WakeUnbuffered(c) ==
  /\ pc[c] = "wake"
  /\ \/ pc["writer"] = "select" /\ wake' = TRUE
     \/ UNCHANGED wake
  /\ pc' = [pc EXCEPT ![c] = "idle"]
  /\ UNCHANGED <<closed, laneVars, shutdownVars, ctxDone, inflight, sends, written>>

\* select { case s.wake <- struct{}{}: default: }
Wake(c) ==
  /\ pc[c] = "wake"
  /\ wake' = TRUE
  /\ pc' = [pc EXCEPT ![c] = "idle"]
  /\ UNCHANGED <<closed, laneVars, shutdownVars, ctxDone, inflight, sends, written>>

-----------------------------------------------------------------------------
(* popNext and writeLoop.                                                  *)

\* control drains before output
NextLane == IF queue["control"] # <<>> THEN "control" ELSE "output"

\* mutant: the popped payload's bytes are charged to the output lane
PopNextWrongLane ==
  /\ pc["writer"] = "pop"
  /\ IF queue[NextLane] # <<>>
     THEN /\ inflight' = Head(queue[NextLane])
          /\ queue' = [queue EXCEPT ![NextLane] = Tail(@)]
          /\ bytes' = [bytes EXCEPT !["output"] = @ - Head(queue[NextLane]).size]
          /\ pc' = [pc EXCEPT !["writer"] = "write"]
     ELSE /\ pc' = [pc EXCEPT !["writer"] = "select"]
          /\ UNCHANGED <<inflight, queue, bytes>>
  /\ UNCHANGED <<closed, wake, shutdownVars, ctxDone, sends, accepted, written>>

\* mutant: writeLoop ignores popNext's second result
PopNextOkIgnored ==
  /\ pc["writer"] = "pop"
  /\ pc' = [pc EXCEPT !["writer"] = "write"]
  /\ IF queue[NextLane] # <<>>
     THEN /\ inflight' = Head(queue[NextLane])
          /\ queue' = [queue EXCEPT ![NextLane] = Tail(@)]
          /\ bytes' = [bytes EXCEPT ![NextLane] = @ - Head(queue[NextLane]).size]
     ELSE UNCHANGED <<inflight, queue, bytes>>
  /\ UNCHANGED <<closed, wake, shutdownVars, ctxDone, sends, accepted, written>>

\* the region of popNext under s.mu
PopNext ==
  /\ pc["writer"] = "pop"
  /\ IF queue[NextLane] # <<>>
     THEN /\ inflight' = Head(queue[NextLane])
          /\ queue' = [queue EXCEPT ![NextLane] = Tail(@)]
          /\ bytes' = [bytes EXCEPT ![NextLane] = @ - Head(queue[NextLane]).size]
          /\ pc' = [pc EXCEPT !["writer"] = "write"]
     ELSE /\ pc' = [pc EXCEPT !["writer"] = "select"]
          /\ UNCHANGED <<inflight, queue, bytes>>
  /\ UNCHANGED <<closed, wake, shutdownVars, ctxDone, sends, accepted, written>>

\* c.Write succeeds, which a closed websocket or a cancelled context excludes
WriteOk ==
  /\ pc["writer"] = "write"
  /\ connOpen /\ ~ctxDone
  /\ written' = [written EXCEPT ![inflight.class] = Append(@, inflight)]
  /\ inflight' = NoMsg
  /\ pc' = [pc EXCEPT !["writer"] = "pop"]
  /\ UNCHANGED <<closed, laneVars, wake, shutdownVars, ctxDone, sends>>

\* mutant: a failed write is skipped and the loop goes on
WriteFailContinues ==
  /\ pc["writer"] = "write"
  /\ inflight' = NoMsg
  /\ pc' = [pc EXCEPT !["writer"] = "pop"]
  /\ UNCHANGED <<closed, laneVars, wake, shutdownVars, ctxDone, sends, written>>

\* c.Write fails or times out (writeTimeout): the loop shuts down and returns
WriteFail ==
  /\ pc["writer"] = "write"
  /\ pc' = [pc EXCEPT !["writer"] = "shutdown"]
  /\ UNCHANGED <<closed, laneVars, wake, shutdownVars, ctxDone, inflight, sends, written>>

\* mutant: the select does not listen to s.done
SelectIgnoresDone ==
  /\ pc["writer"] = "select"
  /\ \/ wake    /\ wake' = FALSE /\ pc' = [pc EXCEPT !["writer"] = "pop"]
     \/ ctxDone /\ UNCHANGED wake /\ pc' = [pc EXCEPT !["writer"] = "shutdown"]
  /\ UNCHANGED <<closed, laneVars, shutdownVars, ctxDone, inflight, sends, written>>

\* the writer's select, with both lanes seen empty
Select ==
  /\ pc["writer"] = "select"
  /\ \/ wake    /\ wake' = FALSE /\ pc' = [pc EXCEPT !["writer"] = "pop"]
     \/ done    /\ UNCHANGED wake /\ pc' = [pc EXCEPT !["writer"] = "exited"]
     \/ ctxDone /\ UNCHANGED wake /\ pc' = [pc EXCEPT !["writer"] = "shutdown"]
  /\ UNCHANGED <<closed, laneVars, shutdownVars, ctxDone, inflight, sends, written>>

-----------------------------------------------------------------------------
(* shutdown: once.Do runs the body in the first caller, and the others     *)
(* wait until it has finished.                                             *)

ShutdownLocked(p) ==
  /\ pc[p] = "shutdown" /\ shut = 0
  /\ shut' = 1
  /\ closed' = TRUE
  /\ queue' = [l \in Lanes |-> <<>>]
  /\ bytes' = [l \in Lanes |-> 0]
  /\ pc' = [pc EXCEPT ![p] = "closing"]
  /\ UNCHANGED <<wake, done, connOpen, ctxDone, inflight, sends, accepted, written>>

CloseDone(p) ==
  /\ pc[p] = "closing" /\ shut = 1
  /\ shut' = 2
  /\ done' = TRUE
  /\ UNCHANGED <<pc, closed, laneVars, wake, connOpen, ctxDone, inflight, sends, written>>

\* mutant: the overflow marks the sender closed but leaves the websocket open
CloseConnForgotten(p) ==
  /\ pc[p] = "closing" /\ shut = 2
  /\ shut' = 3
  /\ pc' = [pc EXCEPT ![p] = "shutdown"]
  /\ UNCHANGED <<closed, laneVars, wake, done, connOpen, ctxDone, inflight, sends, written>>

CloseConn(p) ==
  /\ pc[p] = "closing" /\ shut = 2
  /\ shut' = 3
  /\ connOpen' = FALSE
  /\ pc' = [pc EXCEPT ![p] = "shutdown"]
  /\ UNCHANGED <<closed, laneVars, wake, done, ctxDone, inflight, sends, written>>

ShutdownReturn(p) ==
  /\ pc[p] = "shutdown" /\ shut = 3
  /\ pc' = [pc EXCEPT ![p] = IF p = "writer" THEN "exited" ELSE "idle"]
  /\ UNCHANGED <<closed, laneVars, wake, shutdownVars, ctxDone, inflight, sends, written>>

\* handleControlConnection's disconnect, or CloseActiveConnections
OperatorCloses ==
  /\ pc["closer"] = "idle" /\ shut < 3
  /\ pc' = [pc EXCEPT !["closer"] = "shutdown"]
  /\ UNCHANGED <<closed, laneVars, wake, shutdownVars, ctxDone, inflight, sends, written>>

\* the handler's read loop ends because Read fails, and its deferred cleanup
\* shuts the sender down
HandlerEnds ==
  /\ ~connOpen \/ ctxDone
  /\ OperatorCloses

\* the websocket is closed behind the sender's back: by the peer, by
\* pingKeepAlive or by the rate limiter
ConnLost ==
  /\ connOpen
  /\ connOpen' = FALSE
  /\ UNCHANGED <<pc, closed, laneVars, wake, shut, done, ctxDone, inflight, sends, written>>

\* the request context ends (server shutdown, or the handler has returned)
CancelContext ==
  /\ ~ctxDone
  /\ ctxDone' = TRUE
  /\ UNCHANGED <<pc, closed, laneVars, wake, shutdownVars, inflight, sends, written>>

-----------------------------------------------------------------------------
Shutdown(p) == ShutdownLocked(p) \/ CloseDone(p) \/ CloseConn(p) \/ ShutdownReturn(p)
WriteLoop   == PopNext \/ WriteOk \/ WriteFail \/ Select

Next ==
  \/ \E c \in Callers, l \in Lanes, n \in Sizes : Send(c, l, n)
  \/ \E c \in Callers : Wake(c)
  \/ WriteLoop
  \/ \E p \in Procs : Shutdown(p)
  \/ OperatorCloses
  \/ HandlerEnds
  \/ ConnLost
  \/ CancelContext

\* Every goroutine that can run does run; a write that is neither refused nor
\* acknowledged is ended by its deadline (WriteOk or WriteFail), and a Read on
\* a closed websocket returns.  Calling Send, losing the connection and
\* cancelling the context are up to the environment.
Fairness ==
  /\ WF_vars(WriteLoop)
  /\ \A c \in Callers : WF_vars(Wake(c))
  /\ \A p \in Procs : WF_vars(Shutdown(p))
  /\ WF_vars(HandlerEnds)

Spec     == Init /\ [][Next]_vars
FairSpec == Spec /\ Fairness
-----------------------------------------------------------------------------
(* Properties.                                                             *)

States == {"idle", "wake", "pop", "write", "select", "shutdown", "closing", "exited"}

\* The types of the sender's fields and of the goroutines' positions.
TypeOK ==
  /\ pc \in [Procs -> States]
  /\ closed \in BOOLEAN /\ wake \in BOOLEAN /\ done \in BOOLEAN
  /\ connOpen \in BOOLEAN /\ ctxDone \in BOOLEAN
  /\ shut \in 0..3
  /\ queue \in [Lanes -> Seq(Message)]
  /\ bytes \in [Lanes -> Int]
  /\ inflight \in Message \cup {NoMsg}
  /\ pc["writer"] = "write" => inflight \in Message
  /\ sends \in Nat
  /\ accepted \in [Lanes -> Seq(Message)]
  /\ written \in [Lanes -> Seq(Message)]

\* A peer that never reads retains at most sendQueueCap messages and the byte
\* limit per lane, whoever sends and however the writer interleaves.
QueuesBounded ==
  \A l \in Lanes : Len(queue[l]) <= QueueCap /\ bytes[l] <= ByteLimit

\* the bytes of the payloads in q
Retained(q) ==
  LET upTo[i \in 0..Len(q)] == IF i = 0 THEN 0 ELSE upTo[i - 1] + q[i].size
  IN  upTo[Len(q)]

\* The byte counters are exact: each is the sum of the sizes of the payloads
\* its lane retains, so accounting never drifts between sendClass, popNext and
\* shutdown, whichever of them empties the lane.
BytesExact == \A l \in Lanes : bytes[l] = Retained(queue[l])

\* how many messages of lane l have left its queue
Popped(l) == IF inflight.class = l THEN Len(written[l]) + 1 ELSE Len(written[l])

\* Within a lane, what reaches the socket is what Send accepted, in that order,
\* nothing skipped and nothing twice: the written messages, the one in flight
\* and the queue are consecutive pieces of the accepted sequence, and they are
\* all of it until shutdown drops the queue.
LaneFIFO ==
  \A l \in Lanes :
    /\ \A i \in 1..Len(written[l]) : written[l][i] = accepted[l][i]
    /\ inflight.class = l => inflight = accepted[l][Len(written[l]) + 1]
    /\ \A i \in 1..Len(queue[l]) : queue[l][i] = accepted[l][Popped(l) + i]
    /\ Popped(l) + Len(queue[l]) <= Len(accepted[l])
    /\ ~closed => Popped(l) + Len(queue[l]) = Len(accepted[l])

\* No wakeup is lost: when the writer sleeps although a lane holds a message,
\* a token is in s.wake or some sender is about to put one there.
NoLostWakeup ==
  (pc["writer"] = "select" /\ \E l \in Lanes : queue[l] # <<>>)
    => wake \/ (\E c \in Callers : pc[c] = "wake")

\* Every accepted message is written, unless the connection ends.
AcceptedIsWritten ==
  \A l \in Lanes :
    (Len(accepted[l]) > Len(written[l])) ~> (Len(written[l]) = Len(accepted[l]) \/ closed)

\* A peer whose queue overflowed is really disconnected: the Send that met the
\* overflow does not leave before the websocket is closed.
OverflowEvicts ==
  \A c \in Callers : (pc[c] = "shutdown") ~> (~connOpen /\ pc[c] = "idle")

\* Whatever ends the connection (peer, ping, context, overflow, failed write,
\* operator), the writer goroutine ends too.
WriterExits ==
  (closed \/ ~connOpen \/ ctxDone) ~> (pc["writer"] = "exited")
=============================================================================
