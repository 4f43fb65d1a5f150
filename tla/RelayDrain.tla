----------------------------- MODULE RelayDrain -----------------------------
(***************************************************************************)
(* A relay node admits websockets and, on SIGTERM, drains: main stores the *)
(* draining flag, waits a grace period for the active connections to go    *)
(* and closes those that remain.  The flag is read and written without a   *)
(* lock; the set of active connections is behind activeMu.  Handlers       *)
(* (handleAgent and handleParticipant alike) race with main on both.       *)
(***************************************************************************)
EXTENDS Naturals, FiniteSets

CONSTANTS
  Conns,    \* websocket connections, each made once
  NoOne     \* activeMu is free

ASSUME DrainConstants == NoOne \notin Conns

VARIABLES
  draining,   \* Server.draining
  mu,         \* the handler that holds activeMu
  active,     \* Server.active
  pc,         \* where each connection's handler stands
  main,       \* where main stands
  toShut,     \* CloseActiveConnections: the copied senders not yet shut down
  shut        \* the connections main has shut down

drainVars == <<draining, mu, active, pc, main, toShut, shut>>

Init ==
  /\ draining = FALSE /\ mu = NoOne /\ active = {} /\ toShut = {} /\ shut = {}
  /\ pc = [c \in Conns |-> "out"]
  /\ main = "run"

Alive == main # "exited"

Go(c, from, to) == Alive /\ pc[c] = from /\ pc' = [pc EXCEPT ![c] = to]
MainGo(from, to) == main = from /\ main' = to
-----------------------------------------------------------------------------
(* The handler of a connection.                                            *)

\* the handshake; a draining node answers 503 instead
Accept(c) ==
  /\ ~draining
  /\ Go(c, "out", "accepted")
  /\ UNCHANGED <<draining, mu, active, main, toShut, shut>>

\* registerActive, the first load of the flag
FastCheck(c) ==
  /\ Go(c, "accepted", IF draining THEN "gone" ELSE "lock")
  /\ UNCHANGED <<draining, mu, active, main, toShut, shut>>

\* mutant: the flag is not loaded again under the lock
RecheckSkipped(c) ==
  /\ mu = NoOne /\ mu' = c
  /\ Go(c, "lock", "adding")
  /\ UNCHANGED <<draining, active, main, toShut, shut>>

\* registerActive, the lock and the second load of the flag
Recheck(c) ==
  /\ mu = NoOne
  /\ Go(c, "lock", IF draining THEN "gone" ELSE "adding")
  /\ mu' = IF draining THEN NoOne ELSE c
  /\ UNCHANGED <<draining, active, main, toShut, shut>>

\* registerActive, the insertion and the unlock
AddActive(c) ==
  /\ Go(c, "adding", "joining")
  /\ active' = active \cup {c} /\ mu' = NoOne
  /\ UNCHANGED <<draining, main, toShut, shut>>

\* TryRegisterParticipant refuses: the room is full
Refuse(c) ==
  /\ Go(c, "joining", "returning")
  /\ UNCHANGED <<draining, mu, active, main, toShut, shut>>

\* the room is joined
Serve(c) ==
  /\ Go(c, "joining", "serving")
  /\ UNCHANGED <<draining, mu, active, main, toShut, shut>>

\* Read fails and the deferred cleanup leaves the room
Depart(c) ==
  /\ Go(c, "serving", "returning")
  /\ UNCHANGED <<draining, mu, active, main, toShut, shut>>

\* mutant: a handler returns and its sender stays in the set
UnregisterForgotten(c) ==
  /\ Go(c, "returning", "gone")
  /\ UNCHANGED <<draining, mu, active, main, toShut, shut>>

\* unregisterActive, the last of the deferred calls that matters here
Unregister(c) ==
  /\ mu = NoOne
  /\ Go(c, "returning", "gone")
  /\ active' = active \ {c}
  /\ UNCHANGED <<draining, mu, main, toShut, shut>>
-----------------------------------------------------------------------------
(* main, from the signal to the end of the process.                        *)

Signal ==
  /\ MainGo("run", "offline")
  /\ UNCHANGED <<draining, mu, active, pc, toShut, shut>>

\* reportRelayNode(..., false)
Announce ==
  /\ MainGo("offline", "begin")
  /\ UNCHANGED <<draining, mu, active, pc, toShut, shut>>

BeginDrain ==
  /\ MainGo("begin", "wait")
  /\ draining' = TRUE
  /\ UNCHANGED <<mu, active, pc, toShut, shut>>

\* mutant: the loop waits for every connection to leave
WaitOverWhenEmpty ==
  /\ mu = NoOne /\ active = {}
  /\ MainGo("wait", "remaining")
  /\ UNCHANGED <<draining, mu, active, pc, toShut, shut>>

\* the loop ends: no connection is active, or the deadline (at any time) has passed
WaitOver ==
  /\ mu = NoOne
  /\ MainGo("wait", "remaining")
  /\ UNCHANGED <<draining, mu, active, pc, toShut, shut>>

\* ActiveConnections is read once more
Remaining ==
  /\ mu = NoOne
  /\ MainGo("remaining", IF active = {} THEN "exit" ELSE "snapshot")
  /\ UNCHANGED <<draining, mu, active, pc, toShut, shut>>

\* CloseActiveConnections copies the senders under the lock ...
Snapshot ==
  /\ mu = NoOne
  /\ MainGo("snapshot", "shutting")
  /\ toShut' = active
  /\ UNCHANGED <<draining, mu, active, pc, shut>>

\* ... and shuts them down one after the other
Shut(c) ==
  /\ main = "shutting" /\ c \in toShut
  /\ toShut' = toShut \ {c} /\ shut' = shut \cup {c}
  /\ UNCHANGED <<draining, mu, active, pc, main>>

ShutDone ==
  /\ toShut = {}
  /\ MainGo("shutting", "exit")
  /\ UNCHANGED <<draining, mu, active, pc, toShut, shut>>

\* the deferred presenceReporter.Close closes the queue ...
CloseReporter ==
  /\ MainGo("exit", "closing")
  /\ UNCHANGED <<draining, mu, active, pc, toShut, shut>>

\* ... and returns when the loop has drained it; the process ends
Exit ==
  /\ MainGo("closing", "exited")
  /\ UNCHANGED <<draining, mu, active, pc, toShut, shut>>
-----------------------------------------------------------------------------
\* the steps of handlers and main that report no presence
HandlerStep(c) ==
  Accept(c) \/ FastCheck(c) \/ Recheck(c) \/ AddActive(c) \/ Refuse(c) \/ Unregister(c)
MainStep ==
  \/ Signal \/ BeginDrain \/ WaitOver \/ Remaining \/ Snapshot \/ ShutDone
  \/ \E c \in Conns : Shut(c)

Next ==
  \/ \E c \in Conns : HandlerStep(c) \/ Serve(c) \/ Depart(c)
  \/ MainStep \/ Announce \/ CloseReporter \/ Exit

Spec == Init /\ [][Next]_drainVars

\* Goroutines are scheduled; every wait of main is bounded (the grace period,
\* the websocket close timeouts); a connection that was shut down fails its
\* Read.  No fairness for the peers, nor for the signal.
Fairness ==
  /\ \A c \in Conns : /\ WF_drainVars(FastCheck(c) \/ AddActive(c) \/ Refuse(c) \/ Serve(c))
                      /\ SF_drainVars(Recheck(c)) /\ SF_drainVars(Unregister(c))
                      /\ WF_drainVars(c \in shut /\ Depart(c))
  /\ SF_drainVars(MainStep /\ main # "run")
  /\ WF_drainVars(Announce \/ CloseReporter \/ Exit)

FairSpec == Spec /\ Fairness
-----------------------------------------------------------------------------
(* Properties.                                                             *)

\* The types, what activeMu protects, and that the flag tells where main is.
TypeOK ==
  /\ draining \in BOOLEAN /\ mu \in Conns \cup {NoOne}
  /\ pc \in [Conns -> {"out", "accepted", "lock", "adding", "joining", "serving",
                       "returning", "gone"}]
  /\ main \in {"run", "offline", "begin", "wait", "remaining", "snapshot", "shutting",
               "exit", "closing", "exited"}
  /\ active = {c \in Conns : pc[c] \in {"joining", "serving", "returning"}}
  /\ \A c \in Conns : pc[c] = "adding" <=> mu = c
  /\ draining <=> main \notin {"run", "offline", "begin"}
  /\ toShut \subseteq Conns /\ shut \subseteq Conns
  /\ toShut # {} => main = "shutting"

\* CloseActiveConnections is the only thing that ends a peer that will not go:
\* when main gives up waiting, no connection is or will be in the relay that
\* it has not shut down, whichever loads of the flag raced with BeginDrain.
NoSurvivor ==
  main \in {"exit", "closing", "exited"} =>
    \A c \in Conns : pc[c] \in {"adding", "joining", "serving"} => c \in shut

\* docs/relay-hardening.md:79: new websockets are blocked from the drain on.
\* Once the flag is set and the handler that was past its second load (if any)
\* has unlocked, the active connections only ever decrease.
DoorStaysShut ==
  [][draining /\ mu = NoOne => active' \subseteq active /\ mu' = NoOne]_drainVars

\* The drain terminates whatever the peers do.
DrainEnds == (main = "offline") ~> (main = "exited")
=============================================================================
