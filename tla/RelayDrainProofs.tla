-------------------------- MODULE RelayDrainProofs --------------------------
(***************************************************************************)
(* What RelayDrain guarantees, for every set of connections.               *)
(***************************************************************************)
EXTENDS RelayDrain, TLAPS

\* main has left the wait loop
Waited == main \in {"remaining", "snapshot", "shutting", "exit", "closing", "exited"}

\* The connections that can still be in a room.
Inside == {c \in Conns : pc[c] \in {"adding", "joining", "serving"}}

\* TypeOK and NoSurvivor made inductive: from the end of the wait loop on
\* nobody holds activeMu, so nobody is between its second load of the flag and
\* its insertion; the snapshot has everyone inside, and stays so.
DInv ==
  /\ TypeOK
  /\ Waited => mu = NoOne
  /\ main = "shutting" => Inside \subseteq toShut \cup shut
  /\ main \in {"exit", "closing", "exited"} => Inside \subseteq shut

\* The initial state of the relay satisfies the invariant.
LEMMA DInvInit == Init => DInv
BY DrainConstants DEF Init, DInv, TypeOK, Waited, Inside

\* A step of a connection's handler keeps the invariant.
LEMMA DInvHandler ==
  ASSUME DInv, NEW c \in Conns, HandlerStep(c) \/ Serve(c) \/ Depart(c)
  PROVE  DInv'
<1> USE DrainConstants DEF DInv, TypeOK, Waited, Inside, Go, Alive
<1>1. CASE Accept(c)
  BY <1>1 DEF Accept
<1>2. CASE FastCheck(c)
  BY <1>2 DEF FastCheck
<1>3. CASE Recheck(c)
  BY <1>3 DEF Recheck
<1>4. CASE AddActive(c)
  BY <1>4 DEF AddActive
<1>5. CASE Refuse(c)
  BY <1>5 DEF Refuse
<1>6. CASE Unregister(c)
  BY <1>6 DEF Unregister
<1>7. CASE Serve(c)
  BY <1>7 DEF Serve
<1>8. CASE Depart(c)
  BY <1>8 DEF Depart
<1> QED
  BY <1>1, <1>2, <1>3, <1>4, <1>5, <1>6, <1>7, <1>8 DEF HandlerStep

\* A step of main keeps the invariant.
LEMMA DInvMain ==
  ASSUME DInv, MainStep \/ Announce \/ CloseReporter \/ Exit
  PROVE  DInv'
<1> USE DrainConstants DEF DInv, TypeOK, Waited, Inside, MainGo
<1>1. CASE Signal
  BY <1>1 DEF Signal
<1>2. CASE Announce
  BY <1>2 DEF Announce
<1>3. CASE BeginDrain
  BY <1>3 DEF BeginDrain
<1>4. CASE WaitOver
  BY <1>4 DEF WaitOver
<1>5. CASE Remaining
  BY <1>5 DEF Remaining
<1>6. CASE Snapshot
  BY <1>6 DEF Snapshot
<1>7. ASSUME NEW c \in Conns, Shut(c) PROVE DInv'
  BY <1>7 DEF Shut
<1>8. CASE ShutDone
  BY <1>8 DEF ShutDone
<1>9. CASE CloseReporter
  BY <1>9 DEF CloseReporter
<1>10. CASE Exit
  BY <1>10 DEF Exit
<1> QED
  BY <1>1, <1>2, <1>3, <1>4, <1>5, <1>6, <1>7, <1>8, <1>9, <1>10 DEF MainStep

\* The invariant holds of every state of the relay.
LEMMA DInvAlways == Spec => []DInv
<1>1. DInv /\ [Next]_drainVars => DInv'
  <2> SUFFICES ASSUME DInv, [Next]_drainVars PROVE DInv'
    OBVIOUS
  <2>1. CASE UNCHANGED drainVars
    BY <2>1 DEF drainVars, DInv, TypeOK, Waited, Inside
  <2>2. CASE Next
    BY <2>2, DInvHandler, DInvMain DEF Next
  <2> QED
    BY <2>1, <2>2
<1> QED
  BY DInvInit, <1>1, PTL DEF Spec

\* The flag, activeMu and the set of active connections keep the relation the
\* handlers rely on: active is who is between registerActive and
\* unregisterActive, and one handler at most is about to insert itself.
THEOREM DrainTypes == Spec => []TypeOK
<1>1. DInv => TypeOK
  BY DEF DInv
<1> QED
  BY DInvAlways, <1>1, PTL

\* No connection outlives the drain unseen: when main has given up waiting,
\* every connection in the relay was shut down by CloseActiveConnections.
THEOREM DrainNoSurvivor == Spec => []NoSurvivor
<1>1. DInv => NoSurvivor
  BY DEF DInv, NoSurvivor, Inside
<1> QED
  BY DInvAlways, <1>1, PTL

\* From BeginDrain on no connection is admitted, but for the one whose second
\* load of the flag was just before it.
THEOREM DrainDoorStaysShut == Spec => DoorStaysShut
<1>1. DInv /\ [Next]_drainVars =>
        [draining /\ mu = NoOne => active' \subseteq active /\ mu' = NoOne]_drainVars
  <2> SUFFICES ASSUME DInv, Next, draining, mu = NoOne
               PROVE  active' \subseteq active /\ mu' = NoOne
    OBVIOUS
  <2>1. \A c \in Conns : pc[c] # "adding"
    BY DrainConstants DEF DInv, TypeOK
  <2>2. ASSUME NEW c \in Conns, HandlerStep(c) \/ Serve(c) \/ Depart(c)
        PROVE  active' \subseteq active /\ mu' = NoOne
    BY <2>1, <2>2 DEF HandlerStep, Accept, FastCheck, Recheck, AddActive, Refuse, Unregister,
                      Serve, Depart, Go
  <2>3. CASE MainStep \/ Announce \/ CloseReporter \/ Exit
    BY <2>3 DEF MainStep, Signal, BeginDrain, WaitOver, Remaining, Snapshot, Shut, ShutDone,
                Announce, CloseReporter, Exit
  <2> QED
    BY <2>2, <2>3 DEF Next
<1> QED
  BY DInvAlways, <1>1, PTL DEF Spec, DoorStaysShut
=============================================================================
