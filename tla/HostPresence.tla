---------------------------- MODULE HostPresence ----------------------------
(***************************************************************************)
(* The host of one room, and what the participants are told of it.  Host   *)
(* daemons connect, replace one another and disconnect (handleAgent);      *)
(* participants come and go (handleParticipant).  The registry names one   *)
(* current host, the latest to register.  Every change is pushed to the    *)
(* participants by the handler that made it, in steps under no common      *)
(* lock: the recipients are read, then the presence, then each recipient   *)
(* is sent it (notifyHostStatus).                                          *)
(***************************************************************************)
EXTENDS Naturals, FiniteSets

CONSTANTS
  Hosts,      \* host daemon connections
  NoHost,     \* no host connection
  Conns,      \* participant connections
  Limit,      \* MaxParticipantsPerRoom
  MaxEpoch    \* bound on the registrations of a host

ASSUME PresenceConstants ==
  /\ NoHost \notin Hosts /\ Hosts \cap Conns = {}
  /\ Limit \in Nat \ {0} /\ MaxEpoch \in Nat

VARIABLES
  host,      \* Registry.hosts: the current host
  epoch,     \* Registry.hostEpochs
  epochOf,   \* per host connection: the epoch of its registration, 0 when it has none
  members,   \* Registry.participants
  pc,        \* where each handler stands
  recips,    \* per host handler: the participants it has still to push to
  up,        \* the presence a handler has read
  seen,      \* per participant: the presence last read on its behalf
  view,      \* per participant: the presence last sent to it
  late       \* per host connection: frames it fed to the room after it was superseded

vars == <<host, epoch, epochOf, members, pc, recips, up, seen, view, late>>

Handlers == Hosts \cup Conns
Up == host # NoHost

Init ==
  /\ host = NoHost /\ epoch = 0 /\ members = {}
  /\ epochOf = [h \in Hosts |-> 0]
  /\ pc = [g \in Handlers |-> "out"]
  /\ recips = [h \in Hosts |-> {}]
  /\ up = [g \in Handlers |-> FALSE]
  /\ seen = [p \in Conns |-> FALSE] /\ view = [p \in Conns |-> FALSE]
  /\ late = [h \in Hosts |-> 0]

-----------------------------------------------------------------------------
(* handleAgent.                                                            *)

\* mutant: taking over from another host does not begin a new epoch
HostRegisterSameEpoch(h) ==
  /\ pc[h] = "out" /\ epoch < MaxEpoch
  /\ epoch' = IF Up THEN epoch ELSE epoch + 1
  /\ epochOf' = [epochOf EXCEPT ![h] = epoch']
  /\ host' = h
  /\ late' = [late EXCEPT ![h] = 0]
  /\ pc' = [pc EXCEPT ![h] = "notify"]
  /\ UNCHANGED <<members, recips, up, seen, view>>

\* RegisterHostWithEpoch: the latest registration is the current host
HostRegister(h) ==
  /\ pc[h] = "out" /\ epoch < MaxEpoch
  /\ epoch' = epoch + 1
  /\ epochOf' = [epochOf EXCEPT ![h] = epoch + 1]
  /\ host' = h
  /\ late' = [late EXCEPT ![h] = 0]
  /\ pc' = [pc EXCEPT ![h] = "notify"]
  /\ UNCHANGED <<members, recips, up, seen, view>>

\* mutant: a host that leaves takes the room's entry with it
UnregisterWhoever(h) == NoHost
\* the unregister func: an entry another host has taken over stays
Unregister(h) == IF host = h THEN NoHost ELSE host

\* mutant: the participants are not told that the host has gone
HostLeaveQuietly(h) ==
  /\ pc[h] = "loop"
  /\ host' = Unregister(h)
  /\ epochOf' = [epochOf EXCEPT ![h] = 0]
  /\ pc' = [pc EXCEPT ![h] = "out"]
  /\ UNCHANGED <<epoch, members, recips, up, seen, view, late>>

\* Read fails: the deferred cleanup unregisters and notifies
HostLeave(h) ==
  /\ pc[h] = "loop"
  /\ host' = Unregister(h)
  /\ epochOf' = [epochOf EXCEPT ![h] = 0]
  /\ pc' = [pc EXCEPT ![h] = "notify"]
  /\ UNCHANGED <<epoch, members, recips, up, seen, view, late>>

\* where a host's handler resumes after notifyHostStatus
Resume(h) == IF epochOf[h] = 0 THEN "out" ELSE "loop"

\* notifyHostStatus: ParticipantsFor ...
NotifyRecipients(h) ==
  /\ pc[h] = "notify"
  /\ recips' = [recips EXCEPT ![h] = members]
  /\ pc' = [pc EXCEPT ![h] = IF members = {} THEN Resume(h) ELSE "read"]
  /\ UNCHANGED <<host, epoch, epochOf, members, up, seen, view, late>>

\* ... HostFor ...
NotifyRead(h) ==
  /\ pc[h] = "read"
  /\ up' = [up EXCEPT ![h] = Up]
  /\ seen' = [p \in Conns |-> IF p \in recips[h] THEN Up ELSE seen[p]]
  /\ pc' = [pc EXCEPT ![h] = IF recips[h] = {} THEN Resume(h) ELSE "push"]
  /\ UNCHANGED <<host, epoch, epochOf, members, recips, view, late>>

\* ... and Send, to one recipient after the other
NotifyPush(h, p) ==
  /\ pc[h] = "push" /\ p \in recips[h]
  /\ view' = [view EXCEPT ![p] = up[h]]
  /\ recips' = [recips EXCEPT ![h] = @ \ {p}]
  /\ pc' = [pc EXCEPT ![h] = IF recips[h] = {p} THEN Resume(h) ELSE "push"]
  /\ UNCHANGED <<host, epoch, epochOf, members, up, seen, late>>

\* mutant: who is current was settled when the daemon connected
ReadFrameUnchecked(h) ==
  /\ pc[h] = "loop"
  /\ pc' = [pc EXCEPT ![h] = "route"]
  /\ UNCHANGED <<host, epoch, epochOf, members, recips, up, seen, view, late>>

\* a frame from the daemon: dropped unless h is the current host
ReadFrame(h) ==
  /\ pc[h] = "loop" /\ host = h
  /\ pc' = [pc EXCEPT ![h] = "route"]
  /\ UNCHANGED <<host, epoch, epochOf, members, recips, up, seen, view, late>>

\* routeFromHost: the frame goes to the participants
RouteFrame(h) ==
  /\ pc[h] = "route"
  /\ late' = [late EXCEPT ![h] = IF host = h THEN @ ELSE @ + 1]
  /\ pc' = [pc EXCEPT ![h] = "loop"]
  /\ UNCHANGED <<host, epoch, epochOf, members, recips, up, seen, view>>

-----------------------------------------------------------------------------
(* handleParticipant.                                                      *)

\* TryRegisterParticipant: registers and reads the presence in one critical section
Join(p) ==
  /\ pc[p] = "out" /\ Cardinality(members) < Limit
  /\ members' = members \cup {p}
  /\ up' = [up EXCEPT ![p] = Up]
  /\ seen' = [seen EXCEPT ![p] = Up]
  /\ view' = [view EXCEPT ![p] = FALSE]
  /\ pc' = [pc EXCEPT ![p] = "status"]
  /\ UNCHANGED <<host, epoch, epochOf, recips, late>>

\* sendHostStatus
SendStatus(p) ==
  /\ pc[p] = "status"
  /\ view' = [view EXCEPT ![p] = up[p]]
  /\ pc' = [pc EXCEPT ![p] = "loop"]
  /\ UNCHANGED <<host, epoch, epochOf, members, recips, up, seen, late>>

\* Read fails: frames still to be sent to the connection go nowhere
Leave(p) ==
  /\ p \in Conns /\ pc[p] = "loop"
  /\ members' = members \ {p}
  /\ recips' = [h \in Hosts |-> recips[h] \ {p}]
  /\ pc' = [g \in Handlers |-> IF g = p THEN "out"
                               ELSE IF g \in Hosts /\ pc[g] = "push" /\ recips[g] = {p}
                               THEN Resume(g) ELSE pc[g]]
  /\ UNCHANGED <<host, epoch, epochOf, up, seen, view, late>>

-----------------------------------------------------------------------------
Next ==
  \/ \E h \in Hosts :
       \/ HostRegister(h) \/ HostLeave(h) \/ NotifyRecipients(h) \/ NotifyRead(h)
       \/ ReadFrame(h) \/ RouteFrame(h)
       \/ \E p \in Conns : NotifyPush(h, p)
  \/ \E p \in Conns : Join(p) \/ SendStatus(p) \/ Leave(p)

Spec == Init /\ [][Next]_vars
-----------------------------------------------------------------------------
(* Properties.                                                             *)

\* The types of the registry and the handlers; a host connection has an epoch
\* exactly while it is registered, and no two have the same.
TypeOK ==
  /\ host \in Hosts \cup {NoHost} /\ epoch \in Nat /\ members \subseteq Conns
  /\ epochOf \in [Hosts -> 0..epoch]
  /\ pc \in [Handlers -> {"out", "notify", "read", "push", "loop", "route", "status"}]
  /\ recips \in [Hosts -> SUBSET Conns]
  /\ up \in [Handlers -> BOOLEAN] /\ seen \in [Conns -> BOOLEAN] /\ view \in [Conns -> BOOLEAN]
  /\ late \in [Hosts -> Nat]
  /\ \A h \in Hosts : /\ pc[h] # "status"
                      /\ pc[h] = "out" => epochOf[h] = 0
                      /\ pc[h] \in {"loop", "route"} => epochOf[h] > 0
  /\ \A p \in Conns : pc[p] \in {"out", "status", "loop"} /\ (p \in members <=> pc[p] # "out")
  /\ \A h, k \in Hosts : epochOf[h] = epochOf[k] /\ epochOf[h] > 0 => h = k

\* The room's host is its newest one: a registered host is current exactly
\* when its registration is the latest, so a daemon that was superseded and
\* disconnects late never takes the live host's entry with it, and no older
\* daemon comes back as the host.
NewestHostStands ==
  /\ host # NoHost => epochOf[host] = epoch
  /\ \A h \in Hosts : epochOf[h] > 0 /\ epochOf[h] = epoch => host = h

\* A superseded daemon feeds the room at most the one frame its handler had
\* already checked when the new host registered.
OneLateFrame == \A h \in Hosts : late[h] <= 1

\* no handler is in the middle of something
Quiescent == \A g \in Handlers : pc[g] \in {"out", "loop"}

\* No push is missed: once the handlers are idle, the presence last read on
\* behalf of every participant is the current one, whatever joins, leaves and
\* host changes overlapped.
NoMissedPush == Quiescent => \A p \in members : seen[p] = Up
=============================================================================
