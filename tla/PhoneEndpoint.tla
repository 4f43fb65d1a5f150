--------------------------- MODULE PhoneEndpoint ---------------------------
(* The phone's connection to one desktop: the logical RPC client           *)
(* (stable-logical-rpc-client.ts), which the app sees and which outlives   *)
(* its physical sessions, and the endpoint supervisor that replaces them   *)
(* (mobile-endpoint-supervisor.ts).  All of it runs on one event loop: an  *)
(* action is what runs between two awaits.                                 *)
(*                                                                         *)
(* A session's state is "down" once it is closed or has failed for good;   *)
(* the state the logical client publishes is always its active session's.  *)
(* A generation belongs to one session, so fencing by generation is        *)
(* fencing by session.  Time is left out: a timer that is armed may fire,  *)
(* and what hysteresis decides from the clock is a choice.                 *)
EXTENDS Naturals, FiniteSets

CONSTANTS
    Sessions,      \* physical sessions that can exist at once
    Subs,          \* the app's subscriptions
    Calls,         \* the app's requests
    None,          \* where there is no subscription or no request
    Credentials,   \* unexpired credentials in the bundle: current, then grace
    MaxFaults,     \* bound: lost sessions, failed attempts and failed writes
    MaxSwitches    \* bound: switches between foreground and background

ASSUME PhoneAssumption ==
    /\ Sessions \subseteq Nat \ {0} /\ 1 \in Sessions
    /\ None \notin Sessions \cup {0}
    /\ Credentials \in 1..2
    /\ MaxFaults \in Nat /\ MaxSwitches \in Nat

VARIABLES
    relayOnly,   \* host.connectionMode = 'relay-only', for good
    sess,        \* each physical session's state
    active,      \* activeSession
    path,        \* activePath: "direct" or "relay"
    suspended,
    closed,      \* the app has closed the client (and stopped the supervisor)
    sub,         \* the session each subscription is attached to
    call,        \* the session each pending request waits on
    loaded,      \* start() has read the bundle
    foreground,
    op,          \* the operation operationInFlight stands for
    rotation,    \* relayRotationPending
    probe,       \* probeTimer is armed
    lease,       \* leaseTimer: "none", "lease" or the 5 s "retry"
    unwritten,   \* history: the bundle write of the last relay migration failed
    faults, switches

logicalVars == <<sess, active, path, suspended, closed, sub, call>>
supervisorVars == <<loaded, foreground, op, rotation, probe, lease, unwritten>>
vars == <<relayOnly, logicalVars, supervisorVars, faults, switches>>

NoOp == [kind |-> "none", phase |-> "none", session |-> 0, force |-> FALSE,
         resolved |-> FALSE, left |-> 0]

Detached == 0

State == sess[active]

Fault == faults < MaxFaults /\ faults' = faults + 1

(***************************************************************************)
(* The logical client                                                      *)
(***************************************************************************)

Subscribe(i) ==
    /\ ~closed
    /\ sub[i] = None
    /\ sub' = [sub EXCEPT ![i] = IF suspended THEN Detached ELSE active]
    /\ UNCHANGED <<relayOnly, sess, active, path, suspended, closed, call, supervisorVars,
                   faults, switches>>

Unsubscribe(i) ==
    /\ sub[i] # None
    /\ sub' = [sub EXCEPT ![i] = None]
    /\ UNCHANGED <<relayOnly, sess, active, path, suspended, closed, call, supervisorVars,
                   faults, switches>>

(* A request waits on the session that is active when it is sent; while    *)
(* closed or suspended it is rejected at once.                             *)
SendRequest(c) ==
    /\ ~closed /\ ~suspended
    /\ call[c] = None
    /\ call' = [call EXCEPT ![c] = active]
    /\ UNCHANGED <<relayOnly, sess, active, path, suspended, closed, sub, supervisorVars,
                   faults, switches>>

(* Its answer, its failure or its timeout.                                 *)
Settle(c) ==
    /\ call[c] # None
    /\ call' = [call EXCEPT ![c] = None]
    /\ UNCHANGED <<relayOnly, sess, active, path, suspended, closed, sub, supervisorVars,
                   faults, switches>>

Rejected == [c \in Calls |-> None]

(* mutant: subscriptions stay where they are *)
AttachedToUnmoved(s) == sub

AttachedTo(s) == [i \in Subs |-> IF sub[i] = None THEN None ELSE s]

(* suspendActiveSession()                                                  *)
Suspend ==
    IF closed \/ suspended
    THEN UNCHANGED <<sess, suspended, sub, call>>
    ELSE /\ suspended' = TRUE
         /\ sess' = [sess EXCEPT ![active] = "down"]
         /\ sub' = AttachedTo(Detached)
         /\ call' = Rejected

(* mutant: in the background the session is kept *)
SuspendsOnArrivalNever(p) == FALSE

(* A relay session that arrives in the background is suspended at once.    *)
SuspendsOnArrival(p) == p = "relay" /\ ~foreground

(* mutant: the session that is replaced is left open *)
PreviousStateKept == State

PreviousState == "down"

(* migrateTo() once the new session is authenticated: subscriptions are    *)
(* replayed on it, pending requests are rejected, and the previous session *)
(* is closed.                                                              *)
MigrateTo(s, p) ==
    /\ active' = s
    /\ path' = p
    /\ suspended' = SuspendsOnArrival(p)
    /\ sess' = [sess EXCEPT ![active] = PreviousState,
                            ![s] = IF SuspendsOnArrival(p) THEN "down" ELSE "connected"]
    /\ sub' = AttachedTo(IF SuspendsOnArrival(p) THEN Detached ELSE s)
    /\ call' = Rejected

(***************************************************************************)
(* The supervisor                                                          *)
(***************************************************************************)

(* mutant: the session that was suspended is opened again *)
FreeReusesActive(ss) == {s \in Sessions : ss[s] = "down" /\ s # op.session}

(* openRelay() and openDirect() create a session.                          *)
Free(ss) == {s \in Sessions : ss[s] = "down" /\ s # active /\ s # op.session}

(* Opens a session for operation o; a closed client closes it at once.     *)
Open(o, ss) ==
    IF closed
    THEN op' = [o EXCEPT !.session = 0] /\ sess' = ss
    ELSE \E s \in Free(ss) :
            /\ \A t \in Free(ss) : s <= t
            /\ op' = [o EXCEPT !.session = s]
            /\ sess' = [ss EXCEPT ![s] = "connecting"]

Recovers(force, fg, ss) ==
    /\ ~closed /\ fg
    /\ op.kind = "none"
    /\ force \/ ss[active] # "connected"

RecoverOp(force) ==
    [kind |-> "recover", phase |-> "auth", session |-> 0, force |-> force,
     resolved |-> FALSE, left |-> Credentials - 1]

(* recoverRelay() with a bundle, up to its first await, in the state the   *)
(* caller leaves.                                                          *)
Recover(force, fg, ss) ==
    IF Recovers(force, fg, ss)
    THEN Open(RecoverOp(force), ss)
    ELSE op' = op /\ sess' = ss

(* scheduleDirectProbe()                                                   *)
Scheduled(pr, fg, p) == pr \/ (~closed /\ fg /\ ~relayOnly /\ p = "relay")

(* start(): the bundle has been read.                                      *)
Load ==
    /\ ~loaded /\ ~closed
    /\ loaded' = TRUE
    /\ \/ /\ State \in {"down", "reconnecting"}
          /\ Recover(FALSE, foreground, sess)
          /\ UNCHANGED probe
       \/ /\ State \notin {"down", "reconnecting"}
          /\ probe' = Scheduled(probe, foreground, path)
          /\ UNCHANGED <<op, sess>>
    /\ UNCHANGED <<relayOnly, active, path, suspended, closed, sub, call, foreground,
                   rotation, lease, unwritten, faults, switches>>

(* setForeground(true): from the app state, or a nudge while already in    *)
(* the foreground.                                                         *)
Foreground ==
    /\ ~closed
    /\ \/ foreground /\ UNCHANGED switches
       \/ ~foreground /\ switches < MaxSwitches /\ switches' = switches + 1
    /\ foreground' = TRUE
    /\ IF loaded THEN Recover(rotation, TRUE, sess) ELSE UNCHANGED <<op, sess>>
    /\ probe' = Scheduled(probe, TRUE, path)
    /\ UNCHANGED <<relayOnly, active, path, suspended, closed, sub, call, loaded,
                   rotation, lease, unwritten, faults>>

(* setForeground(false)                                                    *)
Background ==
    /\ ~closed
    /\ foreground
    /\ switches < MaxSwitches
    /\ switches' = switches + 1
    /\ foreground' = FALSE
    /\ probe' = FALSE
    /\ IF path = "relay" THEN Suspend ELSE UNCHANGED <<sess, suspended, sub, call>>
    /\ UNCHANGED <<relayOnly, active, path, closed, loaded, op, rotation, lease,
                   unwritten, faults>>

(* close(): the supervisor stops, then the logical client closes.          *)
Close ==
    /\ ~closed
    /\ closed' = TRUE
    /\ probe' = FALSE
    /\ lease' = "none"
    /\ sess' = [sess EXCEPT ![active] = "down"]
    /\ sub' = [i \in Subs |-> None]
    /\ call' = Rejected
    /\ UNCHANGED <<relayOnly, active, path, suspended, loaded, foreground, op, rotation,
                   unwritten, faults, switches>>

(* The direct session in use connects, at first or by its own retry loop.  *)
ActiveConnects ==
    /\ ~closed
    /\ path = "direct"
    /\ State \in {"connecting", "reconnecting"}
    /\ sess' = [sess EXCEPT ![active] = "connected"]
    /\ UNCHANGED <<relayOnly, active, path, suspended, closed, sub, call, supervisorVars,
                   faults, switches>>

(* Its next dial, which the retry loop announces.                          *)
ActiveRetries ==
    /\ ~closed
    /\ path = "direct"
    /\ State = "reconnecting"
    /\ sess' = [sess EXCEPT ![active] = "connecting"]
    /\ UNCHANGED <<relayOnly, active, path, suspended, closed, sub, call, supervisorVars,
                   faults, switches>>

(* The session in use is lost: a relay session for good, a direct one      *)
(* retries by itself.  Once started, the supervisor turns to the relay.    *)
ActiveDrops ==
    /\ ~closed /\ ~suspended
    /\ \/ State = "connected" /\ Fault
       \/ path = "direct" /\ State = "connecting" /\ UNCHANGED faults
    /\ LET ss == [sess EXCEPT ![active] = IF path = "relay" THEN "down" ELSE "reconnecting"]
       IN  IF loaded THEN Recover(FALSE, foreground, ss) ELSE sess' = ss /\ UNCHANGED op
    /\ call' = Rejected
    /\ UNCHANGED <<relayOnly, active, path, suspended, closed, sub, loaded, foreground,
                   rotation, probe, lease, unwritten, switches>>

(* recoverRelay() ends.  A forced replacement that is still due is retried.*)
RecoverEnds(ss) ==
    /\ op' = NoOp
    /\ sess' = ss
    /\ lease' = IF op.force /\ rotation /\ ~closed /\ lease = "none" THEN "retry" ELSE lease

(* This credential has failed: the next one, or the end.                   *)
NextCredential(ss) ==
    IF op.left > 0
    THEN /\ Open([op EXCEPT !.phase = "auth", !.resolved = FALSE, !.left = @ - 1], ss)
         /\ UNCHANGED lease
    ELSE RecoverEnds(ss)

(* The relay session being opened authenticates and is confirmed.          *)
RelayArrives ==
    /\ op.kind = "recover" /\ op.phase = "auth" /\ op.session # 0
    /\ ~closed
    /\ MigrateTo(op.session, "relay")
    /\ op' = [op EXCEPT !.phase = "write", !.session = 0]
    /\ rotation' = FALSE
    /\ unwritten' = FALSE
    /\ probe' = Scheduled(probe, foreground, "relay")
    /\ UNCHANGED <<relayOnly, closed, loaded, foreground, lease, faults, switches>>

(* mutant: a session that did not authenticate is left open *)
AbandonedLeftOpen == sess

(* A session that did not authenticate is closed.                          *)
Abandoned == IF op.session = 0 THEN sess ELSE [sess EXCEPT ![op.session] = "down"]

(* It fails, times out, or authenticates on a closed client.  The director *)
(* is asked once, if the failure calls for it.                             *)
RelayFails ==
    /\ op.kind = "recover" /\ op.phase = "auth"
    /\ IF closed THEN UNCHANGED faults ELSE Fault
    /\ \/ /\ ~op.resolved
          /\ op' = [op EXCEPT !.phase = "resolve", !.session = 0]
          /\ sess' = Abandoned
          /\ UNCHANGED lease
       \/ NextCredential(Abandoned)
    /\ UNCHANGED <<relayOnly, active, path, suspended, closed, sub, call, loaded,
                   foreground, rotation, probe, unwritten, switches>>

(* The director has named the cell: the same credential is tried there.    *)
Resolves ==
    /\ op.phase = "resolve"
    /\ Open([op EXCEPT !.phase = "auth", !.resolved = TRUE], sess)
    /\ UNCHANGED <<relayOnly, active, path, suspended, closed, sub, call, loaded,
                   foreground, rotation, probe, lease, unwritten, faults, switches>>

ResolveFails ==
    /\ op.phase = "resolve"
    /\ Fault
    /\ NextCredential(sess)
    /\ UNCHANGED <<relayOnly, active, path, suspended, closed, sub, call, loaded,
                   foreground, rotation, probe, unwritten, switches>>

(* mutant: the lease of the new session is not watched *)
LeaseTimerKept == lease

(* scheduleLeaseRotation()                                                 *)
LeaseTimer == "lease"

(* The renewed bundle is stored: the lease is watched and recoverRelay()   *)
(* ends, with the client closed or not.                                    *)
BundleWritten ==
    /\ op.phase = "write"
    /\ lease' = LeaseTimer
    /\ probe' = Scheduled(probe, foreground, path)
    /\ op' = NoOp
    /\ UNCHANGED <<relayOnly, logicalVars, loaded, foreground, rotation, unwritten,
                   faults, switches>>

(* The bundle cannot be stored: the session is in use, and yet another one *)
(* is tried, as after a failure: with the director's answer, or with the   *)
(* next credential when the error is not one that asks for the director.   *)
WriteFails ==
    /\ op.phase = "write"
    /\ Fault
    /\ unwritten' = TRUE
    /\ \/ /\ ~op.resolved
          /\ op' = [op EXCEPT !.phase = "resolve"]
          /\ UNCHANGED <<sess, lease>>
       \/ NextCredential(sess)
    /\ UNCHANGED <<relayOnly, active, path, suspended, closed, sub, call, loaded,
                   foreground, rotation, probe, switches>>

ProbeOp == [kind |-> "probe", phase |-> "open", session |-> 0, force |-> FALSE,
            resolved |-> FALSE, left |-> 0]

(* The probe timer fires: a direct session is tried, unless this is not    *)
(* the time for it.                                                        *)
ProbeFires ==
    /\ probe
    /\ \/ /\ probe' = Scheduled(FALSE, foreground, path)
          /\ UNCHANGED <<op, sess>>
       \/ /\ ~closed /\ foreground /\ op.kind = "none"
          /\ probe' = FALSE
          /\ Open(ProbeOp, sess)
    /\ UNCHANGED <<relayOnly, active, path, suspended, closed, sub, call, loaded,
                   foreground, rotation, lease, unwritten, faults, switches>>

(* mutant: a rotation that fell due during the probe is forgotten *)
RecoversAfterProbeNever == FALSE

(* A rotation that fell due during the probe is made up for.               *)
RecoversAfterProbe == rotation /\ ~closed /\ foreground

(* No direct endpoint answers, hysteresis holds back, or the client was    *)
(* closed: the probe's session is closed and probeDirect() ends.           *)
ProbeGivesUp ==
    /\ op.phase = "open"
    /\ IF RecoversAfterProbe
       THEN Open(RecoverOp(TRUE), Abandoned)
       ELSE op' = NoOp /\ sess' = Abandoned
    /\ probe' = Scheduled(probe, foreground, path)
    /\ UNCHANGED <<relayOnly, active, path, suspended, closed, sub, call, loaded, foreground,
                   rotation, lease, unwritten, faults, switches>>

(* The direct session authenticates and hysteresis lets it take over.  The *)
(* state listener has begun the credential rotation by the time            *)
(* probeDirect() asks for one, so it ends without waiting.                 *)
DirectArrives ==
    /\ op.phase = "open" /\ op.session # 0
    /\ ~closed
    /\ MigrateTo(op.session, "direct")
    /\ op' = NoOp
    /\ lease' = "none"
    /\ rotation' = FALSE
    /\ UNCHANGED <<relayOnly, closed, loaded, foreground, probe, unwritten, faults, switches>>

(* The lease timer fires, or its retry does.                               *)
LeaseFires ==
    /\ lease # "none"
    /\ lease' = "none"
    /\ rotation' = (rotation \/ lease = "lease")
    /\ Recover(TRUE, foreground, sess)
    /\ UNCHANGED <<relayOnly, active, path, suspended, closed, sub, call, loaded,
                   foreground, probe, unwritten, faults, switches>>

(***************************************************************************)
(* The specification                                                       *)
(***************************************************************************)

Init ==
    /\ relayOnly \in BOOLEAN
    /\ active = 1
    /\ path = IF relayOnly THEN "relay" ELSE "direct"
    /\ sess = [s \in Sessions |-> IF s = 1 /\ ~relayOnly THEN "connecting" ELSE "down"]
    /\ suspended = FALSE
    /\ closed = FALSE
    /\ sub = [i \in Subs |-> None]
    /\ call = [c \in Calls |-> None]
    /\ loaded = FALSE
    /\ foreground = TRUE
    /\ op = NoOp
    /\ rotation = FALSE
    /\ probe = FALSE
    /\ lease = "none"
    /\ unwritten = FALSE
    /\ faults = 0
    /\ switches = 0

Next ==
    \/ \E i \in Subs : Subscribe(i) \/ Unsubscribe(i)
    \/ \E c \in Calls : SendRequest(c) \/ Settle(c)
    \/ Load
    \/ Foreground
    \/ Background
    \/ Close
    \/ ActiveConnects
    \/ ActiveRetries
    \/ ActiveDrops
    \/ RelayArrives
    \/ RelayFails
    \/ Resolves
    \/ ResolveFails
    \/ BundleWritten
    \/ WriteFails
    \/ ProbeFires
    \/ ProbeGivesUp
    \/ DirectArrives
    \/ LeaseFires

Spec == Init /\ [][Next]_vars

(* Timers fire and every await ends.  The user does nothing.               *)
Fairness ==
    /\ WF_vars(Load)
    /\ WF_vars(RelayArrives \/ RelayFails)
    /\ WF_vars(Resolves)
    /\ WF_vars(BundleWritten)
    /\ WF_vars(ProbeFires)
    /\ WF_vars(ProbeGivesUp)
    /\ WF_vars(LeaseFires)

FairSpec == Spec /\ Fairness

(***************************************************************************)
(* Properties                                                              *)
(***************************************************************************)

(* Types.  In particular the session an operation opens is never the one   *)
(* in use.                                                                 *)
TypeOK ==
    /\ sess \in [Sessions -> {"down", "connecting", "connected", "reconnecting"}]
    /\ active \in Sessions
    /\ path \in {"direct", "relay"}
    /\ \A i \in Subs : sub[i] = None \/ sub[i] \in Sessions \cup {Detached}
    /\ \A c \in Calls : call[c] = None \/ call[c] \in Sessions
    /\ op.kind \in {"none", "recover", "probe"}
    /\ op.session \in (Sessions \ {active}) \cup {0}
    /\ lease \in {"none", "lease", "retry"}
    /\ {relayOnly, suspended, closed, loaded, foreground, rotation, probe, unwritten} \subseteq BOOLEAN

OpenSessions == {s \in Sessions : sess[s] # "down"}

(* Every session that is open is the one in use or the one the operation   *)
(* in flight is opening: none is forgotten, and a closed or suspended      *)
(* client has none in use.                                                 *)
NoLeak ==
    /\ OpenSessions \subseteq {active, op.session}
    /\ closed \/ suspended => State = "down"

(* In the background no relay session is in use.                           *)
BackgroundHoldsNoRelay == ~foreground /\ path = "relay" => State = "down"

(* Every subscription is attached to the session in use, unless it is      *)
(* suspended, and no request waits on any other.                           *)
AttachedToActive ==
    /\ \A i \in Subs : sub[i] # None => sub[i] = IF suspended THEN Detached ELSE active
    /\ \A c \in Calls : call[c] # None => call[c] = active

(* A relay session in use, with no operation in flight, has a timer that   *)
(* replaces it before its lease ends.                                      *)
LeaseWatched ==
    path = "relay" /\ State = "connected" /\ op.kind = "none" /\ ~unwritten => lease # "none"

(* A rotation that is due happens, unless the session is lost meanwhile.   *)
RotationHappens ==
    rotation /\ foreground /\ State = "connected"
        ~> ~rotation \/ ~foreground \/ State # "connected" \/ unwritten

(* Once closed, everything is released for good.                           *)
CloseReleases == closed ~> [](OpenSessions = {} /\ op = NoOp /\ ~probe /\ lease = "none")

(* In the foreground, a relay session that was released is being opened    *)
(* again.                                                                  *)
ReconnectsOnForeground ==
    foreground /\ loaded /\ ~closed /\ path = "relay" /\ State = "down" => op.kind # "none"
=============================================================================
