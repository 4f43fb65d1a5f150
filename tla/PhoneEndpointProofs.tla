------------------------ MODULE PhoneEndpointProofs ------------------------
(* Proofs about PhoneEndpoint, for any sessions, subscriptions, requests   *)
(* and bounds.                                                             *)
EXTENDS PhoneEndpoint, TLAPS

(***************************************************************************)
(* The inductive invariant                                                 *)
(***************************************************************************)

States == {"down", "connecting", "connected", "reconnecting"}

Ops == [kind : {"none", "recover", "probe"},
        phase : {"none", "auth", "resolve", "write", "open"},
        session : Sessions \cup {0}, force : BOOLEAN, resolved : BOOLEAN, left : Nat]

Types ==
    /\ sess \in [Sessions -> States]
    /\ active \in Sessions
    /\ path \in {"direct", "relay"}
    /\ sub \in [Subs -> Sessions \cup {Detached, None}]
    /\ call \in [Calls -> Sessions \cup {None}]
    /\ op \in Ops
    /\ lease \in {"none", "lease", "retry"}
    /\ relayOnly \in BOOLEAN /\ suspended \in BOOLEAN /\ closed \in BOOLEAN
    /\ loaded \in BOOLEAN /\ foreground \in BOOLEAN /\ rotation \in BOOLEAN
    /\ probe \in BOOLEAN /\ unwritten \in BOOLEAN

(* The phase of an operation fits its kind, and the session it is opening  *)
(* is not the one in use.                                                  *)
OpOK ==
    /\ op.kind = "none" <=> op.phase = "none"
    /\ op.kind = "probe" <=> op.phase = "open"
    /\ op.session # 0 => op.phase \in {"auth", "open"} /\ op.session # active

(* While a relay session is in use and its bundle is stored, whatever is   *)
(* in flight is its replacement, which stays due until it succeeds.        *)
LeaseOK ==
    path = "relay" /\ sess[active] = "connected" /\ ~unwritten /\ op.phase # "write" =>
        /\ op.kind = "recover" => op.force
        /\ lease # "lease" => rotation

IInv ==
    /\ Types /\ OpOK /\ LeaseOK
    /\ NoLeak /\ BackgroundHoldsNoRelay /\ AttachedToActive /\ LeaseWatched

(***************************************************************************)
(* What opening a session does                                             *)
(***************************************************************************)

(* What is left of Open(o, ss) once the choice of the session is hidden.   *)
Opened(o, ss) ==
    /\ op' \in Ops
    /\ sess' \in [Sessions -> States]
    /\ op'.kind = o.kind /\ op'.phase = o.phase /\ op'.force = o.force
    /\ op'.session # active
    /\ sess'[active] = ss[active]
    /\ \A s \in Sessions : sess'[s] # "down" => ss[s] # "down" \/ s = op'.session

(* Opening a session, on a closed client or not (openRelay, openDirect).   *)
LEMMA OpenEffect ==
    ASSUME Types, NEW o \in Ops, NEW ss \in [Sessions -> States], Open(o, ss)
    PROVE  Opened(o, ss)
<1>1. CASE closed
    <2>1. op' = [o EXCEPT !.session = 0] /\ sess' = ss BY <1>1 DEF Open
    <2>2. op' \in Ops /\ op'.session = 0 /\ op'.kind = o.kind /\ op'.phase = o.phase
          /\ op'.force = o.force
        BY <2>1 DEF Ops
    <2> QED BY <2>1, <2>2, PhoneAssumption DEF Opened, Types
<1>2. CASE ~closed
    <2>1. PICK s \in Free(ss) : /\ op' = [o EXCEPT !.session = s]
                               /\ sess' = [ss EXCEPT ![s] = "connecting"]
        BY <1>2 DEF Open
    <2>2. s \in Sessions /\ s # active BY DEF Free
    <2>3. op' \in Ops /\ op'.session = s /\ op'.kind = o.kind /\ op'.phase = o.phase
          /\ op'.force = o.force
        BY <2>1, <2>2 DEF Ops
    <2>4. sess' \in [Sessions -> States] BY <2>1, <2>2 DEF States
    <2>5. sess'[active] = ss[active] BY <2>1, <2>2 DEF Types
    <2>6. \A t \in Sessions : sess'[t] # "down" => ss[t] # "down" \/ t = s
        BY <2>1, <2>2
    <2> QED BY <2>2, <2>3, <2>4, <2>5, <2>6 DEF Opened
<1> QED BY <1>1, <1>2

(* The fields of the operation recoverRelay() begins.                      *)
LEMMA RecoverOpFields ==
    ASSUME NEW force \in BOOLEAN
    PROVE  /\ RecoverOp(force) \in Ops
           /\ RecoverOp(force).kind = "recover"
           /\ RecoverOp(force).phase = "auth"
           /\ RecoverOp(force).force = force
<1>1. Credentials - 1 \in Nat BY PhoneAssumption
<1> QED BY <1>1 DEF RecoverOp, Ops

(* The operation that stands for none.                                     *)
LEMMA NoOpFields ==
    NoOp \in Ops /\ NoOp.kind = "none" /\ NoOp.phase = "none" /\ NoOp.session = 0
BY DEF NoOp, Ops

(* recoverRelay(), up to its first await.                                  *)
LEMMA RecoverEffect ==
    ASSUME Types, NEW force \in BOOLEAN, NEW fg, NEW ss \in [Sessions -> States],
           Recover(force, fg, ss)
    PROVE  \/ /\ Recovers(force, fg, ss)
              /\ Opened(RecoverOp(force), ss)
              /\ op'.kind = "recover" /\ op'.phase = "auth" /\ op'.force = force
           \/ ~Recovers(force, fg, ss) /\ op' = op /\ sess' = ss
<1>1. CASE Recovers(force, fg, ss)
    <2>1. Opened(RecoverOp(force), ss) BY <1>1, OpenEffect, RecoverOpFields DEF Recover
    <2> QED BY <1>1, <2>1, RecoverOpFields DEF Opened
<1>2. CASE ~Recovers(force, fg, ss) BY <1>2 DEF Recover
<1> QED BY <1>1, <1>2

(***************************************************************************)
(* Each action keeps the invariant                                         *)
(***************************************************************************)

(* The app's own calls on the logical client.                              *)
LEMMA AppKeeps ==
    ASSUME IInv,
           \/ \E i \in Subs : Subscribe(i) \/ Unsubscribe(i)
           \/ \E c \in Calls : SendRequest(c) \/ Settle(c)
    PROVE  IInv'
<1>1. Types'
    BY DEF IInv, Types, Detached, Subscribe, Unsubscribe, SendRequest, Settle, supervisorVars
<1>2. AttachedToActive'
    BY DEF IInv, Types, AttachedToActive, Detached, Subscribe, Unsubscribe, SendRequest, Settle,
           supervisorVars
<1>3. NoLeak'
    BY DEF IInv, NoLeak, OpenSessions, State, Subscribe, Unsubscribe, SendRequest, Settle,
           supervisorVars
<1>4. OpOK' /\ LeaseOK' /\ BackgroundHoldsNoRelay' /\ LeaseWatched'
    BY DEF IInv, OpOK, LeaseOK, BackgroundHoldsNoRelay, LeaseWatched, State, Subscribe,
           Unsubscribe, SendRequest, Settle, supervisorVars
<1> QED BY <1>1, <1>2, <1>3, <1>4 DEF IInv

(* A step that opens a session, or begins nothing, and leaves the session  *)
(* in use, its subscriptions and its requests alone (or rejects them).     *)
LEMMA OpeningKeeps ==
    ASSUME IInv, NEW o \in Ops, NEW ss \in [Sessions -> States], Opened(o, ss),
           o.kind \in {"recover", "probe"},
           o.kind = "recover" <=> o.phase = "auth",
           o.kind = "probe" <=> o.phase = "open",
           \A s \in Sessions : ss[s] # "down" => s = active,
           closed \/ suspended => ss[active] = "down",
           UNCHANGED <<active, path, suspended, closed, sub>>,
           call' = call \/ \A c \in Calls : call'[c] = None,
           ~foreground' /\ path = "relay" => ss[active] = "down"
    PROVE  OpOK' /\ NoLeak' /\ BackgroundHoldsNoRelay' /\ AttachedToActive' /\ LeaseWatched'
<1>1. OpOK' BY DEF Opened, OpOK, Ops
<1>2. NoLeak' BY DEF Opened, NoLeak, OpenSessions, State, IInv, Types
<1>3. BackgroundHoldsNoRelay' BY DEF Opened, BackgroundHoldsNoRelay, State
<1>4. AttachedToActive' BY DEF AttachedToActive, IInv
<1>5. LeaseWatched' BY DEF Opened, LeaseWatched
<1> QED BY <1>1, <1>2, <1>3, <1>4, <1>5

(* A step in which recoverRelay() is called, whether it begins or not: the *)
(* session in use is as it was or lost, and the lease is still watched.    *)
LEMMA RecoverKeeps ==
    ASSUME IInv, NEW force \in BOOLEAN, NEW fg \in BOOLEAN, NEW ss \in [Sessions -> States],
           Recover(force, fg, ss),
           \A s \in Sessions \ {active} : ss[s] = sess[s],
           ss[active] # "connected" \/ ss[active] = sess[active],
           closed \/ suspended => ss[active] = "down",
           ~fg /\ path = "relay" => ss[active] = "down",
           foreground' = fg,
           UNCHANGED <<active, path, suspended, closed, sub, unwritten>>,
           call' = call \/ \A c \in Calls : call'[c] = None,
           ss[active] = "connected" /\ path = "relay" /\ ~unwritten =>
               /\ op.phase # "write" => (lease' # "lease" => rotation')
               /\ op.kind = "none" /\ ~Recovers(force, fg, ss) => lease' # "none"
    PROVE  /\ op' \in Ops /\ sess' \in [Sessions -> States]
           /\ OpOK' /\ LeaseOK' /\ NoLeak' /\ BackgroundHoldsNoRelay'
           /\ AttachedToActive' /\ LeaseWatched'
<1> Types BY DEF IInv
<1>1. CASE Recovers(force, fg, ss)
    <2>1. /\ Opened(RecoverOp(force), ss)
          /\ op'.kind = "recover" /\ op'.phase = "auth" /\ op'.force = force
        BY <1>1, RecoverEffect
    <2>2. op.kind = "none" /\ op.session = 0
        BY <1>1 DEF Recovers, IInv, OpOK, Types, Ops
    <2>3. \A s \in Sessions : ss[s] # "down" => s = active
        BY <2>2, PhoneAssumption DEF IInv, NoLeak, OpenSessions
    <2>4. OpOK' /\ NoLeak' /\ BackgroundHoldsNoRelay' /\ AttachedToActive' /\ LeaseWatched'
        BY <2>1, <2>3, OpeningKeeps, RecoverOpFields
    <2>5. ss[active] = "connected" => force BY <1>1 DEF Recovers
    <2>6. op.phase = "none" BY <2>2 DEF IInv, OpOK
    <2>7. LeaseOK' BY <2>1, <2>5, <2>6 DEF Opened, LeaseOK
    <2> QED BY <2>1, <2>4, <2>7 DEF Opened
<1>2. CASE ~Recovers(force, fg, ss)
    <2>1. op' = op /\ sess' = ss BY <1>2, RecoverEffect
    <2>2. OpOK' BY <2>1 DEF IInv, OpOK
    <2>3. LeaseOK' BY <2>1 DEF IInv, LeaseOK
    <2>4. NoLeak' BY <2>1 DEF IInv, NoLeak, OpenSessions, State, Types
    <2>5. BackgroundHoldsNoRelay' BY <2>1 DEF BackgroundHoldsNoRelay, State
    <2>6. AttachedToActive' BY DEF IInv, AttachedToActive
    <2>7. LeaseWatched' BY <1>2, <2>1 DEF LeaseWatched, State
    <2>8. op' \in Ops /\ sess' \in [Sessions -> States] BY <2>1 DEF Types
    <2> QED BY <2>2, <2>3, <2>4, <2>5, <2>6, <2>7, <2>8
<1> QED BY <1>1, <1>2

(* start(), once the bundle is read.                                       *)
LEMMA LoadKeeps == ASSUME IInv, Load PROVE IInv'
<1> Types BY DEF IInv
<1>1. CASE State \in {"down", "reconnecting"}
    <2>1. Recover(FALSE, foreground, sess) /\ UNCHANGED probe BY <1>1 DEF Load
    <2>2. UNCHANGED <<active, path, suspended, closed, sub, unwritten, call, foreground, lease,
                      rotation, relayOnly>>
        BY DEF Load
    <2>3. foreground \in BOOLEAN /\ sess \in [Sessions -> States] BY DEF Types
    <2>4. /\ closed \/ suspended => sess[active] = "down"
          /\ ~foreground /\ path = "relay" => sess[active] = "down"
        BY DEF IInv, NoLeak, BackgroundHoldsNoRelay, State
    <2>5. sess[active] # "connected" BY <1>1 DEF State
    <2>6. /\ op' \in Ops /\ sess' \in [Sessions -> States]
          /\ OpOK' /\ LeaseOK' /\ NoLeak' /\ BackgroundHoldsNoRelay'
          /\ AttachedToActive' /\ LeaseWatched'
        BY <2>1, <2>2, <2>3, <2>4, <2>5, RecoverKeeps
    <2>7. Types' BY <2>1, <2>2, <2>6 DEF Types, Load
    <2> QED BY <2>6, <2>7 DEF IInv
<1>2. CASE State \notin {"down", "reconnecting"}
    <2>1. UNCHANGED <<op, sess, active, path, suspended, closed, sub, call, foreground, rotation,
                      lease, unwritten, relayOnly>> /\ loaded' = TRUE
          /\ probe' = Scheduled(probe, foreground, path)
        BY <1>2 DEF Load
    <2>2. Types' BY <2>1 DEF Types, Scheduled
    <2>3. OpOK' /\ LeaseOK' /\ BackgroundHoldsNoRelay' /\ LeaseWatched'
        BY <2>1 DEF IInv, OpOK, LeaseOK, BackgroundHoldsNoRelay, LeaseWatched, State
    <2>4. NoLeak' /\ AttachedToActive'
        BY <2>1 DEF IInv, NoLeak, OpenSessions, AttachedToActive, State
    <2> QED BY <2>2, <2>3, <2>4 DEF IInv
<1> QED BY <1>1, <1>2

(* setForeground(true)                                                     *)
LEMMA ForegroundKeeps == ASSUME IInv, Foreground PROVE IInv'
<1> Types BY DEF IInv
<1>1. /\ UNCHANGED <<active, path, suspended, closed, sub, call, loaded, rotation, lease,
                     unwritten, relayOnly>>
      /\ foreground' = TRUE /\ ~closed
      /\ probe' = Scheduled(probe, TRUE, path)
    BY DEF Foreground
<1>2. /\ op' \in Ops /\ sess' \in [Sessions -> States]
      /\ OpOK' /\ LeaseOK' /\ NoLeak' /\ BackgroundHoldsNoRelay'
      /\ AttachedToActive' /\ LeaseWatched'
    <2>1. CASE loaded
        <3>1. Recover(rotation, TRUE, sess) BY <2>1 DEF Foreground
        <3>2. rotation \in BOOLEAN /\ sess \in [Sessions -> States] BY DEF Types
        <3>3. closed \/ suspended => sess[active] = "down" BY DEF IInv, NoLeak, State
        <3>4. sess[active] = "connected" /\ path = "relay" /\ ~unwritten =>
                  /\ op.phase # "write" => (lease # "lease" => rotation)
                  /\ op.kind = "none" => lease # "none"
            BY DEF IInv, LeaseOK, LeaseWatched, State
        <3> QED BY <1>1, <3>1, <3>2, <3>3, <3>4, RecoverKeeps
    <2>2. CASE ~loaded
        <3>1. UNCHANGED <<op, sess>> BY <2>2 DEF Foreground
        <3>2. OpOK' /\ LeaseOK' /\ BackgroundHoldsNoRelay' /\ LeaseWatched'
            BY <1>1, <3>1 DEF IInv, OpOK, LeaseOK, BackgroundHoldsNoRelay, LeaseWatched, State
        <3>3. NoLeak' /\ AttachedToActive'
            BY <1>1, <3>1 DEF IInv, NoLeak, OpenSessions, AttachedToActive, State
        <3> QED BY <3>1, <3>2, <3>3 DEF Types
    <2> QED BY <2>1, <2>2
<1>3. Types' BY <1>1, <1>2 DEF Types, Scheduled
<1> QED BY <1>2, <1>3 DEF IInv

(* setForeground(false): the relay session in use is suspended.            *)
LEMMA BackgroundKeeps == ASSUME IInv, Background PROVE IInv'
<1> Types BY DEF IInv
<1>1. UNCHANGED <<active, path, closed, loaded, op, rotation, lease, unwritten, relayOnly>>
      /\ foreground' = FALSE /\ probe' = FALSE
    BY DEF Background
<1>2. CASE path = "relay" /\ ~closed /\ ~suspended
    <2>1. /\ suspended' = TRUE
          /\ sess' = [sess EXCEPT ![active] = "down"]
          /\ sub' = AttachedTo(Detached)
          /\ call' = Rejected
        BY <1>2 DEF Background, Suspend
    <2>2. sess' \in [Sessions -> States] /\ sess'[active] = "down"
        BY <2>1 DEF Types, States
    <2>3. sub' \in [Subs -> Sessions \cup {Detached, None}] /\ call' \in [Calls -> Sessions \cup {None}]
        BY <2>1 DEF AttachedTo, Rejected, Types
    <2>4. Types' BY <1>1, <2>1, <2>2, <2>3 DEF Types
    <2>5. NoLeak' BY <1>1, <2>1, <2>2 DEF IInv, NoLeak, OpenSessions, State, Types
    <2>6. AttachedToActive' BY <1>1, <2>1 DEF AttachedToActive, AttachedTo, Rejected, Types
    <2>7. OpOK' /\ LeaseOK' /\ BackgroundHoldsNoRelay' /\ LeaseWatched'
        BY <1>1, <2>2 DEF IInv, OpOK, LeaseOK, BackgroundHoldsNoRelay, LeaseWatched, State
    <2> QED BY <2>4, <2>5, <2>6, <2>7 DEF IInv
<1>3. CASE ~(path = "relay" /\ ~closed /\ ~suspended)
    <2>1. UNCHANGED <<sess, suspended, sub, call>> BY <1>3 DEF Background, Suspend
    <2>2. path = "relay" => sess[active] = "down" BY <1>3 DEF IInv, NoLeak, State
    <2>3. Types' BY <1>1, <2>1 DEF Types
    <2>4. NoLeak' /\ AttachedToActive'
        BY <1>1, <2>1 DEF IInv, NoLeak, OpenSessions, AttachedToActive, State
    <2>5. OpOK' /\ LeaseOK' /\ BackgroundHoldsNoRelay' /\ LeaseWatched'
        BY <1>1, <2>1, <2>2 DEF IInv, OpOK, LeaseOK, BackgroundHoldsNoRelay, LeaseWatched, State
    <2> QED BY <2>3, <2>4, <2>5 DEF IInv
<1> QED BY <1>2, <1>3

(* close()                                                                 *)
LEMMA CloseKeeps == ASSUME IInv, Close PROVE IInv'
<1> Types BY DEF IInv
<1>1. /\ UNCHANGED <<active, path, suspended, loaded, foreground, op, rotation, unwritten, relayOnly>>
      /\ closed' = TRUE /\ probe' = FALSE /\ lease' = "none"
      /\ sess' = [sess EXCEPT ![active] = "down"]
      /\ sub' = [i \in Subs |-> None]
      /\ call' = Rejected
    BY DEF Close
<1>2. sess' \in [Sessions -> States] /\ sess'[active] = "down" BY <1>1 DEF Types, States
<1>3. Types' BY <1>1, <1>2 DEF Types, Rejected
<1>4. NoLeak' BY <1>1, <1>2 DEF IInv, NoLeak, OpenSessions, State, Types
<1>5. AttachedToActive' BY <1>1 DEF AttachedToActive, Rejected
<1>6. OpOK' /\ LeaseOK' /\ BackgroundHoldsNoRelay' /\ LeaseWatched'
    BY <1>1, <1>2 DEF IInv, OpOK, LeaseOK, BackgroundHoldsNoRelay, LeaseWatched, State
<1> QED BY <1>3, <1>4, <1>5, <1>6 DEF IInv

(* The direct session's own connects and retries.                          *)
LEMMA DirectKeeps == ASSUME IInv, ActiveConnects \/ ActiveRetries PROVE IInv'
<1> Types BY DEF IInv
<1>1. /\ UNCHANGED <<active, path, suspended, closed, sub, call, supervisorVars, relayOnly>>
      /\ ~closed /\ path = "direct" /\ sess[active] # "down"
      /\ sess' = [sess EXCEPT ![active] = "connected"] \/ sess' = [sess EXCEPT ![active] = "connecting"]
    BY DEF ActiveConnects, ActiveRetries, State
<1>2. sess' \in [Sessions -> States] BY <1>1 DEF Types, States
<1>3. Types' BY <1>1, <1>2 DEF Types, supervisorVars
<1>4. NoLeak' BY <1>1 DEF IInv, NoLeak, OpenSessions, State, Types, supervisorVars
<1>5. OpOK' /\ LeaseOK' /\ BackgroundHoldsNoRelay' /\ AttachedToActive' /\ LeaseWatched'
    BY <1>1 DEF IInv, OpOK, LeaseOK, BackgroundHoldsNoRelay, AttachedToActive, LeaseWatched, State,
                supervisorVars
<1> QED BY <1>3, <1>4, <1>5 DEF IInv

(* The session in use is lost.                                             *)
LEMMA ActiveDropsKeeps == ASSUME IInv, ActiveDrops PROVE IInv'
<1> Types BY DEF IInv
<1> DEFINE ss == [sess EXCEPT ![active] = IF path = "relay" THEN "down" ELSE "reconnecting"]
<1>1. /\ UNCHANGED <<active, path, suspended, closed, sub, loaded, foreground, rotation, probe,
                     lease, unwritten, relayOnly>>
      /\ call' = Rejected /\ ~closed /\ ~suspended /\ sess[active] # "down"
      /\ IF loaded THEN Recover(FALSE, foreground, ss) ELSE sess' = ss /\ UNCHANGED op
    BY DEF ActiveDrops, State
<1>2. /\ ss \in [Sessions -> States]
      /\ \A s \in Sessions \ {active} : ss[s] = sess[s]
      /\ ss[active] = IF path = "relay" THEN "down" ELSE "reconnecting"
    BY DEF Types, States
<1>3. \A c \in Calls : call'[c] = None BY <1>1 DEF Rejected
<1> HIDE DEF ss
<1>4. /\ op' \in Ops /\ sess' \in [Sessions -> States]
      /\ OpOK' /\ LeaseOK' /\ NoLeak' /\ BackgroundHoldsNoRelay'
      /\ AttachedToActive' /\ LeaseWatched'
    <2>1. CASE loaded
        <3>1. Recover(FALSE, foreground, ss) /\ foreground \in BOOLEAN BY <1>1, <2>1 DEF Types
        <3> QED BY <1>1, <1>2, <1>3, <3>1, RecoverKeeps
    <2>2. CASE ~loaded
        <3>1. sess' = ss /\ op' = op BY <1>1, <2>2
        <3>2. NoLeak' BY <1>1, <1>2, <3>1 DEF IInv, NoLeak, OpenSessions, State, Types
        <3>3. OpOK' /\ LeaseOK' /\ BackgroundHoldsNoRelay' /\ AttachedToActive' /\ LeaseWatched'
            BY <1>1, <1>2, <1>3, <3>1 DEF IInv, OpOK, LeaseOK, BackgroundHoldsNoRelay,
               AttachedToActive, LeaseWatched, State
        <3> QED BY <1>2, <3>1, <3>2, <3>3 DEF Types
    <2> QED BY <2>1, <2>2
<1>5. Types' BY <1>1, <1>4 DEF Types, Rejected
<1> QED BY <1>4, <1>5 DEF IInv

(* What migrateTo() leaves behind.                                         *)
LEMMA MigrateEffect ==
    ASSUME IInv, NEW p \in {"direct", "relay"}, op.session # 0, ~closed,
           MigrateTo(op.session, p), op'.session = 0, UNCHANGED <<closed, foreground>>
    PROVE  /\ sess' \in [Sessions -> States] /\ active' \in Sessions /\ path' = p
           /\ suspended' \in BOOLEAN
           /\ sub' \in [Subs -> Sessions \cup {Detached, None}]
           /\ call' \in [Calls -> Sessions \cup {None}]
           /\ NoLeak' /\ BackgroundHoldsNoRelay' /\ AttachedToActive'
<1> Types /\ op.session \in Sessions /\ op.session # active
    BY DEF IInv, OpOK, Types, Ops
<1>1. /\ active' = op.session /\ path' = p
      /\ suspended' = SuspendsOnArrival(p)
      /\ sess' = [sess EXCEPT ![active] = "down",
                              ![op.session] = IF SuspendsOnArrival(p) THEN "down" ELSE "connected"]
      /\ sub' = AttachedTo(IF SuspendsOnArrival(p) THEN Detached ELSE op.session)
      /\ call' = Rejected
    BY DEF MigrateTo, PreviousState
<1>2. SuspendsOnArrival(p) \in BOOLEAN BY DEF SuspendsOnArrival
<1>3. sess' \in [Sessions -> States] BY <1>1 DEF Types, States
<1>4. /\ sub' \in [Subs -> Sessions \cup {Detached, None}]
      /\ call' \in [Calls -> Sessions \cup {None}]
    BY <1>1 DEF AttachedTo, Rejected, Types
<1>5. /\ sess'[active'] = IF SuspendsOnArrival(p) THEN "down" ELSE "connected"
      /\ \A s \in Sessions : sess'[s] # "down" => s = active'
    BY <1>1 DEF IInv, NoLeak, OpenSessions, Types
<1>6. NoLeak' BY <1>1, <1>5 DEF NoLeak, OpenSessions, State
<1>7. BackgroundHoldsNoRelay' BY <1>1, <1>5 DEF BackgroundHoldsNoRelay, State, SuspendsOnArrival
<1>8. AttachedToActive' BY <1>1 DEF AttachedToActive, AttachedTo, Rejected, Types
<1> QED BY <1>1, <1>2, <1>3, <1>4, <1>6, <1>7, <1>8

(* The relay session arrives.                                              *)
LEMMA RelayArrivesKeeps == ASSUME IInv, RelayArrives PROVE IInv'
<1> Types BY DEF IInv
<1>1. op' = [op EXCEPT !.phase = "write", !.session = 0] BY DEF RelayArrives
<1>2. op' \in Ops /\ op'.session = 0 /\ op'.phase = "write" /\ op'.kind = "recover"
    BY <1>1 DEF RelayArrives, Types, Ops
<1>3. /\ UNCHANGED <<closed, loaded, foreground, lease, relayOnly>>
      /\ rotation' = FALSE /\ unwritten' = FALSE
      /\ probe' = Scheduled(probe, foreground, "relay")
      /\ MigrateTo(op.session, "relay") /\ op.session # 0 /\ ~closed
    BY DEF RelayArrives
<1>4. /\ sess' \in [Sessions -> States] /\ active' \in Sessions /\ path' = "relay"
      /\ suspended' \in BOOLEAN
      /\ sub' \in [Subs -> Sessions \cup {Detached, None}]
      /\ call' \in [Calls -> Sessions \cup {None}]
      /\ NoLeak' /\ BackgroundHoldsNoRelay' /\ AttachedToActive'
    BY <1>2, <1>3, MigrateEffect
<1>5. Types' BY <1>2, <1>3, <1>4 DEF Types, Scheduled
<1>6. OpOK' /\ LeaseOK' /\ LeaseWatched' BY <1>2 DEF OpOK, LeaseOK, LeaseWatched
<1> QED BY <1>4, <1>5, <1>6 DEF IInv

(* The direct session arrives.                                             *)
LEMMA DirectArrivesKeeps == ASSUME IInv, DirectArrives PROVE IInv'
<1> Types BY DEF IInv
<1>1. /\ op' = NoOp /\ lease' = "none" /\ rotation' = FALSE
      /\ UNCHANGED <<closed, loaded, foreground, probe, unwritten, relayOnly>>
      /\ MigrateTo(op.session, "direct") /\ op.session # 0 /\ ~closed
    BY DEF DirectArrives
<1>2. /\ sess' \in [Sessions -> States] /\ active' \in Sessions /\ path' = "direct"
      /\ suspended' \in BOOLEAN
      /\ sub' \in [Subs -> Sessions \cup {Detached, None}]
      /\ call' \in [Calls -> Sessions \cup {None}]
      /\ NoLeak' /\ BackgroundHoldsNoRelay' /\ AttachedToActive'
    BY <1>1, NoOpFields, MigrateEffect
<1>3. Types' BY <1>1, <1>2, NoOpFields DEF Types
<1>4. OpOK' /\ LeaseOK' /\ LeaseWatched' BY <1>1, <1>2, NoOpFields DEF OpOK, LeaseOK, LeaseWatched
<1> QED BY <1>2, <1>3, <1>4 DEF IInv

(* A session that did not authenticate leaves only the one in use.         *)
LEMMA AbandonedEffect ==
    ASSUME IInv
    PROVE  /\ Abandoned \in [Sessions -> States]
           /\ Abandoned[active] = sess[active]
           /\ \A s \in Sessions : Abandoned[s] # "down" => s = active
<1> Types /\ op.session \in Sessions \cup {0} /\ op.session # active
    BY PhoneAssumption DEF IInv, OpOK, Types, Ops
<1>1. CASE op.session = 0 BY <1>1, PhoneAssumption DEF Abandoned, IInv, NoLeak, OpenSessions, Types
<1>2. CASE op.session # 0 BY <1>2 DEF Abandoned, IInv, NoLeak, OpenSessions, Types, States
<1> QED BY <1>1, <1>2

(* A phase without a session leaves only the one in use.                   *)
LEMMA OnlyActive ==
    ASSUME IInv, op.phase \notin {"auth", "open"}
    PROVE  \A s \in Sessions : sess[s] # "down" => s = active
BY PhoneAssumption DEF IInv, OpOK, NoLeak, OpenSessions

(* The next credential is tried, or recoverRelay() ends.                   *)
LEMMA NextCredentialKeeps ==
    ASSUME IInv, NEW ss \in [Sessions -> States], NextCredential(ss),
           op.kind = "recover",
           ss[active] = sess[active],
           \A s \in Sessions : ss[s] # "down" => s = active,
           UNCHANGED <<active, path, suspended, closed, sub, call, foreground, rotation>>,
           unwritten' = unwritten \/ unwritten',
           op.phase = "write" => unwritten'
    PROVE  /\ op' \in Ops /\ sess' \in [Sessions -> States] /\ lease' \in {"none", "lease", "retry"}
           /\ OpOK' /\ LeaseOK' /\ NoLeak' /\ BackgroundHoldsNoRelay'
           /\ AttachedToActive' /\ LeaseWatched'
<1> Types BY DEF IInv
<1>1. /\ closed \/ suspended => ss[active] = "down"
      /\ ~foreground /\ path = "relay" => ss[active] = "down"
    BY DEF IInv, NoLeak, BackgroundHoldsNoRelay, State
<1>2. path = "relay" /\ ss[active] = "connected" /\ ~unwritten' =>
          op.force /\ ~closed /\ (lease # "lease" => rotation)
    BY <1>1 DEF IInv, LeaseOK
<1>3. CASE op.left > 0
    <2> DEFINE o == [op EXCEPT !.phase = "auth", !.resolved = FALSE, !.left = @ - 1]
    <2>1. Open(o, ss) /\ lease' = lease BY <1>3 DEF NextCredential
    <2>2. op.left - 1 \in Nat BY <1>3 DEF Types, Ops
    <2>3. o \in Ops /\ o.kind = "recover" /\ o.phase = "auth" /\ o.force = op.force
        BY <2>2 DEF Types, Ops
    <2> HIDE DEF o
    <2>4. Opened(o, ss) BY <2>1, <2>3, OpenEffect
    <2>5. OpOK' /\ NoLeak' /\ BackgroundHoldsNoRelay' /\ AttachedToActive' /\ LeaseWatched'
        BY <1>1, <2>3, <2>4, OpeningKeeps
    <2>6. LeaseOK' BY <1>2, <2>1, <2>3, <2>4 DEF LeaseOK, Opened
    <2> QED BY <2>1, <2>4, <2>5, <2>6 DEF Opened, Types
<1>4. CASE ~(op.left > 0)
    <2>1. /\ op' = NoOp /\ sess' = ss
          /\ lease' = IF op.force /\ rotation /\ ~closed /\ lease = "none" THEN "retry" ELSE lease
        BY <1>4 DEF NextCredential, RecoverEnds
    <2>2. OpOK' BY <2>1, NoOpFields DEF OpOK
    <2>3. NoLeak' BY <1>1, <2>1 DEF NoLeak, OpenSessions, State
    <2>4. BackgroundHoldsNoRelay' BY <1>1, <2>1 DEF BackgroundHoldsNoRelay, State
    <2>5. AttachedToActive' BY DEF IInv, AttachedToActive
    <2>6. LeaseOK' /\ LeaseWatched' BY <1>2, <2>1, NoOpFields DEF LeaseOK, LeaseWatched, State
    <2>7. lease' \in {"none", "lease", "retry"} BY <2>1 DEF Types
    <2> QED BY <2>1, <2>2, <2>3, <2>4, <2>5, <2>6, <2>7, NoOpFields
<1> QED BY <1>3, <1>4

(* The director is asked: no session is open but the one in use.           *)
LEMMA ResolveKeeps ==
    ASSUME IInv, op.kind = "recover",
           op' = [op EXCEPT !.phase = "resolve", !.session = 0],
           sess' \in [Sessions -> States], sess'[active] = sess[active],
           \A s \in Sessions : sess'[s] # "down" => s = active,
           UNCHANGED <<active, path, suspended, closed, sub, call, foreground, rotation, lease>>,
           unwritten' = unwritten \/ unwritten',
           op.phase = "write" => unwritten'
    PROVE  /\ op' \in Ops
           /\ OpOK' /\ LeaseOK' /\ NoLeak' /\ BackgroundHoldsNoRelay'
           /\ AttachedToActive' /\ LeaseWatched'
<1>1. op' \in Ops /\ op'.kind = "recover" /\ op'.phase = "resolve" /\ op'.session = 0
      /\ op'.force = op.force
    BY DEF IInv, Types, Ops
<1>2. OpOK' BY <1>1 DEF OpOK
<1>3. LeaseOK' BY <1>1 DEF IInv, LeaseOK
<1>4. NoLeak' BY DEF IInv, NoLeak, OpenSessions, State
<1>5. BackgroundHoldsNoRelay' /\ AttachedToActive'
    BY DEF IInv, BackgroundHoldsNoRelay, AttachedToActive, State
<1>6. LeaseWatched' BY <1>1 DEF LeaseWatched
<1> QED BY <1>1, <1>2, <1>3, <1>4, <1>5, <1>6

(* The relay session being opened fails.                                   *)
LEMMA RelayFailsKeeps == ASSUME IInv, RelayFails PROVE IInv'
<1> Types BY DEF IInv
<1>1. /\ UNCHANGED <<active, path, suspended, closed, sub, call, loaded, foreground, rotation,
                     probe, unwritten, relayOnly>>
      /\ op.kind = "recover" /\ op.phase = "auth"
    BY DEF RelayFails
<1>2. /\ op' \in Ops /\ sess' \in [Sessions -> States] /\ lease' \in {"none", "lease", "retry"}
      /\ OpOK' /\ LeaseOK' /\ NoLeak' /\ BackgroundHoldsNoRelay'
      /\ AttachedToActive' /\ LeaseWatched'
    <2>1. CASE NextCredential(Abandoned) BY <1>1, <2>1, AbandonedEffect, NextCredentialKeeps
    <2>2. CASE /\ op' = [op EXCEPT !.phase = "resolve", !.session = 0]
               /\ sess' = Abandoned /\ UNCHANGED lease
        <3>1. sess' \in [Sessions -> States] /\ sess'[active] = sess[active]
              /\ \A s \in Sessions : sess'[s] # "down" => s = active
            BY <2>2, AbandonedEffect
        <3>2. lease' \in {"none", "lease", "retry"} BY <2>2 DEF Types
        <3> QED BY <1>1, <2>2, <3>1, <3>2, ResolveKeeps
    <2> QED BY <2>1, <2>2 DEF RelayFails
<1>3. Types' BY <1>1, <1>2 DEF Types
<1> QED BY <1>2, <1>3 DEF IInv

(* The bundle cannot be stored.                                            *)
LEMMA WriteFailsKeeps == ASSUME IInv, WriteFails PROVE IInv'
<1> Types BY DEF IInv
<1>1. /\ UNCHANGED <<active, path, suspended, closed, sub, call, loaded, foreground, rotation,
                     probe, relayOnly>>
      /\ unwritten' = TRUE /\ op.phase = "write"
    BY DEF WriteFails
<1>2. op.kind = "recover" /\ op.session = 0
    BY <1>1 DEF IInv, OpOK, Types, Ops
<1>3. \A s \in Sessions : sess[s] # "down" => s = active BY <1>1, OnlyActive
<1>4. /\ op' \in Ops /\ sess' \in [Sessions -> States] /\ lease' \in {"none", "lease", "retry"}
      /\ OpOK' /\ LeaseOK' /\ NoLeak' /\ BackgroundHoldsNoRelay'
      /\ AttachedToActive' /\ LeaseWatched'
    <2>1. CASE NextCredential(sess)
        <3>1. sess \in [Sessions -> States] BY DEF Types
        <3> QED BY <1>1, <1>2, <1>3, <2>1, <3>1, NextCredentialKeeps
    <2>2. CASE op' = [op EXCEPT !.phase = "resolve"] /\ UNCHANGED <<sess, lease>>
        <3>1. op' = [op EXCEPT !.phase = "resolve", !.session = 0]
            BY <1>2, <2>2 DEF Types, Ops
        <3>2. sess' \in [Sessions -> States] /\ sess' = sess /\ lease' \in {"none", "lease", "retry"}
            BY <2>2 DEF Types
        <3> QED BY <1>1, <1>2, <1>3, <2>2, <3>1, <3>2, ResolveKeeps
    <2> QED BY <2>1, <2>2 DEF WriteFails
<1>5. Types' BY <1>1, <1>4 DEF Types
<1> QED BY <1>4, <1>5 DEF IInv

(* The same credential is tried at the cell the director has named.        *)
LEMMA ResolvesKeeps == ASSUME IInv, Resolves PROVE IInv'
<1> Types BY DEF IInv
<1> DEFINE o == [op EXCEPT !.phase = "auth", !.resolved = TRUE]
<1>1. /\ UNCHANGED <<active, path, suspended, closed, sub, call, loaded, foreground, rotation,
                     probe, lease, unwritten, relayOnly>>
      /\ op.phase = "resolve" /\ Open(o, sess)
    BY DEF Resolves
<1>2. op.kind = "recover" BY <1>1 DEF IInv, OpOK, Types, Ops
<1>3. o \in Ops /\ o.kind = "recover" /\ o.phase = "auth" /\ o.force = op.force
    BY <1>2 DEF Types, Ops
<1> HIDE DEF o
<1>4. sess \in [Sessions -> States] BY DEF Types
<1>5. Opened(o, sess) BY <1>1, <1>3, <1>4, OpenEffect
<1>6. \A s \in Sessions : sess[s] # "down" => s = active BY <1>1, OnlyActive
<1>7. /\ closed \/ suspended => sess[active] = "down"
      /\ ~foreground /\ path = "relay" => sess[active] = "down"
    BY DEF IInv, NoLeak, BackgroundHoldsNoRelay, State
<1>8. OpOK' /\ NoLeak' /\ BackgroundHoldsNoRelay' /\ AttachedToActive' /\ LeaseWatched'
    BY <1>1, <1>3, <1>4, <1>5, <1>6, <1>7, OpeningKeeps
<1>9. LeaseOK' BY <1>1, <1>2, <1>3, <1>5 DEF IInv, LeaseOK, Opened
<1>10. Types' BY <1>1, <1>5 DEF Types, Opened
<1> QED BY <1>8, <1>9, <1>10 DEF IInv

(* The director does not answer.                                           *)
LEMMA ResolveFailsKeeps == ASSUME IInv, ResolveFails PROVE IInv'
<1> Types BY DEF IInv
<1>1. /\ UNCHANGED <<active, path, suspended, closed, sub, call, loaded, foreground, rotation,
                     probe, unwritten, relayOnly>>
      /\ op.phase = "resolve" /\ NextCredential(sess)
    BY DEF ResolveFails
<1>2. op.kind = "recover" BY <1>1 DEF IInv, OpOK, Types, Ops
<1>3. \A s \in Sessions : sess[s] # "down" => s = active BY <1>1, OnlyActive
<1>4. sess \in [Sessions -> States] BY DEF Types
<1>5. /\ op' \in Ops /\ sess' \in [Sessions -> States] /\ lease' \in {"none", "lease", "retry"}
      /\ OpOK' /\ LeaseOK' /\ NoLeak' /\ BackgroundHoldsNoRelay'
      /\ AttachedToActive' /\ LeaseWatched'
    BY <1>1, <1>2, <1>3, <1>4, NextCredentialKeeps
<1>6. Types' BY <1>1, <1>5 DEF Types
<1> QED BY <1>5, <1>6 DEF IInv

(* The bundle is stored and the lease watched.                             *)
LEMMA BundleWrittenKeeps == ASSUME IInv, BundleWritten PROVE IInv'
<1> Types BY DEF IInv
<1>1. /\ UNCHANGED <<sess, active, path, suspended, closed, sub, call, loaded, foreground,
                     rotation, unwritten, relayOnly>>
      /\ op.phase = "write" /\ op' = NoOp /\ lease' = "lease"
      /\ probe' = Scheduled(probe, foreground, path)
    BY DEF BundleWritten, LeaseTimer, logicalVars
<1>2. \A s \in Sessions : sess[s] # "down" => s = active BY <1>1, OnlyActive
<1>3. Types' BY <1>1, NoOpFields DEF Types, Scheduled
<1>4. NoLeak' BY <1>1, <1>2 DEF IInv, NoLeak, OpenSessions, State
<1>5. OpOK' /\ LeaseOK' /\ LeaseWatched' BY <1>1, NoOpFields DEF OpOK, LeaseOK, LeaseWatched
<1>6. BackgroundHoldsNoRelay' /\ AttachedToActive'
    BY <1>1 DEF IInv, BackgroundHoldsNoRelay, AttachedToActive, State
<1> QED BY <1>3, <1>4, <1>5, <1>6 DEF IInv

(* The fields of the operation probeDirect() begins.                       *)
LEMMA ProbeOpFields ==
    ProbeOp \in Ops /\ ProbeOp.kind = "probe" /\ ProbeOp.phase = "open"
BY DEF ProbeOp, Ops

(* The probe timer fires.                                                  *)
LEMMA ProbeFiresKeeps == ASSUME IInv, ProbeFires PROVE IInv'
<1> Types BY DEF IInv
<1>1. UNCHANGED <<active, path, suspended, closed, sub, call, loaded, foreground, rotation,
                  lease, unwritten, relayOnly>>
    BY DEF ProbeFires
<1>2. CASE probe' = Scheduled(FALSE, foreground, path) /\ UNCHANGED <<op, sess>>
    <2>1. Types' BY <1>1, <1>2 DEF Types, Scheduled
    <2>2. NoLeak' /\ AttachedToActive'
        BY <1>1, <1>2 DEF IInv, NoLeak, OpenSessions, AttachedToActive, State
    <2>3. OpOK' /\ LeaseOK' /\ BackgroundHoldsNoRelay' /\ LeaseWatched'
        BY <1>1, <1>2 DEF IInv, OpOK, LeaseOK, BackgroundHoldsNoRelay, LeaseWatched, State
    <2> QED BY <2>1, <2>2, <2>3 DEF IInv
<1>3. CASE ~closed /\ foreground /\ op.kind = "none" /\ probe' = FALSE /\ Open(ProbeOp, sess)
    <2>1. sess \in [Sessions -> States] BY DEF Types
    <2>2. Opened(ProbeOp, sess) BY <1>3, <2>1, ProbeOpFields, OpenEffect
    <2>3. op.phase = "none" BY <1>3 DEF IInv, OpOK
    <2>4. \A s \in Sessions : sess[s] # "down" => s = active BY <2>3, OnlyActive
    <2>5. /\ closed \/ suspended => sess[active] = "down"
          /\ ~foreground /\ path = "relay" => sess[active] = "down"
        BY DEF IInv, NoLeak, BackgroundHoldsNoRelay, State
    <2>6. OpOK' /\ NoLeak' /\ BackgroundHoldsNoRelay' /\ AttachedToActive' /\ LeaseWatched'
        BY <1>1, <2>1, <2>2, <2>4, <2>5, ProbeOpFields, OpeningKeeps
    <2>7. LeaseOK' BY <1>1, <2>2, <2>3, ProbeOpFields DEF IInv, LeaseOK, Opened
    <2>8. Types' BY <1>1, <1>3, <2>2 DEF Types, Opened
    <2> QED BY <2>6, <2>7, <2>8 DEF IInv
<1> QED BY <1>2, <1>3 DEF ProbeFires

(* The probe ends without a direct session.                                *)
LEMMA ProbeGivesUpKeeps == ASSUME IInv, ProbeGivesUp PROVE IInv'
<1> Types BY DEF IInv
<1>1. /\ UNCHANGED <<active, path, suspended, closed, sub, call, loaded, foreground, rotation,
                     lease, unwritten, relayOnly>>
      /\ op.phase = "open"
      /\ probe' = Scheduled(probe, foreground, path)
    BY DEF ProbeGivesUp
<1>2. op.kind = "probe" BY <1>1 DEF IInv, OpOK
<1>3. /\ closed \/ suspended => Abandoned[active] = "down"
      /\ ~foreground /\ path = "relay" => Abandoned[active] = "down"
    BY AbandonedEffect DEF IInv, NoLeak, BackgroundHoldsNoRelay, State
<1>4. path = "relay" /\ Abandoned[active] = "connected" /\ ~unwritten =>
          ~closed /\ foreground /\ (lease # "lease" => rotation)
    BY <1>1, <1>3, AbandonedEffect DEF IInv, LeaseOK, Types
<1>5. CASE RecoversAfterProbe
    <2>1. Open(RecoverOp(TRUE), Abandoned) BY <1>5 DEF ProbeGivesUp
    <2>2. Opened(RecoverOp(TRUE), Abandoned)
        BY <2>1, AbandonedEffect, RecoverOpFields, OpenEffect
    <2>3. OpOK' /\ NoLeak' /\ BackgroundHoldsNoRelay' /\ AttachedToActive' /\ LeaseWatched'
        BY <1>1, <1>3, <2>2, AbandonedEffect, RecoverOpFields, OpeningKeeps
    <2>4. LeaseOK' BY <1>1, <1>4, <2>2, RecoverOpFields DEF LeaseOK, Opened
    <2>5. Types' BY <1>1, <2>2 DEF Types, Scheduled, Opened
    <2> QED BY <2>3, <2>4, <2>5 DEF IInv
<1>6. CASE ~RecoversAfterProbe
    <2>1. op' = NoOp /\ sess' = Abandoned BY <1>6 DEF ProbeGivesUp
    <2>2. Types' BY <1>1, <2>1, AbandonedEffect, NoOpFields DEF Types, Scheduled
    <2>3. NoLeak' BY <1>1, <1>3, <2>1, AbandonedEffect DEF NoLeak, OpenSessions, State
    <2>4. BackgroundHoldsNoRelay' BY <1>1, <1>3, <2>1 DEF BackgroundHoldsNoRelay, State
    <2>5. OpOK' /\ AttachedToActive' BY <1>1, <2>1, NoOpFields DEF OpOK, IInv, AttachedToActive
    <2>6. path = "relay" /\ Abandoned[active] = "connected" /\ ~unwritten => lease = "lease"
        BY <1>4, <1>6 DEF RecoversAfterProbe
    <2>7. LeaseOK' /\ LeaseWatched' BY <1>1, <2>1, <2>6, NoOpFields DEF LeaseOK, LeaseWatched, State
    <2> QED BY <2>2, <2>3, <2>4, <2>5, <2>7 DEF IInv
<1> QED BY <1>5, <1>6

(* The lease timer fires: the session in use is replaced.                  *)
LEMMA LeaseFiresKeeps == ASSUME IInv, LeaseFires PROVE IInv'
<1> Types BY DEF IInv
<1>1. /\ UNCHANGED <<active, path, suspended, closed, sub, call, loaded, foreground, probe,
                     unwritten, relayOnly>>
      /\ lease # "none" /\ lease' = "none" /\ rotation' = (rotation \/ lease = "lease")
      /\ Recover(TRUE, foreground, sess)
    BY DEF LeaseFires
<1>2. foreground \in BOOLEAN /\ sess \in [Sessions -> States] BY DEF Types
<1>3. /\ closed \/ suspended => sess[active] = "down"
      /\ ~foreground /\ path = "relay" => sess[active] = "down"
    BY DEF IInv, NoLeak, BackgroundHoldsNoRelay, State
<1>4. sess[active] = "connected" /\ path = "relay" /\ ~unwritten =>
          /\ op.phase # "write" => rotation'
          /\ op.kind = "none" => Recovers(TRUE, foreground, sess)
    BY <1>1, <1>3 DEF IInv, LeaseOK, Recovers, Types
<1>5. /\ op' \in Ops /\ sess' \in [Sessions -> States]
      /\ OpOK' /\ LeaseOK' /\ NoLeak' /\ BackgroundHoldsNoRelay'
      /\ AttachedToActive' /\ LeaseWatched'
    BY <1>1, <1>2, <1>3, <1>4, RecoverKeeps
<1>6. rotation' \in BOOLEAN BY <1>1 DEF Types
<1>7. Types' BY <1>1, <1>5, <1>6 DEF Types
<1> QED BY <1>5, <1>7 DEF IInv

(***************************************************************************)
(* The theorems                                                            *)
(***************************************************************************)

(* A phone that starts meets the invariant.                                *)
LEMMA InitIInv == ASSUME Init PROVE IInv
<1> 1 \in Sessions BY PhoneAssumption
<1>1. sess \in [Sessions -> States] BY DEF Init, States
<1>2. path \in {"direct", "relay"} BY DEF Init
<1>3. Types BY <1>1, <1>2, NoOpFields DEF Init, Types
<1>4. NoLeak BY DEF Init, NoLeak, OpenSessions, State
<1>5. AttachedToActive BY DEF Init, AttachedToActive
<1>6. sess[active] # "connected" /\ (path = "relay" => sess[active] = "down") BY DEF Init
<1>7. OpOK BY NoOpFields DEF Init, OpOK
<1>8. LeaseOK /\ BackgroundHoldsNoRelay /\ LeaseWatched
    BY <1>6 DEF LeaseOK, BackgroundHoldsNoRelay, LeaseWatched, State
<1> QED BY <1>3, <1>4, <1>5, <1>7, <1>8 DEF IInv

(* A step that changes nothing keeps the invariant.                        *)
LEMMA StutterKeeps == ASSUME IInv, UNCHANGED vars PROVE IInv'
<1>1. UNCHANGED <<relayOnly, sess, active, path, suspended, closed, sub, call, loaded, foreground,
                  op, rotation, probe, lease, unwritten>>
    BY DEF vars, logicalVars, supervisorVars
<1>2. Types' BY <1>1 DEF IInv, Types
<1>3. OpOK' /\ LeaseOK' /\ BackgroundHoldsNoRelay' /\ LeaseWatched'
    BY <1>1 DEF IInv, OpOK, LeaseOK, BackgroundHoldsNoRelay, LeaseWatched, State
<1>4. NoLeak' /\ AttachedToActive'
    BY <1>1 DEF IInv, NoLeak, OpenSessions, AttachedToActive, State
<1> QED BY <1>2, <1>3, <1>4 DEF IInv

(* Whatever the app, the timers and the network do, in any order, the      *)
(* inductive invariant holds.                                              *)
THEOREM Invariance == Spec => []IInv
<1>1. Init => IInv BY InitIInv
<1>2. IInv /\ [Next]_vars => IInv'
    <2> SUFFICES ASSUME IInv, [Next]_vars PROVE IInv' OBVIOUS
    <2>1. CASE UNCHANGED vars BY <2>1, StutterKeeps
    <2>2. CASE Next
        BY <2>2, AppKeeps, LoadKeeps, ForegroundKeeps, BackgroundKeeps, CloseKeeps, DirectKeeps,
           ActiveDropsKeeps, RelayArrivesKeeps, RelayFailsKeeps, ResolvesKeeps, ResolveFailsKeeps,
           BundleWrittenKeeps, WriteFailsKeeps, ProbeFiresKeeps, ProbeGivesUpKeeps,
           DirectArrivesKeeps, LeaseFiresKeeps
        DEF Next
    <2> QED BY <2>1, <2>2
<1> QED BY <1>1, <1>2, PTL DEF Spec

(* Type correctness; the session being opened is never the one in use.     *)
THEOREM TypeCorrect == Spec => []TypeOK
<1>1. IInv => TypeOK
    <2> SUFFICES ASSUME IInv PROVE TypeOK OBVIOUS
    <2>1. Types /\ OpOK BY DEF IInv
    <2>2. op.kind \in {"none", "recover", "probe"} /\ op.session \in (Sessions \ {active}) \cup {0}
        BY <2>1 DEF Types, OpOK, Ops
    <2>3. /\ \A i \in Subs : sub[i] = None \/ sub[i] \in Sessions \cup {Detached}
          /\ \A c \in Calls : call[c] = None \/ call[c] \in Sessions
        BY <2>1 DEF Types
    <2>4. {relayOnly, suspended, closed, loaded, foreground, rotation, probe, unwritten}
              \subseteq BOOLEAN
        BY <2>1 DEF Types
    <2> QED BY <2>1, <2>2, <2>3, <2>4 DEF Types, TypeOK, States
<1> QED BY <1>1, Invariance, PTL

(* No physical session is ever forgotten: each one that is open is in use  *)
(* or being opened, and a closed or suspended client has none in use.      *)
THEOREM NoLeakAlways == Spec => []NoLeak
<1>1. IInv => NoLeak BY DEF IInv
<1> QED BY <1>1, Invariance, PTL

(* A phone in the background never has a relay session in use, however     *)
(* late the session arrives.                                               *)
THEOREM BackgroundHoldsNoRelayAlways == Spec => []BackgroundHoldsNoRelay
<1>1. IInv => BackgroundHoldsNoRelay BY DEF IInv
<1> QED BY <1>1, Invariance, PTL

(* Every cutover takes all subscriptions with it and leaves no request     *)
(* waiting on the session it closes.                                       *)
THEOREM AttachedToActiveAlways == Spec => []AttachedToActive
<1>1. IInv => AttachedToActive BY DEF IInv
<1> QED BY <1>1, Invariance, PTL

(* The lease of the relay session in use is always watched by a timer or   *)
(* by an operation in flight, unless its bundle could not be stored.       *)
THEOREM LeaseWatchedAlways == Spec => []LeaseWatched
<1>1. IInv => LeaseWatched BY DEF IInv
<1> QED BY <1>1, Invariance, PTL
=============================================================================
