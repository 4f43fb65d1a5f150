-------------------------- MODULE DriverSeatProofs --------------------------
(***************************************************************************)
(* Theorems about DriverSeat for every set of users, connections, hosts    *)
(* and daemons, every TTL and every clock lag.  Each critical section of   *)
(* the registry is characterised once, each action is shown to stay        *)
(* within SeatMoves and FrameMoves, and the invariants follow from those.  *)
(***************************************************************************)
EXTENDS DriverSeat, TLAPS

\* the announcement that states the current generation
Cur == [user |-> lease.user, gen |-> seq]

Lease(n) == [user : Users, gen : Nat, exp : 1..(n + TTL)]

\* The registry's part of the invariant: a lease carries the current
\* generation, and generation 0 has no driver.
SeatInv ==
  /\ seq \in Nat
  /\ lease = NoLease \/ lease \in Lease(now)
  /\ lease # NoLease => lease.gen = seq /\ seq > 0

\* What a critical section may do to the seat.
SeatMoves ==
  /\ seq' \in Nat /\ seq' >= seq
  /\ seq' = seq => lease'.user = lease.user
  /\ lease' = NoLease \/ lease' \in Lease(now)
  /\ lease' # NoLease => lease'.gen = seq' /\ seq' > 0

\* ... and a step to the announcements in hand and sent.
FrameMoves ==
  /\ \A g \in Handlers : frame'[g] \in {frame[g], NoFrame, Cur'}
  /\ \A p \in Conns : sent'[p] \subseteq sent[p] \cup {Cur'} \cup {frame[g] : g \in Handlers}

\* The inductive invariant: TypeOK and GenerationNamesDriver, and that
\* generation 0 never had a driver.
GInv ==
  /\ TypeOK /\ SeatInv /\ GenerationNamesDriver
  /\ \A f \in Announced : f.gen = 0 => f.user = NoUser

\* An empty seat names no user.
LEMMA NoLeaseFields ==
  NoLease.user = NoUser /\ NoLease.gen = 0 /\ NoLease \notin Lease(now)
BY SeatConstants DEF NoLease, Lease

\* currentDriverLocked: it returns the current announcement.
LEMMA SeatCollect ==
  ASSUME SeatInv, now \in Nat, NEW t \in Clock, Collect(t)
  PROVE  SeatMoves /\ DriverAt(t) = Cur' /\ DriverAt(t) \in Frame
<1>1. CASE Live(t)
  <2>1. lease \in Lease(now) /\ lease.user \in Users /\ lease.gen = seq
    BY <1>1 DEF SeatInv, Live, Lease
  <2>2. t \in Nat /\ lease.exp \in Nat /\ lease.exp > t
    BY <1>1, <2>1, SeatConstants DEF Live, Clock, Lease
  <2>3. ~Expired(t)
    BY <2>2 DEF Expired
  <2>4. lease' = lease /\ seq' = seq
    BY <1>1, <2>3 DEF Collect, SeqAt
  <2> QED
    BY <1>1, <2>1, <2>4 DEF SeatInv, SeatMoves, DriverAt, Cur, Frame
<1>2. CASE lease = NoLease
  BY <1>2, NoLeaseFields DEF SeatInv, SeatMoves, Collect, DriverAt, SeqAt, Live, Expired, Cur, Frame
<1>3. CASE lease # NoLease /\ ~Live(t)
  <2>1. lease \in Lease(now) /\ t \in Nat /\ lease.exp \in Nat
    BY <1>3, SeatConstants DEF SeatInv, Clock, Lease
  <2>2. Expired(t)
    BY <1>3, <2>1 DEF Live, Expired
  <2> QED
    BY <1>3, <2>2, NoLeaseFields DEF SeatInv, SeatMoves, Collect, DriverAt, SeqAt, Cur, Frame
<1> QED
  BY <1>1, <1>2, <1>3

\* A grant of a later generation.
LEMMA SeatGrant ==
  ASSUME SeatInv, now \in Nat, NEW t \in Clock, NEW u \in Users, NEW n \in Nat, n > seq,
         Grant(u, t, n)
  PROVE  SeatMoves /\ Cur' = [user |-> u, gen |-> n] /\ Cur' \in Frame /\ lease' # NoLease
<1>1. t + TTL \in 1..(now + TTL) /\ seq \in Nat
  BY SeatConstants DEF Clock, SeatInv
<1>2. lease' \in Lease(now) /\ lease'.user = u /\ lease'.gen = n /\ seq' = n
  BY <1>1 DEF Grant, Lease
<1> QED
  BY <1>1, <1>2, NoLeaseFields DEF SeatMoves, Cur, Frame

\* A revocation.
LEMMA SeatRevoke ==
  ASSUME SeatInv, lease' = NoLease, seq' = seq + 1
  PROVE  SeatMoves /\ Cur' = [user |-> NoUser, gen |-> seq + 1] /\ Cur' \in Frame
BY NoLeaseFields DEF SeatInv, SeatMoves, Cur, Frame

\* A step that leaves the seat alone.
LEMMA SeatSame ==
  ASSUME SeatInv, UNCHANGED seatVars
  PROVE  SeatMoves /\ Cur' = Cur
BY DEF SeatInv, SeatMoves, Cur, seatVars

\* SeqAt is a generation no earlier than the current one.
LEMMA SeqAtType ==
  ASSUME SeatInv, NEW t \in Clock
  PROVE  SeqAt(t) \in Nat /\ SeqAt(t) >= seq
BY DEF SeatInv, SeqAt

-----------------------------------------------------------------------------
\* A moment within a TTL of now is within it later on.
LEMMA Later ==
  ASSUME NEW a \in Nat, NEW b \in Nat, NEW c \in Nat, b >= a
  PROVE  \A e \in 1..(a + c) : e \in 1..(b + c)
OBVIOUS

\* Generations: a step within SeatMoves and FrameMoves keeps every
\* announcement consistent.
LEMMA MovesKeepGenerations ==
  ASSUME GInv, TypeOK', SeatMoves, FrameMoves, now' \in Nat, now' >= now
  PROVE  GInv'
<1>1. SeatInv'
  <2>0. now \in Nat /\ TTL \in Nat /\ now' \in Nat /\ now' >= now
    BY SeatConstants DEF GInv, TypeOK
  <2>1. \A e \in 1..(now + TTL) : e \in 1..(now' + TTL)
    BY <2>0, Later
  <2>2. lease' \in Lease(now) => lease' \in Lease(now')
    BY <2>1 DEF Lease
  <2> QED
    BY <2>2 DEF SeatMoves, SeatInv
<1>2. \A f \in Announced' : f \in Announced \/ f = NoFrame \/ f = Cur'
  <2>1. \A f \in UNION {sent'[p] : p \in Conns} : f \in Announced \/ f = Cur'
    BY DEF Announced, FrameMoves
  <2> QED
    BY <2>1 DEF Announced, FrameMoves
<1>3. \A f \in Announced : f.gen \in Nat /\ f.gen <= seq /\ f.user \in Users \cup {NoUser}
  <2>1. Announced \subseteq Frame
    BY DEF Announced, GInv, TypeOK
  <2> QED
    BY <2>1 DEF GInv, GenerationNamesDriver, Frame
<1>4. seq \in Nat /\ seq' \in Nat /\ seq' >= seq /\ (seq' = seq => lease'.user = lease.user)
  BY DEF SeatMoves, GInv, SeatInv
<1>5. NoFrame.gen = 0 /\ NoFrame.user = NoUser /\ Cur'.gen = seq' /\ Cur'.user = lease'.user
  BY DEF NoFrame, Cur
<1>6. seq' = 0 => lease'.user = NoUser
  BY NoLeaseFields DEF SeatMoves
<1>7. \A f \in Announced' : f.gen = 0 => f.user = NoUser
  BY <1>2, <1>5, <1>6 DEF GInv
<1>8. \A f \in Announced' : f.gen \in Nat /\ f.gen <= seq'
  BY <1>2, <1>3, <1>4, <1>5
<1>9. \A f \in Announced' : f.gen = seq' => f.user = lease'.user
  <2> SUFFICES ASSUME NEW f \in Announced', f.gen = seq'
               PROVE  f.user = lease'.user
    OBVIOUS
  <2>1. CASE f \in Announced
    BY <2>1, <1>3, <1>4 DEF GInv, GenerationNamesDriver
  <2>2. CASE f = NoFrame
    BY <2>2, <1>5, <1>6
  <2>3. CASE f = Cur'
    BY <2>3, <1>5
  <2> QED
    BY <1>2, <2>1, <2>2, <2>3
<1>10. \A f, g \in Announced' : f.gen = g.gen => f.user = g.user
  <2> SUFFICES ASSUME NEW f \in Announced', NEW g \in Announced', f.gen = g.gen
               PROVE  f.user = g.user
    OBVIOUS
  <2>1. CASE f = Cur' \/ g = Cur'
    BY <2>1, <1>5, <1>9
  <2>2. CASE f = NoFrame \/ g = NoFrame
    BY <2>2, <1>5, <1>7
  <2>3. CASE f \in Announced /\ g \in Announced
    BY <2>3 DEF GInv, GenerationNamesDriver
  <2> QED
    BY <1>2, <2>1, <2>2, <2>3
<1> QED
  BY <1>1, <1>7, <1>8, <1>9, <1>10 DEF GInv, GenerationNamesDriver, SeatMoves

-----------------------------------------------------------------------------
(* Types.                                                                  *)

\* where handler g may stand
GoodPlace(g, x) ==
  /\ x \in Places
  /\ g \in Conns => /\ x \in {"out", "release"} => g \notin members
                    /\ x \in {"acquire", "loop", "reread"} => g \in members
                    /\ x # "greet"
  /\ g \in Hosts => x \in {"out", "greet", "send", "loop"}
  /\ g = Control => x \in {"loop", "lookup", "send", "notify"}

LocalsOK ==
  /\ frame \in [Handlers -> Frame] /\ dest \in [Handlers -> Hosts \cup {NoHost}]
  /\ recips \in [Conns -> SUBSET Conns] /\ sent \in [Conns -> SUBSET Frame]

DaemonsOK ==
  /\ attached \in [Daemons -> Hosts \cup {NoHost}]
  /\ ptyDriver \in [Daemons -> Users \cup {NoUser}]
  /\ restarts \in Nat

\* A step of one handler that registers nobody keeps the types.
LEMMA TypesKept ==
  ASSUME TypeOK, SeatMoves, now' = now, members' = members, host' = host,
         NEW g \in Handlers, NEW x, GoodPlace(g, x), pc' = [pc EXCEPT ![g] = x],
         LocalsOK', DaemonsOK'
  PROVE  TypeOK'
<1>1. pc' \in [Handlers -> Places] /\ \A k \in Handlers : pc'[k] = IF k = g THEN x ELSE pc[k]
  BY DEF TypeOK, GoodPlace
<1>2. \A p \in Conns : /\ pc'[p] \in {"out", "release"} => p \notin members
                       /\ pc'[p] \in {"acquire", "loop", "reread"} => p \in members
                       /\ pc'[p] # "greet"
  BY <1>1 DEF TypeOK, GoodPlace, Handlers
<1>3. /\ \A h \in Hosts : pc'[h] \in {"out", "greet", "send", "loop"}
      /\ pc'[Control] \in {"loop", "lookup", "send", "notify"}
  BY <1>1 DEF TypeOK, GoodPlace, Handlers
<1>4. lease' = NoLease \/ lease' \in [user : Users, gen : Nat, exp : 1..(now' + TTL)]
  BY DEF SeatMoves, Lease
<1> QED
  BY <1>1, <1>2, <1>3, <1>4 DEF TypeOK, LocalsOK, DaemonsOK, SeatMoves

\* The parts of TypeOK.
LEMMA TypeParts ==
  ASSUME TypeOK
  PROVE  LocalsOK /\ DaemonsOK /\ now \in Nat /\ pc \in [Handlers -> Places]
BY DEF TypeOK, LocalsOK, DaemonsOK

\* Frames that are not announcements of a driver, and the handlers.
LEMMA HandlerFacts ==
  /\ NoFrame \in Frame /\ NoUser \notin Users /\ NoHost \notin Hosts
  /\ \A p \in Conns : p \in Handlers /\ p \notin Hosts /\ p # Control /\ UserOf[p] \in Users
  /\ \A h \in Hosts : h \in Handlers /\ h \notin Conns /\ h # Control
  /\ Control \in Handlers /\ Control \notin Conns /\ Control \notin Hosts
BY SeatConstants DEF Handlers, NoFrame, Frame

\* AcquireDriverIfFree: granted and announced, or only collected.
LEMMA AcquireFacts ==
  ASSUME GInv, NEW p \in Conns, NEW t \in Clock, Acquire(p, t)
  PROVE  /\ SeatMoves /\ UNCHANGED <<dest, recips>>
         /\ \E f \in {frame[p], Cur'} : f \in Frame /\ frame' = [frame EXCEPT ![p] = f]
         /\ \E x \in {"lookup", "loop"} : pc' = [pc EXCEPT ![p] = x]
<1> DEFINE u == UserOf[p]
           n == SeqAt(t) + 1
<1>0. SeatInv /\ now \in Nat /\ u \in Users /\ frame \in [Handlers -> Frame] /\ p \in Handlers
  BY HandlerFacts DEF GInv, TypeOK
<1>1. CASE ~Live(t) /\ CanDrive(u)
  <2>1. Grant(u, t, n) /\ Announce(p, [user |-> u, gen |-> n])
    BY <1>1 DEF Acquire
  <2>2. n \in Nat /\ n > seq
    BY <1>0, SeqAtType DEF SeatInv
  <2>3. SeatMoves /\ Cur' = [user |-> u, gen |-> n] /\ Cur' \in Frame
    BY <1>0, <2>1, <2>2, SeatGrant
  <2> QED
    BY <2>1, <2>3 DEF Announce
<1>2. CASE ~(~Live(t) /\ CanDrive(u))
  <2>1. Collect(t) /\ pc' = [pc EXCEPT ![p] = "loop"] /\ UNCHANGED localVars
    BY <1>2 DEF Acquire
  <2>2. frame' = [frame EXCEPT ![p] = frame[p]] /\ frame[p] \in Frame
    BY <1>0, <2>1 DEF localVars
  <2> QED
    BY <1>0, <2>1, <2>2, SeatCollect DEF localVars
<1> QED
  BY <1>1, <1>2

\* SetDriver: granted or revoked, and announced.
LEMMA SetDriverFacts ==
  ASSUME GInv, NEW g \in Handlers, NEW u \in Users \cup {NoUser}, NEW t \in Clock,
         SetDriver(g, u, t)
  PROVE  /\ SeatMoves /\ UNCHANGED <<dest, recips>>
         /\ Cur' \in Frame /\ frame' = [frame EXCEPT ![g] = Cur']
         /\ pc' = [pc EXCEPT ![g] = "lookup"]
<1>0. SeatInv /\ now \in Nat /\ seq \in Nat /\ seq + 1 > seq
  BY DEF GInv, TypeOK
<1>1. SeatMoves /\ Cur' = [user |-> u, gen |-> seq + 1] /\ Cur' \in Frame
  <2>1. CASE u = NoUser
    BY <1>0, <2>1, SeatRevoke DEF SetDriver
  <2>2. CASE u # NoUser
    BY <1>0, <2>2, SeatGrant DEF SetDriver
  <2> QED
    BY <2>1, <2>2
<1> QED
  BY <1>1 DEF SetDriver, Announce

\* ReleaseDriverIfAbsent: revoked and announced, or at most collected.
LEMMA ReleaseFacts ==
  ASSUME GInv, NEW p \in Conns, NEW t \in Clock, Release(p, t)
  PROVE  /\ SeatMoves /\ UNCHANGED <<dest, recips>>
         /\ \E f \in {frame[p], Cur'} : f \in Frame /\ frame' = [frame EXCEPT ![p] = f]
         /\ \E x \in {"lookup", "roster"} : pc' = [pc EXCEPT ![p] = x]
<1> DEFINE c == ~Present(UserOf[p]) /\ Live(t) /\ lease.user = UserOf[p]
<1>0. SeatInv /\ now \in Nat /\ frame \in [Handlers -> Frame] /\ p \in Handlers
  BY HandlerFacts DEF GInv, TypeOK
<1>1. CASE c
  <2>1. lease' = NoLease /\ seq' = seq + 1 /\ Announce(p, [user |-> NoUser, gen |-> seq + 1])
    BY <1>1 DEF Release
  <2> QED
    BY <1>0, <2>1, SeatRevoke DEF Announce
<1>2. CASE ~c
  <2>1. /\ UNCHANGED seatVars \/ Collect(t)
        /\ pc' = [pc EXCEPT ![p] = "roster"] /\ UNCHANGED localVars
    BY <1>2 DEF Release
  <2>2. frame' = [frame EXCEPT ![p] = frame[p]] /\ frame[p] \in Frame
    BY <1>0, <2>1 DEF localVars
  <2>3. SeatMoves
    BY <1>0, <2>1, SeatCollect, SeatSame
  <2> QED
    BY <2>1, <2>2, <2>3 DEF localVars
<1> QED
  BY <1>1, <1>2

-----------------------------------------------------------------------------
(* Every action stays within the moves and keeps the types.                *)

Moves == TypeOK' /\ SeatMoves /\ FrameMoves /\ now' \in Nat /\ now' >= now

\* A step that changes one handler's frame and tells nobody.
LEMMA OneFrame ==
  ASSUME GInv, NEW g \in Handlers, NEW f \in {frame[g], NoFrame, Cur'}, f \in Frame,
         frame' = [frame EXCEPT ![g] = f], sent' = sent
  PROVE  FrameMoves /\ frame' \in [Handlers -> Frame]
<1>1. frame \in [Handlers -> Frame] /\ sent \in [Conns -> SUBSET Frame]
  BY DEF GInv, TypeOK
<1>2. \A k \in Handlers : frame'[k] = IF k = g THEN f ELSE frame[k]
  BY <1>1
<1> QED
  BY <1>1, <1>2 DEF FrameMoves

\* A step that leaves the announcements alone.
LEMMA SameFrames ==
  ASSUME GInv, frame' = frame, sent' = sent
  PROVE  FrameMoves
BY DEF FrameMoves

\* HostFor changes only where the handler stands.
LEMMA MovesLookupHost ==
  ASSUME GInv, NEW g \in Handlers, LookupHost(g)
  PROVE  Moves
<1>0. TypeOK /\ SeatInv /\ LocalsOK /\ DaemonsOK /\ now \in Nat /\ pc \in [Handlers -> Places]
  BY TypeParts DEF GInv
<1>1. pc[g] = "lookup" /\ host \in Hosts \cup {NoHost}
  BY <1>0 DEF LookupHost, TypeOK
<1>2. SeatMoves /\ FrameMoves
  BY <1>0, SeatSame, SameFrames DEF LookupHost, registryVars, seatVars
<1>3. g \notin Hosts /\ (g \in Conns => g \in Conns)
  BY <1>0, <1>1 DEF TypeOK
<1>4. PICK x \in {"notify", "send"} : pc' = [pc EXCEPT ![g] = x]
  BY DEF LookupHost
<1>5. GoodPlace(g, x)
  BY <1>3 DEF GoodPlace, Places
<1>6. LocalsOK' /\ DaemonsOK'
  BY <1>0, <1>1 DEF LookupHost, LocalsOK, DaemonsOK, daemonVars
<1>7. TypeOK'
  BY <1>0, <1>2, <1>4, <1>5, <1>6, TypesKept DEF LookupHost, registryVars
<1> QED
  BY <1>0, <1>2, <1>7 DEF Moves, LookupHost

\* Sending set_driver changes the daemon and ends a greeting.
LEMMA MovesSendSetDriver ==
  ASSUME GInv, NEW g \in Handlers, SendSetDriver(g)
  PROVE  Moves
<1>0. TypeOK /\ SeatInv /\ LocalsOK /\ DaemonsOK /\ now \in Nat /\ pc \in [Handlers -> Places]
  BY TypeParts DEF GInv
<1>1. frame[g] \in Frame /\ frame[g].user \in Users \cup {NoUser} /\ pc[g] = "send"
  BY <1>0 DEF LocalsOK, Frame, SendSetDriver
<1>2. PICK x \in {"loop", "notify"} :
        /\ pc' = [pc EXCEPT ![g] = x]
        /\ g \in Hosts <=> x = "loop"
  BY DEF SendSetDriver
<1>3. PICK f \in {frame[g], NoFrame} : frame' = [frame EXCEPT ![g] = f]
  BY <1>0 DEF SendSetDriver, LocalsOK
<1>4. f \in Frame
  BY <1>1, HandlerFacts
<1>5. SeatMoves /\ FrameMoves /\ frame' \in [Handlers -> Frame]
  BY <1>0, <1>3, <1>4, SeatSame, OneFrame DEF SendSetDriver, registryVars, seatVars
<1>6. GoodPlace(g, x)
  BY <1>2, HandlerFacts DEF GoodPlace, Places
<1>7. DaemonsOK'
  BY <1>0, <1>1 DEF SendSetDriver, Deliver, DaemonsOK
<1>8. LocalsOK'
  BY <1>0, <1>5 DEF SendSetDriver, LocalsOK
<1>9. TypeOK'
  BY <1>0, <1>2, <1>5, <1>6, <1>7, <1>8, TypesKept DEF SendSetDriver, registryVars
<1> QED
  BY <1>0, <1>5, <1>9 DEF Moves, SendSetDriver

\* What Tell adds to the announcements sent.
LEMMA TellFacts ==
  ASSUME LocalsOK, NEW S, NEW f \in Frame, Tell(S, f)
  PROVE  sent' \in [Conns -> SUBSET Frame] /\ \A p \in Conns : sent'[p] \subseteq sent[p] \cup {f}
<1>1. \A p \in Conns : sent'[p] \subseteq sent[p] \cup {f}
  BY DEF Tell
<1>2. \A p \in Conns : sent'[p] \in SUBSET Frame
  BY <1>1 DEF LocalsOK
<1>3. sent' = [p \in Conns |-> sent'[p]]
  BY DEF Tell
<1> QED
  BY <1>1, <1>2, <1>3

\* notifyDriverState tells the members what the handler has in hand.
LEMMA MovesNotifyDriver ==
  ASSUME GInv, NEW g \in Handlers, NotifyDriver(g)
  PROVE  Moves
<1>0. TypeOK /\ SeatInv /\ LocalsOK /\ DaemonsOK /\ now \in Nat /\ pc \in [Handlers -> Places]
  BY TypeParts DEF GInv
<1>1. frame[g] \in Frame /\ NoFrame \in Frame /\ pc[g] = "notify"
  BY <1>0, HandlerFacts DEF LocalsOK, NotifyDriver
<1>2. sent' \in [Conns -> SUBSET Frame] /\ \A p \in Conns : sent'[p] \subseteq sent[p] \cup {frame[g]}
  BY <1>0, <1>1, TellFacts DEF NotifyDriver
<1>3. frame' \in [Handlers -> Frame] /\ \A k \in Handlers : frame'[k] \in {frame[k], NoFrame}
  BY <1>0, <1>1 DEF NotifyDriver, LocalsOK
<1>4. SeatMoves /\ FrameMoves
  BY <1>0, <1>2, <1>3, SeatSame DEF NotifyDriver, registryVars, seatVars, FrameMoves
<1>5. GoodPlace(g, Resume(g))
  BY <1>0, <1>1, HandlerFacts DEF GoodPlace, Places, Resume, TypeOK
<1>6. LocalsOK' /\ DaemonsOK'
  BY <1>0, <1>2, <1>3 DEF NotifyDriver, LocalsOK, DaemonsOK, daemonVars
<1>7. TypeOK'
  BY <1>0, <1>4, <1>5, <1>6, TypesKept DEF NotifyDriver, registryVars
<1> QED
  BY <1>0, <1>4, <1>7 DEF Moves, NotifyDriver

\* The recipients of a roster are read from the registry.
LEMMA MovesRosterRecipients ==
  ASSUME GInv, NEW p \in Handlers, RosterRecipients(p)
  PROVE  Moves
<1>0. TypeOK /\ SeatInv /\ LocalsOK /\ DaemonsOK /\ now \in Nat /\ pc \in [Handlers -> Places]
  BY TypeParts DEF GInv
<1>1. p \notin Hosts /\ p # Control
  BY <1>0 DEF TypeOK, RosterRecipients
<1>2. SeatMoves /\ FrameMoves
  BY <1>0, SeatSame, SameFrames DEF RosterRecipients, registryVars, seatVars
<1>3. GoodPlace(p, "rosterSend")
  BY <1>1 DEF GoodPlace, Places
<1>4. LocalsOK' /\ DaemonsOK'
  <2>1. members \in SUBSET Conns
    BY <1>0 DEF TypeOK
  <2> QED
    BY <1>0, <2>1 DEF RosterRecipients, LocalsOK, DaemonsOK, daemonVars
<1>5. TypeOK'
  BY <1>0, <1>2, <1>3, <1>4, TypesKept DEF RosterRecipients, registryVars
<1> QED
  BY <1>0, <1>2, <1>5 DEF Moves, RosterRecipients

\* The roster carries the lease as it is read, to the recipients read before.
LEMMA MovesSendRoster ==
  ASSUME GInv, NEW p \in Handlers, NEW t \in Clock, SendRoster(p, t)
  PROVE  Moves
<1>0. TypeOK /\ SeatInv /\ LocalsOK /\ DaemonsOK /\ now \in Nat /\ pc \in [Handlers -> Places]
  BY TypeParts DEF GInv
<1>1. p \notin Hosts /\ p # Control /\ p \in Conns
  BY <1>0 DEF TypeOK, SendRoster, Handlers
<1>2. /\ SeatMoves /\ sent' \in [Conns -> SUBSET Frame]
      /\ \A q \in Conns : sent'[q] \subseteq sent[q] \cup {Cur'}
  <2>1. CASE recips[p] = {}
    BY <1>0, <2>1, SeatSame DEF SendRoster, LocalsOK, seatVars
  <2>2. CASE recips[p] # {}
    <3>1. Collect(t) /\ Tell(recips[p], DriverAt(t))
      BY <2>2 DEF SendRoster
    <3> QED
      BY <1>0, <3>1, SeatCollect, TellFacts
  <2> QED
    BY <2>1, <2>2
<1>3. FrameMoves
  BY <1>2 DEF FrameMoves, SendRoster
<1>4. PICK x \in {"out", "acquire", "loop"} :
        /\ pc' = [pc EXCEPT ![p] = x]
        /\ p \in members <=> x # "out"
  BY DEF SendRoster
<1>5. GoodPlace(p, x)
  BY <1>1, <1>4 DEF GoodPlace, Places
<1>6. LocalsOK' /\ DaemonsOK'
  BY <1>0, <1>2 DEF SendRoster, LocalsOK, DaemonsOK, daemonVars
<1>7. TypeOK'
  BY <1>0, <1>2, <1>4, <1>5, <1>6, TypesKept DEF SendRoster
<1> QED
  BY <1>0, <1>2, <1>3, <1>7 DEF Moves, SendRoster

\* A critical section of participant p that ends with x as its next place.
LEMMA MovesOfParticipant ==
  ASSUME GInv, NEW p \in Conns, NEW f \in {frame[p], NoFrame, Cur'}, NEW x,
         f \in Frame, GoodPlace(p, x), SeatMoves, UNCHANGED <<dest, recips>>,
         frame' = [frame EXCEPT ![p] = f], pc' = [pc EXCEPT ![p] = x],
         UNCHANGED <<now, members, host, sent, daemonVars>>
  PROVE  Moves
<1>0. TypeOK /\ SeatInv /\ LocalsOK /\ DaemonsOK /\ now \in Nat /\ p \in Handlers
  BY TypeParts, HandlerFacts DEF GInv
<1>1. FrameMoves /\ frame' \in [Handlers -> Frame]
  BY <1>0, OneFrame
<1>2. LocalsOK' /\ DaemonsOK'
  BY <1>0, <1>1 DEF LocalsOK, DaemonsOK, daemonVars
<1>3. TypeOK'
  BY <1>0, <1>2, TypesKept
<1> QED
  BY <1>0, <1>1, <1>3 DEF Moves

\* Taking the seat, on joining or by driver_request.
LEMMA MovesAcquire ==
  ASSUME GInv, NEW p \in Conns, NEW t \in Clock, Acquire(p, t), pc[p] \in {"acquire", "loop"},
         UNCHANGED <<now, members, host, sent, daemonVars>>
  PROVE  Moves
<1>1. p \in members
  BY DEF GInv, TypeOK
<1>2. PICK f \in {frame[p], Cur'} : f \in Frame /\ frame' = [frame EXCEPT ![p] = f]
  BY AcquireFacts
<1>3. PICK x \in {"lookup", "loop"} : pc' = [pc EXCEPT ![p] = x]
  BY AcquireFacts
<1>4. GoodPlace(p, x)
  BY <1>1, HandlerFacts DEF GoodPlace, Places
<1> QED
  BY <1>2, <1>3, <1>4, AcquireFacts, MovesOfParticipant

\* Releasing the seat after leaving.
LEMMA MovesReleaseSeat ==
  ASSUME GInv, NEW p \in Conns, NEW t \in Clock, ReleaseSeat(p, t)
  PROVE  Moves
<1>0. Release(p, t) /\ UNCHANGED <<now, members, host, sent, daemonVars>>
  BY DEF ReleaseSeat
<1>1. PICK f \in {frame[p], Cur'} : f \in Frame /\ frame' = [frame EXCEPT ![p] = f]
  BY <1>0, ReleaseFacts
<1>2. PICK x \in {"lookup", "roster"} : pc' = [pc EXCEPT ![p] = x]
  BY <1>0, ReleaseFacts
<1>3. GoodPlace(p, x)
  BY HandlerFacts DEF GoodPlace, Places
<1> QED
  BY <1>0, <1>1, <1>2, <1>3, ReleaseFacts, MovesOfParticipant

\* Input with no lease, and a refused heartbeat: the lease as read is announced.
LEMMA MovesReread ==
  ASSUME GInv, NEW p \in Conns, NEW t \in Clock, Input(p, t) \/ HeartbeatRefused(p, t)
  PROVE  Moves
<1>0. SeatInv /\ now \in Nat
  BY DEF GInv, TypeOK
<1>1. SeatMoves /\ DriverAt(t) = Cur' /\ DriverAt(t) \in Frame
  BY <1>0, SeatCollect DEF Input, HeartbeatRefused
<1>2. GoodPlace(p, "notify")
  BY HandlerFacts DEF GoodPlace, Places
<1>3. /\ frame' = [frame EXCEPT ![p] = Cur'] /\ pc' = [pc EXCEPT ![p] = "notify"]
      /\ UNCHANGED <<dest, recips>> /\ UNCHANGED <<now, members, host, sent, daemonVars>>
  BY <1>1 DEF Input, HeartbeatRefused
<1> QED
  BY <1>1, <1>2, <1>3, MovesOfParticipant

\* RenewDriver: the holder's lease is extended, or the lease is only collected.
LEMMA MovesHeartbeat ==
  ASSUME GInv, NEW p \in Conns, NEW t \in Clock, Heartbeat(p, t)
  PROVE  Moves
<1>0. /\ SeatInv /\ now \in Nat /\ frame \in [Handlers -> Frame] /\ pc \in [Handlers -> Places]
      /\ p \in Handlers /\ p \in members /\ pc[p] = "loop"
  BY HandlerFacts DEF GInv, TypeOK, Heartbeat
<1>1. /\ UNCHANGED <<dest, recips>> /\ UNCHANGED <<now, members, host, sent, daemonVars>>
      /\ frame' = [frame EXCEPT ![p] = frame[p]] /\ frame[p] \in Frame
  BY <1>0 DEF Heartbeat, localVars
<1>2. CASE Live(t) /\ lease.user = UserOf[p] /\ CanDrive(UserOf[p])
  <2>1. lease' = [lease EXCEPT !.exp = t + TTL] /\ seq' = seq /\ pc' = [pc EXCEPT ![p] = "loop"]
    BY <1>0, <1>2 DEF Heartbeat
  <2>2. lease \in Lease(now) /\ lease.gen = seq /\ seq > 0 /\ seq \in Nat
    BY <1>0, <1>2 DEF Live, SeatInv
  <2>3. t + TTL \in 1..(now + TTL)
    BY <1>0, SeatConstants DEF Clock
  <2>4. lease' \in Lease(now) /\ lease'.user = lease.user /\ lease'.gen = lease.gen
    BY <2>1, <2>2, <2>3 DEF Lease
  <2>5. SeatMoves
    BY <2>1, <2>2, <2>4 DEF SeatMoves
  <2>6. GoodPlace(p, "loop")
    BY <1>0, HandlerFacts DEF GoodPlace, Places
  <2> QED
    BY <1>1, <2>1, <2>5, <2>6, MovesOfParticipant
<1>3. CASE ~(Live(t) /\ lease.user = UserOf[p] /\ CanDrive(UserOf[p]))
  <2>1. Collect(t) /\ pc' = [pc EXCEPT ![p] = "reread"]
    BY <1>3 DEF Heartbeat
  <2>2. SeatMoves
    BY <1>0, <2>1, SeatCollect
  <2>3. GoodPlace(p, "reread")
    BY <1>0, HandlerFacts DEF GoodPlace, Places
  <2> QED
    BY <1>1, <2>1, <2>2, <2>3, MovesOfParticipant
<1> QED
  BY <1>2, <1>3

\* set_driver by the operator or the control plane.
LEMMA MovesHandOff ==
  ASSUME GInv, NEW g \in Conns \cup {Control}, NEW u \in Users \cup {NoUser}, NEW t \in Clock,
         HandOff(g, u, t)
  PROVE  Moves
<1>0. TypeOK /\ SeatInv /\ LocalsOK /\ DaemonsOK /\ now \in Nat /\ g \in Handlers /\ g \notin Hosts
  BY TypeParts, HandlerFacts DEF GInv
<1>1. /\ SeatMoves /\ UNCHANGED <<dest, recips>> /\ Cur' \in Frame
      /\ frame' = [frame EXCEPT ![g] = Cur'] /\ pc' = [pc EXCEPT ![g] = "lookup"]
  BY <1>0, SetDriverFacts DEF HandOff
<1>2. FrameMoves /\ frame' \in [Handlers -> Frame]
  BY <1>0, <1>1, OneFrame DEF HandOff
<1>3. GoodPlace(g, "lookup")
  BY <1>0 DEF GoodPlace, Places
<1>4. LocalsOK' /\ DaemonsOK'
  BY <1>0, <1>1, <1>2 DEF HandOff, LocalsOK, DaemonsOK, daemonVars
<1>5. TypeOK'
  BY <1>0, <1>1, <1>3, <1>4, TypesKept DEF HandOff
<1> QED
  BY <1>0, <1>1, <1>2, <1>5 DEF Moves, HandOff

\* Registering a participant.
LEMMA MovesJoin ==
  ASSUME GInv, NEW p \in Conns, Join(p)
  PROVE  Moves
<1>0. TypeOK /\ SeatInv /\ LocalsOK /\ DaemonsOK /\ now \in Nat /\ pc \in [Handlers -> Places]
      /\ p \in Handlers /\ p \notin Hosts /\ p # Control /\ NoFrame \in Frame
  BY TypeParts, HandlerFacts DEF GInv
<1>1. sent' \in [Conns -> SUBSET Frame] /\ \A q \in Conns : sent'[q] \in {sent[q], {}}
  BY <1>0 DEF Join, LocalsOK
<1>2. SeatMoves /\ FrameMoves
  BY <1>0, <1>1, SeatSame DEF Join, localVars, FrameMoves
<1>3. pc' \in [Handlers -> Places] /\ \A k \in Handlers : pc'[k] = IF k = p THEN "roster" ELSE pc[k]
  BY <1>0 DEF Join, Places
<1>4. members' = members \cup {p} /\ members' \subseteq Conns
  BY <1>0 DEF Join, TypeOK
<1>5. \A q \in Conns : /\ pc'[q] \in {"out", "release"} => q \notin members'
                       /\ pc'[q] \in {"acquire", "loop", "reread"} => q \in members'
                       /\ pc'[q] # "greet"
  BY <1>0, <1>3, <1>4, HandlerFacts DEF TypeOK
<1>6. /\ \A h \in Hosts : pc'[h] \in {"out", "greet", "send", "loop"}
      /\ pc'[Control] \in {"loop", "lookup", "send", "notify"}
  BY <1>0, <1>3, HandlerFacts DEF TypeOK
<1>7. LocalsOK' /\ DaemonsOK' /\ now' = now /\ host' = host /\ UNCHANGED <<lease, seq>>
  BY <1>0, <1>1 DEF Join, LocalsOK, DaemonsOK, daemonVars, localVars, seatVars
<1>8. TypeOK'
  BY <1>0, <1>3, <1>4, <1>5, <1>6, <1>7 DEF TypeOK, LocalsOK, DaemonsOK
<1> QED
  BY <1>0, <1>2, <1>7, <1>8 DEF Moves

\* Unregistering a participant.
LEMMA MovesLeave ==
  ASSUME GInv, NEW p \in Conns, Leave(p)
  PROVE  Moves
<1>0. TypeOK /\ SeatInv /\ LocalsOK /\ DaemonsOK /\ now \in Nat /\ pc \in [Handlers -> Places]
      /\ p \in Handlers /\ p \notin Hosts /\ p # Control /\ NoFrame \in Frame
  BY TypeParts, HandlerFacts DEF GInv
<1>1. sent' \in [Conns -> SUBSET Frame] /\ \A q \in Conns : sent'[q] \in {sent[q], {}}
  BY <1>0 DEF Leave, LocalsOK
<1>2. SeatMoves /\ FrameMoves
  BY <1>0, <1>1, SeatSame DEF Leave, FrameMoves
<1>3. pc' \in [Handlers -> Places] /\ \A k \in Handlers : pc'[k] = IF k = p THEN "release" ELSE pc[k]
  BY <1>0 DEF Leave, Places
<1>4. members' = members \ {p} /\ members' \subseteq Conns
  BY <1>0 DEF Leave, TypeOK
<1>5. \A q \in Conns : /\ pc'[q] \in {"out", "release"} => q \notin members'
                       /\ pc'[q] \in {"acquire", "loop", "reread"} => q \in members'
                       /\ pc'[q] # "greet"
  BY <1>0, <1>3, <1>4, HandlerFacts DEF TypeOK
<1>6. /\ \A h \in Hosts : pc'[h] \in {"out", "greet", "send", "loop"}
      /\ pc'[Control] \in {"loop", "lookup", "send", "notify"}
  BY <1>0, <1>3, HandlerFacts DEF TypeOK
<1>7. LocalsOK' /\ DaemonsOK' /\ now' = now /\ host' = host /\ UNCHANGED <<lease, seq>>
  BY <1>0, <1>1 DEF Leave, LocalsOK, DaemonsOK, daemonVars, seatVars
<1>8. TypeOK'
  BY <1>0, <1>3, <1>4, <1>5, <1>6, <1>7 DEF TypeOK, LocalsOK, DaemonsOK
<1> QED
  BY <1>0, <1>2, <1>7, <1>8 DEF Moves

\* A daemon connects and is registered as the room's host.
LEMMA MovesHostJoin ==
  ASSUME GInv, NEW h \in Hosts, HostJoin(h)
  PROVE  Moves
<1>0. TypeOK /\ SeatInv /\ LocalsOK /\ DaemonsOK /\ now \in Nat /\ pc \in [Handlers -> Places]
      /\ h \in Handlers
  BY TypeParts, HandlerFacts DEF GInv
<1>1. SeatMoves /\ FrameMoves
  BY <1>0, SeatSame, SameFrames DEF HostJoin, localVars
<1>2. pc' \in [Handlers -> Places] /\ \A k \in Handlers : pc'[k] = IF k = h THEN "greet" ELSE pc[k]
  BY <1>0 DEF HostJoin, Places
<1>3. \A q \in Conns : pc'[q] = pc[q]
  BY <1>2, HandlerFacts
<1>4. /\ \A k \in Hosts : pc'[k] \in {"out", "greet", "send", "loop"}
      /\ pc'[Control] \in {"loop", "lookup", "send", "notify"}
  BY <1>0, <1>2, HandlerFacts DEF TypeOK
<1>5. /\ LocalsOK' /\ DaemonsOK' /\ now' = now /\ members' = members
      /\ host' \in Hosts \cup {NoHost} /\ UNCHANGED <<lease, seq>>
  BY <1>0 DEF HostJoin, LocalsOK, DaemonsOK, localVars, seatVars
<1>6. TypeOK'
  BY <1>0, <1>2, <1>3, <1>4, <1>5 DEF TypeOK, LocalsOK, DaemonsOK
<1> QED
  BY <1>0, <1>1, <1>5, <1>6 DEF Moves

\* The new host is greeted with the lease as it is read.
LEMMA MovesGreet ==
  ASSUME GInv, NEW h \in Handlers, NEW t \in Clock, Greet(h, t)
  PROVE  Moves
<1>0. TypeOK /\ SeatInv /\ LocalsOK /\ DaemonsOK /\ now \in Nat /\ pc \in [Handlers -> Places]
  BY TypeParts DEF GInv
<1>1. SeatMoves /\ DriverAt(t) = Cur' /\ DriverAt(t) \in Frame /\ pc[h] = "greet"
  BY <1>0, SeatCollect DEF Greet
<1>2. PICK x \in {"send", "loop"} : pc' = [pc EXCEPT ![h] = x]
  BY DEF Greet
<1>3. PICK f \in {frame[h], Cur'} : f \in Frame /\ frame' = [frame EXCEPT ![h] = f]
  <2>1. CASE Live(t)
    BY <1>1, <2>1 DEF Greet
  <2>2. CASE ~Live(t)
    BY <1>0, <2>2 DEF Greet, LocalsOK
  <2> QED
    BY <2>1, <2>2
<1>4. FrameMoves /\ frame' \in [Handlers -> Frame]
  BY <1>3, OneFrame DEF Greet
<1>5. CASE h \in Hosts
  <2>1. GoodPlace(h, x)
    BY <1>5, HandlerFacts DEF GoodPlace, Places
  <2>2. dest' \in [Handlers -> Hosts \cup {NoHost}]
    BY <1>0, <1>5 DEF Greet, LocalsOK
  <2>3. LocalsOK' /\ DaemonsOK'
    BY <1>0, <1>4, <2>2 DEF Greet, LocalsOK, DaemonsOK, daemonVars
  <2>4. TypeOK'
    BY <1>0, <1>1, <1>2, <2>1, <2>3, TypesKept DEF Greet
  <2> QED
    BY <1>0, <1>1, <1>4, <2>4 DEF Moves, Greet
<1>6. CASE h \notin Hosts
  BY <1>0, <1>1, <1>6 DEF TypeOK, Handlers
<1> QED
  BY <1>5, <1>6

\* A daemon's connection ends and is unregistered.
LEMMA MovesHostLeave ==
  ASSUME GInv, NEW h \in Hosts, HostLeave(h)
  PROVE  Moves
<1>0. TypeOK /\ SeatInv /\ LocalsOK /\ DaemonsOK /\ now \in Nat /\ pc \in [Handlers -> Places]
      /\ h \in Handlers
  BY TypeParts, HandlerFacts DEF GInv
<1>1. SeatMoves /\ FrameMoves
  BY <1>0, SeatSame, SameFrames DEF HostLeave
<1>2. pc' \in [Handlers -> Places] /\ \A k \in Handlers : pc'[k] = IF k = h THEN "out" ELSE pc[k]
  BY <1>0 DEF HostLeave, Places
<1>3. \A q \in Conns : pc'[q] = pc[q]
  BY <1>2, HandlerFacts
<1>4. /\ \A k \in Hosts : pc'[k] \in {"out", "greet", "send", "loop"}
      /\ pc'[Control] \in {"loop", "lookup", "send", "notify"}
  BY <1>0, <1>2, HandlerFacts DEF TypeOK
<1>5. /\ LocalsOK' /\ DaemonsOK' /\ now' = now /\ members' = members
      /\ UNCHANGED <<lease, seq>>
  BY <1>0 DEF HostLeave, LocalsOK, DaemonsOK, seatVars
<1>6. host' \in Hosts \cup {NoHost}
  BY <1>0 DEF HostLeave, TypeOK
<1>7. TypeOK'
  BY <1>0, <1>2, <1>3, <1>4, <1>5, <1>6 DEF TypeOK, LocalsOK, DaemonsOK
<1> QED
  BY <1>0, <1>1, <1>5, <1>7 DEF Moves

\* What happens at the daemon's end does not reach the registry.
LEMMA MovesDaemon ==
  ASSUME GInv, NEW d \in Daemons, DaemonDrops(d) \/ PtyRestart(d)
  PROVE  Moves
<1>0. TypeOK /\ SeatInv /\ DaemonsOK /\ now \in Nat
  BY TypeParts DEF GInv
<1>1. SeatMoves /\ FrameMoves
  BY <1>0, SeatSame, SameFrames DEF DaemonDrops, PtyRestart, registryVars, seatVars, localVars
<1>2. DaemonsOK'
  BY <1>0, SeatConstants DEF DaemonDrops, PtyRestart, DaemonsOK
<1>3. UNCHANGED <<now, members, host, lease, seq, pc, frame, dest, recips, sent>>
  BY DEF DaemonDrops, PtyRestart, registryVars, localVars
<1>4. TypeOK'
  BY <1>0, <1>2, <1>3 DEF TypeOK, DaemonsOK
<1> QED
  BY <1>0, <1>1, <1>3, <1>4 DEF Moves

\* Time passes.
LEMMA MovesTick ==
  ASSUME GInv, Tick
  PROVE  Moves
<1>0. TypeOK /\ SeatInv /\ now \in Nat /\ TTL \in Nat
  BY SeatConstants DEF GInv, TypeOK
<1>1. SeatMoves /\ FrameMoves
  BY <1>0, SeatSame, SameFrames DEF Tick, registryVars, seatVars, localVars
<1>2. now' = now + 1 /\ now' \in Nat /\ now' >= now
  BY <1>0 DEF Tick
<1>3. UNCHANGED <<members, host, lease, seq, pc, frame, dest, recips, sent, attached, ptyDriver, restarts>>
  BY DEF Tick, registryVars, localVars, daemonVars
<1>4. \A e \in 1..(now + TTL) : e \in 1..(now' + TTL)
  BY <1>0, <1>2, Later
<1>5. lease' = NoLease \/ lease' \in [user : Users, gen : Nat, exp : 1..(now' + TTL)]
  BY <1>0, <1>3, <1>4 DEF TypeOK
<1>6. TypeOK'
  BY <1>0, <1>2, <1>3, <1>5 DEF TypeOK
<1> QED
  BY <1>1, <1>2, <1>6 DEF Moves

-----------------------------------------------------------------------------
(* The invariants.                                                         *)

\* The initial state.
LEMMA InitGInv == Init => GInv
<1> SUFFICES ASSUME Init PROVE GInv
  OBVIOUS
<1>1. TypeOK
  BY SeatConstants DEF Init, TypeOK, Handlers, Places, Frame, NoFrame
<1>2. SeatInv /\ lease.user = NoUser
  BY DEF Init, SeatInv, NoLease
<1>3. \A f \in Announced : f = NoFrame
  BY DEF Init, Announced
<1> QED
  BY <1>1, <1>2, <1>3 DEF GInv, GenerationNamesDriver, NoFrame, Init

\* Every step of the specification stays within the moves.
LEMMA NextMoves ==
  ASSUME GInv, Next
  PROVE  Moves
<1>0. TypeOK /\ pc \in [Handlers -> Places]
  BY DEF GInv, TypeOK
<1>1. ASSUME NEW g \in Handlers, Step(g)
      PROVE  Moves
  <2>1. CASE LookupHost(g) \/ SendSetDriver(g) \/ NotifyDriver(g) \/ RosterRecipients(g)
    BY <2>1, MovesLookupHost, MovesSendSetDriver, MovesNotifyDriver, MovesRosterRecipients
  <2>2. ASSUME NEW t \in Clock,
               SendRoster(g, t) \/ AutoAcquire(g, t) \/ ReleaseSeat(g, t)
               \/ HeartbeatRefused(g, t) \/ Greet(g, t)
        PROVE  Moves
    <3>1. CASE SendRoster(g, t) \/ Greet(g, t)
      BY <3>1, MovesSendRoster, MovesGreet
    <3>2. CASE AutoAcquire(g, t) \/ ReleaseSeat(g, t) \/ HeartbeatRefused(g, t)
      <4>1. g \in Conns
        BY <1>0, <3>2 DEF AutoAcquire, ReleaseSeat, HeartbeatRefused, TypeOK, Handlers
      <4> QED
        BY <3>2, <4>1, MovesAcquire, MovesReleaseSeat, MovesReread DEF AutoAcquire
    <3> QED
      BY <2>2, <3>1, <3>2
  <2> QED
    BY <1>1, <2>1, <2>2 DEF Step
<1>2. ASSUME NEW p \in Conns, Join(p) \/ Leave(p)
      PROVE  Moves
  BY <1>2, MovesJoin, MovesLeave
<1>3. ASSUME NEW p \in Conns, NEW t \in Clock, Input(p, t) \/ Heartbeat(p, t) \/ Request(p, t)
      PROVE  Moves
  BY <1>3, MovesReread, MovesHeartbeat, MovesAcquire DEF Request
<1>4. ASSUME NEW h \in Hosts, HostJoin(h) \/ HostLeave(h)
      PROVE  Moves
  BY <1>4, MovesHostJoin, MovesHostLeave
<1>5. ASSUME NEW d \in Daemons, DaemonDrops(d) \/ PtyRestart(d)
      PROVE  Moves
  BY <1>5, MovesDaemon
<1>6. ASSUME NEW g \in Conns \cup {Control}, NEW u \in Users \cup {NoUser}, NEW t \in Clock,
             HandOff(g, u, t)
      PROVE  Moves
  BY <1>6, MovesHandOff
<1> QED
  BY <1>1, <1>2, <1>3, <1>4, <1>5, <1>6, MovesTick DEF Next

\* A stuttering step keeps the invariant.
LEMMA StutterGInv ==
  ASSUME GInv, UNCHANGED vars
  PROVE  GInv'
<1>1. TypeOK' /\ SeatInv'
  BY DEF GInv, TypeOK, SeatInv, vars, Lease
<1>2. Announced' = Announced
  BY DEF Announced, vars
<1> QED
  BY <1>1, <1>2 DEF GInv, GenerationNamesDriver, vars

\* GInv is inductive.
LEMMA NextGInv == GInv /\ [Next]_vars => GInv'
<1>1. ASSUME GInv, Next PROVE GInv'
  BY <1>1, NextMoves, MovesKeepGenerations DEF Moves
<1> QED
  BY <1>1, StutterGInv

\* The registry, the handlers' locals and the daemons keep their types, a
\* connection is registered exactly from Join to Leave, and a lease never
\* outlasts its TTL, in every behaviour.
THEOREM SeatTypes == Spec => []TypeOK
<1>1. GInv => TypeOK
  BY DEF GInv
<1> QED
  BY <1>1, InitGInv, NextGInv, PTL DEF Spec

\* Whatever the interleaving of the handlers, a driver generation names one
\* driver: no two driver_state or participant_roster announcements with the
\* same generation disagree.
THEOREM SeatGenerations == Spec => []GenerationNamesDriver
<1>1. GInv => GenerationNamesDriver
  BY DEF GInv
<1> QED
  BY <1>1, InitGInv, NextGInv, PTL DEF Spec

-----------------------------------------------------------------------------
(* The holder of the seat.                                                 *)

\* What every step but ReleaseSeat does: it keeps whoever is about to release
\* where they are, unregisters nobody who does not go on to release, and
\* gives the seat only to somebody who is connected.
HolderMoves ==
  /\ \A q \in Conns : pc[q] = "release" => pc'[q] = "release"
  /\ \A q \in members : q \in members' \/ pc'[q] = "release"
  /\ lease' = NoLease \/ (lease # NoLease /\ lease'.user = lease.user) \/ Present(lease'.user)

\* Such a step keeps AbsentHolderReleases.
LEMMA HolderMovesKeep ==
  ASSUME GInv, AbsentHolderReleases, HolderMoves
  PROVE  AbsentHolderReleases'
<1> SUFFICES ASSUME lease' # NoLease, ~(\E q \in members' : UserOf[q] = lease'.user)
             PROVE  \E p \in Conns : UserOf[p] = lease'.user /\ pc'[p] = "release"
  BY DEF AbsentHolderReleases, Present
<1>1. CASE Present(lease'.user)
  BY <1>1 DEF HolderMoves, Present, GInv, TypeOK
<1>2. CASE ~Present(lease'.user)
  <2>1. lease # NoLease /\ lease'.user = lease.user
    BY <1>2 DEF HolderMoves
  <2> QED
    BY <1>2, <2>1 DEF HolderMoves, AbsentHolderReleases
<1> QED
  BY <1>1, <1>2

\* A step of g from a place other than "release" moves nobody else.
LEMMA OthersStay ==
  ASSUME GInv, NEW g \in Handlers, NEW x, pc' = [pc EXCEPT ![g] = x], pc[g] # "release"
  PROVE  \A q \in Conns : pc[q] = "release" => pc'[q] = "release"
BY HandlerFacts DEF GInv, TypeOK

\* currentDriverLocked keeps the lease or deletes it.
LEMMA CollectHolder ==
  ASSUME NEW t, Collect(t)
  PROVE  lease' = NoLease \/ lease' = lease
BY DEF Collect

\* AcquireDriverIfFree gives the seat only to a connected user.
LEMMA AcquireHolder ==
  ASSUME NEW p \in Conns, NEW t \in Clock, Acquire(p, t)
  PROVE  lease' = NoLease \/ lease' = lease \/ Present(lease'.user)
<1>1. CASE ~Live(t) /\ CanDrive(UserOf[p])
  <2>1. lease'.user = UserOf[p]
    BY <1>1 DEF Acquire, Grant
  <2> QED
    BY <1>1, <2>1 DEF CanDrive, Present
<1>2. CASE ~(~Live(t) /\ CanDrive(UserOf[p]))
  BY <1>2, CollectHolder DEF Acquire
<1> QED
  BY <1>1, <1>2

\* SetDriver gives the seat only to a connected user.
LEMMA SetDriverHolder ==
  ASSUME NEW g, NEW u, NEW t, SetDriver(g, u, t)
  PROVE  lease' = NoLease \/ Present(lease'.user)
<1>1. CASE u = NoUser
  BY <1>1 DEF SetDriver
<1>2. CASE u # NoUser
  <2>1. lease'.user = u /\ CanDrive(u)
    BY <1>2 DEF SetDriver, Grant
  <2> QED
    BY <2>1 DEF CanDrive, Present
<1> QED
  BY <1>1, <1>2

\* Every step but ReleaseSeat is within HolderMoves.
LEMMA StepHolder ==
  ASSUME GInv, NEW g \in Handlers, Step(g), \A t \in Clock : ~ReleaseSeat(g, t)
  PROVE  HolderMoves
<1>1. CASE LookupHost(g) \/ SendSetDriver(g) \/ NotifyDriver(g) \/ RosterRecipients(g)
  <2>1. members' = members /\ lease' = lease
    BY <1>1 DEF LookupHost, SendSetDriver, NotifyDriver, RosterRecipients, registryVars
  <2>2. pc[g] # "release" /\ \E x : pc' = [pc EXCEPT ![g] = x]
    BY <1>1 DEF LookupHost, SendSetDriver, NotifyDriver, RosterRecipients
  <2> QED
    BY <2>1, <2>2, OthersStay DEF HolderMoves
<1>2. ASSUME NEW t \in Clock, SendRoster(g, t) \/ HeartbeatRefused(g, t) \/ Greet(g, t)
      PROVE  HolderMoves
  <2>1. members' = members /\ (lease' = lease \/ lease' = NoLease)
    BY <1>2, CollectHolder DEF SendRoster, HeartbeatRefused, Greet, seatVars
  <2>2. pc[g] # "release" /\ \E x : pc' = [pc EXCEPT ![g] = x]
    BY <1>2 DEF SendRoster, HeartbeatRefused, Greet
  <2> QED
    BY <2>1, <2>2, OthersStay DEF HolderMoves
<1>3. ASSUME NEW t \in Clock, AutoAcquire(g, t)
      PROVE  HolderMoves
  <2>1. g \in Conns /\ members' = members /\ pc[g] # "release" /\ Acquire(g, t)
    BY <1>3 DEF AutoAcquire, GInv, TypeOK, Handlers
  <2>2. \E x : pc' = [pc EXCEPT ![g] = x]
    BY <2>1, AcquireFacts
  <2> QED
    BY <2>1, <2>2, OthersStay, AcquireHolder DEF HolderMoves
<1> QED
  BY <1>1, <1>2, <1>3 DEF Step

\* ReleaseSeat: when the holder has no connection left the seat is empty
\* afterwards, so nobody is still needed to release it.
LEMMA ReleaseHolder ==
  ASSUME GInv, AbsentHolderReleases, NEW p \in Conns, NEW t \in Clock, ReleaseSeat(p, t)
  PROVE  AbsentHolderReleases'
<1> DEFINE u == UserOf[p]
<1>0. Release(p, t) /\ members' = members
  BY DEF ReleaseSeat
<1>1. lease' = NoLease \/ (lease' = lease /\ (Present(u) \/ lease.user # u))
  <2>1. CASE ~Present(u) /\ Live(t) /\ lease.user = u
    BY <1>0, <2>1 DEF Release
  <2>2. CASE Present(u)
    BY <1>0, <2>2 DEF Release, seatVars
  <2>3. CASE ~Present(u) /\ ~(Live(t) /\ lease.user = u)
    BY <1>0, <2>3 DEF Release, Collect
  <2> QED
    BY <2>1, <2>2, <2>3
<1>2. PICK x : pc' = [pc EXCEPT ![p] = x]
  BY <1>0, ReleaseFacts
<1>3. \A q \in Conns : q # p => pc'[q] = pc[q]
  BY <1>2, HandlerFacts DEF GInv, TypeOK
<1> SUFFICES ASSUME lease' # NoLease, ~(\E q \in members : UserOf[q] = lease'.user)
             PROVE  \E q \in Conns : UserOf[q] = lease'.user /\ pc'[q] = "release"
  BY <1>0 DEF AbsentHolderReleases, Present
<1>4. lease' = lease /\ lease # NoLease /\ ~Present(lease.user) /\ lease.user # u
  BY <1>1 DEF Present
<1>5. PICK q \in Conns : UserOf[q] = lease.user /\ pc[q] = "release"
  BY <1>4 DEF AbsentHolderReleases
<1> QED
  BY <1>3, <1>4, <1>5

\* Every step keeps AbsentHolderReleases.
LEMMA NextHolder ==
  ASSUME GInv, AbsentHolderReleases, Next
  PROVE  AbsentHolderReleases'
<1>1. ASSUME NEW g \in Handlers, Step(g)
      PROVE  AbsentHolderReleases'
  <2>1. CASE \A t \in Clock : ~ReleaseSeat(g, t)
    BY <1>1, <2>1, StepHolder, HolderMovesKeep
  <2>2. ASSUME NEW t \in Clock, ReleaseSeat(g, t)
        PROVE  AbsentHolderReleases'
    <3>1. g \in Conns
      BY <2>2 DEF ReleaseSeat, GInv, TypeOK, Handlers
    <3> QED
      BY <2>2, <3>1, ReleaseHolder
  <2> QED
    BY <2>1, <2>2
<1>2. ASSUME NEW p \in Conns, Join(p)
      PROVE  HolderMoves
  <2>1. pc[p] # "release" /\ p \in Handlers /\ pc' = [pc EXCEPT ![p] = "roster"]
    BY <1>2, HandlerFacts DEF Join
  <2> QED
    BY <1>2, <2>1, OthersStay DEF HolderMoves, Join, seatVars
<1>3. ASSUME NEW p \in Conns, Leave(p)
      PROVE  HolderMoves
  <2>1. pc[p] # "release" /\ p \in Handlers /\ pc' = [pc EXCEPT ![p] = "release"]
    BY <1>3, HandlerFacts DEF Leave
  <2>2. pc'[p] = "release"
    BY <2>1 DEF GInv, TypeOK
  <2> QED
    BY <1>3, <2>1, <2>2, OthersStay DEF HolderMoves, Leave, seatVars
<1>4. ASSUME NEW p \in Conns, NEW t \in Clock, Input(p, t) \/ Heartbeat(p, t)
      PROVE  HolderMoves
  <2>1. pc[p] # "release" /\ p \in Handlers /\ members' = members
    BY <1>4, HandlerFacts DEF Input, Heartbeat
  <2>2. pc' = pc \/ \E x : pc' = [pc EXCEPT ![p] = x]
    BY <1>4 DEF Input, Heartbeat
  <2>3. \A q \in Conns : pc[q] = "release" => pc'[q] = "release"
    BY <2>1, <2>2, OthersStay
  <2>4. lease' = NoLease \/ (lease # NoLease /\ lease'.user = lease.user)
    <3>1. CASE Heartbeat(p, t) /\ Live(t) /\ lease.user = UserOf[p] /\ CanDrive(UserOf[p])
      <4>1. lease' = [lease EXCEPT !.exp = t + TTL] /\ lease # NoLease /\ lease \in Lease(now)
        BY <3>1 DEF Heartbeat, Live, GInv, SeatInv
      <4> QED
        BY <4>1 DEF Lease
    <3>2. CASE Input(p, t) \/ ~(Live(t) /\ lease.user = UserOf[p] /\ CanDrive(UserOf[p]))
      BY <1>4, <3>2, CollectHolder DEF Heartbeat, Input
    <3> QED
      BY <1>4, <3>1, <3>2
  <2> QED
    BY <2>1, <2>3, <2>4 DEF HolderMoves
<1>5. ASSUME NEW p \in Conns, NEW t \in Clock, Request(p, t)
      PROVE  HolderMoves
  <2>1. pc[p] # "release" /\ p \in Handlers /\ members' = members /\ Acquire(p, t)
    BY <1>5, HandlerFacts DEF Request
  <2>2. \E x : pc' = [pc EXCEPT ![p] = x]
    BY <2>1, AcquireFacts
  <2> QED
    BY <2>1, <2>2, OthersStay, AcquireHolder DEF HolderMoves
<1>6. ASSUME NEW g \in Conns \cup {Control}, NEW u \in Users \cup {NoUser}, NEW t \in Clock,
             HandOff(g, u, t)
      PROVE  HolderMoves
  <2>1. pc[g] # "release" /\ g \in Handlers /\ members' = members /\ SetDriver(g, u, t)
    BY <1>6, HandlerFacts DEF HandOff
  <2> QED
    BY <2>1, OthersStay, SetDriverFacts, SetDriverHolder DEF HolderMoves
<1>7. ASSUME NEW h \in Hosts, HostJoin(h) \/ HostLeave(h)
      PROVE  HolderMoves
  <2>1. pc[h] # "release" /\ h \in Handlers /\ members' = members /\ lease' = lease
    BY <1>7, HandlerFacts DEF HostJoin, HostLeave, seatVars
  <2>2. \E x : pc' = [pc EXCEPT ![h] = x]
    BY <1>7 DEF HostJoin, HostLeave
  <2> QED
    BY <2>1, <2>2, OthersStay DEF HolderMoves
<1>8. ASSUME Tick \/ \E d \in Daemons : DaemonDrops(d) \/ PtyRestart(d)
      PROVE  HolderMoves
  BY <1>8 DEF Tick, DaemonDrops, PtyRestart, registryVars, HolderMoves
<1> QED
  BY <1>1, <1>2, <1>3, <1>4, <1>5, <1>6, <1>7, <1>8, HolderMovesKeep DEF Next

\* A lease whose holder has gone is always about to be released by one of the
\* holder's own connections: no interleaving of joins, leaves, requests and
\* hand-offs strands the seat with somebody who is not there.
THEOREM SeatNeverStranded == Spec => []AbsentHolderReleases
<1>1. Init => AbsentHolderReleases
  BY DEF Init, AbsentHolderReleases
<1>2. GInv /\ AbsentHolderReleases /\ [Next]_vars => AbsentHolderReleases'
  <2>1. ASSUME GInv, AbsentHolderReleases, UNCHANGED vars PROVE AbsentHolderReleases'
    BY <2>1 DEF AbsentHolderReleases, Present, vars
  <2> QED
    BY <2>1, NextHolder
<1> QED
  BY <1>1, <1>2, InitGInv, NextGInv, PTL DEF Spec

\* Reading the clock late never expires a lease that is live now.
LEMMA LateClock ==
  ASSUME GInv, NEW t \in Clock, Live(now)
  PROVE  Live(t)
<1>1. lease \in Lease(now) /\ now \in Nat /\ t \in Nat /\ t <= now /\ TTL \in Nat
  BY SeatConstants DEF GInv, TypeOK, SeatInv, Live, Clock
<1>2. lease.exp \in Nat
  BY <1>1 DEF Lease
<1> QED
  BY <1>1, <1>2 DEF Live

\* While a lease is live and its holder connected, nothing but set_driver by
\* the operator or the control plane changes the holder: not another user's
\* connection or request, not a disconnect, not a slow clock reading.
THEOREM SeatKept == Spec => SeatNotStolen
<1> DEFINE Given == \E g \in Conns \cup {Control}, u \in Users \cup {NoUser}, t \in Clock : HandOff(g, u, t)
           Kept == Live(now) /\ Present(lease.user) /\ lease'.user # lease.user => Given
<1>1. ASSUME GInv, [Next]_vars PROVE [Kept]_vars
  <2> SUFFICES ASSUME Next, Live(now), Present(lease.user), ~Given
               PROVE  lease'.user = lease.user
    BY <1>1 DEF vars
  <2>0. GInv /\ \A t \in Clock : Live(t)
    BY <1>1, LateClock
  <2>c. ASSUME NEW t \in Clock, Collect(t) PROVE lease' = lease
    BY <2>0, <2>c DEF Collect
  <2>a. ASSUME NEW p, NEW t \in Clock, Acquire(p, t) PROVE lease' = lease
    BY <2>0, <2>a, <2>c DEF Acquire
  <2>1. ASSUME NEW g \in Handlers, Step(g) PROVE lease' = lease
    <3>1. CASE LookupHost(g) \/ SendSetDriver(g) \/ NotifyDriver(g) \/ RosterRecipients(g)
      BY <3>1 DEF LookupHost, SendSetDriver, NotifyDriver, RosterRecipients, registryVars
    <3>2. ASSUME NEW t \in Clock, SendRoster(g, t) \/ HeartbeatRefused(g, t) \/ Greet(g, t)
          PROVE  lease' = lease
      BY <3>2, <2>c DEF SendRoster, HeartbeatRefused, Greet, seatVars
    <3>3. ASSUME NEW t \in Clock, AutoAcquire(g, t) PROVE lease' = lease
      BY <3>3, <2>a DEF AutoAcquire
    <3>4. ASSUME NEW t \in Clock, ReleaseSeat(g, t) PROVE lease' = lease
      BY <3>4, <2>c DEF ReleaseSeat, Release, seatVars
    <3> QED
      BY <2>1, <3>1, <3>2, <3>3, <3>4 DEF Step
  <2>2. ASSUME NEW p \in Conns, NEW t \in Clock, Input(p, t) \/ Request(p, t) PROVE lease' = lease
    BY <2>2, <2>a, <2>c DEF Input, Request
  <2>3. ASSUME NEW p \in Conns, NEW t \in Clock, Heartbeat(p, t) PROVE lease'.user = lease.user
    <3>1. lease \in Lease(now)
      BY <2>0 DEF GInv, SeatInv, Live
    <3>2. lease' = lease \/ lease' = [lease EXCEPT !.exp = t + TTL]
      BY <2>3, <2>c DEF Heartbeat
    <3> QED
      BY <3>1, <3>2 DEF Lease
  <2>4. CASE \/ \E p \in Conns : Join(p) \/ Leave(p)
             \/ \E h \in Hosts : HostJoin(h) \/ HostLeave(h)
             \/ Tick \/ \E d \in Daemons : DaemonDrops(d) \/ PtyRestart(d)
    BY <2>4 DEF Join, Leave, HostJoin, HostLeave, Tick, DaemonDrops, PtyRestart, registryVars, seatVars
  <2> QED
    BY <2>1, <2>2, <2>3, <2>4 DEF Next
<1> QED
  BY <1>1, InitGInv, NextGInv, PTL DEF Spec, SeatNotStolen
-----------------------------------------------------------------------------
(* What the participants are told.                                         *)

\* handler g has the current announcement in hand and goes on to notify
Owes(g) ==
  /\ g \in Conns \cup {Control}
  /\ pc[g] \in {"lookup", "send", "notify"}
  /\ frame[g] = Cur

\* participant p is about to send itself the roster, as one that joins does
Waits(p) == pc[p] = "roster" \/ (pc[p] = "rosterSend" /\ p \in recips[p])

\* While the seat is taken, every participant was told its holder, or joins, or
\* some handler still has to announce the holder to everybody.
NewsInv ==
  lease # NoLease =>
    \A p \in members : Cur \in sent[p] \/ Waits(p) \/ \E g \in Handlers : Owes(g)

\* What a step does to the news: the seat is empty afterwards, or its holder is
\* new and somebody owes the announcement, or the holder is the same and nobody
\* who was told or is about to be is worse off.
NewsMoves ==
  \/ lease' = NoLease
  \/ \E g \in Handlers : Owes(g)'
  \/ /\ lease # NoLease /\ Cur' = Cur
     /\ \A p \in members' :
          \/ Cur \in sent'[p]
          \/ Waits(p)'
          \/ p \in members /\ Cur \notin sent[p] /\ ~Waits(p)
     /\ \A g \in Handlers : Owes(g) => Owes(g)' \/ \A p \in members' : Cur \in sent'[p]

\* Such a step keeps NewsInv.
LEMMA NewsMovesKeep ==
  ASSUME NewsInv, NewsMoves
  PROVE  NewsInv'
BY DEF NewsInv, NewsMoves

\* Telling an announcement of the seat does not take the current one back, and
\* telling the current one reaches everyone it is sent to.
LEMMA TellNews ==
  ASSUME GInv, NEW S, NEW f \in Announced \cup {Cur}, Tell(S, f), NEW p \in Conns
  PROVE  /\ Cur \in sent[p] => Cur \in sent'[p]
         /\ f = Cur /\ p \in S => Cur \in sent'[p]
<1> DEFINE F == sent[p] \cup {f}
<1>1. Cur.gen = seq /\ seq \in Nat
  BY DEF Cur, GInv, SeatInv
<1>2. \A x \in F : x.gen <= seq
  <2>1. \A x \in Announced : x.gen <= seq
    BY DEF GInv, GenerationNamesDriver
  <2>2. sent[p] \subseteq Announced
    BY DEF Announced
  <2> QED
    BY <1>1, <2>1, <2>2
<1>3. p \in S => sent'[p] = {x \in F : \A y \in F : y.gen <= x.gen}
  BY DEF Tell
<1>4. p \notin S => sent'[p] = sent[p]
  BY DEF Tell
<1>5. Cur \in F /\ p \in S => Cur \in sent'[p]
  BY <1>1, <1>2, <1>3
<1> QED
  BY <1>4, <1>5

\* currentDriverLocked empties the seat or leaves it as it is.
LEMMA CollectNews ==
  ASSUME GInv, NEW t \in Clock, Collect(t)
  PROVE  lease' = NoLease \/ (lease # NoLease /\ Cur' = Cur)
<1>1. SeatInv /\ now \in Nat
  BY DEF GInv, TypeOK
<1>2. SeatMoves
  BY <1>1, SeatCollect
<1> QED
  BY <1>1, <1>2 DEF Collect, SeatMoves, SeatInv, Cur

\* A handler that neither announces nor sends a roster takes nothing away.
LEMMA QuietHandler ==
  ASSUME GInv, NEW g \in Handlers, NEW x, pc' = [pc EXCEPT ![g] = x],
         pc[g] \notin {"lookup", "send", "notify", "roster", "rosterSend"},
         \A k \in Handlers : k # g => frame'[k] = frame[k],
         members' = members, sent' = sent, recips' = recips,
         lease' = NoLease \/ (lease # NoLease /\ Cur' = Cur)
  PROVE  NewsMoves
<1> SUFFICES ASSUME lease # NoLease, Cur' = Cur
             PROVE  NewsMoves
  BY DEF NewsMoves
<1>1. pc \in [Handlers -> Places] /\ members \subseteq Conns
  BY DEF GInv, TypeOK
<1>2. \A k \in Handlers : k # g => pc'[k] = pc[k]
  BY <1>1
<1>3. \A k \in Handlers : Owes(k) => Owes(k)'
  BY <1>2 DEF Owes
<1>4. \A p \in members : Waits(p) => Waits(p)'
  BY <1>1, <1>2, HandlerFacts DEF Waits
<1> QED
  BY <1>3, <1>4 DEF NewsMoves

\* AcquireDriverIfFree: a grant is owed to everybody.
LEMMA AcquireNews ==
  ASSUME GInv, NEW p \in Conns, NEW t \in Clock, Acquire(p, t),
         pc[p] \notin {"lookup", "send", "notify", "roster", "rosterSend"},
         members' = members, sent' = sent
  PROVE  NewsMoves
<1>0. p \in Handlers /\ pc \in [Handlers -> Places] /\ frame \in [Handlers -> Frame]
  BY HandlerFacts DEF GInv, TypeOK
<1>1. CASE ~Live(t) /\ CanDrive(UserOf[p])
  <2> DEFINE f == [user |-> UserOf[p], gen |-> SeqAt(t) + 1]
  <2>1. frame' = [frame EXCEPT ![p] = f] /\ pc' = [pc EXCEPT ![p] = "lookup"] /\ Cur' = f
    BY <1>1 DEF Acquire, Announce, Grant, Cur
  <2>2. Owes(p)'
    BY <1>0, <2>1 DEF Owes
  <2> QED
    BY <1>0, <2>2 DEF NewsMoves
<1>2. CASE ~(~Live(t) /\ CanDrive(UserOf[p]))
  <2>1. Collect(t) /\ pc' = [pc EXCEPT ![p] = "loop"] /\ UNCHANGED localVars
    BY <1>2 DEF Acquire
  <2> QED
    BY <1>0, <2>1, CollectNews, QuietHandler DEF localVars
<1> QED
  BY <1>1, <1>2

\* The steps of an announcement: looking the host up and sending set_driver
\* keep what is owed, and notifyDriverState pays it.
LEMMA AnnounceNews ==
  ASSUME GInv, NEW g \in Handlers, LookupHost(g) \/ SendSetDriver(g) \/ NotifyDriver(g)
  PROVE  NewsMoves
<1>0. /\ pc \in [Handlers -> Places] /\ frame \in [Handlers -> Frame] /\ members \subseteq Conns
      /\ sent \in [Conns -> SUBSET Frame] /\ seq \in Nat
      /\ \A h \in Hosts : h \notin Conns \cup {Control}
      /\ \A p \in Conns : p \in Handlers
  BY HandlerFacts DEF GInv, TypeOK
<1>1. lease' = lease /\ seq' = seq /\ Cur' = Cur /\ members' = members /\ recips' = recips
  BY DEF LookupHost, SendSetDriver, NotifyDriver, registryVars, Cur
<1>2. PICK x : pc' = [pc EXCEPT ![g] = x]
  BY DEF LookupHost, SendSetDriver, NotifyDriver
<1>3. pc[g] \in {"lookup", "send", "notify"} /\ \A k \in Handlers : k # g => pc'[k] = pc[k]
  BY <1>0, <1>2 DEF LookupHost, SendSetDriver, NotifyDriver
<1>4. \A p \in members : Waits(p) => Waits(p)'
  BY <1>0, <1>1, <1>3 DEF Waits
<1> SUFFICES ASSUME lease # NoLease
             PROVE  NewsMoves
  BY <1>1 DEF NewsMoves
<1>5. CASE LookupHost(g) \/ SendSetDriver(g)
  <2>1. sent' = sent
    BY <1>5 DEF LookupHost, SendSetDriver
  <2>2. \A k \in Handlers : Owes(k) => Owes(k)'
    <3>1. \A k \in Handlers : k # g => frame'[k] = frame[k]
      BY <1>0, <1>5 DEF LookupHost, SendSetDriver
    <3>2. g \notin Hosts => frame'[g] = frame[g] /\ pc'[g] \in {"send", "notify"}
      BY <1>0, <1>5 DEF LookupHost, SendSetDriver
    <3> QED
      BY <3>1, <3>2, <1>0, <1>1, <1>3 DEF Owes
  <2> QED
    BY <2>1, <2>2, <1>1, <1>4 DEF NewsMoves
<1>6. CASE NotifyDriver(g)
  <2>1. Tell(members, frame[g]) /\ \A k \in Handlers : k # g => frame'[k] = frame[k]
    BY <1>0, <1>6 DEF NotifyDriver
  <2>2. frame[g] \in Announced
    BY DEF Announced
  <2>5. \A p \in members : Cur \in sent[p] => Cur \in sent'[p]
    BY <1>0, <2>1, <2>2, TellNews
  <2>6. frame[g] = Cur => \A p \in members : Cur \in sent'[p]
    BY <1>0, <2>1, <2>2, TellNews
  <2>7. \A k \in Handlers : k # g /\ Owes(k) => Owes(k)'
    BY <2>1, <1>1, <1>3 DEF Owes
  <2>8. Owes(g) => frame[g] = Cur
    BY DEF Owes
  <2> QED
    BY <2>5, <2>6, <2>7, <2>8, <1>1, <1>4 DEF NewsMoves
<1> QED
  BY <1>5, <1>6

\* notifyRoomState: a participant that joins is among its own recipients, and
\* the roster states the current holder.
LEMMA RosterNews ==
  ASSUME GInv, NEW g \in Handlers,
         RosterRecipients(g) \/ \E t \in Clock : SendRoster(g, t)
  PROVE  NewsMoves
<1>0. /\ pc \in [Handlers -> Places] /\ frame \in [Handlers -> Frame] /\ members \subseteq Conns
      /\ sent \in [Conns -> SUBSET Frame] /\ recips \in [Conns -> SUBSET Conns] /\ seq \in Nat
      /\ g \in Conns /\ g \in Handlers
      /\ \A p \in Conns : p \in Handlers
  BY HandlerFacts DEF GInv, TypeOK, RosterRecipients, SendRoster, Handlers
<1>1. members' = members /\ frame' = frame /\ pc[g] \in {"roster", "rosterSend"}
  BY DEF RosterRecipients, SendRoster, registryVars
<1>2. PICK x : pc' = [pc EXCEPT ![g] = x]
  BY DEF RosterRecipients, SendRoster
<1>3. \A k \in Handlers : k # g => pc'[k] = pc[k]
  BY <1>0, <1>2
<1>4. Cur' = Cur => \A k \in Handlers : Owes(k) => Owes(k)'
  BY <1>1, <1>3 DEF Owes
<1>5. CASE RosterRecipients(g)
  <2>1. lease' = lease /\ seq' = seq /\ Cur' = Cur /\ sent' = sent
    BY <1>5 DEF RosterRecipients, registryVars, Cur
  <2>2. \A p \in members : Waits(p) => Waits(p)'
    <3>1. pc'[g] = "rosterSend" /\ recips'[g] = members /\ \A p \in Conns : p # g => recips'[p] = recips[p]
      BY <1>0, <1>5 DEF RosterRecipients
    <3> QED
      BY <3>1, <1>0, <1>3 DEF Waits
  <2> QED
    BY <2>1, <2>2, <1>1, <1>4 DEF NewsMoves
<1>6. ASSUME NEW t \in Clock, SendRoster(g, t)
      PROVE  NewsMoves
  <2>1. recips' = [recips EXCEPT ![g] = {}] /\ pc[g] = "rosterSend"
    BY <1>6 DEF SendRoster
  <2>2. \A p \in members : p # g /\ Waits(p) => Waits(p)'
    BY <2>1, <1>0, <1>3 DEF Waits
  <2>3. CASE recips[g] = {}
    <3>1. lease' = lease /\ seq' = seq /\ Cur' = Cur /\ sent' = sent
      BY <1>6, <2>3 DEF SendRoster, seatVars, Cur
    <3>2. ~Waits(g)
      BY <2>1, <2>3 DEF Waits
    <3> QED
      BY <2>2, <3>1, <3>2, <1>1, <1>4 DEF NewsMoves
  <2>4. CASE recips[g] # {}
    <3>1. Collect(t) /\ Tell(recips[g], DriverAt(t))
      BY <1>6, <2>4 DEF SendRoster
    <3> SUFFICES ASSUME lease # NoLease, Cur' = Cur
                 PROVE  NewsMoves
      BY <3>1, CollectNews DEF NewsMoves
    <3>2. DriverAt(t) = Cur
      BY <3>1, SeatCollect DEF GInv, TypeOK
    <3>4. \A p \in Conns : (Cur \in sent[p] => Cur \in sent'[p]) /\ (p \in recips[g] => Cur \in sent'[p])
      BY <3>1, <3>2, TellNews
    <3>5. Waits(g) => Cur \in sent'[g]
      BY <1>0, <2>1, <3>4 DEF Waits
    <3> QED
      BY <2>2, <3>4, <3>5, <1>0, <1>1, <1>4 DEF NewsMoves
  <2> QED
    BY <2>3, <2>4
<1> QED
  BY <1>5, <1>6

\* Every step of the specification is within NewsMoves.
LEMMA NextNews ==
  ASSUME GInv, Next
  PROVE  NewsMoves
<1>0. /\ pc \in [Handlers -> Places] /\ frame \in [Handlers -> Frame] /\ members \subseteq Conns
      /\ sent \in [Conns -> SUBSET Frame] /\ recips \in [Conns -> SUBSET Conns]
      /\ \A p \in Conns : p \in Handlers
      /\ \A h \in Hosts : h \in Handlers
      /\ Control \in Handlers
  BY HandlerFacts DEF GInv, TypeOK
<1>1. ASSUME NEW g \in Handlers, Step(g)
      PROVE  NewsMoves
  <2>1. CASE LookupHost(g) \/ SendSetDriver(g) \/ NotifyDriver(g) \/ RosterRecipients(g)
    BY <2>1, AnnounceNews, RosterNews
  <2>2. ASSUME NEW t \in Clock, SendRoster(g, t)
        PROVE  NewsMoves
    BY <2>2, RosterNews
  <2>3. ASSUME NEW t \in Clock, AutoAcquire(g, t)
        PROVE  NewsMoves
    <3>1. g \in Conns
      BY <2>3 DEF AutoAcquire, GInv, TypeOK, Handlers
    <3> QED
      BY <2>3, <3>1, AcquireNews DEF AutoAcquire
  <2>4. ASSUME NEW t \in Clock, ReleaseSeat(g, t)
        PROVE  NewsMoves
    <3>1. Release(g, t) /\ members' = members /\ sent' = sent /\ pc[g] = "release"
      BY <2>4 DEF ReleaseSeat
    <3>2. CASE lease' = NoLease
      BY <3>2 DEF NewsMoves
    <3>3. CASE lease' # NoLease
      <4>1. /\ UNCHANGED seatVars \/ Collect(t)
            /\ pc' = [pc EXCEPT ![g] = "roster"] /\ UNCHANGED localVars
        BY <3>1, <3>3 DEF Release
      <4>2. lease # NoLease /\ Cur' = Cur
        BY <3>3, <4>1, CollectNews DEF seatVars, Cur
      <4> QED
        BY <3>1, <4>1, <4>2, QuietHandler DEF localVars
    <3> QED
      BY <3>2, <3>3
  <2>5. ASSUME NEW t \in Clock, HeartbeatRefused(g, t) \/ Greet(g, t)
        PROVE  NewsMoves
    <3>1. /\ Collect(t) /\ members' = members /\ sent' = sent /\ recips' = recips
          /\ pc[g] \in {"reread", "greet"} /\ \E x : pc' = [pc EXCEPT ![g] = x]
      BY <2>5 DEF HeartbeatRefused, Greet
    <3>2. \A k \in Handlers : k # g => frame'[k] = frame[k]
      BY <1>0, <2>5 DEF HeartbeatRefused, Greet
    <3>3. lease' = NoLease \/ (lease # NoLease /\ Cur' = Cur)
      BY <3>1, CollectNews
    <3>4. PICK x : pc' = [pc EXCEPT ![g] = x]
      BY <3>1
    <3> QED
      BY <3>1, <3>2, <3>3, <3>4, QuietHandler
  <2> QED
    BY <1>1, <2>1, <2>2, <2>3, <2>4, <2>5 DEF Step
<1>2. ASSUME NEW p \in Conns, Join(p)
      PROVE  NewsMoves
  <2>1. /\ lease' = lease /\ Cur' = Cur /\ frame' = frame /\ recips' = recips
        /\ members' = members \cup {p} /\ pc[p] = "out" /\ pc' = [pc EXCEPT ![p] = "roster"]
        /\ sent' = [sent EXCEPT ![p] = {}]
    BY <1>2 DEF Join, seatVars, localVars, Cur
  <2>2. pc'[p] = "roster" /\ \A k \in Handlers : k # p => pc'[k] = pc[k]
    BY <1>0, <2>1
  <2>3. \A k \in Handlers : Owes(k) => Owes(k)'
    BY <2>1, <2>2 DEF Owes
  <2>4. Waits(p)' /\ \A q \in members : q # p => sent'[q] = sent[q] /\ (Waits(q) => Waits(q)')
    BY <1>0, <2>1, <2>2 DEF Waits
  <2> QED
    BY <2>1, <2>3, <2>4 DEF NewsMoves
<1>3. ASSUME NEW p \in Conns, Leave(p)
      PROVE  NewsMoves
  <2>1. /\ lease' = lease /\ Cur' = Cur /\ frame' = frame
        /\ recips' = [g \in Conns |-> recips[g] \ {p}]
        /\ members' = members \ {p} /\ pc[p] = "loop" /\ pc' = [pc EXCEPT ![p] = "release"]
        /\ sent' = [sent EXCEPT ![p] = {}]
    BY <1>3 DEF Leave, seatVars, Cur
  <2>2. \A k \in Handlers : k # p => pc'[k] = pc[k]
    BY <1>0, <2>1
  <2>3. \A k \in Handlers : Owes(k) => Owes(k)'
    BY <2>1, <2>2 DEF Owes
  <2>4. \A q \in members' : q \in members /\ sent'[q] = sent[q] /\ (Waits(q) => Waits(q)')
    BY <1>0, <2>1, <2>2 DEF Waits
  <2> QED
    BY <2>1, <2>3, <2>4 DEF NewsMoves
<1>4. ASSUME NEW p \in Conns, NEW t \in Clock, Input(p, t) \/ Request(p, t)
      PROVE  NewsMoves
  <2>1. CASE Request(p, t)
    BY <2>1, AcquireNews DEF Request
  <2>2. CASE Input(p, t)
    BY <2>2 DEF Input, Collect, NewsMoves
  <2> QED
    BY <1>4, <2>1, <2>2
<1>5. ASSUME NEW p \in Conns, NEW t \in Clock, Heartbeat(p, t)
      PROVE  NewsMoves
  <2>1. /\ members' = members /\ sent' = sent /\ recips' = recips /\ frame' = frame
        /\ pc[p] = "loop"
    BY <1>5 DEF Heartbeat, localVars
  <2>2. PICK x : pc' = [pc EXCEPT ![p] = x]
    <3>1. pc' = pc \/ pc' = [pc EXCEPT ![p] = "reread"]
      BY <1>5 DEF Heartbeat
    <3>2. pc = [pc EXCEPT ![p] = pc[p]]
      BY <1>0
    <3> QED
      BY <3>1, <3>2
  <2>3. lease' = NoLease \/ (lease # NoLease /\ Cur' = Cur)
    <3>1. CASE Collect(t)
      BY <3>1, CollectNews
    <3>2. CASE Live(t) /\ lease' = [lease EXCEPT !.exp = t + TTL] /\ seq' = seq
      <4>1. lease # NoLease /\ lease \in Lease(now)
        BY <3>2 DEF Live, GInv, SeatInv
      <4> QED
        BY <3>2, <4>1 DEF Lease, Cur
    <3> QED
      BY <1>5, <3>1, <3>2 DEF Heartbeat
  <2> QED
    BY <1>0, <2>1, <2>2, <2>3, QuietHandler
<1>6. ASSUME NEW g \in Conns \cup {Control}, NEW u \in Users \cup {NoUser}, NEW t \in Clock,
             HandOff(g, u, t)
      PROVE  NewsMoves
  <2>1. g \in Handlers /\ frame' = [frame EXCEPT ![g] = Cur'] /\ pc' = [pc EXCEPT ![g] = "lookup"]
    BY <1>0, <1>6, SetDriverFacts DEF HandOff
  <2>2. Owes(g)'
    BY <1>0, <2>1 DEF Owes
  <2> QED
    BY <2>1, <2>2 DEF NewsMoves
<1>7. ASSUME NEW h \in Hosts, HostJoin(h) \/ HostLeave(h)
      PROVE  NewsMoves
  <2>1. /\ members' = members /\ sent' = sent /\ recips' = recips /\ frame' = frame
        /\ lease' = lease /\ Cur' = Cur
        /\ pc[h] \in {"out", "loop"}
    BY <1>7 DEF HostJoin, HostLeave, localVars, seatVars, Cur
  <2>2. PICK x : pc' = [pc EXCEPT ![h] = x]
    BY <1>7 DEF HostJoin, HostLeave
  <2> QED
    BY <1>0, <2>1, <2>2, QuietHandler
<1>8. ASSUME Tick \/ \E d \in Daemons : DaemonDrops(d) \/ PtyRestart(d)
      PROVE  NewsMoves
  <2>1. /\ members' = members /\ sent' = sent /\ recips' = recips /\ frame' = frame
        /\ lease' = lease /\ Cur' = Cur /\ pc' = pc
    BY <1>8 DEF Tick, DaemonDrops, PtyRestart, registryVars, localVars, Cur
  <2> QED
    BY <2>1 DEF NewsMoves, Owes, Waits
<1> QED
  BY <1>1, <1>2, <1>3, <1>4, <1>5, <1>6, <1>7, <1>8 DEF Next

\* Once the handlers are idle the current holder has been announced to every
\* connected participant: no order of joins, hand-offs, expiries and rosters
\* leaves somebody out and nobody to make up for it.
THEOREM SeatEveryoneTold == Spec => []EveryoneTold
<1>1. Init => NewsInv
  BY DEF Init, NewsInv
<1>2. GInv /\ NewsInv /\ [Next]_vars => NewsInv'
  <2>1. ASSUME NewsInv, UNCHANGED vars PROVE NewsInv'
    BY <2>1 DEF NewsInv, Owes, Waits, Cur, vars
  <2> QED
    BY <2>1, NextNews, NewsMovesKeep
<1>3. GInv /\ NewsInv => EveryoneTold
  <2> SUFFICES ASSUME GInv, NewsInv, Quiescent, lease # NoLease, NEW p \in members
               PROVE  [user |-> lease.user, gen |-> lease.gen] \in sent[p]
    BY DEF EveryoneTold
  <2>1. p \in Handlers /\ ~Waits(p) /\ \A g \in Handlers : ~Owes(g)
    BY HandlerFacts DEF Quiescent, Waits, Owes, GInv, TypeOK
  <2> QED
    BY <2>1 DEF NewsInv, GInv, SeatInv, Cur
<1> QED
  BY <1>1, <1>2, <1>3, InitGInv, NextGInv, PTL DEF Spec
=============================================================================
