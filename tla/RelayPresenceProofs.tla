------------------------ MODULE RelayPresenceProofs -------------------------
(***************************************************************************)
(* What the presence feed guarantees, for every set of connections, queue  *)
(* capacity and number of failed posts: it takes nothing away from the     *)
(* drain, and the control plane's roster is exact whenever it has drained. *)
(***************************************************************************)
EXTENDS RelayPresence, RelayDrainProofs, FiniteSetTheorems, NaturalsInduction,
        WellFoundedInduction

\* RelayPresence adds the feed to the actions of RelayDrain, so a behaviour of
\* the node with its reporter is one of RelayDrain: what is proved there can be
\* used here.
LEMMA FeedImplementsDrain == FeedSpec => Spec
<1>1. FeedInit => Init
  BY DEF FeedInit
<1>2. [FeedNext]_vars => [Next]_drainVars
  <2> SUFFICES ASSUME [FeedNext]_vars PROVE [Next]_drainVars
    OBVIOUS
  <2>1. CASE UNCHANGED vars
    BY <2>1 DEF vars
  <2>2. CASE \E c \in Conns : HandlerStep(c)
    BY <2>2 DEF Next
  <2>3. CASE MainStep
    BY <2>3 DEF Next
  <2>4. ASSUME NEW c \in Conns, ServeReport(c) \/ DepartReport(c)
        PROVE  Next
    BY <2>4 DEF Next, ServeReport, DepartReport
  <2>5. CASE AnnounceReport \/ ReporterClose \/ ReporterDrained
    BY <2>5 DEF Next, AnnounceReport, ReporterClose, ReporterDrained
  <2>6. ASSUME NEW c \in Conns, Heartbeat(c) \/ HeartbeatStops(c)
        PROVE  UNCHANGED drainVars
    BY <2>6 DEF Heartbeat, HeartbeatStops
  <2>7. CASE NodeTick \/ NodeTickStops \/ Take \/ PostOk \/ PostForbidden \/ PostLost
             \/ PostHalf \/ AgeNode \/ Recover
    BY <2>7 DEF NodeTick, NodeTickStops, Take, PostOk, PostForbidden, PostLost,
                PostHalf, AgeNode, Recover
  <2>8. ASSUME NEW p \in late, LateArrives(p)
        PROVE  UNCHANGED drainVars
    BY <2>8 DEF LateArrives
  <2> QED
    BY <2>1, <2>2, <2>3, <2>4, <2>5, <2>6, <2>7, <2>8 DEF FeedNext
<1> QED
  BY <1>1, <1>2, PTL DEF FeedSpec, Spec
-----------------------------------------------------------------------------
(* The inductive invariant.  The roster lags behind the connections by the *)
(* events that were not applied yet, in the order in which they happened:  *)
(* what the loop holds, then the queue.  For each connection the last of   *)
(* them says what is so; when there is none the roster does.               *)

\* An event of a participant names a connection.
Events == {e \in Event : e.kind = "participant" => e.conn \in Conns}
Posts == [id : Ids, event : Events]

About(e, c) == e.kind = "participant" /\ e.conn = c
Serving(c) == pc[c] = "serving"

\* Some event of q is about c, and the last one that is says b.
Mentions(q, c) == \E i \in 1..Len(q) : About(q[i], c)
Says(q, c, b) ==
  \A i \in 1..Len(q) :
    About(q[i], c) /\ (\A j \in 1..Len(q) : j > i => ~About(q[j], c)) => (q[i].connected <=> b)

\* The loop holds an event about c that was not applied, not even late.
Held(c) == sending # None /\ sending.id \notin seen /\ About(sending.event, c)

UpToDate(c) ==
  /\ Says(queue, c, Serving(c))
  /\ ~Mentions(queue, c) /\ Held(c) => (sending.event.connected <=> Serving(c))
  /\ ~Mentions(queue, c) /\ ~Held(c) => (c \in roster <=> Serving(c))

\* A participant's post that may still arrive is the one the loop repeats, or
\* was applied and will be recognised.
LateOK == \A p \in late : p.event.kind = "participant" => p.id \in seen \/ p = sending

FeedTypes ==
  /\ queue \in Seq(Events)
  /\ sending \in Posts \cup {None}
  /\ late \subseteq Posts
  /\ seen \subseteq Ids
  /\ fails \in 0..MaxFails
  /\ roster \subseteq Conns
  /\ moved \in BOOLEAN /\ gap \in BOOLEAN

\* An identifier in use is not given to another event: there are more
\* identifiers than failed posts.
IdsOK ==
  /\ IsFiniteSet(InUse) /\ Cardinality(InUse) <= fails
  /\ sending # None => \A p \in late : p.id = sending.id => p = sending

InStep == ~gap /\ ~moved => LateOK /\ \A c \in Conns : UpToDate(c)

FInv == FeedTypes /\ IdsOK /\ InStep
-----------------------------------------------------------------------------
(* The queue as a sequence of news.                                        *)

\* A new event is the last word about its connection, and about no other.
LEMMA SaysAppend ==
  ASSUME NEW q \in Seq(Events), NEW e \in Events, NEW c, NEW b \in BOOLEAN
  PROVE  /\ ~About(e, c) => /\ Mentions(Append(q, e), c) <=> Mentions(q, c)
                            /\ Says(q, c, b) => Says(Append(q, e), c, b)
         /\ About(e, c) => /\ Mentions(Append(q, e), c)
                           /\ (e.connected <=> b) => Says(Append(q, e), c, b)
<1> DEFINE p == Append(q, e)
           n == Len(q) + 1
<1>1. /\ Len(q) \in Nat /\ Len(p) = n /\ p[n] = e
      /\ \A i \in 1..Len(q) : p[i] = q[i] /\ i \in 1..n /\ n > i
      /\ \A i \in 1..n : i \in 1..Len(q) \/ i = n
      /\ n \in 1..n
  OBVIOUS
<1> HIDE DEF p, n
<1>2. CASE ~About(e, c)
  <2>1. Mentions(p, c) <=> Mentions(q, c)
    BY <1>1, <1>2 DEF Mentions
  <2>2. ASSUME Says(q, c, b) PROVE Says(p, c, b)
    BY <1>1, <1>2, <2>2 DEF Says
  <2> QED
    BY <1>2, <2>1, <2>2 DEF p
<1>3. CASE About(e, c)
  <2>1. Mentions(p, c)
    BY <1>1, <1>3 DEF Mentions
  <2>2. ASSUME e.connected <=> b PROVE Says(p, c, b)
    BY <1>1, <1>3, <2>2 DEF Says
  <2> QED
    BY <1>3, <2>1, <2>2 DEF p
<1> QED
  BY <1>2, <1>3

\* Without its first event the queue says the same; of a connection only the
\* first was about, the first says it.
LEMMA SaysTail ==
  ASSUME NEW q \in Seq(Events), q # <<>>, NEW c, NEW b \in BOOLEAN
  PROVE  /\ Mentions(q, c) <=> Mentions(Tail(q), c) \/ About(Head(q), c)
         /\ Says(q, c, b) => Says(Tail(q), c, b)
         /\ Says(q, c, b) /\ ~Mentions(Tail(q), c) /\ About(Head(q), c) => (Head(q).connected <=> b)
<1> DEFINE p == Tail(q)
           n == Len(q)
<1>1. /\ n \in Nat /\ n >= 1 /\ Len(p) = n - 1 /\ Head(q) = q[1]
      /\ \A i \in 1..(n - 1) : p[i] = q[i + 1]
  OBVIOUS
<1> HIDE DEF p
<1>2. Mentions(q, c) <=> Mentions(p, c) \/ About(Head(q), c)
  <2>1. ASSUME NEW i \in 1..n, About(q[i], c) PROVE Mentions(p, c) \/ About(Head(q), c)
    <3>1. CASE i = 1
      BY <1>1, <2>1, <3>1
    <3>2. CASE i # 1
      <4>1. i - 1 \in 1..(n - 1) /\ (i - 1) + 1 = i
        BY <1>1, <3>2
      <4>2. p[i - 1] = q[i]
        BY <1>1, <4>1
      <4> QED
        BY <1>1, <2>1, <4>1, <4>2 DEF Mentions
    <3> QED
      BY <3>1, <3>2
  <2>2. ASSUME NEW i \in 1..(n - 1), About(p[i], c) PROVE Mentions(q, c)
    <3>1. i + 1 \in 1..n
      BY <1>1
    <3> QED
      BY <1>1, <2>2, <3>1 DEF Mentions
  <2>3. About(Head(q), c) => Mentions(q, c)
    <3>1. 1 \in 1..n
      BY <1>1
    <3> QED
      BY <1>1, <3>1 DEF Mentions
  <2> QED
    BY <1>1, <2>1, <2>2, <2>3 DEF Mentions
<1>3. ASSUME Says(q, c, b) PROVE Says(p, c, b)
  <2> SUFFICES ASSUME NEW i \in 1..(n - 1), About(p[i], c),
                      \A j \in 1..(n - 1) : j > i => ~About(p[j], c)
               PROVE  p[i].connected <=> b
    BY <1>1 DEF Says
  <2>1. i + 1 \in 1..n /\ p[i] = q[i + 1]
    BY <1>1
  <2>2. ASSUME NEW j \in 1..n, j > i + 1 PROVE ~About(q[j], c)
    <3>1. j - 1 \in 1..(n - 1) /\ j - 1 > i /\ (j - 1) + 1 = j
      BY <1>1, <2>2
    <3>2. p[j - 1] = q[j]
      BY <1>1, <3>1
    <3> QED
      BY <3>1, <3>2
  <2> QED
    BY <1>3, <2>1, <2>2 DEF Says
<1>4. ASSUME Says(q, c, b), ~Mentions(p, c), About(Head(q), c) PROVE Head(q).connected <=> b
  <2>1. 1 \in 1..n /\ About(q[1], c)
    BY <1>1, <1>4
  <2>2. ASSUME NEW j \in 1..n, j > 1 PROVE ~About(q[j], c)
    <3>1. j - 1 \in 1..(n - 1) /\ (j - 1) + 1 = j
      BY <1>1, <2>2
    <3>2. p[j - 1] = q[j]
      BY <1>1, <3>1
    <3> QED
      BY <1>1, <1>4, <3>1, <3>2 DEF Mentions
  <2> QED
    BY <1>1, <1>4, <2>1, <2>2 DEF Says
<1> QED
  BY <1>2, <1>3, <1>4 DEF p

\* There is always an identifier that is not in use, and NewId is one.
LEMMA NewIdIsNew ==
  ASSUME FeedTypes, IdsOK
  PROVE  NewId \in Ids /\ NewId \notin InUse
<1> DEFINE T == Ids \ InUse
<1>1. MaxFails \in Nat /\ fails \in Nat /\ fails <= MaxFails
  BY FeedConstants DEF FeedTypes
<1>2. T # {}
  <2> SUFFICES ASSUME T = {} PROVE FALSE
    OBVIOUS
  <2>1. Ids \subseteq InUse
    OBVIOUS
  <2>2. Cardinality(Ids) <= Cardinality(InUse)
    BY <2>1, FS_Subset DEF IdsOK
  <2>3. Cardinality(Ids) = MaxFails + 1
    <3>1. 0 \in Int /\ MaxFails \in Int /\ ~(0 > MaxFails)
      BY <1>1
    <3>2. Cardinality(0..MaxFails) = IF 0 > MaxFails THEN 0 ELSE MaxFails - 0 + 1
      BY <3>1, FS_Interval
    <3> QED
      BY <1>1, <3>1, <3>2 DEF Ids
  <2>4. Cardinality(InUse) \in Nat
    BY FS_CardinalityType DEF IdsOK
  <2> QED
    BY <1>1, <2>2, <2>3, <2>4 DEF IdsOK
<1>3. \E x \in T : \A y \in T : x <= y
  <2> DEFINE R == OpToRel(<, Nat)
  <2>1. IsWellFoundedOn(R, Nat)
    BY NatLessThanWellFounded
  <2>2. \A y, x \in Nat : y < x => <<y, x>> \in R
    BY DEF OpToRel
  <2> HIDE DEF R
  <2>3. T \subseteq Nat
    BY <1>1 DEF Ids
  <2> HIDE DEF T
  <2>4. PICK x \in T : \A y \in T : ~ (<<y, x>> \in R)
    BY <1>2, <2>1, <2>3, WFMin
  <2>5. \A y \in T : ~ (y < x)
    BY <2>2, <2>3, <2>4
  <2> QED
    BY <2>3, <2>5
<1>4. NewId = CHOOSE i \in T : \A j \in T : i <= j
  BY DEF NewId
<1> QED
  BY <1>3, <1>4
-----------------------------------------------------------------------------
(* The steps.                                                              *)

\* A step that leaves the events, the roster and who is connected alone.
LEMMA FeedUntouched ==
  ASSUME FInv, UNCHANGED <<queue, sending, late, fails, seen, roster, moved, gap>>,
         \A c \in Conns : Serving(c)' <=> Serving(c)
  PROVE  FInv'
<1>1. FeedTypes' /\ IdsOK'
  BY DEF FInv, FeedTypes, IdsOK, InUse
<1>2. ASSUME ~gap, ~moved, NEW c \in Conns PROVE UpToDate(c)'
  <2>1. UpToDate(c) /\ (Held(c)' <=> Held(c)) /\ (Serving(c)' <=> Serving(c))
    BY <1>2 DEF FInv, InStep, Held
  <2>2. Says(queue, c, Serving(c))'
    BY <2>1 DEF UpToDate, Says
  <2>3. Mentions(queue, c)' <=> Mentions(queue, c)
    BY DEF Mentions
  <2> QED
    BY <2>1, <2>2, <2>3 DEF UpToDate
<1>3. LateOK => LateOK'
  BY DEF LateOK
<1> QED
  BY <1>1, <1>2, <1>3 DEF FInv, InStep

\* An event is reported: what it says of its connection is so from then on.
LEMMA ReportKeeps ==
  ASSUME FInv, NEW kind \in {"node", "participant"}, NEW c \in Conns \cup {NoOne},
         NEW connected \in BOOLEAN, NEW heartbeat \in BOOLEAN, NEW outOfTurn \in BOOLEAN,
         Report(kind, c, connected, heartbeat, outOfTurn),
         kind = "participant" => c \in Conns,
         UNCHANGED <<sending, late, fails, seen, roster, moved>>,
         \A d \in Conns : kind = "node" \/ heartbeat \/ d # c => (Serving(d)' <=> Serving(d)),
         kind = "participant" /\ ~outOfTurn => (Serving(c)' <=> connected)
  PROVE  FInv'
<1> DEFINE e == [kind |-> kind, conn |-> c, connected |-> connected, heartbeat |-> heartbeat]
<1>1. e \in Events /\ e.kind = kind /\ e.conn = c /\ e.connected = connected
  BY DEF Events, Event
<1>2. \/ queue' = Append(queue, e)
      \/ queue' = queue /\ (gap' \/ kind = "node" \/ heartbeat)
  BY DEF Report
<1>3. gap' \in BOOLEAN /\ (~gap' => ~gap /\ ~outOfTurn)
  BY DEF Report, FInv, FeedTypes
<1> HIDE DEF e
<1>4. queue \in Seq(Events) /\ queue' \in Seq(Events)
  BY <1>1, <1>2 DEF FInv, FeedTypes
<1>5. FeedTypes' /\ IdsOK'
  BY <1>3, <1>4 DEF FInv, FeedTypes, IdsOK, InUse
<1>6. LateOK => LateOK'
  BY DEF LateOK
<1>7. ASSUME ~gap', ~moved, NEW d \in Conns PROVE UpToDate(d)'
  <2>1. /\ UpToDate(d) /\ (Held(d)' <=> Held(d)) /\ ~outOfTurn
        /\ UNCHANGED <<roster, sending>>
    BY <1>3, <1>7 DEF FInv, InStep, Held
  <2>2. CASE queue' = queue
    <3>1. Serving(d)' <=> Serving(d)
      BY <1>2, <1>7, <2>2, <1>1, <1>4 DEF Report
    <3>2. Says(queue, d, Serving(d))' /\ (Mentions(queue, d)' <=> Mentions(queue, d))
      BY <2>1, <2>2, <3>1 DEF UpToDate, Says, Mentions
    <3> QED
      BY <2>1, <3>1, <3>2 DEF UpToDate
  <2>3. CASE queue' = Append(queue, e)
    <3> DEFINE b == Serving(d)'
    <3>1. b \in BOOLEAN
      BY DEF Serving
    <3>2. CASE About(e, d)
      <4>1. kind = "participant" /\ d = c
        BY <1>1, <3>2 DEF About
      <4>2. e.connected <=> b
        BY <1>1, <2>1, <4>1
      <4> HIDE DEF b
      <4>3. Mentions(queue', d) /\ Says(queue', d, b)
        BY <1>1, <1>4, <2>3, <3>1, <3>2, <4>2, SaysAppend
      <4>4. Mentions(queue, d)' /\ Says(queue, d, Serving(d))'
        BY <4>3 DEF b, Mentions, Says
      <4> QED
        BY <4>4 DEF UpToDate
    <3>3. CASE ~About(e, d)
      <4>1. b <=> Serving(d)
        BY <1>1, <3>3 DEF About
      <4>2. Says(queue, d, b)
        BY <2>1, <4>1 DEF UpToDate, Says
      <4> HIDE DEF b
      <4>3. (Mentions(queue', d) <=> Mentions(queue, d)) /\ Says(queue', d, b)
        BY <1>1, <1>4, <2>3, <3>1, <3>3, <4>2, SaysAppend
      <4>4. (Mentions(queue, d)' <=> Mentions(queue, d)) /\ Says(queue, d, Serving(d))'
        BY <4>3 DEF b, Mentions, Says
      <4> QED
        BY <2>1, <4>1, <4>4 DEF UpToDate, b
    <3> QED
      BY <3>2, <3>3
  <2> QED
    BY <1>2, <2>2, <2>3
<1> QED
  BY <1>3, <1>5, <1>6, <1>7 DEF FInv, InStep

\* The loop takes the next event, which gets an identifier of its own.
LEMMA TakeKeeps == ASSUME FInv, Take PROVE FInv'
<1>1. /\ sending = None /\ queue # <<>> /\ queue' = Tail(queue)
      /\ sending' = [id |-> NewId, event |-> Head(queue)]
      /\ seen' = seen \cap InUse
      /\ UNCHANGED <<pc, late, fails, roster, moved, gap>>
  BY DEF Take, drainVars
<1>2. FeedTypes /\ IdsOK /\ InStep
  BY DEF FInv
<1>3. NewId \in Ids /\ NewId \notin InUse
  BY <1>2, NewIdIsNew
<1>4. queue \in Seq(Events) /\ Tail(queue) \in Seq(Events) /\ Head(queue) \in Events
  BY <1>1, <1>2 DEF FeedTypes
<1>5. sending' \in Posts /\ sending'.id = NewId /\ sending'.event = Head(queue)
  BY <1>1, <1>3, <1>4 DEF Posts
<1>6. sending' # None
  <2>1. Posts \subseteq Post
    BY DEF Posts, Post, Events
  <2> QED
    BY <1>5, <2>1, FeedConstants
<1>7. FeedTypes'
  BY <1>1, <1>2, <1>4, <1>5 DEF FeedTypes
<1>8. IdsOK'
  <2>1. InUse' = InUse
    BY <1>1 DEF InUse
  <2>2. \A p \in late : p.id # NewId
    BY <1>3 DEF InUse
  <2> QED
    BY <1>1, <1>2, <1>5, <2>1, <2>2 DEF IdsOK
<1>9. ASSUME LateOK PROVE LateOK'
  <2> SUFFICES ASSUME NEW p \in late, p.event.kind = "participant" PROVE p.id \in seen'
    BY <1>1 DEF LateOK
  <2>1. p # None
    BY <1>2, FeedConstants DEF FeedTypes, Posts, Post, Events
  <2> QED
    BY <1>1, <1>9, <2>1 DEF LateOK, InUse
<1>10. ASSUME NEW c \in Conns, UpToDate(c) PROVE UpToDate(c)'
  <2>1. ~Held(c) /\ (Held(c)' <=> About(Head(queue), c))
    BY <1>1, <1>3, <1>5, <1>6 DEF Held
  <2> DEFINE b == Serving(c)
  <2>2. b \in BOOLEAN /\ Serving(c)' = b
    BY <1>1 DEF Serving
  <2>3. Says(queue, c, b)
    BY <1>10 DEF UpToDate
  <2> HIDE DEF b
  <2>4. /\ Mentions(queue, c) <=> Mentions(queue', c) \/ About(Head(queue), c)
        /\ Says(queue', c, b)
        /\ ~Mentions(queue', c) /\ About(Head(queue), c) => (Head(queue).connected <=> b)
    BY <1>1, <1>4, <2>2, <2>3, SaysTail
  <2>5. Says(queue, c, Serving(c))' /\ (Mentions(queue, c)' <=> Mentions(queue', c))
    BY <2>2, <2>4 DEF Says, Mentions
  <2>6. ~Mentions(queue, c) => (c \in roster <=> b)
    BY <1>10, <2>1 DEF UpToDate, b
  <2> QED
    BY <1>1, <1>5, <2>1, <2>2, <2>4, <2>5, <2>6 DEF UpToDate
<1> QED
  BY <1>1, <1>2, <1>7, <1>8, <1>9, <1>10 DEF FInv, InStep

\* What the loop holds is applied: it is the oldest news.
LEMMA AppliedUpToDate ==
  ASSUME FeedTypes, NEW c \in Conns, UpToDate(c), sending # None, sending.id \notin seen,
         ApplyEvent(sending.event), UNCHANGED <<queue, pc>>, ~Held(c)'
  PROVE  UpToDate(c)'
<1>1. Says(queue, c, Serving(c))' /\ (Mentions(queue, c)' <=> Mentions(queue, c))
  BY DEF UpToDate, Says, Mentions, Serving
<1>2. Held(c) <=> About(sending.event, c)
  BY DEF Held
<1> DEFINE e == sending.event
<1>3. e \in Events /\ e.kind \in {"node", "participant"}
  BY DEF FeedTypes, Posts, Events, Event
<1>4. roster' = IF e.kind = "node" THEN roster
                ELSE IF e.connected THEN roster \cup {e.conn} ELSE roster \ {e.conn}
  BY DEF ApplyEvent
<1>5. ~Mentions(queue, c) => (c \in roster' <=> Serving(c))
  <2>1. CASE About(e, c)
    BY <1>2, <1>4, <2>1 DEF UpToDate, About
  <2>2. CASE ~About(e, c)
    BY <1>2, <1>3, <1>4, <2>2 DEF UpToDate, About
  <2> QED
    BY <2>1, <2>2
<1> QED
  BY <1>1, <1>5 DEF UpToDate, Serving

\* An event is applied to a roster of connections.
LEMMA RosterTypes ==
  ASSUME FeedTypes, NEW p \in Posts, Apply(p)
  PROVE  /\ roster' \subseteq Conns /\ seen' \subseteq Ids
         /\ p.id \in seen => UNCHANGED <<roster, seen>>
         /\ p.id \notin seen => ApplyEvent(p.event) /\ seen' = seen \cup {p.id}
<1>1. p.id \in Ids /\ p.event \in Events
  BY DEF Posts
<1>2. CASE p.id \in seen
  BY <1>2 DEF Apply, FeedTypes
<1>3. CASE p.id \notin seen
  <2>1. ApplyEvent(p.event) /\ seen' = seen \cup {p.id}
    BY <1>3 DEF Apply
  <2>2. roster' \subseteq Conns
    BY <1>1, <2>1 DEF ApplyEvent, Events, Event, FeedTypes
  <2> QED
    BY <1>1, <1>3, <2>1, <2>2 DEF FeedTypes
<1> QED
  BY <1>2, <1>3

\* The post is answered.
LEMMA PostOkKeeps == ASSUME FInv, PostOk PROVE FInv'
<1>1. /\ sending # None /\ sending' = None /\ Apply(sending)
      /\ UNCHANGED <<pc, queue, late, fails, moved, gap>>
  BY DEF PostOk, drainVars
<1>2. FeedTypes /\ IdsOK /\ InStep
  BY DEF FInv
<1>3. sending \in Posts
  BY <1>1, <1>2 DEF FeedTypes
<1>4. /\ roster' \subseteq Conns /\ seen' \subseteq Ids
      /\ sending.id \in seen => UNCHANGED <<roster, seen>>
      /\ sending.id \notin seen => ApplyEvent(sending.event) /\ seen' = seen \cup {sending.id}
  BY <1>1, <1>2, <1>3, RosterTypes
<1>5. FeedTypes'
  BY <1>1, <1>2, <1>4 DEF FeedTypes
<1>6. IdsOK'
  BY <1>1, <1>2 DEF IdsOK, InUse
<1>7. ASSUME LateOK PROVE LateOK'
  BY <1>1, <1>4, <1>7 DEF LateOK
<1>8. ASSUME NEW c \in Conns, UpToDate(c) PROVE UpToDate(c)'
  <2>1. ~Held(c)'
    BY <1>1 DEF Held
  <2>2. CASE sending.id \in seen
    <3>1. ~Held(c) /\ UNCHANGED roster
      BY <1>4, <2>2 DEF Held
    <3> QED
      BY <1>1, <1>8, <2>1, <3>1 DEF UpToDate, Says, Mentions, Serving
  <2>3. CASE sending.id \notin seen
    BY <1>1, <1>2, <1>4, <1>8, <2>1, <2>3, AppliedUpToDate
  <2> QED
    BY <2>2, <2>3
<1> QED
  BY <1>1, <1>2, <1>5, <1>6, <1>7, <1>8 DEF FInv, InStep

\* A post that timed out is received after all.
LEMMA LateArrivesKeeps == ASSUME FInv, NEW p \in late, LateArrives(p) PROVE FInv'
<1>1. /\ late' = late \ {p}
      /\ UNCHANGED <<pc, queue, sending, fails, moved, gap>>
  BY DEF LateArrives, drainVars
<1>2. FeedTypes /\ IdsOK /\ InStep
  BY DEF FInv
<1>3. p \in Posts
  BY <1>2 DEF FeedTypes
<1>4. /\ roster' \subseteq Conns /\ seen' \subseteq Ids
      /\ \/ UNCHANGED <<roster, seen>> /\ (Forbidden(p.event) \/ p.id \in seen)
         \/ p.id \notin seen /\ ApplyEvent(p.event) /\ seen' = seen \cup {p.id}
  BY <1>2, <1>3, RosterTypes DEF LateArrives, FeedTypes
<1>5. FeedTypes'
  BY <1>1, <1>2, <1>4 DEF FeedTypes
<1>6. IdsOK'
  <2>1. InUse' \subseteq InUse
    BY <1>1 DEF InUse
  <2>2. IsFiniteSet(InUse') /\ Cardinality(InUse') <= Cardinality(InUse)
    BY <1>2, <2>1, FS_Subset DEF IdsOK
  <2>3. Cardinality(InUse') \in Nat /\ Cardinality(InUse) \in Nat /\ fails \in Nat
    BY <1>2, <2>2, FS_CardinalityType DEF IdsOK, FeedTypes
  <2> QED
    BY <1>1, <1>2, <2>2, <2>3 DEF IdsOK
<1>7. ASSUME LateOK PROVE LateOK'
  BY <1>1, <1>4, <1>7 DEF LateOK
<1>8. ASSUME LateOK, ~moved, NEW c \in Conns, UpToDate(c) PROVE UpToDate(c)'
  <2>1. CASE UNCHANGED <<roster, seen>>
    BY <1>1, <1>8, <2>1 DEF UpToDate, Says, Mentions, Serving, Held
  <2>2. CASE p.id \notin seen /\ ApplyEvent(p.event) /\ seen' = seen \cup {p.id}
    <3>1. CASE p = sending
      <4>1. sending # None
        BY <1>3, <3>1, FeedConstants DEF Posts, Post, Events
      <4>2. ~Held(c)'
        BY <1>1, <2>2, <3>1 DEF Held
      <4> QED
        BY <1>1, <1>2, <1>8, <2>2, <3>1, <4>1, <4>2, AppliedUpToDate
    <3>2. CASE p # sending
      <4>1. p.event.kind = "node"
        BY <1>3, <1>8, <2>2, <3>2 DEF LateOK, Posts, Events, Event
      <4>2. roster' = roster
        BY <2>2, <4>1 DEF ApplyEvent
      <4>3. sending # None => p.id # sending.id
        BY <1>2, <3>2 DEF IdsOK
      <4>4. Held(c)' <=> Held(c)
        BY <1>1, <2>2, <4>3 DEF Held
      <4> QED
        BY <1>1, <1>8, <4>2, <4>4 DEF UpToDate, Says, Mentions, Serving
    <3> QED
      BY <3>1, <3>2
  <2> QED
    BY <1>4, <2>1, <2>2
<1> QED
  BY <1>1, <1>2, <1>5, <1>6, <1>7, <1>8 DEF FInv, InStep

\* The attempt fails, and the post may have got through.  A participant's
\* event that is given up leaves a gap; a node's leaves the roster alone.
LEMMA FailedPostKeeps ==
  ASSUME FInv, sending # None, AttemptFails,
         \/ late' = late /\ fails' = fails
         \/ late' \in {late, late \cup {sending}} /\ fails < MaxFails /\ fails' = fails + 1,
         UNCHANGED <<pc, queue, seen, roster, moved>>
  PROVE  FInv'
<1>1. FeedTypes /\ IdsOK /\ InStep
  BY DEF FInv
<1>2. sending \in Posts /\ sending.event.kind \in {"node", "participant"}
  BY <1>1 DEF FeedTypes, Posts, Events, Event
<1>3. \/ UNCHANGED <<sending, gap>>
      \/ sending' = None /\ gap' = (gap \/ sending.event.kind = "participant")
  BY DEF AttemptFails
<1>4. fails \in Nat /\ fails' \in 0..MaxFails /\ fails <= fails'
  BY <1>1, FeedConstants DEF FeedTypes
<1>5. FeedTypes'
  BY <1>1, <1>2, <1>3, <1>4 DEF FeedTypes
<1>6. IdsOK'
  <2>1. IsFiniteSet(InUse) /\ Cardinality(InUse) \in Nat /\ Cardinality(InUse) <= fails
    BY <1>1, FS_CardinalityType DEF IdsOK
  <2>2. IsFiniteSet(InUse') /\ Cardinality(InUse') <= fails'
    <3>1. CASE late' = late
      <4>1. InUse' = InUse
        BY <3>1 DEF InUse
      <4> QED
        BY <1>4, <2>1, <4>1
    <3>2. CASE late' = late \cup {sending} /\ fails' = fails + 1
      <4>1. InUse' = InUse \cup {sending.id}
        BY <3>2 DEF InUse
      <4>2. /\ IsFiniteSet(InUse \cup {sending.id})
            /\ Cardinality(InUse \cup {sending.id}) \in {Cardinality(InUse), Cardinality(InUse) + 1}
        BY <2>1, FS_AddElement
      <4> QED
        BY <1>4, <2>1, <3>2, <4>1, <4>2
    <3> QED
      BY <3>1, <3>2
  <2>3. late' \subseteq late \cup {sending}
    OBVIOUS
  <2> QED
    BY <1>1, <1>3, <2>2, <2>3 DEF IdsOK
<1>7. ASSUME LateOK, ~gap' PROVE LateOK'
  <2>1. late' \subseteq late \cup {sending}
    OBVIOUS
  <2>2. sending' = sending \/ sending.event.kind = "node"
    BY <1>2, <1>3, <1>7
  <2> QED
    BY <1>7, <2>1, <2>2 DEF LateOK
<1>8. ASSUME ~gap', NEW c \in Conns, UpToDate(c) PROVE UpToDate(c)'
  <2>1. Held(c)' <=> Held(c)
    BY <1>2, <1>3, <1>8 DEF Held, About
  <2>2. Held(c) => sending' = sending
    BY <1>2, <1>3, <1>8 DEF Held, About
  <2> QED
    BY <1>8, <2>1, <2>2 DEF UpToDate, Says, Mentions, Serving
<1>9. ~gap' => ~gap
  BY <1>3
<1> QED
  BY <1>1, <1>5, <1>6, <1>7, <1>8, <1>9 DEF FInv, InStep

\* The loop's steps and the control plane's.
LEMMA LoopKeeps ==
  ASSUME FInv,
         \/ Take \/ PostOk \/ PostForbidden \/ PostLost \/ PostHalf
         \/ \E p \in late : LateArrives(p)
         \/ AgeNode \/ Recover
  PROVE  FInv'
<1>1. CASE Take
  BY <1>1, TakeKeeps
<1>2. CASE PostOk
  BY <1>2, PostOkKeeps
<1>3. CASE PostForbidden
  BY <1>3, FailedPostKeeps DEF PostForbidden, drainVars
<1>4. CASE PostLost
  BY <1>4, FailedPostKeeps DEF PostLost, drainVars
<1>5. CASE PostHalf
  BY <1>5, FailedPostKeeps DEF PostHalf, drainVars
<1>6. CASE \E p \in late : LateArrives(p)
  BY <1>6, LateArrivesKeeps
<1>7. CASE AgeNode
  BY <1>7, FeedUntouched DEF AgeNode, drainVars, Serving
<1>8. CASE Recover
  BY <1>8 DEF Recover, FInv, FeedTypes, IdsOK, InUse, InStep
<1> QED
  BY <1>1, <1>2, <1>3, <1>4, <1>5, <1>6, <1>7, <1>8

\* The handlers' steps, main's and the tickers'.
LEMMA NodeKeeps ==
  ASSUME FInv, TypeOK,
         \/ \E c \in Conns : HandlerStep(c) /\ UNCHANGED feedVars
         \/ MainStep /\ UNCHANGED feedVars
         \/ \E c \in Conns : ServeReport(c) \/ DepartReport(c) \/ Heartbeat(c) \/ HeartbeatStops(c)
         \/ AnnounceReport \/ ReporterClose \/ ReporterDrained \/ NodeTick \/ NodeTickStops
         \/ UNCHANGED vars
  PROVE  FInv'
<1> DEFINE PCs == {"out", "accepted", "lock", "adding", "joining", "serving", "returning", "gone"}
<1>0. pc \in [Conns -> PCs]
  BY DEF TypeOK
<1>1. ASSUME NEW c \in Conns, HandlerStep(c), UNCHANGED feedVars PROVE FInv'
  <2>1. \A d \in Conns : Serving(d)' <=> Serving(d)
    BY <1>0, <1>1 DEF HandlerStep, Accept, FastCheck, Recheck, AddActive, Refuse, Unregister,
                      Go, Serving
  <2> QED
    BY <1>1, <2>1, FeedUntouched DEF feedVars
<1>2. CASE MainStep /\ UNCHANGED feedVars
  <2>1. UNCHANGED pc
    BY <1>2 DEF MainStep, Signal, BeginDrain, WaitOver, Remaining, Snapshot, Shut, ShutDone
  <2> QED
    BY <1>2, <2>1, FeedUntouched DEF feedVars, Serving
<1>3. ASSUME NEW c \in Conns, ServeReport(c) PROVE FInv'
  <2>1. \A d \in Conns : Serving(d)' <=> (d = c \/ Serving(d))
    BY <1>0, <1>3 DEF ServeReport, Serve, Go, Serving
  <2>2. Report("participant", c, TRUE, FALSE, FALSE)
        /\ UNCHANGED <<sending, late, fails, seen, roster, moved>>
    BY <1>3 DEF ServeReport
  <2> QED
    BY <2>1, <2>2, ReportKeeps
<1>4. ASSUME NEW c \in Conns, DepartReport(c) PROVE FInv'
  <2>1. \A d \in Conns : Serving(d)' <=> (d # c /\ Serving(d))
    BY <1>0, <1>4 DEF DepartReport, Depart, Go, Serving
  <2>2. Report("participant", c, FALSE, FALSE, FALSE)
        /\ UNCHANGED <<sending, late, fails, seen, roster, moved>>
    BY <1>4 DEF DepartReport
  <2> QED
    BY <2>1, <2>2, ReportKeeps
<1>5. ASSUME NEW c \in Conns, Heartbeat(c) PROVE FInv'
  <2> DEFINE outOfTurn == pc[c] # "serving"
  <2>1. UNCHANGED pc /\ outOfTurn \in BOOLEAN
    BY <1>5 DEF Heartbeat, drainVars
  <2>2. Report("participant", c, TRUE, TRUE, outOfTurn)
        /\ UNCHANGED <<sending, late, fails, seen, roster, moved>>
    BY <1>5 DEF Heartbeat
  <2>3. \A d \in Conns : Serving(d)' <=> Serving(d)
    BY <2>1 DEF Serving
  <2>4. ~outOfTurn => (Serving(c)' <=> TRUE)
    BY <2>1 DEF Serving
  <2> HIDE DEF outOfTurn
  <2> QED
    BY <2>1, <2>2, <2>3, <2>4, ReportKeeps
<1>6. ASSUME NEW c \in Conns, HeartbeatStops(c) PROVE FInv'
  BY <1>6, FeedUntouched DEF HeartbeatStops, drainVars, Serving
<1>7. CASE NodeTick \/ AnnounceReport
  <2>1. UNCHANGED pc /\ UNCHANGED <<sending, late, fails, seen, roster, moved>>
    BY <1>7 DEF NodeTick, AnnounceReport, Announce, drainVars
  <2>2. \A d \in Conns : Serving(d)' <=> Serving(d)
    BY <2>1 DEF Serving
  <2>3. \/ Report("node", NoOne, TRUE, TRUE, FALSE)
        \/ Report("node", NoOne, FALSE, FALSE, FALSE)
    BY <1>7 DEF NodeTick, AnnounceReport
  <2> QED
    BY <2>1, <2>2, <2>3, ReportKeeps
<1>8. CASE ReporterClose \/ ReporterDrained \/ NodeTickStops \/ UNCHANGED vars
  <2>1. UNCHANGED pc /\ UNCHANGED <<queue, sending, late, fails, seen, roster, moved, gap>>
    BY <1>8 DEF ReporterClose, CloseReporter, ReporterDrained, Exit, NodeTickStops, drainVars,
                feedVars, vars
  <2> QED
    BY <2>1, FeedUntouched DEF Serving
<1> QED
  BY <1>1, <1>2, <1>3, <1>4, <1>5, <1>6, <1>7, <1>8

\* A node that starts has nothing to report and nobody in the roster.
LEMMA FInvInit == FeedInit => FInv
<1> SUFFICES ASSUME FeedInit PROVE FInv
  OBVIOUS
<1>1. /\ queue = <<>> /\ sending = None /\ late = {} /\ fails = 0 /\ seen = {} /\ roster = {}
      /\ moved = FALSE /\ gap = FALSE /\ pc = [c \in Conns |-> "out"]
  BY DEF FeedInit, Init
<1>2. FeedTypes
  <2>1. <<>> \in Seq(Events) /\ 0 \in 0..MaxFails
    BY FeedConstants
  <2> QED
    BY <1>1, <2>1 DEF FeedTypes
<1>3. InUse = {}
  BY <1>1 DEF InUse
<1>4. IdsOK
  BY <1>1, <1>3, FS_EmptySet DEF IdsOK
<1>5. InStep
  BY <1>1 DEF InStep, LateOK, UpToDate, Says, Mentions, Held, Serving
<1> QED
  BY <1>2, <1>4, <1>5 DEF FInv

\* The invariant holds of every state of the node with its feed.
LEMMA FInvAlways == FeedSpec => []FInv
<1>1. FInv /\ TypeOK /\ [FeedNext]_vars => FInv'
  BY LoopKeeps, NodeKeeps DEF FeedNext
<1> QED
  BY <1>1, FInvInit, FeedImplementsDrain, DrainTypes, PTL DEF FeedSpec

\* The control plane's roster is exact whenever the feed has drained without
\* a gap, for every number of connections, every capacity of the queue and
\* every number of posts that were lost, repeated or arrived late.
THEOREM FeedRosterExact == FeedSpec => []RosterExact
<1>1. FInv /\ TypeOK => RosterExact
  <2> SUFFICES ASSUME FInv, ~gap, ~moved, queue = <<>>, sending = None
               PROVE  roster = {c \in Conns : pc[c] = "serving"}
    BY DEF RosterExact
  <2>1. \A c \in Conns : ~Mentions(queue, c) /\ ~Held(c)
    BY DEF Mentions, Held
  <2>2. \A c \in Conns : c \in roster <=> Serving(c)
    BY <2>1 DEF FInv, InStep, UpToDate
  <2> QED
    BY <2>2 DEF FInv, FeedTypes, Serving
<1> QED
  BY <1>1, FInvAlways, FeedImplementsDrain, DrainTypes, PTL
-----------------------------------------------------------------------------
(* The refinement.                                                         *)

\* A sequence with one more element in front.
LEMMA ConsFacts ==
  ASSUME NEW S, NEW q \in Seq(S), NEW x \in S
  PROVE  /\ <<>> \o q = q
         /\ <<x>> \o q # <<>> /\ Head(<<x>> \o q) = x /\ Tail(<<x>> \o q) = q
         /\ \A y \in S : <<x>> \o Append(q, y) = Append(<<x>> \o q, y)
         /\ q # <<>> => <<Head(q)>> \o Tail(q) = q
<1>1. <<>> \o q = q
  OBVIOUS
<1>2. <<x>> \o q # <<>> /\ Head(<<x>> \o q) = x
  OBVIOUS
<1>3. Tail(<<x>> \o q) = q
  OBVIOUS
<1>4. \A y \in S : <<x>> \o Append(q, y) = Append(<<x>> \o q, y)
  OBVIOUS
<1>5. q # <<>> => <<Head(q)>> \o Tail(q) = q
  OBVIOUS
<1> QED
  BY <1>1, <1>2, <1>3, <1>4, <1>5

Present == {c \in Conns : pc[c] = "serving"}
Lost == gap \/ moved
ReplicaStep == Replica!Next \/ UNCHANGED <<Present, Unapplied, roster, Lost>>

\* The three ways to make a step of the replica.
LEMMA ReplicaCases ==
  ASSUME FeedTypes, FeedTypes'
  PROVE  /\ gap' \/ moved' => ReplicaStep
         /\ UNCHANGED <<gap, moved, roster>> =>
              /\ UNCHANGED <<pc, Unapplied>> => ReplicaStep
              /\ UNCHANGED <<Present, Unapplied>> => ReplicaStep
              /\ \A e \in Event : Unapplied' = Append(Unapplied, e)
                                  /\ Present' = Replica!Effect(e, Present) => ReplicaStep
         /\ UNCHANGED <<gap, moved, pc>> =>
              (Unapplied # <<>> /\ Unapplied' = Tail(Unapplied)
               /\ roster' = Replica!Effect(Head(Unapplied), roster) => ReplicaStep)
<1>1. gap' \/ moved' => ReplicaStep
  BY DEF ReplicaStep, Replica!Next, Replica!Loses
<1>2. UNCHANGED <<gap, moved>> => UNCHANGED Lost
  BY DEF Lost
<1>3. UNCHANGED pc => UNCHANGED Present
  BY DEF Present
<1>4. ASSUME UNCHANGED <<gap, moved, roster>>, UNCHANGED <<Present, Unapplied>>
      PROVE  ReplicaStep
  BY <1>2, <1>4 DEF ReplicaStep
<1>5. ASSUME UNCHANGED <<gap, moved, roster>>, NEW e \in Event,
             Unapplied' = Append(Unapplied, e), Present' = Replica!Effect(e, Present)
      PROVE  ReplicaStep
  BY <1>2, <1>5 DEF ReplicaStep, Replica!Next, Replica!Happens, Present, Lost
<1>6. ASSUME UNCHANGED <<gap, moved, pc>>, Unapplied # <<>>, Unapplied' = Tail(Unapplied),
             roster' = Replica!Effect(Head(Unapplied), roster)
      PROVE  ReplicaStep
  BY <1>2, <1>3, <1>6 DEF ReplicaStep, Replica!Next, Replica!Reflected, Present, Lost
<1> QED
  BY <1>1, <1>3, <1>4, <1>5, <1>6

\* What the loop holds and the queue, as one list.
LEMMA UnappliedCases ==
  ASSUME FeedTypes
  PROVE  /\ sending = None => Unapplied = queue
         /\ sending # None /\ sending.id \in seen => Unapplied = queue
         /\ sending # None /\ sending.id \notin seen =>
              /\ Unapplied = <<sending.event>> \o queue
              /\ Unapplied # <<>> /\ Head(Unapplied) = sending.event /\ Tail(Unapplied) = queue
         /\ queue \in Seq(Events)
         /\ sending # None => sending.event \in Events
<1>1. queue \in Seq(Events) /\ (sending # None => sending.event \in Events)
  BY DEF FeedTypes, Posts
<1>2. <<>> \o queue = queue
  BY <1>1
<1>3. ASSUME sending # None, sending.id \notin seen
      PROVE  /\ Unapplied = <<sending.event>> \o queue
             /\ Unapplied # <<>> /\ Head(Unapplied) = sending.event /\ Tail(Unapplied) = queue
  <2>1. Unapplied = <<sending.event>> \o queue
    BY <1>3 DEF Unapplied
  <2> QED
    BY <1>1, <1>3, <2>1, ConsFacts
<1> QED
  BY <1>1, <1>2, <1>3 DEF Unapplied

\* Something happens and is reported, or a heartbeat finds the queue full.
LEMMA ReportReplica ==
  ASSUME FeedTypes, FeedTypes', NEW kind \in {"node", "participant"}, NEW c \in Conns \cup {NoOne},
         NEW connected \in BOOLEAN, NEW heartbeat \in BOOLEAN, NEW outOfTurn \in BOOLEAN,
         Report(kind, c, connected, heartbeat, outOfTurn),
         kind = "participant" => c \in Conns,
         UNCHANGED <<sending, late, fails, seen, roster, moved>>,
         kind = "node" \/ heartbeat => UNCHANGED pc,
         kind = "participant" /\ ~outOfTurn =>
           Present' = IF connected THEN Present \cup {c} ELSE Present \ {c}
  PROVE  ReplicaStep
<1> DEFINE e == [kind |-> kind, conn |-> c, connected |-> connected, heartbeat |-> heartbeat]
<1>1. CASE gap' \/ moved'
  BY <1>1, ReplicaCases
<1>2. CASE ~gap' /\ ~moved'
  <2>1. UNCHANGED <<gap, moved>> /\ ~outOfTurn
    BY <1>2 DEF Report, FeedTypes
  <2>2. \/ queue' = Append(queue, e)
        \/ queue' = queue /\ (kind = "node" \/ heartbeat)
    BY <1>2 DEF Report
  <2>3. e \in Events /\ e \in Event /\ e.kind = kind /\ e.conn = c /\ e.connected = connected
    BY DEF Events, Event
  <2> HIDE DEF e
  <2>4. Present' = Present \/ kind = "participant"
    BY DEF Present
  <2>5. Present' = Replica!Effect(e, Present)
    BY <2>1, <2>3, <2>4 DEF Replica!Effect
  <2>6. CASE queue' = Append(queue, e)
    <3>1. Unapplied' = Append(Unapplied, e)
      <4>1. CASE sending # None /\ sending.id \notin seen
        <5>1. Unapplied = <<sending.event>> \o queue /\ Unapplied' = <<sending.event>> \o queue'
          BY <4>1, UnappliedCases DEF Unapplied
        <5>2. queue \in Seq(Events) /\ sending.event \in Events
          BY <4>1, UnappliedCases
        <5>3. <<sending.event>> \o Append(queue, e) = Append(<<sending.event>> \o queue, e)
          BY <2>3, <5>2, ConsFacts
        <5> QED
          BY <2>6, <5>1, <5>3
      <4>2. CASE ~(sending # None /\ sending.id \notin seen)
        <5>1. Unapplied = <<>> \o queue /\ Unapplied' = <<>> \o queue'
          BY <4>2 DEF Unapplied
        <5>2. queue \in Seq(Events) /\ queue' \in Seq(Events)
          BY DEF FeedTypes
        <5> QED
          BY <2>6, <5>1, <5>2
      <4> QED
        BY <4>1, <4>2
    <3> QED
      BY <2>1, <2>3, <2>5, <3>1, ReplicaCases
  <2>7. CASE queue' = queue /\ (kind = "node" \/ heartbeat)
    <3>1. UNCHANGED Unapplied
      BY <2>7 DEF Unapplied
    <3> QED
      BY <2>1, <2>7, <3>1, ReplicaCases
  <2> QED
    BY <2>2, <2>6, <2>7
<1> QED
  BY <1>1, <1>2

\* The loop takes an event and gives it an identifier of its own.
LEMMA TakeReplica == ASSUME FInv, FInv', Take PROVE ReplicaStep
<1>1. /\ sending = None /\ queue # <<>> /\ queue' = Tail(queue)
      /\ sending' = [id |-> NewId, event |-> Head(queue)]
      /\ seen' = seen \cap InUse
      /\ UNCHANGED <<pc, late, fails, roster, moved, gap>>
  BY DEF Take, drainVars
<1>2. FeedTypes /\ FeedTypes' /\ IdsOK
  BY DEF FInv
<1>3. NewId \notin InUse
  BY <1>2, NewIdIsNew
<1>4. sending'.id = NewId /\ sending'.event = Head(queue) /\ sending' \in Post
  <2>1. Head(queue) \in Event /\ NewId \in Ids
    BY <1>1, <1>2, NewIdIsNew DEF FeedTypes, Events
  <2> QED
    BY <1>1, <2>1 DEF Post
<1>5. Unapplied' = <<Head(queue)>> \o Tail(queue)
  BY <1>1, <1>3, <1>4, FeedConstants DEF Unapplied
<1>6. queue \in Seq(Events) /\ Head(queue) \in Events
  BY <1>1, <1>2 DEF FeedTypes
<1>7. Unapplied' = queue /\ Unapplied = queue
  BY <1>1, <1>2, <1>5, <1>6, ConsFacts, UnappliedCases
<1> QED
  BY <1>1, <1>2, <1>7, ReplicaCases

\* What the loop holds is applied, or was before.
LEMMA AppliedReplica ==
  ASSUME FeedTypes, FeedTypes', sending # None, UNCHANGED <<pc, queue, gap, moved>>,
         \/ sending.id \in seen /\ UNCHANGED roster
         \/ sending.id \notin seen /\ roster' = Replica!Effect(sending.event, roster),
         sending' = None \/ (sending' = sending /\ sending.id \in seen')
  PROVE  ReplicaStep
<1>1. Unapplied' = queue
  <2>1. Unapplied' = <<>> \o queue
    BY DEF Unapplied
  <2> QED
    BY <2>1 DEF FeedTypes
<1>2. CASE sending.id \in seen
  BY <1>1, <1>2, UnappliedCases, ReplicaCases
<1>3. CASE sending.id \notin seen
  BY <1>1, <1>3, UnappliedCases, ReplicaCases
<1> QED
  BY <1>2, <1>3

\* The loop's steps and the control plane's, on the replica.
LEMMA LoopReplica ==
  ASSUME FInv, FInv',
         \/ Take \/ PostOk \/ PostForbidden \/ PostLost \/ PostHalf
         \/ \E p \in late : LateArrives(p)
         \/ AgeNode \/ Recover
  PROVE  ReplicaStep
<1>0. FeedTypes /\ FeedTypes' /\ IdsOK /\ InStep
  BY DEF FInv
<1>1. CASE Take
  BY <1>1, TakeReplica
<1>2. CASE PostOk
  <2>1. /\ sending # None /\ sending' = None /\ Apply(sending)
        /\ UNCHANGED <<pc, queue, gap, moved>> /\ sending \in Posts
    BY <1>0, <1>2 DEF PostOk, drainVars, FeedTypes
  <2>2. sending.id \notin seen => roster' = Replica!Effect(sending.event, roster)
    BY <1>0, <2>1, RosterTypes DEF ApplyEvent, Replica!Effect
  <2>3. sending.id \in seen => UNCHANGED roster
    BY <1>0, <2>1, RosterTypes
  <2> QED
    BY <1>0, <2>1, <2>2, <2>3, AppliedReplica
<1>3. CASE PostForbidden \/ PostLost \/ PostHalf
  <2>1. /\ sending # None /\ AttemptFails /\ UNCHANGED <<pc, queue, seen, roster, moved>>
    BY <1>3 DEF PostForbidden, PostLost, PostHalf, drainVars
  <2>2. CASE gap' \/ moved'
    BY <1>0, <2>2, ReplicaCases
  <2>3. CASE ~gap' /\ ~moved' /\ UNCHANGED <<sending, gap>>
    <3>1. UNCHANGED Unapplied
      BY <2>1, <2>3 DEF Unapplied
    <3> QED
      BY <1>0, <2>1, <2>3, <3>1, ReplicaCases
  <2>4. CASE ~gap' /\ ~moved' /\ sending' = None /\ gap' = (gap \/ sending.event.kind = "participant")
    <3>1. ~gap /\ sending.event.kind = "node" /\ UNCHANGED gap
      BY <1>0, <2>1, <2>4 DEF FeedTypes, Posts, Events, Event
    <3>2. roster' = Replica!Effect(sending.event, roster)
      BY <2>1, <3>1 DEF Replica!Effect
    <3> QED
      BY <1>0, <2>1, <2>4, <3>1, <3>2, AppliedReplica
  <2> QED
    BY <2>1, <2>2, <2>3, <2>4 DEF AttemptFails
<1>4. ASSUME NEW p \in late, LateArrives(p) PROVE ReplicaStep
  <2>1. /\ UNCHANGED <<pc, queue, sending, moved, gap>> /\ p \in Posts
        /\ \/ UNCHANGED <<roster, seen>>
           \/ p.id \notin seen /\ ApplyEvent(p.event) /\ seen' = seen \cup {p.id}
    BY <1>0, <1>4, RosterTypes DEF LateArrives, drainVars, FeedTypes
  <2>2. CASE gap' \/ moved'
    BY <1>0, <2>2, ReplicaCases
  <2>3. CASE ~gap' /\ ~moved' /\ UNCHANGED <<roster, seen>>
    <3>1. UNCHANGED Unapplied
      BY <2>1, <2>3 DEF Unapplied
    <3> QED
      BY <1>0, <2>1, <2>3, <3>1, ReplicaCases
  <2>4. CASE /\ ~gap' /\ ~moved' /\ p.id \notin seen /\ ApplyEvent(p.event)
             /\ seen' = seen \cup {p.id}
    <3>1. roster' = Replica!Effect(p.event, roster)
      BY <2>4 DEF ApplyEvent, Replica!Effect
    <3>2. CASE p = sending
      <4>1. sending # None
        BY <2>1, <3>2, FeedConstants DEF Posts, Post, Events
      <4> QED
        BY <1>0, <2>1, <2>4, <3>1, <3>2, <4>1, AppliedReplica
    <3>3. CASE p # sending
      <4>1. LateOK
        BY <1>0, <2>1, <2>4 DEF InStep
      <4>2. p.event.kind = "node"
        BY <2>1, <2>4, <3>3, <4>1 DEF LateOK, Posts, Events, Event
      <4>3. UNCHANGED roster
        BY <3>1, <4>2 DEF Replica!Effect
      <4>4. sending # None => (sending.id \in seen' <=> sending.id \in seen)
        BY <1>0, <2>4, <3>3 DEF IdsOK
      <4>5. UNCHANGED Unapplied
        BY <2>1, <4>4 DEF Unapplied
      <4> QED
        BY <1>0, <2>1, <4>3, <4>5, ReplicaCases
    <3> QED
      BY <3>2, <3>3
  <2> QED
    BY <2>1, <2>2, <2>3, <2>4
<1>5. CASE AgeNode
  <2>1. UNCHANGED <<pc, queue, sending, seen, roster, moved, gap>>
    BY <1>5 DEF AgeNode, drainVars
  <2>2. UNCHANGED Unapplied
    BY <2>1 DEF Unapplied
  <2> QED
    BY <1>0, <2>1, <2>2, ReplicaCases
<1>6. CASE Recover
  BY <1>0, <1>6, ReplicaCases DEF Recover
<1> QED
  BY <1>1, <1>2, <1>3, <1>4, <1>5, <1>6

\* The handlers' steps, main's and the tickers', on the replica.
LEMMA NodeReplica ==
  ASSUME FInv, FInv', TypeOK,
         \/ \E c \in Conns : HandlerStep(c) /\ UNCHANGED feedVars
         \/ MainStep /\ UNCHANGED feedVars
         \/ \E c \in Conns : ServeReport(c) \/ DepartReport(c) \/ Heartbeat(c) \/ HeartbeatStops(c)
         \/ AnnounceReport \/ ReporterClose \/ ReporterDrained \/ NodeTick \/ NodeTickStops
         \/ UNCHANGED vars
  PROVE  ReplicaStep
<1> DEFINE PCs == {"out", "accepted", "lock", "adding", "joining", "serving", "returning", "gone"}
<1>0. pc \in [Conns -> PCs] /\ FeedTypes /\ FeedTypes'
  BY DEF TypeOK, FInv
<1>1. ASSUME UNCHANGED Present, UNCHANGED <<queue, sending, seen, roster, moved, gap>>
      PROVE  ReplicaStep
  <2>1. UNCHANGED Unapplied
    BY <1>1 DEF Unapplied
  <2> QED
    BY <1>0, <1>1, <2>1, ReplicaCases
<1>2. ASSUME NEW c \in Conns, HandlerStep(c), UNCHANGED feedVars PROVE ReplicaStep
  <2>1. \A d \in Conns : pc'[d] = "serving" <=> pc[d] = "serving"
    BY <1>0, <1>2 DEF HandlerStep, Accept, FastCheck, Recheck, AddActive, Refuse, Unregister, Go
  <2>2. UNCHANGED Present
    BY <2>1 DEF Present
  <2> QED
    BY <1>1, <1>2, <2>2 DEF feedVars
<1>3. CASE MainStep /\ UNCHANGED feedVars
  <2>1. UNCHANGED pc
    BY <1>3 DEF MainStep, Signal, BeginDrain, WaitOver, Remaining, Snapshot, Shut, ShutDone
  <2> QED
    BY <1>1, <1>3, <2>1 DEF feedVars, Present
<1>4. ASSUME NEW c \in Conns, ServeReport(c) PROVE ReplicaStep
  <2>1. \A d \in Conns : pc'[d] = "serving" <=> (d = c \/ pc[d] = "serving")
    BY <1>0, <1>4 DEF ServeReport, Serve, Go
  <2>2. Present' = Present \cup {c}
    BY <2>1 DEF Present
  <2>3. Report("participant", c, TRUE, FALSE, FALSE)
        /\ UNCHANGED <<sending, late, fails, seen, roster, moved>>
    BY <1>4 DEF ServeReport
  <2> QED
    BY <1>0, <2>2, <2>3, ReportReplica
<1>5. ASSUME NEW c \in Conns, DepartReport(c) PROVE ReplicaStep
  <2>1. \A d \in Conns : pc'[d] = "serving" <=> (d # c /\ pc[d] = "serving")
    BY <1>0, <1>5 DEF DepartReport, Depart, Go
  <2>2. Present' = Present \ {c}
    BY <2>1 DEF Present
  <2>3. Report("participant", c, FALSE, FALSE, FALSE)
        /\ UNCHANGED <<sending, late, fails, seen, roster, moved>>
    BY <1>5 DEF DepartReport
  <2> QED
    BY <1>0, <2>2, <2>3, ReportReplica
<1>6. ASSUME NEW c \in Conns, Heartbeat(c) PROVE ReplicaStep
  <2> DEFINE outOfTurn == pc[c] # "serving"
  <2>1. UNCHANGED pc /\ outOfTurn \in BOOLEAN
    BY <1>6 DEF Heartbeat, drainVars
  <2>2. Report("participant", c, TRUE, TRUE, outOfTurn)
        /\ UNCHANGED <<sending, late, fails, seen, roster, moved>>
    BY <1>6 DEF Heartbeat
  <2>3. ~outOfTurn => Present' = Present \cup {c}
    BY <2>1 DEF Present
  <2> HIDE DEF outOfTurn
  <2> QED
    BY <1>0, <2>1, <2>2, <2>3, ReportReplica
<1>7. ASSUME NEW c \in Conns, HeartbeatStops(c) PROVE ReplicaStep
  BY <1>1, <1>7 DEF HeartbeatStops, drainVars, Present
<1>8. CASE NodeTick \/ AnnounceReport
  <2>1. UNCHANGED pc /\ UNCHANGED <<sending, late, fails, seen, roster, moved>>
    BY <1>8 DEF NodeTick, AnnounceReport, Announce, drainVars
  <2>2. \/ Report("node", NoOne, TRUE, TRUE, FALSE)
        \/ Report("node", NoOne, FALSE, FALSE, FALSE)
    BY <1>8 DEF NodeTick, AnnounceReport
  <2> QED
    BY <1>0, <2>1, <2>2, ReportReplica
<1>9. CASE ReporterClose \/ ReporterDrained \/ NodeTickStops \/ UNCHANGED vars
  <2>1. UNCHANGED pc /\ UNCHANGED <<queue, sending, seen, roster, moved, gap>>
    BY <1>9 DEF ReporterClose, CloseReporter, ReporterDrained, Exit, NodeTickStops, drainVars,
                feedVars, vars
  <2> QED
    BY <1>1, <2>1 DEF Present
<1> QED
  BY <1>2, <1>3, <1>4, <1>5, <1>6, <1>7, <1>8, <1>9

\* The feed implements the replica: until something is lost, every event is
\* applied once and in the order in which they happened, whatever the posts,
\* their retries and the copies that arrive late do.
THEOREM FeedImplementsReplica == FeedSpec => ReplicaSpec
<1>1. FeedInit => Replica!Init
  <2> SUFFICES ASSUME FeedInit PROVE Replica!Init
    OBVIOUS
  <2>1. /\ queue = <<>> /\ sending = None /\ roster = {} /\ moved = FALSE /\ gap = FALSE
        /\ pc = [c \in Conns |-> "out"]
    BY DEF FeedInit, Init
  <2>2. Unapplied = <<>>
    BY <2>1, FInvInit, UnappliedCases DEF FInv
  <2>3. Present = {}
    BY <2>1 DEF Present
  <2> QED
    BY <2>1, <2>2, <2>3 DEF Replica!Init, Present
<1>2. FInv /\ FInv' /\ TypeOK /\ [FeedNext]_vars => ReplicaStep
  BY LoopReplica, NodeReplica DEF FeedNext
<1>3. ReplicaStep =>
        [Replica!Next]_<<{c \in Conns : pc[c] = "serving"}, Unapplied, roster, gap \/ moved>>
  BY DEF ReplicaStep, Present, Lost
<1> QED
  BY <1>1, <1>2, <1>3, FInvAlways, FeedImplementsDrain, DrainTypes, PTL
  DEF FeedSpec, ReplicaSpec, Replica!Spec
=============================================================================
