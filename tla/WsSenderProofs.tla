--------------------------- MODULE WsSenderProofs ---------------------------
(***************************************************************************)
(* Theorems about WsSender for every number of callers, every set of       *)
(* payload sizes and all limits.  The inductive invariant IInv adds to the *)
(* properties what the writer holds at each point of its loop.             *)
(***************************************************************************)
EXTENDS WsSender, TLAPS, WellFoundedInduction

\* The writer holds a message exactly while it writes it.
WriterHolds ==
  /\ pc["writer"] \in {"pop", "select"} => inflight = NoMsg
  /\ pc["writer"] = "write" => inflight \in Message

\* A queued message is in the lane of its class.
InItsLane ==
  \A l \in Lanes : \A i \in 1..Len(queue[l]) : queue[l][i].class = l

IInv == TypeOK /\ WriterHolds /\ InItsLane /\ QueuesBounded /\ LaneFIFO /\ NoLostWakeup

\* What Append does to the length and the positions of a sequence.
LEMMA AppendFacts ==
  ASSUME NEW M, NEW s \in Seq(M), NEW m \in M
  PROVE  /\ Append(s, m) \in Seq(M)
         /\ Len(s) \in Nat /\ Len(Append(s, m)) = Len(s) + 1
         /\ \A i \in 1..Len(s) : Append(s, m)[i] = s[i]
         /\ Append(s, m)[Len(s) + 1] = m
OBVIOUS

\* What Tail does to the length and the positions of a sequence.
LEMMA TailFacts ==
  ASSUME NEW M, NEW s \in Seq(M), s # <<>>
  PROVE  /\ Tail(s) \in Seq(M) /\ Head(s) = s[1] /\ Head(s) \in M
         /\ Len(s) \in Nat /\ Len(s) >= 1 /\ Len(Tail(s)) = Len(s) - 1
         /\ \A i \in 1..Len(Tail(s)) : Tail(s)[i] = s[i + 1]
OBVIOUS

\* A sequence that continues another keeps doing so when both grow by the
\* same element.
LEMMA AppendBoth ==
  ASSUME NEW M, NEW q \in Seq(M), NEW a \in Seq(M), NEW m \in M, NEW n \in Nat,
         n + Len(q) = Len(a),
         \A i \in 1..Len(q) : q[i] = a[n + i]
  PROVE  \A i \in 1..Len(Append(q, m)) : Append(q, m)[i] = Append(a, m)[n + i]
<1> SUFFICES ASSUME NEW i \in 1..Len(Append(q, m))
             PROVE  Append(q, m)[i] = Append(a, m)[n + i]
  OBVIOUS
<1>1. CASE i \in 1..Len(q)
  <2>1. n + i \in 1..Len(a)
    BY <1>1, AppendFacts
  <2> QED
    BY <1>1, <2>1, AppendFacts
<1>2. CASE i = Len(q) + 1
  <2>1. n + i = Len(a) + 1
    BY <1>2, AppendFacts
  <2> QED
    BY <1>2, <2>1, AppendFacts
<1> QED
  BY <1>1, <1>2, AppendFacts

\* NoMsg belongs to no lane.
LEMMA NoMsgClass == NoMsg.class \notin Lanes
BY DEF NoMsg, Lanes

\* An empty sender satisfies the invariant.
LEMMA InitIInv == Init => IInv
<1> SUFFICES ASSUME Init PROVE IInv
  OBVIOUS
<1> USE SenderConstants
<1>1. TypeOK
  <2>1. pc \in [Procs -> States]
    BY DEF Init, Procs, States
  <2>2. <<>> \in Seq(Message)
    OBVIOUS
  <2>3. /\ queue \in [Lanes -> Seq(Message)] /\ accepted \in [Lanes -> Seq(Message)]
        /\ written \in [Lanes -> Seq(Message)] /\ bytes \in [Lanes -> Int]
    BY <2>2 DEF Init
  <2>4. /\ closed \in BOOLEAN /\ wake \in BOOLEAN /\ done \in BOOLEAN
        /\ connOpen \in BOOLEAN /\ ctxDone \in BOOLEAN
        /\ inflight \in Message \cup {NoMsg}
    BY DEF Init
  <2>5. shut \in 0..3 /\ sends \in Nat
    BY DEF Init
  <2>6. pc["writer"] # "write"
    BY DEF Init, Procs
  <2> QED
    BY <2>1, <2>3, <2>4, <2>5, <2>6 DEF TypeOK
<1>2. WriterHolds
  BY DEF Init, WriterHolds, Procs
<1>3. QueuesBounded
  BY DEF Init, QueuesBounded, Lanes
<1>4. LaneFIFO
  BY NoMsgClass DEF Init, LaneFIFO, Popped, Lanes
<1>5. NoLostWakeup
  BY DEF Init, NoLostWakeup, Lanes, Procs
<1>6. InItsLane
  BY DEF Init, InItsLane, Lanes
<1> QED
  BY <1>1, <1>2, <1>3, <1>4, <1>5, <1>6 DEF IInv

\* A call of Send preserves the invariant: an accepted message goes to the
\* end of its lane and of the lane's history.
LEMMA SendIInv ==
  ASSUME IInv, NEW c \in Callers, NEW class \in Lanes, NEW size \in Sizes,
         Send(c, class, size)
  PROVE  IInv'
<1> USE SenderConstants
<1> DEFINE m == [id |-> sends + 1, class |-> class, size |-> size]
<1>1. m \in Message /\ m.class = class /\ m.size = size
  BY DEF IInv, TypeOK, Message
<1>2. c \in Procs /\ c # "writer" /\ "writer" \in Procs
  BY DEF Procs
<1> HIDE DEF m
<1>3. CASE closed \/ Overflow(m)
  <2>1. /\ queue' = queue /\ bytes' = bytes /\ accepted' = accepted
        /\ pc' = pc \/ pc' = [pc EXCEPT ![c] = "shutdown"]
        /\ sends' = sends + 1
        /\ UNCHANGED <<closed, wake, shutdownVars, ctxDone, inflight, written>>
    BY <1>3 DEF Send, laneVars, m
  <2>2. pc'["writer"] = pc["writer"]
    BY <2>1, <1>2 DEF IInv, TypeOK
  <2>3. TypeOK'
    <3>1. pc' \in [Procs -> States]
      BY <2>1, <1>2 DEF IInv, TypeOK, States
    <3> QED
      BY <3>1, <2>1, <2>2 DEF IInv, TypeOK, shutdownVars
  <2>4. \A d \in Callers : pc[d] = "wake" => pc'[d] = "wake"
    BY <2>1, <1>2 DEF IInv, TypeOK, Procs, Send
  <2>5. NoLostWakeup'
    BY <2>1, <2>2, <2>4 DEF IInv, NoLostWakeup
  <2> QED
    BY <2>1, <2>2, <2>3, <2>5 DEF IInv, WriterHolds, InItsLane, QueuesBounded, LaneFIFO, Popped
<1>4. CASE ~closed /\ ~Overflow(m)
  <2>1. /\ queue' = [queue EXCEPT ![class] = Append(@, m)]
        /\ bytes' = [bytes EXCEPT ![class] = @ + size]
        /\ accepted' = [accepted EXCEPT ![class] = Append(@, m)]
        /\ pc' = [pc EXCEPT ![c] = "wake"]
        /\ sends' = sends + 1
        /\ UNCHANGED <<closed, wake, shutdownVars, ctxDone, inflight, written>>
    BY <1>4, <1>1 DEF Send, Enqueue, m
  <2>2. pc'["writer"] = pc["writer"] /\ pc'[c] = "wake"
    BY <2>1, <1>2 DEF IInv, TypeOK
  <2>3. TypeOK'
    BY <2>1, <1>1, <1>2 DEF IInv, TypeOK, States, shutdownVars
  <2>4. QueuesBounded'
    BY <2>1, <1>1, <1>4 DEF IInv, TypeOK, QueuesBounded, Overflow
  <2>5. LaneFIFO'
    <3> SUFFICES ASSUME NEW l \in Lanes
                 PROVE  /\ \A i \in 1..Len(written'[l]) : written'[l][i] = accepted'[l][i]
                        /\ inflight'.class = l => inflight' = accepted'[l][Len(written'[l]) + 1]
                        /\ \A i \in 1..Len(queue'[l]) : queue'[l][i] = accepted'[l][Popped(l)' + i]
                        /\ Popped(l)' + Len(queue'[l]) <= Len(accepted'[l])
                        /\ ~closed' => Popped(l)' + Len(queue'[l]) = Len(accepted'[l])
      BY DEF LaneFIFO
    <3>0. /\ Len(written[l]) \in Nat /\ Len(queue[l]) \in Nat /\ Len(accepted[l]) \in Nat
      BY DEF IInv, TypeOK
    <3>1. PICK n \in Nat : /\ Popped(l)' = n /\ Popped(l) = n /\ n >= Len(written[l])
                           /\ inflight.class = l => n = Len(written[l]) + 1
      <4>1. Popped(l) \in Nat /\ Popped(l)' = Popped(l)
        BY <3>0, <2>1 DEF Popped
      <4>2. Popped(l) >= Len(written[l]) /\ (inflight.class = l => Popped(l) = Len(written[l]) + 1)
        BY <3>0 DEF Popped
      <4> QED
        BY <4>1, <4>2
    <3>2. n + Len(queue[l]) = Len(accepted[l])
      <4>1. Popped(l) + Len(queue[l]) = Len(accepted[l])
        BY <1>4 DEF IInv, LaneFIFO
      <4> QED
        BY <4>1, <3>0, <3>1
    <3>3. CASE l # class
      BY <3>1, <3>3, <2>1 DEF IInv, LaneFIFO, TypeOK
    <3>4. CASE l = class
      <4>1. /\ queue'[l] = Append(queue[l], m)
            /\ accepted'[l] = Append(accepted[l], m)
            /\ queue[l] \in Seq(Message) /\ accepted[l] \in Seq(Message)
            /\ written[l] \in Seq(Message)
        BY <3>4, <2>1 DEF IInv, TypeOK
      <4>2. /\ Len(accepted'[l]) = Len(accepted[l]) + 1
            /\ Len(queue'[l]) = Len(queue[l]) + 1
        BY <4>1, <1>1, AppendFacts
      <4>3. \A i \in 1..Len(accepted[l]) : accepted'[l][i] = accepted[l][i]
        BY <4>1, <1>1, AppendFacts
      <4>4. \A i \in 1..Len(written'[l]) : written'[l][i] = accepted'[l][i]
        <5>1. \A i \in 1..Len(written[l]) : i \in 1..Len(accepted[l])
          BY <3>0, <3>1, <3>2 
        <5>2. \A i \in 1..Len(written[l]) : written[l][i] = accepted[l][i]
          BY DEF IInv, LaneFIFO
        <5> QED
          BY <5>1, <5>2, <4>3, <2>1
      <4>5. inflight'.class = l => inflight' = accepted'[l][Len(written'[l]) + 1]
        <5>1. n >= 1 => n \in 1..Len(accepted[l])
          BY <3>0, <3>2
        <5> SUFFICES ASSUME inflight.class = l
                     PROVE  inflight = accepted'[l][Len(written[l]) + 1]
          BY <2>1
        <5>2. n = Len(written[l]) + 1 /\ n >= 1
          BY <3>0, <3>1
        <5>3. inflight = accepted[l][n]
          BY <5>2 DEF IInv, LaneFIFO
        <5> QED
          BY <5>1, <5>2, <5>3, <4>3
      <4>6. \A i \in 1..Len(queue'[l]) : queue'[l][i] = accepted'[l][n + i]
        <5>1. \A i \in 1..Len(queue[l]) : queue[l][i] = accepted[l][n + i]
          <6>1. \A i \in 1..Len(queue[l]) : queue[l][i] = accepted[l][Popped(l) + i]
            BY DEF IInv, LaneFIFO
          <6> QED
            BY <6>1, <3>1
        <5>2. \A i \in 1..Len(Append(queue[l], m)) :
                 Append(queue[l], m)[i] = Append(accepted[l], m)[n + i]
          <6>1. queue[l] \in Seq(Message) /\ accepted[l] \in Seq(Message) /\ m \in Message
            BY <4>1, <1>1
          <6> QED
            BY <6>1, <5>1, <3>2, AppendBoth
        <5> QED
          BY <5>2, <4>1
      <4>7. n + Len(queue'[l]) = Len(accepted'[l])
        BY <4>2, <3>0, <3>2
      <4> QED
        <5>1. Popped(l)' + Len(queue'[l]) = Len(accepted'[l]) /\ Len(accepted'[l]) \in Int
          BY <4>2, <4>7, <3>0, <3>1
        <5>2. \A i \in 1..Len(queue'[l]) : queue'[l][i] = accepted'[l][Popped(l)' + i]
          BY <4>6, <3>1
        <5>3. Popped(l)' + Len(queue'[l]) <= Len(accepted'[l])
          BY <5>1
        <5> QED
          BY <5>1, <5>2, <5>3, <4>4, <4>5
    <3> QED
      BY <3>3, <3>4
  <2>6. NoLostWakeup'
    BY <2>2 DEF NoLostWakeup
  <2>7. InItsLane'
    BY <2>1, <1>1 DEF IInv, InItsLane, TypeOK
  <2> QED
    BY <2>1, <2>2, <2>3, <2>4, <2>5, <2>6, <2>7 DEF IInv, WriterHolds
<1> QED
  BY <1>3, <1>4

\* The writer's steps preserve the invariant: a message moves from the head
\* of a queue to the writer, and from there to the end of what was written.
LEMMA PopNextIInv == IInv /\ PopNext => IInv'
<1> USE SenderConstants
<1> SUFFICES ASSUME IInv, PopNext PROVE IInv'
  OBVIOUS
<1>0. "writer" \in Procs
  BY DEF Procs
<1>1. CASE queue[NextLane] = <<>>
  <2>1. pc' = [pc EXCEPT !["writer"] = "select"] /\ pc["writer"] = "pop"
        /\ UNCHANGED <<inflight, queue, bytes, closed, wake, shutdownVars, ctxDone, sends, accepted, written>>
    BY <1>1 DEF PopNext
  <2>2. \A l \in Lanes : queue[l] = <<>>
    BY <1>1 DEF NextLane, Lanes
  <2>3. TypeOK' /\ WriterHolds'
    BY <2>1, <1>0 DEF IInv, TypeOK, States, shutdownVars, WriterHolds
  <2> QED
    BY <2>1, <2>2, <2>3 DEF IInv, InItsLane, QueuesBounded, LaneFIFO, Popped, NoLostWakeup
<1>2. CASE queue[NextLane] # <<>>
  <2> DEFINE k == NextLane
             h == Head(queue[k])
  <2>1. /\ pc' = [pc EXCEPT !["writer"] = "write"] /\ pc["writer"] = "pop"
        /\ inflight' = h /\ queue' = [queue EXCEPT ![k] = Tail(@)]
        /\ bytes' = [bytes EXCEPT ![k] = @ - h.size]
        /\ UNCHANGED <<closed, wake, shutdownVars, ctxDone, sends, accepted, written>>
    BY <1>2 DEF PopNext
  <2>2. k \in Lanes /\ queue[k] \in Seq(Message) /\ queue[k] # <<>>
    BY <1>2 DEF NextLane, Lanes, IInv, TypeOK
  <2> HIDE DEF k
  <2>3. Len(queue[k]) \in Nat /\ Len(queue[k]) >= 1
    BY <2>2, TailFacts
  <2>14. h \in Message /\ h = queue[k][1]
    BY <2>2, TailFacts
  <2>4. h.class = k /\ h.size \in Nat
    <3>1. 1 \in 1..Len(queue[k])
      BY <2>3
    <3>2. queue[k][1].class = k
      BY <3>1, <2>2 DEF IInv, InItsLane
    <3> QED
      BY <3>2, <2>14 DEF Message
  <2> HIDE DEF h
  <2>5. TypeOK'
    BY <2>1, <2>2, <2>14, <2>4, <1>0 DEF IInv, TypeOK, States, shutdownVars
  <2>6. WriterHolds'
    BY <2>1, <2>14, <1>0 DEF IInv, TypeOK, WriterHolds
  <2>7. /\ \A l \in Lanes : l # k => queue'[l] = queue[l] /\ bytes'[l] = bytes[l]
        /\ queue'[k] = Tail(queue[k]) /\ bytes'[k] = bytes[k] - h.size
    BY <2>1, <2>2 DEF IInv, TypeOK
  <2>8. Len(queue'[k]) = Len(queue[k]) - 1
    BY <2>2, <2>7, TailFacts
  <2>13. \A i \in 1..Len(queue'[k]) : queue'[k][i] = queue[k][i + 1]
    BY <2>2, <2>7, TailFacts
  <2>9. QueuesBounded'
    <3> SUFFICES ASSUME NEW l \in Lanes
                 PROVE  Len(queue'[l]) <= QueueCap /\ bytes'[l] <= ByteLimit
      BY DEF QueuesBounded
    <3>1. Len(queue[l]) <= QueueCap /\ bytes[l] <= ByteLimit /\ bytes[l] \in Int
      BY DEF IInv, TypeOK, QueuesBounded
    <3>2. CASE l = k
      BY <3>1, <3>2, <2>3, <2>4, <2>7, <2>8
    <3>3. CASE l # k
      BY <3>1, <3>3, <2>7
    <3> QED
      BY <3>2, <3>3
  <2>10. InItsLane'
    <3> SUFFICES ASSUME NEW l \in Lanes, NEW i \in 1..Len(queue'[l])
                 PROVE  queue'[l][i].class = l
      BY DEF InItsLane
    <3>1. CASE l = k
      <4>1. queue'[k][i] = queue[k][i + 1]
        BY <3>1, <2>13
      <4>2. i + 1 \in 1..Len(queue[k])
        BY <3>1, <2>3, <2>8
      <4> QED
        BY <4>1, <4>2, <3>1 DEF IInv, InItsLane
    <3>2. CASE l # k
      BY <3>2, <2>7 DEF IInv, InItsLane
    <3> QED
      BY <3>1, <3>2
  <2>11. LaneFIFO'
    <3>1. inflight.class \notin Lanes
      BY <2>1, NoMsgClass DEF IInv, WriterHolds
    <3> SUFFICES ASSUME NEW l \in Lanes
                 PROVE  /\ \A i \in 1..Len(written'[l]) : written'[l][i] = accepted'[l][i]
                        /\ inflight'.class = l => inflight' = accepted'[l][Len(written'[l]) + 1]
                        /\ \A i \in 1..Len(queue'[l]) : queue'[l][i] = accepted'[l][Popped(l)' + i]
                        /\ Popped(l)' + Len(queue'[l]) <= Len(accepted'[l])
                        /\ ~closed' => Popped(l)' + Len(queue'[l]) = Len(accepted'[l])
      BY DEF LaneFIFO
    <3>4. Len(written[l]) \in Nat /\ Len(queue[l]) \in Nat /\ Len(accepted[l]) \in Nat
      BY DEF IInv, TypeOK
    <3>2. PICK n \in Nat : /\ n = Len(written[l]) /\ Popped(l) = n
                           /\ l = k => Popped(l)' = n + 1
                           /\ l # k => Popped(l)' = n
      <4>1. Popped(l) = Len(written[l])
        BY <3>1, <3>4 DEF Popped
      <4>2. Popped(l)' = IF h.class = l THEN Len(written[l]) + 1 ELSE Len(written[l])
        BY <2>1 DEF Popped
      <4> QED
        BY <4>1, <4>2, <3>4, <2>4
    <3>3. /\ n + Len(queue[l]) <= Len(accepted[l])
          /\ ~closed => n + Len(queue[l]) = Len(accepted[l])
      <4>1. /\ Popped(l) + Len(queue[l]) <= Len(accepted[l])
            /\ ~closed => Popped(l) + Len(queue[l]) = Len(accepted[l])
        BY DEF IInv, LaneFIFO
      <4> QED
        BY <4>1, <3>2, <3>4
    <3>7. \A i \in 1..Len(queue[l]) : queue[l][i] = accepted[l][n + i]
      <4>1. \A i \in 1..Len(queue[l]) : queue[l][i] = accepted[l][Popped(l) + i]
        BY DEF IInv, LaneFIFO
      <4> QED
        BY <4>1, <3>2
    <3>5. CASE l # k
      BY <3>1, <3>2, <3>5, <2>1, <2>4, <2>7 DEF IInv, LaneFIFO
    <3>6. CASE l = k
      <4>1. h = accepted[k][n + 1]
        <5>1. 1 \in 1..Len(queue[k])
          BY <2>3
        <5> QED
          BY <5>1, <3>7, <3>6, <2>14
      <4>2. \A i \in 1..Len(queue'[k]) : queue'[k][i] = accepted[k][(n + 1) + i]
        <5> SUFFICES ASSUME NEW i \in 1..Len(queue'[k])
                     PROVE  queue'[k][i] = accepted[k][(n + 1) + i]
          OBVIOUS
        <5>1. i + 1 \in 1..Len(queue[k])
          BY <2>3, <2>8
        <5>2. queue'[k][i] = accepted[k][n + (i + 1)]
          BY <5>1, <3>7, <3>6, <2>13
        <5>3. n + (i + 1) = (n + 1) + i
          BY <2>3, <2>8
        <5> QED
          BY <5>2, <5>3
      <4>3. \A i \in 1..Len(written'[k]) : written'[k][i] = accepted'[k][i]
        BY <2>1, <2>2 DEF IInv, LaneFIFO
      <4>4. (n + 1) + Len(queue'[k]) = n + Len(queue[k])
        <5>1. \A a, b \in Nat : (a + 1) + (b - 1) = a + b
          OBVIOUS
        <5> QED
          BY <5>1, <2>3, <2>8
      <4>5. Popped(l)' = n + 1 /\ Len(written'[l]) = n /\ accepted'[l] = accepted[l]
        <5>1. written' = written /\ accepted' = accepted
          BY <2>1
        <5> QED
          BY <5>1, <3>2, <3>6
      <4>6. /\ Popped(l)' + Len(queue'[l]) <= Len(accepted'[l])
            /\ ~closed' => Popped(l)' + Len(queue'[l]) = Len(accepted'[l])
        BY <4>4, <4>5, <3>3, <3>6, <2>1
      <4>7. \A i \in 1..Len(queue'[l]) : queue'[l][i] = accepted'[l][Popped(l)' + i]
        BY <4>2, <4>5, <3>6
      <4>8. inflight'.class = l => inflight' = accepted'[l][Len(written'[l]) + 1]
        BY <4>1, <4>5, <3>6, <2>1
      <4> QED
        BY <4>3, <4>6, <4>7, <4>8, <3>6
    <3> QED
      BY <3>5, <3>6
  <2>12. NoLostWakeup'
    BY <2>1, <1>0 DEF IInv, TypeOK, NoLostWakeup
  <2> QED
    BY <2>5, <2>6, <2>9, <2>10, <2>11, <2>12 DEF IInv
<1> QED
  BY <1>1, <1>2

\* A successful write appends the writer's message to its lane's history.
LEMMA WriteOkIInv == IInv /\ WriteOk => IInv'
<1> USE SenderConstants
<1> SUFFICES ASSUME IInv, WriteOk PROVE IInv'
  OBVIOUS
<1> DEFINE k == inflight.class
<1>1. /\ pc["writer"] = "write" /\ pc' = [pc EXCEPT !["writer"] = "pop"]
      /\ written' = [written EXCEPT ![k] = Append(@, inflight)]
      /\ inflight' = NoMsg
      /\ UNCHANGED <<closed, queue, bytes, accepted, wake, shut, done, connOpen, ctxDone, sends>>
  BY DEF WriteOk, laneVars, shutdownVars
<1>2. inflight \in Message /\ k \in Lanes /\ "writer" \in Procs
  BY <1>1 DEF IInv, WriterHolds, Message, Procs
<1>3. /\ written'[k] = Append(written[k], inflight) /\ written[k] \in Seq(Message)
      /\ \A l \in Lanes : l # k => written'[l] = written[l]
  BY <1>1, <1>2 DEF IInv, TypeOK
<1>4. TypeOK'
  <2>1. Append(written[k], inflight) \in Seq(Message)
    BY <1>2, <1>3
  <2>2. written' \in [Lanes -> Seq(Message)]
    BY <2>1, <1>1, <1>2 DEF IInv, TypeOK
  <2> QED
    BY <2>2, <1>1, <1>2 DEF IInv, TypeOK, States
<1>5. WriterHolds'
  BY <1>1, <1>2 DEF IInv, TypeOK, WriterHolds
<1>6. LaneFIFO'
  <2> SUFFICES ASSUME NEW l \in Lanes
               PROVE  /\ \A i \in 1..Len(written'[l]) : written'[l][i] = accepted'[l][i]
                      /\ inflight'.class = l => inflight' = accepted'[l][Len(written'[l]) + 1]
                      /\ \A i \in 1..Len(queue'[l]) : queue'[l][i] = accepted'[l][Popped(l)' + i]
                      /\ Popped(l)' + Len(queue'[l]) <= Len(accepted'[l])
                      /\ ~closed' => Popped(l)' + Len(queue'[l]) = Len(accepted'[l])
    BY DEF LaneFIFO
  <2>1. inflight'.class # l
    BY <1>1, NoMsgClass
  <2>2. Len(written[l]) \in Nat
    BY DEF IInv, TypeOK
  <2>3. l = k => Len(written'[l]) = Len(written[l]) + 1
    BY <1>2, <1>3, AppendFacts
  <2>4. Popped(l)' = Popped(l)
    <3>1. Popped(l)' = Len(written'[l])
      BY <2>1 DEF Popped
    <3> QED
      BY <3>1, <2>3, <1>3 DEF Popped
  <2>5. \A i \in 1..Len(written'[l]) : written'[l][i] = accepted'[l][i]
    <3> SUFFICES ASSUME NEW i \in 1..Len(written'[l])
                 PROVE  written'[l][i] = accepted[l][i]
      BY <1>1
    <3>1. CASE l # k
      BY <3>1, <1>3 DEF IInv, LaneFIFO
    <3>2. CASE l = k /\ i \in 1..Len(written[l])
      <4>1. written'[l][i] = written[l][i]
        BY <3>2, <1>2, <1>3, AppendFacts
      <4> QED
        BY <4>1, <3>2 DEF IInv, LaneFIFO
    <3>3. CASE l = k /\ i = Len(written[l]) + 1
      <4>1. written'[l][i] = inflight
        BY <3>3, <1>2, <1>3, AppendFacts
      <4> QED
        BY <4>1, <3>3 DEF IInv, LaneFIFO
    <3>4. l = k => i \in 1..Len(written[l]) \/ i = Len(written[l]) + 1
      BY <2>2, <2>3
    <3> QED
      BY <3>1, <3>2, <3>3, <3>4
  <2> QED
    BY <2>1, <2>4, <2>5, <1>1 DEF IInv, LaneFIFO
<1>7. InItsLane' /\ QueuesBounded'
  BY <1>1 DEF IInv, InItsLane, QueuesBounded
<1>8. NoLostWakeup'
  BY <1>1, <1>2 DEF IInv, TypeOK, NoLostWakeup
<1> QED
  BY <1>4, <1>5, <1>6, <1>7, <1>8 DEF IInv

\* Steps that leave the lanes, the message in flight and the histories alone,
\* and do not put the writer to sleep, preserve the invariant.
LEMMA QuietIInv ==
  ASSUME IInv, TypeOK',
         UNCHANGED <<queue, bytes, accepted, inflight, written>>,
         closed => closed',
         pc'["writer"] # pc["writer"] => pc'["writer"] \in {"shutdown", "closing", "exited"}
                                         \/ pc["writer"] = "select",
         pc["writer"] = "select" => pc'["writer"] # "write",
         NoLostWakeup'
  PROVE  IInv'
<1>1. WriterHolds'
  BY DEF IInv, WriterHolds
<1>2. LaneFIFO'
  BY DEF IInv, LaneFIFO, Popped
<1>3. InItsLane' /\ QueuesBounded'
  BY DEF IInv, InItsLane, QueuesBounded
<1> QED
  BY <1>1, <1>2, <1>3 DEF IInv

\* The first step of shutdown empties the queues: what remains of LaneFIFO is
\* that the written messages are a prefix of the accepted ones.
LEMMA ShutdownLockedIInv ==
  ASSUME IInv, NEW p \in Procs, ShutdownLocked(p)
  PROVE  IInv'
<1> USE SenderConstants
<1>1. /\ pc[p] = "shutdown" /\ pc' = [pc EXCEPT ![p] = "closing"]
      /\ closed' = TRUE /\ shut' = 1
      /\ queue' = [l \in Lanes |-> <<>>] /\ bytes' = [l \in Lanes |-> 0]
      /\ UNCHANGED <<wake, done, connOpen, ctxDone, inflight, sends, accepted, written>>
  BY DEF ShutdownLocked
<1>2. \A l \in Lanes : queue'[l] = <<>> /\ bytes'[l] = 0
  BY <1>1
<1>3. TypeOK'
  <2>1. <<>> \in Seq(Message) /\ 0 \in Int
    OBVIOUS
  <2>2. queue' \in [Lanes -> Seq(Message)] /\ bytes' \in [Lanes -> Int]
    BY <2>1, <1>1
  <2>3. pc' \in [Procs -> States]
    BY <1>1 DEF IInv, TypeOK, States
  <2>4. shut' \in 0..3
    BY <1>1
  <2> QED
    BY <2>2, <2>3, <2>4, <1>1 DEF IInv, TypeOK
<1>4. WriterHolds'
  BY <1>1 DEF IInv, TypeOK, WriterHolds, Procs
<1>5. LaneFIFO'
  <2> SUFFICES ASSUME NEW l \in Lanes
               PROVE  /\ \A i \in 1..Len(written'[l]) : written'[l][i] = accepted'[l][i]
                      /\ inflight'.class = l => inflight' = accepted'[l][Len(written'[l]) + 1]
                      /\ \A i \in 1..Len(queue'[l]) : queue'[l][i] = accepted'[l][Popped(l)' + i]
                      /\ Popped(l)' + Len(queue'[l]) <= Len(accepted'[l])
                      /\ ~closed' => Popped(l)' + Len(queue'[l]) = Len(accepted'[l])
    BY DEF LaneFIFO
  <2>1. /\ Len(written[l]) \in Nat /\ Len(queue[l]) \in Nat /\ Len(accepted[l]) \in Nat
    BY DEF IInv, TypeOK
  <2>2. Popped(l) \in Nat /\ Popped(l)' = Popped(l)
    BY <2>1, <1>1 DEF Popped
  <2>3. Popped(l) + Len(queue[l]) <= Len(accepted[l])
    BY DEF IInv, LaneFIFO
  <2>4. Len(queue'[l]) = 0
    BY <1>2
  <2>5. Popped(l)' + Len(queue'[l]) <= Len(accepted'[l])
    BY <2>1, <2>2, <2>3, <2>4, <1>1
  <2>6. \A i \in 1..Len(queue'[l]) : queue'[l][i] = accepted'[l][Popped(l)' + i]
    BY <2>4
  <2> QED
    BY <2>5, <2>6, <1>1 DEF IInv, LaneFIFO
<1>6. InItsLane'
  BY <1>2 DEF InItsLane
<1>7. QueuesBounded'
  BY <1>2 DEF QueuesBounded
<1>8. NoLostWakeup'
  BY <1>2 DEF NoLostWakeup
<1> QED
  BY <1>3, <1>4, <1>5, <1>6, <1>7, <1>8 DEF IInv

\* Every step of the sender preserves the invariant.
LEMMA NextIInv == IInv /\ [Next]_vars => IInv'
<1> USE SenderConstants
<1> SUFFICES ASSUME IInv, [Next]_vars PROVE IInv'
  OBVIOUS
<1>0. "writer" \in Procs /\ "closer" \in Procs /\ (\A c \in Callers : c \in Procs /\ c # "writer" /\ c # "closer")
  BY DEF Procs
<1>1. ASSUME NEW c \in Callers, NEW l \in Lanes, NEW n \in Sizes, Send(c, l, n)
      PROVE  IInv'
  BY <1>1, SendIInv
<1>2. ASSUME NEW c \in Callers, Wake(c)
      PROVE  IInv'
  <2>1. TypeOK' /\ pc'["writer"] = pc["writer"]
    BY <1>0, <1>2 DEF Wake, IInv, TypeOK, States, laneVars, shutdownVars
  <2>2. NoLostWakeup'
    BY <1>2 DEF Wake, NoLostWakeup
  <2> QED
    BY <2>1, <2>2, <1>2, QuietIInv DEF Wake, laneVars
<1>3. CASE PopNext
  BY <1>3, PopNextIInv
<1>4. CASE WriteOk
  BY <1>4, WriteOkIInv
<1>5. CASE WriteFail
  <2>1. TypeOK' /\ pc'["writer"] = "shutdown" /\ pc["writer"] = "write"
    BY <1>0, <1>5 DEF WriteFail, IInv, TypeOK, States, laneVars, shutdownVars
  <2>2. NoLostWakeup'
    BY <2>1 DEF NoLostWakeup
  <2> QED
    BY <2>1, <2>2, <1>5, QuietIInv DEF WriteFail, laneVars
<1>6. CASE Select
  <2>1. TypeOK' /\ pc["writer"] = "select" /\ pc'["writer"] \in {"pop", "exited", "shutdown"}
    BY <1>0, <1>6 DEF Select, IInv, TypeOK, States, laneVars, shutdownVars
  <2>2. NoLostWakeup'
    BY <2>1 DEF NoLostWakeup
  <2> QED
    BY <2>1, <2>2, <1>6, QuietIInv DEF Select, laneVars
<1>7. ASSUME NEW p \in Procs, Shutdown(p)
      PROVE  IInv'
  <2>1. CASE ShutdownLocked(p)
    BY <2>1, ShutdownLockedIInv
  <2>2. CASE CloseDone(p)
    <3>1. TypeOK' /\ pc' = pc
      BY <2>2 DEF CloseDone, IInv, TypeOK, laneVars
    <3>2. NoLostWakeup'
      BY <2>2 DEF CloseDone, IInv, NoLostWakeup, laneVars
    <3> QED
      BY <3>1, <3>2, <2>2, QuietIInv DEF CloseDone, laneVars
  <2>3. CASE CloseConn(p)
    <3>1. TypeOK' /\ pc[p] = "closing" /\ pc' = [pc EXCEPT ![p] = "shutdown"]
      <4>1. shut' \in 0..3
        BY <2>3 DEF CloseConn
      <4>2. pc' \in [Procs -> States]
        BY <2>3 DEF CloseConn, IInv, TypeOK, States
      <4> QED
        <5>1. pc'["writer"] = "write" => pc["writer"] = "write"
          BY <2>3, <1>0 DEF CloseConn, IInv, TypeOK
        <5> QED
          BY <5>1, <4>1, <4>2, <2>3 DEF CloseConn, IInv, TypeOK, laneVars
    <3>2. /\ pc'["writer"] # pc["writer"] => pc'["writer"] = "shutdown"
          /\ pc["writer"] = "select" => pc'["writer"] = "select"
          /\ \A c \in Callers : pc[c] = "wake" => pc'[c] = "wake"
      BY <3>1, <1>0 DEF IInv, TypeOK
    <3>3. NoLostWakeup'
      BY <3>2, <2>3 DEF CloseConn, IInv, NoLostWakeup, laneVars
    <3> QED
      BY <3>1, <3>2, <3>3, <2>3, QuietIInv DEF CloseConn, laneVars
  <2>4. CASE ShutdownReturn(p)
    <3>1. /\ pc[p] = "shutdown"
          /\ pc' = [pc EXCEPT ![p] = IF p = "writer" THEN "exited" ELSE "idle"]
      BY <2>4 DEF ShutdownReturn
    <3>2. TypeOK'
      <4>1. pc' \in [Procs -> States]
        BY <3>1 DEF IInv, TypeOK, States
      <4> QED
        BY <4>1, <2>4 DEF ShutdownReturn, IInv, TypeOK, laneVars, shutdownVars
    <3>3. /\ pc'["writer"] # pc["writer"] => pc'["writer"] = "exited"
          /\ pc["writer"] = "select" => pc'["writer"] = "select"
          /\ \A c \in Callers : pc[c] = "wake" => pc'[c] = "wake"
      <4>1. \A q \in Procs : q # p => pc'[q] = pc[q]
        BY <3>1 DEF IInv, TypeOK
      <4>2. p = "writer" => pc'["writer"] = "exited"
        BY <3>1, <1>0 DEF IInv, TypeOK
      <4> QED
        BY <4>1, <4>2, <3>1, <1>0
    <3>4. NoLostWakeup'
      BY <3>3, <2>4 DEF ShutdownReturn, IInv, NoLostWakeup, laneVars
    <3> QED
      BY <3>2, <3>3, <3>4, <2>4, QuietIInv DEF ShutdownReturn, laneVars
  <2> QED
    BY <1>7, <2>1, <2>2, <2>3, <2>4 DEF Shutdown
<1>8. CASE OperatorCloses
  <2>1. TypeOK' /\ pc'["writer"] = pc["writer"] /\ \A c \in Callers : pc'[c] = pc[c]
    BY <1>0, <1>8 DEF OperatorCloses, IInv, TypeOK, States, laneVars, shutdownVars
  <2>2. NoLostWakeup'
    BY <2>1, <1>8 DEF OperatorCloses, IInv, NoLostWakeup, laneVars
  <2> QED
    BY <2>1, <2>2, <1>8, QuietIInv DEF OperatorCloses, laneVars
<1>9. CASE ConnLost
  <2>1. TypeOK' /\ pc' = pc
    BY <1>9 DEF ConnLost, IInv, TypeOK, laneVars
  <2>2. NoLostWakeup'
    BY <1>9 DEF ConnLost, IInv, NoLostWakeup, laneVars
  <2> QED
    BY <2>1, <2>2, <1>9, QuietIInv DEF ConnLost, laneVars
<1>10. CASE CancelContext
  <2>1. TypeOK' /\ pc' = pc
    BY <1>10 DEF CancelContext, IInv, TypeOK, laneVars, shutdownVars
  <2>2. NoLostWakeup'
    BY <1>10 DEF CancelContext, IInv, NoLostWakeup, laneVars
  <2> QED
    BY <2>1, <2>2, <1>10, QuietIInv DEF CancelContext, laneVars
<1>11. CASE UNCHANGED vars
  <2>1. TypeOK' /\ pc' = pc
    BY <1>11 DEF vars, IInv, TypeOK
  <2>2. NoLostWakeup'
    BY <1>11 DEF vars, IInv, NoLostWakeup
  <2> QED
    BY <2>1, <2>2, <1>11, QuietIInv DEF vars
<1> QED
  BY <1>1, <1>2, <1>3, <1>4, <1>5, <1>6, <1>7, <1>8, <1>9, <1>10, <1>11
     DEF Next, WriteLoop, HandlerEnds

\* The invariant holds in every reachable state of the sender.
THEOREM SenderInvariant == Spec => []IInv
BY InitIInv, NextIInv, PTL DEF Spec

\* Types are preserved by every interleaving of Send, writeLoop and shutdown.
THEOREM SenderTypes == Spec => []TypeOK
<1>1. IInv => TypeOK
  BY DEF IInv
<1> QED
  BY <1>1, SenderInvariant, PTL

\* A peer that stops reading never makes the relay retain more than the two
\* limits per lane, for any number of goroutines that send to it.
THEOREM SenderQueuesBounded == Spec => []QueuesBounded
<1>1. IInv => QueuesBounded
  BY DEF IInv
<1> QED
  BY <1>1, SenderInvariant, PTL

\* Within a lane the socket receives the accepted messages in order, without
\* gaps or repetitions, for any number of senders and any limits.
THEOREM SenderLaneFIFO == Spec => []LaneFIFO
<1>1. IInv => LaneFIFO
  BY DEF IInv
<1> QED
  BY <1>1, SenderInvariant, PTL

\* The coalesced wake channel never loses the notification that a lane holds
\* a message.
THEOREM SenderNoLostWakeup == Spec => []NoLostWakeup
<1>1. IInv => NoLostWakeup
  BY DEF IInv
<1> QED
  BY <1>1, SenderInvariant, PTL
-----------------------------------------------------------------------------
(* The byte counters.  Retained is defined by recursion on the position in *)
(* a queue; what it computes is proved with the least position at which it *)
(* could be otherwise.                                                     *)

\* A nonempty set of naturals has a least element.
LEMMA LeastNat ==
  ASSUME NEW T, T \subseteq Nat, T # {}
  PROVE  \E x \in T : \A y \in T : x <= y
<1> DEFINE R == OpToRel(<, Nat)
<1>1. IsWellFoundedOn(R, Nat)
  BY NatLessThanWellFounded
<1>2. \A y, x \in Nat : y < x => <<y, x>> \in R
  BY DEF OpToRel
<1> HIDE DEF R
<1>3. PICK x \in T : \A y \in T : ~ (<<y, x>> \in R)
  BY <1>1, WFMin
<1>4. \A y \in T : ~ (y < x)
  BY <1>2, <1>3
<1> QED
  BY <1>4

\* f holds the sums of the sizes of the first n messages of q, for n up to k.
Sums(q, k, f) ==
  /\ f \in [0..k -> Nat]
  /\ f[0] = 0
  /\ \A i \in 1..k : f[i] = f[i - 1] + q[i].size

\* The messages of a queue have sizes.
LEMMA SizesAreNat ==
  ASSUME NEW q \in Seq(Message)
  PROVE  Len(q) \in Nat /\ \A i \in 1..Len(q) : q[i].size \in Nat
<1>1. \A m \in Message : m.size \in Nat
  BY SenderConstants DEF Message
<1>2. Len(q) \in Nat /\ \A i \in 1..Len(q) : q[i] \in Message
  OBVIOUS
<1> QED
  BY <1>1, <1>2

\* Every queue has its partial sums.
LEMMA SumsExist ==
  ASSUME NEW q \in Seq(Message)
  PROVE  \E f : Sums(q, Len(q), f)
<1> DEFINE T == {n \in 0..Len(q) : ~ \E f : Sums(q, n, f)}
<1>0. Len(q) \in Nat /\ \A i \in 1..Len(q) : q[i].size \in Nat
  BY SizesAreNat
<1> SUFFICES ASSUME T # {} PROVE FALSE
  BY <1>0
<1>1. PICK n \in T : \A y \in T : n <= y
  <2>1. T \subseteq Nat
    BY <1>0
  <2> HIDE DEF T
  <2> QED
    BY <2>1, LeastNat
<1>2. n # 0
  <2>1. Sums(q, 0, [i \in 0..0 |-> 0])
    BY DEF Sums
  <2> QED
    BY <2>1
<1>3. PICK f : Sums(q, n - 1, f)
  <2>1. n - 1 \in 0..Len(q) /\ ~(n <= n - 1)
    BY <1>2, <1>0
  <2>2. n - 1 \notin T
    BY <2>1, <1>1
  <2> QED
    BY <2>1, <2>2
<1>4. Sums(q, n, [i \in 0..n |-> IF i = n THEN f[n - 1] + q[n].size ELSE f[i]])
  BY <1>0, <1>2, <1>3 DEF Sums
<1> QED
  BY <1>4

\* The recursion computes them: the bytes of a queue are its last partial sum.
LEMMA RetainedIsSum ==
  ASSUME NEW q \in Seq(Message), NEW f, Sums(q, Len(q), f)
  PROVE  Retained(q) = f[Len(q)]
<1> DEFINE P(s) == s = [i \in 0..Len(q) |-> IF i = 0 THEN 0 ELSE s[i - 1] + q[i].size]
           upTo == CHOOSE s : P(s)
           T == {i \in 0..Len(q) : upTo[i] # f[i]}
<1>0. Len(q) \in Nat /\ \A i \in 1..Len(q) : q[i].size \in Nat
  BY SizesAreNat
<1>1. P(f)
  BY <1>0 DEF Sums
<1>2. P(upTo)
  BY <1>1
<1>3. Retained(q) = upTo[Len(q)]
  BY DEF Retained
<1> HIDE DEF upTo
<1>4. upTo[0] = 0 /\ \A i \in 1..Len(q) : upTo[i] = upTo[i - 1] + q[i].size
  BY <1>0, <1>2
<1> SUFFICES ASSUME T # {} PROVE FALSE
  BY <1>0, <1>3
<1>5. PICK n \in T : \A y \in T : n <= y
  <2>1. T \subseteq Nat
    BY <1>0
  <2> HIDE DEF T
  <2> QED
    BY <2>1, LeastNat
<1>6. n # 0
  BY <1>4 DEF Sums
<1>7. n \in 1..Len(q) /\ n - 1 \in 0..Len(q) /\ n - 1 \notin T
  BY <1>0, <1>5, <1>6
<1> QED
  BY <1>0, <1>4, <1>7 DEF Sums

\* An empty queue retains nothing.
LEMMA RetainedEmpty == Retained(<<>>) = 0
<1>1. Sums(<<>>, 0, [i \in 0..0 |-> 0]) /\ <<>> \in Seq(Message) /\ Len(<<>>) = 0
  BY DEF Sums
<1> QED
  BY <1>1, RetainedIsSum

\* Appending a message adds its size.
LEMMA RetainedAppend ==
  ASSUME NEW q \in Seq(Message), NEW m \in Message
  PROVE  Retained(Append(q, m)) = Retained(q) + m.size
<1> DEFINE n == Len(q)
           a == Append(q, m)
<1>0. n \in Nat /\ (\A i \in 1..n : q[i].size \in Nat) /\ m.size \in Nat
  BY SizesAreNat, SenderConstants DEF Message
<1>1. a \in Seq(Message) /\ Len(a) = n + 1 /\ a[n + 1] = m /\ \A i \in 1..n : a[i] = q[i]
  BY AppendFacts
<1>2. PICK f : Sums(q, n, f)
  BY SumsExist
<1> DEFINE g == [i \in 0..(n + 1) |-> IF i = n + 1 THEN f[n] + m.size ELSE f[i]]
<1>3. Retained(q) = f[n]
  BY <1>2, RetainedIsSum
<1> HIDE DEF n, a
<1>4. Sums(a, n + 1, g)
  <2>1. g \in [0..(n + 1) -> Nat] /\ g[0] = 0
    BY <1>0, <1>2 DEF Sums
  <2>2. \A i \in 1..n : g[i] = g[i - 1] + a[i].size
    BY <1>0, <1>1, <1>2 DEF Sums
  <2>3. g[n + 1] = g[n] + a[n + 1].size
    BY <1>0, <1>1
  <2> QED
    <3>1. \A i \in 1..(n + 1) : i \in 1..n \/ i = n + 1
      BY <1>0
    <3>2. \A i \in 1..(n + 1) : g[i] = g[i - 1] + a[i].size
      <4> SUFFICES ASSUME NEW i \in 1..(n + 1)
                   PROVE  g[i] = g[i - 1] + a[i].size
        OBVIOUS
      <4>1. (n + 1) - 1 = n
        BY <1>0
      <4> HIDE DEF g
      <4>2. CASE i \in 1..n
        BY <4>2, <2>2
      <4>3. CASE i = n + 1
        BY <4>1, <4>3, <2>3
      <4> QED
        BY <3>1, <4>2, <4>3
    <3> HIDE DEF g
    <3> QED
      BY <2>1, <3>2 DEF Sums
<1>5. g[n + 1] = f[n] + m.size
  BY <1>0
<1> HIDE DEF g
<1> QED
  BY <1>1, <1>3, <1>4, <1>5, RetainedIsSum DEF a

\* Removing the head subtracts its size.
LEMMA RetainedTail ==
  ASSUME NEW q \in Seq(Message), q # <<>>
  PROVE  Retained(Tail(q)) = Retained(q) - Head(q).size
<1> DEFINE n == Len(q)
           b == Tail(q)
           h == Head(q).size
<1>0. n \in Nat /\ n >= 1 /\ h \in Nat /\ (\A i \in 1..n : q[i].size \in Nat)
  <2>1. n \in Nat /\ n >= 1 /\ Head(q) = q[1]
    BY TailFacts
  <2>2. \A i \in 1..n : q[i].size \in Nat
    BY SizesAreNat
  <2> QED
    BY <2>1, <2>2
<1>1. b \in Seq(Message) /\ Len(b) = n - 1 /\ h = q[1].size /\ \A i \in 1..(n - 1) : b[i] = q[i + 1]
  BY TailFacts
<1>2. PICK f : Sums(q, n, f)
  BY SumsExist
<1>3. Retained(q) = f[n]
  BY <1>2, RetainedIsSum
<1>4. PICK e : Sums(b, n - 1, e)
  BY <1>1, SumsExist
<1>5. Retained(b) = e[n - 1]
  BY <1>1, <1>4, RetainedIsSum
<1> DEFINE T == {i \in 0..(n - 1) : e[i] # f[i + 1] - h}
<1> HIDE DEF n, b, h
<1>6. T = {}
  <2> SUFFICES ASSUME T # {} PROVE FALSE
    OBVIOUS
  <2>1. PICK k \in T : \A y \in T : k <= y
    <3>1. T \subseteq Nat
      BY <1>0
    <3> HIDE DEF T
    <3> QED
      BY <3>1, LeastNat
  <2>2. f[1] = h /\ h \in Nat
    BY <1>0, <1>1, <1>2 DEF Sums
  <2>3. k # 0
    BY <2>2, <1>0, <1>4 DEF Sums
  <2>4. k \in 1..(n - 1) /\ k - 1 \in 0..(n - 1) /\ k - 1 \notin T
    BY <2>1, <2>3, <1>0
  <2>5. e[k] = e[k - 1] + q[k + 1].size /\ f[k + 1] = f[k] + q[k + 1].size
    <3>1. e[k] = e[k - 1] + b[k].size
      BY <2>4, <1>4 DEF Sums
    <3>2. k + 1 \in 1..n /\ (k + 1) - 1 = k /\ b[k] = q[k + 1]
      BY <2>4, <1>0, <1>1
    <3>3. f[k + 1] = f[(k + 1) - 1] + q[k + 1].size
      BY <3>2, <1>2 DEF Sums
    <3> QED
      BY <3>1, <3>2, <3>3
  <2>6. e[k - 1] = f[k] - h
    BY <2>4
  <2>7. f[k] \in Nat /\ q[k + 1].size \in Nat
    BY <2>4, <1>0, <1>2 DEF Sums
  <2> QED
    BY <2>5, <2>6, <2>7, <1>0
<1>7. e[n - 1] = f[n] - h
  BY <1>0, <1>6
<1> QED
  BY <1>3, <1>5, <1>7 DEF b, h

\* Every step keeps the counters exact: Send adds what it appends, popNext
\* subtracts what it removes, shutdown empties both.
LEMMA BytesStep == IInv /\ BytesExact /\ [Next]_vars => BytesExact'
<1> USE SenderConstants
<1> SUFFICES ASSUME IInv, BytesExact, [Next]_vars PROVE BytesExact'
  OBVIOUS
<1>1. queue \in [Lanes -> Seq(Message)] /\ bytes \in [Lanes -> Int] /\ sends \in Nat
  BY DEF IInv, TypeOK
<1>2. ASSUME UNCHANGED <<queue, bytes>>
      PROVE  BytesExact'
  BY <1>2 DEF BytesExact
<1>3. ASSUME NEW c \in Callers, NEW class \in Lanes, NEW size \in Sizes, Send(c, class, size)
      PROVE  BytesExact'
  <2> DEFINE m == [id |-> sends + 1, class |-> class, size |-> size]
  <2>1. m \in Message /\ m.size = size /\ m.class = class
    BY <1>1 DEF Message
  <2>2. CASE closed \/ Overflow(m)
    BY <1>2, <1>3, <2>2 DEF Send, laneVars
  <2>3. CASE ~closed /\ ~Overflow(m)
    <3>1. /\ queue' = [queue EXCEPT ![class] = Append(@, m)]
          /\ bytes' = [bytes EXCEPT ![class] = @ + size]
      BY <1>3, <2>1, <2>3 DEF Send, Enqueue
    <3> HIDE DEF m
    <3> SUFFICES ASSUME NEW l \in Lanes PROVE bytes'[l] = Retained(queue'[l])
      BY DEF BytesExact
    <3>2. CASE l # class
      BY <3>1, <3>2, <1>1 DEF BytesExact
    <3>3. CASE l = class
      <4>1. queue'[l] = Append(queue[l], m) /\ bytes'[l] = bytes[l] + m.size
        BY <3>1, <3>3, <1>1, <2>1
      <4>2. Retained(Append(queue[l], m)) = Retained(queue[l]) + m.size
        BY <1>1, <2>1, RetainedAppend
      <4> QED
        BY <4>1, <4>2 DEF BytesExact
    <3> QED
      BY <3>2, <3>3
  <2> QED
    BY <2>2, <2>3
<1>4. CASE PopNext
  <2>1. CASE queue[NextLane] = <<>>
    BY <1>2, <1>4, <2>1 DEF PopNext
  <2>2. CASE queue[NextLane] # <<>>
    <3> DEFINE k == NextLane
    <3>1. /\ queue' = [queue EXCEPT ![k] = Tail(@)]
          /\ bytes' = [bytes EXCEPT ![k] = @ - Head(queue[k]).size]
      BY <1>4, <2>2 DEF PopNext
    <3>2. k \in Lanes /\ queue[k] # <<>>
      BY <2>2 DEF NextLane, Lanes
    <3> HIDE DEF k
    <3> SUFFICES ASSUME NEW l \in Lanes PROVE bytes'[l] = Retained(queue'[l])
      BY DEF BytesExact
    <3>3. CASE l # k
      BY <3>1, <3>3, <1>1 DEF BytesExact
    <3>4. CASE l = k
      <4>1. queue'[l] = Tail(queue[l]) /\ bytes'[l] = bytes[l] - Head(queue[l]).size
        BY <3>1, <3>4, <1>1
      <4>2. Retained(Tail(queue[l])) = Retained(queue[l]) - Head(queue[l]).size
        BY <3>2, <3>4, <1>1, RetainedTail
      <4> QED
        BY <4>1, <4>2 DEF BytesExact
    <3> QED
      BY <3>3, <3>4
  <2> QED
    BY <2>1, <2>2
<1>5. CASE WriteOk \/ WriteFail \/ Select \/ OperatorCloses \/ ConnLost \/ CancelContext
  BY <1>2, <1>5 DEF WriteOk, WriteFail, Select, OperatorCloses, ConnLost, CancelContext, laneVars
<1>6. ASSUME NEW p \in Procs, Shutdown(p)
      PROVE  BytesExact'
  <2>1. CASE ShutdownLocked(p)
    BY <2>1, RetainedEmpty DEF ShutdownLocked, BytesExact
  <2>2. CASE CloseDone(p) \/ CloseConn(p) \/ ShutdownReturn(p)
    BY <1>2, <2>2 DEF CloseDone, CloseConn, ShutdownReturn, laneVars
  <2> QED
    BY <1>6, <2>1, <2>2 DEF Shutdown
<1>7. ASSUME NEW c \in Callers, Wake(c)
      PROVE  BytesExact'
  BY <1>2, <1>7 DEF Wake, laneVars
<1>8. CASE UNCHANGED vars
  BY <1>2, <1>8 DEF vars
<1> QED
  BY <1>3, <1>4, <1>5, <1>6, <1>7, <1>8 DEF Next, WriteLoop, HandlerEnds

\* The byte counters never drift from what the lanes retain, for queues of any
\* length: the limit that evicts a peer is a limit on what is really held.
THEOREM SenderBytesExact == Spec => []BytesExact
<1>1. Init => BytesExact
  BY RetainedEmpty DEF Init, BytesExact
<1> QED
  BY <1>1, BytesStep, SenderInvariant, PTL DEF Spec
=============================================================================
