------------------------- MODULE HostPresenceProofs -------------------------
(***************************************************************************)
(* Theorems about HostPresence for every number of hosts and participants. *)
(***************************************************************************)
EXTENDS HostPresence, TLAPS

\* A superseded daemon that has spent its late frame is not current and has
\* no other frame past the check.
LateSpent ==
  \A h \in Hosts : late[h] <= 1 /\ (late[h] = 1 => pc[h] # "route" /\ host # h)

\* A push is owed to p: a handler changed the host and has not yet read the
\* presence on p's behalf.
Owed(p) == \E h \in Hosts : pc[h] = "notify" \/ (pc[h] = "read" /\ p \in recips[h])

PushOwed == \A p \in members : seen[p] = Up \/ Owed(p)

\* The inductive invariant.
PInv == TypeOK /\ NewestHostStands /\ LateSpent /\ PushOwed

\* The initial state.
LEMMA InitPInv == Init => PInv
BY PresenceConstants DEF Init, PInv, TypeOK, NewestHostStands, LateSpent, PushOwed, Handlers

\* A larger range.
LEMMA Wider ==
  ASSUME NEW n \in Nat
  PROVE  n + 1 \in Nat /\ \A e \in 0..n : e \in 0..(n + 1) /\ e # n + 1 /\ e \in Nat
OBVIOUS

\* Hosts and participants are different handlers.
LEMMA Apart ==
  /\ \A h \in Hosts : h \in Handlers /\ h \notin Conns /\ h # NoHost
  /\ \A p \in Conns : p \in Handlers /\ p \notin Hosts
BY PresenceConstants DEF Handlers

\* Registering a host.
LEMMA RegisterKeeps ==
  ASSUME PInv, NEW h \in Hosts, HostRegister(h)
  PROVE  PInv'
<1>0. TypeOK /\ pc \in [Handlers -> {"out", "notify", "read", "push", "loop", "route", "status"}]
  BY DEF PInv, TypeOK
<1>1. \A k \in Handlers : pc'[k] = IF k = h THEN "notify" ELSE pc[k]
  BY <1>0 DEF HostRegister
<1>2. \A k \in Hosts : epochOf'[k] = IF k = h THEN epoch + 1 ELSE epochOf[k]
  BY <1>0 DEF HostRegister, TypeOK
<1>3. epoch \in Nat /\ \A k \in Hosts : epochOf[k] \in 0..epoch
  BY <1>0 DEF TypeOK
<1>4. \A k \in Hosts : k # h => epochOf'[k] # epoch + 1 /\ epochOf'[k] \in 0..(epoch + 1)
  BY <1>2, <1>3, Wider
<1>5. epoch + 1 \in 0..(epoch + 1) /\ epoch + 1 > 0
  BY <1>3
<1>6. epochOf' \in [Hosts -> 0..(epoch + 1)]
  BY <1>0, <1>2, <1>4, <1>5 DEF HostRegister, TypeOK
<1>7. \A k, j \in Hosts : epochOf'[k] = epochOf'[j] /\ epochOf'[k] > 0 => k = j
  <2> SUFFICES ASSUME NEW k \in Hosts, NEW j \in Hosts, epochOf'[k] = epochOf'[j], epochOf'[k] > 0
               PROVE  k = j
    OBVIOUS
  <2>1. CASE k = h \/ j = h
    BY <2>1, <1>2, <1>4
  <2>2. CASE k # h /\ j # h
    BY <2>2, <1>0, <1>2 DEF TypeOK
  <2> QED
    BY <2>1, <2>2
<1>8. pc' \in [Handlers -> {"out", "notify", "read", "push", "loop", "route", "status"}]
  BY <1>0 DEF HostRegister
<1>9. \A k \in Hosts : /\ pc'[k] # "status"
                       /\ pc'[k] = "out" => epochOf'[k] = 0
                       /\ pc'[k] \in {"loop", "route"} => epochOf'[k] > 0
  BY <1>0, <1>1, <1>2, Apart DEF TypeOK
<1>10. \A p \in Conns : pc'[p] = pc[p]
  BY <1>1, Apart
<1>11. late' \in [Hosts -> Nat] /\ late'[h] = 0 /\ \A k \in Hosts : k # h => late'[k] = late[k]
  BY <1>0 DEF HostRegister, TypeOK
<1>12. epoch' = epoch + 1 /\ host' = h /\ UNCHANGED <<members, recips, up, seen, view>>
  BY DEF HostRegister
<1>13. TypeOK'
  BY <1>0, <1>3, <1>6, <1>7, <1>8, <1>9, <1>10, <1>11, <1>12, Wider DEF TypeOK
<1>14. NewestHostStands'
  BY <1>2, <1>4, <1>12 DEF NewestHostStands
<1>15. LateSpent'
  BY <1>1, <1>11, <1>12, Apart DEF LateSpent, PInv
<1>16. PushOwed'
  BY <1>1, Apart DEF PushOwed, Owed
<1> QED
  BY <1>13, <1>14, <1>15, <1>16 DEF PInv

\* Unregistering a host.
LEMMA HostLeaveKeeps ==
  ASSUME PInv, NEW h \in Hosts, HostLeave(h)
  PROVE  PInv'
<1>0. TypeOK /\ pc \in [Handlers -> {"out", "notify", "read", "push", "loop", "route", "status"}]
  BY DEF PInv, TypeOK
<1>1. \A k \in Handlers : pc'[k] = IF k = h THEN "notify" ELSE pc[k]
  BY <1>0 DEF HostLeave
<1>2. \A k \in Hosts : epochOf'[k] = IF k = h THEN 0 ELSE epochOf[k]
  BY <1>0 DEF HostLeave, TypeOK
<1>3. epochOf' \in [Hosts -> 0..epoch]
  <2>1. 0 \in 0..epoch
    BY <1>0 DEF TypeOK
  <2> QED
    BY <1>0, <2>1 DEF HostLeave, TypeOK
<1>4. \A k, j \in Hosts : epochOf'[k] = epochOf'[j] /\ epochOf'[k] > 0 => k = j
  BY <1>0, <1>2 DEF TypeOK
<1>5. pc' \in [Handlers -> {"out", "notify", "read", "push", "loop", "route", "status"}]
  BY <1>0 DEF HostLeave
<1>6. \A k \in Hosts : /\ pc'[k] # "status"
                       /\ pc'[k] = "out" => epochOf'[k] = 0
                       /\ pc'[k] \in {"loop", "route"} => epochOf'[k] > 0
  BY <1>0, <1>1, <1>2, Apart DEF TypeOK
<1>7. \A p \in Conns : pc'[p] = pc[p]
  BY <1>1, Apart
<1>8. UNCHANGED <<epoch, members, recips, up, seen, view, late>> /\ host' \in {host, NoHost}
      /\ (host = h <=> host' # host) 
  BY Apart DEF HostLeave, Unregister
<1>9. TypeOK'
  BY <1>0, <1>3, <1>4, <1>5, <1>6, <1>7, <1>8 DEF TypeOK
<1>10. NewestHostStands'
  <2>1. epochOf[h] > 0 /\ pc[h] = "loop"
    BY <1>0 DEF HostLeave, TypeOK
  <2>2. host' # NoHost => host' = host /\ host # h /\ host \in Hosts
    BY <1>0, <1>8 DEF TypeOK
  <2>3. host' # NoHost => epochOf'[host'] = epoch'
    BY <1>2, <1>8, <2>2 DEF PInv, NewestHostStands
  <2>4. ASSUME NEW k \in Hosts, epochOf'[k] > 0, epochOf'[k] = epoch'
        PROVE  host' = k
    <3>1. k # h /\ epochOf[k] > 0 /\ epochOf[k] = epoch
      BY <1>2, <1>8, <2>4
    <3>2. host = k
      BY <3>1 DEF PInv, NewestHostStands
    <3> QED
      BY <1>8, <3>1, <3>2
  <2> QED
    BY <2>3, <2>4 DEF NewestHostStands
<1>11. LateSpent'
  BY <1>1, <1>8, Apart DEF LateSpent, PInv
<1>12. PushOwed'
  BY <1>1, Apart DEF PushOwed, Owed
<1> QED
  BY <1>9, <1>10, <1>11, <1>12 DEF PInv

Places == {"out", "notify", "read", "push", "loop", "route", "status"}

\* where a host's handler may stand
HostPlace(h, x) ==
  /\ x \in Places \ {"status"}
  /\ x = "out" => epochOf[h] = 0
  /\ x \in {"loop", "route"} => epochOf[h] > 0

\* A step of a host's handler that registers nobody keeps the types.
LEMMA HostStepTypes ==
  ASSUME TypeOK, NEW h \in Hosts, NEW x, HostPlace(h, x), pc' = [pc EXCEPT ![h] = x],
         UNCHANGED <<host, epoch, epochOf, members>>,
         recips' \in [Hosts -> SUBSET Conns], up' \in [Handlers -> BOOLEAN],
         seen' \in [Conns -> BOOLEAN], view' \in [Conns -> BOOLEAN], late' \in [Hosts -> Nat]
  PROVE  /\ TypeOK' /\ (NewestHostStands => NewestHostStands')
         /\ \A k \in Handlers : pc'[k] = IF k = h THEN x ELSE pc[k]
<1>1. /\ pc' \in [Handlers -> Places]
      /\ \A k \in Handlers : pc'[k] = IF k = h THEN x ELSE pc[k]
  BY DEF TypeOK, HostPlace, Places
<1>2. \A p \in Conns : pc'[p] = pc[p]
  BY <1>1, Apart
<1>3. \A k \in Hosts : /\ pc'[k] # "status"
                       /\ pc'[k] = "out" => epochOf[k] = 0
                       /\ pc'[k] \in {"loop", "route"} => epochOf[k] > 0
  BY <1>1, Apart DEF TypeOK, HostPlace, Places
<1>4. TypeOK'
  BY <1>1, <1>2, <1>3 DEF TypeOK, Places
<1> QED
  BY <1>1, <1>4 DEF NewestHostStands

\* Where notifyHostStatus returns to is a place for the handler.
LEMMA ResumePlace ==
  ASSUME TypeOK, NEW h \in Hosts
  PROVE  HostPlace(h, Resume(h))
<1>1. epochOf[h] \in Nat
  BY DEF TypeOK
<1> QED
  BY <1>1 DEF HostPlace, Resume, Places

\* Reading the recipients of a push.
LEMMA NotifyRecipientsKeeps ==
  ASSUME PInv, NEW h \in Hosts, NotifyRecipients(h)
  PROVE  PInv'
<1>0. TypeOK /\ members \in SUBSET Conns
  BY DEF PInv, TypeOK
<1>1. PICK x : pc' = [pc EXCEPT ![h] = x] /\ x = (IF members = {} THEN Resume(h) ELSE "read")
  BY DEF NotifyRecipients
<1>2. HostPlace(h, x)
  BY <1>0, <1>1, ResumePlace DEF HostPlace, Places
<1>3. recips' \in [Hosts -> SUBSET Conns] /\ \A k \in Hosts : recips'[k] = IF k = h THEN members ELSE recips[k]
  BY <1>0 DEF NotifyRecipients, TypeOK
<1>4. /\ TypeOK' /\ NewestHostStands'
      /\ \A k \in Handlers : pc'[k] = IF k = h THEN x ELSE pc[k]
  BY <1>0, <1>1, <1>2, <1>3, HostStepTypes DEF NotifyRecipients, PInv, TypeOK
<1>5. LateSpent'
  <2>1. x # "route"
    BY <1>1 DEF Resume
  <2> QED
    BY <1>4, <2>1, Apart DEF PInv, LateSpent, NotifyRecipients
<1>6. PushOwed'
  <2> SUFFICES ASSUME NEW p \in members PROVE Owed(p)'
    BY DEF PushOwed, NotifyRecipients
  <2>1. x = "read"
    BY <1>1
  <2> QED
    BY <1>3, <1>4, <2>1, Apart DEF Owed
<1> QED
  BY <1>4, <1>5, <1>6 DEF PInv

\* Reading the presence to push.
LEMMA NotifyReadKeeps ==
  ASSUME PInv, NEW h \in Hosts, NotifyRead(h)
  PROVE  PInv'
<1>0. TypeOK /\ pc[h] = "read"
  BY DEF PInv, TypeOK, NotifyRead
<1>1. PICK x : pc' = [pc EXCEPT ![h] = x] /\ x = (IF recips[h] = {} THEN Resume(h) ELSE "push")
  BY DEF NotifyRead
<1>2. HostPlace(h, x)
  BY <1>0, <1>1, ResumePlace DEF HostPlace, Places
<1>3. /\ up' \in [Handlers -> BOOLEAN] /\ seen' \in [Conns -> BOOLEAN]
      /\ \A p \in Conns : seen'[p] = IF p \in recips[h] THEN Up ELSE seen[p]
  BY <1>0 DEF NotifyRead, TypeOK, Up
<1>4. /\ TypeOK' /\ NewestHostStands'
      /\ \A k \in Handlers : pc'[k] = IF k = h THEN x ELSE pc[k]
  BY <1>0, <1>1, <1>2, <1>3, HostStepTypes DEF NotifyRead, PInv, TypeOK
<1>5. LateSpent'
  <2>1. x # "route"
    BY <1>1 DEF Resume
  <2> QED
    BY <1>4, <2>1, Apart DEF PInv, LateSpent, NotifyRead
<1>6. PushOwed'
  <2> SUFFICES ASSUME NEW p \in members, p \notin recips[h], seen[p] # Up PROVE Owed(p)'
    BY <1>0, <1>3 DEF PushOwed, NotifyRead, Up, TypeOK
  <2>1. PICK k \in Hosts : pc[k] = "notify" \/ (pc[k] = "read" /\ p \in recips[k])
    BY DEF PInv, PushOwed, Owed
  <2>2. k # h /\ pc'[k] = pc[k] /\ recips' = recips
    BY <1>0, <1>4, <2>1, Apart DEF NotifyRead
  <2> QED
    BY <2>1, <2>2 DEF Owed
<1> QED
  BY <1>4, <1>5, <1>6 DEF PInv

\* A host step that neither begins nor reads a push keeps what is owed.
LEMMA OwedKept ==
  ASSUME PInv, NEW h \in Hosts, NEW x, pc[h] \notin {"notify", "read"},
         \A k \in Handlers : pc'[k] = IF k = h THEN x ELSE pc[k],
         \A k \in Hosts : k # h => recips'[k] = recips[k],
         UNCHANGED <<members, seen, host>>
  PROVE  PushOwed'
<1> SUFFICES ASSUME NEW p \in members, seen[p] # Up PROVE Owed(p)'
  BY DEF PushOwed, Up
<1>1. PICK k \in Hosts : pc[k] = "notify" \/ (pc[k] = "read" /\ p \in recips[k])
  BY DEF PInv, PushOwed, Owed
<1>2. k # h /\ pc'[k] = pc[k] /\ recips'[k] = recips[k]
  BY <1>1, Apart
<1> QED
  BY <1>1, <1>2 DEF Owed

\* Pushing to one recipient.
LEMMA NotifyPushKeeps ==
  ASSUME PInv, NEW h \in Hosts, NEW p \in Conns, NotifyPush(h, p)
  PROVE  PInv'
<1>0. TypeOK /\ pc[h] = "push" /\ epochOf \in [Hosts -> 0..epoch]
  BY DEF PInv, TypeOK, NotifyPush
<1>1. PICK x : pc' = [pc EXCEPT ![h] = x] /\ x = (IF recips[h] = {p} THEN Resume(h) ELSE "push")
  BY DEF NotifyPush
<1>2. HostPlace(h, x) /\ x # "route"
  <2>1. HostPlace(h, Resume(h)) /\ Resume(h) # "route"
    BY <1>0, ResumePlace DEF Resume
  <2>2. HostPlace(h, "push")
    BY DEF HostPlace, Places
  <2> QED
    BY <1>1, <2>1, <2>2
<1>3. /\ view' \in [Conns -> BOOLEAN] /\ recips' \in [Hosts -> SUBSET Conns]
      /\ \A k \in Hosts : k # h => recips'[k] = recips[k]
  BY <1>0, Apart DEF NotifyPush, TypeOK
<1>4. /\ TypeOK' /\ NewestHostStands'
      /\ \A k \in Handlers : pc'[k] = IF k = h THEN x ELSE pc[k]
  BY <1>0, <1>1, <1>2, <1>3, HostStepTypes DEF NotifyPush, PInv, TypeOK
<1>5. LateSpent'
  BY <1>2, <1>4, Apart DEF PInv, LateSpent, NotifyPush
<1>6. PushOwed'
  BY <1>0, <1>3, <1>4, OwedKept DEF NotifyPush
<1> QED
  BY <1>4, <1>5, <1>6 DEF PInv

\* Reading and routing a frame.
LEMMA FrameKeeps ==
  ASSUME PInv, NEW h \in Hosts, ReadFrame(h) \/ RouteFrame(h)
  PROVE  PInv'
<1>0. TypeOK /\ pc[h] \in {"loop", "route"} /\ epochOf[h] > 0 /\ late[h] \in Nat
  BY DEF PInv, TypeOK, ReadFrame, RouteFrame
<1>1. PICK x \in {"loop", "route"} : /\ pc' = [pc EXCEPT ![h] = x]
                                     /\ x = "route" <=> ReadFrame(h)
  BY DEF ReadFrame, RouteFrame
<1>2. HostPlace(h, x)
  BY <1>0 DEF HostPlace, Places
<1>3. late' \in [Hosts -> Nat] /\ \A k \in Hosts : k # h => late'[k] = late[k]
  BY <1>0 DEF ReadFrame, RouteFrame, TypeOK
<1>4. /\ TypeOK' /\ NewestHostStands'
      /\ \A k \in Handlers : pc'[k] = IF k = h THEN x ELSE pc[k]
  <2>1. UNCHANGED <<host, epoch, epochOf, members>> /\ UNCHANGED <<recips, up, seen, view>>
    BY DEF ReadFrame, RouteFrame
  <2>2. /\ recips' \in [Hosts -> SUBSET Conns] /\ up' \in [Handlers -> BOOLEAN]
        /\ seen' \in [Conns -> BOOLEAN] /\ view' \in [Conns -> BOOLEAN]
    BY <1>0, <2>1 DEF TypeOK
  <2>3. TypeOK /\ pc' = [pc EXCEPT ![h] = x] /\ late' \in [Hosts -> Nat]
    BY <1>0, <1>1, <1>3
  <2>4. /\ TypeOK' /\ (NewestHostStands => NewestHostStands')
        /\ \A k \in Handlers : pc'[k] = IF k = h THEN x ELSE pc[k]
    BY <1>2, <2>1, <2>2, <2>3, HostStepTypes
  <2>5. NewestHostStands
    BY DEF PInv
  <2> QED
    BY <1>0, <2>4, <2>5
<1>5. LateSpent'
  <2>1. ASSUME NEW k \in Hosts, k # h
        PROVE  late'[k] <= 1 /\ (late'[k] = 1 => pc'[k] # "route" /\ host' # k)
    BY <1>3, <1>4, <2>1, Apart DEF PInv, LateSpent, ReadFrame, RouteFrame
  <2>2. late'[h] <= 1 /\ (late'[h] = 1 => pc'[h] # "route" /\ host' # h)
    <3>1. CASE ReadFrame(h)
      BY <3>1, <1>0, <1>4 DEF PInv, LateSpent, ReadFrame
    <3>2. CASE RouteFrame(h)
      <4>1. late[h] = 0 /\ pc'[h] = "loop" /\ host' = host
        BY <3>2, <1>0, <1>4, Apart DEF PInv, LateSpent, RouteFrame, TypeOK
      <4>2. late'[h] = IF host = h THEN 0 ELSE 1
        BY <3>2, <1>0, <4>1 DEF RouteFrame, TypeOK
      <4> QED
        BY <4>1, <4>2
    <3> QED
      BY <3>1, <3>2
  <2> QED
    BY <2>1, <2>2 DEF LateSpent
<1>6. PushOwed'
  BY <1>0, <1>4, OwedKept DEF ReadFrame, RouteFrame
<1> QED
  BY <1>4, <1>5, <1>6 DEF PInv

\* A participant joins, or is sent its first status.
LEMMA ParticipantKeeps ==
  ASSUME PInv, NEW p \in Conns, Join(p) \/ SendStatus(p)
  PROVE  PInv'
<1>0. TypeOK /\ p \in Handlers /\ p \notin Hosts
  BY Apart DEF PInv
<1>1. PICK x \in {"status", "loop"} : pc' = [pc EXCEPT ![p] = x]
  BY DEF Join, SendStatus
<1>2. pc' \in [Handlers -> Places] /\ \A k \in Handlers : pc'[k] = IF k = p THEN x ELSE pc[k]
  BY <1>0, <1>1 DEF TypeOK, Places
<1>3. \A h \in Hosts : pc'[h] = pc[h]
  BY <1>0, <1>2, Apart
<1>4. members' = members \cup {p}
  BY <1>0 DEF Join, SendStatus, TypeOK
<1>5. \A q \in Conns : pc'[q] \in {"out", "status", "loop"} /\ (q \in members' <=> pc'[q] # "out")
  BY <1>0, <1>2, <1>4, Apart DEF TypeOK
<1>6. /\ up' \in [Handlers -> BOOLEAN] /\ seen' \in [Conns -> BOOLEAN] /\ view' \in [Conns -> BOOLEAN]
      /\ UNCHANGED <<host, epoch, epochOf, recips, late>>
      /\ \A q \in Conns : seen'[q] = Up \/ (q \in members /\ seen'[q] = seen[q]) \/ q \notin members'
  <2>0. /\ up \in [Handlers -> BOOLEAN] /\ seen \in [Conns -> BOOLEAN]
        /\ view \in [Conns -> BOOLEAN] /\ Up \in BOOLEAN
    BY <1>0 DEF TypeOK, Up
  <2>1. CASE Join(p)
    <3>1. UNCHANGED <<host, epoch, epochOf, recips, late>>
      BY <2>1 DEF Join
    <3>2. /\ up' \in [Handlers -> BOOLEAN] /\ seen' \in [Conns -> BOOLEAN] /\ view' \in [Conns -> BOOLEAN]
      BY <1>0, <2>0, <2>1 DEF Join
    <3>3. \A q \in Conns : seen'[q] = IF q = p THEN Up ELSE seen[q]
      BY <2>0, <2>1 DEF Join
    <3> QED
      BY <1>4, <3>1, <3>2, <3>3
  <2>2. CASE SendStatus(p)
    BY <1>0, <2>0, <2>2 DEF SendStatus
  <2> QED
    BY <2>1, <2>2
<1>7. TypeOK'
  BY <1>0, <1>2, <1>3, <1>4, <1>5, <1>6 DEF TypeOK, Places
<1>8. NewestHostStands' /\ LateSpent'
  BY <1>3, <1>6 DEF PInv, NewestHostStands, LateSpent
<1>9. PushOwed'
  <2> SUFFICES ASSUME NEW q \in members', seen'[q] # Up PROVE Owed(q)'
    BY <1>6 DEF PushOwed, Up
  <2>1. q \in members /\ seen[q] # Up
    BY <1>0, <1>4, <1>6 DEF TypeOK
  <2>2. Owed(q)
    BY <2>1 DEF PInv, PushOwed
  <2> QED
    BY <2>2, <1>3, <1>6 DEF Owed
<1> QED
  BY <1>7, <1>8, <1>9 DEF PInv

\* A participant leaves.
LEMMA LeaveKeeps ==
  ASSUME PInv, NEW p \in Conns, Leave(p)
  PROVE  PInv'
<1>0. TypeOK /\ p \in Handlers /\ p \notin Hosts /\ pc \in [Handlers -> Places]
  BY Apart DEF PInv, TypeOK, Places
<1>1. \A h \in Hosts : HostPlace(h, Resume(h)) /\ Resume(h) \in {"out", "loop"}
  BY <1>0, ResumePlace DEF Resume
<1>2. \A h \in Hosts : pc'[h] = IF pc[h] = "push" /\ recips[h] = {p} THEN Resume(h) ELSE pc[h]
  BY <1>0, Apart DEF Leave
<1>3. \A q \in Conns : pc'[q] = IF q = p THEN "out" ELSE pc[q]
  BY Apart DEF Leave
<1>4. pc' \in [Handlers -> Places]
  <2>1. \A g \in Handlers : pc'[g] \in Places
    BY <1>0, <1>1, <1>2, <1>3 DEF Handlers, Places
  <2> QED
    BY <2>1 DEF Leave
<1>5. \A h \in Hosts : /\ pc'[h] # "status"
                       /\ pc'[h] = "out" => epochOf[h] = 0
                       /\ pc'[h] \in {"loop", "route"} => epochOf[h] > 0
  BY <1>0, <1>1, <1>2 DEF TypeOK, HostPlace, Places
<1>6. members' = members \ {p} /\ recips' = [h \in Hosts |-> recips[h] \ {p}]
      /\ UNCHANGED <<host, epoch, epochOf, up, seen, view, late>>
  BY DEF Leave
<1>7. \A q \in Conns : pc'[q] \in {"out", "status", "loop"} /\ (q \in members' <=> pc'[q] # "out")
  BY <1>0, <1>3, <1>6 DEF TypeOK
<1>8. recips' \in [Hosts -> SUBSET Conns]
  BY <1>0, <1>6 DEF TypeOK
<1>9. TypeOK'
  BY <1>0, <1>4, <1>5, <1>6, <1>7, <1>8 DEF TypeOK, Places
<1>10. NewestHostStands'
  BY <1>6 DEF PInv, NewestHostStands
<1>11. LateSpent'
  BY <1>1, <1>2, <1>6 DEF PInv, LateSpent
<1>12. PushOwed'
  <2> SUFFICES ASSUME NEW q \in members, q # p, seen[q] # Up PROVE Owed(q)'
    BY <1>6 DEF PushOwed, Up
  <2>1. PICK h \in Hosts : pc[h] = "notify" \/ (pc[h] = "read" /\ q \in recips[h])
    BY DEF PInv, PushOwed, Owed
  <2>2. pc'[h] = pc[h] /\ (q \in recips[h] => q \in recips'[h])
    BY <1>2, <1>6, <2>1
  <2> QED
    BY <2>1, <2>2 DEF Owed
<1> QED
  BY <1>9, <1>10, <1>11, <1>12 DEF PInv

\* PInv is inductive.
LEMMA NextPInv == PInv /\ [Next]_vars => PInv'
<1>1. ASSUME PInv, Next PROVE PInv'
  BY <1>1, RegisterKeeps, HostLeaveKeeps, NotifyRecipientsKeeps, NotifyReadKeeps,
     NotifyPushKeeps, FrameKeeps, ParticipantKeeps, LeaveKeeps DEF Next
<1>2. ASSUME PInv, UNCHANGED vars PROVE PInv'
  BY <1>2 DEF PInv, TypeOK, NewestHostStands, LateSpent, PushOwed, Owed, Up, vars
<1> QED
  BY <1>1, <1>2

\* The registry's host entries and the handlers keep their types, and no two
\* registered hosts ever share an epoch.
THEOREM PresenceTypes == Spec => []TypeOK
<1>1. PInv => TypeOK
  BY DEF PInv
<1> QED
  BY <1>1, InitPInv, NextPInv, PTL DEF Spec

\* The current host is the latest to register, however late the hosts it
\* superseded disconnect.
THEOREM PresenceNewestStands == Spec => []NewestHostStands
<1>1. PInv => NewestHostStands
  BY DEF PInv
<1> QED
  BY <1>1, InitPInv, NextPInv, PTL DEF Spec

\* The check handleAgent makes before it routes a frame lets a superseded
\* daemon feed at most one frame.
THEOREM PresenceOneLateFrame == Spec => []OneLateFrame
<1>1. PInv => OneLateFrame
  BY DEF PInv, LateSpent, OneLateFrame
<1> QED
  BY <1>1, InitPInv, NextPInv, PTL DEF Spec

\* Every host change is read on behalf of every participant connected at the
\* end, whatever overlapped it.
THEOREM PresenceNoMissedPush == Spec => []NoMissedPush
<1>1. PInv => NoMissedPush
  BY Apart DEF PInv, PushOwed, Owed, NoMissedPush, Quiescent
<1> QED
  BY <1>1, InitPInv, NextPInv, PTL DEF Spec
=============================================================================
