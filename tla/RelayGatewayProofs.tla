------------------------ MODULE RelayGatewayProofs -------------------------
(* Proofs about RelayGateway, for any links, transports, generations,      *)
(* secrets and bounds.                                                     *)
EXTENDS RelayGateway, TLAPS

(***************************************************************************)
(* The inductive invariant                                                 *)
(***************************************************************************)

Phases == {"none", "assign", "connect", "acked", "settle", "failing"}
GenOrNone == Gens \cup {0}
SecretOrNone == Secrets \cup {0}

Attempts == [phase : Phases, link : Links \cup {0}, tr : Transports \cup {0},
             prev : Transports \cup {0}, first : BOOLEAN, gen : GenOrNone, secret : SecretOrNone]
Messages == [type : {"ack"}, conn : {0}, gen : GenOrNone, secret : SecretOrNone]
            \cup [type : {"conn-open"}, conn : 1..MaxConns, gen : {0}, secret : {0}]
LinkStates == [up : BOOLEAN, hello : {"none", "sent", "done"}, secret : SecretOrNone,
               tr : Transports \cup {0}, inbox : Seq(Messages)]
Sockets == [conn : 1..MaxConns, tr : Transports, st : {"opening", "auth", "attached", "dead"},
            gen : GenOrNone]
Records == [gen : GenOrNone, secret : SecretOrNone, control : Links \cup {0}]
Ackings == [link : Links, gen : GenOrNone, secret : SecretOrNone]

GatewayTypes ==
    /\ stopped \in BOOLEAN /\ timer \in BOOLEAN
    /\ control \in Links \cup {0}
    /\ att \in Attempts
    /\ secret \in SecretOrNone
    /\ transport \in Transports \cup {0}
    /\ gen \in [Transports -> GenOrNone]
    /\ attached \subseteq Transports

NetTypes ==
    /\ sockets \subseteq Sockets
    /\ links \in [Links -> LinkStates]

RelayTypes ==
    /\ rec \in Records
    /\ acking \subseteq Ackings
    /\ conns \subseteq [id : 1..MaxConns, gen : GenOrNone]
    /\ opened \in 0..MaxConns
    /\ faults \in 0..MaxFaults

(* The attempt has attached a transport of its own.                        *)
OwnTransport == att.phase \in {"connect", "acked"} /\ att.tr # att.prev

(* What each phase of the attempt holds.  The first one meets a gateway    *)
(* that has nothing yet, and never has a transport to replace.             *)
AttemptOK ==
    /\ att.first => transport = 0 /\ control = 0 /\ att.phase \notin {"none", "settle"}
    /\ att.phase \in {"connect", "acked"} => att.link # 0 /\ att.tr # 0
    /\ att.phase \in {"none", "assign"} => att.tr = 0 /\ att.prev = 0
    /\ att.phase \in {"connect", "acked"} /\ ~stopped => att.prev = transport
    /\ OwnTransport => att.tr \in attached /\ att.tr # transport

(* Only the transport in use and the attempt's own are attached, and only  *)
(* attached transports have sockets that are not closing.                  *)
AttachedOK ==
    /\ transport # 0 => transport \in attached
    /\ control # 0 => transport # 0
    /\ stopped => control = 0 /\ transport = 0
    /\ \A t \in attached : t = transport \/ (OwnTransport /\ t = att.tr)
    /\ \A s \in sockets : s.st # "dead" => s.tr \in attached

(* A link whose hello the relay has not read is known to the attempt only. *)
HelloOK ==
    \A l \in Links : links[l].hello = "sent" =>
        /\ l # control /\ l # rec.control
        /\ links[l].inbox = <<>>
        /\ \A a \in acking : a.link # l
        /\ att.phase = "acked" => att.link # l

(* Every acknowledgement in the sequence names generation g and secret k.  *)
Acks(q, g, k) ==
    \A i \in 1..Len(q) : q[i].type = "ack" => q[i].gen = g /\ q[i].secret = k

(* An acknowledgement on the relay's current control connection, still to  *)
(* be written, on its way or read, is the one the record stands for.       *)
AckOK ==
    /\ \A a \in acking : a.link = rec.control => a.gen = rec.gen /\ a.secret = rec.secret
    /\ \A l \in Links : l = rec.control => Acks(links[l].inbox, rec.gen, rec.secret)
    /\ att.phase = "acked" /\ att.link = rec.control =>
           att.gen = rec.gen /\ att.secret = rec.secret

GatewayInv == AttemptOK /\ AttachedOK /\ NeverStranded /\ OneAttempt
AgreementInv == HelloOK /\ AckOK /\ BothEndsAgree

IInv == GatewayTypes /\ NetTypes /\ RelayTypes /\ GatewayInv /\ AgreementInv

(***************************************************************************)
(* Links, sockets and acknowledgements                                     *)
(***************************************************************************)

(* The link l after closeNow(), and the others.                            *)
LEMMA ClosedEffect ==
    ASSUME NetTypes, NEW l \in Links
    PROVE  /\ Closed(l) \in [Links -> LinkStates]
           /\ Closed(l)[l].inbox = <<>>
           /\ Closed(l)[l].hello = links[l].hello /\ Closed(l)[l].tr = links[l].tr
           /\ \A k \in Links : k # l => Closed(l)[k] = links[k]
<1>1. links[l] \in LinkStates BY DEF NetTypes
<1>2. <<>> \in Seq(Messages) OBVIOUS
<1> DEFINE r == [links[l] EXCEPT !.up = FALSE, !.inbox = <<>>]
<1>3. r \in LinkStates /\ r.inbox = <<>> /\ r.hello = links[l].hello /\ r.tr = links[l].tr
    BY <1>1, <1>2 DEF LinkStates
<1>4. Closed(l) = [links EXCEPT ![l] = r] BY <1>1 DEF Closed, NetTypes, LinkStates
<1> HIDE DEF r
<1> QED BY <1>3, <1>4 DEF NetTypes

(* The sockets after a transport is stopped.                               *)
LEMMA TerminatedEffect ==
    ASSUME NetTypes, NEW t
    PROVE  /\ Terminated(t) \subseteq Sockets
           /\ \A s \in Terminated(t) : s.st # "dead" => s \in sockets /\ s.tr # t
<1> SUFFICES ASSUME NEW s \in Terminated(t)
             PROVE  s \in Sockets /\ (s.st # "dead" => s \in sockets /\ s.tr # t)
    OBVIOUS
<1>1. PICK u \in sockets : s = IF u.tr = t THEN [u EXCEPT !.st = "dead"] ELSE u
    BY DEF Terminated
<1>2. u \in Sockets BY DEF NetTypes
<1>3. CASE u.tr = t BY <1>1, <1>2, <1>3 DEF Sockets
<1>4. CASE u.tr # t BY <1>1, <1>2, <1>4
<1> QED BY <1>3, <1>4

(* Acknowledgements in a sequence that grows at its end.                   *)
LEMMA AcksAppend ==
    ASSUME NEW q \in Seq(Messages), NEW m \in Messages, NEW g, NEW k, Acks(q, g, k),
           m.type = "ack" => m.gen = g /\ m.secret = k
    PROVE  Acks(Append(q, m), g, k)
BY DEF Acks

(* Acknowledgements in a sequence that is read at its front.               *)
LEMMA AcksTail ==
    ASSUME NEW q \in Seq(Messages), q # <<>>, NEW g, NEW k, Acks(q, g, k)
    PROVE  /\ Acks(Tail(q), g, k)
           /\ Tail(q) \in Seq(Messages)
           /\ Head(q) \in Messages
           /\ Head(q).type = "ack" => Head(q).gen = g /\ Head(q).secret = k
<1>1. Tail(q) \in Seq(Messages) /\ Head(q) = q[1] /\ Len(q) >= 1 /\ q[1] \in Messages OBVIOUS
<1>2. \A i \in 1..Len(Tail(q)) : Tail(q)[i] = q[i + 1] /\ i + 1 \in 1..Len(q) OBVIOUS
<1>3. Acks(Tail(q), g, k) BY <1>2 DEF Acks
<1>4. 1 \in 1..Len(q) BY <1>1
<1> QED BY <1>1, <1>3, <1>4 DEF Acks

(* The operation that stands for none.                                     *)
LEMMA NoAttemptFields ==
    /\ NoAttempt \in Attempts
    /\ NoAttempt.phase = "none" /\ NoAttempt.first = FALSE
    /\ NoAttempt.link = 0 /\ NoAttempt.tr = 0 /\ NoAttempt.prev = 0
BY DEF NoAttempt, Attempts, Phases, GenOrNone, SecretOrNone

(* An attempt that begins.                                                 *)
LEMMA BeginFields ==
    ASSUME NEW a, a = [NoAttempt EXCEPT !.phase = "assign"]
    PROVE  /\ a \in Attempts
           /\ a.phase = "assign" /\ a.first = FALSE
           /\ a.link = 0 /\ a.tr = 0 /\ a.prev = 0
BY DEF NoAttempt, Attempts, Phases, GenOrNone, SecretOrNone

(***************************************************************************)
(* Steps that leave one half alone                                         *)
(***************************************************************************)

(* A step of the network or of the relay leaves the gateway's part alone.  *)
LEMMA GatewayUntouched ==
    ASSUME GatewayInv, UNCHANGED gatewayVars,
           \A s \in sockets' : s.st # "dead" => s.tr \in attached
    PROVE  GatewayInv'
<1>1. UNCHANGED <<stopped, control, timer, att, secret, transport, gen, attached>>
    BY DEF gatewayVars
<1>2. AttemptOK' BY <1>1 DEF GatewayInv, AttemptOK, OwnTransport
<1>3. AttachedOK' BY <1>1 DEF GatewayInv, AttachedOK, OwnTransport
<1>4. NeverStranded' /\ OneAttempt' BY <1>1 DEF GatewayInv, NeverStranded, OneAttempt
<1> QED BY <1>2, <1>3, <1>4 DEF GatewayInv

(* A step that leaves the agreement's part alone.                          *)
LEMMA AgreementUntouched ==
    ASSUME AgreementInv, UNCHANGED <<links, rec, acking, control, gen, secret, transport>>,
           att' = att \/ att'.phase # "acked"
    PROVE  AgreementInv'
<1>1. HelloOK' BY DEF AgreementInv, HelloOK
<1>2. AckOK' BY DEF AgreementInv, AckOK, Acks
<1>3. BothEndsAgree' BY DEF AgreementInv, BothEndsAgree
<1> QED BY <1>1, <1>2, <1>3 DEF AgreementInv

(* Links that are closed, emptied or not, with what was on the way.        *)
LEMMA LinksClose ==
    ASSUME NetTypes, AgreementInv,
           UNCHANGED <<rec, acking, gen, secret, transport>>,
           control' = control \/ control' = 0,
           att' = att \/ att'.phase # "acked",
           \A l \in Links : /\ links'[l].hello = links[l].hello
                            /\ links'[l].inbox = links[l].inbox \/ links'[l].inbox = <<>>,
           0 \notin Links
    PROVE  AgreementInv'
<1>1. HelloOK' BY DEF AgreementInv, HelloOK
<1>2. Acks(<<>>, rec.gen, rec.secret) BY DEF Acks
<1>3. AckOK' BY <1>2 DEF AgreementInv, AckOK
<1>4. BothEndsAgree' BY DEF AgreementInv, BothEndsAgree
<1> QED BY <1>1, <1>3, <1>4 DEF AgreementInv

(***************************************************************************)
(* The gateway's actions                                                   *)
(***************************************************************************)

(* A failed attempt leaves the gateway as it was before it, or waiting for *)
(* the transport it had attached, or ended when it was the first.          *)
LEMMA AttemptFailsKeeps ==
    ASSUME IInv, AttemptFails, att.phase \in {"assign", "connect", "acked"},
           UNCHANGED relayVars, faults' \in 0..MaxFaults
    PROVE  IInv'
<1> GatewayTypes /\ NetTypes /\ RelayTypes /\ GatewayInv /\ AgreementInv BY DEF IInv
<1>1. UNCHANGED <<control, secret, transport, gen, rec, acking, conns, opened>>
    BY DEF AttemptFails, relayVars
<1>2. /\ links' \in [Links -> LinkStates]
      /\ \A l \in Links : /\ links'[l].hello = links[l].hello
                          /\ links'[l].inbox = links[l].inbox \/ links'[l].inbox = <<>>
    <2>1. CASE att.link = 0 BY <2>1 DEF AttemptFails, NetTypes
    <2>2. CASE att.link # 0
        <3>1. att.link \in Links /\ links' = Closed(att.link)
            BY <2>2 DEF AttemptFails, GatewayTypes, Attempts
        <3> QED BY <3>1, ClosedEffect
    <2> QED BY <2>1, <2>2
<1>3. RelayTypes' BY <1>1 DEF RelayTypes
<1>4. CASE att.tr = att.prev /\ Ended(stopped \/ att.first, control) /\ UNCHANGED <<attached, sockets>>
    <2>1. /\ att' = NoAttempt /\ stopped' = (stopped \/ att.first)
          /\ timer' = (timer \/ (~att.first /\ ~(stopped \/ att.first) /\ control = 0))
        BY <1>4 DEF Ended
    <2>2. att.first \in BOOLEAN BY DEF GatewayTypes, Attempts
    <2>3. GatewayTypes' BY <1>1, <1>4, <2>1, <2>2, NoAttemptFields DEF GatewayTypes
    <2>4. NetTypes' BY <1>2, <1>4 DEF NetTypes
    <2>5. AttemptOK' BY <1>1, <2>1, NoAttemptFields DEF AttemptOK, OwnTransport
    <2>6. AttachedOK'
        BY <1>1, <1>4, <2>1, NoAttemptFields DEF GatewayInv, AttachedOK, AttemptOK, OwnTransport
    <2>7. NeverStranded' /\ OneAttempt'
        BY <1>1, <2>1, <2>2, NoAttemptFields DEF NeverStranded, OneAttempt
    <2>8. AgreementInv' BY <1>1, <1>2, <2>1, NoAttemptFields, GatewayAssumption, LinksClose
    <2> QED BY <1>3, <2>3, <2>4, <2>5, <2>6, <2>7, <2>8 DEF IInv, GatewayInv
<1>5. CASE /\ att.tr # att.prev
           /\ attached' = attached \ {att.tr}
           /\ sockets' = Terminated(att.tr)
           /\ att' = [att EXCEPT !.phase = "failing", !.prev = att.tr]
           /\ UNCHANGED <<stopped, timer>>
    <2>1. /\ att' \in Attempts /\ att'.phase = "failing" /\ att'.first = att.first
          /\ att'.tr = att.tr /\ att'.prev = att.tr
        BY <1>5 DEF GatewayTypes, Attempts, Phases
    <2>2. OwnTransport BY <1>5 DEF GatewayInv, AttemptOK, OwnTransport
    <2>3. GatewayTypes' BY <1>1, <1>5, <2>1 DEF GatewayTypes
    <2>4. NetTypes' BY <1>2, <1>5, TerminatedEffect DEF NetTypes
    <2>5. AttemptOK' BY <1>1, <2>1 DEF GatewayInv, AttemptOK, OwnTransport
    <2>6. \A s \in sockets' : s.st # "dead" => s.tr \in attached'
        BY <1>5, TerminatedEffect DEF GatewayInv, AttachedOK
    <2>7. AttachedOK'
        BY <1>1, <1>5, <2>1, <2>2, <2>6 DEF GatewayInv, AttachedOK, AttemptOK, OwnTransport
    <2>8. NeverStranded' /\ OneAttempt'
        BY <1>1, <1>5, <2>1 DEF GatewayInv, NeverStranded, OneAttempt
    <2>9. AgreementInv' BY <1>1, <1>2, <2>1, GatewayAssumption, LinksClose
    <2> QED BY <1>3, <2>3, <2>4, <2>5, <2>7, <2>8, <2>9 DEF IInv, GatewayInv
<1> QED BY <1>4, <1>5 DEF AttemptFails

(* The reconnect timer fires.                                              *)
LEMMA TimerFiresKeeps == ASSUME IInv, TimerFires PROVE IInv'
<1> GatewayTypes /\ NetTypes /\ RelayTypes /\ GatewayInv /\ AgreementInv BY DEF IInv
<1>1. UNCHANGED <<stopped, control, secret, transport, gen, attached, sockets, links, rec, acking,
                  conns, opened, faults>> /\ timer /\ timer' = FALSE
    BY DEF TimerFires, netVars, relayVars
<1>2. att.phase = "none" BY <1>1 DEF GatewayInv, OneAttempt
<1>3. NetTypes' /\ RelayTypes' BY <1>1 DEF NetTypes, RelayTypes
<1>4. CASE stopped \/ control # 0
    <2>1. att' = att BY <1>4 DEF TimerFires
    <2>2. GatewayTypes' BY <1>1, <2>1 DEF GatewayTypes
    <2>3. AttemptOK' /\ AttachedOK'
        BY <1>1, <2>1 DEF GatewayInv, AttemptOK, AttachedOK, OwnTransport
    <2>4. NeverStranded' /\ OneAttempt'
        BY <1>1, <1>2, <1>4, <2>1 DEF GatewayInv, NeverStranded, OneAttempt
    <2>5. AgreementInv' BY <1>1, <2>1, AgreementUntouched
    <2> QED BY <1>3, <2>2, <2>3, <2>4, <2>5 DEF IInv, GatewayInv
<1>5. CASE ~(stopped \/ control # 0)
    <2>1. att' = [NoAttempt EXCEPT !.phase = "assign"] BY <1>5 DEF TimerFires
    <2>2. att' \in Attempts /\ att'.phase = "assign" /\ att'.first = FALSE /\ att'.tr = 0
          /\ att'.prev = 0
        BY <2>1, BeginFields
    <2>3. GatewayTypes' BY <1>1, <2>2 DEF GatewayTypes
    <2>4. AttemptOK' BY <2>2 DEF AttemptOK, OwnTransport
    <2>5. AttachedOK' BY <1>1, <1>2, <2>2 DEF GatewayInv, AttachedOK, OwnTransport
    <2>6. NeverStranded' /\ OneAttempt' BY <1>1, <1>5, <2>2 DEF NeverStranded, OneAttempt
    <2>7. AgreementInv' BY <1>1, <2>2, AgreementUntouched
    <2> QED BY <1>3, <2>3, <2>4, <2>5, <2>6, <2>7 DEF IInv, GatewayInv
<1> QED BY <1>4, <1>5

(* The assignment arrives and the control socket is opened.                *)
LEMMA AssignedKeeps == ASSUME IInv, Assigned PROVE IInv'
<1> GatewayTypes /\ NetTypes /\ RelayTypes /\ GatewayInv /\ AgreementInv BY DEF IInv
<1> DEFINE new(t) == [up |-> TRUE, hello |-> "sent", secret |-> secret, tr |-> t, inbox |-> <<>>]
<1>1. /\ UNCHANGED <<stopped, control, timer, secret, transport, sockets, rec, acking, conns,
                     opened, faults>>
      /\ att.phase = "assign"
    BY DEF Assigned, relayVars
<1>2. PICK t \in Transports, l \in Links :
          /\ Unused(l)
          /\ \/ t = transport /\ UNCHANGED <<gen, attached>>
             \/ Free(t) /\ gen' = [gen EXCEPT ![t] = 0] /\ attached' = attached \cup {t}
          /\ att' = [att EXCEPT !.phase = "connect", !.link = l, !.tr = t, !.prev = transport]
          /\ links' = [links EXCEPT ![l] = new(t)]
    BY DEF Assigned, Least
<1>3. /\ att' \in Attempts /\ att'.phase = "connect" /\ att'.link = l /\ att'.tr = t
      /\ att'.prev = transport /\ att'.first = att.first
    BY <1>2 DEF GatewayTypes, Attempts, Phases
<1>4. new(t) \in LinkStates /\ new(t).hello = "sent" /\ new(t).inbox = <<>>
    BY DEF GatewayTypes, LinkStates
<1> HIDE DEF new
<1>5. t # 0 /\ l # 0 BY GatewayAssumption
<1>6. gen' \in [Transports -> GenOrNone] /\ attached' \subseteq Transports
    BY <1>2 DEF GatewayTypes, GenOrNone
<1>7. GatewayTypes' BY <1>1, <1>3, <1>6 DEF GatewayTypes
<1>8. NetTypes' BY <1>1, <1>2, <1>4 DEF NetTypes
<1>9. RelayTypes' BY <1>1 DEF RelayTypes
<1>10. t # transport => t \in attached' /\ t \notin attached BY <1>2 DEF Free
<1>11. AttemptOK' BY <1>1, <1>3, <1>5, <1>10 DEF GatewayInv, AttemptOK, OwnTransport
<1>12. attached \subseteq attached' /\ attached' \subseteq attached \cup {t} BY <1>2
<1>13. \A u \in attached : u = transport BY <1>1 DEF GatewayInv, AttachedOK, OwnTransport
<1>14. AttachedOK'
    BY <1>1, <1>3, <1>12, <1>13 DEF GatewayInv, AttachedOK, OwnTransport
<1>15. NeverStranded' /\ OneAttempt' BY <1>1, <1>3 DEF GatewayInv, NeverStranded, OneAttempt
<1>16. /\ l # control /\ l # rec.control
       /\ \A a \in acking : a.link # l
    BY <1>2 DEF Unused
<1>17. links'[l] = new(t) /\ \A k \in Links : k # l => links'[k] = links[k]
    BY <1>2 DEF NetTypes
<1>18. HelloOK' BY <1>1, <1>3, <1>4, <1>16, <1>17 DEF AgreementInv, HelloOK
<1>19. AckOK' BY <1>1, <1>3, <1>16, <1>17 DEF AgreementInv, AckOK
<1>20. control # 0 => gen'[transport] = gen[transport]
    BY <1>2, <1>10 DEF GatewayInv, AttachedOK, GatewayTypes, Free
<1>21. BothEndsAgree' BY <1>1, <1>20 DEF AgreementInv, BothEndsAgree
<1> QED BY <1>7, <1>8, <1>9, <1>11, <1>14, <1>15, <1>18, <1>19, <1>21
        DEF IInv, GatewayInv, AgreementInv

(* The assignment fails.                                                   *)
LEMMA AssignFailsKeeps == ASSUME IInv, AssignFails PROVE IInv'
<1>1. faults' \in 0..MaxFaults BY GatewayAssumption DEF IInv, RelayTypes, AssignFails
<1> QED BY <1>1, AttemptFailsKeeps DEF AssignFails

(* The acknowledged attempt goes on.                                       *)
LEMMA ActivateKeeps == ASSUME IInv, Activate PROVE IInv'
<1> GatewayTypes /\ NetTypes /\ RelayTypes /\ GatewayInv /\ AgreementInv BY DEF IInv
<1>1. att.phase = "acked" /\ UNCHANGED <<rec, acking, conns, opened, faults>>
    BY DEF Activate, relayVars
<1>2. CASE AttemptFails
    <2>1. faults' \in 0..MaxFaults BY <1>1 DEF RelayTypes
    <2> QED BY <1>1, <1>2, <2>1, AttemptFailsKeeps DEF relayVars
<1>3. CASE ~AttemptFails
    <2>1. /\ ~stopped
          /\ gen' = [gen EXCEPT ![att.tr] = att.gen]
          /\ secret' = att.secret /\ control' = att.link /\ transport' = att.tr
          /\ links' = links
        BY <1>3 DEF Activate, Fenced
    <2>2. /\ att.link \in Links /\ att.tr \in Transports /\ att.prev = transport
          /\ att.link # 0 /\ att.tr # 0 /\ att.gen \in GenOrNone /\ att.secret \in SecretOrNone
        BY <1>1, <2>1 DEF GatewayInv, AttemptOK, GatewayTypes, Attempts
    <2>3. att.tr \in attached
        BY <1>1, <2>2 DEF GatewayInv, AttemptOK, AttachedOK, OwnTransport
    <2>4. RelayTypes' BY <1>1 DEF RelayTypes
    <2>5. att'.phase # "acked" => HelloOK' BY <1>1, <2>1 DEF AgreementInv, HelloOK
    <2>6. gen'[att.tr] = att.gen BY <2>1, <2>2 DEF GatewayTypes
    <2>7. BothEndsAgree' BY <1>1, <2>1, <2>6 DEF AgreementInv, AckOK, BothEndsAgree
    <2>8. gen' \in [Transports -> GenOrNone] BY <2>1, <2>2 DEF GatewayTypes
    <2>9. CASE att.prev \in {0, att.tr} /\ Ended(stopped, att.link) /\ UNCHANGED <<attached, sockets>>
        <3>1. att' = NoAttempt /\ stopped' = stopped /\ timer' = timer
            BY <2>2, <2>9 DEF Ended, GatewayTypes
        <3>2. GatewayTypes' BY <2>1, <2>2, <2>8, <2>9, <3>1, NoAttemptFields DEF GatewayTypes
        <3>3. NetTypes' BY <2>1, <2>9 DEF NetTypes
        <3>4. AttemptOK' BY <3>1, NoAttemptFields DEF AttemptOK, OwnTransport
        <3>5. AttachedOK'
            BY <2>1, <2>2, <2>3, <2>9, <3>1, NoAttemptFields, GatewayAssumption
            DEF GatewayInv, AttachedOK, OwnTransport, GatewayTypes
        <3>6. NeverStranded' /\ OneAttempt'
            BY <2>1, <2>2, <3>1, NoAttemptFields DEF NeverStranded, OneAttempt
        <3>7. AckOK' BY <1>1, <2>1, <3>1, NoAttemptFields DEF AgreementInv, AckOK
        <3> QED BY <2>4, <2>5, <2>7, <3>1, <3>2, <3>3, <3>4, <3>5, <3>6, <3>7, NoAttemptFields
                DEF IInv, GatewayInv, AgreementInv
    <2>10. CASE /\ att.prev \notin {0, att.tr}
                /\ attached' = attached \ {att.prev}
                /\ sockets' = Terminated(att.prev)
                /\ att' = [att EXCEPT !.phase = "settle"]
                /\ UNCHANGED <<stopped, timer>>
        <3>1. att' \in Attempts /\ att'.phase = "settle" /\ att'.first = att.first
            BY <2>10 DEF GatewayTypes, Attempts, Phases
        <3>2. GatewayTypes' BY <2>1, <2>2, <2>8, <2>10, <3>1 DEF GatewayTypes
        <3>3. NetTypes' BY <2>1, <2>10, TerminatedEffect DEF NetTypes
        <3>4. ~att.first BY <2>2, <2>10 DEF GatewayInv, AttemptOK
        <3>5. AttemptOK' BY <3>1, <3>4 DEF AttemptOK, OwnTransport
        <3>6. \A s \in sockets' : s.st # "dead" => s.tr \in attached'
            BY <2>10, TerminatedEffect DEF GatewayInv, AttachedOK
        <3>7. AttachedOK'
            BY <2>1, <2>2, <2>3, <2>10, <3>1, <3>6 DEF GatewayInv, AttachedOK, OwnTransport
        <3>8. NeverStranded' /\ OneAttempt'
            BY <1>1, <2>10, <3>1 DEF GatewayInv, NeverStranded, OneAttempt
        <3>9. AckOK' BY <1>1, <2>1, <3>1 DEF AgreementInv, AckOK
        <3> QED BY <2>4, <2>5, <2>7, <3>1, <3>2, <3>3, <3>5, <3>7, <3>8, <3>9
                DEF IInv, GatewayInv, AgreementInv
    <2> QED BY <1>3, <2>9, <2>10 DEF Activate
<1> QED BY <1>2, <1>3

(* The transport that was stopped is gone and the attempt ends.            *)
LEMMA SettledKeeps == ASSUME IInv, Settled PROVE IInv'
<1> GatewayTypes /\ NetTypes /\ RelayTypes /\ GatewayInv /\ AgreementInv BY DEF IInv
<1> DEFINE stop == stopped \/ (att.phase = "failing" /\ att.first)
<1>1. /\ UNCHANGED <<control, secret, transport, gen, attached, sockets, links, rec, acking, conns,
                     opened, faults>>
      /\ att.phase \in {"settle", "failing"}
      /\ att' = NoAttempt /\ stopped' = stop
      /\ timer' = (timer \/ (~att.first /\ ~stop /\ control = 0))
    BY DEF Settled, Ended, netVars, relayVars
<1>2. att.first => att.phase = "failing" /\ control = 0 /\ transport = 0
    BY <1>1 DEF GatewayInv, AttemptOK
<1>3. att.first \in BOOLEAN BY DEF GatewayTypes, Attempts
<1>4. GatewayTypes' BY <1>1, <1>3, NoAttemptFields DEF GatewayTypes
<1>5. NetTypes' /\ RelayTypes' BY <1>1 DEF NetTypes, RelayTypes
<1>6. AttemptOK' BY <1>1, NoAttemptFields DEF AttemptOK, OwnTransport
<1>7. AttachedOK' BY <1>1, <1>2, NoAttemptFields DEF GatewayInv, AttachedOK, OwnTransport
<1>8. NeverStranded' /\ OneAttempt' BY <1>1, <1>2, <1>3, NoAttemptFields DEF NeverStranded, OneAttempt
<1>9. AgreementInv' BY <1>1, NoAttemptFields, AgreementUntouched
<1> QED BY <1>4, <1>5, <1>6, <1>7, <1>8, <1>9 DEF IInv, GatewayInv

(* stop()                                                                  *)
LEMMA StopKeeps == ASSUME IInv, Stop PROVE IInv'
<1> GatewayTypes /\ NetTypes /\ RelayTypes /\ GatewayInv /\ AgreementInv BY DEF IInv
<1>1. /\ UNCHANGED <<att, gen, rec, acking, conns, opened, faults>>
      /\ ~att.first
      /\ stopped' = TRUE /\ timer' = FALSE /\ control' = 0 /\ transport' = 0 /\ secret' = 0
      /\ attached' = attached \ {transport} /\ sockets' = Terminated(transport)
    BY DEF Stop, relayVars
<1>2. /\ links' \in [Links -> LinkStates]
      /\ \A l \in Links : /\ links'[l].hello = links[l].hello
                          /\ links'[l].inbox = links[l].inbox \/ links'[l].inbox = <<>>
    <2>1. CASE control = 0 BY <2>1 DEF Stop, NetTypes
    <2>2. CASE control # 0
        <3>1. control \in Links /\ links' = Closed(control) BY <2>2 DEF Stop, GatewayTypes
        <3> QED BY <3>1, ClosedEffect
    <2> QED BY <2>1, <2>2
<1>3. GatewayTypes' BY <1>1 DEF GatewayTypes, SecretOrNone
<1>4. NetTypes' BY <1>1, <1>2, TerminatedEffect DEF NetTypes
<1>5. RelayTypes' BY <1>1 DEF RelayTypes
<1>6. OwnTransport => att.tr \in attached' /\ att.tr # 0
    BY <1>1 DEF GatewayInv, AttemptOK, OwnTransport
<1>7. AttemptOK' BY <1>1, <1>6 DEF GatewayInv, AttemptOK, OwnTransport
<1>8. \A s \in sockets' : s.st # "dead" => s.tr \in attached'
    BY <1>1, TerminatedEffect DEF GatewayInv, AttachedOK
<1>9. AttachedOK' BY <1>1, <1>8 DEF GatewayInv, AttachedOK, OwnTransport
<1>10. NeverStranded' /\ OneAttempt' BY <1>1 DEF GatewayInv, NeverStranded, OneAttempt
<1>11. HelloOK' BY <1>1, <1>2, GatewayAssumption DEF AgreementInv, HelloOK
<1>12. Acks(<<>>, rec.gen, rec.secret) BY DEF Acks
<1>13. AckOK' BY <1>1, <1>2, <1>12 DEF AgreementInv, AckOK
<1>14. BothEndsAgree' BY <1>1 DEF BothEndsAgree
<1> QED BY <1>3, <1>4, <1>5, <1>7, <1>9, <1>10, <1>11, <1>13, <1>14
        DEF IInv, GatewayInv, AgreementInv

(* A socket dialled for an announced connection.                           *)
LEMMA OpenConnectionEffect ==
    ASSUME NetTypes, GatewayTypes, AttachedOK, NEW t, NEW c \in 1..MaxConns
    PROVE  /\ OpenConnection(t, c) \subseteq Sockets
           /\ \A s \in OpenConnection(t, c) : s.st # "dead" => s.tr \in attached
<1> DEFINE n == [conn |-> c, tr |-> t, st |-> "opening", gen |-> 0]
<1>1. t \in attached => n \in Sockets /\ n.tr = t BY DEF Sockets, GatewayTypes, GenOrNone
<1>2. OpenConnection(t, c) = sockets \/ (t \in attached /\ OpenConnection(t, c) = sockets \cup {n})
    BY DEF OpenConnection
<1> HIDE DEF n
<1> QED BY <1>1, <1>2 DEF NetTypes, AttachedOK

(* A message is read on a control connection.                              *)
LEMMA ReceiveKeeps == ASSUME IInv, NEW l \in Links, Receive(l) PROVE IInv'
<1> GatewayTypes /\ NetTypes /\ RelayTypes /\ GatewayInv /\ AgreementInv BY DEF IInv
<1> DEFINE q == links[l].inbox
           m == Head(links[l].inbox)
           rest == [links EXCEPT ![l].inbox = Tail(@)]
<1>1. q # <<>> /\ UNCHANGED <<rec, acking, conns, opened, faults>>
    BY DEF Receive, relayVars
<1>2. links[l] \in LinkStates /\ q \in Seq(Messages) BY DEF NetTypes, LinkStates
<1>3. Tail(q) \in Seq(Messages) /\ m \in Messages BY <1>1, <1>2
<1>4. l = rec.control => /\ Acks(Tail(q), rec.gen, rec.secret)
                         /\ m.type = "ack" => m.gen = rec.gen /\ m.secret = rec.secret
    BY <1>1, <1>2, AcksTail DEF AgreementInv, AckOK
<1> DEFINE r == [links[l] EXCEPT !.inbox = Tail(q)]
<1>5. r \in LinkStates /\ r.inbox = Tail(q) /\ r.hello = links[l].hello
    BY <1>2, <1>3 DEF LinkStates
<1>6. /\ rest \in [Links -> LinkStates] /\ rest[l] = r
      /\ \A k \in Links : k # l => rest[k] = links[k]
    BY <1>5 DEF NetTypes
<1>7. links[l].hello # "sent" BY <1>1 DEF AgreementInv, HelloOK
<1>8. RelayTypes' BY <1>1 DEF RelayTypes
<1>9. faults' \in 0..MaxFaults BY <1>1 DEF RelayTypes
<1> HIDE DEF r
<1>10. CASE /\ att.link = l /\ att.phase = "connect" /\ m.type = "ack"
            /\ att' = [att EXCEPT !.phase = "acked", !.gen = m.gen, !.secret = m.secret]
            /\ links' = rest
            /\ UNCHANGED <<stopped, control, timer, secret, transport, gen, attached, sockets>>
    <2> HIDE DEF rest
    <2>1. m.gen \in GenOrNone /\ m.secret \in SecretOrNone
        BY <1>3 DEF Messages, GenOrNone, SecretOrNone
    <2> HIDE DEF m, q
    <2>2. /\ att' \in Attempts /\ att'.phase = "acked" /\ att'.gen = m.gen /\ att'.secret = m.secret
          /\ att'.link = l /\ att'.tr = att.tr /\ att'.prev = att.prev /\ att'.first = att.first
        BY <1>10, <2>1 DEF GatewayTypes, Attempts, Phases
    <2>3. GatewayTypes' BY <1>10, <2>2 DEF GatewayTypes
    <2>4. NetTypes' BY <1>6, <1>10 DEF NetTypes
    <2>5. AttemptOK' /\ AttachedOK'
        BY <1>10, <2>2 DEF GatewayInv, AttemptOK, AttachedOK, OwnTransport
    <2>6. NeverStranded' /\ OneAttempt' BY <1>10, <2>2 DEF GatewayInv, NeverStranded, OneAttempt
    <2>7. HelloOK' BY <1>1, <1>5, <1>6, <1>7, <1>10, <2>2 DEF AgreementInv, HelloOK
    <2>8. AckOK' BY <1>1, <1>4, <1>5, <1>6, <1>10, <2>2 DEF AgreementInv, AckOK
    <2>9. BothEndsAgree' BY <1>1, <1>10 DEF AgreementInv, BothEndsAgree
    <2> QED BY <1>8, <2>3, <2>4, <2>5, <2>6, <2>7, <2>8, <2>9 DEF IInv, GatewayInv, AgreementInv
<1>11. CASE att.link = l /\ att.phase = "connect" /\ m.type = "conn-open" /\ AttemptFails
    BY <1>1, <1>9, <1>11, AttemptFailsKeeps DEF relayVars
<1>12. CASE /\ m.type = "conn-open"
            /\ sockets' = OpenConnection(links[l].tr, m.conn)
            /\ links' = rest
            /\ UNCHANGED gatewayVars
    <2> HIDE DEF rest
    <2>1. m.conn \in 1..MaxConns BY <1>3, <1>12 DEF Messages
    <2> HIDE DEF m, q
    <2>2. sockets' \subseteq Sockets /\ \A s \in sockets' : s.st # "dead" => s.tr \in attached
        BY <1>12, <2>1, OpenConnectionEffect DEF GatewayInv
    <2>3. UNCHANGED <<stopped, control, timer, att, secret, transport, gen, attached>>
        BY <1>12 DEF gatewayVars
    <2>4. GatewayTypes' BY <2>3 DEF GatewayTypes
    <2>5. NetTypes' BY <1>6, <1>12, <2>2 DEF NetTypes
    <2>6. GatewayInv' BY <1>12, <2>2, GatewayUntouched
    <2>7. HelloOK' BY <1>1, <1>5, <1>6, <1>7, <1>12, <2>3 DEF AgreementInv, HelloOK
    <2>8. AckOK' BY <1>1, <1>4, <1>5, <1>6, <1>12, <2>3 DEF AgreementInv, AckOK
    <2>9. BothEndsAgree' BY <1>1, <2>3 DEF AgreementInv, BothEndsAgree
    <2> QED BY <1>8, <2>4, <2>5, <2>6, <2>7, <2>8, <2>9 DEF IInv, AgreementInv
<1> QED BY <1>10, <1>11, <1>12 DEF Receive

(* The close event of a control socket.                                    *)
LEMMA HandleCloseKeeps == ASSUME IInv, NEW l \in Links, HandleClose(l) PROVE IInv'
<1> GatewayTypes /\ NetTypes /\ RelayTypes /\ GatewayInv /\ AgreementInv BY DEF IInv
<1>1. UNCHANGED <<rec, acking, conns, opened, faults>> BY DEF HandleClose, relayVars
<1>2. RelayTypes' /\ faults' \in 0..MaxFaults BY <1>1 DEF RelayTypes
<1>3. CASE att.phase = "connect" /\ AttemptFails
    BY <1>1, <1>2, <1>3, AttemptFailsKeeps DEF relayVars
<1>4. CASE ControlCloses(l)
    <2>1. /\ control' = 0 /\ timer' = (timer \/ (~stopped /\ att.phase = "none"))
          /\ UNCHANGED <<stopped, att, secret, transport, gen, attached, sockets, links>>
        BY <1>4 DEF ControlCloses, netVars
    <2>2. GatewayTypes' /\ NetTypes' BY <2>1 DEF GatewayTypes, NetTypes
    <2>3. AttemptOK' /\ AttachedOK' BY <2>1 DEF GatewayInv, AttemptOK, AttachedOK, OwnTransport
    <2>4. NeverStranded' /\ OneAttempt' BY <2>1 DEF GatewayInv, NeverStranded, OneAttempt
    <2>5. AgreementInv' BY <1>1, <2>1, GatewayAssumption, LinksClose
    <2> QED BY <1>2, <2>2, <2>3, <2>4, <2>5 DEF IInv, GatewayInv
<1> QED BY <1>3, <1>4 DEF HandleClose

(***************************************************************************)
(* The network's and the relay's actions                                   *)
(***************************************************************************)

(* A data socket opens, is answered, fails or closes.                      *)
LEMMA SocketKeeps ==
    ASSUME IInv, NEW s \in sockets,
           SocketOpens(s) \/ SocketFails(s) \/ SocketCloses(s) \/ HostData(s)
    PROVE  IInv'
<1> GatewayTypes /\ NetTypes /\ RelayTypes /\ GatewayInv /\ AgreementInv BY DEF IInv
<1>1. UNCHANGED gatewayVars /\ UNCHANGED <<links, rec, acking, conns, opened, faults>>
    BY DEF SocketOpens, SocketFails, SocketCloses, HostData, relayVars
<1>2. UNCHANGED <<stopped, control, timer, att, secret, transport, gen, attached>>
    BY <1>1 DEF gatewayVars
<1>3. s \in Sockets /\ gen[s.tr] \in GenOrNone BY DEF NetTypes, GatewayTypes, Sockets
<1>4. \A x \in sockets' : x \in Sockets /\ (x.st # "dead" => x \in sockets \/ (x.tr = s.tr /\ s.st # "dead"))
    <2>1. CASE SocketOpens(s)
        <3> DEFINE n == [s EXCEPT !.st = "auth", !.gen = gen[s.tr]]
        <3>1. n \in Sockets /\ n.tr = s.tr BY <1>3 DEF Sockets
        <3>2. sockets' = (sockets \ {s}) \cup {n} /\ s.st = "opening" BY <2>1 DEF SocketOpens
        <3> HIDE DEF n
        <3> QED BY <3>1, <3>2 DEF NetTypes
    <2>2. CASE SocketCloses(s) BY <2>2 DEF SocketCloses, NetTypes
    <2>3. CASE HostData(s)
        <3>1. PICK st \in {"attached", "dead"} : sockets' = (sockets \ {s}) \cup {[s EXCEPT !.st = st]}
            BY <2>3 DEF HostData
        <3>2. [s EXCEPT !.st = st] \in Sockets /\ [s EXCEPT !.st = st].tr = s.tr
            BY <1>3 DEF Sockets
        <3>3. s.st = "auth" BY <2>3 DEF HostData
        <3> QED BY <3>1, <3>2, <3>3 DEF NetTypes
    <2>4. CASE SocketFails(s)
        <3>1. sockets' = (sockets \ {s}) \cup {[s EXCEPT !.st = "dead"]} BY <2>4 DEF SocketFails
        <3>2. [s EXCEPT !.st = "dead"] \in Sockets /\ [s EXCEPT !.st = "dead"].st = "dead"
            BY <1>3 DEF Sockets
        <3> QED BY <3>1, <3>2 DEF NetTypes
    <2> QED BY <2>1, <2>2, <2>3, <2>4
<1>5. \A x \in sockets' : x.st # "dead" => x.tr \in attached
    BY <1>4 DEF GatewayInv, AttachedOK
<1>6. GatewayTypes' BY <1>2 DEF GatewayTypes
<1>7. NetTypes' BY <1>1, <1>4 DEF NetTypes
<1>8. RelayTypes' BY <1>1 DEF RelayTypes
<1>9. GatewayInv' BY <1>1, <1>5, GatewayUntouched
<1>10. AgreementInv' BY <1>1, <1>2, AgreementUntouched
<1> QED BY <1>6, <1>7, <1>8, <1>9, <1>10 DEF IInv

(* A step of the relay that leaves the gateway and its sockets alone.      *)
LEMMA RelayStep ==
    ASSUME IInv, UNCHANGED gatewayVars, sockets' = sockets
    PROVE  GatewayTypes' /\ GatewayInv'
<1>1. GatewayTypes' BY DEF IInv, GatewayTypes, gatewayVars
<1>2. \A s \in sockets' : s.st # "dead" => s.tr \in attached BY DEF IInv, GatewayInv, AttachedOK
<1>3. GatewayInv' BY <1>2, GatewayUntouched DEF IInv
<1> QED BY <1>1, <1>3

(* The generation a hello is given is counted from the record's.           *)
LEMMA NewGenerationType ==
    ASSUME RelayTypes, NEW l, NewGeneration(l) <= MaxGen
    PROVE  /\ NewGeneration(l) \in GenOrNone
           /\ NewGeneration(l) = rec.gen \/ NewGeneration(l) = rec.gen + 1
<1>1. rec.gen \in 0..MaxGen /\ MaxGen \in Nat /\ GenOrNone = 0..MaxGen
    BY GatewayAssumption DEF RelayTypes, Records, GenOrNone, Gens
<1> QED BY <1>1 DEF NewGeneration

(* The relay records a hello.                                              *)
LEMMA HostHelloKeeps == ASSUME IInv, NEW l \in Links, HostHello(l) PROVE IInv'
<1> GatewayTypes /\ NetTypes /\ RelayTypes /\ GatewayInv /\ AgreementInv BY DEF IInv
<1>1. /\ links[l].hello = "sent"
      /\ UNCHANGED gatewayVars /\ UNCHANGED <<sockets, conns, opened, faults>>
    BY DEF HostHello
<1>2. UNCHANGED <<stopped, control, timer, att, secret, transport, gen, attached>>
    BY <1>1 DEF gatewayVars
<1> DEFINE g == NewGeneration(l)
<1>3. PICK k \in Secrets :
          /\ rec' = [gen |-> g, secret |-> k, control |-> l]
          /\ acking' = acking \cup {[link |-> l, gen |-> g, secret |-> k]}
    BY DEF HostHello, HostRecord, Least
<1> DEFINE n == [link |-> l, gen |-> g, secret |-> k]
<1>4. g \in GenOrNone BY NewGenerationType DEF HostHello
<1> HIDE DEF g
<1>5. n \in Ackings /\ n.link = l /\ n.gen = g /\ n.secret = k
    BY <1>4 DEF Ackings, SecretOrNone
<1>6. rec' \in Records /\ rec'.gen = g /\ rec'.secret = k /\ rec'.control = l
    BY <1>3, <1>4 DEF Records, SecretOrNone
<1> HIDE DEF n
<1>7. acking' = acking \cup {n} BY <1>3 DEF n
<1>8. RelayTypes' BY <1>1, <1>5, <1>6, <1>7 DEF RelayTypes
<1>9. \A i \in Links :
          /\ links'[i] \in LinkStates
          /\ links'[i].inbox = links[i].inbox
          /\ links'[i].hello = IF i = l THEN "done" ELSE links[i].hello
    <2> SUFFICES ASSUME NEW i \in Links
                 PROVE  /\ links'[i] \in LinkStates
                        /\ links'[i].inbox = links[i].inbox
                        /\ links'[i].hello = IF i = l THEN "done" ELSE links[i].hello
        OBVIOUS
    <2>1. links[i] \in LinkStates BY DEF NetTypes
    <2>2. links'[i] = IF i = l THEN [links[i] EXCEPT !.hello = "done", !.secret = 0]
                      ELSE IF i = rec.control THEN [links[i] EXCEPT !.up = FALSE]
                      ELSE links[i]
        BY DEF HostHello
    <2>3. CASE i = l
        <3> DEFINE x == links[i]
        <3>1. x \in LinkStates /\ 0 \in SecretOrNone BY <2>1 DEF SecretOrNone
        <3> HIDE DEF x
        <3>2. /\ [x EXCEPT !.hello = "done", !.secret = 0] \in LinkStates
              /\ [x EXCEPT !.hello = "done", !.secret = 0].inbox = x.inbox
              /\ [x EXCEPT !.hello = "done", !.secret = 0].hello = "done"
            BY <3>1 DEF LinkStates
        <3> QED BY <2>2, <2>3, <3>2 DEF x
    <2>4. CASE i # l /\ i = rec.control BY <2>1, <2>2, <2>4 DEF LinkStates
    <2>5. CASE i # l /\ i # rec.control BY <2>1, <2>2, <2>5
    <2> QED BY <2>3, <2>4, <2>5
<1>10. links' \in [Links -> LinkStates]
    <2>1. links' = [i \in Links |-> links'[i]] BY DEF HostHello
    <2> QED BY <1>9, <2>1
<1>11. NetTypes' BY <1>1, <1>10 DEF NetTypes
<1>12. HelloOK' BY <1>2, <1>5, <1>6, <1>7, <1>9 DEF AgreementInv, HelloOK
<1>13. /\ l # control /\ links[l].inbox = <<>>
       /\ \A a \in acking : a.link # l
       /\ att.phase = "acked" => att.link # l
    BY <1>1 DEF AgreementInv, HelloOK
<1>14. Acks(<<>>, g, k) BY DEF Acks
<1>15. AckOK' BY <1>2, <1>5, <1>6, <1>7, <1>9, <1>13, <1>14 DEF AckOK
<1>16. BothEndsAgree' BY <1>2, <1>6, <1>13 DEF BothEndsAgree
<1> QED BY <1>1, <1>8, <1>11, <1>12, <1>15, <1>16, RelayStep DEF IInv, AgreementInv

(* A message sent on a link.                                               *)
LEMMA SendEffect ==
    ASSUME NetTypes, NEW l \in Links, NEW m \in Messages
    PROVE  /\ Send(l, m) \in [Links -> LinkStates]
           /\ Send(l, m)[l].inbox = Append(links[l].inbox, m)
           /\ Send(l, m)[l].hello = links[l].hello /\ Send(l, m)[l].tr = links[l].tr
           /\ \A k \in Links : k # l => Send(l, m)[k] = links[k]
<1>1. links[l] \in LinkStates BY DEF NetTypes
<1>2. Append(links[l].inbox, m) \in Seq(Messages) BY <1>1 DEF LinkStates
<1> DEFINE r == [links[l] EXCEPT !.inbox = Append(@, m)]
<1>3. /\ r \in LinkStates /\ r.inbox = Append(links[l].inbox, m)
      /\ r.hello = links[l].hello /\ r.tr = links[l].tr
    BY <1>1, <1>2 DEF LinkStates
<1>4. Send(l, m) = [links EXCEPT ![l] = r] BY DEF Send
<1> HIDE DEF r
<1> QED BY <1>3, <1>4 DEF NetTypes

(* The record loses its control connection, or keeps it.                   *)
LEMMA ClearControlEffect ==
    ASSUME RelayTypes, NEW l
    PROVE  /\ ClearControl(l) \in Records
           /\ ClearControl(l).gen = rec.gen /\ ClearControl(l).secret = rec.secret
           /\ ClearControl(l).control = rec.control \/ ClearControl(l).control = 0
BY DEF ClearControl, RelayTypes, Records

(* A step that clears the record's control at most.                        *)
LEMMA RecordCleared ==
    ASSUME AgreementInv, RelayTypes, AttemptOK, NEW l, rec' = ClearControl(l),
           UNCHANGED <<links, control, att, secret, transport, gen>>,
           acking' \subseteq acking
    PROVE  AgreementInv'
<1>1. /\ rec'.gen = rec.gen /\ rec'.secret = rec.secret
      /\ rec'.control = rec.control \/ rec'.control = 0
    BY ClearControlEffect
<1>2. HelloOK' BY <1>1, GatewayAssumption DEF AgreementInv, HelloOK
<1>3. \A a \in acking' : a.link = rec'.control => a.gen = rec.gen /\ a.secret = rec.secret
    <2> SUFFICES ASSUME NEW a \in acking', a.link = rec'.control
                 PROVE  a.gen = rec.gen /\ a.secret = rec.secret
        OBVIOUS
    <2>1. a.link # 0 BY GatewayAssumption DEF RelayTypes, Ackings
    <2> QED BY <1>1, <2>1 DEF AgreementInv, AckOK
<1>4. \A k \in Links : k = rec'.control => Acks(links[k].inbox, rec.gen, rec.secret)
    BY <1>1, GatewayAssumption DEF AgreementInv, AckOK
<1>5. att.phase = "acked" /\ att.link = rec'.control =>
          att.gen = rec.gen /\ att.secret = rec.secret
    BY <1>1 DEF AgreementInv, AckOK, AttemptOK
<1> QED BY <1>1, <1>2, <1>3, <1>4, <1>5 DEF AgreementInv, AckOK, BothEndsAgree

(* The acknowledgement is written, or cannot be.                           *)
LEMMA HostAckKeeps == ASSUME IInv, NEW a \in acking, HostAck(a) PROVE IInv'
<1> GatewayTypes /\ NetTypes /\ RelayTypes /\ GatewayInv /\ AgreementInv BY DEF IInv
<1>1. /\ acking' = acking \ {a}
      /\ UNCHANGED gatewayVars /\ UNCHANGED <<sockets, conns, opened, faults>>
    BY DEF HostAck
<1>2. UNCHANGED <<stopped, control, timer, att, secret, transport, gen, attached>>
    BY <1>1 DEF gatewayVars
<1>3. a.link \in Links /\ a.gen \in GenOrNone /\ a.secret \in SecretOrNone
    BY DEF RelayTypes, Ackings
<1>4. GatewayTypes' /\ GatewayInv' BY <1>1, RelayStep
<1>5. CASE rec' = ClearControl(a.link) /\ UNCHANGED links
    <2>1. RelayTypes' BY <1>1, <1>5, ClearControlEffect DEF RelayTypes
    <2>2. NetTypes' BY <1>1, <1>5 DEF NetTypes
    <2>3. AgreementInv' BY <1>1, <1>2, <1>5, RecordCleared DEF GatewayInv
    <2> QED BY <1>4, <2>1, <2>2, <2>3 DEF IInv
<1>7. CASE UNCHANGED <<rec, links>>
    <2>1. RelayTypes' /\ NetTypes' BY <1>1, <1>7 DEF RelayTypes, NetTypes
    <2>2. AgreementInv'
        BY <1>1, <1>2, <1>7 DEF AgreementInv, HelloOK, AckOK, BothEndsAgree
    <2> QED BY <1>4, <2>1, <2>2 DEF IInv
<1>6. CASE /\ links' = Send(a.link, [type |-> "ack", conn |-> 0, gen |-> a.gen, secret |-> a.secret])
           /\ UNCHANGED rec
    <2> DEFINE m == [type |-> "ack", conn |-> 0, gen |-> a.gen, secret |-> a.secret]
    <2>1. m \in Messages /\ m.gen = a.gen /\ m.secret = a.secret BY <1>3 DEF Messages
    <2>2. links' = Send(a.link, m) BY <1>6
    <2> HIDE DEF m
    <2>3. /\ links' \in [Links -> LinkStates]
          /\ links'[a.link].inbox = Append(links[a.link].inbox, m)
          /\ links'[a.link].hello = links[a.link].hello
          /\ \A k \in Links : k # a.link => links'[k] = links[k]
        BY <1>3, <2>1, <2>2, SendEffect
    <2>4. RelayTypes' BY <1>1, <1>6 DEF RelayTypes
    <2>5. NetTypes' BY <1>1, <2>3 DEF NetTypes
    <2>6. links[a.link].hello # "sent" BY <1>3 DEF AgreementInv, HelloOK
    <2>7. HelloOK' BY <1>1, <1>2, <1>6, <2>3, <2>6 DEF AgreementInv, HelloOK
    <2>8. links[a.link].inbox \in Seq(Messages) BY <1>3 DEF NetTypes, LinkStates
    <2>9. a.link = rec.control => Acks(links'[a.link].inbox, rec.gen, rec.secret)
        BY <1>3, <2>1, <2>3, <2>8, AcksAppend DEF AgreementInv, AckOK
    <2>10. AckOK' BY <1>1, <1>2, <1>6, <2>3, <2>9 DEF AgreementInv, AckOK
    <2>11. BothEndsAgree' BY <1>2, <1>6 DEF AgreementInv, BothEndsAgree
    <2> QED BY <1>4, <2>4, <2>5, <2>7, <2>10, <2>11 DEF IInv, AgreementInv
<1> QED BY <1>5, <1>6, <1>7 DEF HostAck

(* The relay's read of a control connection fails.                         *)
LEMMA ControlReadFailsKeeps == ASSUME IInv, NEW l \in Links, ControlReadFails(l) PROVE IInv'
<1>1. /\ rec' = ClearControl(l)
      /\ UNCHANGED gatewayVars /\ UNCHANGED <<sockets, links, acking, conns, opened, faults>>
    BY DEF ControlReadFails, netVars
<1>2. UNCHANGED <<control, att, secret, transport, gen>> BY <1>1 DEF gatewayVars
<1>3. RelayTypes' BY <1>1, ClearControlEffect DEF IInv, RelayTypes
<1>4. NetTypes' BY <1>1 DEF IInv, NetTypes
<1>5. AgreementInv' BY <1>1, <1>2, RecordCleared DEF IInv, GatewayInv
<1> QED BY <1>1, <1>3, <1>4, <1>5, RelayStep DEF IInv

(* A phone connects and the host is told.                                  *)
LEMMA PhoneConnectsKeeps == ASSUME IInv, PhoneConnects PROVE IInv'
<1> GatewayTypes /\ NetTypes /\ RelayTypes /\ GatewayInv /\ AgreementInv BY DEF IInv
<1> DEFINE c == [id |-> opened + 1, gen |-> rec.gen]
           m == [type |-> "conn-open", conn |-> opened + 1, gen |-> 0, secret |-> 0]
<1>1. /\ opened < MaxConns /\ opened' = opened + 1 /\ conns' = conns \cup {c}
      /\ links' = IF links[rec.control].up THEN Send(rec.control, m) ELSE links
      /\ UNCHANGED gatewayVars /\ UNCHANGED <<sockets, rec, acking, faults>>
      /\ rec.control # 0
    BY DEF PhoneConnects
<1>2. UNCHANGED <<stopped, control, timer, att, secret, transport, gen, attached>>
    BY <1>1 DEF gatewayVars
<1>3. opened + 1 \in 1..MaxConns BY <1>1, GatewayAssumption DEF RelayTypes
<1>4. rec.control \in Links /\ rec.gen \in GenOrNone BY <1>1 DEF RelayTypes, Records
<1>5. c \in [id : 1..MaxConns, gen : GenOrNone] BY <1>3, <1>4
<1>6. m \in Messages /\ m.type = "conn-open" BY <1>3 DEF Messages
<1>7. opened' \in 0..MaxConns BY <1>1, <1>3
<1> HIDE DEF c, m
<1>8. RelayTypes' BY <1>1, <1>5, <1>7 DEF RelayTypes
<1>9. /\ links' \in [Links -> LinkStates]
      /\ links'[rec.control].hello = links[rec.control].hello
      /\ \/ links'[rec.control].inbox = Append(links[rec.control].inbox, m)
         \/ links'[rec.control].inbox = links[rec.control].inbox
      /\ \A k \in Links : k # rec.control => links'[k] = links[k]
    BY <1>1, <1>4, <1>6, SendEffect DEF NetTypes
<1>10. NetTypes' BY <1>1, <1>9 DEF NetTypes
<1>11. links[rec.control].hello # "sent" BY <1>4 DEF AgreementInv, HelloOK
<1>12. HelloOK' BY <1>1, <1>2, <1>9, <1>11 DEF AgreementInv, HelloOK
<1>13. links[rec.control].inbox \in Seq(Messages) BY <1>4 DEF NetTypes, LinkStates
<1>14. Acks(links[rec.control].inbox, rec.gen, rec.secret) BY <1>4 DEF AgreementInv, AckOK
<1>15. Acks(Append(links[rec.control].inbox, m), rec.gen, rec.secret)
    BY <1>6, <1>13, <1>14, AcksAppend
<1>16. AckOK' BY <1>1, <1>2, <1>9, <1>14, <1>15 DEF AgreementInv, AckOK
<1>17. BothEndsAgree' BY <1>1, <1>2 DEF AgreementInv, BothEndsAgree
<1> QED BY <1>1, <1>8, <1>10, <1>12, <1>16, <1>17, RelayStep DEF IInv, AgreementInv

(* A phone connection ends.                                                *)
LEMMA ConnectionEndsKeeps == ASSUME IInv, NEW c \in conns, ConnectionEnds(c) PROVE IInv'
<1>1. /\ conns' = conns \ {c}
      /\ UNCHANGED gatewayVars /\ UNCHANGED <<sockets, links, rec, acking, opened, faults>>
    BY DEF ConnectionEnds, netVars
<1>2. UNCHANGED <<control, att, secret, transport, gen>> BY <1>1 DEF gatewayVars
<1>3. NetTypes' /\ RelayTypes' BY <1>1 DEF IInv, NetTypes, RelayTypes
<1>4. AgreementInv' BY <1>1, <1>2, AgreementUntouched DEF IInv
<1> QED BY <1>1, <1>3, <1>4, RelayStep DEF IInv

(* A control connection is lost.                                           *)
LEMMA LinkLostKeeps == ASSUME IInv, NEW l \in Links, LinkLost(l) PROVE IInv'
<1> GatewayTypes /\ NetTypes /\ RelayTypes /\ GatewayInv /\ AgreementInv BY DEF IInv
<1>1. UNCHANGED gatewayVars /\ UNCHANGED <<sockets, rec, acking, conns, opened>>
      /\ faults < MaxFaults /\ faults' = faults + 1
    BY DEF LinkLost, relayVars
<1>2. UNCHANGED <<control, att, secret, transport, gen>> BY <1>1 DEF gatewayVars
<1>3. faults' \in 0..MaxFaults BY <1>1, GatewayAssumption DEF RelayTypes
<1>4. RelayTypes' BY <1>1, <1>3 DEF RelayTypes
<1>5. /\ links' \in [Links -> LinkStates]
      /\ \A k \in Links : /\ links'[k].hello = links[k].hello
                          /\ links'[k].inbox = links[k].inbox \/ links'[k].inbox = <<>>
    <2>1. CASE links' = Closed(l) BY <2>1, ClosedEffect
    <2>2. CASE links' = [links EXCEPT ![l].up = FALSE]
        <3>1. links[l] \in LinkStates BY DEF NetTypes
        <3> DEFINE r == [links[l] EXCEPT !.up = FALSE]
        <3>2. r \in LinkStates /\ r.hello = links[l].hello /\ r.inbox = links[l].inbox
            BY <3>1 DEF LinkStates
        <3>3. links' = [links EXCEPT ![l] = r] BY <2>2
        <3> HIDE DEF r
        <3> QED BY <3>2, <3>3 DEF NetTypes
    <2> QED BY <2>1, <2>2 DEF LinkLost
<1>6. NetTypes' BY <1>1, <1>5 DEF NetTypes
<1>7. AgreementInv' BY <1>1, <1>2, <1>5, GatewayAssumption, LinksClose
<1> QED BY <1>1, <1>4, <1>6, <1>7, RelayStep DEF IInv

(* The relay restarts.                                                     *)
LEMMA RelayRestartsKeeps == ASSUME IInv, RelayRestarts PROVE IInv'
<1> GatewayTypes /\ NetTypes /\ RelayTypes /\ GatewayInv /\ AgreementInv BY DEF IInv
<1>1. /\ UNCHANGED gatewayVars /\ UNCHANGED <<sockets, opened>>
      /\ rec' = NoHost /\ acking' = {} /\ conns' = {}
      /\ links' = [l \in Links |-> [links[l] EXCEPT !.up = FALSE, !.hello = "done", !.secret = 0,
                                                   !.inbox = <<>>]]
    BY DEF RelayRestarts
<1>2. UNCHANGED <<control, att, secret, transport, gen>> BY <1>1 DEF gatewayVars
<1>3. faults' \in 0..MaxFaults
    <2>1. faults < MaxFaults /\ faults' = faults + 1 BY DEF RelayRestarts
    <2> QED BY <2>1, GatewayAssumption DEF RelayTypes
<1>4. NoHost \in Records /\ NoHost.control = 0 BY DEF NoHost, Records, GenOrNone, SecretOrNone
<1>5. RelayTypes' BY <1>1, <1>3, <1>4 DEF RelayTypes
<1>6. \A l \in Links : links'[l] \in LinkStates /\ links'[l].hello = "done"
    <2> SUFFICES ASSUME NEW l \in Links PROVE links'[l] \in LinkStates /\ links'[l].hello = "done"
        OBVIOUS
    <2> DEFINE x == links[l]
    <2>1. x \in LinkStates /\ 0 \in SecretOrNone /\ <<>> \in Seq(Messages)
        BY DEF NetTypes, SecretOrNone
    <2>2. links'[l] = [x EXCEPT !.up = FALSE, !.hello = "done", !.secret = 0, !.inbox = <<>>]
        BY <1>1
    <2> HIDE DEF x
    <2> QED BY <2>1, <2>2 DEF LinkStates
<1>7. links' \in [Links -> LinkStates]
    <2>1. links' = [l \in Links |-> links'[l]] BY <1>1
    <2> QED BY <1>6, <2>1
<1>8. NetTypes' BY <1>1, <1>7 DEF NetTypes
<1>9. HelloOK' BY <1>6 DEF HelloOK
<1>10. AckOK'
    BY <1>1, <1>2, <1>4, GatewayAssumption DEF AckOK, GatewayInv, AttemptOK
<1>11. BothEndsAgree' BY <1>1, <1>4 DEF BothEndsAgree
<1> QED BY <1>1, <1>5, <1>8, <1>9, <1>10, <1>11, RelayStep DEF IInv, AgreementInv

(***************************************************************************)
(* Generations under open sockets                                          *)
(***************************************************************************)

Inbox(l) == {links[l].inbox[i] : i \in 1..Len(links[l].inbox)}

(* The connections announced on link l are of generation g.                *)
Announces(l, g) ==
    \A m \in Inbox(l), c \in conns : m.type = "conn-open" /\ m.conn = c.id => c.gen = g

(* Somebody goes by generation g on link l: an acknowledgement to be       *)
(* written, on its way or read, the relay's record, the active control.    *)
Promised(l, g) ==
    \/ \E a \in acking : a.link = l /\ a.gen = g
    \/ \E m \in Inbox(l) : m.type = "ack" /\ m.gen = g
    \/ rec.control = l /\ rec.gen = g
    \/ att.phase = "acked" /\ att.link = l /\ att.gen = g
    \/ control = l /\ gen[transport] = g

Expected == att.phase \in {"connect", "acked"}
Live(s) == s.st \in {"opening", "auth"}

(* A socket being opened for a connection of the record's generation by a  *)
(* transport that has another.                                             *)
Clash(s, c) == Live(s) /\ s.conn = c.id /\ c.gen = rec.gen /\ gen[s.tr] # c.gen

AnnounceOK == \A l \in Links, g \in GenOrNone : Promised(l, g) => Announces(l, g)

AuthGen == \A s \in sockets : s.st = "auth" => s.gen = gen[s.tr]

IdsOK ==
    /\ \A s \in sockets : Live(s) => s.conn <= opened
    /\ \A c \in conns : c.id <= opened
    /\ \A l \in Links : \A m \in Inbox(l) : m.conn <= opened

(* Generations are counted: a connection never has a later one than the    *)
(* record, so a new generation is that of no connection.                   *)
Counted == \A c \in conns : c.gen <= rec.gen

LinkTr ==
    /\ control # 0 => links[control].tr = transport
    /\ Expected => links[att.link].tr = att.tr

(* There may be such a socket while the gateway is not registered; then no *)
(* acknowledgement its transport's attempt may yet take lets it stay.      *)
ClashOK ==
    \A s \in sockets, c \in conns : Clash(s, c) =>
        /\ control = 0
        /\ Expected /\ att.tr = s.tr => ~Promised(att.link, gen[s.tr])

MInv == AnnounceOK /\ AuthGen /\ IdsOK /\ Counted /\ LinkTr /\ ClashOK

(* The messages of a link as it is emptied, read or written to.            *)
LEMMA InboxMoves ==
    ASSUME NetTypes, NEW l \in Links
    PROVE  /\ links'[l].inbox = links[l].inbox => Inbox(l)' = Inbox(l)
           /\ links'[l].inbox = <<>> => Inbox(l)' = {}
           /\ links[l].inbox # <<>> => Head(links[l].inbox) \in Inbox(l)
           /\ links[l].inbox # <<>> /\ links'[l].inbox = Tail(links[l].inbox) =>
                  Inbox(l)' \subseteq Inbox(l)
           /\ \A m \in Messages : links'[l].inbox = Append(links[l].inbox, m) =>
                  Inbox(l)' = Inbox(l) \cup {m}
<1> DEFINE q == links[l].inbox
<1>1. q \in Seq(Messages) BY DEF NetTypes, LinkStates
<1>2. Inbox(l) = {q[i] : i \in 1..Len(q)} BY DEF Inbox
<1> DEFINE p == links'[l].inbox
<1>3. Inbox(l)' = {p[i] : i \in 1..Len(p)} BY DEF Inbox
<1> HIDE DEF q, p
<1>4. p = q => Inbox(l)' = Inbox(l) BY <1>2, <1>3
<1>5. p = <<>> => Inbox(l)' = {} BY <1>3
<1>6. q # <<>> => Head(q) \in Inbox(l)
    <2> HAVE q # <<>>
    <2>1. Head(q) = q[1] /\ 1 \in 1..Len(q) BY <1>1
    <2> QED BY <1>2, <2>1
<1>7. q # <<>> /\ p = Tail(q) => Inbox(l)' \subseteq Inbox(l)
    <2> HAVE q # <<>> /\ p = Tail(q)
    <2>1. \A i \in 1..Len(p) : p[i] = q[i + 1] /\ i + 1 \in 1..Len(q) BY <1>1
    <2> QED BY <1>2, <1>3, <2>1
<1>8. ASSUME NEW m \in Messages, p = Append(q, m) PROVE Inbox(l)' = Inbox(l) \cup {m}
    <2>1. /\ Len(p) = Len(q) + 1 /\ Len(q) \in Nat /\ p[Len(q) + 1] = m
          /\ \A i \in 1..Len(q) : p[i] = q[i]
        BY <1>1, <1>8
    <2>2. 1..Len(p) = 1..Len(q) \cup {Len(q) + 1} BY <2>1
    <2> QED BY <1>2, <1>3, <2>1, <2>2
<1> QED BY <1>4, <1>5, <1>6, <1>7, <1>8 DEF q, p

(* A step after which nothing is promised or announced that was not, and   *)
(* no socket is being opened that was not.                                 *)
LEMMA QuietStep ==
    ASSUME IInv, IInv', MInv,
           gen' = gen, rec'.gen = rec.gen, rec'.control \in {rec.control, 0},
           conns' \subseteq conns, opened' = opened,
           control' = 0 \/ (control' = control /\ transport' = transport),
           Expected' => Expected /\ att'.link = att.link /\ att'.tr = att.tr,
           \A l \in Links : links'[l].tr = links[l].tr,
           \A l \in Links : \A m \in Inbox(l)' : m \in Inbox(l) \/ (m.type = "ack" /\ m.conn = 0),
           \A l \in Links, g \in GenOrNone : Promised(l, g)' => Promised(l, g),
           \A s \in sockets' : Live(s) =>
               /\ \E u \in sockets : Live(u) /\ u.conn = s.conn /\ u.tr = s.tr
               /\ s.st = "auth" => s.gen = gen[s.tr]
    PROVE  MInv'
<1> AnnounceOK /\ AuthGen /\ IdsOK /\ Counted /\ LinkTr /\ ClashOK BY DEF MInv
<1>1. \A l \in Links, g \in GenOrNone : Announces(l, g) => Announces(l, g)'
    <2> SUFFICES ASSUME NEW l \in Links, NEW g \in GenOrNone, Announces(l, g),
                        NEW m \in Inbox(l)', NEW c \in conns',
                        m.type = "conn-open", m.conn = c.id
                 PROVE  c.gen = g
        BY DEF Announces
    <2>1. m \in Inbox(l) OBVIOUS
    <2> QED BY <2>1 DEF Announces
<1>2. AnnounceOK' BY <1>1 DEF AnnounceOK
<1>3. Expected => att.link \in Links /\ att.tr \in Transports /\ gen[att.tr] \in GenOrNone
    BY DEF IInv, GatewayInv, AttemptOK, Expected, GatewayTypes, Attempts
<1>5. AuthGen' BY DEF AuthGen, Live
<1>6. IdsOK'
    <2>1. opened \in Nat BY DEF IInv, RelayTypes
    <2> QED BY <2>1 DEF IdsOK
<1>7. Counted' BY DEF Counted
<1>8. LinkTr'
    <2>1. control' # 0 => control' \in Links BY DEF IInv, GatewayTypes
    <2> QED BY <1>3, <2>1 DEF LinkTr
<1>9. ClashOK'
    <2> SUFFICES ASSUME NEW s \in sockets', NEW c \in conns', Clash(s, c)'
                 PROVE  /\ control' = 0
                        /\ Expected' /\ att'.tr = s.tr => ~Promised(att.link, gen[s.tr])'
        BY DEF ClashOK
    <2>1. PICK u \in sockets : Live(u) /\ u.conn = s.conn /\ u.tr = s.tr BY DEF Clash, Live
    <2>2. Clash(u, c) BY <2>1 DEF Clash, Live
    <2> QED BY <1>3, <2>1, <2>2 DEF ClashOK
<1> QED BY <1>2, <1>5, <1>6, <1>7, <1>8, <1>9 DEF MInv

(* A quiet step in which messages are only read or dropped.                *)
LEMMA FadingStep ==
    ASSUME IInv, IInv', MInv,
           gen' = gen, rec'.gen = rec.gen, rec'.control \in {rec.control, 0},
           conns' \subseteq conns, opened' = opened, acking' \subseteq acking,
           control' = 0 \/ (control' = control /\ transport' = transport),
           att' = att \/ ~Expected',
           \A l \in Links : links'[l].tr = links[l].tr /\ Inbox(l)' \subseteq Inbox(l),
           \A s \in sockets' : Live(s) =>
               \/ s \in sockets
               \/ /\ \E u \in sockets : Live(u) /\ u.conn = s.conn /\ u.tr = s.tr
                  /\ s.gen = gen[s.tr]
    PROVE  MInv'
<1>1. \A l \in Links, g \in GenOrNone : Promised(l, g)' => Promised(l, g)
    <2> SUFFICES ASSUME NEW l \in Links, NEW g \in GenOrNone, Promised(l, g)'
                 PROVE  Promised(l, g)
        OBVIOUS
    <2>1. l # 0 BY GatewayAssumption
    <2>2. att'.phase = "acked" => att' = att BY DEF Expected
    <2> QED BY <2>1, <2>2 DEF Promised
<1>2. Expected' => Expected /\ att'.link = att.link /\ att'.tr = att.tr BY DEF Expected
<1>3. \A s \in sockets' : Live(s) =>
          /\ \E u \in sockets : Live(u) /\ u.conn = s.conn /\ u.tr = s.tr
          /\ s.st = "auth" => s.gen = gen[s.tr]
    BY DEF MInv, AuthGen
<1> QED BY <1>1, <1>2, <1>3, QuietStep

(* Links that keep what they have to read or lose it.                      *)
LEMMA InboxesFade ==
    ASSUME NetTypes,
           \A l \in Links : links'[l].inbox = links[l].inbox \/ links'[l].inbox = <<>>
    PROVE  \A l \in Links : Inbox(l)' \subseteq Inbox(l)
BY InboxMoves

(* A failed attempt drops its link's messages and its transport's sockets. *)
LEMMA AttemptFailsMatches ==
    ASSUME IInv, IInv', MInv, AttemptFails, UNCHANGED relayVars
    PROVE  MInv'
<1>1. UNCHANGED <<control, transport, gen, rec, acking, conns, opened>>
    BY DEF AttemptFails, relayVars
<1>2. \A l \in Links : /\ links'[l].tr = links[l].tr
                       /\ links'[l].inbox = links[l].inbox \/ links'[l].inbox = <<>>
    <2>1. CASE att.link = 0 BY <2>1 DEF AttemptFails
    <2>2. CASE att.link # 0
        <3>1. att.link \in Links /\ links' = Closed(att.link) /\ NetTypes
            BY <2>2 DEF AttemptFails, IInv, GatewayTypes, Attempts
        <3> QED BY <3>1, ClosedEffect
    <2> QED BY <2>1, <2>2
<1>3. \A l \in Links : Inbox(l)' \subseteq Inbox(l) BY <1>2, InboxesFade DEF IInv
<1>4. ~Expected' /\ attached' \subseteq attached
    <2>1. CASE att' = NoAttempt /\ UNCHANGED attached BY <2>1, NoAttemptFields DEF Expected
    <2>2. CASE att' = [att EXCEPT !.phase = "failing", !.prev = att.tr] /\ attached' = attached \ {att.tr}
        <3>1. att'.phase = "failing" BY <2>2 DEF IInv, GatewayTypes, Attempts
        <3> QED BY <2>2, <3>1 DEF Expected
    <2> QED BY <2>1, <2>2 DEF AttemptFails, Ended
<1>5. \A s \in sockets' : Live(s) => s \in sockets
    <2>1. CASE sockets' = sockets BY <2>1
    <2>2. CASE sockets' = Terminated(att.tr) BY <2>2, TerminatedEffect DEF IInv, Live
    <2> QED BY <2>1, <2>2 DEF AttemptFails
<1> QED BY <1>1, <1>2, <1>3, <1>4, <1>5, FadingStep

(* The attempt goes on: sockets of the transport it activates had its      *)
(* generation already, and the others are stopped.                         *)
LEMMA ActivateMatches == ASSUME IInv, IInv', MInv, Activate PROVE MInv'
<1> AnnounceOK /\ AuthGen /\ IdsOK /\ Counted /\ LinkTr /\ ClashOK BY DEF MInv
<1>1. att.phase = "acked" /\ UNCHANGED <<rec, acking, conns, opened, faults>> /\ Expected
    BY DEF Activate, relayVars, Expected
<1>2. CASE AttemptFails BY <1>1, <1>2, AttemptFailsMatches DEF relayVars
<1>3. CASE ~AttemptFails
    <2>1. /\ ~stopped /\ ~SetGenerationRefuses(att.tr, att.gen)
          /\ gen' = [gen EXCEPT ![att.tr] = att.gen]
          /\ control' = att.link /\ transport' = att.tr
          /\ links' = links
        BY <1>3 DEF Activate, Fenced
    <2>2. /\ att.link \in Links /\ att.tr \in Transports /\ att.prev = transport
          /\ att.link # 0 /\ att.tr # 0 /\ att.gen \in GenOrNone
        BY <1>1, <2>1 DEF IInv, GatewayInv, AttemptOK, GatewayTypes, Attempts
    <2>3. gen'[att.tr] = att.gen BY <2>1, <2>2 DEF IInv, GatewayTypes
    <2>4. ~Expected'
        <3>1. CASE att' = NoAttempt BY <3>1, NoAttemptFields DEF Expected
        <3>2. CASE att' = [att EXCEPT !.phase = "settle"]
            <4>1. att'.phase = "settle" BY <3>2 DEF IInv, GatewayTypes, Attempts
            <4> QED BY <4>1 DEF Expected
        <3> QED BY <1>3, <3>1, <3>2 DEF Activate, Ended
    <2>5. \A l \in Links : Inbox(l)' = Inbox(l) BY <2>1 DEF Inbox
    <2>6. \A l \in Links, g \in GenOrNone : Promised(l, g)' => Promised(l, g)
        BY <1>1, <2>1, <2>3, <2>4, <2>5 DEF Promised, Expected
    <2>7. AnnounceOK' BY <1>1, <2>5, <2>6 DEF AnnounceOK, Announces
    <2>9. \A s \in sockets' : Live(s) => s \in sockets /\ s.tr = att.tr
        <3> SUFFICES ASSUME NEW s \in sockets', Live(s) PROVE s \in sockets /\ s.tr = att.tr
            OBVIOUS
        <3>1. s.st # "dead" BY DEF Live
        <3>2. s \in sockets
            <4>1. CASE sockets' = sockets BY <4>1
            <4>2. CASE sockets' = Terminated(att.prev)
                BY <3>1, <4>2, TerminatedEffect DEF IInv
            <4> QED BY <1>3, <4>1, <4>2 DEF Activate
        <3>3. s.tr \in attached' BY <3>1 DEF IInv, GatewayInv, AttachedOK
        <3>4. s.tr = transport' \/ OwnTransport' BY <3>3 DEF IInv, GatewayInv, AttachedOK
        <3> QED BY <2>1, <2>4, <3>2, <3>4 DEF OwnTransport, Expected
    <2>10. \A s \in sockets' : Live(s) => gen[s.tr] = att.gen /\ gen'[s.tr] = att.gen
        BY <2>1, <2>3, <2>9 DEF SetGenerationRefuses, SocketsOf
    <2>11. AuthGen' BY <2>9, <2>10 DEF AuthGen, Live
    <2>12. IdsOK' BY <1>1, <2>5, <2>9 DEF IdsOK
    <2>13. Counted' BY <1>1 DEF Counted
    <2>14. LinkTr' BY <1>1, <2>1, <2>4 DEF LinkTr
    <2>15. Promised(att.link, att.gen) BY <1>1 DEF Promised
    <2>16. \A s \in sockets', c \in conns' : ~Clash(s, c)'
        <3> SUFFICES ASSUME NEW s \in sockets', NEW c \in conns', Clash(s, c)' PROVE FALSE
            OBVIOUS
        <3>1. Live(s) /\ s.conn = c.id /\ gen'[s.tr] # c.gen /\ c.gen = rec.gen BY <1>1 DEF Clash, Live
        <3>2. s \in sockets /\ c \in conns /\ Clash(s, c) /\ s.tr = att.tr /\ gen[s.tr] = att.gen
            BY <1>1, <2>9, <2>10, <3>1 DEF Clash
        <3> QED BY <1>1, <2>15, <3>2 DEF ClashOK
    <2>17. ClashOK' BY <2>16 DEF ClashOK
    <2> QED BY <2>7, <2>11, <2>12, <2>13, <2>14, <2>17 DEF MInv
<1> QED BY <1>2, <1>3

(* A new control connection has nothing to read and nobody goes by it.     *)
LEMMA AssignedMatches == ASSUME IInv, IInv', MInv, Assigned PROVE MInv'
<1> AnnounceOK /\ AuthGen /\ IdsOK /\ Counted /\ LinkTr /\ ClashOK BY DEF MInv
<1> DEFINE new(t) == [up |-> TRUE, hello |-> "sent", secret |-> secret, tr |-> t, inbox |-> <<>>]
<1>1. /\ UNCHANGED <<control, transport, sockets, rec, acking, conns, opened>>
      /\ att.phase = "assign" /\ control = 0
    BY DEF Assigned, relayVars, IInv, GatewayInv, OneAttempt
<1>2. PICK t \in Transports, l \in Links :
          /\ Unused(l)
          /\ UNCHANGED gen \/ (Free(t) /\ gen' = [gen EXCEPT ![t] = 0])
          /\ att' = [att EXCEPT !.phase = "connect", !.link = l, !.tr = t, !.prev = transport]
          /\ links' = [links EXCEPT ![l] = new(t)]
    BY DEF Assigned, Least
<1>3. att'.phase = "connect" /\ att'.link = l /\ att'.tr = t
    BY <1>2 DEF IInv, GatewayTypes, Attempts
<1>4. new(t).tr = t /\ new(t).inbox = <<>> OBVIOUS
<1> HIDE DEF new
<1>5. links'[l] = new(t) /\ \A k \in Links : k # l => links'[k] = links[k]
    BY <1>2 DEF IInv, NetTypes
<1>6. Inbox(l)' = {} BY <1>4, <1>5, InboxMoves DEF IInv
<1>7. \A k \in Links : Inbox(k)' \subseteq Inbox(k) BY <1>5, <1>6, InboxMoves DEF IInv
<1>8. \A k \in Links, g \in GenOrNone : Promised(k, g)' => Promised(k, g) /\ k # l
    <2> SUFFICES ASSUME NEW k \in Links, NEW g \in GenOrNone, Promised(k, g)'
                 PROVE  Promised(k, g) /\ k # l
        OBVIOUS
    <2>1. k # 0 BY GatewayAssumption
    <2>2. \/ \E a \in acking : a.link = k /\ a.gen = g
          \/ \E m \in Inbox(k)' : m.type = "ack" /\ m.gen = g
          \/ rec.control = k /\ rec.gen = g
        BY <1>1, <1>3, <2>1 DEF Promised
    <2> QED BY <1>2, <1>6, <1>7, <2>2 DEF Promised, Unused
<1>9. AnnounceOK' BY <1>1, <1>7, <1>8 DEF AnnounceOK, Announces
<1>11. \A s \in sockets : Live(s) => gen'[s.tr] = gen[s.tr]
    <2>1. \A s \in sockets : s.tr \in Transports BY DEF IInv, NetTypes, Sockets
    <2>2. CASE UNCHANGED gen BY <2>2
    <2>3. CASE Free(t) /\ gen' = [gen EXCEPT ![t] = 0]
        <3>1. \A s \in sockets : s.tr # t BY <2>3 DEF Free, SocketsOf
        <3> QED BY <2>1, <2>3, <3>1 DEF IInv, GatewayTypes
    <2> QED BY <1>2, <2>2, <2>3
<1>12. AuthGen' BY <1>1, <1>11 DEF AuthGen, Live
<1>13. IdsOK' BY <1>1, <1>7 DEF IdsOK
<1>14. Counted' BY <1>1 DEF Counted
<1>15. LinkTr' BY <1>1, <1>3, <1>4, <1>5 DEF LinkTr
<1>16. ClashOK'
    <2> SUFFICES ASSUME NEW s \in sockets', NEW c \in conns', Clash(s, c)'
                 PROVE  /\ control' = 0
                        /\ Expected' /\ att'.tr = s.tr => ~Promised(att.link, gen[s.tr])'
        BY DEF ClashOK
    <2>1. s \in sockets /\ c \in conns /\ Live(s) /\ Clash(s, c) /\ gen'[s.tr] = gen[s.tr]
        BY <1>1, <1>11 DEF Clash, Live
    <2>2. gen[s.tr] \in GenOrNone BY <2>1 DEF IInv, NetTypes, Sockets, GatewayTypes
    <2>3. ~Promised(l, gen[s.tr])'
        <3>1. gen'[s.tr] \in GenOrNone BY <2>1, <2>2
        <3> QED BY <1>8, <3>1
    <2>4. ~Promised(att.link, gen[s.tr])' BY <1>3, <2>3
    <2> QED BY <1>1, <2>1, <2>4 DEF ClashOK
<1> QED BY <1>9, <1>12, <1>13, <1>14, <1>15, <1>16 DEF MInv

(* A message is read: the acknowledgement the attempt waits for, or a      *)
(* connection to dial for.                                                 *)
LEMMA ReceiveMatches == ASSUME IInv, IInv', MInv, NEW l \in Links, Receive(l) PROVE MInv'
<1> AnnounceOK /\ AuthGen /\ IdsOK /\ Counted /\ LinkTr /\ ClashOK BY DEF MInv
<1> DEFINE q == links[l].inbox
           m == Head(links[l].inbox)
           rest == [links EXCEPT ![l].inbox = Tail(@)]
<1>1. q # <<>> /\ UNCHANGED <<rec, acking, conns, opened, faults>>
    BY DEF Receive, relayVars
<1>2. links[l] \in LinkStates /\ m \in Inbox(l) BY <1>1, InboxMoves DEF IInv, NetTypes
<1>3. links' = rest => \A k \in Links : links'[k].tr = links[k].tr /\ Inbox(k)' \subseteq Inbox(k)
    <2> HAVE links' = rest
    <2>1. /\ links'[l].inbox = Tail(q) /\ links'[l].tr = links[l].tr
          /\ \A k \in Links : k # l => links'[k] = links[k]
        BY <1>2 DEF IInv, NetTypes, LinkStates
    <2> QED BY <1>1, <2>1, InboxMoves DEF IInv
<1>4. links[l].tr \in Transports \cup {0} BY <1>2 DEF LinkStates
<1> HIDE DEF q, rest, m
<1>5. CASE /\ att.link = l /\ att.phase = "connect" /\ m.type = "ack"
           /\ att' = [att EXCEPT !.phase = "acked", !.gen = m.gen, !.secret = m.secret]
           /\ links' = rest
           /\ UNCHANGED <<stopped, control, timer, secret, transport, gen, attached, sockets>>
    <2>1. /\ att'.phase = "acked" /\ att'.gen = m.gen /\ att'.link = l /\ att'.tr = att.tr
        BY <1>5 DEF IInv, GatewayTypes, Attempts
    <2>2. \A k \in Links, g \in GenOrNone : Promised(k, g)' => Promised(k, g)
        BY <1>1, <1>2, <1>3, <1>5, <2>1 DEF Promised
    <2>3. Expected' => Expected /\ att'.link = att.link /\ att'.tr = att.tr
        BY <1>5, <2>1 DEF Expected
    <2> QED BY <1>1, <1>3, <1>5, <2>2, <2>3, QuietStep DEF AuthGen
<1>6. CASE AttemptFails BY <1>1, <1>6, AttemptFailsMatches DEF relayVars
<1>7. CASE /\ control = l \/ (att.link = l /\ att.phase = "acked")
           /\ m.type = "conn-open"
           /\ sockets' = OpenConnection(links[l].tr, m.conn)
           /\ links' = rest
           /\ UNCHANGED gatewayVars
    <2> DEFINE t == links[l].tr
               n == [conn |-> m.conn, tr |-> t, st |-> "opening", gen |-> 0]
    <2>1. UNCHANGED <<stopped, control, timer, att, secret, transport, gen, attached>>
        BY <1>7 DEF gatewayVars
    <2>2. /\ n.conn = m.conn /\ n.tr = t /\ n.st = "opening"
          /\ sockets' = sockets \/ (t \in attached /\ sockets' = sockets \cup {n})
        BY <1>7 DEF OpenConnection
    <2>3. t \in attached => t \in Transports /\ gen[t] \in GenOrNone
        BY DEF IInv, GatewayTypes
    <2> HIDE DEF n
    <2>4. \A k \in Links, g \in GenOrNone : Promised(k, g)' => Promised(k, g)
        BY <1>1, <1>3, <1>7, <2>1 DEF Promised
    <2>5. \A k \in Links : \A g : Announces(k, g) => Announces(k, g)'
        BY <1>1, <1>3, <1>7 DEF Announces
    <2>6. AnnounceOK' BY <2>4, <2>5 DEF AnnounceOK
    <2>7. Expected => att.link \in Links
        BY DEF IInv, GatewayInv, AttemptOK, Expected, GatewayTypes, Attempts
    <2>9. AuthGen' BY <2>1, <2>2 DEF AuthGen
    <2>10. m.conn <= opened BY <1>2 DEF IdsOK
    <2>11. IdsOK' BY <1>1, <1>3, <1>7, <2>2, <2>10 DEF IdsOK
    <2>12. Counted' BY <1>1 DEF Counted
    <2>13. LinkTr'
        <3>1. control # 0 => control \in Links BY DEF IInv, GatewayTypes
        <3> QED BY <1>3, <1>7, <2>1, <2>7, <3>1 DEF LinkTr, Expected
    <2>14. ClashOK'
        <3> SUFFICES ASSUME NEW s \in sockets', NEW c \in conns', Clash(s, c)'
                     PROVE  /\ control' = 0
                            /\ Expected' /\ att'.tr = s.tr => ~Promised(att.link, gen[s.tr])'
            BY DEF ClashOK
        <3>1. Clash(s, c) /\ c \in conns BY <1>1, <2>1 DEF Clash, Live
        <3>2. CASE s \in sockets
            <4>1. gen[s.tr] \in GenOrNone BY <3>2 DEF IInv, NetTypes, Sockets, GatewayTypes
            <4>2. Promised(att.link, gen[s.tr])' /\ Expected => Promised(att.link, gen[s.tr])
                BY <2>1, <2>4, <2>7, <4>1
            <4> QED BY <1>1, <2>1, <3>1, <3>2, <4>2 DEF ClashOK, Expected
        <3>3. CASE s \notin sockets
            <4>1. s.conn = m.conn /\ s.tr = t /\ t \in attached BY <2>2, <3>3
            <4>2. m.conn = c.id /\ c.gen # gen[t] BY <3>1, <4>1 DEF Clash
            <4>3. ~Announces(l, gen[t]) BY <1>2, <1>7, <3>1, <4>2 DEF Announces
            <4>4. ~Promised(l, gen[t]) BY <2>3, <4>1, <4>3 DEF AnnounceOK
            <4>5. l # 0 BY GatewayAssumption
            <4>6. control # l
                <5> SUFFICES ASSUME control = l PROVE FALSE OBVIOUS
                <5>1. t = transport BY <4>5 DEF LinkTr
                <5> QED BY <4>4, <5>1 DEF Promised
            <4>7. att.link = l /\ att.phase = "acked" /\ Expected BY <1>7, <4>6 DEF Expected
            <4>8. t = att.tr /\ control = 0 BY <4>7 DEF LinkTr, IInv, GatewayInv, OneAttempt
            <4>10. ~Promised(att.link, gen[s.tr])'
                <5>1. Promised(att.link, gen[s.tr])' => Promised(att.link, gen[s.tr])
                    BY <2>1, <2>3, <2>4, <2>7, <4>1, <4>7
                <5> QED BY <4>1, <4>4, <4>7, <5>1
            <4> QED BY <1>1, <2>1, <4>1, <4>8, <4>10
        <3> QED BY <3>2, <3>3
    <2> QED BY <2>6, <2>9, <2>11, <2>12, <2>13, <2>14 DEF MInv
<1> QED BY <1>5, <1>6, <1>7 DEF Receive, q, m, rest

(* A recorded hello keeps the record's generation or brings one that no    *)
(* connection has.                                                         *)
LEMMA HostHelloMatches == ASSUME IInv, IInv', MInv, NEW l \in Links, HostHello(l) PROVE MInv'
<1> AnnounceOK /\ AuthGen /\ IdsOK /\ Counted /\ LinkTr /\ ClashOK BY DEF MInv
<1>1. /\ links[l].hello = "sent"
      /\ UNCHANGED <<stopped, control, timer, att, secret, transport, gen, attached>>
      /\ UNCHANGED <<sockets, conns, opened, faults>>
    BY DEF HostHello, gatewayVars
<1> DEFINE g == NewGeneration(l)
<1>2. PICK k \in Secrets :
          /\ rec' = [gen |-> g, secret |-> k, control |-> l]
          /\ acking' = acking \cup {[link |-> l, gen |-> g, secret |-> k]}
    BY DEF HostHello, HostRecord, Least
<1> DEFINE n == [link |-> l, gen |-> g, secret |-> k]
<1>3. /\ n.link = l /\ n.gen = g /\ rec'.gen = g /\ rec'.control = l
      /\ acking' = acking \cup {n}
    BY <1>2
<1>4. g = rec.gen \/ g = rec.gen + 1 BY NewGenerationType DEF HostHello, IInv
<1> HIDE DEF n, g
<1>5. rec.gen \in Nat /\ \A c \in conns : c.gen \in Nat
    BY GatewayAssumption DEF IInv, RelayTypes, Records, GenOrNone, Gens
<1>6. \A i \in Links : links'[i].inbox = links[i].inbox /\ links'[i].tr = links[i].tr
    <2> SUFFICES ASSUME NEW i \in Links
                 PROVE  links'[i].inbox = links[i].inbox /\ links'[i].tr = links[i].tr
        OBVIOUS
    <2> DEFINE x == links[i]
    <2>1. x \in LinkStates BY DEF IInv, NetTypes
    <2>2. links'[i] \in {[x EXCEPT !.hello = "done", !.secret = 0], [x EXCEPT !.up = FALSE], x}
        BY DEF HostHello
    <2> HIDE DEF x
    <2>3. links'[i].inbox = x.inbox /\ links'[i].tr = x.tr BY <2>1, <2>2 DEF LinkStates
    <2> QED BY <2>3 DEF x
<1>7. \A i \in Links : Inbox(i)' = Inbox(i) BY <1>6, InboxMoves DEF IInv
<1>8. Inbox(l) = {} BY <1>1 DEF IInv, AgreementInv, HelloOK, Inbox
<1>9. \A i \in Links, x \in GenOrNone :
          Promised(i, x)' => Promised(i, x) \/ (i = l /\ x = g)
    BY <1>1, <1>3, <1>7 DEF Promised
<1>10. \A i \in Links : \A x : Announces(i, x) => Announces(i, x)' BY <1>1, <1>7 DEF Announces
<1>11. AnnounceOK' BY <1>7, <1>8, <1>9, <1>10 DEF AnnounceOK, Announces
<1>12. Expected => att.link \in Links
    BY DEF IInv, GatewayInv, AttemptOK, Expected, GatewayTypes, Attempts
<1>14. AuthGen' BY <1>1 DEF AuthGen
<1>15. IdsOK' BY <1>1, <1>7 DEF IdsOK
<1>16. Counted' BY <1>1, <1>3, <1>4, <1>5 DEF Counted
<1>17. LinkTr'
    <2>1. control # 0 => control \in Links BY DEF IInv, GatewayTypes
    <2> QED BY <1>1, <1>6, <1>12, <2>1 DEF LinkTr, Expected
<1>18. ClashOK'
    <2> SUFFICES ASSUME NEW s \in sockets', NEW c \in conns', Clash(s, c)'
                 PROVE  /\ control' = 0
                        /\ Expected' /\ att'.tr = s.tr => ~Promised(att.link, gen[s.tr])'
        BY DEF ClashOK
    <2>1. s \in sockets /\ c \in conns /\ Live(s) /\ s.conn = c.id /\ c.gen = g /\ gen[s.tr] # g
        BY <1>1, <1>3 DEF Clash, Live
    <2>2. g = rec.gen BY <1>4, <1>5, <2>1 DEF Counted
    <2>3. Clash(s, c) BY <2>1, <2>2 DEF Clash
    <2>4. gen[s.tr] \in GenOrNone BY <2>1 DEF IInv, NetTypes, Sockets, GatewayTypes
    <2>5. Expected /\ Promised(att.link, gen[s.tr])' => Promised(att.link, gen[s.tr])
        BY <1>1, <1>9, <1>12, <2>1, <2>4
    <2> QED BY <1>1, <2>1, <2>3, <2>5 DEF ClashOK, Expected
<1> QED BY <1>11, <1>14, <1>15, <1>16, <1>17, <1>18 DEF MInv

(* The acknowledgement is written, or cannot be.                           *)
LEMMA HostAckMatches == ASSUME IInv, IInv', MInv, NEW a \in acking, HostAck(a) PROVE MInv'
<1>1. /\ acking' = acking \ {a}
      /\ UNCHANGED <<stopped, control, timer, att, secret, transport, gen, attached>>
      /\ UNCHANGED <<sockets, conns, opened, faults>>
    BY DEF HostAck, gatewayVars
<1>2. a.link \in Links /\ a.gen \in GenOrNone /\ a.secret \in SecretOrNone
    BY DEF IInv, RelayTypes, Ackings
<1>3. CASE rec' \in {rec, ClearControl(a.link)} /\ UNCHANGED links
    <2>1. rec'.gen = rec.gen /\ rec'.control \in {rec.control, 0}
        BY <1>3, ClearControlEffect DEF IInv
    <2>2. \A l \in Links : Inbox(l)' \subseteq Inbox(l) BY <1>3, InboxesFade DEF IInv
    <2> QED BY <1>1, <1>3, <2>1, <2>2, FadingStep
<1>4. CASE /\ links' = Send(a.link, [type |-> "ack", conn |-> 0, gen |-> a.gen, secret |-> a.secret])
           /\ UNCHANGED rec
    <2> DEFINE m == [type |-> "ack", conn |-> 0, gen |-> a.gen, secret |-> a.secret]
    <2>1. m \in Messages /\ m.type = "ack" /\ m.conn = 0 /\ m.gen = a.gen BY <1>2 DEF Messages
    <2>2. links' = Send(a.link, m) BY <1>4
    <2> HIDE DEF m
    <2>3. /\ links'[a.link].inbox = Append(links[a.link].inbox, m)
          /\ links'[a.link].tr = links[a.link].tr
          /\ \A k \in Links : k # a.link => links'[k] = links[k]
        BY <1>2, <2>1, <2>2, SendEffect DEF IInv
    <2>4. /\ Inbox(a.link)' = Inbox(a.link) \cup {m}
          /\ \A k \in Links : k # a.link => Inbox(k)' = Inbox(k)
        BY <1>2, <2>1, <2>3, InboxMoves DEF IInv
    <2>5. \A l \in Links, g \in GenOrNone : Promised(l, g)' => Promised(l, g)
        <3> SUFFICES ASSUME NEW l \in Links, NEW g \in GenOrNone, Promised(l, g)'
                     PROVE  Promised(l, g)
            OBVIOUS
        <3>1. CASE l = a.link /\ g = a.gen BY <3>1 DEF Promised
        <3>2. CASE ~(l = a.link /\ g = a.gen)
            BY <1>1, <1>4, <2>1, <2>4, <3>2 DEF Promised
        <3> QED BY <3>1, <3>2
    <2>6. \A l \in Links : \A x \in Inbox(l)' : x \in Inbox(l) \/ (x.type = "ack" /\ x.conn = 0)
        BY <2>1, <2>4
    <2>7. \A l \in Links : links'[l].tr = links[l].tr BY <2>3
    <2>8. Expected' => Expected /\ att'.link = att.link /\ att'.tr = att.tr BY <1>1 DEF Expected
    <2>9. \A s \in sockets : s.st = "auth" => s.gen = gen[s.tr] BY DEF MInv, AuthGen
    <2> QED BY <1>1, <1>4, <2>5, <2>6, <2>7, <2>8, <2>9, QuietStep
<1> QED BY <1>3, <1>4 DEF HostAck

(* A phone connects under the record's generation, and only the record's   *)
(* control is told.                                                        *)
LEMMA PhoneConnectsMatches == ASSUME IInv, IInv', MInv, PhoneConnects PROVE MInv'
<1> AnnounceOK /\ AuthGen /\ IdsOK /\ Counted /\ LinkTr /\ ClashOK BY DEF MInv
<1> DEFINE n == [id |-> opened + 1, gen |-> rec.gen]
           m == [type |-> "conn-open", conn |-> opened + 1, gen |-> 0, secret |-> 0]
           r == rec.control
<1>1. /\ opened < MaxConns /\ opened' = opened + 1 /\ conns' = conns \cup {n}
      /\ links' = IF links[r].up THEN Send(r, m) ELSE links
      /\ UNCHANGED <<stopped, control, timer, att, secret, transport, gen, attached>>
      /\ UNCHANGED <<sockets, rec, acking, faults>>
      /\ r # 0
    BY DEF PhoneConnects, gatewayVars
<1>2. opened \in Nat /\ opened + 1 \in 1..MaxConns /\ r \in Links /\ rec.gen \in GenOrNone
    BY <1>1, GatewayAssumption DEF IInv, RelayTypes, Records
<1>3. n.id = opened + 1 /\ n.gen = rec.gen OBVIOUS
<1>4. m \in Messages /\ m.type = "conn-open" /\ m.conn = opened + 1 BY <1>2 DEF Messages
<1> HIDE DEF n, m
<1>5. /\ \A k \in Links : links'[k].tr = links[k].tr /\ (k # r => links'[k] = links[k])
      /\ \/ links'[r].inbox = Append(links[r].inbox, m)
         \/ links'[r].inbox = links[r].inbox
    BY <1>1, <1>2, <1>4, SendEffect DEF IInv
<1> HIDE DEF r
<1>6. \A k \in Links : Inbox(k)' = Inbox(k) \/ (k = r /\ Inbox(k)' = Inbox(k) \cup {m})
    BY <1>2, <1>4, <1>5, InboxMoves DEF IInv
<1>7. \A k \in Links, g \in GenOrNone : Promised(k, g)' => Promised(k, g)
    BY <1>1, <1>4, <1>6 DEF Promised
<1>8. \A g \in GenOrNone : Promised(r, g) => g = rec.gen
    <2> SUFFICES ASSUME NEW g \in GenOrNone, Promised(r, g) PROVE g = rec.gen OBVIOUS
    <2>1. r = rec.control /\ r # 0 BY <1>1 DEF r
    <2>2. \A x \in Inbox(r) : x.type = "ack" => x.gen = rec.gen
        BY <1>2, <2>1 DEF Inbox, IInv, AgreementInv, AckOK, Acks
    <2> QED BY <2>1, <2>2 DEF Promised, IInv, AgreementInv, AckOK, BothEndsAgree
<1>9. \A k \in Links : \A g : Announces(k, g) /\ (k = r => g = rec.gen) => Announces(k, g)'
    <2> SUFFICES ASSUME NEW k \in Links, NEW g, Announces(k, g), k = r => g = rec.gen,
                        NEW x \in Inbox(k)', NEW c \in conns',
                        x.type = "conn-open", x.conn = c.id
                 PROVE  c.gen = g
        BY DEF Announces
    <2>1. CASE x \in Inbox(k)
        <3>1. x.conn <= opened BY <2>1 DEF IdsOK
        <3>2. x.conn # opened + 1 BY <1>2, <3>1
        <3>3. c \in conns BY <1>1, <1>3, <3>2
        <3> QED BY <2>1, <3>3 DEF Announces
    <2>2. CASE x \notin Inbox(k)
        <3>1. k = r /\ x = m BY <1>6, <2>2
        <3>2. \A d \in conns : d.id # opened + 1
            <4>1. \A d \in conns : d.id <= opened /\ opened \in Nat BY <1>2 DEF IdsOK
            <4> QED BY <4>1
        <3> QED BY <1>1, <1>3, <1>4, <3>1, <3>2
    <2> QED BY <2>1, <2>2
<1>10. AnnounceOK' BY <1>7, <1>8, <1>9 DEF AnnounceOK
<1>11. Expected => att.link \in Links
    BY DEF IInv, GatewayInv, AttemptOK, Expected, GatewayTypes, Attempts
<1>13. AuthGen' BY <1>1 DEF AuthGen
<1>14. IdsOK'
    <2>1. \A x \in 1..MaxConns : x <= opened => x <= opened + 1 BY <1>2
    <2>2. \A s \in sockets : s.conn \in 1..MaxConns BY DEF IInv, NetTypes, Sockets
    <2>3. \A c \in conns : c.id \in 1..MaxConns BY DEF IInv, RelayTypes
    <2>4. \A l \in Links : \A x \in Inbox(l) : x \in Messages
        <3> SUFFICES ASSUME NEW l \in Links PROVE \A x \in Inbox(l) : x \in Messages OBVIOUS
        <3>1. links[l].inbox \in Seq(Messages) BY DEF IInv, NetTypes, LinkStates
        <3> QED BY <3>1 DEF Inbox
    <2>5. \A x \in Messages : x.conn <= opened => x.conn <= opened + 1
        BY <1>2, <2>1 DEF Messages
    <2>6. \A s \in sockets' : Live(s) => s.conn <= opened' BY <1>1, <2>1, <2>2 DEF IdsOK
    <2>7. \A c \in conns' : c.id <= opened' BY <1>1, <1>2, <1>3, <2>1, <2>3 DEF IdsOK
    <2>8. \A l \in Links : \A x \in Inbox(l)' : x.conn <= opened'
        BY <1>1, <1>2, <1>4, <1>6, <2>4, <2>5 DEF IdsOK
    <2> QED BY <2>6, <2>7, <2>8 DEF IdsOK
<1>15. Counted'
    <2>1. rec.gen \in Nat BY <1>2, GatewayAssumption DEF GenOrNone, Gens
    <2> QED BY <1>1, <1>3, <2>1 DEF Counted
<1>16. LinkTr'
    <2>1. control # 0 => control \in Links BY DEF IInv, GatewayTypes
    <2> QED BY <1>1, <1>5, <1>11, <2>1 DEF LinkTr, Expected
<1>17. ClashOK'
    <2> SUFFICES ASSUME NEW s \in sockets', NEW c \in conns', Clash(s, c)'
                 PROVE  /\ control' = 0
                        /\ Expected' /\ att'.tr = s.tr => ~Promised(att.link, gen[s.tr])'
        BY DEF ClashOK
    <2>1. Clash(s, c) /\ s \in sockets /\ Live(s) /\ s.conn = c.id BY <1>1 DEF Clash, Live
    <2>2. c \in conns
        <3>1. s.conn <= opened /\ s.conn \in Nat BY <2>1 DEF IdsOK, IInv, NetTypes, Sockets
        <3>2. c.id # opened + 1 BY <1>2, <2>1, <3>1
        <3> QED BY <1>1, <1>3, <3>2
    <2>3. gen[s.tr] \in GenOrNone BY <2>1 DEF IInv, NetTypes, Sockets, GatewayTypes
    <2>4. Expected /\ Promised(att.link, gen[s.tr])' => Promised(att.link, gen[s.tr])
        BY <1>1, <1>7, <1>11, <2>3
    <2> QED BY <1>1, <2>1, <2>2, <2>4 DEF ClashOK, Expected
<1> QED BY <1>10, <1>13, <1>14, <1>15, <1>16, <1>17 DEF MInv

(* A restarted relay has no connection to disagree about.                  *)
LEMMA RelayRestartsMatches == ASSUME IInv, IInv', MInv, RelayRestarts PROVE MInv'
<1>1. /\ UNCHANGED <<stopped, control, timer, att, secret, transport, gen, attached>>
      /\ UNCHANGED <<sockets, opened>> /\ rec' = NoHost /\ conns' = {}
    BY DEF RelayRestarts, gatewayVars
<1>2. \A l \in Links : links'[l].inbox = <<>> /\ links'[l].tr = links[l].tr
    <2> SUFFICES ASSUME NEW l \in Links
                 PROVE  links'[l].inbox = <<>> /\ links'[l].tr = links[l].tr
        OBVIOUS
    <2> DEFINE x == links[l]
    <2>1. x \in LinkStates BY DEF IInv, NetTypes
    <2>2. links'[l] = [x EXCEPT !.up = FALSE, !.hello = "done", !.secret = 0, !.inbox = <<>>]
        BY DEF RelayRestarts
    <2> HIDE DEF x
    <2>3. links'[l].inbox = <<>> /\ links'[l].tr = x.tr BY <2>1, <2>2 DEF LinkStates
    <2> QED BY <2>3 DEF x
<1>3. \A l \in Links : Inbox(l)' = {} BY <1>2, InboxMoves DEF IInv
<1>4. AnnounceOK' /\ Counted' /\ ClashOK' BY <1>1 DEF AnnounceOK, Counted, ClashOK, Announces
<1>5. AuthGen' BY <1>1 DEF MInv, AuthGen
<1>6. IdsOK' BY <1>1, <1>3 DEF MInv, IdsOK
<1>9. LinkTr'
    <2>1. control # 0 => control \in Links BY DEF IInv, GatewayTypes
    <2>2. Expected => att.link \in Links
        BY DEF IInv, GatewayInv, AttemptOK, Expected, GatewayTypes, Attempts
    <2> QED BY <1>1, <1>2, <2>1, <2>2 DEF MInv, LinkTr, Expected
<1> QED BY <1>4, <1>5, <1>6, <1>9 DEF MInv

(* The other steps of the gateway announce nothing and open no socket.     *)
LEMMA GatewayFades ==
    ASSUME IInv, IInv', MInv,
           \/ TimerFires \/ Settled \/ Stop
           \/ \E l \in Links : ControlCloses(l) /\ UNCHANGED relayVars
    PROVE  MInv'
<1>1. UNCHANGED <<gen, rec, acking, conns, opened>> /\ attached' \subseteq attached
    BY DEF TimerFires, Settled, Stop, ControlCloses, relayVars
<1>2. control' = 0 \/ (control' = control /\ transport' = transport)
    BY DEF TimerFires, Settled, Stop, ControlCloses
<1>3. att' = att \/ ~Expected'
    <2>1. CASE att' = NoAttempt BY <2>1, NoAttemptFields DEF Expected
    <2>2. CASE att' = [NoAttempt EXCEPT !.phase = "assign"]
        <3>1. att'.phase = "assign" BY <2>2, BeginFields
        <3> QED BY <3>1 DEF Expected
    <2> QED BY <2>1, <2>2 DEF TimerFires, Settled, Ended, Stop, ControlCloses
<1>4. \A l \in Links : /\ links'[l].tr = links[l].tr
                       /\ links'[l].inbox = links[l].inbox \/ links'[l].inbox = <<>>
    <2>1. CASE links' = links BY <2>1
    <2>2. CASE control # 0 /\ links' = Closed(control)
        BY <2>2, ClosedEffect DEF IInv, GatewayTypes
    <2> QED BY <2>1, <2>2 DEF TimerFires, Settled, Stop, ControlCloses, netVars
<1>5. \A l \in Links : Inbox(l)' \subseteq Inbox(l) BY <1>4, InboxesFade DEF IInv
<1>6. \A s \in sockets' : Live(s) => s \in sockets
    <2>1. CASE sockets' = sockets BY <2>1
    <2>2. CASE sockets' = Terminated(transport) BY <2>2, TerminatedEffect DEF IInv, Live
    <2> QED BY <2>1, <2>2 DEF TimerFires, Settled, Stop, ControlCloses, netVars
<1> QED BY <1>1, <1>2, <1>3, <1>4, <1>5, <1>6, FadingStep

(* A data socket opens, is answered, fails or closes.                      *)
LEMMA SocketMatches ==
    ASSUME IInv, IInv', MInv, NEW s \in sockets,
           SocketOpens(s) \/ SocketFails(s) \/ SocketCloses(s) \/ HostData(s)
    PROVE  MInv'
<1>1. /\ UNCHANGED <<stopped, control, timer, att, secret, transport, gen, attached>>
      /\ UNCHANGED <<links, rec, acking, conns, opened, faults>>
    BY DEF SocketOpens, SocketFails, SocketCloses, HostData, relayVars, gatewayVars
<1>2. s \in Sockets BY DEF IInv, NetTypes
<1>3. \A x \in sockets' : Live(x) =>
          \/ x \in sockets
          \/ /\ \E u \in sockets : Live(u) /\ u.conn = x.conn /\ u.tr = x.tr
             /\ x.gen = gen[x.tr]
    <2>1. CASE SocketOpens(s)
        <3> DEFINE n == [s EXCEPT !.st = "auth", !.gen = gen[s.tr]]
        <3>1. n.tr = s.tr /\ n.conn = s.conn /\ n.gen = gen[s.tr] BY <1>2 DEF Sockets
        <3>2. sockets' = (sockets \ {s}) \cup {n} /\ Live(s) BY <2>1 DEF SocketOpens, Live
        <3> HIDE DEF n
        <3> QED BY <3>1, <3>2
    <2>2. CASE SocketCloses(s) BY <2>2 DEF SocketCloses
    <2>3. CASE HostData(s)
        <3>1. PICK st \in {"attached", "dead"} : sockets' = (sockets \ {s}) \cup {[s EXCEPT !.st = st]}
            BY <2>3 DEF HostData
        <3>2. ~Live([s EXCEPT !.st = st]) BY <1>2 DEF Sockets, Live
        <3> QED BY <3>1, <3>2
    <2>4. CASE SocketFails(s)
        <3>1. sockets' = (sockets \ {s}) \cup {[s EXCEPT !.st = "dead"]} BY <2>4 DEF SocketFails
        <3>2. ~Live([s EXCEPT !.st = "dead"]) BY <1>2 DEF Sockets, Live
        <3> QED BY <3>1, <3>2
    <2> QED BY <2>1, <2>2, <2>3, <2>4
<1>4. \A l \in Links : Inbox(l)' \subseteq Inbox(l) BY <1>1, InboxesFade DEF IInv
<1> QED BY <1>1, <1>3, <1>4, FadingStep

(* The other steps of the relay and of the network only take away.         *)
LEMMA RelayFades ==
    ASSUME IInv, IInv', MInv,
           \/ \E l \in Links : ControlReadFails(l) \/ LinkLost(l)
           \/ \E c \in conns : ConnectionEnds(c)
           \/ UNCHANGED vars
    PROVE  MInv'
<1>1. UNCHANGED <<stopped, control, timer, att, secret, transport, gen, attached>>
    BY DEF ControlReadFails, LinkLost, ConnectionEnds, vars, gatewayVars
<1>2. UNCHANGED <<sockets, acking, opened>> /\ conns' \subseteq conns
    BY DEF ControlReadFails, LinkLost, ConnectionEnds, vars, netVars, relayVars
<1>3. rec'.gen = rec.gen /\ rec'.control \in {rec.control, 0}
    <2>1. CASE rec' = rec BY <2>1
    <2>2. CASE \E l \in Links : rec' = ClearControl(l) BY <2>2, ClearControlEffect DEF IInv
    <2> QED BY <2>1, <2>2 DEF ControlReadFails, LinkLost, ConnectionEnds, vars, relayVars
<1>4. \A l \in Links : /\ links'[l].tr = links[l].tr
                       /\ links'[l].inbox = links[l].inbox \/ links'[l].inbox = <<>>
    <2>1. CASE links' = links BY <2>1
    <2>2. ASSUME NEW k \in Links, links' = Closed(k)
          PROVE  \A l \in Links : /\ links'[l].tr = links[l].tr
                                  /\ links'[l].inbox = links[l].inbox \/ links'[l].inbox = <<>>
        BY <2>2, ClosedEffect DEF IInv
    <2>3. ASSUME NEW k \in Links, links' = [links EXCEPT ![k].up = FALSE]
          PROVE  \A l \in Links : links'[l].tr = links[l].tr /\ links'[l].inbox = links[l].inbox
        BY <2>3 DEF IInv, NetTypes, LinkStates
    <2> QED BY <2>1, <2>2, <2>3 DEF ControlReadFails, LinkLost, ConnectionEnds, vars, netVars
<1>5. \A l \in Links : Inbox(l)' \subseteq Inbox(l) BY <1>4, InboxesFade DEF IInv
<1> QED BY <1>1, <1>2, <1>3, <1>4, <1>5, FadingStep

(* Every step keeps the generations of the sockets being opened in order.  *)
LEMMA StepMatches == ASSUME IInv, IInv', MInv, [Next]_vars PROVE MInv'
<1>1. CASE \/ TimerFires \/ Settled \/ Stop BY <1>1, GatewayFades
<1>2. CASE Assigned BY <1>2, AssignedMatches
<1>3. CASE AssignFails BY <1>3, AttemptFailsMatches DEF AssignFails
<1>4. CASE Activate BY <1>4, ActivateMatches
<1>5. CASE \E l \in Links : Receive(l) BY <1>5, ReceiveMatches
<1>6. CASE \E l \in Links : HandleClose(l)
    BY <1>6, GatewayFades, AttemptFailsMatches DEF HandleClose
<1>7. CASE \E s \in sockets : SocketOpens(s) \/ SocketFails(s) \/ SocketCloses(s) \/ HostData(s)
    BY <1>7, SocketMatches
<1>8. CASE \E l \in Links : HostHello(l) BY <1>8, HostHelloMatches
<1>9. CASE \E a \in acking : HostAck(a) BY <1>9, HostAckMatches
<1>10. CASE PhoneConnects BY <1>10, PhoneConnectsMatches
<1>11. CASE RelayRestarts BY <1>11, RelayRestartsMatches
<1>12. CASE \/ \E l \in Links : ControlReadFails(l) \/ LinkLost(l)
            \/ \E c \in conns : ConnectionEnds(c)
            \/ UNCHANGED vars
    BY <1>12, RelayFades
<1> QED BY <1>1, <1>2, <1>3, <1>4, <1>5, <1>6, <1>7, <1>8, <1>9, <1>10, <1>11, <1>12 DEF Next

(* A gateway that starts has no socket and nothing to read.                *)
LEMMA InitMatches == ASSUME Init PROVE MInv
<1>1. ~Expected /\ control = 0 /\ sockets = {} /\ conns = {}
    <2>1. att.phase = "assign" BY DEF Init, NoAttempt
    <2> QED BY <2>1 DEF Init, Expected
<1>2. \A l \in Links : Inbox(l) = {}
    <2>1. \A l \in Links : links[l].inbox = <<>> BY DEF Init, NoLink
    <2> QED BY <2>1 DEF Inbox
<1> QED BY <1>1, <1>2
        DEF MInv, AnnounceOK, Announces, AuthGen, IdsOK, Counted, LinkTr, ClashOK

(***************************************************************************)
(* The theorems                                                            *)
(***************************************************************************)

(* A gateway that starts meets the invariant.                              *)
LEMMA InitIInv == ASSUME Init PROVE IInv
<1>1. /\ att \in Attempts /\ att.phase = "assign" /\ att.first = TRUE
      /\ att.link = 0 /\ att.tr = 0 /\ att.prev = 0
    BY DEF Init, NoAttempt, Attempts, Phases, GenOrNone, SecretOrNone
<1>2. /\ NoLink \in LinkStates /\ NoLink.hello = "none"
      /\ NoHost \in Records /\ NoHost.control = 0
    <2>1. <<>> \in Seq(Messages) OBVIOUS
    <2> QED BY <2>1 DEF NoLink, NoHost, LinkStates, Records, GenOrNone, SecretOrNone
<1>3. GatewayTypes BY <1>1 DEF Init, GatewayTypes, GenOrNone, SecretOrNone
<1>4. NetTypes BY <1>2 DEF Init, NetTypes
<1>5. RelayTypes BY <1>2, GatewayAssumption DEF Init, RelayTypes
<1>6. GatewayInv
    BY <1>1 DEF Init, GatewayInv, AttemptOK, AttachedOK, OwnTransport, NeverStranded, OneAttempt
<1>7. HelloOK BY <1>2 DEF Init, HelloOK
<1>8. AckOK /\ BothEndsAgree
    BY <1>1, <1>2, GatewayAssumption DEF Init, AckOK, BothEndsAgree
<1> QED BY <1>3, <1>4, <1>5, <1>6, <1>7, <1>8 DEF IInv, AgreementInv

(* A step that changes nothing keeps the invariant.                        *)
LEMMA StutterKeeps == ASSUME IInv, UNCHANGED vars PROVE IInv'
<1>1. UNCHANGED gatewayVars /\ UNCHANGED <<sockets, links, rec, acking, conns, opened, faults>>
    BY DEF vars, netVars, relayVars
<1>2. UNCHANGED <<control, att, secret, transport, gen>> BY <1>1 DEF gatewayVars
<1>3. NetTypes' /\ RelayTypes' BY <1>1 DEF IInv, NetTypes, RelayTypes
<1>4. AgreementInv' BY <1>1, <1>2, AgreementUntouched DEF IInv
<1> QED BY <1>1, <1>3, <1>4, RelayStep DEF IInv

(* Whatever is lost, refused or restarted, in any order, the inductive     *)
(* invariant holds.                                                        *)
THEOREM Invariance == Spec => []IInv
<1>1. Init => IInv BY InitIInv
<1>2. IInv /\ [Next]_vars => IInv'
    <2> SUFFICES ASSUME IInv, [Next]_vars PROVE IInv' OBVIOUS
    <2>1. CASE UNCHANGED vars BY <2>1, StutterKeeps
    <2>2. CASE Next
        BY <2>2, TimerFiresKeeps, AssignedKeeps, AssignFailsKeeps, ActivateKeeps, SettledKeeps,
           StopKeeps, ReceiveKeeps, HandleCloseKeeps, SocketKeeps, HostHelloKeeps, HostAckKeeps,
           ControlReadFailsKeeps, PhoneConnectsKeeps, ConnectionEndsKeeps, LinkLostKeeps,
           RelayRestartsKeeps
        DEF Next
    <2> QED BY <2>1, <2>2
<1> QED BY <1>1, <1>2, PTL DEF Spec

(* Type correctness; the transport in use is always attached.              *)
THEOREM TypeCorrect == Spec => []TypeOK
<1>1. IInv => TypeOK
    <2> SUFFICES ASSUME IInv PROVE TypeOK OBVIOUS
    <2>1. /\ att.phase \in Phases /\ att.link \in Links \cup {0} /\ att.tr \in Transports \cup {0}
        BY DEF IInv, GatewayTypes, Attempts
    <2>2. \A s \in sockets : /\ s.conn \in 1..MaxConns
                             /\ s.tr \in Transports
                             /\ s.st \in {"opening", "auth", "attached", "dead"}
        BY DEF IInv, NetTypes, Sockets
    <2>3. \A l \in Links : links[l].up \in BOOLEAN BY DEF IInv, NetTypes, LinkStates
    <2>4. rec.gen \in GenOrNone /\ rec.control \in Links \cup {0} BY DEF IInv, RelayTypes, Records
    <2>5. transport \in attached \cup {0} BY DEF IInv, GatewayInv, AttachedOK
    <2> QED BY <2>1, <2>2, <2>3, <2>4, <2>5
            DEF IInv, TypeOK, GatewayTypes, RelayTypes, Phases, GenOrNone, SecretOrNone
<1> QED BY <1>1, Invariance, PTL

(* No order of close events, failures and restarts strands the gateway, or *)
(* makes two attempts to register run at once.                             *)
THEOREM OneWayBackAlways == Spec => []OneWayBack
<1>1. IInv => OneWayBack BY DEF IInv, GatewayInv, OneWayBack
<1> QED BY <1>1, Invariance, PTL

(* Both ends of one control connection agree on generation and secret.     *)
THEOREM BothEndsAgreeAlways == Spec => []BothEndsAgree
<1>1. IInv => BothEndsAgree BY DEF IInv, AgreementInv
<1> QED BY <1>1, Invariance, PTL

(* A stopped gateway, once its last attempt ends, has nothing open.        *)
THEOREM StopIsFinalAlways == Spec => []StopIsFinal
<1>1. IInv => StopIsFinal
    <2> SUFFICES ASSUME IInv, stopped, att.phase = "none"
                 PROVE  /\ control = 0 /\ attached = {}
                        /\ \A s \in sockets : s.st = "dead"
        BY DEF StopIsFinal
    <2>1. AttachedOK /\ attached \subseteq Transports BY DEF IInv, GatewayInv, GatewayTypes
    <2>2. control = 0 /\ transport = 0 BY <2>1 DEF AttachedOK
    <2>3. attached = {} BY <2>1, <2>2, GatewayAssumption DEF AttachedOK, OwnTransport
    <2> QED BY <2>1, <2>2, <2>3 DEF AttachedOK
<1> QED BY <1>1, Invariance, PTL

(* While the gateway is registered its data sockets present the generation *)
(* it registered, and for a connection of the relay's current generation   *)
(* that is the one the relay expects, although generations are counted     *)
(* from 1 again by a restarted relay and a reused transport may hold one   *)
(* of the relay before.                                                    *)
THEOREM AttachMatchesAlways == Spec => []AttachMatches
<1>1. IInv /\ MInv => AttachMatches
    <2> SUFFICES ASSUME IInv, MInv, control # 0, NEW s \in sockets, s.st = "auth"
                 PROVE  /\ s.gen = gen[transport]
                        /\ \A c \in conns : c.id = s.conn /\ c.gen = rec.gen => s.gen = c.gen
        BY DEF AttachMatches
    <2>1. s.gen = gen[s.tr] BY DEF MInv, AuthGen
    <2>2. s.tr = transport
        BY DEF IInv, GatewayInv, AttachedOK, OneAttempt, OwnTransport
    <2> QED BY <2>1, <2>2 DEF MInv, ClashOK, Clash, Live
<1>2. Init => MInv BY InitMatches
<1>3. IInv /\ IInv' /\ MInv /\ [Next]_vars => MInv' BY StepMatches
<1> QED BY <1>1, <1>2, <1>3, Invariance, PTL DEF Spec
=============================================================================
