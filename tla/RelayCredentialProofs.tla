----------------------- MODULE RelayCredentialProofs -----------------------
(* Proofs about RelayCredential: the credential the phone holds is one the *)
(* relay knows, a handled revocation is final unless its save was lost,    *)
(* and the rotation implements CredentialHandover.                         *)
EXTENDS RelayCredential, TLAPS

(* Tokens are drawn in order, so "later" is "greater".  A bundle's current *)
(* token has been drawn, and a pending one was drawn after it.             *)
Drawn(b) ==
    /\ 1 <= b.cur /\ b.cur <= minted
    /\ b.pending # 0 => b.cur < b.pending /\ b.pending <= minted

(* An install on its way was asked for by a phone that held m.exp, and     *)
(* neither the store nor the memory has gone back before that.             *)
Sent(m) ==
    /\ 1 <= m.exp /\ m.exp < m.tok /\ m.tok <= minted
    /\ m.exp <= mem.cur
    /\ m.exp <= store.cur

Rotating == pc \in {"status", "provision", "confirm"}

BundlesOK == Drawn(store) /\ Drawn(mem)

MessagesOK == (\A m \in late : Sent(m)) /\ (call.kind = "install" => Sent(call))

RecordsOK ==
    /\ cred = disk \/ cred = NoCredential
    /\ disk.cur # 0 => disk.grace < disk.cur /\ disk.cur <= minted

(* A key the relay remembers is the one in force, or an older one.         *)
KeysOK ==
    \A t \in Tokens : installs[t] # 0 /\ disk.cur # 0 =>
        (t = disk.cur /\ installs[t] = disk.ver) \/ t <= disk.grace

RotationOK ==
    Rotating =>
        /\ local.cur = mem.cur
        /\ local.ver = mem.ver
        /\ local.pending # 0
        /\ Drawn(local)

(* Only a memory with nothing pending may be ahead of the store.           *)
StoreOK == Rotating \/ (pc = "idle" /\ mem.pending # 0) => store.cur = mem.cur

CallOK ==
    call.kind # "none" => Rotating /\ call.tok = local.pending /\ call.exp = local.cur

(* A positive answer on its way to the phone is the truth.                 *)
AnswerOK ==
    /\ resp.kind # "none" => Rotating /\ call.kind = "none"
    /\ resp.kind \in {"committed", "installed"} /\ disk.cur # 0 =>
          disk.cur = local.pending /\ disk.ver = resp.ver

AdoptOK ==
    pc = "adopt" =>
        /\ mem.cur < local.cur /\ local.cur <= minted /\ local.pending = 0
        /\ disk.cur # 0 => disk.cur = local.cur /\ disk.ver = local.ver

RevokedOK == revoked /\ ~saveLost => cred.cur = 0 /\ disk.cur = 0

(* The inductive invariant.                                                *)
IInv ==
    /\ TypeOK
    /\ BundlesOK
    /\ MessagesOK
    /\ RecordsOK
    /\ KeysOK
    /\ RotationOK
    /\ StoreOK
    /\ CallOK
    /\ AnswerOK
    /\ AdoptOK
    /\ RevokedOK
    /\ HeldIsKnown

-----------------------------------------------------------------------------
(* The phone                                                               *)

(* Promoting a bundle keeps it a bundle. *)
LEMMA PromoteType ==
    ASSUME NEW b \in Bundles, NEW v \in Nat
    PROVE  /\ Promote(b, v) \in Bundles
           /\ Promote(b, v).cur = b.pending
           /\ Promote(b, v).ver = v
           /\ Promote(b, v).pending = 0
    BY DEF Promote, Bundles

(* Drawing a token for a bundle: the result is a bundle with that token    *)
(* pending and everything else as it was. *)
LEMMA PendingType ==
    ASSUME NEW b \in Bundles, NEW t \in Nat
    PROVE  /\ [b EXCEPT !.pending = t] \in Bundles
           /\ [b EXCEPT !.pending = t].cur = b.cur
           /\ [b EXCEPT !.pending = t].ver = b.ver
           /\ [b EXCEPT !.pending = t].pending = t
    BY DEF Bundles

(* The initial state satisfies the invariant. *)
LEMMA InitInv == Init => IInv
<1> SUFFICES ASSUME Init PROVE IInv
    OBVIOUS
<1> USE MaxTokensAssumption DEF Init
<1>1. TypeOK
  <2>1. store \in Bundles /\ mem \in Bundles /\ local \in Bundles
    BY DEF Bundles
  <2>2. cred \in Credentials /\ disk \in Credentials
    BY DEF Credentials
  <2>3. installs \in [Tokens -> Nat] /\ minted \in Tokens
    BY DEF Tokens
  <2>4. resp \in [kind : {"none", "committed", "not-found", "installed", "error"}, ver : Nat]
    BY DEF NoResp
  <2> QED
    BY <2>1, <2>2, <2>3, <2>4 DEF TypeOK
<1>2. BundlesOK /\ MessagesOK /\ RotationOK /\ StoreOK /\ CallOK /\ AnswerOK /\ AdoptOK
    BY DEF BundlesOK, Drawn, MessagesOK, RotationOK, Rotating, StoreOK,
           CallOK, AnswerOK, AdoptOK, NoCall, NoResp
<1>3. RecordsOK /\ KeysOK /\ RevokedOK /\ HeldIsKnown
    BY DEF RecordsOK, KeysOK, RevokedOK, HeldIsKnown, Known
<1> QED
    BY <1>1, <1>2, <1>3 DEF IInv

(* The parts that speak of the relay's records alone. *)
RelayPart == RecordsOK /\ KeysOK /\ RevokedOK

(* They survive a step that leaves the records alone and draws at most     *)
(* new tokens. *)
LEMMA RelayPartFrame ==
    ASSUME TypeOK, TypeOK', RelayPart, minted <= minted',
           UNCHANGED <<cred, disk, installs, revoked, saveLost>>
    PROVE  RelayPart'
<1>1. RecordsOK'
    BY DEF RelayPart, RecordsOK, TypeOK, Credentials, Tokens
<1>2. KeysOK' /\ RevokedOK'
    BY DEF RelayPart, KeysOK, RevokedOK
<1> QED
    BY <1>1, <1>2 DEF RelayPart

(* BeginRotation preserves the invariant. *)
LEMMA BeginRotationInv == IInv /\ BeginRotation => IInv'
<1> SUFFICES ASSUME IInv, BeginRotation PROVE IInv'
    OBVIOUS
<1> DEFINE fresh == [mem EXCEPT !.pending = minted + 1]
<1>0. /\ mem \in Bundles /\ store \in Bundles /\ minted \in Nat /\ minted >= 1
      /\ minted <= MaxTokens /\ MaxTokens \in Nat
    BY MaxTokensAssumption DEF IInv, TypeOK, Tokens
<1>1. /\ fresh \in Bundles
      /\ fresh.cur = mem.cur /\ fresh.ver = mem.ver /\ fresh.pending = minted + 1
    BY <1>0, PendingType
<1> HIDE DEF fresh
<1>2. \/ /\ minted < MaxTokens /\ minted' = minted + 1
         /\ local' = fresh /\ store' = fresh
      \/ mem.pending # 0 /\ local' = mem /\ minted' = minted /\ store' = store
    BY DEF BeginRotation, fresh
<1>3. /\ local' \in Bundles /\ store' \in Bundles /\ minted' \in Nat
      /\ minted <= minted' /\ minted' <= MaxTokens
      /\ local'.cur = mem.cur /\ local'.ver = mem.ver
    BY <1>0, <1>1, <1>2
<1>4. Drawn(mem) /\ Drawn(store)
    BY DEF IInv, BundlesOK
<1>5. /\ local'.pending # 0 /\ local'.cur < local'.pending /\ local'.pending <= minted'
      /\ 1 <= local'.cur /\ local'.cur <= minted'
    BY <1>0, <1>1, <1>2, <1>4 DEF Drawn, Bundles
<1>6. \/ store' = local'
      \/ store' = store
    BY <1>2
<1>7. /\ mem' = mem /\ late' = late /\ pc' = "status" /\ resp' = resp
      /\ call' = [kind |-> "status", tok |-> local'.pending, exp |-> local'.cur]
      /\ installed' = installed /\ path' = path
      /\ UNCHANGED <<removed, revoking, cred, disk, installs, revoked, saveLost>>
    BY DEF BeginRotation, relayVars
<1>8. pc = "idle"
    BY DEF BeginRotation
<1>9. TypeOK'
  <2>1. local'.pending \in Tokens /\ local'.cur \in Nat
    BY <1>0, <1>3, <1>5 DEF Tokens, Bundles
  <2>2. call' \in [kind : {"status"}, tok : Tokens, exp : Nat]
    BY <1>7, <2>1
  <2>3. minted' \in Tokens
    BY <1>0, <1>3 DEF Tokens
  <2> QED
    BY <1>3, <1>7, <2>2, <2>3 DEF IInv, TypeOK
<1>10. BundlesOK'
  <2>1. Drawn(mem)'
    BY <1>0, <1>3, <1>4, <1>7 DEF Drawn, Bundles
  <2>2. Drawn(store)'
    BY <1>0, <1>3, <1>4, <1>5, <1>6 DEF Drawn, Bundles
  <2> QED
    BY <2>1, <2>2 DEF BundlesOK
<1>11. MessagesOK'
  <2>1. \A m \in late : Sent(m)
    BY DEF IInv, MessagesOK
  <2>2. ASSUME NEW m \in late PROVE Sent(m)'
    <3>1. Sent(m) /\ m.tok \in Nat /\ m.exp \in Nat
      BY <2>1 DEF IInv, TypeOK, Installs, Tokens
    <3> QED
      BY <1>0, <1>2, <1>1, <1>3, <1>7, <3>1 DEF Sent, Bundles
  <2> QED
    BY <1>7, <2>2 DEF MessagesOK
<1>12. RelayPart'
    BY <1>3, <1>7, <1>9, RelayPartFrame DEF IInv, RelayPart
<1>13. RotationOK' /\ CallOK' /\ AdoptOK'
    BY <1>3, <1>5, <1>7 DEF RotationOK, CallOK, AdoptOK, Rotating, Drawn
<1>14. AnswerOK'
    BY <1>7, <1>8 DEF IInv, AnswerOK, Rotating
<1>15. HeldIsKnown' /\ StoreOK'
    BY <1>2, <1>1, <1>7, <1>8 DEF IInv, HeldIsKnown, Known, StoreOK
<1> QED
    BY <1>9, <1>10, <1>11, <1>12, <1>13, <1>14, <1>15 DEF IInv, RelayPart

(* The committed install is written to the store. *)
LEMMA WriteNextInv ==
    ASSUME IInv, Rotating, resp.kind = "committed", WriteNext
    PROVE  IInv'
<1>1. /\ local \in Bundles /\ resp.ver \in Nat /\ mem \in Bundles /\ minted \in Nat
      /\ call.kind = "none"
    BY DEF IInv, TypeOK, Tokens, AnswerOK
<1>2. /\ Promote(local, resp.ver) \in Bundles
      /\ Promote(local, resp.ver).cur = local.pending
      /\ Promote(local, resp.ver).ver = resp.ver
      /\ Promote(local, resp.ver).pending = 0
    BY <1>1, PromoteType
<1>3. /\ local' \in Bundles /\ store' = local' /\ pc' = "adopt" /\ resp' = NoResp
      /\ local'.cur = local.pending /\ local'.ver = resp.ver /\ local'.pending = 0
      /\ UNCHANGED <<mem, call, installed, late, minted, path, removed, revoking,
                     cred, disk, installs, revoked, saveLost>>
    BY <1>2 DEF WriteNext, relayVars
<1>4. /\ mem.cur < local.pending /\ local.pending <= minted /\ 1 <= mem.cur
    BY <1>1 DEF IInv, RotationOK, Drawn
<1>5. disk.cur # 0 => disk.cur = local.pending /\ disk.ver = resp.ver
    BY DEF IInv, AnswerOK
<1>6. TypeOK'
    BY <1>3 DEF IInv, TypeOK, NoResp
<1>7. BundlesOK'
    BY <1>1, <1>3, <1>4 DEF IInv, BundlesOK, Drawn, Bundles
<1>8. MessagesOK'
  <2>1. ASSUME NEW m \in late PROVE Sent(m)'
    <3>1. Sent(m) /\ m.exp \in Nat
      BY DEF IInv, MessagesOK, TypeOK, Installs
    <3> QED
      BY <1>1, <1>3, <1>4, <3>1 DEF Sent, Bundles
  <2> QED
    BY <1>1, <1>3, <2>1 DEF MessagesOK
<1>9. RelayPart'
    BY <1>1, <1>3, <1>6, RelayPartFrame DEF IInv, RelayPart
<1>10. RotationOK' /\ StoreOK' /\ CallOK' /\ AnswerOK'
    BY <1>1, <1>3 DEF RotationOK, StoreOK, CallOK, AnswerOK, Rotating, NoResp
<1>11. AdoptOK'
    BY <1>3, <1>4, <1>5 DEF AdoptOK
<1>12. HeldIsKnown'
    BY <1>3, <1>5 DEF IInv, HeldIsKnown, Known
<1> QED
    BY <1>6, <1>7, <1>8, <1>9, <1>10, <1>11, <1>12 DEF IInv, RelayPart

(* OnStatus preserves the invariant. *)
LEMMA OnStatusInv == IInv /\ OnStatus => IInv'
<1> SUFFICES ASSUME IInv, OnStatus PROVE IInv'
    OBVIOUS
<1>0. Rotating
    BY DEF OnStatus, Rotating
<1>1. CASE resp.kind = "committed" /\ WriteNext
    BY <1>0, <1>1, WriteNextInv
<1>2. CASE /\ resp.kind = "not-found" /\ pc' = "provision"
           /\ call' = [kind |-> "install", tok |-> local.pending, exp |-> local.cur]
           /\ resp' = NoResp
           /\ UNCHANGED <<store, mem, local, installed, late, minted, path, relayVars>>
  <2>1. /\ local \in Bundles /\ mem \in Bundles /\ store \in Bundles
        /\ minted \in Nat /\ minted <= MaxTokens /\ MaxTokens \in Nat
    BY MaxTokensAssumption DEF IInv, TypeOK, Tokens
  <2>2. /\ local.cur = mem.cur /\ 1 <= local.cur /\ local.cur < local.pending
        /\ local.pending <= minted
    BY <1>0 DEF IInv, RotationOK, Drawn
  <2>3. store.cur = mem.cur
    BY <1>0 DEF IInv, StoreOK
  <2>4. call' \in Installs /\ call'.exp = mem.cur /\ call'.tok = local.pending
    BY <1>2, <2>1, <2>2 DEF Installs, Tokens, Bundles
  <2>5. UNCHANGED <<store, mem, local, installed, late, minted, path, removed, revoking,
                    cred, disk, installs, revoked, saveLost>>
    BY <1>2 DEF relayVars
  <2>6. TypeOK'
    BY <1>2, <2>4, <2>5 DEF IInv, TypeOK, NoResp
  <2>7. BundlesOK' /\ RotationOK' /\ StoreOK' /\ AdoptOK' /\ HeldIsKnown'
    BY <1>0, <1>2, <2>5 DEF IInv, BundlesOK, RotationOK, StoreOK, AdoptOK, HeldIsKnown,
                            Known, Drawn, Rotating
  <2>8. MessagesOK'
    <3>1. Sent(call)'
      BY <2>1, <2>2, <2>3, <2>4, <2>5 DEF Sent, Bundles
    <3>2. \A m \in late : Sent(m)'
      BY <2>5 DEF IInv, MessagesOK, Sent
    <3> QED
      BY <2>5, <3>1, <3>2 DEF MessagesOK
  <2>9. CallOK' /\ AnswerOK'
    BY <1>2, <2>2, <2>4, <2>5 DEF CallOK, AnswerOK, Rotating, NoResp
  <2>10. RelayPart'
    BY <2>1, <2>5, <2>6, RelayPartFrame DEF IInv, RelayPart
  <2> QED
    BY <2>6, <2>7, <2>8, <2>9, <2>10 DEF IInv, RelayPart
<1> QED
    BY <1>1, <1>2 DEF OnStatus

(* OnProvision preserves the invariant. *)
LEMMA OnProvisionInv == IInv /\ OnProvision => IInv'
<1> SUFFICES ASSUME IInv, OnProvision PROVE IInv'
    OBVIOUS
<1>1. /\ pc' = "confirm" /\ resp' = NoResp /\ installed' = resp.ver
      /\ call' = [kind |-> "status", tok |-> local.pending, exp |-> local.cur]
      /\ UNCHANGED <<store, mem, local, late, minted, path, removed, revoking,
                     cred, disk, installs, revoked, saveLost>>
    BY DEF OnProvision, relayVars
<1>2. Rotating
    BY DEF OnProvision, Rotating
<1>3. TypeOK'
  <2>1. /\ local \in Bundles /\ minted \in Nat /\ minted <= MaxTokens
        /\ local.pending # 0 /\ local.pending <= minted /\ resp.ver \in Nat /\ MaxTokens \in Nat
    BY <1>2, MaxTokensAssumption DEF IInv, TypeOK, Tokens, RotationOK, Drawn
  <2>2. local.pending \in Tokens /\ local.cur \in Nat
    BY <2>1 DEF Tokens, Bundles
  <2>3. call' \in [kind : {"status"}, tok : Tokens, exp : Nat]
    BY <1>1, <2>2
  <2> QED
    BY <1>1, <2>1, <2>3 DEF IInv, TypeOK, NoResp
<1>4. BundlesOK' /\ RotationOK' /\ StoreOK' /\ AdoptOK' /\ HeldIsKnown'
    BY <1>1, <1>2 DEF IInv, BundlesOK, RotationOK, StoreOK, AdoptOK, HeldIsKnown,
                      Known, Drawn, Rotating
<1>5. MessagesOK' /\ CallOK' /\ AnswerOK'
    BY <1>1 DEF IInv, MessagesOK, Sent, CallOK, AnswerOK, Rotating, NoResp
<1>6. RelayPart'
    BY <1>1, <1>3, RelayPartFrame DEF IInv, RelayPart, TypeOK, Tokens
<1> QED
    BY <1>3, <1>4, <1>5, <1>6 DEF IInv, RelayPart

(* OnConfirm preserves the invariant. *)
LEMMA OnConfirmInv == IInv /\ OnConfirm => IInv'
    BY WriteNextInv DEF OnConfirm, Rotating

(* Adopt preserves the invariant. *)
LEMMA AdoptInv == IInv /\ Adopt => IInv'
<1> SUFFICES ASSUME IInv, Adopt PROVE IInv'
    OBVIOUS
<1>1. /\ mem' = local /\ pc' = "idle" /\ pc = "adopt"
      /\ UNCHANGED <<store, local, call, resp, installed, late, minted, path, removed,
                     revoking, cred, disk, installs, revoked, saveLost>>
    BY DEF Adopt, relayVars
<1>2. /\ mem \in Bundles /\ local \in Bundles /\ minted \in Nat
      /\ mem.cur < local.cur /\ local.cur <= minted /\ local.pending = 0 /\ 1 <= mem.cur
      /\ disk.cur # 0 => disk.cur = local.cur /\ disk.ver = local.ver
    BY <1>1 DEF IInv, TypeOK, Tokens, AdoptOK, BundlesOK, Drawn
<1>3. TypeOK'
    BY <1>1, <1>2 DEF IInv, TypeOK
<1>4. BundlesOK'
    BY <1>1, <1>2 DEF IInv, BundlesOK, Drawn, Bundles
<1>5. MessagesOK'
  <2>1. ASSUME NEW m \in late PROVE Sent(m)'
    <3>1. Sent(m) /\ m.exp \in Nat
      BY DEF IInv, MessagesOK, TypeOK, Installs
    <3> QED
      BY <1>1, <1>2, <3>1 DEF Sent, Bundles
  <2>2. call.kind = "none"
    BY <1>1 DEF IInv, CallOK, Rotating
  <2> QED
    BY <1>1, <2>1, <2>2 DEF MessagesOK
<1>6. RotationOK' /\ StoreOK' /\ CallOK' /\ AnswerOK' /\ AdoptOK'
    BY <1>1, <1>2 DEF IInv, RotationOK, StoreOK, CallOK, AnswerOK, AdoptOK, Rotating
<1>7. RelayPart'
    BY <1>1, <1>2, <1>3, RelayPartFrame DEF IInv, RelayPart
<1>8. HeldIsKnown'
    BY <1>1, <1>2 DEF IInv, HeldIsKnown, Known
<1> QED
    BY <1>3, <1>4, <1>5, <1>6, <1>7, <1>8 DEF IInv, RelayPart

(* A rotation given up, a lost or changed path, and a restart: requests    *)
(* become late ones; the store takes the memory's bundle, or the memory    *)
(* the store's, or neither. *)
LEMMA LeaveInv ==
    ASSUME IInv,
           Abandon \/ (~Rotating /\ UNCHANGED <<pc, call, resp, late>>),
           \/ UNCHANGED <<store, mem>> /\ (pc = "adopt" => pc' = "adopt")
           \/ store' = mem /\ mem' = mem
           \/ store' = store /\ mem' = store /\ pc' = "idle",
           UNCHANGED <<local, installed, minted, cred, disk, installs, revoked, saveLost>>,
           path' \in {"direct", "relay", "down"}, removed' \in BOOLEAN, revoking' \in BOOLEAN
    PROVE  IInv'
<1>1. /\ store \in Bundles /\ mem \in Bundles /\ minted \in Nat
      /\ late \subseteq Installs
      /\ call \in {NoCall} \cup Installs \cup [kind : {"status"}, tok : Tokens, exp : Nat]
    BY DEF IInv, TypeOK, Tokens
<1>2. /\ store' \in {store, mem} /\ mem' \in {store, mem}
      /\ store'.cur \in Nat /\ mem'.cur \in Nat
    BY <1>1 DEF Bundles
<1>3. \/ /\ pc' = "idle" /\ call' = NoCall /\ resp' = NoResp
         /\ late' = IF call.kind = "install" THEN late \cup {call} ELSE late
      \/ ~Rotating /\ UNCHANGED <<pc, call, resp, late>>
    BY DEF Abandon
<1>4. call.kind = "install" => call \in Installs
    BY <1>1 DEF NoCall
<1>5. /\ late' \subseteq Installs
      /\ \A m \in late' : m \in late \/ (m = call /\ call.kind = "install")
    BY <1>1, <1>3, <1>4
<1>6. ~Rotating'
    BY <1>3 DEF Rotating
<1>7. ~Rotating => call.kind = "none" /\ resp.kind = "none"
    BY DEF IInv, CallOK, AnswerOK
<1>8. call'.kind = "none" /\ resp'.kind = "none"
    BY <1>3, <1>7 DEF NoCall, NoResp
<1>9. TypeOK'
  <2>1. call' \in {NoCall} \cup Installs \cup [kind : {"status"}, tok : Tokens, exp : Nat]
    BY <1>1, <1>3
  <2>2. resp' \in [kind : {"none", "committed", "not-found", "installed", "error"}, ver : Nat]
    BY <1>3 DEF IInv, TypeOK, NoResp
  <2>3. pc' \in {"idle", "status", "provision", "confirm", "adopt"}
    BY <1>3 DEF IInv, TypeOK
  <2>4. store' \in Bundles /\ mem' \in Bundles
    BY <1>1, <1>2
  <2> QED
    BY <1>5, <2>1, <2>2, <2>3, <2>4 DEF IInv, TypeOK
<1>10. BundlesOK'
    BY <1>2 DEF IInv, BundlesOK, Drawn
<1>11. MessagesOK'
  <2>1. ASSUME NEW m \in late' PROVE Sent(m)'
    <3>1. Sent(m)
      BY <1>5, <2>1 DEF IInv, MessagesOK
    <3> QED
      BY <1>2, <3>1 DEF Sent
  <2> QED
    BY <1>8, <2>1 DEF MessagesOK
<1>12. RelayPart'
    BY <1>1, <1>9, RelayPartFrame DEF IInv, RelayPart
<1>13. RotationOK' /\ CallOK' /\ AnswerOK'
    BY <1>6, <1>8 DEF RotationOK, CallOK, AnswerOK
<1>14. StoreOK'
  <2>1. CASE UNCHANGED <<store, mem>> /\ (pc = "adopt" => pc' = "adopt")
    <3>1. pc \in {"idle", "status", "provision", "confirm", "adopt"}
      BY DEF IInv, TypeOK
    <3> QED
      BY <1>6, <2>1, <3>1 DEF IInv, StoreOK, Rotating
  <2> QED
    BY <2>1 DEF StoreOK
<1>15. AdoptOK'
  <2>1. pc' = "adopt" => pc = "adopt" /\ mem' = mem
    BY <1>3
  <2> QED
    BY <2>1 DEF IInv, AdoptOK
<1>16. HeldIsKnown'
    BY <1>2 DEF IInv, HeldIsKnown, Known
<1> QED
    BY <1>9, <1>10, <1>11, <1>12, <1>13, <1>14, <1>15, <1>16 DEF IInv, RelayPart

(* Cutover is one of LeaveInv's two ways to leave a rotation. *)
LEMMA CutoverLeaves ==
    ASSUME IInv, Cutover
    PROVE  /\ Abandon \/ (~Rotating /\ UNCHANGED <<pc, call, resp, late>>)
           /\ pc = "adopt" => pc' = "adopt"
    BY DEF Cutover, Rotating

(* The steps of the phone that give up, lose or change its path. *)
LEMMA PathStepsInv ==
    IInv /\ (RotationFails \/ Disconnect \/ GoDirect \/ ConnectRelay \/ PhoneRestart) => IInv'
<1> SUFFICES ASSUME IInv PROVE
        RotationFails \/ Disconnect \/ GoDirect \/ ConnectRelay \/ PhoneRestart => IInv'
    OBVIOUS
<1>0. path \in {"direct", "relay", "down"} /\ removed \in BOOLEAN /\ revoking \in BOOLEAN
    BY DEF IInv, TypeOK
<1>1. CASE RotationFails
    BY <1>0, <1>1, LeaveInv DEF RotationFails, relayVars
<1>2. CASE Disconnect
    BY <1>0, <1>2, CutoverLeaves, LeaveInv DEF Disconnect, relayVars
<1>3. CASE ConnectRelay
    BY <1>0, <1>3, CutoverLeaves, LeaveInv DEF ConnectRelay, relayVars
<1>4. CASE PhoneRestart
  <2>1. Abandon /\ pc' = "idle"
    BY <1>4 DEF PhoneRestart, Abandon
  <2> QED
    BY <1>0, <1>4, <2>1, LeaveInv DEF PhoneRestart, relayVars
<1>5. CASE GoDirect
  <2>1. /\ path' = "direct"
        /\ UNCHANGED <<store, mem, local, pc, call, resp, installed, late, minted, removed,
                       revoking, cred, disk, installs, revoked, saveLost>>
    BY <1>5 DEF GoDirect, relayVars
  <2>2. TypeOK'
    BY <2>1 DEF IInv, TypeOK
  <2>3. BundlesOK' /\ MessagesOK' /\ RecordsOK' /\ KeysOK' /\ HeldIsKnown'
    BY <2>1 DEF IInv, BundlesOK, MessagesOK, RecordsOK, KeysOK, HeldIsKnown, Known, Drawn, Sent
  <2>4. RotationOK' /\ StoreOK' /\ CallOK' /\ AnswerOK' /\ AdoptOK' /\ RevokedOK'
    BY <2>1 DEF IInv, RotationOK, StoreOK, CallOK, AnswerOK, AdoptOK, RevokedOK, Rotating, Drawn
  <2> QED
    BY <2>2, <2>3, <2>4 DEF IInv
<1> QED
    BY <1>1, <1>2, <1>3, <1>4, <1>5

-----------------------------------------------------------------------------
(* The relay                                                               *)

(* ServeStatus preserves the invariant. *)
LEMMA ServeStatusInv == IInv /\ ServeStatus => IInv'
<1> SUFFICES ASSUME IInv, ServeStatus PROVE IInv'
    OBVIOUS
<1>1. /\ call.kind = "status" /\ call' = NoCall
      /\ UNCHANGED <<store, mem, local, pc, installed, late, minted, path, removed, revoking,
                     cred, disk, installs, revoked, saveLost>>
    BY DEF ServeStatus, relayVars
<1>2. /\ Rotating /\ call.tok = local.pending /\ call.tok \in Tokens
      /\ installs \in [Tokens -> Nat]
    BY <1>1 DEF IInv, CallOK, TypeOK, NoCall, Installs
<1>3. \/ resp' = [kind |-> "not-found", ver |-> 0]
      \/ /\ resp' = [kind |-> "committed", ver |-> installs[call.tok]]
         /\ installs[call.tok] # 0
    BY DEF ServeStatus
<1>4. TypeOK'
  <2>1. resp' \in [kind : {"none", "committed", "not-found", "installed", "error"}, ver : Nat]
    BY <1>2, <1>3
  <2> QED
    BY <1>1, <2>1 DEF IInv, TypeOK
<1>5. BundlesOK' /\ RotationOK' /\ StoreOK' /\ AdoptOK' /\ HeldIsKnown'
    BY <1>1 DEF IInv, BundlesOK, RotationOK, StoreOK, AdoptOK, HeldIsKnown,
                Known, Drawn, Rotating
<1>6. MessagesOK' /\ CallOK'
    BY <1>1 DEF IInv, MessagesOK, Sent, CallOK, NoCall
<1>7. RelayPart'
    BY <1>1, <1>4, RelayPartFrame DEF IInv, RelayPart, TypeOK, Tokens
<1>8. AnswerOK'
  <2>1. resp'.kind \in {"committed", "installed"} =>
            resp'.ver = installs[call.tok] /\ installs[call.tok] # 0
    BY <1>3
  <2>2. /\ local.cur = mem.cur /\ local.cur < local.pending
        /\ local.cur \in Nat /\ local.pending \in Nat
    BY <1>2 DEF IInv, RotationOK, Drawn, TypeOK, Bundles
  <2>3. disk.cur # 0 => disk.grace <= mem.cur
    BY DEF IInv, HeldIsKnown, Known, RecordsOK, TypeOK, Credentials, Bundles
  <2>4. disk.cur # 0 /\ installs[call.tok] # 0 =>
            disk.cur = local.pending /\ disk.ver = installs[call.tok]
    <3>1. disk.cur # 0 /\ installs[call.tok] # 0 =>
              (call.tok = disk.cur /\ installs[call.tok] = disk.ver) \/ call.tok <= disk.grace
      BY <1>2 DEF IInv, KeysOK
    <3>2. disk.grace \in Nat
      BY DEF IInv, TypeOK, Credentials
    <3> QED
      BY <1>2, <2>2, <2>3, <3>1, <3>2
  <2> QED
    BY <1>1, <1>2, <2>1, <2>4 DEF AnswerOK, Rotating, NoCall
<1> QED
    BY <1>4, <1>5, <1>6, <1>7, <1>8 DEF IInv, RelayPart

(* What an install that commits does: the phone's store and memory both    *)
(* hold the credential it replaces, which becomes the grace credential. *)
LEMMA CommitFacts ==
    ASSUME IInv, NEW m \in Installs, Sent(m), Commits(m)
    PROVE  /\ cred = disk /\ disk.cur = m.exp /\ disk.cur # 0
           /\ store.cur = m.exp /\ store.ver = disk.ver
           /\ mem.cur = m.exp /\ mem.ver = disk.ver
<1>1. cred = disk /\ disk.cur = m.exp /\ disk.cur # 0
    BY DEF Commits, ExpectedHashMatches, IInv, RecordsOK, NoCredential
<1>2. disk.grace < disk.cur /\ m.exp <= store.cur /\ m.exp <= mem.cur
    BY <1>1 DEF IInv, RecordsOK, Sent
<1>3. Known(store) /\ Known(mem)
    BY <1>1 DEF IInv, HeldIsKnown
<1>4. disk.grace \in Nat /\ disk.cur \in Nat /\ store.cur \in Nat /\ mem.cur \in Nat
    BY DEF IInv, TypeOK, Credentials, Bundles
<1> QED
    BY <1>1, <1>2, <1>3, <1>4 DEF Known

(* An install handled by the relay, awaited or not, preserves the          *)
(* invariant. *)
LEMMA InstallInv ==
    ASSUME IInv, NEW m \in Installs, Sent(m), NEW saved \in BOOLEAN, Install(m, saved),
           UNCHANGED <<store, mem, local, pc, installed, minted, path>>,
           late' \subseteq late,
           \/ UNCHANGED <<call, resp>>
           \/ /\ call.kind = "install" /\ call = m
              /\ call' = NoCall /\ resp' = InstallAnswer(m, saved)
    PROVE  IInv'
<1> DEFINE new == [cur |-> m.tok, ver |-> cred.ver + 1, grace |-> cred.cur, graceVer |-> cred.ver]
<1>1. \/ /\ Commits(m) /\ saved
         /\ cred' = new /\ disk' = new
         /\ installs' = [installs EXCEPT ![m.tok] = cred.ver + 1]
         /\ UNCHANGED <<removed, revoking, revoked, saveLost>>
      \/ /\ ~(Commits(m) /\ saved)
         /\ UNCHANGED <<removed, revoking, cred, disk, installs, revoked, saveLost>>
    BY DEF Install, relayVars
<1>2. /\ m.tok \in Tokens /\ m.tok \in Nat /\ m.exp \in Nat /\ m.exp < m.tok /\ m.tok <= minted
      /\ cred \in Credentials /\ disk \in Credentials /\ installs \in [Tokens -> Nat]
      /\ minted \in Nat
    BY DEF Installs, Tokens, Sent, IInv, TypeOK
<1>3. new \in Credentials
    BY <1>2 DEF Credentials
<1>4. /\ new.cur = m.tok /\ new.ver = cred.ver + 1 /\ new.grace = cred.cur /\ new.graceVer = cred.ver
    OBVIOUS
<1> HIDE DEF new
<1>5. InstallAnswer(m, saved) \in
        [kind : {"none", "committed", "not-found", "installed", "error"}, ver : Nat]
    BY <1>2 DEF InstallAnswer, Credentials
<1>6. TypeOK'
  <2>1. cred' \in Credentials /\ disk' \in Credentials
    BY <1>1, <1>2, <1>3
  <2>2. installs' \in [Tokens -> Nat]
    BY <1>1, <1>2 DEF Credentials
  <2>3. resp' \in [kind : {"none", "committed", "not-found", "installed", "error"}, ver : Nat]
    BY <1>5 DEF IInv, TypeOK
  <2>4. removed' = removed /\ revoking' = revoking /\ revoked' = revoked /\ saveLost' = saveLost
    BY <1>1
  <2>5. call' \in {NoCall} \cup Installs \cup [kind : {"status"}, tok : Tokens, exp : Nat]
    BY DEF IInv, TypeOK
  <2> QED
    BY <2>1, <2>2, <2>3, <2>4, <2>5 DEF IInv, TypeOK
<1>7. BundlesOK' /\ RotationOK' /\ StoreOK'
    BY DEF IInv, BundlesOK, RotationOK, StoreOK, Drawn, Rotating
<1>8. MessagesOK' /\ CallOK'
    BY DEF IInv, MessagesOK, CallOK, Sent, Rotating, NoCall
<1>9. ASSUME ~(Commits(m) /\ saved) PROVE IInv'
  <2>1. UNCHANGED <<cred, disk, installs, revoked, saveLost>>
    BY <1>1, <1>9
  <2>2. RelayPart'
    BY <1>2, <1>6, <2>1, RelayPartFrame DEF IInv, RelayPart
  <2>3. AdoptOK' /\ HeldIsKnown'
    BY <2>1 DEF IInv, AdoptOK, HeldIsKnown, Known
  <2>4. AnswerOK'
    <3>1. CASE UNCHANGED <<call, resp>>
      BY <2>1, <3>1 DEF IInv, AnswerOK, Rotating
    <3>2. CASE /\ call.kind = "install" /\ call = m
               /\ call' = NoCall /\ resp' = InstallAnswer(m, saved)
      <4>1. Rotating /\ m.tok = local.pending
        BY <3>2 DEF IInv, CallOK
      <4>2. resp'.kind \in {"committed", "installed"} =>
                installs[m.tok] # 0 /\ resp'.ver = installs[m.tok]
        BY <1>9, <3>2 DEF InstallAnswer
      <4>3. /\ local.cur = mem.cur /\ local.cur < local.pending
            /\ local.cur \in Nat /\ local.pending \in Nat
        BY <4>1 DEF IInv, RotationOK, Drawn, TypeOK, Bundles
      <4>4. disk.cur # 0 => disk.grace <= mem.cur /\ disk.grace \in Nat
        BY DEF IInv, HeldIsKnown, Known, RecordsOK, TypeOK, Credentials, Bundles
      <4>5. disk.cur # 0 /\ installs[m.tok] # 0 =>
                (m.tok = disk.cur /\ installs[m.tok] = disk.ver) \/ m.tok <= disk.grace
        BY <1>2 DEF IInv, KeysOK
      <4>6. disk.cur # 0 /\ installs[m.tok] # 0 =>
                disk.cur = local.pending /\ disk.ver = installs[m.tok]
        BY <4>1, <4>3, <4>4, <4>5
      <4> QED
        BY <2>1, <3>2, <4>1, <4>2, <4>6 DEF AnswerOK, Rotating, NoCall
    <3> QED
      BY <3>1, <3>2
  <2> QED
    BY <1>6, <1>7, <1>8, <2>2, <2>3, <2>4 DEF IInv, RelayPart
<1>10. ASSUME Commits(m), saved PROVE IInv'
  <2>1. /\ cred' = new /\ disk' = new /\ installs' = [installs EXCEPT ![m.tok] = cred.ver + 1]
        /\ UNCHANGED <<removed, revoking, revoked, saveLost>>
    BY <1>1, <1>10
  <2>2. /\ cred = disk /\ disk.cur = m.exp /\ disk.cur # 0
        /\ store.cur = m.exp /\ store.ver = disk.ver
        /\ mem.cur = m.exp /\ mem.ver = disk.ver
    BY <1>10, CommitFacts
  <2>3. RecordsOK'
    BY <1>2, <1>4, <2>1, <2>2 DEF RecordsOK
  <2>4. KeysOK'
    <3>1. ASSUME NEW t \in Tokens, installs'[t] # 0
          PROVE  (t = m.tok /\ installs'[t] = cred.ver + 1) \/ t <= cred.cur
      <4>1. CASE t = m.tok
        BY <1>2, <2>1, <4>1
      <4>2. CASE t # m.tok
        <5>1. installs[t] # 0
          BY <1>2, <2>1, <3>1, <4>2
        <5>2. t = disk.cur \/ t <= disk.grace
          BY <2>2, <5>1 DEF IInv, KeysOK
        <5>3. disk.grace < disk.cur /\ disk.grace \in Nat /\ disk.cur \in Nat /\ t \in Nat
          BY <2>2 DEF IInv, RecordsOK, TypeOK, Credentials, Tokens
        <5> QED
          BY <2>2, <5>2, <5>3
      <4> QED
        BY <4>1, <4>2
    <3> QED
      BY <1>4, <2>1, <3>1 DEF KeysOK
  <2>5. RevokedOK'
    BY <2>1, <2>2 DEF IInv, RevokedOK
  <2>6. HeldIsKnown'
    BY <1>4, <2>1, <2>2 DEF HeldIsKnown, Known
  <2>7. AdoptOK'
    <3>1. pc # "adopt"
      BY <1>2, <2>2 DEF IInv, AdoptOK, TypeOK, Bundles
    <3> QED
      BY <3>1 DEF AdoptOK
  <2>8. AnswerOK'
    <3>1. CASE UNCHANGED <<call, resp>>
      <4>1. ASSUME resp.kind \in {"committed", "installed"} PROVE FALSE
        <5>1. Rotating
          BY <4>1 DEF IInv, AnswerOK
        <5>2. local.cur = mem.cur /\ local.cur < local.pending
          BY <5>1 DEF IInv, RotationOK, Drawn
        <5>3. disk.cur = local.pending
          BY <2>2, <4>1 DEF IInv, AnswerOK
        <5> QED
          BY <1>2, <2>2, <5>2, <5>3
      <4> QED
        BY <3>1, <4>1 DEF IInv, AnswerOK, Rotating
    <3>2. CASE /\ call.kind = "install" /\ call = m
               /\ call' = NoCall /\ resp' = InstallAnswer(m, saved)
      <4>1. Rotating /\ m.tok = local.pending
        BY <3>2 DEF IInv, CallOK
      <4>2. resp'.ver = cred.ver + 1
        BY <1>10, <3>2 DEF InstallAnswer, Commits
      <4> QED
        BY <1>4, <2>1, <3>2, <4>1, <4>2 DEF AnswerOK, Rotating, NoCall
    <3> QED
      BY <3>1, <3>2
  <2> QED
    BY <1>6, <1>7, <1>8, <2>3, <2>4, <2>5, <2>6, <2>7, <2>8 DEF IInv
<1> QED
    BY <1>9, <1>10

(* ServeInstall and ServeLate preserve the invariant. *)
LEMMA ServeInstallInv == IInv /\ (ServeInstall \/ ServeLate) => IInv'
<1> SUFFICES ASSUME IInv PROVE ServeInstall \/ ServeLate => IInv'
    OBVIOUS
<1>1. CASE ServeInstall
  <2>1. call \in Installs /\ Sent(call)
    BY <1>1 DEF ServeInstall, IInv, TypeOK, MessagesOK, NoCall
  <2> QED
    BY <1>1, <2>1, InstallInv DEF ServeInstall
<1>2. CASE ServeLate
  <2>1. PICK m \in late, saved \in BOOLEAN : late' = late \ {m} /\ Install(m, saved)
    BY <1>2 DEF ServeLate
  <2>2. m \in Installs /\ Sent(m) /\ late' \subseteq late
    BY <2>1 DEF IInv, TypeOK, MessagesOK
  <2> QED
    BY <1>2, <2>1, <2>2, InstallInv DEF ServeLate
<1> QED
    BY <1>1, <1>2

(* The steps that withdraw, save or reload records. *)
LEMMA RecordStepsInv ==
    IInv /\ (RevokeDevice \/ RelayRevoke \/ SaveOther \/ RelayRestart) => IInv'
<1> SUFFICES ASSUME IInv PROVE RevokeDevice \/ RelayRevoke \/ SaveOther \/ RelayRestart => IInv'
    OBVIOUS
<1>1. CASE RevokeDevice
  <2>1. removed' \in BOOLEAN /\ revoking' \in BOOLEAN
    BY <1>1 DEF RevokeDevice
  <2> QED
    BY <1>1, <2>1, CutoverLeaves, LeaveInv DEF RevokeDevice
<1>2. CASE RelayRevoke \/ SaveOther \/ RelayRestart
  <2>1. /\ UNCHANGED <<store, mem, local, pc, call, resp, installed, late, minted, path, removed>>
        /\ disk' = disk \/ disk' = NoCredential
        /\ cred' = disk' \/ cred' = NoCredential
        /\ cred' = cred \/ cred' = NoCredential \/ cred' = disk
        /\ installs' = installs \/ installs' = [t \in Tokens |-> 0]
    BY <1>2 DEF RelayRevoke, SaveOther, RelayRestart, phoneVars, IInv, RecordsOK
  <2>2. NoCredential \in Credentials /\ NoCredential.cur = 0
    BY DEF NoCredential, Credentials
  <2>3. disk' \in Credentials /\ cred' \in Credentials
    BY <2>1, <2>2 DEF IInv, TypeOK
  <2>4. installs' \in [Tokens -> Nat]
    BY <2>1 DEF IInv, TypeOK
  <2>5. revoked' \in BOOLEAN /\ saveLost' \in BOOLEAN /\ revoking' \in BOOLEAN
    BY <1>2 DEF RelayRevoke, SaveOther, RelayRestart, IInv, TypeOK
  <2>6. TypeOK'
    BY <2>1, <2>3, <2>4, <2>5 DEF IInv, TypeOK
  <2>7. BundlesOK' /\ RotationOK' /\ StoreOK' /\ MessagesOK' /\ CallOK'
    BY <2>1 DEF IInv, BundlesOK, RotationOK, StoreOK, MessagesOK, CallOK, Drawn, Sent, Rotating
  <2>8. disk'.cur # 0 => disk' = disk
    BY <2>1, <2>2
  <2>9. RecordsOK'
    BY <2>1, <2>8 DEF IInv, RecordsOK
  <2>10. KeysOK'
    <3>1. \A t \in Tokens : installs'[t] # 0 => installs'[t] = installs[t]
      BY <2>1
    <3> QED
      BY <2>8, <3>1 DEF IInv, KeysOK
  <2>11. AnswerOK' /\ AdoptOK' /\ HeldIsKnown'
    BY <2>1, <2>8 DEF IInv, AnswerOK, AdoptOK, HeldIsKnown, Known, Rotating
  <2>12. RevokedOK'
    <3>1. CASE RelayRevoke
      BY <2>2, <3>1 DEF RelayRevoke, IInv, RevokedOK
    <3>2. CASE SaveOther
      BY <3>2 DEF SaveOther, IInv, RevokedOK
    <3>3. CASE RelayRestart
      BY <3>3 DEF RelayRestart, IInv, RevokedOK
    <3> QED
      BY <1>2, <3>1, <3>2, <3>3
  <2> QED
    BY <2>6, <2>7, <2>9, <2>10, <2>11, <2>12 DEF IInv
<1> QED
    BY <1>1, <1>2

-----------------------------------------------------------------------------
(* The theorems                                                            *)

(* Every step preserves the invariant. *)
LEMMA NextInv == IInv /\ [Next]_vars => IInv'
<1> SUFFICES ASSUME IInv, [Next]_vars PROVE IInv'
    OBVIOUS
<1>1. CASE Next
    BY <1>1, BeginRotationInv, OnStatusInv, OnProvisionInv, OnConfirmInv, AdoptInv, PathStepsInv,
       ServeStatusInv, ServeInstallInv, RecordStepsInv DEF Next
<1>2. CASE UNCHANGED vars
  <2>1. UNCHANGED <<store, mem, local, pc, call, resp, installed, late, minted, path, removed,
                    revoking, cred, disk, installs, revoked, saveLost>>
    BY <1>2 DEF vars, phoneVars, relayVars
  <2>2. TypeOK'
    BY <2>1 DEF IInv, TypeOK
  <2>3. BundlesOK' /\ MessagesOK' /\ RecordsOK' /\ KeysOK' /\ HeldIsKnown'
    BY <2>1 DEF IInv, BundlesOK, MessagesOK, RecordsOK, KeysOK, HeldIsKnown, Known, Drawn, Sent
  <2>4. RotationOK' /\ StoreOK' /\ CallOK' /\ AnswerOK' /\ AdoptOK' /\ RevokedOK'
    BY <2>1 DEF IInv, RotationOK, StoreOK, CallOK, AnswerOK, AdoptOK, RevokedOK, Rotating, Drawn
  <2> QED
    BY <2>2, <2>3, <2>4 DEF IInv
<1> QED
    BY <1>1, <1>2

(* The invariant holds in every state of every behaviour of Spec, for      *)
(* every number of tokens. *)
THEOREM Invariance == Spec => []IInv
<1> QED
    BY InitInv, NextInv, PTL DEF Spec

(* Type correctness of the rotation (mobile-relay-credential-rotation.ts). *)
THEOREM TypeCorrect == Spec => []TypeOK
<1>1. IInv => TypeOK
    BY DEF IInv
<1> QED
    BY <1>1, Invariance, PTL

(* However answers are lost and either side restarts, the phone holds a    *)
(* credential the relay has in force or honours as grace. *)
THEOREM HeldIsKnownAlways == Spec => []HeldIsKnown
<1>1. IInv => HeldIsKnown
    BY DEF IInv
<1> QED
    BY <1>1, Invariance, PTL

(* revokeDevice of the relay is final unless its save failed. *)
THEOREM RevokedGoneAlways == Spec => []RevokedGone
<1>1. IInv => RevokedGone
    BY DEF IInv, RevokedOK, RevokedGone
<1> QED
    BY <1>1, Invariance, PTL

-----------------------------------------------------------------------------
(* The refinement                                                          *)

Reg == [cur |-> disk.cur, prev |-> disk.grace]

(* A step that commits a credential is Handover's Issue. *)
LEMMA CommitIssues ==
    ASSUME IInv, NEW m \in Installs, Sent(m), NEW saved \in BOOLEAN, Install(m, saved),
           UNCHANGED store
    PROVE  Handover!Issue \/ UNCHANGED <<Reg, store.cur>>
<1>1. CASE Commits(m) /\ saved
  <2>1. disk.cur = m.exp /\ disk.cur # 0 /\ store.cur = m.exp /\ cred = disk
    BY <1>1, CommitFacts
  <2>2. disk'.cur = m.tok /\ disk'.grace = disk.cur
    BY <1>1, <2>1 DEF Install
  <2>3. m.tok \in Nat /\ m.exp < m.tok /\ m.exp \in Nat
    BY DEF Installs, Tokens, Sent
  <2>4. Reg' = [cur |-> m.tok, prev |-> disk.cur]
    BY <2>2 DEF Reg
  <2> QED
    BY <2>1, <2>3, <2>4 DEF Handover!Issue, Reg
<1>2. CASE ~(Commits(m) /\ saved)
    BY <1>2 DEF Install, relayVars, Reg
<1> QED
    BY <1>1, <1>2

(* A step that leaves the state file alone and writes to the phone's store *)
(* only what the relay knows is one of Handover's. *)
LEMMA StoreSteps ==
    ASSUME IInv, IInv', UNCHANGED disk
    PROVE  Handover!Next \/ UNCHANGED <<Reg, store.cur>>
<1>1. Reg' = Reg /\ store'.cur \in Nat
    BY DEF Reg, IInv, TypeOK, Bundles
<1>2. disk.cur # 0 => store'.cur \in {disk.cur, disk.grace}
    BY DEF IInv, HeldIsKnown, Known
<1>3. CASE disk.cur = 0
    BY <1>1, <1>3 DEF Handover!Next, Handover!Dangling, Reg
<1>4. CASE disk.cur # 0
    BY <1>1, <1>2, <1>4 DEF Handover!Next, Handover!Adopt, Handover!FallBack, Reg
<1> QED
    BY <1>3, <1>4

(* Every step of the rotation is a step of the handover. *)
LEMMA NextRefines ==
    ASSUME IInv, IInv', [Next]_vars
    PROVE  [Handover!Next]_<<Reg, store.cur>>
<1>1. CASE ServeInstall
  <2>1. call \in Installs /\ Sent(call)
    BY <1>1 DEF ServeInstall, IInv, TypeOK, MessagesOK, NoCall
  <2>2. PICK saved \in BOOLEAN : Install(call, saved)
    BY <1>1 DEF ServeInstall
  <2>3. UNCHANGED store
    BY <1>1 DEF ServeInstall
  <2> QED
    BY <2>1, <2>2, <2>3, CommitIssues DEF Handover!Next
<1>2. CASE ServeLate
  <2>1. PICK m \in late, saved \in BOOLEAN : Install(m, saved)
    BY <1>2 DEF ServeLate
  <2>2. m \in Installs /\ Sent(m)
    BY <2>1 DEF IInv, TypeOK, MessagesOK
  <2>3. UNCHANGED store
    BY <1>2 DEF ServeLate
  <2> QED
    BY <2>1, <2>2, <2>3, CommitIssues DEF Handover!Next
<1>3. CASE RelayRevoke \/ SaveOther
  <2>1. UNCHANGED store /\ (disk' = disk \/ disk' = NoCredential)
    BY <1>3 DEF RelayRevoke, SaveOther, phoneVars, IInv, RecordsOK
  <2>2. disk' = NoCredential => Reg' = [cur |-> 0, prev |-> 0]
    BY DEF Reg, NoCredential
  <2> QED
    BY <2>1, <2>2 DEF Handover!Next, Handover!Withdraw, Reg
<1>4. CASE UNCHANGED disk
    BY <1>4, StoreSteps
<1>5. \/ ServeInstall \/ ServeLate \/ RelayRevoke \/ SaveOther
      \/ UNCHANGED disk
    BY DEF Next, vars, relayVars, BeginRotation, OnStatus, OnProvision, OnConfirm, WriteNext, Adopt,
           RotationFails, Disconnect, GoDirect, ConnectRelay, PhoneRestart, ServeStatus,
           RevokeDevice, RelayRestart
<1> QED
    BY <1>1, <1>2, <1>3, <1>4, <1>5

(* The rotation of the phone and the relay's store together implement      *)
(* CredentialHandover: the relay puts a credential in force only while the *)
(* phone's store holds the one before it. *)
THEOREM ImplementsHandover == Spec => HandoverSpec
<1>1. Init => Handover!Init
    BY DEF Init, Handover!Init
<1>2. IInv /\ IInv' /\ [Next]_vars => [Handover!Next]_<<Reg, store.cur>>
    BY NextRefines
<1> QED
    BY <1>1, <1>2, Invariance, PTL DEF Spec, HandoverSpec, Handover!Spec, Reg
=============================================================================
