-------------------------- MODULE RelayCredential --------------------------
(* Rotation and revocation of one phone's relay credential: the phone's    *)
(* rotation (mobile-relay-credential-rotation.ts) as the endpoint          *)
(* supervisor runs it, and the relay's credential store (mobile.go).       *)
(*                                                                         *)
(* A credential is a number: the n-th token the phone draws.  It stands    *)
(* for the token, its hash and the install key (reqId) drawn with it.      *)
(* Expiry dates are left out: the credential in force may need a rotation  *)
(* at any time, and relay sessions may be refused at any time.  The host   *)
(* gateway relays the phone's requests; a request it cannot deliver fails. *)
EXTENDS Naturals

CONSTANT MaxTokens      \* bound: tokens the phone draws, the first included

ASSUME MaxTokensAssumption == MaxTokens \in Nat \ {0}

VARIABLES
    store,      \* the phone's SecureStore: the credential bundle
    mem,        \* the supervisor's this.bundle
    local,      \* the bundle of the rotation in progress
    pc,         \* where that rotation stands
    call,       \* its request on the way to the relay
    resp,       \* the answer on its way back
    installed,  \* the version pairing.provisionRelay reported
    late,       \* install requests the phone has given up, still on their way
    minted,     \* tokens drawn so far
    path,       \* the phone's active path: "direct", "relay" or "down"
    removed,    \* the device is gone from the host's registry
    revoking,   \* a device-revoke is on its way to the relay
    cred,       \* the relay's record of the device, in memory
    disk,       \* the same in the relay's state file
    installs,   \* version committed under each install key, in memory only
    revoked,    \* history: the relay has handled a device-revoke
    saveLost    \* history: it could not write that revocation to disk

phoneVars == <<store, mem, local, pc, call, resp, installed, late, minted, path>>
relayVars == <<removed, revoking, cred, disk, installs, revoked, saveLost>>
vars == <<phoneVars, relayVars>>

Tokens == 1..MaxTokens

NoCredential == [cur |-> 0, ver |-> 0, grace |-> 0, graceVer |-> 0]
NoCall == [kind |-> "none", tok |-> 0, exp |-> 0]
NoResp == [kind |-> "none", ver |-> 0]

Credentials == [cur : Nat, ver : Nat, grace : Nat, graceVer : Nat]
Bundles == [cur : Nat, ver : Nat, grace : Nat, graceVer : Nat, pending : Nat]
Installs == [kind : {"install"}, tok : Tokens, exp : Nat]

(***************************************************************************)
(* The phone                                                               *)
(***************************************************************************)

(* The bundle a committed install turns into (0 marks "no pending").       *)
Promote(b, v) ==
    [cur |-> b.pending, ver |-> v, grace |-> b.cur, graceVer |-> b.ver, pending |-> 0]

(* mutant: whatever is outstanding is left behind as an install *)
AbandonAny ==
    /\ pc' = "idle"
    /\ late' = late \cup {call}
    /\ call' = NoCall
    /\ resp' = NoResp

(* The rotation ends with an error: its request is not withdrawn, and      *)
(* this.bundle stays what it was.                                          *)
Abandon ==
    /\ pc' = "idle"
    /\ late' = IF call.kind = "install" THEN late \cup {call} ELSE late
    /\ call' = NoCall
    /\ resp' = NoResp

(* rotateCredentialIfNeeded: started on an authenticated direct path.  A   *)
(* bundle with no pending install draws a token and a key and writes them  *)
(* to the store before anything is sent.                                   *)
BeginRotation ==
    /\ pc = "idle"
    /\ path = "direct"
    /\ \/ /\ mem.pending = 0
          /\ minted < MaxTokens
          /\ minted' = minted + 1
          /\ local' = [mem EXCEPT !.pending = minted + 1]
          /\ store' = [mem EXCEPT !.pending = minted + 1]
       \/ /\ mem.pending # 0
          /\ local' = mem
          /\ UNCHANGED <<minted, store>>
    /\ call' = [kind |-> "status", tok |-> local'.pending, exp |-> local'.cur]
    /\ pc' = "status"
    /\ UNCHANGED <<mem, resp, installed, late, path, relayVars>>

(* mutant: the version is not taken from the relay's answer *)
WriteNextOwnVersion ==
    /\ local' = Promote(local, local.ver)
    /\ store' = Promote(local, local.ver)
    /\ pc' = "adopt"
    /\ resp' = NoResp
    /\ UNCHANGED <<mem, call, installed, late, minted, path, relayVars>>

(* The install is committed: the bundle that names it as current goes to   *)
(* the store; this.bundle follows when the write has returned.             *)
WriteNext ==
    /\ local' = Promote(local, resp.ver)
    /\ store' = Promote(local, resp.ver)
    /\ pc' = "adopt"
    /\ resp' = NoResp
    /\ UNCHANGED <<mem, call, installed, late, minted, path, relayVars>>

(* The first install status: committed already, or not found.              *)
OnStatus ==
    /\ pc = "status"
    /\ \/ /\ resp.kind = "committed"
          /\ WriteNext
       \/ /\ resp.kind = "not-found"
          /\ pc' = "provision"
          /\ call' = [kind |-> "install", tok |-> local.pending, exp |-> local.cur]
          /\ resp' = NoResp
          /\ UNCHANGED <<store, mem, local, installed, late, minted, path, relayVars>>

(* pairing.provisionRelay succeeded: the status is asked for again.        *)
OnProvision ==
    /\ pc = "provision"
    /\ resp.kind = "installed"
    /\ installed' = resp.ver
    /\ pc' = "confirm"
    /\ call' = [kind |-> "status", tok |-> local.pending, exp |-> local.cur]
    /\ resp' = NoResp
    /\ UNCHANGED <<store, mem, local, late, minted, path, relayVars>>

(* The second status must report the very same installation.               *)
OnConfirm ==
    /\ pc = "confirm"
    /\ resp.kind = "committed"
    /\ resp.ver = installed
    /\ WriteNext

(* rotateMobileRelayCredential returns: this.bundle = result.bundle.       *)
Adopt ==
    /\ pc = "adopt"
    /\ mem' = local
    /\ pc' = "idle"
    /\ UNCHANGED <<store, local, call, resp, installed, late, minted, path, relayVars>>

(* An error answer, a timeout, or a refused write of the next bundle.      *)
RotationFails ==
    /\ pc \in {"status", "provision", "confirm"}
    /\ Abandon
    /\ UNCHANGED <<store, mem, local, installed, minted, path, relayVars>>

(* What a change of the physical path does to the rotation: the requests   *)
(* it awaits are rejected; a write to the store goes on.                   *)
Cutover ==
    \/ pc \in {"status", "provision", "confirm"} /\ Abandon
    \/ pc \in {"idle", "adopt"} /\ UNCHANGED <<pc, call, resp, late>>

(* The direct session is lost.                                             *)
Disconnect ==
    /\ path # "down"
    /\ path' = "down"
    /\ Cutover
    /\ UNCHANGED <<store, mem, local, installed, minted, relayVars>>

(* A direct session is authenticated again, by itself or after a probe.    *)
GoDirect ==
    /\ path # "direct"
    /\ ~removed
    /\ path' = "direct"
    /\ UNCHANGED <<store, mem, local, pc, call, resp, installed, late, minted, relayVars>>

(* The relay accepts a token as current or as grace, and names its version.*)
Accepts(tok, ver) ==
    /\ tok # 0
    /\ \/ tok = cred.cur /\ ver = cred.ver
       \/ tok = cred.grace /\ ver = cred.graceVer

(* openAndMigrateRelay: a relay session resumes with the current or the    *)
(* grace credential of this.bundle, and this.bundle is written back.       *)
ConnectRelay ==
    /\ ~removed
    /\ Accepts(mem.cur, mem.ver) \/ Accepts(mem.grace, mem.graceVer)
    /\ path' = "relay"
    /\ Cutover
    /\ store' = mem
    /\ UNCHANGED <<mem, local, installed, minted, relayVars>>

(* The app is killed and started again.                                    *)
PhoneRestart ==
    /\ mem' = store
    /\ path' = "down"
    /\ Abandon
    /\ UNCHANGED <<store, local, installed, minted, relayVars>>

(***************************************************************************)
(* The relay                                                               *)
(***************************************************************************)

(* device-credential-install-status: from memory.                          *)
ServeStatus ==
    /\ call.kind = "status"
    /\ call' = NoCall
    /\ resp' = IF installs[call.tok] = 0
               THEN [kind |-> "not-found", ver |-> 0]
               ELSE [kind |-> "committed", ver |-> installs[call.tok]]
    /\ UNCHANGED <<store, mem, local, pc, installed, late, minted, path, relayVars>>

(* mutant: an install replaces whatever credential is in force *)
ExpectedHashMatchesUnchecked(m) == cred.cur # 0
(* mutant: a device without a credential takes any install *)
ExpectedHashMatchesNilAccepted(m) == cred.cur \in {0, m.exp}

(* The compare-and-set on the hash of the credential in force.             *)
ExpectedHashMatches(m) == cred.cur # 0 /\ cred.cur = m.exp

(* handleCredentialInstall: a key seen before answers what it answered     *)
(* then, a conflicting one changes nothing, and one that cannot be saved   *)
(* is rolled back.                                                         *)
Commits(m) == installs[m.tok] = 0 /\ ExpectedHashMatches(m)

Install(m, saved) ==
    \/ /\ Commits(m) /\ saved
       /\ cred' = [cur |-> m.tok, ver |-> cred.ver + 1, grace |-> cred.cur, graceVer |-> cred.ver]
       /\ disk' = cred'
       /\ installs' = [installs EXCEPT ![m.tok] = cred.ver + 1]
       /\ UNCHANGED <<removed, revoking, revoked, saveLost>>
    \/ /\ ~(Commits(m) /\ saved)
       /\ UNCHANGED relayVars

InstallAnswer(m, saved) ==
    IF installs[m.tok] # 0 THEN [kind |-> "installed", ver |-> installs[m.tok]]
    ELSE IF Commits(m) /\ saved THEN [kind |-> "installed", ver |-> cred.ver + 1]
    ELSE [kind |-> "error", ver |-> 0]

(* The install the phone is waiting for.                                   *)
ServeInstall ==
    /\ call.kind = "install"
    /\ \E saved \in BOOLEAN :
          /\ Install(call, saved)
          /\ resp' = InstallAnswer(call, saved)
    /\ call' = NoCall
    /\ UNCHANGED <<store, mem, local, pc, installed, late, minted, path>>

(* One it has given up: nobody hears the answer.                           *)
ServeLate ==
    /\ \E m \in late, saved \in BOOLEAN :
          /\ late' = late \ {m}
          /\ Install(m, saved)
    /\ UNCHANGED <<store, mem, local, pc, call, resp, installed, minted, path>>

(* The host's revokeDevice: the registry forgets the device and its        *)
(* sessions end.  The relay is told only when the control connection is    *)
(* up, once, and a failure to tell it is ignored.                          *)
RevokeDevice ==
    /\ ~removed
    /\ removed' = TRUE
    /\ revoking' \in BOOLEAN
    /\ path' = "down"
    /\ Cutover
    /\ UNCHANGED <<store, mem, local, installed, minted, cred, disk, installs, revoked, saveLost>>

(* The relay's revokeDevice: the record goes; the error of writing the     *)
(* state file is dropped.  The install keys stay.                          *)
RelayRevoke ==
    /\ revoking
    /\ revoking' = FALSE
    /\ revoked' = TRUE
    /\ cred' = NoCredential
    /\ \/ disk' = NoCredential /\ UNCHANGED saveLost
       \/ disk' = disk /\ saveLost' = TRUE
    /\ UNCHANGED <<phoneVars, removed, installs>>

(* Another device's install or revocation is saved: the file holds every   *)
(* device's record.                                                        *)
SaveOther ==
    /\ disk # cred
    /\ disk' = cred
    /\ UNCHANGED <<phoneVars, removed, revoking, cred, installs, revoked, saveLost>>

(* The relay restarts: loadState brings the credentials back, and nothing  *)
(* else.  The revocation on its way is lost with the control connection.   *)
RelayRestart ==
    /\ cred' = disk
    /\ installs' = [t \in Tokens |-> 0]
    /\ revoking' = FALSE
    /\ UNCHANGED <<phoneVars, removed, disk, revoked, saveLost>>

(***************************************************************************)
(* The specification                                                       *)
(***************************************************************************)

(* A paired phone on its direct path, with the credential of the pairing.  *)
Init ==
    /\ store = [cur |-> 1, ver |-> 1, grace |-> 0, graceVer |-> 0, pending |-> 0]
    /\ mem = store
    /\ local = store
    /\ pc = "idle"
    /\ call = NoCall
    /\ resp = NoResp
    /\ installed = 0
    /\ late = {}
    /\ minted = 1
    /\ path = "direct"
    /\ removed = FALSE
    /\ revoking = FALSE
    /\ cred = [cur |-> 1, ver |-> 1, grace |-> 0, graceVer |-> 0]
    /\ disk = cred
    /\ installs = [t \in Tokens |-> 0]
    /\ revoked = FALSE
    /\ saveLost = FALSE

Next ==
    \/ BeginRotation
    \/ OnStatus
    \/ OnProvision
    \/ OnConfirm
    \/ Adopt
    \/ RotationFails
    \/ Disconnect
    \/ GoDirect
    \/ ConnectRelay
    \/ PhoneRestart
    \/ ServeStatus
    \/ ServeInstall
    \/ ServeLate
    \/ RevokeDevice
    \/ RelayRevoke
    \/ SaveOther
    \/ RelayRestart

Spec == Init /\ [][Next]_vars

(***************************************************************************)
(* Properties                                                              *)
(***************************************************************************)

(* Types, and the bundles' numbers stay within what has been drawn.        *)
TypeOK ==
    /\ store \in Bundles
    /\ mem \in Bundles
    /\ local \in Bundles
    /\ pc \in {"idle", "status", "provision", "confirm", "adopt"}
    /\ call \in {NoCall} \cup Installs \cup [kind : {"status"}, tok : Tokens, exp : Nat]
    /\ resp \in [kind : {"none", "committed", "not-found", "installed", "error"}, ver : Nat]
    /\ installed \in Nat
    /\ late \subseteq Installs
    /\ minted \in Tokens
    /\ path \in {"direct", "relay", "down"}
    /\ removed \in BOOLEAN
    /\ revoking \in BOOLEAN
    /\ cred \in Credentials
    /\ disk \in Credentials
    /\ installs \in [Tokens -> Nat]
    /\ revoked \in BOOLEAN
    /\ saveLost \in BOOLEAN

(* b's current credential is one the relay's state file honours.           *)
Known(b) ==
    \/ b.cur = disk.cur /\ b.ver = disk.ver
    \/ b.cur = disk.grace /\ b.ver = disk.graceVer

(* As long as the device is not withdrawn, the credential and the version  *)
(* in the phone's store, and those in its memory, are the ones the relay   *)
(* has in force or the ones it honours for the grace period: no order of   *)
(* lost answers, late installs, restarts and path changes puts the relay   *)
(* two rotations ahead of the phone.                                       *)
HeldIsKnown == disk.cur # 0 => Known(store) /\ Known(mem)

(* A device whose revocation the relay has handled has no credential       *)
(* there, whatever installs were still on their way and whatever the relay *)
(* restarts from, unless writing the revocation to disk had failed.        *)
RevokedGone == revoked /\ ~saveLost => cred.cur = 0

(* The rotation implements the handover the two stores promise each other. *)
Handover ==
    INSTANCE CredentialHandover WITH
        First <- 1, reg <- [cur |-> disk.cur, prev |-> disk.grace], held <- store.cur

HandoverSpec == Handover!Spec

(* What the rotation and the supervisor say of a failed attempt: the       *)
(* pending material stays in the store, so that a lost answer can be       *)
(* reconciled.  Then the credential in force at the relay is always one    *)
(* the phone's store still names, as current or as pending.                *)
InForceIsRecoverable == disk.cur # 0 => disk.cur \in {store.cur, store.pending}
=============================================================================
