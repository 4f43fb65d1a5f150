------------------------ MODULE CredentialHandover ------------------------
(* What rotating a phone's relay credential promises, with the messages,   *)
(* crashes and retries left out.  The relay's store names the credential   *)
(* in force and the one before it (honoured for a grace period); the       *)
(* phone's store names the one the phone would present.  The promise is    *)
(* that the relay is never two rotations ahead of the phone: a new         *)
(* credential is put in force only while the phone holds the current one.  *)
EXTENDS Naturals

CONSTANT First        \* the credential of the pairing

VARIABLES
    reg,              \* [cur, prev]: the relay's record, cur = 0 when withdrawn
    held              \* the credential in the phone's store

Init ==
    /\ reg = [cur |-> First, prev |-> 0]
    /\ held = First

(* The relay puts a fresh credential in force.                             *)
Issue ==
    /\ reg.cur # 0
    /\ held = reg.cur
    /\ reg' \in [cur : Nat, prev : {reg.cur}]
    /\ reg'.cur > reg.cur
    /\ UNCHANGED held

(* The phone learns of it.                                                 *)
Adopt ==
    /\ reg.cur # 0
    /\ held' = reg.cur
    /\ UNCHANGED reg

(* The phone's store is overwritten with what the phone held before.       *)
FallBack ==
    /\ reg.cur # 0
    /\ held' = reg.prev
    /\ UNCHANGED reg

(* The device is revoked.                                                  *)
Withdraw ==
    /\ reg' = [cur |-> 0, prev |-> 0]
    /\ UNCHANGED held

(* A revoked phone may write what it likes.                                *)
Dangling ==
    /\ reg.cur = 0
    /\ held' \in Nat
    /\ UNCHANGED reg

Next == Issue \/ Adopt \/ FallBack \/ Withdraw \/ Dangling

Spec == Init /\ [][Next]_<<reg, held>>
=============================================================================
