---------------------------- MODULE MCDriverSeat ----------------------------
(* DriverSeat for TLC: the identities behind each connection.              *)
EXTENDS DriverSeat, TLC

CONSTANTS a1, a2, b1, op1, h1, h2, alice, bob, operator

\* alice has two tabs, bob one; the operator is on the participant axis too
MCUserOf == [p \in Conns |-> CASE p \in {a1, a2} -> alice [] p = b1 -> bob [] OTHER -> operator]
MCRoleOf == [p \in Conns |-> IF p = op1 THEN "host" ELSE "participant"]
MCAccessOf == [p \in Conns |-> "control"]
MCViewOf == [p \in Conns |-> IF p = b1 THEN "view" ELSE "control"]
MCDaemonOf == [h \in Hosts |-> "daemon"]
\* alice's tabs are interchangeable
Tabs == Permutations({a1, a2})
=============================================================================
