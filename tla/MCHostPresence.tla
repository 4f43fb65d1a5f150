--------------------------- MODULE MCHostPresence ---------------------------
(* HostPresence for TLC.                                                   *)
EXTENDS HostPresence, TLC
\* connections are interchangeable
Symmetry == Permutations(Hosts) \cup Permutations(Conns)
=============================================================================
