--------------------------- MODULE RosterReplica ----------------------------
(***************************************************************************)
(* What the presence feed promises, with the queue, the posts, their       *)
(* retries and identifiers left out: the control plane's roster is a       *)
(* replica that lags behind the node.  Everything that happens is put at   *)
(* the end of one list of news, and the roster is changed by taking the    *)
(* first of them and by nothing else: each event once and in the order in  *)
(* which they happened.  From the first event that is lost on there is no  *)
(* promise.                                                                *)
(***************************************************************************)
EXTENDS Sequences

CONSTANT Events

VARIABLES
  present,    \* who is connected
  news,       \* the events the roster does not reflect yet, oldest first
  roster,     \* the replica
  lost        \* an event was lost

\* what an event says of a set of connections
Effect(e, S) ==
  IF e.kind = "node" THEN S
  ELSE IF e.connected THEN S \cup {e.conn} ELSE S \ {e.conn}

Init == present = {} /\ news = <<>> /\ roster = {} /\ lost = FALSE

Happens ==
  /\ \E e \in Events : news' = Append(news, e) /\ present' = Effect(e, present)
  /\ UNCHANGED <<roster, lost>>

Reflected ==
  /\ news # <<>> /\ news' = Tail(news)
  /\ roster' = Effect(Head(news), roster)
  /\ UNCHANGED <<present, lost>>

Loses == lost' = TRUE

Next == Happens \/ Reflected \/ Loses

Spec == Init /\ [][Next]_<<present, news, roster, lost>>
=============================================================================
