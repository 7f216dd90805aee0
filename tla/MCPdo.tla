------------------------------- MODULE MCPdo -------------------------------
(* An instance of Pdo for TLC: the node starts with an event-driven           *)
(* Transmit-PDO whose event time is shorter than its inhibit time, and a      *)
(* synchronous Receive-PDO.                                                   *)
EXTENDS Pdo

MCStoredT ==
  [cobid |-> [valid |-> TRUE, rtr |-> TRUE], trans |-> 254, inhibit |-> 2,
   event |-> 1, start |-> 0]

MCStoredR ==
  [cobid |-> [valid |-> TRUE, rtr |-> TRUE], trans |-> 1, event |-> 1]

MCCobids == {[valid |-> v, rtr |-> v] : v \in BOOLEAN}
=============================================================================
