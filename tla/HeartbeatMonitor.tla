-------------------------- MODULE HeartbeatMonitor --------------------------
(* What a heartbeat consumer promises the application about one remote node:  *)
(* a loss is reported only of a node that was heard since the consumer was    *)
(* configured, once per loss, and the next heartbeat resolves it.             *)
VARIABLES
  health,  \* what the consumer knows of the remote node
  told     \* the last timeout event the application was told

vars == <<health, told>>

Init == health = "off" /\ told = "none"

\* A new value of 1016 or a reset forgets the node, without an event.
Configure == health' \in {"off", "unheard"} /\ UNCHANGED told

Hear == health \in {"unheard", "alive"} /\ health' = "alive" /\ UNCHANGED told

Miss == health = "alive" /\ health' = "lost" /\ told' = "occurred"

Recover == health = "lost" /\ health' = "alive" /\ told' = "resolved"

Next == Configure \/ Hear \/ Miss \/ Recover

Spec == Init /\ [][Next]_vars
=============================================================================
