------------------------------- MODULE MCNmt -------------------------------
(* Instances of Nmt for TLC: node 1 is the NMT master, node 2 a slave that    *)
(* starts by itself, node 3 a slave that waits for the master or has no       *)
(* node-ID.                                                                   *)
EXTENDS Nmt, TLC

MCPair    == {1, 2}
MCTrio    == {1, 2, 3}
MCStartup2 == 1 :> {"master", "stay"} @@ 2 :> {"stay"}
MCStartup3 == 1 :> {"master"} @@ 2 :> {} @@ 3 :> {"stay"}
MCProducer == [n \in Node |-> n = 2]
MCNoProducer == [n \in Node |-> FALSE]
MCBoth     == BOOLEAN
MCSilence  == {FALSE}
MCNoInhibit == [n \in Node |-> 0]
MCInhibit  == [n \in Node |-> IF n = 1 THEN 1 ELSE 0]
MCDemote   == {{}}
MCAllCs    == [n \in Node |-> Cs]
MCSlaveResets == [n \in Node |-> IF n = 1 THEN Cs ELSE {"RESET_NODE", "RESET_COMM"}]
=============================================================================
