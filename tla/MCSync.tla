------------------------------- MODULE MCSync -------------------------------
(* Instances of Sync for TLC: node 1 may produce SYNC, node 2 consumes it.    *)
EXTENDS Sync

MCNode  == {1, 2}
MCCanId == {"base", "wide"}
MCBase  == {"base"}
MCPeriods == [n \in MCNode |-> IF n = 1 THEN {0, 1, 2} ELSE {0}]
MCMax   == {0, 1, 3, 4}
Consumer(can) == [gen |-> FALSE, ext |-> can = "wide", can |-> can]
Producer(can) == [gen |-> TRUE, ext |-> can = "wide", can |-> can]
MCCobids == [n \in MCNode |-> IF n = 1 THEN {Producer("base"), Producer("wide"), Consumer("wide")}
                              ELSE {Consumer("base"), Consumer("wide")}]
MCStored == [n \in MCNode |->
  [cobid |-> IF n = 1 THEN Producer("base") ELSE Consumer("base"),
   us |-> IF n = 1 THEN 2 ELSE 0, max |-> 3]]
MCNoLocal == [n \in MCNode |-> {}]
MCLocal  == [n \in MCNode |-> IF n = 1 THEN {"us"} ELSE {}]
=============================================================================
