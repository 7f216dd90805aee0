------------------------------ MODULE MCNmtRdn ------------------------------
(* An instance of NmtRdn for TLC: two buses, selections of one and two        *)
(* heartbeat times per bus, no, one and two switches.                         *)
EXTENDS NmtRdn

CONSTANTS A, B

MCStoreds ==
  {[bdefault |-> A, ttoggle |-> t, ntoggle |-> 1, ctoggle |-> 0] : t \in {0, 1}}
=============================================================================
