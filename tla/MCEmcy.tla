------------------------------- MODULE MCEmcy -------------------------------
(* An instance of Emcy for TLC: short buffers and inhibit times of none, one  *)
(* and two ticks.                                                             *)
EXTENDS Emcy

MCInhibits == {0, 1, 2}
MCStored   == [valid |-> TRUE, inhibit |-> 2]
=============================================================================
