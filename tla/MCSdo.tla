-------------------------------- MODULE MCSdo --------------------------------
(* An instance of Sdo for TLC: a value of up to four bytes that the object    *)
(* refuses, one of three segments that it takes and one of four for which a   *)
(* request has no room; blocks of two segments and the default of the build.  *)
EXTENDS Sdo

CONSTANTS a, z, w

MCLength == (a :> 1) @@ (z :> 3) @@ (w :> 4)
=============================================================================
