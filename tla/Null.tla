-------------------------------- MODULE Null --------------------------------
(***************************************************************************)
(* The null pointer, or that nothing is meant: one value for the modules   *)
(* of the parts that wait for other processes, which share nothing else.   *)
(***************************************************************************)

CONSTANT None
=============================================================================
