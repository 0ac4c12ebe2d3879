---------------------------- MODULE MCJobDispatch ----------------------------
(* Instances of JobDispatch for TLC: the constants are in the .cfg files.   *)
EXTENDS JobDispatch, TLC
=============================================================================
