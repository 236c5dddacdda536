------------------------------ MODULE MCJobCache ------------------------------
(* Instances of JobCache for TLC.                                             *)
EXTENDS JobCache
=============================================================================
