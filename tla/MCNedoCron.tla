------------------------------ MODULE MCNedoCron ------------------------------
(* Instances of NedoCron for TLC.                                             *)
EXTENDS NedoCron
=============================================================================
