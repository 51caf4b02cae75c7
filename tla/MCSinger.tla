------------------------------ MODULE MCSinger ------------------------------
(* Instances of Singer for TLC. *)
EXTENDS Singer
=============================================================================
