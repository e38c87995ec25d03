------------------------------ MODULE MCVmmInit ------------------------------
(* Instances of VmmInit for TLC. *)
EXTENDS VmmInit
=============================================================================
