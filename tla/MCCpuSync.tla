------------------------------ MODULE MCCpuSync ------------------------------
(* Instances of CpuSync for TLC. *)
EXTENDS CpuSync
=============================================================================
