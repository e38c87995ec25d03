------------------------------ MODULE MCCpuMsg ------------------------------
(* Instances of CpuMsg for TLC. *)
EXTENDS CpuMsg
=============================================================================
