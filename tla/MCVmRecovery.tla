---------------------------- MODULE MCVmRecovery ----------------------------
(* Instances of VmRecovery for TLC.                                         *)
EXTENDS VmRecovery
=============================================================================
