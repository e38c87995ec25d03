------------------------------ MODULE MCPsci ------------------------------
(* Three vCPUs: two of them can call CPU_ON for the third. *)
EXTENDS Psci
=============================================================================
