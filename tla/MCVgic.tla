------------------------------- MODULE MCVgic -------------------------------
(* Instance of Vgic for TLC: an SGI, a device's interrupt and one without a *)
(* device, and what a guest writes to their registers.                      *)
EXTENDS Vgic

MCWrites ==
    {<<r, 32, 1>> : r \in Registers \ {"IPRIORITYR", "ITARGETSR", "IROUTER"}}
    \cup {<<r, 32, t>> : r \in {"ITARGETSR", "IROUTER"}, t \in {{1}, {0, 1}}}
    \cup {<<"IROUTER", 33, {1}>>, <<"ITARGETSR", 33, {0, 1}>>, <<"IPRIORITYR", 33, 0>>,
          <<"ISPENDR", 1, 1>>}
MCSgiWrites == {<<0, {1}>>, <<1, {}>>}
MCMaxInputs == [n \in LrCounts |-> IF n = 1 THEN 1 ELSE 2]
=============================================================================
