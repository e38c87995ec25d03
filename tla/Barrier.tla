------------------------------- MODULE Barrier -------------------------------
(***************************************************************************)
(* What a reusable barrier promises, independently of how it is built: a   *)
(* participant leaves its k-th rendezvous only after every participant has *)
(* entered its own k-th.  CpuSync.tla shows that Bao's counting barrier    *)
(* (src/core/inc/cpu.h) implements this specification.                     *)
(***************************************************************************)
EXTENDS Integers

CONSTANT Procs

VARIABLES
    entered,    \* entered[p]: rendezvous p has entered so far
    left        \* left[p]: rendezvous p has left so far

vars == <<entered, left>>

Init ==
    /\ entered = [p \in Procs |-> 0]
    /\ left    = [p \in Procs |-> 0]

Enter(p) ==
    /\ entered[p] = left[p]
    /\ entered' = [entered EXCEPT ![p] = @ + 1]
    /\ UNCHANGED left

Leave(p) ==
    /\ left[p] < entered[p]
    /\ \A q \in Procs : entered[q] >= entered[p]
    /\ left' = [left EXCEPT ![p] = entered[p]]
    /\ UNCHANGED entered

Next == \E p \in Procs : Enter(p) \/ Leave(p)

Spec == Init /\ [][Next]_vars
=============================================================================
