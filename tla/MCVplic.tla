------------------------------ MODULE MCVplic ------------------------------
(* Instances of Vplic for TLC; the harts are interchangeable. *)
EXTENDS Vplic, TLC

Symmetry == Permutations(Cpus)
=============================================================================
