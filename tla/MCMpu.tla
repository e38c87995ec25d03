------------------------------- MODULE MCMpu -------------------------------
(* Instances of Mpu.                                                         *)
EXTENDS Mpu

CONSTANTS a, b

Image(base, size, load) == [base |-> base, size |-> size, load |-> load]
Platform(vmOf, regions, devs, img, k) ==
    [n |-> Cardinality(DOMAIN vmOf), vmOf |-> vmOf,
     boot |-> [c \in DOMAIN vmOf |-> <<HypMem(0, 1, 1), HypMem(1 + c, 1, 2)>>],
     global |-> <<HypDev(5, 2, GLOBAL)>>,
     alloc |-> [v \in DOMAIN img |-> HypMem(IF v = a THEN 8 ELSE 10, 1, HYP_VM)],
     regions |-> regions, devs |-> devs, ipcs |-> [v \in DOMAIN img |-> <<VmMem(26, 1)>>],
     img |-> img, restarts |-> k]

\* One VM on two cores.  Its regions are next to each other, the image fills the second
\* and its device is part of the console.
OneVm == Platform(0 :> a @@ 1 :> a, a :> <<VmMem(12, 2), VmMem(14, 2)>>, a :> <<VmDev(5, 1)>>,
                  a :> Image(14, 2, 21), a :> 1)
\* Two VMs, each on a core; the image of the second is inside of its region.
TwoVms == Platform(0 :> a @@ 1 :> b, a :> <<VmMem(12, 2), VmMem(14, 2)>> @@ b :> <<VmMem(17, 3)>>,
                   a :> <<>> @@ b :> <<VmDev(5, 1)>>,
                   a :> Image(14, 2, 21) @@ b :> Image(18, 1, 24), a :> 1 @@ b :> 0)
\* A VM on two cores of three, one of which is idle; its image is inside of its region.
Three == [Platform(0 :> a @@ 1 :> a @@ 2 :> NoVm, a :> <<VmMem(14, 3)>>, a :> <<>>,
                   a :> Image(15, 1, 21), a :> 0) EXCEPT !.ipcs = a :> <<>>]

\* Regions that fill a gap between two others, so that three entries become one, before an
\* image is loaded and copied.
Gap == Platform(0 :> a, a :> <<VmMem(12, 1), VmMem(14, 1), VmMem(13, 1)>>, a :> <<>>,
                a :> Image(13, 1, 21), a :> 1)
\* Two regions that partly overlap, on two cores.
Partly == Platform(0 :> a @@ 1 :> a, a :> <<VmMem(12, 3), VmMem(14, 2)>>, a :> <<>>,
                   a :> Image(12, 1, 12), a :> 0)
\* An image that is part of its region, installed twice, and loaded next to the structs of
\* the VMs, or next to where it is copied.
NextTo(load) ==
    Platform(0 :> a @@ 1 :> b, a :> <<VmMem(14, 2)>> @@ b :> <<VmMem(17, 3)>>, a :> <<>> @@ b :> <<>>,
             a :> Image(14, 1, load) @@ b :> Image(17, 1, 17), a :> 1 @@ b :> 0)
MCConfigs == {OneVm, TwoVms, Three, Gap, Partly, NextTo(9), NextTo(13)}
=============================================================================
