------------------------------ MODULE MCMemory ------------------------------
(* Instances of Memory.  A leaf of the last level has one page, one of the   *)
(* level above two and one of the first level four.                          *)
EXTENDS Memory

Rgn(base, n, phys) == [base |-> base, n |-> n, phys |-> phys, colors |-> {}]
Vm(colors, load, base, n, inplace, regions, k) ==
    [colors |-> colors, img |-> [load |-> load, base |-> base, n |-> n, inplace |-> inplace],
     regions |-> regions, devs |-> <<>>, ipcs |-> <<>>, restarts |-> k]
WithIpc(v) == [v EXCEPT !.devs = <<[base |-> 15, n |-> 1, phys |-> 1000]>>,
                        !.ipcs = <<[base |-> 12, n |-> 3, id |-> 1]>>]

\* The image is inside of a large leaf, at a fixed place, in place, has colours,
\* or is in place and gets other colours.
Copied(k)  == Vm({}, 3, 4, 2, FALSE, <<Rgn(0, 7, INVALID)>>, k)
Fixed0     == Vm({}, 3, 5, 2, FALSE, <<Rgn(4, 4, 16)>>, 0)
Fixed1     == Vm({}, 5, 0, 1, FALSE, <<Rgn(0, 2, 20)>>, 0)
InPlace    == Vm({}, 3, 2, 2, TRUE, <<Rgn(0, 6, INVALID)>>, 0)
Coloured   == Vm({1}, 3, 0, 3, FALSE, <<Rgn(0, 4, INVALID)>>, 1)
Recoloured == Vm({1}, 3, 0, 2, TRUE, <<Rgn(0, 4, INVALID)>>, 0)
\* Its image is where it runs; a second region anywhere.
Here(more) == Vm({}, 8, 8, 1, FALSE, <<Rgn(8, 4, 8)>> \o more, 0)
Plain(n)   == Here(<<Rgn(0, n, INVALID)>>)

Pair(v, w, shm) == [vms |-> (0 :> v @@ 1 :> w), shmem |-> shm]
MCConfigs ==
    {Pair(Fixed0, Fixed1, <<>>), Pair(Copied(1), Plain(5), <<>>), Pair(Coloured, Plain(2), <<>>),
     Pair(Recoloured, Plain(2), <<>>),
     Pair(WithIpc(InPlace), WithIpc(Here(<<>>)), <<[n |-> 2, phys |-> INVALID, colors |-> {}]>>)}
=============================================================================
