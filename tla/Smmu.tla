-------------------------------- MODULE Smmu --------------------------------
(***************************************************************************)
(* The Arm SMMUv2 and its driver, src/arch/armv8/armv8-a/smmuv2.c.         *)
(*                                                                         *)
(* A stream match entry (sme) leads streams to a context bank, which has   *)
(* the page table of a VM.  Entries and banks are taken from bit maps, and *)
(* every function holds a lock of the driver from start to end, so it is   *)
(* one step; nothing holds a lock from one function to the next.           *)
(*                                                                         *)
(* A stream id or a mask is the set of its bits: entry e matches stream s  *)
(* if they differ in bits of the mask only.                                *)
(***************************************************************************)
EXTENDS Integers, FiniteSets

VARIABLES
    sme_num, ctx_num,   \* how many stream match entries and context banks the SMMU has
    ctxbank_bitmap,     \* banks that are allocated
    cntxt,              \* bank -> VM whose page table it has, or the set {}
    sme_bitmap,         \* entries that are allocated
    grp_bitmap,         \* entries that were written for a group
    smr,                \* entry -> [valid, mask, id]
    s2cr                \* entry -> its bank

smmuVars == <<sme_num, ctx_num, ctxbank_bitmap, cntxt, sme_bitmap, grp_bitmap, smr, s2cr>>

Banks == 0..(ctx_num - 1)
Smes  == 0..(sme_num - 1)
FirstFree(i, all, bitmap) == i \in all \ bitmap /\ \A j \in all \ bitmap : i <= j
XOR(a, b) == (a \ b) \cup (b \ a)

\* The SMMU faults streams that match no entry, or more than one.  S2CR is left as found.
smmu_init(smes, banks) ==
    /\ sme_num = smes /\ ctx_num = banks
    /\ ctxbank_bitmap = {}
    /\ cntxt = [b \in Banks |-> {}]
    /\ sme_bitmap = {} /\ grp_bitmap = {}
    /\ smr = [e \in Smes |-> [valid |-> FALSE, mask |-> {}, id |-> {}]]
    /\ s2cr = [e \in Smes |-> 0]

smmu_alloc_ctxbnk(b) ==
    /\ FirstFree(b, Banks, ctxbank_bitmap)
    /\ ctxbank_bitmap' = ctxbank_bitmap \cup {b}
    /\ UNCHANGED <<sme_num, ctx_num, cntxt, sme_bitmap, grp_bitmap, smr, s2cr>>

smmu_write_ctxbnk(b, vm) ==
    /\ cntxt' = [cntxt EXCEPT ![b] = {vm}]
    /\ UNCHANGED <<sme_num, ctx_num, ctxbank_bitmap, sme_bitmap, grp_bitmap, smr, s2cr>>

smmu_alloc_sme(e) ==
    /\ FirstFree(e, Smes, sme_bitmap)
    /\ sme_bitmap' = sme_bitmap \cup {e}
    /\ UNCHANGED <<sme_num, ctx_num, ctxbank_bitmap, cntxt, grp_bitmap, smr, s2cr>>

\* Entries some stream matches along with [mask, id].
Touching(mask, id) ==
    {e \in sme_bitmap : XOR(smr[e].id, id) \ (mask \cup smr[e].mask) = {}}

\* Mutant: a device cannot be put into a group.
MergesGroups(e, mask, ctx, group) ==
    /\ group /\ e \in grp_bitmap
    /\ mask \subseteq smr[e].mask \/ smr[e].mask \subseteq mask
    /\ ctx = s2cr[e]

\* A group can be merged with anything of the same VM that it includes or is included in.
Mergeable(e, mask, ctx, group) ==
    /\ group \/ e \in grp_bitmap
    /\ mask \subseteq smr[e].mask \/ smr[e].mask \subseteq mask
    /\ ctx = s2cr[e]

\* The search goes through the entries in order.  It ends at one that has all streams of
\* [mask, id]; entries before it of which [mask, id] has more are given up.
Including(mask, id) ==
    {e \in Touching(mask, id) : ~(smr[e].mask \subseteq mask /\ smr[e].mask # mask)}
Searched(mask, id) ==
    {e \in Touching(mask, id) : \A f \in Including(mask, id) : e <= f}
SmeConflict(mask, id, ctx, group) ==
    \E e \in Searched(mask, id) : ~Mergeable(e, mask, ctx, group)

smmu_compatible_sme_exists(mask, id, ctx, group, included) ==
    /\ ~SmeConflict(mask, id, ctx, group)
    /\ included = (Including(mask, id) # {})
    /\ sme_bitmap' = sme_bitmap \ (Searched(mask, id) \ Including(mask, id))
    /\ UNCHANGED <<sme_num, ctx_num, ctxbank_bitmap, cntxt, grp_bitmap, smr, s2cr>>

\* Writing an entry that somebody has given up is an error of the driver.
smmu_write_sme(e, mask, id, group) ==
    /\ e \in sme_bitmap
    /\ smr' = [smr EXCEPT ![e] = [valid |-> TRUE, mask |-> mask, id |-> id]]
    /\ grp_bitmap' = IF group THEN grp_bitmap \cup {e} ELSE grp_bitmap
    /\ UNCHANGED <<sme_num, ctx_num, ctxbank_bitmap, cntxt, sme_bitmap, s2cr>>

smmu_write_s2c(e, ctx) ==
    /\ e \in sme_bitmap
    /\ s2cr' = [s2cr EXCEPT ![e] = ctx]
    /\ UNCHANGED <<sme_num, ctx_num, ctxbank_bitmap, cntxt, sme_bitmap, grp_bitmap, smr>>

\* The hardware: the entries that a stream matches.
Matches(s) == {e \in Smes : smr[e].valid /\ XOR(smr[e].id, s) \ smr[e].mask = {}}
=============================================================================
