----------------------------- MODULE VmDevices -----------------------------
(***************************************************************************)
(* The devices of the VMs: the second half of vm_init_dev of src/core/vm.c *)
(* with interrupts_vm_assign of src/core/interrupts.c, src/core/mmu/io.c   *)
(* and the add functions of the two IOMMU drivers.                         *)
(*                                                                         *)
(* The masters of the VMs run vm_init_dev at the same time and no lock or  *)
(* barrier is around it.  A master has a list of the steps it still has to *)
(* take; a step is what one access of memory the masters share, or one     *)
(* function that holds a lock of the driver, does.                         *)
(*                                                                         *)
(* A configuration is a record:                                            *)
(*   arch      "riscv" (Iommu) or "armv8-a" (Smmu)                         *)
(*   init      what iommu_arch_init leaves                                 *)
(*   irqs      VM -> sequence of the interrupts of its devices             *)
(*   groups    VM -> sequence of its stream groups [mask, id]              *)
(*   devs      VM -> sequence of the ids of its devices, {} for none       *)
(*   gmask     VM -> global_mask of the VM and the platform                *)
(*   smes, banks  what the SMMU has of stream match entries and banks      *)
(***************************************************************************)
EXTENDS Iommu, Smmu, Sequences

CONSTANTS
    Configs,    \* configurations
    Bits,       \* bits of a stream id
    Reserved,   \* interrupts that interrupts_reserve gave to the hypervisor before
    Private     \* interrupts up to GIC_CPU_PRIV, every core has its own

\* smmu_init and the drivers cut ids and masks to the bits that a stream id has.
ASSUME VmDevicesAssumption ==
    /\ None \notin Nat
    /\ \A c \in Configs :
          /\ c.smes \in Nat /\ c.banks \in Nat
          /\ c.irqs \in [VMs -> Seq(Nat)]
          /\ c.groups \in [VMs -> Seq([mask : SUBSET Bits, id : SUBSET Bits])]
          /\ c.devs \in [VMs -> Seq(SUBSET Bits)]
          /\ c.gmask \in [VMs -> SUBSET Bits]

VARIABLES
    config,
    todo,       \* VM -> steps its master has still to take
    reg,        \* VM -> local variable of its master
    stopped,    \* VMs whose master ended in ERROR or in a fault
    global_interrupt_bitmap,
    interrupt_bitmap,       \* VM -> its interrupts
    ctx_id,     \* VM -> its context bank, None before it has one
    mistaken,   \* history: a search has read an entry that was taken and not yet written
    raced       \* history: where two masters have been at the same time, "map" or "ring"

vmVars == <<config, todo, reg, stopped, global_interrupt_bitmap, interrupt_bitmap, ctx_id,
            mistaken>>
vars == <<vmVars, iommuVars, smmuVars, raced>>

Riscv == config.arch = "riscv"
Step(op, of) == [op |-> op, of |-> of]
AllSteps(ops, of) == [i \in DOMAIN ops |-> Step(ops[i], of)]
ForAll(ops, s) ==
    LET n == Len(ops) IN
    [i \in 1..(n * Len(s)) |-> Step(ops[((i - 1) % n) + 1], s[((i - 1) \div n) + 1])]

\* vm_init_dev: interrupts_vm_assign for all interrupts, io_vm_init, then io_vm_add_device.
vm_init_dev(c, vm) ==
    ForAll(<<"conflict", "load", "store">>, c.irqs[vm])
    \o <<Step("io_vm_init", {})>>
    \o ForAll(<<"add">>, c.devs[vm])

Init ==
    /\ config \in Configs
    /\ todo = [vm \in VMs |-> vm_init_dev(config, vm)]
    /\ reg = [vm \in VMs |-> None]
    /\ stopped = {}
    /\ global_interrupt_bitmap = Reserved
    /\ interrupt_bitmap = [vm \in VMs |-> {}]
    /\ ctx_id = [vm \in VMs |-> None]
    /\ mistaken = FALSE
    /\ raced = {}
    /\ iommu_arch_init(config.init)
    /\ smmu_init(config.smes, config.banks)

-----------------------------------------------------------------------------
(* What a step of a master does to its list. *)

At(vm, op) == vm \notin stopped /\ todo[vm] # <<>> /\ Head(todo[vm]).op = op
Of(vm) == Head(todo[vm]).of

irqVars == <<global_interrupt_bitmap, interrupt_bitmap>>

Searches(vm, first) ==
    /\ todo' = [todo EXCEPT ![vm] = first \o Tail(@)]
    /\ UNCHANGED <<config, stopped>>

Done(vm, first) == Searches(vm, first) /\ UNCHANGED mistaken

Stop(vm) ==
    /\ stopped' = stopped \cup {vm}
    /\ UNCHANGED <<config, todo, reg, irqVars, ctx_id, iommuVars, smmuVars>>

-----------------------------------------------------------------------------
(* interrupts_vm_assign *)

interrupts_arch_conflict(id) ==
    id \in global_interrupt_bitmap /\ (Riscv \/ id \notin Private)

\* The check, and what only this VM's master writes.
AssignInterrupt(vm) ==
    /\ At(vm, "conflict")
    /\ ~interrupts_arch_conflict(Of(vm))
    /\ interrupt_bitmap' = [interrupt_bitmap EXCEPT ![vm] = @ \cup {Of(vm)}]
    /\ Done(vm, <<>>)
    /\ UNCHANGED <<reg, global_interrupt_bitmap, ctx_id, iommuVars, smmuVars>>

InterruptConflict(vm) ==
    /\ At(vm, "conflict")
    /\ interrupts_arch_conflict(Of(vm))
    /\ Stop(vm) /\ UNCHANGED mistaken

\* bitmap_set on the map all masters share reads a word and writes it back.
LoadWord(vm) ==
    /\ At(vm, "load")
    /\ reg' = [reg EXCEPT ![vm] = global_interrupt_bitmap]
    /\ Done(vm, <<>>)
    /\ UNCHANGED <<irqVars, ctx_id, iommuVars, smmuVars>>

StoreWord(vm) ==
    /\ At(vm, "store")
    /\ global_interrupt_bitmap' = reg[vm] \cup {Of(vm)}
    /\ reg' = [reg EXCEPT ![vm] = None]
    /\ Done(vm, <<>>)
    /\ UNCHANGED <<interrupt_bitmap, ctx_id, iommuVars, smmuVars>>

-----------------------------------------------------------------------------
(* The RISC-V driver.  A submitted command is four steps: the tail is read, *)
(* the command is written when the ring is not full, the tail is moved.     *)

RiscvAdd == <<"iohgatp", "tc", "tail", "inval", "cqt", "tail", "iofence", "cqt", "tail", "wait">>

\* A device without an id is left out.
SkipDevice(vm) ==
    /\ At(vm, "add") /\ Of(vm) = {}
    /\ Done(vm, <<>>)
    /\ UNCHANGED <<reg, irqVars, ctx_id, iommuVars, smmuVars>>

\* Without an IOMMU nothing is to do; an id beyond the directory is an error, and so is an
\* IOMMU whose directory or ring was never allocated.
AddDevice(vm) ==
    /\ At(vm, "add") /\ Of(vm) # {} /\ Riscv
    /\ \/ /\ ~iommu_active
          /\ Done(vm, <<>>)
          /\ UNCHANGED <<reg, irqVars, ctx_id, iommuVars, smmuVars>>
       \/ /\ present = "ready" /\ Of(vm) \in Devices
          /\ Done(vm, AllSteps(RiscvAdd, Of(vm)))
          /\ UNCHANGED <<reg, irqVars, ctx_id, iommuVars, smmuVars>>
       \/ /\ iommu_active /\ (present = "half" \/ Of(vm) \notin Devices)
          /\ Stop(vm) /\ UNCHANGED mistaken

DriverStep(vm, op) ==
    /\ At(vm, op)
    /\ Done(vm, <<>>)
    /\ UNCHANGED <<irqVars, ctx_id, smmuVars>>

WriteContext(vm) ==
    /\ \/ DriverStep(vm, "iohgatp") /\ WriteIohgatp(Of(vm), vm)
       \/ DriverStep(vm, "tc") /\ WriteTc(Of(vm))
    /\ UNCHANGED reg

ReadTail(vm) ==
    /\ DriverStep(vm, "tail")
    /\ reg' = [reg EXCEPT ![vm] = cqt]
    /\ UNCHANGED iommuVars

SubmitCmd(vm) ==
    /\ \/ DriverStep(vm, "inval") /\ WriteCmd(reg[vm], INVAL_DDT(Of(vm)))
       \/ DriverStep(vm, "iofence") /\ WriteCmd(reg[vm], IOFENCE)
       \/ DriverStep(vm, "cqt") /\ WriteCqt(reg[vm])
    /\ UNCHANGED reg

\* Mutant: one command more is waited for.
WaitedForMore(tail) == cqh = NextOf(tail)

\* iommu_cmd_iofence ends when the head is where the tail was when it was read.
Consumed(tail) == cqh = tail

WaitForHead(vm) ==
    /\ DriverStep(vm, "wait")
    /\ Consumed(reg[vm])
    /\ reg' = [reg EXCEPT ![vm] = None]
    /\ UNCHANGED iommuVars

-----------------------------------------------------------------------------
(* The SMMU driver. *)

ArmAdd == <<"alloc_ctxbnk", "write_ctxbnk", "compatible">>
Group(g) == [mask |-> g.mask, id |-> g.id, dev |-> FALSE]
Device(d) == [mask |-> {}, id |-> d, dev |-> TRUE]

\* io_vm_init.  The SMMU driver adds the VM's groups.
IoVmInit(vm) ==
    /\ At(vm, "io_vm_init")
    /\ Done(vm, IF Riscv THEN <<>>
                ELSE ForAll(ArmAdd, [i \in DOMAIN config.groups[vm] |->
                                        Group(config.groups[vm][i])]))
    /\ UNCHANGED <<reg, irqVars, ctx_id, iommuVars, smmuVars>>

ArmAddDevice(vm) ==
    /\ At(vm, "add") /\ Of(vm) # {} /\ ~Riscv
    /\ Done(vm, AllSteps(ArmAdd, Device(Of(vm))))
    /\ UNCHANGED <<reg, irqVars, ctx_id, iommuVars, smmuVars>>

\* iommu_vm_arch_add has returned false.  For a device that is an error; for a group
\* io_vm_init returns false too, and vm_init_dev leaves out the devices.
AddFails(vm) ==
    IF Of(vm).dev THEN Stop(vm) /\ UNCHANGED mistaken
    ELSE /\ todo' = [todo EXCEPT ![vm] = <<>>]
         /\ UNCHANGED <<config, stopped, mistaken, reg, irqVars, ctx_id, iommuVars, smmuVars>>

\* iommu_vm_arch_init_ctx: the VM has a bank, or takes and writes one, or there is none.
InitCtx(vm) ==
    \/ /\ At(vm, "alloc_ctxbnk") /\ ctx_id[vm] = None
       /\ \E b \in Banks : smmu_alloc_ctxbnk(b) /\ reg' = [reg EXCEPT ![vm] = b]
       /\ Done(vm, <<>>)
       /\ UNCHANGED <<irqVars, ctx_id, iommuVars>>
    \/ /\ At(vm, "alloc_ctxbnk") /\ ctx_id[vm] = None
       /\ Banks \subseteq ctxbank_bitmap
       /\ AddFails(vm)
    \/ /\ At(vm, "alloc_ctxbnk") /\ ctx_id[vm] # None
       /\ todo' = [todo EXCEPT ![vm] = Tail(Tail(@))]
       /\ UNCHANGED <<config, stopped, mistaken, reg, irqVars, ctx_id, iommuVars, smmuVars>>
    \/ /\ At(vm, "write_ctxbnk")
       /\ smmu_write_ctxbnk(reg[vm], vm)
       /\ ctx_id' = [ctx_id EXCEPT ![vm] = reg[vm]]
       /\ reg' = [reg EXCEPT ![vm] = None]
       /\ Done(vm, <<>>)
       /\ UNCHANGED <<irqVars, iommuVars>>

prep_mask(vm) == Of(vm).mask \cup config.gmask[vm]
IsGroup(vm) == Of(vm).mask # {}

\* A master that ends in ERROR inside of the driver keeps sme_lock for ever.
SmeLocked ==
    \E v \in stopped : Head(todo[v]).op \in {"compatible", "write_sme", "write_s2c"}
AtSme(vm, op) == At(vm, op) /\ ~SmeLocked

\* Entries that other masters have taken and not written: they have what they had before.
Unwritten(vm) == {reg[w] : w \in {v \in VMs \ {vm} : At(v, "write_sme")}}
Remember(vm) ==
    mistaken' = (mistaken \/ Searched(prep_mask(vm), Of(vm).id) \cap Unwritten(vm) # {})

\* iommu_vm_arch_add, after the VM has its bank.
CompatibleSme(vm) ==
    /\ AtSme(vm, "compatible")
    /\ \E included \in BOOLEAN :
          /\ smmu_compatible_sme_exists(prep_mask(vm), Of(vm).id, ctx_id[vm], IsGroup(vm), included)
          /\ Searches(vm, IF included THEN <<>> ELSE <<Step("alloc_sme", Of(vm))>>)
    /\ Remember(vm)
    /\ UNCHANGED <<reg, irqVars, ctx_id, iommuVars>>

ConflictingSme(vm) ==
    /\ AtSme(vm, "compatible")
    /\ SmeConflict(prep_mask(vm), Of(vm).id, ctx_id[vm], IsGroup(vm))
    /\ Stop(vm) /\ Remember(vm)

AllocSme(vm) ==
    /\ AtSme(vm, "alloc_sme")
    /\ \/ /\ \E e \in Smes : smmu_alloc_sme(e) /\ reg' = [reg EXCEPT ![vm] = e]
          /\ Done(vm, AllSteps(<<"write_sme", "write_s2c">>, Of(vm)))
          /\ UNCHANGED <<irqVars, ctx_id, iommuVars>>
       \/ /\ Smes \subseteq sme_bitmap
          /\ AddFails(vm)

WriteSme(vm) ==
    /\ AtSme(vm, "write_sme")
    /\ smmu_write_sme(reg[vm], prep_mask(vm), Of(vm).id, IsGroup(vm))
    /\ Done(vm, <<>>)
    /\ UNCHANGED <<reg, irqVars, ctx_id, iommuVars>>

\* Both writes end in ERROR if another master's search has given up the entry.
EntryGone(vm) ==
    /\ AtSme(vm, "write_sme") \/ AtSme(vm, "write_s2c")
    /\ reg[vm] \notin sme_bitmap
    /\ Stop(vm) /\ UNCHANGED mistaken

WriteS2c(vm) ==
    /\ AtSme(vm, "write_s2c")
    /\ smmu_write_s2c(reg[vm], ctx_id[vm])
    /\ reg' = [reg EXCEPT ![vm] = None]
    /\ Done(vm, <<>>)
    /\ UNCHANGED <<irqVars, ctx_id, iommuVars>>

-----------------------------------------------------------------------------

Master(vm) ==
    \/ AssignInterrupt(vm) \/ InterruptConflict(vm) \/ LoadWord(vm) \/ StoreWord(vm)
    \/ IoVmInit(vm)
    \/ SkipDevice(vm) \/ AddDevice(vm) \/ WriteContext(vm) \/ ReadTail(vm) \/ SubmitCmd(vm) \/ WaitForHead(vm)
    \/ ArmAddDevice(vm) \/ InitCtx(vm) \/ CompatibleSme(vm) \/ ConflictingSme(vm)
    \/ AllocSme(vm) \/ WriteSme(vm) \/ EntryGone(vm) \/ WriteS2c(vm)

Hardware ==
    /\ \/ Consume
       \/ \E d \in Devices : Fetch(d)
    /\ UNCHANGED <<vmVars, smmuVars>>

\* A master changes the shared map of interrupts, or has commands in the ring.
InPlace(vm, place) ==
    CASE place = "map"  -> At(vm, "load") \/ At(vm, "store")
      [] place = "ring" -> reg[vm] # None /\ \E op \in {"tail", "inval", "cqt", "iofence", "wait"} : At(vm, op)
Racing == {p \in {"map", "ring"} : Cardinality({vm \in VMs : InPlace(vm, p)}) > 1}

Next ==
    /\ Hardware \/ \E vm \in VMs : Master(vm)
    /\ raced' = raced \cup Racing'

Spec == Init /\ [][Next]_vars

\* A core that runs a master is never preempted, and an IOMMU that is on takes its commands.
Fairness ==
    /\ \A vm \in VMs : WF_<<vmVars, iommuVars, smmuVars>>(Master(vm))
    /\ WF_iommuVars(Consume /\ UNCHANGED <<vmVars, smmuVars>>)

FairSpec == Spec /\ Fairness

-----------------------------------------------------------------------------
(* Properties. *)

Elements(s) == {s[i] : i \in DOMAIN s}
Finished(vm) == vm \notin stopped /\ todo[vm] = <<>>
AllEnded == \A vm \in VMs : Finished(vm) \/ vm \in stopped

Streams == SUBSET Bits
Covers(mask, id, s) == XOR(id, s) \ mask = {}

\* The streams the configuration gives to a VM.
StreamsOf(vm) ==
    {s \in Streams :
        \/ \E g \in Elements(config.groups[vm]) : Covers(g.mask \cup config.gmask[vm], g.id, s)
        \/ \E d \in Elements(config.devs[vm]) \ {{}} : Covers(config.gmask[vm], d, s)}

\* The VMs of the configuration share no stream.
Disjoint == \A v, w \in VMs : v # w => StreamsOf(v) \cap StreamsOf(w) = {}

\* What a VM asks the SMMU for, in this order, and the streams of each.
Requests(vm) ==
    LET ids == SelectSeq(config.devs[vm], LAMBDA d : d # {}) IN
    [i \in DOMAIN config.groups[vm] |-> Group(config.groups[vm][i])]
    \o [i \in DOMAIN ids |-> Device(ids[i])]
Asked(vm, i) ==
    {s \in Streams : Covers(Requests(vm)[i].mask \cup config.gmask[vm], Requests(vm)[i].id, s)}

\* Requests before the j-th that have an entry then, as none that came before had all
\* their streams and none since has taken them in.
Standing(vm, j) ==
    {i \in 1..(j - 1) : \A k \in (1..(j - 1)) \ {i} :
        Asked(vm, i) \subseteq Asked(vm, k) => Asked(vm, i) = Asked(vm, k) /\ i < k}

\* Devices of one VM have a stream in common, or groups some but not all of one of them:
\* the driver calls that a conflict.
Conflicts(vm) ==
    \E j \in DOMAIN Requests(vm) : \E i \in Standing(vm, j) :
        /\ Asked(vm, i) \cap Asked(vm, j) # {}
        /\ \/ Requests(vm)[i].mask = {} /\ Requests(vm)[j].mask = {}
           \/ ~(Asked(vm, i) \subseteq Asked(vm, j)) /\ ~(Asked(vm, j) \subseteq Asked(vm, i))

\* A group takes in two entries, only one of which is written again.
TakesInTwo(vm) ==
    \E j \in DOMAIN Requests(vm) :
        Cardinality({i \in Standing(vm, j) : /\ Asked(vm, i) \subseteq Asked(vm, j)
                                             /\ Asked(vm, i) # Asked(vm, j)}) > 1

\* The VMs share nothing, none has an interrupt twice, and the hardware is there for all.
Sound ==
    /\ config.init # "half"
    /\ Disjoint
    /\ Riscv \/ /\ Cardinality(VMs) <= ctx_num
                /\ Cardinality(UNION {{vm} \X DOMAIN Requests(vm) : vm \in VMs}) <= sme_num
    /\ \A vm \in VMs :
          /\ Elements(config.irqs[vm]) \cap Reserved \subseteq (IF Riscv THEN {} ELSE Private)
          /\ Cardinality(Elements(config.irqs[vm])) = Len(config.irqs[vm])
          /\ Riscv => Elements(config.devs[vm]) \ {{}} \subseteq Devices
    /\ \A v, w \in VMs : v # w =>
          Elements(config.irqs[v]) \cap Elements(config.irqs[w])
             \subseteq (IF Riscv THEN {} ELSE Private)

TypeOK ==
    /\ config \in Configs
    /\ stopped \subseteq VMs
    /\ global_interrupt_bitmap \cap Reserved = Reserved
    /\ ddt \in [Devices -> [v : BOOLEAN, root : VMs \cup {None}]]
    /\ cqh \in 0..(CQ_NUM - 1) /\ cqt \in 0..(CQ_NUM - 1)
    /\ ctx_id \in [VMs -> Banks \cup {None}]
    /\ sme_bitmap \subseteq Smes /\ ctxbank_bitmap \subseteq Banks

\* A context the IOMMU may use has the page table of a VM the device was configured for.
ContextConfined(dc, d) ==
    dc.v => \E vm \in VMs : dc.root = vm /\ d \in Elements(config.devs[vm])

\* Between write_sme and write_s2c an entry matches its streams and has an old bank still.
Unbound == {reg[vm] : vm \in {v \in VMs : At(v, "write_s2c")}}

\* While the masters of all VMs set up their devices and the devices are running, the
\* RISC-V IOMMU leads a device only to the page table of a VM it was configured for, which
\* is in the device context before the valid bit, in memory and in the copy the IOMMU has.
\* A stream of the SMMU that matches one entry only is led to a bank that has been written
\* for the VM that has the stream, with three exceptions: an entry whose bank is still to be
\* written, as there the driver has no such order; VMs that share a stream, where the driver
\* compares with banks that are still to be written; and what comes after a search that has
\* taken an entry for what it was before somebody took it: it may give up that entry, which
\* two masters have then.
DmaConfined ==
    /\ TypeOK
    /\ present = "ready" =>
          \A d \in Devices : /\ ContextConfined(ddt[d], d)
                             /\ cache[d] # None => ContextConfined(cache[d], d)
    /\ Disjoint /\ ~mistaken =>
          \A s \in Streams : \A e \in Smes \ Unbound :
             Matches(s) = {e} =>
                \E vm \in VMs : cntxt[s2cr[e]] = {vm} /\ s \in StreamsOf(vm)

\* If the VMs share nothing and the hardware is there for all, a master stops only for a
\* conflict between the devices of its own VM, however the masters interleave: no interrupt
\* is taken for another VM's because of what a master wrote back to the shared map, and no
\* stream match entry that another master has given up, or has taken and written, is taken
\* for a conflict; until a search has read one that was taken and not yet written.
StopsForItsOwn == Sound /\ ~mistaken => \A vm \in stopped : ~Riscv /\ Conflicts(vm)

\* When vm_init_dev has returned, the VM's devices work: it has its interrupts, none that the
\* hypervisor reserved, and none of another VM unless two masters have tested and set the map
\* at once (those every core has its own of apart); the RISC-V IOMMU has no old copy of a
\* device context, unless VMs share a device or two masters have used the ring at once; and
\* if the VMs share nothing and the hardware is there for all, when all masters have
\* ended every stream of the VM matches entries of the SMMU that lead to the VM's bank,
\* whatever entries other VMs took or gave up in between: one entry, or more where the VM's
\* own groups took in two.
DevicesServed ==
    /\ StopsForItsOwn
    /\ "map" \notin raced =>
          \A v, w \in VMs : v # w =>
             interrupt_bitmap[v] \cap interrupt_bitmap[w] \subseteq (IF Riscv THEN {} ELSE Private)
    /\ \A vm \in VMs : Finished(vm) =>
          /\ interrupt_bitmap[vm] = Elements(config.irqs[vm])
          /\ interrupt_bitmap[vm] \cap Reserved \subseteq (IF Riscv THEN {} ELSE Private)
          /\ Riscv /\ present = "ready" /\ Disjoint /\ "ring" \notin raced =>
                \A d \in Elements(config.devs[vm]) \ {{}} :
                   /\ ddt[d] = [v |-> TRUE, root |-> vm]
                   /\ cache[d] \in {None, ddt[d]}
    /\ ~Riscv /\ AllEnded /\ Sound /\ ~mistaken =>
          \A vm \in VMs : Finished(vm) /\ ctx_id[vm] # None =>
             \A s \in StreamsOf(vm) :
                /\ Matches(s) # {} /\ \A e \in Matches(s) : cntxt[s2cr[e]] = {vm}
                /\ Cardinality(Matches(s)) = 1 \/ TakesInTwo(vm)

\* If the VMs share nothing, the hardware is there for all and no VM has a conflict of its
\* own, every master comes to the end of vm_init_dev: no command waits for ever for room in
\* the ring, and no fence for a head that has gone past; unless two masters have used the
\* ring at once, or a search has read an entry taken and not yet written, which may stop it.
EveryVmGetsItsDevices ==
    (Sound /\ (Riscv \/ \A vm \in VMs : ~Conflicts(vm)))
       ~> ("ring" \in raced \/ mistaken \/ \A vm \in VMs : Finished(vm))
=============================================================================
