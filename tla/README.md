# Verification of the Bao hypervisor (extended)

TLA+ models of the concurrent core of this hypervisor, the TLC configurations
that check them on small instances, and proofs checked by TLAPS. Paths below are
relative to the repository root; `PROJECT.json` maps every definition to the
lines it models.

Bao is a static partitioning hypervisor: at boot every core is given to one
virtual machine (VM) and stays with it. There is no scheduler; what is hard is
what the cores still share: the boot protocol, the physical memory and the part
of the address space all of them see, the messages between cores, the barriers,
the interrupt controller of a VM with several vCPUs, the IOMMU, and, in this
fork, the health of a VM, its restart, and the rate limits on its interrupts.

## 1. The parts of the system

| Part | State | Operations | Interacts with | What makes it correct |
|---|---|---|---|---|
| Core barrier (`core/inc/cpu.h`) | `cpu_synctoken`: lock, n, ready, count | `cpu_sync_init`, `cpu_sync_barrier` | boot, VM bring-up, restart | nobody leaves a round before everybody is in it; every call returns |
| Messages (`core/cpu.c`, `objpool.c`, `list.h`) | node pool, one list per core, SSIP | `cpu_send_msg`, `cpu_get_msg`, `cpu_msg_handler`, `cpu_idle_wakeup` | SBI, vPLIC, restart, IPC by handler id | no node leaked or shared; a message is handled once, in order, and in the end |
| SBI (`arch/riscv/sbi.c`) | state and lock of each hart, timer | SEND_IPI, hart start, set timer, timer interrupt | messages, health monitor | one start per stopped hart; an accepted start happens |
| Health monitor (`core/health_monitor.c`) | `vm->health`, shared without a lock | init, heartbeat, check | timer interrupt, restart, HC_HEARTBEAT | no false alarm; a hang is found in bounded time |
| VM restart (`core/vm_recovery.c`) | `vm->health.status`, counts, `vm->sync` | start, execute, slave execute, message handler | health monitor, messages, barrier, image | image rewritten only while all stand still; no old vCPU survives; only the harts of vCPU 0 and of the master come back started |
| Rate limiter (`core/inc/irq_rate_limit.h`) | a token bucket per interrupt | refill, consume, drain | vPLIC, HC_PLIC_INJECT | at most burst + rate x time pass; what is deferred comes later |
| Virtual PLIC (`arch/riscv/vplic.c`, `plic.c`) | pending, active, deferred, enables, priorities, thresholds | inject, claim, complete, register writes, line update | physical PLIC, rate limiter, messages, IPC | one service at a time; no claimed device request lost; no pending interrupt unnoticed |
| VM assignment and bring-up (`core/vmm.c`, `vm.c`) | `vm_assign[]`, `vm->cpus`, `vm->vcpus`, tokens | `vmm_init`, `vmm_assign_vcpu`, `vm_init` | barrier, address space | each core in one VM, one master, affinities first, guest starts on prepared memory |
| Interrupt ownership (`core/interrupts.c`) | owner bitmaps, handler table | reserve, assign, handle | PLIC/GIC, VMs | an interrupt has one owner |
| IPC (`core/ipc.c`) | shared memory table, masters | hypercall, notify | messages, vPLIC/vGIC | a notification reaches every other owner |
| Page allocator (`core/mem.c`, `core/mmu/mem.c`, `lib/bitmap.c`) | page pools: bitmap, free, last | allocate, by colour, reserve, free | virtual memory, images | no page given twice; what fits is found |
| MMU memory (`core/mmu/`, `arch/riscv/page_table.c`) | address spaces, page tables, shared memory table | allocate, map, copy, recolour, unmap virtual ranges | page allocator, VM bring-up, restart, IPC | VMs see disjoint pages and no page table; each gets what its configuration says; shared sections are given back |
| MPU memory (`core/mpu/`, `armv8-r/mpu.c`) | regions of an address space, entries of the MPU of a core | map, cut, merge, unmap, broadcast | messages, VM bring-up, restart | entries disjoint while regions are disjoint or nested; an MPU grants what its spaces have mapped; broadcasts end |
| Virtual GIC, GIC (`arch/armv8/vgic*.c`, `gic*.c`) | owner, state and list register of each interrupt, spilled lists | register and SGI writes, inject, route, spill, refill, end of interrupt | messages, physical GIC, IPC | one core presents a device's interrupt, once; an active one keeps its owner; a pending one is on its way |
| PSCI (`arch/armv8/psci.c`, both profiles) | `psci_ctx` of vCPUs | CPU_ON, CPU_OFF, SUSPEND, wake-up | messages, idle loop, firmware | a vCPU runs as it was last asked to; one that is switched on is entered |
| IOMMU, SMMU (`arch/riscv/iommu.c`, `armv8-a/smmuv2.c`, `armv8-a/iommu.c`) | device contexts, command ring; stream match entries, banks | set up, add a group or a device, invalidate, fence | VM bring-up, running devices | DMA goes through the page table of a VM that has the device, without exception on RISC-V and for bound entries on Arm; a master stops only for a conflict of its own; masters that do not race come to the end and their VMs have their devices |
| Exceptions, boot code, console, configuration, platforms | none shared, or constant | - | - | - |

The behaviours that are hard to test are listed, line by line, under `hazards`
in `PROJECT.json`. They are mostly of five kinds: cores that interleave on state
without a lock (`vm->health`, the command ring of the IOMMU, `psci_ctx`) or
between two critical sections (vPLIC, address spaces, SMMU); orders that only
sometimes matter (when SSIP is cleared, when a device is completed, when a
context becomes valid); ownership that moves by message (vGIC, MPU regions);
limits (node pools, buckets, list registers, entries, unsigned differences); and
waiting (three barriers in a restart, one missed message, a fence).

## 2. The modules

| Module | Models | Composes |
|---|---|---|
| `CpuSync` | the counting barrier, step by step, spin lock included | refines `Barrier` |
| `Barrier` | what a barrier promises | - |
| `CpuMsg` | messages, node pool, software interrupt, SEND_IPI, hart start | refines `Channel` |
| `Channel` | per-receiver first-in first-out delivery, each message once | - |
| `VmRecovery` | restart of a VM on all its cores | abstract barrier, messages, unlocked `vm->health` |
| `HealthMonitor` | heartbeat, check and watchdog with their clock | the timer of SBI |
| `IrqRateLimit` | the token bucket with its arithmetic | - |
| `Vplic` | virtual PLIC over the physical one | rate limiter (time left open), messages (delivered) |
| `VmmInit` | assignment of cores and bring-up of VMs | counting barrier with an atomic arrival |
| `PagePool` | the allocator of physical pages, as functions on a pool | - |
| `Memory` | page tables and the construction of VMs over them, with shared memory and restarts | `PagePool` |
| `Mpu` | the MPUs of the cores and the address spaces over them | messages (queues), the barriers of `vm_init` |
| `Vgic` | the virtual GIC over list registers and the physical GIC, both versions | messages (queues) |
| `Iommu`, `Smmu` | the hardware and the driver of the RISC-V IOMMU and of the SMMUv2 | - |
| `VmDevices` | interrupts and devices given to VMs by their masters at the same time | `Iommu`, `Smmu` |
| `Psci` | power control of the vCPUs of an ARMv8 VM, with the idle loop | messages (counted) |
| `CpuSyncProofs`, `CpuMsgProofs`, `VmRecoveryProofs`, `VplicProofs`, `VmmInitProofs`, `VmDevicesProofs` | theorems about the module of that name | - |
| `ClockProofs` | theorems about the two modules with a clock | `HealthMonitor`, `IrqRateLimit` |
| `ArmProofs` | theorems about what is emulated for the vCPUs of an ARMv8 VM | `Psci`, `Vgic` |
| `MC*` | entry points of the TLC runs | - |

Conventions. Variables and actions have the names of the C fields and functions
they stand for. `pc[c]` says where core `c` is in the handler it executes. Code
under one lock is one step, because every access to the state it protects takes
that lock; an access to shared state outside of a lock is a step of its own. A
core in hypervisor mode has interrupts off, so a handler is interrupted by
other cores only. `ERROR()` spins for ever and is a final `pc`. Operators whose
comment begins with "Mutant" are not part of the models: each is a plausible
mistake in the code, kept to show that the property named in `PROJECT.json`
would catch it. Memory is sequentially consistent: reordering by the
processors is not modelled.

**CpuSync.** `lock, n, ready, count` are the fields of the token; `tmp` and
`next_count` the locals; `entered` and `left` count the rounds of each core
(history). `SyncInitFields` and `SyncInitReady` are `cpu_sync_init`; the call is
`Call`, `AwaitReady`, `spin_lock`, `LoadCount`, `StoreCount`, `AlignCount`,
`spin_unlock`, `Leave`. `MaxCalls` bounds the calls of a core.

**CpuMsg.** `cpu_send_msg` is `objpool_alloc` (or `AllocFails`, which ends in
`ERROR`), `list_push`, `interrupts_cpu_sendipi`; the IPI travels through the
firmware (`msip`, `FirmwareIpi`) to `ssip`. A core takes it as a trap (`Trap`,
then the loop of `cpu_msg_handler`: `list_pop`, `objpool_free`,
`sbi_msg_handler`, `HandlerReturns`, and at the end `TrapAck`, which clears SSIP)
or out of `wfi` (`Wakeup`, `cpu_idle_wakeup`, which clears SSIP first). The
callers are `sbi_ipi_handler` for a mask of harts and `sbi_hsm_start_handler`,
which holds the lock of the target's context while it sends.

**VmRecovery.** Heartbeats, checks and hart starts of all cores race with a
restart. `vcpu0` is the core whose vCPU has id 0, which need not be the master and is
any core of the VM. `vm_recovery_start`, `TestRecovering`, `MarkRecovering`,
`CountRecovery` and `vm_msg_broadcast` are the unlocked accesses of
`vm_recovery_start` one by one; `StopVcpu`, `AllStopped`, `vm_reinstall_image`,
`ResetVcpu` and `Resume` are the phases between its three barriers on the
master and on the others. Whether a heartbeat is overdue is open. A value the
compiler may read again or keep in a register (`prev`) is a choice.

**HealthMonitor.** Times are kept as ages, so a run has no end: `age` is the
time since `last_heartbeat`, `delay[c]` the time since core `c` has read the
clock, their difference is taken modulo `Mod` as `uint64_t` does. A heartbeat is
three steps (read the clock, store time and count, store the status), a check
five (read the clock, read `last_heartbeat`, load, store `missed_count`, set the
status). `Forward` is the rest of `sbi_timer_irq_handler` with the watchdog.

**IrqRateLimit.** `elapsed` is the time since `last_refill`; tokens are modulo
`U32`. `irq_bucket_init` is the initial state, `BucketTick` the clock. `spent`,
`injected`, `arrived`, `time` are history.

**Vplic.** `vplic_inject`, `vplic_claim`, `vplic_complete`, `vplic_set_enbl`,
`vplic_set_prio`, `vplic_set_threshold`, `vplic_ipi_handler` and
`vplic_update_hart_line` are actions or operators of the same name;
`plic_handle` with `interrupts_handle` brings device requests in and
`ipc_notify` interrupts without a device. Completion is three steps, because the
physical completion and the update of the line are outside of the lock.
`VmRecovers` is what a restart does to the vPLIC, which is nothing.

**VmmInit.** The configuration (affinities, sizes) is chosen in `Init`. A core
passes through `vmm_init`, the two loops of `vmm_assign_vcpu` (`AssignByAffinity`,
`AssignLeftover`, an iteration per step), `vmm_alloc_install_vm` and the parts of
`vm_init` with the barriers in between. What the master does for its VM between
two barriers is one step here (`VmInitMemory`); `Memory`, `Mpu` and `VmDevices`
open that step.

**PagePool, Memory.** A pool is a record with the bit map as a set. `pp_alloc`,
`pp_alloc_clr`, `mem_are_ppages_reserved_in_pool` and the searches of `bitmap.c`
keep their arithmetic: the position of the next search, the step over
misaligned segments, the second pass, the unsigned count. A page table is a
function from pages of the pool to entries; `mem_alloc_vpage`, `mem_map`,
`mem_map_cpy`, `mem_map_reclr`, `mem_unmap`, `mem_inflate_pt` and `as_init` are
operators on that state. A master works through the list of calls that
`vm_init_mem_regions`, `vm_install_image`, `vm_init_ipc` and `vm_init_dev` make
for its configuration, one call per step, and again for a restart. A call is one
step because it holds the lock of its address space and, for a shared section, of
the section. `content` says which page of which image a page holds.

**Mpu.** `mpu[c]` are the entries of a core with what each privilege was given,
`vmpu[s]` the regions of an address space, `queue` and `nodes` the messages
and the pool their regions come from. `mpu_map` is `MapInside` (cut an entry of
the other privilege) or `MapAlone` (merge or allocate); `mem_map`,
`mem_unmap_range` and `mem_map_cpy` are the calls in `todo`, with the broadcast.
A core handles messages at a barrier of `vm_init` and in its guest (`GetMsg`,
`HandleMsg`). The build is one of 32 bits. `odd[c]` (history) remembers what has happened
to the entries of a core after which the code gives less: a region that partly overlaps
another was mapped (`"partly"`), a merge on both sides has freed an entry with its
permissions (`"freed"`) or has given an entry the bits of another region (`"flags"`), a
region whose entry holds more was unmapped (`"left"`).

**Vgic.** The state is one record `g` and every handler an operator on it that
has the name of the C function: `vgic_add_lr`, `vgic_write_lr`, `vgic_remove_lr`,
`vgic_route`, `vgic_yield_ownership`, `vgic_refill_lrs`, and the handlers
`vgicd_emul_handler`, `vgicd_emul_misc_access`, `vgicd_emul_sgiregs_access`,
`gic_maintenance_handler`, `HandleMsg`, `gic_handle`. The spilled lists are linked
lists with a `next` pointer in each interrupt, as in `list.h`; `g.spilt` (history) says
that `vgic_add_spilled` has been called. The guest acknowledges and ends interrupts in
the list registers (`Acknowledge`, `Eoi`).

**Iommu, Smmu, VmDevices.** The ring of the RISC-V IOMMU, its head and tail, the
directory and the copies the hardware holds are variables; each access of the
driver is a step (`ReadTail`, `SubmitCmd`, `WaitForHead`, `WriteContext`), and
`Consume` and `Fetch` are the hardware's. A stream id is the set of its bits, so
that masks are sets too; a function of the SMMU driver holds a lock of its own and
is a step. `interrupts_vm_assign` tests and sets the bit maps, whose words are
read and written back. `CompatibleSme` is the search for an entry that a stream
can join: it gives up the entries that the stream includes, stops at a conflict, and
reads every entry that is allocated, written or not. `mistaken` (history) says that a
search has read one that was not. `EntryGone` is a write to an entry that another
master has given up in between: `ERROR()` with `sme_lock` held, so no function that
takes that lock goes on (`SmeLocked`). `SkipDevice` is a device without a stream id.
`raced` (history) says in what two masters have overlapped: the test and the set of the
map of interrupts (`"map"`), or the ring (`"ring"`). `Conflicts(vm)` says of a
configuration that streams of one VM are in conflict with each other, and `TakesInTwo(vm)`
that one of its groups includes two others.

**Psci.** A vCPU has a core of its own, `at` says where it is. CPU_ON writes state,
entry point and context id of its target one by one (`WritePending`,
`WriteEntrypoint`, `WriteContextId`) and sends a message; `cpu_idle_wakeup`,
`cpu_msg_handler`, `WakeReset`, `WakeOn`, `WakeX0` and `vcpu_arch_run` are the way
of the target. `profile` is what the firmware does when it is asked to power a
core down: it does, does not know the call, refuses, or there is none (Armv8-R).

## 3. The runs

| Run | Instance | Shows |
|---|---|---|
| `cpusync` | 3 cores, 3 rounds | `IInv`, `BarrierSafety`, `ImplementsBarrier`, `EveryCallReturns` |
| `cpumsg` | 2 started cores and a stopped one, 2 nodes, one call each | `NodeOwnership`, `OneStartPerHart`, `ImplementsChannel`, `AcceptedStartCompletes` |
| `recovery` | 2 running harts, vCPU 0 on either, 2 restarts, 2 misses, 1 hart start | `RestartIsClean` (image written only while all stand still, no old vCPU survives, exactly the harts of vCPU 0 and of the master started), `RecoveryLimit`, `RecoveryCompletes` |
| `health` | 2 cores, timeout 3, watchdog 2, 3 misses, handlers of up to a tick | `VerdictIsRight` (judged by misses, found in time), `OverdueIsReal`, `ArmedHangDetected` |
| `irqrl` | burst 3, rate 2/3 per tick, buffer of 2, counts modulo 5, 12 ticks | `BucketInv` (nothing vanishes), `RateBound` |
| `vplic` | 2 harts, a device interrupt and one without a device, one register write, one restart | `ServiceIsExclusive`, `PhysicalIrqIsHeld`, `PendingIsSignalled` |
| `vmminit` | 3 cores, 2 VMs of 1 or 2 cores, every affinity | `AssignmentInv`, `PlacesGivenRight` (affinities exact and first, no core wasted), `GuestStartsPrepared`, `CompleteVmStarts` |
| `vgic` | 2 vCPUs, an SGI, a device interrupt and a virtual one, both GIC versions, 1 or 6 list registers | `ActiveKeepsOwner`, `DevicePresentedOnce`, `PendingIsOnItsWay` |
| `memory` | 2 masters, 3-level tables, a pool of 48 pages, 2 colours, 5 pairs of configurations | `VmIsolation`, `MemoryAsConfigured`, `GlobalGivenBack`, `EveryVmIsBuilt` |
| `mpu` | 7 platforms of 1 to 3 cores, 12 entries, restarts | `EntriesDisjoint`, `ViewsAgree`, `GuestReach`, `BroadcastsEnd` |
| `vmdevices` | 2 masters, 20 configurations, a ring of 2, 1 or 2 banks, 2 to 4 entries | `DmaConfined`, `DevicesServed`, `EveryVmGetsItsDevices` |
| `psci` | 3 vCPUs, 4 calls, 4 kinds of firmware | `StartsAsAsked`, `PendingIsStarted` |

Types are checked as part of one invariant of each run. Every property has a
mutant in `PROJECT.json`: a change of one mapped definition, as a plausible
mistake in that code would make it, under which the same run finds it violated.

Why the bounds are enough. The barrier reuses its counter from the second round
on, so three rounds contain a fast core in the next round while slow ones are in
the last. The pool of two nodes is exhausted when two senders serve their masks, so allocation
failure happens, and nodes change hands between cores. In `recovery` two cores
are enough for every pairwise race, two restarts for one to follow another, and
the limit is reached. In `health` the timeout is no multiple of the watchdog
period, counts go past `max_missed`, and a handler that takes a tick lets another core
record a heartbeat between the two reads of a check, so that the unsigned difference
wraps. In `irqrl` the rate does not divide the frequency, so every refill rounds, and
after three ticks the sum of the tokens earned and those there no longer fits the width. In
`vplic` an interrupt is deferred twice, which is the depth of its buffer, and
both harts compete for it; more writes only mean more configurations to start
from. In `vmminit` three cores give two VMs a core to compete for, and affinities
that are too small, too large, overlapping and exclusive. In `vgic` one list
register makes every second interrupt spill, with one input of the guest, and
with six nothing spills within the bound of two inputs; a device's interrupt is raised again and
again in both. In `memory` a leaf has one, two or four pages, so that regions
begin, end and are copied from inside of large leaves; the pairs cover images that
are copied, in place, coloured and recoloured, regions at fixed and at free
places, shared memory and a restart. In `mpu` the platforms have regions that are
merged, a device cut out of one of the hypervisor's, an image that fills a region
or is inside of it, and an idle core that still gets the broadcasts; three
cores make them echo. A region fills the gap between two others (`Gap`), regions
overlap in part (`Partly`), and a region that is mapped for a time is next to one
that stays (`NextTo`): each value of `odd` is reached. In `vmdevices` there is one
configuration for each thing that can happen (listed in `MCVmDevices`), and a master has
more commands than the ring has slots, so that it waits for room; some have a master
take an entry that the other one has given up and search on, or a VM whose own streams
overlap. In `psci` two vCPUs can call for the third, and four calls are
enough for on, off, on again and a suspend.

Deadlock is checked in `health`, `irqrl` and `vplic`. It is off where the
system really stops: after the bounded calls of `cpusync`, `cpumsg`, `vgic` and
`psci`, in an `ERROR()` loop, in a restart that hangs on a lost message, and at
the end of boot (`vmminit`, `memory`, `mpu`, `vmdevices`).

Fairness. Weak fairness on the steps of a core: cores are not preempted and
spin loops keep running. On `FirmwareIpi`: the firmware forwards the IPIs it was
asked for. On `SoftIrq`: a pending enabled interrupt is taken. On `Tick`: time
passes. On `Consume`: an IOMMU that is on takes its commands. In `Psci` a pending
message wakes a sleeping core (weak), and is taken from a guest however often it
calls the hypervisor (strong), since the guest cannot mask it. Guests owe
nothing: no fairness on calls, heartbeats, suspends or register writes, and a
guest may hang. The spin lock is not fair and is not assumed to be. In `Memory`
and `Mpu` the fairness of a core's calls is stated by what they have in common,
that the list of calls gets shorter (`Proceeds`). `Vplic`, `Vgic` and
`IrqRateLimit` have safety properties only.

The properties, in words, precede their definitions. Some have a condition,
each of which is a place where the code does not give more; see the observations.

- `RecoveryCompletes`: a restart ends *unless* a message is stranded.
- `RestartIsClean` names the harts that are STARTED after a restart: that of vCPU 0
  and that of the master, which are two if the master has another vCPU.
- `OverdueIsReal` excepts a heartbeat that is just being recorded, and the wrap of
  the unsigned difference (`age < delay[c]`); the latency in `VerdictIsRight` holds
  until a handler has spanned a clock tick (`slow`).
- `BucketInv` and `RateBound` say that a bucket never gives more than was earned, not
  that an idle bucket fills: when the 32-bit sum wraps it does not.
- `PendingIsSignalled` is about times in which the guest leaves the registers
  alone and excepts interrupts that a claim drained.
- `DevicePresentedOnce` and `PendingIsOnItsWay` hold until the first interrupt is
  spilled (`g.spilt`); `ActiveKeepsOwner` always. No number of list registers rules a
  spill out: an ended list register that asks for a maintenance interrupt is in use
  until that is served, and an interrupt can leave several of them behind.
- `MemoryAsConfigured` excepts the content of an image that was mapped in place
  and is to be restored by a restart.
- `EntriesDisjoint`: the entries of a core are disjoint until it maps a region that
  overlaps another in part, and an entry that is not in use has no permissions until a
  merge on both sides has freed one.
- `ViewsAgree`: what a guest has mapped is granted always. What the hypervisor has mapped
  is granted until one of two merged regions is unmapped on its own or two overlap in
  part; until the former no entry of an address space is lost and the cores
  agree on what they share.
- `GuestReach` admits, of another VM, the region its image is copied to, and never
  an installed image. It holds until a merge has given an entry the bits of another
  region, or has freed one with its permissions.
- `DmaConfined` excepts a stream match entry until its bank is written, VMs
  that share a stream, and what comes after a search that has read an entry taken
  and not yet written. The last is excepted by `DevicesServed` and
  `EveryVmGetsItsDevices` too. For the RISC-V IOMMU it has no exception.
- `DevicesServed`: no interrupt is given to two VMs unless their masters overlapped
  between test and set; the IOMMU has no old copy of a context unless two masters have used
  the ring at once or share the device; a stream matches exactly one entry unless a group
  of its VM includes two others, and always entries of its VM's bank only.
- `EveryVmGetsItsDevices` is about VMs that share nothing, have the hardware they
  ask for, no interrupt twice and no conflict among their own streams, and excepts masters that have used the
  ring at once. One after the other they come to the end.
- `StartsAsAsked` and `PendingIsStarted` leave out a vCPU that two callers found
  OFF at the same time.

## 4. Observations

What a reader of the code should know. All were met while it was translated; the
ones behind a condition of section 3 were met as counterexamples of the property
without that condition. No run states them.

Messages, restart, health, rate limits, vPLIC:

- `arch/riscv/interrupts.c:83` clears SSIP after the message loop; a message
  sent in between loses its wake-up. `cpu_idle_wakeup` clears first.
- `core/vm_recovery.c:44`: two cores can both start a restart. With three
  cores this can leave the barriers waiting for a core that has gone on.
- `core/vm_recovery.c:93`: if the master of a VM is not the core of vCPU 0, two
  harts are STARTED after a restart.
- `core/health_monitor.c:71`: the clock is read before `last_heartbeat`, so a
  heartbeat in between makes the unsigned difference wrap.
- The watchdog is armed by the first timer interrupt only (`sbi.c:260`): a guest
  that hangs before it has set a timer is not found, whatever
  `docs/design-health-monitor.md:61` suggests. A check may undo a heartbeat that
  overlaps it, and misses accumulate once per core and period.
- `core/inc/irq_rate_limit.h:184`: `irq_bucket_consume` takes deferred
  interrupts out of the buffer and its caller injects none of them. `:157`
  truncates new tokens before the cap and `:161` drops the remainder of the
  division; both only make the limit stricter. The sum with the tokens
  that are there wraps before it is capped, so a long idle time can leave a bucket
  less than full.
- `core/vm_recovery.c:92`: a restart leaves the vPLIC as it is; an interrupt in
  service stays masked.
- `vplic_claim` updates the line of the claiming hart only, although the drain
  may have made interrupts of other harts pending; enabling a device interrupt
  or changing its priority updates no line. Ids up to and including
  `PLIC_MAX_INTERRUPTS` are accepted (`vplic.c:38`), one more than has a bucket.
- `HC_PLIC_INJECT` (`hypercall.c:43`) uses a bucket without the vPLIC lock.
- A VM that gets fewer cores than it asks for waits at its first barrier.
- `core/ipc.c:15`: an event id is cut to 8 bits.

Memory with an MMU:

- `lib/bitmap.c:25`: `bitmap_count_consecutive` does not stop at the size of the map.
- `core/mem.c:66`: the search for an aligned segment advances by the misalignment
  and may step over free aligned segments of four pages or more.
- `core/mmu/mem.c:168`: the second pass of the search by colour starts at page 0
  whatever its colour, and may give out a page that is in use.
- `core/mmu/mem.c:77` never adds to `free`, and `core/mem.c:139` subtracts pages
  that were reserved already; the count is unsigned.
- `mem_alloc_vpage` compares with the whole number of pages near the end of a
  section instead of what is still missing; the inner loop of `mem_map`
  (`core/mmu/mem.c:551`) writes following entries whatever they hold; `mem_map_cpy`
  maps a whole leaf when it starts inside of one; `mem_inflate_pt` steps from an
  address that need not be aligned, and recolouring inflates without the locks.
- A restart cannot restore an image that was mapped in place or recoloured,
  since nothing keeps the original (`docs/design-auto-recovery.md:61` calls the
  image "read-only and always available for re-copying"). `vm_install_image` compares a guest address with a load address.
- A fixed region with colours is reserved as a run and mapped by colour
  (`core/mem.c:302`, `core/vm.c:70`).

Virtual GIC and GIC:

- `vgic.c:1072`: a virtual interrupt that becomes pending again between the
  guest's end of interrupt and the maintenance interrupt is lost until the next one.
- After a spill: a spilled interrupt that was disabled is
  refilled (`:1020`); one that is added again is pushed to its list twice, and
  `list_rm` (`lib/inc/list.h:105`) leaves the tail behind; refilling comes before
  EOIcount is served; masking or moving an active interrupt frees its list register
  without spilling it (`:147`, `:651`).
- `vgicv2.c:105`: an SGI that its source sends again while it is pending is taken out
  of its list register and not put back.
- `vgic.c:655`: a SET_REG message always names redistributor 0. `vgicv3.c:216`:
  GICR_ISACTIVER0 clears instead of setting, and ICACTIVER0 has the
  handler of ICFGR.
- Locks are taken in two orders (`vgic.c:1011`, `:1016` and `:287`, `:178`).
- `vgic.c:547` reads `interrupt->state` for the pending bit of an interrupt in a list
  register; `gicv2.c:57` reads IAR, which acknowledges, to save it.

Memory with an MPU:

- `SEC_VM_ANY` and `SEC_HYP_GLOBAL` are both 0 (`core/inc/types.h:42`, `:48`),
  so the mapping through which an image is copied is broadcast to all
  cores, and a region mapped alone writes the EL1 bit of its flags
  (`armv8-r/mpu.c:459`). Cores of other VMs reach the region while the image is
  copied, and its edges afterwards.
- `mem_regions_overlap` is containment, so regions that overlap in part are not
  found. An image that is only a part of its region is such a case when it is installed
  again after a restart: the region is mapped over its own rest, which is still there.
- A region that was merged cannot be unmapped on its own: no entry is inside of it, so
  the MPU goes on granting it. Merging gives the entry the flags of one of the regions.
- `mem_unmap_range` ignores `broadcast`: a removal is sent on by every core that
  handles it, and takes a number of nodes that grows with the square of the cores.
- After a merge of three (`mpu.c:434`) the freed entry is disabled but keeps its
  permissions. When it is used again for the hypervisor and freed, the EL1 permission that was
  left sets the EL1 bit of the entry. With 64-bit flags
  the comparison of attributes reads uninitialised padding (`mpu.c:149`).

IOMMU, SMMU, interrupts:

- Nothing locks the command ring (`riscv/iommu.c:97`): with two masters commands
  are overwritten and the tail moves back; the fence waits for equality (`:136`) and
  may wait for ever.
- When `iommu_arch_init` fails after line 201 the driver goes on with a directory
  that is not there.
- Two VMs that are given one device are not told; the fault queue is never emptied.
- A stream match entry is valid before its bank is written
  (`armv8-a/iommu.c:59`), and the test for conflicts reads the banks of entries
  that are not written yet, or whose id is still 0. `smmu_alloc_sme` marks an entry as
  allocated (`smmuv2.c:259`) and `smmu_write_sme` fills it in under another hold of
  the lock, so the search of another master compares with what the last owner left
  there. It may give up the entry, which two masters have then, and
  streams of one VM end at the bank of the other; stop with a conflict although the
  VMs share nothing; or take its own stream as included. A write to an entry that was
  given up ends in `ERROR()` with `sme_lock` held. An entry that absorbs two
  others leaves one that matches twice (`:306` clears the bit map, and only one of the two
  is written over); `grp_bitmap` is never cleared.
- Streams of one VM can be in conflict with each other: two devices with one stream id, or
  groups that overlap in part, end in `ERROR()` (`smmuv2.c:314`).
- `core/interrupts.c:73` tests and `:80` sets without a lock: two VMs can get one
  interrupt.

PSCI:

- `psci_cpu_on_handler` takes the lock of its caller (`psci.c:115`): with three
  vCPUs two callers find the target OFF and it starts with a mixture of both.
- On Armv8-R a power-down suspend returns to the guest and not to the entry point; a
  refusal of the firmware in `cpu_arch_idle` stops the core. AFFINITY_INFO always
  answers ON. `vm_cpuid_to_mpidr` admits one id too many.

## 5. The proofs

TLAPS proves for every value of the constants what the runs check on an
instance. Each theorem rests on an inductive invariant that TLC checked on an
instance before it was proved; the assumptions are the named `ASSUME`s of the
modules, which say that constants are numbers, that sets of cores and nodes are
finite and that a null value is none of the others.

| Module | Theorem | States |
|---|---|---|
| `CpuSyncProofs` | `InductiveInvariant`, `BarrierIsSafe`, `Refinement` | `IInv`, `BarrierSafety`, `ImplementsBarrier` |
| `CpuMsgProofs` | `NodesOwned`, `HartStartedOnce`, `MessagesAreDelivered` | `NodeOwnership`, `OneStartPerHart`, `ImplementsChannel` |
| `VmRecoveryProofs` | `RestartsClean`, `RecoveriesAreLimited` | `RestartIsClean`, `RecoveryLimit` |
| `ClockProofs` | `JudgedOnMisses`, `VerdictsAreRight`, `OverdueChecksAreReal` | `JudgedByMisses`, `VerdictIsRight`, `OverdueIsReal` |
| `ClockProofs` | `BucketInvariant`, `RateIsBounded` | `BucketInv`, `RateBound` |
| `VplicProofs` | `OneServer`, `ClaimedIsHeld`, `LineFollowsPending` | `ServiceIsExclusive`, `PhysicalIrqIsHeld`, `PendingIsSignalled` |
| `VmmInitProofs` | `AssignmentIsRight`, `PlacesAreRight`, `GuestsStartPrepared` | `AssignmentInv`, `PlacesGivenRight`, `GuestStartsPrepared` |
| `ArmProofs` | `PowerIsOrderly` | `StartsAsAsked` |
| `ArmProofs` | `ActiveKeepsAnOwner`, `DevicesPresentedOnce`, `PendingIsAlwaysOnItsWay` | `ActiveKeepsOwner`, `DevicePresentedOnce`, `PendingIsOnItsWay` |
| `VmDevicesProofs` | `DevicesAreConfined`, `RiscvDevicesAreConfined` | `DmaConfined`; its RISC-V part, which has no exceptions |

**CpuSyncProofs**, for any finite nonempty set of cores and any number of calls
(`CpusAssumption`). `BarrierSafety` is not inductive: that a core may leave
follows from what `count` says about the others. `IInv` adds who may be where
before `ready` (`InitPhase`), the mutual exclusion of the spin lock, what the
locals hold at each step (`Locals`; in particular `next_count = N * entered`), and
`Rounds`: all cores are in round r or r + 1 and `count = N * r +` the number of the
latter. The two arithmetic lemmas are `AlignRound` (what `ALIGN` makes of a count
within a round) and `AlignValue` (a core that has just arrived rounds up to the end
of its own round). `LeaveRound` then shows that `count >= next_count` means that
everybody is in. For the refinement only `StoreCount` and `Leave` are steps of
`Barrier`; the others stutter.

**CpuMsgProofs**, for any finite sets of cores and nodes and any masks
(`MsgAssumption`). `PoolInv` says what a core inside of a call knows (`Locals`) and
that the nodes in use are those of the lists and those in a core's hand, each in
one place (`Places`). The refinement of `Channel` needs the latter: a pop
must not change what another list holds. `StartInv` adds that a hart is
START_PENDING exactly while one HART_START is with a sender or in its inbox.

**VmRecoveryProofs**, for any finite set of cores and any limits
(`RecoveryAssumption`). `Rounds` counts barriers: a round is three of them and one
reset, no core is ahead of a barrier that another has not entered, and the master
installs one image per round. With it no state of the message queues is
needed: the image is written only while all stand still however many cores
began a restart. `Powered` says which harts are STARTED before, during and after
a reset, for any core as vCPU 0: its own and the master's, one hart or two. For the limit `Alone`
describes one restart in full, as long as none was begun inside another: one leader,
which counts it, and every other core owed one message or following.

**ClockProofs**, on `HealthMonitor`, for any finite set of cores, timeouts, watchdog periods
and limits (`HealthAssumption`). `JudgedOnMisses` has no hypothesis about time.
Increments of `missed_count` get lost, so what is inductive is an upper bound:
`misses` covers the count, or the count in a register, together with the cores
about to load it (`Accounted`), unless a check overlapped the last heartbeat
(`Apart`). `OverdueChecksAreReal` assumes nothing about the length of handlers either: a
check that finds a difference above the timeout has read a heartbeat that is as old, but for
`Lateness`, or one of the exceptions holds. The latency in `VerdictsAreRight` is for
runs in which no handler has spanned a tick yet (`slow`). Detection needs
a lower bound in spite of lost increments and of a status that one core sets back
after another has set it: there is a k that no count, in memory or in a register,
is below (`AtLeast`), every register is above it until the next store (`Above`),
and a core with k misses behind it is not later than `Due(k)` (`InTime`).
`FoundKept` then says that a VM that k = `max_missed` has found stays UNHEALTHY.

**ClockProofs**, on `IrqRateLimit`, for all rates, frequencies and widths
(`BucketAssumption`). `RateBound` is not inductive since it forgets the tokens
still in the bucket and the time not yet paid for; `Earned` keeps both:
`(spent + tokens) * FREQ <= max_tokens * FREQ + rate * (time - elapsed)`. The lemmas
`DivBound`, `RefillBound` and `RefillEarned` say that rounding and truncation lose
tokens and never make any. Nothing is assumed about the width: a sum that wraps loses
tokens too.

**VplicProofs**, for any set of harts, any interrupts, priorities and limits
(`VplicAssumption`). `VplicInv` is one invariant for the three theorems.
`Exclusive` says which vCPU services what is active, also between the two critical
sections of a completion; `Remembered` where a claimed request is, and that it is
held somewhere when its activity is about to end; `FullIsMarked` that a full buffer
has its bit in `deferred`; `Signalled` that what is pending is noticed by a hart
which may claim it, for which it must know what each hart let through when it
claimed. `vplic_next_pending` takes a maximum over the interrupts; `NatMin` and the
lemmas on it say that it finds one.

**VmmInitProofs**, for any number of cores and VMs, any sizes and affinities
(`VmmAssumption`). `AssignmentInv` is inductive together with the types
`AssignTypes`. Both loops change the assignment through one operator, `GiveCore`;
`GiveCoreKeeps` has the argument (a core without a VM joins a VM with room, and
becomes master exactly if it is the first), and `OthersKeep` covers every other
step. The other two theorems rest on barriers. `BarrierInv` says of `cpu_glb_sync`
and of every `vm->sync` what its count is in terms of where the cores are
(`Counted`, `Awaited`), by lemmas that are about any counting barrier
(`RoundArrival`, `RoundIsOver`), and `HasWaited` concludes that all its cores have
arrived. `PlaceInv` adds what a core has seen in each loop (`Preferred`,
`LoopsApart`, `LeftoverInv`), `BootInv` what the cores of a VM have done for it
before each barrier (`BringUp`, `Together`).

**ArmProofs**, on `Psci`, for any set of vCPUs, any number of calls and any firmware
(`PsciAssumption`). `PsciInv` follows a vCPU through its power states: OFF with a
caller that has written nothing yet, ON_PENDING while the caller is writing
(`Writing`), has sent (`Sent`) or the core is starting (`Starting`), ON with the
registers of the last request or with a context that holds them. All of it is
about a vCPU for which no two calls raced, which is the condition of the property.

**ArmProofs**, on `Vgic`, for any cores, interrupts and priorities, of which there is a
greatest each, any numbers of list registers, and any writes that have values of
their registers (`VgicAssumption`). The handlers are operators on one record, so the
proof is one lemma per operator: it takes a vGIC that is `Sane` to one that is,
from the fields of the record (`SetInt`, `SetLr`) over `vgic_remove_lr`,
`vgic_write_lr` and `vgic_add_lr` to the messages and the maintenance interrupt. What
`ActiveKeepsOwner` says about an active interrupt is not inductive alone: what is
moved out of a list register must be of the interrupt that `curr_lrs` names, an ended
one that is trapped must have an id (`vgic_handle_trapped_eoir`), and a pending SGI of GICv2 a
source, which is what `LrInv` adds. `IntInv` drops the condition that the interrupt is in
no list register: its state is empty while it is. Three operators
are recursive functions (a refill, the trapped ends, the walk over a spilled list).
`LoopFunction` shows that what such a definition chooses exists, by the least number of
rounds for which it would not, and `LoopStays` that what each round keeps
holds at the end.

`DevicePresentedOnce` and `PendingIsOnItsWay` need more: `Fit` adds `Quiet` and `Waits` to
`Sane`, as long as nothing has been spilled. `Quiet` says that three records of one
interrupt agree. A list register is tied to a physical interrupt exactly if its id is a
device's (`Tied`), and then the interrupt names that list register and the device
waits (`Named`), so two list registers with it are one. The state that is kept
with an interrupt is empty while a list register has it, and a state that is kept
of a device's interrupt is one the device waits for (`Kept`): what `vgic_remove_lr` takes back
can be put into a list register again. `Waits` says that an interrupt that is pending and
kept has no owner and that a target is asked; with the owner left out it is not
inductive, since a core that is asked does not take what another core owns. Inside
of a handler one interrupt is neither in a list register nor asked for: it is the exception
`x` of `Fit(s, x)`. `vgic_get_ownership` and `vgic_remove_lr` keep the exception,
`vgic_add_lr` and `vgic_route` end it (`FitAdd`, `FitRoute`). The hardest step is a ROUTE
message (`FitAsked`): a core that is no target any more drops it, and the
invariant holds because another target has a message of its own. These
lemmas have the same order as those of `Sane`, and the three loops are used again
with the other invariant (`TrappedEoirLoop`, `RefillLoop`, `EoiLoop`).

**VmDevicesProofs**, for any VMs, any number of entries, banks and slots of the
ring, and any configurations whose interrupts are numbers and whose ids and masks
have the bits of a stream id (`IommuAssumption`, `VmDevicesAssumption`).
`DmaConfined` says where a stream goes and nothing of how a master gets there;
`DeviceInv` adds that. `Shapes`: the list of steps of a master is in order, a step
that relies on its local variable stands behind the one that set it (`Chained`);
lists grow in the middle of a call, and `Prepend` shows that they stay so. `Contexts`:
the page table is in the context before the valid bit, in memory and in the copy
of the IOMMU, which may be fetched between any two steps. `BankInv`: a bank that is in
`ctx_id` of a VM, or in the hand of its master, is nobody else's, and the VM knows
of it once it is written. `EntryInv`: an entry in a master's hand is allocated and no
other master's; one that is written and not in a hand leads to the bank of a VM and
matches streams of that VM only. `EntryInv` is inductive only as long as the VMs share
no stream and no search was mistaken, which is how the condition of the property
was found. The hardest step is `CompatibleSme`: an entry that the search gives
up is one of its own VM (`IncludedIsOwn`), since the streams of an entry
that includes another's are shared otherwise.

Only model-checked. Out of the prover's reach: liveness under fairness and
ENABLED (`EveryCallReturns`, `AcceptedStartCompletes`, `RecoveryCompletes`,
`ArmedHangDetected`, `CompleteVmStarts`, `EveryVmIsBuilt`, `BroadcastsEnd`,
`EveryVmGetsItsDevices`, `PendingIsStarted`). `VmIsolation`, `MemoryAsConfigured` and
`GlobalGivenBack` of `Memory`, whose walks over page tables are recursive operators. Not proved: `EntriesDisjoint`,
`ViewsAgree` and `GuestReach` of `Mpu`, which need an invariant about every entry that a
region is cut into; and `DevicesServed` of `VmDevices`, which needs for each
stream that its entry was absorbed and never lost.

## 6. What is not modelled

Weak memory ordering. Boot and exception entry in assembly. Decoding of trapped
instructions and of emulated addresses, which is sequential and selects one of
the modelled operations; reads of emulated registers. Console output. The RFENCE
calls, which forward to the firmware. Platform tables and UART drivers.
`mem_color_hypervisor`, which copies the running hypervisor at boot, before cores
share anything but a barrier. Page tables of Armv8-A, which are reached through a
recursive entry instead of a fixed window. Several memory regions
(`mem_create_ppools`). Initialisation of the physical GIC and the saving of its
CPU interface around a power-down. The sending half of the IPC hypercall, which is
`cpu_send_msg` in a loop as in `sbi_ipi_handler`, and the two benchmark hypercalls
(HC_PLIC_INJECT, HC_DMA_WRITE).

## 7. Plan

What could come next.

1. `DevicesServed`: `EntryInv` with the other direction, that every stream of a VM
   is matched by an entry or is still in the list of its master.
2. `EntriesDisjoint` of `Mpu`, with `odd` as its condition.
3. A state machine of one interrupt (inactive, pending, active) as an abstract
   specification that `Vplic` and, until the first spill, `Vgic` implement.
4. `VmmInit` with the steps of `Memory` in place of `VmInitMemory`.
