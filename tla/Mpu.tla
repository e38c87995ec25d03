-------------------------------- MODULE Mpu --------------------------------
(***************************************************************************)
(* Memory protection on a platform without page tables: the MPU of each    *)
(* core, src/arch/armv8/armv8-r/mpu.c, and the address spaces on top of    *)
(* it, src/core/mpu/mem.c.                                                 *)
(*                                                                         *)
(* An address space is the hypervisor's on one core, or a VM's on all of   *)
(* its cores; it keeps the regions it has mapped (its vmpu).  All spaces   *)
(* of a core share its one MPU, whose entries may not overlap, so that a   *)
(* page of both a guest and the hypervisor is one entry with two           *)
(* permissions.  A mapping that other cores share is broadcast to them in  *)
(* messages, which they handle at a barrier or in the guest.               *)
(*                                                                         *)
(* A core's work is a list of calls (todo).  A call is one step: it        *)
(* changes the MPU of its own core and the space it has locked, and sends  *)
(* each other core at most one message for a region.  Addresses are        *)
(* numbers of pages.  The build is one of 32 bits, where mem_flags_t has   *)
(* no padding.                                                             *)
(***************************************************************************)
EXTENDS Integers, SequencesExt

CONSTANTS
    MPU_ENTRIES,                \* entries of an MPU (mpu_num_entries)
    VMPU_NUM_ENTRIES,           \* entries of a vmpu
    SHARED_REGION_POOL_SIZE,    \* nodes for broadcast regions
    NoVm,                       \* not a VM
    Configs                     \* configurations of the platform and of the VMs

ASSUME MpuAssumption ==
    /\ MPU_ENTRIES \in Nat /\ VMPU_NUM_ENTRIES \in Nat /\ SHARED_REGION_POOL_SIZE \in Nat
    /\ \A f \in Configs :
         /\ f.n \in Nat \ {0} /\ DOMAIN f.vmOf = 0..(f.n - 1)
         /\ \A c \in DOMAIN f.vmOf : f.vmOf[c] \in {NoVm} \cup DOMAIN f.img
         /\ NoVm \notin DOMAIN f.img

VARIABLES
    config,     \* the configuration
    mpu,        \* core -> entry -> its registers and what is kept of it
    vmpu,       \* space -> [valid: its regions, lost: entries left in MPE_S_INVALID]
    queue,      \* core -> messages it has not handled
    nodes,      \* nodes of shared_region_pool in use
    todo,       \* core -> calls it still makes
    phase,      \* core -> how far it is; at odd phases it waits at a barrier
    restarts,   \* VM -> how often it was restarted
    failed,     \* core -> it has stopped with ERROR
    odd         \* history: core -> what has happened to its MPU that the code is not made for

vars == <<config, mpu, vmpu, queue, nodes, todo, phase, restarts, failed, odd>>

N       == config.n             \* cores 0..N-1
VmOf    == config.vmOf          \* core -> its VM, or NoVm
Boot    == config.boot          \* core -> regions its boot code has mapped
Global  == config.global        \* regions CPU_MASTER maps for all cores: console, GIC
Alloc   == config.alloc         \* VM -> region of its struct vm
Regions == config.regions       \* VM -> its memory regions
Devs    == config.devs          \* VM -> its devices
Ipcs    == config.ipcs          \* VM -> its part of shared memory objects
Img     == config.img           \* VM -> [base, size, load] of its image
MaxRestarts == config.restarts  \* VM -> bound of its restarts

Cores  == 0..(N - 1)
VMs    == DOMAIN Img
Spaces == Cores \cup VMs
Mpids  == 1..MPU_ENTRIES
Cpus(v)   == {c \in Cores : VmOf[c] = v}
Master(v) == CHOOSE c \in Cpus(v) : \A d \in Cpus(v) : c <= d
AsPriv(s) == IF s \in Cores THEN "el2" ELSE "el1"

\* A region: base, size, the section, and flags: dev (device memory, execute never)
\* and el1 (PRBAR_EL1_BIT).  SEC_VM_ANY and SEC_HYP_GLOBAL are the same number.
GLOBAL == 0
HYP_VM == 3
Region(base, size, dev, el1, sec) ==
    [base |-> base, size |-> size, dev |-> dev, el1 |-> el1, sec |-> sec]
HypMem(base, size, sec) == Region(base, size, FALSE, FALSE, sec)
HypDev(base, size, sec) == Region(base, size, TRUE, FALSE, sec)
VmMem(base, size) == Region(base, size, FALSE, TRUE, GLOBAL)
VmDev(base, size) == Region(base, size, TRUE, TRUE, GLOBAL)

End(r)   == r.base + r.size
Pages(r) == r.base..(End(r) - 1)
mem_regions_overlap(r1, r2) == r1.base >= r2.base /\ End(r1) <= End(r2)
Meet(r1, r2) == r1.base < End(r2) /\ r2.base < End(r1)

-----------------------------------------------------------------------------
(* The MPU of a core, m.  An entry has registers base, size, dev and hw, the *)
(* bits for write, execute and EL1, and the permissions given to each        *)
(* privilege.  It is in the ordered list iff its size is not 0.              *)

Privs  == {"el1", "el2"}
NoPerms == [p \in Privs |-> {}]
mem_vmpu_entry_perms(r) == IF r.dev THEN {"R", "W"} ELSE {"R", "W", "X"}
FlagsHw(r) == [w |-> TRUE, x |-> ~r.dev, el1 |-> r.el1]
\* Mutant: the bit for EL1 stays set.
SetPermsKeepsEl1(perms) == [w |-> TRUE, x |-> TRUE, el1 |-> TRUE]
mpu_entry_set_perms(perms) ==
    [w |-> "W" \in perms.el1 \cup perms.el2, x |-> "X" \in perms.el1 \cup perms.el2,
     el1 |-> perms.el1 # {}]

Listed(m) == {i \in Mpids : m[i].size > 0}
Unused(m) == {i \in Mpids : ~m[i].used}
mpu_entry_allocate(m) == CHOOSE i \in Unused(m) : \A j \in Unused(m) : i <= j
FirstOf(m, S) == CHOOSE i \in S : \A j \in S : m[i].base <= m[j].base
LastOf(m, S)  == CHOOSE i \in S : \A j \in S : m[j].base <= m[i].base

\* What is kept of a free entry: its permissions.
mpu_entry_free(e) == [e EXCEPT !.used = FALSE, !.base = 0, !.size = 0, !.dev = FALSE,
                               !.hw = mpu_entry_set_perms(NoPerms)]
mpu_entry_set(e, base, end, dev, hw, perms) ==
    [e EXCEPT !.used = TRUE, !.base = base, !.size = end - base, !.dev = dev, !.hw = hw,
              !.perms = perms]

\* Mutant: the entry is not cut to the region.
MapInsideUncut(m, priv, r, o) ==
    LET perms == [m[o].perms EXCEPT ![priv] = mem_vmpu_entry_perms(r)]
        m1 == [m EXCEPT ![o].perms = perms, ![o].hw = mpu_entry_set_perms(perms)]
    IN  IF m[o].perms[priv] # {} \/ End(r) = End(m[o]) THEN [ok |-> TRUE, error |-> FALSE, m |-> m1]
        ELSE [ok |-> TRUE, error |-> FALSE,
              m |-> [m1 EXCEPT ![mpu_entry_allocate(m)] =
                        mpu_entry_set(@, End(r), End(m[o]), r.dev, m[o].hw, m[o].perms)]]

\* mpu_map if r is inside of entry o: it gets the permission too and is cut to r, and new
\* entries keep what is above and below.
MapInside(m, priv, r, o) ==
    LET e     == m[o]
        other == IF priv = "el1" THEN "el2" ELSE "el1"
        perms == [e.perms EXCEPT ![priv] = mem_vmpu_entry_perms(r)]
        below == r.base > e.base
        above == End(r) < End(e)
        rest  == Cardinality({k \in {1, 2} : (k = 1 /\ below) \/ (k = 2 /\ above)})
        Part(t, base, end) ==
            mpu_entry_set(t, base, end, e.dev, mpu_entry_set_perms(e.perms),
                          [t.perms EXCEPT ![other] = e.perms[other]])
        m1 == [m EXCEPT ![o] = mpu_entry_set(e, r.base, End(r), e.dev,
                                             mpu_entry_set_perms(perms), perms)]
        m2 == IF below
              THEN [m1 EXCEPT ![mpu_entry_allocate(m1)] = Part(@, e.base, r.base)] ELSE m1
        m3 == IF above
              THEN [m2 EXCEPT ![mpu_entry_allocate(m2)] = Part(@, End(r), End(e))] ELSE m2
    IN  IF \/ e.perms[priv] # {}
           \/ perms.el1 \cap {"R", "W"} = {"R"} /\ "W" \in perms.el2
           \/ ("X" \in perms.el1) # ("X" \in perms.el2)
           \/ r.dev # e.dev
           \/ Cardinality(Unused(m)) < rest
        THEN [ok |-> FALSE, error |-> FALSE, m |-> m]
        ELSE [ok |-> TRUE, error |-> FALSE, m |-> m3]

\* mpu_map if r is inside of no entry: it is merged with the entry before and the one
\* after if they end or begin where it does and grant the same, or gets a new entry.  If it
\* is merged with both the entry after is freed, with what is kept of it.
MapAlone(m, priv, r, before, after) ==
    LET perms == [NoPerms EXCEPT ![priv] = mem_vmpu_entry_perms(r)]
        Merges(i) == ~m[i].locked /\ m[i].dev = r.dev /\ m[i].perms = perms
        prev == {i \in before : i = LastOf(m, before) /\ Merges(i) /\ End(m[i]) = r.base}
        next == {i \in after : i = FirstOf(m, after) /\ Merges(i) /\ m[i].base = End(r)}
        base == IF prev # {} THEN m[CHOOSE i \in prev : TRUE].base ELSE r.base
        end  == IF next # {} THEN End(m[CHOOSE i \in next : TRUE]) ELSE End(r)
        m1   == IF prev # {} THEN [i \in Mpids |-> IF i \in next THEN mpu_entry_free(m[i])
                                                   ELSE m[i]]
                ELSE m
        mpid == CHOOSE i \in Mpids : IF prev # {} THEN i \in prev ELSE IF next # {} THEN i \in next
                                     ELSE i = mpu_entry_allocate(m)
    IN  IF prev = {} /\ next = {} /\ Unused(m) = {}
        THEN [ok |-> FALSE, error |-> TRUE, m |-> m]
        ELSE [ok |-> TRUE, error |-> FALSE,
              m |-> [m1 EXCEPT ![mpid] = mpu_entry_set(@, base, end, r.dev, FlagsHw(r),
                                                       [@.perms EXCEPT ![priv] = perms[priv]])]]

\* A region overlaps an entry for this code only if it is inside of it, so that one entry
\* is all there is to look for and the loop runs once.
mpu_map(m, priv, r) ==
    LET before == {i \in Listed(m) : m[i].base < End(r)}
        over   == {i \in before : mem_regions_overlap(r, m[i])}
    IN  IF over # {} THEN MapInside(m, priv, r, FirstOf(m, over))
        ELSE MapAlone(m, priv, r, before, Listed(m) \ before)

\* Mutant: an entry goes although the other privilege still has it.
UnmapFrees(m, priv, r) ==
    [i \in Mpids |->
        IF i \notin Listed(m) \/ m[i].perms[priv] = {} \/ ~mem_regions_overlap(m[i], r)
        THEN m[i] ELSE mpu_entry_free([m[i] EXCEPT !.perms = NoPerms])]

\* The entries inside of r lose the permission, and go if it was their only one.
mpu_unmap(m, priv, r) ==
    [i \in Mpids |->
        LET perms == [m[i].perms EXCEPT ![priv] = {}] IN
        IF i \notin Listed(m) \/ m[i].perms[priv] = {} \/ ~mem_regions_overlap(m[i], r)
        THEN m[i]
        ELSE IF perms = NoPerms THEN mpu_entry_free([m[i] EXCEPT !.perms = perms])
        ELSE [m[i] EXCEPT !.hw = mpu_entry_set_perms(perms), !.perms = perms]]

\* The entries the boot code has set are locked, and the hypervisor's.
mpu_init(c) ==
    [i \in Mpids |->
        LET off == [used |-> FALSE, locked |-> FALSE, base |-> 0, size |-> 0, dev |-> FALSE,
                    hw |-> mpu_entry_set_perms(NoPerms), perms |-> NoPerms]
            r   == Boot[c][i]
        IN  IF i > Len(Boot[c]) THEN off
            ELSE [mpu_entry_set(off, r.base, End(r), FALSE, FlagsHw(r),
                                [NoPerms EXCEPT !.el2 = {"R", "W", "X"}])
                  EXCEPT !.locked = TRUE]]

\* What mpu_map and mpu_unmap of r do that they are not made for.
\*   "partly": r overlaps an entry that it is not inside of, and is not seen to;
\*   "freed":  a merge has freed an entry, whose permissions are left;
\*   "flags":  a merge has given r's bits to an entry that had others;
\*   "left":   an entry with the permission is more than r, and keeps it.
MapOdd(m, priv, r) ==
    LET new == mpu_map(m, priv, r).m
        If(kind, b) == IF b THEN {kind} ELSE {}
    IN  UNION {If("partly", \E i \in Listed(m) : Meet(r, m[i]) /\ ~mem_regions_overlap(r, m[i])),
               If("freed", \E i \in Listed(m) : i \notin Listed(new)),
               If("flags", \E i \in Listed(m) : new[i].size > m[i].size /\ new[i].hw # m[i].hw)}
UnmapOdd(m, priv, r) ==
    {k \in {"left"} : \E i \in Listed(m) : /\ Meet(r, m[i]) /\ ~mem_regions_overlap(m[i], r)
                                          /\ m[i].perms[priv] # {}}

-----------------------------------------------------------------------------
(* Address spaces.  st is what a call of core c on space s has changed: the  *)
(* MPU m, the vmpu v, the messages out, in order, error, and odd.            *)

\* mem_vmpu_find_overlapping_region: at most one region holds the range.
Holding(v, base, size) ==
    {e \in v.valid : mem_regions_overlap([base |-> base, size |-> size], e)}
mem_vmpu_get_entry_by_addr(v, addr) == Holding(v, addr, 1)
HasEntry(v) == Cardinality(v.valid) + v.lost < VMPU_NUM_ENTRIES

vcpu(c) == IF phase[c] >= 3 THEN VmOf[c] ELSE NoVm

mem_section_shared_cpus(c, s, sec) ==
    IF s \in VMs THEN Cpus(vcpu(c))
    ELSE IF sec = GLOBAL THEN Cores
    ELSE IF sec = HYP_VM /\ vcpu(c) # NoVm THEN Cpus(vcpu(c))
    ELSE {}

mem_region_broadcast(c, s, r, op) ==
    LET to == SelectSeq([i \in 1..N |-> i - 1],
                        LAMBDA d : d # c /\ d \in mem_section_shared_cpus(c, s, r.sec))
        as == IF s \in VMs THEN s ELSE "HYP"
    IN  [i \in 1..Len(to) |-> [to |-> to[i], msg |-> [op |-> op, as |-> as, reg |-> r]]]

\* An entry is allocated and left invalid if the MPU does not take the region.
mem_vmpu_insert_region(st, c, s, r, broadcast) ==
    LET With(res) ==
            [m |-> res.m, error |-> st.error \/ res.error,
             odd |-> st.odd \cup MapOdd(st.m, AsPriv(s), r),
             v |-> IF res.ok THEN [st.v EXCEPT !.valid = @ \cup {r}]
                   ELSE [st.v EXCEPT !.lost = @ + 1],
             out |-> IF res.ok /\ broadcast
                     THEN st.out \o mem_region_broadcast(c, s, r, "insert") ELSE st.out]
    IN  IF HasEntry(st.v) THEN With(mpu_map(st.m, AsPriv(s), r)) ELSE st

mem_vmpu_remove_region(st, c, s, e) ==
    [st EXCEPT !.m = mpu_unmap(@, AsPriv(s), e), !.odd = @ \cup UnmapOdd(st.m, AsPriv(s), e),
               !.v.valid = @ \ {e},
               !.out = @ \o mem_region_broadcast(c, s, e, "remove")]

mem_map(st, c, s, r, broadcast) ==
    IF r.size = 0 \/ Holding(st.v, r.base, r.size) # {} THEN st
    ELSE mem_vmpu_insert_region(st, c, s, r, broadcast)

\* Mutant: the removal is broadcast before it is known that there is something to remove.
UnmapEchoes(st, c, s, base, size) ==
    LET e == CHOOSE e \in Holding(st.v, base, size) : TRUE
        r == HypMem(base, size, GLOBAL)
    IN  IF Holding(st.v, base, size) # {} THEN mem_vmpu_remove_region(st, c, s, e)
        ELSE [st EXCEPT !.out = mem_region_broadcast(c, s, r, "remove")]

\* The region that holds the range is removed, on every core that shares it whoever asks,
\* and what is above and below the range is mapped again.
mem_unmap_range(st, c, s, base, size) ==
    LET With(e) ==
            LET Top(t) == IF End(e) > base + size
                          THEN mem_vmpu_insert_region(t, c, s,
                                   [e EXCEPT !.base = base + size,
                                             !.size = End(e) - (base + size)], TRUE)
                          ELSE t
                Bottom(t) == IF base > e.base
                             THEN mem_vmpu_insert_region(t, c, s, [e EXCEPT !.size = base - e.base],
                                                         TRUE)
                             ELSE t
            IN  Bottom(Top(mem_vmpu_remove_region(st, c, s, e)))
    IN  IF Holding(st.v, base, size) = {} THEN st
        ELSE With(CHOOSE e \in Holding(st.v, base, size) : TRUE)

\* The whole region that holds the address, with its flags and its section.
mem_map_cpy(st, c, v, base) ==
    LET src == mem_vmpu_get_entry_by_addr(vmpu[v], base)
    IN  IF src = {} THEN [st EXCEPT !.error = TRUE]
        ELSE mem_map(st, c, c, CHOOSE r \in src : TRUE, TRUE)

mem_handle_broadcast_region(st, c, msg) ==
    CASE msg.as = "HYP" /\ msg.op = "insert" -> mem_map(st, c, c, msg.reg, FALSE)
      [] msg.as = "HYP" /\ msg.op = "remove" ->
            mem_unmap_range(st, c, c, msg.reg.base, msg.reg.size)
      [] msg.as # "HYP" /\ msg.as # vcpu(c) -> [st EXCEPT !.error = TRUE]
      [] msg.as = vcpu(c) /\ msg.op = "insert" ->
            [st EXCEPT !.m = mpu_map(@, "el1", msg.reg).m,
                       !.odd = @ \cup MapOdd(st.m, "el1", msg.reg),
                       !.error = mpu_map(st.m, "el1", msg.reg).error]
      [] OTHER -> [st EXCEPT !.m = mpu_unmap(@, "el1", msg.reg),
                             !.odd = @ \cup UnmapOdd(st.m, "el1", msg.reg)]
-----------------------------------------------------------------------------
(* What a core does: calls of mem.c made by the master of a VM, or a core.   *)

Map(s, r) == [op |-> "map", s |-> s, r |-> r]
Unmap(c, base, size) == [op |-> "unmap", s |-> c, base |-> base, size |-> size]
Maps(s, seq) == [i \in 1..Len(seq) |-> Map(s, seq[i])]

\* The image is copied from where it was loaded; both are mapped meanwhile.
vm_install_image(c, v) ==
    LET img == Img[v] IN
    IF img.base = img.load THEN <<>>
    ELSE <<Map(c, HypMem(img.load, img.size, GLOBAL)), [op |-> "cpy", v |-> v],
           Unmap(c, img.load, img.size), Unmap(c, img.base, img.size)>>

vm_init_mem_regions(c, v) ==
    FlattenSeq([i \in 1..Len(Regions[v]) |->
        <<Map(v, Regions[v][i])>>
        \o (IF mem_regions_overlap(Img[v], Regions[v][i]) THEN vm_install_image(c, v) ELSE <<>>)])

\* What core c does in a phase: mem_init and console_init, vmm_alloc_install_vm, and the
\* part of vm_init after the VM's cores have their vcpus.
Calls(c, ph) ==
    LET v == VmOf[c] IN
    CASE ph = 0 -> IF c = 0 THEN Maps(c, Global) ELSE <<>>
      [] ph = 2 -> <<Map(c, Alloc[v])>>
      [] ph = 4 -> IF c # Master(v) THEN <<>>
                   ELSE vm_init_mem_regions(c, v) \o Maps(v, Devs[v]) \o Maps(v, Ipcs[v])
      [] OTHER -> <<>>

GUEST == 6

Init ==
    /\ config \in Configs
    /\ mpu = [c \in Cores |-> mpu_init(c)]
    /\ vmpu = [s \in Spaces |-> [valid |-> IF s \in Cores THEN ToSet(Boot[s]) ELSE {},
                                 lost |-> 0]]
    /\ queue = [c \in Cores |-> <<>>]
    /\ nodes = 0
    /\ todo = [c \in Cores |-> Calls(c, 0)]
    /\ phase = [c \in Cores |-> 0]
    /\ restarts = [v \in VMs |-> 0]
    /\ failed = [c \in Cores |-> FALSE]
    /\ odd = [c \in Cores |-> {}]

Working(c) == ~failed[c] /\ todo[c] # <<>>
Done(c)    == ~failed[c] /\ todo[c] = <<>>

\* Call st of core c has run and its messages are sent, a node taken for each; without a
\* node the core stops.  freed is 1 if a node goes back at the end.
Returns(c, s, st, freed) ==
    LET room == SHARED_REGION_POOL_SIZE - nodes
        sent == SubSeq(st.out, 1, Min({room, Len(st.out)}))
        To(d) == SelectSeq(sent, LAMBDA x : x.to = d)
    IN  /\ mpu' = [mpu EXCEPT ![c] = st.m]
        /\ vmpu' = [vmpu EXCEPT ![s] = st.v]
        /\ queue' = [d \in Cores |-> queue[d] \o [i \in 1..Len(To(d)) |-> To(d)[i].msg]]
        /\ nodes' = nodes + Len(sent) - freed
        /\ failed' = [failed EXCEPT ![c] = st.error \/ room < Len(st.out)]
        /\ odd' = [odd EXCEPT ![c] = st.odd]

Before(c, s) ==
    [m |-> mpu[c], v |-> vmpu[s], out |-> <<>>, error |-> FALSE, odd |-> odd[c]]

\* A core that is not the master waits for install_info_ready.
InstallReady(c) ==
    phase[c] = 2 => \/ c = Master(VmOf[c]) \/ phase[Master(VmOf[c])] > 2
                    \/ todo[Master(VmOf[c])] = <<>>

MemMap(c) ==
    /\ Working(c) /\ Head(todo[c]).op = "map" /\ InstallReady(c)
    /\ LET t == Head(todo[c]) IN
       \E st \in {mem_map(Before(c, t.s), c, t.s, t.r, TRUE)} :
          Returns(c, t.s, st, 0)
    /\ todo' = [todo EXCEPT ![c] = Tail(@)]
    /\ UNCHANGED <<config, phase, restarts>>

MemUnmap(c) ==
    /\ Working(c) /\ Head(todo[c]).op = "unmap"
    /\ LET t == Head(todo[c]) IN
       \E st \in {mem_unmap_range(Before(c, t.s), c, t.s, t.base, t.size)} :
          Returns(c, t.s, st, 0)
    /\ todo' = [todo EXCEPT ![c] = Tail(@)]
    /\ UNCHANGED <<config, phase, restarts>>

MemMapCpy(c) ==
    /\ Working(c) /\ Head(todo[c]).op = "cpy"
    /\ \E st \in {mem_map_cpy(Before(c, c), c, Head(todo[c]).v, Img[Head(todo[c]).v].base)} :
          Returns(c, c, st, 0)
    /\ todo' = [todo EXCEPT ![c] = Tail(@)]
    /\ UNCHANGED <<config, phase, restarts>>

\* A message is taken at a barrier or in the guest, and handled.
GetMsg(c) ==
    /\ Done(c) /\ queue[c] # <<>> /\ (phase[c] % 2 = 1 \/ phase[c] = GUEST)
    /\ queue' = [queue EXCEPT ![c] = Tail(@)]
    /\ todo' = [todo EXCEPT ![c] = <<[op |-> "handle", msg |-> Head(queue[c])]>>]
    /\ UNCHANGED <<config, mpu, vmpu, nodes, phase, restarts, failed, odd>>

HandleMsg(c) ==
    /\ Working(c) /\ Head(todo[c]).op = "handle"
    /\ \E st \in {mem_handle_broadcast_region(Before(c, c), c, Head(todo[c]).msg)} :
          Returns(c, c, st, 1)
    /\ todo' = [todo EXCEPT ![c] = Tail(@)]
    /\ UNCHANGED <<config, phase, restarts>>

Arrive(c) ==
    /\ Done(c) /\ phase[c] \in {0, 2, 4}
    /\ phase' = [phase EXCEPT ![c] = @ + 1]
    /\ UNCHANGED <<config, mpu, vmpu, queue, nodes, todo, restarts, failed, odd>>

\* cpu_sync_and_clear_msgs returns: all are there and no message is left.
Pass(c) ==
    /\ Done(c) /\ phase[c] % 2 = 1 /\ queue[c] = <<>>
    /\ \A d \in (IF phase[c] = 1 THEN Cores ELSE Cpus(VmOf[c])) : phase[d] >= phase[c]
    /\ \E ph \in {IF VmOf[c] = NoVm THEN GUEST ELSE phase[c] + 1} :
          /\ phase' = [phase EXCEPT ![c] = ph]
          /\ todo' = [todo EXCEPT ![c] = Calls(c, ph)]
    /\ UNCHANGED <<config, mpu, vmpu, queue, nodes, restarts, failed, odd>>

\* The VM is restarted: its master installs the image again, while its other cores wait.
Restart(v) ==
    /\ restarts[v] < MaxRestarts[v]
    /\ Done(Master(v)) /\ \A c \in Cpus(v) : phase[c] = GUEST
    /\ restarts' = [restarts EXCEPT ![v] = @ + 1]
    /\ todo' = [todo EXCEPT ![Master(v)] = vm_install_image(Master(v), v)]
    /\ UNCHANGED <<config, mpu, vmpu, queue, nodes, phase, failed, odd>>

CoreStep(c) ==
    \/ MemMap(c) \/ MemUnmap(c) \/ MemMapCpy(c) \/ GetMsg(c) \/ HandleMsg(c)
    \/ Arrive(c) \/ Pass(c)

Next == (\E c \in Cores : CoreStep(c)) \/ (\E v \in VMs : Restart(v))

\* No core stops on its own: one that can make its next call, has a message to handle or
\* need not wait any longer, goes on.  Proceeds is what all calls of todo have in common.
Proceeds(c) ==
    c \in Cores /\ Working(c) /\ InstallReady(c) /\ todo' = [todo EXCEPT ![c] = Tail(@)]
Moves(c) == c \in Cores /\ (GetMsg(c) \/ Arrive(c) \/ Pass(c))

Spec ==
    /\ Init /\ [][Next]_vars
    /\ \A c \in UNION {DOMAIN f.vmOf : f \in Configs} : WF_todo(Proceeds(c)) /\ WF_vars(Moves(c))
-----------------------------------------------------------------------------
(* Properties. *)

\* The pages an MPU lets the guest, and the hypervisor, access.
El1Pages(m) == UNION {Pages(m[i]) : i \in {j \in Listed(m) : m[j].hw.el1}}
El2Pages(m) == UNION {Pages(m[i]) : i \in {j \in Listed(m) : m[j].perms.el2 # {}}}
PagesOf(s)  == UNION {Pages(r) : r \in vmpu[s].valid}
Quiet(c)    == Done(c) /\ queue[c] = <<>>
AllQuiet    == \A c \in Cores : Quiet(c)

TypeOK ==
    /\ \A c \in Cores : \A i \in Mpids : mpu[c][i].base \in Nat /\ mpu[c][i].size \in Nat
    /\ \A s \in Spaces : vmpu[s].lost \in Nat
    /\ nodes \in 0..SHARED_REGION_POOL_SIZE
    /\ phase \in [Cores -> 0..GUEST] /\ failed \in [Cores -> BOOLEAN]

\* The entries of an MPU do not overlap however regions are cut, merged and taken out
\* ("Armv8-R does not allow overlapping regions", mpu.c), until a region is mapped that
\* overlaps another in part, as one does whose image is a part of it and installed again.
\* An entry is allocated exactly if it is enabled, and then someone has a permission of it;
\* only a merge on both sides leaves permissions of an entry that is not.
EntriesDisjoint ==
    /\ TypeOK
    /\ \A c \in Cores : LET m == mpu[c] IN
        /\ "partly" \notin odd[c] =>
             \A i, j \in Listed(m) : i # j => Pages(m[i]) \cap Pages(m[j]) = {}
        /\ \A i \in Mpids : /\ m[i].used = (i \in Listed(m))
                            /\ m[i].used => m[i].perms # NoPerms
                            /\ "freed" \notin odd[c] /\ m[i].perms # NoPerms => m[i].used

\* Once a core has handled its messages its MPU grants what its spaces have mapped: to the
\* guest, whatever has happened, the pages of its VM, as memory or as device; and to the
\* hypervisor those of the core's space until one of two merged regions is unmapped or two
\* overlap in part.  No entry of a space was lost on the way and the cores agree on what
\* they share, until the former.
ViewsAgree ==
    /\ \A c \in Cores : Quiet(c) =>
        /\ odd[c] \cap {"partly", "left"} = {} => El2Pages(mpu[c]) = PagesOf(c)
        /\ "left" \notin odd[c] => vmpu[c].lost = 0
        /\ phase[c] = GUEST /\ VmOf[c] # NoVm =>
            /\ \A r \in vmpu[VmOf[c]].valid : \A p \in Pages(r) :
                 \E i \in Listed(mpu[c]) : /\ p \in Pages(mpu[c][i]) /\ mpu[c][i].dev = r.dev
                                           /\ mpu[c][i].hw.el1 /\ mpu[c][i].hw.x = ~r.dev
            /\ ToSet(Regions[VmOf[c]] \o Devs[VmOf[c]] \o Ipcs[VmOf[c]]) = vmpu[VmOf[c]].valid
    /\ AllQuiet => /\ nodes = 0
                   /\ \A c, d \in {x \in Cores : "left" \notin odd[x]} :
                        {r \in vmpu[c].valid : r.sec = GLOBAL} = {r \in vmpu[d].valid : r.sec = GLOBAL}

\* A guest reaches only memory of its own VM, and, as the region an image is copied to is
\* mapped on all cores with the flags of the VM, pages of that region of another VM, never
\* those of an image once it is installed; until a merge has given an entry the bits of
\* another region, or has freed one, which may later get the EL1 bit of the permissions
\* that were left.
ImgRegion(v) == UNION {Pages(r) : r \in {x \in ToSet(Regions[v]) : mem_regions_overlap(Img[v], x)}}
GuestReach ==
    \A c \in Cores : phase[c] = GUEST /\ VmOf[c] # NoVm =>
        LET others == VMs \ {VmOf[c]}
            more   == El1Pages(mpu[c]) \ PagesOf(VmOf[c])
        IN  /\ odd[c] \cap {"freed", "flags"} = {} =>
                 more \subseteq UNION {ImgRegion(v) : v \in others}
            /\ AllQuiet /\ "flags" \notin odd[c] =>
                 more \cap UNION {Pages(Img[v]) : v \in others} = {}

\* Every VM gets to run its guest, and the broadcasts, with the ones that their handling
\* causes, come to an end.
BroadcastsEnd == <>[](AllQuiet /\ \A c \in Cores : phase[c] = GUEST)
=============================================================================
