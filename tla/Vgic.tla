-------------------------------- MODULE Vgic --------------------------------
(***************************************************************************)
(* The virtual interrupt controller of an ARMv8 VM, src/arch/armv8/vgic.c  *)
(* with the parts of vgicv2.c and vgicv3.c, over the physical GIC (gic.c,  *)
(* gicv2.c, gicv3.c).  The build variable is the GIC version compiled in.  *)
(*                                                                         *)
(* vCPU c runs on core c.  The vGIC is one record g; a handler is an       *)
(* operator from such a record to the next one, and one step: it works     *)
(* under the lock of its interrupt, and the list registers belong to its   *)
(* core.  The list registers are read and changed by the guest as well, as *)
(* the GIC architecture says (Acknowledge, Eoi).  An interrupt's           *)
(* physical priority and its trigger mode are not kept, nor what a read of *)
(* a register returns: it changes nothing.                                 *)
(***************************************************************************)
EXTENDS Integers, Sequences, FiniteSets

CONSTANTS
    Cpus,       \* the cores of the VM, 0 is vCPU 0
    SGIs, PPIs, SPIs,   \* interrupt ids, in this order
    Hw,         \* ids assigned to the VM's devices (vgic_set_hw)
    LrCounts,   \* numbers of list registers of the cores that are followed
    Prios,      \* priorities the guest uses; the largest is GIC_LOWEST_PRIO
    Versions,   \* builds that are followed, of {"GICV2", "GICV3"}
    Writes,     \* register writes of the guest: <<register, id, value>>
    SgiWrites,  \* its writes of the SGI register: <<filter, target list>>
    MaxInputs   \* bound, for each of LrCounts: register writes and SGIs of the
                \* guest and interrupts without a device that are followed

\* reg_handler_info_table: the registers with a field per interrupt that is
\* kept here.
Registers == {"ISENABLER", "ICENABLER", "ISPENDR", "ICPENDR", "ISACTIVER", "ICACTIVER",
              "IPRIORITYR", "ITARGETSR", "IROUTER"}

ASSUME VgicAssumption ==
    /\ Cpus \subseteq Nat /\ 0 \in Cpus /\ \E c \in Cpus : \A d \in Cpus : d <= c
    /\ SGIs \cup PPIs \cup SPIs \subseteq Nat \ {0}
    /\ \A i \in SGIs, j \in PPIs \cup SPIs : i < j
    /\ \A i \in PPIs, j \in SPIs : i < j
    /\ \E i \in SGIs \cup PPIs \cup SPIs : \A j \in SGIs \cup PPIs \cup SPIs : j <= i
    /\ Hw \subseteq PPIs \cup SPIs
    /\ LrCounts \subseteq Nat \ {0}
    /\ Prios \subseteq Nat /\ \E p \in Prios : \A q \in Prios : q <= p
    /\ Versions \subseteq {"GICV2", "GICV3"}
    /\ \A w \in Writes : /\ w[1] \in Registers /\ w[2] \in SGIs \cup PPIs \cup SPIs
                         /\ w[1] = "IPRIORITYR" => w[3] \in Prios
                         /\ w[1] \in {"ITARGETSR", "IROUTER"} => w[3] \subseteq Cpus
    /\ SgiWrites \subseteq (0..3) \X SUBSET Cpus
    /\ MaxInputs \in [LrCounts -> Nat]

VARIABLES
    build,      \* GIC_VERSION
    NUM_LRS,    \* number of list registers, read at boot
    g,          \* the vGIC, its list registers and the physical GIC
    serving,    \* guest: acknowledged on the core and not deactivated
    inputs      \* number of inputs so far

platform == <<build, NUM_LRS>>
vars == <<build, NUM_LRS, g, serving, inputs>>

Ids   == SGIs \cup PPIs \cup SPIs
Priv  == SGIs \cup PPIs
Lrs   == 1..NUM_LRS
VM    == -1                     \* in place of a core: the distributor's
None  == -2                     \* no owner, no list node, no source
Lowest == CHOOSE p \in Prios : \A q \in Prios : q <= p

\* Private interrupts are banked: a key is the bank and the id.
Key(c, i) == <<IF i \in Priv THEN c ELSE VM, i>>
Keys == {Key(c, i) : c \in Cpus, i \in Ids}
Nil  == <<None, None>>
V2   == build = "GICV2"

States == SUBSET {"P", "A"}     \* INV, PEND, ACT, PENDACT
EmptyLr == [id |-> 0, state |-> {}, prio |-> 0, hw |-> FALSE, eoi |-> FALSE,
            cpuid |-> None]
Msgs == [ev : {"ENABLE"}] \cup [ev : {"ROUTE"}, id : Ids]
        \cup [ev : {"INJECT"}, id : SGIs, val : Cpus]
        \cup [ev : {"SET_REG"}, id : Ids, w : Writes \cup {<<"ISPENDR", i, 1>> : i \in Ids}]

-----------------------------------------------------------------------------
(* The list registers, as the hardware presents them. *)

vgic_int_is_hw(k) == k[2] \notin SGIs /\ k[2] \in Hw

\* The list registers that are free, and those whose end was trapped.
Elrsr(s, c) == {n \in Lrs : s.lr[c][n].state = {} /\ (s.lr[c][n].hw \/ ~s.lr[c][n].eoi)}
Eisr(s, c)  == {n \in Lrs : s.lr[c][n].state = {} /\ ~s.lr[c][n].hw /\ s.lr[c][n].eoi}
Lowest1(S)  == CHOOSE n \in S : \A m \in S : n <= m

\* The list register that holds the interrupt, 0 for none (gich_get_lr).
gich_get_lr(s, c, k) ==
    LET r == s.int[k] IN
    IF /\ r.in_lr /\ r.owner = c
       /\ s.lr[c][r.lr].id = k[2] /\ s.lr[c][r.lr].state # {}
    THEN r.lr ELSE 0

vgic_get_state(s, c, k) ==
    (IF gich_get_lr(s, c, k) # 0 THEN s.lr[c][s.int[k].lr].state ELSE s.int[k].state)
    \cup IF V2 /\ k[2] \in SGIs /\ s.int[k].sgiPend # {} THEN {"P"} ELSE {}

-----------------------------------------------------------------------------
(* Ownership. *)

vgic_get_ownership(s, c, k) ==
    IF s.int[k].owner = None THEN [s EXCEPT !.int[k].owner = c] ELSE s
vgic_owns(s, c, k) == s.int[k].owner = c

\* Mutant: an active interrupt is given up as well.
YieldsActive(s, c, k) ==
    IF (V2 /\ k[2] \in Priv) \/ ~vgic_owns(s, c, k) \/ s.int[k].in_lr
    THEN s ELSE [s EXCEPT !.int[k].owner = None]

vgic_yield_ownership(s, c, k) ==
    IF \/ V2 /\ k[2] \in Priv
       \/ ~vgic_owns(s, c, k) \/ s.int[k].in_lr
       \/ "A" \in vgic_get_state(s, c, k)
    THEN s ELSE [s EXCEPT !.int[k].owner = None]

vgic_send_sgi_msg(s, targets, m) ==
    [s EXCEPT !.msg = [c \in Cpus |-> IF c \in targets THEN Append(@[c], m) ELSE @[c]]]

-----------------------------------------------------------------------------
(* The lists of spilled interrupts, one of the VM and one of every vCPU:   *)
(* a node is linked through int[k].next.                                   *)

Spilled(s, l) ==
    LET f[n \in 0..Cardinality(Keys)] ==
            IF n = 0 THEN {s.list[l].head} \ {Nil}
            ELSE f[n - 1] \cup ({s.int[k].next : k \in f[n - 1]} \ {Nil})
    IN f[Cardinality(Keys)]

vgic_add_spilled(s, c, k) ==
    LET l == IF k[2] \in Priv THEN c ELSE VM
        t == s.list[l].tail
        s1 == [s EXCEPT !.int[k].next = Nil]
        s2 == IF t = Nil THEN s1 ELSE [s1 EXCEPT !.int[t].next = k]
    IN [s2 EXCEPT !.list[l].tail = k,
                  !.list[l].head = IF @ = Nil THEN k ELSE @,
                  !.hcr[c].np = TRUE,
                  !.spilt = TRUE]

list_rm(s, l, k) ==
    LET prev == {p \in Spilled(s, l) : s.int[p].next = k}
        s1 == IF s.list[l].head = k
              THEN [s EXCEPT !.list[l].head = s.int[k].next]
              ELSE [s EXCEPT !.int = [p \in Keys |-> IF p \in prev
                                        THEN [s.int[p] EXCEPT !.next = s.int[k].next]
                                        ELSE s.int[p]]]
    IN IF s1.list[l].head = Nil THEN [s1 EXCEPT !.list[l].tail = Nil] ELSE s1

-----------------------------------------------------------------------------
(* Moving interrupts in and out of list registers. *)

\* Mutant: the list register is read but not cleared.
LeavesLr(s, c, k) ==
    LET n == gich_get_lr(s, c, k) IN
    IF ~vgic_owns(s, c, k) \/ ~s.int[k].in_lr THEN s
    ELSE [s EXCEPT !.int[k].in_lr = FALSE,
                   !.int[k].state = IF n = 0 THEN @ ELSE s.lr[c][n].state]

vgic_remove_lr(s, c, k) ==
    LET n == gich_get_lr(s, c, k)
        v == s.lr[c][n]
        r == s.int[k]
        h == s.hcr[c]
    IN IF ~vgic_owns(s, c, k) \/ ~s.int[k].in_lr THEN s
       ELSE IF n = 0 THEN [s EXCEPT !.int[k].in_lr = FALSE]
       ELSE [s EXCEPT
               !.int[k] = [r EXCEPT
                             !.in_lr = FALSE, !.state = v.state,
                             !.sgiAct = IF V2 /\ k[2] \in SGIs /\ "A" \in v.state
                                        THEN v.cpuid ELSE @,
                             !.sgiPend = IF V2 /\ k[2] \in SGIs /\ v.state = {"P"}
                                         THEN @ \cup {v.cpuid} ELSE @],
               !.lr[c][n] = EmptyLr,
               !.hcr[c] = [h EXCEPT !.np = @ \/ ("P" \in v.state /\ r.enabled), !.u = TRUE]]

\* The interrupt that was in the register before, if it is not private, has
\* left it.
ForgetPrevious(s, c, k, n) ==
    LET p == Key(c, s.curr[c][n]) IN
    IF /\ s.curr[c][n] \in SPIs \ {k[2]}
       /\ vgic_owns(s, c, p) /\ s.int[p].in_lr /\ s.int[p].lr = n
    THEN vgic_yield_ownership([s EXCEPT !.int[p].in_lr = FALSE], c, p)
    ELSE s

\* The state bits of the list register; src is the source of a GICv2 SGI.
LrState(k, state, src) ==
    IF vgic_int_is_hw(k) THEN IF state = {"P", "A"} THEN {"A"} ELSE state
    ELSE IF ~(V2 /\ k[2] \in SGIs) THEN state
    ELSE IF "A" \in state THEN {"A"} ELSE IF src # None THEN {"P"} ELSE {}

Place(s, c, k, n, v) ==
    [s EXCEPT !.lr[c][n] = v, !.curr[c][n] = k[2],
              !.int[k] = [s.int[k] EXCEPT !.state = {}, !.in_lr = TRUE, !.lr = n]]

vgic_write_lr(s0, c, k, n) ==
    LET s     == ForgetPrevious(s0, c, k, n)
        state == vgic_get_state(s, c, k)
        pend  == s.int[k].sgiPend
        src   == IF pend = {} THEN None ELSE CHOOSE x \in pend : \A y \in pend : y <= x
        sgi   == V2 /\ k[2] \in SGIs
        rest  == IF sgi /\ "A" \notin state THEN pend \ {src} ELSE pend
        v == [id    |-> k[2],
              prio  |-> s.int[k].prio,
              hw    |-> vgic_int_is_hw(k),
              state |-> LrState(k, state, src),
              cpuid |-> IF ~sgi THEN None
                        ELSE IF "A" \in state THEN s.int[k].sgiAct ELSE src,
              eoi   |-> IF sgi THEN rest # {} ELSE ~vgic_int_is_hw(k) /\ k[2] \in SPIs]
    IN Place([s EXCEPT !.int[k].sgiPend = rest], c, k, n, v)

vgic_spill_lr(s, c, n) ==
    LET k == Key(c, s.lr[c][n].id)
    IN vgic_yield_ownership(vgic_add_spilled(vgic_remove_lr(s, c, k), c, k), c, k)

\* Interrupt a is less urgent than b: a pair of priority and id.
Below(a, b) == a[1] > b[1] \/ (a[1] = b[1] /\ a[2] > b[2])

\* With no free register the least urgent one is given up, if it is less
\* urgent than the interrupt: of the pending ones if there are several, of the
\* active ones otherwise.  0 for none.
Victim(s, c, k) ==
    LET U(n) == <<s.lr[c][n].prio, s.lr[c][n].id>>
        act  == {n \in Lrs : "A" \in s.lr[c][n].state}
        pend == {n \in Lrs : s.lr[c][n].state = {"P"}}
        from == IF Cardinality(pend) > 1 THEN pend ELSE act
        less == {n \in from : Below(U(n), <<s.int[k].prio, k[2]>>)}
    IN IF less = {} THEN 0 ELSE CHOOSE n \in less : \A m \in less : ~Below(U(m), U(n))

vgic_add_lr(s, c, k) ==
    LET free == Elrsr(s, c)
        vic  == Victim(s, c, k)
    IN IF ~s.int[k].enabled \/ s.int[k].in_lr THEN s
       ELSE IF free # {} THEN vgic_write_lr(s, c, k, Lowest1(free))
       ELSE IF vic # 0 THEN vgic_write_lr(vgic_spill_lr(s, c, vic), c, k, vic)
       ELSE vgic_add_spilled(s, c, k)

-----------------------------------------------------------------------------
(* Targets.  tgt is interrupt->targets of GICv2, and of GICv3 the core of  *)
(* phys.route, {} if it is invalid; irm is the broadcast bit of the route. *)

vgic_int_vcpu_is_target(s, c, k) ==
    IF k[2] \in Priv THEN V2 \/ k[1] = c ELSE c \in s.int[k].tgt \/ s.int[k].irm

\* Mutant: asked of the core that routes and of the others at once.
SelfAndOtherTarget(s, c, k) ==
    k[2] \in SPIs /\ c \in s.int[k].tgt /\ s.int[k].tgt \ {c} # {}

HasOtherTargetV2(s, c, k) == k[2] \in SPIs /\ s.int[k].tgt \ {c} # {}

\* phys.route shares its place with the redistributor of a private interrupt.
HasOtherTargetV3(s, c, k) ==
    k[2] \in Priv \/ s.int[k].irm \/ s.int[k].tgt \notin {{c}, {}}

PtargetMaskV3(s, c, k) ==
    IF k[2] \in Priv THEN {k[1]} ELSE IF s.int[k].irm THEN Cpus \ {c} ELSE s.int[k].tgt

vgicd_set_trgt(r, k, val) == IF V2 /\ k[2] \in SPIs THEN [r EXCEPT !.tgt = val] ELSE r

\* The value is the set of cores routed to, all for a broadcast: its physical
\* route is the core that wrote it.
vgic_int_set_route(r, c, k, val) ==
    IF V2 \/ k[2] \in Priv THEN r
    ELSE [r EXCEPT !.irm = (val = Cpus), !.tgt = IF val = Cpus THEN {c} ELSE val]

vgic_route(s, c, k) ==
    LET s1 == IF vgic_int_vcpu_is_target(s, c, k) THEN vgic_add_lr(s, c, k) ELSE s IN
    IF s.int[k].state = {} \/ ~s.int[k].enabled THEN s
    ELSE IF s1.int[k].in_lr \/ ~(IF V2 THEN HasOtherTargetV2(s1, c, k)
                                        ELSE HasOtherTargetV3(s1, c, k)) THEN s1
    ELSE vgic_send_sgi_msg(vgic_yield_ownership(s1, c, k),
              (IF V2 THEN s1.int[k].tgt ELSE PtargetMaskV3(s1, c, k)) \ {c},
              [ev |-> "ROUTE", id |-> k[2]])

-----------------------------------------------------------------------------
(* The fields a register write changes, and the physical GIC after it. *)

UpdateField(s, c, k, reg, val) ==
    LET r == s.int[k]
        With(P, on) == [r EXCEPT !.state = IF on THEN @ \cup {P} ELSE @ \ {P}]
    IN CASE reg = "ISENABLER" /\ val = 1 /\ ~(V2 /\ k[2] \in SGIs) -> [r EXCEPT !.enabled = TRUE]
         [] reg = "ICENABLER" /\ val = 1 /\ ~(V2 /\ k[2] \in SGIs) -> [r EXCEPT !.enabled = FALSE]
         [] reg = "ISPENDR" /\ val = 1 /\ ~(V2 /\ k[2] \in SGIs) -> With("P", TRUE)
         [] reg = "ICPENDR" /\ val = 1 /\ ~(V2 /\ k[2] \in SGIs) -> With("P", FALSE)
         [] reg = "ISACTIVER" /\ val = 1 -> With("A", TRUE)
         [] reg = "ICACTIVER" /\ val = 1 -> With("A", FALSE)
         [] reg = "IPRIORITYR" -> [r EXCEPT !.prio = val]
         [] reg = "ITARGETSR" -> vgicd_set_trgt(r, k, val)
         [] reg = "IROUTER" -> vgic_int_set_route(r, c, k, val)
         [] OTHER -> r

\* gicd_set_act and gicd_set_pend, of a private interrupt gicr_set_act and
\* gicr_set_pend; and so on for the enable bit and the target.
PhysSetState(s, k, st)  == [s EXCEPT !.phys[k].state = st]
gic_set_enable(s, k, en) == [s EXCEPT !.phys[k].enabled = en]
PhysSetTarget(s, k, t)  == [s EXCEPT !.phys[k].tgt = t]

\* A pending interrupt is shown to the physical GIC as active: the guest's
\* deactivation then reaches the device's interrupt.
vgic_int_state_hw(s, k) ==
    PhysSetState(s, k, IF s.int[k].state = {"P"} THEN {"A"} ELSE s.int[k].state)

UpdateHw(s, k, reg) ==
    CASE reg \in {"ISENABLER", "ICENABLER"} -> gic_set_enable(s, k, s.int[k].enabled)
      [] reg \in {"ISPENDR", "ICPENDR", "ISACTIVER", "ICACTIVER"} -> vgic_int_state_hw(s, k)
      [] reg \in {"ITARGETSR", "IROUTER"} -> PhysSetTarget(s, k, s.int[k].tgt)
      [] OTHER -> s

vgic_int_set_field(s0, c, k, w) ==
    LET s  == vgic_remove_lr(vgic_get_ownership(s0, c, k), c, k)
        r  == UpdateField(s, c, k, w[1], w[3])
        s1 == [s EXCEPT !.int[k] = r]
        s2 == IF r # s.int[k] /\ vgic_int_is_hw(k) THEN UpdateHw(s1, k, w[1]) ELSE s1
    IN IF s0.int[k].owner \in {None, c}
       THEN vgic_yield_ownership(vgic_route(s2, c, k), c, k)
       ELSE vgic_send_sgi_msg(s0, {s0.int[k].owner}, [ev |-> "SET_REG", id |-> k[2], w |-> w])

-----------------------------------------------------------------------------
(* Injection. *)

vgic_inject_hw(s, c, k) ==
    vgic_add_lr([s EXCEPT !.int[k].owner = c, !.int[k].state = {"P"}, !.int[k].in_lr = FALSE], c, k)

vgic_inject_sgi(s0, c, k, source) ==
    LET s == vgic_remove_lr(s0, c, k) IN
    IF source \in s.int[k].sgiPend THEN s
    ELSE vgic_add_lr([s EXCEPT !.int[k].sgiPend = @ \cup {source}, !.int[k].state = @ \cup {"P"}],
               c, k)

vgic_inject(s, c, k, source) ==
    IF vgic_int_is_hw(k) THEN vgic_inject_hw(s, c, k)
    ELSE IF V2 /\ k[2] \in SGIs THEN vgic_inject_sgi(s, c, k, source)
    ELSE vgic_int_set_field(s, c, k, <<"ISPENDR", k[2], 1>>)

vgic_update_enable(s, c) == [s EXCEPT !.hcr[c].en = s.ctlr]

\* vgic_ipi_handler.  A SET_REG message has no redistributor id: the private
\* interrupt it names is that of vCPU 0.
vgic_ipi_handler(s, c, m) ==
    CASE m.ev = "ENABLE" -> vgic_update_enable(s, c)
      [] m.ev = "ROUTE" ->
           LET k  == Key(c, m.id)
               s1 == vgic_get_ownership(s, c, k)
           IN IF ~vgic_owns(s1, c, k) THEN s
              ELSE vgic_yield_ownership(IF vgic_int_vcpu_is_target(s1, c, k)
                                        THEN vgic_add_lr(s1, c, k) ELSE s1, c, k)
      [] m.ev = "INJECT"  -> vgic_inject(s, c, Key(c, m.id), m.val)
      [] m.ev = "SET_REG" -> vgic_int_set_field(s, c, Key(0, m.id), m.w)

-----------------------------------------------------------------------------
(* The maintenance interrupt. *)

\* The most urgent spilled interrupt whose state is one of flags.
vgic_highest_prio_spilled(s, c, flags) ==
    LET Q == {k \in Spilled(s, c) \cup Spilled(s, VM) : vgic_get_state(s, c, k) \cap flags # {}}
        U(k) == <<s.int[k].prio, k[2]>>
    IN IF Q = {} THEN Nil ELSE CHOOSE k \in Q : \A j \in Q \ {k} : ~Below(U(k), U(j))

\* What vgic_refill_lrs leaves; blocked if it waits for the owner of a spilled
\* interrupt to give it up.
vgic_refill_lrs(s, c, np) ==
    LET Step(p) ==
            LET k == vgic_highest_prio_spilled(p.s, c, p.flags)
                o == vgic_get_ownership(p.s, c, k)
                l == IF k[2] \in Priv THEN c ELSE VM
            IN IF p.done \/ Elrsr(p.s, c) = {} THEN [p EXCEPT !.done = TRUE]
               ELSE IF k = Nil
               THEN [p EXCEPT !.done = TRUE,
                              !.s.hcr[c] = [p.s.hcr[c] EXCEPT !.np = FALSE, !.u = FALSE]]
               ELSE IF ~vgic_owns(o, c, k) THEN [p EXCEPT !.done = TRUE, !.blocked = TRUE]
               ELSE [p EXCEPT !.s = vgic_write_lr(list_rm(o, l, k), c, k, Lowest1(Elrsr(p.s, c))),
                              !.flags = {"A", "P"}]
        f[n \in 0..NUM_LRS + 1] ==
            IF n = 0 THEN [s |-> s, flags |-> IF np THEN {"P"} ELSE {"A", "P"},
                           done |-> FALSE, blocked |-> FALSE]
            ELSE Step(f[n - 1])
    IN f[NUM_LRS + 1]

\* The end of an interrupt that was in no list register: the most urgent
\* active one that is spilled.
vgic_eoir_highest_spilled_active(s, c) ==
    LET k  == vgic_highest_prio_spilled(s, c, {"A"})
        s1 == vgic_get_ownership(s, c, k)
        s2 == [s1 EXCEPT !.int[k].state = @ \ {"A"}]
    IN IF k = Nil \/ ~vgic_owns(s1, c, k) THEN s
       ELSE IF vgic_int_is_hw(k) THEN PhysSetState(s2, k, s2.phys[k].state \ {"A"})
       ELSE IF "P" \in s2.int[k].state THEN vgic_add_lr(s2, c, k) ELSE s2

vgic_handle_trapped_eoir(s, c) ==
    LET Step(t) ==
            LET n  == Lowest1(Eisr(t, c))
                k  == Key(c, t.lr[c][n].id)
                t1 == [t EXCEPT !.lr[c][n] = EmptyLr, !.int[k].in_lr = FALSE]
            IN IF Eisr(t, c) = {} THEN t
               ELSE IF k[2] \in SGIs THEN vgic_add_lr(t1, c, k) ELSE vgic_yield_ownership(t1, c, k)
        f[n \in 0..NUM_LRS] == IF n = 0 THEN s ELSE Step(f[n - 1])
    IN f[NUM_LRS]

\* The maintenance status: why the interrupt is raised.
Misr(s, c) ==
    {x \in {"EOI", "NP", "U", "LRENP"} :
        /\ s.hcr[c].en
        /\ CASE x = "EOI"   -> Eisr(s, c) # {}
             [] x = "NP"    -> s.hcr[c].np /\ \A n \in Lrs : "P" \notin s.lr[c][n].state
             [] x = "U"     -> s.hcr[c].u
                               /\ Cardinality({n \in Lrs : s.lr[c][n].state # {}}) <= 1
             [] x = "LRENP" -> s.hcr[c].eoicount > 0}

-----------------------------------------------------------------------------
(* Steps. *)

\* vgic_cpu_init and vgic_init, and after them the guest's driver: the
\* interrupts are enabled, those that are not private at vCPU 0.
IntInit(k) ==
    [owner |-> IF V2 /\ k[1] # VM THEN k[1] ELSE None, state |-> {}, prio |-> Lowest,
     lr |-> 1, in_lr |-> FALSE, enabled |-> TRUE, tgt |-> IF k[1] = VM THEN {0} ELSE {},
     irm |-> FALSE, sgiPend |-> {}, sgiAct |-> None, next |-> Nil]

PhysInit(k) == [state |-> {}, enabled |-> TRUE, tgt |-> IF k[1] = VM THEN {0} ELSE {k[1]}]

Init ==
    /\ build \in Versions /\ NUM_LRS \in LrCounts
    /\ g = [int  |-> [k \in Keys |-> IntInit(k)],
            lr   |-> [c \in Cpus |-> [n \in Lrs |-> EmptyLr]],
            curr |-> [c \in Cpus |-> [n \in Lrs |-> 0]],
            hcr  |-> [c \in Cpus |-> [en |-> TRUE, np |-> FALSE, u |-> FALSE, eoicount |-> 0]],
            list |-> [l \in Cpus \cup {VM} |-> [head |-> Nil, tail |-> Nil]],
            msg  |-> [c \in Cpus |-> <<>>],
            ctlr |-> TRUE,
            spilt |-> FALSE,    \* history: an interrupt has been spilled
            phys |-> [k \in {k \in Keys : vgic_int_is_hw(k)} |-> PhysInit(k)]]
    /\ serving = [c \in Cpus |-> {}]
    /\ inputs = 0

Input == inputs < MaxInputs[NUM_LRS] /\ inputs' = inputs + 1

\* The interrupts of a redistributor are reached in its frame, with GICv2 in
\* the distributor, banked.  vgicr_emul_handler has wrong handlers for the
\* active registers, and the interrupt those compute is not a private one.
PrivateFrame(c, d, w) ==
    w[2] \in Priv => IF V2 THEN d = c ELSE w[1] \notin {"ISACTIVER", "ICACTIVER"}

\* A register with a field per interrupt: one of the fields that are written.
\* IROUTER is a register per interrupt, of the distributor only.
vgic_emul_generic_access(c, d, w) == vgic_int_set_field(g, c, Key(d, w[2]), w)
vgicd_emul_router_access(c, w) == vgic_int_set_field(g, c, Key(c, w[2]), w)

\* A register of the other version: what is written to it is ignored (vgic_emul_razwi).
RazWi == IF V2 THEN "IROUTER" ELSE "ITARGETSR"

\* vgicd_emul_handler and vgicr_emul_handler, of a write that is not ignored.
vgicd_emul_handler(c, d, w) ==
    /\ Input
    /\ w[1] # RazWi
    /\ w[2] \in SPIs => d = c
    /\ PrivateFrame(c, d, w)
    /\ g' = IF w[1] = "IROUTER" THEN vgicd_emul_router_access(c, w)
            ELSE vgic_emul_generic_access(c, d, w)
    /\ UNCHANGED <<platform, serving>>

\* vgicd_emul_misc_access of CTLR.
vgicd_emul_misc_access(c, on) ==
    /\ Input
    /\ g.ctlr # on
    /\ g' = vgic_send_sgi_msg(vgic_update_enable([g EXCEPT !.ctlr = on], c), Cpus \ {c},
                              [ev |-> "ENABLE"])
    /\ UNCHANGED <<platform, serving>>

\* The cores a write of GICD_SGIR or of ICC_SGI1R names.
SgiTargetsV2(c, filter, list) ==
    CASE filter = 0 -> list [] filter = 1 -> Cpus \ {c} [] filter = 2 -> {c} [] filter = 3 -> {}
SgiTargetsV3(c, filter, list) == IF filter = 1 THEN Cpus \ {c} ELSE list

vgicd_emul_sgiregs_access(c, w, i) ==
    /\ Input
    /\ g' = vgic_send_sgi_msg(g, IF V2 THEN SgiTargetsV2(c, w[1], w[2])
                                 ELSE SgiTargetsV3(c, w[1], w[2]),
                 [ev |-> "INJECT", id |-> i, val |-> c])
    /\ UNCHANGED <<platform, serving>>

\* The hypervisor injects an interrupt without a device (ipc_notify).
InjectVirq(c, i) ==
    /\ Input
    /\ g' = vgic_inject(g, c, Key(c, i), 0)
    /\ UNCHANGED <<platform, serving>>

Device(k) ==
    /\ "P" \notin g.phys[k].state
    /\ g' = [g EXCEPT !.phys[k].state = @ \cup {"P"}]
    /\ UNCHANGED <<platform, serving, inputs>>

\* gic_handle of an interrupt of the VM: acknowledged, injected, and left
\* active until the guest deactivates it.
gic_handle(c, k) ==
    /\ g.phys[k].state = {"P"} /\ g.phys[k].enabled /\ c \in g.phys[k].tgt
    /\ g' = vgic_inject_hw([g EXCEPT !.phys[k].state = {"A"}], c, k)
    /\ UNCHANGED <<platform, serving, inputs>>

\* gic_handle of the inter-processor interrupt: one of its messages.
HandleMsg(c) ==
    /\ g.msg[c] # <<>>
    /\ g' = vgic_ipi_handler([g EXCEPT !.msg[c] = Tail(@)], c, Head(g.msg[c]))
    /\ UNCHANGED <<platform, serving, inputs>>

\* gic_handle of the maintenance interrupt, gic_maintenance_handler.
gic_maintenance_handler(c) ==
    LET misr == Misr(g, c)
        s1 == IF "EOI" \in misr THEN vgic_handle_trapped_eoir(g, c) ELSE g
        p  == vgic_refill_lrs(s1, c, "NP" \in misr)
        s2 == IF misr \cap {"NP", "U"} # {} THEN p.s ELSE s1
        f[n \in 0..s2.hcr[c].eoicount] ==
            IF n = 0 THEN s2 ELSE vgic_eoir_highest_spilled_active(f[n - 1], c)
    IN /\ misr # {}
       /\ misr \cap {"NP", "U"} # {} => ~p.blocked
       /\ g' = IF "LRENP" \in misr
               THEN [f[s2.hcr[c].eoicount] EXCEPT !.hcr[c].eoicount = 0] ELSE s2
       /\ UNCHANGED <<platform, serving, inputs>>

\* The guest acknowledges the most urgent pending interrupt.
Acknowledge(c, n) ==
    LET pend == {m \in Lrs : g.lr[c][m].state = {"P"}}
        U(m) == <<g.lr[c][m].prio, g.lr[c][m].id>>
    IN /\ g.hcr[c].en /\ n \in pend
       /\ \A m \in pend : ~Below(U(n), U(m))
       /\ g' = [g EXCEPT !.lr[c][n].state = {"A"}]
       /\ serving' = [serving EXCEPT ![c] = @ \cup {g.lr[c][n].id}]
       /\ UNCHANGED <<platform, inputs>>

\* The guest ends and deactivates an interrupt it serves.
Eoi(c, i) ==
    LET at == {n \in Lrs : g.lr[c][n].id = i /\ "A" \in g.lr[c][n].state}
        k  == Key(c, i)
    IN /\ g.hcr[c].en /\ i \in serving[c]
       /\ IF at = {} THEN g' = [g EXCEPT !.hcr[c].eoicount = @ + 1]
          ELSE \E n \in at :
                 g' = IF g.lr[c][n].hw
                      THEN [g EXCEPT !.lr[c][n].state = @ \ {"A"}, !.phys[k].state = @ \ {"A"}]
                      ELSE [g EXCEPT !.lr[c][n].state = @ \ {"A"}]
       /\ serving' = [serving EXCEPT ![c] = @ \ {i}]
       /\ UNCHANGED <<platform, inputs>>

Next ==
    \/ \E c, d \in Cpus, w \in Writes : vgicd_emul_handler(c, d, w)
    \/ \E c \in Cpus, on \in BOOLEAN : vgicd_emul_misc_access(c, on)
    \/ \E c \in Cpus, w \in SgiWrites, i \in SGIs : vgicd_emul_sgiregs_access(c, w, i)
    \/ \E c \in Cpus, i \in SPIs \ Hw : InjectVirq(c, i)
    \/ \E k \in DOMAIN g.phys : Device(k)
    \/ \E c \in Cpus, k \in DOMAIN g.phys : gic_handle(c, k)
    \/ \E c \in Cpus : HandleMsg(c) \/ gic_maintenance_handler(c)
    \/ \E c \in Cpus, n \in Lrs : Acknowledge(c, n)
    \/ \E c \in Cpus, i \in Ids : Eoi(c, i)

Spec == Init /\ [][Next]_vars

-----------------------------------------------------------------------------
(* Properties. *)

LrTypes == [id : Ids \cup {0}, state : States, prio : Prios \cup {0}, hw : BOOLEAN,
            eoi : BOOLEAN, cpuid : Cpus \cup {None}]
IntTypes == [owner : Cpus \cup {None}, state : States, prio : Prios, lr : Lrs,
             in_lr : BOOLEAN, enabled : BOOLEAN, tgt : SUBSET Cpus, irm : BOOLEAN,
             sgiPend : SUBSET Cpus, sgiAct : Cpus \cup {None}, next : Keys \cup {Nil}]

\* The vGIC is well typed; in particular a list register that is tied to a
\* physical interrupt never holds it pending and active, which the GIC does not
\* allow (vgic_write_lr).
TypeOK ==
    /\ build \in Versions /\ NUM_LRS \in LrCounts /\ inputs \in 0..MaxInputs[NUM_LRS]
    /\ serving \in [Cpus -> SUBSET Ids]
    /\ g.int \in [Keys -> IntTypes] /\ g.curr \in [Cpus -> [Lrs -> Ids \cup {0}]]
    /\ g.lr \in [Cpus -> [Lrs -> LrTypes]]
    /\ \A c \in Cpus, n \in Lrs : g.lr[c][n].hw => g.lr[c][n].state # {"P", "A"}
    /\ \A c \in Cpus : g.hcr[c] \in [en : BOOLEAN, np : BOOLEAN, u : BOOLEAN, eoicount : Nat]
    /\ \A c \in Cpus : \A n \in DOMAIN g.msg[c] : g.msg[c][n] \in Msgs
    /\ g.list \in [Cpus \cup {VM} -> [head : Keys \cup {Nil}, tail : Keys \cup {Nil}]]
    /\ g.spilt \in BOOLEAN
    /\ \A k \in DOMAIN g.phys : g.phys[k] \in [state : States, enabled : BOOLEAN, tgt : SUBSET Cpus]

Live(c, i) == {n \in Lrs : g.lr[c][n].id = i /\ g.lr[c][n].state # {}}

\* vgic_write_lr finds the interrupt it displaces by curr_lrs: it always names
\* what a live list register holds.
CurrLrsIsTrue ==
    \A c \in Cpus, n \in Lrs : g.lr[c][n].state # {} => g.curr[c][n] = g.lr[c][n].id

\* Ownership moves between cores by message while both change the interrupt
\* (vgic_int_set_field, vgic_yield_ownership): an interrupt a vCPU has active
\* keeps an owner when it leaves the list registers, so that no other core
\* takes it for its own.
ActiveKeepsOwner ==
    /\ TypeOK
    /\ CurrLrsIsTrue
    /\ \A k \in Keys : "A" \in g.int[k].state /\ ~g.int[k].in_lr => g.int[k].owner # None

\* Whatever the guest writes and wherever it moves it, a device's interrupt is
\* presented to one vCPU at a time and once (vgic_inject_hw, vgic_remove_lr).
DeviceInOneLr ==
    ~g.spilt => \A k \in DOMAIN g.phys :
        Cardinality({p \in Cpus \X Lrs : Key(p[1], k[2]) = k /\ p[2] \in Live(p[1], k[2])}) <= 1

\* As long as a vCPU has a device's interrupt in a list register, the physical
\* interrupt is active: the device cannot raise it again before the guest is
\* done with it (gic_handle, vgic_int_state_hw).
DeviceHeldWhileLive ==
    ~g.spilt => \A c \in Cpus : \A n \in Lrs :
        g.lr[c][n].hw /\ g.lr[c][n].state # {} => "A" \in g.phys[Key(c, g.lr[c][n].id)].state

\* A device's interrupt is with one vCPU, and with the device no longer.
DevicePresentedOnce == DeviceInOneLr /\ DeviceHeldWhileLive

\* A pending interrupt that is in no list register is disabled, has no target,
\* or a message is on its way to a core that will take it (vgic_route).
PendingIsOnItsWay ==
    ~g.spilt => \A k \in Keys :
        k[2] \in SPIs /\ g.int[k].state = {"P"} /\ g.int[k].enabled /\ g.int[k].tgt # {} =>
            \E c \in Cpus : \E n \in DOMAIN g.msg[c] :
                g.msg[c][n].ev = "ROUTE" /\ g.msg[c][n].id = k[2]
=============================================================================
