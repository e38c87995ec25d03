------------------------------- MODULE Vplic -------------------------------
(***************************************************************************)
(* The virtual interrupt controller of a VM, src/arch/riscv/vplic.c, with  *)
(* the physical PLIC under it (plic.c, and interrupts_handle of            *)
(* src/core/interrupts.c) and the rate limiter in front of it.             *)
(*                                                                         *)
(* vCPU c runs on core c, and context c is its S-mode context; the M-mode  *)
(* contexts are never looked at.  What happens under the vPLIC's lock is   *)
(* one step, and so is what follows the unlock.  A message to another core *)
(* is delivered (CpuMsg.tla has the details), several messages for a core  *)
(* act as one: each makes it look at the current state.  The enable,       *)
(* priority and threshold registers of the physical PLIC are written with  *)
(* the virtual ones, so they are not kept apart.  Time is left open: a     *)
(* refill adds some number of tokens (IrqRateLimit.tla has the clock).     *)
(***************************************************************************)
EXTENDS Integers

CONSTANTS
    Cpus,           \* the cores of the VM
    Irqs,           \* interrupt ids, from 1
    Hw,             \* those assigned to the VM's devices: vplic->hw
    MaxPrio,        \* priorities the guest uses
    max_tokens,     \* of a bucket
    max_deferred,   \* of a bucket
    MaxResets,      \* bound: recoveries of the VM that are followed
    MaxWrites       \* bound: register writes of the guest that are followed

ASSUME VplicAssumption ==
    /\ Irqs \subseteq Nat \ {0}
    /\ Hw \subseteq Irqs
    /\ {MaxPrio, max_tokens, MaxResets, MaxWrites} \subseteq Nat
    /\ max_deferred \in Nat \ {0}

VARIABLES
    pend, act, deferred,        \* bitmaps of struct vplic
    enbl, threshold, prio,      \* registers of struct vplic
    tokens, deferred_count,     \* of the buckets
    vseip,          \* hvip.VSEIP: the external interrupt line of the vCPU
    lineMsg,        \* cores with an UPDATE_HART_LINE message
    requests,       \* physical PLIC: devices whose request waits for a claim
    serving,        \* physical PLIC: claimed and not completed
    pc,             \* where the core is
    arg,            \* the interrupt the core is working on, 0 for none
    claimed,        \* guest: claimed on the vCPU and not completed
    resets,         \* number of recoveries so far
    writes,         \* number of register writes so far
    drained         \* history: became pending by a drain, and is still pending

bits    == <<pend, act, deferred>>
regs    == <<enbl, threshold, prio>>
buckets == <<tokens, deferred_count>>
plic    == <<requests, serving>>
history == <<resets, writes, drained>>
vars    == <<pend, act, deferred, enbl, threshold, prio, tokens, deferred_count,
             vseip, lineMsg, requests, serving, pc, arg, claimed, resets, writes,
             drained>>

\* The core goes on to label with interrupt i.
Goto(c, label, i) ==
    /\ pc' = [pc EXCEPT ![c] = label]
    /\ arg' = [arg EXCEPT ![c] = i]

-----------------------------------------------------------------------------
\* Of those of S that context c lets through, the one with the highest
\* priority, then with the lowest id; 0 for none.
Best(c, S) ==
    LET open == {i \in S \cap enbl[c] : prio[i] > threshold[c]}
    IN  IF open = {} THEN 0
        ELSE CHOOSE i \in open : \A j \in open :
                 prio[j] < prio[i] \/ (prio[j] = prio[i] /\ i <= j)

\* Mutant of vplic_next_pending: an active interrupt is not masked.
PendingOrActive(c) == Best(c, pend)

vplic_next_pending(c) == Best(c, pend \ act)

\* vplic_update_hart_line on core c for the contexts X: its own line follows the
\* new state, the other cores are sent a message.
vplic_update_hart_line(c, X) ==
    /\ vseip' = [d \in Cpus |-> IF d = c /\ c \in X
                               THEN (vplic_next_pending(c) # 0)' ELSE vseip[d]]
    /\ lineMsg' = lineMsg \cup (X \ {c})

Min2(x, y) == IF x < y THEN x ELSE y

\* irq_bucket_consume without a token: one more is deferred if there is room.
DeferOne(waiting) == Min2(waiting + 1, max_deferred)

\* Mutant of MarkDeferred: only the bucket knows of the deferred interrupt.
BitNotSet(i, waiting) == deferred

\* The bitmap of the deferred interrupts after vplic_inject, which marks what the
\* bucket defers and forgets what it drops.
MarkDeferred(i, waiting) ==
    deferred \cup IF waiting < max_deferred THEN {i} ELSE {}

-----------------------------------------------------------------------------
\* A VM whose guest has set up its controller.
Init ==
    /\ pend = {} /\ act = {} /\ deferred = {}
    /\ enbl \in [Cpus -> SUBSET Irqs]
    /\ threshold = [c \in Cpus |-> 0]
    /\ prio = [i \in Irqs |-> MaxPrio]
    /\ tokens = [i \in Irqs |-> max_tokens]
    /\ deferred_count = [i \in Irqs |-> 0]
    /\ vseip = [c \in Cpus |-> FALSE]
    /\ lineMsg = {}
    /\ requests = {} /\ serving = {}
    /\ pc = [c \in Cpus |-> "guest"]
    /\ arg = [c \in Cpus |-> 0]
    /\ claimed = [c \in Cpus |-> {}]
    /\ resets = 0 /\ writes = 0 /\ drained = {}

\* A device asks for service; its gateway passes one request at a time.
Request(i) ==
    /\ i \in Hw \ (requests \cup serving)
    /\ requests' = requests \cup {i}
    /\ UNCHANGED <<bits, regs, buckets, vseip, lineMsg, serving, pc, arg, claimed,
                   history>>

\* plic_handle: claim from the physical PLIC, then interrupts_handle forwards
\* the interrupt to the VM.
plic_handle(c) ==
    /\ pc[c] = "guest"
    /\ Best(c, requests) # 0
    /\ requests' = requests \ {Best(c, requests)}
    /\ serving' = serving \cup {Best(c, requests)}
    /\ Goto(c, "inject", Best(c, requests))
    /\ UNCHANGED <<bits, regs, buckets, vseip, lineMsg, claimed, history>>

\* ipc_notify: an interrupt without a device, injected on this core.
ipc_notify(c, i) ==
    /\ pc[c] = "guest"
    /\ i \notin Hw
    /\ Goto(c, "inject", i)
    /\ UNCHANGED <<bits, regs, buckets, vseip, lineMsg, plic, claimed, history>>

\* vplic_inject: unless it is pending already, the interrupt passes the rate
\* limiter (irq_bucket_consume: refill, drain, then allow, defer or drop) and
\* becomes pending, and the lines of the contexts concerned are updated.
vplic_inject(c) ==
    /\ pc[c] = "inject"
    /\ LET i == arg[c]
           heirs == IF i \in Hw THEN {c}
                    ELSE {x \in Cpus : i \in enbl[x] /\ prio[i] > threshold[x]}
       IN  \/ /\ i \in pend
              /\ UNCHANGED <<bits, buckets, vseip, lineMsg>>
           \/ /\ i \notin pend
              /\ \E t \in tokens[i] .. max_tokens :
                   LET out     == Min2(deferred_count[i], t)
                       left    == t - out
                       waiting == deferred_count[i] - out
                   IN  \/ /\ left > 0
                          /\ tokens' = [tokens EXCEPT ![i] = left - 1]
                          /\ deferred_count' = [deferred_count EXCEPT ![i] = waiting]
                          /\ pend' = pend \cup {i}
                          /\ UNCHANGED <<act, deferred, regs>>
                          /\ vplic_update_hart_line(c, heirs)
                       \/ /\ left = 0
                          /\ tokens' = [tokens EXCEPT ![i] = 0]
                          /\ deferred_count' = [deferred_count EXCEPT
                                                  ![i] = DeferOne(waiting)]
                          /\ deferred' = MarkDeferred(i, waiting)
                          /\ UNCHANGED <<pend, act, vseip, lineMsg>>
    /\ Goto(c, "guest", 0)
    /\ UNCHANGED <<regs, plic, claimed, history>>

\* vplic_ipi_handler: UPDATE_HART_LINE.
vplic_ipi_handler(c) ==
    /\ pc[c] = "guest"
    /\ c \in lineMsg
    /\ lineMsg' = lineMsg \ {c}
    /\ vseip' = [vseip EXCEPT ![c] = vplic_next_pending(c) # 0]
    /\ UNCHANGED <<bits, regs, buckets, plic, pc, arg, claimed, history>>

-----------------------------------------------------------------------------
\* vplic_claim, when the guest reads the claim register: the next pending
\* interrupt (0 if there is none any more, which is then marked active) becomes
\* active, and the deferred ones that get a token become pending.
vplic_claim(c) ==
    /\ pc[c] = "guest"
    /\ LET i == vplic_next_pending(c)
       IN  /\ act' = act \cup {i}
           /\ claimed' = [claimed EXCEPT ![c] = @ \cup ({i} \ {0})]
           /\ \E t \in [Irqs -> 0 .. max_tokens] :
                /\ \A j \in Irqs : IF j \in deferred THEN t[j] >= tokens[j]
                                   ELSE t[j] = tokens[j]
                /\ LET out == [j \in Irqs |-> IF j \in deferred
                                      THEN Min2(deferred_count[j], t[j]) ELSE 0]
                       back == {j \in Irqs : out[j] > 0}
                   IN  /\ pend' = (pend \ {i}) \cup back
                       /\ deferred' = deferred \ back
                       /\ drained' = (drained \ {i}) \cup (back \ (pend \ {i}))
                       /\ tokens' = [j \in Irqs |-> t[j] - out[j]]
                       /\ deferred_count' =
                              [j \in Irqs |-> deferred_count[j] - out[j]]
    /\ Goto(c, "line", 0)
    /\ UNCHANGED <<regs, vseip, lineMsg, plic, resets, writes>>

\* vplic_complete: a physical interrupt is completed first ...
vplic_complete(c, i) ==
    /\ pc[c] = "guest"
    /\ i \in claimed[c]
    /\ serving' = serving \ {i}
    /\ claimed' = [claimed EXCEPT ![c] = @ \ {i}]
    /\ Goto(c, "clear", i)
    /\ UNCHANGED <<bits, regs, buckets, vseip, lineMsg, requests, history>>

\* Mutant of ClearActive: the line is not looked at after the completion.
NoLineAfterComplete(c) ==
    /\ pc[c] = "clear"
    /\ act' = act \ {arg[c]}
    /\ Goto(c, "guest", 0)
    /\ UNCHANGED <<pend, deferred, regs, buckets, vseip, lineMsg, plic, claimed,
                   history>>

\* ... and then, under the lock, it is no longer active.
ClearActive(c) ==
    /\ pc[c] = "clear"
    /\ act' = act \ {arg[c]}
    /\ Goto(c, "line", 0)
    /\ UNCHANGED <<pend, deferred, regs, buckets, vseip, lineMsg, plic, claimed,
                   history>>

\* vplic_update_hart_line after the unlock.
UpdateOwnLine(c) ==
    /\ pc[c] = "line"
    /\ Goto(c, "guest", 0)
    /\ UNCHANGED <<bits, regs, buckets, plic, claimed, history>>
    /\ vplic_update_hart_line(c, {c})

\* The guest writes a register, which is followed MaxWrites times.
GuestWrites == writes < MaxWrites /\ writes' = writes + 1

\* vplic_set_enbl for context x: only the interrupts without a device make the
\* line follow.
vplic_set_enbl(c, x, i) ==
    /\ pc[c] = "guest"
    /\ enbl' = [enbl EXCEPT ![x] = IF i \in @ THEN @ \ {i} ELSE @ \cup {i}]
    /\ UNCHANGED <<bits, threshold, prio, buckets, plic, pc, arg, claimed, resets, drained>>
    /\ GuestWrites
    /\ vplic_update_hart_line(c, IF i \in Hw THEN {} ELSE {x})

\* vplic_set_prio: likewise, for the contexts that have the interrupt enabled.
vplic_set_prio(c, i, p) ==
    /\ pc[c] = "guest"
    /\ p # prio[i]
    /\ prio' = [prio EXCEPT ![i] = p]
    /\ UNCHANGED <<bits, enbl, threshold, buckets, plic, pc, arg, claimed, resets, drained>>
    /\ GuestWrites
    /\ vplic_update_hart_line(c,
           IF i \in Hw THEN {} ELSE {x \in Cpus : i \in enbl[x]})

\* vplic_set_threshold for context x; the line follows after the unlock, which
\* nothing can tell from before it.
vplic_set_threshold(c, x, p) ==
    /\ pc[c] = "guest"
    /\ threshold' = [threshold EXCEPT ![x] = p]
    /\ UNCHANGED <<bits, enbl, prio, buckets, plic, pc, arg, claimed, resets, drained>>
    /\ GuestWrites
    /\ vplic_update_hart_line(c, {x})

\* A recovery of the VM (VmRecovery.tla): vcpu_arch_reset clears hvip and the
\* guest starts anew; vm_recovery_execute does not touch the vPLIC.
VmRecovers ==
    /\ resets < MaxResets
    /\ \A c \in Cpus : pc[c] = "guest"
    /\ resets' = resets + 1
    /\ claimed' = [c \in Cpus |-> {}]
    /\ vseip' = [c \in Cpus |-> FALSE]
    /\ UNCHANGED <<bits, regs, buckets, lineMsg, plic, pc, arg, writes, drained>>

-----------------------------------------------------------------------------
Hypervisor(c) ==
    \/ plic_handle(c)
    \/ \E i \in Irqs : ipc_notify(c, i)
    \/ vplic_inject(c)
    \/ vplic_ipi_handler(c)
    \/ ClearActive(c)
    \/ UpdateOwnLine(c)

Guest(c) ==
    \/ vplic_claim(c)
    \/ \E i \in Irqs : vplic_complete(c, i)
    \/ \E x \in Cpus, i \in Irqs : vplic_set_enbl(c, x, i)
    \/ \E i \in Irqs, p \in 0 .. MaxPrio : vplic_set_prio(c, i, p)
    \/ \E x \in Cpus, p \in 0 .. MaxPrio : vplic_set_threshold(c, x, p)

Next ==
    \/ \E c \in Cpus : Hypervisor(c) \/ Guest(c)
    \/ \E i \in Irqs : Request(i)
    \/ VmRecovers

Spec == Init /\ [][Next]_vars

-----------------------------------------------------------------------------
\* Types; no bucket holds more than max_tokens, none defers more than
\* max_deferred interrupts.
TypeOK ==
    /\ pend \in SUBSET Irqs /\ act \in SUBSET (Irqs \cup {0})
    /\ deferred \in SUBSET Irqs
    /\ enbl \in [Cpus -> SUBSET Irqs]
    /\ threshold \in [Cpus -> Nat] /\ prio \in [Irqs -> Nat]
    /\ tokens \in [Irqs -> 0 .. max_tokens]
    /\ deferred_count \in [Irqs -> 0 .. max_deferred]
    /\ vseip \in [Cpus -> BOOLEAN] /\ lineMsg \in SUBSET Cpus
    /\ requests \in SUBSET Hw /\ serving \in SUBSET Hw
    /\ pc \in [Cpus -> {"guest", "inject", "clear", "line"}]
    /\ arg \in [Cpus -> Irqs \cup {0}]
    /\ claimed \in [Cpus -> SUBSET Irqs]
    /\ resets \in Nat /\ writes \in Nat /\ drained \in SUBSET Irqs

\* Core c of the guest services interrupt i: it has claimed it, or is in the
\* middle of completing it.
Services(c, i) == i \in claimed[c] \/ (pc[c] = "clear" /\ arg[c] = i)

\* An interrupt is serviced by one vCPU at a time, however often and to however
\* many vCPUs it is delivered, and masked all that time.  What is masked is being
\* serviced by somebody who will unmask it, until the VM is restarted: a recovery
\* leaves the controller as the old guest left it.
ServiceIsExclusive ==
    /\ TypeOK
    /\ \A c \in Cpus, i \in Irqs : Services(c, i) =>
          /\ i \in act
          /\ \A d \in Cpus : Services(d, i) => c = d
    /\ resets = 0 => \A i \in act \cap Irqs : \E c \in Cpus : Services(c, i)

\* A device whose request was claimed from the physical PLIC waits for the guest
\* to complete it, and would wait for ever if the vPLIC forgot it: it is on its
\* way in, deferred with a token to come, pending, or active.  The rate limiter
\* in particular never drops it.
PhysicalIrqIsHeld ==
    \A i \in serving :
        \/ \E c \in Cpus : pc[c] = "inject" /\ arg[c] = i
        \/ i \in deferred /\ deferred_count[i] > 0
        \/ i \in pend
        \/ i \in act

\* No interrupt waits unnoticed: while the guest leaves its configuration alone,
\* a pending interrupt that is not active and that some vCPU lets through has
\* the line of such a vCPU raised, or about to be looked at again.  Excepted are
\* the interrupts that a claim took out of the deferred ones: vplic_claim looks
\* only at the line of the claiming vCPU, which need not be one of theirs.
PendingIsSignalled ==
    writes = 0 /\ resets = 0 =>
        \A i \in pend \ (act \cup drained) :
            LET heirs == {c \in Cpus : Best(c, {i}) = i}
            IN  heirs # {} => \E c \in heirs : vseip[c] \/ c \in lineMsg \/ pc[c] = "line"
=============================================================================
