------------------------------- MODULE Psci -------------------------------
(***************************************************************************)
(* Power control of the vCPUs of an ARMv8 VM: src/arch/armv8/psci.c, the   *)
(* two profiles' psci.c and cpu.c, the start of a vCPU in                  *)
(* src/arch/armv8/vm.c and the idle loop of src/core/cpu.c.                *)
(*                                                                         *)
(* A vCPU has a core of its own and the core has its name.  The hypervisor *)
(* runs with interrupts masked, so a core is in one handler at a time, and *)
(* at says where.  A handler takes the psci_ctx lock of its OWN vCPU and   *)
(* no other: no two cores ever wait for the same lock, so the lock is left *)
(* out and every access of another vCPU's psci_ctx is a step.  The message *)
(* queue is the one of module CpuMsg; sending is one step here.            *)
(***************************************************************************)
EXTENDS Naturals, FiniteSets

CONSTANTS
    VCpus,      \* vCPUs of the VM
    Boot,       \* vCPU 0
    Firmwares,  \* what powering a core down does, see profile
    MaxCalls    \* bound: calls the guests make between them

ASSUME PsciAssumption ==
    /\ Boot \in VCpus /\ MaxCalls \in Nat
    /\ Firmwares \subseteq {"powers_down", "not_supported", "denied", "armv8_r"}

VARIABLES
    profile,        \* the firmware, or Armv8-R, which has none
    at,             \* vCPU -> where its core is
    call,           \* vCPU -> its CPU_ON call: [target, req]
    back,           \* vCPU -> where its core goes after its messages
    state,          \* vCPU -> psci_ctx.state
    entrypoint,     \* vCPU -> psci_ctx.entrypoint
    context_id,     \* vCPU -> psci_ctx.context_id
    regs,           \* vCPU -> [pc, x0] its guest was entered with last
    msgs,           \* vCPU -> PSCI_MSG_ON messages in the queue of its core
    ipi,            \* vCPU -> IPI_CPU_MSG is pending at its core
    calls,          \* calls the guests have made; the n-th one has entry point and context id n
    asked,          \* history: vCPU -> what it was last to be started with
    raced           \* history: vCPUs that two CPU_ON calls found OFF at the same time

ctxVars == <<state, entrypoint, context_id>>
msgVars == <<msgs, ipi>>
history == <<asked, raced>>
psciVars == <<profile, at, call, back, ctxVars, regs, msgVars, calls, history>>

\* vcpu_arch_init, vcpu_reset and the first vcpu_run: vCPU 0 is entered, the others are idle.
PsciInit ==
    /\ profile \in Firmwares
    /\ at = [v \in VCpus |-> IF v = Boot THEN "guest" ELSE "run"]
    /\ call = [v \in VCpus |-> [target |-> v, req |-> 0]]
    /\ back = [v \in VCpus |-> "run"]
    /\ state = [v \in VCpus |-> IF v = Boot THEN "ON" ELSE "OFF"]
    /\ entrypoint = [v \in VCpus |-> 0]
    /\ context_id = [v \in VCpus |-> 0]
    /\ regs = [v \in VCpus |-> [pc |-> 0, x0 |-> 0]]
    /\ msgs = [v \in VCpus |-> 0]
    /\ ipi = [v \in VCpus |-> FALSE]
    /\ calls = 0
    /\ asked = [v \in VCpus |-> 0]
    /\ raced = {}

\* The guest of v calls the hypervisor.
Calls(v) ==
    /\ at[v] = "guest"
    /\ calls < MaxCalls
    /\ calls' = calls + 1

Goto(v, place) == at' = [at EXCEPT ![v] = place]

\* cpu_idle.  The core powers down or waits for an interrupt, and comes back in
\* cpu_idle_wakeup either way.  A refusal other than NOT_SUPPORTED is an ERROR.
cpu_idle(v) == Goto(v, IF profile = "denied" THEN "stopped" ELSE "idle")

-----------------------------------------------------------------------------
(* psci_cpu_on_handler: the caller v, its target t.  A call that is refused *)
(* (ALREADY_ON, INVALID_PARAMS) changes nothing and is left out, and so are *)
(* the calls that only ask.                                                 *)

Between == {"pending", "entry", "context", "send"}

CpuOn(v) ==
    /\ Calls(v)
    /\ \E t \in VCpus :
          /\ state[t] = "OFF"
          /\ call' = [call EXCEPT ![v] = [target |-> t, req |-> calls']]
          /\ asked' = [asked EXCEPT ![t] = calls']
          /\ raced' = IF \E w \in VCpus \ {v} : at[w] \in Between /\ call[w].target = t
                      THEN raced \cup {t} ELSE raced
    /\ Goto(v, "pending")
    /\ UNCHANGED <<profile, back, ctxVars, regs, msgVars>>

\* Mutant: the message is sent before the context is written.
PendingThenSend(v) ==
    /\ at[v] = "pending"
    /\ state' = [state EXCEPT ![call[v].target] = "ON_PENDING"]
    /\ Goto(v, "send")
    /\ UNCHANGED <<profile, calls, call, back, entrypoint, context_id, regs, msgVars, history>>

WritePending(v) ==
    /\ at[v] = "pending"
    /\ state' = [state EXCEPT ![call[v].target] = "ON_PENDING"]
    /\ Goto(v, "entry")
    /\ UNCHANGED <<profile, calls, call, back, entrypoint, context_id, regs, msgVars, history>>

WriteEntrypoint(v) ==
    /\ at[v] = "entry"
    /\ entrypoint' = [entrypoint EXCEPT ![call[v].target] = call[v].req]
    /\ Goto(v, "context")
    /\ UNCHANGED <<profile, calls, call, back, state, context_id, regs, msgVars, history>>

WriteContextId(v) ==
    /\ at[v] = "context"
    /\ context_id' = [context_id EXCEPT ![call[v].target] = call[v].req]
    /\ Goto(v, "send")
    /\ UNCHANGED <<profile, calls, call, back, state, entrypoint, regs, msgVars, history>>

SendOn(v) ==
    LET t == call[v].target IN
    /\ at[v] = "send"
    /\ msgs' = [msgs EXCEPT ![t] = @ + 1]
    /\ ipi' = [ipi EXCEPT ![t] = TRUE]
    /\ Goto(v, "guest")
    /\ UNCHANGED <<profile, calls, call, back, ctxVars, regs, history>>

-----------------------------------------------------------------------------
(* psci_cpu_off_handler and psci_cpu_suspend_handler *)

CpuOff(v) ==
    /\ Calls(v)
    /\ state' = [state EXCEPT ![v] = "OFF"]
    /\ cpu_idle(v)
    /\ UNCHANGED <<profile, call, back, entrypoint, context_id, regs, msgVars, history>>

\* The firmware powers the core down or refuses; on Armv8-R it is a standby, after which
\* the guest goes on behind its call.
psci_power_down(v) ==
    \/ /\ profile = "powers_down"
       /\ Goto(v, "suspended")
       /\ asked' = [asked EXCEPT ![v] = calls']
    \/ profile = "armv8_r" /\ Goto(v, "standby") /\ UNCHANGED asked
    \/ profile \in {"not_supported", "denied"} /\ UNCHANGED <<at, asked>>

\* A power-down request.
CpuSuspend(v) ==
    /\ Calls(v)
    /\ entrypoint' = [entrypoint EXCEPT ![v] = calls']
    /\ context_id' = [context_id EXCEPT ![v] = calls']
    /\ psci_power_down(v)
    /\ UNCHANGED <<profile, call, back, state, regs, msgVars, raced>>

CpuStandby(v) ==
    /\ Calls(v)
    /\ Goto(v, "standby")
    /\ UNCHANGED <<profile, call, back, ctxVars, regs, msgVars, history>>

EndStandby(v) ==
    /\ at[v] = "standby"
    /\ Goto(v, "guest")
    /\ UNCHANGED <<profile, calls, call, back, ctxVars, regs, msgVars, history>>

\* psci_wake with psci_wake_from_powerdown, then vcpu_run.
psci_wake_from_powerdown(v) ==
    /\ at[v] = "suspended"
    /\ regs' = [regs EXCEPT ![v] = [pc |-> entrypoint[v], x0 |-> context_id[v]]]
    /\ Goto(v, "run")
    /\ UNCHANGED <<profile, calls, call, back, ctxVars, msgVars, history>>

-----------------------------------------------------------------------------
(* The idle loop and the messages. *)

\* Any interrupt wakes an idle core, not only a message.
Wake(v) ==
    /\ at[v] = "idle"
    /\ Goto(v, "woken")
    /\ UNCHANGED <<profile, calls, call, back, ctxVars, regs, msgVars, history>>

\* Mutant: the interrupt is cleared and the messages are left.
ClearOnly(v) ==
    /\ at[v] = "woken"
    /\ ipi' = [ipi EXCEPT ![v] = FALSE]
    /\ Goto(v, "run")
    /\ UNCHANGED <<profile, calls, call, back, ctxVars, regs, msgs, history>>

cpu_idle_wakeup(v) ==
    /\ at[v] = "woken"
    /\ ipi' = [ipi EXCEPT ![v] = FALSE]
    /\ back' = [back EXCEPT ![v] = "run"]
    /\ Goto(v, IF ipi[v] THEN "messages" ELSE "run")
    /\ UNCHANGED <<profile, calls, call, ctxVars, regs, msgs, history>>

\* The interrupt is taken from the guest.
TakeIpi(v) ==
    /\ at[v] = "guest" /\ ipi[v]
    /\ ipi' = [ipi EXCEPT ![v] = FALSE]
    /\ back' = [back EXCEPT ![v] = "guest"]
    /\ Goto(v, "messages")
    /\ UNCHANGED <<profile, calls, call, ctxVars, regs, msgs, history>>

cpu_msg_handler(v) ==
    /\ at[v] = "messages"
    /\ \/ /\ msgs[v] = 0
          /\ Goto(v, back[v])
          /\ UNCHANGED msgs
       \/ /\ msgs[v] > 0
          /\ msgs' = [msgs EXCEPT ![v] = @ - 1]
          /\ Goto(v, IF state[v] = "ON_PENDING" THEN "reset" ELSE "messages")
    /\ UNCHANGED <<profile, calls, call, back, ctxVars, regs, ipi, history>>

\* All registers are cleared but the program counter.
vcpu_arch_reset(v, entry) == regs' = [regs EXCEPT ![v] = [pc |-> entry, x0 |-> 0]]

\* psci_wake_from_off, after it has found ON_PENDING.
WakeReset(v) ==
    /\ at[v] = "reset"
    /\ vcpu_arch_reset(v, entrypoint[v])
    /\ Goto(v, "on")
    /\ UNCHANGED <<profile, calls, call, back, ctxVars, msgVars, history>>

WakeOn(v) ==
    /\ at[v] = "on"
    /\ state' = [state EXCEPT ![v] = "ON"]
    /\ Goto(v, "x0")
    /\ UNCHANGED <<profile, calls, call, back, entrypoint, context_id, regs, msgVars, history>>

WakeX0(v) ==
    /\ at[v] = "x0"
    /\ regs' = [regs EXCEPT ![v].x0 = context_id[v]]
    /\ Goto(v, "messages")
    /\ UNCHANGED <<profile, calls, call, back, ctxVars, msgVars, history>>

vcpu_arch_run(v) ==
    /\ at[v] = "run"
    /\ IF state[v] = "ON" THEN Goto(v, "guest") ELSE cpu_idle(v)
    /\ UNCHANGED <<profile, calls, call, back, ctxVars, regs, msgVars, history>>

-----------------------------------------------------------------------------

\* What the guest asks for.
Guest(v) == CpuOn(v) \/ CpuOff(v) \/ CpuSuspend(v) \/ CpuStandby(v)

\* What the hypervisor does when its core is in it.
Hypervisor(v) ==
    \/ WritePending(v) \/ WriteEntrypoint(v) \/ WriteContextId(v) \/ SendOn(v)
    \/ cpu_idle_wakeup(v) \/ cpu_msg_handler(v) \/ WakeReset(v) \/ WakeOn(v) \/ WakeX0(v)
    \/ vcpu_arch_run(v)

Interrupted(v) == Wake(v) \/ EndStandby(v) \/ psci_wake_from_powerdown(v)

PsciNext == \E v \in VCpus : Guest(v) \/ Hypervisor(v) \/ Interrupted(v) \/ TakeIpi(v)

PsciSpec == PsciInit /\ [][PsciNext]_psciVars

\* A core in the hypervisor goes on.  A pending interrupt wakes a core, and is taken sooner
\* or later from a guest however often the guest calls the hypervisor, for it cannot mask it.
Fairness ==
    \A v \in VCpus : /\ WF_psciVars(Hypervisor(v))
                     /\ WF_psciVars(ipi[v] /\ Interrupted(v))
                     /\ SF_psciVars(TakeIpi(v))

FairSpec == PsciSpec /\ Fairness

-----------------------------------------------------------------------------
(* Properties. *)

PowerTypes ==
    /\ state \in [VCpus -> {"ON", "OFF", "ON_PENDING"}]
    /\ at \in [VCpus -> Between \cup {"guest", "idle", "woken", "messages", "reset", "on", "x0",
                                      "run", "suspended", "standby", "stopped"}]
    /\ regs \in [VCpus -> [pc : 0..MaxCalls, x0 : 0..MaxCalls]]
    /\ msgs \in [VCpus -> Nat]
    /\ ipi \in [VCpus -> BOOLEAN]

\* A vCPU runs only when it is ON, and with entry point and context id of the one request
\* that last started or suspended it, whatever CPU_ON, CPU_OFF, suspend and wake-ups by
\* other interrupts came in between; one message is on its way at most.  (The condition is
\* what the lock would have to give: no two callers found the vCPU OFF at the same time.)
StartsAsAsked ==
    /\ PowerTypes
    /\ \A v \in VCpus \ raced :
          /\ at[v] \in {"guest", "standby", "suspended"} => state[v] = "ON"
          /\ at[v] = "guest" => regs[v] = [pc |-> asked[v], x0 |-> asked[v]]
          /\ msgs[v] <= 1 /\ (msgs[v] = 1 => state[v] = "ON_PENDING")

\* A vCPU that a CPU_ON call has made ON_PENDING is entered: the message reaches its core
\* while it goes to sleep, when it sleeps and when something else has just woken it.
PendingIsStarted ==
    \A v \in VCpus :
        (state[v] = "ON_PENDING" /\ profile # "denied")
            ~> (v \in raced \/ (state[v] = "ON" /\ at[v] = "guest"))
=============================================================================
